------------------------------ MODULE ThreadLife ------------------------------
(***************************************************************************)
(* What pthread_create, join and detach promise about thread identifiers,  *)
(* without slots: an identifier is given out once, its thread ends once,   *)
(* and it is collected once - by one join or, when detached, by its end.   *)
(* A thread that waits in a join waits for a thread that has not ended.    *)
(***************************************************************************)
EXTENDS Naturals

CONSTANTS Tids, First, Nobody

VARIABLES
    status,     \* what became of an identifier
    waits       \* whom each thread is waiting for in pthread_join

vars == <<status, waits>>

Alive == {"joinable", "detached"}

Init ==
    /\ status = [t \in Tids |-> IF t = First THEN "joinable" ELSE "never"]
    /\ waits = [t \in Tids |-> Nobody]

(* Only t changes.  (The value of t is compared first, since these formulas  *)
(* are only ever evaluated on given steps.)                                  *)
Moves(t, to) == status'[t] = to /\ status' = [status EXCEPT ![t] = to]

Create(t) ==
    /\ status[t] = "never"
    /\ \E s \in Alive : Moves(t, s)
    /\ UNCHANGED waits

(* The end of a thread releases everybody who waits for it. *)
End(t) ==
    /\ status[t] \in Alive
    /\ Moves(t, IF status[t] = "detached" THEN "gone" ELSE "ended")
    /\ waits' = [j \in Tids |-> IF waits[j] = t THEN Nobody ELSE waits[j]]

Detach(t) ==
    /\ status[t] \in {"joinable", "ended"}
    /\ Moves(t, IF status[t] = "ended" THEN "gone" ELSE "detached")
    /\ UNCHANGED waits

Wait(j) ==
    /\ waits[j] = Nobody /\ waits'[j] # Nobody
    /\ status[j] \in Alive
    /\ \E t \in Tids \ {j} : /\ status[t] = "joinable"
                             /\ waits' = [waits EXCEPT ![j] = t]
    /\ UNCHANGED status

Collect(t) ==
    /\ status[t] = "ended"
    /\ Moves(t, "gone")
    /\ UNCHANGED waits

Next == \E t \in Tids : Create(t) \/ End(t) \/ Detach(t) \/ Collect(t) \/ Wait(t)

Spec == Init /\ [][Next]_vars
=============================================================================
