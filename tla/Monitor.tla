-------------------------------- MODULE Monitor --------------------------------
(***************************************************************************)
(* What pthread mutexes and condition variables promise a guest, without   *)
(* scheduler, wait records or retries: a monitor with Mesa semantics.  A   *)
(* thread in "entry" waits for a mutex, one that is "waiting" has released *)
(* its mutex atomically with the wait, and one that is "notified" comes    *)
(* back only by taking that mutex again, with the outcome it was given.    *)
(***************************************************************************)
EXTENDS Integers, FiniteSets

CONSTANTS Threads, Mutexes, Conds, NoOwner, Nothing

VARIABLES
    owner,      \* who holds a mutex
    depth,      \* how many times
    stage       \* where each thread is

vars == <<owner, depth, stage>>

StageWith(at, m, c, timed, outcome) ==
    [at |-> at, mutex |-> m, cond |-> c, timed |-> timed, outcome |-> outcome]
Running == StageWith("running", Nothing, Nothing, FALSE, "OK")
Entry(m) == StageWith("entry", m, Nothing, FALSE, "OK")
Waiting(c, m, timed) == StageWith("waiting", m, c, timed, "OK")
Notified(s, outcome) == StageWith("notified", s.mutex, s.cond, FALSE, outcome)

Init ==
    /\ owner = [m \in Mutexes |-> NoOwner]
    /\ depth = [m \in Mutexes |-> 0]
    /\ stage = [i \in Threads |-> Running]

Release(i, m) ==
    /\ owner[m] = i
    /\ depth' = [depth EXCEPT ![m] = @ - 1]
    /\ owner' = IF depth[m] > 1 THEN owner ELSE [owner EXCEPT ![m] = NoOwner]

Acquire(i, m) ==
    /\ owner[m] \in {NoOwner, i}
    /\ owner' = [owner EXCEPT ![m] = i]
    /\ depth' = [depth EXCEPT ![m] = @ + 1]

(* A lock call: entered at once, or after queueing behind another owner. *)
Enter(i, m) ==
    /\ stage[i] \in {Running, Entry(m)}
    /\ Acquire(i, m)
    /\ stage' = [stage EXCEPT ![i] = Running]

Queue(i, m) ==
    /\ stage[i] = Running
    /\ owner[m] \notin {NoOwner, i}
    /\ stage' = [stage EXCEPT ![i] = Entry(m)]
    /\ UNCHANGED <<owner, depth>>

Leave(i, m) ==
    /\ stage[i] = Running
    /\ Release(i, m)
    /\ UNCHANGED stage

Wait(i, c, m, timed) ==
    /\ stage[i] = Running
    /\ Release(i, m)
    /\ stage' = [stage EXCEPT ![i] = Waiting(c, m, timed)]

WaitersOf(c) == {i \in Threads : stage[i].at = "waiting" /\ stage[i].cond = c}

NotifyAll(S, outcome) ==
    /\ stage' = [i \in Threads |-> IF i \in S THEN Notified(stage[i], outcome) ELSE stage[i]]
    /\ UNCHANGED <<owner, depth>>

SignalOne(c) == \E i \in WaitersOf(c) : NotifyAll({i}, "OK")
BroadcastAll(c) == NotifyAll(WaitersOf(c), "OK")

(* Deadlines pass; several may be noticed together. *)
Expire(S) ==
    /\ \A i \in S : stage[i].at = "waiting" /\ stage[i].timed
    /\ NotifyAll(S, "ETIMEDOUT")

Resume(i) ==
    /\ stage[i].at = "notified"
    /\ Acquire(i, stage[i].mutex)
    /\ stage' = [stage EXCEPT ![i] = Running]

Next ==
    \/ \E i \in Threads, m \in Mutexes :
        \/ Enter(i, m) \/ Queue(i, m) \/ Leave(i, m)
        \/ \E c \in Conds, timed \in BOOLEAN : Wait(i, c, m, timed)
    \/ \E c \in Conds : SignalOne(c) \/ BroadcastAll(c)
    \/ \E S \in SUBSET Threads : Expire(S)
    \/ \E i \in Threads : Resume(i)

Spec == Init /\ [][Next]_vars
=============================================================================
