------------------------------- MODULE PcmQueue -------------------------------
(***************************************************************************)
(* What an OpenSL buffer queue promises a guest: buffers are played in the *)
(* order they were enqueued, byte after byte, a buffer is finished when    *)
(* its last byte has been played, and the callbacks that are made are      *)
(* those of finished buffers, one each.                                    *)
(***************************************************************************)
EXTENDS Naturals, Sequences

CONSTANT Sizes

VARIABLES
    backlog,    \* bytes left to play of each unfinished buffer
    finished,   \* buffers finished since the queue was last cleared
    called      \* buffers whose callback was made or given up

vars == <<backlog, finished, called>>

Init == backlog = <<>> /\ finished = 0 /\ called = 0

Enqueue ==
    /\ \E n \in Sizes : backlog' = Append(backlog, n)
    /\ UNCHANGED <<finished, called>>

Play ==
    /\ backlog # <<>>
    /\ \E n \in 1 .. Head(backlog) :
        IF n = Head(backlog)
        THEN backlog' = Tail(backlog) /\ finished' = finished + 1
        ELSE backlog' = [backlog EXCEPT ![1] = @ - n] /\ UNCHANGED finished
    /\ UNCHANGED called

Callback ==
    /\ called < finished
    /\ called' = called + 1
    /\ UNCHANGED <<backlog, finished>>

(* Another callback function is registered, or the queue is cleared. *)
GiveUp == called' \in called .. finished /\ UNCHANGED <<backlog, finished>>
Clear == backlog' = <<>> /\ finished' = 0 /\ called' = 0

(* Without an output, everything queued counts as played at once. *)
Skip ==
    /\ backlog' = <<>>
    /\ finished' = finished + Len(backlog)
    /\ called' \in {called, called + 1}
    /\ called' =< finished'

Next == Enqueue \/ Play \/ Callback \/ GiveUp \/ Clear \/ Skip

Spec == Init /\ [][Next]_vars
=============================================================================
