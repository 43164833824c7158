---------------------------- MODULE MCGuestThreads ----------------------------
(* Small instances of GuestThreads for TLC. *)
EXTENDS GuestThreads, TLC

CONSTANTS o1, o2, o3

MCObjects == {o1, o2, o3} \cup Tids

(* The guest is one of three programs: one that makes and joins threads, one *)
(* whose threads share once controls, and one with thread-specific data.     *)
VARIABLE program

Programs == {"joins", "once", "keys"}

MCInit == Init /\ program \in Programs

(* How many threads a program makes, and in how many slots. *)
Bound == CASE program = "joins" -> [tids |-> MaxTid, slots |-> Capacity]
           [] program = "once" -> [tids |-> 3, slots |-> Capacity]
           [] program = "keys" -> [tids |-> 3, slots |-> 2]

MCNext ==
    /\ UNCHANGED program
    /\ \/ HostStep \/ LoopStep
       \/ \E i \in Slots : CancelCallback(i)
       \/ program # "once" /\ LifeStep
       \/ program = "keys" /\ KeyStep
       \/ program = "once" /\ (Create(TRUE) \/ ThreadReturns \/ OnceStep)
    /\ nextTid' =< Bound.tids + 1
    /\ \A i \in Slots : i >= Bound.slots => thread'[i].state = "UNUSED"

MCSpec == MCInit /\ [][MCNext]_<<vars, program>>

OnceSymmetry == Permutations({o1, o2, o3})
=============================================================================
