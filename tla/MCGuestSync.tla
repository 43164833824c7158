------------------------------ MODULE MCGuestSync ------------------------------
(* Three small crews of GuestSync for TLC: callback workers that share one     *)
(* object of every kind; plain workers with a mutex and a futex of two values; *)
(* and plain workers with more mutexes than the table has room for.  A         *)
(* behaviour is of one crew, which leaves the other objects alone.             *)
EXTENDS GuestSync

CONSTANTS m1, m2, c1, f1, w0, w1

Callbacks == INSTANCE GuestSync WITH Mutexes <- {m1}, Words <- {w0}
Plain == INSTANCE GuestSync WITH CallbackWorkers <- {}
Waiters == INSTANCE GuestSync WITH
    CallbackWorkers <- {}, Mutexes <- {m1}, Conds <- {}, MaxRecursion <- 1
Lockers == INSTANCE GuestSync WITH
    CallbackWorkers <- {}, Conds <- {}, Futexes <- {}, MaxRecursion <- 1

VARIABLE crew

MCInit ==
    /\ crew \in {"callbacks", "waiters", "lockers"}
    /\ IF crew = "callbacks" THEN Init ELSE Plain!Init
    /\ crew # "waiters" => word = [u \in Futexes |-> w0]

MCNext ==
    /\ UNCHANGED crew
    /\ \/ crew = "callbacks" /\ Callbacks!Next
       \/ crew = "waiters" /\ Waiters!Next
       \/ crew = "lockers" /\ Lockers!Next

(* The fairness is that of the host loops, and only the turns need it. *)
MCSpec ==
    /\ MCInit /\ [][MCNext]_<<crew, vars>>
    /\ \/ crew = "callbacks"
       \/ crew # "callbacks" /\ Plain!Fairness
-----------------------------------------------------------------------------
(* GuestSync: the plain workers are served in turn. *)
WorkersTakeTurns == crew # "callbacks" => Plain!RoundRobin
=============================================================================
