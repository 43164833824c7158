------------------------------ MODULE GuestSched ------------------------------
(***************************************************************************)
(* The cooperative scheduler of src/native/guest_threads.c: the thread     *)
(* table, the wait record of a thread, the wake-up helpers and the two     *)
(* host loops (mr_sched_run, mr_sched_service_idle).  The pthread shims    *)
(* that run inside a quantum are in the modules that extend this one.      *)
(*                                                                         *)
(* A shim that blocks leaves the thread's PC on its own thunk, so a woken  *)
(* thread executes the same call again: call[i] is that pending call.      *)
(* Deadlines are abstracted to "has one"; which of them have passed is     *)
(* chosen anew at each iteration of a loop.                                *)
(***************************************************************************)
EXTENDS Integers, FiniteSets

CONSTANTS
    Capacity,       \* s->capacity: the main thread and the worker slots
    Objects,        \* guest addresses a thread can wait on, and futex values
    NoObj           \* the zero of wait_obj and wait_aux

ASSUME CapacityAssumption == Capacity \in Nat \ {0}
ASSUME NoObjAssumption == NoObj \notin Objects

Slots == 0 .. Capacity - 1
Main == 0

VARIABLES
    thread,         \* s->threads: scheduling state and wait record of a slot
    call,           \* the thunk a slot's PC is parked on, NoCall when none
    current,        \* s->current
    loop,           \* which host loop runs: "host", "run", "idle", or how it failed
    inQuantum,      \* run_thread_quantum is executing thread[current]
    started         \* slots whose callback_started is set

schedVars == <<thread, call, current, loop, inQuantum, started>>

States == {"UNUSED", "RUNNABLE", "BLOCKED", "ZOMBIE"}
Waits == {"NONE", "MUTEX", "COND", "COND_MUTEX", "JOIN", "SLEEP", "ONCE",
          "FUTEX", "CALLBACK"}
Results == {"OK", "ETIMEDOUT"}
BlockingOps == {"none", "lock", "cond_wait", "join", "sleep", "once", "futex_wait"}

Thread == [state : States, wait : Waits, obj : Objects \cup {NoObj},
           aux : Objects \cup {NoObj}, timed : BOOLEAN, result : Results,
           ready : BOOLEAN]
Call == [op : BlockingOps, obj : Objects \cup {NoObj},
         aux : Objects \cup {NoObj}, timed : BOOLEAN]

NoCall == [op |-> "none", obj |-> NoObj, aux |-> NoObj, timed |-> FALSE]

-----------------------------------------------------------------------------
(* Wait records. *)

(* Definitions named X_... before a definition X are faulty variants of it, *)
(* kept to show which property notices the fault.                           *)
ClearWait_KeepsReady(t) ==
    [t EXCEPT !.wait = "NONE", !.obj = NoObj, !.aux = NoObj, !.timed = FALSE,
              !.result = "OK"]
ClearWait(t) ==
    [t EXCEPT !.wait = "NONE", !.obj = NoObj, !.aux = NoObj, !.timed = FALSE,
              !.result = "OK", !.ready = FALSE]

Blocked(t, kind, obj, aux, timed) ==
    [t EXCEPT !.state = "BLOCKED", !.wait = kind, !.obj = obj, !.aux = aux,
              !.timed = timed, !.ready = FALSE]

(* A notified waiter that finds its mutex taken: ready and its result stay. *)
Requeued(t) == [t EXCEPT !.state = "BLOCKED", !.wait = "COND_MUTEX", !.timed = FALSE]

Parked(t) == [ClearWait(t) EXCEPT !.state = "BLOCKED", !.wait = "CALLBACK"]

Unparked(t) == [ClearWait(t) EXCEPT !.state = "RUNNABLE"]

IsParked(t) == t.state = "BLOCKED" /\ t.wait = "CALLBACK"

(* make_runnable for every blocked member of S, with result r. *)
Woken(th, S, r) ==
    [i \in Slots |-> IF i \in S /\ th[i].state = "BLOCKED"
                     THEN [th[i] EXCEPT !.state = "RUNNABLE", !.result = r, !.ready = TRUE]
                     ELSE th[i]]

(* make_runnable with the result the thread already has. *)
WokenKeeping_Afresh(th, S) == Woken(th, S, "OK")
WokenKeeping(th, S) ==
    [i \in Slots |-> IF i \in S /\ th[i].state = "BLOCKED"
                     THEN [th[i] EXCEPT !.state = "RUNNABLE", !.ready = TRUE]
                     ELSE th[i]]

(* The members of S that a scan from the slot after s->current meets first. *)
Distance(i) == (i - current - 1) % Capacity
LowestOf(S) == IF S = {} THEN {} ELSE {CHOOSE i \in S : \A j \in S : i =< j}
FirstAfterCurrent_FromZero(S) == LowestOf(S)
FirstAfterCurrent(S) ==
    IF S = {} THEN {}
    ELSE {CHOOSE i \in S : \A j \in S : Distance(i) =< Distance(j)}

-----------------------------------------------------------------------------
(* One iteration of a host loop. *)

(* process_timeouts when exactly the deadlines of `expired` have passed. *)
TimedOut(th, expired) ==
    LET asleep == {i \in expired : th[i].wait = "SLEEP"}
        waits  == {i \in expired : th[i].wait \in {"COND", "FUTEX"}}
    IN  Woken(Woken(th, asleep, "OK"), waits, "ETIMEDOUT")

WithDeadline_Sleepers(th) ==
    {i \in Slots : th[i].state = "BLOCKED" /\ th[i].timed /\ th[i].wait = "SLEEP"}
WithDeadline(th) == {i \in Slots : th[i].state = "BLOCKED" /\ th[i].timed}
Runnable(th) == {i \in Slots : th[i].state = "RUNNABLE"}

(* pick_callback, then the main thread, then pick_worker. *)
Pick(th, workers, includeMain) ==
    LET callbacks == Runnable(th) \cap workers
    IN  IF callbacks # {} THEN LowestOf(callbacks)
        ELSE IF includeMain /\ Main \in Runnable(th) THEN {Main}
        ELSE FirstAfterCurrent(Runnable(th) \ {Main})

BeginQuantum(i, workers) ==
    /\ current' = i
    /\ inQuantum' = TRUE
    /\ started' = IF i \in workers THEN started \cup {i} ELSE started
    /\ UNCHANGED loop

(* The rest of an iteration, once timeouts and the audio pump left the      *)
(* thread table at `th`: run a thread, nap until the nearest deadline, or   *)
(* give up (mr_sched_run reports a deadlock, mr_sched_service_idle leaves). *)
Dispatch(th, workers) ==
    LET picked == Pick(th, workers, loop = "run")
    IN  /\ thread' = th
        /\ UNCHANGED call
        /\ \/ \E i \in picked : BeginQuantum(i, workers)
           \/ /\ picked = {}
              /\ loop' = IF loop = "idle" THEN "host"
                         ELSE IF WithDeadline(th) # {} THEN "run" ELSE "deadlock"
              /\ UNCHANGED <<current, inQuantum, started>>

AtLoopTop == loop \in {"run", "idle"} /\ ~inQuantum

(* mr_sched_run is entered with the main thread made runnable. *)
EnterRun ==
    /\ loop = "host"
    /\ loop' = "run"
    /\ thread' = [thread EXCEPT ![Main] = Unparked(@)]
    /\ UNCHANGED <<call, current, inQuantum, started>>

EnterIdle ==
    /\ loop = "host"
    /\ loop' = "idle"
    /\ UNCHANGED <<thread, call, current, inQuantum, started>>

(* The instruction or time budget of mr_sched_service_idle is used up. *)
LeaveIdle ==
    /\ AtLoopTop
    /\ loop = "idle"
    /\ loop' = "host"
    /\ UNCHANGED <<thread, call, current, inQuantum, started>>

-----------------------------------------------------------------------------
(* Inside a quantum. *)

(* The current thread is about to execute the shim call op: either it is    *)
(* the call its PC is parked on, or none is pending and the guest makes it. *)
Executing(op) == inQuantum /\ call[current] \in {NoCall, op}

AnyCall == inQuantum /\ call[current] = NoCall

(* The shim returns and the thread goes on. *)
Returns ==
    /\ call' = [call EXCEPT ![current] = NoCall]
    /\ UNCHANGED <<current, loop, inQuantum, started>>

(* thunk_blocked: the PC stays on the thunk and the quantum ends. *)
Blocks(op) ==
    /\ call' = [call EXCEPT ![current] = op]
    /\ inQuantum' = FALSE
    /\ UNCHANGED <<current, loop, started>>

(* The main thread reaches stop_addr, in its quantum or when it has just    *)
(* ended: the loop is left before anything else happens.                    *)
MainReturns ==
    /\ AnyCall
    /\ loop = "run"
    /\ current = Main
    /\ loop' = "host"
    /\ inQuantum' = FALSE
    /\ UNCHANGED <<thread, call, current, started>>

(* The quantum is used up, or the thread yields.  A pending call is         *)
(* executed before the first such point of a quantum.                       *)
EndQuantum ==
    /\ AnyCall
    /\ inQuantum' = FALSE
    /\ UNCHANGED <<thread, call, current, loop, started>>

(* A fault of the running thread halts the main CPU and both loops. *)
GuestFault ==
    /\ inQuantum
    /\ loop' = "fault"
    /\ inQuantum' = FALSE
    /\ UNCHANGED <<thread, call, current, started>>

(* A callback worker returns through MR_THREAD_RETURN_MAGIC and is parked. *)
CallbackReturns(workers) ==
    /\ AnyCall
    /\ current \in workers
    /\ thread' = [thread EXCEPT ![current] = Parked(@)]
    /\ started' = started \ {current}
    /\ inQuantum' = FALSE
    /\ UNCHANGED <<call, current, loop>>

SchedTypeOK ==
    /\ thread \in [Slots -> Thread]
    /\ call \in [Slots -> Call]
    /\ current \in Slots
    /\ loop \in {"host", "run", "idle", "fault", "deadlock"}
    /\ inQuantum \in BOOLEAN
    /\ started \in SUBSET Slots
=============================================================================
