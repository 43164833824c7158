------------------------------- MODULE GuestSync -------------------------------
(***************************************************************************)
(* Mutexes, condition variables, futexes, sleeping and callback workers of *)
(* src/native/guest_threads.c, for a fixed set of threads.                 *)
(*                                                                         *)
(* Every shim is one action: the scheduler is cooperative, so a shim runs  *)
(* to its end, and the interleaving is that of quanta.  A shim that        *)
(* returns an error and changes nothing is a step that only ends the call. *)
(***************************************************************************)
EXTENDS GuestSched

CONSTANTS
    Mutexes, Conds, Futexes,    \* guest addresses, by use
    Words,                      \* values a futex word holds
    CallbackWorkers,            \* the slots that are OpenSL callback workers
    MaxMutexes, MaxConds,       \* MR_MAX_MUTEXES, MR_MAX_CONDS
    MaxRecursion                \* UINT_MAX of mutex_try_acquire

ASSUME ObjectsAssumption == Mutexes \cup Conds \cup Futexes \cup Words \subseteq Objects
ASSUME WorkersAssumption == CallbackWorkers \subseteq Slots \ {Main}
ASSUME RecursionAssumption == MaxRecursion \in Nat \ {0}

VARIABLES
    mutex,          \* s->mutexes by address
    conds,          \* the addresses registered in s->conds
    word            \* guest memory at the futex addresses

vars == <<schedVars, mutex, conds, word>>

NoOwner == -1
MutexTypes == {"NORMAL", "RECURSIVE", "ERRORCHECK"}
Mutex == [used : BOOLEAN, owner : Slots \cup {NoOwner}, rec : Nat, type : MutexTypes]
NoMutex == [used |-> FALSE, owner |-> NoOwner, rec |-> 0, type |-> "NORMAL"]
NewMutex(type) == [NoMutex EXCEPT !.used = TRUE, !.type = type]

NewThread == [state |-> "RUNNABLE", wait |-> "NONE", obj |-> NoObj, aux |-> NoObj,
              timed |-> FALSE, result |-> "OK", ready |-> FALSE]

Init ==
    /\ thread = [i \in Slots |-> IF i \in CallbackWorkers THEN Parked(NewThread)
                                 ELSE NewThread]
    /\ call = [i \in Slots |-> NoCall]
    /\ current = Main
    /\ loop = "host"
    /\ inQuantum = FALSE
    /\ started = {}
    /\ mutex = [m \in Mutexes |-> NoMutex]
    /\ conds = {}
    /\ word \in [Futexes -> Words]

syncVars == <<mutex, conds, word>>

-----------------------------------------------------------------------------
(* An iteration of either loop: timeouts, callbacks posted by the audio     *)
(* pump to parked workers, and the pick.                                    *)
Iterate(expired, posted) ==
    LET late == TimedOut(thread, expired)
        th == [i \in Slots |-> IF i \in posted THEN Unparked(late[i]) ELSE late[i]]
    IN  /\ AtLoopTop
        /\ Dispatch(th, CallbackWorkers)
        /\ UNCHANGED syncVars

(* mr_sched_cancel_callback, as the audio shim calls it on behalf of the    *)
(* current thread: a posted callback that has not started is parked again.  *)
CancelCallback(i) ==
    /\ AnyCall
    /\ i \in CallbackWorkers \ {current}
    /\ thread[i].state = "RUNNABLE"
    /\ i \notin started
    /\ thread' = [thread EXCEPT ![i] = Parked(@)]
    /\ UNCHANGED <<call, current, loop, inQuantum, started, syncVars>>

-----------------------------------------------------------------------------
(* Mutexes. *)

Registered(m) == mutex[m].used
Registry == {m \in Mutexes : Registered(m)}
RoomForMutex == Cardinality(Registry) < MaxMutexes

(* mutex_find(s, addr, 1): a static initializer is registered on first use. *)
Found(m) == Registered(m) \/ RoomForMutex
Lookup(m) == IF Registered(m) THEN mutex[m] ELSE NewMutex("NORMAL")

MutexWaiters(m) ==
    {i \in Slots : /\ thread[i].state = "BLOCKED"
                   /\ \/ thread[i].wait = "MUTEX" /\ thread[i].obj = m
                      \/ thread[i].wait = "COND_MUTEX" /\ thread[i].aux = m}

CanReenter(m) == m.type = "RECURSIVE" /\ m.rec < MaxRecursion
Acquirable(m) == m.owner = NoOwner \/ (m.owner = current /\ CanReenter(m))
Acquired(m) == [m EXCEPT !.owner = current, !.rec = @ + 1]

(* mutex_lock_common: acquired, or EDEADLK, EAGAIN, and for a trylock EBUSY.*)
LockCall(m) == [NoCall EXCEPT !.op = "lock", !.obj = m]
Take(m) ==
    /\ Found(m)
    /\ Acquirable(Lookup(m))
    /\ mutex' = [mutex EXCEPT ![m] = Acquired(Lookup(m))]
    /\ thread' = [thread EXCEPT ![current] = ClearWait(@)]
    /\ Returns
    /\ UNCHANGED <<conds, word>>

Lock(m) ==
    /\ Executing(LockCall(m))
    /\ \/ Take(m)
       \/ /\ Registered(m)
          /\ mutex[m].owner \notin {NoOwner, current}
          /\ thread' = [thread EXCEPT ![current] = Blocked(@, "MUTEX", m, NoObj, FALSE)]
          /\ Blocks(LockCall(m))
          /\ UNCHANGED syncVars
       \/ /\ ~Found(m) \/ (mutex[m].owner = current /\ ~CanReenter(mutex[m]))
          /\ Returns
          /\ UNCHANGED <<thread, syncVars>>

TryLock(m) == AnyCall /\ Take(m)

(* mutex_unlock_owned: what it leaves in the mutex and the thread table. *)
Owns(m) == Registered(m) /\ mutex[m].owner = current
Unlocked_Outright(m) == [mutex EXCEPT ![m].owner = NoOwner, ![m].rec = 0]
Unlocked(m) ==
    IF mutex[m].rec > 1 THEN [mutex EXCEPT ![m].rec = @ - 1]
    ELSE [mutex EXCEPT ![m].owner = NoOwner, ![m].rec = 0]
HandedOn_LockersOnly(m) ==
    LET lockers == {i \in MutexWaiters(m) : thread[i].wait = "MUTEX"}
    IN  IF mutex[m].rec > 1 THEN thread
        ELSE WokenKeeping(thread, FirstAfterCurrent(lockers))
HandedOn(m) ==
    IF mutex[m].rec > 1 THEN thread
    ELSE WokenKeeping(thread, FirstAfterCurrent(MutexWaiters(m)))

Unlock(m) ==
    /\ AnyCall
    /\ Owns(m)
    /\ mutex' = Unlocked(m)
    /\ thread' = HandedOn(m)
    /\ Returns
    /\ UNCHANGED <<conds, word>>

(* Threads whose wait record names m as the mutex they need. *)
NamesMutex_Asleep(i, m) ==
    /\ thread[i].state = "BLOCKED"
    /\ \/ thread[i].wait = "MUTEX" /\ thread[i].obj = m
       \/ thread[i].wait \in {"COND", "COND_MUTEX"} /\ thread[i].aux = m
NamesMutex(i, m) ==
    \/ thread[i].wait = "MUTEX" /\ thread[i].obj = m
    \/ thread[i].wait \in {"COND", "COND_MUTEX"} /\ thread[i].aux = m

(* The guest initializes a mutex nobody holds or waits for. *)
InitMutex(m, type) ==
    /\ AnyCall
    /\ mutex[m].owner = NoOwner
    /\ \A i \in Slots : ~NamesMutex(i, m)
    /\ Found(m)
    /\ mutex' = [mutex EXCEPT ![m] = NewMutex(type)]
    /\ Returns
    /\ UNCHANGED <<thread, conds, word>>

DestroyMutex(m) ==
    /\ AnyCall
    /\ Registered(m)
    /\ mutex[m].owner = NoOwner
    /\ \A i \in Slots : thread[i].state # "ZOMBIE" => ~NamesMutex(i, m)
    /\ mutex' = [mutex EXCEPT ![m] = NoMutex]
    /\ Returns
    /\ UNCHANGED <<thread, conds, word>>

-----------------------------------------------------------------------------
(* Condition variables. *)

CondFound(c) == c \in conds \/ Cardinality(conds) < MaxConds
WithCond(c) == IF CondFound(c) THEN conds \cup {c} ELSE conds

CondWaiters(c) ==
    {i \in Slots : thread[i].state = "BLOCKED" /\ thread[i].wait = "COND"
                   /\ thread[i].obj = c}
NamesCond(i, c) ==
    thread[i].wait \in {"COND", "COND_MUTEX"} /\ thread[i].obj = c

WaitCall(c, m, timed) == [op |-> "cond_wait", obj |-> c, aux |-> m, timed |-> timed]

(* The retry branch of cond_wait_common. *)
IsCondRetry(c, m) ==
    NamesCond(current, c) /\ thread[current].aux = m /\ thread[current].ready

CondWaitEnter(c, m, timed) ==
    /\ ~IsCondRetry(c, m)
    /\ CondFound(c)
    /\ Owns(m)
    /\ mutex' = Unlocked(m)
    /\ thread' = [HandedOn(m) EXCEPT ![current] = Blocked(@, "COND", c, m, timed)]
    /\ Blocks(WaitCall(c, m, timed))

CondWaitRetry(c, m, timed) ==
    /\ IsCondRetry(c, m)
    /\ CondFound(c)
    /\ Registered(m)
    /\ \/ /\ mutex[m].owner \notin {NoOwner, current}
          /\ thread' = [thread EXCEPT ![current] = Requeued(@)]
          /\ Blocks(WaitCall(c, m, timed))
          /\ UNCHANGED mutex
       \/ /\ mutex[m].owner \in {NoOwner, current}
          /\ mutex' = IF Acquirable(mutex[m])
                      THEN [mutex EXCEPT ![m] = Acquired(@)] ELSE mutex
          /\ thread' = [thread EXCEPT ![current] = ClearWait(@)]
          /\ Returns

(* EINVAL and EPERM: the call returns and leaves the wait record as it is.   *)
CondWaitFails(c, m) ==
    /\ \/ ~CondFound(c)
       \/ ~Registered(m)
       \/ ~IsCondRetry(c, m) /\ ~Owns(m)
    /\ Returns
    /\ UNCHANGED <<thread, mutex>>

CondWait(c, m, timed) ==
    /\ Executing(WaitCall(c, m, timed))
    /\ conds' = WithCond(c)
    /\ UNCHANGED word
    /\ \/ CondWaitEnter(c, m, timed)
       \/ CondWaitRetry(c, m, timed)
       \/ CondWaitFails(c, m)

Notify(c, waiters) ==
    /\ AnyCall
    /\ conds' = WithCond(c)
    /\ thread' = Woken(thread, waiters, "OK")
    /\ Returns
    /\ UNCHANGED <<mutex, word>>

Signal(c) == Notify(c, FirstAfterCurrent(CondWaiters(c)))
Broadcast(c) == Notify(c, CondWaiters(c))
InitCond(c) == Notify(c, {})

DestroyCond(c) ==
    /\ AnyCall
    /\ c \in conds
    /\ \A i \in Slots : thread[i].state # "ZOMBIE" => ~NamesCond(i, c)
    /\ conds' = conds \ {c}
    /\ Returns
    /\ UNCHANGED <<thread, mutex, word>>

-----------------------------------------------------------------------------
(* Futexes and sleeping. *)

FutexCall(u, v, timed) == [op |-> "futex_wait", obj |-> u, aux |-> v, timed |-> timed]
FutexWait(u, v, timed) ==
    LET op == FutexCall(u, v, timed)
        t == thread[current]
    IN  /\ Executing(op)
        /\ UNCHANGED syncVars
        /\ \/ /\ t.wait = "FUTEX" /\ t.obj = u /\ t.ready
              /\ thread' = [thread EXCEPT ![current] = ClearWait(@)]
              /\ Returns
           \/ /\ ~(t.wait = "FUTEX" /\ t.obj = u /\ t.ready)
              /\ word[u] = v
              /\ thread' = [thread EXCEPT ![current] = Blocked(@, "FUTEX", u, v, timed)]
              /\ Blocks(op)

FutexWaiters(u) ==
    {i \in Slots : thread[i].state = "BLOCKED" /\ thread[i].wait = "FUTEX"
                   /\ thread[i].obj = u}

(* The first `most` waiters in slot order. *)
FirstWaiters(u, most) ==
    {i \in FutexWaiters(u) : Cardinality({j \in FutexWaiters(u) : j < i}) < most}

FutexWake(u, most) ==
    /\ AnyCall
    /\ thread' = Woken(thread, FirstWaiters(u, most), "OK")
    /\ Returns
    /\ UNCHANGED syncVars

Store(u, v) ==
    /\ AnyCall
    /\ word' = [word EXCEPT ![u] = v]
    /\ UNCHANGED <<schedVars, mutex, conds>>

SleepCall == [NoCall EXCEPT !.op = "sleep", !.timed = TRUE]
Sleep ==
    /\ Executing(SleepCall)
    /\ UNCHANGED syncVars
    /\ \/ /\ thread[current].wait = "SLEEP" /\ thread[current].ready
          /\ thread' = [thread EXCEPT ![current] = ClearWait(@)]
          /\ Returns
       \/ /\ ~(thread[current].wait = "SLEEP" /\ thread[current].ready)
          /\ thread' = [thread EXCEPT ![current] = Blocked(@, "SLEEP", NoObj, NoObj, TRUE)]
          /\ Blocks(SleepCall)

-----------------------------------------------------------------------------
HostStep ==
    /\ EnterRun \/ EnterIdle \/ LeaveIdle \/ MainReturns \/ EndQuantum \/ GuestFault
       \/ CallbackReturns(CallbackWorkers)
    /\ UNCHANGED syncVars

LoopStep ==
    \E expired \in SUBSET WithDeadline(thread),
       posted \in SUBSET {i \in CallbackWorkers : IsParked(thread[i])} :
        Iterate(expired, posted)

MutexStep ==
    \E m \in Mutexes :
        \/ Lock(m) \/ TryLock(m) \/ Unlock(m) \/ DestroyMutex(m)
        \/ \E type \in MutexTypes : InitMutex(m, type)

CondStep ==
    \E c \in Conds :
        \/ Signal(c) \/ Broadcast(c) \/ InitCond(c) \/ DestroyCond(c)
        \/ \E m \in Mutexes, timed \in BOOLEAN : CondWait(c, m, timed)

FutexStep ==
    \E u \in Futexes, v \in Words :
        \/ \E timed \in BOOLEAN : FutexWait(u, v, timed)
        \/ Store(u, v)
        \/ \E most \in 1 .. Capacity : FutexWake(u, most)

Next ==
    \/ HostStep
    \/ LoopStep
    \/ MutexStep
    \/ CondStep
    \/ FutexStep
    \/ Sleep
    \/ \E i \in CallbackWorkers : CancelCallback(i)

Spec == Init /\ [][Next]_vars

-----------------------------------------------------------------------------
TypeOK ==
    /\ SchedTypeOK
    /\ mutex \in [Mutexes -> Mutex]
    /\ conds \in SUBSET Conds
    /\ word \in [Futexes -> Words]

(* A woken thread's retry finds its wait record.  The PC of a thread is      *)
(* parked on a blocking shim exactly when its wait record is the one that    *)
(* shim left, and it runs only after a wake-up: a record left over from an   *)
(* earlier call would make cond_wait skip its wait, or a sleep return at     *)
(* once.                                                                     *)
Fits(t, k) ==
    /\ k.op = "none" => k = NoCall /\ t.wait \in {"NONE", "CALLBACK"}
    /\ k.op = "lock" => t.wait = "MUTEX" /\ t.obj = k.obj
    /\ k.op = "cond_wait" => /\ t.wait \in {"COND", "COND_MUTEX"}
                             /\ t.obj = k.obj
                             /\ t.aux = k.aux
    /\ k.op = "sleep" => t.wait = "SLEEP"
    /\ k.op = "futex_wait" => t.wait = "FUTEX" /\ t.obj = k.obj
    /\ t.state = "BLOCKED" => t.wait # "NONE"
    /\ t.state = "RUNNABLE" => (t.ready <=> k.op # "none")
    /\ k.op = "none" /\ t.state = "RUNNABLE" => t.wait = "NONE"
RetryFindsItsRecord == \A i \in Slots : Fits(thread[i], call[i])

(* Objects outlive their waiters.  The mutex and the condition variable a    *)
(* pending call needs stay registered until it returns: destroy refuses      *)
(* while a wait record names them, also a record of a thread already woken.  *)
(* Were one gone, cond_wait would return EINVAL without the mutex and        *)
(* pthread_mutex_lock would silently make a new one.                         *)
WaitersKeepObjects ==
    \A i \in Slots :
        /\ call[i].op = "lock" => call[i].obj \in Registry
        /\ call[i].op = "cond_wait" => call[i].aux \in Registry /\ call[i].obj \in conds

(* Bookkeeping the properties rest on: every slot holds a live thread and a  *)
(* callback that has not started has made no call; nobody queues for a mutex *)
(* it holds; a recursion count is kept exactly while a mutex is owned, and   *)
(* only registered mutexes are; the thread in its quantum is runnable, and   *)
(* the main thread is inside no shim when the host gets control back.        *)
ThreadsLive ==
    \A i \in Slots :
        /\ thread[i].state \in {"RUNNABLE", "BLOCKED"}
        /\ call[i].op \in {"none", "lock", "cond_wait", "sleep", "futex_wait"}
        /\ i \in CallbackWorkers \ started => call[i].op = "none"
NeverWaitsForItself ==
    \A i \in Slots : call[i].op = "lock" => mutex[call[i].obj].owner # i
CountsMatch ==
    \A m \in Mutexes :
        /\ (mutex[m].owner = NoOwner) <=> (mutex[m].rec = 0)
        /\ ~mutex[m].used => mutex[m].owner = NoOwner
RunnerKnown ==
    /\ inQuantum => /\ loop \in {"run", "idle"}
                    /\ thread[current].state = "RUNNABLE"
                    /\ current \in CallbackWorkers => current \in started
                    /\ loop = "idle" => current # Main
    /\ loop \in {"host", "idle"} => call[Main].op = "none"

(* A thread that will try to take m the next time it runs. *)
Contends(i, m) ==
    thread[i].state = "RUNNABLE" /\ thread[i].ready /\ NamesMutex(i, m)

(* No lost mutex wake-up.  While a mutex is free and threads are blocked on  *)
(* it, one of its waiters has been woken and will try it again: nobody waits *)
(* for an unlock that already happened, whatever the woken thread, a barging *)
(* thread, a timeout and a signal do in between.                             *)
NoLostMutexWakeup ==
    \A m \in Mutexes :
        mutex[m].owner = NoOwner /\ MutexWaiters(m) # {}
            => \E i \in Slots : Contends(i, m)

(* "guest-thread deadlock: no runnable thread" is reported of real deadlocks *)
(* only: nothing has a deadline, and each thread waiting for a mutex waits   *)
(* for one whose owner is itself blocked.                                    *)
DeadlockIsReal ==
    loop = "deadlock" =>
        /\ \A i \in Slots : thread[i].state = "BLOCKED" /\ ~thread[i].timed
        /\ \A m \in Mutexes : MutexWaiters(m) # {} => mutex[m].owner # NoOwner

(* A wake-up is delivered once.  The outcome a signal or a timeout gave a    *)
(* waiter is the one its call returns, also when it has to queue for the     *)
(* mutex first: no timeout turns a consumed signal into ETIMEDOUT, and no    *)
(* signal is spent on a thread that has already timed out.                   *)
OutcomeKept ==
    [][\A i \in Slots :
         LET served == thread[i].ready \/ thread[i].wait = "COND_MUTEX"
         IN  served /\ call[i].op # "none" /\ call'[i] = call[i]
                => thread'[i].result = thread[i].result]_vars

(* Ownership moves through the running thread alone.  A mutex is taken when  *)
(* free and released by its owner, both only by the thread in its quantum:   *)
(* an unlock, a timeout or a signal never hands it to a waiter.              *)
OwnershipMovesByRunner ==
    [][\A m \in Mutexes :
         LET before == mutex[m].owner
             after == mutex'[m].owner
         IN  before # after => inQuantum /\ {before, after} = {current, NoOwner}]_vars

(* The monitor this module implements: the entry queue is the set of pending *)
(* lock calls, and a cond_wait is waiting until a wake-up reaches it.        *)
StageOf(i) ==
    LET k == call[i]
        t == thread[i]
        asleep == t.state = "BLOCKED" /\ t.wait = "COND"
    IN  [at |-> CASE k.op = "lock" -> "entry"
                  [] k.op = "cond_wait" /\ asleep -> "waiting"
                  [] k.op = "cond_wait" /\ ~asleep -> "notified"
                  [] OTHER -> "running",
         mutex |-> CASE k.op = "lock" -> k.obj
                     [] k.op = "cond_wait" -> k.aux
                     [] OTHER -> NoObj,
         cond |-> IF k.op = "cond_wait" THEN k.obj ELSE NoObj,
         timed |-> k.op = "cond_wait" /\ asleep /\ t.timed,
         outcome |-> IF k.op = "cond_wait" THEN t.result ELSE "OK"]

Owners == [m \in Mutexes |-> mutex[m].owner]
Depths == [m \in Mutexes |-> mutex[m].rec]
Stages == [i \in Slots |-> StageOf(i)]

Abstract == INSTANCE Monitor WITH
    Threads <- Slots,
    Nothing <- NoObj,
    owner <- Owners,
    depth <- Depths,
    stage <- Stages

(* The shims implement the monitor: cond_wait releases and waits in one      *)
(* step, one signal releases one waiter, and nobody comes back from a wait   *)
(* without holding the mutex.                                                *)
ImplementsMonitor == Abstract!Spec

-----------------------------------------------------------------------------
(* Fairness.  The host keeps entering mr_sched_run, the loop iterates, a     *)
(* resumed shim is executed and the quantum bounds a thread's run: all are   *)
(* steps of straight-line host code.  Nothing is assumed of the guest.       *)
RetryStep == call[current] # NoCall /\ (MutexStep \/ CondStep \/ FutexStep \/ Sleep)

Fairness ==
    /\ WF_vars(EnterRun /\ UNCHANGED syncVars)
    /\ WF_vars(LoopStep)
    /\ WF_vars(RetryStep)
    /\ WF_vars(EndQuantum /\ UNCHANGED syncVars)

FairSpec == Spec /\ Fairness

(* Workers share the processor in turn.  While the main thread stays blocked *)
(* in mr_sched_run and no callback is runnable, a worker that stays runnable *)
(* is given quantum after quantum, however many other workers spin.          *)
OnlyWorkersRun ==
    /\ loop = "run"
    /\ Runnable(thread) \cap (CallbackWorkers \cup {Main}) = {}
RoundRobin ==
    \A i \in Slots \ {Main} :
        <>[](OnlyWorkersRun /\ thread[i].state = "RUNNABLE")
            => []<>(inQuantum /\ current = i)
=============================================================================
