---------------------------- MODULE GuestSyncProofs ----------------------------
(***************************************************************************)
(* Proofs about GuestSync, for every capacity, every set of mutexes,       *)
(* condition variables and futexes and every table size.                   *)
(***************************************************************************)
EXTENDS GuestSync, GuestSchedProofs

USE CapacityAssumption, NoObjAssumption, ObjectsAssumption, WorkersAssumption,
    RecursionAssumption

-----------------------------------------------------------------------------
(* Type correctness. *)

(* The state after mr_sched_init has the types.                              *)
LEMMA InitType == Init => TypeOK
<1> SUFFICES ASSUME Init PROVE TypeOK
  OBVIOUS
<1>1. NewThread \in Thread
  BY DEF NewThread, Thread, States, Waits, Results
<1>2. thread \in [Slots -> Thread]
  BY <1>1, RecordTypes DEF Init
<1>3. NoCall \in Call
  BY DEF NoCall, Call, BlockingOps
<1>4. NoMutex \in Mutex
  BY DEF NoMutex, Mutex, MutexTypes, NoOwner
<1> QED
  BY <1>2, <1>3, <1>4, MainIsSlot DEF Init, TypeOK, SchedTypeOK

(* What the two ends of a shim, and the mutex helpers, leave well typed. *)
LEMMA CallTypes ==
    /\ NoCall \in Call
    /\ SleepCall \in Call
    /\ \A m \in Mutexes : LockCall(m) \in Call
    /\ \A c \in Conds, m \in Mutexes, timed \in BOOLEAN : WaitCall(c, m, timed) \in Call
    /\ \A u \in Futexes, v \in Words, timed \in BOOLEAN : FutexCall(u, v, timed) \in Call
BY DEF NoCall, SleepCall, LockCall, WaitCall, FutexCall, Call, BlockingOps

(* Taking, releasing and renewing a mutex keep a mutex a mutex.              *)
LEMMA MutexTypesKept ==
    ASSUME TypeOK, NEW m \in Mutexes
    PROVE  /\ Acquired(mutex[m]) \in Mutex
           /\ Lookup(m) \in Mutex
           /\ Acquired(Lookup(m)) \in Mutex
           /\ \A type \in MutexTypes : NewMutex(type) \in Mutex
           /\ NoMutex \in Mutex
           /\ Unlocked(m) \in [Mutexes -> Mutex]
           /\ HandedOn(m) \in [Slots -> Thread]
<1>1. mutex[m] \in Mutex /\ current \in Slots
  BY DEF TypeOK, SchedTypeOK
<1>2. NoMutex \in Mutex /\ \A type \in MutexTypes : NewMutex(type) \in Mutex
  BY DEF NoMutex, NewMutex, Mutex, MutexTypes, NoOwner
<1>3. Lookup(m) \in Mutex
  BY <1>1, <1>2 DEF Lookup, MutexTypes
<1>4. ASSUME NEW x \in Mutex
      PROVE  Acquired(x) \in Mutex
  <2>1. x.rec + 1 \in Nat
    BY DEF Mutex
  <2>2. [x EXCEPT !.owner = current, !.rec = x.rec + 1] \in Mutex
    BY <1>1, <2>1 DEF Mutex
  <2> QED
    BY <2>2 DEF Acquired
<1>5. Unlocked(m) \in [Mutexes -> Mutex]
  <2>1. CASE mutex[m].rec > 1
    <3>1. [mutex[m] EXCEPT !.rec = @ - 1] \in Mutex
      BY <1>1, <2>1 DEF Mutex
    <3> QED
      BY <2>1, <3>1 DEF Unlocked, TypeOK
  <2>2. CASE ~(mutex[m].rec > 1)
    <3>1. [[mutex[m] EXCEPT !.owner = NoOwner] EXCEPT !.rec = 0] \in Mutex
      BY <1>1 DEF Mutex, NoOwner
    <3> QED
      BY <2>2, <3>1 DEF Unlocked, TypeOK
  <2> QED
    BY <2>1, <2>2
<1>6. HandedOn(m) \in [Slots -> Thread]
  BY WokenTypes DEF HandedOn, TypeOK, SchedTypeOK, Results
<1> QED
  BY <1>1, <1>2, <1>3, <1>4, <1>5, <1>6

(* Host loop steps keep the types. *)
LEMMA HostStepType == ASSUME TypeOK, HostStep PROVE TypeOK'
<1> USE DEF TypeOK, SchedTypeOK
<1>1. CASE EnterRun
  BY <1>1, RecordTypes, MainIsSlot DEF HostStep, EnterRun, syncVars
<1>2. CASE EnterIdle \/ LeaveIdle \/ MainReturns \/ EndQuantum \/ GuestFault
  BY <1>2 DEF HostStep, EnterIdle, LeaveIdle, MainReturns, EndQuantum, GuestFault, syncVars
<1>3. CASE CallbackReturns(CallbackWorkers)
  BY <1>3, RecordTypes DEF HostStep, CallbackReturns, syncVars
<1> QED
  BY <1>1, <1>2, <1>3 DEF HostStep

(* The table an iteration hands to the pick. *)
LEMMA PostedType ==
    ASSUME TypeOK, NEW expired, NEW posted
    PROVE  [i \in Slots |-> IF i \in posted THEN Unparked(TimedOut(thread, expired)[i])
                            ELSE TimedOut(thread, expired)[i]] \in [Slots -> Thread]
BY TimedOutType, RecordTypes DEF TypeOK, SchedTypeOK

(* An iteration keeps the types.                                             *)
LEMMA IterateType ==
    ASSUME TypeOK, NEW expired, NEW posted, Iterate(expired, posted)
    PROVE  TypeOK'
<1> DEFINE th == [i \in Slots |-> IF i \in posted THEN Unparked(TimedOut(thread, expired)[i])
                                  ELSE TimedOut(thread, expired)[i]]
<1>1. th \in [Slots -> Thread]
  BY PostedType
<1>2. AtLoopTop /\ Dispatch(th, CallbackWorkers) /\ UNCHANGED syncVars
  BY DEF Iterate
<1> HIDE DEF th
<1>3. Pick(th, CallbackWorkers, loop = "run") \subseteq Slots
  BY <1>1, PickedIsRunnable DEF Runnable, TypeOK, SchedTypeOK
<1>4. /\ thread' \in [Slots -> Thread] /\ call' \in [Slots -> Call]
      /\ current' \in Slots /\ inQuantum' \in BOOLEAN /\ started' \in SUBSET Slots
      /\ loop' \in {"host", "run", "idle", "fault", "deadlock"}
  BY <1>1, <1>2, <1>3 DEF Dispatch, BeginQuantum, AtLoopTop, TypeOK, SchedTypeOK
<1> QED
  BY <1>2, <1>4 DEF TypeOK, SchedTypeOK, syncVars

(* The mutex shims keep the types.                                           *)
LEMMA MutexStepType == ASSUME TypeOK, MutexStep PROVE TypeOK'
<1> PICK m \in Mutexes :
        \/ Lock(m) \/ TryLock(m) \/ Unlock(m) \/ DestroyMutex(m)
        \/ \E type \in MutexTypes : InitMutex(m, type)
  BY DEF MutexStep
<1>1. /\ Acquired(Lookup(m)) \in Mutex
      /\ \A type \in MutexTypes : NewMutex(type) \in Mutex
      /\ NoMutex \in Mutex
      /\ Unlocked(m) \in [Mutexes -> Mutex]
      /\ HandedOn(m) \in [Slots -> Thread]
  BY MutexTypesKept
<1>2. /\ ClearWait(thread[current]) \in Thread
      /\ Blocked(thread[current], "MUTEX", m, NoObj, FALSE) \in Thread
  BY RecordTypes DEF TypeOK, SchedTypeOK, Waits
<1> USE CallTypes DEF TypeOK, SchedTypeOK
<1>3. CASE Take(m)
  BY <1>1, <1>2, <1>3 DEF Take, Returns
<1>4. CASE Lock(m)
  <2>1. CASE Blocks(LockCall(m)) /\ UNCHANGED syncVars
             /\ thread' = [thread EXCEPT ![current] = Blocked(@, "MUTEX", m, NoObj, FALSE)]
    BY <1>2, <2>1 DEF Blocks, syncVars
  <2>2. CASE Returns /\ UNCHANGED <<thread, syncVars>>
    BY <2>2 DEF Returns, syncVars
  <2> QED
    BY <1>3, <1>4, <2>1, <2>2 DEF Lock
<1>5. CASE Unlock(m)
  BY <1>1, <1>5 DEF Unlock, Returns
<1>6. CASE DestroyMutex(m)
  BY <1>1, <1>6 DEF DestroyMutex, Returns
<1>7. CASE \E type \in MutexTypes : InitMutex(m, type)
  BY <1>1, <1>7 DEF InitMutex, Returns
<1> QED
  BY <1>3, <1>4, <1>5, <1>6, <1>7 DEF TryLock

(* The condition variable shims keep the types.                              *)
LEMMA CondStepType == ASSUME TypeOK, CondStep PROVE TypeOK'
<1> PICK c \in Conds :
        \/ Signal(c) \/ Broadcast(c) \/ InitCond(c) \/ DestroyCond(c)
        \/ \E m \in Mutexes, timed \in BOOLEAN : CondWait(c, m, timed)
  BY DEF CondStep
<1>1. WithCond(c) \in SUBSET Conds
  BY DEF WithCond, TypeOK
<1>2. \A S : Woken(thread, S, "OK") \in [Slots -> Thread]
  BY WokenTypes DEF TypeOK, SchedTypeOK, Results
<1>3. CASE Signal(c) \/ Broadcast(c) \/ InitCond(c)
  <2>1. PICK S : Notify(c, S)
    BY <1>3 DEF Signal, Broadcast, InitCond
  <2> QED
    BY <1>1, <1>2, <2>1, CallTypes DEF Notify, Returns, TypeOK, SchedTypeOK
<1>4. CASE DestroyCond(c)
  BY <1>4, CallTypes DEF DestroyCond, Returns, TypeOK, SchedTypeOK
<1>5. ASSUME NEW m \in Mutexes, NEW timed \in BOOLEAN, CondWait(c, m, timed)
      PROVE  TypeOK'
  <2>1. conds' \in SUBSET Conds /\ word' = word
    BY <1>1, <1>5 DEF CondWait
  <2>2. CASE CondWaitEnter(c, m, timed)
    <3>1. Unlocked(m) \in [Mutexes -> Mutex] /\ HandedOn(m) \in [Slots -> Thread]
      BY MutexTypesKept
    <3>2. Blocked(HandedOn(m)[current], "COND", c, m, timed) \in Thread
      BY <3>1, RecordTypes DEF TypeOK, SchedTypeOK, Waits
    <3> QED
      BY <2>1, <2>2, <3>1, <3>2, CallTypes DEF CondWaitEnter, Blocks, TypeOK, SchedTypeOK
  <2>3. CASE CondWaitRetry(c, m, timed)
    <3>2. CASE /\ thread' = [thread EXCEPT ![current] = Requeued(@)]
               /\ Blocks(WaitCall(c, m, timed))
               /\ UNCHANGED mutex
      <4>1. Requeued(thread[current]) \in Thread
        BY RecordTypes DEF TypeOK, SchedTypeOK
      <4>2. thread' \in [Slots -> Thread]
        BY <3>2, <4>1 DEF TypeOK, SchedTypeOK
      <4> QED
        BY <2>1, <3>2, <4>2, CallTypes DEF Blocks, TypeOK, SchedTypeOK
    <3>3. CASE /\ mutex' = IF Acquirable(mutex[m])
                           THEN [mutex EXCEPT ![m] = Acquired(@)] ELSE mutex
               /\ thread' = [thread EXCEPT ![current] = ClearWait(@)]
               /\ Returns
      <4>1. Acquired(mutex[m]) \in Mutex
        BY MutexTypesKept
      <4>2. ClearWait(thread[current]) \in Thread
        BY RecordTypes DEF TypeOK, SchedTypeOK
      <4> QED
        BY <2>1, <3>3, <4>1, <4>2, CallTypes DEF Returns, TypeOK, SchedTypeOK
    <3> QED
      BY <2>3, <3>2, <3>3 DEF CondWaitRetry
  <2>4. CASE CondWaitFails(c, m)
    BY <2>1, <2>4, CallTypes DEF CondWaitFails, Returns, TypeOK, SchedTypeOK
  <2> QED
    BY <1>5, <2>2, <2>3, <2>4 DEF CondWait
<1> QED
  BY <1>3, <1>4, <1>5

(* Futexes, sleeping and cancelled callbacks keep the types.                 *)
LEMMA WaitStepType ==
    ASSUME TypeOK,
           FutexStep \/ Sleep \/ \E i \in CallbackWorkers : CancelCallback(i)
    PROVE  TypeOK'
<1>1. /\ ClearWait(thread[current]) \in Thread
      /\ Blocked(thread[current], "SLEEP", NoObj, NoObj, TRUE) \in Thread
      /\ \A u \in Futexes, v \in Words, timed \in BOOLEAN :
            Blocked(thread[current], "FUTEX", u, v, timed) \in Thread
      /\ \A i \in Slots : Parked(thread[i]) \in Thread
  BY RecordTypes DEF TypeOK, SchedTypeOK, Waits
<1>2. \A S : Woken(thread, S, "OK") \in [Slots -> Thread]
  BY WokenTypes DEF TypeOK, SchedTypeOK, Results
<1>3. CASE Sleep
  <2>1. thread' \in [Slots -> Thread]
    BY <1>1, <1>3 DEF Sleep, TypeOK, SchedTypeOK
  <2>2. call' \in [Slots -> Call] /\ inQuantum' \in BOOLEAN
    BY <1>3, CallTypes DEF Sleep, Returns, Blocks, TypeOK, SchedTypeOK
  <2> QED
    BY <1>3, <2>1, <2>2 DEF Sleep, Returns, Blocks, syncVars, TypeOK, SchedTypeOK
<1>4. CASE \E i \in CallbackWorkers : CancelCallback(i)
  BY <1>1, <1>4 DEF CancelCallback, syncVars, TypeOK, SchedTypeOK
<1>5. ASSUME NEW u \in Futexes, NEW v \in Words, NEW timed \in BOOLEAN, FutexWait(u, v, timed)
      PROVE  TypeOK'
  <2>1. thread' \in [Slots -> Thread]
    BY <1>1, <1>5 DEF FutexWait, TypeOK, SchedTypeOK
  <2>2. call' \in [Slots -> Call] /\ inQuantum' \in BOOLEAN
    <3>1. Returns \/ Blocks(FutexCall(u, v, timed))
      BY <1>5 DEF FutexWait
    <3>2. FutexCall(u, v, timed) \in Call
      BY CallTypes
    <3> QED
      BY <3>1, <3>2, CallTypes DEF Returns, Blocks, TypeOK, SchedTypeOK
  <2> QED
    BY <1>5, <2>1, <2>2 DEF FutexWait, Returns, Blocks, syncVars, TypeOK, SchedTypeOK
<1>6. ASSUME NEW u \in Futexes, NEW v \in Words, Store(u, v)
      PROVE  TypeOK'
  BY <1>6 DEF Store, schedVars, TypeOK, SchedTypeOK
<1>7. ASSUME NEW u \in Futexes, NEW most, FutexWake(u, most)
      PROVE  TypeOK'
  BY <1>2, <1>7, CallTypes DEF FutexWake, Returns, syncVars, TypeOK, SchedTypeOK
<1> QED
  BY <1>3, <1>4, <1>5, <1>6, <1>7 DEF FutexStep

(* Every step keeps the types.                                               *)
LEMMA TypeStep == TypeOK /\ [Next]_vars => TypeOK'
<1> SUFFICES ASSUME TypeOK, [Next]_vars PROVE TypeOK'
  OBVIOUS
<1>1. CASE HostStep
  BY <1>1, HostStepType
<1>2. CASE LoopStep
  BY <1>2, IterateType DEF LoopStep
<1>3. CASE MutexStep
  BY <1>3, MutexStepType
<1>4. CASE CondStep
  BY <1>4, CondStepType
<1>5. CASE FutexStep \/ Sleep \/ \E i \in CallbackWorkers : CancelCallback(i)
  BY <1>5, WaitStepType
<1>6. CASE UNCHANGED vars
  BY <1>6 DEF vars, schedVars, TypeOK, SchedTypeOK
<1> QED
  BY <1>1, <1>2, <1>3, <1>4, <1>5, <1>6 DEF Next

(* Every reachable state is well typed: the thread table, the pending calls  *)
(* and the mutex table keep their shape through every shim, timeout and      *)
(* callback, s->current stays an index of the table, and a recursion count   *)
(* never falls below zero.                                                   *)
THEOREM TypeCorrect == Spec => []TypeOK
<1>1. Init => TypeOK
  BY InitType
<1>2. TypeOK /\ [Next]_vars => TypeOK'
  BY TypeStep
<1> QED
  BY <1>1, <1>2, PTL DEF Spec

-----------------------------------------------------------------------------
(* The inductive invariant.  NoLostMutexWakeup is not inductive alone: that  *)
(* the woken thread really tries the mutex again needs its wait record to be *)
(* the one its pending call left, and to be cleared by nobody else.          *)

Sane ==
    /\ TypeOK /\ ThreadsLive /\ RunnerKnown /\ RetryFindsItsRecord
    /\ WaitersKeepObjects /\ NeverWaitsForItself

SyncOps == {"none", "lock", "cond_wait", "sleep", "futex_wait"}

(* What a wait-record helper leaves fits the pending call it is used with.   *)
LEMMA FitsAfter ==
    ASSUME NEW t \in Thread, t.state = "RUNNABLE"
    PROVE  /\ Fits(ClearWait(t), NoCall)
           /\ \A m : Fits(Blocked(t, "MUTEX", m, NoObj, FALSE), LockCall(m))
           /\ \A c, m : \A timed \in BOOLEAN : Fits(Blocked(t, "COND", c, m, timed), WaitCall(c, m, timed))
           /\ \A u, v : \A timed \in BOOLEAN : Fits(Blocked(t, "FUTEX", u, v, timed), FutexCall(u, v, timed))
           /\ Fits(Blocked(t, "SLEEP", NoObj, NoObj, TRUE), SleepCall)
<1>1. /\ ClearWait(t).state = "RUNNABLE" /\ ClearWait(t).wait = "NONE"
      /\ ClearWait(t).ready = FALSE
  BY DEF Thread, ClearWait
<1>2. ASSUME NEW kind, NEW o, NEW a, NEW timed
      PROVE  /\ Blocked(t, kind, o, a, timed).state = "BLOCKED"
             /\ Blocked(t, kind, o, a, timed).wait = kind
             /\ Blocked(t, kind, o, a, timed).obj = o
             /\ Blocked(t, kind, o, a, timed).aux = a
  BY DEF Thread, Blocked
<1>3. Fits(ClearWait(t), NoCall)
  BY <1>1 DEF Fits, NoCall
<1>4. ASSUME NEW m
      PROVE  Fits(Blocked(t, "MUTEX", m, NoObj, FALSE), LockCall(m))
  <2> DEFINE b == Blocked(t, "MUTEX", m, NoObj, FALSE)
             k == LockCall(m)
  <2>1. k.op = "lock" /\ k.obj = m
    BY DEF LockCall, NoCall
  <2>2. b.state = "BLOCKED" /\ b.wait = "MUTEX" /\ b.obj = m
    BY DEF Thread, Blocked
  <2> HIDE DEF b, k
  <2>3. Fits(b, k)
    BY <2>1, <2>2 DEF Fits
  <2> QED
    BY <2>3 DEF b, k
<1>5. \A c, m : \A timed \in BOOLEAN : Fits(Blocked(t, "COND", c, m, timed), WaitCall(c, m, timed))
  BY <1>2 DEF Fits, WaitCall
<1>6. \A u, v : \A timed \in BOOLEAN : Fits(Blocked(t, "FUTEX", u, v, timed), FutexCall(u, v, timed))
  BY <1>2 DEF Fits, FutexCall
<1>7. Fits(Blocked(t, "SLEEP", NoObj, NoObj, TRUE), SleepCall)
  <2> DEFINE b == Blocked(t, "SLEEP", NoObj, NoObj, TRUE)
  <2>1. SleepCall.op = "sleep"
    BY DEF SleepCall, NoCall
  <2>2. b.state = "BLOCKED" /\ b.wait = "SLEEP"
    BY DEF Thread, Blocked
  <2> HIDE DEF b
  <2>3. Fits(b, SleepCall)
    BY <2>1, <2>2 DEF Fits
  <2> QED
    BY <2>3 DEF b
<1> QED
  BY <1>3, <1>4, <1>5, <1>6, <1>7

(* Parking and posting a callback worker: it has no pending call.            *)
LEMMA FitsParked ==
    ASSUME NEW t \in Thread
    PROVE  /\ Fits(Parked(t), NoCall)
           /\ Fits(Unparked(t), NoCall)
           /\ Parked(t).state = "BLOCKED" /\ Parked(t).wait = "CALLBACK"
           /\ Unparked(t).state = "RUNNABLE" /\ Unparked(t).wait = "NONE"
           /\ ~Unparked(t).ready
<1>1. /\ Parked(t).state = "BLOCKED" /\ Parked(t).wait = "CALLBACK"
      /\ Unparked(t).state = "RUNNABLE" /\ Unparked(t).wait = "NONE"
      /\ Unparked(t).ready = FALSE
  BY DEF Thread, Parked, Unparked, ClearWait
<1> QED
  BY <1>1 DEF Fits, NoCall

(* Waking a thread keeps its record fit, when it waits for an event a        *)
(* pending call waits for.                                                   *)
LEMMA FitsWoken ==
    ASSUME NEW th \in [Slots -> Thread], NEW S, NEW r \in Results, NEW i \in Slots,
           NEW k \in Call, k.op \in SyncOps, Fits(th[i], k),
           i \in S => th[i].wait \notin {"NONE", "CALLBACK"}
    PROVE  Fits(Woken(th, S, r)[i], k) /\ Fits(WokenKeeping(th, S)[i], k)
<1>1. CASE i \in S /\ th[i].state = "BLOCKED"
  <2>1. k.op # "none"
    BY <1>1 DEF Fits
  <2> QED
    <3> DEFINE w == Woken(th, S, r)[i]
               x == WokenKeeping(th, S)[i]
    <3>1. /\ w.wait = th[i].wait /\ w.obj = th[i].obj /\ w.aux = th[i].aux
          /\ w.state = "RUNNABLE" /\ w.ready
          /\ x.wait = th[i].wait /\ x.obj = th[i].obj /\ x.aux = th[i].aux
          /\ x.state = "RUNNABLE" /\ x.ready
      BY <1>1, WokenFields
    <3> HIDE DEF w, x
    <3>2. Fits(w, k) /\ Fits(x, k)
      BY <2>1, <3>1 DEF Fits
    <3> QED
      BY <3>2 DEF w, x
<1>2. CASE ~(i \in S /\ th[i].state = "BLOCKED")
  <2>1. Woken(th, S, r)[i] = th[i] /\ WokenKeeping(th, S)[i] = th[i]
    BY <1>2 DEF Woken, WokenKeeping
  <2> QED
    BY <2>1
<1> QED
  BY <1>1, <1>2

(* Queueing for the mutex after a wake-up keeps the record fit.              *)
LEMMA FitsRequeued ==
    ASSUME NEW t \in Thread, NEW c, NEW m, NEW timed, Fits(t, WaitCall(c, m, timed))
    PROVE  Fits(Requeued(t), WaitCall(c, m, timed))
<1>1. /\ Requeued(t).state = "BLOCKED" /\ Requeued(t).wait = "COND_MUTEX"
      /\ Requeued(t).obj = t.obj /\ Requeued(t).aux = t.aux
  BY DEF Thread, Requeued
<1> QED
  BY <1>1 DEF Fits, WaitCall

(* A shim of the running thread returns, whatever it did to other threads.   *)
LEMMA ReturnStep ==
    ASSUME Sane, inQuantum, Returns, thread' \in [Slots -> Thread],
           \A i \in Slots \ {current} : /\ Fits(thread'[i], call[i])
                                        /\ thread'[i].state \in {"RUNNABLE", "BLOCKED"},
           Fits(thread'[current], NoCall), thread'[current].state = "RUNNABLE"
    PROVE  RetryFindsItsRecord' /\ ThreadsLive' /\ RunnerKnown'
<1>1. current \in Slots /\ call' = [call EXCEPT ![current] = NoCall] /\ call \in [Slots -> Call]
  BY DEF Sane, TypeOK, SchedTypeOK, Returns
<1>2. NoCall.op = "none"
  BY DEF NoCall
<1>3. RetryFindsItsRecord'
  BY <1>1 DEF RetryFindsItsRecord
<1>4. ThreadsLive'
  BY <1>1, <1>2 DEF ThreadsLive, Sane, Returns
<1>5. RunnerKnown'
  BY <1>1, <1>2, MainIsSlot DEF RunnerKnown, Sane, Returns
<1> QED
  BY <1>3, <1>4, <1>5

(* A shim of the running thread blocks it. *)
LEMMA BlockStep ==
    ASSUME Sane, inQuantum, NEW op \in Call, op.op \in SyncOps, Blocks(op),
           thread' \in [Slots -> Thread],
           \A i \in Slots \ {current} : /\ Fits(thread'[i], call[i])
                                        /\ thread'[i].state \in {"RUNNABLE", "BLOCKED"},
           Fits(thread'[current], op), thread'[current].state = "BLOCKED"
    PROVE  RetryFindsItsRecord' /\ ThreadsLive' /\ RunnerKnown'
<1>1. current \in Slots /\ call' = [call EXCEPT ![current] = op] /\ call \in [Slots -> Call]
  BY DEF Sane, TypeOK, SchedTypeOK, Blocks
<1>2. RetryFindsItsRecord'
  BY <1>1 DEF RetryFindsItsRecord
<1>3. ThreadsLive'
  BY <1>1 DEF ThreadsLive, RunnerKnown, Sane, Blocks, SyncOps
<1>4. RunnerKnown'
  BY <1>1, MainIsSlot DEF RunnerKnown, Sane, Blocks
<1> QED
  BY <1>2, <1>3, <1>4

(* Where a thread waits tells that a call is pending. *)
LEMMA WaitersHaveCalls ==
    ASSUME Sane, NEW i \in Slots, thread[i].state = "BLOCKED"
    PROVE  /\ thread[i].wait = "MUTEX" => call[i].op = "lock"
           /\ thread[i].wait \in {"COND", "COND_MUTEX"} => call[i].op = "cond_wait"
           /\ thread[i].wait = "SLEEP" => call[i].op = "sleep"
           /\ thread[i].wait = "FUTEX" => call[i].op = "futex_wait"
           /\ thread[i].wait = "CALLBACK" => call[i].op = "none"
BY DEF Sane, ThreadsLive, RetryFindsItsRecord, Fits

(* Waking threads from events they wait for keeps every record fit. *)
LEMMA WakeKeepsFit ==
    ASSUME Sane, NEW S \in SUBSET Slots, NEW r \in Results, NEW i \in Slots,
           \A j \in S : thread[j].state = "BLOCKED" => thread[j].wait \notin {"NONE", "CALLBACK"}
    PROVE  /\ Fits(Woken(thread, S, r)[i], call[i])
           /\ Fits(WokenKeeping(thread, S)[i], call[i])
           /\ Woken(thread, S, r)[i].state \in {"RUNNABLE", "BLOCKED"}
           /\ WokenKeeping(thread, S)[i].state \in {"RUNNABLE", "BLOCKED"}
<1>1. /\ thread \in [Slots -> Thread] /\ call[i] \in Call /\ call[i].op \in SyncOps
      /\ Fits(thread[i], call[i]) /\ thread[i].state \in {"RUNNABLE", "BLOCKED"}
  BY DEF Sane, TypeOK, SchedTypeOK, ThreadsLive, RetryFindsItsRecord, SyncOps
<1>2. CASE thread[i].state = "BLOCKED"
  <2>1. i \in S => thread[i].wait \notin {"NONE", "CALLBACK"}
    BY <1>2
  <2>2. Fits(Woken(thread, S, r)[i], call[i]) /\ Fits(WokenKeeping(thread, S)[i], call[i])
    BY <1>1, <2>1, FitsWoken
  <2>3. /\ Woken(thread, S, r)[i].state \in {"RUNNABLE", "BLOCKED"}
        /\ WokenKeeping(thread, S)[i].state \in {"RUNNABLE", "BLOCKED"}
    BY <1>1 DEF Woken, WokenKeeping, Thread
  <2> QED
    BY <2>2, <2>3
<1>3. CASE thread[i].state # "BLOCKED"
  <2>1. Woken(thread, S, r)[i] = thread[i] /\ WokenKeeping(thread, S)[i] = thread[i]
    BY <1>3 DEF Woken, WokenKeeping
  <2> QED
    BY <1>1, <2>1
<1> QED
  BY <1>2, <1>3

(* What an unlock leaves: the record of every other thread still fits. *)
LEMMA HandedOnFits ==
    ASSUME Sane, NEW m \in Mutexes, NEW i \in Slots
    PROVE  /\ Fits(HandedOn(m)[i], call[i])
           /\ HandedOn(m)[i].state \in {"RUNNABLE", "BLOCKED"}
           /\ thread[i].state = "RUNNABLE" => HandedOn(m)[i] = thread[i]
<1> DEFINE S == FirstAfterCurrent(MutexWaiters(m))
<1>1. S \in SUBSET Slots /\ S \subseteq MutexWaiters(m)
  BY FirstIsMember DEF MutexWaiters, Sane, TypeOK, SchedTypeOK
<1>2. \A j \in S : thread[j].wait \notin {"NONE", "CALLBACK"}
  BY <1>1 DEF MutexWaiters
<1> HIDE DEF S
<1>3. /\ Fits(WokenKeeping(thread, S)[i], call[i])
      /\ WokenKeeping(thread, S)[i].state \in {"RUNNABLE", "BLOCKED"}
  BY <1>1, <1>2, WakeKeepsFit DEF Results
<1>4. thread[i].state = "RUNNABLE" => WokenKeeping(thread, S)[i] = thread[i]
  BY DEF WokenKeeping
<1>5. HandedOn(m) = thread \/ HandedOn(m) = WokenKeeping(thread, S)
  BY DEF HandedOn, S
<1>6. Fits(thread[i], call[i]) /\ thread[i].state \in {"RUNNABLE", "BLOCKED"}
  BY DEF Sane, RetryFindsItsRecord, ThreadsLive
<1> QED
  BY <1>3, <1>4, <1>5, <1>6

(* Between shims the running thread has no pending call and no wait record.  *)
LEMMA RunnerIdle ==
    ASSUME Sane, inQuantum
    PROVE  /\ current \in Slots /\ thread[current] \in Thread
           /\ thread[current].state = "RUNNABLE"
           /\ Fits(thread[current], call[current])
           /\ Fits(ClearWait(thread[current]), NoCall)
           /\ ClearWait(thread[current]).state = "RUNNABLE"
           /\ AnyCall => Fits(thread[current], NoCall)
<1>1. current \in Slots /\ thread[current] \in Thread /\ thread[current].state = "RUNNABLE"
  BY DEF Sane, TypeOK, SchedTypeOK, RunnerKnown
<1>2. Fits(thread[current], call[current])
  BY <1>1 DEF Sane, RetryFindsItsRecord
<1>3. Fits(ClearWait(thread[current]), NoCall) /\ ClearWait(thread[current]).state = "RUNNABLE"
  BY <1>1, FitsAfter DEF ClearWait, Thread
<1> QED
  BY <1>1, <1>2, <1>3 DEF AnyCall

(* The record of every thread fits its pending call.                         *)
LEMMA OthersFit ==
    ASSUME Sane, NEW i \in Slots
    PROVE  Fits(thread[i], call[i]) /\ thread[i].state \in {"RUNNABLE", "BLOCKED"}
BY DEF Sane, RetryFindsItsRecord, ThreadsLive

(* The mutex shims keep records, calls and the runner together.              *)
LEMMA MutexStepSane ==
    ASSUME Sane, MutexStep
    PROVE  RetryFindsItsRecord' /\ ThreadsLive' /\ RunnerKnown'
<1> PICK m \in Mutexes :
        \/ Lock(m) \/ TryLock(m) \/ Unlock(m) \/ DestroyMutex(m)
        \/ \E type \in MutexTypes : InitMutex(m, type)
  BY DEF MutexStep
<1>1. inQuantum
  BY DEF Lock, TryLock, Unlock, DestroyMutex, InitMutex, Executing, AnyCall
<1>2. TypeOK /\ thread' \in [Slots -> Thread]
  BY MutexStepType DEF Sane, TypeOK, SchedTypeOK
<1>3. CASE Take(m)
  <2>1. Returns /\ thread' = [thread EXCEPT ![current] = ClearWait(@)]
    BY <1>3 DEF Take
  <2> QED
    BY <1>1, <1>2, <2>1, RunnerIdle, OthersFit, ReturnStep DEF TypeOK, SchedTypeOK
<1>4. CASE Blocks(LockCall(m))
           /\ thread' = [thread EXCEPT ![current] = Blocked(@, "MUTEX", m, NoObj, FALSE)]
  <2>1. LockCall(m) \in Call /\ LockCall(m).op \in SyncOps
    BY CallTypes DEF LockCall, NoCall, SyncOps
  <2>2. thread'[current] = Blocked(thread[current], "MUTEX", m, NoObj, FALSE)
    BY <1>1, <1>4, RunnerIdle DEF Sane, TypeOK, SchedTypeOK
  <2>3. Fits(thread'[current], LockCall(m)) /\ thread'[current].state = "BLOCKED"
    <3>1. thread[current] \in Thread /\ thread[current].state = "RUNNABLE"
      BY <1>1, RunnerIdle
    <3>2. Blocked(thread[current], "MUTEX", m, NoObj, FALSE).state = "BLOCKED"
      BY <3>1 DEF Blocked, Thread
    <3> QED
      BY <2>2, <3>1, <3>2, FitsAfter
  <2> QED
    BY <1>1, <1>2, <1>4, <2>1, <2>3, RunnerIdle, OthersFit, BlockStep DEF TypeOK, SchedTypeOK
<1>5. CASE /\ Lock(m) /\ Returns /\ thread' = thread
           /\ ~Found(m) \/ (mutex[m].owner = current /\ ~CanReenter(mutex[m]))
  <2>1. AnyCall
    <3>1. LockCall(m).op = "lock" /\ LockCall(m).obj = m /\ current \in Slots
      BY <1>1, RunnerIdle DEF LockCall, NoCall
    <3>2. call[current] # LockCall(m)
      BY <1>5, <3>1 DEF Found, Sane, WaitersKeepObjects, NeverWaitsForItself, Registry
    <3> QED
      BY <1>5, <3>2 DEF Lock, Executing, AnyCall
  <2> QED
    BY <1>1, <1>2, <1>5, <2>1, RunnerIdle, OthersFit, ReturnStep
<1>6. CASE Unlock(m)
  <2>1. AnyCall /\ Returns /\ thread' = HandedOn(m)
    BY <1>6 DEF Unlock
  <2> QED
    BY <1>1, <1>2, <2>1, RunnerIdle, HandedOnFits, ReturnStep
<1>7. CASE DestroyMutex(m) \/ \E type \in MutexTypes : InitMutex(m, type)
  <2>1. AnyCall /\ Returns /\ thread' = thread
    BY <1>7 DEF DestroyMutex, InitMutex
  <2> QED
    BY <1>1, <1>2, <2>1, RunnerIdle, OthersFit, ReturnStep
<1> QED
  BY <1>3, <1>4, <1>5, <1>6, <1>7 DEF Lock, TryLock

(* cond_wait fails at once or not at all: a retry never returns an error.    *)
LEMMA FailureIsSilent ==
    ASSUME Sane, NEW c \in Conds, NEW m \in Mutexes, NEW timed \in BOOLEAN,
           CondWait(c, m, timed), CondWaitFails(c, m)
    PROVE  AnyCall /\ Returns /\ UNCHANGED <<call, thread, mutex>>
<1>1. /\ inQuantum /\ call[current] \in {NoCall, WaitCall(c, m, timed)} /\ current \in Slots
      /\ call \in [Slots -> Call]
  BY DEF CondWait, Executing, Sane, TypeOK, SchedTypeOK
<1>2. ASSUME call[current] = WaitCall(c, m, timed)
      PROVE  FALSE
  <2>1. /\ call[current].op = "cond_wait" /\ call[current].obj = c /\ call[current].aux = m
    BY <1>2 DEF WaitCall
  <2>2. Registered(m) /\ CondFound(c)
    BY <1>1, <2>1 DEF Sane, WaitersKeepObjects, Registry, CondFound
  <2>3. IsCondRetry(c, m)
    BY <1>1, <2>1, RunnerIdle DEF Fits, IsCondRetry, NamesCond
  <2> QED
    BY <2>2, <2>3 DEF CondWaitFails
<1>3. call[current] = NoCall
  BY <1>1, <1>2
<1> QED
  BY <1>1, <1>3 DEF CondWaitFails, Returns, AnyCall

(* So do the condition variable shims.                                       *)
LEMMA CondStepSane ==
    ASSUME Sane, CondStep
    PROVE  RetryFindsItsRecord' /\ ThreadsLive' /\ RunnerKnown'
<1> PICK c \in Conds :
        \/ Signal(c) \/ Broadcast(c) \/ InitCond(c) \/ DestroyCond(c)
        \/ \E m \in Mutexes, timed \in BOOLEAN : CondWait(c, m, timed)
  BY DEF CondStep
<1>1. TypeOK /\ thread' \in [Slots -> Thread]
  BY CondStepType DEF Sane, TypeOK, SchedTypeOK
<1>2. CASE Signal(c) \/ Broadcast(c) \/ InitCond(c)
  <2>1. FirstAfterCurrent(CondWaiters(c)) \subseteq CondWaiters(c)
    BY <1>1, FirstIsMember DEF CondWaiters, TypeOK, SchedTypeOK
  <2>2. PICK S \in SUBSET CondWaiters(c) : Notify(c, S)
    BY <1>2, <2>1 DEF Signal, Broadcast, InitCond
  <2>3. S \subseteq Slots /\ \A j \in S : thread[j].wait \notin {"NONE", "CALLBACK"}
    BY DEF CondWaiters
  <2>4. AnyCall /\ inQuantum /\ Returns /\ thread' = Woken(thread, S, "OK")
    BY <2>2 DEF Notify, AnyCall
  <2>5. \A i \in Slots : /\ Fits(thread'[i], call[i])
                         /\ thread'[i].state \in {"RUNNABLE", "BLOCKED"}
    BY <2>3, <2>4, WakeKeepsFit DEF Results
  <2>6. thread'[current] = thread[current]
    BY <2>4, RunnerIdle DEF Woken
  <2> QED
    BY <1>1, <2>4, <2>5, <2>6, RunnerIdle, ReturnStep
<1>3. CASE DestroyCond(c)
  <2>1. AnyCall /\ inQuantum /\ Returns /\ thread' = thread
    BY <1>3 DEF DestroyCond, AnyCall
  <2> QED
    BY <1>1, <2>1, RunnerIdle, OthersFit, ReturnStep
<1>4. ASSUME NEW m \in Mutexes, NEW timed \in BOOLEAN, CondWait(c, m, timed)
      PROVE  RetryFindsItsRecord' /\ ThreadsLive' /\ RunnerKnown'
  <2>1. inQuantum /\ WaitCall(c, m, timed) \in Call /\ WaitCall(c, m, timed).op \in SyncOps
    BY <1>4, CallTypes DEF CondWait, Executing, WaitCall, SyncOps
  <2>2. current \in Slots /\ thread[current] \in Thread /\ thread[current].state = "RUNNABLE"
    BY <2>1, RunnerIdle
  <2>3. CASE CondWaitEnter(c, m, timed)
    <3>1. HandedOn(m) \in [Slots -> Thread] /\ HandedOn(m)[current] = thread[current]
      BY <1>1, <2>2, HandedOnFits, MutexTypesKept
    <3>2. /\ thread' = [HandedOn(m) EXCEPT ![current] = Blocked(@, "COND", c, m, timed)]
          /\ Blocks(WaitCall(c, m, timed))
      BY <2>3 DEF CondWaitEnter
    <3>3. thread'[current] = Blocked(thread[current], "COND", c, m, timed)
      BY <2>2, <3>1, <3>2
    <3>4. Fits(thread'[current], WaitCall(c, m, timed)) /\ thread'[current].state = "BLOCKED"
      <4>1. Blocked(thread[current], "COND", c, m, timed).state = "BLOCKED"
        BY <2>2 DEF Blocked, Thread
      <4> QED
        BY <2>2, <3>3, <4>1, FitsAfter
    <3>5. \A i \in Slots \ {current} : thread'[i] = HandedOn(m)[i]
      BY <3>1, <3>2
    <3> QED
      BY <1>1, <2>1, <3>2, <3>4, <3>5, HandedOnFits, BlockStep
  <2>4. CASE CondWaitRetry(c, m, timed)
    <3>1. CASE /\ thread' = [thread EXCEPT ![current] = Requeued(@)]
               /\ Blocks(WaitCall(c, m, timed))
      <4>1. call[current] = WaitCall(c, m, timed)
        <5>1. call[current] # NoCall
          BY <2>1, <2>2, <2>4, RunnerIdle DEF CondWaitRetry, IsCondRetry, NamesCond, Fits, NoCall
        <5> QED
          BY <1>4, <5>1 DEF CondWait, Executing
      <4>2. Fits(Requeued(thread[current]), WaitCall(c, m, timed))
        BY <2>1, <2>2, <4>1, RunnerIdle, FitsRequeued
      <4>3. Requeued(thread[current]).state = "BLOCKED"
        BY <2>2 DEF Requeued, Thread
      <4>4. thread'[current] = Requeued(thread[current])
        BY <1>1, <2>2, <3>1 DEF TypeOK, SchedTypeOK
      <4> QED
        BY <1>1, <2>1, <2>2, <3>1, <4>2, <4>3, <4>4, OthersFit, BlockStep DEF TypeOK, SchedTypeOK
    <3>2. CASE Returns /\ thread' = [thread EXCEPT ![current] = ClearWait(@)]
      BY <1>1, <2>1, <3>2, RunnerIdle, OthersFit, ReturnStep DEF TypeOK, SchedTypeOK
    <3> QED
      BY <2>4, <3>1, <3>2 DEF CondWaitRetry
  <2>5. CASE CondWaitFails(c, m)
    <3>1. AnyCall /\ Returns /\ thread' = thread
      BY <1>4, <2>5, FailureIsSilent
    <3> QED
      BY <1>1, <2>1, <3>1, RunnerIdle, OthersFit, ReturnStep
  <2> QED
    BY <1>4, <2>3, <2>4, <2>5 DEF CondWait
<1> QED
  BY <1>2, <1>3, <1>4

(* So do futexes and sleeping.                                               *)
LEMMA WaitStepSane ==
    ASSUME Sane, FutexStep \/ Sleep
    PROVE  RetryFindsItsRecord' /\ ThreadsLive' /\ RunnerKnown'
<1>1. TypeOK /\ thread' \in [Slots -> Thread]
  BY WaitStepType DEF Sane, TypeOK, SchedTypeOK
<1>2. ASSUME inQuantum, Returns, thread' = [thread EXCEPT ![current] = ClearWait(@)]
      PROVE  RetryFindsItsRecord' /\ ThreadsLive' /\ RunnerKnown'
  BY <1>1, <1>2, RunnerIdle, OthersFit, ReturnStep DEF TypeOK, SchedTypeOK
<1>3. ASSUME NEW u \in Futexes, NEW v \in Words, NEW timed \in BOOLEAN, FutexWait(u, v, timed)
      PROVE  RetryFindsItsRecord' /\ ThreadsLive' /\ RunnerKnown'
  <2>1. inQuantum /\ FutexCall(u, v, timed) \in Call /\ FutexCall(u, v, timed).op \in SyncOps
    BY <1>3, CallTypes DEF FutexWait, Executing, FutexCall, SyncOps
  <2>2. current \in Slots /\ thread[current] \in Thread /\ thread[current].state = "RUNNABLE"
    BY <2>1, RunnerIdle
  <2>3. CASE /\ thread' = [thread EXCEPT ![current] = Blocked(@, "FUTEX", u, v, timed)]
             /\ Blocks(FutexCall(u, v, timed))
    <3>1. thread'[current] = Blocked(thread[current], "FUTEX", u, v, timed)
      BY <1>1, <2>2, <2>3 DEF TypeOK, SchedTypeOK
    <3>2. Blocked(thread[current], "FUTEX", u, v, timed).state = "BLOCKED"
      BY <2>2 DEF Blocked, Thread
    <3>3. Fits(thread'[current], FutexCall(u, v, timed)) /\ thread'[current].state = "BLOCKED"
      BY <2>2, <3>1, <3>2, FitsAfter
    <3> QED
      BY <1>1, <2>1, <2>2, <2>3, <3>3, OthersFit, BlockStep DEF TypeOK, SchedTypeOK
  <2> QED
    BY <1>2, <1>3, <2>1, <2>3 DEF FutexWait
<1>4. CASE Sleep
  <2>1. inQuantum /\ SleepCall \in Call /\ SleepCall.op \in SyncOps
    BY <1>4, CallTypes DEF Sleep, Executing, SleepCall, NoCall, SyncOps
  <2>2. current \in Slots /\ thread[current] \in Thread /\ thread[current].state = "RUNNABLE"
    BY <2>1, RunnerIdle
  <2>3. CASE /\ thread' = [thread EXCEPT ![current] = Blocked(@, "SLEEP", NoObj, NoObj, TRUE)]
             /\ Blocks(SleepCall)
    <3>1. thread'[current] = Blocked(thread[current], "SLEEP", NoObj, NoObj, TRUE)
      BY <1>1, <2>2, <2>3 DEF TypeOK, SchedTypeOK
    <3>2. Blocked(thread[current], "SLEEP", NoObj, NoObj, TRUE).state = "BLOCKED"
      BY <2>2 DEF Blocked, Thread
    <3>3. Fits(thread'[current], SleepCall) /\ thread'[current].state = "BLOCKED"
      BY <2>2, <3>1, <3>2, FitsAfter
    <3> QED
      BY <1>1, <2>1, <2>2, <2>3, <3>3, OthersFit, BlockStep DEF TypeOK, SchedTypeOK
  <2> QED
    BY <1>2, <1>4, <2>1, <2>3 DEF Sleep
<1>5. ASSUME NEW u \in Futexes, NEW v \in Words, Store(u, v)
      PROVE  RetryFindsItsRecord' /\ ThreadsLive' /\ RunnerKnown'
  BY <1>5 DEF Store, schedVars, Sane, RetryFindsItsRecord, ThreadsLive, RunnerKnown
<1>6. ASSUME NEW u \in Futexes, NEW most, FutexWake(u, most)
      PROVE  RetryFindsItsRecord' /\ ThreadsLive' /\ RunnerKnown'
  <2> DEFINE S == FirstWaiters(u, most)
  <2>1. S \in SUBSET Slots /\ \A j \in S : thread[j].wait \notin {"NONE", "CALLBACK"}
    BY DEF FirstWaiters, FutexWaiters
  <2>2. AnyCall /\ inQuantum /\ Returns /\ thread' = Woken(thread, S, "OK")
    BY <1>6 DEF FutexWake, AnyCall
  <2> HIDE DEF S
  <2>3. \A i \in Slots : /\ Fits(thread'[i], call[i])
                         /\ thread'[i].state \in {"RUNNABLE", "BLOCKED"}
    BY <2>1, <2>2, WakeKeepsFit DEF Results
  <2>4. thread'[current] = thread[current]
    BY <2>2, RunnerIdle DEF Woken
  <2> QED
    BY <1>1, <2>2, <2>3, <2>4, RunnerIdle, ReturnStep
<1> QED
  BY <1>3, <1>4, <1>5, <1>6 DEF FutexStep

(* Only callback workers without a pending call are ever parked or posted.   *)
LEMMA ParkStep ==
    ASSUME Sane, NEW i \in Slots, NEW x \in Thread, call[i].op = "none",
           Fits(x, NoCall), x.state \in {"RUNNABLE", "BLOCKED"},
           thread' = [thread EXCEPT ![i] = x], UNCHANGED call
    PROVE  RetryFindsItsRecord'
<1>1. thread \in [Slots -> Thread] /\ call[i] = NoCall
  BY DEF Sane, TypeOK, SchedTypeOK, RetryFindsItsRecord, Fits
<1> QED
  BY <1>1 DEF Sane, RetryFindsItsRecord

(* So do the host loops and the callback workers.                            *)
LEMMA HostStepSane ==
    ASSUME Sane, HostStep \/ \E i \in CallbackWorkers : CancelCallback(i)
    PROVE  RetryFindsItsRecord' /\ ThreadsLive' /\ RunnerKnown'
<1>1. /\ thread \in [Slots -> Thread] /\ call \in [Slots -> Call] /\ Main \in Slots
      /\ CallbackWorkers \subseteq Slots /\ Main \notin CallbackWorkers
  BY MainIsSlot DEF Sane, TypeOK, SchedTypeOK
<1>2. CASE EnterRun
  <2>1. /\ loop = "host" /\ loop' = "run" /\ ~inQuantum /\ call[Main].op = "none"
        /\ thread' = [thread EXCEPT ![Main] = Unparked(@)]
        /\ UNCHANGED <<call, inQuantum, started>>
    BY <1>2 DEF EnterRun, Sane, RunnerKnown
  <2>2. Unparked(thread[Main]) \in Thread
    BY <1>1, RecordTypes
  <2>3. RetryFindsItsRecord'
    BY <1>1, <2>1, <2>2, FitsParked, ParkStep
  <2>4. thread'[Main].state = "RUNNABLE" /\ \A i \in Slots \ {Main} : thread'[i] = thread[i]
    BY <1>1, <2>1, FitsParked
  <2> QED
    BY <1>1, <2>1, <2>3, <2>4 DEF Sane, ThreadsLive, RunnerKnown
<1>3. CASE EnterIdle \/ LeaveIdle \/ MainReturns \/ EndQuantum \/ GuestFault
  <2>1. UNCHANGED <<thread, call, started>>
    BY <1>3 DEF EnterIdle, LeaveIdle, MainReturns, EndQuantum, GuestFault
  <2>2. RetryFindsItsRecord' /\ ThreadsLive'
    BY <2>1 DEF Sane, RetryFindsItsRecord, ThreadsLive
  <2>3. RunnerKnown'
    <3>1. NoCall.op = "none"
      BY DEF NoCall
    <3> QED
      BY <1>3, <2>1, <3>1 DEF Sane, RunnerKnown, EnterIdle, LeaveIdle, MainReturns, EndQuantum,
                       GuestFault, AtLoopTop, AnyCall
  <2> QED
    BY <2>2, <2>3
<1>4. CASE CallbackReturns(CallbackWorkers)
  <2>1. /\ inQuantum /\ current \in CallbackWorkers /\ call[current] = NoCall
        /\ thread' = [thread EXCEPT ![current] = Parked(@)]
        /\ started' = started \ {current} /\ ~inQuantum' /\ UNCHANGED <<call, loop>>
    BY <1>4 DEF CallbackReturns, AnyCall
  <2>2. NoCall.op = "none" /\ Parked(thread[current]) \in Thread
    BY <1>1, <2>1, RecordTypes DEF NoCall
  <2>3. RetryFindsItsRecord'
    BY <1>1, <2>1, <2>2, FitsParked, ParkStep
  <2>4. /\ thread'[current].state = "BLOCKED"
        /\ \A i \in Slots \ {current} : thread'[i] = thread[i]
    BY <1>1, <2>1, FitsParked
  <2> QED
    BY <1>1, <2>1, <2>2, <2>3, <2>4 DEF Sane, ThreadsLive, RunnerKnown
<1>5. ASSUME NEW i \in CallbackWorkers, CancelCallback(i)
      PROVE  RetryFindsItsRecord' /\ ThreadsLive' /\ RunnerKnown'
  <2>1. /\ inQuantum /\ i # current /\ i \notin started
        /\ thread' = [thread EXCEPT ![i] = Parked(@)]
        /\ UNCHANGED <<call, current, loop, inQuantum, started>>
    BY <1>5 DEF CancelCallback, AnyCall
  <2>2. call[i].op = "none" /\ Parked(thread[i]) \in Thread
    BY <1>1, <2>1, RecordTypes DEF Sane, ThreadsLive
  <2>3. RetryFindsItsRecord'
    BY <1>1, <2>1, <2>2, FitsParked, ParkStep
  <2>4. thread'[i].state = "BLOCKED" /\ \A j \in Slots \ {i} : thread'[j] = thread[j]
    BY <1>1, <2>1, FitsParked
  <2>5. current \in Slots
    BY DEF Sane, TypeOK, SchedTypeOK
  <2> QED
    BY <1>1, <2>1, <2>2, <2>3, <2>4, <2>5 DEF Sane, ThreadsLive, RunnerKnown
<1> QED
  BY <1>2, <1>3, <1>4, <1>5 DEF HostStep

(* The thread table an iteration hands to the pick. *)
Handed(expired, posted) ==
    [i \in Slots |-> IF i \in posted THEN Unparked(TimedOut(thread, expired)[i])
                     ELSE TimedOut(thread, expired)[i]]

(* A timeout wakes only threads in an event with a deadline.                 *)
LEMMA TimedOutKeepsFit ==
    ASSUME Sane, NEW expired, expired \subseteq WithDeadline(thread), NEW i \in Slots
    PROVE  /\ Fits(TimedOut(thread, expired)[i], call[i])
           /\ TimedOut(thread, expired)[i].state \in {"RUNNABLE", "BLOCKED"}
           /\ thread[i].wait \notin {"SLEEP", "COND", "FUTEX"} \/ thread[i].state = "RUNNABLE"
                => TimedOut(thread, expired)[i] = thread[i]
<1> DEFINE asleep == {j \in expired : thread[j].wait = "SLEEP"}
           waits == {j \in expired : thread[j].wait \in {"COND", "FUTEX"}}
           first == Woken(thread, asleep, "OK")
<1>1. /\ expired \subseteq Slots /\ thread \in [Slots -> Thread] /\ call[i] \in Call
      /\ call[i].op \in SyncOps /\ first \in [Slots -> Thread]
  BY WokenTypes DEF WithDeadline, Sane, TypeOK, SchedTypeOK, ThreadsLive, SyncOps, Results
<1>2. Fits(first[i], call[i]) /\ first[i].state \in {"RUNNABLE", "BLOCKED"}
  <2>1. \A j \in asleep : thread[j].wait \notin {"NONE", "CALLBACK"}
    OBVIOUS
  <2>2. asleep \in SUBSET Slots
    BY <1>1
  <2> HIDE DEF asleep
  <2> QED
    BY <2>1, <2>2, WakeKeepsFit DEF Results
<1>3. first[i].wait = thread[i].wait
  BY <1>1, WokenFields DEF Results
<1>4. TimedOut(thread, expired) = Woken(first, waits, "ETIMEDOUT")
  BY DEF TimedOut
<1>5. i \in waits => first[i].wait \notin {"NONE", "CALLBACK"}
  BY <1>3
<1> HIDE DEF first
<1>6. Fits(Woken(first, waits, "ETIMEDOUT")[i], call[i])
  BY <1>1, <1>2, <1>5, FitsWoken DEF Results
<1>7. Woken(first, waits, "ETIMEDOUT")[i].state \in {"RUNNABLE", "BLOCKED"}
  BY <1>1, <1>2 DEF Woken, Thread
<1>8. ASSUME thread[i].wait \notin {"SLEEP", "COND", "FUTEX"} \/ thread[i].state = "RUNNABLE"
      PROVE  TimedOut(thread, expired)[i] = thread[i]
  <2>1. first[i] = thread[i]
    BY <1>8 DEF first, Woken
  <2> QED
    BY <1>4, <1>8, <2>1 DEF Woken
<1> QED
  BY <1>4, <1>6, <1>7, <1>8

(* The table that an iteration hands to the pick is fit.                     *)
LEMMA HandedFits ==
    ASSUME Sane, NEW expired, expired \subseteq WithDeadline(thread),
           NEW posted, posted \subseteq {j \in CallbackWorkers : IsParked(thread[j])},
           NEW i \in Slots
    PROVE  /\ Fits(Handed(expired, posted)[i], call[i])
           /\ Handed(expired, posted)[i].state \in {"RUNNABLE", "BLOCKED"}
<1>1. CASE i \in posted
  <2>1. thread[i].state = "BLOCKED" /\ thread[i].wait = "CALLBACK"
    BY <1>1 DEF IsParked
  <2>2. call[i] = NoCall
    BY <2>1, WaitersHaveCalls DEF Sane, RetryFindsItsRecord, Fits
  <2>3. TimedOut(thread, expired)[i] \in Thread
    BY TimedOutType DEF Sane, TypeOK, SchedTypeOK
  <2>4. Handed(expired, posted)[i] = Unparked(TimedOut(thread, expired)[i])
    BY <1>1 DEF Handed
  <2> QED
    BY <2>2, <2>3, <2>4, FitsParked
<1>2. CASE i \notin posted
  <2>1. Handed(expired, posted)[i] = TimedOut(thread, expired)[i]
    BY <1>2 DEF Handed
  <2> QED
    BY <2>1, TimedOutKeepsFit
<1> QED
  BY <1>1, <1>2

(* An iteration keeps records, calls and the runner together.                *)
LEMMA LoopStepSane ==
    ASSUME Sane, LoopStep
    PROVE  RetryFindsItsRecord' /\ ThreadsLive' /\ RunnerKnown'
<1>1. PICK expired \in SUBSET WithDeadline(thread),
           posted \in SUBSET {i \in CallbackWorkers : IsParked(thread[i])} :
             Iterate(expired, posted)
  BY DEF LoopStep
<1> DEFINE th == Handed(expired, posted)
<1>2. AtLoopTop /\ Dispatch(th, CallbackWorkers)
  BY <1>1 DEF Iterate, Handed
<1>3. \A i \in Slots : Fits(th[i], call[i]) /\ th[i].state \in {"RUNNABLE", "BLOCKED"}
  BY HandedFits
<1>4. th \in [Slots -> Thread]
  BY PostedType DEF Handed, Sane
<1> HIDE DEF th
<1>5. thread' = th /\ UNCHANGED call /\ started \subseteq started'
  BY <1>2 DEF Dispatch, BeginQuantum
<1>6. RetryFindsItsRecord' /\ ThreadsLive'
  BY <1>3, <1>5 DEF RetryFindsItsRecord, ThreadsLive, Sane
<1>7. CASE \E i \in Pick(th, CallbackWorkers, loop = "run") : BeginQuantum(i, CallbackWorkers)
  <2>1. PICK i \in Pick(th, CallbackWorkers, loop = "run") : BeginQuantum(i, CallbackWorkers)
    BY <1>7
  <2>2. i \in Runnable(th) /\ (loop # "run" => i # Main)
    <3>1. /\ current \in Slots /\ CallbackWorkers \in SUBSET (Slots \ {Main})
          /\ (loop = "run") \in BOOLEAN
      BY DEF Sane, TypeOK, SchedTypeOK
    <3> QED
      BY <1>4, <2>1, <3>1, PickedIsRunnable
  <2>3. th[i].state = "RUNNABLE" /\ loop \in {"run", "idle"} /\ ~inQuantum
    BY <1>2, <2>2 DEF Runnable, AtLoopTop
  <2> QED
    BY <1>5, <1>6, <2>1, <2>2, <2>3 DEF BeginQuantum, RunnerKnown, Sane
<1>8. CASE /\ Pick(th, CallbackWorkers, loop = "run") = {}
           /\ loop' = IF loop = "idle" THEN "host"
                      ELSE IF WithDeadline(th) # {} THEN "run" ELSE "deadlock"
           /\ UNCHANGED <<current, inQuantum, started>>
  BY <1>2, <1>5, <1>6, <1>8 DEF AtLoopTop, RunnerKnown, Sane
<1> QED
  BY <1>2, <1>7, <1>8 DEF Dispatch

-----------------------------------------------------------------------------
(* Objects outlive the calls that need them. *)

ObjectsKept == WaitersKeepObjects /\ NeverWaitsForItself /\ CountsMatch

(* Steps that touch neither the objects nor a lock or wait call.             *)
LEMMA ObjectsUntouched ==
    ASSUME Sane, CountsMatch, UNCHANGED <<mutex, conds>>,
           \A i \in Slots : call'[i] = call[i] \/ call'[i].op \notin {"lock", "cond_wait"}
    PROVE  ObjectsKept'
BY DEF Sane, ObjectsKept, WaitersKeepObjects, NeverWaitsForItself, CountsMatch, Registry, Registered

(* Steps that return from a shim and leave every object a call needs.        *)
LEMMA ReturnKeepsObjects ==
    ASSUME Sane, Returns, CountsMatch', Registry \subseteq Registry', conds \subseteq conds',
           \A m \in Mutexes : mutex'[m].owner \in {mutex[m].owner, NoOwner, current}
    PROVE  ObjectsKept'
<1>1. /\ call' = [call EXCEPT ![current] = NoCall] /\ call \in [Slots -> Call]
      /\ current \in Slots /\ NoCall.op = "none"
  BY DEF Returns, Sane, TypeOK, SchedTypeOK, NoCall
<1>2. WaitersKeepObjects'
  BY <1>1 DEF Sane, WaitersKeepObjects
<1>3. NeverWaitsForItself'
  <2> SUFFICES ASSUME NEW i \in Slots, call'[i].op = "lock"
               PROVE  mutex'[call'[i].obj].owner # i
    BY DEF NeverWaitsForItself
  <2>1. i # current /\ call'[i] = call[i]
    BY <1>1
  <2>2. call[i].obj \in Mutexes /\ mutex[call[i].obj].owner # i
    BY <2>1 DEF Sane, WaitersKeepObjects, NeverWaitsForItself, Registry
  <2>3. mutex'[call[i].obj].owner \in {mutex[call[i].obj].owner, NoOwner, current}
    BY <2>2
  <2> QED
    BY <2>1, <2>2, <2>3 DEF NoOwner, Slots
<1> QED
  BY <1>2, <1>3 DEF ObjectsKept

(* A taken mutex is owned by the running thread.                             *)
LEMMA AcquiredFields ==
    ASSUME TypeOK, NEW x \in Mutex
    PROVE  /\ Acquired(x).owner = current /\ Acquired(x).used = x.used
           /\ Acquired(x).rec = x.rec + 1 /\ Acquired(x).rec # 0 /\ current # NoOwner
BY DEF Acquired, Mutex, TypeOK, SchedTypeOK, Slots, NoOwner

(* What an unlock leaves in the mutexes.                                     *)
LEMMA UnlockedFields ==
    ASSUME TypeOK, NEW m \in Mutexes, Owns(m)
    PROVE  /\ \A k \in Mutexes \ {m} : Unlocked(m)[k] = mutex[k]
           /\ Unlocked(m)[m].used = mutex[m].used
           /\ IF mutex[m].rec > 1
              THEN Unlocked(m)[m].owner = current /\ Unlocked(m)[m].rec = mutex[m].rec - 1
              ELSE Unlocked(m)[m].owner = NoOwner /\ Unlocked(m)[m].rec = 0
BY DEF Unlocked, Owns, TypeOK, Mutex

(* An unlock keeps counts and owners together.                               *)
LEMMA UnlockKeepsCounts ==
    ASSUME Sane, CountsMatch, NEW m \in Mutexes, Owns(m), mutex' = Unlocked(m)
    PROVE  /\ CountsMatch' /\ Registry \subseteq Registry'
           /\ \A k \in Mutexes : mutex'[k].owner \in {mutex[k].owner, NoOwner}
<1>1. /\ \A k \in Mutexes \ {m} : mutex'[k] = mutex[k]
      /\ mutex'[m].used = mutex[m].used
      /\ IF mutex[m].rec > 1
         THEN mutex'[m].owner = current /\ mutex'[m].rec = mutex[m].rec - 1
         ELSE mutex'[m].owner = NoOwner /\ mutex'[m].rec = 0
  BY UnlockedFields DEF Sane
<1>2. mutex[m].rec \in Nat /\ mutex[m].owner = current /\ current \in Slots
  BY DEF Sane, TypeOK, SchedTypeOK, Mutex, Owns
<1>3. current # NoOwner
  BY <1>2 DEF Slots, NoOwner
<1> QED
  BY <1>1, <1>2, <1>3 DEF CountsMatch, Registry, Registered

(* The mutex shims keep what pending calls need.                             *)
LEMMA MutexStepObjects ==
    ASSUME Sane, CountsMatch, MutexStep
    PROVE  ObjectsKept'
<1> PICK m \in Mutexes :
        \/ Lock(m) \/ TryLock(m) \/ Unlock(m) \/ DestroyMutex(m)
        \/ \E type \in MutexTypes : InitMutex(m, type)
  BY DEF MutexStep
<1>1. /\ mutex \in [Mutexes -> Mutex] /\ current \in Slots /\ TypeOK
      /\ Lookup(m) \in Mutex
  BY MutexTypesKept DEF Sane, TypeOK, SchedTypeOK
<1>2. CASE Take(m)
  <2>1. /\ mutex' = [mutex EXCEPT ![m] = Acquired(Lookup(m))] /\ Returns
        /\ conds' = conds /\ Acquirable(Lookup(m))
    BY <1>2 DEF Take
  <2>2. Lookup(m).used
    BY <1>1 DEF Lookup, Registered, NewMutex, NoMutex
  <2>3. mutex'[m].owner = current /\ mutex'[m].used /\ mutex'[m].rec # 0 /\ current # NoOwner
    BY <1>1, <2>1, <2>2, AcquiredFields
  <2>4. CountsMatch' /\ Registry \subseteq Registry'
    BY <1>1, <2>1, <2>3 DEF CountsMatch, Registry, Registered
  <2> QED
    BY <1>1, <2>1, <2>3, <2>4, ReturnKeepsObjects
<1>3. CASE /\ Registered(m) /\ mutex[m].owner \notin {NoOwner, current}
           /\ Blocks(LockCall(m)) /\ UNCHANGED syncVars
  <2>1. /\ call' = [call EXCEPT ![current] = LockCall(m)] /\ call \in [Slots -> Call]
        /\ UNCHANGED <<mutex, conds>>
    BY <1>3 DEF Blocks, syncVars, Sane, TypeOK, SchedTypeOK
  <2>2. LockCall(m).op = "lock" /\ LockCall(m).obj = m
    BY DEF LockCall, NoCall
  <2> QED
    BY <1>1, <1>3, <2>1, <2>2 DEF Sane, ObjectsKept, WaitersKeepObjects, NeverWaitsForItself,
                             CountsMatch, Registry, Registered
<1>4. CASE Returns /\ UNCHANGED syncVars
  <2>1. UNCHANGED <<mutex, conds>> /\ CountsMatch' /\ Registry' = Registry
    BY <1>4 DEF syncVars, CountsMatch, Registry, Registered
  <2> QED
    BY <1>4, <2>1, ReturnKeepsObjects
<1>5. CASE Unlock(m)
  <2>1. Owns(m) /\ mutex' = Unlocked(m) /\ Returns /\ conds' = conds
    BY <1>5 DEF Unlock
  <2> QED
    BY <2>1, UnlockKeepsCounts, ReturnKeepsObjects
<1>6. CASE DestroyMutex(m)
  <2>1. /\ mutex' = [mutex EXCEPT ![m] = NoMutex] /\ conds' = conds
        /\ \A i \in Slots : ~NamesMutex(i, m)
        /\ call' = [call EXCEPT ![current] = NoCall] /\ call \in [Slots -> Call]
    BY <1>6 DEF DestroyMutex, Returns, Sane, ThreadsLive, TypeOK, SchedTypeOK
  <2>2. \A i \in Slots : /\ call[i].op = "lock" => call[i].obj # m
                         /\ call[i].op = "cond_wait" => call[i].aux # m
    BY <2>1 DEF NamesMutex, Sane, RetryFindsItsRecord, Fits
  <2>3. NoMutex.owner = NoOwner /\ NoMutex.rec = 0 /\ NoCall.op = "none"
    BY DEF NoMutex, NoCall
  <2>4. CountsMatch'
    BY <1>1, <2>1, <2>3 DEF CountsMatch
  <2>5. \A i \in Slots : /\ call'[i] = call[i] \/ call'[i].op = "none"
    BY <2>1, <2>3
  <2>6. WaitersKeepObjects' /\ NeverWaitsForItself'
    BY <1>1, <2>1, <2>2, <2>5 DEF Sane, WaitersKeepObjects, NeverWaitsForItself, Registry, Registered
  <2> QED
    BY <2>4, <2>6 DEF ObjectsKept
<1>7. ASSUME NEW type \in MutexTypes, InitMutex(m, type)
      PROVE  ObjectsKept'
  <2>1. mutex' = [mutex EXCEPT ![m] = NewMutex(type)] /\ conds' = conds /\ Returns
    BY <1>7 DEF InitMutex
  <2>2. NewMutex(type).owner = NoOwner /\ NewMutex(type).rec = 0 /\ NewMutex(type).used
    BY DEF NewMutex, NoMutex
  <2>3. CountsMatch' /\ Registry \subseteq Registry'
    BY <1>1, <2>1, <2>2 DEF CountsMatch, Registry, Registered
  <2> QED
    BY <1>1, <2>1, <2>2, <2>3, ReturnKeepsObjects
<1> QED
  BY <1>2, <1>3, <1>4, <1>5, <1>6, <1>7 DEF Lock, TryLock

(* So do the condition variable shims.                                       *)
LEMMA CondStepObjects ==
    ASSUME Sane, CountsMatch, CondStep
    PROVE  ObjectsKept'
<1> PICK c \in Conds :
        \/ Signal(c) \/ Broadcast(c) \/ InitCond(c) \/ DestroyCond(c)
        \/ \E m \in Mutexes, timed \in BOOLEAN : CondWait(c, m, timed)
  BY DEF CondStep
<1>1. /\ mutex \in [Mutexes -> Mutex] /\ current \in Slots /\ TypeOK
      /\ call \in [Slots -> Call] /\ current # NoOwner
  BY DEF Sane, TypeOK, SchedTypeOK, Slots, NoOwner
<1>2. CASE Signal(c) \/ Broadcast(c) \/ InitCond(c)
  <2>1. Returns /\ conds \subseteq conds' /\ mutex' = mutex
    BY <1>2 DEF Signal, Broadcast, InitCond, Notify, WithCond
  <2>2. CountsMatch' /\ Registry' = Registry
    BY <2>1 DEF CountsMatch, Registry, Registered
  <2> QED
    BY <2>1, <2>2, ReturnKeepsObjects
<1>3. CASE DestroyCond(c)
  <2>1. /\ conds' = conds \ {c} /\ mutex' = mutex
        /\ \A i \in Slots : ~NamesCond(i, c)
        /\ call' = [call EXCEPT ![current] = NoCall]
    BY <1>3 DEF DestroyCond, Returns, Sane, ThreadsLive
  <2>2. \A i \in Slots : call[i].op = "cond_wait" => call[i].obj # c
    BY <2>1 DEF NamesCond, Sane, RetryFindsItsRecord, Fits
  <2>3. \A i \in Slots : call'[i] = call[i] \/ call'[i].op = "none"
    BY <1>1, <2>1 DEF NoCall
  <2> QED
    BY <2>1, <2>2, <2>3 DEF Sane, ObjectsKept, WaitersKeepObjects, NeverWaitsForItself,
                            CountsMatch, Registry, Registered
<1>4. ASSUME NEW m \in Mutexes, NEW timed \in BOOLEAN, CondWait(c, m, timed)
      PROVE  ObjectsKept'
  <2>1. /\ conds \subseteq conds'
        /\ CondWaitEnter(c, m, timed) \/ CondWaitRetry(c, m, timed) => c \in conds'
    BY <1>4 DEF CondWait, CondWaitEnter, CondWaitRetry, WithCond
  <2>2. ASSUME c \in conds', Blocks(WaitCall(c, m, timed)), CountsMatch', m \in Registry',
               Registry \subseteq Registry',
               \A k \in Mutexes : mutex'[k].owner \in {mutex[k].owner, NoOwner}
        PROVE  ObjectsKept'
    <3>1. /\ call' = [call EXCEPT ![current] = WaitCall(c, m, timed)]
          /\ WaitCall(c, m, timed).op = "cond_wait" /\ WaitCall(c, m, timed).obj = c
          /\ WaitCall(c, m, timed).aux = m
      BY <2>2 DEF Blocks, WaitCall
    <3>2. \A i \in Slots \ {current} : call'[i] = call[i]
      BY <1>1, <3>1
    <3>3. WaitersKeepObjects'
      BY <1>1, <2>1, <2>2, <3>1, <3>2 DEF Sane, WaitersKeepObjects
    <3>4. NeverWaitsForItself'
      <4> SUFFICES ASSUME NEW i \in Slots, call'[i].op = "lock"
                   PROVE  mutex'[call'[i].obj].owner # i
        BY DEF NeverWaitsForItself
      <4>1. call'[i] = call[i]
        BY <1>1, <3>1, <3>2
      <4>2. call[i].obj \in Mutexes /\ mutex[call[i].obj].owner # i
        BY <4>1 DEF Sane, WaitersKeepObjects, NeverWaitsForItself, Registry
      <4>3. mutex'[call[i].obj].owner \in {mutex[call[i].obj].owner, NoOwner}
        BY <2>2, <4>2
      <4> QED
        BY <4>1, <4>2, <4>3 DEF NoOwner, Slots
    <3> QED
      BY <2>2, <3>3, <3>4 DEF ObjectsKept
  <2>3. CASE CondWaitEnter(c, m, timed)
    <3>1. Owns(m) /\ mutex' = Unlocked(m) /\ Blocks(WaitCall(c, m, timed))
      BY <2>3 DEF CondWaitEnter
    <3>2. m \in Registry
      BY <3>1 DEF Owns, Registry
    <3> QED
      BY <2>1, <2>2, <2>3, <3>1, <3>2, UnlockKeepsCounts
  <2>4. CASE CondWaitRetry(c, m, timed)
    <3>1. m \in Registry
      BY <2>4 DEF CondWaitRetry, Registry
    <3>2. CASE Blocks(WaitCall(c, m, timed)) /\ UNCHANGED mutex
      <4>1. CountsMatch' /\ Registry' = Registry
        BY <3>2 DEF CountsMatch, Registry, Registered
      <4> QED
        BY <2>1, <2>2, <2>4, <3>1, <3>2, <4>1
    <3>3. CASE /\ mutex' = IF Acquirable(mutex[m])
                           THEN [mutex EXCEPT ![m] = Acquired(@)] ELSE mutex
               /\ Returns
      <4>1. CASE mutex' = mutex
        <5>1. CountsMatch' /\ Registry' = Registry
          BY <4>1 DEF CountsMatch, Registry, Registered
        <5> QED
          BY <2>1, <3>3, <4>1, <5>1, ReturnKeepsObjects
      <4>2. CASE mutex' = [mutex EXCEPT ![m] = Acquired(mutex[m])]
        <5>1. /\ mutex'[m].owner = current /\ mutex'[m].used = mutex[m].used
              /\ mutex'[m].rec # 0
          BY <1>1, <4>2, AcquiredFields
        <5>2. CountsMatch' /\ Registry \subseteq Registry'
          BY <1>1, <3>1, <4>2, <5>1 DEF CountsMatch, Registry, Registered
        <5> QED
          BY <1>1, <2>1, <3>3, <4>2, <5>1, <5>2, ReturnKeepsObjects
      <4> QED
        BY <3>3, <4>1, <4>2
    <3> QED
      BY <2>4, <3>2, <3>3 DEF CondWaitRetry
  <2>5. CASE CondWaitFails(c, m)
    <3>1. Returns /\ mutex' = mutex
      BY <2>5 DEF CondWaitFails
    <3>2. CountsMatch' /\ Registry' = Registry
      BY <3>1 DEF CountsMatch, Registry, Registered
    <3> QED
      BY <2>1, <3>1, <3>2, ReturnKeepsObjects
  <2> QED
    BY <1>4, <2>3, <2>4, <2>5 DEF CondWait
<1> QED
  BY <1>2, <1>3, <1>4

(* The remaining steps touch no object.                                      *)
LEMMA OtherStepObjects ==
    ASSUME Sane, CountsMatch,
           \/ HostStep \/ LoopStep \/ FutexStep \/ Sleep \/ UNCHANGED vars
           \/ \E i \in CallbackWorkers : CancelCallback(i)
    PROVE  ObjectsKept'
<1>1. /\ NoCall.op = "none" /\ SleepCall.op = "sleep" /\ call \in [Slots -> Call]
      /\ \A u, v, timed : FutexCall(u, v, timed).op = "futex_wait"
  BY DEF NoCall, SleepCall, FutexCall, Sane, TypeOK, SchedTypeOK
<1>2. UNCHANGED <<mutex, conds>>
  <2>1. CASE FutexStep
    BY <2>1 DEF FutexStep, FutexWait, FutexWake, Store, syncVars
  <2>2. CASE HostStep \/ Sleep \/ UNCHANGED vars \/ \E i \in CallbackWorkers : CancelCallback(i)
    BY <2>2 DEF HostStep, Sleep, CancelCallback, syncVars, vars
  <2>3. CASE LoopStep
    BY <2>3 DEF LoopStep, Iterate, syncVars
  <2> QED
    BY <2>1, <2>2, <2>3
<1>3. \A i \in Slots : call'[i] = call[i] \/ call'[i].op \notin {"lock", "cond_wait"}
  <2>1. CASE FutexStep
    BY <1>1, <2>1 DEF FutexStep, FutexWait, FutexWake, Store, Returns, Blocks, schedVars
  <2>2. CASE Sleep
    BY <1>1, <2>2 DEF Sleep, Returns, Blocks
  <2>3. CASE HostStep \/ UNCHANGED vars \/ \E i \in CallbackWorkers : CancelCallback(i)
    BY <1>1, <2>3 DEF HostStep, EnterRun, EnterIdle, LeaveIdle, MainReturns, EndQuantum,
                      GuestFault, CallbackReturns, CancelCallback, vars, schedVars
  <2>4. CASE LoopStep
    BY <2>4 DEF LoopStep, Iterate, Dispatch
  <2> QED
    BY <2>1, <2>2, <2>3, <2>4
<1> QED
  BY <1>2, <1>3, ObjectsUntouched

(* The first layer of the invariant is inductive.                            *)
LEMMA SaneStep == Sane /\ CountsMatch /\ [Next]_vars => Sane' /\ CountsMatch'
<1> SUFFICES ASSUME Sane, CountsMatch, [Next]_vars PROVE Sane' /\ CountsMatch'
  OBVIOUS
<1>1. TypeOK'
  BY TypeStep DEF Sane
<1>2. RetryFindsItsRecord' /\ ThreadsLive' /\ RunnerKnown'
  <2>1. CASE UNCHANGED vars
    BY <2>1 DEF vars, schedVars, Sane, RetryFindsItsRecord, ThreadsLive, RunnerKnown
  <2> QED
    BY <2>1, MutexStepSane, CondStepSane, WaitStepSane, HostStepSane, LoopStepSane DEF Next
<1>3. ObjectsKept'
  BY MutexStepObjects, CondStepObjects, OtherStepObjects DEF Next
<1> QED
  BY <1>1, <1>2, <1>3 DEF Sane, ObjectsKept

(* The first layer holds at first.                                           *)
LEMMA InitSane == Init => Sane /\ CountsMatch
<1> SUFFICES ASSUME Init PROVE Sane /\ CountsMatch
  OBVIOUS
<1>1. TypeOK
  BY InitType
<1>2. \A i \in Slots : /\ thread[i] \in {NewThread, Parked(NewThread)}
                       /\ call[i] = NoCall
  BY DEF Init
<1>3. /\ NewThread.state = "RUNNABLE" /\ NewThread.wait = "NONE" /\ NewThread.ready = FALSE
      /\ Parked(NewThread).state = "BLOCKED" /\ Parked(NewThread).wait = "CALLBACK"
      /\ NoCall.op = "none"
  BY DEF NewThread, Parked, ClearWait, NoCall
<1>4. ThreadsLive /\ WaitersKeepObjects /\ NeverWaitsForItself
  BY <1>2, <1>3 DEF ThreadsLive, WaitersKeepObjects, NeverWaitsForItself
<1>5. RetryFindsItsRecord
  BY <1>2, <1>3 DEF RetryFindsItsRecord, Fits
<1>6. RunnerKnown
  BY <1>2, <1>3, MainIsSlot DEF Init, RunnerKnown
<1>7. CountsMatch
  BY DEF Init, CountsMatch, NoMutex
<1> QED
  BY <1>1, <1>4, <1>5, <1>6, <1>7 DEF Sane

-----------------------------------------------------------------------------
(* No lost mutex wake-up.                                                    *)

Queued(t, m) ==
    t.state = "BLOCKED" /\ \/ t.wait = "MUTEX" /\ t.obj = m
                           \/ t.wait = "COND_MUTEX" /\ t.aux = m
Trying(t, m) ==
    /\ t.state = "RUNNABLE" /\ t.ready
    /\ \/ t.wait = "MUTEX" /\ t.obj = m
       \/ t.wait \in {"COND", "COND_MUTEX"} /\ t.aux = m
Served(m) ==
    mutex[m].owner = NoOwner /\ (\E i \in Slots : Queued(thread[i], m))
        => \E i \in Slots : Trying(thread[i], m)

(* The property in terms of single records.                                  *)
LEMMA ServedMeansNoneLost == NoLostMutexWakeup <=> \A m \in Mutexes : Served(m)
<1>1. \A m \in Mutexes : MutexWaiters(m) # {} <=> \E i \in Slots : Queued(thread[i], m)
  BY DEF MutexWaiters, Queued
<1>2. \A m \in Mutexes : \A i \in Slots : Contends(i, m) <=> Trying(thread[i], m)
  BY DEF Contends, Trying, NamesMutex
<1> QED
  BY <1>1, <1>2 DEF NoLostMutexWakeup, Served

(* A step that does not free m, queues nobody for a free m and stops nobody  *)
(* from trying it keeps m served.  Waking any thread is such a step.         *)
LEMMA Undisturbed ==
    ASSUME NEW m \in Mutexes, Served(m),
           mutex'[m].owner = NoOwner =>
               /\ mutex[m].owner = NoOwner
               /\ \A i \in Slots : \/ thread'[i] = thread[i]
                                   \/ ~Queued(thread'[i], m) /\ ~Trying(thread[i], m)
    PROVE  Served(m)'
BY DEF Served

(* A woken thread tries what it waited for.                                  *)
LEMMA WakingIsHarmless ==
    ASSUME NEW th \in [Slots -> Thread], NEW S, NEW r \in Results, NEW i \in Slots, NEW m
    PROVE  /\ \/ Woken(th, S, r)[i] = th[i]
              \/ ~Queued(Woken(th, S, r)[i], m) /\ ~Trying(th[i], m)
           /\ \/ WokenKeeping(th, S)[i] = th[i]
              \/ ~Queued(WokenKeeping(th, S)[i], m) /\ ~Trying(th[i], m)
BY WokenFields DEF Queued, Trying

(* The running thread tries the mutex of its pending call and no other.      *)
LEMMA RunnerTries ==
    ASSUME Sane, NEW i \in Slots, NEW m, Trying(thread[i], m)
    PROVE  \/ call[i].op = "lock" /\ call[i].obj = m
           \/ call[i].op = "cond_wait" /\ call[i].aux = m
BY DEF Trying, Sane, RetryFindsItsRecord, ThreadsLive, Fits

(* A thread in no lock or wait tries no mutex.                               *)
LEMMA IdleTriesNothing ==
    ASSUME Sane, NEW i \in Slots, call[i].op \notin {"lock", "cond_wait"}, NEW m
    PROVE  ~Trying(thread[i], m)
BY RunnerTries

(* Cleared records queue for nothing, new ones for what they name.           *)
LEMMA ClearedRecords ==
    ASSUME NEW t \in Thread, NEW m
    PROVE  /\ ~Queued(ClearWait(t), m) /\ ~Queued(Parked(t), m) /\ ~Queued(Unparked(t), m)
           /\ \A kind, o, a : \A timed \in BOOLEAN :
                Queued(Blocked(t, kind, o, a, timed), m) =>
                    \/ kind = "MUTEX" /\ o = m
                    \/ kind = "COND_MUTEX" /\ a = m
           /\ Queued(Requeued(t), m) => t.aux = m
<1>1. /\ ClearWait(t).wait = "NONE" /\ Unparked(t).wait = "NONE" /\ Parked(t).wait = "CALLBACK"
  BY DEF ClearWait, Parked, Unparked, Thread
<1>2. \A kind, o, a : \A timed \in BOOLEAN :
        /\ Blocked(t, kind, o, a, timed).wait = kind
        /\ Blocked(t, kind, o, a, timed).obj = o
        /\ Blocked(t, kind, o, a, timed).aux = a
  BY DEF Blocked, Thread
<1>3. Requeued(t).wait = "COND_MUTEX" /\ Requeued(t).aux = t.aux
  BY DEF Requeued, Thread
<1> QED
  BY <1>1, <1>2, <1>3 DEF Queued

(* Steps that leave the mutexes alone.                                       *)
LEMMA HostStepServes ==
    ASSUME Sane, HostStep \/ (\E i \in CallbackWorkers : CancelCallback(i)),
           NEW m \in Mutexes, Served(m)
    PROVE  Served(m)'
<1>1. /\ mutex' = mutex /\ thread \in [Slots -> Thread] /\ Main \in Slots /\ current \in Slots
      /\ CallbackWorkers \subseteq Slots /\ NoCall.op = "none"
  BY MainIsSlot, WorkersAssumption
     DEF HostStep, CancelCallback, syncVars, Sane, TypeOK, SchedTypeOK, NoCall
<1>2. CASE UNCHANGED thread
  BY <1>1, <1>2, Undisturbed
<1>3. CASE EnterRun
  <2>1. thread' = [thread EXCEPT ![Main] = Unparked(@)] /\ call[Main].op = "none"
    BY <1>3 DEF EnterRun, Sane, RunnerKnown
  <2>2. ~Trying(thread[Main], m) /\ ~Queued(Unparked(thread[Main]), m)
    BY <1>1, <2>1, IdleTriesNothing, ClearedRecords
  <2> QED
    BY <1>1, <2>1, <2>2, Undisturbed
<1>4. CASE CallbackReturns(CallbackWorkers)
  <2>1. thread' = [thread EXCEPT ![current] = Parked(@)] /\ call[current] = NoCall
    BY <1>4 DEF CallbackReturns, AnyCall
  <2>2. ~Trying(thread[current], m) /\ ~Queued(Parked(thread[current]), m)
    BY <1>1, <2>1, IdleTriesNothing, ClearedRecords
  <2> QED
    BY <1>1, <2>1, <2>2, Undisturbed
<1>5. ASSUME NEW i \in CallbackWorkers, CancelCallback(i)
      PROVE  Served(m)'
  <2>1. /\ thread' = [thread EXCEPT ![i] = Parked(@)] /\ i \in Slots
        /\ i \in CallbackWorkers \ started
    BY <1>1, <1>5 DEF CancelCallback
  <2>2. call[i].op = "none"
    BY <2>1 DEF Sane, ThreadsLive
  <2>3. ~Trying(thread[i], m) /\ ~Queued(Parked(thread[i]), m)
    BY <1>1, <2>1, <2>2, IdleTriesNothing, ClearedRecords
  <2> QED
    BY <1>1, <2>1, <2>3, Undisturbed
<1> QED
  BY <1>2, <1>3, <1>4, <1>5
     DEF HostStep, EnterIdle, LeaveIdle, MainReturns, EndQuantum, GuestFault

(* An iteration keeps every mutex served.                                    *)
LEMMA LoopStepServes ==
    ASSUME Sane, LoopStep, NEW m \in Mutexes, Served(m)
    PROVE  Served(m)'
<1>1. PICK expired \in SUBSET WithDeadline(thread),
           posted \in SUBSET {i \in CallbackWorkers : IsParked(thread[i])} :
             Iterate(expired, posted)
  BY DEF LoopStep
<1>2. thread' = Handed(expired, posted) /\ mutex' = mutex
  BY <1>1 DEF Iterate, Dispatch, Handed, syncVars
<1>3. thread \in [Slots -> Thread] /\ TimedOut(thread, expired) \in [Slots -> Thread]
  BY TimedOutType DEF Sane, TypeOK, SchedTypeOK
<1>4. ASSUME NEW i \in Slots
      PROVE  \/ thread'[i] = thread[i]
             \/ ~Queued(thread'[i], m) /\ ~Trying(thread[i], m)
  <2>1. CASE i \in posted
    <3>1. thread'[i] = Unparked(TimedOut(thread, expired)[i])
      BY <1>2, <2>1 DEF Handed
    <3>2. thread[i].state = "BLOCKED"
      BY <2>1 DEF IsParked
    <3> QED
      BY <1>3, <3>1, <3>2, ClearedRecords DEF Trying
  <2>2. CASE i \notin posted
    <3> DEFINE asleep == {j \in expired : thread[j].wait = "SLEEP"}
               waits == {j \in expired : thread[j].wait \in {"COND", "FUTEX"}}
               once == Woken(thread, asleep, "OK")
    <3>1. thread'[i] = Woken(once, waits, "ETIMEDOUT")[i]
      BY <1>2, <2>2 DEF Handed, TimedOut
    <3>2. once \in [Slots -> Thread] /\ "OK" \in Results /\ "ETIMEDOUT" \in Results
      BY <1>3, WokenTypes DEF Results
    <3> HIDE DEF asleep, waits
    <3>3. \/ once[i] = thread[i]
          \/ once[i].state = "RUNNABLE" /\ thread[i].state = "BLOCKED"
      BY <1>3, <3>2, WokenFields
    <3> HIDE DEF once
    <3>4. \/ thread'[i] = once[i]
          \/ thread'[i].state = "RUNNABLE" /\ once[i].state = "BLOCKED"
      BY <3>1, <3>2, WokenFields
    <3> QED
      BY <3>3, <3>4 DEF Queued, Trying
  <2> QED
    BY <2>1, <2>2
<1> QED
  BY <1>2, <1>4, Undisturbed

(* Futexes and sleeping keep every mutex served.                             *)
LEMMA WaitStepServes ==
    ASSUME Sane, FutexStep \/ Sleep, NEW m \in Mutexes, Served(m)
    PROVE  Served(m)'
<1>1. /\ thread \in [Slots -> Thread] /\ current \in Slots /\ mutex' = mutex /\ "OK" \in Results
  BY DEF FutexStep, FutexWait, FutexWake, Store, Sleep, syncVars, Sane, TypeOK, SchedTypeOK, Results
<1>2. ASSUME call[current].op \notin {"lock", "cond_wait"},
             NEW t, thread' = [thread EXCEPT ![current] = t], ~Queued(t, m)
      PROVE  Served(m)'
  <2>1. ~Trying(thread[current], m)
    BY <1>1, <1>2, IdleTriesNothing
  <2> QED
    BY <1>1, <1>2, <2>1, Undisturbed
<1>3. CASE Sleep
  <2>1. call[current].op \notin {"lock", "cond_wait"}
    <3>1. NoCall.op = "none" /\ SleepCall.op = "sleep"
      BY DEF NoCall, SleepCall
    <3> QED
      BY <1>3, <3>1 DEF Sleep, Executing
  <2>2. /\ ~Queued(ClearWait(thread[current]), m)
        /\ ~Queued(Blocked(thread[current], "SLEEP", NoObj, NoObj, TRUE), m)
    BY <1>1, ClearedRecords
  <2> QED
    BY <1>2, <1>3, <2>1, <2>2 DEF Sleep
<1>4. ASSUME NEW u \in Futexes, NEW v \in Words, NEW timed \in BOOLEAN, FutexWait(u, v, timed)
      PROVE  Served(m)'
  <2>1. call[current].op \notin {"lock", "cond_wait"}
    BY <1>4 DEF FutexWait, Executing, NoCall, FutexCall
  <2>2. /\ ~Queued(ClearWait(thread[current]), m)
        /\ ~Queued(Blocked(thread[current], "FUTEX", u, v, timed), m)
    BY <1>1, ClearedRecords
  <2> QED
    BY <1>2, <1>4, <2>1, <2>2 DEF FutexWait
<1>5. ASSUME NEW u \in Futexes, NEW most, FutexWake(u, most)
      PROVE  Served(m)'
  <2> DEFINE S == FirstWaiters(u, most)
  <2>1. thread' = Woken(thread, S, "OK")
    BY <1>5 DEF FutexWake
  <2> HIDE DEF S
  <2> QED
    BY <1>1, <2>1, WakingIsHarmless, Undisturbed
<1>6. ASSUME NEW u \in Futexes, NEW v \in Words, Store(u, v)
      PROVE  Served(m)'
  BY <1>1, <1>6, Undisturbed DEF Store, schedVars
<1> QED
  BY <1>3, <1>4, <1>5, <1>6 DEF FutexStep

(* An unlock that frees m wakes one of its waiters.                          *)
LEMMA UnlockServes ==
    ASSUME Sane, NEW m \in Mutexes, Owns(m), NEW k \in Mutexes, Served(k),
           mutex' = Unlocked(m),
           \A i \in Slots \ {current} : thread'[i] = HandedOn(m)[i],
           ~Queued(thread'[current], k), call[current] = NoCall, inQuantum
    PROVE  Served(k)'
<1> DEFINE S == FirstAfterCurrent(MutexWaiters(m))
<1>1. /\ thread \in [Slots -> Thread] /\ current \in Slots /\ "OK" \in Results /\ TypeOK
      /\ NoCall.op = "none" /\ thread[current].state = "RUNNABLE"
  BY DEF Sane, TypeOK, SchedTypeOK, Results, NoCall, RunnerKnown
<1>2. ~Trying(thread[current], k)
  BY <1>1, IdleTriesNothing
<1>3. HandedOn(m) = IF mutex[m].rec > 1 THEN thread ELSE WokenKeeping(thread, S)
  BY DEF HandedOn
<1>4. /\ S \subseteq MutexWaiters(m) /\ MutexWaiters(m) \subseteq Slots
      /\ MutexWaiters(m) # {} => S # {}
  <2>1. MutexWaiters(m) \in SUBSET Slots
    BY DEF MutexWaiters
  <2> QED
    BY <1>1, <2>1, FirstIsMember
<1> HIDE DEF S
<1>5. \A i \in Slots : \/ thread'[i] = thread[i]
                       \/ ~Queued(thread'[i], k) /\ ~Trying(thread[i], k)
  BY <1>1, <1>2, <1>3, WakingIsHarmless
<1>6. CASE k # m \/ mutex[m].rec > 1
  <2>1. mutex'[k].owner = NoOwner => mutex[k].owner = NoOwner
    BY <1>1, <1>6, UnlockedFields DEF Slots, NoOwner
  <2> QED
    BY <1>5, <2>1, Undisturbed
<1>7. CASE k = m /\ ~(mutex[m].rec > 1)
  <2> SUFFICES ASSUME NEW i \in Slots, Queued(thread'[i], m)
               PROVE  \E j \in Slots : Trying(thread'[j], m)
    BY <1>7 DEF Served
  <2>1. i # current /\ thread'[i] = WokenKeeping(thread, S)[i]
    BY <1>3, <1>7
  <2>2. Queued(thread[i], m)
    BY <1>1, <2>1, WakingIsHarmless
  <2>3. PICK j \in S : j \in MutexWaiters(m)
    BY <1>4, <2>2 DEF MutexWaiters, Queued
  <2>4. j \in Slots /\ Queued(thread[j], m)
    BY <2>3 DEF MutexWaiters, Queued
  <2>5. j # current /\ thread'[j] = WokenKeeping(thread, S)[j]
    BY <1>1, <1>3, <1>7, <2>4 DEF Queued
  <2>6. /\ thread'[j].state = "RUNNABLE" /\ thread'[j].ready
        /\ thread'[j].wait = thread[j].wait
        /\ thread'[j].obj = thread[j].obj /\ thread'[j].aux = thread[j].aux
    <3>1. thread[j].state = "BLOCKED" /\ j \in S
      BY <2>3, <2>4 DEF Queued
    <3> DEFINE woken == WokenKeeping(thread, S)[j]
    <3>2. /\ woken.state = "RUNNABLE" /\ woken.ready /\ woken.wait = thread[j].wait
          /\ woken.obj = thread[j].obj /\ woken.aux = thread[j].aux
      <4>1. thread[j] \in Thread /\ woken = [thread[j] EXCEPT !.state = "RUNNABLE", !.ready = TRUE]
        BY <1>1, <2>4, <3>1 DEF WokenKeeping
      <4> HIDE DEF woken
      <4> QED
        BY <4>1 DEF Thread
    <3> HIDE DEF woken
    <3>3. thread'[j] = woken
      BY <2>5 DEF woken
    <3> QED
      BY <3>2, <3>3
  <2> QED
    BY <2>4, <2>6 DEF Queued, Trying
<1> QED
  BY <1>6, <1>7

(* The mutex shims keep every mutex served.                                  *)
LEMMA MutexStepServes ==
    ASSUME Sane, MutexStep, NEW k \in Mutexes, Served(k)
    PROVE  Served(k)'
<1> PICK m \in Mutexes :
        \/ Lock(m) \/ TryLock(m) \/ Unlock(m) \/ DestroyMutex(m)
        \/ \E type \in MutexTypes : InitMutex(m, type)
  BY DEF MutexStep
<1>1. /\ thread \in [Slots -> Thread] /\ current \in Slots /\ TypeOK
      /\ mutex \in [Mutexes -> Mutex] /\ Lookup(m) \in Mutex
      /\ NoCall.op = "none" /\ LockCall(m).op = "lock" /\ LockCall(m).obj = m
  BY MutexTypesKept DEF Sane, TypeOK, SchedTypeOK, NoCall, LockCall
<1>2. CASE inQuantum /\ Take(m) /\ call[current] \in {NoCall, LockCall(m)}
  <2>1. /\ mutex' = [mutex EXCEPT ![m] = Acquired(Lookup(m))]
        /\ thread' = [thread EXCEPT ![current] = ClearWait(@)]
    BY <1>2 DEF Take
  <2>2. mutex'[m].owner # NoOwner
    BY <1>1, <2>1, AcquiredFields
  <2>3. k # m => ~Trying(thread[current], k)
    BY <1>1, <1>2, RunnerTries
  <2>4. ~Queued(ClearWait(thread[current]), k)
    BY <1>1, ClearedRecords
  <2> QED
    BY <1>1, <2>1, <2>2, <2>3, <2>4, Undisturbed
<1>3. CASE /\ call[current] \in {NoCall, LockCall(m)}
           /\ mutex[m].owner # NoOwner /\ UNCHANGED syncVars
           /\ thread' = [thread EXCEPT ![current] = Blocked(@, "MUTEX", m, NoObj, FALSE)]
  <2>1. k # m => ~Trying(thread[current], k)
    BY <1>1, <1>3, RunnerTries
  <2>2. k # m => ~Queued(Blocked(thread[current], "MUTEX", m, NoObj, FALSE), k)
    BY <1>1, ClearedRecords
  <2>3. mutex' = mutex
    BY <1>3 DEF syncVars
  <2> QED
    BY <1>1, <1>3, <2>1, <2>2, <2>3, Undisturbed
<1>4. CASE UNCHANGED <<thread, syncVars>>
  BY <1>4, Undisturbed DEF syncVars
<1>5. CASE Unlock(m)
  <2>1. /\ Owns(m) /\ mutex' = Unlocked(m) /\ thread' = HandedOn(m)
        /\ inQuantum /\ call[current] = NoCall
    BY <1>5 DEF Unlock, AnyCall
  <2>2. thread[current].state = "RUNNABLE"
    BY <2>1 DEF Sane, RunnerKnown
  <2>3. ~Queued(thread'[current], k)
    BY <1>1, <2>1, <2>2, HandedOnFits DEF Queued
  <2> QED
    BY <2>1, <2>3, UnlockServes
<1>6. ASSUME NEW x, mutex' = [mutex EXCEPT ![m] = x], UNCHANGED thread,
             mutex[m].owner = NoOwner
      PROVE  Served(k)'
  <2>1. mutex'[k].owner = NoOwner => mutex[k].owner = NoOwner
    BY <1>1, <1>6
  <2> QED
    BY <1>6, <2>1, Undisturbed
<1>7. CASE DestroyMutex(m) \/ \E type \in MutexTypes : InitMutex(m, type)
  BY <1>6, <1>7 DEF DestroyMutex, InitMutex
<1>8. CASE Lock(m)
  BY <1>2, <1>3, <1>4, <1>8 DEF Lock, Executing
<1>9. CASE TryLock(m)
  BY <1>2, <1>9 DEF TryLock, AnyCall
<1> QED
  BY <1>5, <1>7, <1>8, <1>9

(* The condition variable shims keep every mutex served.                     *)
LEMMA CondStepServes ==
    ASSUME Sane, CondStep, NEW k \in Mutexes, Served(k)
    PROVE  Served(k)'
<1> PICK c \in Conds :
        \/ Signal(c) \/ Broadcast(c) \/ InitCond(c) \/ DestroyCond(c)
        \/ \E m \in Mutexes, timed \in BOOLEAN : CondWait(c, m, timed)
  BY DEF CondStep
<1>1. /\ thread \in [Slots -> Thread] /\ current \in Slots /\ TypeOK
      /\ mutex \in [Mutexes -> Mutex] /\ "OK" \in Results /\ NoCall.op = "none"
  BY DEF Sane, TypeOK, SchedTypeOK, Results, NoCall
<1>2. ASSUME NEW S, Notify(c, S)
      PROVE  Served(k)'
  <2>1. thread' = Woken(thread, S, "OK") /\ mutex' = mutex
    BY <1>2 DEF Notify
  <2> QED
    BY <1>1, <2>1, WakingIsHarmless, Undisturbed
<1>3. CASE DestroyCond(c)
  BY <1>3, Undisturbed DEF DestroyCond
<1>4. ASSUME NEW m \in Mutexes, NEW timed \in BOOLEAN, CondWait(c, m, timed)
      PROVE  Served(k)'
  <2>1. /\ inQuantum /\ call[current] \in {NoCall, WaitCall(c, m, timed)}
        /\ WaitCall(c, m, timed).op = "cond_wait" /\ WaitCall(c, m, timed).obj = c
        /\ WaitCall(c, m, timed).aux = m
    BY <1>4 DEF CondWait, Executing, WaitCall
  <2>2. /\ Fits(thread[current], call[current]) /\ thread[current].state = "RUNNABLE"
    BY <1>1, <2>1 DEF Sane, RunnerKnown, RetryFindsItsRecord
  <2>3. k # m => ~Trying(thread[current], k)
    BY <1>1, <2>1, RunnerTries
  <2>4. CASE CondWaitEnter(c, m, timed)
    <3>1. /\ Owns(m) /\ mutex' = Unlocked(m) /\ ~IsCondRetry(c, m)
          /\ thread' = [HandedOn(m) EXCEPT ![current] = Blocked(@, "COND", c, m, timed)]
      BY <2>4 DEF CondWaitEnter
    <3>2. call[current] = NoCall
      BY <2>1, <2>2, <3>1 DEF IsCondRetry, NamesCond, Fits
    <3>3. HandedOn(m)[current] = thread[current] /\ HandedOn(m) \in [Slots -> Thread]
      BY <1>1, <2>2, HandedOnFits, WokenTypes DEF HandedOn
    <3>4. ~Queued(thread'[current], k)
      BY <1>1, <3>1, <3>3, ClearedRecords
    <3>5. \A i \in Slots \ {current} : thread'[i] = HandedOn(m)[i]
      BY <3>1, <3>3
    <3> QED
      BY <2>1, <3>1, <3>2, <3>4, <3>5, UnlockServes
  <2>5. CASE CondWaitRetry(c, m, timed)
    <3>1. thread[current].aux = m
      BY <2>5 DEF CondWaitRetry, IsCondRetry
    <3>2. CASE /\ mutex[m].owner # NoOwner /\ UNCHANGED mutex
               /\ thread' = [thread EXCEPT ![current] = Requeued(@)]
      <4>1. k # m => ~Queued(Requeued(thread[current]), k)
        BY <1>1, <3>1, ClearedRecords
      <4> QED
        BY <1>1, <2>3, <3>2, <4>1, Undisturbed
    <3>3. CASE /\ mutex[m].owner \in {NoOwner, current}
               /\ mutex' = IF Acquirable(mutex[m])
                           THEN [mutex EXCEPT ![m] = Acquired(@)] ELSE mutex
               /\ thread' = [thread EXCEPT ![current] = ClearWait(@)]
      <4>1. mutex'[m].owner # NoOwner
        BY <1>1, <3>3, AcquiredFields DEF Acquirable, Slots, NoOwner
      <4>2. k # m => mutex'[k] = mutex[k]
        BY <1>1, <3>3
      <4>3. ~Queued(ClearWait(thread[current]), k)
        BY <1>1, ClearedRecords
      <4> QED
        BY <1>1, <2>3, <3>3, <4>1, <4>2, <4>3, Undisturbed
    <3> QED
      BY <2>5, <3>2, <3>3 DEF CondWaitRetry
  <2>6. CASE CondWaitFails(c, m)
    BY <2>6, Undisturbed DEF CondWaitFails
  <2> QED
    BY <1>4, <2>4, <2>5, <2>6 DEF CondWait
<1> QED
  BY <1>2, <1>3, <1>4 DEF Signal, Broadcast, InitCond

-----------------------------------------------------------------------------
(* The theorems. *)

IInv == Sane /\ CountsMatch /\ NoLostMutexWakeup

(* The invariant holds at first.                                             *)
LEMMA InitIInv == Init => IInv
<1> SUFFICES ASSUME Init PROVE NoLostMutexWakeup
  BY InitSane DEF IInv
<1>1. \A i \in Slots : thread[i].wait \in {"NONE", "CALLBACK"}
  BY DEF Init, NewThread, Parked, ClearWait
<1> QED
  BY <1>1 DEF NoLostMutexWakeup, MutexWaiters

(* Every step keeps the invariant.                                           *)
LEMMA IInvStep == IInv /\ [Next]_vars => IInv'
<1> SUFFICES ASSUME IInv, [Next]_vars PROVE IInv'
  OBVIOUS
<1>1. Sane' /\ CountsMatch'
  BY SaneStep DEF IInv
<1>2. ASSUME NEW m \in Mutexes, Served(m)
      PROVE  Served(m)'
  <2>1. CASE UNCHANGED vars
    BY <1>2, <2>1, Undisturbed DEF vars, schedVars
  <2> QED
    BY <1>2, <2>1, HostStepServes, LoopStepServes, WaitStepServes, MutexStepServes,
       CondStepServes DEF Next, IInv
<1>3. NoLostMutexWakeup'
  <2>1. \A m \in Mutexes : Served(m)
    BY ServedMeansNoneLost DEF IInv
  <2>2. \A m \in Mutexes : Served(m)'
    BY <1>2, <2>1
  <2>3. \A m \in Mutexes : /\ MutexWaiters(m)' # {} => \E k \in Slots : Queued(thread'[k], m)
                            /\ \A i \in Slots : Trying(thread'[i], m) => Contends(i, m)'
    BY DEF MutexWaiters, Queued, Contends, Trying, NamesMutex
  <2> QED
    BY <2>2, <2>3 DEF NoLostMutexWakeup, Served
<1> QED
  BY <1>1, <1>3 DEF IInv

(* The invariant holds throughout.                                           *)
LEMMA Inductive == Spec => []IInv
BY InitIInv, IInvStep, PTL DEF Spec

(* A woken thread's retry finds the wait record its call left, for any       *)
(* number of threads and objects: cond_wait never skips its wait and sleep   *)
(* never returns early because of a record of an earlier call.               *)
THEOREM RetriesAreSafe == Spec => []RetryFindsItsRecord
<1>1. IInv => RetryFindsItsRecord
  BY DEF IInv, Sane
<1> QED
  BY <1>1, Inductive, PTL

(* The mutex and condition variable a blocked call needs are registered      *)
(* until it returns: the destroy shims' scan of the wait records is enough,  *)
(* also between a wake-up and the retry.                                     *)
THEOREM ObjectsOutliveWaiters == Spec => []WaitersKeepObjects
<1>1. IInv => WaitersKeepObjects
  BY DEF IInv, Sane
<1> QED
  BY <1>1, Inductive, PTL

(* A free mutex with blocked waiters has a woken one on its way: waking one  *)
(* waiter per unlock loses no wake-up, however barging lockers, condition    *)
(* waiters, timeouts and callbacks interleave.                               *)
THEOREM NoWakeupIsLost == Spec => []NoLostMutexWakeup
<1>1. IInv => NoLostMutexWakeup
  BY DEF IInv
<1> QED
  BY <1>1, Inductive, PTL

(* A mutex changes hands between nobody and the running thread only: a lock  *)
(* or a retried wait takes a free one, an unlock or a wait frees its own,    *)
(* and no timeout, wake-up, initialization or destruction moves one.         *)
OwnerStep(m) ==
    mutex[m].owner # mutex'[m].owner
        => inQuantum /\ {mutex[m].owner, mutex'[m].owner} = {current, NoOwner}

(* Every step moves ownership this way.                                      *)
LEMMA OwnerMoves == IInv /\ [Next]_vars => \A m \in Mutexes : OwnerStep(m)
<1> SUFFICES ASSUME Sane, CountsMatch, [Next]_vars, NEW k \in Mutexes PROVE OwnerStep(k)
  BY DEF IInv
<1>1. /\ current \in Slots /\ TypeOK /\ mutex \in [Mutexes -> Mutex]
  BY DEF Sane, TypeOK, SchedTypeOK
<1>2. CASE UNCHANGED mutex
  BY <1>2 DEF OwnerStep
<1>3. ASSUME NEW m \in Mutexes, NEW x \in Mutex, inQuantum, Acquirable(x),
             x.owner = mutex[m].owner, mutex' = [mutex EXCEPT ![m] = Acquired(x)]
      PROVE  OwnerStep(k)
  <2>1. mutex'[m].owner = current /\ x.owner \in {NoOwner, current}
    BY <1>1, <1>3, AcquiredFields DEF Acquirable
  <2> QED
    BY <1>1, <1>3, <2>1 DEF OwnerStep
<1>4. ASSUME NEW m \in Mutexes, inQuantum, Owns(m), mutex' = Unlocked(m)
      PROVE  OwnerStep(k)
  <2>1. mutex[m].owner = current
    BY <1>4 DEF Owns
  <2> QED
    BY <1>1, <1>4, <2>1, UnlockedFields DEF OwnerStep
<1>5. CASE MutexStep
  <2> PICK m \in Mutexes :
          \/ Lock(m) \/ TryLock(m) \/ Unlock(m) \/ DestroyMutex(m)
          \/ \E type \in MutexTypes : InitMutex(m, type)
    BY <1>5 DEF MutexStep
  <2>1. ASSUME inQuantum, Take(m)
        PROVE  OwnerStep(k)
    <3>1. Acquirable(Lookup(m)) /\ mutex' = [mutex EXCEPT ![m] = Acquired(Lookup(m))]
      BY <2>1 DEF Take
    <3>2. CASE Registered(m)
      <4>1. Lookup(m) = mutex[m] /\ mutex[m] \in Mutex
        BY <1>1, <3>2 DEF Lookup
      <4> QED
        BY <1>3, <2>1, <3>1, <4>1
    <3>3. CASE ~Registered(m)
      <4>1. Lookup(m).owner = NoOwner /\ Lookup(m) \in Mutex
        BY <1>1, <3>3, MutexTypesKept DEF Lookup, NewMutex, NoMutex
      <4>2. mutex[m].owner = NoOwner
        BY <3>3 DEF CountsMatch, Registered
      <4> QED
        BY <1>1, <1>3, <2>1, <3>1, <4>1, <4>2
    <3> QED
      BY <3>2, <3>3
  <2>2. CASE DestroyMutex(m) \/ \E type \in MutexTypes : InitMutex(m, type)
    <3>1. mutex[m].owner = NoOwner /\ \E x : x.owner = NoOwner /\ mutex' = [mutex EXCEPT ![m] = x]
      BY <2>2 DEF DestroyMutex, InitMutex, NewMutex, NoMutex
    <3> QED
      BY <1>1, <3>1 DEF OwnerStep
  <2>3. CASE UNCHANGED syncVars
    BY <1>2, <2>3 DEF syncVars
  <2> QED
    BY <1>4, <2>1, <2>2, <2>3 DEF Lock, TryLock, Unlock, Executing, AnyCall
<1>6. CASE CondStep
  <2> PICK c \in Conds :
          \/ Signal(c) \/ Broadcast(c) \/ InitCond(c) \/ DestroyCond(c)
          \/ \E m \in Mutexes, timed \in BOOLEAN : CondWait(c, m, timed)
    BY <1>6 DEF CondStep
  <2>1. CASE Signal(c) \/ Broadcast(c) \/ InitCond(c) \/ DestroyCond(c)
    BY <1>2, <2>1 DEF Signal, Broadcast, InitCond, Notify, DestroyCond
  <2>2. ASSUME NEW m \in Mutexes, NEW timed \in BOOLEAN, CondWait(c, m, timed)
        PROVE  OwnerStep(k)
    <3>1. inQuantum /\ mutex[m] \in Mutex
      BY <1>1, <2>2 DEF CondWait, Executing
    <3>2. CASE CondWaitEnter(c, m, timed)
      BY <1>4, <3>1, <3>2 DEF CondWaitEnter
    <3>3. CASE CondWaitRetry(c, m, timed)
      BY <1>2, <1>3, <3>1, <3>3 DEF CondWaitRetry
    <3>4. CASE CondWaitFails(c, m)
      BY <1>2, <3>4 DEF CondWaitFails
    <3> QED
      BY <2>2, <3>2, <3>3, <3>4 DEF CondWait
  <2> QED
    BY <2>1, <2>2
<1>7. CASE \/ HostStep \/ LoopStep \/ FutexStep \/ Sleep \/ UNCHANGED vars
           \/ \E i \in CallbackWorkers : CancelCallback(i)
  <2>1. UNCHANGED mutex
    BY <1>7 DEF HostStep, LoopStep, Iterate, FutexStep, FutexWait, FutexWake, Store, Sleep,
                CancelCallback, syncVars, vars
  <2> QED
    BY <1>2, <2>1
<1> QED
  BY <1>5, <1>6, <1>7 DEF Next

(* Ownership moves through the running thread alone, in every instance.      *)
THEOREM OwnershipIsTaken == Spec => OwnershipMovesByRunner
<1>1. IInv /\ [Next]_vars =>
        [\A m \in Mutexes :
           LET before == mutex[m].owner
               after == mutex'[m].owner
           IN  before # after => inQuantum /\ {before, after} = {current, NoOwner}]_vars
  BY OwnerMoves DEF OwnerStep
<1> QED
  BY <1>1, Inductive, PTL DEF Spec, OwnershipMovesByRunner

-----------------------------------------------------------------------------
(* A step that reports a deadlock finds a real one, and it stays.            *)
LEMMA DeadlockStep ==
    ASSUME IInv, IInv', DeadlockIsReal, [Next]_vars
    PROVE  DeadlockIsReal'
<1> SUFFICES ASSUME loop' = "deadlock" PROVE DeadlockIsReal'
  BY DEF DeadlockIsReal
<1>1. /\ thread' \in [Slots -> Thread] /\ current \in Slots
      /\ \A i \in Slots : thread'[i].state \in {"RUNNABLE", "BLOCKED"}
      /\ inQuantum => loop \in {"run", "idle"}
  BY DEF IInv, Sane, TypeOK, SchedTypeOK, ThreadsLive, RunnerKnown
<1>2. CASE UNCHANGED vars
  BY <1>2 DEF vars, schedVars, DeadlockIsReal, MutexWaiters
<1>3. CASE LoopStep
  <2>1. PICK expired, posted : Iterate(expired, posted)
    BY <1>3 DEF LoopStep
  <2>2. PICK th : Dispatch(th, CallbackWorkers) /\ AtLoopTop
    BY <2>1 DEF Iterate
  <2>3. /\ thread' = th /\ loop = "run" /\ WithDeadline(th) = {}
        /\ Pick(th, CallbackWorkers, TRUE) = {}
    BY <2>2 DEF Dispatch, AtLoopTop, BeginQuantum
  <2>4. Runnable(th) = {}
    <3>1. LowestOf(Runnable(th) \cap CallbackWorkers) # {} \/ Runnable(th) \cap CallbackWorkers = {}
      BY DEF LowestOf
    <3>2. Runnable(th) \ {Main} \in SUBSET Slots
      BY DEF Runnable
    <3>3. Runnable(th) \ {Main} # {} => FirstAfterCurrent(Runnable(th) \ {Main}) # {}
      BY <1>1, <3>2, FirstIsMember
    <3> QED
      BY <2>3, <3>1, <3>3 DEF Pick
  <2>5. \A i \in Slots : thread'[i].state = "BLOCKED" /\ ~thread'[i].timed
    BY <1>1, <2>3, <2>4 DEF Runnable, WithDeadline
  <2>6. ASSUME NEW m \in Mutexes, MutexWaiters(m)' # {}
        PROVE  mutex'[m].owner # NoOwner
    BY <2>5, <2>6 DEF IInv, NoLostMutexWakeup, Contends
  <2> QED
    BY <2>5, <2>6 DEF DeadlockIsReal
<1>4. CASE HostStep
  BY <1>1, <1>4 DEF HostStep, EnterRun, EnterIdle, LeaveIdle, MainReturns, EndQuantum, GuestFault,
                    CallbackReturns, AnyCall, AtLoopTop
<1>5. CASE MutexStep
  BY <1>1, <1>5 DEF MutexStep, Lock, TryLock, Take, Unlock, DestroyMutex, InitMutex, AnyCall,
                    Executing, Returns, Blocks
<1>6. CASE CondStep
  BY <1>1, <1>6 DEF CondStep, Signal, Broadcast, InitCond, Notify, DestroyCond, CondWait, CondWaitEnter,
                    CondWaitRetry, CondWaitFails, AnyCall, Executing, Returns, Blocks
<1>7. CASE FutexStep \/ Sleep \/ \E i \in CallbackWorkers : CancelCallback(i)
  BY <1>1, <1>7 DEF FutexStep, FutexWait, FutexWake, Store, Sleep, CancelCallback, AnyCall,
                    Executing, Returns, Blocks, schedVars
<1> QED
  BY <1>2, <1>3, <1>4, <1>5, <1>6, <1>7 DEF Next

(* "guest-thread deadlock" is never reported of a guest that could go on.    *)
THEOREM DeadlocksAreReal == Spec => []DeadlockIsReal
<1>1. Init => DeadlockIsReal
  BY DEF Init, DeadlockIsReal
<1> QED
  BY <1>1, Inductive, DeadlockStep, PTL DEF Spec

-----------------------------------------------------------------------------
(* What a wake-up leaves with the thread.  A record carries an outcome other *)
(* than OK only from the wake-up to the return of the call, and a thread     *)
(* that was woken and is blocked again queues for its mutex: it cannot be    *)
(* woken with another outcome.                                               *)
Tidy(t) ==
    /\ t.result = "OK" \/ (t.ready /\ t.wait # "MUTEX")
    /\ t.state = "BLOCKED" /\ t.ready => t.wait = "COND_MUTEX"
RecordsAreTidy == \A i \in Slots : Tidy(thread[i])

(* The outcome of a served call is the one it was given. *)
KeepsOutcome(i) ==
    (thread[i].ready \/ thread[i].wait = "COND_MUTEX")
        /\ call[i].op # "none" /\ call'[i] = call[i]
            => thread'[i].result = thread[i].result

(* Records that a shim clears, or leaves for a new wait, are tidy. *)
LEMMA ClearedIsTidy ==
    ASSUME NEW t \in Thread
    PROVE  Tidy(ClearWait(t)) /\ Tidy(Parked(t)) /\ Tidy(Unparked(t))
<1>1. /\ ClearWait(t).result = "OK" /\ Parked(t).result = "OK" /\ Unparked(t).result = "OK"
      /\ ClearWait(t).ready = FALSE /\ Parked(t).ready = FALSE /\ Unparked(t).ready = FALSE
  BY DEF Thread, ClearWait, Parked, Unparked
<1> QED
  BY <1>1 DEF Tidy

(* A thread that blocks for the first time, or again for a mutex, had not    *)
(* been given an outcome.                                                    *)
LEMMA BlockedIsTidy ==
    ASSUME NEW t \in Thread, Tidy(t), t.ready => t.wait = "MUTEX",
           NEW kind, NEW o, NEW a, NEW timed
    PROVE  /\ Tidy(Blocked(t, kind, o, a, timed))
           /\ Blocked(t, kind, o, a, timed).result = "OK"
           /\ t.result = "OK"
<1>1. /\ Blocked(t, kind, o, a, timed).ready = FALSE
      /\ Blocked(t, kind, o, a, timed).result = t.result
  BY DEF Thread, Blocked
<1>2. t.result = "OK"
  BY DEF Tidy
<1> QED
  BY <1>1, <1>2 DEF Tidy

(* Queueing for the mutex after the wake-up keeps the outcome. *)
LEMMA RequeuedIsTidy ==
    ASSUME NEW t \in Thread, Tidy(t), t.ready, t.wait # "MUTEX"
    PROVE  Tidy(Requeued(t)) /\ Requeued(t).result = t.result
<1>1. /\ Requeued(t).result = t.result /\ Requeued(t).ready = t.ready
      /\ Requeued(t).wait = "COND_MUTEX"
  BY DEF Thread, Requeued
<1> QED
  BY <1>1 DEF Tidy

(* A wake-up leaves tidy records; with an outcome of its own it reaches only *)
(* threads that have none yet, and without one it changes none.              *)
LEMMA WokenIsTidy ==
    ASSUME NEW th \in [Slots -> Thread], NEW S, NEW r \in Results, NEW i \in Slots, Tidy(th[i])
    PROVE  /\ (i \in S => th[i].wait \notin {"MUTEX", "COND_MUTEX"}) =>
                  /\ Tidy(Woken(th, S, r)[i])
                  /\ th[i].ready \/ th[i].wait = "COND_MUTEX" => Woken(th, S, r)[i] = th[i]
           /\ Tidy(WokenKeeping(th, S)[i])
           /\ WokenKeeping(th, S)[i].result = th[i].result
<1>1. CASE i \in S /\ th[i].state = "BLOCKED"
  <2> DEFINE w == Woken(th, S, r)[i]
             x == WokenKeeping(th, S)[i]
  <2>1. /\ w.wait = th[i].wait /\ w.state = "RUNNABLE" /\ w.ready
        /\ x.wait = th[i].wait /\ x.state = "RUNNABLE" /\ x.ready
    BY <1>1 DEF Woken, WokenKeeping, Thread
  <2>0. x.result = th[i].result
    BY DEF WokenKeeping, Thread
  <2> HIDE DEF w, x
  <2>2. Tidy(x) /\ (th[i].wait \notin {"MUTEX", "COND_MUTEX"} => Tidy(w))
    BY <2>0, <2>1 DEF Tidy
  <2>3. th[i].wait \notin {"MUTEX", "COND_MUTEX"}
          => ~ (th[i].ready \/ th[i].wait = "COND_MUTEX")
    BY <1>1 DEF Tidy
  <2> QED
    BY <1>1, <2>0, <2>1, <2>2, <2>3 DEF w, x
<1>2. CASE ~(i \in S /\ th[i].state = "BLOCKED")
  <2>1. Woken(th, S, r)[i] = th[i] /\ WokenKeeping(th, S)[i] = th[i]
    BY <1>2 DEF Woken, WokenKeeping
  <2> QED
    BY <2>1
<1> QED
  BY <1>1, <1>2

-----------------------------------------------------------------------------
(* One step of the shims, seen from one slot. *)

(* The record stays tidy and a served call keeps its outcome.                *)
SlotSteps(i) == Tidy(thread'[i]) /\ KeepsOutcome(i)

(* Only the running thread's call is replaced. *)
LEMMA OthersKeepCalls ==
    ASSUME Sane, Returns \/ \E op : Blocks(op)
    PROVE  \A i \in Slots \ {current} : call'[i] = call[i]
BY DEF Sane, TypeOK, SchedTypeOK, Returns, Blocks

(* A shim that returns ends the call of the running thread.                  *)
LEMMA ReturnEndsCall ==
    ASSUME Sane, Returns
    PROVE  call'[current] = NoCall
BY DEF Sane, TypeOK, SchedTypeOK, Returns

(* A step that leaves the slot alone. *)
LEMMA RestingSlot ==
    ASSUME RecordsAreTidy, NEW i \in Slots, thread'[i] = thread[i]
    PROVE  SlotSteps(i)
BY DEF RecordsAreTidy, SlotSteps, KeepsOutcome

(* A slot without a pending call has no outcome to keep. *)
LEMMA IdleSlot ==
    ASSUME NEW i \in Slots, call[i].op = "none" \/ call'[i].op = "none", Tidy(thread'[i])
    PROVE  SlotSteps(i)
BY DEF SlotSteps, KeepsOutcome

(* The running thread before its shim: a record that is ready is the one of  *)
(* its pending call.                                                         *)
LEMMA RunnerRecord ==
    ASSUME Sane, RecordsAreTidy, inQuantum
    PROVE  /\ current \in Slots /\ thread[current] \in Thread /\ Tidy(thread[current])
           /\ thread[current].ready <=> call[current].op # "none"
           /\ call[current] = NoCall => thread[current].wait = "NONE"
           /\ call[current].op = "lock" => thread[current].wait = "MUTEX"
           /\ call[current].op = "sleep" => thread[current].wait = "SLEEP"
           /\ call[current].op = "cond_wait" => thread[current].wait \in {"COND", "COND_MUTEX"}
<1>1. /\ current \in Slots /\ thread[current] \in Thread /\ thread[current].state = "RUNNABLE"
      /\ Fits(thread[current], call[current])
  BY RunnerIdle
<1>2. NoCall.op = "none"
  BY DEF NoCall
<1> QED
  BY <1>1, <1>2 DEF RecordsAreTidy, Fits

(* Host steps clear records of threads without a call only.                  *)
LEMMA HostSlots ==
    ASSUME Sane, RecordsAreTidy, NEW i \in Slots,
           HostStep \/ \E j \in CallbackWorkers : CancelCallback(j)
    PROVE  SlotSteps(i)
<1>1. /\ thread \in [Slots -> Thread] /\ current \in Slots /\ NoCall.op = "none"
      /\ CallbackWorkers \subseteq Slots /\ Main \in Slots
  BY MainIsSlot DEF Sane, TypeOK, SchedTypeOK, NoCall
<1>2. CASE thread' = thread
  BY <1>2, RestingSlot
<1>3. CASE EnterRun
  <2>1. thread' = [thread EXCEPT ![Main] = Unparked(thread[Main])] /\ call[Main].op = "none"
    BY <1>3 DEF EnterRun, Sane, RunnerKnown
  <2>2. CASE i = Main
    BY <1>1, <2>1, <2>2, IdleSlot, ClearedIsTidy
  <2>3. CASE i # Main
    BY <1>1, <2>1, <2>3, RestingSlot
  <2> QED
    BY <2>2, <2>3
<1>4. CASE CallbackReturns(CallbackWorkers)
  <2>1. thread' = [thread EXCEPT ![current] = Parked(thread[current])] /\ call[current].op = "none"
    BY <1>1, <1>4 DEF CallbackReturns, AnyCall
  <2>2. CASE i = current
    BY <1>1, <2>1, <2>2, IdleSlot, ClearedIsTidy
  <2>3. CASE i # current
    BY <1>1, <2>1, <2>3, RestingSlot
  <2> QED
    BY <2>2, <2>3
<1>5. ASSUME NEW j \in CallbackWorkers, CancelCallback(j)
      PROVE  SlotSteps(i)
  <2>1. thread' = [thread EXCEPT ![j] = Parked(thread[j])] /\ call[j].op = "none"
    BY <1>1, <1>5 DEF CancelCallback, Sane, ThreadsLive
  <2>2. CASE i = j
    BY <1>1, <2>1, <2>2, IdleSlot, ClearedIsTidy
  <2>3. CASE i # j
    BY <1>1, <2>1, <2>3, RestingSlot
  <2> QED
    BY <2>2, <2>3
<1> QED
  BY <1>2, <1>3, <1>4, <1>5
     DEF HostStep, EnterIdle, LeaveIdle, MainReturns, EndQuantum, GuestFault

(* A timeout reaches sleepers and threads in a wait, and of these none that  *)
(* has already been served.                                                  *)
LEMMA LoopSlots ==
    ASSUME Sane, RecordsAreTidy, LoopStep, NEW i \in Slots
    PROVE  SlotSteps(i)
<1>1. PICK expired \in SUBSET WithDeadline(thread),
           posted \in SUBSET {j \in CallbackWorkers : IsParked(thread[j])} :
             Iterate(expired, posted)
  BY DEF LoopStep
<1>2. thread' = Handed(expired, posted)
  BY <1>1 DEF Iterate, Dispatch, Handed
<1>3. thread \in [Slots -> Thread] /\ Tidy(thread[i])
  BY DEF Sane, TypeOK, SchedTypeOK, RecordsAreTidy
<1>4. CASE i \in posted
  <2>1. thread[i].state = "BLOCKED" /\ thread[i].wait = "CALLBACK"
    BY <1>4 DEF IsParked
  <2>2. call[i].op = "none"
    BY <2>1, WaitersHaveCalls
  <2>3. thread'[i] = Unparked(TimedOut(thread, expired)[i])
    BY <1>2, <1>4 DEF Handed
  <2>4. TimedOut(thread, expired)[i] \in Thread
    BY <1>3, TimedOutType
  <2> QED
    BY <2>2, <2>3, <2>4, ClearedIsTidy, IdleSlot
<1>5. CASE i \notin posted
  <2> DEFINE asleep == {j \in expired : thread[j].wait = "SLEEP"}
             waits == {j \in expired : thread[j].wait \in {"COND", "FUTEX"}}
             first == Woken(thread, asleep, "OK")
             second == Woken(first, waits, "ETIMEDOUT")
  <2>1. thread'[i] = second[i]
    BY <1>2, <1>5 DEF Handed, TimedOut
  <2>2. /\ i \in asleep => thread[i].wait \notin {"MUTEX", "COND_MUTEX"}
        /\ i \in waits => thread[i].wait \notin {"MUTEX", "COND_MUTEX"}
    OBVIOUS
  <2> HIDE DEF asleep, waits
  <2>3. "OK" \in Results /\ "ETIMEDOUT" \in Results
    BY DEF Results
  <2>4. /\ first \in [Slots -> Thread] /\ Tidy(first[i]) /\ first[i].wait = thread[i].wait
        /\ thread[i].ready \/ thread[i].wait = "COND_MUTEX" => first[i] = thread[i]
    BY <1>3, <2>2, <2>3, WokenTypes, WokenIsTidy, WokenFields
  <2> HIDE DEF first
  <2>5. /\ Tidy(second[i])
        /\ first[i].ready \/ first[i].wait = "COND_MUTEX" => second[i] = first[i]
    BY <2>2, <2>3, <2>4, WokenIsTidy
  <2>6. thread[i].ready \/ thread[i].wait = "COND_MUTEX" => second[i] = thread[i]
    BY <2>4, <2>5
  <2> HIDE DEF second
  <2> QED
    BY <2>1, <2>5, <2>6 DEF SlotSteps, KeepsOutcome
<1> QED
  BY <1>4, <1>5

(* The running thread's own record after its shim, when it returns.          *)
LEMMA ReturningSlot ==
    ASSUME Sane, RecordsAreTidy, inQuantum, Returns, Tidy(thread'[current])
    PROVE  SlotSteps(current)
<1>1. call'[current].op = "none" /\ current \in Slots
  BY ReturnEndsCall DEF NoCall, Sane, TypeOK, SchedTypeOK
<1> QED
  BY <1>1, IdleSlot

(* Steps on futexes and the clock. *)
LEMMA WaitSlots ==
    ASSUME Sane, RecordsAreTidy, FutexStep \/ Sleep, NEW i \in Slots
    PROVE  SlotSteps(i)
<1>1. /\ thread \in [Slots -> Thread] /\ current \in Slots /\ Tidy(thread[i])
  BY DEF Sane, TypeOK, SchedTypeOK, RecordsAreTidy
<1>2. CASE thread' = thread
  BY <1>2, RestingSlot
<1>3. ASSUME inQuantum, Returns, thread' = [thread EXCEPT ![current] = ClearWait(@)]
      PROVE  SlotSteps(i)
  <2>1. CASE i = current
    BY <1>1, <1>3, <2>1, ClearedIsTidy, ReturningSlot
  <2>2. CASE i # current
    BY <1>1, <1>3, <2>2, RestingSlot
  <2> QED
    BY <2>1, <2>2
<1>4. ASSUME inQuantum, call[current] = NoCall, NEW kind, NEW o, NEW a, NEW timed,
             thread' = [thread EXCEPT ![current] = Blocked(@, kind, o, a, timed)]
      PROVE  SlotSteps(i)
  <2>1. CASE i = current
    <3>1. thread[current] \in Thread /\ Tidy(thread[current]) /\ ~thread[current].ready
      BY <1>4, RunnerRecord DEF NoCall
    <3>2. Tidy(Blocked(thread[current], kind, o, a, timed))
      BY <3>1, BlockedIsTidy
    <3>3. thread'[i] = Blocked(thread[current], kind, o, a, timed) /\ call[i].op = "none"
      BY <1>1, <1>4, <2>1 DEF NoCall
    <3> QED
      BY <3>2, <3>3, IdleSlot
  <2>2. CASE i # current
    BY <1>1, <1>4, <2>2, RestingSlot
  <2> QED
    BY <2>1, <2>2
<1>5. CASE Sleep
  <2>1. inQuantum /\ call[current] \in {NoCall, SleepCall}
    BY <1>5 DEF Sleep, Executing
  <2>2. SleepCall.op = "sleep"
    BY DEF SleepCall, NoCall
  <2>3. ASSUME ~(thread[current].wait = "SLEEP" /\ thread[current].ready)
        PROVE  call[current] = NoCall
    BY <2>1, <2>2, <2>3, RunnerRecord
  <2> QED
    BY <1>3, <1>4, <1>5, <2>1, <2>3 DEF Sleep
<1>6. ASSUME NEW u \in Futexes, NEW v \in Words, NEW timed \in BOOLEAN, FutexWait(u, v, timed)
      PROVE  SlotSteps(i)
  <2> DEFINE op == FutexCall(u, v, timed)
  <2>1. inQuantum /\ call[current] \in {NoCall, op}
    BY <1>6 DEF FutexWait, Executing
  <2>2. op.op = "futex_wait" /\ op.obj = u
    BY DEF FutexCall
  <2>3. ASSUME ~(thread[current].wait = "FUTEX" /\ thread[current].obj = u /\ thread[current].ready)
        PROVE  call[current] = NoCall
    <3> HIDE DEF op
    <3> QED
      BY <2>1, <2>2, <2>3, RunnerIdle DEF Fits
  <2> QED
    BY <1>3, <1>4, <1>6, <2>1, <2>3 DEF FutexWait
<1>7. ASSUME NEW u \in Futexes, NEW most, FutexWake(u, most)
      PROVE  SlotSteps(i)
  <2>1. thread' = Woken(thread, FirstWaiters(u, most), "OK")
    BY <1>7 DEF FutexWake
  <2>2. i \in FirstWaiters(u, most) => thread[i].wait \notin {"MUTEX", "COND_MUTEX"}
    BY DEF FirstWaiters, FutexWaiters
  <2>3. /\ Tidy(thread'[i])
        /\ thread[i].ready \/ thread[i].wait = "COND_MUTEX" => thread'[i] = thread[i]
    BY <1>1, <2>1, <2>2, WokenIsTidy DEF Results
  <2> QED
    BY <2>3 DEF SlotSteps, KeepsOutcome
<1> QED
  BY <1>2, <1>5, <1>6, <1>7 DEF FutexStep, Store, schedVars

(* An unlock wakes a waiter of the mutex with the outcome it has. *)
LEMMA HandedOnIsTidy ==
    ASSUME Sane, RecordsAreTidy, NEW m \in Mutexes, NEW i \in Slots
    PROVE  Tidy(HandedOn(m)[i]) /\ HandedOn(m)[i].result = thread[i].result
<1>1. thread \in [Slots -> Thread] /\ Tidy(thread[i])
  BY DEF Sane, TypeOK, SchedTypeOK, RecordsAreTidy
<1>2. \A S : Tidy(WokenKeeping(thread, S)[i]) /\ WokenKeeping(thread, S)[i].result = thread[i].result
  BY <1>1, WokenIsTidy DEF Results
<1> QED
  BY <1>1, <1>2 DEF HandedOn

(* The mutex shims keep outcomes: an unlock wakes with the one there is.     *)
LEMMA MutexSlots ==
    ASSUME Sane, RecordsAreTidy, MutexStep, NEW i \in Slots
    PROVE  SlotSteps(i)
<1>1. /\ thread \in [Slots -> Thread] /\ current \in Slots /\ Tidy(thread[i])
  BY DEF Sane, TypeOK, SchedTypeOK, RecordsAreTidy
<1> PICK m \in Mutexes :
        \/ Lock(m) \/ TryLock(m) \/ Unlock(m) \/ DestroyMutex(m)
        \/ \E type \in MutexTypes : InitMutex(m, type)
  BY DEF MutexStep
<1>2. inQuantum
  BY DEF Lock, TryLock, Unlock, DestroyMutex, InitMutex, Executing, AnyCall
<1>3. CASE thread' = thread
  BY <1>3, RestingSlot
<1>4. CASE Take(m)
  <2>1. Returns /\ thread' = [thread EXCEPT ![current] = ClearWait(thread[current])]
    BY <1>4 DEF Take
  <2>2. CASE i = current
    BY <1>1, <1>2, <2>1, <2>2, ClearedIsTidy, ReturningSlot
  <2>3. CASE i # current
    BY <1>1, <2>1, <2>3, RestingSlot
  <2> QED
    BY <2>2, <2>3
<1>5. ASSUME Executing(LockCall(m)), NEW timed,
             thread' = [thread EXCEPT ![current] = Blocked(@, "MUTEX", m, NoObj, timed)]
      PROVE  SlotSteps(i)
  <2>1. CASE i = current
    <3>1. call[current].op \in {"none", "lock"}
      <4>1. LockCall(m).op = "lock" /\ NoCall.op = "none"
        BY DEF LockCall, NoCall
      <4> QED
        BY <1>5, <4>1 DEF Executing
    <3>2. thread[current] \in Thread /\ Tidy(thread[current])
          /\ (thread[current].ready => thread[current].wait = "MUTEX")
      BY <1>2, <3>1, RunnerRecord
    <3>3. /\ Tidy(Blocked(thread[current], "MUTEX", m, NoObj, timed))
          /\ Blocked(thread[current], "MUTEX", m, NoObj, timed).result = thread[current].result
      BY <3>2, BlockedIsTidy
    <3>4. thread'[i] = Blocked(thread[current], "MUTEX", m, NoObj, timed)
      BY <1>1, <1>5, <2>1
    <3> QED
      BY <2>1, <3>3, <3>4 DEF SlotSteps, KeepsOutcome
  <2>2. CASE i # current
    BY <1>1, <1>5, <2>2, RestingSlot
  <2> QED
    BY <2>1, <2>2
<1>6. CASE Unlock(m)
  <2>1. thread'[i] = HandedOn(m)[i]
    BY <1>6 DEF Unlock
  <2> QED
    BY <2>1, HandedOnIsTidy DEF SlotSteps, KeepsOutcome
<1> QED
  BY <1>3, <1>4, <1>5, <1>6 DEF Lock, TryLock, DestroyMutex, InitMutex

(* A signal gives an outcome to threads that have none.                      *)
LEMMA CondSlots ==
    ASSUME Sane, RecordsAreTidy, CondStep, NEW i \in Slots
    PROVE  SlotSteps(i)
<1>1. /\ thread \in [Slots -> Thread] /\ current \in Slots /\ Tidy(thread[i])
  BY DEF Sane, TypeOK, SchedTypeOK, RecordsAreTidy
<1> PICK c \in Conds :
        \/ Signal(c) \/ Broadcast(c) \/ InitCond(c) \/ DestroyCond(c)
        \/ \E m \in Mutexes, timed \in BOOLEAN : CondWait(c, m, timed)
  BY DEF CondStep
<1>2. CASE thread' = thread
  BY <1>2, RestingSlot
<1>3. ASSUME NEW S, S \subseteq CondWaiters(c), thread' = Woken(thread, S, "OK")
      PROVE  SlotSteps(i)
  <2>1. i \in S => thread[i].wait \notin {"MUTEX", "COND_MUTEX"}
    BY <1>3 DEF CondWaiters
  <2>2. /\ Tidy(thread'[i])
        /\ thread[i].ready \/ thread[i].wait = "COND_MUTEX" => thread'[i] = thread[i]
    BY <1>1, <1>3, <2>1, WokenIsTidy DEF Results
  <2> QED
    BY <2>2 DEF SlotSteps, KeepsOutcome
<1>4. CASE Signal(c) \/ Broadcast(c) \/ InitCond(c)
  <2>1. CondWaiters(c) \in SUBSET Slots /\ FirstAfterCurrent(CondWaiters(c)) \subseteq CondWaiters(c)
    BY <1>1, FirstIsMember DEF CondWaiters
  <2> QED
    BY <1>3, <1>4, <2>1 DEF Signal, Broadcast, InitCond, Notify
<1>5. ASSUME NEW m \in Mutexes, NEW timed \in BOOLEAN, CondWait(c, m, timed)
      PROVE  SlotSteps(i)
  <2> DEFINE op == WaitCall(c, m, timed)
  <2>1. inQuantum /\ call[current] \in {NoCall, op} /\ op.op = "cond_wait"
    BY <1>5 DEF CondWait, Executing, WaitCall
  <2>2. CASE CondWaitEnter(c, m, timed)
    <3>1. thread' = [HandedOn(m) EXCEPT ![current] = Blocked(@, "COND", c, m, timed)]
      BY <2>2 DEF CondWaitEnter
    <3>2. /\ HandedOn(m) \in [Slots -> Thread] /\ HandedOn(m)[current] = thread[current]
      BY <1>1, <2>1, HandedOnFits, RunnerIdle, WokenTypes DEF HandedOn, Results
    <3>3. CASE i # current
      <4>1. thread'[i] = HandedOn(m)[i]
        BY <3>1, <3>2, <3>3
      <4> QED
        BY <4>1, HandedOnIsTidy DEF SlotSteps, KeepsOutcome
    <3>4. CASE i = current
      <4>1. call[current] = NoCall
        <5>1. ASSUME call[current] = op
              PROVE  FALSE
          <6>1. IsCondRetry(c, m)
            BY <2>1, <5>1, RunnerIdle, RunnerRecord DEF Fits, IsCondRetry, NamesCond, WaitCall
          <6> QED
            BY <2>2, <6>1 DEF CondWaitEnter
        <5> QED
          BY <2>1, <5>1
      <4>2. thread[current] \in Thread /\ Tidy(thread[current]) /\ ~thread[current].ready
        BY <2>1, <4>1, RunnerRecord DEF NoCall
      <4>3. Tidy(Blocked(thread[current], "COND", c, m, timed))
        BY <4>2, BlockedIsTidy
      <4>4. thread'[i] = Blocked(thread[current], "COND", c, m, timed) /\ call[i].op = "none"
        BY <3>1, <3>2, <3>4, <4>1 DEF NoCall
      <4> QED
        BY <4>3, <4>4, IdleSlot
    <3> QED
      BY <3>3, <3>4
  <2>3. CASE CondWaitRetry(c, m, timed)
    <3>1. CASE i # current
      BY <1>1, <2>3, <3>1, RestingSlot DEF CondWaitRetry
    <3>2. CASE i = current /\ thread' = [thread EXCEPT ![current] = Requeued(@)]
      <4>1. thread[i].ready /\ thread[i].wait # "MUTEX" /\ thread[i] \in Thread
        BY <1>1, <2>3, <3>2 DEF CondWaitRetry, IsCondRetry, NamesCond
      <4>2. Tidy(Requeued(thread[i])) /\ Requeued(thread[i]).result = thread[i].result
        BY <1>1, <4>1, RequeuedIsTidy
      <4>3. thread'[i] = Requeued(thread[i])
        BY <1>1, <3>2
      <4> QED
        BY <4>2, <4>3 DEF SlotSteps, KeepsOutcome
    <3>3. CASE i = current /\ Returns /\ thread' = [thread EXCEPT ![current] = ClearWait(@)]
      BY <1>1, <2>1, <3>3, ClearedIsTidy, ReturningSlot
    <3> QED
      BY <2>3, <3>1, <3>2, <3>3 DEF CondWaitRetry
  <2>4. CASE CondWaitFails(c, m)
    BY <1>2, <2>4 DEF CondWaitFails
  <2> QED
    BY <1>5, <2>2, <2>3, <2>4 DEF CondWait
<1> QED
  BY <1>2, <1>4, <1>5 DEF DestroyCond

(* Every step keeps the records tidy and the outcomes of served calls. *)
LEMMA SlotsStep ==
    ASSUME Sane, RecordsAreTidy, [Next]_vars, NEW i \in Slots
    PROVE  SlotSteps(i)
<1>1. CASE UNCHANGED vars
  BY <1>1, RestingSlot DEF vars, schedVars
<1> QED
  BY <1>1, HostSlots, LoopSlots, WaitSlots, MutexSlots, CondSlots DEF Next

(* Nothing has been given an outcome at first. *)
LEMMA InitTidy == Init => RecordsAreTidy
<1> SUFFICES ASSUME Init, NEW i \in Slots PROVE Tidy(thread[i])
  BY DEF RecordsAreTidy
<1>1. NewThread \in Thread /\ NewThread.result = "OK" /\ NewThread.ready = FALSE
  BY DEF NewThread, Thread, States, Waits, Results
<1>2. thread[i] \in {NewThread, Parked(NewThread)}
  BY DEF Init
<1>3. Tidy(NewThread)
  BY <1>1 DEF Tidy
<1> QED
  BY <1>1, <1>2, <1>3, ClearedIsTidy

(* Records are tidy throughout.                                              *)
LEMMA TidyInvariant == Spec => []RecordsAreTidy
<1>1. IInv /\ RecordsAreTidy /\ [Next]_vars => RecordsAreTidy'
  <2> SUFFICES ASSUME Sane, RecordsAreTidy, [Next]_vars, NEW i \in Slots PROVE Tidy(thread'[i])
    BY DEF IInv, RecordsAreTidy
  <2> QED
    BY SlotsStep DEF SlotSteps
<1> QED
  BY <1>1, InitTidy, Inductive, PTL DEF Spec

(* The outcome that a signal or a timeout gave a waiter is the one its call  *)
(* returns: for any number of threads and whatever happens while it queues   *)
(* for its mutex.                                                            *)
THEOREM OutcomesAreKept == Spec => OutcomeKept
<1>1. IInv /\ RecordsAreTidy /\ [Next]_vars
        => [\A i \in Slots :
              LET served == thread[i].ready \/ thread[i].wait = "COND_MUTEX"
              IN  served /\ call[i].op # "none" /\ call'[i] = call[i]
                    => thread'[i].result = thread[i].result]_vars
  <2> SUFFICES ASSUME Sane, RecordsAreTidy, [Next]_vars, NEW i \in Slots PROVE KeepsOutcome(i)
    BY DEF IInv, KeepsOutcome
  <2> QED
    BY SlotsStep DEF SlotSteps
<1> QED
  BY <1>1, Inductive, TidyInvariant, PTL DEF Spec, OutcomeKept

-----------------------------------------------------------------------------
(* Recursion.  A mutex that is held more than once is recursive, and a       *)
(* thread that waits with a mutex it still holds (a recursive one gives up   *)
(* one level only) can take it once more when it comes back.                 *)
Bounded(x) == x.rec =< MaxRecursion /\ (x.rec > 1 => x.type = "RECURSIVE")
RecursionIsBounded == \A m \in Mutexes : Bounded(mutex[m])
WaitersCanReturn ==
    \A i \in Slots : call[i].op = "cond_wait" /\ mutex[call[i].aux].owner = i
                        => CanReenter(mutex[call[i].aux])
Recursion == RecursionIsBounded /\ WaitersCanReturn

(* The value that a lock finds: an unregistered mutex is new and free. *)
LEMMA LookedUp ==
    ASSUME Sane, CountsMatch, RecursionIsBounded, NEW m \in Mutexes
    PROVE  /\ Lookup(m) \in Mutex /\ Bounded(Lookup(m))
           /\ Lookup(m).owner = mutex[m].owner /\ Lookup(m).rec = mutex[m].rec
<1>1. mutex[m] \in Mutex /\ Bounded(mutex[m])
  BY DEF Sane, TypeOK, RecursionIsBounded
<1>2. CASE Registered(m)
  BY <1>1, <1>2 DEF Lookup
<1>3. CASE ~Registered(m)
  <2>1. mutex[m].owner = NoOwner /\ mutex[m].rec = 0
    BY <1>3 DEF CountsMatch, Registered
  <2>2. /\ NewMutex("NORMAL") \in Mutex /\ NewMutex("NORMAL").owner = NoOwner
        /\ NewMutex("NORMAL").rec = 0
    BY DEF NewMutex, NoMutex, Mutex, MutexTypes
  <2>3. Lookup(m) = NewMutex("NORMAL")
    BY <1>3 DEF Lookup
  <2> QED
    BY <2>1, <2>2, <2>3 DEF Bounded
<1> QED
  BY <1>2, <1>3

(* Taking a mutex: it was free or is taken once more, and the count is one   *)
(* up.                                                                       *)
LEMMA TakenMutex ==
    ASSUME Sane, CountsMatch, NEW m \in Mutexes, NEW x \in Mutex, Bounded(x), Acquirable(x),
           x.owner = mutex[m].owner, x.rec = mutex[m].rec,
           mutex' = [mutex EXCEPT ![m] = Acquired(x)]
    PROVE  /\ mutex[m].owner \in {NoOwner, current} /\ mutex'[m].owner = current
           /\ mutex'[m].rec = mutex[m].rec + 1 /\ Bounded(mutex'[m])
           /\ \A k \in Mutexes \ {m} : mutex'[k] = mutex[k]
<1>1. mutex \in [Mutexes -> Mutex] /\ mutex'[m] = Acquired(x)
  BY DEF Sane, TypeOK
<1>2. Acquired(x).owner = current /\ Acquired(x).rec = x.rec + 1 /\ Acquired(x).type = x.type
  BY DEF Acquired, Mutex
<1>3. x.rec \in Nat
  BY DEF Mutex
<1>4. CASE x.owner = NoOwner
  <2>1. x.rec = 0
    BY <1>4 DEF CountsMatch
  <2> QED
    BY <1>1, <1>2, <1>4, <2>1, RecursionAssumption DEF Bounded
<1>5. CASE x.owner = current /\ CanReenter(x)
  <2>1. x.type = "RECURSIVE" /\ x.rec < MaxRecursion
    BY <1>5 DEF CanReenter
  <2>2. Bounded(Acquired(x))
    BY <1>2, <1>3, <2>1, RecursionAssumption DEF Bounded
  <2> QED
    BY <1>1, <1>2, <1>5, <2>2
<1> QED
  BY <1>4, <1>5 DEF Acquirable

(* Releasing one: the count is one down, and at zero it is free. *)
LEMMA ReleasedMutex ==
    ASSUME Sane, CountsMatch, RecursionIsBounded, NEW m \in Mutexes, Owns(m), mutex' = Unlocked(m)
    PROVE  /\ mutex[m].owner = current /\ mutex'[m].rec = mutex[m].rec - 1
           /\ mutex'[m].owner = IF mutex[m].rec > 1 THEN current ELSE NoOwner
           /\ Bounded(mutex'[m]) /\ (mutex'[m].owner = current => CanReenter(mutex'[m]))
           /\ \A k \in Mutexes \ {m} : mutex'[k] = mutex[k]
<1>1. /\ mutex \in [Mutexes -> Mutex] /\ mutex[m].owner = current /\ mutex[m].rec \in Nat
      /\ current # NoOwner /\ Bounded(mutex[m])
  BY DEF Sane, TypeOK, SchedTypeOK, Owns, Mutex, Slots, NoOwner, RecursionIsBounded
<1>2. mutex[m].rec # 0
  BY <1>1 DEF CountsMatch
<1>3. CASE mutex[m].rec > 1
  <2>1. mutex' = [mutex EXCEPT ![m].rec = @ - 1]
    BY <1>3 DEF Unlocked
  <2>2. /\ mutex'[m].rec = mutex[m].rec - 1 /\ mutex'[m].owner = current
        /\ mutex'[m].type = mutex[m].type /\ \A k \in Mutexes \ {m} : mutex'[k] = mutex[k]
    BY <1>1, <2>1 DEF Mutex
  <2>3. mutex[m].type = "RECURSIVE" /\ mutex[m].rec =< MaxRecursion
    BY <1>1, <1>3 DEF Bounded
  <2> QED
    BY <1>1, <1>3, <2>2, <2>3, RecursionAssumption DEF Bounded, CanReenter
<1>4. CASE ~(mutex[m].rec > 1)
  <2>1. mutex' = [mutex EXCEPT ![m].owner = NoOwner, ![m].rec = 0]
    BY <1>4 DEF Unlocked
  <2>2. /\ mutex'[m].rec = 0 /\ mutex'[m].owner = NoOwner
        /\ \A k \in Mutexes \ {m} : mutex'[k] = mutex[k]
    BY <1>1, <2>1 DEF Mutex
  <2>3. mutex[m].rec = 1
    BY <1>1, <1>2, <1>4
  <2> QED
    BY <1>1, <1>4, <2>2, <2>3, RecursionAssumption DEF Bounded
<1> QED
  BY <1>3, <1>4

(* Initializing or destroying one that nobody holds. *)
LEMMA RemadeMutex ==
    ASSUME Sane, CountsMatch, NEW m \in Mutexes,
           DestroyMutex(m) \/ \E type \in MutexTypes : InitMutex(m, type)
    PROVE  /\ mutex[m].owner = NoOwner /\ mutex'[m].owner = NoOwner
           /\ mutex[m].rec = 0 /\ mutex'[m].rec = 0 /\ Bounded(mutex'[m])
           /\ \A k \in Mutexes \ {m} : mutex'[k] = mutex[k]
<1>1. mutex[m].owner = NoOwner /\ mutex \in [Mutexes -> Mutex]
  BY DEF Sane, TypeOK, DestroyMutex, InitMutex
<1>2. mutex[m].rec = 0
  BY <1>1 DEF CountsMatch
<1>3. \E x : mutex' = [mutex EXCEPT ![m] = x] /\ x.owner = NoOwner /\ x.rec = 0
  <2>1. NoMutex.owner = NoOwner /\ NoMutex.rec = 0
    BY DEF NoMutex
  <2>2. \A type : NewMutex(type).owner = NoOwner /\ NewMutex(type).rec = 0
    BY DEF NoMutex, NewMutex
  <2> QED
    BY <2>1, <2>2 DEF DestroyMutex, InitMutex
<1> QED
  BY <1>1, <1>2, <1>3, RecursionAssumption DEF Bounded

(* No call becomes a wait, and a mutex that changed is free or is held by a  *)
(* thread that is not in a wait.                                             *)
LEMMA NobodyWaits ==
    ASSUME Sane', Recursion, RecursionIsBounded',
           \A i \in Slots : call'[i].op = "cond_wait" => call'[i] = call[i],
           \A k \in Mutexes : \/ mutex'[k] = mutex[k]
                              \/ mutex'[k].owner = NoOwner
                              \/ mutex'[k].owner = current /\ call'[current].op # "cond_wait"
    PROVE  Recursion'
<1> SUFFICES ASSUME NEW i \in Slots, call'[i].op = "cond_wait", mutex'[call'[i].aux].owner = i
             PROVE  CanReenter(mutex'[call'[i].aux])
  BY DEF Recursion, WaitersCanReturn
<1>1. call'[i] = call[i] /\ i # NoOwner
  BY DEF Slots, NoOwner
<1>2. call'[i].aux \in Mutexes
  BY DEF Sane, WaitersKeepObjects, Registry
<1>3. mutex'[call'[i].aux] = mutex[call[i].aux]
  BY <1>1, <1>2
<1> QED
  BY <1>1, <1>3 DEF Recursion, WaitersCanReturn

(* A step that leaves the mutexes alone and begins no wait.                  *)
LEMMA QuietRecursion ==
    ASSUME Sane', Recursion, UNCHANGED mutex,
           \A i \in Slots : call'[i].op = "cond_wait" => call'[i] = call[i]
    PROVE  Recursion'
<1>1. RecursionIsBounded'
  BY DEF Recursion, RecursionIsBounded
<1> QED
  BY <1>1, NobodyWaits

(* A shim that returns leaves the calls of the others. *)
LEMMA CallsAfterReturn ==
    ASSUME Sane, Returns
    PROVE  /\ \A i \in Slots : call'[i].op = "cond_wait" => call'[i] = call[i]
           /\ call'[current].op # "cond_wait"
<1>1. call' = [call EXCEPT ![current] = NoCall] /\ call \in [Slots -> Call] /\ current \in Slots
  BY DEF Sane, TypeOK, SchedTypeOK, Returns
<1> QED
  BY <1>1 DEF NoCall

(* A shim that blocks begins a wait only if it is cond_wait.                 *)
LEMMA CallsAfterBlock ==
    ASSUME Sane, NEW op, op.op # "cond_wait" \/ op = call[current], Blocks(op)
    PROVE  \A i \in Slots : call'[i].op = "cond_wait" => call'[i] = call[i]
BY DEF Sane, TypeOK, SchedTypeOK, Blocks

(* Steps that do not touch mutexes keep recursion bounded.                   *)
LEMMA OtherRecursion ==
    ASSUME Sane, Sane', Recursion,
           \/ HostStep \/ LoopStep \/ FutexStep \/ Sleep \/ UNCHANGED vars
           \/ \E i \in CallbackWorkers : CancelCallback(i)
    PROVE  Recursion'
<1>1. UNCHANGED mutex
  BY DEF HostStep, LoopStep, Iterate, FutexStep, FutexWait, FutexWake, Store, Sleep,
         CancelCallback, syncVars, vars
<1>2. CASE UNCHANGED call
  BY <1>1, <1>2, QuietRecursion
<1>3. CASE Returns
  BY <1>1, <1>3, CallsAfterReturn, QuietRecursion
<1>4. ASSUME NEW op, Blocks(op), op.op \in {"sleep", "futex_wait"}
      PROVE  Recursion'
  BY <1>1, <1>4, CallsAfterBlock, QuietRecursion
<1>5. SleepCall.op = "sleep" /\ \A u, v : \A timed : FutexCall(u, v, timed).op = "futex_wait"
  BY DEF SleepCall, FutexCall, NoCall
<1> QED
  BY <1>2, <1>3, <1>4, <1>5
     DEF HostStep, EnterRun, EnterIdle, LeaveIdle, MainReturns, EndQuantum, GuestFault,
         CallbackReturns, LoopStep, Iterate, Dispatch, FutexStep, FutexWait, FutexWake, Store,
         Sleep, CancelCallback, vars, schedVars

(* So do the mutex shims.                                                    *)
LEMMA MutexRecursion ==
    ASSUME Sane, Sane', CountsMatch, Recursion, MutexStep
    PROVE  Recursion'
<1> PICK m \in Mutexes :
        \/ Lock(m) \/ TryLock(m) \/ Unlock(m) \/ DestroyMutex(m)
        \/ \E type \in MutexTypes : InitMutex(m, type)
  BY DEF MutexStep
<1>1. ASSUME Returns, \A k \in Mutexes \ {m} : mutex'[k] = mutex[k], Bounded(mutex'[m]),
             mutex'[m].owner \in {NoOwner, current}
      PROVE  Recursion'
  <2>1. RecursionIsBounded'
    BY <1>1 DEF Recursion, RecursionIsBounded
  <2> QED
    BY <1>1, <2>1, CallsAfterReturn, NobodyWaits
<1>2. CASE Take(m)
  <2>1. /\ Lookup(m) \in Mutex /\ Bounded(Lookup(m)) /\ Acquirable(Lookup(m))
        /\ Lookup(m).owner = mutex[m].owner /\ Lookup(m).rec = mutex[m].rec
        /\ mutex' = [mutex EXCEPT ![m] = Acquired(Lookup(m))]
    BY <1>2, LookedUp DEF Take, Recursion
  <2>2. /\ \A k \in Mutexes \ {m} : mutex'[k] = mutex[k]
        /\ Bounded(mutex'[m]) /\ mutex'[m].owner = current
    BY <2>1, TakenMutex
  <2> QED
    BY <1>1, <1>2, <2>2 DEF Take
<1>3. CASE Unlock(m)
  <2>1. /\ \A k \in Mutexes \ {m} : mutex'[k] = mutex[k]
        /\ Bounded(mutex'[m]) /\ mutex'[m].owner \in {NoOwner, current}
    BY <1>3, ReleasedMutex DEF Unlock, Recursion
  <2> QED
    BY <1>1, <1>3, <2>1 DEF Unlock
<1>4. CASE DestroyMutex(m) \/ \E type \in MutexTypes : InitMutex(m, type)
  <2>1. Returns
    BY <1>4 DEF DestroyMutex, InitMutex
  <2> QED
    BY <1>1, <1>4, <2>1, RemadeMutex
<1>5. CASE Returns /\ UNCHANGED mutex
  BY <1>5, CallsAfterReturn, QuietRecursion
<1>6. CASE Blocks(LockCall(m)) /\ UNCHANGED mutex
  <2>1. LockCall(m).op # "cond_wait"
    BY DEF LockCall, NoCall
  <2> QED
    BY <1>6, <2>1, CallsAfterBlock, QuietRecursion
<1> QED
  BY <1>2, <1>3, <1>4, <1>5, <1>6 DEF Lock, TryLock, syncVars

(* So does cond_wait, which gives up one level.                              *)
LEMMA CondRecursion ==
    ASSUME Sane, Sane', CountsMatch, Recursion, CondStep
    PROVE  Recursion'
<1> PICK c \in Conds :
        \/ Signal(c) \/ Broadcast(c) \/ InitCond(c) \/ DestroyCond(c)
        \/ \E m \in Mutexes, timed \in BOOLEAN : CondWait(c, m, timed)
  BY DEF CondStep
<1>1. CASE Returns /\ UNCHANGED mutex
  BY <1>1, CallsAfterReturn, QuietRecursion
<1>2. ASSUME NEW m \in Mutexes, NEW timed \in BOOLEAN, CondWait(c, m, timed)
      PROVE  Recursion'
  <2> DEFINE op == WaitCall(c, m, timed)
  <2>1. op.aux = m /\ op.op = "cond_wait" /\ call[current] \in {NoCall, op} /\ current \in Slots
    BY <1>2 DEF WaitCall, CondWait, Executing, Sane, TypeOK, SchedTypeOK
  <2>2. CASE CondWaitEnter(c, m, timed)
    <3>1. /\ \A k \in Mutexes \ {m} : mutex'[k] = mutex[k]
          /\ Bounded(mutex'[m]) /\ mutex'[m].owner \in {NoOwner, current}
          /\ mutex'[m].owner = current => CanReenter(mutex'[m])
      BY <2>2, ReleasedMutex DEF CondWaitEnter, Recursion
    <3>2. RecursionIsBounded'
      BY <3>1 DEF Recursion, RecursionIsBounded
    <3>3. call' = [call EXCEPT ![current] = op] /\ call \in [Slots -> Call]
      BY <2>2 DEF CondWaitEnter, Blocks, Sane, TypeOK, SchedTypeOK
    <3>4. ASSUME NEW i \in Slots, call'[i].op = "cond_wait", mutex'[call'[i].aux].owner = i
          PROVE  CanReenter(mutex'[call'[i].aux])
      <4>1. CASE i = current
        <5>1. call'[i].aux = m
          BY <2>1, <3>3, <4>1
        <5> QED
          BY <3>1, <3>4, <4>1, <5>1
      <4>2. CASE i # current
        <5>1. call'[i] = call[i] /\ i # NoOwner
          BY <3>3, <4>2 DEF Slots, NoOwner
        <5>2. call'[i].aux \in Mutexes
          BY <3>4 DEF Sane, WaitersKeepObjects, Registry
        <5>3. mutex'[call[i].aux] = mutex[call[i].aux]
          BY <3>1, <3>4, <4>2, <5>1, <5>2
        <5> QED
          BY <3>4, <5>1, <5>3 DEF Recursion, WaitersCanReturn
      <4> QED
        BY <4>1, <4>2
    <3> QED
      BY <3>2, <3>4 DEF Recursion, WaitersCanReturn
  <2>3. CASE CondWaitRetry(c, m, timed)
    <3>1. CASE UNCHANGED mutex /\ Blocks(op)
      <4>1. op = call[current]
        <5>1. thread[current].ready /\ inQuantum
          BY <1>2, <2>3 DEF CondWaitRetry, IsCondRetry, CondWait, Executing
        <5>2. call[current].op # "none"
          BY <5>1, RunnerIdle DEF Fits
        <5> QED
          BY <2>1, <5>2 DEF NoCall
      <4> QED
        BY <3>1, <4>1, CallsAfterBlock, QuietRecursion
    <3>2. CASE Returns /\ Acquirable(mutex[m]) /\ mutex' = [mutex EXCEPT ![m] = Acquired(@)]
      <4>1. mutex[m] \in Mutex /\ Bounded(mutex[m]) /\ mutex' = [mutex EXCEPT ![m] = Acquired(mutex[m])]
        BY <3>2 DEF Recursion, RecursionIsBounded, Sane, TypeOK
      <4>2. /\ \A k \in Mutexes \ {m} : mutex'[k] = mutex[k]
            /\ Bounded(mutex'[m]) /\ mutex'[m].owner = current
        BY <3>2, <4>1, TakenMutex
      <4>3. RecursionIsBounded'
        BY <4>2 DEF Recursion, RecursionIsBounded
      <4> QED
        BY <3>2, <4>2, <4>3, CallsAfterReturn, NobodyWaits
    <3> QED
      BY <1>1, <2>3, <3>1, <3>2 DEF CondWaitRetry
  <2>4. CASE CondWaitFails(c, m)
    BY <1>1, <2>4 DEF CondWaitFails
  <2> QED
    BY <1>2, <2>2, <2>3, <2>4 DEF CondWait
<1> QED
  BY <1>1, <1>2 DEF Signal, Broadcast, InitCond, Notify, DestroyCond

(* Recursion is bounded throughout.                                          *)
LEMMA RecursionInvariant == Spec => []Recursion
<1>1. Init => Recursion
  <2> SUFFICES ASSUME Init PROVE Recursion
    OBVIOUS
  <2>1. /\ NoMutex.rec = 0 /\ \A i \in Slots : call[i].op = "none"
        /\ \A m \in Mutexes : mutex[m] = NoMutex
    BY DEF Init, NoMutex, NoCall
  <2> QED
    BY <2>1, RecursionAssumption DEF Recursion, RecursionIsBounded, WaitersCanReturn, Bounded
<1>2. IInv /\ IInv' /\ Recursion /\ [Next]_vars => Recursion'
  <2> SUFFICES ASSUME Sane, Sane', CountsMatch, Recursion, [Next]_vars PROVE Recursion'
    BY DEF IInv
  <2> QED
    BY OtherRecursion, MutexRecursion, CondRecursion DEF Next
<1> QED
  BY <1>1, <1>2, Inductive, PTL DEF Spec

-----------------------------------------------------------------------------
(* The monitor.  StageOf as a function of a pending call and a record.       *)
Asleep(t) == t.state = "BLOCKED" /\ t.wait = "COND"
StageFor(k, t) ==
    [at |-> CASE k.op = "lock" -> "entry"
              [] k.op = "cond_wait" /\ Asleep(t) -> "waiting"
              [] k.op = "cond_wait" /\ ~Asleep(t) -> "notified"
              [] OTHER -> "running",
     mutex |-> CASE k.op = "lock" -> k.obj
                 [] k.op = "cond_wait" -> k.aux
                 [] OTHER -> NoObj,
     cond |-> IF k.op = "cond_wait" THEN k.obj ELSE NoObj,
     timed |-> k.op = "cond_wait" /\ Asleep(t) /\ t.timed,
     outcome |-> IF k.op = "cond_wait" THEN t.result ELSE "OK"]

(* StageOf reads the pending call and the record of its slot only.           *)
LEMMA StageIsFor == \A i \in Slots : StageOf(i) = StageFor(call[i], thread[i])
BY DEF StageOf, StageFor, Asleep

(* What the monitor sees of a thread: nothing outside locks and waits, the   *)
(* mutex in a lock, and in a wait whether the wake-up has come.              *)
LEMMA StageShapes ==
    ASSUME NEW k, NEW t
    PROVE  /\ k.op \notin {"lock", "cond_wait"} => StageFor(k, t) = Abstract!Running
           /\ k.op = "lock" => StageFor(k, t) = Abstract!Entry(k.obj)
           /\ k.op = "cond_wait" /\ Asleep(t) /\ t.timed \in BOOLEAN =>
                 StageFor(k, t) = Abstract!StageWith("waiting", k.aux, k.obj, t.timed, t.result)
           /\ k.op = "cond_wait" /\ ~Asleep(t) =>
                 StageFor(k, t) = Abstract!StageWith("notified", k.aux, k.obj, FALSE, t.result)
<1>1. ASSUME k.op \notin {"lock", "cond_wait"}
      PROVE  StageFor(k, t) = Abstract!Running
  BY <1>1 DEF StageFor, Abstract!Running, Abstract!StageWith
<1>2. ASSUME k.op = "lock"
      PROVE  StageFor(k, t) = Abstract!Entry(k.obj)
  BY <1>2 DEF StageFor, Abstract!Entry, Abstract!StageWith
<1>3. ASSUME k.op = "cond_wait", Asleep(t), t.timed \in BOOLEAN
      PROVE  StageFor(k, t) = Abstract!StageWith("waiting", k.aux, k.obj, t.timed, t.result)
  BY <1>3 DEF StageFor, Abstract!StageWith
<1>4. ASSUME k.op = "cond_wait", ~Asleep(t)
      PROVE  StageFor(k, t) = Abstract!StageWith("notified", k.aux, k.obj, FALSE, t.result)
  BY <1>4 DEF StageFor, Abstract!StageWith
<1> QED
  BY <1>1, <1>2, <1>3, <1>4

(* The fields of a stage. *)
LEMMA StageFields ==
    ASSUME NEW at, NEW m, NEW c, NEW timed \in BOOLEAN, NEW outcome
    PROVE  /\ Abstract!StageWith(at, m, c, timed, outcome).at = at
           /\ Abstract!StageWith(at, m, c, timed, outcome).mutex = m
           /\ Abstract!StageWith(at, m, c, timed, outcome).cond = c
           /\ Abstract!StageWith(at, m, c, timed, outcome).timed = timed
           /\ Abstract!StageWith(at, m, c, timed, outcome).outcome = outcome
BY DEF Abstract!StageWith

(* The next stage of a slot, and when it is the same. *)
SameStage(i) == StageFor(call'[i], thread'[i]) = StageFor(call[i], thread[i])

(* A thread in no lock or wait stays outside.                                *)
LEMMA StaysOutside ==
    ASSUME NEW i \in Slots, call[i].op \notin {"lock", "cond_wait"},
           call'[i].op \notin {"lock", "cond_wait"}
    PROVE  SameStage(i)
BY StageShapes DEF SameStage

(* A thread that keeps its call and record, or queues in a lock, stays.      *)
LEMMA StaysAtRest ==
    ASSUME NEW i \in Slots, call'[i] = call[i], thread'[i] = thread[i] \/ call[i].op # "cond_wait"
    PROVE  SameStage(i)
<1>1. CASE thread'[i] = thread[i]
  BY <1>1 DEF SameStage
<1>2. CASE call[i].op = "lock"
  BY <1>2, StageShapes DEF SameStage
<1>3. CASE call[i].op \notin {"lock", "cond_wait"}
  BY <1>3, StaysOutside
<1> QED
  BY <1>1, <1>2, <1>3

(* A notified thread that has to queue stays notified.                       *)
LEMMA StaysNotified ==
    ASSUME NEW i \in Slots, call'[i] = call[i], call[i].op = "cond_wait",
           ~Asleep(thread[i]), ~Asleep(thread'[i]), thread'[i].result = thread[i].result
    PROVE  SameStage(i)
<1>1. /\ StageFor(call[i], thread[i])
           = Abstract!StageWith("notified", call[i].aux, call[i].obj, FALSE, thread[i].result)
      /\ StageFor(call[i], thread'[i])
           = Abstract!StageWith("notified", call[i].aux, call[i].obj, FALSE, thread'[i].result)
  BY StageShapes
<1> QED
  BY <1>1 DEF SameStage

(* Steps the monitor does not see. *)
MonitorRests == Owners' = Owners /\ Depths' = Depths /\ Stages' = Stages

(* The stages before and after a step, slot by slot.                         *)
LEMMA NextStages ==
    /\ Stages = [i \in Slots |-> StageFor(call[i], thread[i])]
    /\ Stages' = [i \in Slots |-> StageFor(call'[i], thread'[i])]
<1>1. Stages = [i \in Slots |-> StageFor(call[i], thread[i])]
  BY StageIsFor DEF Stages
<1>2. Stages' = [i \in Slots |-> StageFor(call'[i], thread'[i])]
  BY DEF Stages, StageOf, StageFor, Asleep
<1> QED
  BY <1>1, <1>2

(* A step that moves no slot and no mutex.                                   *)
LEMMA Rests ==
    ASSUME \A i \in Slots : SameStage(i), UNCHANGED mutex
    PROVE  MonitorRests
BY NextStages DEF MonitorRests, SameStage, Owners, Depths

(* A step that moves no slot.                                                *)
LEMMA StagesRest ==
    ASSUME \A i \in Slots : SameStage(i)
    PROVE  Stages' = Stages
BY NextStages DEF SameStage

(* Only the running thread moves. *)
LEMMA RunnerMoves ==
    ASSUME current \in Slots, \A i \in Slots \ {current} : SameStage(i), NEW x,
           StageFor(call'[current], thread'[current]) = x
    PROVE  Stages' = [Stages EXCEPT ![current] = x]
BY NextStages DEF SameStage

(* A mutex as the monitor sees it. *)
LEMMA OneMutexMoves ==
    ASSUME NEW m \in Mutexes, \A k \in Mutexes \ {m} : mutex'[k] = mutex[k]
    PROVE  /\ Owners' = [Owners EXCEPT ![m] = mutex'[m].owner]
           /\ Depths' = [Depths EXCEPT ![m] = mutex'[m].rec]
BY DEF Owners, Depths

(* An unlock moves nobody but its caller: the thread it wakes still waits    *)
(* for the mutex.                                                            *)
LEMMA HandedStages ==
    ASSUME Sane, NEW m \in Mutexes, NEW i \in Slots,
           call'[i] = call[i], thread'[i] = HandedOn(m)[i]
    PROVE  SameStage(i)
<1> DEFINE S == FirstAfterCurrent(MutexWaiters(m))
<1>1. S \subseteq MutexWaiters(m) /\ thread \in [Slots -> Thread]
  BY FirstIsMember DEF MutexWaiters, Sane, TypeOK, SchedTypeOK
<1>2. HandedOn(m) = thread \/ HandedOn(m) = WokenKeeping(thread, S)
  BY DEF HandedOn
<1>3. i \in S => thread[i].state = "BLOCKED" /\ thread[i].wait \in {"MUTEX", "COND_MUTEX"}
  BY <1>1 DEF MutexWaiters
<1> HIDE DEF S
<1>4. CASE thread'[i] = thread[i]
  BY <1>4, StaysAtRest
<1>5. CASE i \in S /\ thread'[i] = WokenKeeping(thread, S)[i]
  <2>1. CASE thread[i].wait = "MUTEX"
    <3>1. call[i].op = "lock"
      BY <1>3, <1>5, <2>1, WaitersHaveCalls
    <3> QED
      BY <3>1, StaysAtRest
  <2>2. CASE thread[i].wait = "COND_MUTEX"
    <3>1. call[i].op = "cond_wait"
      BY <1>3, <1>5, <2>2, WaitersHaveCalls
    <3>2. thread'[i].wait = "COND_MUTEX"
      BY <1>1, <1>5, <2>2 DEF WokenKeeping, Thread
    <3>3. thread'[i].result = thread[i].result
      BY <1>1, <1>5 DEF WokenKeeping, Thread
    <3> QED
      BY <2>2, <3>1, <3>2, <3>3, StaysNotified DEF Asleep
  <2> QED
    BY <1>3, <1>5, <2>1, <2>2
<1>6. i \notin S => WokenKeeping(thread, S)[i] = thread[i]
  BY DEF WokenKeeping
<1> QED
  BY <1>2, <1>4, <1>5, <1>6

(* Steps of the host, of futexes and of sleeping are none of the monitor's.  *)
LEMMA HostMaps ==
    ASSUME Sane, HostStep \/ (\E j \in CallbackWorkers : CancelCallback(j))
    PROVE  MonitorRests
<1>1. /\ thread \in [Slots -> Thread] /\ current \in Slots /\ NoCall.op = "none"
      /\ CallbackWorkers \subseteq Slots /\ Main \in Slots
  BY MainIsSlot, WorkersAssumption DEF Sane, TypeOK, SchedTypeOK, NoCall
<1>2. UNCHANGED mutex /\ UNCHANGED call
  BY DEF HostStep, EnterRun, EnterIdle, LeaveIdle, MainReturns, EndQuantum, GuestFault,
         CallbackReturns, CancelCallback, syncVars
<1>3. ASSUME NEW j \in Slots, call[j].op = "none", NEW t, thread' = [thread EXCEPT ![j] = t]
      PROVE  MonitorRests
  <2>1. ASSUME NEW i \in Slots
        PROVE  SameStage(i)
    <3>1. CASE i = j
      BY <1>2, <1>3, <3>1, StaysOutside
    <3>2. CASE i # j
      BY <1>1, <1>2, <1>3, <3>2, StaysAtRest
    <3> QED
      BY <3>1, <3>2
  <2> QED
    BY <1>2, <2>1, Rests
<1>4. CASE thread' = thread
  BY <1>2, <1>4, StaysAtRest, Rests
<1>5. CASE EnterRun
  BY <1>1, <1>3, <1>5 DEF EnterRun, Sane, RunnerKnown
<1>6. CASE CallbackReturns(CallbackWorkers)
  BY <1>1, <1>3, <1>6 DEF CallbackReturns, AnyCall
<1>7. ASSUME NEW j \in CallbackWorkers, CancelCallback(j)
      PROVE  MonitorRests
  BY <1>1, <1>3, <1>7 DEF CancelCallback, Sane, ThreadsLive
<1> QED
  BY <1>4, <1>5, <1>6, <1>7
     DEF HostStep, EnterIdle, LeaveIdle, MainReturns, EndQuantum, GuestFault

(* Futexes and sleeping leave the monitor at rest.                           *)
LEMMA WaitMaps ==
    ASSUME Sane, FutexStep \/ Sleep
    PROVE  MonitorRests
<1>1. /\ thread \in [Slots -> Thread] /\ current \in Slots /\ call \in [Slots -> Call]
      /\ NoCall.op = "none" /\ SleepCall.op = "sleep"
      /\ \A u, v : \A timed : FutexCall(u, v, timed).op = "futex_wait"
  BY DEF Sane, TypeOK, SchedTypeOK, NoCall, SleepCall, FutexCall
<1>2. UNCHANGED mutex
  BY DEF FutexStep, FutexWait, FutexWake, Store, Sleep, syncVars
<1>3. ASSUME call[current].op \in {"none", "sleep", "futex_wait"},
             call'[current].op \in {"none", "sleep", "futex_wait"},
             \A i \in Slots \ {current} : call'[i] = call[i] /\ thread'[i] = thread[i]
      PROVE  MonitorRests
  <2>1. ASSUME NEW i \in Slots
        PROVE  SameStage(i)
    <3>1. CASE i = current
      BY <1>1, <1>3, <3>1, StaysOutside
    <3>2. CASE i # current
      BY <1>1, <1>3, <3>2, StaysAtRest
    <3> QED
      BY <3>1, <3>2
  <2> QED
    BY <1>2, <2>1, Rests
<1>4. CASE Sleep
  <2>1. call[current].op \in {"none", "sleep", "futex_wait"}
    BY <1>1, <1>4 DEF Sleep, Executing
  <2>2. call'[current].op \in {"none", "sleep", "futex_wait"}
    BY <1>1, <1>4 DEF Sleep, Returns, Blocks
  <2>3. \A i \in Slots \ {current} : call'[i] = call[i] /\ thread'[i] = thread[i]
    BY <1>1, <1>4 DEF Sleep, Returns, Blocks
  <2> QED
    BY <1>3, <2>1, <2>2, <2>3
<1>5. ASSUME NEW u \in Futexes, NEW v \in Words, NEW timed \in BOOLEAN, FutexWait(u, v, timed)
      PROVE  MonitorRests
  <2> DEFINE op == FutexCall(u, v, timed)
  <2>1. op.op = "futex_wait"
    BY <1>1
  <2>2. call[current].op \in {"none", "sleep", "futex_wait"}
    BY <1>1, <1>5, <2>1 DEF FutexWait, Executing
  <2>3. /\ \/ call' = [call EXCEPT ![current] = NoCall]
           \/ call' = [call EXCEPT ![current] = op]
        /\ \E t : thread' = [thread EXCEPT ![current] = t]
    BY <1>5 DEF FutexWait, Returns, Blocks
  <2> HIDE DEF op
  <2>4. call'[current].op \in {"none", "sleep", "futex_wait"}
    BY <1>1, <2>1, <2>3
  <2>5. \A i \in Slots \ {current} : call'[i] = call[i] /\ thread'[i] = thread[i]
    BY <1>1, <2>3
  <2> QED
    BY <1>3, <2>2, <2>4, <2>5
<1>6. ASSUME NEW u \in Futexes, NEW most, FutexWake(u, most)
      PROVE  MonitorRests
  <2>1. call' = [call EXCEPT ![current] = NoCall] /\ call[current] = NoCall
    BY <1>6 DEF FutexWake, AnyCall, Returns
  <2>2. thread' = Woken(thread, FirstWaiters(u, most), "OK")
    BY <1>6 DEF FutexWake
  <2>3. ASSUME NEW i \in Slots
        PROVE  SameStage(i)
    <3>1. call'[i] = call[i]
      BY <1>1, <2>1
    <3>2. CASE i \in FirstWaiters(u, most)
      <4>1. thread[i].state = "BLOCKED" /\ thread[i].wait = "FUTEX"
        BY <3>2 DEF FirstWaiters, FutexWaiters
      <4>2. call[i].op = "futex_wait"
        BY <4>1, WaitersHaveCalls
      <4> QED
        BY <3>1, <4>2, StaysAtRest
    <3>3. CASE i \notin FirstWaiters(u, most)
      <4>1. thread'[i] = thread[i]
        BY <2>2, <3>3 DEF Woken
      <4> QED
        BY <3>1, <4>1, StaysAtRest
    <3> QED
      BY <3>2, <3>3
  <2> QED
    BY <1>2, <2>3, Rests
<1>7. CASE UNCHANGED <<thread, call>>
  BY <1>2, <1>7, StaysAtRest, Rests
<1> QED
  BY <1>4, <1>5, <1>6, <1>7 DEF FutexStep, Store, schedVars

(* The running thread before its shim, as the monitor sees it. *)
LEMMA RunnerStage ==
    ASSUME Sane, inQuantum
    PROVE  /\ current \in Slots /\ Stages[current] = StageFor(call[current], thread[current])
           /\ Stages \in [Slots -> {StageFor(call[i], thread[i]) : i \in Slots}]
           /\ call[current] = NoCall => Stages[current] = Abstract!Running
           /\ call[current].op = "lock" => Stages[current] = Abstract!Entry(call[current].obj)
           /\ call[current].op = "cond_wait" =>
                 Stages[current] = Abstract!StageWith("notified", call[current].aux,
                                       call[current].obj, FALSE, thread[current].result)
<1>1. current \in Slots /\ Stages[current] = StageFor(call[current], thread[current])
  BY NextStages DEF Sane, TypeOK, SchedTypeOK
<1>2. ~Asleep(thread[current]) /\ NoCall.op = "none"
  BY DEF Sane, RunnerKnown, Asleep, NoCall
<1>3. Stages \in [Slots -> {StageFor(call[i], thread[i]) : i \in Slots}]
  BY NextStages
<1> QED
  BY <1>1, <1>2, <1>3, StageShapes

(* A lock that is taken enters, also after it had queued. *)
LEMMA TakeMaps ==
    ASSUME Sane, CountsMatch, Recursion, NEW m \in Mutexes, Take(m),
           Executing(LockCall(m)) \/ AnyCall
    PROVE  Abstract!Enter(current, m)
<1>1. /\ Lookup(m) \in Mutex /\ Bounded(Lookup(m)) /\ Acquirable(Lookup(m))
      /\ Lookup(m).owner = mutex[m].owner /\ Lookup(m).rec = mutex[m].rec
      /\ mutex' = [mutex EXCEPT ![m] = Acquired(Lookup(m))]
  BY LookedUp DEF Take, Recursion
<1>2. /\ mutex[m].owner \in {NoOwner, current} /\ mutex'[m].owner = current
      /\ mutex'[m].rec = mutex[m].rec + 1 /\ \A k \in Mutexes \ {m} : mutex'[k] = mutex[k]
  BY <1>1, TakenMutex
<1>3. inQuantum /\ call[current] \in {NoCall, LockCall(m)} /\ NoCall.op = "none"
      /\ LockCall(m).op = "lock" /\ LockCall(m).obj = m
  BY DEF Executing, AnyCall, NoCall, LockCall
<1>4. /\ Owners' = [Owners EXCEPT ![m] = current]
      /\ Depths' = [Depths EXCEPT ![m] = mutex[m].rec + 1]
      /\ Owners[m] = mutex[m].owner /\ Depths[m] = mutex[m].rec
  BY <1>2, OneMutexMoves DEF Owners, Depths
<1>5. Abstract!Acquire(current, m)
  BY <1>2, <1>4 DEF Abstract!Acquire
<1>6. current \in Slots /\ Stages[current] \in {Abstract!Running, Abstract!Entry(m)}
  BY <1>3, RunnerStage
<1>7. Returns /\ thread' = [thread EXCEPT ![current] = ClearWait(@)]
  BY DEF Take
<1>8. \A i \in Slots \ {current} : SameStage(i)
  <2> SUFFICES ASSUME NEW i \in Slots \ {current} PROVE SameStage(i)
    OBVIOUS
  <2>1. call'[i] = call[i]
    BY <1>7, OthersKeepCalls
  <2>2. thread'[i] = thread[i]
    BY <1>6, <1>7 DEF Sane, TypeOK, SchedTypeOK
  <2> QED
    BY <2>1, <2>2, StaysAtRest
<1>9. StageFor(call'[current], thread'[current]) = Abstract!Running
  BY <1>3, <1>7, ReturnEndsCall, StageShapes
<1>10. Stages' = [Stages EXCEPT ![current] = Abstract!Running]
  BY <1>6, <1>8, <1>9, RunnerMoves
<1> QED
  BY <1>5, <1>6, <1>10 DEF Abstract!Enter

(* Giving a mutex up, by an unlock or in a wait. *)
LEMMA ReleaseMaps ==
    ASSUME Sane, CountsMatch, Recursion, NEW m \in Mutexes, Owns(m), mutex' = Unlocked(m)
    PROVE  Abstract!Release(current, m)
<1>1. /\ mutex[m].owner = current /\ mutex'[m].rec = mutex[m].rec - 1
      /\ mutex'[m].owner = IF mutex[m].rec > 1 THEN current ELSE NoOwner
      /\ \A k \in Mutexes \ {m} : mutex'[k] = mutex[k]
  BY ReleasedMutex DEF Recursion
<1>2. /\ Owners' = [Owners EXCEPT ![m] = mutex'[m].owner]
      /\ Depths' = [Depths EXCEPT ![m] = mutex[m].rec - 1]
      /\ Owners[m] = mutex[m].owner /\ Depths[m] = mutex[m].rec
  BY <1>1, OneMutexMoves DEF Owners, Depths
<1>3. Owners' = IF Depths[m] > 1 THEN Owners ELSE [Owners EXCEPT ![m] = NoOwner]
  <2>1. CASE Depths[m] > 1
    <3>1. mutex'[m].owner = current
      BY <1>1, <1>2, <2>1
    <3>2. Owners' = [Owners EXCEPT ![m] = Owners[m]]
      BY <1>1, <1>2, <3>1
    <3>3. [Owners EXCEPT ![m] = Owners[m]] = Owners
      BY DEF Owners
    <3> QED
      BY <2>1, <3>2, <3>3
  <2>2. CASE ~(Depths[m] > 1)
    BY <1>1, <1>2, <2>2
  <2> QED
    BY <2>1, <2>2
<1> QED
  BY <1>1, <1>2, <1>3 DEF Abstract!Release

(* The mutex shims enter, queue, leave, or rest.                             *)
LEMMA MutexMaps ==
    ASSUME Sane, CountsMatch, Recursion, NEW m \in Mutexes,
           \/ Lock(m) \/ TryLock(m) \/ Unlock(m) \/ DestroyMutex(m)
           \/ \E type \in MutexTypes : InitMutex(m, type)
    PROVE  \/ MonitorRests \/ Abstract!Enter(current, m) \/ Abstract!Queue(current, m)
           \/ Abstract!Leave(current, m)
<1>1. /\ thread \in [Slots -> Thread] /\ current \in Slots /\ call \in [Slots -> Call]
      /\ NoCall.op = "none" /\ inQuantum
      /\ LockCall(m).op = "lock" /\ LockCall(m).obj = m
  BY DEF Sane, TypeOK, SchedTypeOK, NoCall, LockCall, Lock, TryLock, Unlock, DestroyMutex,
         InitMutex, Executing, AnyCall
<1>2. CASE Lock(m) /\ Take(m)
  BY <1>2, TakeMaps DEF Lock
<1>3. CASE TryLock(m)
  BY <1>3, TakeMaps DEF TryLock
<1>4. CASE /\ Executing(LockCall(m)) /\ mutex[m].owner \notin {NoOwner, current}
           /\ thread' = [thread EXCEPT ![current] = Blocked(@, "MUTEX", m, NoObj, FALSE)]
           /\ Blocks(LockCall(m)) /\ UNCHANGED syncVars
  <2>1. call' = [call EXCEPT ![current] = LockCall(m)] /\ UNCHANGED mutex
    BY <1>4 DEF Blocks, syncVars
  <2>2. \A i \in Slots \ {current} : SameStage(i)
    BY <1>1, <1>4, <2>1, StaysAtRest
  <2>3. StageFor(call'[current], thread'[current]) = Abstract!Entry(m)
    BY <1>1, <2>1, StageShapes
  <2>4. CASE call[current] = NoCall
    <3>1. Stages' = [Stages EXCEPT ![current] = Abstract!Entry(m)]
      BY <1>1, <2>2, <2>3, RunnerMoves
    <3>2. Stages[current] = Abstract!Running
      BY <1>1, <2>4, RunnerStage
    <3>3. Owners' = Owners /\ Depths' = Depths /\ Owners[m] = mutex[m].owner
      BY <2>1 DEF Owners, Depths
    <3> QED
      BY <1>4, <3>1, <3>2, <3>3 DEF Abstract!Queue
  <2>5. CASE call[current] = LockCall(m)
    <3>1. SameStage(current)
      BY <1>1, <2>1, <2>5, StaysAtRest
    <3> QED
      BY <1>1, <2>1, <2>2, <3>1, Rests
  <2> QED
    BY <1>4, <2>4, <2>5 DEF Executing
<1>5. CASE /\ Executing(LockCall(m)) /\ Returns /\ UNCHANGED <<thread, syncVars>>
           /\ ~Found(m) \/ (mutex[m].owner = current /\ ~CanReenter(mutex[m]))
  <2>1. call[current] = NoCall
    <3>1. ASSUME call[current] = LockCall(m)
          PROVE  FALSE
      <4>1. mutex[m].owner # current /\ m \in Registry
        BY <1>1, <3>1 DEF Sane, NeverWaitsForItself, WaitersKeepObjects
      <4> QED
        BY <1>5, <4>1 DEF Found, Registry
    <3> QED
      BY <1>5, <3>1 DEF Executing
  <2>2. call' = call /\ thread' = thread /\ UNCHANGED mutex
    BY <1>1, <1>5, <2>1 DEF Returns, syncVars
  <2> QED
    BY <2>2, StaysAtRest, Rests
<1>6. CASE Unlock(m)
  <2>1. call' = call
    BY <1>1, <1>6 DEF Unlock, Returns, AnyCall
  <2>2. \A i \in Slots : SameStage(i)
    BY <1>6, <2>1, HandedStages DEF Unlock
  <2>3. Stages' = Stages
    BY <2>2, StagesRest
  <2>4. Stages[current] = Abstract!Running
    BY <1>1, <1>6, RunnerStage DEF Unlock, AnyCall
  <2>5. Abstract!Release(current, m)
    BY <1>6, ReleaseMaps DEF Unlock
  <2> QED
    BY <2>3, <2>4, <2>5 DEF Abstract!Leave
<1>7. CASE DestroyMutex(m) \/ \E type \in MutexTypes : InitMutex(m, type)
  <2>1. call' = call /\ thread' = thread
    BY <1>1, <1>7 DEF DestroyMutex, InitMutex, Returns, AnyCall
  <2>2. Stages' = Stages
    BY <2>1, StaysAtRest, StagesRest
  <2>3. /\ mutex[m].owner = mutex'[m].owner /\ mutex[m].rec = mutex'[m].rec
        /\ \A k \in Mutexes \ {m} : mutex'[k] = mutex[k]
    BY <1>7, RemadeMutex
  <2>4. Owners' = Owners /\ Depths' = Depths
    BY <2>3 DEF Owners, Depths
  <2> QED
    BY <2>2, <2>4 DEF MonitorRests
<1> QED
  BY <1>2, <1>3, <1>4, <1>5, <1>6, <1>7 DEF Lock

(* A waiter that is woken: its stage goes from waiting to notified, with the *)
(* outcome of the wake-up.                                                   *)
LEMMA WokenStages ==
    ASSUME Sane, NEW i \in Slots, thread[i].state = "BLOCKED", thread[i].wait = "COND",
           call'[i] = call[i], ~Asleep(thread'[i])
    PROVE  /\ Stages[i].at = "waiting" /\ Stages[i].cond = call[i].obj
           /\ Stages[i].timed = thread[i].timed
           /\ Stages'[i] = Abstract!Notified(Stages[i], thread'[i].result)
<1>1. call[i].op = "cond_wait" /\ Asleep(thread[i]) /\ thread[i].timed \in BOOLEAN
  BY WaitersHaveCalls DEF Asleep, Sane, TypeOK, SchedTypeOK, Thread
<1>2. /\ Stages[i] = StageFor(call[i], thread[i])
      /\ Stages'[i] = StageFor(call[i], thread'[i])
  BY NextStages
<1>3. Stages[i] = Abstract!StageWith("waiting", call[i].aux, call[i].obj, thread[i].timed, thread[i].result)
  BY <1>1, <1>2, StageShapes
<1>4. Stages'[i] = Abstract!StageWith("notified", call[i].aux, call[i].obj, FALSE, thread'[i].result)
  BY <1>1, <1>2, StageShapes
<1>5. /\ Stages[i].at = "waiting" /\ Stages[i].mutex = call[i].aux /\ Stages[i].cond = call[i].obj
      /\ Stages[i].timed = thread[i].timed
  BY <1>1, <1>3, StageFields
<1> QED
  BY <1>4, <1>5 DEF Abstract!Notified

(* Waking the waiters S with one outcome, everything else at rest. *)
LEMMA WakeMaps ==
    ASSUME Sane, NEW S \in SUBSET Slots, NEW r, UNCHANGED mutex,
           \A i \in S : /\ thread[i].state = "BLOCKED" /\ thread[i].wait = "COND"
                        /\ call'[i] = call[i] /\ ~Asleep(thread'[i]) /\ thread'[i].result = r,
           \A i \in Slots \ S : SameStage(i)
    PROVE  Abstract!NotifyAll(S, r)
<1>1. Stages' = [i \in Slots |-> IF i \in S THEN Abstract!Notified(Stages[i], r) ELSE Stages[i]]
  <2>1. ASSUME NEW i \in Slots
        PROVE  Stages'[i] = IF i \in S THEN Abstract!Notified(Stages[i], r) ELSE Stages[i]
    <3>1. CASE i \in S
      BY <3>1, WokenStages
    <3>2. CASE i \notin S
      BY <3>2, NextStages DEF SameStage
    <3> QED
      BY <3>1, <3>2
  <2> QED
    BY <2>1, NextStages
<1>2. Owners' = Owners /\ Depths' = Depths
  BY DEF Owners, Depths
<1> QED
  BY <1>1, <1>2 DEF Abstract!NotifyAll

(* An iteration is the expiry of the waits whose deadlines it found passed.  *)
LEMMA LoopMaps ==
    ASSUME Sane, LoopStep
    PROVE  \E S \in SUBSET Slots : Abstract!Expire(S)
<1>1. PICK expired \in SUBSET WithDeadline(thread),
           posted \in SUBSET {j \in CallbackWorkers : IsParked(thread[j])} :
             Iterate(expired, posted)
  BY DEF LoopStep
<1> DEFINE S == {i \in expired : thread[i].wait = "COND"}
           asleep == {j \in expired : thread[j].wait = "SLEEP"}
           waits == {j \in expired : thread[j].wait \in {"COND", "FUTEX"}}
           first == Woken(thread, asleep, "OK")
           second == Woken(first, waits, "ETIMEDOUT")
<1>2. /\ thread' = Handed(expired, posted) /\ UNCHANGED call /\ UNCHANGED mutex
      /\ thread \in [Slots -> Thread] /\ expired \subseteq Slots
      /\ second = TimedOut(thread, expired)
  BY <1>1 DEF Iterate, Dispatch, Handed, syncVars, Sane, TypeOK, SchedTypeOK, WithDeadline, TimedOut
<1>3. ASSUME NEW i \in S
      PROVE  /\ thread[i].state = "BLOCKED" /\ thread[i].wait = "COND" /\ thread[i].timed
             /\ ~Asleep(thread'[i]) /\ thread'[i].result = "ETIMEDOUT"
  <2>1. thread[i].state = "BLOCKED" /\ thread[i].wait = "COND" /\ thread[i].timed
    BY <1>2, <1>3 DEF WithDeadline
  <2>2. i \notin posted /\ i \in waits /\ i \notin asleep /\ i \in Slots
    BY <1>2, <1>3, <2>1 DEF IsParked
  <2>3. first[i] = thread[i]
    BY <2>2 DEF Woken
  <2>4. thread'[i] = second[i]
    BY <1>2, <2>2 DEF Handed
  <2> HIDE DEF first
  <2>5. second[i] = [thread[i] EXCEPT !.state = "RUNNABLE", !.result = "ETIMEDOUT", !.ready = TRUE]
    BY <2>1, <2>2, <2>3 DEF Woken
  <2>6. second[i].state = "RUNNABLE" /\ second[i].result = "ETIMEDOUT"
    <3>1. thread[i] \in Thread
      BY <1>2, <2>2
    <3> HIDE DEF second
    <3> QED
      BY <2>5, <3>1 DEF Thread
  <2> QED
    BY <2>1, <2>4, <2>6 DEF Asleep
<1>4. ASSUME NEW i \in Slots \ S
      PROVE  SameStage(i)
  <2>1. CASE i \in posted
    <3>1. call[i].op = "none"
      BY <2>1, WaitersHaveCalls DEF IsParked
    <3> QED
      BY <1>2, <3>1, StaysAtRest
  <2>2. CASE i \notin posted /\ thread[i].wait \in {"SLEEP", "FUTEX"} /\ i \in expired
    <3>1. thread[i].state = "BLOCKED"
      BY <2>2 DEF WithDeadline
    <3>2. call[i].op \in {"sleep", "futex_wait"}
      BY <2>2, <3>1, WaitersHaveCalls
    <3> QED
      BY <1>2, <3>2, StaysAtRest
  <2>3. CASE i \notin posted /\ i \notin asleep /\ i \notin waits
    <3>1. first[i] = thread[i]
      BY <2>3 DEF Woken
    <3>2. thread'[i] = second[i]
      BY <1>2, <2>3 DEF Handed
    <3> HIDE DEF first, waits
    <3>3. second[i] = first[i]
      BY <2>3 DEF Woken
    <3> QED
      BY <1>2, <3>1, <3>2, <3>3, StaysAtRest
  <2> QED
    BY <1>4, <2>1, <2>2, <2>3
<1>5. S \in SUBSET Slots
  BY <1>2
<1> HIDE DEF S
<1>6. Abstract!NotifyAll(S, "ETIMEDOUT")
  BY <1>2, <1>3, <1>4, <1>5, WakeMaps
<1>7. ASSUME NEW i \in S
      PROVE  Stages[i].at = "waiting" /\ Stages[i].timed
  BY <1>2, <1>3, <1>5, <1>7, WokenStages
<1>8. Abstract!Expire(S)
  BY <1>6, <1>7 DEF Abstract!Expire
<1> QED
  BY <1>5, <1>8

(* A signal wakes one waiter of its condition variable or finds none, a      *)
(* broadcast wakes all.                                                      *)
LEMMA NotifyMaps ==
    ASSUME Sane, NEW c \in Conds, NEW S \in SUBSET CondWaiters(c), Notify(c, S)
    PROVE  Abstract!NotifyAll(S, "OK")
<1>1. /\ UNCHANGED mutex /\ thread' = Woken(thread, S, "OK") /\ thread \in [Slots -> Thread]
      /\ S \in SUBSET Slots
  BY DEF Notify, CondWaiters, Sane, TypeOK, SchedTypeOK
<1>2. UNCHANGED call
  BY DEF Notify, AnyCall, Returns, Sane, TypeOK, SchedTypeOK
<1>3. ASSUME NEW i \in S
      PROVE  /\ thread[i].state = "BLOCKED" /\ thread[i].wait = "COND"
             /\ ~Asleep(thread'[i]) /\ thread'[i].result = "OK"
  <2>1. thread[i].state = "BLOCKED" /\ thread[i].wait = "COND" /\ i \in Slots
    BY <1>3 DEF CondWaiters
  <2>2. thread'[i] = [thread[i] EXCEPT !.state = "RUNNABLE", !.result = "OK", !.ready = TRUE]
    BY <1>1, <1>3, <2>1 DEF Woken
  <2>3. thread'[i].state = "RUNNABLE" /\ thread'[i].result = "OK"
    <3>1. thread[i] \in Thread
      BY <1>1, <2>1
    <3> QED
      BY <2>2, <3>1 DEF Thread
  <2> QED
    BY <2>1, <2>3 DEF Asleep
<1>4. ASSUME NEW i \in Slots \ S
      PROVE  SameStage(i)
  <2>1. thread'[i] = thread[i]
    BY <1>1, <1>4 DEF Woken
  <2> QED
    BY <1>2, <2>1, StaysAtRest
<1> QED
  BY <1>1, <1>2, <1>3, <1>4, WakeMaps

(* To notify nobody is to rest.                                              *)
LEMMA NobodyNotified ==
    ASSUME NEW r, Abstract!NotifyAll({}, r)
    PROVE  MonitorRests
BY DEF Abstract!NotifyAll, MonitorRests, Stages

(* The monitor's waiters are those of the thread table. *)
LEMMA SameWaiters ==
    ASSUME Sane, NEW c \in Conds
    PROVE  Abstract!WaitersOf(c) = CondWaiters(c)
<1>1. ASSUME NEW i \in Slots
      PROVE  Stages[i].at = "waiting" /\ Stages[i].cond = c <=> i \in CondWaiters(c)
  <2>1. Stages[i] = StageFor(call[i], thread[i])
    BY NextStages
  <2>2. Fits(thread[i], call[i]) /\ thread[i].timed \in BOOLEAN
    BY DEF Sane, RetryFindsItsRecord, TypeOK, SchedTypeOK, Thread
  <2>3. CASE Asleep(thread[i])
    <3>1. call[i].op = "cond_wait"
      BY <2>3, WaitersHaveCalls DEF Asleep
    <3>2. Stages[i] = Abstract!StageWith("waiting", call[i].aux, call[i].obj, thread[i].timed,
                                         thread[i].result)
      BY <2>1, <2>2, <2>3, <3>1, StageShapes
    <3>3. Stages[i].at = "waiting" /\ Stages[i].cond = call[i].obj
      BY <2>2, <3>2, StageFields
    <3>4. thread[i].obj = call[i].obj
      BY <2>2, <3>1 DEF Fits
    <3> QED
      BY <2>3, <3>3, <3>4 DEF Asleep, CondWaiters
  <2>4. CASE ~Asleep(thread[i])
    <3>1. Stages[i].at # "waiting"
      <4>1. StageFor(call[i], thread[i]).at # "waiting"
        BY <2>4 DEF StageFor
      <4> QED
        BY <2>1, <4>1
    <3> QED
      BY <2>4, <3>1 DEF Asleep, CondWaiters
  <2> QED
    BY <2>3, <2>4
<1> QED
  BY <1>1 DEF Abstract!WaitersOf, CondWaiters

(* Releasing the mutex and going to sleep is one step. *)
LEMMA EnterMaps ==
    ASSUME Sane, RecordsAreTidy, CountsMatch, Recursion, NEW c \in Conds, NEW m \in Mutexes,
           NEW timed \in BOOLEAN, CondWait(c, m, timed), CondWaitEnter(c, m, timed)
    PROVE  Abstract!Wait(current, c, m, timed)
<1> DEFINE op == WaitCall(c, m, timed)
           asleep == Blocked(thread[current], "COND", c, m, timed)
<1>1. /\ op.op = "cond_wait" /\ op.obj = c /\ op.aux = m /\ inQuantum
      /\ call[current] \in {NoCall, op} /\ current \in Slots /\ call \in [Slots -> Call]
      /\ thread \in [Slots -> Thread]
  BY DEF WaitCall, CondWait, Executing, Sane, TypeOK, SchedTypeOK
<1>2. call[current] = NoCall
  <2>1. ASSUME call[current] = op
        PROVE  FALSE
    <3>1. IsCondRetry(c, m)
      BY <1>1, <2>1, RunnerIdle, RunnerRecord DEF Fits, IsCondRetry, NamesCond, WaitCall
    <3> QED
      BY <3>1 DEF CondWaitEnter
  <2> QED
    BY <1>1, <2>1
<1>3. /\ thread' = [HandedOn(m) EXCEPT ![current] = Blocked(@, "COND", c, m, timed)]
      /\ call' = [call EXCEPT ![current] = op] /\ Owns(m) /\ mutex' = Unlocked(m)
  BY DEF CondWaitEnter, Blocks
<1>4. HandedOn(m) \in [Slots -> Thread] /\ HandedOn(m)[current] = thread[current]
  BY <1>1, HandedOnFits, RunnerIdle, WokenTypes DEF HandedOn, Results
<1>5. /\ thread'[current] = asleep /\ call'[current] = op
      /\ \A i \in Slots \ {current} : thread'[i] = HandedOn(m)[i] /\ call'[i] = call[i]
  BY <1>1, <1>3, <1>4
<1>6. /\ asleep.state = "BLOCKED" /\ asleep.wait = "COND" /\ asleep.timed = timed
      /\ asleep.result = thread[current].result
  BY <1>1 DEF Thread, Blocked
<1>7. thread[current].result = "OK"
  BY <1>1, <1>2, RunnerRecord DEF NoCall, Tidy
<1> HIDE DEF op, asleep
<1>8. StageFor(op, asleep) = Abstract!Waiting(c, m, timed)
  <2>1. StageFor(op, asleep) = Abstract!StageWith("waiting", op.aux, op.obj, asleep.timed, asleep.result)
    BY <1>1, <1>6, StageShapes DEF Asleep
  <2> QED
    BY <1>1, <1>6, <1>7, <2>1 DEF Abstract!Waiting
<1>9. \A i \in Slots \ {current} : SameStage(i)
  BY <1>5, HandedStages
<1>10. Stages' = [Stages EXCEPT ![current] = Abstract!Waiting(c, m, timed)]
  BY <1>1, <1>5, <1>8, <1>9, RunnerMoves
<1>11. Stages[current] = Abstract!Running
  BY <1>1, <1>2, RunnerStage
<1>12. Abstract!Release(current, m)
  BY <1>3, ReleaseMaps
<1> QED
  BY <1>10, <1>11, <1>12 DEF Abstract!Wait

(* A wait comes back with its mutex, or queues for it unseen. *)
LEMMA RetryMaps ==
    ASSUME Sane, RecordsAreTidy, CountsMatch, Recursion, NEW c \in Conds, NEW m \in Mutexes,
           NEW timed \in BOOLEAN, CondWait(c, m, timed), CondWaitRetry(c, m, timed)
    PROVE  MonitorRests \/ Abstract!Resume(current)
<1> DEFINE op == WaitCall(c, m, timed)
<1>1. /\ op.op = "cond_wait" /\ op.obj = c /\ op.aux = m /\ inQuantum
      /\ call[current] \in {NoCall, op} /\ current \in Slots /\ call \in [Slots -> Call]
      /\ thread \in [Slots -> Thread]
  BY DEF WaitCall, CondWait, Executing, Sane, TypeOK, SchedTypeOK
<1>2. call[current] = op
  <2>1. thread[current].ready
    BY DEF CondWaitRetry, IsCondRetry
  <2>2. call[current].op # "none"
    BY <1>1, <2>1, RunnerIdle DEF Fits
  <2> QED
    BY <1>1, <2>2 DEF NoCall
<1> HIDE DEF op
<1>3. CASE /\ thread' = [thread EXCEPT ![current] = Requeued(@)]
           /\ Blocks(op) /\ UNCHANGED mutex
  <2>1. call' = call
    BY <1>1, <1>2, <1>3 DEF Blocks
  <2>2. ~Asleep(thread[current]) /\ thread[current] \in Thread
    BY <1>1, RunnerIdle DEF Asleep
  <2>3. thread'[current] = Requeued(thread[current])
    BY <1>1, <1>3
  <2>4. /\ Requeued(thread[current]).wait = "COND_MUTEX"
        /\ Requeued(thread[current]).result = thread[current].result
    BY <2>2 DEF Requeued, Thread
  <2>5. SameStage(current)
    BY <1>1, <1>2, <2>1, <2>2, <2>3, <2>4, StaysNotified DEF Asleep
  <2>6. \A i \in Slots \ {current} : SameStage(i)
    BY <1>1, <1>3, <2>1, StaysAtRest
  <2> QED
    BY <1>3, <2>5, <2>6, Rests
<1>4. CASE /\ mutex[m].owner \in {NoOwner, current}
           /\ mutex' = IF Acquirable(mutex[m]) THEN [mutex EXCEPT ![m] = Acquired(@)] ELSE mutex
           /\ thread' = [thread EXCEPT ![current] = ClearWait(@)]
           /\ Returns
  <2>1. mutex[m] \in Mutex /\ Bounded(mutex[m])
    BY DEF Sane, TypeOK, Recursion, RecursionIsBounded
  <2>2. Acquirable(mutex[m])
    BY <1>1, <1>2, <1>4 DEF Acquirable, Recursion, WaitersCanReturn
  <2>3. /\ mutex'[m].owner = current /\ mutex'[m].rec = mutex[m].rec + 1
        /\ \A k \in Mutexes \ {m} : mutex'[k] = mutex[k]
    BY <1>4, <2>1, <2>2, TakenMutex
  <2>4. /\ Owners' = [Owners EXCEPT ![m] = current]
        /\ Depths' = [Depths EXCEPT ![m] = mutex[m].rec + 1]
        /\ Owners[m] = mutex[m].owner /\ Depths[m] = mutex[m].rec
    BY <2>3, OneMutexMoves DEF Owners, Depths
  <2>5. Abstract!Acquire(current, m)
    BY <1>4, <2>4 DEF Abstract!Acquire
  <2>6. Stages[current] = Abstract!StageWith("notified", m, c, FALSE, thread[current].result)
    BY <1>1, <1>2, RunnerStage
  <2>7. Stages[current].at = "notified" /\ Stages[current].mutex = m
    BY <2>6 DEF Abstract!StageWith
  <2>8. \A i \in Slots \ {current} : SameStage(i)
    <3> SUFFICES ASSUME NEW i \in Slots \ {current} PROVE SameStage(i)
      OBVIOUS
    <3>1. call'[i] = call[i]
      BY <1>4, OthersKeepCalls
    <3>2. thread'[i] = thread[i]
      BY <1>1, <1>4
    <3> QED
      BY <3>1, <3>2, StaysAtRest
  <2>9. StageFor(call'[current], thread'[current]) = Abstract!Running
    <3>1. NoCall.op = "none"
      BY DEF NoCall
    <3> QED
      BY <1>4, <3>1, ReturnEndsCall, StageShapes
  <2>10. Stages' = [Stages EXCEPT ![current] = Abstract!Running]
    BY <1>1, <2>8, <2>9, RunnerMoves
  <2> QED
    BY <2>5, <2>7, <2>10 DEF Abstract!Resume
<1> QED
  BY <1>3, <1>4 DEF CondWaitRetry, op

(* The condition variable shims notify, wait, resume, or rest.               *)
LEMMA CondMaps ==
    ASSUME Sane, RecordsAreTidy, CountsMatch, Recursion, NEW c \in Conds,
           \/ Signal(c) \/ Broadcast(c) \/ InitCond(c) \/ DestroyCond(c)
           \/ \E m \in Mutexes, timed \in BOOLEAN : CondWait(c, m, timed)
    PROVE  \/ MonitorRests \/ Abstract!SignalOne(c) \/ Abstract!BroadcastAll(c)
           \/ Abstract!Resume(current)
           \/ \E m \in Mutexes, timed \in BOOLEAN : Abstract!Wait(current, c, m, timed)
<1>1. CASE Signal(c)
  <2> DEFINE S == FirstAfterCurrent(CondWaiters(c))
  <2>1. S \in SUBSET CondWaiters(c) /\ (S = {} \/ \E i : S = {i})
    BY FirstIsMember DEF CondWaiters, Sane, TypeOK, SchedTypeOK, FirstAfterCurrent
  <2>2. Notify(c, S)
    BY <1>1 DEF Signal
  <2> HIDE DEF S
  <2>3. Abstract!NotifyAll(S, "OK")
    BY <2>1, <2>2, NotifyMaps
  <2>4. CASE S = {}
    BY <2>3, <2>4, NobodyNotified
  <2>5. ASSUME NEW i, S = {i}
        PROVE  Abstract!SignalOne(c)
    <3>1. i \in Abstract!WaitersOf(c)
      BY <2>1, <2>5, SameWaiters
    <3> QED
      BY <2>3, <2>5, <3>1 DEF Abstract!SignalOne
  <2> QED
    BY <2>1, <2>4, <2>5
<1>2. CASE Broadcast(c)
  BY <1>2, NotifyMaps, SameWaiters DEF Broadcast, Abstract!BroadcastAll
<1>3. CASE InitCond(c)
  <2>1. Abstract!NotifyAll({}, "OK")
    BY <1>3, NotifyMaps DEF InitCond
  <2> QED
    BY <2>1, NobodyNotified
<1>4. CASE UNCHANGED <<call, thread, mutex>>
  BY <1>4, StaysAtRest, Rests
<1>5. CASE DestroyCond(c)
  <2>1. UNCHANGED call
    BY <1>5 DEF DestroyCond, AnyCall, Returns, Sane, TypeOK, SchedTypeOK
  <2> QED
    BY <1>4, <1>5, <2>1 DEF DestroyCond
<1>6. ASSUME NEW m \in Mutexes, NEW timed \in BOOLEAN, CondWait(c, m, timed)
      PROVE  MonitorRests \/ Abstract!Resume(current) \/ Abstract!Wait(current, c, m, timed)
  <2>1. CASE CondWaitFails(c, m)
    <3>1. UNCHANGED <<call, thread, mutex>>
      BY <1>6, <2>1, FailureIsSilent
    <3> QED
      BY <3>1, StaysAtRest, Rests
  <2> QED
    BY <1>6, <2>1, EnterMaps, RetryMaps DEF CondWait
<1> QED
  BY <1>1, <1>2, <1>3, <1>5, <1>6

(* Every step is one of the monitor or none. *)
LEMMA MonitorStep ==
    ASSUME Sane, RecordsAreTidy, CountsMatch, Recursion, [Next]_vars
    PROVE  Abstract!Next \/ MonitorRests
<1>1. current \in Slots
  BY DEF Sane, TypeOK, SchedTypeOK
<1>2. CASE UNCHANGED vars
  BY <1>2, StaysAtRest, Rests DEF vars, schedVars
<1>3. CASE HostStep \/ \E j \in CallbackWorkers : CancelCallback(j)
  BY <1>3, HostMaps
<1>4. CASE FutexStep \/ Sleep
  BY <1>4, WaitMaps
<1>5. CASE LoopStep
  BY <1>5, LoopMaps DEF Abstract!Next
<1>6. CASE MutexStep
  <2>1. PICK m \in Mutexes : \/ Lock(m) \/ TryLock(m) \/ Unlock(m) \/ DestroyMutex(m)
                             \/ \E type \in MutexTypes : InitMutex(m, type)
    BY <1>6 DEF MutexStep
  <2>2. \/ MonitorRests \/ Abstract!Enter(current, m) \/ Abstract!Queue(current, m)
        \/ Abstract!Leave(current, m)
    BY <2>1, MutexMaps
  <2> QED
    BY <1>1, <2>2 DEF Abstract!Next
<1>7. CASE CondStep
  <2>1. PICK c \in Conds :
             \/ Signal(c) \/ Broadcast(c) \/ InitCond(c) \/ DestroyCond(c)
             \/ \E m \in Mutexes, timed \in BOOLEAN : CondWait(c, m, timed)
    BY <1>7 DEF CondStep
  <2>2. \/ MonitorRests \/ Abstract!SignalOne(c) \/ Abstract!BroadcastAll(c)
        \/ Abstract!Resume(current)
        \/ \E m \in Mutexes, timed \in BOOLEAN : Abstract!Wait(current, c, m, timed)
    BY <2>1, CondMaps
  <2> QED
    BY <1>1, <2>2 DEF Abstract!Next
<1> QED
  BY <1>2, <1>3, <1>4, <1>5, <1>6, <1>7 DEF Next

(* The shims implement the monitor, for any number of threads, mutexes and   *)
(* condition variables: a wait releases and sleeps in one step, a signal     *)
(* releases one waiter or none, a timeout only waiters with a deadline, and  *)
(* nobody comes back from a wait without its mutex.                          *)
THEOREM ShimsImplementMonitor == Spec => ImplementsMonitor
<1>1. Init => Abstract!Init
  <2> SUFFICES ASSUME Init PROVE Abstract!Init
    OBVIOUS
  <2>1. /\ NoMutex.owner = NoOwner /\ NoMutex.rec = 0
        /\ \A m \in Mutexes : mutex[m] = NoMutex
        /\ \A i \in Slots : call[i].op = "none"
    BY DEF Init, NoMutex, NoCall
  <2>2. Owners = [m \in Mutexes |-> NoOwner] /\ Depths = [m \in Mutexes |-> 0]
    BY <2>1 DEF Owners, Depths
  <2>3. Stages = [i \in Slots |-> Abstract!Running]
    BY <2>1, NextStages, StageShapes
  <2> QED
    BY <2>2, <2>3 DEF Abstract!Init
<1>2. IInv /\ RecordsAreTidy /\ Recursion /\ [Next]_vars => [Abstract!Next]_(Abstract!vars)
  <2> SUFFICES ASSUME IInv, RecordsAreTidy, Recursion, [Next]_vars
               PROVE  [Abstract!Next]_(Abstract!vars)
    OBVIOUS
  <2>1. Abstract!Next \/ MonitorRests
    BY MonitorStep DEF IInv
  <2> QED
    BY <2>1 DEF MonitorRests, Abstract!vars
<1> QED
  BY <1>1, <1>2, Inductive, TidyInvariant, RecursionInvariant, PTL
     DEF Spec, ImplementsMonitor, Abstract!Spec
=============================================================================
