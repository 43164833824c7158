-------------------------- MODULE GuestThreadsProofs --------------------------
(***************************************************************************)
(* Proofs about GuestThreads, for every capacity, every number of          *)
(* identifiers, keys, passes and once controls.                            *)
(***************************************************************************)
EXTENDS GuestThreads, GuestSchedProofs, SequenceTheorems, FiniteSetTheorems

USE CapacityAssumption, NoObjAssumption, LifeObjectsAssumption, LifeBoundsAssumption

-----------------------------------------------------------------------------
(* The inductive invariant, in parts. *)

(* A slot that is not used is cleared, and an identifier names one slot.       *)
SlotsMatch ==
    /\ \A i \in Slots : IF Used(i) THEN life[i].tid \in 1 .. nextTid - 1 ELSE life[i] = Vacated
    /\ \A i, j \in Slots : Used(i) /\ Used(j) /\ life[i].tid = life[j].tid => i = j

(* The thread in its quantum is runnable, and the main thread is when no loop  *)
(* may run it: it is never woken from a wait behind the back of its call.      *)
RunnerIsReady ==
    /\ inQuantum => /\ thread[current].state = "RUNNABLE"
                    /\ loop \in {"run", "idle"}
                    /\ loop = "idle" => current # Main
    /\ loop \in {"host", "idle"} => thread[Main].state = "RUNNABLE"

MainLives == Used(Main) /\ ~life[Main].worker /\ ~life[Main].exiting

WaitsHaveObjects ==
    \A i \in Slots : thread[i].state = "BLOCKED" =>
        /\ thread[i].wait = "JOIN" => thread[i].obj \in Tids
        /\ thread[i].wait = "ONCE" => thread[i].obj \in Onces

(* Initializers nest to a bound, and a thread leaves them before it ends.      *)
FramesAreBounded ==
    \A i \in Slots : /\ Len(life[i].frames) =< Nesting
                     /\ thread[i].state \in {"UNUSED", "ZOMBIE"} => life[i].frames = <<>>

(* A control has one frame while it runs and none otherwise.                   *)
OnceHasFrame ==
    \A o \in Onces :
        IF once[o].state = "running"
        THEN \E f \in FramesOf(o) : FramesOf(o) = {f} /\ life[f[1]].tid = once[o].owner
        ELSE FramesOf(o) = {} /\ once[o].owner = 0

(* A thread that has begun to exit is inside a destructor of a pass.           *)
ExitsAreInAPass ==
    \A i \in Slots :
        life[i].exiting /\ thread[i].state \in {"RUNNABLE", "BLOCKED"}
            => life[i].ran /\ life[i].pass < Passes

Live == TypeOK /\ SlotsMatch /\ RunnerIsReady /\ MainLives

IInv ==
    /\ Live /\ WaitsHaveObjects
    /\ EndsAreSettled
    /\ FreshKeysAreNull
    /\ FramesAreBounded /\ OnceHasFrame /\ OnceWaiterHasRunner
    /\ ExitsAreInAPass

-----------------------------------------------------------------------------
(* Type correctness. *)

(* What the helpers make of the records of a slot.                             *)
LEMMA SlotTypes ==
    /\ Prepared \in Thread /\ Vacant \in Thread
    /\ \A t \in 0 .. MaxTid, d, w \in BOOLEAN : Born(t, d, w) \in Life
    /\ Vacated \in Life
    /\ NoCall \in Call
    /\ \A t \in Tids : JoinCall(t) \in Call
    /\ \A o \in Onces : OnceCall(o) \in Call
<1>1. Prepared \in Thread /\ Prepared.state = "RUNNABLE"
  BY DEF Prepared, Thread, States, Waits, Results
<1>2. \A p \in Thread : [p EXCEPT !.state = "UNUSED"] \in Thread
  BY DEF Thread, States
<1>3. Vacant \in Thread
  BY <1>1, <1>2, Zenon DEF Vacant
<1>4. ASSUME NEW t \in 0 .. MaxTid, NEW d \in BOOLEAN, NEW w \in BOOLEAN
      PROVE  Born(t, d, w) \in Life
  <2>1. <<>> \in Seq(Onces) /\ 0 \in 0 .. Passes /\ 0 \in 0 .. NumKeys
    OBVIOUS
  <2>2. [k \in Keys |-> FALSE] \in [Keys -> BOOLEAN]
    OBVIOUS
  <2> QED
    BY <2>1, <2>2 DEF Born, Life
<1>5. Vacated \in Life
  <2>1. 0 \in 0 .. MaxTid
    OBVIOUS
  <2> QED
    BY <1>4, <2>1, Zenon DEF Vacated
<1>6. NoCall \in Call
  BY DEF NoCall, Call, BlockingOps
<1>7. ASSUME NEW c \in Call, NEW op \in BlockingOps, NEW o \in Objects
      PROVE  [c EXCEPT !.op = op, !.obj = o] \in Call
  BY DEF Call
<1>8. /\ \A t \in Tids : JoinCall(t) \in Call
      /\ \A o \in Onces : OnceCall(o) \in Call
  <2>1. "join" \in BlockingOps /\ "once" \in BlockingOps /\ Tids \subseteq Objects /\ Onces \subseteq Objects
    BY DEF BlockingOps, Tids
  <2> QED
    BY <1>6, <1>7, <2>1 DEF JoinCall, OnceCall
<1> QED
  BY <1>1, <1>3, <1>4, <1>5, <1>6, <1>8, Zenon

(* A slot that is cleared or taken has no frames, values or exit in progress.  *)
LEMMA SlotFields ==
    /\ Prepared.state = "RUNNABLE" /\ Prepared.wait = "NONE" /\ Vacant.state = "UNUSED"
    /\ \A t, d, w : LET l == Born(t, d, w)
                   IN  /\ l.tid = t /\ l.detached = d /\ l.worker = w
                       /\ l.frames = <<>> /\ l.exiting = FALSE /\ l.tls = [k \in Keys |-> FALSE]
    /\ Vacated.tid = 0 /\ Vacated.frames = <<>> /\ Vacated.exiting = FALSE
    /\ Vacated.worker = FALSE /\ Vacated.tls = [k \in Keys |-> FALSE]
BY DEF Prepared, Vacant, Born, Vacated

(* The state after mr_sched_init has the types.                               *)
LEMMA InitType == Init => TypeOK
<1> SUFFICES ASSUME Init PROVE TypeOK
  OBVIOUS
<1>1. thread \in [Slots -> Thread] /\ call \in [Slots -> Call]
  <2>1. \A i \in Slots : thread[i] \in Thread /\ call[i] \in Call
    BY SlotTypes, Zenon DEF Init
  <2> QED
    BY <2>1 DEF Init
<1>2. life \in [Slots -> Life]
  <2>1. 1 \in 0 .. MaxTid
    OBVIOUS
  <2>2. Born(1, FALSE, FALSE) \in Life /\ Vacated \in Life
    BY <2>1, SlotTypes, Zenon
  <2> QED
    BY <2>2, Zenon DEF Init
<1>3. once \in [Onces -> [used : BOOLEAN, state : {"new", "running", "done"}, owner : 0 .. MaxTid]]
  BY DEF Init, NewOnce
<1>4. SchedTypeOK
  BY <1>1, MainIsSlot DEF Init, SchedTypeOK
<1>5. keys \in [Keys -> [used : BOOLEAN, destructor : BOOLEAN]]
  BY DEF Init
<1>6. nextTid \in 2 .. MaxTid + 1
  BY DEF Init
<1> QED
  BY <1>2, <1>3, <1>4, <1>5, <1>6 DEF TypeOK

(* Changes of one field of a life.                                             *)
LEMMA LifeTypes ==
    ASSUME NEW l \in Life
    PROVE  /\ [l EXCEPT !.detached = TRUE] \in Life
           /\ [l EXCEPT !.exiting = TRUE, !.pass = 0, !.index = 0, !.ran = FALSE] \in Life
           /\ \A k \in Keys, b \in BOOLEAN : [l EXCEPT !.tls[k] = b] \in Life
           /\ \A o \in Onces : [l EXCEPT !.frames = Append(@, o)] \in Life
           /\ l.frames # <<>> =>
                 /\ [l EXCEPT !.frames = SubSeq(@, 1, Len(@) - 1)] \in Life
                 /\ l.frames[Len(l.frames)] \in Onces
<1>1. l.frames \in Seq(Onces) /\ Len(l.frames) \in Nat
  BY LenProperties DEF Life
<1>2. \A o \in Onces : Append(l.frames, o) \in Seq(Onces)
  BY <1>1
<1>3. ASSUME l.frames # <<>>
      PROVE  SubSeq(l.frames, 1, Len(l.frames) - 1) \in Seq(Onces) /\ l.frames[Len(l.frames)] \in Onces
  <2>1. Len(l.frames) \in 1 .. Len(l.frames)
    BY <1>1, <1>3, EmptySeq
  <2> QED
    BY <1>1, <2>1, SubSeqProperties, ElementOfSeq
<1>4. [l EXCEPT !.detached = TRUE] \in Life
  BY DEF Life
<1>5. [l EXCEPT !.exiting = TRUE, !.pass = 0, !.index = 0, !.ran = FALSE] \in Life
  <2>1. 0 \in 0 .. Passes /\ 0 \in 0 .. NumKeys
    OBVIOUS
  <2>2. ASSUME NEW pass \in 0 .. Passes, NEW index \in 0 .. NumKeys, NEW b \in BOOLEAN, NEW r \in BOOLEAN
        PROVE  [l EXCEPT !.exiting = b, !.pass = pass, !.index = index, !.ran = r] \in Life
    BY DEF Life
  <2> QED
    BY <2>1, <2>2, Zenon
<1>6. ASSUME NEW k \in Keys, NEW b \in BOOLEAN
      PROVE  [l EXCEPT !.tls[k] = b] \in Life
  <2>1. [l.tls EXCEPT ![k] = b] \in [Keys -> BOOLEAN]
    BY DEF Life
  <2> QED
    BY <2>1 DEF Life
<1>7. \A o \in Onces : [l EXCEPT !.frames = Append(@, o)] \in Life
  BY <1>2 DEF Life
<1>8. l.frames # <<>> => [l EXCEPT !.frames = SubSeq(@, 1, Len(@) - 1)] \in Life
  BY <1>3 DEF Life
<1> QED
  BY <1>3, <1>4, <1>5, <1>6, <1>7, <1>8

(* What a rescan leaves alone, and that its next destructor is in the model.   *)
LEMMA RescanFields ==
    ASSUME NEW l \in Life
    PROVE  /\ Rescan(l).tid = l.tid /\ Rescan(l).detached = l.detached
           /\ Rescan(l).worker = l.worker /\ Rescan(l).exiting = l.exiting
           /\ Rescan(l).frames = l.frames /\ Rescan(l).tls = l.tls
           /\ Rescan(l).pass < Passes => Rescan(l) \in Life
<1>1. CASE Rescan(l) = l
  BY <1>1
<1>2. CASE Rescan(l) # l
  <2>1. Rescan(l) = [l EXCEPT !.pass = l.pass + 1, !.index = 0, !.ran = FALSE]
    BY <1>2 DEF Rescan
  <2>2. ASSUME NEW p \in Int
        PROVE  LET n == [l EXCEPT !.pass = p, !.index = 0, !.ran = FALSE]
               IN  n.pass = p /\ (p \in 0 .. Passes => n \in Life)
    <3>1. 0 \in 0 .. NumKeys
      OBVIOUS
    <3> QED
      BY <3>1 DEF Life
  <2>3. l.pass + 1 \in Int /\ (l.pass + 1 < Passes => l.pass + 1 \in 0 .. Passes)
    BY DEF Life
  <2> DEFINE r == Rescan(l)
  <2>4. /\ r.tid = l.tid /\ r.detached = l.detached
        /\ r.worker = l.worker /\ r.exiting = l.exiting
        /\ r.frames = l.frames /\ r.tls = l.tls
    BY <2>1 DEF Life
  <2>5. r.pass = l.pass + 1 /\ (l.pass + 1 \in 0 .. Passes => r \in Life)
    BY <2>1, <2>2, <2>3
  <2> HIDE DEF r
  <2>6. r.pass < Passes => r \in Life
    BY <2>3, <2>5
  <2> QED
    BY <2>4, <2>6 DEF r
<1> QED
  BY <1>1, <1>2

(* A record after the next destructor was begun: only its pass and values change.*)
LEMMA NextDestructor ==
    ASSUME NEW l \in Life, Rescan(l).pass < Passes, NEW k \in LowestOf(Pending(Rescan(l)))
    PROVE  LET n == [Rescan(l) EXCEPT !.tls[k] = FALSE, !.ran = TRUE, !.index = k + 1]
           IN  /\ k \in Keys /\ n \in Life
               /\ n.tid = l.tid /\ n.detached = l.detached /\ n.worker = l.worker
               /\ n.exiting = l.exiting /\ n.frames = l.frames
               /\ n.ran = TRUE /\ n.pass < Passes
               /\ \A j \in Keys : n.tls[j] => l.tls[j]
<1>1. k \in Keys /\ k + 1 \in 0 .. NumKeys
  <2>1. Pending(Rescan(l)) \in SUBSET Nat
    BY DEF Pending, Keys
  <2> QED
    BY <2>1, LowestIsMember DEF Pending, Keys
<1>2. Rescan(l) \in Life
  BY RescanFields
<1>3. ASSUME NEW r \in Life, NEW index \in 0 .. NumKeys, NEW b \in BOOLEAN, r.pass < Passes
      PROVE  LET n == [r EXCEPT !.tls[k] = FALSE, !.ran = b, !.index = index]
             IN  /\ n \in Life
                 /\ n.tid = r.tid /\ n.detached = r.detached /\ n.worker = r.worker
                 /\ n.exiting = r.exiting /\ n.frames = r.frames
                 /\ n.ran = b /\ n.pass < Passes
                 /\ \A j \in Keys : n.tls[j] => r.tls[j]
  <2>1. [r.tls EXCEPT ![k] = FALSE] \in [Keys -> BOOLEAN]
    BY <1>1 DEF Life
  <2>2. \A j \in Keys : [r.tls EXCEPT ![k] = FALSE][j] => r.tls[j]
    BY <1>1 DEF Life
  <2> QED
    BY <2>1, <2>2, <1>3 DEF Life
<1> DEFINE n == [Rescan(l) EXCEPT !.tls[k] = FALSE, !.ran = TRUE, !.index = k + 1]
<1>4. /\ n \in Life
      /\ n.tid = Rescan(l).tid /\ n.detached = Rescan(l).detached /\ n.worker = Rescan(l).worker
      /\ n.exiting = Rescan(l).exiting /\ n.frames = Rescan(l).frames
      /\ n.ran = TRUE /\ n.pass < Passes
      /\ \A j \in Keys : n.tls[j] => Rescan(l).tls[j]
  BY <1>1, <1>2, <1>3, Zenon
<1> HIDE DEF n
<1> QED
  BY <1>1, <1>4, RescanFields, Zenon DEF n

(* The host steps change scheduling only.                                     *)
LEMMA HostStepType == ASSUME TypeOK, MainLives, HostStep PROVE TypeOK'
<1> USE DEF TypeOK, SchedTypeOK
<1>1. CASE EnterRun
  BY <1>1, RecordTypes, MainIsSlot DEF HostStep, EnterRun, lifeVars
<1>2. CASE EnterIdle \/ LeaveIdle \/ MainReturns \/ EndQuantum \/ GuestFault
  BY <1>2 DEF HostStep, EnterIdle, LeaveIdle, MainReturns, EndQuantum, GuestFault, lifeVars
<1>3. CASE CallbackReturns(Workers)
  BY <1>3, RecordTypes DEF HostStep, CallbackReturns, lifeVars
<1> QED
  BY <1>1, <1>2, <1>3 DEF HostStep

(* The table an iteration hands to the pick, and whom it may pick.             *)
Handed(posted, spawned) ==
    [i \in Slots |-> IF i \in posted THEN Unparked(thread[i])
                     ELSE IF i \in spawned THEN Prepared ELSE thread[i]]

(* alloc_slot takes one unused slot, never that of the main thread.           *)
LEMMA FreeSlotIsUnused ==
    /\ FreeSlot \subseteq {i \in Slots \ {Main} : thread[i].state = "UNUSED"}
    /\ \A i, j \in FreeSlot : i = j
<1>1. {i \in Slots \ {Main} : thread[i].state = "UNUSED"} \in SUBSET Nat
  BY DEF Slots
<1> QED
  BY <1>1, LowestIsMember DEF FreeSlot, LowestOf

(* What an iteration of a loop leaves: the table it handed out, and whom it picked.*)
LEMMA IterateEffect ==
    ASSUME TypeOK, MainLives, NEW posted, NEW spawned \in SUBSET FreeSlot,
           Iterate(posted, spawned)
    PROVE  /\ AtLoopTop
           /\ thread' = Handed(posted, spawned) /\ thread' \in [Slots -> Thread]
           /\ UNCHANGED <<call, keys, once>>
           /\ life' = [i \in Slots |-> IF i \in spawned THEN Born(nextTid, TRUE, TRUE) ELSE life[i]]
           /\ nextTid' = IF spawned = {} THEN nextTid ELSE nextTid + 1
           /\ \/ /\ current' \in Runnable(thread') /\ inQuantum' = TRUE /\ loop' = loop
                 /\ loop # "run" => current' # Main
                 /\ started' \in SUBSET Slots
              \/ /\ loop' \in {"host", "run", "deadlock"}
                 /\ loop' = "host" => loop = "idle"
                 /\ UNCHANGED <<current, inQuantum, started>>
<1>1. Handed(posted, spawned) \in [Slots -> Thread]
  BY RecordTypes, SlotTypes DEF Handed, TypeOK, SchedTypeOK
<1>2. /\ AtLoopTop
      /\ life' = [i \in Slots |-> IF i \in spawned THEN Born(nextTid, TRUE, TRUE) ELSE life[i]]
      /\ nextTid' = IF spawned = {} THEN nextTid ELSE nextTid + 1
      /\ Dispatch(Handed(posted, spawned), Workers \cup spawned)
      /\ UNCHANGED <<keys, once>>
  BY DEF Iterate, Handed
<1> DEFINE th == Handed(posted, spawned)
           workers == Workers \cup spawned
<1>3. workers \in SUBSET (Slots \ {Main})
  BY FreeSlotIsUnused DEF Workers, MainLives
<1> HIDE DEF th, workers
<1>4. current \in Slots /\ started \in SUBSET Slots /\ th \in [Slots -> Thread]
  BY <1>1 DEF TypeOK, SchedTypeOK, th
<1>5. /\ Pick(th, workers, loop = "run") \subseteq Runnable(th)
      /\ loop # "run" => Main \notin Pick(th, workers, loop = "run")
  <2>1. (loop = "run") \in BOOLEAN
    OBVIOUS
  <2> QED
    BY <1>3, <1>4, <2>1, PickedIsRunnable
<1>6. thread' = th /\ UNCHANGED call
  BY <1>2 DEF Dispatch, th
<1>7. CASE \E i \in Pick(th, workers, loop = "run") : BeginQuantum(i, workers)
  <2>1. PICK i \in Pick(th, workers, loop = "run") : BeginQuantum(i, workers)
    BY <1>7
  <2>2. i \in Runnable(th) /\ i \in Slots /\ (loop # "run" => i # Main)
    BY <1>5, <2>1 DEF Runnable
  <2>3. current' = i /\ inQuantum' = TRUE /\ loop' = loop /\ started' \in SUBSET Slots
    BY <1>4, <2>1, <2>2 DEF BeginQuantum
  <2> QED
    BY <1>1, <1>2, <1>6, <2>2, <2>3 DEF th
<1>8. CASE /\ loop' = IF loop = "idle" THEN "host"
                      ELSE IF WithDeadline(th) # {} THEN "run" ELSE "deadlock"
           /\ UNCHANGED <<current, inQuantum, started>>
  BY <1>1, <1>2, <1>6, <1>8 DEF th
<1> QED
  BY <1>2, <1>7, <1>8 DEF Dispatch, th, workers

(* An iteration keeps the types, also when it spawns a callback worker.       *)
LEMMA IterateType ==
    ASSUME TypeOK, MainLives, NEW posted, NEW spawned \in SUBSET FreeSlot,
           spawned # {} => nextTid =< MaxTid, Iterate(posted, spawned)
    PROVE  TypeOK'
<1>1. /\ life' = [i \in Slots |-> IF i \in spawned THEN Born(nextTid, TRUE, TRUE) ELSE life[i]]
      /\ nextTid' = IF spawned = {} THEN nextTid ELSE nextTid + 1
  BY IterateEffect, Zenon
<1>2. life' \in [Slots -> Life]
  <2>1. \A i \in spawned : Born(nextTid, TRUE, TRUE) \in Life
    <3>1. spawned # {} => nextTid \in 0 .. MaxTid
      BY DEF TypeOK
    <3> QED
      BY <3>1, SlotTypes
  <2>2. \A i \in Slots : life[i] \in Life
    BY DEF TypeOK
  <2> QED
    BY <1>1, <2>1, <2>2, Zenon
<1>3. nextTid' \in 2 .. MaxTid + 1
  <2>1. nextTid \in 2 .. MaxTid + 1 /\ MaxTid \in Nat
    BY DEF TypeOK
  <2> QED
    BY <1>1, <2>1
<1>4. SchedTypeOK'
  BY IterateEffect DEF TypeOK, SchedTypeOK, Runnable, AtLoopTop
<1> QED
  BY <1>2, <1>3, <1>4, IterateEffect DEF TypeOK

(* The two ways into an exit step, and its two outcomes.                       *)
ExitRecord(l) ==
    /\ l \in Life /\ ExitStep(l)
    /\ l.tid = life[current].tid /\ l.detached = life[current].detached
    /\ l.worker = life[current].worker /\ l.frames = life[current].frames
    /\ l.tls = life[current].tls /\ l.exiting
    /\ \/ l = life[current]
       \/ l.index = 0 /\ l.pass = 0 /\ ~l.ran

(* Both entries run an exit step on such a record, of a thread that is not Main.*)
LEMMA ExitsHaveRecords ==
    ASSUME TypeOK, MainLives, ThreadReturns \/ DestructorReturns
    PROVE  /\ AnyCall /\ InNoInitializer /\ current \in Slots \ {Main}
           /\ \E l \in Life : ExitRecord(l)
<1>1. current \in Slots /\ life[current] \in Life
  BY DEF TypeOK, SchedTypeOK
<1>2. CASE ThreadReturns
  <2> DEFINE l == [life[current] EXCEPT !.exiting = TRUE, !.pass = 0, !.index = 0, !.ran = FALSE]
  <2>1. l \in Life
    BY <1>1, LifeTypes
  <2>2. /\ l.tid = life[current].tid /\ l.detached = life[current].detached
        /\ l.worker = life[current].worker /\ l.frames = life[current].frames
        /\ l.tls = life[current].tls /\ l.exiting
        /\ l.index = 0 /\ l.pass = 0 /\ ~l.ran
    BY <1>1 DEF Life
  <2>3. ExitStep(l) /\ AnyCall /\ InNoInitializer /\ current # Main
    BY <1>2 DEF ThreadReturns
  <2> HIDE DEF l
  <2> QED
    BY <1>1, <2>1, <2>2, <2>3 DEF ExitRecord
<1>3. CASE DestructorReturns
  <2>1. AnyCall /\ InNoInitializer /\ life[current].exiting /\ ExitStep(life[current])
    BY <1>3 DEF DestructorReturns
  <2>2. current # Main
    BY <2>1 DEF MainLives
  <2>3. ExitRecord(life[current])
    BY <1>1, <2>1 DEF ExitRecord
  <2> QED
    BY <1>1, <2>1, <2>2, <2>3
<1> QED
  BY <1>2, <1>3

(* Beginning a destructor changes the record of the running thread only.      *)
LEMMA DestructorEffect ==
    ASSUME NEW l \in Life, StartsDestructor(l)
    PROVE  /\ UNCHANGED <<schedVars, keys, once, nextTid>>
           /\ \E n \in Life :
                /\ life' = [life EXCEPT ![current] = n]
                /\ n.tid = l.tid /\ n.detached = l.detached /\ n.worker = l.worker
                /\ n.exiting = l.exiting /\ n.frames = l.frames
                /\ n.ran = TRUE /\ n.pass < Passes
                /\ \A j \in Keys : n.tls[j] => l.tls[j]
<1>1. PICK k \in LowestOf(Pending(Rescan(l))) :
        life' = [life EXCEPT ![current] =
                    [Rescan(l) EXCEPT !.tls[k] = FALSE, !.ran = TRUE, !.index = k + 1]]
  BY DEF StartsDestructor
<1>2. UNCHANGED <<schedVars, keys, once, nextTid>> /\ Rescan(l).pass < Passes
  BY DEF StartsDestructor
<1> DEFINE n == [Rescan(l) EXCEPT !.tls[k] = FALSE, !.ran = TRUE, !.index = k + 1]
<1>3. /\ n \in Life
      /\ n.tid = l.tid /\ n.detached = l.detached /\ n.worker = l.worker
      /\ n.exiting = l.exiting /\ n.frames = l.frames
      /\ n.ran = TRUE /\ n.pass < Passes
      /\ \A j \in Keys : n.tls[j] => l.tls[j]
  BY <1>2, NextDestructor, Zenon
<1> HIDE DEF n
<1>4. life' = [life EXCEPT ![current] = n]
  BY <1>1 DEF n
<1> QED
  BY <1>2, <1>3, <1>4

(* Finalizing wakes the joiners and reaps the slot or leaves a zombie.        *)
LEMMA EndEffect ==
    ASSUME TypeOK, NEW l \in Life, Finalizes(l)
    PROVE  /\ inQuantum' = FALSE /\ UNCHANGED <<call, current, loop, started, keys, once, nextTid>>
           /\ LET woken == WithJoinersWoken(thread, l)
              IN  /\ woken \in [Slots -> Thread]
                  /\ IF l.detached
                     THEN /\ thread' = [woken EXCEPT ![current] = Vacant]
                          /\ life' = [life EXCEPT ![current] = Vacated]
                     ELSE /\ thread' = [woken EXCEPT ![current].state = "ZOMBIE"]
                          /\ life' = [life EXCEPT ![current] = l]
           /\ TypeOK'
<1> DEFINE woken == WithJoinersWoken(thread, l)
<1>1. woken \in [Slots -> Thread]
  BY WokenTypes DEF WithJoinersWoken, TypeOK, SchedTypeOK, Results
<1>2. /\ inQuantum' = FALSE /\ UNCHANGED <<call, current, loop, started, keys, once, nextTid>>
      /\ IF l.detached
         THEN /\ thread' = [woken EXCEPT ![current] = Vacant]
              /\ life' = [life EXCEPT ![current] = Vacated]
         ELSE /\ thread' = [woken EXCEPT ![current].state = "ZOMBIE"]
              /\ life' = [life EXCEPT ![current] = l]
  BY DEF Finalizes, ReapedThread, ReapedLife
<1> HIDE DEF woken
<1>3. thread' \in [Slots -> Thread]
  <2>1. \A t \in Thread : [t EXCEPT !.state = "ZOMBIE"] \in Thread
    BY DEF Thread, States
  <2> QED
    BY <1>1, <1>2, <2>1, SlotTypes
<1>4. life' \in [Slots -> Life]
  BY <1>2, SlotTypes DEF TypeOK
<1>5. TypeOK'
  BY <1>2, <1>3, <1>4 DEF TypeOK, SchedTypeOK
<1> QED
  BY <1>1, <1>2, <1>5 DEF woken

(* Exit steps keep the types.                                                 *)
LEMMA ExitStepType ==
    ASSUME TypeOK, MainLives, ThreadReturns \/ DestructorReturns
    PROVE  TypeOK'
<1>1. PICK l \in Life : ExitRecord(l)
  BY ExitsHaveRecords
<1>2. CASE StartsDestructor(l)
  <2>1. UNCHANGED <<schedVars, keys, once, nextTid>>
        /\ \E n \in Life : life' = [life EXCEPT ![current] = n]
    BY <1>2, DestructorEffect
  <2> QED
    BY <2>1 DEF TypeOK, SchedTypeOK, schedVars
<1>3. CASE Finalizes(l)
  BY <1>3, EndEffect
<1> QED
  BY <1>1, <1>2, <1>3 DEF ExitRecord, ExitStep

(* The two ends of a shim call.                                                *)
LEMMA CallEndTypes ==
    ASSUME TypeOK, thread' \in [Slots -> Thread],
           Returns \/ \E op \in Call : Blocks(op)
    PROVE  SchedTypeOK'
<1>1. call' \in [Slots -> Call]
  BY SlotTypes DEF Returns, Blocks, TypeOK, SchedTypeOK
<1>2. /\ UNCHANGED <<current, loop, started>> /\ inQuantum' \in BOOLEAN
  BY DEF Returns, Blocks, TypeOK, SchedTypeOK
<1> QED
  BY <1>1, <1>2 DEF TypeOK, SchedTypeOK

(* pthread_create keeps the types.                                            *)
LEMMA CreateType ==
    ASSUME TypeOK, NEW detached \in BOOLEAN, Create(detached)
    PROVE  TypeOK'
<1>1. PICK i \in FreeSlot : /\ thread' = [thread EXCEPT ![i] = Prepared]
                            /\ life' = [life EXCEPT ![i] = Born(nextTid, detached, FALSE)]
  BY DEF Create
<1>2. Returns /\ UNCHANGED <<keys, once>> /\ nextTid =< MaxTid /\ nextTid' = nextTid + 1
  BY DEF Create
<1>3. nextTid \in 0 .. MaxTid /\ nextTid' \in 2 .. MaxTid + 1
  <2>1. nextTid \in 2 .. MaxTid + 1 /\ MaxTid \in Nat
    BY DEF TypeOK
  <2> QED
    BY <1>2, <2>1
<1>4. thread' \in [Slots -> Thread] /\ life' \in [Slots -> Life]
  BY <1>1, <1>3, SlotTypes DEF TypeOK, SchedTypeOK
<1> QED
  BY <1>2, <1>3, <1>4, CallEndTypes DEF TypeOK

(* pthread_join keeps the types.                                              *)
LEMMA JoinType ==
    ASSUME TypeOK, NEW t \in Tids, Join(t)
    PROVE  TypeOK'
<1>1. UNCHANGED <<keys, once, nextTid>>
  BY DEF Join
<1>2. t \in Objects /\ NoObj \in Objects \cup {NoObj} /\ "JOIN" \in Waits
  BY DEF Tids, Waits
<1>3. JoinCall(t) \in Call
  BY SlotTypes
<1>4. thread' \in [Slots -> Thread] /\ life' \in [Slots -> Life]
      /\ (Returns \/ Blocks(JoinCall(t)))
  <2>1. CASE Returns /\ UNCHANGED <<thread, life>>
    BY <2>1 DEF TypeOK, SchedTypeOK
  <2>2. CASE /\ thread' = [thread EXCEPT ![current] = Blocked(@, "JOIN", t, NoObj, FALSE)]
             /\ Blocks(JoinCall(t)) /\ UNCHANGED life
    <3>1. Blocked(thread[current], "JOIN", t, NoObj, FALSE) \in Thread
      BY <1>2, RecordTypes DEF TypeOK, SchedTypeOK
    <3> QED
      BY <2>2, <3>1 DEF TypeOK, SchedTypeOK
  <2>3. CASE \E i \in ByTid(t) \ {current} :
                /\ thread' = [ReapedThread(thread, i) EXCEPT ![current] = ClearWait(@)]
                /\ life' = ReapedLife(life, i) /\ Returns
    <3>1. PICK i \in ByTid(t) \ {current} :
                /\ thread' = [ReapedThread(thread, i) EXCEPT ![current] = ClearWait(@)]
                /\ life' = ReapedLife(life, i) /\ Returns
      BY <2>3
    <3>2. ReapedThread(thread, i) \in [Slots -> Thread] /\ ReapedLife(life, i) \in [Slots -> Life]
      BY SlotTypes DEF ReapedThread, ReapedLife, TypeOK, SchedTypeOK
    <3> QED
      BY <3>1, <3>2, RecordTypes
  <2> QED
    BY <2>1, <2>2, <2>3 DEF Join
<1> QED
  BY <1>1, <1>3, <1>4, CallEndTypes DEF TypeOK

(* pthread_detach keeps the types.                                            *)
LEMMA DetachType ==
    ASSUME TypeOK, NEW t \in Tids, Detach(t)
    PROVE  TypeOK'
<1>1. Returns /\ UNCHANGED <<keys, once, nextTid>>
  BY DEF Detach
<1>2. PICK i \in ByTid(t) :
        IF thread[i].state = "ZOMBIE"
        THEN thread' = ReapedThread(thread, i) /\ life' = ReapedLife(life, i)
        ELSE life' = [life EXCEPT ![i].detached = TRUE] /\ UNCHANGED thread
  BY DEF Detach
<1>3. i \in Slots /\ [life[i] EXCEPT !.detached = TRUE] \in Life
  BY LifeTypes DEF ByTid, TypeOK
<1>4. thread' \in [Slots -> Thread] /\ life' \in [Slots -> Life]
  BY <1>2, <1>3, SlotTypes DEF ReapedThread, ReapedLife, TypeOK, SchedTypeOK
<1> QED
  BY <1>1, <1>4, CallEndTypes DEF TypeOK

(* The key shims keep the types.                                              *)
LEMMA KeyStepType == ASSUME TypeOK, KeyStep PROVE TypeOK'
<1>1. ASSUME NEW destructor \in BOOLEAN, CreateKey(destructor)
      PROVE  TypeOK'
  <2>1. {k \in Keys : ~keys[k].used} \in SUBSET Nat
    BY DEF Keys
  <2>2. PICK k \in Keys : keys' = [keys EXCEPT ![k] = [used |-> TRUE, destructor |-> destructor]]
    BY <1>1, <2>1, LowestIsMember DEF CreateKey
  <2>3. keys' \in [Keys -> [used : BOOLEAN, destructor : BOOLEAN]]
    BY <2>2 DEF TypeOK
  <2> QED
    BY <1>1, <2>3 DEF CreateKey, TypeOK, SchedTypeOK, schedVars
<1>2. ASSUME NEW k \in Keys, DeleteKey(k)
      PROVE  TypeOK'
  <2>1. keys' \in [Keys -> [used : BOOLEAN, destructor : BOOLEAN]]
    BY <1>2 DEF DeleteKey, TypeOK
  <2>2. \A i \in Slots : [life[i] EXCEPT !.tls[k] = FALSE] \in Life
    BY LifeTypes DEF TypeOK
  <2>3. life' \in [Slots -> Life]
    BY <1>2, <2>2 DEF DeleteKey, ForgottenBy
  <2> QED
    BY <1>2, <2>1, <2>3 DEF DeleteKey, TypeOK, SchedTypeOK, schedVars
<1>3. ASSUME NEW k \in Keys, NEW notNull \in BOOLEAN, SetSpecific(k, notNull)
      PROVE  TypeOK'
  <2>1. [life[current] EXCEPT !.tls[k] = notNull] \in Life
    BY LifeTypes DEF TypeOK, SchedTypeOK
  <2>2. life' = [life EXCEPT ![current] = [life[current] EXCEPT !.tls[k] = notNull]]
    BY <1>3 DEF SetSpecific
  <2>3. life' \in [Slots -> Life]
    BY <2>1, <2>2 DEF TypeOK
  <2> QED
    BY <1>3, <2>3 DEF SetSpecific, TypeOK, SchedTypeOK, schedVars
<1> QED
  BY <1>1, <1>2, <1>3 DEF KeyStep

(* pthread_once keeps the types.                                              *)
LEMMA OnceType ==
    ASSUME TypeOK, NEW o \in Onces, Once(o)
    PROVE  TypeOK'
<1>1. UNCHANGED <<keys, nextTid>> /\ OnceCall(o) \in Call
  BY SlotTypes DEF Once
<1>2. /\ thread[current] \in Thread /\ life[current] \in Life /\ Self \in 0 .. MaxTid
      /\ current \in Slots
  BY DEF TypeOK, SchedTypeOK, Self, Life
<1>3. thread' \in [Slots -> Thread] /\ (Returns \/ Blocks(OnceCall(o)))
  <2>1. Blocked(thread[current], "ONCE", o, NoObj, FALSE) \in Thread
    BY <1>2, RecordTypes DEF Waits
  <2>2. ClearWait(thread[current]) \in Thread
    BY <1>2, RecordTypes
  <2>3. \/ UNCHANGED thread /\ Returns
        \/ thread' = [thread EXCEPT ![current] = ClearWait(thread[current])] /\ Returns
        \/ /\ thread' = [thread EXCEPT ![current] =
                            Blocked(thread[current], "ONCE", o, NoObj, FALSE)]
           /\ Blocks(OnceCall(o))
    BY DEF Once
  <2>4. thread \in [Slots -> Thread]
    BY DEF TypeOK, SchedTypeOK
  <2> QED
    BY <1>2, <2>1, <2>2, <2>3, <2>4
<1>4. life' \in [Slots -> Life]
  <2>1. [life[current] EXCEPT !.frames = Append(@, o)] \in Life
    BY <1>2, LifeTypes
  <2>2. \/ UNCHANGED life
        \/ life' = [life EXCEPT ![current] = [life[current] EXCEPT !.frames = Append(@, o)]]
    BY DEF Once
  <2> QED
    BY <1>2, <2>1, <2>2 DEF TypeOK
<1>5. once' \in [Onces -> [used : BOOLEAN, state : {"new", "running", "done"}, owner : 0 .. MaxTid]]
  <2>1. \/ UNCHANGED once
        \/ once' = [once EXCEPT ![o] = [used |-> TRUE, state |-> "running", owner |-> Self]]
        \/ once' = [once EXCEPT ![o].used = TRUE]
    BY DEF Once
  <2>2. [used |-> TRUE, state |-> "running", owner |-> Self]
          \in [used : BOOLEAN, state : {"new", "running", "done"}, owner : 0 .. MaxTid]
    BY <1>2
  <2>3. CASE once' = [once EXCEPT ![o].used = TRUE]
    <3>1. [once[o] EXCEPT !.used = TRUE]
            \in [used : BOOLEAN, state : {"new", "running", "done"}, owner : 0 .. MaxTid]
      BY DEF TypeOK
    <3> QED
      BY <2>3, <3>1 DEF TypeOK
  <2> QED
    BY <2>1, <2>2, <2>3 DEF TypeOK
<1> QED
  BY <1>1, <1>3, <1>4, <1>5, CallEndTypes DEF TypeOK

(* The return of an initializer keeps the types.                              *)
LEMMA OnceReturnsType ==
    ASSUME TypeOK, OnceReturns
    PROVE  TypeOK'
<1> DEFINE frames == life[current].frames
           o == frames[Len(frames)]
<1>1. /\ UNCHANGED <<keys, nextTid>> /\ Returns /\ frames # <<>>
      /\ life' = [life EXCEPT ![current] = [life[current] EXCEPT !.frames = SubSeq(@, 1, Len(@) - 1)]]
      /\ IF once[o].owner = Self
         THEN /\ once' = [once EXCEPT ![o].state = "done", ![o].owner = 0]
              /\ thread' = Released(o)
         ELSE UNCHANGED <<once, thread>>
  BY DEF OnceReturns, InNoInitializer
<1>2. current \in Slots /\ life[current] \in Life
  BY DEF TypeOK, SchedTypeOK
<1>3. o \in Onces /\ life' \in [Slots -> Life]
  BY <1>1, <1>2, LifeTypes DEF TypeOK
<1> HIDE DEF o
<1>4. thread' \in [Slots -> Thread]
  BY <1>1, WokenTypes DEF Released, TypeOK, SchedTypeOK, Results
<1>5. once' \in [Onces -> [used : BOOLEAN, state : {"new", "running", "done"}, owner : 0 .. MaxTid]]
  <2>1. 0 \in 0 .. MaxTid
    OBVIOUS
  <2> QED
    BY <1>1, <1>3, <2>1 DEF TypeOK
<1> QED
  BY <1>1, <1>3, <1>4, <1>5, CallEndTypes DEF TypeOK

(* Cancelling a callback keeps the types.                                     *)
LEMMA CancelType ==
    ASSUME TypeOK, NEW i \in Slots, CancelCallback(i)
    PROVE  TypeOK'
BY RecordTypes DEF CancelCallback, TypeOK, SchedTypeOK, lifeVars

(* Every step keeps the types.                                                *)
LEMMA TypeStep == TypeOK /\ MainLives /\ [Next]_vars => TypeOK'
<1> SUFFICES ASSUME TypeOK, MainLives, [Next]_vars PROVE TypeOK'
  OBVIOUS
<1>1. CASE LoopStep
  <2>1. PICK posted \in SUBSET {i \in Workers : IsParked(thread[i])} :
           \/ Iterate(posted, {})
           \/ nextTid =< MaxTid /\ Iterate(posted, FreeSlot)
    BY <1>1 DEF LoopStep
  <2> QED
    BY <2>1, IterateType
<1>2. CASE LifeStep
  BY <1>2, CreateType, JoinType, DetachType, ExitStepType DEF LifeStep
<1>3. CASE OnceStep
  BY <1>3, OnceType, OnceReturnsType DEF OnceStep
<1>4. CASE \E i \in Slots : CancelCallback(i)
  BY <1>4, CancelType
<1>5. CASE UNCHANGED vars
  BY <1>5 DEF vars, schedVars, TypeOK, SchedTypeOK
<1> QED
  BY <1>1, <1>2, <1>3, <1>4, <1>5, HostStepType, KeyStepType DEF Next

-----------------------------------------------------------------------------
(* The steps by what they do to the slots.  Five kinds cover all actions.      *)

SameStanding(i) ==
    /\ thread'[i].state = "UNUSED" <=> thread[i].state = "UNUSED"
    /\ thread'[i].state = "ZOMBIE" <=> thread[i].state = "ZOMBIE"

(* Nobody falls asleep without somebody to wake him.                           *)
StaysAwake(i) ==
    thread'[i].state = "BLOCKED" => thread'[i] = thread[i] \/ thread'[i].wait = "CALLBACK"
SleepsWell(i) ==
    thread'[i].state = "BLOCKED" =>
        \/ thread'[i] = thread[i]
        \/ thread'[i].wait = "CALLBACK"
        \/ /\ thread'[i].wait = "JOIN" /\ thread'[i].obj \in Tids
           /\ \E j \in ByTid(thread'[i].obj) : thread[j].state # "ZOMBIE"
        \/ /\ thread'[i].wait = "ONCE" /\ thread'[i].obj \in Onces
           /\ once[thread'[i].obj].state = "running"

OnceKept == \A o \in Onces : once'[o].state = once[o].state /\ once'[o].owner = once[o].owner

(* Nobody begins or stops waiting in pthread_join, or only the running thread. *)
Joining(i) == thread[i].state = "BLOCKED" /\ thread[i].wait = "JOIN"
JoinersStay == \A i \in Slots : Joining(i) \/ Joining(i)' => thread'[i] = thread[i]
BeginsToWait ==
    /\ inQuantum /\ UNCHANGED current
    /\ \A i \in Slots : i # current => thread'[i] = thread[i]
    /\ Joining(current)'
    /\ \E j \in ByTid(thread'[current].obj) \ {current} :
         thread[j].state # "ZOMBIE" /\ ~life[j].detached

(* No thread is detached, or one.                                              *)
DetachedKept == \A i \in Slots : life'[i].detached = life[i].detached
Detaches(i) ==
    /\ Used(i) /\ thread[i].state # "ZOMBIE"
    /\ life[i].detached = FALSE /\ life'[i].detached = TRUE
    /\ \A j \in Slots : j # i => life'[j].detached = life[j].detached

(* Only scheduling changes.                                                    *)
Quiet ==
    /\ UNCHANGED <<life, keys, nextTid>>
    /\ OnceKept
    /\ \A i \in Slots : SameStanding(i) /\ SleepsWell(i)

(* A slot is taken, or given back by a thread that has ended.                  *)
Births(i) ==
    /\ thread[i].state = "UNUSED" /\ thread'[i].state = "RUNNABLE" /\ i # Main
    /\ life'[i].tid = nextTid /\ life'[i].frames = <<>> /\ life'[i].exiting = FALSE
    /\ life'[i].tls = [k \in Keys |-> FALSE]
    /\ nextTid' = nextTid + 1
    /\ UNCHANGED <<keys, once>>
    /\ \A j \in Slots : j # i => life'[j] = life[j] /\ SameStanding(j) /\ StaysAwake(j)
Reaps(i) ==
    /\ thread[i].state = "ZOMBIE" /\ thread'[i] = Vacant
    /\ life'[i] = Vacated
    /\ UNCHANGED <<keys, once, nextTid>>
    /\ \A j \in Slots : j # i => life'[j] = life[j] /\ SameStanding(j) /\ StaysAwake(j)

(* Only what a slot remembers changes.                                         *)
Notes ==
    /\ UNCHANGED <<thread, once, nextTid>>
    /\ \A i \in Slots :
        /\ life'[i].tid = life[i].tid /\ life'[i].frames = life[i].frames
        /\ life'[i].worker = life[i].worker
        /\ ~Used(i) => life'[i] = life[i]
        /\ thread[i].state = "ZOMBIE" => life'[i].detached = life[i].detached
        /\ \A k \in Keys : life'[i].tls[k] => keys'[k].used /\ Used(i)
        /\ life'[i].exiting => /\ life[i].exiting \/ i # Main
                               /\ \/ life'[i].ran /\ life'[i].pass < Passes
                                  \/ life[i].exiting /\ life'[i].ran = life[i].ran
                                     /\ life'[i].pass = life[i].pass

(* What the helpers do to the fields of a thread.                              *)
LEMMA ThreadFields ==
    ASSUME NEW t \in Thread
    PROVE  /\ ClearWait(t).state = t.state
           /\ Parked(t).state = "BLOCKED" /\ Parked(t).wait = "CALLBACK"
           /\ Unparked(t).state = "RUNNABLE"
           /\ \A kind, o, a, timed : /\ Blocked(t, kind, o, a, timed).state = "BLOCKED"
                                     /\ Blocked(t, kind, o, a, timed).wait = kind
                                     /\ Blocked(t, kind, o, a, timed).obj = o
           /\ [t EXCEPT !.state = "ZOMBIE"].state = "ZOMBIE"
BY DEF Thread, ClearWait, Parked, Unparked, Blocked

(* Frames are looked up slot by slot.                                          *)
LEMMA SameFrames ==
    ASSUME \A i \in Slots : life'[i].frames = life[i].frames
    PROVE  \A o : FramesOf(o)' = FramesOf(o)
BY DEF FramesOf

(* The rest of the invariant survives each kind of step.                       *)
Settled == WaitsHaveObjects /\ EndsAreSettled /\ FreshKeysAreNull /\ FramesAreBounded
           /\ OnceHasFrame /\ OnceWaiterHasRunner /\ ExitsAreInAPass

(* A scheduling step keeps the rest of the invariant.                          *)
LEMMA QuietStep ==
    ASSUME IInv, TypeOK', Quiet
    PROVE  SlotsMatch' /\ MainLives' /\ Settled'
<1>1. SlotsMatch'
  BY DEF IInv, Live, SlotsMatch, Quiet, SameStanding, Used
<1>2. MainLives'
  BY MainIsSlot DEF IInv, Live, MainLives, Quiet, SameStanding, Used
<1>3. WaitsHaveObjects'
  BY DEF IInv, WaitsHaveObjects, Quiet, SleepsWell
<1>4. JoinerNotStranded'
  BY DEF IInv, EndsAreSettled, JoinerNotStranded, Quiet, SleepsWell, SameStanding, ByTid, Used
<1>5. ZombiesAreJoinable'
  BY DEF IInv, EndsAreSettled, ZombiesAreJoinable, Quiet, SameStanding
<1>6. FreshKeysAreNull'
  BY DEF IInv, FreshKeysAreNull, Quiet, SameStanding, Used
<1>7. FramesAreBounded'
  BY DEF IInv, FramesAreBounded, Quiet, SameStanding
<1>8. OnceHasFrame'
  <2>1. \A o : FramesOf(o)' = FramesOf(o)
    BY SameFrames DEF Quiet
  <2> QED
    BY <2>1 DEF IInv, OnceHasFrame, Quiet, OnceKept
<1>9. OnceWaiterHasRunner'
  BY DEF IInv, OnceWaiterHasRunner, WaitsHaveObjects, Quiet, OnceKept, SleepsWell
<1>10. ExitsAreInAPass'
  <2>1. \A i \in Slots : thread'[i].state \in {"RUNNABLE", "BLOCKED"}
                            => thread[i].state \in {"RUNNABLE", "BLOCKED"}
    BY DEF IInv, Live, TypeOK, SchedTypeOK, Thread, States, Quiet, SameStanding
  <2> QED
    BY <2>1 DEF IInv, ExitsAreInAPass, Quiet
<1> QED
  BY <1>1, <1>2, <1>3, <1>4, <1>5, <1>6, <1>7, <1>8, <1>9, <1>10 DEF Settled, EndsAreSettled

(* A step that changes what slots remember keeps the rest of the invariant.   *)
LEMMA NotesStep ==
    ASSUME IInv, TypeOK', Notes
    PROVE  SlotsMatch' /\ MainLives' /\ Settled'
<1>1. SlotsMatch'
  BY DEF IInv, Live, SlotsMatch, Notes, Used
<1>2. MainLives'
  BY MainIsSlot DEF IInv, Live, MainLives, Notes, Used
<1>3. WaitsHaveObjects'
  BY DEF IInv, WaitsHaveObjects, Notes
<1>4. JoinerNotStranded'
  BY DEF IInv, EndsAreSettled, JoinerNotStranded, Notes, ByTid, Used
<1>5. ZombiesAreJoinable'
  BY DEF IInv, EndsAreSettled, ZombiesAreJoinable, Notes
<1>6. FreshKeysAreNull'
  BY DEF FreshKeysAreNull, Notes, Used
<1>7. FramesAreBounded'
  BY DEF IInv, FramesAreBounded, Notes
<1>8. OnceHasFrame'
  <2>1. \A o : FramesOf(o)' = FramesOf(o)
    BY SameFrames DEF Notes
  <2>2. \A f \in Slots \X (1 .. Nesting) : life'[f[1]].tid = life[f[1]].tid
    BY DEF Notes
  <2> QED
    BY <2>1, <2>2 DEF IInv, OnceHasFrame, Notes, FramesOf
<1>9. OnceWaiterHasRunner'
  BY DEF IInv, OnceWaiterHasRunner, Notes
<1>10. ExitsAreInAPass'
  BY DEF IInv, ExitsAreInAPass, Notes
<1> QED
  BY <1>1, <1>2, <1>3, <1>4, <1>5, <1>6, <1>7, <1>8, <1>9, <1>10 DEF Settled, EndsAreSettled

(* A new thread starts without frames, values or an exit in progress.         *)
LEMMA BirthStep ==
    ASSUME IInv, TypeOK', NEW i \in Slots, Births(i)
    PROVE  SlotsMatch' /\ MainLives' /\ Settled'
<1> USE DEF Births
<1>0. /\ life[i] = Vacated /\ nextTid \in Nat
      /\ Vacated.tid = 0 /\ Vacated.frames = <<>> /\ Vacated.exiting = FALSE
  BY SlotFields DEF IInv, Live, SlotsMatch, Used, TypeOK
<1>1. SlotsMatch'
  <2>1. \A j \in Slots : Used(j) => life[j].tid \in 1 .. nextTid - 1
    BY DEF IInv, Live, SlotsMatch
  <2>2. \A j \in Slots : j # i => (Used(j)' <=> Used(j)) /\ life'[j] = life[j]
    BY DEF SameStanding, Used
  <2>3. Used(i)' /\ life'[i].tid = nextTid /\ nextTid >= 1
    BY DEF Used, IInv, Live, TypeOK
  <2>4. ASSUME NEW j \in Slots
        PROVE  (IF Used(j) THEN life[j].tid \in 1 .. nextTid - 1 ELSE life[j] = Vacated)'
    <3>1. CASE j = i
      BY <1>0, <2>3, <3>1
    <3>2. CASE j # i /\ Used(j)
      BY <1>0, <2>1, <2>2, <3>2
    <3>3. CASE j # i /\ ~Used(j)
      <4>1. life[j] = Vacated
        BY <3>3 DEF IInv, Live, SlotsMatch
      <4> QED
        BY <2>2, <3>3, <4>1 DEF Vacated, Born
    <3> QED
      BY <3>1, <3>2, <3>3
  <2>5. ASSUME NEW j \in Slots, NEW k \in Slots, Used(j)', Used(k)', (life[j].tid = life[k].tid)'
        PROVE  j = k
    <3>1. ASSUME NEW x \in Slots, x # i, Used(x)'
          PROVE  life'[x].tid # nextTid
      BY <1>0, <2>1, <2>2, <3>1
    <3>2. CASE j = i \/ k = i
      BY <2>3, <2>5, <3>1, <3>2
    <3>3. CASE j # i /\ k # i
      BY <2>2, <2>5, <3>3 DEF IInv, Live, SlotsMatch
    <3> QED
      BY <3>2, <3>3
  <2> QED
    BY <2>4, <2>5 DEF SlotsMatch
<1>2. MainLives'
  BY MainIsSlot DEF IInv, Live, MainLives, SameStanding, Used
<1>3. WaitsHaveObjects'
  BY DEF IInv, WaitsHaveObjects, StaysAwake
<1>4. JoinerNotStranded'
  <2>1. \A j \in Slots : Used(j) /\ thread[j].state # "ZOMBIE"
            => Used(j)' /\ thread'[j].state # "ZOMBIE" /\ life'[j] = life[j]
    BY DEF SameStanding, Used
  <2>2. \A j \in Slots : thread'[j].state = "BLOCKED" /\ thread'[j].wait = "JOIN"
            => thread[j] = thread'[j]
    BY DEF StaysAwake
  <2> QED
    BY <2>1, <2>2 DEF IInv, EndsAreSettled, JoinerNotStranded, ByTid
<1>5. ZombiesAreJoinable'
  BY DEF IInv, EndsAreSettled, ZombiesAreJoinable, SameStanding
<1>6. FreshKeysAreNull'
  <2>1. ASSUME NEW j \in Slots, NEW k \in Keys, life'[j].tls[k]
        PROVE  keys[k].used /\ Used(j)'
    <3>1. j # i
      BY <2>1
    <3> QED
      BY <2>1, <3>1 DEF IInv, FreshKeysAreNull, SameStanding, Used
  <2> QED
    BY <2>1 DEF FreshKeysAreNull
<1>7. \A j \in Slots : life'[j].frames = life[j].frames
  BY <1>0
<1>8. FramesAreBounded'
  BY <1>7 DEF IInv, FramesAreBounded, SameStanding
<1>9. OnceHasFrame'
  <2>1. \A o : FramesOf(o)' = FramesOf(o)
    BY <1>7, SameFrames
  <2>2. ASSUME NEW o \in Onces, NEW f \in FramesOf(o)
        PROVE  f[1] # i /\ f[1] \in Slots
    <3>1. life[i].frames = <<>> /\ Len(<<>>) = 0
      BY <1>0
    <3>2. f \in Slots \X (1 .. Nesting) /\ f[2] =< Len(life[f[1]].frames)
      BY DEF FramesOf
    <3>3. f[2] >= 1
      BY <3>2
    <3> QED
      BY <3>1, <3>2, <3>3
  <2>3. \A o \in Onces : \A f \in FramesOf(o) : life'[f[1]].tid = life[f[1]].tid
    BY <2>2
  <2> QED
    BY <2>1, <2>3 DEF IInv, OnceHasFrame
<1>10. OnceWaiterHasRunner'
  BY DEF IInv, OnceWaiterHasRunner, StaysAwake
<1>11. ExitsAreInAPass'
  <2>1. \A j \in Slots : j # i /\ thread'[j].state \in {"RUNNABLE", "BLOCKED"}
                            => thread[j].state \in {"RUNNABLE", "BLOCKED"}
    BY DEF IInv, Live, TypeOK, SchedTypeOK, Thread, States, SameStanding
  <2> QED
    BY <2>1 DEF IInv, ExitsAreInAPass
<1> QED
  BY <1>1, <1>2, <1>3, <1>4, <1>5, <1>6, <1>8, <1>9, <1>10, <1>11 DEF Settled, EndsAreSettled

(* A slot is reaped after its thread ended: nobody waits for that thread.     *)
LEMMA ReapStep ==
    ASSUME IInv, TypeOK', NEW i \in Slots, Reaps(i)
    PROVE  SlotsMatch' /\ MainLives' /\ Settled'
<1> USE DEF Reaps
<1>0. /\ thread'[i].state = "UNUSED"
      /\ life'[i].frames = <<>> /\ life[i].frames = <<>>
      /\ i # Main
  BY SlotFields DEF IInv, FramesAreBounded, EndsAreSettled, ZombiesAreJoinable
<1>1. SlotsMatch'
  <2>1. ~Used(i)' /\ \A j \in Slots : j # i => (Used(j)' <=> Used(j)) /\ life'[j] = life[j]
    BY <1>0 DEF SameStanding, Used
  <2>2. Vacated' = Vacated
    BY DEF Vacated, Born
  <2> QED
    BY <2>1, <2>2 DEF IInv, Live, SlotsMatch
<1>2. MainLives'
  BY <1>0, MainIsSlot DEF IInv, Live, MainLives, SameStanding, Used
<1>3. WaitsHaveObjects'
  BY <1>0 DEF IInv, WaitsHaveObjects, StaysAwake
<1>4. JoinerNotStranded'
  <2>1. \A j \in Slots : Used(j) /\ thread[j].state # "ZOMBIE"
            => Used(j)' /\ thread'[j].state # "ZOMBIE" /\ life'[j] = life[j]
    BY DEF SameStanding, Used
  <2>2. \A j \in Slots : thread'[j].state = "BLOCKED" /\ thread'[j].wait = "JOIN"
            => thread[j] = thread'[j]
    BY <1>0 DEF StaysAwake
  <2> QED
    BY <2>1, <2>2 DEF IInv, EndsAreSettled, JoinerNotStranded, ByTid
<1>5. ZombiesAreJoinable'
  BY <1>0 DEF IInv, EndsAreSettled, ZombiesAreJoinable, SameStanding
<1>6. FreshKeysAreNull'
  <2>1. Vacated.tls = [k \in Keys |-> FALSE]
    BY SlotFields
  <2>2. ASSUME NEW j \in Slots, NEW k \in Keys, life'[j].tls[k]
        PROVE  keys[k].used /\ Used(j)'
    <3>1. j # i
      BY <2>1, <2>2
    <3> QED
      BY <2>2, <3>1 DEF IInv, FreshKeysAreNull, SameStanding, Used
  <2> QED
    BY <2>2 DEF FreshKeysAreNull
<1>7. \A j \in Slots : life'[j].frames = life[j].frames
  BY <1>0
<1>8. FramesAreBounded'
  BY <1>7 DEF IInv, FramesAreBounded, SameStanding
<1>9. OnceHasFrame'
  <2>1. \A o : FramesOf(o)' = FramesOf(o)
    BY <1>7, SameFrames
  <2>2. ASSUME NEW o \in Onces, NEW f \in FramesOf(o)
        PROVE  f[1] # i /\ f[1] \in Slots
    <3>1. life[i].frames = <<>> /\ Len(<<>>) = 0
      BY <1>0
    <3>2. f \in Slots \X (1 .. Nesting) /\ f[2] =< Len(life[f[1]].frames)
      BY DEF FramesOf
    <3>3. f[2] >= 1
      BY <3>2
    <3> QED
      BY <3>1, <3>2, <3>3
  <2>3. \A o \in Onces : \A f \in FramesOf(o) : life'[f[1]].tid = life[f[1]].tid
    BY <2>2
  <2> QED
    BY <2>1, <2>3 DEF IInv, OnceHasFrame
<1>10. OnceWaiterHasRunner'
  BY <1>0 DEF IInv, OnceWaiterHasRunner, StaysAwake
<1>11. ExitsAreInAPass'
  <2>1. \A j \in Slots : thread'[j].state \in {"RUNNABLE", "BLOCKED"}
                            => j # i /\ thread[j].state \in {"RUNNABLE", "BLOCKED"}
    BY <1>0 DEF IInv, Live, TypeOK, SchedTypeOK, Thread, States, SameStanding
  <2> QED
    BY <2>1 DEF IInv, ExitsAreInAPass
<1> QED
  BY <1>1, <1>2, <1>3, <1>4, <1>5, <1>6, <1>8, <1>9, <1>10, <1>11 DEF Settled, EndsAreSettled

(* The running thread ends: whoever joins it is released.                      *)
Destroyed ==
    \/ life[current].exiting /\ life[current].pass = Passes - 1
    \/ \A k \in Keys : keys[k].used /\ keys[k].destructor => ~life[current].tls[k]
Ends ==
    /\ current \in Slots \ {Main} /\ thread[current].state = "RUNNABLE"
    /\ Destroyed
    /\ life[current].frames = <<>>
    /\ UNCHANGED <<keys, once, nextTid>>
    /\ \A j \in Slots : j # current =>
          /\ life'[j] = life[j] /\ SameStanding(j) /\ StaysAwake(j)
          /\ thread'[j].state = "BLOCKED" => j \notin JoinersOf(life[current].tid)
          /\ Joining(j) /\ j \notin JoinersOf(life[current].tid) => thread'[j] = thread[j]
    /\ life'[current].frames = <<>>
    /\ IF life[current].detached
       THEN thread'[current].state = "UNUSED" /\ life'[current] = Vacated
       ELSE /\ thread'[current].state = "ZOMBIE"
            /\ life'[current].tid = life[current].tid /\ life'[current].detached = FALSE
            /\ life'[current].tls = life[current].tls

(* An initializer is entered for a control nobody runs, and left.              *)
Enters(o) ==
    /\ once[o].owner = 0
    /\ Len(life[current].frames) < Nesting
    /\ life' = [life EXCEPT ![current].frames = Append(@, o)]
    /\ once'[o].state = "running" /\ once'[o].owner = life[current].tid
    /\ \A p \in Onces : p # o => once'[p] = once[p]
    /\ UNCHANGED <<keys, nextTid>>
    /\ \A i \in Slots : SameStanding(i) /\ StaysAwake(i)
Leaves(o) ==
    /\ life[current].frames # <<>>
    /\ o = life[current].frames[Len(life[current].frames)]
    /\ life' = [life EXCEPT ![current].frames = SubSeq(@, 1, Len(@) - 1)]
    /\ \A p \in Onces : p # o => once'[p] = once[p]
    /\ IF once[o].owner = life[current].tid
       THEN /\ once'[o].state = "done" /\ once'[o].owner = 0
            /\ \A i \in Slots : /\ SameStanding(i) /\ StaysAwake(i)
                                /\ thread'[i].state = "BLOCKED" => i \notin OnceWaiters(o)
       ELSE UNCHANGED <<once, thread>>
    /\ UNCHANGED <<keys, nextTid>>

(* The end of a thread strands no joiner and leaves no frame behind.          *)
LEMMA EndStep ==
    ASSUME IInv, TypeOK', Ends
    PROVE  SlotsMatch' /\ MainLives' /\ Settled'
<1> USE DEF Ends
<1>0. /\ Used(current)
      /\ \A j \in Slots : j # current => (Used(j)' <=> Used(j)) /\ life'[j] = life[j]
      /\ Vacated' = Vacated
  BY DEF SameStanding, Used, Vacated, Born
<1>1. SlotsMatch'
  <2>1. \A j \in Slots : j # current =>
            (IF Used(j) THEN life[j].tid \in 1 .. nextTid - 1 ELSE life[j] = Vacated)'
    BY <1>0 DEF IInv, Live, SlotsMatch
  <2>2. \/ thread'[current].state = "UNUSED" /\ life'[current] = Vacated
        \/ thread'[current].state # "UNUSED" /\ life'[current].tid = life[current].tid
    OBVIOUS
  <2>3. life[current].tid \in 1 .. nextTid - 1
    BY <1>0 DEF IInv, Live, SlotsMatch
  <2>4. IF thread'[current].state # "UNUSED" THEN life'[current].tid \in 1 .. nextTid' - 1
        ELSE life'[current] = Vacated'
    BY <1>0, <2>2, <2>3
  <2>5. \A j \in Slots : thread'[j].state # "UNUSED" => Used(j) /\ life'[j].tid = life[j].tid
    BY <1>0, <2>2 DEF Used
  <2> QED
    BY <2>1, <2>4, <2>5 DEF IInv, Live, SlotsMatch, Used
<1>2. MainLives'
  BY <1>0, MainIsSlot DEF IInv, Live, MainLives
<1>3. WaitsHaveObjects'
  BY DEF IInv, WaitsHaveObjects, StaysAwake
<1>4. JoinerNotStranded'
  <2>1. ASSUME NEW i \in Slots, thread'[i].state = "BLOCKED", thread'[i].wait = "JOIN"
        PROVE  \E j \in ByTid(thread[i].obj)' : thread'[j].state # "ZOMBIE"
    <3>1. i # current
      BY <2>1
    <3>2. thread'[i] = thread[i] /\ i \notin JoinersOf(life[current].tid)
      BY <2>1, <3>1 DEF StaysAwake
    <3>3. PICK j \in ByTid(thread[i].obj) : thread[j].state # "ZOMBIE"
      BY <2>1, <3>2 DEF IInv, EndsAreSettled, JoinerNotStranded
    <3>4. thread[i].obj # life[current].tid
      BY <2>1, <3>2 DEF JoinersOf
    <3>5. j \in Slots /\ j # current /\ Used(j) /\ life[j].tid = thread[i].obj
      BY <3>3, <3>4 DEF ByTid
    <3>6. j \in ByTid(thread[i].obj)' /\ thread'[j].state # "ZOMBIE"
      BY <1>0, <3>2, <3>3, <3>5 DEF ByTid, SameStanding
    <3> QED
      BY <3>6
  <2> QED
    BY <2>1 DEF JoinerNotStranded
<1>5. ZombiesAreJoinable'
  BY DEF IInv, EndsAreSettled, ZombiesAreJoinable, SameStanding
<1>6. FreshKeysAreNull'
  <2>1. Vacated.tls = [k \in Keys |-> FALSE]
    BY SlotFields
  <2>2. ASSUME NEW j \in Slots, NEW k \in Keys, life'[j].tls[k]
        PROVE  keys[k].used /\ Used(j)'
    <3>1. CASE j # current
      BY <1>0, <2>2, <3>1 DEF IInv, FreshKeysAreNull
    <3>2. CASE j = current
      <4>1. ~life[current].detached
        BY <2>1, <2>2, <3>2
      <4> QED
        BY <2>2, <3>2, <4>1 DEF IInv, FreshKeysAreNull, Used
    <3> QED
      BY <3>1, <3>2
  <2> QED
    BY <2>2 DEF FreshKeysAreNull
<1>7. \A j \in Slots : life'[j].frames = life[j].frames
  OBVIOUS
<1>8. FramesAreBounded'
  BY <1>7 DEF IInv, FramesAreBounded, SameStanding
<1>9. OnceHasFrame'
  <2>1. \A o : FramesOf(o)' = FramesOf(o)
    BY <1>7, SameFrames
  <2>2. ASSUME NEW o \in Onces, NEW f \in FramesOf(o)
        PROVE  f[1] # current /\ f[1] \in Slots
    <3>1. life[current].frames = <<>> /\ Len(<<>>) = 0
      OBVIOUS
    <3>2. f \in Slots \X (1 .. Nesting) /\ f[2] =< Len(life[f[1]].frames)
      BY DEF FramesOf
    <3>3. f[2] >= 1
      BY <3>2
    <3> QED
      BY <3>1, <3>2, <3>3
  <2>3. \A o \in Onces : \A f \in FramesOf(o) : life'[f[1]].tid = life[f[1]].tid
    BY <2>2
  <2> QED
    BY <2>1, <2>3 DEF IInv, OnceHasFrame
<1>10. OnceWaiterHasRunner'
  BY DEF IInv, OnceWaiterHasRunner, StaysAwake
<1>11. ExitsAreInAPass'
  <2>1. \A j \in Slots : thread'[j].state \in {"RUNNABLE", "BLOCKED"}
                            => j # current /\ thread[j].state \in {"RUNNABLE", "BLOCKED"}
    BY DEF IInv, Live, TypeOK, SchedTypeOK, Thread, States, SameStanding
  <2> QED
    BY <2>1 DEF IInv, ExitsAreInAPass
<1> QED
  BY <1>1, <1>2, <1>3, <1>4, <1>5, <1>6, <1>8, <1>9, <1>10, <1>11 DEF Settled, EndsAreSettled

(* A thread inside an initializer has its frame on top of its stack.           *)
LEMMA TopFrame ==
    ASSUME IInv, current \in Slots, life[current].frames # <<>>
    PROVE  LET n == Len(life[current].frames)
               o == life[current].frames[n]
           IN  /\ n \in 1 .. Nesting /\ o \in Onces
               /\ FramesOf(o) = {<<current, n>>}
               /\ once[o].state = "running" /\ once[o].owner = life[current].tid
<1> DEFINE n == Len(life[current].frames)
           o == life[current].frames[n]
<1>1. life[current] \in Life /\ o \in Onces
  BY LifeTypes DEF IInv, Live, TypeOK
<1>2. n \in 1 .. Nesting
  <2>1. life[current].frames \in Seq(Onces) /\ n =< Nesting
    BY <1>1 DEF Life, IInv, FramesAreBounded
  <2> QED
    BY <2>1, EmptySeq, LenProperties
<1>3. <<current, n>> \in FramesOf(o)
  <2>1. <<current, n>> \in Slots \X (1 .. Nesting) /\ <<current, n>>[1] = current /\ <<current, n>>[2] = n
    BY <1>2
  <2> QED
    BY <1>2, <2>1 DEF FramesOf
<1> HIDE DEF n, o
<1>4. once[o].state = "running"
  BY <1>1, <1>3 DEF IInv, OnceHasFrame
<1>5. PICK f \in FramesOf(o) : FramesOf(o) = {f} /\ life[f[1]].tid = once[o].owner
  BY <1>1, <1>4 DEF IInv, OnceHasFrame
<1>6. f = <<current, n>>
  BY <1>3, <1>5
<1> QED
  BY <1>1, <1>2, <1>4, <1>5, <1>6 DEF n, o

(* What either does to the slots: everything but one stack stays.              *)
LEMMA StackStep ==
    ASSUME IInv, TypeOK', NEW s, current \in Slots, thread[current].state = "RUNNABLE",
           life' = [life EXCEPT ![current].frames = s], UNCHANGED <<keys, nextTid>>,
           \A i \in Slots : SameStanding(i) /\ StaysAwake(i)
    PROVE  /\ SlotsMatch' /\ MainLives' /\ WaitsHaveObjects' /\ EndsAreSettled'
           /\ FreshKeysAreNull' /\ ExitsAreInAPass'
           /\ \A i \in Slots : i # current => life'[i] = life[i]
           /\ life'[current].frames = s
           /\ \A i \in Slots : life'[i].tid = life[i].tid /\ life'[i].detached = life[i].detached
<1>1. \A i \in Slots : i # current => life'[i] = life[i]
  BY DEF IInv, Live, TypeOK
<1>2. life'[current] = [life[current] EXCEPT !.frames = s] /\ life[current] \in Life
  BY DEF IInv, Live, TypeOK
<1>3. /\ life'[current].tid = life[current].tid /\ life'[current].worker = life[current].worker
      /\ life'[current].exiting = life[current].exiting /\ life'[current].tls = life[current].tls
      /\ life'[current].detached = life[current].detached /\ life'[current].pass = life[current].pass
      /\ life'[current].ran = life[current].ran /\ life'[current].frames = s
  BY <1>2 DEF Life
<1>4. \A i \in Slots :
        /\ life'[i].tid = life[i].tid /\ life'[i].worker = life[i].worker
        /\ life'[i].exiting = life[i].exiting /\ life'[i].tls = life[i].tls
        /\ life'[i].detached = life[i].detached /\ life'[i].pass = life[i].pass
        /\ life'[i].ran = life[i].ran
        /\ ~Used(i) => life'[i] = life[i]
  BY <1>1, <1>3 DEF Used
<1>5. \A i \in Slots : (Used(i)' <=> Used(i)) /\ (thread'[i].state = "ZOMBIE" <=> thread[i].state = "ZOMBIE")
  BY DEF Used, SameStanding
<1>6. SlotsMatch'
  <2>1. Vacated' = Vacated
    BY DEF Vacated, Born
  <2> QED
    BY <1>4, <1>5, <2>1 DEF IInv, Live, SlotsMatch
<1>7. MainLives'
  BY <1>4, <1>5, MainIsSlot DEF IInv, Live, MainLives
<1>8. WaitsHaveObjects'
  BY DEF IInv, WaitsHaveObjects, StaysAwake
<1>9. JoinerNotStranded'
  BY <1>4, <1>5 DEF IInv, EndsAreSettled, JoinerNotStranded, ByTid, StaysAwake
<1>10. ZombiesAreJoinable'
  BY <1>4, <1>5 DEF IInv, EndsAreSettled, ZombiesAreJoinable
<1>11. FreshKeysAreNull'
  BY <1>4, <1>5 DEF IInv, FreshKeysAreNull
<1>12. ExitsAreInAPass'
  <2>1. \A i \in Slots : thread'[i].state \in {"RUNNABLE", "BLOCKED"}
                            => thread[i].state \in {"RUNNABLE", "BLOCKED"}
    BY DEF IInv, Live, TypeOK, SchedTypeOK, Thread, States, SameStanding
  <2> QED
    BY <1>4, <2>1 DEF IInv, ExitsAreInAPass
<1> QED
  BY <1>1, <1>3, <1>4, <1>6, <1>7, <1>8, <1>9, <1>10, <1>11, <1>12 DEF EndsAreSettled

(* Entering an initializer pushes the only frame of its control.              *)
LEMMA EnterStep ==
    ASSUME IInv, TypeOK', current \in Slots, thread[current].state = "RUNNABLE",
           NEW o \in Onces, Enters(o)
    PROVE  SlotsMatch' /\ MainLives' /\ Settled'
<1> DEFINE n == Len(life[current].frames)
           s == Append(life[current].frames, o)
<1>1. life' = [life EXCEPT ![current].frames = s] /\ life[current].frames \in Seq(Onces)
  BY DEF Enters, IInv, Live, TypeOK, Life
<1>2. n \in Nat /\ n < Nesting /\ Len(s) = n + 1 /\ s[n + 1] = o
      /\ \A k \in 1 .. n : s[k] = life[current].frames[k]
  BY <1>1, AppendProperties, LenProperties DEF Enters
<1> HIDE DEF n, s
<1>3. /\ SlotsMatch' /\ MainLives' /\ WaitsHaveObjects' /\ EndsAreSettled'
      /\ FreshKeysAreNull' /\ ExitsAreInAPass'
      /\ \A i \in Slots : i # current => life'[i] = life[i]
      /\ life'[current].frames = s
      /\ \A i \in Slots : life'[i].tid = life[i].tid
  BY <1>1, StackStep DEF Enters
<1>4. FramesAreBounded'
  <2>1. Len(s) =< Nesting
    BY <1>2
  <2>2. thread'[current].state \notin {"UNUSED", "ZOMBIE"}
    BY DEF Enters, SameStanding
  <2> QED
    BY <1>3, <2>1, <2>2 DEF IInv, FramesAreBounded, Enters, SameStanding
<1>5. FramesOf(o) = {}
  <2>1. ASSUME once[o].state = "running" PROVE FALSE
    <3>1. PICK f \in FramesOf(o) : life[f[1]].tid = once[o].owner
      BY <2>1 DEF IInv, OnceHasFrame
    <3>2. f[1] \in Slots /\ Len(life[f[1]].frames) # 0
      <4>1. f \in Slots \X (1 .. Nesting) /\ f[2] =< Len(life[f[1]].frames)
        BY DEF FramesOf
      <4> QED
        BY <4>1
    <3>3. Used(f[1])
      <4>1. Len(<<>>) = 0
        OBVIOUS
      <4> QED
        BY <3>2, <4>1 DEF IInv, FramesAreBounded, Used
    <3>4. life[f[1]].tid \in 1 .. nextTid - 1
      BY <3>2, <3>3 DEF IInv, Live, SlotsMatch
    <3> QED
      BY <3>1, <3>4 DEF Enters
  <2> QED
    BY <2>1 DEF IInv, OnceHasFrame
<1>6. ASSUME NEW f \in Slots \X (1 .. Nesting), NEW p \in Onces
      PROVE  f \in FramesOf(p)' <=> f \in FramesOf(p) \/ (p = o /\ f = <<current, n + 1>>)
  <2> DEFINE i == f[1]
             k == f[2]
  <2>1. i \in Slots /\ k \in 1 .. Nesting /\ f = <<i, k>>
    OBVIOUS
  <2> HIDE DEF i, k
  <2>2. /\ f \in FramesOf(p)' <=> k =< Len(life'[i].frames) /\ life'[i].frames[k] = p
        /\ f \in FramesOf(p) <=> k =< Len(life[i].frames) /\ life[i].frames[k] = p
    BY DEF FramesOf, i, k
  <2>3. CASE i # current
    BY <1>3, <2>1, <2>2, <2>3
  <2>4. CASE i = current
    <3>1. k =< n + 1 <=> k =< n \/ k = n + 1
      BY <1>2, <2>1
    <3>2. k =< n => s[k] = life[current].frames[k]
      BY <1>2, <2>1
    <3>3. ~ (n + 1 =< n)
      BY <1>2
    <3>4. f \in FramesOf(p)' <=> k =< n + 1 /\ s[k] = p
      BY <1>2, <1>3, <2>2, <2>4
    <3>5. f \in FramesOf(p) <=> k =< n /\ life[current].frames[k] = p
      BY <2>2, <2>4 DEF n
    <3>6. f = <<current, n + 1>> <=> k = n + 1
      BY <2>1, <2>4
    <3> QED
      BY <1>2, <3>1, <3>2, <3>3, <3>4, <3>5, <3>6
  <2> QED
    BY <2>3, <2>4
<1>7. \A p \in Onces : FramesOf(p)' = IF p = o THEN {<<current, n + 1>>} ELSE FramesOf(p)
  <2>1. <<current, n + 1>> \in Slots \X (1 .. Nesting)
    BY <1>2
  <2>2. \A p : FramesOf(p) \subseteq Slots \X (1 .. Nesting)
    BY DEF FramesOf
  <2>3. \A p : FramesOf(p)' \subseteq Slots \X (1 .. Nesting)
    BY DEF FramesOf
  <2> QED
    BY <1>5, <1>6, <2>1, <2>2, <2>3
<1>8. OnceHasFrame'
  <2>1. \A p \in Onces : \A f \in FramesOf(p) : life'[f[1]].tid = life[f[1]].tid
    BY <1>3 DEF FramesOf
  <2>2. life'[current].tid = life[current].tid
    BY <1>3
  <2>3. ASSUME NEW p \in Onces
        PROVE  (IF once[p].state = "running"
                THEN \E f \in FramesOf(p) : FramesOf(p) = {f} /\ life[f[1]].tid = once[p].owner
                ELSE FramesOf(p) = {} /\ once[p].owner = 0)'
    <3>1. CASE p = o
      <4>1. once'[p].state = "running" /\ once'[p].owner = life[current].tid
        BY <3>1 DEF Enters
      <4>2. FramesOf(p)' = {<<current, n + 1>>} /\ <<current, n + 1>>[1] = current
        BY <1>7, <3>1
      <4> QED
        BY <2>2, <4>1, <4>2
    <3>2. CASE p # o
      BY <1>7, <2>1, <3>2 DEF Enters, IInv, OnceHasFrame
    <3> QED
      BY <3>1, <3>2
  <2> QED
    BY <2>3 DEF OnceHasFrame
<1>9. OnceWaiterHasRunner'
  <2>1. \A p \in Onces : once[p].state = "running" => once'[p].state = "running"
    BY DEF Enters
  <2> QED
    BY <2>1 DEF Enters, IInv, OnceWaiterHasRunner, WaitsHaveObjects, StaysAwake
<1> QED
  BY <1>3, <1>4, <1>8, <1>9 DEF Settled

(* Leaving an initializer pops that frame and releases the waiters.           *)
LEMMA LeaveStep ==
    ASSUME IInv, TypeOK', current \in Slots, thread[current].state = "RUNNABLE",
           NEW o, Leaves(o)
    PROVE  SlotsMatch' /\ MainLives' /\ Settled'
<1> DEFINE n == Len(life[current].frames)
           s == SubSeq(life[current].frames, 1, n - 1)
<1>1. /\ n \in 1 .. Nesting /\ o \in Onces
      /\ FramesOf(o) = {<<current, n>>}
      /\ once[o].state = "running" /\ once[o].owner = life[current].tid
  BY TopFrame DEF Leaves
<1>2. life' = [life EXCEPT ![current].frames = s] /\ life[current].frames \in Seq(Onces)
  BY DEF Leaves, IInv, Live, TypeOK, Life
<1>3. /\ Len(s) = n - 1
      /\ \A k \in 1 .. n - 1 : s[k] = life[current].frames[k]
  <2>1. 1 \in 1 .. n + 1 /\ n - 1 \in 1 - 1 .. n /\ Len(life[current].frames) = n
    BY <1>1
  <2> QED
    BY <1>1, <1>2, SubSeqProperties
<1>4. /\ once'[o].state = "done" /\ once'[o].owner = 0
      /\ \A i \in Slots : /\ SameStanding(i) /\ StaysAwake(i)
                          /\ thread'[i].state = "BLOCKED" => i \notin OnceWaiters(o)
      /\ \A p \in Onces : p # o => once'[p] = once[p]
      /\ UNCHANGED <<keys, nextTid>>
  BY <1>1 DEF Leaves
<1> HIDE DEF n, s
<1>5. /\ SlotsMatch' /\ MainLives' /\ WaitsHaveObjects' /\ EndsAreSettled'
      /\ FreshKeysAreNull' /\ ExitsAreInAPass'
      /\ \A i \in Slots : i # current => life'[i] = life[i]
      /\ life'[current].frames = s
      /\ \A i \in Slots : life'[i].tid = life[i].tid
  BY <1>2, <1>4, StackStep
<1>6. FramesAreBounded'
  <2>1. Len(s) =< Nesting
    BY <1>1, <1>3
  <2>2. thread'[current].state \notin {"UNUSED", "ZOMBIE"}
    BY <1>4 DEF SameStanding
  <2> QED
    BY <1>4, <1>5, <2>1, <2>2 DEF IInv, FramesAreBounded, SameStanding
<1>7. ASSUME NEW f \in Slots \X (1 .. Nesting), NEW p \in Onces
      PROVE  f \in FramesOf(p)' <=> f \in FramesOf(p) /\ f # <<current, n>>
  <2> DEFINE i == f[1]
             k == f[2]
  <2>1. i \in Slots /\ k \in 1 .. Nesting /\ f = <<i, k>>
    OBVIOUS
  <2> HIDE DEF i, k
  <2>2. /\ f \in FramesOf(p)' <=> k =< Len(life'[i].frames) /\ life'[i].frames[k] = p
        /\ f \in FramesOf(p) <=> k =< Len(life[i].frames) /\ life[i].frames[k] = p
    BY DEF FramesOf, i, k
  <2>3. CASE i # current
    BY <1>5, <2>1, <2>2, <2>3
  <2>4. CASE i = current
    <3>1. k =< n - 1 <=> k =< n /\ k # n
      BY <1>1, <2>1
    <3>2. k =< n - 1 => s[k] = life[current].frames[k]
      BY <1>1, <1>3, <2>1
    <3>3. f \in FramesOf(p)' <=> k =< n - 1 /\ s[k] = p
      BY <1>3, <1>5, <2>2, <2>4
    <3>4. f \in FramesOf(p) <=> k =< n /\ life[current].frames[k] = p
      BY <2>2, <2>4 DEF n
    <3>5. f = <<current, n>> <=> k = n
      BY <2>1, <2>4
    <3> QED
      BY <3>1, <3>2, <3>3, <3>4, <3>5
  <2> QED
    BY <2>3, <2>4
<1>8. \A p \in Onces : FramesOf(p)' = IF p = o THEN {} ELSE FramesOf(p)
  <2>1. \A p : FramesOf(p) \subseteq Slots \X (1 .. Nesting)
    BY DEF FramesOf
  <2>2. \A p : FramesOf(p)' \subseteq Slots \X (1 .. Nesting)
    BY DEF FramesOf
  <2>3. \A p \in Onces : p # o => <<current, n>> \notin FramesOf(p)
    <3>1. life[current].frames[n] = o
      BY DEF Leaves, n
    <3> QED
      BY <3>1 DEF FramesOf
  <2>4. ASSUME NEW p \in Onces
        PROVE  FramesOf(p)' = IF p = o THEN {} ELSE FramesOf(p)
    <3>1. CASE p = o
      <4>1. \A f \in Slots \X (1 .. Nesting) : f \notin FramesOf(p)'
        BY <1>1, <1>7, <3>1
      <4> QED
        BY <2>2, <3>1, <4>1
    <3>2. CASE p # o
      <4>1. \A f \in Slots \X (1 .. Nesting) : f \in FramesOf(p)' <=> f \in FramesOf(p)
        BY <1>7, <2>3, <3>2
      <4>2. FramesOf(p)' \subseteq FramesOf(p) /\ FramesOf(p) \subseteq FramesOf(p)'
        BY <2>1, <2>2, <4>1
      <4> QED
        BY <3>2, <4>2
    <3> QED
      BY <3>1, <3>2
  <2> QED
    BY <2>4
<1>9. OnceHasFrame'
  <2>1. \A p \in Onces : \A f \in FramesOf(p) : life'[f[1]].tid = life[f[1]].tid
    BY <1>5 DEF FramesOf
  <2>2. ASSUME NEW p \in Onces
        PROVE  (IF once[p].state = "running"
                THEN \E f \in FramesOf(p) : FramesOf(p) = {f} /\ life[f[1]].tid = once[p].owner
                ELSE FramesOf(p) = {} /\ once[p].owner = 0)'
    <3>1. CASE p = o
      BY <1>4, <1>8, <3>1
    <3>2. CASE p # o
      BY <1>4, <1>8, <2>1, <3>2 DEF IInv, OnceHasFrame
    <3> QED
      BY <3>1, <3>2
  <2> QED
    BY <2>2 DEF OnceHasFrame
<1>10. OnceWaiterHasRunner'
  <2>1. ASSUME NEW i \in Slots, thread'[i].state = "BLOCKED", thread'[i].wait = "ONCE"
        PROVE  once'[thread'[i].obj].state = "running"
    <3>1. thread'[i] = thread[i] /\ i \notin OnceWaiters(o)
      BY <1>4, <2>1 DEF StaysAwake
    <3>2. thread[i].obj # o /\ thread[i].obj \in Onces /\ once[thread[i].obj].state = "running"
      BY <2>1, <3>1 DEF OnceWaiters, IInv, OnceWaiterHasRunner, WaitsHaveObjects
    <3> QED
      BY <1>4, <3>1, <3>2
  <2> QED
    BY <2>1 DEF OnceWaiterHasRunner
<1> QED
  BY <1>5, <1>6, <1>9, <1>10 DEF Settled

-----------------------------------------------------------------------------
(* Every action is a step of one of these kinds.                               *)

(* A shim that ends its quantum or goes on leaves the loops as they need them. *)
LEMMA RunnerKept ==
    ASSUME IInv, inQuantum, current \in Slots, UNCHANGED <<current, loop>>,
           inQuantum' => inQuantum /\ thread'[current].state = "RUNNABLE",
           \A i \in Slots : i # current /\ thread[i].state = "RUNNABLE"
                               => thread'[i].state = "RUNNABLE"
    PROVE  RunnerIsReady'
BY MainIsSlot DEF IInv, Live, RunnerIsReady

(* The running thread at a shim call.                                          *)
LEMMA Running ==
    ASSUME IInv, inQuantum
    PROVE  /\ current \in Slots /\ thread[current].state = "RUNNABLE" /\ Used(current)
           /\ thread[current] \in Thread /\ life[current] \in Life
           /\ Self \in Tids /\ loop \in {"run", "idle"}
<1>1. current \in Slots /\ thread[current].state = "RUNNABLE" /\ loop \in {"run", "idle"}
      /\ thread[current] \in Thread /\ life[current] \in Life
  BY DEF IInv, Live, TypeOK, SchedTypeOK, RunnerIsReady
<1>2. Used(current)
  BY <1>1 DEF Used
<1>3. life[current].tid \in 1 .. nextTid - 1 /\ nextTid \in 2 .. MaxTid + 1 /\ MaxTid \in Nat
  BY <1>1, <1>2 DEF IInv, Live, SlotsMatch, TypeOK
<1>4. Self \in Tids
  BY <1>3 DEF Self, Tids
<1> QED
  BY <1>1, <1>2, <1>4

(* Host steps only schedule; the main thread is made runnable when it already is.*)
LEMMA HostIsQuiet ==
    ASSUME IInv, HostStep
    PROVE  Quiet /\ JoinersStay /\ RunnerIsReady'
<1> USE DEF HostStep, lifeVars
<1>1. thread \in [Slots -> Thread] /\ current \in Slots /\ Main \in Slots
      /\ \A i \in Slots : thread[i] \in Thread
  BY MainIsSlot DEF IInv, Live, TypeOK, SchedTypeOK
<1>2. UNCHANGED <<life, keys, nextTid>> /\ OnceKept
  BY DEF OnceKept
<1>3. CASE EnterRun
  <2>1. /\ loop' = "run" /\ UNCHANGED inQuantum /\ ~inQuantum
        /\ \A i \in Slots : i # Main => thread'[i] = thread[i]
        /\ thread'[Main] = Unparked(thread[Main])
        /\ thread[Main].state = "RUNNABLE"
    BY <1>1, <1>3 DEF EnterRun, IInv, Live, RunnerIsReady
  <2>2. thread'[Main].state = "RUNNABLE"
    BY <1>1, <2>1, ThreadFields
  <2> QED
    BY <1>2, <2>1, <2>2 DEF Quiet, SameStanding, SleepsWell, RunnerIsReady, JoinersStay, Joining
<1>4. CASE EnterIdle \/ LeaveIdle \/ MainReturns \/ EndQuantum \/ GuestFault
  <2>1. UNCHANGED thread /\ RunnerIsReady'
    BY <1>4 DEF EnterIdle, LeaveIdle, MainReturns, EndQuantum, GuestFault, AtLoopTop, AnyCall,
                IInv, Live, RunnerIsReady
  <2> QED
    BY <1>2, <2>1 DEF Quiet, SameStanding, SleepsWell, JoinersStay
<1>5. CASE CallbackReturns(Workers)
  <2>1. /\ thread' = [thread EXCEPT ![current] = Parked(thread[current])]
        /\ inQuantum /\ inQuantum' = FALSE /\ UNCHANGED <<current, loop>>
        /\ current # Main
    BY <1>5 DEF CallbackReturns, AnyCall, Workers, IInv, Live, MainLives
  <2>2. /\ \A i \in Slots : i # current => thread'[i] = thread[i]
        /\ thread'[current] = Parked(thread[current])
    BY <1>1, <2>1
  <2>3. thread'[current].state = "BLOCKED" /\ thread'[current].wait = "CALLBACK"
        /\ thread[current].state = "RUNNABLE"
    BY <1>1, <2>1, <2>2, ThreadFields, Running
  <2>4. RunnerIsReady'
    BY <1>1, <2>1, <2>2, RunnerKept
  <2> QED
    BY <1>2, <2>2, <2>3, <2>4 DEF Quiet, SameStanding, SleepsWell, JoinersStay, Joining
<1> QED
  BY <1>3, <1>4, <1>5

(* An iteration schedules, or takes a free slot for a callback worker.        *)
LEMMA LoopIsQuietOrBirth ==
    ASSUME IInv, NEW posted \in SUBSET {i \in Workers : IsParked(thread[i])},
           NEW spawned \in SUBSET FreeSlot, Iterate(posted, spawned)
    PROVE  /\ RunnerIsReady' /\ JoinersStay
           /\ IF spawned = {} THEN Quiet ELSE \E i \in FreeSlot : Births(i)
<1>1. /\ AtLoopTop
      /\ thread' = Handed(posted, spawned)
      /\ UNCHANGED <<call, keys, once>>
      /\ life' = [i \in Slots |-> IF i \in spawned THEN Born(nextTid, TRUE, TRUE) ELSE life[i]]
      /\ nextTid' = IF spawned = {} THEN nextTid ELSE nextTid + 1
      /\ \/ /\ current' \in Runnable(thread') /\ inQuantum' = TRUE /\ loop' = loop
            /\ loop # "run" => current' # Main
            /\ started' \in SUBSET Slots
         \/ /\ loop' \in {"host", "run", "deadlock"}
            /\ loop' = "host" => loop = "idle"
            /\ UNCHANGED <<current, inQuantum, started>>
  BY IterateEffect, Zenon DEF IInv, Live
<1>2. /\ \A i \in Slots : thread[i] \in Thread
      /\ \A i \in posted : /\ i \in Slots \ {Main} /\ thread[i].state = "BLOCKED"
                          /\ thread[i].wait = "CALLBACK"
      /\ \A i \in spawned : i \in Slots \ {Main} /\ thread[i].state = "UNUSED"
  BY FreeSlotIsUnused DEF IInv, Live, TypeOK, SchedTypeOK, MainLives, Workers, IsParked
<1>3. \A i \in Slots :
        /\ i \in posted => thread'[i].state = "RUNNABLE" /\ thread[i].state = "BLOCKED"
        /\ i \in spawned => thread'[i].state = "RUNNABLE"
        /\ i \notin posted /\ i \notin spawned => thread'[i] = thread[i]
  BY <1>1, <1>2, ThreadFields, SlotFields DEF Handed
<1>4. RunnerIsReady'
  <2>1. loop \in {"run", "idle"} /\ ~inQuantum
    BY <1>1 DEF AtLoopTop
  <2>2. thread[Main].state = "RUNNABLE" => thread'[Main].state = "RUNNABLE"
    BY <1>3, MainIsSlot
  <2>3. loop = "idle" => thread'[Main].state = "RUNNABLE"
    BY <2>2 DEF IInv, Live, RunnerIsReady
  <2>4. CASE current' \in Runnable(thread') /\ inQuantum' = TRUE /\ loop' = loop /\ (loop # "run" => current' # Main)
    BY <2>1, <2>3, <2>4 DEF RunnerIsReady, Runnable
  <2>5. CASE loop' \in {"host", "run", "deadlock"} /\ (loop' = "host" => loop = "idle") /\ UNCHANGED inQuantum
    BY <2>1, <2>3, <2>5 DEF RunnerIsReady
  <2> QED
    BY <1>1, <2>4, <2>5
<1>5. \A i \in Slots \ spawned : SameStanding(i) /\ StaysAwake(i)
  BY <1>3 DEF SameStanding, StaysAwake
<1>8. JoinersStay
  BY <1>2, <1>3 DEF JoinersStay, Joining
<1>6. CASE spawned = {}
  <2>1. UNCHANGED <<life, keys, nextTid>> /\ OnceKept
    BY <1>1, <1>6 DEF IInv, Live, TypeOK, OnceKept
  <2> QED
    BY <1>4, <1>5, <1>6, <1>8, <2>1 DEF Quiet, StaysAwake, SleepsWell
<1>7. CASE spawned # {}
  <2>1. PICK i \in spawned : \A j \in spawned : j = i
    BY <1>7, FreeSlotIsUnused
  <2>2. life'[i] = Born(nextTid, TRUE, TRUE) /\ \A j \in Slots : j # i => life'[j] = life[j]
    BY <1>1, <1>2, <2>1
  <2>3. /\ life'[i].tid = nextTid /\ life'[i].frames = <<>> /\ life'[i].exiting = FALSE
        /\ life'[i].tls = [k \in Keys |-> FALSE]
    BY <2>2 DEF Born
  <2>4. Births(i)
    BY <1>1, <1>2, <1>3, <1>5, <1>7, <2>1, <2>2, <2>3 DEF Births
  <2> QED
    BY <1>4, <1>7, <1>8, <2>1, <2>4
<1> QED
  BY <1>6, <1>7

(* Cancelling parks a worker that has not started.                            *)
LEMMA CancelIsQuiet ==
    ASSUME IInv, NEW i \in Slots, CancelCallback(i)
    PROVE  Quiet /\ JoinersStay /\ RunnerIsReady'
<1>1. /\ thread' = [thread EXCEPT ![i] = Parked(thread[i])]
      /\ i # current /\ i # Main /\ thread[i].state = "RUNNABLE"
      /\ UNCHANGED <<current, loop, inQuantum, life, keys, once, nextTid>> /\ inQuantum
  BY DEF CancelCallback, AnyCall, lifeVars, Workers, IInv, Live, MainLives
<1>2. /\ \A j \in Slots : j # i => thread'[j] = thread[j]
      /\ thread'[i].state = "BLOCKED" /\ thread'[i].wait = "CALLBACK"
  BY <1>1, ThreadFields DEF IInv, Live, TypeOK, SchedTypeOK
<1>3. Quiet
  BY <1>1, <1>2 DEF Quiet, OnceKept, SameStanding, SleepsWell
<1>5. JoinersStay
  BY <1>1, <1>2 DEF JoinersStay, Joining
<1>4. RunnerIsReady'
  BY <1>1, <1>2, MainIsSlot DEF IInv, Live, RunnerIsReady, TypeOK, SchedTypeOK
<1> QED
  BY <1>3, <1>4, <1>5

(* pthread_create takes a free slot.                                          *)
LEMMA CreateIsBirth ==
    ASSUME IInv, NEW detached \in BOOLEAN, Create(detached)
    PROVE  RunnerIsReady' /\ JoinersStay /\ \E i \in FreeSlot : Births(i)
<1>1. PICK i \in FreeSlot : /\ thread' = [thread EXCEPT ![i] = Prepared]
                            /\ life' = [life EXCEPT ![i] = Born(nextTid, detached, FALSE)]
  BY DEF Create
<1>2. /\ UNCHANGED <<keys, once, current, loop, inQuantum>> /\ nextTid' = nextTid + 1 /\ inQuantum
  BY DEF Create, Returns, AnyCall
<1>3. i \in Slots /\ i # Main /\ thread[i].state = "UNUSED"
  BY FreeSlotIsUnused
<1>4. current \in Slots /\ thread[current].state = "RUNNABLE"
  BY <1>2, Running
<1>5. /\ \A j \in Slots : j # i => thread'[j] = thread[j] /\ life'[j] = life[j]
      /\ thread'[i] = Prepared /\ life'[i] = Born(nextTid, detached, FALSE)
  BY <1>1, <1>3 DEF IInv, Live, TypeOK, SchedTypeOK
<1>6. /\ life'[i].tid = nextTid /\ life'[i].frames = <<>> /\ life'[i].exiting = FALSE
      /\ life'[i].tls = [k \in Keys |-> FALSE] /\ thread'[i].state = "RUNNABLE"
  BY <1>5, SlotFields DEF Born
<1>7. Births(i)
  BY <1>2, <1>3, <1>5, <1>6 DEF Births, SameStanding, StaysAwake
<1>8. RunnerIsReady'
  BY <1>2, <1>3, <1>4, <1>5, RunnerKept
<1>9. JoinersStay
  BY <1>3, <1>5, <1>6 DEF JoinersStay, Joining
<1> QED
  BY <1>7, <1>8, <1>9

(* pthread_join waits for a thread that lives, or reaps one that has ended.   *)
LEMMA JoinIsQuietOrReap ==
    ASSUME IInv, NEW t \in Tids, Join(t)
    PROVE  /\ RunnerIsReady'
           /\ \/ Quiet /\ (JoinersStay \/ BeginsToWait)
              \/ JoinersStay /\ \E i \in Slots : Reaps(i)
<1>1. inQuantum /\ UNCHANGED <<keys, once, nextTid>> /\ OnceKept
  BY DEF Join, Executing, OnceKept
<1>2. current \in Slots /\ thread[current].state = "RUNNABLE" /\ thread[current] \in Thread
      /\ thread \in [Slots -> Thread] /\ life \in [Slots -> Life]
  BY <1>1, Running DEF IInv, Live, TypeOK, SchedTypeOK
<1>3. CASE Returns /\ UNCHANGED <<thread, life>>
  <2>1. RunnerIsReady'
    BY <1>1, <1>2, <1>3, RunnerKept DEF Returns
  <2> QED
    BY <1>1, <1>3, <2>1 DEF Quiet, SameStanding, SleepsWell, JoinersStay
<1>4. CASE \E i \in ByTid(t) \ {current} :
                               /\ thread[i].state # "ZOMBIE" /\ Joinable(i)
                               /\ thread' = [thread EXCEPT ![current] = Blocked(@, "JOIN", t, NoObj, FALSE)]
                               /\ Blocks(JoinCall(t)) /\ UNCHANGED life
  <2> DEFINE b == Blocked(thread[current], "JOIN", t, NoObj, FALSE)
  <2>0. b.state = "BLOCKED" /\ b.wait = "JOIN" /\ b.obj = t
    BY <1>2 DEF Blocked, Thread
  <2> HIDE DEF b
  <2>1. /\ \A j \in Slots : j # current => thread'[j] = thread[j]
        /\ thread'[current] = b
        /\ thread'[current].state = "BLOCKED" /\ thread'[current].wait = "JOIN"
        /\ thread'[current].obj = t
    BY <1>2, <1>4, <2>0 DEF b
  <2>2. RunnerIsReady'
    BY <1>1, <1>2, <1>4, <2>1, RunnerKept DEF Blocks
  <2>3. \A j \in Slots : SameStanding(j) /\ SleepsWell(j)
    BY <1>2, <1>4, <2>1 DEF SameStanding, SleepsWell
  <2>4. BeginsToWait
    <3>1. PICK s \in ByTid(t) \ {current} : thread[s].state # "ZOMBIE" /\ ~life[s].detached
      BY <1>4, Zenon DEF Joinable
    <3>2. \E j \in ByTid(thread'[current].obj) \ {current} :
             thread[j].state # "ZOMBIE" /\ ~life[j].detached
      BY <2>1, <3>1
    <3>3. Joining(current)'
      BY <1>1, <1>4, <2>1 DEF Joining, Blocks
    <3> QED
      BY <1>1, <1>4, <2>1, <3>2, <3>3 DEF BeginsToWait, Blocks
  <2> QED
    BY <1>1, <1>4, <2>2, <2>3, <2>4 DEF Quiet
<1>5. CASE \E i \in ByTid(t) \ {current} :
              /\ thread[i].state = "ZOMBIE"
              /\ thread' = [ReapedThread(thread, i) EXCEPT ![current] = ClearWait(@)]
              /\ life' = ReapedLife(life, i) /\ Returns
  <2>1. PICK i \in ByTid(t) \ {current} :
              /\ thread[i].state = "ZOMBIE"
              /\ thread' = [ReapedThread(thread, i) EXCEPT ![current] = ClearWait(@)]
              /\ life' = ReapedLife(life, i) /\ Returns
    BY <1>5
  <2>2. i \in Slots /\ i # current
    BY <2>1 DEF ByTid
  <2>3. /\ \A j \in Slots : j # current /\ j # i => thread'[j] = thread[j]
        /\ \A j \in Slots : j # i => life'[j] = life[j]
        /\ thread'[i] = Vacant /\ life'[i] = Vacated
        /\ thread'[current] = ClearWait(thread[current])
    BY <1>2, <2>1, <2>2 DEF ReapedThread, ReapedLife
  <2>4. thread'[current].state = "RUNNABLE"
    BY <1>2, <2>3, ThreadFields
  <2>5. Reaps(i)
    BY <1>1, <1>2, <2>1, <2>3, <2>4 DEF Reaps, SameStanding, StaysAwake
  <2>6. RunnerIsReady'
    BY <1>1, <1>2, <2>1, <2>3, <2>4, RunnerKept DEF Returns
  <2>7. JoinersStay
    BY <1>2, <2>1, <2>3, <2>4, SlotFields DEF JoinersStay, Joining
  <2> QED
    BY <2>2, <2>5, <2>6, <2>7
<1> QED
  BY <1>3, <1>4, <1>5 DEF Join

(* pthread_detach marks a thread that lives, or reaps one that has ended.     *)
LEMMA DetachIsNoteOrReap ==
    ASSUME IInv, NEW t \in Tids, Detach(t)
    PROVE  /\ RunnerIsReady'
           /\ \/ Notes /\ \E i \in Slots : Detaches(i)
              \/ JoinersStay /\ \E i \in Slots : Reaps(i)
<1>1. inQuantum /\ UNCHANGED <<keys, once, nextTid, current, loop, inQuantum>>
  BY DEF Detach, AnyCall, Returns
<1>2. current \in Slots /\ thread[current].state = "RUNNABLE"
      /\ thread \in [Slots -> Thread] /\ life \in [Slots -> Life]
  BY <1>1, Running DEF IInv, Live, TypeOK, SchedTypeOK
<1>3. PICK i \in ByTid(t) :
        /\ life[i].detached = FALSE
        /\ IF thread[i].state = "ZOMBIE"
           THEN thread' = ReapedThread(thread, i) /\ life' = ReapedLife(life, i)
           ELSE life' = [life EXCEPT ![i].detached = TRUE] /\ UNCHANGED thread
  <2>1. \A i \in ByTid(t) : life[i].detached \in BOOLEAN
    BY <1>2 DEF ByTid, Life
  <2> QED
    BY <2>1 DEF Detach
<1>4. i \in Slots /\ Used(i)
  BY DEF ByTid
<1>5. CASE thread[i].state = "ZOMBIE"
  <2>1. /\ \A j \in Slots : j # i => thread'[j] = thread[j] /\ life'[j] = life[j]
        /\ thread'[i] = Vacant /\ life'[i] = Vacated
    BY <1>2, <1>3, <1>4, <1>5 DEF ReapedThread, ReapedLife
  <2>2. Reaps(i)
    BY <1>1, <1>5, <2>1 DEF Reaps, SameStanding, StaysAwake
  <2>3. RunnerIsReady'
    BY <1>1, <1>2, <1>5, <2>1, RunnerKept
  <2>4. JoinersStay
    BY <1>5, <2>1, SlotFields DEF JoinersStay, Joining
  <2> QED
    BY <1>4, <2>2, <2>3, <2>4
<1>6. CASE thread[i].state # "ZOMBIE"
  <2>1. /\ UNCHANGED thread
        /\ \A j \in Slots : j # i => life'[j] = life[j]
        /\ life'[i] = [life[i] EXCEPT !.detached = TRUE] /\ life[i] \in Life
    BY <1>2, <1>3, <1>4, <1>6
  <2>2. /\ life'[i].tid = life[i].tid /\ life'[i].frames = life[i].frames
        /\ life'[i].worker = life[i].worker /\ life'[i].tls = life[i].tls
        /\ life'[i].exiting = life[i].exiting /\ life'[i].ran = life[i].ran
        /\ life'[i].pass = life[i].pass
    BY <2>1 DEF Life
  <2>3. Notes
    BY <1>1, <1>4, <1>6, <2>1, <2>2 DEF Notes, IInv, FreshKeysAreNull
  <2>4. RunnerIsReady'
    BY <1>1, <1>2, <2>1, RunnerKept
  <2>5. life'[i].detached = TRUE
    BY <2>1 DEF Life
  <2>6. Detaches(i)
    BY <1>3, <1>4, <1>6, <2>1, <2>5 DEF Detaches
  <2> QED
    BY <1>4, <2>3, <2>4, <2>6
<1> QED
  BY <1>5, <1>6

(* A thread is finalized when its passes are used up or no destructor is left. *)
LEMMA NothingLeft ==
    ASSUME IInv, current \in Slots, thread[current].state = "RUNNABLE",
           NEW l \in Life, ExitRecord(l), Finalizes(l)
    PROVE  Destroyed
<1>1. /\ l = life[current] => l.ran /\ l.pass < Passes
      /\ l = life[current] \/ (l.index = 0 /\ l.pass = 0 /\ ~l.ran)
      /\ l.exiting /\ l.tls = life[current].tls /\ l.pass \in 0 .. Passes
  BY DEF ExitRecord, IInv, ExitsAreInAPass, Life
<1>2. l.pass # Passes
  BY <1>1
<1>3. ASSUME NEW r \in Life, r.index = 0, r.tls = life[current].tls, Pending(r) = {}
      PROVE  Destroyed
  <2>1. \A k \in Keys : k >= r.index
    BY <1>3 DEF Keys
  <2> QED
    BY <1>3, <2>1 DEF Pending, Destroyed
<1>4. CASE Pending(l) = {} /\ l.ran
  <2>1. l = life[current]
    BY <1>1, <1>4
  <2>2. Rescan(l) = [l EXCEPT !.pass = l.pass + 1, !.index = 0, !.ran = FALSE]
    BY <1>4 DEF Rescan
  <2> DEFINE r == Rescan(l)
  <2>3. r.index = 0 /\ r.tls = life[current].tls /\ r.pass = l.pass + 1
    BY <1>1, <2>2 DEF Life
  <2>4. l.pass + 1 \in 0 .. Passes
    BY <1>1, <1>2
  <2>5. r \in Life
    <3>1. ASSUME NEW p \in 0 .. Passes, NEW x \in 0 .. NumKeys, NEW b \in BOOLEAN
          PROVE  [l EXCEPT !.pass = p, !.index = x, !.ran = b] \in Life
      BY DEF Life
    <3>2. 0 \in 0 .. NumKeys /\ FALSE \in BOOLEAN
      OBVIOUS
    <3> QED
      BY <2>2, <2>4, <3>1, <3>2, Zenon
  <2> HIDE DEF r
  <2>6. CASE r.pass = Passes
    <3>1. life[current].pass = Passes - 1
      BY <1>1, <2>1, <2>3, <2>6
    <3> QED
      BY <1>1, <2>1, <3>1 DEF Destroyed
  <2>7. CASE Pending(r) = {}
    BY <1>3, <2>3, <2>5, <2>7
  <2> QED
    BY <2>6, <2>7 DEF Finalizes, r
<1>5. CASE ~ (Pending(l) = {} /\ l.ran)
  <2>1. Rescan(l) = l
    BY <1>5 DEF Rescan
  <2>2. Pending(l) = {}
    BY <1>2, <2>1 DEF Finalizes
  <2>3. l.index = 0
    BY <1>1, <1>5, <2>2
  <2> QED
    BY <1>1, <1>3, <2>2, <2>3
<1> QED
  BY <1>4, <1>5

(* A step towards the end of a thread is in a pass, or ends the thread.        *)
LEMMA ExitIsNoteOrEnd ==
    ASSUME IInv, ThreadReturns \/ DestructorReturns
    PROVE  RunnerIsReady' /\ ((Notes /\ DetachedKept) \/ Ends)
<1>1. /\ AnyCall /\ InNoInitializer /\ current \in Slots \ {Main}
      /\ \E l \in Life : ExitRecord(l)
  BY ExitsHaveRecords, Zenon DEF IInv, Live
<1>2. PICK l \in Life : ExitRecord(l)
  BY <1>1
<1>3. inQuantum /\ thread[current].state = "RUNNABLE" /\ Used(current)
      /\ thread \in [Slots -> Thread] /\ life \in [Slots -> Life]
      /\ life[current].frames = <<>>
  BY <1>1, Running DEF AnyCall, IInv, Live, TypeOK, SchedTypeOK, InNoInitializer
<1>4. CASE StartsDestructor(l)
  <2>1. /\ UNCHANGED <<schedVars, keys, once, nextTid>>
        /\ \E n \in Life :
             /\ life' = [life EXCEPT ![current] = n]
             /\ n.tid = l.tid /\ n.detached = l.detached /\ n.worker = l.worker
             /\ n.exiting = l.exiting /\ n.frames = l.frames
             /\ n.ran = TRUE /\ n.pass < Passes
             /\ \A j \in Keys : n.tls[j] => l.tls[j]
    BY <1>4, DestructorEffect, Zenon
  <2>2. PICK n \in Life :
             /\ life' = [life EXCEPT ![current] = n]
             /\ n.tid = l.tid /\ n.detached = l.detached /\ n.worker = l.worker
             /\ n.exiting = l.exiting /\ n.frames = l.frames
             /\ n.ran = TRUE /\ n.pass < Passes
             /\ \A j \in Keys : n.tls[j] => l.tls[j]
    BY <2>1
  <2>3. /\ n.tid = life[current].tid /\ n.detached = life[current].detached
        /\ n.worker = life[current].worker /\ n.frames = life[current].frames
        /\ \A j \in Keys : n.tls[j] => life[current].tls[j]
    BY <1>2, <2>2, Zenon DEF ExitRecord
  <2>4. life'[current] = n /\ \A i \in Slots : i # current => life'[i] = life[i]
    BY <1>1, <1>3, <2>2
  <2>5. Notes
    BY <1>1, <1>3, <2>1, <2>2, <2>3, <2>4 DEF Notes, schedVars, IInv, FreshKeysAreNull
  <2>6. RunnerIsReady'
    BY <1>1, <1>3, <2>1, RunnerKept DEF schedVars
  <2>7. DetachedKept
    BY <2>3, <2>4 DEF DetachedKept
  <2> QED
    BY <2>5, <2>6, <2>7
<1>5. CASE Finalizes(l)
  <2> DEFINE woken == Woken(thread, JoinersOf(life[current].tid), "OK")
  <2>1. /\ inQuantum' = FALSE /\ UNCHANGED <<call, current, loop, started, keys, once, nextTid>>
        /\ woken \in [Slots -> Thread]
        /\ IF l.detached
           THEN thread' = [woken EXCEPT ![current] = Vacant] /\ life' = [life EXCEPT ![current] = Vacated]
           ELSE thread' = [woken EXCEPT ![current].state = "ZOMBIE"] /\ life' = [life EXCEPT ![current] = l]
    BY <1>2, <1>5, EndEffect DEF WithJoinersWoken, IInv, Live, ExitRecord
  <2>2. \A j \in Slots :
          IF j \in JoinersOf(life[current].tid) /\ thread[j].state = "BLOCKED"
          THEN woken[j].state = "RUNNABLE" ELSE woken[j] = thread[j]
    BY <1>3, WokenFields DEF Results
  <2> HIDE DEF woken
  <2>3. /\ \A j \in Slots : j # current => thread'[j] = woken[j] /\ life'[j] = life[j]
        /\ l.detached => thread'[current] = Vacant /\ life'[current] = Vacated
        /\ ~l.detached => thread'[current] = [woken[current] EXCEPT !.state = "ZOMBIE"]
                          /\ life'[current] = l
    BY <1>1, <1>3, <2>1
  <2>4. /\ l.detached => thread'[current].state = "UNUSED" /\ life'[current].frames = <<>>
        /\ ~l.detached => thread'[current].state = "ZOMBIE" /\ life'[current].frames = <<>>
    <3>1. woken[current] \in Thread
      BY <1>1, <2>1
    <3>2. [woken[current] EXCEPT !.state = "ZOMBIE"].state = "ZOMBIE"
      BY <3>1, ThreadFields
    <3>3. l.frames = <<>>
      BY <1>2, <1>3 DEF ExitRecord
    <3> QED
      BY <2>3, <3>2, <3>3, SlotFields
  <2>5. \A j \in Slots : j # current =>
            SameStanding(j) /\ StaysAwake(j)
            /\ (thread'[j].state = "BLOCKED" => j \notin JoinersOf(life[current].tid))
            /\ (Joining(j) /\ j \notin JoinersOf(life[current].tid) => thread'[j] = thread[j])
    BY <2>2, <2>3 DEF SameStanding, StaysAwake, JoinersOf
  <2>6. l.tid = life[current].tid /\ l.detached = life[current].detached
        /\ l.tls = life[current].tls /\ l.detached \in BOOLEAN
    BY <1>2 DEF ExitRecord, Life
  <2>9. Destroyed
    BY <1>1, <1>2, <1>3, <1>5, NothingLeft
  <2>7. Ends
    BY <1>1, <1>3, <2>1, <2>3, <2>4, <2>5, <2>6, <2>9 DEF Ends
  <2>8. RunnerIsReady'
    BY <1>1, <1>3, <2>1, <2>2, <2>3, RunnerKept
  <2> QED
    BY <2>7, <2>8
<1> QED
  BY <1>2, <1>4, <1>5 DEF ExitRecord, ExitStep

(* The key shims change what slots remember.                                  *)
LEMMA KeysAreNotes ==
    ASSUME IInv, KeyStep
    PROVE  RunnerIsReady' /\ Notes /\ DetachedKept
<1>1. inQuantum /\ UNCHANGED <<thread, current, loop, inQuantum, once, nextTid>>
  BY DEF KeyStep, CreateKey, DeleteKey, SetSpecific, AnyCall, schedVars
<1>2. /\ current \in Slots /\ thread[current].state = "RUNNABLE" /\ Used(current)
      /\ \A i \in Slots : life[i] \in Life
  BY <1>1, Running DEF IInv, Live, TypeOK
<1>3. RunnerIsReady'
  BY <1>1, <1>2, RunnerKept
<1>4. ASSUME NEW destructor \in BOOLEAN, CreateKey(destructor)
      PROVE  Notes /\ DetachedKept
  <2>1. {k \in Keys : ~keys[k].used} \in SUBSET Nat
    BY DEF Keys
  <2>2. PICK k \in Keys : keys' = [keys EXCEPT ![k] = [used |-> TRUE, destructor |-> destructor]]
    BY <1>4, <2>1, LowestIsMember DEF CreateKey
  <2>3. UNCHANGED life /\ \A j \in Keys : keys[j].used => keys'[j].used
    BY <1>4, <2>2 DEF CreateKey, IInv, Live, TypeOK
  <2> QED
    BY <1>1, <2>3 DEF Notes, IInv, FreshKeysAreNull, DetachedKept
<1> DEFINE Stored(i, k, b) == [life[i] EXCEPT !.tls[k] = b]
<1>5. ASSUME NEW i \in Slots, NEW k \in Keys, NEW b \in BOOLEAN
      PROVE  /\ Stored(i, k, b).tid = life[i].tid
             /\ Stored(i, k, b).frames = life[i].frames
             /\ Stored(i, k, b).worker = life[i].worker
             /\ Stored(i, k, b).detached = life[i].detached
             /\ Stored(i, k, b).exiting = life[i].exiting
             /\ Stored(i, k, b).ran = life[i].ran
             /\ Stored(i, k, b).pass = life[i].pass
             /\ Stored(i, k, b).tls = [life[i].tls EXCEPT ![k] = b]
  BY <1>2 DEF Life
<1> HIDE DEF Stored
<1>6. ASSUME NEW k \in Keys, DeleteKey(k)
      PROVE  Notes /\ DetachedKept
  <2>1. \A i \in Slots : life'[i] = [life[i] EXCEPT !.tls[k] = FALSE]
    BY <1>6 DEF DeleteKey, ForgottenBy
  <2>2. ASSUME NEW i \in Slots
        PROVE  /\ life'[i].tid = life[i].tid /\ life'[i].frames = life[i].frames
               /\ life'[i].worker = life[i].worker
               /\ life'[i].detached = life[i].detached /\ life'[i].exiting = life[i].exiting
               /\ life'[i].ran = life[i].ran /\ life'[i].pass = life[i].pass
               /\ life'[i].tls = [life[i].tls EXCEPT ![k] = FALSE]
    BY <1>2, <2>1 DEF Life
  <2>3. \A i \in Slots : life[i].tls \in [Keys -> BOOLEAN]
    BY <1>2 DEF Life
  <2>4. \A i \in Slots, j \in Keys : life'[i].tls[j] => j # k /\ life[i].tls[j]
    BY <2>2, <2>3
  <2>5. \A j \in Keys : j # k => keys'[j] = keys[j]
    BY <1>6 DEF DeleteKey, IInv, Live, TypeOK
  <2>6. ASSUME NEW i \in Slots, ~Used(i)
        PROVE  life'[i] = life[i]
    <3>1. life[i] = Vacated
      BY <2>6 DEF IInv, Live, SlotsMatch
    <3>2. [life[i].tls EXCEPT ![k] = FALSE] = life[i].tls
      BY <3>1, SlotFields
    <3>3. [life[i] EXCEPT !.tls[k] = FALSE] = [life[i] EXCEPT !.tls = life[i].tls]
      BY <3>2
    <3>4. [life[i] EXCEPT !.tls = life[i].tls] = life[i]
      BY <1>2 DEF Life
    <3> QED
      BY <2>1, <3>3, <3>4
  <2> QED
    BY <1>1, <2>2, <2>4, <2>5, <2>6 DEF Notes, IInv, FreshKeysAreNull, DetachedKept
<1>7. ASSUME NEW k \in Keys, NEW b \in BOOLEAN, SetSpecific(k, b)
      PROVE  Notes /\ DetachedKept
  <2>1. /\ life' = [life EXCEPT ![current] = [life[current] EXCEPT !.tls[k] = b]]
        /\ UNCHANGED keys /\ keys[k].used
    BY <1>7 DEF SetSpecific
  <2>2. /\ \A i \in Slots : i # current => life'[i] = life[i]
        /\ life'[current] = Stored(current, k, b)
    BY <1>2, <2>1 DEF IInv, Live, TypeOK, Stored
  <2>3. /\ life'[current].tid = life[current].tid /\ life'[current].frames = life[current].frames
        /\ life'[current].worker = life[current].worker
        /\ life'[current].detached = life[current].detached
        /\ life'[current].exiting = life[current].exiting
        /\ life'[current].ran = life[current].ran /\ life'[current].pass = life[current].pass
        /\ life'[current].tls = [life[current].tls EXCEPT ![k] = b]
    BY <1>2, <1>5, <2>2
  <2>4. life[current].tls \in [Keys -> BOOLEAN]
    BY <1>2 DEF Life
  <2>5. \A j \in Keys : life'[current].tls[j] => j = k \/ life[current].tls[j]
    BY <2>3, <2>4
  <2> QED
    BY <1>1, <1>2, <2>1, <2>2, <2>3, <2>5 DEF Notes, IInv, FreshKeysAreNull, DetachedKept
<1> QED
  BY <1>3, <1>4, <1>6, <1>7 DEF KeyStep

(* pthread_once enters the initializer, waits, or only returns.               *)
LEMMA OnceIsQuietOrEnters ==
    ASSUME IInv, NEW o \in Onces, Once(o)
    PROVE  RunnerIsReady' /\ JoinersStay /\ (Quiet \/ Enters(o))
<1>1. inQuantum /\ UNCHANGED <<keys, nextTid>>
  BY DEF Once, Executing
<1>2. /\ current \in Slots /\ thread[current].state = "RUNNABLE" /\ thread[current] \in Thread
      /\ thread \in [Slots -> Thread] /\ life \in [Slots -> Life] /\ Self \in Tids
      /\ once \in [Onces -> [used : BOOLEAN, state : {"new", "running", "done"}, owner : 0 .. MaxTid]]
  BY <1>1, Running DEF IInv, Live, TypeOK, SchedTypeOK
<1>3. ClearWait(thread[current]).state = "RUNNABLE"
  BY <1>2, ThreadFields
<1>4. CASE Returns /\ UNCHANGED life /\ OnceKept
           /\ (thread' = thread \/ thread' = [thread EXCEPT ![current] = ClearWait(@)])
  <2>1. \A i \in Slots : /\ i # current => thread'[i] = thread[i]
                         /\ thread'[current].state = "RUNNABLE"
    BY <1>2, <1>3, <1>4
  <2>2. RunnerIsReady'
    BY <1>1, <1>2, <1>4, <2>1, RunnerKept DEF Returns
  <2> QED
    BY <1>1, <1>2, <1>4, <2>1, <2>2 DEF Quiet, SameStanding, SleepsWell, JoinersStay, Joining
<1>5. CASE /\ once[o].state = "running"
           /\ thread' = [thread EXCEPT ![current] = Blocked(@, "ONCE", o, NoObj, FALSE)]
           /\ Blocks(OnceCall(o)) /\ UNCHANGED <<life, once>>
  <2> DEFINE b == Blocked(thread[current], "ONCE", o, NoObj, FALSE)
  <2>1. b.state = "BLOCKED" /\ b.wait = "ONCE" /\ b.obj = o
    BY <1>2 DEF Blocked, Thread
  <2> HIDE DEF b
  <2>2. /\ \A j \in Slots : j # current => thread'[j] = thread[j]
        /\ thread'[current] = b
        /\ thread'[current].state = "BLOCKED" /\ thread'[current].wait = "ONCE"
        /\ thread'[current].obj = o
    BY <1>2, <1>5, <2>1 DEF b
  <2>3. RunnerIsReady'
    BY <1>1, <1>2, <1>5, <2>2, RunnerKept DEF Blocks
  <2>4. \A j \in Slots : SameStanding(j) /\ SleepsWell(j)
    BY <1>2, <1>5, <2>2 DEF SameStanding, SleepsWell
  <2> QED
    BY <1>1, <1>2, <1>5, <2>2, <2>3, <2>4 DEF Quiet, OnceKept, JoinersStay, Joining
<1>6. CASE /\ Claimable(o)
           /\ Len(life[current].frames) < Nesting
           /\ once' = [once EXCEPT ![o] = [used |-> TRUE, state |-> "running", owner |-> Self]]
           /\ life' = [life EXCEPT ![current].frames = Append(@, o)]
           /\ thread' = [thread EXCEPT ![current] = ClearWait(@)]
           /\ Returns
  <2>1. \A i \in Slots : /\ i # current => thread'[i] = thread[i]
                         /\ thread'[current].state = "RUNNABLE"
    BY <1>2, <1>3, <1>6
  <2>2. RunnerIsReady'
    BY <1>1, <1>2, <1>6, <2>1, RunnerKept DEF Returns
  <2>3. once'[o].state = "running" /\ once'[o].owner = life[current].tid
        /\ \A p \in Onces : p # o => once'[p] = once[p]
    BY <1>2, <1>6 DEF Self
  <2>4. \A i \in Slots : SameStanding(i) /\ StaysAwake(i)
    BY <1>2, <2>1 DEF SameStanding, StaysAwake
  <2>5. Enters(o)
    BY <1>1, <1>6, <2>3, <2>4 DEF Enters, Claimable
  <2>6. JoinersStay
    BY <1>2, <2>1 DEF JoinersStay, Joining
  <2> QED
    BY <2>2, <2>5, <2>6
<1>7. once' = once \/ once' = [once EXCEPT ![o].used = TRUE] => OnceKept
  <2>1. CASE once' = [once EXCEPT ![o].used = TRUE]
    <3>1. /\ [once[o] EXCEPT !.used = TRUE].state = once[o].state
          /\ [once[o] EXCEPT !.used = TRUE].owner = once[o].owner
      BY <1>2
    <3>2. \A p \in Onces : once'[p] = IF p = o THEN [once[o] EXCEPT !.used = TRUE] ELSE once[p]
      BY <1>2, <2>1
    <3> QED
      BY <3>1, <3>2 DEF OnceKept
  <2>2. CASE once' = once
    BY <2>2 DEF OnceKept
  <2> QED
    BY <2>1, <2>2
<1> QED
  BY <1>4, <1>5, <1>6, <1>7 DEF Once

(* The return of an initializer leaves it.                                    *)
LEMMA ReturnLeaves ==
    ASSUME IInv, OnceReturns
    PROVE  RunnerIsReady' /\ JoinersStay /\ \E o : Leaves(o)
<1> DEFINE o == life[current].frames[Len(life[current].frames)]
<1>1. /\ inQuantum /\ Returns /\ UNCHANGED <<keys, nextTid>>
      /\ life[current].frames # <<>>
      /\ life' = [life EXCEPT ![current].frames = SubSeq(@, 1, Len(@) - 1)]
      /\ IF once[o].owner = life[current].tid
         THEN /\ once' = [once EXCEPT ![o].state = "done", ![o].owner = 0]
              /\ thread' = Released(o)
         ELSE UNCHANGED <<once, thread>>
  BY DEF OnceReturns, AnyCall, InNoInitializer, Self
<1>2. /\ current \in Slots /\ thread[current].state = "RUNNABLE"
      /\ thread \in [Slots -> Thread]
      /\ once \in [Onces -> [used : BOOLEAN, state : {"new", "running", "done"}, owner : 0 .. MaxTid]]
  BY <1>1, Running DEF IInv, Live, TypeOK, SchedTypeOK
<1>3. o \in Onces
  BY <1>1, <1>2, TopFrame
<1> HIDE DEF o
<1>4. \A i \in Slots : IF i \in OnceWaiters(o) /\ thread[i].state = "BLOCKED"
                       THEN Released(o)[i].state = "RUNNABLE" ELSE Released(o)[i] = thread[i]
  BY <1>2, WokenFields DEF Released, Results
<1>5. CASE once[o].owner = life[current].tid
  <2>1. /\ once'[o].state = "done" /\ once'[o].owner = 0
        /\ \A p \in Onces : p # o => once'[p] = once[p]
    BY <1>1, <1>2, <1>3, <1>5
  <2>2. \A i \in Slots : /\ SameStanding(i) /\ StaysAwake(i)
                         /\ thread'[i].state = "BLOCKED" => i \notin OnceWaiters(o)
    BY <1>1, <1>4, <1>5 DEF SameStanding, StaysAwake, OnceWaiters
  <2>3. Leaves(o)
    BY <1>1, <1>5, <2>1, <2>2 DEF Leaves, o
  <2>4. RunnerIsReady'
    <3>1. \A i \in Slots : thread[i].state = "RUNNABLE" => thread'[i].state = "RUNNABLE"
      BY <1>1, <1>4, <1>5
    <3> QED
      BY <1>1, <1>2, <3>1, RunnerKept DEF Returns
  <2>5. JoinersStay
    BY <1>1, <1>4, <1>5 DEF JoinersStay, Joining, OnceWaiters
  <2> QED
    BY <2>3, <2>4, <2>5
<1>6. CASE once[o].owner # life[current].tid
  <2>1. Leaves(o)
    BY <1>1, <1>6 DEF Leaves, o
  <2>2. RunnerIsReady'
    BY <1>1, <1>2, <1>6, RunnerKept DEF Returns
  <2>3. JoinersStay
    BY <1>1, <1>6 DEF JoinersStay
  <2> QED
    BY <2>1, <2>2, <2>3
<1> QED
  BY <1>5, <1>6

(* Every step is of one of the kinds, or changes nothing.                      *)
LEMMA StepKinds ==
    ASSUME IInv, [Next]_vars
    PROVE  /\ RunnerIsReady'
           /\ \/ Quiet /\ (JoinersStay \/ BeginsToWait)
              \/ Notes /\ (DetachedKept \/ \E i \in Slots : Detaches(i))
              \/ inQuantum /\ Ends
              \/ JoinersStay /\ \E i \in Slots : Births(i) \/ Reaps(i)
              \/ JoinersStay /\ inQuantum /\ \E o \in Onces : Enters(o)
              \/ JoinersStay /\ inQuantum /\ \E o : Leaves(o)
<1>1. CASE HostStep
  BY <1>1, HostIsQuiet
<1>2. CASE LoopStep
  <2>1. PICK posted \in SUBSET {i \in Workers : IsParked(thread[i])}, spawned \in SUBSET FreeSlot :
           Iterate(posted, spawned)
    BY <1>2 DEF LoopStep
  <2>2. RunnerIsReady' /\ JoinersStay /\ IF spawned = {} THEN Quiet ELSE \E i \in FreeSlot : Births(i)
    BY <2>1, LoopIsQuietOrBirth
  <2> QED
    BY <2>2, FreeSlotIsUnused
<1>3. CASE LifeStep
  <2>1. CASE \E detached \in BOOLEAN : Create(detached)
    BY <2>1, CreateIsBirth, FreeSlotIsUnused
  <2>2. CASE \E t \in Tids : Join(t)
    BY <2>2, JoinIsQuietOrReap
  <2>3. CASE \E t \in Tids : Detach(t)
    BY <2>3, DetachIsNoteOrReap
  <2>4. CASE ThreadReturns \/ DestructorReturns
    <3>1. inQuantum
      BY <2>4 DEF ThreadReturns, DestructorReturns, AnyCall
    <3> QED
      BY <2>4, <3>1, ExitIsNoteOrEnd
  <2> QED
    BY <1>3, <2>1, <2>2, <2>3, <2>4 DEF LifeStep
<1>4. CASE KeyStep
  BY <1>4, KeysAreNotes
<1>5. CASE OnceStep
  <2>1. inQuantum
    BY <1>5 DEF OnceStep, Once, OnceReturns, Executing, AnyCall
  <2> QED
    BY <1>5, <2>1, OnceIsQuietOrEnters, ReturnLeaves DEF OnceStep
<1>6. CASE \E i \in Slots : CancelCallback(i)
  BY <1>6, CancelIsQuiet
<1>7. CASE UNCHANGED vars
  <2>1. RunnerIsReady'
    BY <1>7 DEF vars, schedVars, IInv, Live, RunnerIsReady
  <2>2. Quiet
    BY <1>7 DEF vars, schedVars, Quiet, OnceKept, SameStanding, SleepsWell
  <2>3. JoinersStay
    BY <1>7 DEF vars, schedVars, JoinersStay
  <2> QED
    BY <2>1, <2>2, <2>3
<1> QED
  BY <1>1, <1>2, <1>3, <1>4, <1>5, <1>6, <1>7 DEF Next

(* No stack has a frame: no control has one.                                   *)
LEMMA EmptyStacks ==
    ASSUME \A i \in Slots : life[i].frames = <<>>
    PROVE  FramesAreBounded /\ \A o : FramesOf(o) = {}
<1>1. \A i \in Slots : Len(life[i].frames) = 0
  BY EmptySeq
<1>2. ASSUME NEW o, NEW f \in FramesOf(o)
      PROVE  FALSE
  <2>1. f[1] \in Slots /\ f[2] \in 1 .. Nesting /\ f[2] =< Len(life[f[1]].frames)
    BY DEF FramesOf
  <2> QED
    BY <1>1, <2>1
<1> QED
  BY <1>1, <1>2 DEF FramesAreBounded

(* The invariant holds at first.                                              *)
LEMMA InitIInv == Init => IInv
<1> SUFFICES ASSUME Init PROVE IInv
  OBVIOUS
<1> USE DEF Init
<1>1. /\ Vacated.frames = <<>> /\ Vacated.exiting = FALSE /\ Vacated.tls = [k \in Keys |-> FALSE]
      /\ Prepared.state = "RUNNABLE" /\ Vacant.state = "UNUSED"
  BY SlotFields
<1>2. /\ Born(1, FALSE, FALSE).tid = 1 /\ Born(1, FALSE, FALSE).worker = FALSE
      /\ Born(1, FALSE, FALSE).frames = <<>> /\ Born(1, FALSE, FALSE).exiting = FALSE
      /\ Born(1, FALSE, FALSE).tls = [k \in Keys |-> FALSE]
  BY DEF Born
<1>3. \A i \in Slots : /\ thread[i].state = IF i = Main THEN "RUNNABLE" ELSE "UNUSED"
                       /\ life[i] = IF i = Main THEN Born(1, FALSE, FALSE) ELSE Vacated
  BY <1>1
<1>4. \A i \in Slots : /\ life[i].frames = <<>> /\ life[i].exiting = FALSE
                       /\ life[i].tls = [k \in Keys |-> FALSE]
  BY <1>1, <1>2, <1>3
<1>5. SlotsMatch
  <2>1. \A i \in Slots : Used(i) <=> i = Main
    BY <1>3 DEF Used
  <2>2. 1 \in 1 .. nextTid - 1
    OBVIOUS
  <2> QED
    BY <1>2, <1>3, <2>1, <2>2 DEF SlotsMatch
<1>6. RunnerIsReady /\ MainLives
  BY <1>2, <1>3, MainIsSlot DEF RunnerIsReady, MainLives, Used
<1>7. WaitsHaveObjects /\ EndsAreSettled /\ OnceWaiterHasRunner
  BY <1>3 DEF WaitsHaveObjects, EndsAreSettled, JoinerNotStranded, ZombiesAreJoinable, OnceWaiterHasRunner
<1>8. FreshKeysAreNull /\ ExitsAreInAPass
  BY <1>4 DEF FreshKeysAreNull, ExitsAreInAPass
<1>9. FramesAreBounded /\ \A o : FramesOf(o) = {}
  BY <1>4, EmptyStacks
<1>10. OnceHasFrame
  <2>1. \A o \in Onces : once[o].state = "new" /\ once[o].owner = 0
    BY DEF NewOnce
  <2> QED
    BY <1>9, <2>1 DEF OnceHasFrame
<1> QED
  BY <1>5, <1>6, <1>7, <1>8, <1>9, <1>10, InitType DEF IInv, Live

(* Every step keeps the invariant.                                            *)
LEMMA NextIInv == IInv /\ [Next]_vars => IInv'
<1> SUFFICES ASSUME IInv, [Next]_vars PROVE IInv'
  OBVIOUS
<1>1. TypeOK'
  BY TypeStep DEF IInv, Live
<1>2. /\ RunnerIsReady'
      /\ \/ Quiet \/ Notes \/ Ends
         \/ \E i \in Slots : Births(i) \/ Reaps(i)
         \/ inQuantum /\ \E o \in Onces : Enters(o)
         \/ inQuantum /\ \E o : Leaves(o)
  BY StepKinds
<1>3. SlotsMatch' /\ MainLives' /\ Settled'
  BY <1>1, <1>2, QuietStep, NotesStep, EndStep, BirthStep, ReapStep, EnterStep, LeaveStep, Running
<1> QED
  BY <1>1, <1>2, <1>3 DEF IInv, Live, Settled

(* The strengthening of every property below: slots, loops, waits, frames and  *)
(* exits of src/native/guest_threads.c always fit together.                    *)
THEOREM Invariant == Spec => []IInv
BY InitIInv, NextIInv, PTL DEF Spec

-----------------------------------------------------------------------------
(* The theorems. *)

(* The scheduler, the thread table, keys and once controls keep their types.   *)
THEOREM TypeCorrect == Spec => []TypeOK
BY Invariant, PTL DEF IInv, Live

(* finalize_current and reap_thread: whoever waits in pthread_join waits for a *)
(* thread that has not ended, and an ended thread keeps its slot only for one. *)
THEOREM JoinersAndSlotsAreSettled == Spec => []EndsAreSettled
BY Invariant, PTL DEF IInv

(* pthread_key_delete forgets a value in every slot, so that a key that is     *)
(* created anew reads NULL in every thread.                                    *)
THEOREM NewKeysReadNull == Spec => []FreshKeysAreNull
BY Invariant, PTL DEF IInv

(* pthread_once: the initializer of a running control is on exactly one stack, *)
(* that of its owner, and whoever waits for a control waits for a running one. *)
THEOREM OnceRunsOnce == Spec => []OnceProtocol
<1>1. ASSUME IInv
      PROVE  OnceProtocol
  <2>1. ASSUME NEW o \in Onces, NEW f \in FramesOf(o)
        PROVE  thread[f[1]].state \in {"RUNNABLE", "BLOCKED"}
    <3>1. f[1] \in Slots /\ f[2] \in 1 .. Nesting /\ f[2] =< Len(life[f[1]].frames)
      BY DEF FramesOf
    <3>2. Len(<<>>) = 0
      OBVIOUS
    <3>3. life[f[1]].frames # <<>>
      <4>1. f[2] >= 1
        BY <3>1
      <4>2. Len(life[f[1]].frames) # 0
        BY <1>1, <3>1, <4>1 DEF IInv, FramesAreBounded
      <4> QED
        BY <3>2, <4>2
    <3>4. thread[f[1]].state \in States
      BY <1>1, <3>1 DEF IInv, Live, TypeOK, SchedTypeOK, Thread
    <3> QED
      BY <1>1, <3>1, <3>3, <3>4 DEF IInv, FramesAreBounded, States
  <2>2. ASSUME NEW o \in Onces, once[o].state = "running"
        PROVE  Cardinality(FramesOf(o)) = 1 /\ \A f \in FramesOf(o) : life[f[1]].tid = once[o].owner
    BY <1>1, <2>2, FS_Singleton DEF IInv, OnceHasFrame
  <2>3. ASSUME NEW o \in Onces, once[o].state # "running"
        PROVE  Cardinality(FramesOf(o)) = 0 /\ FramesOf(o) = {}
    BY <1>1, <2>3, FS_EmptySet DEF IInv, OnceHasFrame
  <2>4. OnceExclusive
    BY <2>1, <2>2, <2>3 DEF OnceExclusive
  <2> QED
    BY <1>1, <2>4 DEF IInv, OnceProtocol
<1> QED
  BY <1>1, Invariant, PTL

(* finalize_current: a thread other than the main one ends only in its last    *)
(* pass of destructors or when no key with a destructor holds a value.         *)
THEOREM EndsAfterDestructors == Spec => DestructorsRun
<1> DEFINE A == \A i \in Slots \ {Main} :
                  thread[i].state = "RUNNABLE" /\ thread'[i].state \in {"ZOMBIE", "UNUSED"}
                     => \/ life[i].exiting /\ life[i].pass = Passes - 1
                        \/ \A k \in Keys : keys[k].used /\ keys[k].destructor => ~life[i].tls[k]
<1>1. ASSUME IInv, [Next]_vars
      PROVE  A
  <2>1. SUFFICES ASSUME NEW i \in Slots \ {Main}, thread[i].state = "RUNNABLE",
                        thread'[i].state \in {"ZOMBIE", "UNUSED"}
                 PROVE  i = current /\ Destroyed
    BY DEF Destroyed
  <2>2. \/ Quiet \/ Notes \/ Ends
        \/ \E j \in Slots : Births(j) \/ Reaps(j)
        \/ inQuantum /\ \E o \in Onces : Enters(o)
        \/ inQuantum /\ \E o : Leaves(o)
    BY <1>1, StepKinds
  <2>3. ~SameStanding(i) /\ thread'[i] # thread[i]
    BY <2>1 DEF SameStanding
  <2>4. ~Quiet /\ ~Notes /\ ~ \E o \in Onces : Enters(o)
    BY <2>3 DEF Quiet, Notes, Enters
  <2>5. ~ \E o : Leaves(o)
    BY <2>3 DEF Leaves
  <2>6. ~ \E j \in Slots : Births(j) \/ Reaps(j)
    <3>1. ASSUME NEW j \in Slots, Births(j)
          PROVE  FALSE
      BY <2>1, <2>3, <3>1 DEF Births
    <3>2. ASSUME NEW j \in Slots, Reaps(j)
          PROVE  FALSE
      BY <2>1, <2>3, <3>2 DEF Reaps
    <3> QED
      BY <3>1, <3>2
  <2>7. Ends
    BY <2>2, <2>4, <2>5, <2>6
  <2> QED
    BY <2>3, <2>7 DEF Ends
<1>2. Spec => [][A]_vars
  <2>1. IInv /\ [Next]_vars => [A]_vars
    BY <1>1
  <2> HIDE DEF A
  <2> QED
    BY <2>1, Invariant, PTL DEF Spec
<1> QED
  BY <1>2, Zenon DEF DestructorsRun

-----------------------------------------------------------------------------
(* The slots implement the life of identifiers (ThreadLife).                   *)

Status == [t \in Tids |-> StatusOf(t)]
Waiting == [j \in Tids |-> WaitsOf(j)]

(* What a used slot says about its identifier.                                 *)
SlotStatus(i) ==
    IF thread[i].state = "ZOMBIE" THEN "ended"
    ELSE IF life[i].detached THEN "detached" ELSE "joinable"
SlotWaits(i) == IF Joining(i) THEN thread[i].obj ELSE 0

(* The invariant in the form of the mapping: at each state an identifier is    *)
(* that of one slot, or of none.                                               *)
SlotsSpeak ==
    /\ \A i \in Slots : Used(i) =>
         /\ life[i].tid \in Tids /\ life[i].tid < nextTid
         /\ ByTid(life[i].tid) = {i}
         /\ StatusOf(life[i].tid) = SlotStatus(i) /\ WaitsOf(life[i].tid) = SlotWaits(i)
    /\ \A t \in Tids : ByTid(t) = {} =>
         /\ StatusOf(t) = IF t < nextTid THEN "gone" ELSE "never"
         /\ WaitsOf(t) = 0
    /\ \A t \in Tids : ByTid(t) # {} => t < nextTid

(* A state whose slots match speaks of every identifier.                      *)
LEMMA LiveSpeaks == Live => SlotsSpeak
<1> SUFFICES ASSUME Live PROVE SlotsSpeak
  OBVIOUS
<1>1. nextTid \in 2 .. MaxTid + 1 /\ MaxTid \in Nat
  BY DEF Live, TypeOK
<1>2. ASSUME NEW i \in Slots, Used(i)
      PROVE  life[i].tid \in Tids /\ life[i].tid < nextTid /\ ByTid(life[i].tid) = {i}
  <2>1. life[i].tid \in 1 .. nextTid - 1
    BY <1>2 DEF Live, SlotsMatch
  <2>2. ByTid(life[i].tid) = {i}
    BY <1>2 DEF ByTid, Live, SlotsMatch
  <2> QED
    BY <1>1, <2>1, <2>2 DEF Tids
<1>3. ASSUME NEW i \in Slots, Used(i)
      PROVE  StatusOf(life[i].tid) = SlotStatus(i)
  <2>1. ByTid(life[i].tid) = {i} /\ ~ (life[i].tid >= nextTid)
    BY <1>1, <1>2, <1>3 DEF Tids
  <2> QED
    BY <2>1 DEF StatusOf, SlotStatus
<1>4. ASSUME NEW i \in Slots, Used(i)
      PROVE  WaitsOf(life[i].tid) = SlotWaits(i)
  <2>1. ByTid(life[i].tid) = {i}
    BY <1>2, <1>4
  <2> QED
    BY <2>1 DEF WaitsOf, SlotWaits, Joining
<1>5. ASSUME NEW t \in Tids, ByTid(t) = {}
      PROVE  StatusOf(t) = (IF t < nextTid THEN "gone" ELSE "never") /\ WaitsOf(t) = 0
  <2>1. t < nextTid <=> ~ (t >= nextTid)
    BY <1>1 DEF Tids
  <2>2. StatusOf(t) = IF t < nextTid THEN "gone" ELSE "never"
    BY <1>5, <2>1 DEF StatusOf
  <2>3. WaitsOf(t) = 0
    BY <1>5 DEF WaitsOf
  <2> QED
    BY <2>2, <2>3
<1>6. ASSUME NEW t \in Tids, ByTid(t) # {}
      PROVE  t < nextTid
  <2>1. PICK i \in ByTid(t) : TRUE
    BY <1>6
  <2>2. i \in Slots /\ Used(i) /\ life[i].tid = t
    BY <2>1 DEF ByTid
  <2> QED
    BY <1>2, <2>2
<1> QED
  BY <1>2, <1>3, <1>4, <1>5, <1>6 DEF SlotsSpeak

(* An identifier whose slot, if it has one, says the same says the same.       *)
SameHolder(t) ==
    /\ \A i \in Slots : i \in ByTid(t) <=> i \in ByTid(t)'
    /\ t < nextTid <=> t < nextTid'

(* If the slot says the same, so does the mapping.                            *)
LEMMA SaysTheSame ==
    ASSUME SlotsSpeak, SlotsSpeak', NEW t \in Tids, SameHolder(t)
    PROVE  /\ (\A i \in ByTid(t) : SlotStatus(i)' = SlotStatus(i)) => StatusOf(t)' = StatusOf(t)
           /\ (\A i \in ByTid(t) : SlotWaits(i)' = SlotWaits(i)) => WaitsOf(t)' = WaitsOf(t)
<1>1. ByTid(t) \subseteq Slots /\ ByTid(t)' \subseteq Slots
  BY DEF ByTid
<1>2. CASE ByTid(t) = {}
  <2>1. ByTid(t)' = {}
    BY <1>1, <1>2 DEF SameHolder
  <2>2. StatusOf(t) = (IF t < nextTid THEN "gone" ELSE "never") /\ WaitsOf(t) = 0
    BY <1>2 DEF SlotsSpeak
  <2>3. StatusOf(t)' = (IF t < nextTid' THEN "gone" ELSE "never") /\ WaitsOf(t)' = 0
    BY <2>1 DEF SlotsSpeak
  <2> QED
    BY <2>2, <2>3 DEF SameHolder
<1>3. CASE ByTid(t) # {}
  <2>1. PICK i \in Slots : i \in ByTid(t)
    BY <1>1, <1>3
  <2>2. i \in ByTid(t)'
    BY <2>1 DEF SameHolder
  <2>3. Used(i) /\ life[i].tid = t /\ Used(i)' /\ life'[i].tid = t
    BY <2>1, <2>2 DEF ByTid
  <2>4. StatusOf(t) = SlotStatus(i) /\ WaitsOf(t) = SlotWaits(i)
    BY <2>3 DEF SlotsSpeak
  <2>5. StatusOf(t)' = SlotStatus(i)' /\ WaitsOf(t)' = SlotWaits(i)'
    BY <2>3 DEF SlotsSpeak
  <2> QED
    BY <2>1, <2>4, <2>5
<1> QED
  BY <1>2, <1>3

SameSlots ==
    /\ nextTid' = nextTid
    /\ \A i \in Slots : /\ Used(i)' <=> Used(i)
                        /\ Used(i) => life'[i].tid = life[i].tid

(* When no slot is taken or given back, every identifier keeps its holder.    *)
LEMMA SameSlotsHold ==
    ASSUME SameSlots
    PROVE  \A t \in Tids : SameHolder(t)
BY DEF SameSlots, SameHolder, ByTid

(* Nothing that an identifier stands for changes.                              *)
LEMMA NothingSaid ==
    ASSUME SlotsSpeak, SlotsSpeak', SameSlots,
           \A i \in Slots : Used(i) => SlotStatus(i)' = SlotStatus(i) /\ SlotWaits(i)' = SlotWaits(i)
    PROVE  Status' = Status /\ Waiting' = Waiting
<1>1. ASSUME NEW t \in Tids
      PROVE  StatusOf(t)' = StatusOf(t) /\ WaitsOf(t)' = WaitsOf(t)
  <2>1. SameHolder(t) /\ \A i \in ByTid(t) : i \in Slots /\ Used(i)
    BY SameSlotsHold DEF ByTid
  <2> QED
    BY <2>1, SaysTheSame
<1> QED
  BY <1>1 DEF Status, Waiting

(* One identifier changes its status.                                          *)
LEMMA OneMoves ==
    ASSUME NEW x \in Tids, \A t \in Tids \ {x} : StatusOf(t)' = StatusOf(t)
    PROVE  /\ Status'[x] = StatusOf(x)'
           /\ Status' = [Status EXCEPT ![x] = StatusOf(x)']
BY DEF Status

(* Nobody waits for another thread than before.                               *)
LEMMA SameWaits ==
    ASSUME \A t \in Tids : WaitsOf(t)' = WaitsOf(t)
    PROVE  Waiting' = Waiting
BY DEF Waiting

(* Joiners that stay wait for the same identifier.                             *)
LEMMA JoinersSaySame ==
    ASSUME JoinersStay
    PROVE  \A i \in Slots : SlotWaits(i)' = SlotWaits(i)
BY DEF JoinersStay, SlotWaits, Joining

(* A scheduling step is a wait, or a stutter.                                 *)
LEMMA QuietMaps ==
    ASSUME IInv, SlotsSpeak, SlotsSpeak', Quiet, JoinersStay \/ BeginsToWait
    PROVE  (Status' = Status /\ Waiting' = Waiting) \/ \E t \in Tids : Abstract!Wait(t)
<1>1. SameSlots /\ \A i \in Slots : SlotStatus(i)' = SlotStatus(i)
  BY DEF Quiet, SameStanding, SameSlots, SlotStatus, Used
<1>2. CASE JoinersStay
  BY <1>1, <1>2, JoinersSaySame, NothingSaid
<1>3. CASE BeginsToWait
  <2>1. /\ current \in Slots /\ thread[current].state = "RUNNABLE" /\ Used(current)
        /\ Self \in Tids /\ current' = current
        /\ \A i \in Slots : i # current => thread'[i] = thread[i]
        /\ thread'[current].state = "BLOCKED" /\ thread'[current].wait = "JOIN"
    BY <1>3, Running DEF BeginsToWait, Joining, Quiet
  <2>2. PICK k \in ByTid(thread'[current].obj) \ {current} :
           thread[k].state # "ZOMBIE" /\ ~life[k].detached
    BY <1>3 DEF BeginsToWait
  <2> PICK t : t = thread'[current].obj
    OBVIOUS
  <2> PICK j \in Tids : j = life[current].tid
    BY <2>1 DEF Self
  <2>3. k \in Slots /\ Used(k) /\ life[k].tid = t
    BY <2>2 DEF ByTid
  <2>4. t \in Tids /\ StatusOf(t) = "joinable"
    BY <2>2, <2>3 DEF SlotsSpeak, SlotStatus
  <2>5. t # j
    BY <2>1, <2>2, <2>3 DEF IInv, Live, SlotsMatch
  <2>6. StatusOf(j) \in {"joinable", "detached"} /\ WaitsOf(j) = 0
    BY <2>1 DEF SlotsSpeak, SlotStatus, SlotWaits, Joining
  <2>7. WaitsOf(j)' = t
    <3>1. Used(current)' /\ life'[current].tid = j
      BY <1>1, <2>1 DEF SameSlots
    <3>2. SlotWaits(current)' = t
      BY <2>1 DEF SlotWaits, Joining
    <3> QED
      BY <2>1, <3>1, <3>2 DEF SlotsSpeak
  <2>8. ASSUME NEW u \in Tids
        PROVE  StatusOf(u)' = StatusOf(u) /\ (u # j => WaitsOf(u)' = WaitsOf(u))
    <3>1. SameHolder(u)
      BY <1>1, SameSlotsHold
    <3>2. \A i \in ByTid(u) : i \in Slots
      BY DEF ByTid
    <3>3. u # j => \A i \in ByTid(u) : SlotWaits(i)' = SlotWaits(i)
      BY <2>1 DEF SlotWaits, Joining, ByTid
    <3> QED
      BY <1>1, <3>1, <3>2, <3>3, SaysTheSame
  <2>9. Status' = Status
    BY <2>8 DEF Status
  <2>10. Waiting' = [Waiting EXCEPT ![j] = t] /\ Waiting'[j] = t /\ Waiting[j] = 0
    BY <2>6, <2>7, <2>8 DEF Waiting
  <2>11. t # 0
    BY <2>4 DEF Tids
  <2>12. Abstract!Wait(j)
    BY <2>4, <2>5, <2>6, <2>9, <2>10, <2>11
       DEF Abstract!Wait, Abstract!Alive, Status, Waiting
  <2> QED
    BY <2>12
<1> QED
  BY <1>2, <1>3

(* A step that changes what slots remember is a detach, or a stutter.         *)
LEMMA NotesMap ==
    ASSUME IInv, SlotsSpeak, SlotsSpeak', Notes,
           DetachedKept \/ \E i \in Slots : Detaches(i)
    PROVE  (Status' = Status /\ Waiting' = Waiting) \/ \E t \in Tids : Abstract!Detach(t)
<1>1. SameSlots /\ UNCHANGED thread
  BY DEF Notes, SameSlots, Used
<1>2. \A i \in Slots : SlotWaits(i)' = SlotWaits(i)
  BY <1>1 DEF SlotWaits, Joining
<1>3. CASE DetachedKept
  <2>1. \A i \in Slots : SlotStatus(i)' = SlotStatus(i)
    BY <1>1, <1>3 DEF SlotStatus, DetachedKept
  <2> QED
    BY <1>1, <1>2, <2>1, NothingSaid
<1>4. CASE \E i \in Slots : Detaches(i)
  <2>1. PICK i \in Slots : Detaches(i)
    BY <1>4
  <2>2. /\ Used(i) /\ SlotStatus(i) = "joinable" /\ SlotStatus(i)' = "detached"
        /\ \A j \in Slots : j # i => SlotStatus(j)' = SlotStatus(j)
    BY <1>1, <2>1 DEF Detaches, SlotStatus
  <2> PICK t : t = life[i].tid
    OBVIOUS
  <2>3. t \in Tids /\ StatusOf(t) = "joinable"
    BY <2>2 DEF SlotsSpeak
  <2>4. StatusOf(t)' = "detached"
    <3>1. Used(i)' /\ life'[i].tid = t
      BY <1>1, <2>2 DEF SameSlots
    <3> QED
      BY <2>2, <3>1 DEF SlotsSpeak
  <2>5. ASSUME NEW u \in Tids
        PROVE  WaitsOf(u)' = WaitsOf(u) /\ (u # t => StatusOf(u)' = StatusOf(u))
    <3>1. SameHolder(u)
      BY <1>1, SameSlotsHold
    <3>2. \A j \in ByTid(u) : j \in Slots
      BY DEF ByTid
    <3>3. u # t => \A j \in ByTid(u) : SlotStatus(j)' = SlotStatus(j)
      BY <2>2 DEF ByTid
    <3> QED
      BY <1>2, <3>1, <3>2, <3>3, SaysTheSame
  <2>6. Status'[t] = "detached" /\ Status' = [Status EXCEPT ![t] = "detached"]
    BY <2>3, <2>4, <2>5, OneMoves
  <2>7. Waiting' = Waiting
    BY <2>5, SameWaits
  <2>8. Abstract!Detach(t)
    BY <2>3, <2>6, <2>7 DEF Abstract!Detach, Abstract!Moves, Status, Waiting
  <2> QED
    BY <2>3, <2>8
<1> QED
  BY <1>3, <1>4

(* The identifiers that a change of slot i does not concern.                   *)
OtherSlotsKept(i) ==
    \A j \in Slots : j # i =>
        /\ Used(j)' <=> Used(j)
        /\ life'[j].tid = life[j].tid /\ SlotStatus(j)' = SlotStatus(j)

(* An identifier that slot i neither had nor gets keeps its holder.           *)
LEMMA OthersHold ==
    ASSUME NEW i \in Slots, OtherSlotsKept(i), NEW t \in Tids,
           Used(i) => life[i].tid # t, Used(i)' => life'[i].tid # t,
           t < nextTid <=> t < nextTid'
    PROVE  SameHolder(t) /\ \A j \in ByTid(t) : j \in Slots /\ j # i
BY DEF OtherSlotsKept, SameHolder, ByTid

(* Taking a slot creates the next identifier.                                 *)
LEMMA BirthMaps ==
    ASSUME IInv, IInv', SlotsSpeak, SlotsSpeak', NEW i \in Slots, Births(i), JoinersStay
    PROVE  \E t \in Tids : Abstract!Create(t)
<1>1. /\ ~Used(i) /\ Used(i)' /\ life'[i].tid = nextTid /\ nextTid' = nextTid + 1
      /\ OtherSlotsKept(i)
  BY DEF Births, SameStanding, SlotStatus, Used, OtherSlotsKept
<1> PICK t : t = nextTid
  OBVIOUS
<1>2. t \in Tids /\ nextTid \in Nat
  BY <1>1 DEF IInv, Live, TypeOK, SlotsSpeak
<1>3. ByTid(t) = {} /\ StatusOf(t) = "never" /\ WaitsOf(t) = 0
  <2>1. ~ (t < nextTid)
    BY <1>2
  <2> QED
    BY <1>2, <2>1 DEF SlotsSpeak
<1>4. StatusOf(t)' \in {"joinable", "detached"} /\ WaitsOf(t)' = 0
  <2>1. StatusOf(t)' = SlotStatus(i)' /\ WaitsOf(t)' = SlotWaits(i)'
    BY <1>1 DEF SlotsSpeak
  <2> QED
    BY <2>1 DEF SlotStatus, SlotWaits, Joining, Births
<1>5. ASSUME NEW u \in Tids, u # t
      PROVE  StatusOf(u)' = StatusOf(u) /\ WaitsOf(u)' = WaitsOf(u)
  <2>1. u < nextTid <=> u < nextTid'
    BY <1>1, <1>2, <1>5 DEF Tids
  <2>2. SameHolder(u) /\ \A j \in ByTid(u) : j \in Slots /\ j # i
    BY <1>1, <1>5, <2>1, OthersHold
  <2>3. \A j \in ByTid(u) : SlotStatus(j)' = SlotStatus(j) /\ SlotWaits(j)' = SlotWaits(j)
    BY <1>1, <2>2, JoinersSaySame DEF OtherSlotsKept
  <2> QED
    BY <2>2, <2>3, SaysTheSame
<1>6. \E s \in {"joinable", "detached"} : Status'[t] = s /\ Status' = [Status EXCEPT ![t] = s]
  <2> PICK s \in {"joinable", "detached"} : s = StatusOf(t)'
    BY <1>4
  <2>1. Status'[t] = s /\ Status' = [Status EXCEPT ![t] = s]
    BY <1>2, <1>5, OneMoves
  <2> QED
    BY <2>1
<1>7. Waiting' = Waiting
  BY <1>3, <1>4, <1>5, SameWaits
<1>8. Abstract!Create(t)
  BY <1>2, <1>3, <1>6, <1>7 DEF Abstract!Create, Abstract!Moves, Abstract!Alive, Status, Waiting
<1> QED
  BY <1>2, <1>8

(* Giving back the slot of an ended thread collects its identifier.           *)
LEMMA ReapMaps ==
    ASSUME IInv, SlotsSpeak, SlotsSpeak', NEW i \in Slots, Reaps(i), JoinersStay
    PROVE  \E t \in Tids : Abstract!Collect(t)
<1>1. /\ Used(i) /\ SlotStatus(i) = "ended" /\ SlotWaits(i) = 0
      /\ ~Used(i)' /\ nextTid' = nextTid /\ OtherSlotsKept(i)
  BY SlotFields DEF Reaps, SameStanding, SlotStatus, SlotWaits, Joining, Used, OtherSlotsKept
<1> PICK t : t = life[i].tid
  OBVIOUS
<1>2. t \in Tids /\ t < nextTid /\ StatusOf(t) = "ended" /\ WaitsOf(t) = 0 /\ ByTid(t) = {i}
  BY <1>1 DEF SlotsSpeak
<1>3. StatusOf(t)' = "gone" /\ WaitsOf(t)' = 0
  <2>1. ByTid(t)' = {}
    <3>1. \A j \in Slots : j # i => (Used(j)' <=> Used(j)) /\ life'[j].tid = life[j].tid
      BY <1>1 DEF OtherSlotsKept
    <3> QED
      BY <1>1, <1>2, <3>1 DEF ByTid
  <2> QED
    BY <1>1, <1>2, <2>1 DEF SlotsSpeak
<1>4. ASSUME NEW u \in Tids, u # t
      PROVE  StatusOf(u)' = StatusOf(u) /\ WaitsOf(u)' = WaitsOf(u)
  <2>1. SameHolder(u) /\ \A j \in ByTid(u) : j \in Slots /\ j # i
    BY <1>1, <1>4, OthersHold
  <2>2. \A j \in ByTid(u) : SlotStatus(j)' = SlotStatus(j) /\ SlotWaits(j)' = SlotWaits(j)
    BY <1>1, <2>1, JoinersSaySame DEF OtherSlotsKept
  <2> QED
    BY <2>1, <2>2, SaysTheSame
<1>5. Status'[t] = "gone" /\ Status' = [Status EXCEPT ![t] = "gone"]
  BY <1>2, <1>3, <1>4, OneMoves
<1>6. Waiting' = Waiting
  BY <1>2, <1>3, <1>4, SameWaits
<1>7. Abstract!Collect(t)
  BY <1>2, <1>5, <1>6 DEF Abstract!Collect, Abstract!Moves, Status, Waiting
<1> QED
  BY <1>2, <1>7

(* The end of the running thread ends its identifier and releases its joiners.*)
LEMMA EndMaps ==
    ASSUME IInv, SlotsSpeak, SlotsSpeak', Ends
    PROVE  \E t \in Tids : Abstract!End(t)
<1>1. /\ Used(current) /\ SlotWaits(current) = 0
      /\ SlotStatus(current) = IF life[current].detached THEN "detached" ELSE "joinable"
      /\ nextTid' = nextTid /\ OtherSlotsKept(current) /\ current \in Slots
  BY DEF Ends, SameStanding, SlotStatus, SlotWaits, Joining, Used, OtherSlotsKept
<1> PICK c \in Slots : c = current
  BY <1>1
<1> PICK t : t = life[c].tid
  OBVIOUS
<1>2. t \in Tids /\ t < nextTid /\ StatusOf(t) = SlotStatus(c) /\ WaitsOf(t) = 0 /\ ByTid(t) = {c}
  BY <1>1 DEF SlotsSpeak
<1>3. /\ StatusOf(t)' = IF StatusOf(t) = "detached" THEN "gone" ELSE "ended"
      /\ WaitsOf(t)' = 0
  <2>1. CASE life[c].detached
    <3>1. ~Used(c)' /\ \A j \in Slots : j # c => (Used(j)' <=> Used(j)) /\ life'[j].tid = life[j].tid
      BY <1>1, <2>1 DEF OtherSlotsKept, Ends, Used
    <3>2. ByTid(t)' = {}
      BY <1>2, <3>1 DEF ByTid
    <3> QED
      BY <1>1, <1>2, <2>1, <3>2 DEF SlotsSpeak
  <2>2. CASE ~life[c].detached
    <3>1. Used(c)' /\ life'[c].tid = t /\ thread'[c].state = "ZOMBIE"
      BY <2>2 DEF Ends, Used
    <3>2. SlotStatus(c)' = "ended" /\ SlotWaits(c)' = 0
      BY <3>1 DEF SlotStatus, SlotWaits, Joining
    <3> QED
      BY <1>1, <1>2, <2>2, <3>1, <3>2 DEF SlotsSpeak
  <2> QED
    BY <2>1, <2>2
<1>4. ASSUME NEW u \in Tids, u # t
      PROVE  /\ StatusOf(u)' = StatusOf(u)
             /\ WaitsOf(u)' = IF WaitsOf(u) = t THEN 0 ELSE WaitsOf(u)
  <2>1. SameHolder(u) /\ \A j \in ByTid(u) : j \in Slots /\ j # c
    <3>1. Used(c)' => life'[c].tid = t
      BY DEF Ends, Used
    <3>2. OtherSlotsKept(c) /\ (u < nextTid <=> u < nextTid')
      BY <1>1
    <3> QED
      BY <1>4, <3>1, <3>2, OthersHold
  <2>2. StatusOf(u)' = StatusOf(u)
    BY <1>1, <2>1, SaysTheSame DEF OtherSlotsKept
  <2>3. t # 0
    BY <1>2 DEF Tids
  <2>4. CASE ByTid(u) = {}
    <3>1. WaitsOf(u) = 0
      BY <2>4 DEF SlotsSpeak
    <3>2. WaitsOf(u)' = WaitsOf(u)
      BY <2>1, <2>4, SaysTheSame
    <3> QED
      BY <2>2, <2>3, <3>1, <3>2
  <2>5. CASE ByTid(u) # {}
    <3>1. PICK j \in ByTid(u) : j \in Slots /\ j # c
      BY <2>1, <2>5
    <3>2. Used(j) /\ life[j].tid = u /\ Used(j)' /\ life'[j].tid = u
      BY <2>1, <3>1 DEF ByTid, SameHolder
    <3>3. WaitsOf(u) = SlotWaits(j) /\ WaitsOf(u)' = SlotWaits(j)'
      BY <3>1, <3>2 DEF SlotsSpeak
    <3>4. SlotWaits(j)' = IF SlotWaits(j) = t THEN 0 ELSE SlotWaits(j)
      <4>1. /\ StaysAwake(j)
            /\ thread'[j].state = "BLOCKED" => j \notin JoinersOf(t)
            /\ Joining(j) /\ j \notin JoinersOf(t) => thread'[j] = thread[j]
        BY <3>1 DEF Ends
      <4>2. Joining(j) => (j \in JoinersOf(t) <=> thread[j].obj = t)
        BY <3>1 DEF Joining, JoinersOf
      <4>3. CASE Joining(j) /\ thread[j].obj = t
        BY <4>1, <4>2, <4>3 DEF SlotWaits, Joining
      <4>4. CASE Joining(j) /\ thread[j].obj # t
        BY <4>1, <4>2, <4>4 DEF SlotWaits, Joining
      <4>5. CASE ~Joining(j)
        BY <2>3, <4>1, <4>5 DEF SlotWaits, Joining, StaysAwake
      <4> QED
        BY <4>3, <4>4, <4>5
    <3> QED
      BY <2>2, <3>3, <3>4
  <2> QED
    BY <2>4, <2>5
<1> PICK s : s = IF StatusOf(t) = "detached" THEN "gone" ELSE "ended"
  OBVIOUS
<1>5. Status'[t] = s /\ Status' = [Status EXCEPT ![t] = s]
  BY <1>2, <1>3, <1>4, OneMoves
<1>6. Waiting' = [j \in Tids |-> IF Waiting[j] = t THEN 0 ELSE Waiting[j]]
  <2>1. t # 0
    BY <1>2 DEF Tids
  <2> QED
    BY <1>2, <1>3, <1>4, <2>1 DEF Waiting
<1>7. StatusOf(t) \in {"joinable", "detached"}
  BY <1>1, <1>2
<1>8. Abstract!End(t)
  BY <1>2, <1>5, <1>6, <1>7 DEF Abstract!End, Abstract!Moves, Abstract!Alive, Status, Waiting
<1> QED
  BY <1>2, <1>8

(* Initializers do not concern identifiers.                                   *)
LEMMA StackMaps ==
    ASSUME IInv, TypeOK', SlotsSpeak, SlotsSpeak', inQuantum, JoinersStay,
           (\E o \in Onces : Enters(o)) \/ (\E o : Leaves(o))
    PROVE  Status' = Status /\ Waiting' = Waiting
<1>1. current \in Slots /\ thread[current].state = "RUNNABLE"
  BY Running
<1>2. \E s : /\ life' = [life EXCEPT ![current].frames = s] /\ UNCHANGED <<keys, nextTid>>
             /\ \A i \in Slots : SameStanding(i) /\ StaysAwake(i)
  <2>1. CASE \E o \in Onces : Enters(o)
    BY <2>1 DEF Enters
  <2>2. CASE \E o : Leaves(o)
    <3>1. PICK o : Leaves(o)
      BY <2>2
    <3>2. \A i \in Slots : SameStanding(i) /\ StaysAwake(i)
      BY <3>1 DEF Leaves, SameStanding, StaysAwake
    <3> QED
      BY <3>1, <3>2 DEF Leaves
  <2> QED
    BY <2>1, <2>2
<1>3. \A i \in Slots : life'[i].tid = life[i].tid /\ life'[i].detached = life[i].detached
  BY <1>1, <1>2, StackStep
<1>4. SameSlots /\ \A i \in Slots : SlotStatus(i)' = SlotStatus(i)
  BY <1>2, <1>3 DEF SameSlots, SameStanding, SlotStatus, Used
<1> QED
  BY <1>4, JoinersSaySame, NothingSaid

(* Every step is a step of ThreadLife or a stutter.                           *)
LEMMA StepMaps ==
    ASSUME IInv, IInv', SlotsSpeak, SlotsSpeak', [Next]_vars
    PROVE  Abstract!Next \/ (Status' = Status /\ Waiting' = Waiting)
<1>1. TypeOK'
  BY DEF IInv, Live
<1>2. \/ Quiet /\ (JoinersStay \/ BeginsToWait)
      \/ Notes /\ (DetachedKept \/ \E i \in Slots : Detaches(i))
      \/ inQuantum /\ Ends
      \/ JoinersStay /\ \E i \in Slots : Births(i) \/ Reaps(i)
      \/ JoinersStay /\ inQuantum /\ \E o \in Onces : Enters(o)
      \/ JoinersStay /\ inQuantum /\ \E o : Leaves(o)
  BY StepKinds
<1>3. \/ Status' = Status /\ Waiting' = Waiting
      \/ \E t \in Tids : \/ Abstract!Create(t) \/ Abstract!End(t) \/ Abstract!Detach(t)
                         \/ Abstract!Collect(t) \/ Abstract!Wait(t)
  BY <1>1, <1>2, QuietMaps, NotesMap, BirthMaps, ReapMaps, EndMaps, StackMaps
<1> QED
  BY <1>3 DEF Abstract!Next

(* At first the main thread is joinable and no other identifier was given out.*)
LEMMA InitMaps == Init /\ SlotsSpeak => Abstract!Init
<1> SUFFICES ASSUME Init, SlotsSpeak PROVE Abstract!Init
  OBVIOUS
<1>1. /\ Main \in Slots /\ Used(Main) /\ life[Main].tid = 1 /\ life[Main].detached = FALSE
      /\ thread[Main].state = "RUNNABLE" /\ nextTid = 2
  BY MainIsSlot DEF Init, Born, Prepared, Used
<1>2. StatusOf(1) = "joinable" /\ WaitsOf(1) = 0
  <2>1. SlotStatus(Main) = "joinable" /\ SlotWaits(Main) = 0
    BY <1>1 DEF SlotStatus, SlotWaits, Joining
  <2> QED
    BY <1>1, <2>1 DEF SlotsSpeak
<1>3. ASSUME NEW t \in Tids, t # 1
      PROVE  StatusOf(t) = "never" /\ WaitsOf(t) = 0
  <2>1. ~ (t < nextTid)
    BY <1>1, <1>3 DEF Tids
  <2>2. ByTid(t) = {}
    BY <2>1 DEF SlotsSpeak
  <2> QED
    BY <2>1, <2>2 DEF SlotsSpeak
<1> QED
  BY <1>2, <1>3 DEF Abstract!Init, Status, Waiting

(* The slots implement ThreadLife: a create, join, detach or exit is one step  *)
(* in the life of one identifier, which is collected once, although the slots  *)
(* are reused; every other action leaves all identifiers as they are.          *)
THEOREM SlotsImplementLives == Spec => ImplementsThreadLife
<1>1. Init => Abstract!Init
  BY InitIInv, LiveSpeaks, InitMaps DEF IInv
<1>2. IInv /\ IInv' /\ SlotsSpeak /\ SlotsSpeak' /\ [Next]_vars => [Abstract!Next]_(Abstract!vars)
  <2>1. SUFFICES ASSUME IInv, IInv', SlotsSpeak, SlotsSpeak', [Next]_vars
                 PROVE  [Abstract!Next]_(Abstract!vars)
    OBVIOUS
  <2>2. Abstract!Next \/ (Status' = Status /\ Waiting' = Waiting)
    BY <2>1, StepMaps
  <2> QED
    BY <2>2 DEF Abstract!vars, Status, Waiting
<1>3. IInv => SlotsSpeak
  BY LiveSpeaks DEF IInv
<1> QED
  BY <1>1, <1>2, <1>3, Invariant, PTL DEF Spec, ImplementsThreadLife, Abstract!Spec
=============================================================================
