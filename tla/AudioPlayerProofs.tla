--------------------------- MODULE AudioPlayerProofs ---------------------------
(***************************************************************************)
(* Theorems about AudioPlayer, for every ring, queue and slice size:       *)
(*                                                                         *)
(*   - a posted callback is the one registered now;                        *)
(*   - while the pump never drains a buffer that is half played, the ring  *)
(*     implements the buffer queue and plays its stream byte by byte.      *)
(*                                                                         *)
(* The condition of the second is the one the code does not establish: see *)
(* the run AudioDrain.                                                     *)
(***************************************************************************)
EXTENDS AudioPlayer, SequenceTheorems, TLAPS

-----------------------------------------------------------------------------
(* Positions modulo the size of a ring. *)

(* The only multiple of n smaller than n, on either side, is zero. *)
LEMMA NoMultiple ==
    ASSUME NEW n \in Nat \ {0}, NEW k \in Int, 0 - n < n * k, n * k < n
    PROVE  k = 0
<1>1. CASE k >= 1
  <2>1. n * k >= n * 1
    BY <1>1, Z3
  <2> QED BY <2>1
<1>2. CASE k =< 0 - 1
  <2>1. n * k =< n * (0 - 1)
    BY <1>2, Z3
  <2> QED BY <2>1
<1> QED BY <1>1, <1>2

(* What div and mod by a positive number are. *)
LEMMA Division ==
    ASSUME NEW n \in Nat \ {0}, NEW a \in Int
    PROVE  /\ a = (n * (a \div n)) + (a % n)
           /\ a % n \in 0 .. n - 1
           /\ a \div n \in Int
OBVIOUS

(* The remainder is the only r below n that completes a multiple of n. *)
LEMMA Remainder ==
    ASSUME NEW n \in Nat \ {0}, NEW a \in Int,
           NEW q \in Int, NEW r \in 0 .. n - 1, a = (n * q) + r
    PROVE  a % n = r
<1>1. PICK d \in Int : d = a \div n
  BY Division
<1>2. PICK m \in 0 .. n - 1 : m = a % n
  BY Division
<1>3. a = (n * d) + m
  BY Division, <1>1, <1>2
<1>4. (n * q) - (n * d) = n * (q - d)
  OBVIOUS
<1>5. n * (q - d) = m - r
  <2>1. n * q \in Int /\ n * d \in Int
    OBVIOUS
  <2> QED BY <1>3, <1>4, <2>1
<1>6. q - d = 0
  BY <1>5, NoMultiple
<1> QED BY <1>2, <1>5, <1>6

(* Two positions less than a ring apart are in different slots of it. *)
LEMMA SameRemainder ==
    ASSUME NEW n \in Nat \ {0}, NEW a \in Int, NEW b \in Int,
           a % n = b % n, 0 =< b - a, b - a < n
    PROVE  a = b
<1>1. PICK d \in Int : d = a \div n
  BY Division
<1>2. PICK e \in Int : e = b \div n
  BY Division
<1>3. PICK m \in 0 .. n - 1 : m = a % n /\ m = b % n
  BY Division
<1>4. a = (n * d) + m
  BY Division, <1>1, <1>3
<1>5. b = (n * e) + m
  BY Division, <1>2, <1>3
<1>6. (n * e) - (n * d) = n * (e - d)
  OBVIOUS
<1>7. n * e \in Int /\ n * d \in Int
  OBVIOUS
<1>8. n * (e - d) = b - a
  BY <1>4, <1>5, <1>6, <1>7
<1>9. e - d = 0
  BY <1>8, NoMultiple
<1> QED BY <1>8, <1>9

(* How far the slot of position p lies behind that of position w: the offset *)
(* by which Enqueue finds what to store in a slot.                           *)
LEMMA OffsetAhead ==
    ASSUME NEW n \in Nat \ {0}, NEW p \in Int, NEW w \in Int, p - w \in 0 .. n - 1
    PROVE  ((p % n) - w) % n = p - w
<1>1. PICK d \in Int : d = p \div n
  BY Division
<1>2. PICK m \in 0 .. n - 1 : m = p % n
  BY Division
<1>3. p = (n * d) + m
  BY Division, <1>1, <1>2
<1>4. PICK e \in Int : e = 0 - d
  OBVIOUS
<1>5. n * e = 0 - (n * d)
  BY <1>4
<1>6. PICK r \in 0 .. n - 1 : r = p - w
  OBVIOUS
<1>7. PICK a \in Int : a = m - w
  OBVIOUS
<1>8. n * d \in Int /\ n * e \in Int
  OBVIOUS
<1>9. a = (n * e) + r
  BY <1>3, <1>5, <1>6, <1>7, <1>8
<1>10. a % n = r
  BY <1>9, Remainder
<1> QED BY <1>2, <1>6, <1>7, <1>10

(* And of a position that is still to be read, behind w. *)
LEMMA OffsetBehind ==
    ASSUME NEW n \in Nat \ {0}, NEW p \in Int, NEW w \in Int, w - p \in 1 .. n
    PROVE  ((p % n) - w) % n = n - (w - p)
<1>1. PICK d \in Int : d = p \div n
  BY Division
<1>2. PICK m \in 0 .. n - 1 : m = p % n
  BY Division
<1>3. p = (n * d) + m
  BY Division, <1>1, <1>2
<1>4. PICK e \in Int : e = 0 - 1 - d
  OBVIOUS
<1>5. n * e = 0 - n - (n * d)
  BY <1>4
<1>6. PICK r \in 0 .. n - 1 : r = n - (w - p)
  OBVIOUS
<1>7. PICK a \in Int : a = m - w
  OBVIOUS
<1>8. n * d \in Int /\ n * e \in Int
  OBVIOUS
<1>9. a = (n * e) + r
  BY <1>3, <1>5, <1>6, <1>7, <1>8
<1>10. a % n = r
  BY <1>9, Remainder
<1> QED BY <1>2, <1>6, <1>7, <1>10

-----------------------------------------------------------------------------
(***************************************************************************)
(* The inductive invariant.  A render in progress works on its own copies  *)
(* of the positions, so the invariant speaks of the positions the audio    *)
(* thread has reached, published or not.                                   *)
(***************************************************************************)
Rd == IF pull.at = "idle" THEN read ELSE pull.rd
Qr == IF pull.at = "idle" THEN qRead ELSE pull.qr
Finished == IF pull.at = "idle" THEN played ELSE pull.done

(* Where the k-th buffer ends, and the bytes copied so far, shown or not. *)
End(k) == IF k = 0 THEN 0 ELSE ends[k]
Copied == IF push.at = "copied" THEN write + push.size ELSE write

PushPlaces == {"idle", "copied", "written", "queued"}
PullPlaces == {"idle", "loop", "read", "queue"}

Shapes ==
    /\ pcm \in [0 .. RingBytes - 1 -> Int]
    /\ write \in Nat /\ read \in Nat
    /\ qsize \in [0 .. QueueSlots - 1 -> Nat]
    /\ qWrite \in Nat /\ qRead \in Nat /\ played \in Nat /\ qLeft \in Nat
    /\ fired \in Nat
    /\ push \in [at : PushPlaces, size : Nat]
    /\ pull \in [at : PullPlaces, want : Nat, got : Nat, rd : Nat,
                 qr : Nat, qw : Nat, done : Nat]
    /\ ends \in Seq(Nat)
    /\ push.at \in {"copied", "written"} => push.size \in Sizes

(* The history of the stream: the buffers published so far, end to end. *)
EndsAreOrdered ==
    /\ qWrite = Len(ends)
    /\ \A i, j \in 0 .. qWrite : i =< j => End(i) =< End(j)
    /\ write = End(qWrite) + (IF push.at = "written" THEN push.size ELSE 0)

(* What the pump sees lags behind what the audio thread has done. *)
PositionsAreOrdered ==
    /\ fired =< played
    /\ played =< qRead /\ qRead =< Qr /\ Qr =< qWrite
    /\ Finished = Qr
    /\ read =< Rd
    /\ End(played) =< read

(* The positions are published in order: bytes, buffers, buffers played. *)
PullsInOrder ==
    /\ pull.at = "loop" => /\ pull.qr =< pull.qw /\ pull.qw =< qWrite
                           /\ qLeft > 0 => pull.qr < pull.qw
    /\ pull.at \in {"read", "queue"} => read = pull.rd
    /\ pull.at = "queue" => qRead = pull.qr

(* The byte to be played next lies in the buffer to be finished next. *)
ReadsInItsBuffer ==
    /\ End(Qr) =< Rd
    /\ qLeft = 0 => Rd = End(Qr)
    /\ qLeft > 0 => Qr < qWrite /\ Rd + qLeft = End(Qr + 1)

(* Neither ring holds more than it has room for. *)
RingsHaveRoom ==
    /\ Copied - read =< RingBytes
    /\ qWrite - qRead =< QueueSlots
    /\ push.at \in {"copied", "written"} => qWrite - qRead < QueueSlots

(* What the rings hold is what the guest put there. *)
SizesAreKept ==
    \A k \in Qr .. qWrite - 1 : qsize[k % QueueSlots] = End(k + 1) - End(k)
BytesAreKept ==
    \A p \in Rd .. Copied - 1 : pcm[p % RingBytes] = p
BuffersAreReal ==
    \A k \in Qr .. qWrite - 1 : qsize[k % QueueSlots] \in Sizes

(* The unit runs only for a playing player, and renders only while it runs. *)
DeviceIsSound ==
    /\ device \in [unit : BOOLEAN, running : BOOLEAN, silent : BOOLEAN]
    /\ device.running => state = "PLAYING" /\ device.unit
    /\ device.silent => ~device.running
    /\ pull.at # "idle" => device.running

-----------------------------------------------------------------------------
(* The output unit. *)

(* The device before any step. *)
LEMMA DeviceInit == Init => DeviceIsSound
BY DEF Init, DeviceIsSound, NoDevice, NoPull

(* What audio_sync leaves is an output unit, running for a playing player    *)
(* only, and the same one if it was running already.                         *)
LEMMA SyncedIsSound ==
    ASSUME NEW d \in [unit : BOOLEAN, running : BOOLEAN, silent : BOOLEAN],
           NEW s, NEW e \in Synced(d, s),
           d.running => d.unit, d.silent => ~d.running
    PROVE  /\ e \in [unit : BOOLEAN, running : BOOLEAN, silent : BOOLEAN]
           /\ e.running => s = "PLAYING" /\ e.unit
           /\ e.silent => ~e.running
           /\ d.running /\ s = "PLAYING" => e = d
<1>1. CASE s # "PLAYING"
  BY <1>1 DEF Synced
<1>2. CASE s = "PLAYING" /\ d.running
  BY <1>2 DEF Synced
<1>3. CASE s = "PLAYING" /\ ~d.running /\ e = d
  BY <1>3
<1>4. CASE /\ s = "PLAYING" /\ ~d.running
           /\ \E outcome \in Outcomes : e = Started(d, outcome)
  <2>1. PICK outcome \in Outcomes : e = Started(d, outcome)
    BY <1>4
  <2>2. \/ e = [d EXCEPT !.silent = FALSE]
        \/ e = [unit |-> FALSE, running |-> FALSE, silent |-> TRUE]
        \/ e = [unit |-> TRUE, running |-> TRUE, silent |-> FALSE]
    BY <2>1 DEF Started, Silenced
  <2>3. CASE e = [d EXCEPT !.silent = FALSE]
    <3>1. e.running = d.running /\ e.silent = FALSE
      BY <2>3
    <3>2. e \in [unit : BOOLEAN, running : BOOLEAN, silent : BOOLEAN]
      BY <2>3
    <3> QED BY <1>4, <3>1, <3>2
  <2>4. CASE e = [unit |-> FALSE, running |-> FALSE, silent |-> TRUE]
    BY <1>4, <2>4
  <2>5. CASE e = [unit |-> TRUE, running |-> TRUE, silent |-> FALSE]
    BY <1>4, <2>5
  <2> QED BY <2>2, <2>3, <2>4, <2>5
<1> QED BY <1>1, <1>2, <1>3, <1>4 DEF Synced

(* No step leaves a render in progress without its unit. *)
LEMMA DeviceStep == DeviceIsSound /\ [Next]_vars => DeviceIsSound'
<1> SUFFICES ASSUME DeviceIsSound, [Next]_vars PROVE DeviceIsSound'
  OBVIOUS
<1> USE DEF DeviceIsSound
<1>1. CASE UNCHANGED vars
  BY <1>1 DEF vars
<1>2. CASE AudioThread
  <2>1. ASSUME NEW want \in Wants, RenderBegins(want) PROVE DeviceIsSound'
    BY <2>1 DEF RenderBegins
  <2>2. CASE RenderCopies
    <3>1. pull.at = "loop" /\ UNCHANGED <<device, state>>
      BY <2>2 DEF RenderCopies
    <3> QED BY <3>1
  <2>3. CASE PublishRead
    BY <2>3 DEF PublishRead
  <2>4. CASE PublishQueue
    BY <2>4 DEF PublishQueue
  <2>5. CASE PublishPlayed
    BY <2>5 DEF PublishPlayed, NoPull
  <2> QED BY <1>2, <2>1, <2>2, <2>3, <2>4, <2>5 DEF AudioThread
<1>3. CASE PushStep
  <2>1. CASE PublishBytes \/ PublishBuffer
    BY <2>1 DEF PublishBytes, PublishBuffer
  <2>2. CASE EnqueueReturns
    <3>1. device' \in Synced(device, state) /\ UNCHANGED <<state, pull>>
      BY <2>2 DEF EnqueueReturns
    <3> QED BY <3>1, SyncedIsSound
  <2> QED BY <1>3, <2>1, <2>2 DEF PushStep
<1>4. CASE Pump
  <2>1. UNCHANGED <<state, pull>>
    BY <1>4 DEF Pump
  <2>2. CASE UNCHANGED device
    BY <2>1, <2>2
  <2>3. CASE /\ CanStop
             /\ device' \in Synced([Closed(device) EXCEPT !.silent = FALSE], state)
    <3> DEFINE closed == Closed(device)
                anew == [closed EXCEPT !.silent = FALSE]
    <3>1. closed \in [unit : BOOLEAN, running : BOOLEAN, silent : BOOLEAN]
          /\ closed.running = FALSE
      BY DEF Closed
    <3> HIDE DEF closed
    <3>2. anew \in [unit : BOOLEAN, running : BOOLEAN, silent : BOOLEAN]
          /\ anew.running = FALSE /\ anew.silent = FALSE
      BY <3>1
    <3>3. device' \in Synced(anew, state)
      BY <2>3 DEF closed
    <3> HIDE DEF anew
    <3>4. /\ device' \in [unit : BOOLEAN, running : BOOLEAN, silent : BOOLEAN]
          /\ device'.running => state = "PLAYING" /\ device'.unit
          /\ device'.silent => ~device'.running
      BY <3>2, <3>3, SyncedIsSound
    <3>5. pull.at = "idle"
      BY <2>3 DEF CanStop
    <3> QED BY <2>1, <3>4, <3>5
  <2> QED BY <1>4, <2>2, <2>3 DEF Pump
<1>5. CASE GuestStep
  <2>1. ASSUME NEW n \in Sizes, Enqueue(n) PROVE DeviceIsSound'
    BY <2>1 DEF Enqueue
  <2>2. ASSUME NEW s \in {"STOPPED", "PLAYING"}, SetPlayState(s) PROVE DeviceIsSound'
    <3>1. /\ device' \in Synced(device, s) /\ state' = s /\ UNCHANGED pull
          /\ s # "PLAYING" => pull.at = "idle"
      BY <2>2 DEF SetPlayState, CanStop
    <3>2. /\ device' \in [unit : BOOLEAN, running : BOOLEAN, silent : BOOLEAN]
          /\ device'.running => s = "PLAYING" /\ device'.unit
          /\ device'.silent => ~device'.running
          /\ device.running /\ s = "PLAYING" => device' = device
      BY <3>1, SyncedIsSound
    <3> QED BY <3>1, <3>2
  <2>3. ASSUME NEW f \in Callbacks \cup {NoCallback}, RegisterCallback(f)
        PROVE  DeviceIsSound'
    BY <2>3 DEF RegisterCallback
  <2>4. CASE Clear
    <3>1. UNCHANGED <<state, pull>> /\ (device.unit => pull.at = "idle")
      BY <2>4 DEF Clear, CanStop
    <3>2. CASE device.running
      <4>1. device' \in Synced([device EXCEPT !.running = FALSE], state)
        BY <2>4, <3>2 DEF Clear
      <4>2. /\ device' \in [unit : BOOLEAN, running : BOOLEAN, silent : BOOLEAN]
            /\ device'.running => state = "PLAYING" /\ device'.unit
            /\ device'.silent => ~device'.running
        BY <4>1, SyncedIsSound
      <4> QED BY <3>1, <3>2, <4>2
    <3>3. CASE ~device.running
      BY <2>4, <3>1, <3>3 DEF Clear
    <3> QED BY <3>2, <3>3
  <2>5. CASE Recreate
    BY <2>5 DEF Recreate, CanStop, NoDevice
  <2>6. CASE CallbackStarts \/ CallbackReturns
    BY <2>6 DEF CallbackStarts, CallbackReturns
  <2> QED BY <1>5, <2>1, <2>2, <2>3, <2>4, <2>5, <2>6 DEF GuestStep
<1> QED BY <1>1, <1>2, <1>3, <1>4, <1>5 DEF Next

(* The unit runs only for a playing player, and nothing is rendered without  *)
(* a running unit: what audio_sync, audio_close and the play states keep.    *)
THEOREM DeviceInvariant == Spec => []DeviceIsSound
BY DeviceInit, DeviceStep, PTL DEF Spec

-----------------------------------------------------------------------------
(* The callbacks. *)

(* NoStaleCallback with the shape of the worker, inductive by itself. *)
CallbackIsCurrent ==
    /\ worker \in [at : {"none", "parked", "posted", "running"},
                   entry : Callbacks \cup {NoCallback}]
    /\ cb \in Callbacks \cup {NoCallback}
    /\ NoStaleCallback

(* No step leaves a posted callback behind the registered function. *)
LEMMA CallbackStep == CallbackIsCurrent /\ [Next]_vars => CallbackIsCurrent'
<1> SUFFICES ASSUME CallbackIsCurrent, [Next]_vars PROVE CallbackIsCurrent'
  OBVIOUS
<1> USE DEF CallbackIsCurrent, NoStaleCallback
<1>1. CASE UNCHANGED <<worker, cb>>
  BY <1>1
<1>2. ASSUME NEW f \in Callbacks \cup {NoCallback}, RegisterCallback(f)
      PROVE  CallbackIsCurrent'
  <2>1. cb' = f
    BY <1>2 DEF RegisterCallback
  <2>2. CASE worker.at # "none" /\ f # cb
    BY <1>2, <2>1, <2>2 DEF RegisterCallback, Cancelled
  <2>3. CASE ~(worker.at # "none" /\ f # cb)
    BY <1>2, <2>1, <2>3 DEF RegisterCallback
  <2> QED BY <2>2, <2>3
<1>3. CASE Pump
  <2>1. UNCHANGED cb
    BY <1>3 DEF Pump
  <2>2. CASE Due /\ CanPost(worker) /\ worker' = Posted(worker)
    BY <2>1, <2>2 DEF Due, Posted
  <2>3. CASE UNCHANGED worker
    BY <2>1, <2>3
  <2> QED BY <1>3, <2>2, <2>3 DEF Pump
<1>4. CASE Clear
  BY <1>4 DEF Clear, Cancelled
<1>5. CASE Recreate
  BY <1>5 DEF Recreate, Cancelled
<1>6. CASE CallbackStarts \/ CallbackReturns
  BY <1>6 DEF CallbackStarts, CallbackReturns
<1>7. CASE AudioThread
  BY <1>1, <1>7 DEF AudioThread, RenderBegins, RenderCopies, PublishRead,
     PublishQueue, PublishPlayed, callbackVars
<1>8. CASE PushStep
  BY <1>1, <1>8 DEF PushStep, PublishBytes, PublishBuffer, EnqueueReturns, callbackVars
<1>9. ASSUME NEW n \in Sizes, Enqueue(n) PROVE CallbackIsCurrent'
  BY <1>1, <1>9 DEF Enqueue, callbackVars
<1>10. ASSUME NEW s, SetPlayState(s) PROVE CallbackIsCurrent'
  BY <1>1, <1>10 DEF SetPlayState, callbackVars
<1>11. CASE UNCHANGED vars
  BY <1>1, <1>11 DEF vars, callbackVars
<1> QED
  BY <1>2, <1>3, <1>4, <1>5, <1>6, <1>7, <1>8, <1>9, <1>10, <1>11 DEF Next, GuestStep

(* A callback that is posted and has not started is one of the function      *)
(* registered now: t_bq_regcb, t_bq_clear and t_obj_destroy take back what   *)
(* they replace, whenever mr_audio_pump posted it.                           *)
THEOREM CallbacksAreCurrent == Spec => []NoStaleCallback
<1>1. Init => CallbackIsCurrent
  BY DEF Init, CallbackIsCurrent, NoStaleCallback
<1>2. CallbackIsCurrent => NoStaleCallback
  BY DEF CallbackIsCurrent
<1> QED BY <1>1, <1>2, CallbackStep, PTL DEF Spec

-----------------------------------------------------------------------------
(* The steps as the rings see them. *)

(* The one thing that would break the stream: mr_audio_pump drains a player  *)
(* without an output while a buffer of it is half played.                    *)
CutsABuffer == Pump /\ cb # NoCallback /\ device'.silent /\ qLeft > 0

RingInv ==
    /\ Shapes
    /\ EndsAreOrdered
    /\ PositionsAreOrdered
    /\ PullsInOrder
    /\ ReadsInItsBuffer
    /\ RingsHaveRoom
    /\ SizesAreKept
    /\ BytesAreKept
    /\ BuffersAreReal

(* A step that leaves the rings alone; callbacks may be counted as called.   *)
Quiet ==
    /\ UNCHANGED <<ringVars, push, pull, ends>>
    /\ fired' \in Nat /\ fired =< fired' /\ fired' =< played

(* The pump counts everything queued as played. *)
Drains ==
    /\ push.at = "idle" /\ pull.at = "idle" /\ qLeft = 0
    /\ read' = write /\ qRead' = qWrite /\ played' = qWrite
    /\ UNCHANGED <<pcm, write, qsize, qWrite, qLeft, push, pull, ends>>
    /\ fired' \in {fired, fired + 1} /\ fired' =< qWrite

(* The rings start anew. *)
Clears ==
    /\ push.at = "idle" /\ pull.at = "idle"
    /\ RingCleared
    /\ pcm' \in [0 .. RingBytes - 1 -> Int]
    /\ qsize' \in [0 .. QueueSlots - 1 -> Nat]
    /\ UNCHANGED <<push, pull>>

(* A shim returns to the guest. *)
Returns ==
    /\ push.at = "queued" /\ push' = NoPush
    /\ UNCHANGED <<ringVars, fired, pull, ends>>

RingSteps ==
    \/ Quiet \/ Drains \/ Clears \/ Returns
    \/ \E n \in Sizes : Enqueue(n)
    \/ PublishBytes \/ PublishBuffer
    \/ \E want \in Wants : RenderBegins(want)
    \/ RenderCopies \/ PublishRead \/ PublishQueue \/ PublishPlayed

(* A pump that has an output, or nobody to call, leaves the rings alone.     *)
LEMMA PumpKinds ==
    ASSUME Shapes, PositionsAreOrdered, DeviceIsSound, DeviceIsSound',
           Pump, ~CutsABuffer
    PROVE  Quiet \/ Drains
<1>1. UNCHANGED <<push, pull, ends>> /\ push.at = "idle"
  BY DEF Pump, HostIdle
<1>2. fired \in Nat /\ played \in Nat /\ qWrite \in Nat /\ fired =< played /\ played =< qWrite
  <2>1. qRead \in Nat /\ Qr \in Nat
    BY DEF Shapes, Qr
  <2> QED BY <2>1 DEF Shapes, PositionsAreOrdered
<1>3. CASE cb # NoCallback /\ device'.silent
  <2>1. ~(qLeft > 0)
    BY <1>3 DEF CutsABuffer
  <2>2. qLeft = 0
    BY <2>1 DEF Shapes
  <2>3. pull.at = "idle"
    BY <1>1, <1>3 DEF DeviceIsSound
  <2>4. /\ read' = write /\ qRead' = qWrite /\ played' = qWrite
        /\ UNCHANGED <<pcm, write, qsize, qWrite, qLeft>>
    <3>1. Drain
      BY DEF Pump
    <3> QED BY <1>3, <3>1 DEF Drain
  <2>5. fired' = fired \/ (Due /\ fired' = fired + 1)
    BY DEF Pump
  <2>6. fired' \in {fired, fired + 1} /\ fired' =< qWrite
    <3>1. CASE fired' = fired
      BY <1>2, <3>1
    <3>2. CASE Due /\ fired' = fired + 1
      <4>1. fired < played'
        BY <3>2 DEF Due
      <4> QED BY <1>2, <2>4, <3>2, <4>1
    <3> QED BY <2>5, <3>1, <3>2
  <2> QED BY <1>1, <2>2, <2>3, <2>4, <2>6 DEF Drains
<1>4. CASE ~(cb # NoCallback /\ device'.silent)
  <2>1. UNCHANGED ringVars
    <3>1. Drain
      BY DEF Pump
    <3> QED BY <1>4, <3>1 DEF Drain
  <2>2. played' = played
    BY <2>1 DEF ringVars
  <2>3. fired' = fired \/ (Due /\ fired' = fired + 1)
    BY DEF Pump
  <2>4. fired' \in Nat /\ fired =< fired' /\ fired' =< played
    <3>1. CASE fired' = fired
      BY <1>2, <3>1
    <3>2. CASE Due /\ fired' = fired + 1
      <4>1. fired < played
        BY <2>2, <3>2 DEF Due
      <4> QED BY <1>2, <3>2, <4>1
    <3> QED BY <2>3, <3>1, <3>2
  <2> QED BY <1>1, <2>1, <2>4 DEF Quiet
<1> QED BY <1>3, <1>4

(* What every other step does to the rings. *)
LEMMA StepKinds ==
    ASSUME Shapes, PositionsAreOrdered, DeviceIsSound, DeviceIsSound',
           [Next]_vars, ~CutsABuffer
    PROVE  RingSteps
<1> USE DEF RingSteps
<1>0. fired \in Nat /\ played \in Nat /\ fired =< played
  BY DEF Shapes, PositionsAreOrdered
<1>1. UNCHANGED <<ringVars, fired, push, pull, ends>> => Quiet
  BY <1>0 DEF Quiet
<1>2. CASE UNCHANGED vars
  BY <1>1, <1>2 DEF vars, callbackVars
<1>3. CASE AudioThread
  BY <1>3 DEF AudioThread
<1>4. CASE PushStep
  <2>1. CASE EnqueueReturns
    BY <2>1 DEF EnqueueReturns, Returns, callbackVars
  <2> QED BY <1>4, <2>1 DEF PushStep
<1>5. CASE Pump
  BY <1>5, PumpKinds
<1>6. ASSUME NEW s, SetPlayState(s) PROVE RingSteps
  BY <1>1, <1>6 DEF SetPlayState, callbackVars
<1>7. ASSUME NEW f, RegisterCallback(f) PROVE RingSteps
  <2>1. /\ UNCHANGED <<ringVars, push, pull, ends>>
        /\ fired' = played \/ fired' = fired
    BY <1>7 DEF RegisterCallback
  <2>2. fired' \in Nat /\ fired =< fired' /\ fired' =< played
    BY <1>0, <2>1
  <2> QED BY <2>1, <2>2 DEF Quiet
<1>8. CASE Clear
  <2>1. pull.at = "idle"
    BY <1>8 DEF Clear, CanStop, DeviceIsSound
  <2> QED BY <1>8, <2>1 DEF Clear, Clears, HostIdle, Shapes
<1>9. CASE Recreate
  <2>1. pull.at = "idle"
    BY <1>9 DEF Recreate, CanStop, DeviceIsSound
  <2>2. pcm' \in [0 .. RingBytes - 1 -> Int]
    <3>1. DOMAIN pcm = 0 .. RingBytes - 1
      BY DEF Shapes
    <3> QED BY <1>9, <3>1 DEF Recreate
  <2>3. qsize' \in [0 .. QueueSlots - 1 -> Nat]
    <3>1. DOMAIN qsize = 0 .. QueueSlots - 1
      BY DEF Shapes
    <3> QED BY <1>9, <3>1 DEF Recreate
  <2> QED BY <1>9, <2>1, <2>2, <2>3 DEF Recreate, Clears, HostIdle
<1>10. CASE CallbackStarts \/ CallbackReturns
  BY <1>1, <1>10 DEF CallbackStarts, CallbackReturns
<1> QED
  BY <1>2, <1>3, <1>4, <1>5, <1>6, <1>7, <1>8, <1>9, <1>10 DEF Next, GuestStep

-----------------------------------------------------------------------------
(* RingInv is inductive. *)

(* Every ring starts empty. *)
LEMMA RingInit == Init => RingInv
<1> SUFFICES ASSUME Init PROVE RingInv
  OBVIOUS
<1> USE DEF Init, NoPush, NoPull
<1>1. pcm \in [0 .. RingBytes - 1 -> Int] /\ qsize \in [0 .. QueueSlots - 1 -> Nat]
  OBVIOUS
<1>2. Len(ends) = 0 /\ ends \in Seq(Nat)
  OBVIOUS
<1>3. Rd = 0 /\ Qr = 0 /\ Finished = 0 /\ Copied = 0 /\ \A k : k = 0 => End(k) = 0
  BY DEF Rd, Qr, Finished, Copied, End
<1>4. RingBytes \in Nat /\ QueueSlots \in Nat
  BY RingAssumption
<1>5. Shapes
  BY <1>1, <1>2 DEF Shapes, PushPlaces, PullPlaces
<1>6. EndsAreOrdered
  BY <1>2, <1>3 DEF EndsAreOrdered
<1>7. PositionsAreOrdered /\ PullsInOrder /\ ReadsInItsBuffer
  BY <1>2, <1>3 DEF PositionsAreOrdered, PullsInOrder, ReadsInItsBuffer
<1>8. RingsHaveRoom
  BY <1>3, <1>4 DEF RingsHaveRoom
<1>9. SizesAreKept /\ BytesAreKept /\ BuffersAreReal
  BY <1>3 DEF SizesAreKept, BytesAreKept, BuffersAreReal
<1> QED BY <1>5, <1>6, <1>7, <1>8, <1>9 DEF RingInv

(* The positions are numbers, and the ends of buffers too. *)
LEMMA RingNumbers ==
    ASSUME RingInv
    PROVE  /\ Rd \in Nat /\ Qr \in Nat /\ Finished \in Nat /\ Copied \in Nat
           /\ \A k \in 0 .. qWrite : End(k) \in Nat
           /\ RingBytes \in Nat \ {0} /\ QueueSlots \in Nat \ {0}
<1>1. Shapes /\ qWrite = Len(ends)
  BY DEF RingInv, EndsAreOrdered
<1>2. Rd \in Nat /\ Qr \in Nat /\ Finished \in Nat /\ Copied \in Nat
  BY <1>1 DEF Shapes, Rd, Qr, Finished, Copied
<1>3. ASSUME NEW k \in 0 .. qWrite PROVE End(k) \in Nat
  <2>1. CASE k = 0
    BY <2>1 DEF End
  <2>2. CASE k # 0
    BY <1>1, <2>2 DEF End, Shapes
  <2> QED BY <2>1, <2>2
<1> QED BY <1>2, <1>3, RingAssumption

(* What is read was written. *)
LEMMA ReadsBehindWrites == ASSUME RingInv PROVE Rd + qLeft =< write /\ read =< write
<1>1. /\ write \in Nat /\ read \in Nat /\ qWrite \in Nat /\ qLeft \in Nat
      /\ Rd \in Nat /\ Qr \in Nat /\ push.size \in Nat
      /\ \A k \in 0 .. qWrite : End(k) \in Nat
  BY RingNumbers DEF RingInv, Shapes
<1>2. read =< Rd /\ Qr =< qWrite
  BY DEF RingInv, PositionsAreOrdered
<1>3. End(qWrite) =< write
  <2>1. End(qWrite) \in Nat
    BY <1>1
  <2>2. write = End(qWrite) + push.size \/ write = End(qWrite) + 0
    BY DEF RingInv, EndsAreOrdered
  <2> QED BY <1>1, <2>1, <2>2
<1>4. \A i, j \in 0 .. qWrite : i =< j => End(i) =< End(j)
  BY DEF RingInv, EndsAreOrdered
<1>5. CASE qLeft = 0
  <2>1. Rd = End(Qr)
    BY <1>5 DEF RingInv, ReadsInItsBuffer
  <2>2. End(Qr) =< End(qWrite)
    BY <1>1, <1>2, <1>4
  <2> QED BY <1>1, <1>2, <1>3, <1>5, <2>1, <2>2
<1>6. CASE qLeft > 0
  <2>1. Qr < qWrite /\ Rd + qLeft = End(Qr + 1)
    BY <1>6 DEF RingInv, ReadsInItsBuffer
  <2>2. End(Qr + 1) =< End(qWrite) /\ End(Qr + 1) \in Nat /\ End(qWrite) \in Nat
    BY <1>1, <1>4, <2>1
  <2> QED BY <1>1, <1>2, <1>3, <2>1, <2>2
<1> QED BY <1>1, <1>5, <1>6

(* Steps that move neither positions nor buffers keep the ring.              *)
LEMMA QuietKeepsRing == RingInv /\ Quiet => RingInv'
<1> SUFFICES ASSUME RingInv, Quiet PROVE RingInv'
  OBVIOUS
<1>0. /\ UNCHANGED <<pcm, write, read, qsize, qWrite, qRead, played, qLeft, push, pull, ends>>
      /\ fired' \in Nat /\ fired' =< played
  BY DEF Quiet, ringVars
<1>1. Rd' = Rd /\ Qr' = Qr /\ Finished' = Finished /\ Copied' = Copied
  BY <1>0 DEF Rd, Qr, Finished, Copied
<1>2. Shapes'
  BY <1>0 DEF RingInv, Shapes
<1>3. EndsAreOrdered'
  BY <1>0 DEF RingInv, EndsAreOrdered, End
<1>4. PositionsAreOrdered'
  BY <1>0, <1>1 DEF RingInv, PositionsAreOrdered, End
<1>5. PullsInOrder' /\ RingsHaveRoom'
  BY <1>0, <1>1 DEF RingInv, PullsInOrder, RingsHaveRoom
<1>6. ReadsInItsBuffer'
  BY <1>0, <1>1 DEF RingInv, ReadsInItsBuffer, End
<1>7. SizesAreKept' /\ BytesAreKept' /\ BuffersAreReal'
  BY <1>0, <1>1 DEF RingInv, SizesAreKept, BytesAreKept, BuffersAreReal, End
<1> QED BY <1>2, <1>3, <1>4, <1>5, <1>6, <1>7 DEF RingInv

(* So does the return from a shim.                                           *)
LEMMA ReturnsKeepsRing == RingInv /\ Returns => RingInv'
<1> SUFFICES ASSUME RingInv, Returns PROVE RingInv'
  OBVIOUS
<1>0. /\ UNCHANGED <<pcm, write, read, qsize, qWrite, qRead, played, qLeft, fired, pull, ends>>
      /\ push.at = "queued" /\ push' = NoPush
  BY DEF Returns, ringVars
<1>1. push'.at = "idle" /\ push' \in [at : PushPlaces, size : Nat]
  BY <1>0 DEF NoPush, PushPlaces
<1>2. Rd' = Rd /\ Qr' = Qr /\ Finished' = Finished /\ Copied' = Copied
  BY <1>0, <1>1 DEF Rd, Qr, Finished, Copied
<1>3. Shapes'
  BY <1>0, <1>1 DEF RingInv, Shapes
<1>4. EndsAreOrdered'
  BY <1>0, <1>1 DEF RingInv, EndsAreOrdered, End
<1>5. PositionsAreOrdered'
  BY <1>0, <1>2 DEF RingInv, PositionsAreOrdered, End
<1>6. PullsInOrder' /\ RingsHaveRoom'
  BY <1>0, <1>1, <1>2 DEF RingInv, PullsInOrder, RingsHaveRoom
<1>7. ReadsInItsBuffer'
  BY <1>0, <1>2 DEF RingInv, ReadsInItsBuffer, End
<1>8. SizesAreKept' /\ BytesAreKept' /\ BuffersAreReal'
  BY <1>0, <1>2 DEF RingInv, SizesAreKept, BytesAreKept, BuffersAreReal, End
<1> QED BY <1>3, <1>4, <1>5, <1>6, <1>7, <1>8 DEF RingInv

(* So does draining it, unless a buffer is half played.                      *)
LEMMA DrainsKeepsRing == RingInv /\ Drains => RingInv'
<1> SUFFICES ASSUME RingInv, Drains PROVE RingInv'
  OBVIOUS
<1>0. /\ push.at = "idle" /\ pull.at = "idle" /\ qLeft = 0
      /\ read' = write /\ qRead' = qWrite /\ played' = qWrite
      /\ UNCHANGED <<pcm, write, qsize, qWrite, qLeft, push, pull, ends>>
      /\ fired' \in {fired, fired + 1} /\ fired' =< qWrite
  BY DEF Drains
<1>1. Rd' = write /\ Qr' = qWrite /\ Finished' = qWrite /\ Copied' = write
  BY <1>0 DEF Rd, Qr, Finished, Copied
<1>2. Shapes /\ write = End(qWrite)
  BY <1>0 DEF RingInv, EndsAreOrdered, Shapes, End
<1>3. \A k : End(k)' = End(k)
  BY <1>0 DEF End
<1>4. End(qWrite)' = write
  BY <1>0, <1>2, <1>3
<1>5. Shapes'
  BY <1>0, <1>2 DEF Shapes
<1>6. EndsAreOrdered'
  BY <1>0 DEF RingInv, EndsAreOrdered, End
<1>7. PositionsAreOrdered'
  <2>1. End(played)' =< read'
    BY <1>0, <1>2 DEF End, Shapes
  <2> QED BY <1>0, <1>1, <1>2, <2>1 DEF PositionsAreOrdered, Shapes
<1>8. PullsInOrder'
  BY <1>0 DEF PullsInOrder
<1>9. RingsHaveRoom'
  BY <1>0, <1>1, <1>2, RingAssumption DEF RingsHaveRoom, Shapes
<1>10. ReadsInItsBuffer'
  <2>1. End(Qr)' = write
    BY <1>0, <1>1, <1>2 DEF End
  <2> QED BY <1>0, <1>1, <1>2, <2>1 DEF ReadsInItsBuffer, Shapes
<1>11. SizesAreKept' /\ BytesAreKept' /\ BuffersAreReal'
  BY <1>0, <1>1, <1>2 DEF SizesAreKept, BytesAreKept, BuffersAreReal, Shapes
<1> QED BY <1>5, <1>6, <1>7, <1>8, <1>9, <1>10, <1>11 DEF RingInv

(* Clearing and destroying empty the ring.                                   *)
LEMMA ClearsKeepsRing == RingInv /\ Clears => RingInv'
<1> SUFFICES ASSUME RingInv, Clears PROVE RingInv'
  OBVIOUS
<1>0. /\ push.at = "idle" /\ pull.at = "idle"
      /\ write' = 0 /\ read' = 0 /\ qWrite' = 0 /\ qRead' = 0
      /\ played' = 0 /\ qLeft' = 0 /\ fired' = 0 /\ ends' = <<>>
      /\ UNCHANGED <<push, pull>>
  BY DEF Clears, RingCleared
<1>1. Rd' = 0 /\ Qr' = 0 /\ Finished' = 0 /\ Copied' = 0
  BY <1>0 DEF Rd, Qr, Finished, Copied
<1>2. Len(ends') = 0 /\ ends' \in Seq(Nat)
  BY <1>0
<1>3. End(0)' = 0 /\ End(played)' = 0 /\ End(qWrite)' = 0 /\ End(Qr)' = 0
  BY <1>0, <1>1 DEF End
<1>4. Shapes'
  BY <1>0, <1>2 DEF RingInv, Shapes, Clears
<1>5. EndsAreOrdered'
  <2>1. ASSUME NEW i \in 0 .. qWrite', NEW j \in 0 .. qWrite'
        PROVE  End(i)' =< End(j)'
    BY <1>0, <1>3
  <2> QED BY <1>0, <1>2, <1>3, <2>1 DEF EndsAreOrdered
<1>6. PositionsAreOrdered' /\ PullsInOrder' /\ ReadsInItsBuffer'
  BY <1>0, <1>1, <1>3 DEF PositionsAreOrdered, PullsInOrder, ReadsInItsBuffer
<1>7. RingsHaveRoom'
  BY <1>0, <1>1, RingAssumption DEF RingsHaveRoom
<1>8. SizesAreKept' /\ BytesAreKept' /\ BuffersAreReal'
  BY <1>0, <1>1 DEF SizesAreKept, BytesAreKept, BuffersAreReal
<1> QED BY <1>4, <1>5, <1>6, <1>7, <1>8 DEF RingInv

(* Copying a buffer into the ring overwrites nothing that is still to play:  *)
(* ring_push measures the room from what the audio thread has published.     *)
LEMMA EnqueueKeepsRing == ASSUME NEW n \in Sizes, RingInv, Enqueue(n) PROVE RingInv'
<1>0. /\ push.at = "idle" /\ push' = [at |-> "copied", size |-> n]
      /\ UNCHANGED <<write, read, qsize, qWrite, qRead, played, qLeft, fired, pull, ends>>
  BY DEF Enqueue, HostIdle, callbackVars
<1>1. n =< RingBytes - (write - read) /\ qWrite - qRead \in 0 .. QueueSlots - 1
  BY DEF Enqueue, HasRoom
<1>2. n \in Nat \ {0}
  BY SlicesAssumption
<1>3. Shapes
  BY DEF RingInv
<1>4. push'.at = "copied" /\ push'.size = n /\ push' \in [at : PushPlaces, size : Nat]
  BY <1>0, <1>2 DEF PushPlaces
<1>5. Rd' = Rd /\ Qr' = Qr /\ Finished' = Finished /\ Copied = write /\ Copied' = write + n
  BY <1>0, <1>4 DEF Rd, Qr, Finished, Copied
<1>6. pcm' \in [0 .. RingBytes - 1 -> Int]
  <2>1. DOMAIN pcm = 0 .. RingBytes - 1
    BY <1>3 DEF Shapes
  <2>2. pcm' = [i \in 0 .. RingBytes - 1 |->
                  IF (i - write) % RingBytes < n
                  THEN write + ((i - write) % RingBytes) ELSE pcm[i]]
    BY <2>1 DEF Enqueue
  <2>3. \A i \in 0 .. RingBytes - 1 :
          pcm[i] \in Int /\ write + ((i - write) % RingBytes) \in Int
    BY <1>3, Division, RingAssumption DEF Shapes
  <2> QED BY <2>2, <2>3
<1>7. Shapes'
  BY <1>0, <1>3, <1>4, <1>6 DEF Shapes
<1>8. EndsAreOrdered'
  BY <1>0, <1>4 DEF RingInv, EndsAreOrdered, End
<1>9. PositionsAreOrdered'
  BY <1>0, <1>5 DEF RingInv, PositionsAreOrdered, End
<1>10. PullsInOrder'
  BY <1>0 DEF RingInv, PullsInOrder
<1>11. RingsHaveRoom'
  <2>1. write \in Nat /\ read \in Nat /\ qWrite \in Nat /\ qRead \in Nat
    BY <1>3 DEF Shapes
  <2>2. RingBytes \in Nat /\ QueueSlots \in Nat
    BY RingAssumption
  <2>3. Copied' - read' =< RingBytes
    BY <1>0, <1>1, <1>2, <1>5, <2>1, <2>2
  <2>4. qWrite' - qRead' < QueueSlots
    BY <1>0, <1>1, <2>1, <2>2
  <2> QED BY <1>0, <2>1, <2>2, <2>3, <2>4 DEF RingsHaveRoom
<1>12. ReadsInItsBuffer'
  BY <1>0, <1>5 DEF RingInv, ReadsInItsBuffer, End
<1>13. SizesAreKept' /\ BuffersAreReal'
  BY <1>0, <1>5 DEF RingInv, SizesAreKept, BuffersAreReal, End
<1>14. BytesAreKept'
  <2>1. /\ write \in Nat /\ read \in Nat /\ Rd \in Nat /\ RingBytes \in Nat \ {0}
        /\ read =< Rd /\ read =< write /\ write - read =< RingBytes
    BY <1>3, <1>5, RingNumbers, ReadsBehindWrites DEF RingInv, Shapes, PositionsAreOrdered, RingsHaveRoom
  <2>2. ASSUME NEW p \in Rd .. (write + n) - 1
        PROVE  pcm'[p % RingBytes] = p
    <3>1. p % RingBytes \in 0 .. RingBytes - 1
      BY <2>1, Division
    <3>2. DOMAIN pcm = 0 .. RingBytes - 1
      BY <1>3 DEF Shapes
    <3>3. pcm'[p % RingBytes] =
            IF ((p % RingBytes) - write) % RingBytes < n
            THEN write + (((p % RingBytes) - write) % RingBytes)
            ELSE pcm[p % RingBytes]
      BY <3>1, <3>2 DEF Enqueue
    <3>4. CASE p >= write
      <4>1. p - write \in 0 .. RingBytes - 1 /\ p - write < n
        BY <1>1, <1>2, <2>1, <3>4
      <4>2. ((p % RingBytes) - write) % RingBytes = p - write
        <5>1. /\ RingBytes \in Nat \ {0} /\ p \in Int /\ write \in Int
              /\ p - write \in 0 .. RingBytes - 1
          BY <2>1, <4>1
        <5> QED BY <5>1, OffsetAhead, Zenon
      <4> QED BY <2>1, <3>3, <4>1, <4>2
    <3>5. CASE p < write
      <4>1. write - p \in 1 .. RingBytes /\ RingBytes - (write - p) >= n
        BY <1>1, <1>2, <2>1, <3>5
      <4>2. ((p % RingBytes) - write) % RingBytes = RingBytes - (write - p)
        <5>1. /\ RingBytes \in Nat \ {0} /\ p \in Int /\ write \in Int
              /\ write - p \in 1 .. RingBytes
          BY <2>1, <4>1
        <5> QED BY <5>1, OffsetBehind, Zenon
      <4>3. pcm'[p % RingBytes] = pcm[p % RingBytes]
        BY <1>2, <2>1, <3>3, <4>1, <4>2
      <4>4. p \in Rd .. Copied - 1
        BY <1>5, <2>1, <3>5
      <4> QED BY <4>3, <4>4 DEF RingInv, BytesAreKept
    <3> QED BY <2>1, <3>4, <3>5
  <2> QED BY <1>5, <2>2 DEF BytesAreKept
<1> QED BY <1>7, <1>8, <1>9, <1>10, <1>11, <1>12, <1>13, <1>14 DEF RingInv

(* The bytes are shown. *)
LEMMA PublishBytesKeepsRing == RingInv /\ PublishBytes => RingInv'
<1> SUFFICES ASSUME RingInv, PublishBytes PROVE RingInv'
  OBVIOUS
<1>0. /\ push.at = "copied" /\ write' = write + push.size
      /\ push' = [push EXCEPT !.at = "written"]
      /\ UNCHANGED <<pcm, read, qsize, qWrite, qRead, played, qLeft, fired, pull, ends>>
  BY DEF PublishBytes, callbackVars
<1>1. Shapes
  BY DEF RingInv
<1>2. /\ push'.at = "written" /\ push'.size = push.size
      /\ push' \in [at : PushPlaces, size : Nat] /\ push.size \in Nat
  BY <1>0, <1>1 DEF Shapes, PushPlaces
<1>3. Rd' = Rd /\ Qr' = Qr /\ Finished' = Finished /\ Copied' = Copied
  BY <1>0, <1>2 DEF Rd, Qr, Finished, Copied
<1>4. Shapes'
  BY <1>0, <1>1, <1>2 DEF Shapes
<1>5. EndsAreOrdered'
  <2>1. write = End(qWrite) + 0
    BY <1>0 DEF RingInv, EndsAreOrdered
  <2>2. qWrite \in Nat /\ \A k \in 0 .. qWrite : End(k) \in Nat
    BY <1>1, RingNumbers DEF Shapes
  <2>3. write = End(qWrite)
    BY <2>1, <2>2
  <2>4. write' = End(qWrite)' + push'.size
    BY <1>0, <1>2, <2>3 DEF End
  <2> QED BY <1>0, <1>2, <2>4 DEF RingInv, EndsAreOrdered, End
<1>6. PositionsAreOrdered'
  BY <1>0, <1>3 DEF RingInv, PositionsAreOrdered, End
<1>7. PullsInOrder' /\ RingsHaveRoom'
  BY <1>0, <1>2, <1>3 DEF RingInv, PullsInOrder, RingsHaveRoom
<1>8. ReadsInItsBuffer'
  BY <1>0, <1>3 DEF RingInv, ReadsInItsBuffer, End
<1>9. SizesAreKept' /\ BytesAreKept' /\ BuffersAreReal'
  BY <1>0, <1>3 DEF RingInv, SizesAreKept, BytesAreKept, BuffersAreReal, End
<1> QED BY <1>4, <1>5, <1>6, <1>7, <1>8, <1>9 DEF RingInv

(* The buffer is shown: the slot it takes is of no buffer still queued. *)
LEMMA PublishBufferKeepsRing == RingInv /\ PublishBuffer => RingInv'
<1> SUFFICES ASSUME RingInv, PublishBuffer PROVE RingInv'
  OBVIOUS
<1>0. /\ push.at = "written" /\ push' = [push EXCEPT !.at = "queued"]
      /\ qsize' = [qsize EXCEPT ![qWrite % QueueSlots] = push.size]
      /\ qWrite' = qWrite + 1 /\ ends' = Append(ends, write)
      /\ UNCHANGED <<pcm, write, read, qRead, played, qLeft, fired, pull>>
  BY DEF PublishBuffer, callbackVars
<1>1. Shapes
  BY DEF RingInv
<1>2. /\ push'.at = "queued" /\ push'.size = push.size /\ push.size \in Sizes
      /\ push' \in [at : PushPlaces, size : Nat] /\ push.size \in Nat
  BY <1>0, <1>1 DEF Shapes, PushPlaces
<1>3. Rd' = Rd /\ Qr' = Qr /\ Finished' = Finished /\ Copied' = Copied
  BY <1>0, <1>2 DEF Rd, Qr, Finished, Copied
<1>4. /\ write \in Nat /\ qWrite \in Nat /\ qRead \in Nat /\ Qr \in Nat /\ Rd \in Nat
      /\ played \in Nat /\ QueueSlots \in Nat \ {0} /\ RingBytes \in Nat
      /\ qWrite = Len(ends) /\ ends \in Seq(Nat)
      /\ \A k \in 0 .. qWrite : End(k) \in Nat
  BY <1>1, RingNumbers DEF RingInv, Shapes, EndsAreOrdered
<1>5. /\ played =< qRead /\ qRead =< Qr /\ Qr =< qWrite
      /\ qWrite - qRead < QueueSlots
      /\ write = End(qWrite) + push.size
  BY <1>0 DEF RingInv, PositionsAreOrdered, RingsHaveRoom, EndsAreOrdered
<1>6. /\ Len(ends') = qWrite + 1 /\ ends' \in Seq(Nat)
      /\ \A k \in 1 .. qWrite : ends'[k] = ends[k]
      /\ ends'[qWrite + 1] = write
  BY <1>0, <1>4, AppendProperties
<1>7. \A k \in 0 .. qWrite : End(k)' = End(k)
  BY <1>4, <1>6 DEF End
<1>8. PICK m \in Nat : m = qWrite + 1
  BY <1>4
<1>9. End(m)' = write
  <2>1. m # 0 /\ ends'[m] = write
    BY <1>4, <1>6, <1>8
  <2> QED BY <2>1 DEF End
<1>10. \A i, j \in 0 .. qWrite : i =< j => End(i) =< End(j)
  BY DEF RingInv, EndsAreOrdered
<1>11. Shapes'
  <2>1. qsize' \in [0 .. QueueSlots - 1 -> Nat]
    BY <1>0, <1>1, <1>2 DEF Shapes
  <2>2. qWrite' \in Nat /\ push'.at = "queued"
    BY <1>0, <1>2, <1>4
  <2>3. UNCHANGED <<pcm, write, read, qRead, played, qLeft, fired, pull>>
    BY <1>0
  <2> QED BY <1>1, <1>2, <1>6, <2>1, <2>2, <2>3 DEF Shapes
<1>12. EndsAreOrdered'
  <2>1. ASSUME NEW i \in 0 .. m, NEW j \in 0 .. m, i =< j
        PROVE  End(i)' =< End(j)'
    <3>1. CASE j \in 0 .. qWrite
      BY <1>4, <1>7, <1>10, <2>1, <3>1
    <3>2. CASE j = m /\ i \in 0 .. qWrite
      <4>1. End(i) =< End(qWrite) /\ End(i) \in Nat /\ End(qWrite) \in Nat
        BY <1>4, <1>10, <3>2
      <4>2. End(i) =< write
        BY <1>2, <1>4, <1>5, <4>1
      <4> QED BY <1>7, <1>9, <3>2, <4>2
    <3>3. CASE j = m /\ i = m
      BY <1>4, <1>9, <3>3
    <3> QED BY <1>4, <1>8, <2>1, <3>1, <3>2, <3>3
  <2>2. qWrite' = Len(ends') /\ qWrite' = m
    BY <1>0, <1>6, <1>8
  <2>3. write' = End(qWrite)' + 0
    <3>1. End(qWrite)' = End(m)'
      BY <2>2 DEF End
    <3> QED BY <1>0, <1>4, <1>9, <3>1
  <2>4. push'.at # "written"
    BY <1>2
  <2>5. \A i, j \in 0 .. qWrite' : i =< j => End(i)' =< End(j)'
    BY <2>1, <2>2
  <2> QED BY <2>2, <2>3, <2>4, <2>5 DEF EndsAreOrdered
<1>13. PositionsAreOrdered'
  <2>1. End(played)' = End(played)
    <3>1. PICK k \in 0 .. qWrite : k = played
      BY <1>4, <1>5
    <3>2. End(k)' = End(k)
      BY <1>7
    <3> QED BY <1>0, <3>1, <3>2 DEF End
  <2>2. /\ fired =< played /\ Finished = Qr /\ read =< Rd /\ End(played) =< read
    BY DEF RingInv, PositionsAreOrdered
  <2> QED BY <1>0, <1>3, <1>4, <1>5, <2>1, <2>2 DEF PositionsAreOrdered
<1>14. PullsInOrder'
  <2>1. pull.qw \in Nat
    BY <1>1 DEF Shapes
  <2> QED BY <1>0, <1>4, <2>1 DEF RingInv, PullsInOrder
<1>15. RingsHaveRoom'
  <2>1. Copied - read =< RingBytes
    BY DEF RingInv, RingsHaveRoom
  <2> QED BY <1>0, <1>2, <1>3, <1>4, <1>5, <2>1 DEF RingsHaveRoom
<1>16. ReadsInItsBuffer'
  <2>1. PICK q \in 0 .. qWrite : q = Qr
    BY <1>4, <1>5
  <2>2. End(q)' = End(q)
    BY <1>7
  <2>3. End(Qr)' = End(Qr)
    BY <1>3, <2>1, <2>2 DEF End
  <2>4. qLeft > 0 => Qr < qWrite /\ Rd + qLeft = End(Qr + 1)
    BY DEF RingInv, ReadsInItsBuffer
  <2>5. CASE qLeft > 0
    <3>1. PICK r \in 0 .. qWrite : r = Qr + 1
      BY <1>4, <2>4, <2>5
    <3>2. End(r)' = End(r)
      BY <1>7
    <3>3. Qr' + 1 = r /\ Qr < qWrite'
      BY <1>0, <1>3, <1>4, <2>4, <2>5, <3>1
    <3>4. (Rd + qLeft)' = End(r)'
      BY <1>0, <1>3, <2>4, <2>5, <3>1, <3>2
    <3>5. End(Qr + 1)' = End(r)'
      BY <3>3 DEF End
    <3> QED BY <1>0, <1>3, <2>3, <2>5, <3>3, <3>4, <3>5 DEF RingInv, ReadsInItsBuffer
  <2>6. CASE ~(qLeft > 0)
    BY <1>0, <1>3, <2>3, <2>6 DEF RingInv, ReadsInItsBuffer
  <2> QED BY <2>5, <2>6
<1>17. \A k \in Qr .. qWrite - 1 : qsize'[k % QueueSlots] = qsize[k % QueueSlots]
  <2> SUFFICES ASSUME NEW k \in Qr .. qWrite - 1
               PROVE  qsize'[k % QueueSlots] = qsize[k % QueueSlots]
    OBVIOUS
  <2>1. k \in Int /\ 0 < qWrite - k /\ qWrite - k < QueueSlots
    BY <1>4, <1>5
  <2>2. k % QueueSlots # qWrite % QueueSlots
    <3> SUFFICES ASSUME k % QueueSlots = qWrite % QueueSlots PROVE FALSE
      OBVIOUS
    <3>1. /\ QueueSlots \in Nat \ {0} /\ qWrite \in Int
          /\ 0 =< qWrite - k /\ qWrite - k < QueueSlots
      BY <1>4, <2>1
    <3>2. k = qWrite
      BY <2>1, <3>1, SameRemainder, Zenon
    <3> QED BY <2>1, <3>2
  <2>3. k % QueueSlots \in 0 .. QueueSlots - 1
    BY <1>4, <2>1, Division
  <2> QED BY <1>0, <1>1, <2>2, <2>3 DEF Shapes
<1>18. qsize'[qWrite % QueueSlots] = push.size
  <2>1. qWrite % QueueSlots \in 0 .. QueueSlots - 1
    BY <1>4, Division
  <2> QED BY <1>0, <1>1, <2>1 DEF Shapes
<1>19. SizesAreKept'
  <2>1. ASSUME NEW k \in Qr .. qWrite, NEW l \in Nat, l = k + 1
        PROVE  qsize'[k % QueueSlots] = End(l)' - End(k)'
    <3>1. CASE k = qWrite
      <4>1. End(k)' = End(qWrite)
        BY <1>4, <1>7, <3>1
      <4>2. End(l)' = write
        BY <1>8, <1>9, <2>1, <3>1
      <4>3. End(qWrite) \in Nat
        BY <1>4
      <4> QED BY <1>2, <1>5, <1>18, <3>1, <4>1, <4>2, <4>3
    <3>2. CASE k \in Qr .. qWrite - 1
      <4>1. k \in 0 .. qWrite /\ l \in 0 .. qWrite
        BY <1>4, <2>1, <3>2
      <4>2. End(k)' = End(k) /\ End(l)' = End(l)
        BY <1>7, <4>1
      <4>3. qsize[k % QueueSlots] = End(l) - End(k)
        BY <2>1, <3>2 DEF RingInv, SizesAreKept
      <4> QED BY <1>17, <3>2, <4>2, <4>3
    <3> QED BY <1>4, <3>1, <3>2
  <2>2. \A k \in Qr' .. qWrite' - 1 : k \in Qr .. qWrite /\ k + 1 \in Nat
    BY <1>0, <1>3, <1>4
  <2>3. ASSUME NEW k \in Qr' .. qWrite' - 1
        PROVE  qsize'[k % QueueSlots] = End(k + 1)' - End(k)'
    BY <2>1, <2>2
  <2> QED BY <2>3 DEF SizesAreKept
<1>20. BuffersAreReal'
  <2>1. ASSUME NEW k \in Qr .. qWrite PROVE qsize'[k % QueueSlots] \in Sizes
    <3>1. CASE k = qWrite
      BY <1>2, <1>18, <3>1
    <3>2. CASE k \in Qr .. qWrite - 1
      BY <1>17, <3>2 DEF RingInv, BuffersAreReal
    <3> QED BY <1>4, <3>1, <3>2
  <2>2. \A k \in Qr' .. qWrite' - 1 : k \in Qr .. qWrite
    BY <1>0, <1>3, <1>4
  <2> QED BY <1>0, <2>1, <2>2 DEF BuffersAreReal
<1>21. BytesAreKept'
  BY <1>0, <1>3 DEF RingInv, BytesAreKept
<1> QED
  BY <1>11, <1>12, <1>13, <1>14, <1>15, <1>16, <1>19, <1>20, <1>21 DEF RingInv

(* What one turn of ring_pull's loop does: n of the bytes left of the buffer *)
(* to be finished next, which has all been written.                          *)
LEMMA CopyFacts ==
    ASSUME RingInv, RenderCopies
    PROVE  \E left, n \in Nat \ {0} :
             /\ left = (IF qLeft > 0 THEN qLeft ELSE qsize[Qr % QueueSlots])
             /\ n =< left /\ qLeft' = left - n
             /\ pull.at = "loop" /\ pull'.at = "loop"
             /\ pull'.rd = pull.rd + n /\ pull'.qw = pull.qw
             /\ pull'.qr = pull.qr + (IF n = left THEN 1 ELSE 0)
             /\ pull'.done = pull.done + (IF n = left THEN 1 ELSE 0)
             /\ pull' \in [at : PullPlaces, want : Nat, got : Nat, rd : Nat,
                           qr : Nat, qw : Nat, done : Nat]
             /\ Qr < pull.qw /\ pull.qw =< qWrite
             /\ Rd + left = End(Qr + 1)
             /\ UNCHANGED <<pcm, write, read, qsize, qWrite, qRead, played, fired, push, ends>>
<1>0. Shapes
  BY DEF RingInv
<1>1. pull.at = "loop" /\ HasMore
  BY DEF RenderCopies
<1>2. Rd = pull.rd /\ Qr = pull.qr
  BY <1>1 DEF Rd, Qr
<1>3. /\ pull \in [at : PullPlaces, want : Nat, got : Nat, rd : Nat,
                   qr : Nat, qw : Nat, done : Nat]
      /\ qLeft \in Nat /\ qWrite \in Nat /\ qRead \in Nat
  BY <1>0 DEF Shapes
<1>4. /\ pull.want \in Nat /\ pull.got \in Nat /\ pull.rd \in Nat
      /\ pull.qr \in Nat /\ pull.qw \in Nat /\ pull.done \in Nat
  BY <1>3
<1>5. pull.qr < pull.qw /\ pull.qw =< qWrite
  BY <1>1, <1>3, <1>4 DEF HasMore, RingInv, PullsInOrder
<1>6. \A k \in 0 .. qWrite : End(k) \in Nat
  BY RingNumbers
<1>7. PICK left : left = (IF qLeft > 0 THEN qLeft ELSE qsize[Qr % QueueSlots])
  OBVIOUS
<1>8. left \in Nat \ {0} /\ Rd + left = End(Qr + 1)
  <2>1. CASE qLeft > 0
    BY <1>3, <1>7, <2>1 DEF RingInv, ReadsInItsBuffer
  <2>2. CASE ~(qLeft > 0)
    <3>1. Qr \in Qr .. qWrite - 1 /\ Qr \in Nat /\ Qr \in 0 .. qWrite /\ Qr + 1 \in 0 .. qWrite
      BY <1>2, <1>3, <1>4, <1>5
    <3>2. left = End(Qr + 1) - End(Qr)
      BY <1>7, <2>2, <3>1 DEF RingInv, SizesAreKept
    <3>3. left \in Nat \ {0}
      BY <1>7, <2>2, <3>1, SlicesAssumption DEF RingInv, BuffersAreReal
    <3>4. Rd = End(Qr)
      <4>1. qLeft = 0
        BY <1>3, <2>2
      <4> QED BY <4>1 DEF RingInv, ReadsInItsBuffer
    <3>5. End(Qr) \in Nat /\ End(Qr + 1) \in Nat
      BY <1>6, <3>1
    <3> QED BY <3>2, <3>3, <3>4, <3>5
  <2> QED BY <2>1, <2>2
<1>9. PICK n : n = SmallerOf(pull.want - pull.got, left)
  OBVIOUS
<1>10. n \in Nat \ {0} /\ n =< left
  <2>1. pull.want - pull.got \in Nat \ {0}
    BY <1>1, <1>4 DEF HasMore
  <2> QED BY <1>8, <1>9, <2>1 DEF SmallerOf
<1>11. PICK done \in 0 .. 1 : done = (IF n = left THEN 1 ELSE 0)
  OBVIOUS
<1>12. /\ pull' = [pull EXCEPT !.rd = @ + n, !.got = @ + n, !.qr = @ + done, !.done = @ + done]
       /\ qLeft' = left - n
       /\ UNCHANGED <<pcm, write, read, qsize, qWrite, qRead, played, fired, push, ends>>
  BY <1>2, <1>7, <1>9, <1>11 DEF RenderCopies, CountsAsDone, callbackVars
<1>13. /\ pull'.at = "loop" /\ pull'.rd = pull.rd + n /\ pull'.qw = pull.qw
       /\ pull'.qr = pull.qr + done /\ pull'.done = pull.done + done
       /\ pull'.want = pull.want /\ pull'.got = pull.got + n
  BY <1>1, <1>3, <1>12
<1>14. pull' \in [at : PullPlaces, want : Nat, got : Nat, rd : Nat,
                  qr : Nat, qw : Nat, done : Nat]
  <2>1. /\ pull.rd + n \in Nat /\ pull.got + n \in Nat
        /\ pull.qr + done \in Nat /\ pull.done + done \in Nat
    BY <1>4, <1>10, <1>11
  <2> QED BY <1>3, <1>12, <2>1
<1> QED BY <1>1, <1>2, <1>5, <1>7, <1>8, <1>10, <1>11, <1>12, <1>13, <1>14

(* The audio thread copies. *)
LEMMA RenderCopiesKeepsRing == RingInv /\ RenderCopies => RingInv'
<1> SUFFICES ASSUME RingInv, RenderCopies PROVE RingInv'
  OBVIOUS
<1>0. PICK left, n \in Nat \ {0} :
        /\ n =< left /\ qLeft' = left - n
        /\ pull.at = "loop" /\ pull'.at = "loop"
        /\ pull'.rd = pull.rd + n /\ pull'.qw = pull.qw
        /\ pull'.qr = pull.qr + (IF n = left THEN 1 ELSE 0)
        /\ pull'.done = pull.done + (IF n = left THEN 1 ELSE 0)
        /\ pull' \in [at : PullPlaces, want : Nat, got : Nat, rd : Nat,
                      qr : Nat, qw : Nat, done : Nat]
        /\ Qr < pull.qw /\ pull.qw =< qWrite
        /\ Rd + left = End(Qr + 1)
        /\ UNCHANGED <<pcm, write, read, qsize, qWrite, qRead, played, fired, push, ends>>
  BY CopyFacts
<1>1. Rd = pull.rd /\ Qr = pull.qr /\ Finished = pull.done
  BY <1>0 DEF Rd, Qr, Finished
<1>2. PICK done \in 0 .. 1 : done = (IF n = left THEN 1 ELSE 0)
  OBVIOUS
<1>3. Rd' = Rd + n /\ Qr' = Qr + done /\ Finished' = Finished + done /\ Copied' = Copied
  BY <1>0, <1>1, <1>2 DEF Rd, Qr, Finished, Copied
<1>4. Shapes
  BY DEF RingInv
<1>5. /\ qWrite \in Nat /\ qRead \in Nat /\ Rd \in Nat /\ Qr \in Nat /\ read \in Nat
      /\ pull.qw \in Nat /\ Copied \in Nat
      /\ \A k \in 0 .. qWrite : End(k) \in Nat
  BY <1>4, RingNumbers DEF Shapes
<1>6. \A k : End(k)' = End(k)
  BY <1>0 DEF End
<1>7. PICK next \in 0 .. qWrite : next = Qr + 1
  BY <1>0, <1>5
<1>8. Shapes'
  <2>1. qLeft' \in Nat
    BY <1>0
  <2> QED BY <1>0, <1>4, <2>1 DEF Shapes
<1>9. EndsAreOrdered'
  BY <1>0 DEF RingInv, EndsAreOrdered, End
<1>10. PositionsAreOrdered'
  <2>1. /\ fired =< played /\ played =< qRead /\ qRead =< Qr /\ Finished = Qr
        /\ read =< Rd /\ End(played) =< read
    BY DEF RingInv, PositionsAreOrdered
  <2>2. End(played)' =< read'
    BY <1>0, <2>1 DEF End
  <2>3. fired' =< played' /\ played' =< qRead'
    BY <1>0, <2>1
  <2>4. qRead' =< Qr' /\ Qr' =< qWrite' /\ read' =< Rd' /\ Finished' = Qr'
    BY <1>0, <1>2, <1>3, <1>5, <2>1
  <2> QED BY <2>2, <2>3, <2>4 DEF PositionsAreOrdered
<1>11. PullsInOrder'
  <2>1. pull'.qr =< pull'.qw /\ pull'.qw =< qWrite'
    BY <1>0, <1>1, <1>2, <1>5
  <2>2. qLeft' > 0 => pull'.qr < pull'.qw
    BY <1>0, <1>1, <1>2, <1>5
  <2> QED BY <1>0, <2>1, <2>2 DEF PullsInOrder
<1>12. ReadsInItsBuffer'
  <2>1. End(Qr) =< Rd /\ End(next) = Rd + left /\ End(Qr) \in Nat /\ Qr \in 0 .. qWrite
    BY <1>0, <1>5, <1>7 DEF RingInv, ReadsInItsBuffer
  <2>2. CASE n = left
    <3>1. Qr' = next /\ qLeft' = 0 /\ Rd' = End(next)
      BY <1>0, <1>2, <1>3, <1>5, <1>7, <2>1, <2>2
    <3>2. End(Qr)' = End(next)
      BY <1>0, <3>1 DEF End
    <3> QED BY <1>5, <3>1, <3>2 DEF ReadsInItsBuffer
  <2>3. CASE n # left
    <3>1. Qr' = Qr /\ qLeft' > 0 /\ Rd' = Rd + n /\ qLeft' = left - n
      BY <1>0, <1>2, <1>3, <1>5, <2>3
    <3>2. End(Qr)' = End(Qr) /\ End(Qr + 1)' = End(Qr + 1)
      BY <1>0, <3>1 DEF End
    <3>3. End(Qr)' =< Rd'
      BY <1>5, <2>1, <3>1, <3>2
    <3>4. Qr' < qWrite' /\ Rd' + qLeft' = End(Qr + 1)'
      BY <1>0, <1>5, <3>1, <3>2
    <3>5. qLeft' # 0
      BY <1>0, <3>1
    <3> QED BY <3>3, <3>4, <3>5 DEF ReadsInItsBuffer
  <2> QED BY <2>2, <2>3
<1>13. RingsHaveRoom'
  BY <1>0, <1>3 DEF RingInv, RingsHaveRoom
<1>14. \A k \in Qr' .. qWrite' - 1 : k \in Qr .. qWrite - 1
  BY <1>0, <1>2, <1>3, <1>5
<1>15. SizesAreKept'
  BY <1>0, <1>14 DEF RingInv, SizesAreKept, End
<1>16. BuffersAreReal'
  BY <1>0, <1>14 DEF RingInv, BuffersAreReal
<1>17. BytesAreKept'
  <2>1. \A p \in Rd' .. Copied' - 1 : p \in Rd .. Copied - 1
    BY <1>3, <1>5
  <2> QED BY <1>0, <2>1 DEF RingInv, BytesAreKept
<1> QED
  BY <1>8, <1>9, <1>10, <1>11, <1>12, <1>13, <1>15, <1>16, <1>17 DEF RingInv

(* A render begins with the positions it finds. *)
LEMMA RenderBeginsKeepsRing ==
    ASSUME NEW want \in Wants, RingInv, RenderBegins(want) PROVE RingInv'
<1>0. /\ pull.at = "idle" /\ UNCHANGED <<ringVars, fired, push, ends>>
      /\ pull' = [at |-> "loop", want |-> want, got |-> 0, rd |-> read,
                  qr |-> qRead, qw |-> qWrite, done |-> played]
  BY DEF RenderBegins, callbackVars
<1>1. UNCHANGED <<pcm, write, read, qsize, qWrite, qRead, played, qLeft, fired, push, ends>>
  BY <1>0 DEF ringVars
<1>2. Shapes
  BY DEF RingInv
<1>3. Rd' = Rd /\ Qr' = Qr /\ Finished' = Finished /\ Copied' = Copied /\ Qr = qRead
  BY <1>0, <1>1 DEF Rd, Qr, Finished, Copied
<1>4. Shapes'
  <2>1. pull' \in [at : PullPlaces, want : Nat, got : Nat, rd : Nat,
                   qr : Nat, qw : Nat, done : Nat]
    BY <1>0, <1>2, SlicesAssumption DEF Shapes, PullPlaces
  <2> QED BY <1>1, <1>2, <2>1 DEF Shapes
<1>5. EndsAreOrdered'
  BY <1>1 DEF RingInv, EndsAreOrdered, End
<1>6. PositionsAreOrdered'
  BY <1>1, <1>3 DEF RingInv, PositionsAreOrdered, End
<1>7. PullsInOrder'
  <2>1. qRead \in Nat /\ qWrite \in Nat /\ qLeft \in Nat
    BY <1>2 DEF Shapes
  <2>2. qRead =< qWrite /\ (qLeft > 0 => qRead < qWrite)
    BY <1>3, <2>1 DEF RingInv, PositionsAreOrdered, ReadsInItsBuffer
  <2>3. pull'.at = "loop" /\ pull'.qr = qRead /\ pull'.qw = qWrite
    BY <1>0
  <2> QED BY <1>1, <2>1, <2>2, <2>3 DEF PullsInOrder
<1>8. RingsHaveRoom'
  BY <1>1, <1>3 DEF RingInv, RingsHaveRoom
<1>9. ReadsInItsBuffer'
  BY <1>1, <1>3 DEF RingInv, ReadsInItsBuffer, End
<1>10. SizesAreKept' /\ BytesAreKept' /\ BuffersAreReal'
  BY <1>1, <1>3 DEF RingInv, SizesAreKept, BytesAreKept, BuffersAreReal, End
<1> QED BY <1>4, <1>5, <1>6, <1>7, <1>8, <1>9, <1>10 DEF RingInv

(* A render publishes, in this order, the bytes, the buffers and the count.  *)
LEMMA PublishReadKeepsRing == RingInv /\ PublishRead => RingInv'
<1> SUFFICES ASSUME RingInv, PublishRead PROVE RingInv'
  OBVIOUS
<1>0. /\ pull.at = "loop" /\ read' = pull.rd /\ pull' = [pull EXCEPT !.at = "read"]
      /\ UNCHANGED <<pcm, write, qsize, qWrite, qRead, played, qLeft, fired, push, ends>>
  BY DEF PublishRead, callbackVars
<1>1. Shapes
  BY DEF RingInv
<1>2. /\ pull'.at = "read" /\ pull'.rd = pull.rd /\ pull'.qr = pull.qr /\ pull'.done = pull.done
      /\ pull' \in [at : PullPlaces, want : Nat, got : Nat, rd : Nat,
                    qr : Nat, qw : Nat, done : Nat]
  BY <1>0, <1>1 DEF Shapes, PullPlaces
<1>3. Rd' = Rd /\ Qr' = Qr /\ Finished' = Finished /\ Copied' = Copied /\ Rd = read'
  BY <1>0, <1>2 DEF Rd, Qr, Finished, Copied
<1>4. /\ read \in Nat /\ Rd \in Nat /\ Copied \in Nat /\ RingBytes \in Nat
      /\ qRead \in Nat /\ qWrite \in Nat /\ played \in Nat /\ Qr \in Nat
      /\ \A k \in 0 .. qWrite : End(k) \in Nat
  BY <1>1, RingNumbers DEF Shapes
<1>5. /\ read =< Rd /\ End(played) =< read /\ fired =< played /\ played =< qRead
      /\ qRead =< Qr /\ Qr =< qWrite /\ Finished = Qr
  BY DEF RingInv, PositionsAreOrdered
<1>6. Shapes'
  BY <1>0, <1>1, <1>2, <1>3, <1>4 DEF Shapes
<1>7. EndsAreOrdered'
  BY <1>0 DEF RingInv, EndsAreOrdered, End
<1>8. PositionsAreOrdered'
  <2>1. End(played)' = End(played)
    BY <1>0 DEF End
  <2>2. End(played) \in Nat
    BY <1>4, <1>5
  <2>3. End(played)' =< read' /\ read' =< Rd'
    BY <1>3, <1>4, <1>5, <2>1, <2>2
  <2> QED BY <1>0, <1>3, <1>5, <2>3 DEF PositionsAreOrdered
<1>9. PullsInOrder'
  BY <1>0, <1>2 DEF PullsInOrder
<1>10. RingsHaveRoom'
  <2>1. Copied - read =< RingBytes
    BY DEF RingInv, RingsHaveRoom
  <2>2. Copied - Rd =< RingBytes
    BY <1>4, <1>5, <2>1
  <2>3. Copied' - read' =< RingBytes
    BY <1>3, <2>2
  <2> QED BY <1>0, <2>3 DEF RingInv, RingsHaveRoom
<1>11. ReadsInItsBuffer'
  BY <1>0, <1>3 DEF RingInv, ReadsInItsBuffer, End
<1>12. SizesAreKept' /\ BytesAreKept' /\ BuffersAreReal'
  BY <1>0, <1>3 DEF RingInv, SizesAreKept, BytesAreKept, BuffersAreReal, End
<1> QED BY <1>6, <1>7, <1>8, <1>9, <1>10, <1>11, <1>12 DEF RingInv

(* The pull publishes the position of the queue.                             *)
LEMMA PublishQueueKeepsRing == RingInv /\ PublishQueue => RingInv'
<1> SUFFICES ASSUME RingInv, PublishQueue PROVE RingInv'
  OBVIOUS
<1>0. /\ pull.at = "read" /\ qRead' = pull.qr /\ pull' = [pull EXCEPT !.at = "queue"]
      /\ UNCHANGED <<pcm, write, read, qsize, qWrite, played, qLeft, fired, push, ends>>
  BY DEF PublishQueue, callbackVars
<1>1. Shapes
  BY DEF RingInv
<1>2. /\ pull'.at = "queue" /\ pull'.rd = pull.rd /\ pull'.qr = pull.qr /\ pull'.done = pull.done
      /\ pull' \in [at : PullPlaces, want : Nat, got : Nat, rd : Nat,
                    qr : Nat, qw : Nat, done : Nat]
  BY <1>0, <1>1 DEF Shapes, PullPlaces
<1>3. Rd' = Rd /\ Qr' = Qr /\ Finished' = Finished /\ Copied' = Copied /\ Qr = qRead'
  BY <1>0, <1>2 DEF Rd, Qr, Finished, Copied
<1>4. /\ qRead \in Nat /\ qWrite \in Nat /\ played \in Nat /\ Qr \in Nat /\ QueueSlots \in Nat
  BY <1>1, RingNumbers DEF Shapes
<1>5. /\ read =< Rd /\ End(played) =< read /\ fired =< played /\ played =< qRead
      /\ qRead =< Qr /\ Qr =< qWrite /\ Finished = Qr
  BY DEF RingInv, PositionsAreOrdered
<1>6. Shapes'
  BY <1>0, <1>1, <1>2, <1>3, <1>4 DEF Shapes
<1>7. EndsAreOrdered'
  BY <1>0 DEF RingInv, EndsAreOrdered, End
<1>8. PositionsAreOrdered'
  <2>1. End(played)' =< read' /\ read' =< Rd'
    BY <1>0, <1>3, <1>5 DEF End
  <2>2. played' =< qRead' /\ qRead' =< Qr' /\ Qr' =< qWrite'
    BY <1>0, <1>3, <1>4, <1>5
  <2> QED BY <1>0, <1>3, <1>5, <2>1, <2>2 DEF PositionsAreOrdered
<1>9. PullsInOrder'
  BY <1>0, <1>2 DEF RingInv, PullsInOrder
<1>10. RingsHaveRoom'
  <2>1. /\ qWrite - qRead =< QueueSlots
        /\ push.at \in {"copied", "written"} => qWrite - qRead < QueueSlots
    BY DEF RingInv, RingsHaveRoom
  <2>2. /\ qWrite' - qRead' =< QueueSlots
        /\ push'.at \in {"copied", "written"} => qWrite' - qRead' < QueueSlots
    BY <1>0, <1>3, <1>4, <1>5, <2>1
  <2> QED BY <1>0, <1>3, <2>2 DEF RingInv, RingsHaveRoom
<1>11. ReadsInItsBuffer'
  BY <1>0, <1>3 DEF RingInv, ReadsInItsBuffer, End
<1>12. SizesAreKept' /\ BytesAreKept' /\ BuffersAreReal'
  BY <1>0, <1>3 DEF RingInv, SizesAreKept, BytesAreKept, BuffersAreReal, End
<1> QED BY <1>6, <1>7, <1>8, <1>9, <1>10, <1>11, <1>12 DEF RingInv

(* The pull publishes what it played last.                                   *)
LEMMA PublishPlayedKeepsRing == RingInv /\ PublishPlayed => RingInv'
<1> SUFFICES ASSUME RingInv, PublishPlayed PROVE RingInv'
  OBVIOUS
<1>0. /\ pull.at = "queue" /\ played' = pull.done /\ pull' = NoPull
      /\ UNCHANGED <<pcm, write, read, qsize, qWrite, qRead, qLeft, fired, push, ends>>
  BY DEF PublishPlayed, callbackVars
<1>1. Shapes
  BY DEF RingInv
<1>2. /\ pull'.at = "idle"
      /\ pull' \in [at : PullPlaces, want : Nat, got : Nat, rd : Nat,
                    qr : Nat, qw : Nat, done : Nat]
  BY <1>0 DEF NoPull, PullPlaces
<1>3. Rd = read /\ Qr = qRead /\ Finished = played' /\ Rd = pull.rd /\ Qr = pull.qr
  BY <1>0 DEF RingInv, PullsInOrder, Rd, Qr, Finished
<1>4. Rd' = Rd /\ Qr' = Qr /\ Finished' = Finished /\ Copied' = Copied
  BY <1>0, <1>2, <1>3 DEF Rd, Qr, Finished, Copied
<1>5. /\ qRead \in Nat /\ qWrite \in Nat /\ played \in Nat /\ fired \in Nat
      /\ Finished \in Nat /\ read \in Nat
      /\ \A k \in 0 .. qWrite : End(k) \in Nat
  BY <1>1, RingNumbers DEF Shapes
<1>6. /\ fired =< played /\ played =< qRead /\ Qr =< qWrite /\ Finished = Qr
  BY DEF RingInv, PositionsAreOrdered
<1>7. Shapes'
  BY <1>0, <1>1, <1>2, <1>3, <1>5 DEF Shapes
<1>8. EndsAreOrdered'
  BY <1>0 DEF RingInv, EndsAreOrdered, End
<1>9. PositionsAreOrdered'
  <2>1. End(Qr) =< Rd
    BY DEF RingInv, ReadsInItsBuffer
  <2>2. End(played)' = End(Qr)
    BY <1>0, <1>3, <1>6 DEF End
  <2>3. End(played)' =< read' /\ read' =< Rd'
    BY <1>0, <1>3, <1>4, <1>5, <2>1, <2>2
  <2>4. /\ fired' =< played' /\ played' =< qRead' /\ qRead' =< Qr' /\ Qr' =< qWrite'
        /\ Finished' = Qr'
    BY <1>0, <1>3, <1>4, <1>5, <1>6
  <2> QED BY <2>3, <2>4 DEF PositionsAreOrdered
<1>10. PullsInOrder'
  BY <1>2 DEF PullsInOrder
<1>11. RingsHaveRoom'
  BY <1>0, <1>4 DEF RingInv, RingsHaveRoom
<1>12. ReadsInItsBuffer'
  BY <1>0, <1>4 DEF RingInv, ReadsInItsBuffer, End
<1>13. SizesAreKept' /\ BytesAreKept' /\ BuffersAreReal'
  BY <1>0, <1>4 DEF RingInv, SizesAreKept, BytesAreKept, BuffersAreReal, End
<1> QED BY <1>7, <1>8, <1>9, <1>10, <1>11, <1>12, <1>13 DEF RingInv

(* The device and the ring together.                                         *)
AudioInv == DeviceIsSound /\ RingInv

(* Every step keeps the rings, except one that cuts a buffer.                *)
LEMMA RingStep == RingInv /\ RingSteps => RingInv'
BY QuietKeepsRing, DrainsKeepsRing, ClearsKeepsRing, ReturnsKeepsRing, EnqueueKeepsRing,
   PublishBytesKeepsRing, PublishBufferKeepsRing, RenderBeginsKeepsRing,
   RenderCopiesKeepsRing, PublishReadKeepsRing, PublishQueueKeepsRing,
   PublishPlayedKeepsRing DEF RingSteps

(* So the whole invariant is kept by steps that cut no buffer.               *)
LEMMA AudioStep == AudioInv /\ [Next]_vars /\ [~CutsABuffer]_vars => AudioInv' /\ RingSteps
<1> SUFFICES ASSUME AudioInv, [Next]_vars, [~CutsABuffer]_vars
             PROVE  AudioInv' /\ RingSteps
  OBVIOUS
<1>1. DeviceIsSound'
  BY DeviceStep DEF AudioInv
<1>2. RingSteps
  <2>1. Shapes /\ PositionsAreOrdered /\ DeviceIsSound
    BY DEF AudioInv, RingInv
  <2>2. CASE ~CutsABuffer
    BY <1>1, <2>1, <2>2, StepKinds
  <2>3. CASE UNCHANGED vars
    <3>1. fired \in Nat /\ played \in Nat /\ fired =< played
      BY <2>1 DEF Shapes, PositionsAreOrdered
    <3> QED BY <2>3, <3>1 DEF vars, callbackVars, RingSteps, Quiet
  <2> QED BY <2>2, <2>3
<1> QED BY <1>1, <1>2, RingStep DEF AudioInv

(* The rings of every player that is never drained in the middle of a buffer *)
(* hold what the guest put there, in order, and nothing else.                *)
THEOREM RingInvariant == Spec /\ [][~CutsABuffer]_vars => []AudioInv
<1>1. Init => AudioInv
  BY DeviceInit, RingInit DEF AudioInv
<1>2. AudioInv /\ [Next]_vars /\ [~CutsABuffer]_vars => AudioInv'
  BY AudioStep
<1> QED BY <1>1, <1>2, PTL DEF Spec

(* "The cooperative scheduler executes callbacks for guest buffers after     *)
(* their samples are consumed" is true of such a player.                     *)
THEOREM CallbacksComeAfter == Spec /\ [][~CutsABuffer]_vars => []CallbacksFollowPlayback
<1>1. AudioInv => CallbacksFollowPlayback
  <2> SUFFICES ASSUME RingInv, NEW k \in 1 .. fired
               PROVE  k =< Len(ends) /\ ends[k] =< read
    BY DEF AudioInv, CallbacksFollowPlayback
  <2>1. /\ fired \in Nat /\ played \in Nat /\ qRead \in Nat /\ qWrite \in Nat /\ read \in Nat
        /\ Qr \in Nat /\ \A j \in 0 .. qWrite : End(j) \in Nat
    BY RingNumbers DEF RingInv, Shapes
  <2>2. /\ fired =< played /\ played =< qRead /\ qRead =< Qr /\ Qr =< qWrite
        /\ End(played) =< read
    BY DEF RingInv, PositionsAreOrdered
  <2>3. k \in 0 .. qWrite /\ played \in 0 .. qWrite /\ k =< played /\ k # 0
    BY <2>1, <2>2
  <2>4. End(k) =< End(played) /\ qWrite = Len(ends)
    BY <2>3 DEF RingInv, EndsAreOrdered
  <2>5. End(k) =< read
    BY <2>1, <2>2, <2>3, <2>4
  <2> QED BY <2>1, <2>3, <2>4, <2>5 DEF End
<1> QED BY <1>1, RingInvariant, PTL

-----------------------------------------------------------------------------
(* The stream. *)

(* Every byte a render copies is the next byte of the stream: it lies before *)
(* the end of a buffer that has been written, in a slot nothing has taken.   *)
LEMMA CopiesTheStream ==
    ASSUME RingInv, RingSteps, pull.at = "loop", pull'.at = "loop"
    PROVE  \A p \in pull.rd .. pull'.rd - 1 : pcm[p % RingBytes] = p
<1>1. Rd = pull.rd /\ Rd \in Nat /\ write \in Nat /\ Copied \in Nat /\ qLeft \in Nat
  BY RingNumbers DEF Rd, RingInv, Shapes
<1>2. CASE RenderCopies
  <2>1. PICK left, n \in Nat \ {0} :
          /\ n =< left /\ pull'.rd = pull.rd + n
          /\ Qr < pull.qw /\ pull.qw =< qWrite
          /\ Rd + left = End(Qr + 1)
    BY <1>2, CopyFacts
  <2>2. /\ qWrite \in Nat /\ Qr \in Nat /\ pull.qw \in Nat /\ push.size \in Nat
        /\ \A k \in 0 .. qWrite : End(k) \in Nat
    BY RingNumbers DEF RingInv, Shapes
  <2>3. Qr + 1 \in 0 .. qWrite /\ qWrite \in 0 .. qWrite /\ Qr + 1 =< qWrite
    BY <2>1, <2>2
  <2>4. End(Qr + 1) =< End(qWrite) /\ End(Qr + 1) \in Nat /\ End(qWrite) \in Nat
    BY <2>2, <2>3 DEF RingInv, EndsAreOrdered
  <2>5. write = End(qWrite) + push.size \/ write = End(qWrite) + 0
    BY DEF RingInv, EndsAreOrdered
  <2>6. Copied = write \/ Copied = write + push.size
    BY DEF Copied
  <2>7. Rd + n =< Copied
    BY <1>1, <2>1, <2>2, <2>4, <2>5, <2>6
  <2>8. \A p \in pull.rd .. pull'.rd - 1 : p \in Rd .. Copied - 1
    BY <1>1, <2>1, <2>7
  <2> QED BY <2>8 DEF RingInv, BytesAreKept
<1>3. CASE UNCHANGED pull
  BY <1>1, <1>3
<1>4. CASE ~RenderCopies /\ pull' # pull
  <2>1. \/ \E want \in Wants : RenderBegins(want)
        \/ PublishRead \/ PublishQueue \/ PublishPlayed
    BY <1>4 DEF RingSteps, Quiet, Drains, Clears, Returns, Enqueue, PublishBytes, PublishBuffer
  <2>2. pull \in [at : PullPlaces, want : Nat, got : Nat, rd : Nat,
                  qr : Nat, qw : Nat, done : Nat]
    BY DEF RingInv, Shapes
  <2> QED
    BY <2>1, <2>2 DEF RenderBegins, PublishRead, PublishQueue, PublishPlayed
<1> QED BY <1>2, <1>3, <1>4

(* What the audio thread plays is the stream the guest queued, byte by byte, *)
(* although ring_push and ring_pull only ever share atomic positions.        *)
THEOREM StreamIsPlayed == Spec /\ [][~CutsABuffer]_vars => PlaysTheStream
<1>1. AudioInv /\ [Next]_vars /\ [~CutsABuffer]_vars
        => [pull.at = "loop" /\ pull'.at = "loop"
              => \A p \in pull.rd .. pull'.rd - 1 : pcm[p % RingBytes] = p]_vars
  BY AudioStep, CopiesTheStream DEF AudioInv
<1> QED BY <1>1, RingInvariant, PTL DEF Spec, PlaysTheStream

-----------------------------------------------------------------------------
(* The ring implements the buffer queue. *)

(* The backlog of a queue read up to from and written up to to, with left    *)
(* bytes to go of the buffer that is being played.                           *)
Slots(from, to, left, sizes) ==
    [k \in 1 .. to - from |->
       IF k = 1 /\ left > 0 THEN left ELSE sizes[(from + k - 1) % QueueSlots]]

(* The refinement mapping in these terms. *)
LEMMA BacklogIs == Backlog = Slots(Qr, qWrite, qLeft, qsize)
<1>1. CASE pull.at = "idle"
  BY <1>1 DEF Backlog, Slots, Qr
<1>2. CASE pull.at # "idle"
  BY <1>2 DEF Backlog, Slots, Qr
<1> QED BY <1>1, <1>2

(* And after a step. *)
LEMMA BacklogWillBe == Backlog' = Slots(Qr', qWrite', qLeft', qsize')
<1>1. CASE pull'.at = "idle"
  BY <1>1 DEF Backlog, Slots, Qr
<1>2. CASE pull'.at # "idle"
  BY <1>2 DEF Backlog, Slots, Qr
<1> QED BY <1>1, <1>2

(* A queue that was read to the end has no backlog. *)
LEMMA NoSlots == ASSUME NEW n \in Int, NEW left, NEW sizes PROVE Slots(n, n, left, sizes) = <<>>
BY DEF Slots

(* The slots are a sequence. *)
LEMMA SlotsAreASequence ==
    ASSUME NEW from \in Nat, NEW to \in Nat, from =< to, NEW left, NEW sizes
    PROVE  /\ Len(Slots(from, to, left, sizes)) = to - from
           /\ \E S : Slots(from, to, left, sizes) \in Seq(S)
           /\ \A k \in 1 .. to - from :
                Slots(from, to, left, sizes)[k] =
                  IF k = 1 /\ left > 0 THEN left ELSE sizes[(from + k - 1) % QueueSlots]
<1>1. PICK m \in Nat : m = to - from
  OBVIOUS
<1> DEFINE val(k) == IF k = 1 /\ left > 0 THEN left ELSE sizes[(from + k - 1) % QueueSlots]
           S == {val(k) : k \in 1 .. m}
           s == [k \in 1 .. m |-> val(k)]
<1>2. \A k \in 1 .. m : val(k) \in S
  OBVIOUS
<1> HIDE DEF val
<1>3. s \in Seq(S) /\ Len(s) = m
  <2> HIDE DEF S
  <2> QED BY <1>2
<1>4. Slots(from, to, left, sizes) = s
  BY <1>1 DEF Slots, val
<1>5. \A k \in 1 .. m : s[k] = val(k)
  OBVIOUS
<1> QED BY <1>1, <1>3, <1>4, <1>5 DEF val

(* The sequence s lists m slots from the one at from on. *)
Listed(s, m, from, left, sizes) ==
    /\ Len(s) = m
    /\ \E S : s \in Seq(S)
    /\ \A k \in 1 .. m :
          s[k] = IF k = 1 /\ left > 0 THEN left ELSE sizes[(from + k - 1) % QueueSlots]

(* Slots lists the slots from from to to. *)
LEMMA SlotsAreListed ==
    ASSUME NEW from \in Nat, NEW to \in Nat, from =< to, NEW left, NEW sizes
    PROVE  Listed(Slots(from, to, left, sizes), to - from, from, left, sizes)
BY SlotsAreASequence DEF Listed

(* A buffer of n bytes takes the slot behind the others. *)
Grows(from, to, next, left, sizes, anew, n) ==
    /\ from =< to /\ next = to + 1 /\ (left > 0 => from < to)
    /\ \A k \in from .. to - 1 : anew[k % QueueSlots] = sizes[k % QueueSlots]
    /\ anew[to % QueueSlots] = n

(* A published buffer comes last. *)
LEMMA SlotsGrow ==
    ASSUME NEW from \in Nat, NEW to \in Nat, NEW next \in Nat, NEW left \in Nat,
           NEW sizes, NEW anew, NEW n,
           Grows(from, to, next, left, sizes, anew, n)
    PROVE  Slots(from, next, left, anew) = Append(Slots(from, to, left, sizes), n)
<1>0. /\ from =< to /\ next = to + 1 /\ (left > 0 => from < to)
  BY DEF Grows
<1>h. /\ \A k \in from .. to - 1 : anew[k % QueueSlots] = sizes[k % QueueSlots]
      /\ anew[to % QueueSlots] = n
  BY DEF Grows
<1> DEFINE s == Slots(from, to, left, sizes)
           t == Slots(from, next, left, anew)
<1>1. PICK m \in Nat : m = to - from
  BY <1>0
<1>2. /\ Len(s) = m /\ \E S : s \in Seq(S)
      /\ \A k \in 1 .. m :
           s[k] = IF k = 1 /\ left > 0 THEN left ELSE sizes[(from + k - 1) % QueueSlots]
  <2>1. Listed(s, to - from, from, left, sizes)
    BY <1>0, SlotsAreListed
  <2> QED BY <1>1, <2>1 DEF Listed
<1>3. /\ Len(t) = m + 1 /\ \E S : t \in Seq(S)
      /\ \A k \in 1 .. m + 1 :
           t[k] = IF k = 1 /\ left > 0 THEN left ELSE anew[(from + k - 1) % QueueSlots]
  <2>1. from =< next /\ next - from = m + 1
    BY <1>0, <1>1
  <2>2. Listed(t, next - from, from, left, anew)
    BY <2>1, SlotsAreListed
  <2> QED BY <2>1, <2>2 DEF Listed
<1>4. PICK S : s \in Seq(S)
  BY <1>0, <1>2
<1>5. PICK T : t \in Seq(T)
  BY <1>0, <1>3
<1> DEFINE U == S \cup T \cup {n}
<1> HIDE DEF s, t
<1>6. s \in Seq(U) /\ t \in Seq(U) /\ n \in U
  BY <1>0, <1>4, <1>5
<1> HIDE DEF U
<1>7. /\ Append(s, n) \in Seq(U) /\ Len(Append(s, n)) = m + 1
      /\ \A k \in 1 .. m : Append(s, n)[k] = s[k]
      /\ Append(s, n)[m + 1] = n
  BY <1>2, <1>6, AppendProperties
<1>8. ASSUME NEW k \in 1 .. m PROVE t[k] = s[k]
  <2>1. PICK j \in from .. to - 1 : j = from + k - 1
    BY <1>0, <1>1
  <2>2. anew[j % QueueSlots] = sizes[j % QueueSlots]
    BY <1>h
  <2>3. k \in 1 .. m + 1
    BY <1>0
  <2> QED BY <1>0, <1>2, <1>3, <2>1, <2>2, <2>3
<1>9. t[m + 1] = n
  <2>1. PICK k \in 1 .. m + 1 : k = m + 1
    BY <1>0
  <2>2. from + k - 1 = to /\ ~(k = 1 /\ left > 0)
    BY <1>0, <1>1, <2>1
  <2>3. t[k] = n
    BY <1>3, <1>h, <2>2
  <2> QED BY <1>0, <2>1, <2>3
<1>10. \A k \in 1 .. m + 1 : t[k] = Append(s, n)[k]
  <2> SUFFICES ASSUME NEW k \in 1 .. m + 1 PROVE t[k] = Append(s, n)[k]
    BY <1>0
  <2>1. CASE k \in 1 .. m
    BY <1>0, <1>7, <1>8, <2>1
  <2>2. CASE k = m + 1
    BY <1>0, <1>7, <1>9, <2>2
  <2>3. k \in 1 .. m \/ k = m + 1
    BY <1>0
  <2> QED BY <1>0, <2>1, <2>2, <2>3
<1>11. t = Append(s, n)
  BY <1>0, <1>3, <1>6, <1>7, <1>10, SeqEqual
<1> QED BY <1>0, <1>11 DEF s, t

(* A slice of n bytes is taken of the first buffer, of which head are left.  *)
Plays(from, to, left, sizes, head, n) ==
    /\ from < to
    /\ head = (IF left > 0 THEN left ELSE sizes[from % QueueSlots])
    /\ n =< head

(* A copied slice shortens the first buffer, or finishes it. *)
LEMMA SlotsPlay ==
    ASSUME NEW from \in Nat, NEW to \in Nat, NEW left \in Nat, NEW sizes,
           NEW head \in Nat \ {0}, NEW n \in Nat \ {0},
           Plays(from, to, left, sizes, head, n)
    PROVE  /\ Slots(from, to, left, sizes) # <<>>
           /\ Head(Slots(from, to, left, sizes)) = head
           /\ n = head => Slots(from + 1, to, 0, sizes) = Tail(Slots(from, to, left, sizes))
           /\ n # head => Slots(from, to, head - n, sizes)
                            = [Slots(from, to, left, sizes) EXCEPT ![1] = @ - n]
<1>0. from < to /\ n =< head
  BY DEF Plays
<1>h. head = (IF left > 0 THEN left ELSE sizes[from % QueueSlots])
  BY DEF Plays
<1> DEFINE s == Slots(from, to, left, sizes)
<1>1. PICK m \in Nat \ {0} : m = to - from
  BY <1>0
<1>2. /\ Len(s) = m /\ \E S : s \in Seq(S)
      /\ \A k \in 1 .. m :
           s[k] = IF k = 1 /\ left > 0 THEN left ELSE sizes[(from + k - 1) % QueueSlots]
  <2>1. from =< to
    BY <1>0
  <2>2. /\ Len(s) = to - from /\ \E S : s \in Seq(S)
        /\ \A k \in 1 .. to - from :
             s[k] = IF k = 1 /\ left > 0 THEN left ELSE sizes[(from + k - 1) % QueueSlots]
    BY <2>1, SlotsAreASequence
  <2> QED BY <1>1, <2>2
<1>3. PICK S : s \in Seq(S)
  BY <1>0, <1>2
<1>4. s[1] = head
  <2>1. from + 1 - 1 = from
    BY <1>0
  <2> QED BY <1>h, <1>2, <2>1
<1>5. s # <<>> /\ Head(s) = head
  <2> HIDE DEF s
  <2>1. s # <<>>
    BY <1>0, <1>2, <1>3
  <2> QED BY <1>0, <1>3, <1>4, <2>1
<1>6. ASSUME n = head PROVE Slots(from + 1, to, 0, sizes) = Tail(s)
  <2> DEFINE t == Slots(from + 1, to, 0, sizes)
  <2>1. /\ Len(t) = m - 1 /\ \E T : t \in Seq(T)
        /\ \A k \in 1 .. m - 1 : t[k] = sizes[(from + 1 + k - 1) % QueueSlots]
    <3>1. PICK f \in Nat : f = from + 1
      BY <1>0
    <3>2. f =< to /\ to - f = m - 1
      BY <1>0, <1>1, <3>1
    <3>3. /\ Len(Slots(f, to, 0, sizes)) = m - 1 /\ \E T : Slots(f, to, 0, sizes) \in Seq(T)
          /\ \A k \in 1 .. m - 1 : Slots(f, to, 0, sizes)[k] = sizes[(f + k - 1) % QueueSlots]
      BY <3>2, SlotsAreASequence
    <3> QED BY <1>0, <3>1, <3>3
  <2>2. PICK T : t \in Seq(T)
    BY <1>0, <2>1
  <2> DEFINE U == S \cup T
  <2> HIDE DEF s, t
  <2>3. s \in Seq(U) /\ t \in Seq(U)
    BY <1>0, <1>3, <2>2
  <2> HIDE DEF U
  <2>4. /\ Tail(s) \in Seq(U) /\ Len(Tail(s)) = m - 1
        /\ \A k \in 1 .. m - 1 : Tail(s)[k] = s[k + 1]
    BY <1>0, <1>2, <1>5, <2>3, HeadTailProperties
  <2>5. ASSUME NEW k \in 1 .. m - 1 PROVE t[k] = Tail(s)[k]
    <3>1. PICK j \in 1 .. m : j = k + 1
      BY <1>0
    <3>2. s[j] = sizes[(from + j - 1) % QueueSlots]
      BY <1>0, <1>2, <3>1
    <3>3. from + j - 1 = from + 1 + k - 1
      BY <1>0, <3>1
    <3> QED BY <1>0, <2>1, <2>4, <3>1, <3>2, <3>3
  <2>6. t = Tail(s)
    BY <1>0, <2>1, <2>3, <2>4, <2>5, SeqEqual
  <2> QED BY <1>0, <2>6 DEF t
<1>7. ASSUME n # head PROVE Slots(from, to, head - n, sizes) = [s EXCEPT ![1] = @ - n]
  <2>1. PICK rest \in Nat \ {0} : rest = head - n
    BY <1>0, <1>7
  <2>2. s = [k \in 1 .. m |->
               IF k = 1 /\ left > 0 THEN left ELSE sizes[(from + k - 1) % QueueSlots]]
    BY <1>0, <1>1 DEF Slots
  <2>3. Slots(from, to, rest, sizes) = [k \in 1 .. m |->
               IF k = 1 THEN rest ELSE sizes[(from + k - 1) % QueueSlots]]
    BY <1>0, <1>1, <2>1 DEF Slots
  <2>4. [s EXCEPT ![1] = @ - n] = [k \in 1 .. m |-> IF k = 1 THEN s[1] - n ELSE s[k]]
    BY <1>0, <2>2
  <2>5. \A k \in 1 .. m : (IF k = 1 THEN s[1] - n ELSE s[k])
                            = (IF k = 1 THEN rest ELSE sizes[(from + k - 1) % QueueSlots])
    BY <1>0, <1>2, <1>4, <2>1
  <2> QED BY <1>0, <2>1, <2>3, <2>4, <2>5
<1> QED BY <1>0, <1>5, <1>6, <1>7

(* The first state maps to an empty queue. *)
LEMMA QueueInit == Init => Abstract!Init
<1> SUFFICES ASSUME Init PROVE Abstract!Init
  OBVIOUS
<1>1. pull.at = "idle" /\ qRead = 0 /\ qWrite = 0 /\ played = 0 /\ fired = 0
  BY DEF Init, NoPull
<1>2. Backlog = <<>>
  <2>1. Qr = 0
    BY <1>1 DEF Qr
  <2> QED BY <1>1, <2>1, BacklogIs, NoSlots
<1> QED BY <1>1, <1>2 DEF Abstract!Init

(* A step that leaves the positions of the queue alone is no step of it.     *)
LEMMA QueueStutters ==
    ASSUME UNCHANGED <<Qr, qWrite, qLeft, qsize, Finished, fired>>
    PROVE  UNCHANGED Abstract!vars
<1>1. Backlog' = Slots(Qr', qWrite', qLeft', qsize')
  BY BacklogWillBe
<1>2. Backlog' = Backlog
  BY <1>1, BacklogIs
<1> QED BY <1>2 DEF Finished, Abstract!vars

(* A published buffer is enqueued. *)
LEMMA PublishEnqueues == ASSUME RingInv, PublishBuffer PROVE Abstract!Enqueue
<1>0. /\ push.at = "written" /\ push.size \in Sizes
      /\ qsize' = [qsize EXCEPT ![qWrite % QueueSlots] = push.size]
      /\ qWrite' = qWrite + 1
      /\ UNCHANGED <<qRead, played, qLeft, fired, pull>>
  BY DEF PublishBuffer, callbackVars, RingInv, Shapes
<1>1. Qr' = Qr /\ Finished' = Finished
  BY <1>0 DEF Qr, Finished
<1>2. /\ Qr \in Nat /\ qWrite \in Nat /\ qRead \in Nat /\ qLeft \in Nat
      /\ QueueSlots \in Nat \ {0} /\ qsize \in [0 .. QueueSlots - 1 -> Nat]
  BY RingNumbers DEF RingInv, Shapes
<1>3. /\ qRead =< Qr /\ Qr =< qWrite /\ qWrite - qRead < QueueSlots
      /\ qLeft > 0 => Qr < qWrite
  BY <1>0 DEF RingInv, PositionsAreOrdered, RingsHaveRoom, ReadsInItsBuffer
<1>4. qWrite % QueueSlots \in 0 .. QueueSlots - 1
  BY <1>2, Division
<1>5. qsize'[qWrite % QueueSlots] = push.size
  BY <1>0, <1>2, <1>4
<1>6. ASSUME NEW k \in Qr .. qWrite - 1
      PROVE  qsize'[k % QueueSlots] = qsize[k % QueueSlots]
  <2>1. k \in Int /\ 0 < qWrite - k /\ qWrite - k < QueueSlots /\ 0 =< qWrite - k /\ qWrite \in Int
    BY <1>2, <1>3
  <2>2. k % QueueSlots # qWrite % QueueSlots
    <3> SUFFICES ASSUME k % QueueSlots = qWrite % QueueSlots PROVE FALSE
      OBVIOUS
    <3>1. k = qWrite
      BY <1>2, <2>1, SameRemainder, Zenon
    <3> QED BY <2>1, <3>1
  <2>3. k % QueueSlots \in 0 .. QueueSlots - 1
    BY <1>2, <2>1, Division
  <2> QED BY <1>0, <1>2, <2>2, <2>3
<1>7. PICK next \in Nat : next = qWrite + 1
  BY <1>2
<1>8. Slots(Qr, next, qLeft, qsize') = Append(Slots(Qr, qWrite, qLeft, qsize), push.size)
  <2>1. Grows(Qr, qWrite, next, qLeft, qsize, qsize', push.size)
    BY <1>2, <1>3, <1>5, <1>6, <1>7 DEF Grows
  <2> QED BY <1>2, <1>7, <2>1, SlotsGrow
<1>9. Backlog' = Slots(Qr', qWrite', qLeft', qsize')
  BY BacklogWillBe
<1>10. Backlog' = Append(Backlog, push.size)
  BY <1>0, <1>1, <1>7, <1>8, <1>9, BacklogIs
<1> QED BY <1>0, <1>1, <1>10 DEF Abstract!Enqueue, Finished

(* A copied slice is played. *)
LEMMA CopyPlays == ASSUME RingInv, RenderCopies PROVE Abstract!Play
<1>0. PICK left, n \in Nat \ {0} :
        /\ left = (IF qLeft > 0 THEN qLeft ELSE qsize[Qr % QueueSlots])
        /\ n =< left /\ qLeft' = left - n
        /\ pull.at = "loop" /\ pull'.at = "loop"
        /\ pull'.qr = pull.qr + (IF n = left THEN 1 ELSE 0)
        /\ pull'.done = pull.done + (IF n = left THEN 1 ELSE 0)
        /\ Qr < pull.qw /\ pull.qw =< qWrite
        /\ UNCHANGED <<qsize, qWrite, fired>>
  BY CopyFacts
<1>1. Qr = pull.qr /\ Finished = pull.done /\ Qr' = pull'.qr /\ Finished' = pull'.done
  BY <1>0 DEF Qr, Finished
<1>2. Qr \in Nat /\ qWrite \in Nat /\ pull.qw \in Nat /\ qLeft \in Nat /\ Finished \in Nat
  BY RingNumbers DEF RingInv, Shapes
<1>3. Qr < qWrite
  BY <1>0, <1>2
<1>4. /\ Slots(Qr, qWrite, qLeft, qsize) # <<>>
      /\ Head(Slots(Qr, qWrite, qLeft, qsize)) = left
      /\ n = left => Slots(Qr + 1, qWrite, 0, qsize) = Tail(Slots(Qr, qWrite, qLeft, qsize))
      /\ n # left => Slots(Qr, qWrite, left - n, qsize)
                       = [Slots(Qr, qWrite, qLeft, qsize) EXCEPT ![1] = @ - n]
  <2>1. Plays(Qr, qWrite, qLeft, qsize, left, n)
    BY <1>0, <1>2, <1>3 DEF Plays
  <2> QED BY <1>2, <2>1, SlotsPlay
<1>5. Backlog # <<>> /\ Head(Backlog) = left
  BY <1>4, BacklogIs
<1>6. Backlog' = Slots(Qr', qWrite', qLeft', qsize')
  BY BacklogWillBe
<1>7. n \in 1 .. Head(Backlog)
  BY <1>0, <1>5
<1>8. CASE n = left
  <2>1. Qr' = Qr + 1 /\ Finished' = Finished + 1 /\ qLeft' = 0
    BY <1>0, <1>1, <1>8
  <2>2. Backlog' = Tail(Backlog)
    BY <1>0, <1>4, <1>6, <1>8, <2>1, BacklogIs
  <2> QED BY <1>0, <1>5, <1>7, <1>8, <2>1, <2>2 DEF Abstract!Play, Finished
<1>9. CASE n # left
  <2>1. Qr' = Qr /\ Finished' = Finished
    <3>1. pull.qr + 0 = pull.qr /\ pull.done + 0 = pull.done
      BY <1>1, <1>2
    <3> QED BY <1>0, <1>1, <1>9, <3>1
  <2>2. Backlog' = [Backlog EXCEPT ![1] = @ - n]
    BY <1>0, <1>4, <1>6, <1>9, <2>1, BacklogIs
  <2> QED BY <1>0, <1>5, <1>7, <1>9, <2>1, <2>2 DEF Abstract!Play, Finished
<1> QED BY <1>8, <1>9

(* A drain skips what is queued. *)
LEMMA DrainSkips == ASSUME RingInv, Drains PROVE Abstract!Skip
<1>0. /\ pull.at = "idle" /\ qRead' = qWrite /\ played' = qWrite
      /\ UNCHANGED <<qsize, qWrite, qLeft, pull>>
      /\ fired' \in {fired, fired + 1} /\ fired' =< qWrite
  BY DEF Drains
<1>1. Qr' = qWrite /\ Finished' = qWrite
  BY <1>0 DEF Qr, Finished
<1>2. Qr \in Nat /\ qWrite \in Nat /\ Qr =< qWrite /\ Finished = Qr
  BY RingNumbers DEF RingInv, Shapes, PositionsAreOrdered
<1>3. Backlog' = Slots(Qr', qWrite', qLeft', qsize')
  BY BacklogWillBe
<1>4. Backlog' = <<>>
  BY <1>0, <1>1, <1>2, <1>3, NoSlots
<1>5. Len(Backlog) = qWrite - Qr
  BY <1>2, BacklogIs, SlotsAreASequence
<1>6. Finished' = Finished + Len(Backlog)
  BY <1>1, <1>2, <1>5
<1> QED BY <1>0, <1>1, <1>4, <1>6 DEF Abstract!Skip, Finished

(* Each step of the rings is a step of the buffer queue, or none. *)
LEMMA QueueSteps == ASSUME RingInv, RingSteps PROVE [Abstract!Next]_(Abstract!vars)
<1>1. CASE Quiet
  <2>1. UNCHANGED <<Qr, qWrite, qLeft, qsize, Finished>>
    BY <1>1 DEF Quiet, ringVars, Qr, Finished
  <2>2. Backlog' = Slots(Qr', qWrite', qLeft', qsize')
    BY BacklogWillBe
  <2>3. Backlog' = Backlog
    BY <2>1, <2>2, BacklogIs
  <2>4. fired' \in fired .. Finished
    <3>1. fired \in Nat /\ played \in Nat /\ qRead \in Nat /\ Qr \in Nat /\ Finished \in Nat
      BY RingNumbers DEF RingInv, Shapes
    <3>2. played =< qRead /\ qRead =< Qr /\ Finished = Qr
      BY DEF RingInv, PositionsAreOrdered
    <3> QED BY <1>1, <3>1, <3>2 DEF Quiet
  <2>5. Abstract!GiveUp
    BY <2>1, <2>3, <2>4 DEF Abstract!GiveUp, Finished
  <2> QED BY <2>5 DEF Abstract!Next
<1>2. CASE Drains
  BY <1>2, DrainSkips DEF Abstract!Next
<1>3. CASE Clears
  <2>0. /\ pull.at = "idle" /\ UNCHANGED pull /\ played' = 0 /\ fired' = 0
        /\ qWrite' = 0 /\ qRead' = 0
    BY <1>3 DEF Clears, RingCleared
  <2>1. Qr' = 0 /\ Finished' = 0
    BY <2>0 DEF Qr, Finished
  <2>2. Backlog' = Slots(Qr', qWrite', qLeft', qsize')
    BY BacklogWillBe
  <2>3. Backlog' = <<>>
    BY <2>0, <2>1, <2>2, NoSlots
  <2>4. Abstract!Clear
    BY <2>0, <2>1, <2>3 DEF Abstract!Clear, Finished
  <2> QED BY <2>4 DEF Abstract!Next
<1>4. CASE PublishBuffer
  BY <1>4, PublishEnqueues DEF Abstract!Next
<1>5. CASE RenderCopies
  BY <1>5, CopyPlays DEF Abstract!Next
<1>6. CASE Returns \/ PublishBytes \/ \E n \in Sizes : Enqueue(n)
  <2>1. UNCHANGED <<qWrite, qRead, qLeft, qsize, played, fired, pull>>
    BY <1>6 DEF Returns, PublishBytes, Enqueue, ringVars, callbackVars
  <2> QED BY <2>1, QueueStutters DEF Qr, Finished
<1>7. CASE \E want \in Wants : RenderBegins(want)
  <2>1. PICK want \in Wants : RenderBegins(want)
    BY <1>7
  <2>2. UNCHANGED <<qWrite, qRead, qLeft, qsize, played, fired>>
    BY <2>1 DEF RenderBegins, ringVars, callbackVars
  <2>3. pull.at = "idle" /\ pull'.at = "loop" /\ pull'.qr = qRead /\ pull'.done = played
    BY <2>1 DEF RenderBegins
  <2> QED BY <2>2, <2>3, QueueStutters DEF Qr, Finished
<1>8. CASE PublishRead \/ PublishQueue
  <2>1. UNCHANGED <<qWrite, qLeft, qsize, fired>> /\ pull.at # "idle"
    BY <1>8 DEF PublishRead, PublishQueue, callbackVars
  <2>2. pull'.at # "idle" /\ pull'.qr = pull.qr /\ pull'.done = pull.done
    BY <1>8 DEF PublishRead, PublishQueue, RingInv, Shapes
  <2> QED BY <2>1, <2>2, QueueStutters DEF Qr, Finished
<1>9. CASE PublishPlayed
  <2>1. UNCHANGED <<qWrite, qRead, qLeft, qsize, fired>> /\ pull.at = "queue" /\ pull' = NoPull
    BY <1>9 DEF PublishPlayed, callbackVars
  <2>2. qRead = pull.qr /\ played' = pull.done /\ pull'.at = "idle"
    BY <1>9, <2>1 DEF PublishPlayed, RingInv, PullsInOrder, NoPull
  <2> QED BY <2>1, <2>2, QueueStutters DEF Qr, Finished
<1> QED
  BY <1>1, <1>2, <1>3, <1>4, <1>5, <1>6, <1>7, <1>8, <1>9 DEF RingSteps

(* The ring implements the buffer queue of OpenSL for every size of ring,    *)
(* queue, buffer and slice, whatever the two threads interleave, and plays   *)
(* its bytes in order, unless the pump drains a half-played buffer.          *)
THEOREM RingImplementsQueue == Spec /\ [][~CutsABuffer]_vars => PlaysTheQueue
<1>1. AudioInv /\ [Next]_vars /\ [~CutsABuffer]_vars => [Abstract!Next]_(Abstract!vars)
  BY AudioStep, QueueSteps DEF AudioInv
<1>2. Spec /\ [][~CutsABuffer]_vars => ImplementsPcmQueue
  BY <1>1, QueueInit, RingInvariant, PTL DEF Spec, ImplementsPcmQueue, Abstract!Spec
<1> QED BY <1>2, StreamIsPlayed DEF PlaysTheQueue

(* In particular for as long as CoreAudio works.                             *)
THEOREM WorkingOutputPlaysQueue == Spec /\ []~device.silent => PlaysTheQueue
<1>1. []~device.silent => [][~CutsABuffer]_vars
  <2>1. (~device.silent)' => [~CutsABuffer]_vars
    BY DEF CutsABuffer
  <2> QED BY <2>1, PTL
<1> QED BY <1>1, RingImplementsQueue

(* And for buffers that no slice splits, whatever CoreAudio answers.         *)
THEOREM WholeBuffersPlayQueue == ASSUME Sizes \subseteq {1} PROVE Spec => PlaysTheQueue
<1> DEFINE Whole == AudioInv /\ qLeft = 0
<1>1. Init => Whole
  BY DeviceInit, RingInit DEF AudioInv, Init
<1>2. Whole /\ [Next]_vars => Whole' /\ [~CutsABuffer]_vars
  <2> SUFFICES ASSUME AudioInv, qLeft = 0, [Next]_vars
               PROVE  Whole' /\ ~CutsABuffer
    OBVIOUS
  <2>1. ~CutsABuffer
    BY DEF CutsABuffer
  <2>2. AudioInv' /\ RingSteps
    BY <2>1, AudioStep
  <2>3. qLeft' = 0
    <3>1. CASE RenderCopies
      <4>1. PICK left, n \in Nat \ {0} :
              /\ left = (IF qLeft > 0 THEN qLeft ELSE qsize[Qr % QueueSlots])
              /\ n =< left /\ qLeft' = left - n
              /\ Qr < pull.qw /\ pull.qw =< qWrite
        BY <3>1, CopyFacts DEF AudioInv
      <4>2. Qr \in Nat /\ qWrite \in Nat /\ pull.qw \in Nat
        BY RingNumbers DEF AudioInv, RingInv, Shapes
      <4>3. Qr \in Qr .. qWrite - 1
        BY <4>1, <4>2
      <4>4. left = 1
        BY <4>1, <4>3 DEF AudioInv, RingInv, BuffersAreReal
      <4> QED BY <4>1, <4>4
    <3>2. CASE ~RenderCopies
      BY <2>2, <3>2 DEF RingSteps, Quiet, Drains, Clears, RingCleared, Returns, Enqueue,
         PublishBytes, PublishBuffer, RenderBegins, PublishRead, PublishQueue,
         PublishPlayed, ringVars
    <3> QED BY <3>1, <3>2
  <2> QED BY <2>1, <2>2, <2>3
<1>3. Spec => [][~CutsABuffer]_vars
  BY <1>1, <1>2, PTL DEF Spec
<1> QED BY <1>3, RingImplementsQueue
=============================================================================
