----------------------------- MODULE WindowProofs -----------------------------
(***************************************************************************)
(* Theorems about the frame gate and the window, for any set of layer      *)
(* sizes, every capacity of the touch queue and every bound.  In the gate  *)
(* no wake-up of the engine is lost, no frame of an earlier activation is  *)
(* delivered, and the drawable follows the layer; the window's threads     *)
(* make only the steps of the gate, so all that holds of the window; and   *)
(* the touches the guest is told of are paired.                            *)
(***************************************************************************)
EXTENDS Window, SequenceTheorems, TLAPS

-----------------------------------------------------------------------------
(* The gate, by itself. *)

(* Only an active scene of an open window has a frame pending, and its       *)
(* signal is posted, under way, or in the hands of the engine.               *)
PendingIsSignalled ==
    pending => /\ active /\ ~closed
               /\ signal > 0 \/ owed > 0 \/ At("woken")

(* An engine that went to sleep before an activation is signalled by it. *)
SleeperIsSignalled == At("wait") /\ active /\ ~sawActive => signal > 0 \/ owed > 0

(* A pending frame is of this activation; a pause forgets the last one. *)
FreshTicks ==
    /\ pending => tick = epoch
    /\ last \in {0, epoch}
    /\ ~active => last = 0

IInv == TypeOK /\ PendingIsSignalled /\ SleeperIsSignalled /\ FreshTicks /\ DrawableIsCurrent

-----------------------------------------------------------------------------
(* The invariant holds at first.                                             *)
LEMMA InitEstablishes == Init => IInv
<1> SUFFICES ASSUME Init PROVE IInv
  OBVIOUS
<1>1. TypeOK
  <2>1. /\ epoch \in 0 .. MaxActivations /\ tick \in 0 .. epoch /\ last \in 0 .. epoch
        /\ signal \in Nat /\ owed \in 0 .. 1
    BY SignalsAssumption DEF Init
  <2> QED
    BY <2>1, SizesAssumption DEF Init, TypeOK, Steps
<1>2. PendingIsSignalled /\ SleeperIsSignalled /\ FreshTicks /\ DrawableIsCurrent
  BY DEF Init, PendingIsSignalled, SleeperIsSignalled, FreshTicks, DrawableIsCurrent, At
<1> QED
  BY <1>1, <1>2 DEF IInv

(* The steps of the main thread. *)
LEMMA MainPreserves ==
    ASSUME IInv, Main
    PROVE  IInv'
<1> USE SizesAssumption, SignalsAssumption
    DEF IInv, TypeOK, Steps, PendingIsSignalled, SleeperIsSignalled, FreshTicks,
        DrawableIsCurrent, At, MainIdle, history, gate, surface
<1>1. ASSUME DisplayTick PROVE IInv'
  BY <1>1 DEF DisplayTick
<1>2. ASSUME Signal PROVE IInv'
  BY <1>2 DEF Signal
<1>3. ASSUME Resign PROVE IInv'
  <2>1. last' \in 0 .. epoch' /\ tick' \in 0 .. epoch' /\ owed' \in 0 .. 1
    BY <1>3 DEF Resign
  <2> QED
    BY <1>3, <2>1 DEF Resign
<1>4. ASSUME NEW size \in Sizes, Layout(size) PROVE IInv'
  BY <1>4 DEF Layout, LaidOut
<1>5. ASSUME NEW size \in Sizes, Activate(size) PROVE IInv'
  <2>1. /\ epoch' \in 0 .. MaxActivations /\ tick' \in 0 .. epoch'
        /\ last' \in 0 .. epoch' /\ owed' \in 0 .. 1
    <3>1. CASE active
      BY <1>5, <3>1 DEF Activate
    <3>2. CASE ~active
      BY <1>5, <3>2 DEF Activate
    <3> QED
      BY <3>1, <3>2
  <2>2. TypeOK'
    BY <1>5, <2>1 DEF Activate, LaidOut
  <2>3. PendingIsSignalled' /\ SleeperIsSignalled' /\ FreshTicks'
    BY <1>5 DEF Activate
  <2>4. DrawableIsCurrent'
    BY <1>5 DEF Activate, LaidOut
  <2> QED
    BY <2>2, <2>3, <2>4
<1> QED
  BY <1>1, <1>2, <1>3, <1>4, <1>5 DEF Main

(* The steps of the engine. *)
LEMMA EnginePreserves ==
    ASSUME IInv, Engine
    PROVE  IInv'
<1> USE SizesAssumption, SignalsAssumption
    DEF IInv, TypeOK, Steps, PendingIsSignalled, SleeperIsSignalled, FreshTicks,
        DrawableIsCurrent, At, Goes, MainIdle, history, gate, surface
<1>1. ASSUME Look PROVE IInv'
  BY <1>1 DEF Look
<1>2. ASSUME Wake PROVE IInv'
  BY <1>2 DEF Wake
<1>3. ASSUME TimesOut PROVE IInv'
  BY <1>3 DEF TimesOut
<1>4. ASSUME Idle PROVE IInv'
  BY <1>4 DEF Idle
<1>5. ASSUME Take PROVE IInv'
  BY <1>5 DEF Take
<1>6. ASSUME ClaimResize PROVE IInv'
  BY <1>6 DEF ClaimResize
<1>7. ASSUME Attach PROVE IInv'
  BY <1>7 DEF Attach
<1>8. ASSUME Frame PROVE IInv'
  BY <1>8 DEF Frame, LaidOut
<1>9. ASSUME Close PROVE IInv'
  BY <1>9 DEF Close
<1> QED
  BY <1>1, <1>2, <1>3, <1>4, <1>5, <1>6, <1>7, <1>8, <1>9 DEF Engine

(* Steps that leave the gate alone keep it.                                  *)
LEMMA StutterPreserves ==
    ASSUME IInv, UNCHANGED vars
    PROVE  IInv'
BY DEF IInv, TypeOK, PendingIsSignalled, SleeperIsSignalled, FreshTicks,
       DrawableIsCurrent, At, vars, gate, surface, history

(* The invariant holds throughout.                                           *)
LEMMA Inductive == Spec => []IInv
<1>1. IInv /\ [Next]_vars => IInv'
  BY MainPreserves, EnginePreserves, StutterPreserves DEF Next
<1> QED
  BY InitEstablishes, <1>1, PTL DEF Spec

-----------------------------------------------------------------------------
(* Every variable of the gate keeps its type. *)
THEOREM GateTypeCorrect == Spec => []TypeOK
<1>1. IInv => TypeOK
  BY DEF IInv
<1> QED
  BY Inductive, <1>1, PTL

(* mr_win_wait_frame never sleeps through a tick or an activation. *)
THEOREM NoWakeIsLost == Spec => []EngineIsWoken
<1>1. IInv => EngineIsWoken
  BY DEF IInv, TypeOK, EngineIsWoken, PendingIsSignalled, SleeperIsSignalled, At
<1> QED
  BY Inductive, <1>1, PTL

(* attach_drawable and the layout never leave a stale renderbuffer behind an *)
(* unset DRAWABLE_NEEDS_RESIZE.                                              *)
THEOREM DrawableFollowsLayer == Spec => []DrawableIsCurrent
<1>1. IInv => DrawableIsCurrent
  BY DEF IInv
<1> QED
  BY Inductive, <1>1, PTL

(* mr_win_wait_frame delivers a frame of the current activation, and no      *)
(* interval it reports spans a pause.                                        *)
THEOREM NoStaleFrame == Spec => FramesAreFresh
<1>1. IInv /\ [Next]_vars
        => [At("woken") /\ engine' = "claim" => tick = epoch /\ last \in {0, epoch}]_vars
  <2> SUFFICES ASSUME IInv, Next, At("woken"), engine' = "claim"
               PROVE  tick = epoch /\ last \in {0, epoch}
    OBVIOUS
  <2>1. ASSUME Main PROVE FALSE
    BY <2>1 DEF Main, DisplayTick, Signal, Resign, Layout, Activate, At
  <2>2. CASE Engine
    BY <2>2 DEF Engine, Look, Wake, TimesOut, Idle, Take, ClaimResize, Attach, Frame, Close,
                At, Goes, IInv, FreshTicks
  <2> QED
    BY <2>1, <2>2 DEF Next
<1> QED
  BY Inductive, <1>1, PTL DEF Spec, FramesAreFresh

-----------------------------------------------------------------------------
(* The gate in the window. *)

(* Each step of the window is one of the gate, or leaves the gate alone.     *)
LEMMA WindowStepIsGateStep == [WindowNext]_window => [Next]_vars
<1> SUFFICES ASSUME [WindowNext]_window PROVE [Next]_vars
  OBVIOUS
<1>1. CASE UNCHANGED window
  BY <1>1 DEF window
<1>2. CASE SceneResigns
  BY <1>2 DEF SceneResigns, Next, Main
<1>3. CASE Fingers
  BY <1>3 DEF Fingers
<1>4. CASE SceneStep
  BY <1>4 DEF SceneStep, Next, Main
<1>5. CASE EngineStep
  BY <1>5 DEF EngineStep, DeliverTouch, Render, GateStep, Next, Engine
<1> QED BY <1>1, <1>2, <1>3, <1>4, <1>5 DEF WindowNext

(* The window implements its frame gate: touches delivered at the top of a   *)
(* frame, and a resign that ends a touch, disturb nothing of it.             *)
THEOREM WindowImplementsGate == WindowSpec => Spec
<1>1. WindowInit => Init
  BY DEF WindowInit
<1> QED BY <1>1, WindowStepIsGateStep, PTL DEF WindowSpec, Spec

(* An engine that waits has missed no signal, in the whole window.           *)
THEOREM WindowWakes == WindowSpec => []EngineIsWoken
BY WindowImplementsGate, NoWakeIsLost, PTL

(* The engine draws into a renderbuffer of the layer's size, or knows of the *)
(* change, in the whole window.                                              *)
THEOREM WindowDrawsCurrent == WindowSpec => []DrawableIsCurrent
BY WindowImplementsGate, DrawableFollowsLayer, PTL

(* No frame of the window is made for a tick of an earlier activation.       *)
THEOREM WindowFramesAreFresh == WindowSpec => FramesAreFresh
BY WindowImplementsGate, NoStaleFrame, PTL

-----------------------------------------------------------------------------
(* The touches. *)

(* Whether the event before the i-th of the queue, which may be what the     *)
(* guest knows, left the finger up.                                          *)
UpBefore(i) == IF i = 1 THEN guest = "up" ELSE queue[i - 1] = "release"

(* TouchesArePaired, element by element. *)
Paired ==
    ~dropped =>
        /\ \A i \in 1 .. Len(queue) : (queue[i] = "press") <=> UpBefore(i)
        /\ (IF Len(queue) = 0 THEN guest = "up" ELSE queue[Len(queue)] = "release")
             <=> ~tracked

TouchShapes ==
    /\ tracked \in BOOLEAN /\ dropped \in BOOLEAN
    /\ queue \in Seq(Touch!Actions)
    /\ Len(queue) < TouchCapacity
    /\ guest \in {"up", "down"}

TouchInv == TouchShapes /\ Paired

(* The two ways to say it are one. *)
LEMMA PairedIsTouchesArePaired == ASSUME TouchShapes PROVE Paired => TouchesArePaired
<1> SUFFICES ASSUME Paired, ~dropped
             PROVE  LET known == <<IF guest = "up" THEN "release" ELSE "press">> \o queue
                    IN  /\ \A i \in 1 .. Len(queue) :
                             (known[i + 1] = "press") <=> (known[i] = "release")
                        /\ (known[Len(known)] = "release") <=> ~tracked
  BY DEF TouchesArePaired, Touch!TouchesArePaired
<1> DEFINE first == IF guest = "up" THEN "release" ELSE "press"
           known == <<first>> \o queue
<1>1. queue \in Seq(Touch!Actions) /\ <<first>> \in Seq(Touch!Actions)
  BY DEF TouchShapes, Touch!Actions
<1>2. Len(queue) \in Nat
  BY <1>1
<1>3. Len(<<first>>) = 1 /\ <<first>>[1] = first
  OBVIOUS
<1>4. /\ Len(known) = 1 + Len(queue)
      /\ \A i \in 1 .. 1 + Len(queue) : known[i] = IF i =< 1 THEN first ELSE queue[i - 1]
  <2> HIDE DEF first
  <2>1. /\ Len(known) = Len(<<first>>) + Len(queue)
        /\ \A i \in 1 .. Len(<<first>>) + Len(queue) :
             known[i] = IF i <= Len(<<first>>) THEN <<first>>[i] ELSE queue[i - Len(<<first>>)]
    BY <1>1, ConcatProperties
  <2> QED BY <1>2, <1>3, <2>1
<1>5. (first = "release") <=> (guest = "up")
  OBVIOUS
<1> HIDE DEF first, known
<1>6. ASSUME NEW i \in 1 .. Len(queue)
      PROVE  (known[i + 1] = "press") <=> (known[i] = "release")
  <2>1. known[i + 1] = queue[i]
    <3>1. PICK j \in 1 .. 1 + Len(queue) : j = i + 1
      BY <1>2
    <3>2. known[j] = queue[j - 1] /\ j - 1 = i
      BY <1>4, <3>1
    <3> QED BY <3>1, <3>2
  <2>2. (queue[i] = "press") <=> UpBefore(i)
    BY DEF Paired
  <2>3. (known[i] = "release") <=> UpBefore(i)
    <3>1. CASE i = 1
      <4>1. known[1] = first
        BY <1>2, <1>4
      <4> QED BY <1>5, <3>1, <4>1 DEF UpBefore
    <3>2. CASE i # 1
      <4>1. known[i] = queue[i - 1]
        BY <1>2, <1>4, <3>2
      <4> QED BY <3>2, <4>1 DEF UpBefore
    <3> QED BY <3>1, <3>2
  <2> QED BY <2>1, <2>2, <2>3
<1>7. (known[Len(known)] = "release") <=> ~tracked
  <2>1. CASE Len(queue) = 0
    <3>1. known[1] = first /\ Len(known) = 1
      BY <1>2, <1>4, <2>1
    <3> QED BY <1>5, <2>1, <3>1 DEF Paired
  <2>2. CASE Len(queue) # 0
    <3>1. PICK l \in 1 .. 1 + Len(queue) : l = Len(known)
      BY <1>2, <1>4
    <3>2. known[l] = queue[l - 1] /\ l - 1 = Len(queue)
      BY <1>2, <1>4, <2>2, <3>1
    <3> QED BY <2>2, <3>1, <3>2 DEF Paired
  <2> QED BY <2>1, <2>2
<1> QED BY <1>6, <1>7 DEF known, first

(* What an event queued behind the others must be to continue them.          *)
LEMMA QueueKeepsPairs ==
    ASSUME TouchInv, NEW action \in Touch!Actions, Touch!Queue(action),
           UNCHANGED guest, tracked' \in BOOLEAN,
           (action = "press") <=> ~tracked,
           (action = "release") <=> ~tracked'
    PROVE  TouchInv'
<1>1. /\ queue \in Seq(Touch!Actions) /\ Len(queue) < TouchCapacity
      /\ dropped \in BOOLEAN /\ Len(queue) \in Nat
  BY DEF TouchInv, TouchShapes
<1>2. TouchCapacity \in Nat /\ TouchCapacity > 1
  BY TouchesAssumption
<1>3. CASE Len(queue) = TouchCapacity - 1
  <2>1. queue' = Append(Tail(queue), action) /\ dropped'
    BY <1>3 DEF Touch!Queue
  <2>2. queue # <<>>
    BY <1>1, <1>2, <1>3
  <2>3. Tail(queue) \in Seq(Touch!Actions) /\ Len(Tail(queue)) = Len(queue) - 1
    BY <1>1, <2>2, HeadTailProperties
  <2>4. queue' \in Seq(Touch!Actions) /\ Len(queue') = Len(queue)
    BY <1>1, <2>1, <2>3, AppendProperties
  <2>5. TouchShapes'
    BY <1>1, <2>1, <2>4 DEF TouchInv, TouchShapes
  <2> QED BY <2>1, <2>5 DEF TouchInv, Paired
<1>4. CASE Len(queue) # TouchCapacity - 1
  <2>1. queue' = Append(queue, action) /\ dropped' = dropped
    BY <1>1, <1>4 DEF Touch!Queue
  <2>2. /\ queue' \in Seq(Touch!Actions) /\ Len(queue') = Len(queue) + 1
        /\ \A i \in 1 .. Len(queue) : queue'[i] = queue[i]
        /\ queue'[Len(queue) + 1] = action
    BY <1>1, <2>1, AppendProperties
  <2>3. Len(queue') < TouchCapacity
    BY <1>1, <1>2, <1>4, <2>2
  <2>4. TouchShapes'
    BY <2>1, <2>2, <2>3 DEF TouchInv, TouchShapes
  <2>5. ASSUME ~dropped PROVE (\A i \in 1 .. Len(queue') : (queue'[i] = "press") <=> UpBefore(i)')
    <3>1. ASSUME NEW i \in 1 .. Len(queue) PROVE (queue'[i] = "press") <=> UpBefore(i)'
      <4>1. (queue[i] = "press") <=> UpBefore(i)
        BY <2>5 DEF TouchInv, Paired
      <4>2. UpBefore(i)' <=> UpBefore(i)
        <5>1. CASE i = 1
          BY <5>1 DEF UpBefore
        <5>2. CASE i # 1
          <6>1. i - 1 \in 1 .. Len(queue)
            BY <1>1, <5>2
          <6> QED BY <2>2, <5>2, <6>1 DEF UpBefore
        <5> QED BY <5>1, <5>2
      <4> QED BY <2>2, <4>1, <4>2
    <3>2. PICK l \in Nat : l = Len(queue) + 1
      BY <1>1
    <3>3. (queue'[l] = "press") <=> UpBefore(l)'
      <4>1. queue'[l] = action
        BY <2>2, <3>2
      <4>2. UpBefore(l)' <=> ~tracked
        <5>1. CASE Len(queue) = 0
          BY <2>5, <3>2, <5>1 DEF UpBefore, TouchInv, Paired
        <5>2. CASE Len(queue) # 0
          <6>1. l # 1 /\ l - 1 = Len(queue) /\ Len(queue) \in 1 .. Len(queue)
            BY <1>1, <3>2, <5>2
          <6>2. queue'[l - 1] = queue[Len(queue)]
            BY <2>2, <6>1
          <6>3. (queue[Len(queue)] = "release") <=> ~tracked
            BY <2>5, <5>2 DEF TouchInv, Paired
          <6>4. UpBefore(l)' <=> queue'[l - 1] = "release"
            BY <6>1 DEF UpBefore
          <6> QED BY <6>2, <6>3, <6>4
        <5> QED BY <5>1, <5>2
      <4> QED BY <4>1, <4>2
    <3>4. \A i \in 1 .. Len(queue') : i \in 1 .. Len(queue) \/ i = l
      BY <1>1, <2>2, <3>2
    <3> QED BY <3>1, <3>3, <3>4
  <2>6. (IF Len(queue') = 0 THEN guest' = "up" ELSE queue'[Len(queue')] = "release") <=> ~tracked'
    <3>1. Len(queue') # 0 /\ queue'[Len(queue')] = action
      BY <1>1, <2>2
    <3> QED BY <3>1
  <2> QED BY <2>1, <2>4, <2>5, <2>6 DEF TouchInv, Paired
<1> QED BY <1>3, <1>4

(* Events taken by the guest leave what it knows ahead of the rest. *)
LEMMA NextTouchKeepsPairs == TouchInv /\ Touch!NextTouch => TouchInv'
<1> SUFFICES ASSUME TouchInv, Touch!NextTouch PROVE TouchInv'
  OBVIOUS
<1>1. /\ queue # <<>> /\ queue' = Tail(queue) /\ UNCHANGED <<tracked, dropped>>
      /\ guest' = IF Head(queue) = "release" THEN "up" ELSE "down"
  BY DEF Touch!NextTouch
<1>2. /\ queue \in Seq(Touch!Actions) /\ Len(queue) < TouchCapacity
      /\ Len(queue) \in Nat /\ TouchCapacity \in Nat
  BY TouchesAssumption DEF TouchInv, TouchShapes
<1>3. /\ queue' \in Seq(Touch!Actions) /\ Len(queue') = Len(queue) - 1
      /\ \A i \in 1 .. Len(queue') : queue'[i] = queue[i + 1]
      /\ Head(queue) = queue[1] /\ Len(queue) > 0
  BY <1>1, <1>2, HeadTailProperties
<1>4. TouchShapes'
  <2>1. Len(queue') < TouchCapacity /\ guest' \in {"up", "down"}
    BY <1>1, <1>2, <1>3
  <2> QED BY <1>1, <1>3, <2>1 DEF TouchInv, TouchShapes
<1>5. (guest' = "up") <=> (queue[1] = "release")
  BY <1>1, <1>3
<1>6. ASSUME ~dropped, NEW i \in 1 .. Len(queue') PROVE (queue'[i] = "press") <=> UpBefore(i)'
  <2>1. PICK j \in 1 .. Len(queue) : j = i + 1
    BY <1>2, <1>3
  <2>2. queue'[i] = queue[j] /\ j # 1 /\ j - 1 = i
    BY <1>3, <2>1
  <2>3. (queue[j] = "press") <=> UpBefore(j)
    BY <1>6 DEF TouchInv, Paired
  <2>4. UpBefore(j) <=> queue[i] = "release"
    BY <2>2 DEF UpBefore
  <2>5. UpBefore(i)' <=> queue[i] = "release"
    <3>1. CASE i = 1
      BY <1>5, <3>1 DEF UpBefore
    <3>2. CASE i # 1
      <4>1. PICK h \in 1 .. Len(queue') : h = i - 1
        BY <1>2, <1>3, <3>2
      <4>2. queue'[h] = queue[i]
        BY <1>3, <4>1
      <4> QED BY <3>2, <4>1, <4>2 DEF UpBefore
    <3> QED BY <3>1, <3>2
  <2> QED BY <2>2, <2>3, <2>4, <2>5
<1>7. ASSUME ~dropped
      PROVE  (IF Len(queue') = 0 THEN guest' = "up" ELSE queue'[Len(queue')] = "release")
               <=> ~tracked'
  <2>1. (queue[Len(queue)] = "release") <=> ~tracked
    BY <1>2, <1>3, <1>7 DEF TouchInv, Paired
  <2>2. CASE Len(queue') = 0
    <3>1. Len(queue) = 1
      BY <1>2, <1>3, <2>2
    <3> QED BY <1>1, <1>5, <2>1, <2>2, <3>1
  <2>3. CASE Len(queue') # 0
    <3>1. PICK l \in 1 .. Len(queue') : l = Len(queue')
      BY <1>2, <1>3, <2>3
    <3>2. queue'[l] = queue[Len(queue)]
      BY <1>2, <1>3, <3>1
    <3> QED BY <1>1, <2>1, <2>3, <3>1, <3>2
  <2> QED BY <2>2, <2>3
<1> QED BY <1>1, <1>4, <1>6, <1>7 DEF TouchInv, Paired

(* No step of the window tells the guest something that does not continue    *)
(* what it knows.                                                            *)
LEMMA TouchStep == TouchInv /\ [WindowNext]_window => TouchInv'
<1> SUFFICES ASSUME TouchInv, [WindowNext]_window PROVE TouchInv'
  OBVIOUS
<1>1. ASSUME UNCHANGED <<tracked, queue, dropped, guest>> PROVE TouchInv'
  BY <1>1 DEF TouchInv, TouchShapes, Paired, UpBefore
<1>2. tracked \in BOOLEAN
  BY DEF TouchInv, TouchShapes
<1>3. CASE Touch!TouchesBegan
  <2>1. CASE enabled /\ ~tracked
    BY <1>3, <2>1, QueueKeepsPairs DEF Touch!TouchesBegan, Touch!Actions
  <2>2. CASE ~(enabled /\ ~tracked)
    BY <1>1, <1>3, <2>2 DEF Touch!TouchesBegan
  <2> QED BY <2>1, <2>2
<1>4. CASE Touch!TouchesMoved
  BY <1>2, <1>4, QueueKeepsPairs DEF Touch!TouchesMoved, Touch!Actions
<1>5. CASE Touch!TouchesEnded
  <2>1. CASE tracked
    BY <1>5, <2>1, QueueKeepsPairs DEF Touch!TouchesEnded, Touch!Actions
  <2>2. CASE ~tracked
    BY <1>1, <1>2, <1>5, <2>2 DEF Touch!TouchesEnded
  <2> QED BY <2>1, <2>2
<1>6. CASE SceneResigns
  <2>1. CASE tracked
    <3>1. Touch!Resign
      BY <1>6, <2>1 DEF SceneResigns
    <3> QED BY <2>1, <3>1, QueueKeepsPairs DEF Touch!Resign, Touch!Actions
  <2>2. CASE ~tracked
    BY <1>1, <1>6, <2>2 DEF SceneResigns, touch
  <2> QED BY <2>1, <2>2
<1>7. CASE UNCHANGED window
  BY <1>1, <1>7 DEF window, touch
<1>8. CASE SceneStep \/ GateStep
  BY <1>1, <1>8 DEF SceneStep, GateStep, touch
<1>9. CASE DeliverTouch
  BY <1>9, NextTouchKeepsPairs DEF DeliverTouch
<1>10. CASE Render
  BY <1>1, <1>10 DEF Render, Touch!EnableInput, touch
<1> QED
  BY <1>3, <1>4, <1>5, <1>6, <1>7, <1>8, <1>9, <1>10
  DEF WindowNext, Fingers, Touch!Fingers, EngineStep

(* The guest is told of a press, moves and a release, in this order and none *)
(* twice, across resigns and late first frames, as long as the queue has not *)
(* had to drop an event; and its last word is the state of the touch.        *)
THEOREM TouchesContinue == WindowSpec => []TouchesArePaired
<1>1. WindowInit => TouchInv
  <2> SUFFICES ASSUME WindowInit PROVE TouchInv
    OBVIOUS
  <2>1. /\ queue = <<>> /\ tracked = FALSE /\ dropped = FALSE /\ guest = "up"
    BY DEF WindowInit, Touch!Init
  <2>2. Len(queue) = 0 /\ queue \in Seq(Touch!Actions)
    BY <2>1
  <2>3. Len(queue) < TouchCapacity
    BY <2>2, TouchesAssumption
  <2>4. TouchShapes
    BY <2>1, <2>2, <2>3 DEF TouchShapes
  <2>5. \A i \in 1 .. Len(queue) : (queue[i] = "press") <=> UpBefore(i)
    BY <2>2
  <2> QED BY <2>1, <2>2, <2>4, <2>5 DEF TouchInv, Paired
<1>2. TouchInv => TouchesArePaired
  BY PairedIsTouchesArePaired DEF TouchInv
<1> QED BY <1>1, <1>2, TouchStep, PTL DEF WindowSpec
=============================================================================
