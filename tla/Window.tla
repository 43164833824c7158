-------------------------------- MODULE Window --------------------------------
(***************************************************************************)
(* The window of src/native/window_ios.m in the frame loop of main.c.      *)
(*                                                                         *)
(* First the frame gate: the display link and the scene's lifecycle on the *)
(* main thread, mr_win_wait_frame on the engine's thread, and the drawable *)
(* that follows the size of the view's layer.  Then the whole window: the  *)
(* gate and the touches of TouchInput, tied together by the scene's        *)
(* lifecycle and by the frames, at the top of which the engine drains the  *)
(* touch queue.                                                            *)
(*                                                                         *)
(* A block under FRAME_LOCK, a semaphore operation and an atomic are steps; *)
(* so is a handler on the main thread between them.  dispatch_sync is one  *)
(* step, since the main thread never waits for the engine.                 *)
(***************************************************************************)
EXTENDS Naturals, Sequences

CONSTANTS
    Sizes,          \* sizes of the layer
    MaxActivations, \* bound on the activations of the scene
    MaxSignals      \* bound on FRAME_SIGNAL: the scene is not toggled at it

ASSUME SizesAssumption == Sizes # {} /\ Sizes \subseteq Nat \ {0}
ASSUME SignalsAssumption == MaxActivations \in Nat /\ MaxSignals \in Nat

VARIABLES
    active,         \* SCENE_ACTIVE
    pending,        \* FRAME_PENDING
    closed,         \* CLOSED
    signal,         \* the count of FRAME_SIGNAL
    owed,           \* signals the main thread is about to post
    last,           \* LAST_DELIVERED_TARGET, by its activation; 0: none
    layer,          \* the size of the view's layer
    drawable,       \* the size of the renderbuffer; 0 when there is none
    resize,         \* DRAWABLE_NEEDS_RESIZE
    engine,         \* where the engine's thread is
    sawActive,      \* what it read at the top of the loop
    epoch,          \* history: activations so far
    tick            \* history: the activation of the last tick

gate == <<active, pending, closed, signal, owed, last>>
surface == <<layer, drawable, resize>>
history == <<epoch, tick>>
vars == <<gate, surface, engine, sawActive, history>>

(* After mr_ios_attach_scene and mr_win_open, before the first frame. *)
Init ==
    /\ active = FALSE /\ pending = FALSE /\ closed = FALSE
    /\ signal = 0 /\ owed = 0 /\ last = 0
    /\ layer \in Sizes /\ drawable = layer /\ resize = FALSE
    /\ engine = "top" /\ sawActive = FALSE
    /\ epoch = 0 /\ tick = 0

-----------------------------------------------------------------------------
(* The main thread.  Each handler posts its signal after the lock. *)
MainIdle == owed = 0

DisplayTick ==
    /\ MainIdle
    /\ active /\ ~closed
    /\ tick' = epoch
    /\ pending' = TRUE
    /\ owed' = IF pending THEN 0 ELSE 1
    /\ UNCHANGED <<active, closed, signal, last, surface, engine, sawActive, epoch>>

Signal ==
    /\ owed > 0
    /\ owed' = owed - 1
    /\ signal' = signal + 1
    /\ UNCHANGED <<active, pending, closed, last, surface, engine, sawActive, history>>

(* layout_game_view: a change of the view resizes its layer. *)
LaidOut_WhenLarger(size) ==
    /\ layer' = size
    /\ resize' = (resize \/ size > layer)
LaidOut(size) ==
    /\ layer' = size
    /\ resize' = (resize \/ size # layer)

Layout(size) ==
    /\ MainIdle
    /\ LaidOut(size)
    /\ UNCHANGED <<gate, drawable, engine, sawActive, history>>

(* mr_ios_set_scene_active. *)
Activate_Unsignalled(size) ==
    /\ MainIdle
    /\ epoch < MaxActivations
    /\ active' = TRUE
    /\ epoch' = IF active THEN epoch ELSE epoch + 1
    /\ LaidOut(size)
    /\ UNCHANGED <<pending, closed, signal, owed, last, drawable, engine, sawActive, tick>>
Activate(size) ==
    /\ MainIdle
    /\ epoch < MaxActivations /\ signal < MaxSignals
    /\ active' = TRUE
    /\ epoch' = IF active THEN epoch ELSE epoch + 1
    /\ LaidOut(size)
    /\ owed' = 1
    /\ UNCHANGED <<pending, closed, signal, last, drawable, engine, sawActive, tick>>

Resign_KeepsFrame ==
    /\ MainIdle
    /\ signal < MaxSignals
    /\ active' = FALSE
    /\ owed' = 1
    /\ UNCHANGED <<pending, closed, signal, last, surface, engine, sawActive, history>>
Resign ==
    /\ MainIdle
    /\ signal < MaxSignals
    /\ active' = FALSE
    /\ pending' = FALSE
    /\ last' = 0
    /\ owed' = 1
    /\ UNCHANGED <<closed, signal, surface, engine, sawActive, history>>

-----------------------------------------------------------------------------
(* mr_win_wait_frame. *)
At(step) == engine = step
Goes(step) == engine' = step

Look ==
    /\ At("top")
    /\ sawActive' = active
    /\ Goes(IF closed THEN "left" ELSE "wait")
    /\ UNCHANGED <<gate, surface, history>>

Wake ==
    /\ At("wait")
    /\ signal > 0
    /\ signal' = signal - 1
    /\ Goes("woken")
    /\ UNCHANGED <<active, pending, closed, owed, last, surface, sawActive, history>>

(* The wait is bounded only when the scene was active; the engine gives the  *)
(* idle guest a slice, which may fail and end the engine.                    *)
TimesOut ==
    /\ At("wait")
    /\ signal = 0
    /\ sawActive
    /\ Goes("idle")
    /\ UNCHANGED <<gate, surface, sawActive, history>>

Idle ==
    /\ At("idle")
    /\ \/ Goes(IF closed THEN "left" ELSE "top")
       \/ Goes("left")
    /\ UNCHANGED <<gate, surface, sawActive, history>>

Take_KeepsPending ==
    /\ At("woken")
    /\ IF active /\ pending /\ ~closed
       THEN last' = tick /\ Goes("claim")
       ELSE UNCHANGED last /\ Goes(IF closed THEN "left" ELSE "top")
    /\ UNCHANGED <<active, pending, closed, signal, owed, surface, sawActive, history>>
Take ==
    /\ At("woken")
    /\ IF active /\ pending /\ ~closed
       THEN pending' = FALSE /\ last' = tick /\ Goes("claim")
       ELSE UNCHANGED <<pending, last>> /\ Goes(IF closed THEN "left" ELSE "top")
    /\ UNCHANGED <<active, closed, signal, owed, surface, sawActive, history>>

(* The flag is exchanged before the drawable is attached. *)
ClaimResize ==
    /\ At("claim")
    /\ resize' = FALSE
    /\ Goes(IF resize THEN "attach" ELSE "frame")
    /\ UNCHANGED <<gate, layer, drawable, sawActive, history>>

(* attach_drawable, on the main thread: the storage is made for the layer    *)
(* as it is, and the flag is cleared again.                                  *)
Attach ==
    /\ At("attach") /\ MainIdle
    /\ \/ drawable' = layer /\ resize' = FALSE /\ Goes("frame")
       \/ drawable' = 0 /\ UNCHANGED resize /\ Goes("left")
    /\ UNCHANGED <<gate, layer, sawActive, history>>

(* The frame the engine makes and presents; mr_win_set_surface_size may lay  *)
(* the view out meanwhile, on the main thread.  A failure ends the engine.   *)
Frame ==
    /\ At("frame") /\ MainIdle
    /\ \E size \in Sizes : LaidOut(size)
    /\ Goes("top") \/ Goes("left")
    /\ UNCHANGED <<gate, drawable, sawActive, history>>

Close ==
    /\ At("left") /\ MainIdle
    /\ closed' = TRUE /\ pending' = FALSE
    /\ drawable' = 0
    /\ Goes("closed")
    /\ UNCHANGED <<active, signal, owed, last, layer, resize, sawActive, history>>

-----------------------------------------------------------------------------
Main == \/ DisplayTick \/ Signal \/ Resign
        \/ \E size \in Sizes : Layout(size) \/ Activate(size)

Engine == Look \/ Wake \/ TimesOut \/ Idle \/ Take \/ ClaimResize \/ Attach \/ Frame \/ Close

Next == Main \/ Engine

Spec == Init /\ [][Next]_vars

-----------------------------------------------------------------------------
Steps == {"top", "wait", "idle", "woken", "claim", "attach", "frame", "left", "closed"}

TypeOK ==
    /\ active \in BOOLEAN /\ pending \in BOOLEAN /\ closed \in BOOLEAN
    /\ signal \in Nat /\ owed \in 0 .. 1
    /\ epoch \in 0 .. MaxActivations /\ tick \in 0 .. epoch /\ last \in 0 .. epoch
    /\ layer \in Sizes /\ drawable \in Sizes \cup {0} /\ resize \in BOOLEAN
    /\ engine \in Steps /\ sawActive \in BOOLEAN

(* An engine that waits with no signal under way misses nothing: no frame is *)
(* pending, and when the scene is active the wait is a bounded one, so the   *)
(* idle guest is served.  (The state is read before the wait.)               *)
EngineIsWoken ==
    At("wait") /\ signal = 0 /\ owed = 0 => ~pending /\ (active => sawActive)

(* A frame is delivered for a tick of the current activation, and the time   *)
(* since the last one never spans a pause of the scene.                      *)
FramesAreFresh ==
    [][At("woken") /\ engine' = "claim" => tick = epoch /\ last \in {0, epoch}]_vars

(* Unless a change is flagged, the engine draws into a renderbuffer of the   *)
(* size of the layer, whenever the layout changes during the attach.         *)
DrawableIsCurrent ==
    ~resize /\ engine \notin {"attach", "left", "closed"} => drawable = layer

-----------------------------------------------------------------------------
(* The window: the gate and the touches. *)
CONSTANT TouchCapacity      \* TOUCH_QUEUE_CAPACITY: one slot stays free

ASSUME TouchesAssumption == TouchCapacity \in Nat /\ TouchCapacity > 1

VARIABLES finger, tracked, enabled, queue, dropped, guest   \* see TouchInput

Touch == INSTANCE TouchInput WITH Capacity <- TouchCapacity

touch == <<finger, tracked, enabled, queue, dropped, guest>>
window == <<vars, touch>>

WindowInit == Init /\ Touch!Init

(* mr_ios_set_scene_active(NO) ends the touch before it posts its signal; the *)
(* queue and the flags of the gate are never read together, so it is a step.  *)
SceneResigns ==
    /\ Resign
    /\ IF tracked THEN Touch!Resign ELSE UNCHANGED touch

Fingers ==
    /\ MainIdle
    /\ Touch!Fingers
    /\ UNCHANGED vars

(* deliver_touches, one event at a time, until it finds none. *)
DeliverTouch ==
    /\ At("frame")
    /\ Touch!NextTouch
    /\ UNCHANGED vars

(* The rest of a frame; the first one that draws enables the input.  A touch *)
(* that the guest fails to take ends the engine before the queue is empty.   *)
Render ==
    /\ Frame
    /\ queue = <<>> \/ engine' = "left"
    /\ \/ queue = <<>> /\ Touch!EnableInput
       \/ UNCHANGED touch

(* The other handlers of the main thread, and the other steps of the engine. *)
SceneStep ==
    (DisplayTick \/ Signal \/ \E size \in Sizes : Layout(size) \/ Activate(size))
    /\ UNCHANGED touch

GateStep ==
    /\ Look \/ Wake \/ TimesOut \/ Idle \/ Take \/ ClaimResize \/ Attach \/ Close
    /\ UNCHANGED touch

EngineStep == DeliverTouch \/ Render \/ GateStep

WindowNext == SceneResigns \/ Fingers \/ SceneStep \/ EngineStep

WindowSpec == WindowInit /\ [][WindowNext]_window

-----------------------------------------------------------------------------
(* Fairness: the display link ticks while the scene is active, the main      *)
(* queue serves what is dispatched to it, and the engine's thread runs.      *)
Fairness ==
    /\ SF_window(DisplayTick /\ UNCHANGED touch)
    /\ WF_window(Signal /\ UNCHANGED touch)
    /\ SF_window(EngineStep)

FairWindow == WindowSpec /\ Fairness

WindowTypeOK == TypeOK /\ Touch!TypeOK

(* Every press is released before the next one, once, also across a resign. *)
TouchesArePaired == Touch!TouchesArePaired

(* While the scene stays active, and no failure ends the engine, it makes    *)
(* frames, whatever interleaving of ticks, layouts and toggles came before.  *)
FramesGoOn ==
    active ~> (At("frame") \/ ~active \/ engine \in {"left", "closed"})

(* "Moving to the background completes any pending touch with a release":    *)
(* also when events were dropped, no touch the guest saw stays down after    *)
(* the touch has ended, once the scene is active again and frames are made.  *)
NoTouchIsStuck ==
    (guest = "down" /\ ~tracked)
        ~> (guest = "up" \/ tracked \/ ~active \/ engine \in {"left", "closed"})
=============================================================================
