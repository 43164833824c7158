------------------------------ MODULE TouchInput ------------------------------
(***************************************************************************)
(* Touches in src/native/window_ios.m: UIKit's callbacks on the main       *)
(* thread, the bounded queue that drops its oldest event, and the engine,  *)
(* which drains it into the guest at the top of a frame.                   *)
(*                                                                         *)
(* The view is laid out (mapPoint finds a point), and multiple touch is    *)
(* off, so UIKit reports one finger at a time.                             *)
(***************************************************************************)
EXTENDS Naturals, Sequences

CONSTANT Capacity       \* TOUCH_QUEUE_CAPACITY: one slot stays free

VARIABLES
    finger,     \* UIKit has a touch in progress
    tracked,    \* ACTIVE_TOUCH is that touch
    enabled,    \* INPUT_ENABLED
    queue,      \* TOUCHES between TOUCH_HEAD and TOUCH_TAIL
    dropped,    \* DROPPED_TOUCHES > 0
    guest       \* what the guest knows of the touch

Actions == {"press", "move", "release"}

Init ==
    /\ finger = FALSE /\ tracked = FALSE /\ enabled = FALSE
    /\ queue = <<>> /\ dropped = FALSE
    /\ guest = "up"

(* queue_touch. *)
Queue(action) ==
    /\ queue' = Append(IF Len(queue) = Capacity - 1 THEN Tail(queue) ELSE queue, action)
    /\ dropped' = (dropped \/ Len(queue) = Capacity - 1)

(* A touch that begins before the first frame is drawn is never tracked. *)
TouchesBegan ==
    /\ ~finger
    /\ finger' = TRUE
    /\ IF enabled /\ ~tracked
       THEN tracked' = TRUE /\ Queue("press")
       ELSE UNCHANGED <<tracked, queue, dropped>>
    /\ UNCHANGED <<enabled, guest>>

TouchesMoved ==
    /\ finger /\ tracked
    /\ Queue("move")
    /\ UNCHANGED <<finger, tracked, enabled, guest>>

(* touchesEnded and touchesCancelled. *)
TouchesEnded ==
    /\ finger
    /\ finger' = FALSE
    /\ tracked' = FALSE
    /\ IF tracked THEN Queue("release") ELSE UNCHANGED <<queue, dropped>>
    /\ UNCHANGED <<enabled, guest>>

(* mr_ios_set_scene_active(NO): the finger may still be down. *)
Resign_KeepsTouch ==
    /\ tracked
    /\ Queue("release")
    /\ UNCHANGED <<finger, tracked, enabled, guest>>
Resign_Forgets ==
    /\ tracked
    /\ tracked' = FALSE
    /\ UNCHANGED <<finger, enabled, queue, dropped, guest>>
Resign ==
    /\ tracked
    /\ Queue("release")
    /\ tracked' = FALSE
    /\ UNCHANGED <<finger, enabled, guest>>

EnableInput ==
    /\ ~enabled
    /\ enabled' = TRUE
    /\ UNCHANGED <<finger, tracked, queue, dropped, guest>>

(* mr_win_next_touch, once for each event that deliver_touches finds. *)
NextTouch ==
    /\ queue # <<>>
    /\ queue' = Tail(queue)
    /\ guest' = IF Head(queue) = "release" THEN "up" ELSE "down"
    /\ UNCHANGED <<finger, tracked, enabled, dropped>>

Fingers == TouchesBegan \/ TouchesMoved \/ TouchesEnded

-----------------------------------------------------------------------------
TypeOK ==
    /\ finger \in BOOLEAN /\ tracked \in BOOLEAN /\ enabled \in BOOLEAN
    /\ queue \in Seq(Actions) /\ Len(queue) < Capacity
    /\ dropped \in BOOLEAN
    /\ guest \in {"up", "down"}

(* Whatever the guest has not heard of yet continues what it knows: every    *)
(* press is released before the next one, once, also across a resign, and    *)
(* the last event leaves it where the tracked touch is.                      *)
TouchesArePaired ==
    ~dropped =>
        LET known == <<IF guest = "up" THEN "release" ELSE "press">> \o queue
        IN  /\ \A i \in 1 .. Len(queue) :
                (known[i + 1] = "press") <=> (known[i] = "release")
            /\ (known[Len(known)] = "release") <=> ~tracked

=============================================================================
