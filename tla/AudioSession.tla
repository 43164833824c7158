----------------------------- MODULE AudioSession -----------------------------
(***************************************************************************)
(* The audio session of src/native/audio_session_ios.m.                    *)
(*                                                                         *)
(* Notifications are handled on the main queue; mr_audio_session_poll runs *)
(* on the engine's thread.  They share three atomics, and every access is  *)
(* a step.  Whether the retry interval has passed is a choice of the clock.*)
(***************************************************************************)
EXTENDS Naturals, Sequences

CONSTANTS
    MaxPending,     \* bound on notifications waiting in the main queue: 1 or more
    Kinds           \* the Notifications that occur

Notifications == {"inactive", "resume", "stay", "route", "foreground", "reset"}

VARIABLES
    needs,          \* NEEDS_ACTIVATION
    mediaReset,     \* MEDIA_RESET
    due,            \* NEXT_TRY_NS has passed
    session,        \* AVAudioSession: whether it is active
    life,           \* of the observers: "new", "open" or "ended"
    pending,        \* notifications posted to the main queue
    stores,         \* what the handler on the main queue still stores
    poll,           \* where the engine is in mr_audio_session_poll
    cancelled       \* history: the last to store NEEDS_ACTIVATION cancelled

flags == <<needs, mediaReset, due>>
mainQueue == <<pending, stores>>
vars == <<flags, session, life, mainQueue, poll, cancelled>>

Request == <<"due:1", "needs:1">>
Startup ==
    /\ needs' = TRUE /\ mediaReset' = FALSE /\ due' = TRUE
    /\ life' = "open"

Init ==
    /\ needs = FALSE /\ mediaReset = FALSE /\ due = TRUE
    /\ session = FALSE
    /\ life = "new"
    /\ pending = <<>> /\ stores = <<>>
    /\ poll = "idle"
    /\ cancelled = FALSE

(* mr_audio_session_begin, once in the life of the engine, and _end.  A      *)
(* category that cannot be set leaves the session unobserved.               *)
Begin ==
    /\ poll = "idle" /\ life = "new"
    /\ Startup
    /\ cancelled' = FALSE
    /\ UNCHANGED <<session, mainQueue, poll>>

End ==
    /\ poll = "idle" /\ life = "open"
    /\ life' = "ended"
    /\ session' = FALSE
    /\ needs' = FALSE /\ mediaReset' = FALSE /\ due' = TRUE
    /\ cancelled' = TRUE
    /\ pending' = <<>>
    /\ UNCHANGED <<stores, poll>>

-----------------------------------------------------------------------------
(* The system: an interruption or a reset of the media server ends the      *)
(* session before its notification is handled.                              *)
Post(n) ==
    /\ life = "open"
    /\ Len(pending) < MaxPending
    /\ n \in Kinds
    /\ pending' = Append(pending, n)
    /\ session' = (session /\ n \notin {"inactive", "reset"})
    /\ UNCHANGED <<flags, life, stores, poll, cancelled>>

(* The stores of update_resumption, request_activation and the reset        *)
(* handler, in the order they are made.                                     *)
StoresOf(n) ==
    CASE n \in {"inactive", "stay"} -> <<"needs:0">>
      [] n = "reset" -> <<"reset:1">> \o Request
      [] OTHER -> Request

Handle ==
    /\ stores = <<>> /\ pending # <<>>
    /\ stores' = StoresOf(Head(pending))
    /\ pending' = Tail(pending)
    /\ UNCHANGED <<flags, session, life, poll, cancelled>>

Store ==
    /\ stores # <<>>
    /\ stores' = Tail(stores)
    /\ needs' = CASE Head(stores) = "needs:1" -> TRUE
                  [] Head(stores) = "needs:0" -> FALSE
                  [] OTHER -> needs
    /\ cancelled' = CASE Head(stores) = "needs:1" -> FALSE
                      [] Head(stores) = "needs:0" -> TRUE
                      [] OTHER -> cancelled
    /\ mediaReset' = (mediaReset \/ Head(stores) = "reset:1")
    /\ due' = (due \/ Head(stores) = "due:1")
    /\ UNCHANGED <<session, life, pending, poll>>

-----------------------------------------------------------------------------
(* mr_audio_session_poll. *)
TakeReset ==
    /\ life = "open"
    /\ poll = "idle"
    /\ mediaReset' = FALSE
    /\ poll' = IF mediaReset THEN "configure" ELSE "check"
    /\ UNCHANGED <<needs, due, session, life, mainQueue, cancelled>>

(* The event is reported; a category that cannot be set asks for a retry. *)
Configure_TakesLate ==
    /\ poll = "configure"
    /\ poll' = "check"
    /\ mediaReset' = FALSE
    /\ UNCHANGED <<needs, due, session, life, mainQueue, cancelled>>
Configure ==
    /\ poll = "configure"
    /\ poll' = "check"
    /\ \/ UNCHANGED <<needs, cancelled>>
       \/ needs' = TRUE /\ cancelled' = FALSE
    /\ UNCHANGED <<mediaReset, due, session, life, mainQueue>>

CheckNeeds ==
    /\ poll = "check"
    /\ poll' = IF needs THEN "time" ELSE "idle"
    /\ UNCHANGED <<flags, session, life, mainQueue, cancelled>>

CheckTime ==
    /\ poll = "time"
    /\ poll' = IF due THEN "stamp" ELSE "idle"
    /\ UNCHANGED <<flags, session, life, mainQueue, cancelled>>

Stamp ==
    /\ poll = "stamp"
    /\ due' = FALSE
    /\ poll' = "activate"
    /\ UNCHANGED <<needs, mediaReset, session, life, mainQueue, cancelled>>

(* setActive:YES, which the system may refuse. *)
Activate_Once ==
    /\ poll = "activate"
    /\ \/ session' = TRUE /\ poll' = "clear" /\ UNCHANGED needs
       \/ needs' = FALSE /\ poll' = "idle" /\ UNCHANGED session
    /\ UNCHANGED <<mediaReset, due, life, mainQueue, cancelled>>
Activate ==
    /\ poll = "activate"
    /\ \/ session' = TRUE /\ poll' = "clear"
       \/ UNCHANGED session /\ poll' = "idle"
    /\ UNCHANGED <<flags, life, mainQueue, cancelled>>

Clear ==
    /\ poll = "clear"
    /\ needs' = FALSE
    /\ poll' = "idle"
    /\ UNCHANGED <<mediaReset, due, session, life, mainQueue, cancelled>>

Tick ==
    /\ ~due
    /\ due' = TRUE
    /\ UNCHANGED <<needs, mediaReset, session, life, mainQueue, poll, cancelled>>

-----------------------------------------------------------------------------
Main == Handle \/ Store
Poll == TakeReset \/ Configure \/ CheckNeeds \/ CheckTime \/ Stamp \/ Activate \/ Clear

Next == Begin \/ End \/ Main \/ Poll \/ Tick \/ \E n \in Kinds : Post(n)

Spec == Init /\ [][Next]_vars
-----------------------------------------------------------------------------
Stored == {"needs:0", "needs:1", "due:1", "reset:1"}

TypeOK ==
    /\ needs \in BOOLEAN /\ mediaReset \in BOOLEAN /\ due \in BOOLEAN
    /\ session \in BOOLEAN /\ life \in {"new", "open", "ended"} /\ cancelled \in BOOLEAN
    /\ pending \in Seq(Kinds) /\ Len(pending) =< MaxPending
    /\ stores \in Seq(Stored) /\ Len(stores) =< 3
    /\ poll \in {"idle", "configure", "check", "time", "stamp", "activate", "clear"}

-----------------------------------------------------------------------------
(* Fairness: the main queue is served, the scheduler polls in every          *)
(* iteration, time passes, and the system does not refuse for ever.          *)
Fairness ==
    /\ WF_vars(Main) /\ WF_vars(Poll) /\ WF_vars(Tick)
    /\ SF_vars(Activate /\ session')

FairSpec == Spec /\ Fairness

(* A media reset is reported to the pump, which reopens the output units: a  *)
(* second reset that arrives while the first is handled is reported too.     *)
ResetsAreReported == mediaReset ~> (poll = "configure" /\ ~mediaReset) \/ life = "ended"

(* Retries go on.  While a request stands, whatever is posted meanwhile, the *)
(* engine goes on asking the system until it grants an activation.           *)
RequestsReachTheSystem ==
    needs ~> (session \/ poll = "clear" \/ cancelled \/ life = "ended")

(* "Resumption follows the system recommendation": as long as the last word  *)
(* is a request, the engine tries until the session is active.               *)
RequestsAreServed ==
    (life = "open" /\ stores = <<>> /\ ~cancelled /\ ~session)
        ~> (session \/ cancelled \/ life = "ended")
=============================================================================
