------------------------------ MODULE MCPlatform ------------------------------
(* Small instances of the parts that deal with the system they run on: a       *)
(* player and its output unit, the audio session on iOS and the IPA builder on *)
(* Windows.  None reads what another keeps, so a behaviour is one of the three *)
(* (part) and the others rest.                                                 *)
EXTENDS AudioPlayer

CONSTANTS f, g

VARIABLES part, works,
    needs, mediaReset, due, session, life, pending, stores, poll, cancelled,
    boxes, form, build, builder, process, job, consent, scratch

sessionVars == <<needs, mediaReset, due, session, life, pending, stores, poll, cancelled>>
Session == INSTANCE AudioSession WITH
    MaxPending <- 2,
    Kinds <- {"inactive", "resume", "stay", "route", "foreground", "reset"}

builderVars == <<boxes, form, build, builder, process, job, consent, scratch>>
Builder == INSTANCE IpaBuilder WITH Outputs <- {"a", "b"}, state <- build, worker <- builder

(* Either the output works, or it fails for a while, any number of times: in   *)
(* that case the guest's buffers are of one byte, which no slice splits.       *)
OutputIs(w) == IF w THEN ~device'.silent ELSE push'.size =< 1

PlatformInit ==
    /\ part \in {"player", "session", "builder"} /\ works \in BOOLEAN
    /\ Init /\ Session!Init /\ Builder!Init
    /\ part # "player" => works
    /\ part # "builder" => form.files = {}

PlatformNext ==
    /\ UNCHANGED <<part, works>>
    /\ \/ part = "player" /\ Next /\ OutputIs(works) /\ UNCHANGED <<sessionVars, builderVars>>
       \/ part = "session" /\ Session!Next /\ UNCHANGED <<vars, builderVars>>
       \/ part = "builder" /\ Builder!Next /\ UNCHANGED <<vars, sessionVars>>

(* The fairness of each part is that of its own module. *)
PlatformSpec ==
    /\ PlatformInit /\ [][PlatformNext]_<<part, works, vars, sessionVars, builderVars>>
    /\ \/ part = "player" /\ Fairness
       \/ part = "session" /\ Session!Fairness
       \/ part = "builder" /\ Builder!Fairness
-----------------------------------------------------------------------------
(* AudioSession: every media reset is reported, every request goes on.         *)
ResetsAreReported == Session!ResetsAreReported
RequestsReachTheSystem == Session!RequestsReachTheSystem

(* IpaBuilder: a build the user stops comes to its end.                        *)
CancelEndsTheBuild == Builder!CancelEndsTheBuild
=============================================================================
