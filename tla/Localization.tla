---------------------------- MODULE Localization ----------------------------
(* The language of the game (localization.c, and the frame loop of main.c and  *)
(* the language hook of guest_runtime.c that use it): the one the host has     *)
(* activated, the one the engine has loaded, and the preference on disk.  The  *)
(* engine starts in English and is given the language once its localization    *)
(* singleton exists.  A menu of the host may ask for another at any time, the  *)
(* pages of the engine between two blocks of guest code.  The process may be   *)
(* ended at any point, also while the preference is written.                   *)
EXTENDS Sequences
CONSTANTS Packs        \* the community languages
VARIABLES phase,       \* off, between, render, after, or the step of a selection
          available,   \* AVAILABLE: the packs that are installed
          active, request, bootstrap,   \* ACTIVE, REQUEST, ENGINE_BOOTSTRAP
          pending,     \* localization_pending of run_frames
          engine,      \* the language the engine has loaded, NoLanguage before
          file,        \* the preference on disk, NoLanguage, or HalfWritten of one
          saved        \* ghost: the preference that was saved last
vars == <<phase, available, active, request, bootstrap, pending, engine, file, saved>>
-----------------------------------------------------------------------------
English == "en"
NoLanguage == "none"
HalfWritten == "half"
Languages == Packs \cup {English}
find_language(wanted) == IF wanted \in available' THEN wanted ELSE English
babel == engine # NoLanguage
mr_localization_engine_query_code == IF bootstrap /\ active # English THEN English ELSE active

Init ==
    /\ phase = "off" /\ available = {}
    /\ active = English /\ request = NoLanguage /\ bootstrap = TRUE /\ pending = FALSE
    /\ engine = NoLanguage /\ file = NoLanguage /\ saved = NoLanguage

\* mr_localization_init, and the start of run_frames: the language of the
\* launch, the saved one, or that of the system.
Launch(override, system) ==
    /\ phase = "off"
    /\ available' \in SUBSET Packs
    /\ active' = find_language(IF override # NoLanguage THEN override
                               ELSE IF file # NoLanguage THEN file ELSE system)
    /\ pending' = (active' # English)
    /\ bootstrap' = pending'
    /\ request' = NoLanguage /\ engine' = NoLanguage
    /\ phase' = "between"
    /\ UNCHANGED <<file, saved>>

\* mr_localization_request, on the thread of the menu.
Request(l) ==
    /\ phase # "off" /\ l \in available \cup {English}
    /\ request' = l
    /\ UNCHANGED <<phase, available, active, bootstrap, pending, engine, file, saved>>

\* The process ends; so it does when a call of the engine fails.
End == /\ phase # "off" /\ phase' = "off"
       /\ UNCHANGED <<available, active, request, bootstrap, pending, engine, file, saved>>

\* apply_language_request: a community language is left by way of English; a
\* language the engine cannot load ends the game.
Apply ==
    /\ phase = "between"
    /\ request' = NoLanguage
    /\ \/ /\ request \in {NoLanguage, active}
          /\ phase' = "render" /\ UNCHANGED <<active, engine>>
       \/ /\ request \notin {NoLanguage, active}
          /\ \/ ~babel /\ phase' = "off" /\ active' \in {active, request} /\ UNCHANGED engine
             \/ /\ babel
                /\ active' = request /\ phase' = "save-request"
                /\ engine' = IF English \notin {active, request} THEN English ELSE engine
    /\ UNCHANGED <<available, bootstrap, pending, file, saved>>

\* mr_localization_activate: the preference is written under another name and
\* renamed; any step of it may fail, which keeps the old one.
write_preference == file' = active
Saving == [request |-> "save-request", after |-> "save-after"]
Save(after) ==
    /\ phase = Saving[after]
    /\ \/ write_preference /\ saved' = active /\ phase' = (IF file' = HalfWritten THEN phase ELSE after)
       \/ file # HalfWritten /\ UNCHANGED <<file, saved>> /\ phase' = after
    /\ UNCHANGED <<available, active, request, bootstrap, pending, engine>>

\* The rest of apply_language_request.
SelectRequested ==
    /\ phase = "request"
    /\ engine' = active /\ phase' = "render"
    /\ UNCHANGED <<available, active, request, bootstrap, pending, file, saved>>

\* nativeRender; the engine may create the singleton, in the language the Java
\* side tells it, or the player may press a language button, whose hook runs
\* before the engine loads the language of the button.
Render ==
    /\ phase = "render"
    /\ \/ phase' = "after" /\ UNCHANGED <<active, engine>>
       \/ ~babel /\ engine' = mr_localization_engine_query_code /\ phase' = "after" /\ UNCHANGED active
       \/ /\ babel
          /\ \E l \in (available \cup {English}) \ {active} :
                active' = l /\ engine' = l /\ phase' = "save-after"
    /\ UNCHANGED <<available, request, bootstrap, pending, file, saved>>

\* The end of the frame: the language of the launch is selected once.
AfterRender ==
    /\ phase = "after" /\ phase' = "between"
    /\ IF pending /\ babel
       THEN engine' = active /\ bootstrap' = FALSE /\ pending' = FALSE
       ELSE UNCHANGED <<engine, bootstrap, pending>>
    /\ UNCHANGED <<available, active, request, file, saved>>

Next ==
    \/ \E o, s \in Languages \cup {NoLanguage} : Launch(o, s)
    \/ \E l \in Languages : Request(l)
    \/ Apply \/ SelectRequested \/ Render \/ AfterRender \/ End
    \/ \E after \in {"request", "after"} : Save(after)

Spec == Init /\ [][Next]_vars
-----------------------------------------------------------------------------
(* Between two frames the engine speaks the language the host has activated:   *)
(* the language of the launch, a request of the menu and a button of the       *)
(* engine never leave the two apart (LOCALIZATION.md, select_engine_language). *)
EngineSpeaksTheLanguage == phase = "between" /\ babel => engine = active

(* The preference that was saved last is there after any end of the process,   *)
(* whole, and also when writing a later one failed (write_preference).         *)
PreferenceSurvives == file # HalfWritten /\ (phase \in {"off", "between"} => file = saved)

(* The language the player chose is the one the engine speaks, now and after   *)
(* the next start.                                                             *)
LanguageIsKept == EngineSpeaksTheLanguage /\ PreferenceSurvives
=============================================================================
