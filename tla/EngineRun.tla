------------------------------- MODULE EngineRun -------------------------------
(* One run of the engine (mr_engine_main of main.c): the parts of the runtime   *)
(* are started one after the other, each on top of those before it; the game    *)
(* runs; and whatever was started is taken down, after a failure anywhere too.  *)
(* The part that failed may have been started in part.                          *)
EXTENDS Integers, Sequences
CONSTANTS Constructors \* entries of the image's init_array
VARIABLES stage,  \* what mr_engine_main does next: [do, part]
          up,     \* the parts that hold resources
          ready,  \* the flags that tell the cleanup which parts it must take down
          game,   \* [constructor, failed, started, frames]: what the game has run
          result  \* of mr_engine_main
run == <<stage, up, ready, game, result>>
-----------------------------------------------------------------------------
StartOrder == <<"hash", "window", "gl", "names", "jni", "audio", "heap", "sched", "a64", "offline">>

TakeDownOrder == <<"audio", "jni", "offline", "a64", "sched", "gl", "window", "names", "elf">>

\* The step of an order after the one for a part.
Then(do, order, part, end) ==
    LET i == CHOOSE n \in DOMAIN order : order[n] = part
    IN  IF i = Len(order) THEN [do |-> end, part |-> part] ELSE [do |-> do, part |-> order[i + 1]]
At(do) == stage.do = do
Goes(do) == stage' = [stage EXCEPT !.do = do]
\* A mutation: a start that fails, and a game that stops, return at once.
Cleanup_None == [do |-> "returned", part |-> "elf"]
Cleanup == [do |-> "take down", part |-> Head(TakeDownOrder)]

Holds == {"window", "gl", "names", "jni", "audio", "sched", "a64", "offline"}
MayFail == {"hash", "window", "gl", "names", "heap", "sched", "a64", "offline"}
\* What a failed start leaves behind: a window without its display link, the
\* names of the imports that were resolved.
HalfStarted == {"window", "names"}
\* These are taken down without a flag of their own: the names by their count.
AlwaysTakenDown == {"jni", "names", "elf"}

\* The hooks are bits of the dispatcher's tables, the thunks of JNI and of the
\* audio objects have names, the rest works in the memory of the image.
Uses == [window |-> {}, gl |-> {"elf"}, names |-> {"elf"}, jni |-> {"names"}, audio |-> {"names"},
         sched |-> {"elf"}, a64 |-> {"elf"}, offline |-> {"a64", "elf"}, elf |-> {}]

GameCalls == <<"JNI_OnLoad", "nativeInitMethods", "Game.nativeInit",
               "Renderer.nativeInit", "SurfaceView.nativeResume">>
NotRun == [constructor |-> 0, failed |-> 0, started |-> 0, frames |-> FALSE]
-----------------------------------------------------------------------------
Init == /\ stage = [do |-> "load", part |-> "elf"] /\ up = {} /\ ready = {}
        /\ game = NotRun /\ result = 1

\* mr_elf_load takes back what it did when it fails: nothing else is to be done.
Load == /\ At("load")
        /\ \/ stage' = [do |-> "start", part |-> Head(StartOrder)] /\ up' = {"elf"}
           \/ Goes("returned") /\ up' = up
        /\ UNCHANGED <<ready, game, result>>

\* window_open is set before mr_win_open is tried.
RaisedFirst == {"window"}

\* Without a window (MR_WINDOW=0) there is nothing to open.
Start(windowed) ==
    LET part == stage.part
        held == (Holds \cap {part}) \ (IF windowed THEN {} ELSE {"window"})
    IN  /\ At("start") /\ (~windowed => part = "window")
        /\ up' = up \cup held /\ ready' = ready \cup held
        /\ stage' = Then("start", StartOrder, part, "constructors")
        /\ UNCHANGED <<game, result>>
Fails == /\ At("start") /\ stage.part \in MayFail
         /\ up' = up \cup ({stage.part} \cap HalfStarted)
         /\ ready' = ready \cup ({stage.part} \cap RaisedFirst)
         /\ stage' = Cleanup /\ UNCHANGED <<game, result>>

\* run_static_constructors: a constructor that stops does not keep the others
\* from running, but the game is not started after it.
Constructor(stops) ==
    /\ At("constructors") /\ game.constructor < Constructors
    /\ game' = [game EXCEPT !.constructor = @ + 1, !.failed = IF stops THEN @ + 1 ELSE @]
    /\ UNCHANGED <<stage, up, ready, result>>
ConstructorsDone ==
    /\ At("constructors") /\ game.constructor = Constructors
    /\ Goes(IF game.failed = 0 THEN "start_engine" ELSE "report")
    /\ UNCHANGED <<up, ready, game, result>>

\* start_engine: the first call that stops ends the run.
StartCall(stops) ==
    /\ At("start_engine") /\ game' = [game EXCEPT !.started = @ + 1]
    /\ Goes(IF stops THEN "report" ELSE IF game'.started = Len(GameCalls) THEN "run_frames"
            ELSE "start_engine")
    /\ UNCHANGED <<up, ready, result>>

\* run_frames ends with the window, the frame count, or a failure.
Frame == /\ At("run_frames") /\ game' = [game EXCEPT !.frames = TRUE]
         /\ UNCHANGED <<stage, up, ready, result>>
FramesEnd(ok) == /\ At("run_frames") /\ Goes("report")
                 /\ result' = (IF ok THEN 0 ELSE 1) /\ UNCHANGED <<up, ready, game>>

\* The report fails the run when a stub was called or a block was missing.
Report(bad) == /\ At("report") /\ stage' = Cleanup
               /\ result' = (IF bad THEN 1 ELSE result) /\ UNCHANGED <<up, ready, game>>

\* cleanup: one part after the other, those whose flag is up.
TakeDown == /\ At("take down")
            /\ up' = up \ ({stage.part} \cap (ready \cup AlwaysTakenDown))
            /\ stage' = Then("take down", TakeDownOrder, stage.part, "returned")
            /\ UNCHANGED <<ready, game, result>>

Next == \/ Load \/ Fails \/ ConstructorsDone \/ Frame \/ TakeDown
        \/ \E b \in BOOLEAN : Start(b) \/ Constructor(b) \/ StartCall(b) \/ FramesEnd(b) \/ Report(b)
Spec == Init /\ [][Next]_run
-----------------------------------------------------------------------------
\* Wherever the start of the engine fails and however the game ends, no part is
\* taken down while another still uses it, nothing is left when mr_engine_main
\* returns, and it reports success only of a run that drew to the end.
StartIsUndone ==
    /\ \A p \in up : Uses[p] \subseteq up
    /\ "gl" \in up /\ "window" \in ready => "window" \in up
    /\ At("returned") => up = {}
    /\ result = 0 => game.failed = 0 /\ game.started = Len(GameCalls)
=============================================================================
