------------------------------- MODULE Runtime -------------------------------
(* The parts of the program that read nothing of each other's state, side by   *)
(* side: the shims and hooks that serve the game's calls, the run of the       *)
(* engine from its start to its end, and the builder that packs it.  A         *)
(* behaviour picks one (part) and runs it while the others rest; each is in a  *)
(* module of its own, with its constants and its properties.                   *)
EXTENDS Integers, FiniteSets
CONSTANTS
    HEAP_SIZE, HEAP_BINS, Requests, Stamp(_),               \* see GuestHeap
    Paths, Bundled, Dir(_), Slot(_), MaxVersion,            \* GuestFiles
    Fds, Files, FileSize, IO_SLOTS, IO_WINDOW,              \* ReadWindow
    Streams, MAX_STREAMS, Chunk, Total, Room,               \* ZStreams
    Classes, Methods, Answer(_), Field(_), MAX_NAMES, SCRATCH_SIZE, Lengths,    \* JniBridge
    Packs,                                                  \* Localization
    PagesOf(_), Communities, Rows, Columns, Additions, Pitch, Width,    \* LanguageUi
    Tree, Page, Movers, TopInsets, BottomInsets, TOP_BAND, CLEARANCE,   \* SafeArea
    Rates, TARGET_FPS,                                      \* FrameClock
    Units, Textures, Buffers, Programs, Shapes, Half(_), META_SLOTS,    \* GlState
    UPLOAD_PBO_COUNT, Sizes, MaxQueue,                      \* GlUploads
    MaxDraws, ReadsBack,                                    \* GlTarget
    Managers, WEEK_KEY_LIMIT, FirstWeek,                    \* OfflineEvents
    Controls, ControlNames, PolicyOf, Anchored, LookupSites, MAX_UI_OBJECTS,    \* OfflineUi
    Functions, Hooked, Sites, IsThumb(_), MaxDepth, MaxLevels,          \* GuestCalls
    Constructors,                                           \* EngineRun
    Outputs                                                 \* IpaBuilder
ASSUME PacksAssumption == "half" \notin Packs    \* half of a preference is no language
ASSUME WindowAssumption == /\ IsFiniteSet(Fds) /\ Fds \subseteq Nat \ {0} /\ "none" \notin Files
                           /\ FileSize \in Nat /\ IO_SLOTS \in Nat /\ IO_WINDOW \in Nat
ASSUME StreamsAssumption == MAX_STREAMS \in Nat /\ Chunk \in Nat /\ 0 \notin Streams
\* GL_TEXTURE0 is a unit, and 0 is no texture.
ASSUME UnitsAssumption == (\E u \in Units : \A v \in Units : u <= v) /\ 0 \notin Textures
ASSUME DrawsAssumption == MaxDraws \in Nat
ASSUME BuffersAssumption == UPLOAD_PBO_COUNT \in Nat \ {0} /\ Sizes \subseteq Nat
ASSUME FilesAssumption == MaxVersion \in Nat \ {0} /\ "none" \notin Paths
ASSUME WeeksAssumption == FirstWeek \in Int
ASSUME ControlsAssumption == /\ MAX_UI_OBJECTS \in Nat
                             /\ PolicyOf \in [ControlNames -> {"NORMAL", "BLOCKED", "FORCED_EVENT"}]
                             /\ "none" \notin LookupSites /\ "nothing" \notin ControlNames
VARIABLES part,     \* the component that runs
    heap, live, refused,
    overlay, dirs, paths, copying, temporary,
    IO, lru, kernel, position, crowded,
    SLOTS, stream, fed,
    CLASSES, METHODS, next, recent,
    phase, available, active, request, bootstrap, pending, engine, file, saved,
    PAGES, count, language, frame, view, gone, open, crossed, elsewhere, mistaken,
    grid, layout,
    offset, height, OBJECT_STATES, REGISTERED, SAFE_AREA_ADAPTATION_ACTIVE, inset, mover, own, settled, leapt,
    refresh, TARGET_FPS_BYTE, field, residual, last_dt, CLOCK_ACTIVE, turn, waited, missed, drift, late, ahead,
    driver, shadow, mipmapped,
    USE_PBO_SYNC, slots, UPLOAD_PBO_NEXT, gpu,
    SAMPLES, draw, read, content, bound, asked, shown, capture,
    week, singletons, mgr, list, objects, stopped,
    control, calls, UI_CALL, hook, UI_OBJECTS,
    cpu, guest, host, jump, fault,
    stage, up, ready, game, result,
    boxes, form, state, worker, process, job, consent, scratch

heapVars == <<heap, live, refused>>
fileVars == <<overlay, dirs, paths, copying, temporary>>
windowVars == <<IO, lru, kernel, position, crowded>>
zlibVars == <<SLOTS, stream, fed>>
jniVars == <<CLASSES, METHODS, next, recent>>
languageVars == <<phase, available, active, request, bootstrap, pending, engine, file, saved>>
pageVars == <<PAGES, count, language, frame, view, gone, open, crossed, elsewhere, mistaken>>
gridVars == <<grid, layout>>
areaVars == <<offset, height, OBJECT_STATES, REGISTERED, SAFE_AREA_ADAPTATION_ACTIVE, inset, mover, own, settled, leapt>>
timeVars == <<refresh, TARGET_FPS_BYTE, field, residual, last_dt, CLOCK_ACTIVE, turn, waited, missed, drift, late,
              ahead>>
stateVars == <<driver, shadow, mipmapped>>
uploadVars == <<USE_PBO_SYNC, slots, UPLOAD_PBO_NEXT, gpu>>
targetVars == <<SAMPLES, draw, read, content, bound, asked, shown, capture>>
eventVars == <<week, singletons, mgr, list, objects, stopped>>
uiVars == <<control, calls, UI_CALL, hook, UI_OBJECTS>>
callVars == <<cpu, guest, host, jump, fault>>
engineVars == <<stage, up, ready, game, result>>
builderVars == <<boxes, form, state, worker, process, job, consent, scratch>>
allVars == <<part, heapVars, fileVars, windowVars, zlibVars, jniVars, languageVars, pageVars,
             gridVars, areaVars, timeVars, stateVars, uploadVars, targetVars, eventVars, uiVars, callVars,
             engineVars, builderVars>>
-----------------------------------------------------------------------------
Heap == INSTANCE GuestHeap
FilesOf == INSTANCE GuestFiles
Window == INSTANCE ReadWindow
Zlib == INSTANCE ZStreams
Jni == INSTANCE JniBridge WITH Names <- Methods
Language == INSTANCE Localization
Pages == INSTANCE LanguageUi WITH active <- language
Area == INSTANCE SafeArea
Time == INSTANCE FrameClock WITH frame <- turn
Shadow == INSTANCE GlState
Uploads == INSTANCE GlUploads
Target == INSTANCE GlTarget
Events == INSTANCE OfflineEvents WITH game <- singletons, fault <- stopped
Ui == INSTANCE OfflineUi WITH Objects <- Controls, Names <- ControlNames, Sites <- LookupSites
Calls == INSTANCE GuestCalls
Engine == INSTANCE EngineRun
Builder == INSTANCE IpaBuilder

\* No page has the address that stands for none.
ASSUME PagesAssumption == \A kind \in Pages!Kinds : Pages!NoPage \notin PagesOf(kind)
\* The rate that is selected for a display divides its own (TARGET_FPS_BYTE holds
\* whole rates, so a display of 59.94 Hz would get updates for 60).
ASSUME RatesAssumption == \A rate \in Rates :
    /\ rate \in Nat \ {0} /\ Time!Second % rate = 0
    /\ Time!Period(Time!derive_target_fps_byte(Time!Period(rate))) % Time!Period(rate) = 0
\* A return address is no entry, and the markers are neither.
ASSUME AddressesAssumption == /\ Hooked \subseteq Functions /\ Functions \cap Sites = {}
                              /\ {Calls!MAGIC, Calls!Import, Calls!None} \cap (Functions \cup Sites) = {}
-----------------------------------------------------------------------------
Parts == {"heap", "files", "window", "zlib", "jni", "language", "pages", "grid", "area", "time",
          "shadow", "uploads", "target", "events", "ui", "calls", "engine", "builder"}

Init == /\ part \in Parts
        /\ Heap!Init /\ FilesOf!Init /\ Window!Init /\ Zlib!Init /\ Jni!Init /\ Language!Init
        /\ Pages!Init /\ Pages!PageHasGrid /\ Area!Init /\ Time!Init
        /\ Shadow!Init /\ Uploads!Init /\ Target!Init /\ Events!Init /\ Ui!Init /\ Calls!Init
        /\ Engine!Init /\ Builder!Init

OthersRest ==
    /\ UNCHANGED part
    /\ part # "heap" => UNCHANGED heapVars
    /\ part # "files" => UNCHANGED fileVars
    /\ part # "window" => UNCHANGED windowVars
    /\ part # "zlib" => UNCHANGED zlibVars
    /\ part # "jni" => UNCHANGED jniVars
    /\ part # "language" => UNCHANGED languageVars
    /\ part # "pages" => UNCHANGED pageVars
    /\ part # "grid" => UNCHANGED gridVars
    /\ part # "area" => UNCHANGED areaVars
    /\ part # "time" => UNCHANGED timeVars
    /\ part # "shadow" => UNCHANGED stateVars
    /\ part # "uploads" => UNCHANGED uploadVars
    /\ part # "target" => UNCHANGED targetVars
    /\ part # "events" => UNCHANGED eventVars
    /\ part # "ui" => UNCHANGED uiVars
    /\ part # "calls" => UNCHANGED callVars
    /\ part # "engine" => UNCHANGED engineVars
    /\ part # "builder" => UNCHANGED builderVars

Next == \/ part = "heap" /\ Heap!Next /\ OthersRest
        \/ part = "files" /\ FilesOf!Next /\ OthersRest
        \/ part = "window" /\ Window!Next /\ OthersRest
        \/ part = "zlib" /\ Zlib!Next /\ OthersRest
        \/ part = "jni" /\ Jni!Next /\ OthersRest
        \/ part = "language" /\ Language!Next /\ OthersRest
        \/ part = "pages" /\ Pages!Next /\ OthersRest
        \/ part = "grid" /\ Pages!place_buttons /\ OthersRest
        \/ part = "area" /\ Area!Next /\ OthersRest
        \/ part = "time" /\ Time!Next /\ OthersRest
        \/ part = "shadow" /\ Shadow!Next /\ OthersRest
        \/ part = "uploads" /\ Uploads!Next /\ OthersRest
        \/ part = "target" /\ Target!Next /\ OthersRest
        \/ part = "events" /\ Events!Next /\ OthersRest
        \/ part = "ui" /\ Ui!Next /\ OthersRest
        \/ part = "calls" /\ Calls!Next /\ OthersRest
        \/ part = "engine" /\ Engine!Next /\ OthersRest
        \/ part = "builder" /\ Builder!Next /\ OthersRest

Spec == Init /\ [][Next]_allVars
-----------------------------------------------------------------------------
(* The properties of the components, stated and explained in their modules.    *)
(* They are asked of the component that runs: one that rests is in an initial  *)
(* state, which is also one of its own runs.                                   *)

(* GuestHeap: data in the guest heap is never overwritten, space never lost.   *)
HeapIsSound == part = "heap" => Heap!HeapIsSound
(* GuestFiles: a read gets the newest whole version of its file.               *)
ReadsAreCurrent == part = "files" => FilesOf!ReadsAreCurrent
(* ReadWindow and ZStreams: reads through the windows go on where they left    *)
(* off, and so does a compressed stream from its begin to its end.             *)
DataGoesOn ==
    /\ part = "window" => Window!ReadsContinue
    /\ part = "zlib" => Zlib!StreamsKeepTheirPlace
(* JniBridge: strings of the Java side last for a round of the scratch ring.   *)
StringsOutliveARound == Jni!StringsOutliveARound
(* Localization and LanguageUi: engine, host and preference agree on the       *)
(* language; open pages of the engine offer the community languages.           *)
LanguageIsKept ==
    /\ part = "language" => Language!LanguageIsKept
    /\ part = "pages" => Pages!PagesOfferLanguages
(* LanguageUi and SafeArea: what is added to a page goes on with its grid,     *)
(* if its columns can be told, and the page fits the safe area of the display, *)
(* if the game moves nothing far in one frame.                                 *)
PagesFit ==
    /\ part = "grid" => Pages!GridGoesOn
    /\ part = "area" => Area!ObjectsKeepTheirPlace
(* The documents say so of every movement.                                     *)
PagesStayAdapted == part = "area" => Area!PageIsAdapted
(* FrameClock: the world and, where its deltas suit the display, the clocks of *)
(* the game go with the display; the documents say so of every display.        *)
TimeIsKept == part = "time" => Time!TimeIsKept
ClockFollowsDisplay == part = "time" => Time!ClockFollowsDisplay
(* GlState: what the GL shims believe of the driver is so.                     *)
ShadowsAreTrue == part = "shadow" => Shadow!ShadowsAreTrue
(* GlUploads: no upload waits for the GPU.                                     *)
UploadsNeverWait == part = "uploads" => Uploads!UploadsNeverWait
(* GlTarget: a presented frame shows every draw of it.                         *)
FramesAreComplete == part = "target" => Target!FramesAreComplete
(* OfflineEvents and OfflineUi: no week's event is added twice or after it was  *)
(* returned, and the controls of the services that are gone stay hidden, while  *)
(* the list of controls has room for them.                                     *)
OfflineModeHolds ==
    /\ part = "events" => Events!NoEventTwice
    /\ part = "ui" => Ui!RetiredControlsStayHidden
(* GuestCalls: nested calls of the game leave the registers as they must.      *)
CallsNest == part = "calls" => Calls!CallsNest
(* EngineRun: whatever was started is taken down.                              *)
StartIsUndone == part = "engine" => Engine!StartIsUndone
(* IpaBuilder: the window of the builder shows and offers what is so.          *)
WindowTellsTheTruth == part = "builder" => Builder!WindowTellsTheTruth
=============================================================================
