# Verification of the Minion Rush 1.8.1g Apple runtime

TLA+ modules, TLC configurations and TLAPS proofs for the runtime in `src/native` and for the
Windows builder in `src/windows`: the ARM32 Android engine runs as translated code inside a macOS
or iOS process, and the runtime gives it threads, memory, files, a Java side, OpenGL ES, audio, a
window and time. What is modelled is the part of the runtime whose correctness depends on order:
who runs when, and what is read, cached or written before something else happened.

1. [The system](#1-the-system)
2. [Modules and how they correspond to the code](#2-modules-and-how-they-correspond-to-the-code)
3. [Runs](#3-runs)
4. [Fairness](#4-fairness)
5. [Proofs](#5-proofs)
6. [Findings and observations](#6-findings-and-observations)
7. [What is not modelled](#7-what-is-not-modelled)
8. [Plan](#8-plan)

## 1. The system

| component | state | operations | interacts through |
|---|---|---|---|
| guest thread scheduler (`guest_threads.c`) | thread table, wait records, mutex / condition / once / key tables, `current` | two host loops, the pthread, futex and sleep shims, callback workers | guest code calls the shims; the main loop calls the two host loops; the loops poll the audio pump |
| execution boundary (`guest_runtime.c`, `cpu.h`), dispatcher (`a64_runtime.c`) | registers of the guest thread, nested runs, frame timeline, time-step residual, hooks of addresses | nested guest calls, imports, hooks, user helpers, faults; clock and time step | main loop, scheduler; every shim that calls the game |
| AOT compiler (`a64_compiler.c`) | block tables | translation at build time | dispatcher |
| OpenSL audio (`shim_audio.c`) | PCM ring, play state, output unit, callback worker of a player | the OpenSL objects, the pump, the CoreAudio render callback | a real-time thread pulls from the ring; the pump posts callbacks to the scheduler |
| iOS audio session (`audio_session_ios.m`) | three atomics | notifications on the main queue, the poll on the engine's thread | the pump polls it and reopens the output after a reset |
| iOS window (`window_ios.m`) | frame gate, touch queue, drawable, surface geometry, orientation lock | UIKit handlers on the main thread; wait for a frame, touches, geometry on the engine's thread | semaphore, a lock, atomics, blocks dispatched both ways |
| main loop (`main.c`) | start-up flags, per-frame work, shutdown | `mr_engine_main`, `start_engine`, `run_frames` | all of the above |
| GL shims (`shim_gl.c`) | shadows of driver state, image table, upload ring with fences, offscreen target | GL calls of the game, presenting, capturing | guest code, driver, GPU |
| C library shims (`shim_libc.c`) | heap with tags in guest memory, overlay of files with a path cache, read windows | the imports of the engine | guest code, file system |
| zlib and JNI shims (`shim_zlib.c`, `jni_bridge.c`) | host streams for guest streams; interned names, scratch ring | stream calls; lookups and calls of the Java side | guest code |
| localization and its pages (`localization.c`, `language_ui.c`) | active language, preference file, buttons on the engine's pages | requests of the menu, of a button, of the engine; enter, refresh, leave, destroy of a page | hooks of the dispatcher, main loop |
| offline mode (`offline_mode.c`, `offline_events.c`) | records of controls, pending return, state of the weekly events | hooks on lookups, visibility, the events manager | dispatcher, nested guest calls |
| safe area (`safe_area.c`) | registered objects, offsets and heights written before | a walk over the page before it is drawn | memory of the game |
| IPA builder (`src/windows`) | window state, job, workspace | pick, start, cancel, finish; a worker and the build process | message loop, job object |
| ELF loader, game profile, installer, tools | tables, a workspace | load, look up, convert, install | start-up, file system |

The behaviours that are hard here:

* *One guest, several host threads.* Guest threads are multiplexed on one host thread, so a
  pthread shim is atomic and the interleaving is that of quanta; but a blocking shim is executed
  again after its wake-up, and what it finds then was written long before. Around that one thread
  there are the main thread of UIKit and the real-time thread of CoreAudio, which share flags,
  queues and a ring with it without locks, or with a lock that ends before the signal is posted.
* *Copies.* Nearly every shim keeps a copy of something it does not own: a cached path, a window
  into a file, a shadow of the driver's state, the offset it wrote into the game's memory, the
  language the engine was told. The other side changes, is deleted, or is made anew at the same
  address.
* *Nesting.* Host code called by the game calls the game again, on the same registers.
* *Crashes.* The process may end inside a copy of a file or while the language is saved.
* *Failure.* The output unit may fail at each of several calls, the session may be interrupted or
  the media server reset, UIKit may deny or delay a turn, a wait may time out as it is signalled.
* *Reuse.* Thread slots, key indices, table slots of mutexes and once controls, ring positions and
  touch slots are reused while somebody may still refer to their former content.
* *Progress.* The scheduler declares a deadlock when nothing is runnable; the engine sleeps until
  the display link or the scene wakes it; a silent player must go on consuming buffers.

What makes each component correct is stated as the properties of section 3. `PROJECT.json` lists
the hazards one by one, at their lines, with the properties that cover them.

## 2. Modules and how they correspond to the code

```
GuestSched  <- GuestSync    <- MCGuestSync        GuestSync    implements Monitor
            <- GuestThreads <- MCGuestThreads     GuestThreads implements ThreadLife
GuestSched  <- GuestSchedProofs <- GuestSyncProofs, GuestThreadsProofs
AudioPlayer <- MCPlatform                         AudioPlayer  implements PcmQueue
            <- AudioPlayerProofs
TouchInput  <- Window <- MCWindow, WindowProofs   Window       implements its frame gate
GuestCalls  <- GuestCallsProofs
SurfaceGeometry <- MCWindow
AudioSession <- MCPlatform
IpaBuilder   <- MCPlatform, Runtime
GuestHeap, GuestFiles, ReadWindow, ZStreams, JniBridge, GuestCalls, FrameClock,
GlState, GlUploads, GlTarget, Localization, LanguageUi, SafeArea,
OfflineEvents, OfflineUi, EngineRun <- Runtime <- MCRuntime
                                               <- RuntimeProofs, GameStateProofs
```

`Runtime` composes components that read nothing of each other, `MCPlatform` three more, and
`MCWindow` the two halves of the window, its frames with the touches and the shape of its surface.
Their variable `part` (`crew` in `MCGuestSync`, which has three small instances of one module) picks
one component at the start, which then runs while the others rest: the components stand side by side
in one run, and the product of their states is not explored because it would show nothing. `Runtime`
declares the constants and variables of them all, with the assumptions about the constants, so that
its theorems are about the components with nothing else between; `MCRuntime` gives the constants
their small values and narrows what a component may choose at the start. Its constant `Running` says
which components a run is about: all of them in `Runtime`, one in each of the runs that show a
violation.

Names follow the source. A definition `X_Fault` in front of `X` is a faulty variant of `X`, the
way a plausible bug would change it; each property is shown to notice one of them.

### GuestSched, GuestSync, GuestThreads (`guest_threads.c`)

`GuestSched` has the thread table (`thread[i]`: state, kind of wait, awaited object, deadline,
`wait_ready`, result), `current`, and the two loops. `Iterate` is one pass of `mr_sched_run` or
`mr_sched_service_idle`: deadlines are processed, the audio pump posts callbacks, and `Dispatch`
picks a callback worker, then the main thread, then the next worker after `current`, or naps, or
gives up. `EndQuantum`, `GuestFault`, `MainReturns` and `CallbackReturns` end a quantum.

A shim that blocks leaves the thread's PC on its own thunk. `call[i]` is that pending call; a
resumed thread can only execute it, and takes the shim's retry branch when the wait record says
that it was woken. This is the mechanism whose correctness the properties of `GuestSync` are about.

`GuestSync` adds every mutex, condition variable, futex and sleep shim, each with its error
returns, for a fixed set of threads and callback workers. `GuestThreads` adds create, join,
detach, exit, thread-specific data with destructor passes, `pthread_once`, and slots that come
and go. Both extend the same `GuestSched`.

Abstractions. A deadline is "has one"; which of them have passed is chosen at each iteration, so
every order of deadlines is explored. A guest value is a model value. The guest does not
initialize a mutex that is held or waited for (undefined in POSIX). A loop that has ended with a
fault or a deadlock stays there. At most one thread is created per iteration by
`mr_sched_post_callback`; identifiers are bounded by `MaxTid` and their wrap at 2^32 is not
modelled; `longjmp` out of a once initializer and nested `mr_guest_call` are left out.

`Monitor` is the abstract specification of mutexes and condition variables: a Mesa monitor
without scheduler or records. `StageOf` in `GuestSync` is the refinement mapping. `ThreadLife` is
the life of a thread identifier, without slots.

### AudioPlayer (`shim_audio.c`)

One player. The guest's thread (enqueue, play state, callback, clear, destroy, the pump) and the
real-time thread (`render`, `ring_pull`) interleave at every atomic store that one makes for the
other: `ring_push` is `Enqueue`, `PublishBytes`, `PublishBuffer`, `EnqueueReturns`; `ring_pull`
is `RenderBegins`, `RenderCopies` per buffer, `PublishRead`, `PublishQueue`, `PublishPlayed`. A
byte is represented by its position in the stream, so that a lost, repeated or overwritten byte
is visible. `device` has the output unit with its failures, the retry timer (nondeterministic)
and the silent mode, in which the pump drains the ring. `Recreate` is destroy followed by create
in the same slot.

Assumptions: stores are seen in program order by the other thread (they are release/acquire
pairs); `AudioOutputUnitStop` returns after a render in progress has. Left out: engine and mix
objects, underrun and diagnostic counters, sample conversion.

`PcmQueue` is the abstract buffer queue: a list of remaining byte counts, finished and called.

### AudioSession (`audio_session_ios.m`)

Every access of `NEEDS_ACTIVATION`, `MEDIA_RESET` and `NEXT_TRY_NS` is a step, of a notification
handler on the main queue or of `mr_audio_session_poll` on the engine's thread. Whether the retry
interval has passed is a choice; the system may refuse an activation. `mr_audio_session_begin` is
one step, since no observer exists before it.

### Window, TouchInput, SurfaceGeometry (`window_ios.m`, `main.c`)

The first half of `Window`, the frame gate with a specification of its own (`Spec`), is
`mr_win_wait_frame` against the display link, layouts and activations: a block
under `FRAME_LOCK`, a semaphore operation and an access of an atomic are steps, and a handler of
the main thread posts its signal in a step after the lock. `TouchInput` has UIKit's touch
callbacks and the queue that drops its oldest event. `WindowSpec` composes the two: resigning the
scene ends the touch, and the engine drains the queue at the top of a frame (`deliver_touches` in
`run_frames`). A `dispatch_sync` to the main queue is one step, because the main thread never
waits for the engine. The view has bounds, and UIKit reports one finger at a time (multiple touch
is off). `CLOSED` is set on the engine's thread only.

`SurfaceGeometry` is the shape of the render surface: the debounced resize, the orientation of
movies, the lock, the request for a turn, and `apply_surface_geometry`. A handler is cut where it
reads `MOVIE_LANDSCAPE` and stores a decision later. The short side is constant; equal unlock
blocks are merged; the matching rule is that of the iPhone (portrait or landscape, not upside
down). The constant variable `tame` says whether UIKit behaves (no denied request, an unlock in
time) and movies last a frame.

### EngineRun (`main.c`) and IpaBuilder (`ipa_builder.c`)

`EngineRun` is `mr_engine_main`: each part is started (`Start`), may fail, also half-way
(`HalfStarted`), and raises the flag of its cleanup before or after that (`RaisedFirst`); the
static constructors and the calls of `start_engine` may stop; the cleanup goes through the parts
in its own order. `Uses` says which part still needs which other.

`IpaBuilder` is the window's thread, the worker `run_build`, the suspended process in its job
object, and the message boxes, during which posted messages are served (so a build may end under
the question whether to stop it). `job.agreed` remembers whether the user agreed to replace the
file. `PostMessageW` is assumed to succeed.

### GuestHeap, GuestFiles, ReadWindow (`shim_libc.c`)

`GuestHeap` works on words: sizes with the `PREV_FREE` bit, links and footers are written into the
same memory as the program's data, so a wrong tag destroys data or loses a block. `alloc`, `free`
and `realloc` are one step each, with their splits, merges and bins. `GuestFiles` has paths in
an overlay or in the bundle, a slot-addressed cache of resolved paths, and the copy to the overlay
before a first write as steps between which the process may end; the contents of a file is a
version number. A change of language is the flush of the cache that it causes. `ReadWindow` has
the windows with their positions beside the kernel's, and descriptors that are closed and reused.

### ZStreams (`shim_zlib.c`), JniBridge (`jni_bridge.c`)

`ZStreams`: the slots, the copies of pointers and counts in both directions around each call, and
a library that consumes and produces whatever it likes. The program offers buffers before or after
it begins a stream. The calls that begin one store the empty host stream
(`shim_zlib.c:115,133,152`), so buffers that were set before are passed over and the data of the
stream begins behind them; `fed` remembers where. `JniBridge`: the interned names, and the
scratch ring with every answer that takes a piece of it; `recent` remembers the pieces in order.

### GuestCalls (`guest_runtime.c`, `a64_runtime.c`, `shim_libc.c`)

The stack of host levels (`host`: runs, imports, hooks) over the stack of guest activations
(`guest`), with one register file: `mr_guest_call` saves and restores, an import may block, set or
take a jump, a hook stands for its function, a fault unwinds every level. Addresses are model
values with an instruction set each. An import that has begun to wait (`block_current`) returns at
once: it neither jumps nor calls after that (`Working`).

### FrameClock (`guest_runtime.c`, `main.c`)

`mr_guest_clock_step` for a number of display periods, then the engine's render with the hooks of
`OnUpdate`. Time is counted in thirty-sixths of a millisecond, in which all periods involved are
whole. Ghosts: `drift` is the world's time minus the scaled time shown, `ahead` the timeline's minus
the time the display has shown. `waited` is all the time shown since the last update, and `missed`
as much of it as went by in skipped periods or on another display: the world may make up for that
with further updates, or not. `late` counts the periods skipped while timeline and display are
compared; after `MaxLate`, a gap or a change of display the comparison starts anew.

### GlState, GlUploads, GlTarget (`shim_gl.c`)

`GlState` keeps what the driver has beside what the shims believe (`shadow`); every shim that is
skipped or redirected on the strength of a shadow is an action on both, and presenting changes the
driver behind the game's back. The image table does not learn of `glGenerateMipmap`; the ghost
`mipmapped` has the images generated since they were last stored, of which nothing is claimed.
`GlUploads` puts commands and fences on a queue that the GPU executes later; mapping storage that a
queued command reads marks the command as waited for. `GlTarget` counts the draws that each
framebuffer holds; multisampled contents that were invalidated, and what was drawn elsewhere, are
missing from the picture.

### Localization, LanguageUi (`localization.c`, `language_ui.c`)

`Localization` relates the host's language, the engine's, a request, and the file with a crash at
each step of its replacement. `LanguageUi` has pages as addresses that the engine makes, enters,
refreshes, leaves and destroys inside frames, and the host's work between frames. Its second part
(`GridSpec`) is `arrange_trailing_row` as a function of the page's grid; every page is an initial
state.

### SafeArea (`safe_area.c`)

The registered objects, the classification at first sight, and the passes over a page as functions
of a display (offsets, heights, states). The tree is a constant with an object of every sort that
the layout policy names; `anchor` says, independently of the code, what should become of it. The
game moves one object, to a place or by a distance and as far as it likes, lays the page out anew,
and insets change. `leapt` remembers a movement by at least half of what the adaptation had moved
the object; after it only the next drawing is followed, since the code may have lost the place.

### OfflineEvents, OfflineUi (`offline_events.c`, `offline_mode.c`)

`OfflineEvents`: each call of the hook tries to add two weeks' events; `Mishaps` are the outcomes
of the guest calls on the way. `OfflineUi`: a lookup arms the pending return, for a policy or for a
role of the safe area (`Anchored`), the return records the object if the list has room, later calls
of the game are overruled; objects are destroyed and addresses reused. A lookup may call another,
of the same name or another one. There is one pending return, so the outer one is *overtaken* when
the inner one arms another name's or returns to the same address; what it returns counts for
nothing then.

## 3. Runs

With two workers `Runtime` takes less than four minutes, `Sync`, `Window` and `Platform` two to three,
every other run less than one.

| run | shows | instance | states |
|---|---|---|---|
| `Sync` | `RetryFindsItsRecord`: a pending call and the wait record belong together; `NoLostMutexWakeup`: a free mutex with waiters has a woken one; `DeadlockIsReal`; `OutcomeKept`: a signal or a timeout is delivered once; `WaitersKeepObjects`: destroy never takes an object from a pending call; `ImplementsMonitor`; `WorkersTakeTurns`: plain workers that stay runnable are served in turn (`RoundRobin`) | main thread and two workers, timeouts, sleeps. Callback workers, which are made runnable, cancelled and parked again, with one mutex of any type with recursion up to 2, one condition variable, one futex word; or plain workers with a mutex and a futex of two values; or plain workers with two mutexes in a table with room for one | 490 thousand |
| `Threads` | `EndsAreSettled`: joiners are woken and zombies can be joined; `OnceProtocol`: one runner, and a waiter has one; `FreshKeysAreNull`, `DestructorsRun`, `ImplementsThreadLife` | three slots; the guest program is chosen at the start: create/join/detach with five identifiers, so that slots are reused; or three once controls nested two deep; or two keys and two destructor passes | 210 thousand |
| `AudioDrain` | finding, section 6 | buffers longer than a slice with a failing output | |
| `AudioUnfound` | finding, section 6: `BuffersAreConsumed` | an output of which CoreAudio may make no instance | |
| `Platform` | the player: `NoStaleCallback`, `PlaysTheQueue`: the stream is played in order and the player implements `PcmQueue`; `OpenedOutputsConsume`: buffers of a playing player are consumed, however often its output fails to start, unless it was given no instance of the unit at its last try. The audio session: `ResetsAreReported`, `RequestsReachTheSystem`. The builder: `CancelEndsTheBuild` | a ring of four bytes and two queue slots, buffers of one and three bytes, slices of two, two callback functions, media resets; or an output that fails in each of the ways of `audio_open`, as often as it likes; or all notifications, two waiting at a time; or two output files, any number of builds, a process that may hang | 140 thousand |
| `SessionLost` | finding, section 6 | without media resets | |
| `SurfaceStale` | finding, section 6 | three window sizes | |
| `Window` | `EngineIsWoken`, `DrawableIsCurrent`, `FramesAreFresh`, `TouchesArePaired`, `FramesGoOn`, `NoTouchIsStuck`; `SurfaceFollowsWindow`; `GeometryFollowsMovie`: the surface and the scene turn with a movie and back | two activations, at most two signals before the scene is toggled, two layer sizes, a touch queue of three events; or two window sizes, movies at any time, tame or not | 215 thousand |
| `Runtime` | the fourteen properties below | the instances of `MCRuntime` | 690 thousand |
| `Readback` | finding, section 6 | the framebuffers with a read-back in mid-frame | |
| `PagesMoved` | finding, section 6: `PagesStayAdapted` | the page, moved by the game as far as it likes | |
| `ClockRates` | finding, section 6: `ClockFollowsDisplay` | a display of 72 Hz | |

`Runtime`:

| property | says | instance |
|---|---|---|
| `HeapIsSound` | data the program holds is never overwritten, and a request is refused only when no free block fits | 64 bytes of heap, five bins, requests of 4 and 12 bytes: blocks of two sizes that merge and split |
| `ReadsAreCurrent` | a read gets the newest version of its file and never half of one | two bundled files and one that the game makes; two of them share a slot of the cache; three versions |
| `DataGoesOn` | reads go on where the descriptor left off; a compressed stream goes on where it left off, from its begin to its end | one window, two descriptors, files longer than the window; two streams, two slots, buffers set before the begin or after it |
| `StringsOutliveARound` | an object of the Java side is overwritten only after a whole round of the ring | 64 bytes, pieces of two sizes, more names than handles |
| `LanguageIsKept` | engine, host and file agree in the end, also over crashes; open pages offer the languages | a working pack and a broken one; two pages of one kind, or one of each |
| `PagesFit` | added buttons go on with the page's grid where its columns can be told (`ColumnsRecur`: two full rows and columns or more and at most one button out of sight, or full rows and nothing else); every object is where the game wants it plus what the layout policy asks for, until the game moves one, in one frame, by half or more of what the adaptation has moved it (`leapt`) | every grid of up to three full rows and four columns, any last row, up to two buttons out of sight, up to five added; 17 objects, one of four moved by the game, three upper and two lower insets |
| `TimeIsKept` | the world is less than a millisecond from the scaled time shown, but for skipped periods it does not make up for; on displays whose deltas are all taken or all refused by the clock lock (`Locks`), the timeline is within a millisecond of the display, and another for each period skipped | displays of 30, 60, 72, 80, 120 and 144 Hz that change at any frame, one, two or nine periods between frames, time scales from a half to one and a half and two that are not accepted |
| `ShadowsAreTrue` | what the shims believe of the driver is so | two units, two textures of two levels, which may be generated and stored again, a table that three images fill; a buffer, a program |
| `UploadsNeverWait` | no storage is mapped that a queued command has yet to read | three buffers, two sizes, a queue of five commands, fences that fail |
| `FramesAreComplete` | a presented frame, and a captured one, shows all its draws | two draws, with and without samples |
| `OfflineModeHolds` | no week's event is there twice or after it was freed; a control of a retired service that a lookup has returned stays hidden, unless the list was full when it came or its lookup was overtaken | two managers, three weeks; two objects, a list of one, four names (retired, event, plain, anchored), lookups within lookups |
| `CallsNest` | the game goes on where its innermost activation was to go on, in the right instruction set | two functions, one of them hooked, three return addresses of two instruction sets, three activations, five levels |
| `StartIsUndone` | no part of the engine is taken down while another uses it, and all are in the end | two constructors, a failure anywhere |
| `WindowTellsTheTruth` | the builder's window is busy exactly while a build runs; a file is replaced only with consent | two output files, any number of builds |

Why the bounds suffice. With three threads and one mutex every role of the mutex protocol can be
filled at once: an owner, a woken waiter, and a thread that barges in or queues behind it; the
safety of larger tables is not left to the bound, since the theorems of section 5 hold for every
number of slots, mutexes and condition variables. Five identifiers over three slots make a slot
be used at least twice. In the ring, four bytes against slices of two and buffers of three make
every position wrap and every slice straddle a buffer, and two queue slots make the queue full.
Two activations suffice for a frame, a touch or an interval of the first to reach the second; the
bound on signals only stops the scene from being toggled while two signals are unread. A
three-event queue holds a press, a move and a release and drops with the next event. In the heap
four blocks of the smallest size meet, so a free one has free neighbours on both sides; each table
(windows, streams, names, images, controls, upload buffers) is exceeded by the number of its users
or filled by them; three levels of calls put a call inside an import inside a hook.

`program`, `crew`, `works`, `tame`, `world` and `part` are variables that never change: each run
explores the unrelated environments side by side instead of their product. The symmetry of the once
controls is used with action properties and invariants only.

`CHECK_DEADLOCK FALSE` stands where the program may stop: a guest can deadlock or fault, after
which the host loops are over (`Sync`, `Threads`), an audio session that has ended is not begun
again (`SessionLost`, `Platform`), and in `Runtime` an engine run returns, a page is arranged once, a
guest faults, and the last week comes.

## 4. Fairness

* `GuestSync`: the host enters `mr_sched_run` again, the loop iterates, a resumed shim is
  executed, and a quantum ends. All four are steps of straight-line host code; the quantum is
  bounded by the instruction budget that the translated blocks check. Nothing is assumed of the
  guest: it need not unlock, signal or return.
* `AudioPlayer`: the pump runs in each iteration of the loops, a shim runs to its end, CoreAudio
  renders while the unit runs. Nothing is assumed of the outcome of opening a unit: each of its
  failures may happen at every try, also the one after which nothing is tried again (`Unserved` in
  `OpenedOutputsConsume`, and the run `AudioUnfound`).
* `AudioSession`: the main queue is served, the poll runs, time passes, and a system that is asked
  again and again grants an activation in the end (strong fairness): without that no retry helps.
* `Window`: the display link ticks while the scene is active, the main queue serves what is
  dispatched to it, the engine's thread runs. Strong fairness where the action needs the main
  thread between two handlers, which it is again and again.
* `SurfaceGeometry`: the main queue serves blocks and timers, the engine goes on making frames,
  and UIKit grants a request that stands. It need not grant one that it denies.
* `IpaBuilder`: the worker runs, `TerminateJobObject` returns, and the message loop comes round to
  the end of the build (strong fairness: a message box may be opened and closed in between).
  Nothing is assumed of the build process, which may hang, nor of the user.

## 5. Proofs

What is proved holds for every value of the constants, from the named assumptions in the modules
(`GuestSched`, `GuestSync`, `GuestThreads`, `AudioPlayer`, `Window`, `Runtime`) or from
hypotheses that stand in the theorem. Each proof module extends the module it is about;
`GuestSchedProofs` has the lemmas about wait records and scheduling that two of them share. Every
strengthened invariant was first checked by TLC on the instance of the component's run.

**`GuestSyncProofs`**, for any capacity, any sets of mutexes, condition variables, futexes and
callback workers, any table sizes and recursion limit:

| theorem | property |
|---|---|
| `TypeCorrect` | `TypeOK` |
| `RetriesAreSafe` | `RetryFindsItsRecord` |
| `ObjectsOutliveWaiters` | `WaitersKeepObjects` |
| `NoWakeupIsLost` | `NoLostMutexWakeup` |
| `OwnershipIsTaken` | `OwnershipMovesByRunner`: a mutex is taken and released only by the thread in its quantum |
| `DeadlocksAreReal` | `DeadlockIsReal` |
| `OutcomesAreKept` | `OutcomeKept`: a signal or a timeout reaches the shim that waits for it, unchanged |
| `ShimsImplementMonitor` | `ImplementsMonitor`: every step is one of the Mesa monitor, or none |

The argument goes in layers. The first invariant (`Sane`) joins `TypeOK`, `RetryFindsItsRecord`,
`WaitersKeepObjects` and bookkeeping (`ThreadsLive`: no slot is empty and a callback that has not
started made no call; `RunnerKnown`: the thread in its quantum is runnable;
`NeverWaitsForItself`). The record and the pending call must be tied together before anything can
be said of a wake-up, because a retry trusts the record. The second layer adds `CountsMatch` (a
recursion count exactly while a mutex is owned) and `NoLostMutexWakeup`, which is inductive only
on top of the first: an unlock with a recursion count of one wakes a waiter if there is one, a
woken waiter stays a contender until it executes its call, and that call either takes the mutex
or finds another owner, whose unlock will wake somebody again. Mutual exclusion follows because
ownership changes in the quantum of the owner or of the taker only. `DeadlockIsReal` follows from
`NoLostMutexWakeup` and the guard of the report: when nothing is runnable nobody contends, so a
mutex with waiters has an owner, and that owner is blocked without a deadline.

The refinement needs two more facts. `Tidy`: an outcome stands in a record only between the
wake-up and the return of the shim, and a thread that is blocked although woken is queueing for
the mutex. `Recursion`: no count exceeds the limit, and a waiter that still holds its recursive
mutex (it unlocked one level before it slept) can take it once more. Without the second, the
retry of a condition wait could fail for the limit, which the monitor knows nothing of. Each shim
is then one step of `Monitor` (`Enter`, `Queue`, `Leave`, `Wait`, `SignalOne`, `BroadcastAll`,
`Resume`), expired deadlines are one step `Expire` of all the threads they wake, and the
scheduler's own steps are stutters.

**`GuestThreadsProofs`**, for any capacity, guest program, once controls, keys and number of
destructor passes: `TypeCorrect` (`TypeOK`), `JoinersAndSlotsAreSettled` (`EndsAreSettled`),
`NewKeysReadNull` (`FreshKeysAreNull`), `OnceRunsOnce` (`OnceProtocol`), `EndsAfterDestructors`
(`DestructorsRun`), and the refinement `SlotsImplementLives` (`ImplementsThreadLife`). The
invariant `IInv` ties slots to identifiers (`SlotsMatch`: an identifier names at most one slot and is
smaller than the next one given, an unused slot is cleared), frames of initializers to controls
(`OnceHasFrame`: a control that runs has exactly one frame, of its owner), exits to destructor
passes (`ExitsAreInAPass`), and says what the scheduler keeps for all of it (`RunnerIsReady`,
`MainLives`). Reuse of a slot is harmless because nobody refers to it by index: a joiner holds an
identifier, and identifiers only grow.

**`AudioPlayerProofs`**, for any ring, queue, buffers, slices and callbacks: `CallbacksAreCurrent`
(`NoStaleCallback`) without condition. That the ring is the buffer queue has one: in no step does
the pump drain a player whose oldest buffer is half played (`CutsABuffer`). The code does not
establish it, and the run `AudioDrain` shows what happens then; the theorems show that nothing
else goes wrong. Under `[][~CutsABuffer]_vars`, `StreamIsPlayed` (`PlaysTheStream`),
`CallbacksComeAfter` (`CallbacksFollowPlayback`, "callbacks … after their samples are consumed")
and `RingImplementsQueue` (`PlaysTheQueue`) hold; `WorkingOutputPlaysQueue` replaces the condition
by an output that is never given up, `WholeBuffersPlayQueue` by buffers of one byte, which no
slice splits. The invariant speaks
of unbounded positions and of the slots they fall on modulo the ring. A render in progress works
on its own copies of them, so it speaks of the positions the audio thread has reached, published
or not: from there to what was copied, the ring holds the bytes that were queued
(`BytesAreKept`), the next byte lies in the buffer to be finished next (`ReadsInItsBuffer`), and
what the pump sees only lags behind (`PositionsAreOrdered`).

**`WindowProofs`**, for any layer sizes and bounds. Of the gate: `GateTypeCorrect` (`TypeOK`),
`NoWakeIsLost` (`EngineIsWoken`), `DrawableFollowsLayer` (`DrawableIsCurrent`), `NoStaleFrame`
(`FramesAreFresh`). `EngineIsWoken` alone is not inductive: what holds throughout is that a
pending frame is announced by a signal that is posted, owed, or taken by an engine that is about
to look (`PendingIsSignalled`), and the same of an activation the engine has not seen
(`SleeperIsSignalled`); `FreshTicks` says that a pending frame and the last delivered one belong
to the current activation. This is carried to the window: `WindowImplementsGate`
shows that every step of `Window` is one of the gate or changes touches only, so the three
properties hold of `WindowSpec` (`WindowWakes`, `WindowDrawsCurrent`, `WindowFramesAreFresh`).
`TouchesContinue` proves `TouchesArePaired` from the shape of the queue: while nothing was dropped,
its events continue what was delivered, and the state of the finger continues them.

**`GuestCallsProofs`**: `NestedCallsReturn` (`CallsNest`) for any functions, hooks, return addresses
and depths, provided that an address is of one kind only (`Addresses`). Two stacks, of host levels
and of guest activations, are tied by no variable; the invariant says that a function exists that
gives each call of the host the activation it entered, that these are exactly the activations
that return to the magic address, and that the registers each call has put aside are those the
level below needs at the place where its activation stands (`StacksAreTied`). A `longjmp` inside
one level cuts activations above that one only, so no suspended level notices.

**`RuntimeProofs`** and **`GameStateProofs`** extend `Runtime`. Each component has an invariant of
its own variables; the step of another component leaves these alone (the lemmas `...Step`), so the
invariant is shown to be kept by the component's actions, one lemma for each that needs thought.

| theorem | property | inductive because |
|---|---|---|
| `LanguageIsOffered` | `LanguageIsKept` | `LanguageInv`: outside a selection the engine has the active language, and the file is what was saved whole. `PagesInv`, per kind of page: a page that is noted exists or its destruction is noted in this frame (`PageIsNoted`); a page in use that no other disturbed is the one noted, and the only one refreshed with its buttons (`PageIsServed`); flags show the language or are marked to be drawn anew (`FlagsAreNoted`) |
| `BuilderShowsWhatIs` | `WindowTellsTheTruth` | `BuilderInv`: the stacks of boxes there can be, which of them while a build runs; an approved path is the one the user agreed to |
| `EngineIsTakenDown` | `StartIsUndone` | `EngineInv`: which parts are up and which flags are raised at each place of the start (`StartsInOrder`, `FlagsTell`) and of the take-down (`TakenDownInOrder`), and what was called before success is reported (`SuccessIsEarned`) |
| `FilesAreCurrent` | `ReadsAreCurrent` | `FilesInv`: a cached path is the one a fresh look would find, also while a call is in the middle of a copy (`CacheTells`), and no file of the overlay is partial, since copies have a name of their own until they are whole |
| `PresentedFramesAreComplete` | `FramesAreComplete` | `TargetInv`: the draw binding is the one the game believes in, and the target holds all draws asked for since the frame began. Its hypothesis `~ReadsBack` is the finding of the run `Readback` |
| `ProgramCallsNest` | `CallsNest` | `GuestCallsProofs` is instantiated; each step of the runtime is one of `GuestCalls` or a stutter |
| `NoUploadWaits` | `UploadsNeverWait` | `ReadsAreFenced`: while fences are used, a buffer that a queued command still reads is marked as fenced and its fence stands behind that command. A buffer is selected only when it is not marked or its fence is past; once a fence has failed nothing is known of the fences, and the buffer gets new storage before it is mapped. That the search over the ring returns a ready buffer, if there is one, is `SelectedIsReady` |
| `DataContinues` | `DataGoesOn` | `WindowInv`: a window belongs to one open descriptor (`Owned`, `Alone`), and its bytes end where the kernel's position stands (`GoesOn`). `ZlibInv`: a stream has one slot (`OneSlotEach`), and from its begin on the pointers of the guest stand where the library has read and written to (`PlacesAgree`). What was offered before the begin is not assumed away: it is passed over, and the data begins behind it |
| `SkippedCallsChangeNothing` | `ShadowsAreTrue` | with the types of both sides, the property is inductive itself: every deletion, capability that presenting sets and gives back, and image record is followed on both sides |
| `OfflineModeIsKept` | `OfflineModeHolds` | `EventsInv`: returned memory is in no list, and the list has at most two consecutive weeks, wherever an attempt stops. `UiInv`: records name different objects (`Distinct`), a control that was looked up is recorded and shows what it must unless the list has no room for it (`Settled`), and the pending return is that of the innermost lookup which arms it, or the lookups under way need none (`PendingIsInnermost`). The length of the list and the number of controls are arbitrary: a full list stays full, so a control it did not take is never taken later (`Taken`) |

The assumptions about the constants stand in `Runtime`, by component: names that mark an absence
are not names of files, packs, sites, controls or streams; counts are natural numbers, and there is a
pixel buffer; there is a first texture unit; the addresses of functions, call sites and the magic
return differ (`AddressesAssumption`); 0 is no texture (`UnitsAssumption`). `RatesAssumption`, which no
theorem uses, says of a display that the rate selected for it is a whole part of its own:
`TARGET_FPS_BYTE` holds whole rates, so a display of 59.94 Hz would get the updates of one of 60.

Only model-checked:

* all liveness (`WorkersTakeTurns`, `OpenedOutputsConsume`, `FramesGoOn`, `NoTouchIsStuck`,
  `SurfaceFollowsWindow`, `GeometryFollowsMovie`, `CancelEndsTheBuild` and those of the audio
  session): fairness is outside the reach of the proof system;
* `HeapIsSound`: blocks and chains are found by walking memory, which needs induction over data;
* `PagesFit` and `StringsOutliveARound`: the grid, the passes over a page and the ring of answers are
  sums and selections over sequences (`FoldSeq`, `SelectSeq`), again induction over data;
* `TimeIsKept`: its rounding divides by a period that is a variable, which the provers do not handle.

## 6. Findings and observations

Seven runs end in a violation; each states what the documentation or a comment says.

* `AudioDrain`, `shim_audio.c:660`. When the output fails in the middle of a buffer, the pump
  drains the ring by moving `read`, `q_read` and `played`, but `q_left` keeps the rest of the
  buffer that was half played. When the output comes back, `ring_pull` first consumes these stale
  bytes out of later buffers, so positions run ahead and a buffer counts as consumed before its
  samples were.
* `AudioUnfound`, `shim_audio.c:258`. When the output unit cannot be found or instantiated,
  `audio_open` returns before it plans a retry and without marking the player silent, so the pump
  neither opens it again nor drains it ("silent: Drain locally when audio output is unavailable",
  `shim_audio.c:65`): its buffers wait until the game calls the player again. `Platform` shows
  that this is the only way.
* `SessionLost`, `audio_session_ios.m:120`. After a successful `setActive` the poll stores
  `NEEDS_ACTIVATION = 0` whatever has happened in between; an interruption that ended and asked
  for resumption between the two is forgotten.
* `SurfaceStale`, `window_ios.m:523`. `schedule_surface_resize` leaves early when the wanted size
  is already requested, with the debounce block of another size still in force; that block then
  replaces the request. It needs three sizes, so resizing between two is not affected.
* `Readback`, `shim_gl.c:1394`. Reading back from the multisampled target binds the resolve buffer
  for drawing too and invalidates the samples; afterwards only the read binding is restored. What
  was drawn before is discarded and what is drawn after goes to the resolve buffer. Whether the
  game reads back in the middle of a frame is not decided by the repository; `Runtime` checks
  frames without it.
* `PagesMoved`, `safe_area.c:412`. From what was written before, `apply_offset` guesses whether the
  game has set a place or moved the object by a distance. A movement in one frame by half of the
  adjustment or more is taken for the wrong one, and the wrong base is remembered. How far the game
  moves its objects in a frame is not in the repository; `Runtime` checks every movement below that.
* `ClockRates`, `guest_runtime.c:83`. The clock lock takes a delta that is within a twentieth of the
  display's period and otherwise the period. At 72 Hz it takes 14 ms and refuses 13, at 144 Hz 7 and
  6, so the timeline runs ahead of the display; `Runtime` has both rates for the world, and all the
  others for the timeline too.

Observations that no run states as a claim of the repository, or that are narrower:

* `audio_session_ios.m:107`: `NEEDS_ACTIVATION` is read once and `setActive:YES` is called
  several statements later, so a deactivation handled in between does not cancel that attempt.
* `window_ios.m:159`: a full touch queue drops its oldest event whatever it is, so the guest may
  see two presses in a row. `TouchesArePaired` holds as long as nothing was dropped, and
  `NoTouchIsStuck` also after a drop.
* `window_ios.m:639`: the lock is decided from `MOVIE_LANDSCAPE` and stored later; when a movie
  stops before the engine has made a frame, a stale lock may be stored last. `GeometryFollowsMovie`
  therefore assumes `tame`.
* `guest_threads.c:625`: the deadlock report looks at deadlines only. A guest whose threads all
  wait for the callback of a buffer that is still playing is reported as deadlocked.
* `shim_libc.c`, files: removing a file of the overlay that hides a bundled one makes the bundled
  one visible again. Read windows: the seventeenth file open for reading takes a window away, and
  its former owner reads on from the kernel's position, the start of the file (`crowded`).
* `shim_zlib.c`: a stream that the game drops without ending it keeps its slot. Input and room that
  it sets before it begins a stream are passed over (`shim_zlib.c:115,133,152`), which zlib itself
  would not do; `StreamsKeepTheirPlace` speaks of the data from there on.
* `language_ui.c:192`: the columns of a page are the positions that recur. When fewer than two do,
  every position counts, and two hidden buttons at one place recur too; then the added row is
  neither centred nor clear of the others, although "every incomplete row is centered automatically"
  (`docs/LOCALIZATION.md:85`). `EveryGridGoesOn` states the rule, and `PagesFit` checks it of all
  other grids (`ColumnsRecur`); whether the game has pages of one full row is not in the repository.
* `offline_mode.c:198`: a full list of controls neither records nor hides, and records are never
  given back: after 512 addresses a retired control that is looked up stays visible.
  `OfflineModeHolds` speaks of the controls that the list has taken, and its theorem of any list.
* `jni_bridge.c`: a `NewStringUTF` whose source lies in the ring may be given the place it reads.
* `localization.c`: a language that is requested before the engine has its localization singleton
  ends the run.
* `language_ui.c`: a page that is entered while another of its kind exists, or in the frame in
  which its predecessor was destroyed, may have no buttons until it is refreshed again
  (`crossed`); a language chosen in the macOS menu or on the other page leaves the highlight of
  the flags stale (`elsewhere`).
* `safe_area.c`: an object that moves to another page, or whose memory is used for another one,
  keeps what was remembered of it.
* `guest_runtime.c`: the guest's monotonic clock may go back between frames when a render overruns
  its period.
* `shim_gl.c`: a screenshot taken after a direct presentation reads discarded samples;
  `glGenerateMipmap` is not recorded in the image table; a program that the driver refuses is
  remembered as the current one. Where `GL_ARB_sync` is not among the extension strings, fences
  stay unused and every upload renews its storage.
* `ipa_builder.c`: a cancel between the worker's last look and the end of the build is shown as
  cancelled although the workspace stays.
* `offline_events.c`: when the current week cannot be added after the closed week was, the next
  attempt only synchronizes. `offline_mode.c`: an ordinary control at an address that was used
  before keeps the policy recorded there, also after its lookup, since only other policies are
  recorded. A retired control whose lookup called a lookup of another name that arms the pending
  return, or that returns to the same address, stays as the game shows it (`overtaken`), and the
  object of the inner one may take its policy.
* `guest_runtime.c`: `pthread_once` inside a nested call returns to an address that a nested run
  does not know, which is a fault; a `longjmp` out of a nested call leaves the host levels nested.

## 7. What is not modelled

* The AOT compiler and instruction semantics: data, not control, and out of TLC's reach.
* GL, string, number, locale and wide-character shims that forward calls or transform data; the
  one-call zlib functions; the answers of the Java side; `memalign`, streams after they are opened,
  directories.
* The ELF loader and the game profile: run once over fixed input and keep no state.
* The macOS window: the events of one thread, which also runs the engine.
* Gameplay sessions and pacing statistics, the award of prizes, the drawing of flags, HUD and
  screenshots, vertex staging, shaders, input scripts, the command line.
* Limits and walks of `safe_area.c` that only guard against broken pages.
* The installer and its backend, the IPA tools, validators, deployment: Swift, Python and shell
  around a lock and archives. The launcher unpacks and runs one program.
* Memory ordering weaker than program order, allocation failure of host objects.

`PROJECT.json` names every component with its status and the reason.

## 8. Plan

Done, in this order: the scheduler with synchronization and its proofs; thread life; the audio
player and the session; the frame gate, touches and the surface; the gate's proofs; the shims with
their memory, files and streams; GL; clocks and nested calls; language, pages and offline mode;
the start of the engine and the builder; then the proofs of thread life, of the player, the window
and nested calls, and the refinements to `Monitor`, `ThreadLife`, `PcmQueue` and the frame gate; last
the composition `Runtime` and the proofs about its components.

Left, most important first:

1. *Audio and scheduler composed*: the pump inside the iteration, so that a callback of a playing
   buffer is what wakes a waiting guest; property: no deadlock is reported while the device still
   owes a callback.
2. *Abstract specifications*: a heap as a set of disjoint blocks, a file store with an overlay.
3. *Proofs*: `WorldKeepsTime`, the half of `TimeIsKept` that may hold of every rate that divides a
   second into whole units.
4. *Installer backend*: the workspace lock and the replacement of the installed assets.
