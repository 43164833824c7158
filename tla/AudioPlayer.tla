------------------------------ MODULE AudioPlayer ------------------------------
(***************************************************************************)
(* One player of src/native/shim_audio.c: the PCM ring between the guest   *)
(* and the CoreAudio render callback, the output unit with its failures    *)
(* and retries, and the completion callbacks the pump posts.               *)
(*                                                                         *)
(* Two host threads interleave: the one that runs guest code, the shims    *)
(* and mr_audio_pump, and the real-time thread inside render.  Each atomic *)
(* store one of them makes for the other is a step of its own.             *)
(*                                                                         *)
(* A byte is represented by its position in the stream, so a byte that is  *)
(* overwritten before it was played, or played twice, shows.               *)
(***************************************************************************)
EXTENDS Integers, Sequences

CONSTANTS
    RingBytes,      \* RING_BYTES
    QueueSlots,     \* QUEUE_SLOTS
    Sizes,          \* sizes of the buffers the guest enqueues
    Wants,          \* sizes of the slices CoreAudio asks for
    MaxBuffers,     \* bound on the buffers enqueued between two clears
    Callbacks,      \* the callback functions the guest registers
    NoCallback,     \* p->cb == 0
    Outcomes,       \* what CoreAudio may answer: a subset of OpenOutcomes
    MediaResets     \* whether the media server may be reset

OpenOutcomes == {"ok", "no_instance", "init_fails", "start_fails"}

ASSUME RingAssumption == RingBytes \in Nat \ {0} /\ QueueSlots \in Nat \ {0}
ASSUME SlicesAssumption == Sizes \subseteq Nat \ {0} /\ Wants \subseteq Nat \ {0}
ASSUME OutcomesAssumption == Outcomes \subseteq OpenOutcomes /\ MediaResets \in BOOLEAN

VARIABLES
    pcm, write, read,           \* the ring: bytes, and atomic stream positions
    qsize, qWrite, qRead,       \* the queue of buffer sizes
    played,                     \* buffers consumed, for the pump
    qLeft,                      \* bytes left of the buffer being consumed
    fired,                      \* callbacks posted
    cb,                         \* the registered callback
    worker,                     \* the callback thread of the player
    state,                      \* SL_PLAYSTATE
    device,                     \* the output unit: opened, running, silent
    push,                       \* ring_push in progress on the guest's thread
    pull,                       \* ring_pull in progress on the audio thread
    ends                        \* history: where each buffer ends in the stream

ringVars == <<pcm, write, read, qsize, qWrite, qRead, played, qLeft>>
callbackVars == <<fired, cb, worker>>
vars == <<ringVars, callbackVars, state, device, push, pull, ends>>

NoPush == [at |-> "idle", size |-> 0]
NoPull == [at |-> "idle", want |-> 0, got |-> 0, rd |-> 0, qr |-> 0, qw |-> 0, done |-> 0]
NoDevice == [unit |-> FALSE, running |-> FALSE, silent |-> FALSE]

Init ==
    /\ pcm = [i \in 0 .. RingBytes - 1 |-> -1]
    /\ write = 0 /\ read = 0
    /\ qsize = [i \in 0 .. QueueSlots - 1 |-> 0]
    /\ qWrite = 0 /\ qRead = 0 /\ played = 0 /\ qLeft = 0
    /\ fired = 0
    /\ cb = NoCallback
    /\ worker = [at |-> "none", entry |-> NoCallback]
    /\ state = "STOPPED"
    /\ device = NoDevice
    /\ push = NoPush
    /\ pull = NoPull
    /\ ends = <<>>

(* The host thread is between two shims or pumps. *)
HostIdle == push.at = "idle"

(* AudioOutputUnitStop returns when no render callback is in progress. *)
CanStop == pull.at = "idle"

-----------------------------------------------------------------------------
(* ring_push, on the guest's thread: copy, publish the bytes, publish the   *)
(* buffer.  The unsigned difference qw - qr is huge when q_read is ahead.   *)
HasRoom_OffByOne(n) ==
    n =< RingBytes - (write - read) + 1 /\ qWrite - qRead \in 0 .. QueueSlots - 1
HasRoom(n) ==
    n =< RingBytes - (write - read) /\ qWrite - qRead \in 0 .. QueueSlots - 1

Enqueue(n) ==
    /\ HostIdle
    /\ Len(ends) < MaxBuffers
    /\ HasRoom(n)
    /\ pcm' = [i \in DOMAIN pcm |->
                 LET offset == (i - write) % RingBytes
                 IN  IF offset < n THEN write + offset ELSE pcm[i]]
    /\ push' = [at |-> "copied", size |-> n]
    /\ UNCHANGED <<write, read, qsize, qWrite, qRead, played, qLeft,
                   callbackVars, state, device, pull, ends>>

PublishBytes ==
    /\ push.at = "copied"
    /\ write' = write + push.size
    /\ push' = [push EXCEPT !.at = "written"]
    /\ UNCHANGED <<pcm, read, qsize, qWrite, qRead, played, qLeft,
                   callbackVars, state, device, pull, ends>>

PublishBuffer ==
    /\ push.at = "written"
    /\ qsize' = [qsize EXCEPT ![qWrite % QueueSlots] = push.size]
    /\ qWrite' = qWrite + 1
    /\ ends' = Append(ends, write)
    /\ push' = [push EXCEPT !.at = "queued"]
    /\ UNCHANGED <<pcm, write, read, qRead, played, qLeft,
                   callbackVars, state, device, pull>>

-----------------------------------------------------------------------------
(* ring_pull, on the audio thread: what is available when it starts, chunk  *)
(* by chunk, and then the three positions are published.                    *)
RenderBegins(want) ==
    /\ device.running
    /\ pull.at = "idle"
    /\ pull' = [at |-> "loop", want |-> want, got |-> 0, rd |-> read,
                qr |-> qRead, qw |-> qWrite, done |-> played]
    /\ UNCHANGED <<ringVars, callbackVars, state, device, push, ends>>

SmallerOf(m, n) == IF m < n THEN m ELSE n

(* The loop of ring_pull goes on: bytes of a started buffer, or a new one. *)
HasMore == pull.got < pull.want /\ (qLeft > 0 \/ pull.qr # pull.qw)

CountsAsDone(left, n) == left = n

RenderCopies ==
    LET left == IF qLeft > 0 THEN qLeft ELSE qsize[pull.qr % QueueSlots]
        n == SmallerOf(pull.want - pull.got, left)
        done == IF CountsAsDone(left, n) THEN 1 ELSE 0
    IN  /\ pull.at = "loop"
        /\ HasMore
        /\ pull' = [pull EXCEPT !.rd = @ + n, !.got = @ + n,
                                !.qr = @ + done, !.done = @ + done]
        /\ qLeft' = left - n
        /\ UNCHANGED <<pcm, write, read, qsize, qWrite, qRead, played,
                       callbackVars, state, device, push, ends>>

PublishRead ==
    /\ pull.at = "loop"
    /\ ~HasMore
    /\ read' = pull.rd
    /\ pull' = [pull EXCEPT !.at = "read"]
    /\ UNCHANGED <<pcm, write, qsize, qWrite, qRead, played, qLeft,
                   callbackVars, state, device, push, ends>>

PublishQueue ==
    /\ pull.at = "read"
    /\ qRead' = pull.qr
    /\ pull' = [pull EXCEPT !.at = "queue"]
    /\ UNCHANGED <<pcm, write, read, qsize, qWrite, played, qLeft,
                   callbackVars, state, device, push, ends>>

PublishPlayed ==
    /\ pull.at = "queue"
    /\ played' = pull.done
    /\ pull' = NoPull
    /\ UNCHANGED <<pcm, write, read, qsize, qWrite, qRead, qLeft,
                   callbackVars, state, device, push, ends>>

-----------------------------------------------------------------------------
(* The output unit: the devices audio_sync may leave behind. *)
Silenced(d) == [unit |-> FALSE, running |-> FALSE, silent |-> TRUE]

Started(d, outcome) ==
    CASE outcome = "no_instance" /\ ~d.unit -> [d EXCEPT !.silent = FALSE]
      [] outcome = "init_fails" /\ ~d.unit -> Silenced(d)
      [] outcome = "start_fails" -> Silenced(d)
      [] OTHER -> [unit |-> TRUE, running |-> TRUE, silent |-> FALSE]

Synced(d, playState) ==
    IF playState # "PLAYING" THEN {[d EXCEPT !.running = FALSE]}
    ELSE IF d.running THEN {d}
    ELSE {Started(d, outcome) : outcome \in Outcomes}
         \cup (IF d.silent THEN {d} ELSE {})    \* not yet time to retry

Closed(d) == [d EXCEPT !.unit = FALSE, !.running = FALSE]

(* The end of t_bq_enqueue. *)
EnqueueReturns ==
    /\ push.at = "queued"
    /\ push' = NoPush
    /\ device' \in Synced(device, state)
    /\ UNCHANGED <<ringVars, callbackVars, state, pull, ends>>

SetPlayState(s) ==
    /\ HostIdle
    /\ s # "PLAYING" => CanStop
    /\ state' = s
    /\ device' \in Synced(device, s)
    /\ UNCHANGED <<ringVars, callbackVars, push, pull, ends>>

-----------------------------------------------------------------------------
(* Callbacks.  A worker that has been posted but has not started can still  *)
(* be cancelled; one that has started finishes its callback.                *)
Cancelled(w) == IF w.at = "posted" THEN [w EXCEPT !.at = "parked"] ELSE w

RegisterCallback(f) ==
    /\ HostIdle
    /\ cb' = f
    /\ IF worker.at # "none" /\ f # cb
       THEN worker' = Cancelled(worker) /\ fired' = played
       ELSE UNCHANGED <<worker, fired>>
    /\ UNCHANGED <<ringVars, state, device, push, pull, ends>>

(* mr_sched_post_callback; a first post may find the thread table full. *)
CanPost(w) == w.at \in {"none", "parked"}
Posted(w) == IF CanPost(w) THEN [at |-> "posted", entry |-> cb] ELSE w

(* The counters mr_audio_pump leaves when there is no output to play to. *)
Drain_KeepsQueue ==
    IF cb # NoCallback /\ device'.silent
    THEN /\ read' = write /\ played' = qWrite
         /\ UNCHANGED <<pcm, write, qsize, qWrite, qRead, qLeft>>
    ELSE UNCHANGED ringVars
Drain ==
    IF cb # NoCallback /\ device'.silent
    THEN /\ read' = write /\ qRead' = qWrite /\ played' = qWrite
         /\ UNCHANGED <<pcm, write, qsize, qWrite, qLeft>>
    ELSE UNCHANGED ringVars

Due_OneAhead == cb # NoCallback /\ state = "PLAYING" /\ fired =< played' /\ fired < MaxBuffers
Due == cb # NoCallback /\ state = "PLAYING" /\ fired < played'

Pump ==
    /\ HostIdle
    /\ \/ UNCHANGED device
       \/ /\ MediaResets
          /\ CanStop
          /\ device' \in Synced([Closed(device) EXCEPT !.silent = FALSE], state)
    /\ Drain
    /\ \/ /\ Due /\ CanPost(worker)
          /\ worker' = Posted(worker)
          /\ fired' = fired + 1
       \/ /\ ~Due \/ worker.at # "parked"
          /\ UNCHANGED <<worker, fired>>
    /\ UNCHANGED <<cb, state, push, pull, ends>>

CallbackStarts ==
    /\ HostIdle
    /\ worker.at = "posted"
    /\ worker' = [worker EXCEPT !.at = "running"]
    /\ UNCHANGED <<ringVars, fired, cb, state, device, push, pull, ends>>

CallbackReturns ==
    /\ HostIdle
    /\ worker.at = "running"
    /\ worker' = [worker EXCEPT !.at = "parked"]
    /\ UNCHANGED <<ringVars, fired, cb, state, device, push, pull, ends>>

-----------------------------------------------------------------------------
RingCleared_KeepsFired ==
    /\ write' = 0 /\ read' = 0 /\ qWrite' = 0 /\ qRead' = 0
    /\ played' = 0 /\ qLeft' = 0
    /\ ends' = <<>>
    /\ fired' = fired
RingCleared ==
    /\ write' = 0 /\ read' = 0 /\ qWrite' = 0 /\ qRead' = 0
    /\ played' = 0 /\ qLeft' = 0
    /\ ends' = <<>>
    /\ fired' = 0

(* t_bq_clear: the unit is stopped before the positions are reset. *)
Clear ==
    /\ HostIdle
    /\ device.unit => CanStop
    /\ worker' = Cancelled(worker)
    /\ RingCleared
    /\ device' \in IF device.running
                   THEN Synced([device EXCEPT !.running = FALSE], state)
                   ELSE {device}
    /\ UNCHANGED <<pcm, qsize, cb, state, push, pull>>

(* t_obj_destroy, and t_eng_createaudioplayer reusing the cleared player:   *)
(* its worker stays with it.                                                *)
Recreate_KeepsPosted ==
    /\ HostIdle
    /\ device.unit => CanStop
    /\ RingCleared
    /\ pcm' = [i \in DOMAIN pcm |-> -1]
    /\ qsize' = [i \in DOMAIN qsize |-> 0]
    /\ cb' = NoCallback
    /\ state' = "STOPPED"
    /\ device' = NoDevice
    /\ UNCHANGED <<worker, push, pull>>
Recreate ==
    /\ HostIdle
    /\ device.unit => CanStop
    /\ worker' = Cancelled(worker)
    /\ RingCleared
    /\ pcm' = [i \in DOMAIN pcm |-> -1]
    /\ qsize' = [i \in DOMAIN qsize |-> 0]
    /\ cb' = NoCallback
    /\ state' = "STOPPED"
    /\ device' = NoDevice
    /\ UNCHANGED <<push, pull>>

-----------------------------------------------------------------------------
AudioThread ==
    \/ \E want \in Wants : RenderBegins(want)
    \/ RenderCopies \/ PublishRead \/ PublishQueue \/ PublishPlayed

PushStep == PublishBytes \/ PublishBuffer \/ EnqueueReturns

GuestStep ==
    \/ \E n \in Sizes : Enqueue(n)
    \/ \E s \in {"STOPPED", "PLAYING"} : SetPlayState(s)
    \/ \E f \in Callbacks \cup {NoCallback} : RegisterCallback(f)
    \/ Clear
    \/ Recreate
    \/ CallbackStarts
    \/ CallbackReturns

Next == AudioThread \/ PushStep \/ Pump \/ GuestStep

Spec == Init /\ [][Next]_vars

-----------------------------------------------------------------------------
Positions == 0 .. MaxBuffers * RingBytes
Counts == 0 .. MaxBuffers

TypeOK ==
    /\ pcm \in [0 .. RingBytes - 1 -> Positions \cup {-1}]
    /\ write \in Positions /\ read \in Positions
    /\ qsize \in [0 .. QueueSlots - 1 -> Sizes \cup {0}]
    /\ qWrite \in Counts /\ qRead \in Counts /\ played \in Counts
    /\ qLeft \in 0 .. RingBytes
    /\ fired \in Counts
    /\ cb \in Callbacks \cup {NoCallback}
    /\ worker \in [at : {"none", "parked", "posted", "running"},
                   entry : Callbacks \cup {NoCallback}]
    /\ state \in {"STOPPED", "PLAYING"}
    /\ device \in [unit : BOOLEAN, running : BOOLEAN, silent : BOOLEAN]
    /\ push \in [at : {"idle", "copied", "written", "queued"}, size : Sizes \cup {0}]
    /\ pull.at \in {"idle", "loop", "read", "queue"}
    /\ ends \in Seq(Positions)

(* The audio thread plays the stream the guest queued.  Every byte render    *)
(* copies is the next byte of the stream: the producer neither overwrites a  *)
(* byte before it is played nor shows one before it is there.                *)
PlaysTheStream ==
    [][pull.at = "loop" /\ pull'.at = "loop"
         => \A p \in pull.rd .. pull'.rd - 1 : pcm[p % RingBytes] = p]_vars

(* "The cooperative scheduler executes callbacks for guest buffers after     *)
(* their samples are consumed": the callback of the k-th buffer is posted    *)
(* only once the stream has been read to the end of that buffer.             *)
CallbacksFollowPlayback ==
    \A k \in 1 .. fired : k =< Len(ends) /\ ends[k] =< read

(* A callback that has been posted and not started is one of the function    *)
(* registered now: replacing it or destroying the player takes it back.      *)
NoStaleCallback == worker.at = "posted" => worker.entry = cb /\ cb # NoCallback

(* The queue as the audio thread sees it, in the middle of a render too. *)
Backlog ==
    LET from == IF pull.at = "idle" THEN qRead ELSE pull.qr
        left(k) == IF k = 1 /\ qLeft > 0 THEN qLeft
                   ELSE qsize[(from + k - 1) % QueueSlots]
    IN  [k \in 1 .. qWrite - from |-> left(k)]

Abstract == INSTANCE PcmQueue WITH
    backlog <- Backlog,
    finished <- IF pull.at = "idle" THEN played ELSE pull.done,
    called <- fired

(* The ring implements the buffer queue of OpenSL, whatever the two threads  *)
(* interleave: in order, no buffer split or merged, one callback each.       *)
ImplementsPcmQueue == Abstract!Spec

(* Bytes and buffers alike: what is played is the queue, what is reported is *)
(* what was played.                                                          *)
PlaysTheQueue == ImplementsPcmQueue /\ PlaysTheStream

-----------------------------------------------------------------------------
(* Fairness: the pump runs in every iteration of the scheduler, a shim runs  *)
(* to its end, and CoreAudio goes on rendering while the unit runs.          *)
Fairness == WF_vars(Pump) /\ WF_vars(PushStep) /\ WF_vars(AudioThread)

FairSpec == Spec /\ Fairness

(* "silent: Drain locally when audio output is unavailable": a buffer queued  *)
(* on a playing player with a callback is consumed, or the guest stops the    *)
(* player or clears the queue.  audio_open keeps this promise only once it     *)
(* has an instance of the output unit (AudioUnfound).                         *)
Waits(k) == state = "PLAYING" /\ cb # NoCallback /\ qRead = k /\ qWrite > k

BuffersAreConsumed == \A k \in Counts : Waits(k) ~> ~Waits(k)

(* The one exception: CoreAudio names no output unit or makes no instance of  *)
(* it, which leaves a playing player with neither output nor retry.  From     *)
(* every other state a waiting buffer is consumed, however often the unit      *)
(* cannot be initialized or started and the media server is reset.            *)
Unserved == state = "PLAYING" /\ device = NoDevice

OpenedOutputsConsume == \A k \in Counts : Waits(k) ~> (~Waits(k) \/ Unserved)
=============================================================================
