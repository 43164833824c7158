------------------------------ MODULE GlUploads ------------------------------
(* Texture uploads of shim_gl.c through a ring of pixel buffers.  The pixels   *)
(* are copied into a buffer and the command that reads it is queued: the GPU,  *)
(* which is external, executes the queue later.  Mapping the storage that a    *)
(* queued command reads makes the engine thread wait for the GPU.  To avoid    *)
(* that, a fence behind the command tells when the buffer is free; without     *)
(* fences the buffer is given new storage each time, and the driver keeps the  *)
(* old one for the commands that read it.                                      *)
EXTENDS Naturals, Sequences
CONSTANTS UPLOAD_PBO_COUNT,
          Sizes,       \* sizes of uploads that reach PBO_THRESHOLD, in megabytes
          MaxQueue     \* bound on the commands that wait
VARIABLES USE_PBO_SYNC,
          slots,       \* the capacity of each of UPLOAD_PBOS, and if it is fenced
          UPLOAD_PBO_NEXT,
          gpu          \* the queue: fences, and reads of the pixels of an upload
uploads == <<USE_PBO_SYNC, slots, UPLOAD_PBO_NEXT, gpu>>
-----------------------------------------------------------------------------
Slots == 0..UPLOAD_PBO_COUNT - 1

\* A read finds its pixels in the buffer, or in the storage the buffer had; or
\* the engine waited for it, when that storage was mapped.
Read(b) == [slot |-> b, finds |-> "buffer"]
Fence(b) == [slot |-> b, finds |-> "fence"]
Now(queue, b, where) ==
    [n \in DOMAIN queue |-> IF queue[n] = Read(b) THEN [slot |-> b, finds |-> where] ELSE queue[n]]

\* init_transfer_features: the buffers have no storage yet.
Init ==
    /\ USE_PBO_SYNC \in BOOLEAN
    /\ slots = [b \in Slots |-> [capacity |-> 0, fenced |-> FALSE]]
    /\ UPLOAD_PBO_NEXT = 0
    /\ gpu = <<>>

Signalled(b) == \A n \in DOMAIN gpu : gpu[n] # Fence(b)

\* A mutation: a fence is not waited for.
pbo_slot_ready_Unfenced(b) == b \in Slots
pbo_slot_ready(b) == ~USE_PBO_SYNC \/ ~slots[b].fenced \/ Signalled(b)

Selected ==
    LET nth(n) == (UPLOAD_PBO_NEXT + n) % UPLOAD_PBO_COUNT
    IN  nth(CHOOSE n \in Slots : pbo_slot_ready(nth(n)) /\ \A m \in 0..n - 1 : ~pbo_slot_ready(nth(m)))

\* upload_source into a pixel buffer, the upload, and upload_end.  Mapping may
\* fail, and the pixels go to the driver directly; a fence may fail, and none
\* is asked for again.
Upload(size, mapped, fence) ==
    LET b == Selected
        renewed == ~USE_PBO_SYNC \/ slots[b].capacity < size
        waiting == IF renewed THEN Now(gpu, b, "old storage") ELSE gpu
        fenced == USE_PBO_SYNC /\ fence
    IN  /\ \E s \in Slots : pbo_slot_ready(s)
        /\ Len(gpu) + 2 <= MaxQueue
        /\ UPLOAD_PBO_NEXT' = (b + 1) % UPLOAD_PBO_COUNT
        /\ slots' = [slots EXCEPT ![b] = [capacity |-> IF renewed THEN size ELSE @.capacity,
                                          fenced |-> mapped /\ fenced]]
        /\ gpu' = Now(waiting, b, "waited for")
                    \o (IF mapped THEN <<Read(b)>> ELSE <<>>) \o (IF mapped /\ fenced THEN <<Fence(b)>> ELSE <<>>)
        /\ USE_PBO_SYNC' = (USE_PBO_SYNC /\ (mapped => fence))

\* The GPU executes a command.
Execute ==
    /\ gpu # <<>>
    /\ gpu' = Tail(gpu)
    /\ UNCHANGED <<USE_PBO_SYNC, slots, UPLOAD_PBO_NEXT>>

Next ==
    \/ \E size \in Sizes, mapped, fence \in BOOLEAN : Upload(size, mapped, fence)
    \/ Execute
Spec == Init /\ [][Next]_uploads
-----------------------------------------------------------------------------
(* An upload never makes the engine wait for the GPU: no storage is mapped     *)
(* that a queued command has yet to read, however far the GPU is behind, and   *)
(* also when fences fail half way (pbo_slot_ready, upload_source).             *)
UploadsNeverWait == \A n \in DOMAIN gpu : gpu[n].finds # "waited for"
=============================================================================
