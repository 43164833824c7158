------------------------------ MODULE ZStreams ------------------------------
(* The zlib bridge (shim_zlib.c): a stream structure in the memory of the      *)
(* guest has a host stream in one of MAX_STREAMS slots, found by its address.  *)
(* The pointers of the guest are addresses, those of the host point into its   *)
(* memory for one call: store_stream turns the counts the library leaves back  *)
(* into addresses.  zlib itself is external: a call takes and gives any number *)
(* of the bytes it is offered.                                                 *)
EXTENDS Integers, FiniteSets, FiniteSetsExt
CONSTANTS Streams,      \* addresses of stream structures
          MAX_STREAMS,
          Chunk,        \* bytes offered at a time
          Total, Room   \* bytes to be read, and room to be written, in all
VARIABLES SLOTS,   \* slot -> the host's stream, without its pointers
          stream,  \* the structure of each: the buffers offered and the totals
          fed      \* ghost: the bytes of the guest that the library has read
                   \* ([from, upto - 1]), and where it began to write
vars == <<SLOTS, stream, fed>>
-----------------------------------------------------------------------------
Slots == 1..MAX_STREAMS
NoGuest == 0
Nothing == [guest |-> NoGuest, avail_in |-> 0, avail_out |-> 0, total_in |-> 0, total_out |-> 0]
Fresh == [next_in |-> 0, avail_in |-> 0, next_out |-> 0, avail_out |-> 0, total_in |-> 0, total_out |-> 0]
Unread == [from |-> 0, upto |-> 0, into |-> 0]
OutOfOrder == Total + 1
slot_find(g) == {i \in Slots : SLOTS[i].guest = g}
slot_new == {i \in Slots : SLOTS[i].guest = NoGuest}

Init ==
    /\ SLOTS = [i \in Slots |-> Nothing]
    /\ stream = [g \in Streams |-> Fresh]
    /\ fed = [g \in Streams |-> Unread]

load_stream(s, z) ==
    [guest |-> s.guest, avail_in |-> z.avail_in, avail_out |-> z.avail_out,
     total_in |-> z.total_in, total_out |-> z.total_out]

\* The pointers of the guest advance by what the host has no longer available.
store_stream(z, s) ==
    [next_in |-> z.next_in + (z.avail_in - s.avail_in), avail_in |-> s.avail_in,
     next_out |-> z.next_out + (z.avail_out - s.avail_out), avail_out |-> s.avail_out,
     total_in |-> s.total_in, total_out |-> s.total_out]

\* s_deflateInit, s_inflateInit and s_inflateInit2: refused for a stream that
\* has a slot and when none is free; the library may refuse too.  Which of them it
\* was matters at shutdown only.  The host's stream is empty, and stored as
\* such: buffers the program had set before are passed over.
Begin(g) ==
    LET s == [Nothing EXCEPT !.guest = g]
        z == stream[g]
    IN  /\ slot_find(g) = {} /\ slot_new # {}
        /\ SLOTS' = [SLOTS EXCEPT ![Min(slot_new)] = s]
        /\ stream' = [stream EXCEPT ![g] = store_stream(z, s)]
        /\ fed' = [fed EXCEPT ![g] = [from |-> z.next_in + z.avail_in, upto |-> z.next_in + z.avail_in,
                                      into |-> z.next_out + z.avail_out]]

\* The program offers the bytes it has not seen taken, and room for more, before
\* or after it begins the stream.
Offer(g, n, room) ==
    /\ stream[g].next_in + n <= Total /\ stream[g].next_out + room <= Room
    /\ stream' = [stream EXCEPT ![g].avail_in = n, ![g].avail_out = room]
    /\ UNCHANGED <<SLOTS, fed>>

\* The program clears a structure for other data.
Clear(g) ==
    /\ slot_find(g) = {}
    /\ stream' = [stream EXCEPT ![g] = Fresh]
    /\ UNCHANGED <<SLOTS, fed>>

\* The library takes bytes from where the structure says, and gives some.
Called(s, took, gave) ==
    [guest |-> s.guest, avail_in |-> s.avail_in - took, avail_out |-> s.avail_out - gave,
     total_in |-> s.total_in + took, total_out |-> s.total_out + gave]
Fed(f, z, took) ==
    [from |-> f.from, upto |-> IF z.next_in = f.upto THEN f.upto + took ELSE OutOfOrder, into |-> f.into]

\* s_deflate and s_inflate.
Run(g, took, gave) ==
    LET i == Min(slot_find(g))
        z == stream[g]
        s == Called(load_stream(SLOTS[i], z), took, gave)
    IN  /\ slot_find(g) # {}
        /\ took <= z.avail_in /\ gave <= z.avail_out
        /\ SLOTS' = [SLOTS EXCEPT ![i] = s]
        /\ stream' = [stream EXCEPT ![g] = store_stream(z, s)]
        /\ fed' = [fed EXCEPT ![g] = Fed(@, z, took)]

\* s_deflateEnd and s_inflateEnd: the structure stays as it is; what is left in
\* the slot nobody reads, and slot_new clears it.
End(g) ==
    /\ slot_find(g) # {}
    /\ SLOTS' = [SLOTS EXCEPT ![Min(slot_find(g))] = Nothing]
    /\ fed' = [fed EXCEPT ![g] = Unread]
    /\ UNCHANGED stream

Next ==
    \E g \in Streams :
        \/ Begin(g) \/ Clear(g) \/ End(g)
        \/ \E n, room \in 0..Chunk : Offer(g, n, room)
        \/ \E took, gave \in 0..Chunk : Run(g, took, gave)

Spec == Init /\ [][Next]_vars
-----------------------------------------------------------------------------
(* From the call that begins a stream to the one that ends it, the library     *)
(* reads the program's data in order and without a gap, however many bytes it  *)
(* takes of an offer: what the program sees as read is what was read, its      *)
(* totals and those of the host agree, and what is written is without a gap    *)
(* too, while streams share the slots.  The data begins behind the buffer that *)
(* was set when the stream began: what was in that is not read (see Begin).    *)
StreamsKeepTheirPlace ==
    \A g \in Streams : \A i \in slot_find(g) :
        LET z == stream[g] IN
        /\ z.next_in = fed[g].upto
        /\ z.total_in = fed[g].upto - fed[g].from /\ SLOTS[i].total_in = z.total_in
        /\ z.next_out = fed[g].into + z.total_out /\ SLOTS[i].total_out = z.total_out
        /\ Cardinality(slot_find(g)) = 1
=============================================================================
