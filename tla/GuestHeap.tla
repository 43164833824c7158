------------------------------ MODULE GuestHeap ------------------------------
(* The heap of the guest (shim_libc.c): blocks with boundary tags, kept in the *)
(* memory of the guest itself.  A block has its size and the PREV_FREE bit in  *)
(* its first word, 1 in the second while it is in use; a free block has the    *)
(* links of its bin in the second and third word and its size in the last one. *)
(* Every word of a block but the first two belongs to the program while the    *)
(* block is in use, so a tag written at the wrong time destroys its data.      *)
EXTENDS Integers, Sequences, FiniteSets, FiniteSetsExt
CONSTANTS HEAP_SIZE,  \* bytes, a multiple of 8
          HEAP_BINS,  \* free lists, the last for every larger size
          Requests,   \* sizes the program asks for
          Stamp(_)    \* what it writes into every word of a block of a size
VARIABLES heap,       \* [mem, brk, bins]: the words, heap_brk, free_bins
          live,       \* what the program holds: pointer -> [size, stamp]
          refused     \* the size the last call could not provide, or 0
vars == <<heap, live, refused>>
-----------------------------------------------------------------------------
heap_base == 64
heap_end == heap_base + HEAP_SIZE
HDR == 8
MIN_BLOCK == 16
PREV_FREE == 1
NoBlock == 0

\* The class of a size: one unit of eight bytes, then powers of two.
heap_bin(size) ==
    LET units == (size + 7) \div 8
    IN  Min({n \in 0..HEAP_BINS - 2 : 2^n >= units} \cup {HEAP_BINS - 1})

Words == {4 * n : n \in heap_base \div 4..heap_end \div 4 - 1}
blk_size(h, b) == 8 * (h.mem[b] \div 8)
blk_used(h, b) == h.mem[b + 4] = 1
blk_flags(h, b) == h.mem[b] % 8
Store(h, a, w) == [h EXCEPT !.mem[a] = w]

blk_mark_next(h, b, size, free) ==
    IF b + size >= h.brk THEN h
    ELSE Store(h, b + size, blk_size(h, b + size) + (IF free THEN PREV_FREE ELSE 0))

\* A mutation: the successor is not told who its predecessor now is.
free_unlink_Single(h, b) ==
    LET prev == h.mem[b + 4]
    IN  IF prev # NoBlock THEN Store(h, prev + 8, h.mem[b + 8])
        ELSE [h EXCEPT !.bins[heap_bin(blk_size(h, b))] = h.mem[b + 8]]

free_unlink(h, b) ==
    LET prev == h.mem[b + 4]
        next == h.mem[b + 8]
        g == IF prev # NoBlock THEN Store(h, prev + 8, next)
             ELSE [h EXCEPT !.bins[heap_bin(blk_size(h, b))] = next]
    IN  IF next # NoBlock THEN Store(g, next + 4, prev) ELSE g

free_push(h, b, size, flags) ==
    LET bin == heap_bin(size)
        head == h.bins[bin]
        g == [h EXCEPT !.mem = [@ EXCEPT ![b] = size + flags, ![b + 4] = NoBlock,
                                         ![b + 8] = head, ![b + size - 4] = size],
                       !.bins[bin] = b]
    IN  blk_mark_next(IF head # NoBlock THEN Store(g, head + 4, b) ELSE g, b, size, TRUE)

\* The block taken from its bin: the rest of it is a block of its own if it
\* can hold one.
take_block(h, b, size, need) ==
    LET flags == blk_flags(h, b)
        taken == IF size - need >= MIN_BLOCK THEN need ELSE size
        g == IF taken < size THEN free_push(h, b + need, size - need, 0) ELSE h
    IN  blk_mark_next(Store(Store(g, b, taken + flags), b + 4, 1), b, taken, FALSE)

\* The n-th free block of a bin.
Chain(h, bin) ==
    LET nth[n \in 0..HEAP_SIZE \div MIN_BLOCK] ==
            IF n = 0 THEN h.bins[bin]
            ELSE IF nth[n - 1] = NoBlock THEN NoBlock ELSE h.mem[nth[n - 1] + 8]
    IN  nth

Need(size) ==
    LET n == 8 * ((Max({size, 1}) + HDR + 7) \div 8) IN Max({n, MIN_BLOCK})

\* heap_alloc: [heap, ptr], ptr = 0 when there is no room.
heap_alloc(h, size) ==
    LET need == Need(size)
        Fits(blocks) == {n \in DOMAIN blocks : blocks[n] # NoBlock /\ blk_size(h, blocks[n]) >= need}
        bins == {b \in heap_bin(need)..HEAP_BINS - 1 : h.bins[b] # NoBlock /\ Fits(Chain(h, b)) # {}}
    IN  IF bins # {}
        THEN LET blocks == Chain(h, Min(bins))
                 b == blocks[Min(Fits(blocks))]
             IN  [heap |-> take_block(free_unlink(h, b), b, blk_size(h, b), need), ptr |-> b + HDR]
        ELSE IF need > heap_end - h.brk THEN [heap |-> h, ptr |-> 0]
        ELSE [heap |-> [h EXCEPT !.brk = @ + need, !.mem = [@ EXCEPT ![h.brk] = need, ![h.brk + 4] = 1]],
              ptr |-> h.brk + HDR]

-----------------------------------------------------------------------------
\* The words of size bytes at ptr, and the program writing into all of them.
Owned(ptr, size) == {ptr + 4 * n : n \in 0..(size + 3) \div 4 - 1}
Fill(h, ptr, size, stamp) ==
    [h EXCEPT !.mem = [a \in DOMAIN @ |-> IF a \in Owned(ptr, size) THEN stamp ELSE @[a]]]
Without(ptr) == [p \in DOMAIN live \ {ptr} |-> live[p]]
Hold(held, ptr, size, stamp) ==
    [p \in DOMAIN held \cup {ptr} |-> IF p = ptr THEN [size |-> size, stamp |-> stamp] ELSE held[p]]

\* heap_free of a block in use: joined with its free neighbours, and given
\* back to the top of the heap when it is the last.
heap_free(h, ptr) ==
    LET b == ptr - HDR
        size == blk_size(h, b)
        next == b + size
        after == next < h.brk /\ ~blk_used(h, next)
        h1 == IF after THEN free_unlink(h, next) ELSE h
        size1 == size + (IF after THEN blk_size(h1, next) ELSE 0)
        footer == h1.mem[b - 4]
        before == /\ blk_flags(h, b) = PREV_FREE
                  /\ footer >= MIN_BLOCK /\ footer % 8 = 0 /\ b - footer >= heap_base
        prev == b - footer
        b2 == IF before THEN prev ELSE b
        size2 == IF before THEN size1 + footer ELSE size1
        h2 == IF before THEN free_unlink(h1, prev) ELSE h1
    IN  IF b2 + size2 = h2.brk THEN [h2 EXCEPT !.brk = b2]
        ELSE free_push(h2, b2, size2, blk_flags(h2, b2))

Init ==
    /\ heap = [mem |-> [a \in Words |-> 0], brk |-> heap_base, bins |-> [b \in 0..HEAP_BINS - 1 |-> NoBlock]]
    /\ live = [p \in {} |-> 0]
    /\ refused = 0

\* s_malloc and s_calloc, and the program using what it got.
Malloc(size) ==
    \E r \in {heap_alloc(heap, size)} :
        IF r.ptr = 0 THEN refused' = size /\ UNCHANGED <<heap, live>>
        ELSE /\ heap' = Fill(r.heap, r.ptr, size, Stamp(size))
             /\ live' = Hold(live, r.ptr, size, Stamp(size))
             /\ refused' = 0

\* s_free; the program clears its data first, which bounds what dead words hold.
Free(ptr) ==
    /\ \E h \in {Fill(heap, ptr, live[ptr].size, 0)} : heap' = heap_free(h, ptr)
    /\ live' = Without(ptr)
    /\ refused' = 0

\* s_realloc: the block stays when it is large enough; otherwise its data is
\* copied to a new one, which the program then fills to its new size.
Realloc(ptr, size) ==
    LET have == blk_size(heap, ptr - HDR) - HDR
        r == heap_alloc(heap, size)
        copied == [r.heap EXCEPT !.mem = [a \in DOMAIN @ |->
                      IF a \in Owned(r.ptr, have) THEN heap.mem[a - r.ptr + ptr] ELSE @[a]]]
        stamp == live[ptr].stamp
        Grown(h, p) == [h EXCEPT !.mem = [a \in DOMAIN @ |->
                      IF a \in Owned(p, size) \ Owned(p, live[ptr].size) THEN stamp ELSE @[a]]]
    IN  IF have >= size
        THEN /\ heap' = Grown(heap, ptr)
             /\ live' = Hold(live, ptr, size, stamp)
             /\ refused' = 0
        ELSE IF r.ptr = 0 THEN refused' = size /\ UNCHANGED <<heap, live>>
        ELSE /\ heap' = Grown(heap_free(copied, ptr), r.ptr)
             /\ live' = Hold(Without(ptr), r.ptr, size, stamp)
             /\ refused' = 0

Next ==
    \/ \E size \in Requests : Malloc(size)
    \/ \E ptr \in DOMAIN live : Free(ptr)
    \/ \E ptr \in DOMAIN live, size \in Requests : Realloc(ptr, size)

Spec == Init /\ [][Next]_vars
-----------------------------------------------------------------------------
(* What the program wrote into a block it holds is there until it frees it:    *)
(* no tag, link or copy of another block is ever written into it, and realloc  *)
(* takes the data along.  (heap_alloc, heap_free and s_realloc.)               *)
ClientsKeepTheirData ==
    \A p \in DOMAIN live : \A a \in Owned(p, live[p].size) : heap.mem[a] = live[p].stamp

(* A size is refused only when no gap between the blocks that are held could   *)
(* take it: free neighbours are always joined, and the bins searched are those *)
(* that can hold the size.  (The bins of heap_alloc, the joins of heap_free.)  *)
RefusedOnlyWhenFull ==
    refused # 0 =>
        LET Taken(a) == \E p \in DOMAIN live :
                            /\ p - HDR <= a
                            /\ a < p - HDR + blk_size(heap, p - HDR)
            Gap(a) == \A i \in 0..Need(refused) \div 8 - 1 : a + 8 * i < heap_end /\ ~Taken(a + 8 * i)
        IN  ~\E a \in {w \in Words : w % 8 = 0} : Gap(a)

(* The heap is sound: data is never overwritten, space is never lost.          *)
HeapIsSound == ClientsKeepTheirData /\ RefusedOnlyWhenFull
=============================================================================
