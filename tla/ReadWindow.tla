----------------------------- MODULE ReadWindow -----------------------------
(* The read windows of shim_libc.c: a descriptor opened for reading gets one   *)
(* of IO_SLOTS windows, which keeps its position and a piece of its file; the  *)
(* kernel's own position is never moved.  A window is taken from the least     *)
(* recently used descriptor when none is free.                                 *)
EXTENDS Integers, Sequences, SequencesExt, FiniteSets, FiniteSetsExt
CONSTANTS Fds, Files, FileSize,     \* descriptors, files, bytes in each
          IO_SLOTS, IO_WINDOW       \* windows, bytes in one
VARIABLES IO,       \* slot -> the window: fd, pos, start, len and whose bytes
          lru,      \* the slots, the least recently used first
          kernel,   \* fd -> [file, pos, reading], or Closed
          position, \* ghost: where POSIX has the descriptor, until it is crowded
          crowded   \* ghost: more descriptors were open for reading than IO_SLOTS
vars == <<IO, lru, kernel, position, crowded>>
-----------------------------------------------------------------------------
Slots == 1..IO_SLOTS
Closed == [file |-> "none"]
NoFd == 0
Unused == [fd |-> NoFd, pos |-> 0, start |-> 0, len |-> 0, of |-> "none"]
OpenFds == {f \in Fds : kernel[f] # Closed}
io_find(fd) == {s \in Slots : IO[s].fd = fd}
Touched(s) == Append(SelectSeq(lru, LAMBDA t : t # s), s)

\* io_track: the first free slot, or the one that was not used for longest.
io_track ==
    LET free == {s \in Slots : IO[s].fd = NoFd} IN IF free # {} THEN Min(free) ELSE lru[1]

Moved(fd, to) == position' = IF crowded' THEN [f \in Fds |-> 0] ELSE [position EXCEPT ![fd] = to]

Init ==
    /\ IO = [s \in Slots |-> Unused]
    /\ lru = [s \in Slots |-> s]
    /\ kernel = [f \in Fds |-> Closed]
    /\ position = [f \in Fds |-> 0]
    /\ crowded = FALSE

\* s_open: the kernel gives the lowest free descriptor.
Open(file, reading) ==
    LET fd == Min(Fds \ OpenFds)
    IN  /\ Fds \ OpenFds # {}
        /\ kernel' = [kernel EXCEPT ![fd] = [file |-> file, pos |-> 0, reading |-> reading]]
        /\ IF reading
           THEN /\ IO' = [IO EXCEPT ![io_track] = [Unused EXCEPT !.fd = fd]]
                /\ lru' = Touched(io_track)
           ELSE UNCHANGED <<IO, lru>>
        /\ crowded' = (crowded \/ Cardinality({f \in OpenFds : kernel[f].reading})
                                    + (IF reading THEN 1 ELSE 0) > IO_SLOTS)
        /\ Moved(fd, 0)

\* io_read of one byte: the window is filled from the position when it does
\* not have it; at the end of the file nothing is.
Miss(w) == w.pos < w.start \/ w.pos >= w.start + w.len
FromWindow(fd, s) ==
    LET w == IO[s]
        filled == IF ~Miss(w) THEN w
                  ELSE [w EXCEPT !.start = w.pos, !.of = kernel[fd].file,
                                 !.len = Min({IO_WINDOW, FileSize - w.pos})]
    IN  /\ IO' = [IO EXCEPT ![s] = IF Miss(w) /\ w.pos >= FileSize THEN w ELSE [filled EXCEPT !.pos = @ + 1]]
        /\ lru' = Touched(s)
        /\ UNCHANGED kernel

FromKernel(fd) ==
    /\ kernel' = [kernel EXCEPT ![fd].pos = Min({@ + 1, FileSize})]
    /\ UNCHANGED <<IO, lru>>

\* The byte a read of fd would return now: whose, and which.
NextByte(fd) ==
    IF io_find(fd) = {} THEN <<kernel[fd].file, kernel[fd].pos>>
    ELSE LET w == IO[Min(io_find(fd))] IN <<IF Miss(w) THEN kernel[fd].file ELSE w.of, w.pos>>

\* s_read.
Read(fd) ==
    /\ fd \in OpenFds
    /\ IF io_find(fd) # {} THEN FromWindow(fd, Min(io_find(fd))) ELSE FromKernel(fd)
    /\ UNCHANGED crowded
    /\ Moved(fd, Min({position[fd] + 1, FileSize}))

\* s_lseek and s_lseek64: the place of whence and offset.
Seek(fd, to) ==
    /\ fd \in OpenFds
    /\ IF io_find(fd) # {}
       THEN LET s == Min(io_find(fd))
            IN  IO' = [IO EXCEPT ![s].pos = to] /\ lru' = Touched(s) /\ UNCHANGED kernel
       ELSE kernel' = [kernel EXCEPT ![fd].pos = to] /\ UNCHANGED <<IO, lru>>
    /\ UNCHANGED crowded
    /\ Moved(fd, to)

\* A mutation: a descriptor that is closed keeps its window.
io_drop_None(fd) == [s \in Slots |-> IF IO[s].fd = fd THEN IO[s] ELSE IO[s]]

\* io_drop: the window keeps all but the descriptor and the length.
io_drop(fd) == [s \in Slots |-> IF IO[s].fd = fd THEN [IO[s] EXCEPT !.fd = NoFd, !.len = 0] ELSE IO[s]]

\* s_close.
Close(fd) ==
    /\ fd \in OpenFds
    /\ IO' = io_drop(fd)
    /\ lru' = IF io_find(fd) # {} THEN Touched(Min(io_find(fd))) ELSE lru
    /\ kernel' = [kernel EXCEPT ![fd] = Closed]
    /\ UNCHANGED crowded
    /\ Moved(fd, 0)

Next ==
    \/ \E file \in Files, reading \in BOOLEAN : Open(file, reading)
    \/ \E fd \in Fds : Read(fd) \/ Close(fd) \/ (\E to \in 0..FileSize : Seek(fd, to))

Spec == Init /\ [][Next]_vars
-----------------------------------------------------------------------------
(* As long as no more files are open for reading than there are windows, every *)
(* read returns the bytes of its own file from where the last read or seek on  *)
(* the descriptor left off, although descriptors are closed and given again.   *)
(* (A seventeenth file takes a window away, and its owner then reads from the  *)
(* kernel's position, which is still the start of the file.)                   *)
ReadsContinue ==
    ~crowded => \A fd \in OpenFds : NextByte(fd) = <<kernel[fd].file, position[fd]>>
=============================================================================
