--------------------------- MODULE GameStateProofs ---------------------------
(* Theorems about the components of Runtime that keep state for the game: the  *)
(* read windows and zlib streams, the copies of the GL state, and the offline  *)
(* mode with its weekly events and controls.  Each component has an invariant  *)
(* of its own, which the steps of the others leave alone.                      *)
EXTENDS Runtime, Sequences, SequenceTheorems, FiniteSetTheorems, WellFoundedInduction, TLAPS
-----------------------------------------------------------------------------
(* ReadWindow and ZStreams: data goes on where it stopped.                   *)

(* The least element of a set of numbers, which both components look for.    *)
LEMMA LeastOf ==
    ASSUME NEW S \in SUBSET Nat, S # {}
    PROVE  Zlib!Min(S) \in S /\ Window!Min(S) \in S
<1> DEFINE R == OpToRel(<, Nat)
<1>0. IsWellFoundedOn(R, Nat)
  BY NatLessThanWellFounded, Zenon
<1>1. PICK x \in S : \A y \in S : <<y, x>> \notin R
  BY <1>0, WFMin, Zenon
<1>2. \A y \in S : ~(y < x)
  BY <1>1 DEF OpToRel
<1>3. \A y \in S : x =< y
  BY <1>2
<1> QED
  BY <1>3 DEF Zlib!Min, Window!Min

(* The least of two numbers.                                                 *)
LEMMA LeastOfTwo ==
    ASSUME NEW a \in Int, NEW b \in Int
    PROVE  Window!Min({a, b}) = IF a =< b THEN a ELSE b
BY DEF Window!Min

(* The least of one number.                                                  *)
LEMMA LeastOfOne ==
    ASSUME NEW a \in Int
    PROVE  Zlib!Min({a}) = a /\ Window!Min({a}) = a /\ Zlib!Cardinality({a}) = 1
<1>1. Zlib!Cardinality({a}) = Cardinality({a})
  BY DEF Zlib!Cardinality, Cardinality
<1> QED
  BY <1>1, FS_Singleton DEF Zlib!Min, Window!Min

(* The other components leave the streams alone.                             *)
LEMMA ZlibStep == [Next]_allVars => [Zlib!Next]_zlibVars
BY DEF Next, OthersRest, allVars, zlibVars

(* A slot serves one stream, and the structure, the library and the slot     *)
(* agree on how far it is.                                                   *)
ZlibStream == [next_in : Int, avail_in : Int, next_out : Int, avail_out : Int, total_in : Int, total_out : Int]
ZlibSlot == [guest : Streams \cup {Zlib!NoGuest}, avail_in : Int, avail_out : Int, total_in : Int, total_out : Int]

ZlibTypes ==
    /\ SLOTS \in [Zlib!Slots -> ZlibSlot]
    /\ stream \in [Streams -> ZlibStream]
    /\ fed \in [Streams -> [from : Int, upto : Int, into : Int]]

OneSlotEach == \A i, j \in Zlib!Slots : SLOTS[i].guest = SLOTS[j].guest /\ SLOTS[i].guest \in Streams => i = j

(* How far a structure z, its slot s and what the library was fed, f, are.   *)
SamePlace(z, s, f) ==
    /\ z.next_in = f.upto /\ z.total_in = f.upto - f.from /\ s.total_in = z.total_in
    /\ z.next_out = f.into + z.total_out /\ s.total_out = z.total_out

PlacesAgree ==
    \A i \in Zlib!Slots : \A g \in Streams : SLOTS[i].guest = g => SamePlace(stream[g], SLOTS[i], fed[g])

ZlibInv == ZlibTypes /\ OneSlotEach /\ PlacesAgree

(* No stream has a slot when the program starts.                             *)
LEMMA ZlibInit == Zlib!Init => ZlibInv
<1> SUFFICES ASSUME Zlib!Init PROVE ZlibInv
  OBVIOUS
<1>1. ZlibTypes
  BY DEF Zlib!Init, ZlibTypes, ZlibStream, ZlibSlot, Zlib!Nothing, Zlib!Fresh, Zlib!Unread
<1>2. \A i \in Zlib!Slots : SLOTS[i].guest \notin Streams
  BY StreamsAssumption DEF Zlib!Init, Zlib!Nothing, Zlib!NoGuest
<1> QED
  BY <1>1, <1>2 DEF ZlibInv, OneSlotEach, PlacesAgree

(* The slot of a stream that has one.                                        *)
LEMMA SlotOf ==
    ASSUME ZlibInv, NEW g \in Streams, Zlib!slot_find(g) # {}
    PROVE  \E i \in Zlib!Slots : SLOTS[i].guest = g /\ Zlib!slot_find(g) = {i} /\ Zlib!Min(Zlib!slot_find(g)) = i
<1>1. PICK i \in Zlib!Slots : SLOTS[i].guest = g
  BY DEF Zlib!slot_find
<1>2. Zlib!slot_find(g) = {i}
  BY <1>1 DEF Zlib!slot_find, ZlibInv, OneSlotEach
<1>3. i \in Int
  BY StreamsAssumption DEF Zlib!Slots
<1> QED
  BY <1>1, <1>2, <1>3, LeastOfOne

(* A step that gives one stream its slot, its structure and its place anew   *)
(* keeps the invariant if these three agree and no other slot serves it.     *)
LEMMA StreamMoves ==
    ASSUME ZlibInv, NEW g \in Streams, NEW i \in Zlib!Slots,
           NEW s \in ZlibSlot, NEW z \in ZlibStream, NEW f \in [from : Int, upto : Int, into : Int],
           SLOTS' = [SLOTS EXCEPT ![i] = s], stream' = [stream EXCEPT ![g] = z], fed' = [fed EXCEPT ![g] = f],
           s.guest = g, SamePlace(z, s, f),
           \A k \in Zlib!Slots : SLOTS[k].guest = g => k = i,
           SLOTS[i].guest \in {g, Zlib!NoGuest}
    PROVE  ZlibInv'
<1>1. ZlibTypes'
  BY DEF ZlibInv, ZlibTypes
<1>2. OneSlotEach'
  BY DEF ZlibInv, ZlibTypes, OneSlotEach
<1>3. PlacesAgree'
  <2> SUFFICES ASSUME NEW k \in Zlib!Slots, NEW h \in Streams, SLOTS'[k].guest = h
               PROVE  SamePlace(stream'[h], SLOTS'[k], fed'[h])
    BY DEF PlacesAgree, SamePlace
  <2>1. CASE k = i
    <3>1. SLOTS'[k] = s
      BY <2>1 DEF ZlibInv, ZlibTypes
    <3>2. h = g
      BY <3>1
    <3> QED
      BY <3>1, <3>2 DEF ZlibInv, ZlibTypes
  <2>2. CASE k # i
    <3>1. SLOTS'[k] = SLOTS[k]
      BY <2>2 DEF ZlibInv, ZlibTypes
    <3>2. h # g
      BY <2>2, <3>1
    <3>3. stream'[h] = stream[h] /\ fed'[h] = fed[h]
      BY <3>2 DEF ZlibInv, ZlibTypes
    <3> QED
      BY <3>1, <3>3 DEF ZlibInv, PlacesAgree
  <2> QED
    BY <2>1, <2>2
<1> QED
  BY <1>1, <1>2, <1>3 DEF ZlibInv

(* inflateInit, with a free slot or without, whatever the structure held.    *)
LEMMA BeginKeeps == ASSUME ZlibInv, NEW g \in Streams, Zlib!Begin(g) PROVE ZlibInv'
<1> DEFINE i == Zlib!Min(Zlib!slot_new)
           s == [Zlib!Nothing EXCEPT !.guest = g]
           z == Zlib!store_stream(stream[g], s)
           f == [from |-> stream[g].next_in + stream[g].avail_in, upto |-> stream[g].next_in + stream[g].avail_in,
                 into |-> stream[g].next_out + stream[g].avail_out]
<1>1. i \in Zlib!Slots /\ SLOTS[i].guest = Zlib!NoGuest
  <2>1. Zlib!slot_new \in SUBSET Nat /\ Zlib!slot_new # {}
    BY StreamsAssumption DEF Zlib!slot_new, Zlib!Slots, Zlib!Begin
  <2>2. i \in Zlib!slot_new
    BY <2>1, LeastOf
  <2> QED
    BY <2>2 DEF Zlib!slot_new
<1>2. /\ SLOTS' = [SLOTS EXCEPT ![i] = s] /\ stream' = [stream EXCEPT ![g] = z] /\ fed' = [fed EXCEPT ![g] = f]
      /\ \A k \in Zlib!Slots : SLOTS[k].guest # g
  <2>1. SLOTS' = [SLOTS EXCEPT ![i] = s] /\ stream' = [stream EXCEPT ![g] = z] /\ fed' = [fed EXCEPT ![g] = f]
    BY Zenon DEF Zlib!Begin
  <2> QED
    BY <2>1 DEF Zlib!Begin, Zlib!slot_find
<1>3. stream[g] \in ZlibStream
  BY DEF ZlibInv, ZlibTypes
<1>4. s = [guest |-> g, avail_in |-> 0, avail_out |-> 0, total_in |-> 0, total_out |-> 0]
  BY DEF Zlib!Nothing
<1>5. s \in ZlibSlot /\ s.guest = g /\ s.avail_in = 0 /\ s.avail_out = 0 /\ s.total_in = 0 /\ s.total_out = 0
  BY <1>4 DEF ZlibSlot
<1> HIDE DEF s
<1>6. z = [next_in |-> stream[g].next_in + stream[g].avail_in, avail_in |-> 0,
           next_out |-> stream[g].next_out + stream[g].avail_out, avail_out |-> 0,
           total_in |-> 0, total_out |-> 0]
  BY <1>3, <1>5 DEF Zlib!store_stream, ZlibStream
<1>7. z \in ZlibStream /\ f \in [from : Int, upto : Int, into : Int] /\ SamePlace(z, s, f)
  BY <1>3, <1>5, <1>6 DEF ZlibStream, SamePlace
<1> HIDE DEF i, z, f
<1> QED
  BY <1>1, <1>2, <1>5, <1>7, StreamMoves

(* The program offers input, before it begins a stream or later.             *)
LEMMA OfferKeeps ==
    ASSUME ZlibInv, NEW g \in Streams, NEW n \in Int, NEW room \in Int, Zlib!Offer(g, n, room)
    PROVE  ZlibInv'
<1>1. /\ stream' = [stream EXCEPT ![g] = [[stream[g] EXCEPT !.avail_in = n] EXCEPT !.avail_out = room]]
      /\ UNCHANGED <<SLOTS, fed>>
  <2>1. stream' = [stream EXCEPT ![g].avail_in = n, ![g].avail_out = room]
    BY DEF Zlib!Offer
  <2> QED
    BY <2>1 DEF Zlib!Offer, ZlibInv, ZlibTypes
<1> DEFINE z == [[stream[g] EXCEPT !.avail_in = n] EXCEPT !.avail_out = room]
<1>2. /\ z \in ZlibStream
      /\ z.next_in = stream[g].next_in /\ z.next_out = stream[g].next_out
      /\ z.total_in = stream[g].total_in /\ z.total_out = stream[g].total_out
  BY DEF ZlibInv, ZlibTypes, ZlibStream
<1> HIDE DEF z
<1>3. stream' = [stream EXCEPT ![g] = z]
  BY <1>1 DEF z
<1> QED
  BY <1>1, <1>2, <1>3 DEF ZlibInv, ZlibTypes, OneSlotEach, PlacesAgree, SamePlace

(* It clears a structure that has no slot.                                   *)
LEMMA ClearKeeps == ASSUME ZlibInv, NEW g \in Streams, Zlib!Clear(g) PROVE ZlibInv'
<1>1. /\ stream' = [stream EXCEPT ![g] = Zlib!Fresh] /\ UNCHANGED <<SLOTS, fed>>
      /\ \A k \in Zlib!Slots : SLOTS[k].guest # g
  BY DEF Zlib!Clear, Zlib!slot_find
<1>2. Zlib!Fresh \in ZlibStream
  BY DEF Zlib!Fresh, ZlibStream
<1>3. ZlibTypes' /\ OneSlotEach'
  BY <1>1, <1>2 DEF ZlibInv, ZlibTypes, OneSlotEach
<1>4. PlacesAgree'
  BY <1>1 DEF ZlibInv, ZlibTypes, PlacesAgree, SamePlace
<1> QED
  BY <1>3, <1>4 DEF ZlibInv

(* inflate: the pointers, the totals and the library advance together.       *)
LEMMA RunKeeps ==
    ASSUME ZlibInv, NEW g \in Streams, NEW took \in Int, NEW gave \in Int, Zlib!Run(g, took, gave)
    PROVE  ZlibInv'
<1>1. PICK i \in Zlib!Slots :
         SLOTS[i].guest = g /\ Zlib!slot_find(g) = {i} /\ Zlib!Min(Zlib!slot_find(g)) = i
  BY SlotOf DEF Zlib!Run
<1> DEFINE loaded == Zlib!load_stream(SLOTS[i], stream[g])
           s == Zlib!Called(loaded, took, gave)
           z == Zlib!store_stream(stream[g], s)
           f == Zlib!Fed(fed[g], stream[g], took)
<1>2. /\ SLOTS' = [SLOTS EXCEPT ![i] = s] /\ stream' = [stream EXCEPT ![g] = z] /\ fed' = [fed EXCEPT ![g] = f]
  BY <1>1 DEF Zlib!Run
<1>3. /\ stream[g] \in ZlibStream /\ SLOTS[i] \in ZlibSlot /\ fed[g] \in [from : Int, upto : Int, into : Int]
      /\ SamePlace(stream[g], SLOTS[i], fed[g])
  BY <1>1 DEF ZlibInv, ZlibTypes, PlacesAgree
<1>4. s = [guest |-> g, avail_in |-> stream[g].avail_in - took, avail_out |-> stream[g].avail_out - gave,
           total_in |-> stream[g].total_in + took, total_out |-> stream[g].total_out + gave]
  BY <1>1 DEF Zlib!load_stream, Zlib!Called
<1>5. /\ s \in ZlibSlot /\ s.guest = g
      /\ s.avail_in = stream[g].avail_in - took /\ s.avail_out = stream[g].avail_out - gave
      /\ s.total_in = stream[g].total_in + took /\ s.total_out = stream[g].total_out + gave
  BY <1>3, <1>4 DEF ZlibStream, ZlibSlot
<1> HIDE DEF s
<1>6. z = [next_in |-> stream[g].next_in + took, avail_in |-> stream[g].avail_in - took,
           next_out |-> stream[g].next_out + gave, avail_out |-> stream[g].avail_out - gave,
           total_in |-> stream[g].total_in + took, total_out |-> stream[g].total_out + gave]
  BY <1>3, <1>5 DEF Zlib!store_stream, ZlibStream
<1>7. f = [from |-> fed[g].from, upto |-> fed[g].upto + took, into |-> fed[g].into]
  BY <1>3 DEF Zlib!Fed, SamePlace
<1>8. z \in ZlibStream /\ f \in [from : Int, upto : Int, into : Int]
  BY <1>3, <1>6, <1>7 DEF ZlibStream
<1>9. SamePlace(z, s, f)
  BY <1>3, <1>5, <1>6, <1>7 DEF SamePlace, ZlibStream
<1>10. \A k \in Zlib!Slots : SLOTS[k].guest = g => k = i
  BY <1>1 DEF Zlib!slot_find
<1> HIDE DEF z, f
<1> QED
  BY <1>1, <1>2, <1>5, <1>8, <1>9, <1>10, StreamMoves

(* inflateEnd frees the slot.                                                *)
LEMMA EndKeeps == ASSUME ZlibInv, NEW g \in Streams, Zlib!End(g) PROVE ZlibInv'
<1>1. PICK i \in Zlib!Slots :
         SLOTS[i].guest = g /\ Zlib!slot_find(g) = {i} /\ Zlib!Min(Zlib!slot_find(g)) = i
  BY SlotOf DEF Zlib!End
<1>2. /\ SLOTS' = [SLOTS EXCEPT ![i] = Zlib!Nothing] /\ fed' = [fed EXCEPT ![g] = Zlib!Unread]
      /\ UNCHANGED stream
  BY <1>1 DEF Zlib!End
<1>3. Zlib!Nothing \in ZlibSlot /\ Zlib!Nothing.guest \notin Streams /\ Zlib!Unread \in [from : Int, upto : Int, into : Int]
  BY StreamsAssumption DEF ZlibSlot, Zlib!Nothing, Zlib!NoGuest, Zlib!Unread
<1>4. ZlibTypes'
  BY <1>2, <1>3 DEF ZlibInv, ZlibTypes
<1>5. \A k \in Zlib!Slots : SLOTS'[k].guest \in Streams => k # i /\ SLOTS'[k] = SLOTS[k] /\ SLOTS[k].guest # g
  BY <1>1, <1>2, <1>3 DEF ZlibInv, ZlibTypes, OneSlotEach
<1>6. \A h \in Streams : h # g => stream'[h] = stream[h] /\ fed'[h] = fed[h]
  BY <1>2 DEF ZlibInv, ZlibTypes
<1>7. OneSlotEach' /\ PlacesAgree'
  BY <1>5, <1>6 DEF ZlibInv, OneSlotEach, PlacesAgree, SamePlace
<1> QED
  BY <1>4, <1>7 DEF ZlibInv

(* Every step keeps the streams in their place.                              *)
LEMMA ZlibInductive == ZlibInv /\ [Zlib!Next]_zlibVars => ZlibInv'
<1> SUFFICES ASSUME ZlibInv, [Zlib!Next]_zlibVars PROVE ZlibInv'
  OBVIOUS
<1>1. CASE UNCHANGED zlibVars
  BY <1>1 DEF zlibVars, ZlibInv, ZlibTypes, OneSlotEach, PlacesAgree, SamePlace
<1>2. ASSUME NEW g \in Streams, NEW n \in 0 .. Chunk, NEW room \in 0 .. Chunk, Zlib!Offer(g, n, room)
      PROVE  ZlibInv'
  BY <1>2, OfferKeeps, StreamsAssumption
<1>3. ASSUME NEW g \in Streams, NEW took \in 0 .. Chunk, NEW gave \in 0 .. Chunk, Zlib!Run(g, took, gave)
      PROVE  ZlibInv'
  BY <1>3, RunKeeps, StreamsAssumption
<1>4. ASSUME NEW g \in Streams, Zlib!Begin(g) \/ Zlib!Clear(g) \/ Zlib!End(g) PROVE ZlibInv'
  BY <1>4, BeginKeeps, ClearKeeps, EndKeeps
<1> QED
  BY <1>1, <1>2, <1>3, <1>4 DEF Zlib!Next

(* The invariant is what the run checks.                                     *)
LEMMA ZlibHolds == ZlibInv => Zlib!StreamsKeepTheirPlace
<1> SUFFICES ASSUME ZlibInv, NEW g \in Streams, NEW i \in Zlib!slot_find(g)
             PROVE  /\ SamePlace(stream[g], SLOTS[i], fed[g]) /\ Zlib!Cardinality(Zlib!slot_find(g)) = 1
  BY DEF Zlib!StreamsKeepTheirPlace, SamePlace
<1>1. i \in Zlib!Slots /\ SLOTS[i].guest = g
  BY DEF Zlib!slot_find
<1>2. Zlib!slot_find(g) = {i} /\ i \in Int
  BY <1>1, StreamsAssumption DEF Zlib!slot_find, Zlib!Slots, ZlibInv, OneSlotEach
<1>3. Zlib!Cardinality(Zlib!slot_find(g)) = 1
  BY <1>2, LeastOfOne
<1> QED
  BY <1>1, <1>3 DEF ZlibInv, PlacesAgree

(* The other components leave the read windows alone.                        *)
LEMMA WindowStep == [Next]_allVars => [Window!Next]_windowVars
BY DEF Next, OthersRest, allVars, windowVars

(* A window belongs to one descriptor, which is open for reading, and has no *)
(* bytes from behind the end of its file.                                    *)
WindowTypes ==
    /\ IO \in [Window!Slots -> [fd : Fds \cup {Window!NoFd}, pos : Nat, start : Nat, len : Nat,
                                of : Files \cup {"none"}]]
    /\ kernel = [f \in Fds |-> kernel[f]] /\ position \in [Fds -> Nat] /\ crowded \in BOOLEAN
    /\ \A f \in Window!OpenFds : kernel[f] \in [file : Files, pos : Nat, reading : BOOLEAN]
    /\ \A s \in Window!Slots : IO[s].pos =< FileSize /\ IO[s].start + IO[s].len =< FileSize

Owned == \A s \in Window!Slots : IO[s].fd \in Fds => IO[s].fd \in Window!OpenFds /\ kernel[IO[s].fd].reading
Alone == \A s, t \in Window!Slots : IO[s].fd = IO[t].fd /\ IO[s].fd \in Fds => s = t

(* Until there were too many, every descriptor open for reading has one; the *)
(* window, or the kernel for the other descriptors, is where POSIX is, and   *)
(* what the window has of the next byte is of the right file.                *)
GoesOn ==
    ~crowded =>
        /\ \A f \in Window!OpenFds :
              /\ position[f] =< FileSize
              /\ kernel[f].reading => \E s \in Window!Slots : IO[s].fd = f
              /\ (\A s \in Window!Slots : IO[s].fd # f) => kernel[f].pos = position[f]
        /\ \A s \in Window!Slots : IO[s].fd \in Fds =>
              /\ IO[s].pos = position[IO[s].fd]
              /\ IO[s].len = 0 \/ IO[s].of = kernel[IO[s].fd].file

WindowInv == WindowTypes /\ Owned /\ Alone /\ GoesOn

(* No descriptor is open when the program starts.                            *)
LEMMA WindowInit == Window!Init => WindowInv
<1> SUFFICES ASSUME Window!Init PROVE WindowInv
  OBVIOUS
<1>1. \A s \in Window!Slots : IO[s] = Window!Unused /\ IO[s].fd \notin Fds
  BY WindowAssumption DEF Window!Init, Window!Unused, Window!NoFd
<1>2. Window!OpenFds = {}
  BY DEF Window!Init, Window!OpenFds
<1>3. WindowTypes
  <2>1. IO \in [Window!Slots -> [fd : Fds \cup {Window!NoFd}, pos : Nat, start : Nat, len : Nat,
                                of : Files \cup {"none"}]]
    BY DEF Window!Init, Window!Unused
  <2>2. kernel = [f \in Fds |-> kernel[f]] /\ position \in [Fds -> Nat] /\ crowded \in BOOLEAN
    BY DEF Window!Init
  <2>3. \A s \in Window!Slots : IO[s].pos = 0 /\ IO[s].start = 0 /\ IO[s].len = 0
    BY <1>1 DEF Window!Unused
  <2> QED
    BY <1>2, <2>1, <2>2, <2>3, WindowAssumption DEF WindowTypes
<1> QED
  BY <1>1, <1>2, <1>3 DEF WindowInv, Owned, Alone, GoesOn

(* The window of a descriptor that has one.                                  *)
LEMMA WindowOf ==
    ASSUME WindowInv, NEW f \in Fds, Window!io_find(f) # {}
    PROVE  \E s \in Window!Slots : /\ IO[s].fd = f /\ Window!io_find(f) = {s}
                                   /\ Window!Min(Window!io_find(f)) = s
<1>1. PICK s \in Window!Slots : IO[s].fd = f
  BY DEF Window!io_find
<1>2. Window!io_find(f) = {s}
  BY <1>1 DEF Window!io_find, WindowInv, Alone
<1>3. s \in Int
  BY WindowAssumption DEF Window!Slots
<1> QED
  BY <1>1, <1>2, <1>3, LeastOfOne

(* A window is free while fewer descriptors than windows are open for        *)
(* reading.                                                                  *)
LEMMA AWindowIsFree ==
    ASSUME WindowInv, Window!Cardinality({f \in Window!OpenFds : kernel[f].reading}) < IO_SLOTS
    PROVE  {s \in Window!Slots : IO[s].fd = Window!NoFd} # {}
<1> DEFINE R == {f \in Window!OpenFds : kernel[f].reading}
           owner == [s \in Window!Slots |-> IO[s].fd]
<1>1. SUFFICES ASSUME \A s \in Window!Slots : IO[s].fd \in R PROVE FALSE
  BY DEF WindowInv, WindowTypes, Owned
<1>2. IsFiniteSet(R)
  BY WindowAssumption, FS_Subset DEF Window!OpenFds
<1>3. Cardinality(R) < Cardinality(Window!Slots) /\ IsFiniteSet(Window!Slots)
  <2>1. Window!Cardinality(R) = Cardinality(R)
    BY DEF Window!Cardinality, Cardinality
  <2>2. Cardinality(Window!Slots) = IO_SLOTS /\ IsFiniteSet(Window!Slots)
    <3>1. IsFiniteSet(1 .. IO_SLOTS) /\ Cardinality(1 .. IO_SLOTS) = IF 1 > IO_SLOTS THEN 0 ELSE IO_SLOTS - 1 + 1
      BY WindowAssumption, FS_Interval
    <3> QED
      BY <3>1, WindowAssumption DEF Window!Slots
  <2> QED
    BY <2>1, <2>2
<1>4. owner \in [Window!Slots -> R]
  BY <1>1
<1>5. \E s, t \in Window!Slots : s # t /\ owner[s] = owner[t]
  <2> HIDE DEF owner, R
  <2> QED
    BY <1>2, <1>3, <1>4, FS_PigeonHole
<1> QED
  BY <1>1, <1>5 DEF WindowInv, Alone, Window!OpenFds

(* A descriptor is opened: its window, if one is free, is empty.             *)
LEMMA OpenKeeps ==
    ASSUME WindowInv, NEW name \in Files, NEW reading \in BOOLEAN, Window!Open(name, reading)
    PROVE  WindowInv'
<1> DEFINE fd == Window!Min(Fds \ Window!OpenFds)
           W == [Window!Unused EXCEPT !.fd = fd]
           slot == Window!io_track
<1>1. fd \in Fds \ Window!OpenFds /\ fd \in Nat
  <2>1. Fds \ Window!OpenFds \in SUBSET Nat /\ Fds \ Window!OpenFds # {}
    BY WindowAssumption DEF Window!Open
  <2> QED
    BY <2>1, LeastOf
<1>2. kernel' = [kernel EXCEPT ![fd] = [file |-> name, pos |-> 0, reading |-> reading]]
  BY DEF Window!Open
<1>3. /\ IF reading THEN IO' = [IO EXCEPT ![slot] = W] ELSE IO' = IO
      /\ ~crowded' /\ reading => Window!Cardinality({f \in Window!OpenFds : kernel[f].reading}) + 1 =< IO_SLOTS
      /\ ~crowded' => ~crowded /\ position' = [position EXCEPT ![fd] = 0]
      /\ crowded' => position' = [f \in Fds |-> 0]
      /\ crowded' \in BOOLEAN
  <2>1. Window!Cardinality({f \in Window!OpenFds : kernel[f].reading}) \in Nat
    <3>1. IsFiniteSet({f \in Window!OpenFds : kernel[f].reading})
      BY WindowAssumption, FS_Subset DEF Window!OpenFds
    <3> QED
      BY <3>1, FS_CardinalityType DEF Window!Cardinality, Cardinality
  <2>2. IF reading THEN IO' = [IO EXCEPT ![slot] = W] ELSE IO' = IO
    BY DEF Window!Open
  <2>3. crowded' = (crowded \/ Window!Cardinality({f \in Window!OpenFds : kernel[f].reading})
                                  + (IF reading THEN 1 ELSE 0) > IO_SLOTS)
    BY DEF Window!Open
  <2>4. position' = IF crowded' THEN [f \in Fds |-> 0] ELSE [position EXCEPT ![fd] = 0]
    BY DEF Window!Open, Window!Moved
  <2> DEFINE number == Window!Cardinality({f \in Window!OpenFds : kernel[f].reading})
  <2> HIDE DEF fd, W, slot, number
  <2>5. ~crowded' /\ reading => number + 1 =< IO_SLOTS
    <3>1. crowded' = (crowded \/ number + (IF reading THEN 1 ELSE 0) > IO_SLOTS) /\ number \in Nat
      BY <2>1, <2>3, Zenon DEF number
    <3>2. CASE reading
      <4>1. (IF reading THEN 1 ELSE 0) = 1
        BY <3>2
      <4>2. ~crowded' => ~(number + 1 > IO_SLOTS)
        BY <3>1, <4>1, Zenon
      <4> QED
        BY <3>1, <4>2, WindowAssumption
    <3> QED
      BY <3>2, Zenon
  <2>6. crowded' \in BOOLEAN /\ (~crowded' => ~crowded)
    BY <2>3 DEF WindowInv, WindowTypes
  <2> QED
    BY <2>2, <2>4, <2>5, <2>6 DEF number
<1>4. /\ W \in [fd : Fds \cup {Window!NoFd}, pos : Nat, start : Nat, len : Nat, of : Files \cup {"none"}]
      /\ W.fd = fd /\ W.pos = 0 /\ W.start = 0 /\ W.len = 0
  BY <1>1 DEF Window!Unused
<1>5. \A s \in Window!Slots : IO[s].fd # fd
  BY <1>1 DEF WindowInv, Owned
<1> HIDE DEF fd, W, slot
<1>6. \A s \in Window!Slots : IO'[s] = IO[s] \/ (reading /\ s = slot /\ IO'[s] = W)
  BY <1>3 DEF WindowInv, WindowTypes
<1>7. /\ kernel'[fd] = [file |-> name, pos |-> 0, reading |-> reading]
      /\ \A f \in Fds : f # fd => kernel'[f] = kernel[f]
      /\ kernel' = [f \in Fds |-> kernel'[f]]
  BY <1>1, <1>2 DEF WindowInv, WindowTypes
<1>8. Window!OpenFds' = Window!OpenFds \cup {fd}
  <2>1. kernel'[fd] # Window!Closed
    BY <1>7, WindowAssumption DEF Window!Closed
  <2> QED
    BY <1>1, <1>7, <2>1 DEF Window!OpenFds
<1>9. WindowTypes'
  <2>1. IO' \in [Window!Slots -> [fd : Fds \cup {Window!NoFd}, pos : Nat, start : Nat, len : Nat,
                                  of : Files \cup {"none"}]]
    BY <1>3, <1>4 DEF WindowInv, WindowTypes
  <2>2. position' \in [Fds -> Nat] /\ crowded' \in BOOLEAN
    BY <1>3 DEF WindowInv, WindowTypes
  <2>3. \A f \in Window!OpenFds' : kernel'[f] \in [file : Files, pos : Nat, reading : BOOLEAN]
    BY <1>1, <1>7, <1>8 DEF WindowInv, WindowTypes, Window!OpenFds
  <2>4. \A s \in Window!Slots : IO'[s].pos =< FileSize /\ IO'[s].start + IO'[s].len =< FileSize
    BY <1>4, <1>6, WindowAssumption DEF WindowInv, WindowTypes
  <2> QED
    BY <1>7, <2>1, <2>2, <2>3, <2>4 DEF WindowTypes
<1>10. Owned'
  <2> SUFFICES ASSUME NEW s \in Window!Slots, IO'[s].fd \in Fds
               PROVE  IO'[s].fd \in Window!OpenFds' /\ kernel'[IO'[s].fd].reading
    BY DEF Owned
  <2>1. CASE IO'[s] = IO[s]
    BY <1>1, <1>7, <1>8, <2>1 DEF WindowInv, Owned
  <2>2. CASE reading /\ IO'[s] = W
    BY <1>4, <1>7, <1>8, <2>2
  <2> QED
    BY <1>6, <2>1, <2>2
<1>11. Alone'
  BY <1>4, <1>5, <1>6 DEF WindowInv, Alone
<1>12. GoesOn'
  <2> SUFFICES ASSUME ~crowded' PROVE GoesOn'
    BY DEF GoesOn
  <2>1. ~crowded /\ position' = [position EXCEPT ![fd] = 0]
    BY <1>3
  <2>2. position'[fd] = 0 /\ \A f \in Fds : f # fd => position'[f] = position[f]
    BY <1>1, <2>1 DEF WindowInv, WindowTypes
  <2>3. reading => slot \in Window!Slots /\ IO[slot].fd = Window!NoFd
    <3> SUFFICES ASSUME reading PROVE slot \in Window!Slots /\ IO[slot].fd = Window!NoFd
      OBVIOUS
    <3>1. {s \in Window!Slots : IO[s].fd = Window!NoFd} # {}
      <4>1. IsFiniteSet({f \in Window!OpenFds : kernel[f].reading})
        BY WindowAssumption, FS_Subset DEF Window!OpenFds
      <4>2. Window!Cardinality({f \in Window!OpenFds : kernel[f].reading}) \in Nat
        BY <4>1, FS_CardinalityType DEF Window!Cardinality, Cardinality
      <4>3. Window!Cardinality({f \in Window!OpenFds : kernel[f].reading}) < IO_SLOTS
        BY <1>3, <4>2, WindowAssumption
      <4> QED
        BY <4>3, AWindowIsFree
    <3>2. {s \in Window!Slots : IO[s].fd = Window!NoFd} \in SUBSET Nat
      BY WindowAssumption DEF Window!Slots
    <3>3. slot = Window!Min({s \in Window!Slots : IO[s].fd = Window!NoFd})
      BY <3>1 DEF slot, Window!io_track
    <3> QED
      BY <3>1, <3>2, <3>3, LeastOf
  <2>4. reading => IO'[slot] = W
    BY <1>3, <2>3 DEF WindowInv, WindowTypes
  <2>5. Window!NoFd \notin Fds
    BY WindowAssumption DEF Window!NoFd
  <2>6. \A s \in Window!Slots : IO[s].fd \in Fds => IO'[s] = IO[s]
    BY <1>6, <2>3, <2>5
  <2>7. ASSUME NEW f \in Window!OpenFds'
        PROVE  /\ position'[f] =< FileSize
               /\ kernel'[f].reading => \E s \in Window!Slots : IO'[s].fd = f
               /\ (\A s \in Window!Slots : IO'[s].fd # f) => kernel'[f].pos = position'[f]
    <3>1. CASE f = fd
      BY <1>4, <1>7, <2>2, <2>3, <2>4, <3>1, WindowAssumption
    <3>2. CASE f # fd
      <4>1. f \in Window!OpenFds /\ f \in Fds /\ kernel'[f] = kernel[f] /\ position'[f] = position[f]
        BY <1>7, <1>8, <2>2, <3>2 DEF Window!OpenFds
      <4> QED
        BY <2>1, <2>6, <4>1 DEF WindowInv, GoesOn
    <3> QED
      BY <3>1, <3>2
  <2>8. ASSUME NEW s \in Window!Slots, IO'[s].fd \in Fds
        PROVE  /\ IO'[s].pos = position'[IO'[s].fd]
               /\ IO'[s].len = 0 \/ IO'[s].of = kernel'[IO'[s].fd].file
    <3>1. CASE IO'[s] = IO[s]
      BY <1>5, <1>7, <2>1, <2>2, <2>8, <3>1 DEF WindowInv, GoesOn
    <3>2. CASE IO'[s] = W
      BY <1>4, <2>2, <3>2
    <3> QED
      BY <1>6, <3>1, <3>2
  <2> QED
    BY <2>7, <2>8 DEF GoesOn
<1> QED
  BY <1>9, <1>10, <1>11, <1>12 DEF WindowInv

(* A step within a window moves it with its descriptor.                      *)
LEMMA WindowMoves ==
    ASSUME WindowInv, NEW fd \in Window!OpenFds, NEW s \in Window!Slots, IO[s].fd = fd,
           NEW w \in [fd : Fds \cup {Window!NoFd}, pos : Nat, start : Nat, len : Nat, of : Files \cup {"none"}],
           w.fd = fd, w.pos =< FileSize, w.start + w.len =< FileSize,
           ~crowded => w.len = 0 \/ w.of = kernel[fd].file,
           IO' = [IO EXCEPT ![s] = w], UNCHANGED <<kernel, crowded>>,
           position' \in [Fds -> Nat], ~crowded => position' = [position EXCEPT ![fd] = w.pos]
    PROVE  WindowInv'
<1>1. /\ IO'[s] = w /\ \A t \in Window!Slots : t # s => IO'[t] = IO[t]
      /\ fd \in Fds /\ Window!OpenFds' = Window!OpenFds
  BY DEF WindowInv, WindowTypes, Window!OpenFds
<1>2. \A t \in Window!Slots : IO'[t].fd = IO[t].fd
  BY <1>1
<1>3. WindowTypes'
  <2>1. \A t \in Window!Slots : IO'[t].pos =< FileSize /\ IO'[t].start + IO'[t].len =< FileSize
    BY <1>1 DEF WindowInv, WindowTypes
  <2>2. IO' \in [Window!Slots -> [fd : Fds \cup {Window!NoFd}, pos : Nat, start : Nat, len : Nat,
                                  of : Files \cup {"none"}]]
    BY DEF WindowInv, WindowTypes
  <2> QED
    BY <1>1, <2>1, <2>2 DEF WindowInv, WindowTypes
<1>4. Owned' /\ Alone'
  BY <1>1, <1>2 DEF WindowInv, Owned, Alone
<1>5. GoesOn'
  <2> SUFFICES ASSUME ~crowded PROVE GoesOn'
    BY DEF GoesOn
  <2>1. position'[fd] = w.pos /\ \A f \in Fds : f # fd => position'[f] = position[f]
    BY <1>1 DEF WindowInv, WindowTypes
  <2>2. ASSUME NEW f \in Window!OpenFds
        PROVE  /\ position'[f] =< FileSize
               /\ kernel[f].reading => \E t \in Window!Slots : IO'[t].fd = f
               /\ (\A t \in Window!Slots : IO'[t].fd # f) => kernel[f].pos = position'[f]
    <3>1. f \in Fds
      BY DEF Window!OpenFds
    <3> QED
      BY <1>2, <2>1, <3>1 DEF WindowInv, GoesOn
  <2>3. ASSUME NEW t \in Window!Slots, IO'[t].fd \in Fds
        PROVE  /\ IO'[t].pos = position'[IO'[t].fd]
               /\ IO'[t].len = 0 \/ IO'[t].of = kernel[IO'[t].fd].file
    <3>1. CASE t = s
      BY <1>1, <2>1, <3>1
    <3>2. CASE t # s
      <4>1. IO'[t] = IO[t] /\ IO[t].fd # fd /\ IO[t].fd \in Fds
        BY <1>1, <1>2, <2>3, <3>2 DEF WindowInv, Alone
      <4> QED
        BY <2>1, <4>1 DEF WindowInv, GoesOn
    <3> QED
      BY <3>1, <3>2
  <2> QED
    BY <1>1, <2>2, <2>3 DEF GoesOn
<1> QED
  BY <1>3, <1>4, <1>5 DEF WindowInv

(* A step of a descriptor without a window moves the kernel's position.      *)
LEMMA KernelMoves ==
    ASSUME WindowInv, NEW fd \in Window!OpenFds, Window!io_find(fd) = {}, NEW to \in Nat, to =< FileSize,
           kernel' = [kernel EXCEPT ![fd].pos = to], UNCHANGED <<IO, crowded>>,
           position' \in [Fds -> Nat], ~crowded => position' = [position EXCEPT ![fd] = to]
    PROVE  WindowInv'
<1> DEFINE k == [kernel[fd] EXCEPT !.pos = to]
<1>1. /\ fd \in Fds /\ kernel[fd] \in [file : Files, pos : Nat, reading : BOOLEAN]
      /\ \A s \in Window!Slots : IO[s].fd # fd
  BY DEF Window!OpenFds, WindowInv, WindowTypes, Window!io_find
<1>2. /\ k \in [file : Files, pos : Nat, reading : BOOLEAN]
      /\ k.file = kernel[fd].file /\ k.reading = kernel[fd].reading /\ k.pos = to
  BY <1>1
<1>3. /\ kernel'[fd] = k /\ \A f \in Fds : f # fd => kernel'[f] = kernel[f]
      /\ kernel' = [f \in Fds |-> kernel'[f]]
  BY <1>1 DEF WindowInv, WindowTypes
<1> HIDE DEF k
<1>4. Window!OpenFds' = Window!OpenFds
  <2>1. k # Window!Closed
    BY <1>2, WindowAssumption DEF Window!Closed
  <2> QED
    BY <1>3, <2>1 DEF Window!OpenFds
<1>5. WindowTypes'
  <2>1. \A f \in Window!OpenFds : kernel'[f] \in [file : Files, pos : Nat, reading : BOOLEAN]
    BY <1>2, <1>3 DEF WindowInv, WindowTypes, Window!OpenFds
  <2> QED
    BY <1>3, <1>4, <2>1 DEF WindowInv, WindowTypes
<1>6. Owned' /\ Alone'
  BY <1>1, <1>3, <1>4 DEF WindowInv, Owned, Alone
<1>7. GoesOn'
  <2> SUFFICES ASSUME ~crowded PROVE GoesOn'
    BY DEF GoesOn
  <2>1. position'[fd] = to /\ \A f \in Fds : f # fd => position'[f] = position[f]
    BY <1>1 DEF WindowInv, WindowTypes
  <2>2. ASSUME NEW f \in Window!OpenFds
        PROVE  /\ position'[f] =< FileSize
               /\ kernel'[f].reading => \E t \in Window!Slots : IO[t].fd = f
               /\ (\A t \in Window!Slots : IO[t].fd # f) => kernel'[f].pos = position'[f]
    <3>1. f \in Fds
      BY DEF Window!OpenFds
    <3>2. CASE f = fd
      BY <1>1, <1>2, <1>3, <2>1, <3>2 DEF WindowInv, GoesOn
    <3>3. CASE f # fd
      BY <1>3, <2>1, <3>1, <3>3 DEF WindowInv, GoesOn
    <3> QED
      BY <3>2, <3>3
  <2>3. ASSUME NEW t \in Window!Slots, IO[t].fd \in Fds
        PROVE  /\ IO[t].pos = position'[IO[t].fd]
               /\ IO[t].len = 0 \/ IO[t].of = kernel'[IO[t].fd].file
    BY <1>1, <1>3, <2>1, <2>3 DEF WindowInv, GoesOn
  <2> QED
    BY <1>4, <2>2, <2>3 DEF GoesOn
<1> QED
  BY <1>5, <1>6, <1>7 DEF WindowInv

(* POSIX: the position of a descriptor after a step to a place in its file.  *)
LEMMA MovedTo ==
    ASSUME WindowInv, NEW fd, NEW to \in Nat, Window!Moved(fd, to), crowded' = crowded
    PROVE  position' \in [Fds -> Nat] /\ (~crowded => position' = [position EXCEPT ![fd] = to])
<1>1. CASE crowded
  BY <1>1 DEF Window!Moved
<1>2. CASE ~crowded
  BY <1>2 DEF Window!Moved, WindowInv, WindowTypes
<1> QED
  BY <1>1, <1>2

(* lseek: inside the window, or the window is dropped.                       *)
LEMMA SeekKeeps ==
    ASSUME WindowInv, NEW fd \in Fds, NEW to \in 0 .. FileSize, Window!Seek(fd, to)
    PROVE  WindowInv'
<1>1. to \in Nat /\ to =< FileSize /\ fd \in Window!OpenFds /\ crowded' = crowded
  BY WindowAssumption DEF Window!Seek
<1>2. position' \in [Fds -> Nat] /\ (~crowded => position' = [position EXCEPT ![fd] = to])
  BY <1>1, MovedTo DEF Window!Seek
<1>3. CASE Window!io_find(fd) = {}
  BY <1>1, <1>2, <1>3, KernelMoves DEF Window!Seek
<1>4. CASE Window!io_find(fd) # {}
  <2>1. PICK s \in Window!Slots : IO[s].fd = fd /\ Window!Min(Window!io_find(fd)) = s
    BY <1>4, WindowOf
  <2> DEFINE w == [IO[s] EXCEPT !.pos = to]
  <2>2. IO' = [IO EXCEPT ![s] = w] /\ kernel' = kernel
    BY <1>4, <2>1 DEF Window!Seek
  <2>3. /\ IO[s] \in [fd : Fds \cup {Window!NoFd}, pos : Nat, start : Nat, len : Nat, of : Files \cup {"none"}]
        /\ IO[s].start + IO[s].len =< FileSize
    BY DEF WindowInv, WindowTypes
  <2>4. /\ w \in [fd : Fds \cup {Window!NoFd}, pos : Nat, start : Nat, len : Nat, of : Files \cup {"none"}]
        /\ w.fd = fd /\ w.pos = to /\ w.start = IO[s].start /\ w.len = IO[s].len /\ w.of = IO[s].of
    BY <1>1, <2>1, <2>3
  <2> HIDE DEF w
  <2>5. ~crowded => w.len = 0 \/ w.of = kernel[fd].file
    BY <2>1, <2>4 DEF WindowInv, GoesOn
  <2> QED
    BY <1>1, <1>2, <2>1, <2>2, <2>3, <2>4, <2>5, WindowMoves
<1> QED
  BY <1>3, <1>4

(* read: from the window, or past it.                                        *)
LEMMA ReadKeeps == ASSUME WindowInv, NEW fd \in Fds, Window!Read(fd) PROVE WindowInv'
<1> DEFINE next_position == Window!Min({position[fd] + 1, FileSize})
<1>1. fd \in Window!OpenFds /\ crowded' = crowded /\ position[fd] \in Nat
  BY DEF Window!Read, WindowInv, WindowTypes
<1>2. next_position = (IF position[fd] + 1 =< FileSize THEN position[fd] + 1 ELSE FileSize) /\ next_position \in Nat
  BY <1>1, WindowAssumption, LeastOfTwo
<1>3. position' \in [Fds -> Nat] /\ (~crowded => position' = [position EXCEPT ![fd] = next_position])
  <2> HIDE DEF next_position
  <2>1. Window!Moved(fd, next_position)
    BY DEF Window!Read, next_position
  <2> QED
    BY <1>1, <1>2, <2>1, MovedTo
<1> HIDE DEF next_position
<1>4. CASE Window!io_find(fd) = {}
  <2> DEFINE to == Window!Min({kernel[fd].pos + 1, FileSize})
  <2>1. kernel' = [kernel EXCEPT ![fd].pos = to] /\ IO' = IO
    BY <1>4 DEF Window!Read, Window!FromKernel
  <2>2. kernel[fd].pos \in Nat
    BY <1>1 DEF WindowInv, WindowTypes
  <2>3. to = (IF kernel[fd].pos + 1 =< FileSize THEN kernel[fd].pos + 1 ELSE FileSize) /\ to \in Nat /\ to =< FileSize
    BY <2>2, WindowAssumption, LeastOfTwo
  <2> HIDE DEF to
  <2>4. ~crowded => kernel[fd].pos = position[fd]
    BY <1>1, <1>4 DEF WindowInv, GoesOn, Window!io_find
  <2>5. ~crowded => to = next_position
    BY <1>2, <2>3, <2>4
  <2> QED
    BY <1>1, <1>3, <1>4, <2>1, <2>3, <2>5, KernelMoves
<1>5. CASE Window!io_find(fd) # {}
  <2>1. PICK s \in Window!Slots : IO[s].fd = fd /\ Window!Min(Window!io_find(fd)) = s
    BY <1>5, WindowOf
  <2> DEFINE w == IO[s]
             read_len == Window!Min({IO_WINDOW, FileSize - w.pos})
             filled == IF ~Window!Miss(w) THEN w
                       ELSE [w EXCEPT !.start = w.pos, !.of = kernel[fd].file, !.len = read_len]
             after == IF Window!Miss(w) /\ w.pos >= FileSize THEN w ELSE [filled EXCEPT !.pos = filled.pos + 1]
  <2>2. IO' = [IO EXCEPT ![s] = after] /\ kernel' = kernel
    BY <1>5, <2>1 DEF Window!Read, Window!FromWindow
  <2>3. /\ w \in [fd : Fds \cup {Window!NoFd}, pos : Nat, start : Nat, len : Nat, of : Files \cup {"none"}]
        /\ w.start + w.len =< FileSize /\ w.pos =< FileSize /\ w.fd = fd
    BY <2>1 DEF WindowInv, WindowTypes
  <2>4. kernel[fd].file \in Files
    BY <1>1 DEF WindowInv, WindowTypes
  <2>5. ~crowded => w.pos = position[fd] /\ (w.len = 0 \/ w.of = kernel[fd].file)
    BY <2>1 DEF WindowInv, GoesOn
  <2>6. w.pos < FileSize => read_len \in Nat /\ w.pos + read_len =< FileSize
    BY <2>3, WindowAssumption, LeastOfTwo
  <2>7. Window!Miss(w) <=> w.pos < w.start \/ w.pos >= w.start + w.len
    BY DEF Window!Miss
  <2> HIDE DEF w, read_len
  <2>8. /\ after \in [fd : Fds \cup {Window!NoFd}, pos : Nat, start : Nat, len : Nat, of : Files \cup {"none"}]
        /\ after.fd = fd /\ after.pos =< FileSize /\ after.start + after.len =< FileSize
        /\ after.pos = IF w.pos + 1 =< FileSize THEN w.pos + 1 ELSE FileSize
        /\ after.len = 0 \/ after.of = kernel[fd].file \/ (after.of = w.of /\ after.len = w.len)
    <3>1. CASE Window!Miss(w) /\ w.pos >= FileSize
      BY <2>3, <3>1, WindowAssumption
    <3>2. CASE ~Window!Miss(w)
      <4>1. after = [w EXCEPT !.pos = w.pos + 1] /\ w.pos + 1 =< FileSize
        BY <2>3, <2>7, <3>2, WindowAssumption
      <4> HIDE DEF after
      <4> QED
        BY <2>3, <4>1
    <3>3. CASE Window!Miss(w) /\ w.pos < FileSize
      <4> DEFINE a == [w EXCEPT !.start = w.pos]
                 b == [a EXCEPT !.of = kernel[fd].file]
                 c == [b EXCEPT !.len = read_len]
                 R == [fd : Fds \cup {Window!NoFd}, pos : Nat, start : Nat, len : Nat, of : Files \cup {"none"}]
      <4>1. after = [c EXCEPT !.pos = c.pos + 1]
        BY <2>3, <3>3, WindowAssumption
      <4> HIDE DEF after
      <4>2. a \in R /\ a.fd = fd /\ a.pos = w.pos /\ a.start = w.pos
        BY <2>3
      <4> HIDE DEF a
      <4>3. b \in R /\ b.fd = fd /\ b.pos = w.pos /\ b.start = w.pos /\ b.of = kernel[fd].file
        BY <2>4, <4>2
      <4> HIDE DEF b
      <4>4. /\ c \in R /\ c.fd = fd /\ c.pos = w.pos /\ c.start = w.pos /\ c.of = kernel[fd].file
            /\ c.len = read_len
        BY <2>6, <3>3, <4>3
      <4> HIDE DEF c
      <4>5. /\ after \in R /\ after.fd = fd /\ after.pos = w.pos + 1 /\ after.start = w.pos
            /\ after.of = kernel[fd].file /\ after.len = read_len
        BY <4>1, <4>4
      <4>6. /\ after.fd = fd /\ after.pos = w.pos + 1 /\ after.start = w.pos
            /\ after.len = read_len /\ w.pos \in Nat
        BY <2>3, <4>5, Zenon
      <4>7. w.pos + read_len =< FileSize /\ read_len \in Nat /\ w.pos + 1 =< FileSize
        BY <2>3, <2>6, <3>3, <4>6, WindowAssumption
      <4>8. after.pos =< FileSize /\ after.start + after.len =< FileSize
        BY <4>6, <4>7, Zenon
      <4>9. after.pos = IF w.pos + 1 =< FileSize THEN w.pos + 1 ELSE FileSize
        BY <4>6, <4>7, Zenon
      <4>10. after \in [fd : Fds \cup {Window!NoFd}, pos : Nat, start : Nat, len : Nat, of : Files \cup {"none"}]
        BY <4>5
      <4>11. after.fd = fd /\ after.of = kernel[fd].file
        BY <4>5, Zenon
      <4> HIDE DEF R
      <4> QED
        BY <4>8, <4>9, <4>10, <4>11, Zenon
    <3> QED
      BY <2>3, <3>1, <3>2, <3>3, WindowAssumption
  <2> HIDE DEF after
  <2>9. ~crowded => after.pos = next_position /\ (after.len = 0 \/ after.of = kernel[fd].file)
    BY <1>2, <2>5, <2>8
  <2> QED
    BY <1>1, <1>3, <2>1, <2>2, <2>8, <2>9, WindowMoves
<1> QED
  BY <1>4, <1>5

(* A descriptor that is closed leaves its window, which is then empty.       *)
LEMMA CloseKeeps == ASSUME WindowInv, NEW fd \in Fds, Window!Close(fd) PROVE WindowInv'
<1>1. fd \in Window!OpenFds /\ crowded' = crowded /\ IO' = Window!io_drop(fd)
  BY DEF Window!Close
<1>2. position' \in [Fds -> Nat] /\ (~crowded => position' = [position EXCEPT ![fd] = 0])
  BY <1>1, MovedTo DEF Window!Close
<1>3. ASSUME NEW s \in Window!Slots
      PROVE  /\ IO[s].fd # fd => IO'[s] = IO[s]
             /\ IO[s].fd = fd => IO'[s].fd = Window!NoFd
             /\ IO'[s] \in [fd : Fds \cup {Window!NoFd}, pos : Nat, start : Nat, len : Nat,
                            of : Files \cup {"none"}]
             /\ IO'[s].pos =< FileSize /\ IO'[s].start + IO'[s].len =< FileSize
  <2>1. /\ IO[s] \in [fd : Fds \cup {Window!NoFd}, pos : Nat, start : Nat, len : Nat, of : Files \cup {"none"}]
        /\ IO[s].pos =< FileSize /\ IO[s].start + IO[s].len =< FileSize
    BY DEF WindowInv, WindowTypes
  <2>2. CASE IO[s].fd # fd
    <3>1. IO'[s] = IO[s]
      BY <1>1, <2>2, Zenon DEF Window!io_drop
    <3> QED
      BY <2>1, <2>2, <3>1
  <2>3. CASE IO[s].fd = fd
    <3> DEFINE a == [IO[s] EXCEPT !.fd = Window!NoFd]
               b == [a EXCEPT !.len = 0]
    <3>1. IO'[s] = b
      BY <1>1, <2>3, Zenon DEF Window!io_drop
    <3>2. /\ a \in [fd : Fds \cup {Window!NoFd}, pos : Nat, start : Nat, len : Nat, of : Files \cup {"none"}]
          /\ a.fd = Window!NoFd /\ a.pos = IO[s].pos /\ a.start = IO[s].start
      BY <2>1
    <3> HIDE DEF a
    <3>3. /\ b \in [fd : Fds \cup {Window!NoFd}, pos : Nat, start : Nat, len : Nat, of : Files \cup {"none"}]
          /\ b.fd = Window!NoFd /\ b.pos = IO[s].pos /\ b.start = IO[s].start /\ b.len = 0
      BY <3>2
    <3> HIDE DEF b
    <3>4. IO'[s].fd = Window!NoFd
      BY <3>1, <3>3, Zenon
    <3>5. IO'[s] \in [fd : Fds \cup {Window!NoFd}, pos : Nat, start : Nat, len : Nat, of : Files \cup {"none"}]
      BY <3>1, <3>3, Zenon
    <3>6. IO'[s].pos =< FileSize
      BY <2>1, <3>1, <3>3, Zenon
    <3>7. IO'[s].start \in Nat /\ IO'[s].start =< FileSize /\ IO'[s].len = 0
      <4>1. IO[s].start \in Nat /\ IO[s].len \in Nat /\ IO[s].start + IO[s].len =< FileSize
        BY <2>1, Zenon
      <4>2. IO[s].start =< FileSize
        BY <4>1, WindowAssumption
      <4> QED
        BY <3>1, <3>3, <4>1, <4>2, Zenon
    <3>8. IO'[s].start + IO'[s].len =< FileSize
      BY <3>7
    <3> QED
      BY <2>3, <3>4, <3>5, <3>6, <3>8, Zenon
  <2> QED
    BY <2>2, <2>3
<1>4. /\ kernel'[fd] = Window!Closed /\ \A f \in Fds : f # fd => kernel'[f] = kernel[f]
      /\ kernel' = [f \in Fds |-> kernel'[f]]
  BY DEF Window!Close, WindowInv, WindowTypes
<1>5. Window!OpenFds' = Window!OpenFds \ {fd}
  BY <1>4 DEF Window!OpenFds
<1>6. Window!NoFd \notin Fds
  BY WindowAssumption DEF Window!NoFd
<1>7. WindowTypes'
  <2>1. IO' = [s \in Window!Slots |-> IO'[s]]
    BY <1>1, Zenon DEF Window!io_drop
  <2>2. IO' \in [Window!Slots -> [fd : Fds \cup {Window!NoFd}, pos : Nat, start : Nat, len : Nat,
                                  of : Files \cup {"none"}]]
    BY <1>3, <2>1
  <2>3. \A f \in Window!OpenFds' : kernel'[f] \in [file : Files, pos : Nat, reading : BOOLEAN]
    BY <1>4, <1>5 DEF WindowInv, WindowTypes, Window!OpenFds
  <2>4. \A s \in Window!Slots : IO'[s].pos =< FileSize /\ IO'[s].start + IO'[s].len =< FileSize
    BY <1>3
  <2>5. crowded' \in BOOLEAN
    BY <1>1 DEF WindowInv, WindowTypes
  <2> QED
    BY <1>2, <1>4, <2>2, <2>3, <2>4, <2>5 DEF WindowTypes
<1>8. \A s \in Window!Slots : IO'[s].fd \in Fds => IO'[s] = IO[s] /\ IO[s].fd # fd
  BY <1>3, <1>6
<1>9. Owned' /\ Alone'
  <2>1. Owned'
    BY <1>4, <1>5, <1>8 DEF WindowInv, Owned
  <2>2. Alone'
    BY <1>8 DEF WindowInv, Alone
  <2> QED
    BY <2>1, <2>2
<1>10. GoesOn'
  <2> SUFFICES ASSUME ~crowded PROVE GoesOn'
    BY <1>1 DEF GoesOn
  <2>1. \A f \in Fds : f # fd => position'[f] = position[f]
    BY <1>2 DEF WindowInv, WindowTypes
  <2>2. ASSUME NEW f \in Window!OpenFds'
        PROVE  /\ position'[f] =< FileSize
               /\ kernel'[f].reading => \E s \in Window!Slots : IO'[s].fd = f
               /\ (\A s \in Window!Slots : IO'[s].fd # f) => kernel'[f].pos = position'[f]
    <3>1. f \in Window!OpenFds /\ f \in Fds /\ f # fd /\ kernel'[f] = kernel[f] /\ position'[f] = position[f]
      BY <1>4, <1>5, <2>1 DEF Window!OpenFds
    <3>2. \A s \in Window!Slots : IO[s].fd = f => IO'[s].fd = f
      BY <1>3, <3>1
    <3> QED
      BY <3>1, <3>2 DEF WindowInv, GoesOn
  <2>3. ASSUME NEW s \in Window!Slots, IO'[s].fd \in Fds
        PROVE  /\ IO'[s].pos = position'[IO'[s].fd]
               /\ IO'[s].len = 0 \/ IO'[s].of = kernel'[IO'[s].fd].file
    BY <1>4, <1>8, <2>1, <2>3 DEF WindowInv, GoesOn
  <2> QED
    BY <2>2, <2>3 DEF GoesOn
<1> QED
  BY <1>7, <1>9, <1>10 DEF WindowInv

(* Every step of the read windows.                                           *)
LEMMA WindowInductive == WindowInv /\ [Window!Next]_windowVars => WindowInv'
<1> SUFFICES ASSUME WindowInv, [Window!Next]_windowVars PROVE WindowInv'
  OBVIOUS
<1>1. CASE UNCHANGED windowVars
  BY <1>1, Zenon DEF windowVars, WindowInv, WindowTypes, Owned, Alone, GoesOn, Window!OpenFds
<1>2. ASSUME NEW name \in Files, NEW reading \in BOOLEAN, Window!Open(name, reading) PROVE WindowInv'
  BY <1>2, OpenKeeps
<1>3. ASSUME NEW fd \in Fds, Window!Read(fd) \/ Window!Close(fd) PROVE WindowInv'
  BY <1>3, ReadKeeps, CloseKeeps
<1>4. ASSUME NEW fd \in Fds, NEW to \in 0 .. FileSize, Window!Seek(fd, to) PROVE WindowInv'
  BY <1>4, SeekKeeps
<1> QED
  BY <1>1, <1>2, <1>3, <1>4 DEF Window!Next

(* The invariant is what the run checks.                                     *)
LEMMA WindowHolds == WindowInv => Window!ReadsContinue
<1> SUFFICES ASSUME WindowInv, ~crowded, NEW fd \in Window!OpenFds
             PROVE  Window!NextByte(fd) = <<kernel[fd].file, position[fd]>>
  BY DEF Window!ReadsContinue
<1>0. fd \in Fds
  BY DEF Window!OpenFds
<1>1. CASE Window!io_find(fd) = {}
  BY <1>1 DEF Window!NextByte, Window!io_find, WindowInv, GoesOn
<1>2. CASE Window!io_find(fd) # {}
  <2>1. PICK s \in Window!Slots : IO[s].fd = fd /\ Window!Min(Window!io_find(fd)) = s
    BY <1>0, <1>2, WindowOf
  <2>2. IO[s].pos = position[fd] /\ (IO[s].len = 0 \/ IO[s].of = kernel[fd].file)
    BY <1>0, <2>1 DEF WindowInv, GoesOn
  <2>3. IO[s].len = 0 => Window!Miss(IO[s])
    BY DEF Window!Miss, WindowInv, WindowTypes
  <2> QED
    BY <1>2, <2>1, <2>2, <2>3 DEF Window!NextByte
<1> QED
  BY <1>1, <1>2

(* As long as no more files are open for reading than there are windows,     *)
(* every read goes on in its own file where the last read or seek left off,  *)
(* for any descriptors, files, windows and sizes; and every byte offered to  *)
(* a compressed stream reaches the library once and in order, for any number *)
(* of streams that share the slots.                                          *)
THEOREM DataContinues == Spec => []DataGoesOn
<1>1. Init => WindowInv /\ ZlibInv
  BY WindowInit, ZlibInit DEF Init
<1>2. (WindowInv /\ ZlibInv) /\ [Next]_allVars => (WindowInv /\ ZlibInv)'
  BY WindowStep, WindowInductive, ZlibStep, ZlibInductive
<1>3. WindowInv /\ ZlibInv => DataGoesOn
  BY WindowHolds, ZlibHolds DEF DataGoesOn
<1> QED
  BY <1>1, <1>2, <1>3, PTL DEF Spec

-----------------------------------------------------------------------------
(* GlState: the copies of the state of the driver.                           *)

DriverFields == {"active", "bound", "buffer", "program", "caps", "image"}
ShadowFields == {"active", "bound", "buffer", "program", "caps", "meta"}

DriverTypes ==
    /\ driver = [f \in DriverFields |-> driver[f]] /\ shadow = [f \in ShadowFields |-> shadow[f]]
    /\ driver.active \in Units
    /\ driver.bound \in [Units -> Textures \cup {0}]
    /\ driver.buffer \in [Shadow!Targets -> Buffers \cup {0}]
    /\ driver.caps \in [Shadow!Caps -> BOOLEAN]
    /\ driver.image = [i \in Shadow!Images |-> driver.image[i]]
    /\ DOMAIN shadow.caps \subseteq Shadow!Caps /\ DOMAIN shadow.meta \subseteq Shadow!Images

ShadowInv == DriverTypes /\ Shadow!ShadowsAreTrue

(* What both have and the shim forwards.                                       *)
LEMMA SharedStateKeeps ==
    ASSUME ShadowInv, NEW which \in {"active", "bound", "buffer"}, NEW v,
           driver' = [driver EXCEPT ![which] = v], shadow' = [shadow EXCEPT ![which] = v],
           which = "active" => v \in Units, which = "bound" => v \in [Units -> Textures \cup {0}],
           which = "buffer" => v \in [Shadow!Targets -> Buffers \cup {0}], mipmapped' = mipmapped
    PROVE  ShadowInv'
<1>1. /\ driver' = [f \in DriverFields |-> driver'[f]] /\ shadow' = [f \in ShadowFields |-> shadow'[f]]
      /\ driver'[which] = v /\ shadow'[which] = v
      /\ \A f \in DriverFields : f # which => driver'[f] = driver[f]
      /\ \A f \in ShadowFields : f # which => shadow'[f] = shadow[f]
  BY DEF ShadowInv, DriverTypes, DriverFields, ShadowFields
<1>2. /\ driver'.program = driver.program /\ driver'.caps = driver.caps /\ driver'.image = driver.image
      /\ shadow'.program = shadow.program /\ shadow'.caps = shadow.caps /\ shadow'.meta = shadow.meta
  BY <1>1 DEF DriverFields, ShadowFields
<1>3. /\ driver'.active \in Units
      /\ driver'.bound \in [Units -> Textures \cup {0}]
      /\ driver'.buffer \in [Shadow!Targets -> Buffers \cup {0}]
      /\ shadow'.active = driver'.active /\ shadow'.bound = driver'.bound /\ shadow'.buffer = driver'.buffer
  BY <1>1 DEF DriverFields, ShadowFields, ShadowInv, DriverTypes, Shadow!ShadowsAreTrue
<1>4. DriverTypes'
  BY <1>1, <1>2, <1>3, Zenon DEF ShadowInv, DriverTypes
<1>5. Shadow!ShadowsAreTrue'
  <2>1. shadow.program \in {Shadow!Unknown, driver.program}
    BY Zenon DEF ShadowInv, Shadow!ShadowsAreTrue
  <2>2. shadow'.program \in {Shadow!Unknown, driver'.program}
    BY <1>2, <2>1
  <2>3. \A c \in DOMAIN shadow'.caps : shadow'.caps[c] = driver'.caps[c]
    BY <1>2, Zenon DEF ShadowInv, Shadow!ShadowsAreTrue
  <2>4. \A i \in DOMAIN shadow.meta :
          i \notin mipmapped => shadow.meta[i] \in {Shadow!Copied, driver.image[i]}
    BY Zenon DEF ShadowInv, Shadow!ShadowsAreTrue
  <2>5. \A i \in DOMAIN shadow'.meta :
          i \notin mipmapped' => shadow'.meta[i] \in {Shadow!Copied, driver'.image[i]}
    BY <1>2, <2>4
  <2> QED
    BY <1>3, <2>2, <2>3, <2>5, Zenon DEF Shadow!ShadowsAreTrue
<1> QED
  BY <1>4, <1>5 DEF ShadowInv

(* Nothing changes. *)
LEMMA ShadowRests == ASSUME ShadowInv, UNCHANGED stateVars PROVE ShadowInv'
<1>1. driver' = driver /\ shadow' = shadow /\ mipmapped' = mipmapped
  BY DEF stateVars
<1> QED
  BY <1>1, Zenon DEF ShadowInv, DriverTypes, Shadow!ShadowsAreTrue

(* Units, bindings and buffers. *)
LEMMA BindingsKeep ==
    ASSUME ShadowInv,
           \/ \E u \in Units : Shadow!t_glActiveTexture(u)
           \/ \E t \in Textures \cup {0} : Shadow!t_glBindTexture(t)
           \/ \E target \in Shadow!Targets, b \in Buffers \cup {0} : Shadow!t_glBindBuffer(target, b)
           \/ \E b \in Buffers : Shadow!t_glDeleteBuffers(b)
    PROVE  ShadowInv'
<1>0. /\ shadow.active = driver.active /\ shadow.bound = driver.bound /\ shadow.buffer = driver.buffer
      /\ driver.active \in Units /\ driver.bound \in [Units -> Textures \cup {0}]
      /\ driver.buffer \in [Shadow!Targets -> Buffers \cup {0}]
      /\ driver = [f \in DriverFields |-> driver[f]] /\ shadow = [f \in ShadowFields |-> shadow[f]]
  BY Zenon DEF ShadowInv, DriverTypes, Shadow!ShadowsAreTrue
<1>1. ASSUME NEW u \in Units, Shadow!t_glActiveTexture(u) PROVE ShadowInv'
  <2>1. CASE shadow.active = u
    BY <1>1, <2>1, ShadowRests, Zenon DEF Shadow!t_glActiveTexture, Shadow!Skip, stateVars
  <2>2. CASE shadow.active # u
    <3>1. driver' = [driver EXCEPT !.active = u] /\ shadow' = [shadow EXCEPT !.active = u] /\ mipmapped' = mipmapped
      BY <1>1, <2>2, Zenon DEF Shadow!t_glActiveTexture
    <3> QED
      BY <3>1, SharedStateKeeps
  <2> QED
    BY <2>1, <2>2
<1>2. ASSUME NEW t \in Textures \cup {0}, Shadow!t_glBindTexture(t) PROVE ShadowInv'
  <2>1. CASE Shadow!bound_texture = t
    BY <1>2, <2>1, ShadowRests, Zenon DEF Shadow!t_glBindTexture, Shadow!Skip, stateVars
  <2>2. CASE Shadow!bound_texture # t
    <3> DEFINE v == [driver.bound EXCEPT ![driver.active] = t]
    <3>1. /\ driver' = [driver EXCEPT !.bound[driver.active] = t]
          /\ shadow' = [shadow EXCEPT !.bound[shadow.active] = t] /\ mipmapped' = mipmapped
      BY <1>2, <2>2, Zenon DEF Shadow!t_glBindTexture
    <3>2. v \in [Units -> Textures \cup {0}]
      BY <1>0
    <3>3. driver' = [driver EXCEPT !.bound = v] /\ shadow' = [shadow EXCEPT !.bound = v]
      BY <1>0, <3>1 DEF DriverFields, ShadowFields
    <3> HIDE DEF v
    <3> QED
      BY <3>1, <3>2, <3>3, SharedStateKeeps
  <2> QED
    BY <2>1, <2>2
<1>3. ASSUME NEW target \in Shadow!Targets, NEW b \in Buffers \cup {0}, Shadow!t_glBindBuffer(target, b) PROVE ShadowInv'
  <2>1. CASE shadow.buffer[target] = b
    BY <1>3, <2>1, ShadowRests, Zenon DEF Shadow!t_glBindBuffer, Shadow!Skip, stateVars
  <2>2. CASE shadow.buffer[target] # b
    <3> DEFINE v == [driver.buffer EXCEPT ![target] = b]
    <3>1. /\ driver' = [driver EXCEPT !.buffer[target] = b]
          /\ shadow' = [shadow EXCEPT !.buffer[target] = b] /\ mipmapped' = mipmapped
      BY <1>3, <2>2, Zenon DEF Shadow!t_glBindBuffer
    <3>2. v \in [Shadow!Targets -> Buffers \cup {0}]
      BY <1>0
    <3>3. driver' = [driver EXCEPT !.buffer = v] /\ shadow' = [shadow EXCEPT !.buffer = v]
      BY <1>0, <3>1 DEF DriverFields, ShadowFields
    <3> HIDE DEF v
    <3> QED
      BY <3>1, <3>2, <3>3, SharedStateKeeps
  <2> QED
    BY <2>1, <2>2
<1>4. ASSUME NEW b \in Buffers, Shadow!t_glDeleteBuffers(b) PROVE ShadowInv'
  <2> DEFINE v == Shadow!Unbound(driver.buffer, b)
  <2>1. /\ driver' = [driver EXCEPT !.buffer = Shadow!Unbound(@, b)]
        /\ shadow' = [shadow EXCEPT !.buffer = Shadow!Unbound(@, b)] /\ mipmapped' = mipmapped
    BY <1>4, Zenon DEF Shadow!t_glDeleteBuffers
  <2>2. v \in [Shadow!Targets -> Buffers \cup {0}]
    BY <1>0 DEF Shadow!Unbound, Shadow!None
  <2> HIDE DEF v
  <2>3. driver' = [driver EXCEPT !.buffer = v] /\ shadow' = [shadow EXCEPT !.buffer = v]
    BY <1>0, <2>1, Zenon DEF v
  <2> QED
    BY <2>1, <2>2, <2>3, SharedStateKeeps
<1> QED
  BY <1>1, <1>2, <1>3, <1>4

(* What the next state has to fulfil when the bindings stay.                   *)
LEMMA ShadowGoesOn ==
    ASSUME ShadowInv,
           driver' = [f \in DriverFields |-> driver'[f]], shadow' = [f \in ShadowFields |-> shadow'[f]],
           driver'.active = driver.active, driver'.bound = driver.bound, driver'.buffer = driver.buffer,
           shadow'.active = shadow.active, shadow'.bound = shadow.bound, shadow'.buffer = shadow.buffer,
           driver'.caps \in [Shadow!Caps -> BOOLEAN], DOMAIN shadow'.caps \subseteq Shadow!Caps,
           driver'.image = [i \in Shadow!Images |-> driver'.image[i]],
           DOMAIN shadow'.meta \subseteq Shadow!Images,
           shadow'.program \in {-1, driver'.program},
           \A c \in DOMAIN shadow'.caps : shadow'.caps[c] = driver'.caps[c],
           \A i \in DOMAIN shadow'.meta :
              i \notin mipmapped' => shadow'.meta[i] \in {"copied", driver'.image[i]}
    PROVE  ShadowInv'
<1>1. DriverTypes'
  BY Zenon DEF ShadowInv, DriverTypes
<1>2. Shadow!ShadowsAreTrue'
  BY Zenon DEF ShadowInv, Shadow!ShadowsAreTrue, Shadow!Unknown, Shadow!Copied
<1> QED
  BY <1>1, <1>2 DEF ShadowInv

(* Programs and capabilities. *)
LEMMA ProgramsKeep ==
    ASSUME ShadowInv, NEW p, Shadow!t_glUseProgram(p) \/ Shadow!t_glDeleteProgram(p)
    PROVE  ShadowInv'
<1>0. /\ driver = [f \in DriverFields |-> driver[f]] /\ shadow = [f \in ShadowFields |-> shadow[f]]
      /\ shadow.program \in {-1, driver.program}
      /\ driver.caps \in [Shadow!Caps -> BOOLEAN] /\ DOMAIN shadow.caps \subseteq Shadow!Caps
      /\ driver.image = [i \in Shadow!Images |-> driver.image[i]]
      /\ DOMAIN shadow.meta \subseteq Shadow!Images
      /\ \A c \in DOMAIN shadow.caps : shadow.caps[c] = driver.caps[c]
      /\ \A i \in DOMAIN shadow.meta :
            i \notin mipmapped => shadow.meta[i] \in {"copied", driver.image[i]}
  BY Zenon DEF ShadowInv, DriverTypes, Shadow!ShadowsAreTrue, Shadow!Unknown, Shadow!Copied
<1>1. CASE UNCHANGED <<driver, shadow, mipmapped>>
  BY <1>1, ShadowRests, Zenon DEF stateVars
<1>2. CASE driver' = [driver EXCEPT !.program = p] /\ shadow' = [shadow EXCEPT !.program = p] /\ mipmapped' = mipmapped
  <2>1. /\ driver' = [f \in DriverFields |-> driver'[f]] /\ shadow' = [f \in ShadowFields |-> shadow'[f]]
        /\ driver'.program = p /\ shadow'.program = p
        /\ driver'.active = driver.active /\ driver'.bound = driver.bound /\ driver'.buffer = driver.buffer
        /\ driver'.caps = driver.caps /\ driver'.image = driver.image
        /\ shadow'.active = shadow.active /\ shadow'.bound = shadow.bound /\ shadow'.buffer = shadow.buffer
        /\ shadow'.caps = shadow.caps /\ shadow'.meta = shadow.meta
    BY <1>0, <1>2 DEF DriverFields, ShadowFields
  <2>2. /\ shadow'.program \in {-1, driver'.program}
        /\ \A c \in DOMAIN shadow'.caps : shadow'.caps[c] = driver'.caps[c]
        /\ \A i \in DOMAIN shadow'.meta :
              i \notin mipmapped' => shadow'.meta[i] \in {"copied", driver'.image[i]}
    <3>1. shadow'.program \in {-1, driver'.program}
      BY <2>1
    <3>2. \A c \in DOMAIN shadow'.caps : shadow'.caps[c] = driver'.caps[c]
      BY <1>0, <2>1, Zenon
    <3>3. \A i \in DOMAIN shadow'.meta :
              i \notin mipmapped' => shadow'.meta[i] \in {"copied", driver'.image[i]}
      BY <1>0, <1>2, <2>1, Zenon
    <3> QED
      BY <3>1, <3>2, <3>3
  <2> QED
    BY <1>0, <1>2, <2>1, <2>2, ShadowGoesOn, Zenon
<1>3. CASE /\ driver' = driver /\ mipmapped' = mipmapped
           /\ shadow' = [shadow EXCEPT !.program = IF @ = p THEN -1 ELSE @]
  <2> DEFINE q == IF shadow.program = p THEN -1 ELSE shadow.program
  <2>1. shadow' = [shadow EXCEPT !.program = q] /\ q \in {-1, driver.program}
    BY <1>0, <1>3
  <2> HIDE DEF q
  <2>2. /\ shadow' = [f \in ShadowFields |-> shadow'[f]] /\ shadow'.program = q
        /\ shadow'.active = shadow.active /\ shadow'.bound = shadow.bound /\ shadow'.buffer = shadow.buffer
        /\ shadow'.caps = shadow.caps /\ shadow'.meta = shadow.meta
    BY <1>0, <2>1 DEF DriverFields, ShadowFields
  <2> QED
    BY <1>0, <1>3, <2>1, <2>2, ShadowGoesOn, Zenon
<1> QED
  BY <1>1, <1>2, <1>3, Zenon DEF Shadow!t_glUseProgram, Shadow!t_glDeleteProgram, Shadow!Skip, Shadow!Unknown

(* Capabilities, and the present that sets them and gives them back.         *)
LEMMA CapsKeep ==
    ASSUME ShadowInv,
           Shadow!mr_gl_blit_to_window \/ \E c \in Shadow!Caps, on \in BOOLEAN : Shadow!set_cap(c, on)
    PROVE  ShadowInv'
<1>0. /\ driver = [f \in DriverFields |-> driver[f]] /\ shadow = [f \in ShadowFields |-> shadow[f]]
      /\ shadow.program \in {-1, driver.program}
      /\ driver.caps \in [Shadow!Caps -> BOOLEAN] /\ DOMAIN shadow.caps \subseteq Shadow!Caps
      /\ driver.image = [i \in Shadow!Images |-> driver.image[i]]
      /\ DOMAIN shadow.meta \subseteq Shadow!Images
      /\ \A c \in DOMAIN shadow.caps : shadow.caps[c] = driver.caps[c]
      /\ \A i \in DOMAIN shadow.meta :
            i \notin mipmapped => shadow.meta[i] \in {"copied", driver.image[i]}
  BY Zenon DEF ShadowInv, DriverTypes, Shadow!ShadowsAreTrue, Shadow!Unknown, Shadow!Copied
<1>1. CASE Shadow!mr_gl_blit_to_window
  <2> DEFINE off == [c \in Shadow!Caps |-> c \notin {"scissor", "dither"} /\ driver.caps[c]]
             back == [c \in Shadow!Caps |-> Shadow!draw_hud(off)[c] \/ (c \in {"scissor", "dither"} /\ driver.caps[c])]
  <2>1. driver' = [driver EXCEPT !.caps = back] /\ shadow' = shadow /\ mipmapped' = mipmapped
    BY <1>1 DEF Shadow!mr_gl_blit_to_window
  <2>2. off \in [Shadow!Caps -> BOOLEAN] /\ off["scissor"] = FALSE
    BY <1>0 DEF Shadow!Caps
  <2>3. Shadow!draw_hud(off) = off
    <3> HIDE DEF off
    <3>1. [[off EXCEPT !["scissor"] = TRUE] EXCEPT !["scissor"] = FALSE] = off
      BY <2>2
    <3> QED
      BY <2>2, <3>1, Zenon DEF Shadow!draw_hud
  <2>4. back = driver.caps
    <3>1. ASSUME NEW c \in Shadow!Caps PROVE back[c] = driver.caps[c]
      <4>1. back[c] = (off[c] \/ (c \in {"scissor", "dither"} /\ driver.caps[c]))
        BY <2>3, Zenon
      <4>2. off[c] = (c \notin {"scissor", "dither"} /\ driver.caps[c])
        BY Zenon
      <4>3. driver.caps[c] \in BOOLEAN
        BY <1>0, Zenon
      <4> HIDE DEF off, back
      <4> QED
        BY <4>1, <4>2, <4>3
    <3>2. back = [c \in Shadow!Caps |-> back[c]] /\ driver.caps = [c \in Shadow!Caps |-> driver.caps[c]]
      BY <1>0
    <3> HIDE DEF back
    <3> QED
      BY <3>1, <3>2
  <2> HIDE DEF back
  <2>5. driver' = driver
    BY <1>0, <2>1, <2>4 DEF DriverFields
  <2> QED
    BY <2>1, <2>5, ShadowRests DEF stateVars
<1>2. ASSUME NEW c \in Shadow!Caps, NEW on \in BOOLEAN, Shadow!set_cap(c, on) PROVE ShadowInv'
  <2>1. CASE c \in DOMAIN shadow.caps /\ shadow.caps[c] = on
    BY <1>2, <2>1, ShadowRests, Zenon DEF Shadow!set_cap, Shadow!Skip, stateVars
  <2>2. CASE ~(c \in DOMAIN shadow.caps /\ shadow.caps[c] = on)
    <3> DEFINE v == [driver.caps EXCEPT ![c] = on]
               w == [d \in DOMAIN shadow.caps \cup {c} |-> IF d = c THEN on ELSE shadow.caps[d]]
    <3>1. /\ driver' = [driver EXCEPT !.caps[c] = on] /\ mipmapped' = mipmapped
          /\ shadow' = [shadow EXCEPT !.caps = [d \in DOMAIN @ \cup {c} |-> IF d = c THEN on ELSE @[d]]]
      BY <1>2, <2>2, Zenon DEF Shadow!set_cap
    <3>2. driver' = [driver EXCEPT !.caps = v] /\ shadow' = [shadow EXCEPT !.caps = w]
      BY <1>0, <3>1
    <3>3. /\ v \in [Shadow!Caps -> BOOLEAN] /\ DOMAIN w \subseteq Shadow!Caps
          /\ \A d \in DOMAIN w : w[d] = v[d]
      BY <1>0
    <3> HIDE DEF v, w
    <3>4. /\ driver' = [f \in DriverFields |-> driver'[f]] /\ shadow' = [f \in ShadowFields |-> shadow'[f]]
          /\ driver'.caps = v /\ shadow'.caps = w
          /\ driver'.active = driver.active /\ driver'.bound = driver.bound /\ driver'.buffer = driver.buffer
          /\ driver'.program = driver.program /\ driver'.image = driver.image
          /\ shadow'.active = shadow.active /\ shadow'.bound = shadow.bound /\ shadow'.buffer = shadow.buffer
          /\ shadow'.program = shadow.program /\ shadow'.meta = shadow.meta
      BY <1>0, <3>2 DEF DriverFields, ShadowFields
    <3>5. /\ shadow'.program \in {-1, driver'.program}
          /\ \A i \in DOMAIN shadow'.meta :
                i \notin mipmapped' => shadow'.meta[i] \in {"copied", driver'.image[i]}
      BY <1>0, <3>1, <3>4
    <3>6. /\ driver'.caps \in [Shadow!Caps -> BOOLEAN] /\ DOMAIN shadow'.caps \subseteq Shadow!Caps
          /\ \A d \in DOMAIN shadow'.caps : shadow'.caps[d] = driver'.caps[d]
      BY <3>3, <3>4
    <3>7. driver'.image = [i \in Shadow!Images |-> driver'.image[i]] /\ DOMAIN shadow'.meta \subseteq Shadow!Images
      BY <1>0, <3>4
    <3> QED
      BY <3>4, <3>5, <3>6, <3>7, ShadowGoesOn, Zenon
  <2> QED
    BY <2>1, <2>2
<1> QED
  BY <1>1, <1>2

(* A step on the images of the bound textures, and on their records.           *)
LEMMA ImagesKeep ==
    ASSUME ShadowInv, NEW v, NEW w, driver' = [driver EXCEPT !.image = v], shadow' = [shadow EXCEPT !.meta = w],
           v = [i \in Shadow!Images |-> v[i]], DOMAIN w \subseteq Shadow!Images,
           \A i \in DOMAIN w : i \notin mipmapped' => w[i] \in {"copied", v[i]}
    PROVE  ShadowInv'
<1>0. /\ driver = [f \in DriverFields |-> driver[f]] /\ shadow = [f \in ShadowFields |-> shadow[f]]
      /\ shadow.program \in {-1, driver.program}
      /\ driver.caps \in [Shadow!Caps -> BOOLEAN] /\ DOMAIN shadow.caps \subseteq Shadow!Caps
      /\ \A c \in DOMAIN shadow.caps : shadow.caps[c] = driver.caps[c]
  BY Zenon DEF ShadowInv, DriverTypes, Shadow!ShadowsAreTrue, Shadow!Unknown, Shadow!Copied
<1>1. /\ driver' = [f \in DriverFields |-> driver'[f]] /\ shadow' = [f \in ShadowFields |-> shadow'[f]]
      /\ driver'.image = v /\ shadow'.meta = w
      /\ driver'.active = driver.active /\ driver'.bound = driver.bound /\ driver'.buffer = driver.buffer
      /\ driver'.program = driver.program /\ driver'.caps = driver.caps
      /\ shadow'.active = shadow.active /\ shadow'.bound = shadow.bound /\ shadow'.buffer = shadow.buffer
      /\ shadow'.program = shadow.program /\ shadow'.caps = shadow.caps
  BY <1>0 DEF DriverFields, ShadowFields
<1>2. /\ shadow'.program \in {-1, driver'.program}
      /\ \A c \in DOMAIN shadow'.caps : shadow'.caps[c] = driver'.caps[c]
  BY <1>0, <1>1
<1> QED
  BY <1>0, <1>1, <1>2, ShadowGoesOn, Zenon

(* An image that is specified, with the record that is stored for it.          *)
LEMMA SpecifiedKeeps ==
    ASSUME ShadowInv, NEW level \in Shadow!Levels, NEW shape, NEW stored \in {shape, "copied"},
           driver' = [driver EXCEPT !.image = Shadow!Specified(level, shape)],
           shadow' = [shadow EXCEPT !.meta = Shadow!texture_meta_store(<<Shadow!bound_texture, level>>, stored)],
           mipmapped' = mipmapped \ {<<Shadow!bound_texture, level>>}
    PROVE  ShadowInv'
<1> DEFINE t == driver.bound[driver.active]
           k == <<t, level>>
           v == Shadow!Specified(level, shape)
           w == Shadow!texture_meta_store(k, stored)
<1>1. Shadow!bound_texture = t /\ t \in Textures \cup {0}
  BY DEF ShadowInv, DriverTypes, Shadow!ShadowsAreTrue, Shadow!bound_texture
<1>2. /\ driver.image = [i \in Shadow!Images |-> driver.image[i]] /\ DOMAIN shadow.meta \subseteq Shadow!Images
      /\ \A i \in DOMAIN shadow.meta :
            i \notin mipmapped => shadow.meta[i] \in {"copied", driver.image[i]}
  BY Zenon DEF ShadowInv, DriverTypes, Shadow!ShadowsAreTrue, Shadow!Copied
<1>3. /\ driver' = [driver EXCEPT !.image = v] /\ shadow' = [shadow EXCEPT !.meta = w]
      /\ mipmapped' = mipmapped \ {k}
  BY <1>1
<1> HIDE DEF t
<1>4. k[1] = t /\ (t # 0 => k \in Shadow!Images) /\ (t = 0 => k \notin Shadow!Images)
  BY <1>1, UnitsAssumption DEF Shadow!Images
<1>5. v = IF t = 0 THEN driver.image ELSE [driver.image EXCEPT ![k] = shape]
  BY Zenon DEF Shadow!Specified, Shadow!None, t
<1> HIDE DEF k, v
<1>6. /\ v = [i \in Shadow!Images |-> v[i]]
      /\ \A i \in Shadow!Images : i # k => v[i] = driver.image[i]
      /\ t # 0 => v[k] = shape
      /\ t = 0 => v = driver.image
  BY <1>2, <1>4, <1>5
<1>7. \/ w = shadow.meta /\ (t = 0 \/ k \notin DOMAIN shadow.meta)
      \/ /\ w = [j \in DOMAIN shadow.meta \cup {k} |-> IF j = k THEN stored ELSE shadow.meta[j]]
         /\ t # 0
  BY <1>4 DEF Shadow!texture_meta_store, Shadow!None
<1> HIDE DEF w
<1>8. DOMAIN w \subseteq Shadow!Images /\ \A i \in DOMAIN w : i \notin mipmapped' => w[i] \in {"copied", v[i]}
  <2>1. CASE w = shadow.meta /\ (t = 0 \/ k \notin DOMAIN shadow.meta)
    BY <1>2, <1>3, <1>4, <1>6, <2>1
  <2>2. CASE w = [j \in DOMAIN shadow.meta \cup {k} |-> IF j = k THEN stored ELSE shadow.meta[j]] /\ t # 0
    BY <1>2, <1>3, <1>4, <1>6, <2>2
  <2> QED
    BY <1>7, <2>1, <2>2
<1> QED
  BY <1>3, <1>6, <1>8, ImagesKeep

(* Images and textures. *)
LEMMA TexturesKeep ==
    ASSUME ShadowInv,
           \/ \E t \in Textures : Shadow!t_glDeleteTextures(t)
           \/ \E level \in Shadow!Levels, shape \in Shapes :
                  \/ \E pixels \in BOOLEAN : Shadow!t_glTexImage2D(level, shape, pixels)
                  \/ Shadow!t_glCopyTexImage2D(level, shape)
           \/ Shadow!glGenerateMipmap
    PROVE  ShadowInv'
<1>0. /\ driver = [f \in DriverFields |-> driver[f]] /\ shadow = [f \in ShadowFields |-> shadow[f]]
      /\ driver.active \in Units /\ driver.bound \in [Units -> Textures \cup {0}] /\ shadow.bound = driver.bound
      /\ driver.image = [i \in Shadow!Images |-> driver.image[i]] /\ DOMAIN shadow.meta \subseteq Shadow!Images
      /\ \A i \in DOMAIN shadow.meta :
            i \notin mipmapped => shadow.meta[i] \in {"copied", driver.image[i]}
  BY Zenon DEF ShadowInv, DriverTypes, Shadow!ShadowsAreTrue, Shadow!Copied
<1>1. ASSUME NEW level \in Shadow!Levels, NEW shape \in Shapes, NEW pixels \in BOOLEAN,
             Shadow!t_glTexImage2D(level, shape, pixels)
      PROVE  ShadowInv'
  <2>1. CASE Shadow!Skip /\ mipmapped' = mipmapped
    BY <2>1, ShadowRests, Zenon DEF Shadow!Skip, stateVars
  <2>2. CASE ~(Shadow!Skip /\ mipmapped' = mipmapped)
    <3>1. /\ driver' = [driver EXCEPT !.image = Shadow!Specified(level, shape)]
          /\ mipmapped' = mipmapped \ {<<Shadow!bound_texture, level>>}
          /\ shadow' = [shadow EXCEPT !.meta = Shadow!texture_meta_store(<<Shadow!bound_texture, level>>, shape)]
      BY <1>1, <2>2, Zenon DEF Shadow!t_glTexImage2D
    <3> QED
      BY <3>1, SpecifiedKeeps, Zenon
  <2> QED
    BY <2>1, <2>2
<1>2. ASSUME NEW level \in Shadow!Levels, NEW shape \in Shapes, Shadow!t_glCopyTexImage2D(level, shape)
      PROVE  ShadowInv'
  BY <1>2, SpecifiedKeeps, Zenon DEF Shadow!t_glCopyTexImage2D, Shadow!Copied
<1>3. ASSUME Shadow!glGenerateMipmap PROVE ShadowInv'
  <2> DEFINE t == driver.bound[driver.active]
             v == [driver.image EXCEPT ![<<t, 1>>] = Half(driver.image[<<t, 0>>])]
             w == shadow.meta
  <2>1. /\ driver' = [driver EXCEPT !.image[<<t, 1>>] = Half(driver.image[<<t, 0>>])]
        /\ mipmapped' = mipmapped \cup {<<t, 1>>} /\ shadow' = shadow
    BY <1>3 DEF Shadow!glGenerateMipmap
  <2>2. driver' = [driver EXCEPT !.image = v] /\ shadow' = [shadow EXCEPT !.meta = w]
    BY <1>0, <2>1 DEF DriverFields, ShadowFields
  <2>3. v = [i \in Shadow!Images |-> v[i]] /\ \A i \in Shadow!Images : i # <<t, 1>> => v[i] = driver.image[i]
    BY <1>0
  <2> HIDE DEF t, v
  <2>5. \A i \in DOMAIN w : i \notin mipmapped' => w[i] \in {"copied", v[i]}
    BY <1>0, <2>1, <2>3
  <2> QED
    BY <1>0, <2>2, <2>3, <2>5, ImagesKeep
<1>4. ASSUME NEW t \in Textures, Shadow!t_glDeleteTextures(t) PROVE ShadowInv'
  <2> DEFINE b == Shadow!Unbound(driver.bound, t)
             v == [i \in Shadow!Images |-> IF i[1] = t THEN "unset" ELSE driver.image[i]]
             w == Shadow!texture_meta_remove(t)
  <2>1. /\ driver' = [driver EXCEPT !.bound = b, !.image = v]
        /\ shadow' = [shadow EXCEPT !.bound = b, !.meta = w]
        /\ mipmapped' = {i \in mipmapped : i[1] # t}
    <3>1. /\ driver' = [driver EXCEPT !.bound = Shadow!Unbound(@, t),
                                     !.image = [i \in Shadow!Images |-> IF i[1] = t THEN Shadow!Unset ELSE @[i]]]
          /\ shadow' = [shadow EXCEPT !.bound = Shadow!Unbound(@, t), !.meta = Shadow!texture_meta_remove(t)]
          /\ mipmapped' = {i \in mipmapped : i[1] # t}
      BY <1>4, Zenon DEF Shadow!t_glDeleteTextures
    <3> QED
      BY <1>0, <3>1 DEF Shadow!Unset, DriverFields, ShadowFields
  <2>2. b \in [Units -> Textures \cup {0}]
    BY <1>0 DEF Shadow!Unbound, Shadow!None
  <2>3. /\ v = [i \in Shadow!Images |-> v[i]]
        /\ \A i \in Shadow!Images : i[1] # t => v[i] = driver.image[i]
    OBVIOUS
  <2>4. /\ DOMAIN w \subseteq DOMAIN shadow.meta
        /\ \A i \in DOMAIN w : i[1] # t /\ w[i] = shadow.meta[i]
    BY DEF Shadow!texture_meta_remove
  <2> HIDE DEF b, v, w
  <2>5. /\ driver' = [f \in DriverFields |-> driver'[f]] /\ shadow' = [f \in ShadowFields |-> shadow'[f]]
        /\ driver'.bound = b /\ driver'.image = v /\ shadow'.bound = b /\ shadow'.meta = w
        /\ driver'.active = driver.active /\ driver'.buffer = driver.buffer
        /\ driver'.program = driver.program /\ driver'.caps = driver.caps
        /\ shadow'.active = shadow.active /\ shadow'.buffer = shadow.buffer
        /\ shadow'.program = shadow.program /\ shadow'.caps = shadow.caps
    BY <1>0, <2>1 DEF DriverFields, ShadowFields
  <2>6. \A i \in DOMAIN w : i \notin mipmapped' => w[i] \in {"copied", v[i]}
    BY <1>0, <2>1, <2>3, <2>4
  <2>7. DOMAIN w \subseteq Shadow!Images
    BY <1>0, <2>4, Zenon
  <2>8. DriverTypes'
    BY <2>2, <2>3, <2>5, <2>7, Zenon DEF ShadowInv, DriverTypes
  <2>9. Shadow!ShadowsAreTrue'
    BY <2>5, <2>6, Zenon DEF ShadowInv, Shadow!ShadowsAreTrue, Shadow!Copied
  <2> QED
    BY <2>8, <2>9 DEF ShadowInv
<1> QED
  BY <1>1, <1>2, <1>3, <1>4

(* The first unit exists. *)
LEMMA FirstUnitExists == Shadow!FirstUnit \in Units
BY UnitsAssumption, Zenon DEF Shadow!FirstUnit

(* What the two are when the program starts. *)
LEMMA ShadowInit == ASSUME Shadow!Init PROVE ShadowInv
<1>1. /\ driver = [f \in DriverFields |-> driver[f]] /\ shadow = [f \in ShadowFields |-> shadow[f]]
      /\ driver.active = Shadow!FirstUnit /\ shadow.active = Shadow!FirstUnit
  BY DEF Shadow!Init, DriverFields, ShadowFields
<1>2. /\ driver.bound = [u \in Units |-> 0] /\ shadow.bound = [u \in Units |-> 0]
      /\ driver.buffer = [t \in Shadow!Targets |-> 0] /\ shadow.buffer = [t \in Shadow!Targets |-> 0]
      /\ shadow.program = -1
  BY DEF Shadow!Init, Shadow!None, Shadow!Unknown
<1>3. /\ driver.caps = [c \in Shadow!Caps |-> c = "dither"]
      /\ driver.image = [i \in Shadow!Images |-> Shadow!Unset]
      /\ DOMAIN shadow.caps = {} /\ DOMAIN shadow.meta = {}
  BY DEF Shadow!Init
<1>4. DriverTypes
  BY <1>1, <1>2, <1>3, FirstUnitExists DEF DriverTypes
<1>5. Shadow!ShadowsAreTrue
  BY <1>1, <1>2, <1>3 DEF Shadow!ShadowsAreTrue, Shadow!Unknown
<1> QED
  BY <1>4, <1>5 DEF ShadowInv

(* Every call of the game, and every present. *)
LEMMA ShadowInductive == ASSUME ShadowInv, Next \/ UNCHANGED allVars PROVE ShadowInv'
<1>1. CASE UNCHANGED stateVars
  BY <1>1, ShadowRests
<1>2. CASE Shadow!Next
  BY <1>2, BindingsKeep, ProgramsKeep, CapsKeep, TexturesKeep, Zenon
     DEF Shadow!Next, Shadow!TextureCall, Shadow!StateCall, Shadow!None
<1>3. Shadow!Next \/ UNCHANGED stateVars
  BY Zenon DEF Next, OthersRest, allVars
<1> QED
  BY <1>1, <1>2, <1>3

(* In every run the shim believes what the driver has (GlState.ShadowsAreTrue),*)
(* so no call of the game that shim_gl.c skips would have had an effect.       *)
THEOREM SkippedCallsChangeNothing == Spec => []ShadowsAreTrue
<1>1. Init => ShadowInv
  BY ShadowInit, Zenon DEF Init
<1>2. ShadowInv /\ [Next]_allVars => ShadowInv'
  BY ShadowInductive
<1>3. ShadowInv => ShadowsAreTrue
  BY Zenon DEF ShadowInv, ShadowsAreTrue
<1> QED
  BY <1>1, <1>2, <1>3, PTL DEF Spec

-----------------------------------------------------------------------------
(* OfflineEvents and OfflineUi: the offline mode.                            *)

EventManagers == [address : Managers \cup {Events!NoManager},
                  phase : {"EMPTY", "ADDED", "READY", "FAILED"}, backoff : BOOLEAN, active : Int]
Statuses == {-1, 0, 1}
EventScenes == [mgr : EventManagers, list : Seq([week : Int, object : Nat]),
                objects : [made : Nat, freed : SUBSET Nat], fault : BOOLEAN, status : Statuses]

(* Allocations are numbered in their order, those returned are not in the list. *)
Allocated(s) ==
    /\ \A o \in s.objects.freed : o < s.objects.made
    /\ \A i \in 1..Len(s.list) : s.list[i].object < s.objects.made
                                 /\ s.list[i].object \notin s.objects.freed

(* The list has no event before the first one was added, then at most those of *)
(* a week and the next.                                                        *)
Listed(s) ==
    /\ s.mgr.phase = "EMPTY" => s.list = << >>
    /\ Len(s.list) =< 2
    /\ Len(s.list) = 2 => s.list[2].week = s.list[1].week + 1

GoodScene(s) == s \in EventScenes /\ Allocated(s) /\ Listed(s)

EventsInv == week \in Int /\ GoodScene(Events!Scene)

(* Changing one field of a scene leaves the others.                            *)
LEMMA StatusOf ==
    ASSUME NEW s \in EventScenes, NEW v \in Statuses,
           NEW t, t = [s EXCEPT !.status = v]
    PROVE  /\ t \in EventScenes /\ t.status = v
           /\ t.fault = s.fault /\ t.mgr = s.mgr /\ t.list = s.list /\ t.objects = s.objects
<1> DEFINE M == EventManagers
           L == Seq([week : Int, object : Nat])
           O == [made : Nat, freed : SUBSET Nat]
           V == Statuses
<1>1. EventScenes = [mgr : M, list : L, objects : O, fault : BOOLEAN, status : V]
  BY DEF EventScenes
<1>2. v \in V
  OBVIOUS
<1> HIDE DEF M, L, O, V
<1> QED
  BY <1>1, <1>2

(* A scene with its fault changed.                                           *)
LEMMA FaultOf ==
    ASSUME NEW s \in EventScenes,
           NEW t, t = [s EXCEPT !.fault = TRUE]
    PROVE  /\ t \in EventScenes /\ t.fault = TRUE
           /\ t.status = s.status /\ t.mgr = s.mgr /\ t.list = s.list /\ t.objects = s.objects
<1> DEFINE M == EventManagers
           L == Seq([week : Int, object : Nat])
           O == [made : Nat, freed : SUBSET Nat]
           V == Statuses
<1>1. EventScenes = [mgr : M, list : L, objects : O, fault : BOOLEAN, status : V]
  BY DEF EventScenes
<1> HIDE DEF M, L, O, V
<1> QED
  BY <1>1

(* A scene with its manager changed.                                         *)
LEMMA ManagerOf ==
    ASSUME NEW s \in EventScenes, NEW v \in EventManagers,
           NEW t, t = [s EXCEPT !.mgr = v]
    PROVE  /\ t \in EventScenes /\ t.mgr = v
           /\ t.status = s.status /\ t.fault = s.fault /\ t.list = s.list /\ t.objects = s.objects
<1> DEFINE M == EventManagers
           L == Seq([week : Int, object : Nat])
           O == [made : Nat, freed : SUBSET Nat]
           V == Statuses
<1>1. EventScenes = [mgr : M, list : L, objects : O, fault : BOOLEAN, status : V]
  BY DEF EventScenes
<1>2. v \in M
  OBVIOUS
<1> HIDE DEF M, L, O, V
<1> QED
  BY <1>1, <1>2

(* A scene with its list changed.                                            *)
LEMMA ListOf ==
    ASSUME NEW s \in EventScenes, NEW v \in Seq([week : Int, object : Nat]),
           NEW t, t = [s EXCEPT !.list = v]
    PROVE  /\ t \in EventScenes /\ t.list = v
           /\ t.status = s.status /\ t.fault = s.fault /\ t.mgr = s.mgr /\ t.objects = s.objects
<1> DEFINE M == EventManagers
           L == Seq([week : Int, object : Nat])
           O == [made : Nat, freed : SUBSET Nat]
           V == Statuses
<1>1. EventScenes = [mgr : M, list : L, objects : O, fault : BOOLEAN, status : V]
  BY DEF EventScenes
<1>2. v \in L
  OBVIOUS
<1> HIDE DEF M, L, O, V
<1> QED
  BY <1>1, <1>2

(* A scene with its objects changed.                                         *)
LEMMA ObjectsOf ==
    ASSUME NEW s \in EventScenes, NEW v \in [made : Nat, freed : SUBSET Nat],
           NEW t, t = [s EXCEPT !.objects = v]
    PROVE  /\ t \in EventScenes /\ t.objects = v
           /\ t.status = s.status /\ t.fault = s.fault /\ t.mgr = s.mgr /\ t.list = s.list
<1> DEFINE M == EventManagers
           L == Seq([week : Int, object : Nat])
           O == [made : Nat, freed : SUBSET Nat]
           V == Statuses
<1>1. EventScenes = [mgr : M, list : L, objects : O, fault : BOOLEAN, status : V]
  BY DEF EventScenes
<1>2. v \in O
  OBVIOUS
<1> HIDE DEF M, L, O, V
<1> QED
  BY <1>1, <1>2

(* Moving a manager on to a phase, to a week, and to or from its back-off.     *)
LEMMA ManagerFields ==
    ASSUME NEW m \in EventManagers
    PROVE  /\ \A v \in {"EMPTY", "ADDED", "READY", "FAILED"} :
                 [m EXCEPT !.phase = v] \in EventManagers /\ [m EXCEPT !.phase = v].phase = v
           /\ \A v \in BOOLEAN : /\ [m EXCEPT !.backoff = v] \in EventManagers
                                 /\ [m EXCEPT !.backoff = v].phase = m.phase
           /\ \A v \in Int : /\ [m EXCEPT !.active = v] \in EventManagers
                             /\ [m EXCEPT !.active = v].phase = m.phase
           /\ \A v \in Managers : /\ [m EXCEPT !.address = v] \in EventManagers
                                  /\ [m EXCEPT !.address = v].phase = m.phase
<1> DEFINE A == Managers \cup {Events!NoManager}
           P == {"EMPTY", "ADDED", "READY", "FAILED"}
<1>1. EventManagers = [address : A, phase : P, backoff : BOOLEAN, active : Int]
  BY DEF EventManagers
<1>2. Managers \subseteq A
  OBVIOUS
<1> HIDE DEF A, P
<1>3. \A v \in P : [m EXCEPT !.phase = v] \in EventManagers /\ [m EXCEPT !.phase = v].phase = v
  BY <1>1
<1>4. \A v \in BOOLEAN : [m EXCEPT !.backoff = v] \in EventManagers /\ [m EXCEPT !.backoff = v].phase = m.phase
  BY <1>1
<1>5. \A v \in Int : [m EXCEPT !.active = v] \in EventManagers /\ [m EXCEPT !.active = v].phase = m.phase
  BY <1>1
<1>6. \A v \in A : [m EXCEPT !.address = v] \in EventManagers /\ [m EXCEPT !.address = v].phase = m.phase
  BY <1>1
<1> QED
  BY <1>2, <1>3, <1>4, <1>5, <1>6, Zenon DEF P

(* A week's event is put behind the list, or the list stays; it stays too when *)
(* the manager is to be tried again or has failed.                             *)
LEMMA WeekIsAdded ==
    ASSUME NEW s \in EventScenes, Allocated(s), NEW w \in Int, NEW mishap \in Events!Mishaps,
           s.status = 0, NEW t, t = Events!add_week_event(s, w, mishap)
    PROVE  /\ t \in EventScenes /\ Allocated(t)
           /\ \/ t.list = s.list /\ t.status # 0 /\ t.mgr.phase \in {s.mgr.phase, "FAILED"}
              \/ /\ t.list = Append(s.list, [week |-> w, object |-> s.objects.made])
                 /\ t.status = 0 /\ t.mgr.phase = "ADDED"
<1> DEFINE made == s.objects.made
           event == [week |-> w, object |-> made]
           more == [s.objects EXCEPT !.made = made + 1]
           fails == [s EXCEPT !.status = -1]
           given == [s EXCEPT !.objects = more]
<1>0. -1 \in Statuses /\ 1 \in Statuses /\ -1 # 0 /\ 1 # 0
  BY DEF Statuses
<1>1. /\ s.mgr \in EventManagers /\ s.list \in Seq([week : Int, object : Nat])
      /\ s.objects \in [made : Nat, freed : SUBSET Nat]
  BY Zenon DEF EventScenes
<1>2. made \in Nat /\ s.objects.freed \in SUBSET Nat
  BY <1>1
<1>3. more \in [made : Nat, freed : SUBSET Nat] /\ more.made = made + 1 /\ more.freed = s.objects.freed
  BY <1>1, <1>2
<1>4. /\ fails \in EventScenes /\ fails.status = -1
      /\ fails.mgr = s.mgr /\ fails.list = s.list /\ fails.objects = s.objects /\ fails.fault = s.fault
  BY <1>0, StatusOf
<1>5. /\ given \in EventScenes /\ given.objects = more
      /\ given.mgr = s.mgr /\ given.list = s.list /\ given.status = s.status
  BY <1>3, <1>0, ObjectsOf
<1>6. Events!Fails(s) = fails
  BY DEF Events!Fails
<1>7. [s EXCEPT !.objects.made = @ + 1] = given
  BY <1>1 DEF EventScenes
<1> HIDE DEF fails, given, more
<1>8. CASE mishap = "no list"
  <2>1. t = [s EXCEPT !.status = 1]
    BY <1>8, Zenon DEF Events!add_week_event, Events!Again
  <2>2. t \in EventScenes /\ t.list = s.list /\ t.status # 0 /\ t.mgr = s.mgr /\ t.objects = s.objects
    BY <2>1, <1>0, StatusOf
  <2> QED
    BY <2>2 DEF Allocated
<1>9. CASE mishap = "json faults"
  <2>1. t = [fails EXCEPT !.fault = TRUE]
    BY <1>6, <1>9, Zenon DEF Events!add_week_event
  <2>2. t \in EventScenes /\ t.list = s.list /\ t.status # 0 /\ t.mgr = s.mgr /\ t.objects = s.objects
    BY <1>4, <2>1, <1>0, FaultOf
  <2> QED
    BY <2>2 DEF Allocated
<1>10. CASE mishap \in {"json", "memory"}
  <2>1. t = fails
    BY <1>6, <1>10, Zenon DEF Events!add_week_event
  <2> QED
    BY <1>4, <2>1 DEF Allocated
<1>11. CASE mishap \in {"ctor faults", "add faults"}
  <2> DEFINE less == [made |-> made + 1, freed |-> s.objects.freed \cup {made}]
             dropped == [fails EXCEPT !.objects = less]
  <2>1. less \in [made : Nat, freed : SUBSET Nat]
    BY <1>2
  <2>2. t = [dropped EXCEPT !.fault = TRUE]
    BY <1>4, <1>6, <1>11, Zenon DEF Events!add_week_event, Events!Discard, EventScenes
  <2>3. less.made = made + 1 /\ less.freed = s.objects.freed \cup {made}
    OBVIOUS
  <2> HIDE DEF less
  <2>4. /\ dropped \in EventScenes /\ dropped.objects = less /\ dropped.mgr = s.mgr
        /\ dropped.list = s.list /\ dropped.status = -1
    BY <1>4, <2>1, <1>0, ObjectsOf
  <2> HIDE DEF dropped
  <2>5. t \in EventScenes /\ t.list = s.list /\ t.status # 0 /\ t.mgr = s.mgr /\ t.objects = less
    BY <2>2, <2>4, <1>0, FaultOf
  <2>6. Allocated(t)
    <3>1. \A o \in less.freed : o < less.made
      BY <1>2, <2>3 DEF Allocated
    <3>2. ASSUME NEW i \in 1..Len(s.list)
          PROVE  s.list[i].object < less.made /\ s.list[i].object \notin less.freed
      <4>1. s.list[i] \in [week : Int, object : Nat]
        BY <1>1, ElementOfSeq, Zenon
      <4> QED
        BY <1>2, <2>3, <4>1 DEF Allocated
    <3> QED
      BY <2>5, <3>1, <3>2, Zenon DEF Allocated
  <2> QED
    BY <2>5, <2>6
<1>12. ASSUME NEW u, u.objects = more, u.list = s.list PROVE Allocated(u)
  <2>1. \A o \in more.freed : o < more.made
    BY <1>2, <1>3 DEF Allocated
  <2>2. ASSUME NEW i \in 1..Len(s.list)
        PROVE  s.list[i].object < more.made /\ s.list[i].object \notin more.freed
    <3>1. s.list[i] \in [week : Int, object : Nat]
      BY <1>1, ElementOfSeq, Zenon
    <3> QED
      BY <1>2, <1>3, <3>1 DEF Allocated
  <2> QED
    BY <1>12, <2>1, <2>2, Zenon DEF Allocated
<1>13. CASE mishap = "flat"
  <2> DEFINE g == [given EXCEPT !.status = -1]
             m == [s.mgr EXCEPT !.phase = "FAILED"]
  <2>1. g \in EventScenes /\ g.objects = more /\ g.mgr = s.mgr /\ g.list = s.list /\ g.status = -1
    BY <1>5, <1>0, StatusOf
  <2>2. m \in EventManagers /\ m.phase = "FAILED"
    BY <1>1, ManagerFields, Zenon
  <2>3. t = [g EXCEPT !.mgr.phase = "FAILED"]
    BY <1>7, <1>13 DEF Events!add_week_event, Events!Fails
  <2> HIDE DEF g
  <2>4. t = [g EXCEPT !.mgr = m]
    BY <2>1, <2>3 DEF EventScenes
  <2> HIDE DEF m
  <2>5. t \in EventScenes /\ t.objects = more /\ t.mgr = m /\ t.list = s.list /\ t.status # 0
    BY <2>1, <2>2, <2>4, <1>0, ManagerOf
  <2> QED
    BY <1>12, <2>2, <2>5
<1>14. CASE mishap = "none"
  <2> DEFINE longer == Append(s.list, event)
             g == [given EXCEPT !.list = longer]
             m == [s.mgr EXCEPT !.phase = "ADDED"]
             a == [m EXCEPT !.active = w]
  <2>1. /\ event \in [week : Int, object : Nat]
        /\ longer \in Seq([week : Int, object : Nat])
    BY <1>1, <1>2, AppendProperties
  <2>0. t = [given EXCEPT !.list = Append(@, event), !.mgr.phase = "ADDED", !.mgr.active = w]
    BY <1>7, <1>14 DEF Events!add_week_event
  <2>5. t = [given EXCEPT !.list = longer, !.mgr.phase = "ADDED", !.mgr.active = w]
    BY <1>5, <2>0 DEF EventScenes
  <2> HIDE DEF longer
  <2>2. g \in EventScenes /\ g.objects = more /\ g.mgr = s.mgr /\ g.list = longer /\ g.status = 0
    BY <1>5, <2>1, <1>0, ListOf
  <2>3. m \in EventManagers /\ m.phase = "ADDED"
    BY <1>1, ManagerFields, Zenon
  <2> HIDE DEF m
  <2>4. a \in EventManagers /\ a.phase = "ADDED"
    BY <2>3, ManagerFields, Zenon
  <2>6. t = [g EXCEPT !.mgr = a]
    BY <1>5, <2>1, <2>5, Zenon DEF EventScenes, EventManagers, m
  <2> HIDE DEF g, a
  <2>7. /\ t \in EventScenes /\ t.objects = more /\ t.mgr = a /\ t.status = 0
        /\ t.list = longer
    BY <2>2, <2>4, <2>6, <1>0, ManagerOf
  <2> USE DEF longer
  <2>8. Allocated(t)
    <3>1. \A o \in more.freed : o < more.made
      BY <1>2, <1>3 DEF Allocated
    <3>2. ASSUME NEW i \in 1..Len(t.list)
          PROVE  t.list[i].object < more.made /\ t.list[i].object \notin more.freed
      <4>1. CASE i = Len(s.list) + 1
        <5>1. t.list[i].object = made
          BY <1>1, <2>7, <4>1, AppendProperties
        <5> QED
          BY <1>2, <1>3, <5>1 DEF Allocated
      <4>2. CASE i # Len(s.list) + 1
        <5>1. i \in 1..Len(s.list)
          BY <1>1, <2>1, <2>7, <4>2, AppendProperties
        <5>2. t.list[i] = s.list[i]
          BY <1>1, <2>1, <2>7, <5>1, AppendProperties
        <5> QED
          <6>1. s.list[i].object \in Nat /\ s.list[i].object < made /\ s.list[i].object \notin s.objects.freed
            <7>1. s.list[i] \in [week : Int, object : Nat]
              BY <1>1, <5>1, ElementOfSeq, Zenon
            <7> QED
              BY <5>1, <7>1 DEF Allocated
          <6> QED
            BY <1>2, <1>3, <5>2, <6>1
      <4> QED
        BY <4>1, <4>2
    <3> QED
      BY <2>7, <3>1, <3>2, Zenon DEF Allocated
  <2> QED
    BY <2>4, <2>7, <2>8
<1> QED
  BY <1>8, <1>9, <1>10, <1>11, <1>13, <1>14, Zenon DEF Events!Mishaps

(* Both events are added, or the closed week's, or none.                       *)
LEMMA EventsAreAdded ==
    ASSUME week \in Int, NEW s \in EventScenes, Allocated(s), Listed(s), s.status = 0,
           s.mgr.phase = "EMPTY", NEW category, NEW first \in Events!Mishaps,
           NEW second \in Events!Mishaps, NEW t, t = Events!add_current_event(s, category, first, second)
    PROVE  GoodScene(t)
<1> DEFINE closed == Events!add_week_event(s, week - 1, first)
<1>0. s.list = << >> /\ week - 1 \in Int /\ -1 \in Statuses /\ 1 \in Statuses
  BY DEF Listed, Statuses
<1>1. CASE t = [s EXCEPT !.status = 1] \/ t = [s EXCEPT !.status = -1]
  <2>1. t \in EventScenes /\ t.list = s.list /\ t.mgr = s.mgr /\ t.objects = s.objects
    BY <1>0, <1>1, StatusOf
  <2> QED
    BY <2>1 DEF GoodScene, Allocated, Listed
<1>2. /\ closed \in EventScenes /\ Allocated(closed)
      /\ \/ closed.list = s.list /\ closed.status # 0 /\ closed.mgr.phase \in {s.mgr.phase, "FAILED"}
         \/ /\ closed.list = Append(s.list, [week |-> week - 1, object |-> s.objects.made])
            /\ closed.status = 0 /\ closed.mgr.phase = "ADDED"
  BY <1>0, WeekIsAdded
<1>3. t = [s EXCEPT !.status = 1] \/ t = [s EXCEPT !.status = -1]
      \/ t = IF closed.status # 0 THEN closed ELSE Events!add_week_event(closed, week, second)
  BY Zenon DEF Events!add_current_event, Events!Again, Events!Fails
<1> HIDE DEF closed
<1>4. CASE t = closed /\ closed.status # 0
  <2>1. closed.list = << >>
    BY <1>0, <1>2, <1>4, Zenon
  <2>2. Len(closed.list) = 0
    BY <2>1
  <2> QED
    BY <1>2, <1>4, <2>1, <2>2 DEF GoodScene, Listed
<1>5. CASE closed.status = 0 /\ t = Events!add_week_event(closed, week, second)
  <2> DEFINE one == [week |-> week - 1, object |-> s.objects.made]
             two == [week |-> week, object |-> closed.objects.made]
  <2>1. closed.list = <<one>> /\ closed.mgr.phase = "ADDED"
    BY <1>0, <1>2, <1>5
  <2>2. /\ t \in EventScenes /\ Allocated(t)
        /\ \/ t.list = closed.list /\ t.status # 0 /\ t.mgr.phase \in {closed.mgr.phase, "FAILED"}
           \/ t.list = Append(closed.list, two) /\ t.status = 0 /\ t.mgr.phase = "ADDED"
    BY <1>2, <1>5, WeekIsAdded
  <2>3. t.mgr.phase # "EMPTY"
    BY <2>1, <2>2
  <2>4. one.week = week - 1 /\ two.week = week
    OBVIOUS
  <2> HIDE DEF one, two
  <2>5. t.list = <<one>> \/ t.list = <<one, two>>
    BY <2>1, <2>2
  <2>6. Len(t.list) =< 2 /\ (Len(t.list) = 2 => t.list[2].week = t.list[1].week + 1)
    <3>1. CASE t.list = <<one>>
      <4>1. Len(t.list) = 1
        BY <3>1
      <4> QED
        BY <4>1
    <3>2. CASE t.list = <<one, two>>
      <4>1. Len(t.list) = 2 /\ t.list[1] = one /\ t.list[2] = two
        BY <3>2
      <4> QED
        BY <2>4, <4>1
    <3> QED
      BY <2>5, <3>1, <3>2
  <2> QED
    BY <2>2, <2>3, <2>6 DEF GoodScene, Listed
<1> QED
  BY <1>1, <1>3, <1>4, <1>5, Zenon

(* What becomes of a scene that keeps its list, and whose manager does not go  *)
(* back to the beginning.                                                      *)
LEMMA SceneGoesOn ==
    ASSUME NEW s, GoodScene(s), NEW t \in EventScenes, t.list = s.list, t.objects = s.objects,
           t.mgr.phase = s.mgr.phase \/ t.mgr.phase # "EMPTY"
    PROVE  GoodScene(t)
BY DEF GoodScene, Allocated, Listed

(* A hook for the manager that is served.                                      *)
LEMMA ServiceKeeps ==
    ASSUME week \in Int, NEW s, GoodScene(s), s.status = 0, NEW category, NEW faults,
           NEW first \in Events!Mishaps, NEW second \in Events!Mishaps,
           NEW t, t = Events!service_manager(s, category, first, second, faults)
    PROVE  GoodScene(t)
<1> DEFINE added == IF s.mgr.phase = "EMPTY" THEN Events!add_current_event(s, category, first, second) ELSE s
           synced == IF ~added.fault /\ added.status = 0 /\ added.mgr.phase = "ADDED"
                     THEN Events!sync_current_mission(added, faults) ELSE added
           b == synced.status # 0
           waiting == [synced EXCEPT !.mgr.backoff = b]
           m == [synced.mgr EXCEPT !.backoff = b]
           after == [synced EXCEPT !.mgr = m]
<1>1. GoodScene(added)
  BY EventsAreAdded DEF GoodScene
<1>2. t = s \/ t = [synced EXCEPT !.mgr.backoff = synced.status # 0, !.status = 0]
  BY Zenon DEF Events!service_manager
<1> HIDE DEF added
<1>3. GoodScene(synced)
  <2>0. added \in EventScenes /\ -1 \in Statuses /\ 1 \in Statuses
    BY <1>1 DEF GoodScene, Statuses
  <2>1. CASE synced = added
    BY <1>1, <2>1
  <2>2. CASE synced = [added EXCEPT !.status = 1]
    <3>1. synced \in EventScenes /\ synced.list = added.list /\ synced.objects = added.objects /\ synced.mgr = added.mgr
      BY <2>0, <2>2, StatusOf
    <3> QED
      BY <1>1, <3>1, SceneGoesOn
  <2>3. CASE synced = [[added EXCEPT !.status = -1] EXCEPT !.fault = TRUE]
    <3> DEFINE fails == [added EXCEPT !.status = -1]
    <3>1. fails \in EventScenes /\ fails.list = added.list /\ fails.objects = added.objects /\ fails.mgr = added.mgr
      BY <2>0, StatusOf
    <3>2. synced = [fails EXCEPT !.fault = TRUE]
      BY <2>3
    <3> HIDE DEF fails, synced
    <3>3. synced \in EventScenes /\ synced.list = added.list /\ synced.objects = added.objects /\ synced.mgr = added.mgr
      BY <3>1, <3>2, FaultOf
    <3> QED
      BY <1>1, <3>3, SceneGoesOn
  <2>4. CASE synced = [added EXCEPT !.mgr.phase = "READY"]
    <3> DEFINE n == [added.mgr EXCEPT !.phase = "READY"]
    <3>1. added.mgr \in EventManagers
      BY <2>0 DEF EventScenes
    <3>2. n \in EventManagers /\ n.phase = "READY"
      BY <3>1, ManagerFields
    <3>3. synced = [added EXCEPT !.mgr = n]
      BY <2>0, <2>4 DEF EventScenes
    <3> HIDE DEF n, synced
    <3>4. synced \in EventScenes /\ synced.list = added.list /\ synced.objects = added.objects /\ synced.mgr = n
      BY <2>0, <3>2, <3>3, ManagerOf
    <3> QED
      BY <1>1, <3>2, <3>4, SceneGoesOn
  <2> QED
    BY <2>1, <2>2, <2>3, <2>4, Zenon DEF Events!sync_current_mission, Events!Again, Events!Fails
<1> HIDE DEF synced
<1>4. b \in BOOLEAN /\ 0 \in Statuses /\ synced \in EventScenes /\ synced.mgr \in EventManagers
  BY <1>3 DEF GoodScene, Statuses, EventScenes
<1>5. t = s \/ t = [after EXCEPT !.status = 0]
  BY <1>2, <1>4 DEF EventScenes
<1> HIDE DEF b
<1>6. m \in EventManagers /\ m.phase = synced.mgr.phase
  BY <1>4, ManagerFields
<1> HIDE DEF m
<1>7. after \in EventScenes /\ after.list = synced.list /\ after.objects = synced.objects /\ after.mgr = m
  BY <1>4, <1>6, ManagerOf
<1> HIDE DEF after
<1>8. CASE t = [after EXCEPT !.status = 0]
  <2>1. t \in EventScenes /\ t.list = synced.list /\ t.objects = synced.objects /\ t.mgr = m
    BY <1>4, <1>7, <1>8, StatusOf
  <2> QED
    BY <1>3, <1>6, <2>1, SceneGoesOn
<1> QED
  BY <1>5, <1>8

(* The start. *)
LEMMA EventsInit == ASSUME Init PROVE EventsInv
<1>1. Events!Init
  BY DEF Init
<1>2. /\ mgr \in EventManagers /\ mgr.phase = "EMPTY"
  BY <1>1 DEF Events!Init, EventManagers
<1>3. list = << >> /\ Len(list) = 0 /\ objects.made = 0 /\ objects.freed = {} /\ stopped = FALSE /\ week \in Int
  BY <1>1, WeeksAssumption DEF Events!Init
<1>4. objects \in [made : Nat, freed : SUBSET Nat]
  BY <1>1 DEF Events!Init
<1>5. Events!Scene \in EventScenes
  <2> DEFINE L == Seq([week : Int, object : Nat])
             O == [made : Nat, freed : SUBSET Nat]
  <2>1. list \in L /\ objects \in O /\ mgr \in EventManagers /\ stopped \in BOOLEAN /\ 0 \in Statuses
    <3>1. 0 \in Statuses
      BY DEF Statuses
    <3>2. list \in L
      BY <1>3, EmptySeq
    <3> HIDE DEF L, O
    <3>3. stopped \in BOOLEAN
      BY <1>3
    <3> QED
      BY <1>2, <1>4, <3>1, <3>2, <3>3, Zenon DEF O
  <2>2. EventScenes = [mgr : EventManagers, list : L, objects : O, fault : BOOLEAN, status : Statuses]
    BY DEF EventScenes
  <2> HIDE DEF L, O
  <2> QED
    BY <2>1, <2>2 DEF Events!Scene
<1>6. Events!Scene.mgr = mgr /\ Events!Scene.list = list /\ Events!Scene.objects = objects
  BY DEF Events!Scene
<1> QED
  BY <1>2, <1>3, <1>5, <1>6 DEF EventsInv, GoodScene, Allocated, Listed

(* A good scene that is left is the next state's.                              *)
LEMMA SceneIsLeft ==
    ASSUME NEW s, GoodScene(s), week' \in Int, mgr' = s.mgr, list' = s.list, objects' = s.objects, stopped' = s.fault
    PROVE  EventsInv'
<1> DEFINE L == Seq([week : Int, object : Nat])
           O == [made : Nat, freed : SUBSET Nat]
<1>1. EventScenes = [mgr : EventManagers, list : L, objects : O, fault : BOOLEAN, status : Statuses]
  BY DEF EventScenes
<1>2. s \in EventScenes /\ 0 \in Statuses
  BY DEF GoodScene, Statuses
<1>3. Events!Scene' = [mgr |-> s.mgr, list |-> s.list, objects |-> s.objects, fault |-> s.fault, status |-> 0]
  BY DEF Events!Scene
<1> HIDE DEF L, O
<1>4. Events!Scene' \in EventScenes
  BY <1>1, <1>2, <1>3
<1>5. Events!Scene'.mgr = s.mgr /\ Events!Scene'.list = s.list /\ Events!Scene'.objects = s.objects
  BY <1>3
<1>6. GoodScene(Events!Scene')
  BY <1>4, <1>5, SceneGoesOn
<1> QED
  BY <1>6 DEF EventsInv, GoodScene, Allocated, Listed, EventScenes, EventManagers

(* A hook for any manager. *)
LEMMA HookKeeps == ASSUME EventsInv, Events!before_block PROVE EventsInv'
<1> DEFINE scene == Events!Scene
<1>1. PICK m \in Managers, category \in BOOLEAN, faults \in BOOLEAN,
           first \in Events!Mishaps, second \in Events!Mishaps :
        LET known == Events!manager_state(scene, m)
        IN  Events!Leave(IF known.mgr.address # m THEN known
                         ELSE Events!service_manager(known, category, first, second, faults))
  BY DEF Events!before_block
<1>2. week' = week /\ week \in Int /\ GoodScene(scene) /\ scene.status = 0
  BY DEF Events!before_block, EventsInv, Events!Scene
<1> DEFINE known == Events!manager_state(scene, m)
           left == IF known.mgr.address # m THEN known
                   ELSE Events!service_manager(known, category, first, second, faults)
           moved == [scene.mgr EXCEPT !.address = m]
           failed == [scene.mgr EXCEPT !.phase = "FAILED"]
<1>3. scene \in EventScenes /\ scene.mgr \in EventManagers
  BY <1>2 DEF GoodScene, EventScenes
<1>4. known = [scene EXCEPT !.mgr = moved] \/ known = [scene EXCEPT !.mgr = failed]
  BY <1>3 DEF Events!manager_state, EventScenes
<1>5. Events!Leave(left)
  BY <1>1
<1> HIDE DEF scene, known
<1>6. moved \in EventManagers /\ moved.phase = scene.mgr.phase
  BY <1>3, ManagerFields
<1>7. failed \in EventManagers /\ failed.phase = "FAILED"
  BY <1>3, ManagerFields
<1> HIDE DEF moved, failed
<1>8. GoodScene(known) /\ known.status = 0
  <2>1. CASE known = [scene EXCEPT !.mgr = moved]
    <3>1. /\ known \in EventScenes /\ known.list = scene.list /\ known.objects = scene.objects
          /\ known.mgr = moved /\ known.status = scene.status
      BY <1>3, <1>6, <2>1, ManagerOf
    <3> QED
      BY <1>2, <1>6, <3>1, SceneGoesOn
  <2>2. CASE known = [scene EXCEPT !.mgr = failed]
    <3>1. /\ known \in EventScenes /\ known.list = scene.list /\ known.objects = scene.objects
          /\ known.mgr = failed /\ known.status = scene.status
      BY <1>3, <1>7, <2>2, ManagerOf
    <3> QED
      BY <1>2, <1>7, <3>1, SceneGoesOn
  <2> QED
    BY <1>4, <2>1, <2>2
<1>9. GoodScene(left)
  BY <1>2, <1>8, ServiceKeeps
<1> HIDE DEF left
<1>10. mgr' = left.mgr /\ list' = left.list /\ objects' = left.objects /\ stopped' = left.fault
  BY <1>5 DEF Events!Leave
<1> QED
  BY <1>2, <1>9, <1>10, SceneIsLeft

(* The other steps: time, and what the game makes of its own. *)
LEMMA OthersKeepEvents ==
    ASSUME EventsInv, [Next]_allVars, ~(part = "events" /\ Events!before_block)
    PROVE  EventsInv'
<1>1. /\ list' = list /\ objects' = objects /\ stopped' = stopped
      /\ mgr' = mgr \/ mgr' = [mgr EXCEPT !.backoff = FALSE]
      /\ week' = week \/ week' = week + 1
  <2>1. CASE part = "events" /\ Events!Next
    BY <2>1, Zenon DEF Events!Next, Events!RetryIsDue, Events!VersionIsRead, Events!MissionsAreMade, Events!Monday
  <2>2. CASE UNCHANGED eventVars
    BY <2>2, Zenon DEF eventVars
  <2> QED
    BY <2>1, <2>2, Zenon DEF Next, OthersRest, allVars
<1> DEFINE scene == Events!Scene
           m == [mgr EXCEPT !.backoff = FALSE]
           later == [scene EXCEPT !.mgr = m]
<1>2. GoodScene(scene) /\ week \in Int
  BY DEF EventsInv
<1>3. scene.mgr = mgr /\ scene.list = list /\ scene.objects = objects /\ scene.fault = stopped
  BY DEF Events!Scene
<1>4. scene \in EventScenes /\ mgr \in EventManagers
  BY <1>2, <1>3 DEF GoodScene, EventScenes
<1> HIDE DEF scene
<1>5. m \in EventManagers /\ m.phase = mgr.phase
  BY <1>4, ManagerFields
<1> HIDE DEF m
<1>6. /\ later \in EventScenes /\ later.list = list /\ later.objects = objects /\ later.mgr = m
      /\ later.fault = stopped
  BY <1>3, <1>4, <1>5, ManagerOf
<1> HIDE DEF later
<1>7. GoodScene(later)
  BY <1>2, <1>3, <1>5, <1>6, SceneGoesOn
<1>8. week' \in Int
  BY <1>1, <1>2
<1>9. CASE mgr' = mgr
  BY <1>1, <1>2, <1>3, <1>8, <1>9, SceneIsLeft
<1>10. CASE mgr' = m
  BY <1>1, <1>6, <1>7, <1>8, <1>10, SceneIsLeft
<1> QED
  BY <1>1, <1>9, <1>10 DEF m

(* The invariant leaves no week twice, and no event that was returned.         *)
LEMMA EventsHold == EventsInv => Events!NoEventTwice
<1> SUFFICES ASSUME EventsInv PROVE Events!NoEventTwice
  OBVIOUS
<1>1. Events!Scene.mgr = mgr /\ Events!Scene.list = list /\ Events!Scene.objects = objects
  BY DEF Events!Scene
<1>2. list \in Seq([week : Int, object : Nat])
  BY <1>1 DEF EventsInv, GoodScene, EventScenes
<1>3. Len(list) \in Nat /\ DOMAIN list = 1..Len(list)
  BY <1>2
<1>4. \A i \in DOMAIN list : list[i].object \notin objects.freed
  BY <1>1, <1>3 DEF EventsInv, GoodScene, Allocated
<1>5. Len(list) =< 2 /\ (Len(list) = 2 => list[2].week = list[1].week + 1)
  BY <1>1 DEF EventsInv, GoodScene, Listed
<1>6. ASSUME NEW i \in DOMAIN list, NEW j \in DOMAIN list, i # j PROVE list[i].week # list[j].week
  <2>1. Len(list) = 2 /\ i \in {1, 2} /\ j \in {1, 2}
    BY <1>3, <1>5, <1>6
  <2>2. list[1] \in [week : Int, object : Nat]
    <3>1. 1 \in 1..Len(list)
      BY <2>1
    <3> QED
      BY <1>2, <3>1, ElementOfSeq, Zenon
  <2>3. list[1].week \in Int
    BY <2>2
  <2> QED
    BY <1>5, <1>6, <2>1, <2>3
<1> QED
  BY <1>4, <1>5, <1>6 DEF Events!NoEventTwice
(* The controls of the retired services. *)

Policies == {"NORMAL", "BLOCKED", "FORCED_EVENT"}
UiRecords == [object : Controls, policy : Policies]
UiControls == [name : ControlNames \cup {"nothing"}, shown : BOOLEAN, found : BOOLEAN]
Lookups == [name : ControlNames, site : LookupSites, overtaken : BOOLEAN]

UiTypes ==
    /\ control \in [Controls -> UiControls]
    /\ UI_OBJECTS \in Seq(UiRecords)
    /\ calls \in Seq(Lookups) /\ Len(calls) =< 2

(* Records are of different objects.                                           *)
Distinct(records) ==
    \A i, j \in 1..Len(records) : records[i].object = records[j].object => i = j

(* A name stands at one address at most; nothing overtakes the last lookup.     *)
Named ==
    /\ \A o, p \in Controls : control[o].name = control[p].name /\ control[o].name \in ControlNames => o = p
    /\ Len(calls) = 2 => ~calls[2].overtaken

(* A control of a policy that was looked up is recorded and shows what it must, *)
(* unless the list has no room for it.                                          *)
Settled(o) ==
    control[o].found /\ PolicyOf[control[o].name] # "NORMAL" /\ Ui!Taken(o) =>
        /\ \E i \in 1..Len(UI_OBJECTS) : /\ UI_OBJECTS[i].object = o
                                         /\ UI_OBJECTS[i].policy = PolicyOf[control[o].name]
        /\ control[o].shown = (PolicyOf[control[o].name] = "FORCED_EVENT")

(* The pending return is that of the innermost lookup which arms it, or there   *)
(* is none: the lookups under way arm none, or were overtaken, or another one   *)
(* found the control for them.                                                  *)
Awaited(call) ==
    /\ Ui!Armed(call.name)
    /\ UI_CALL.site = call.site /\ UI_CALL.policy = PolicyOf[call.name] /\ hook = call.site
Unawaited == UI_CALL.site = "none" /\ hook = "none"
Covered(call) ==
    \/ ~Ui!Armed(call.name)
    \/ call.overtaken
    \/ \A o \in Controls : control[o].name = call.name => control[o].found
Waits(outer, inner) ==
    \/ Awaited(inner) /\ (outer.name = inner.name \/ Covered(outer))
    \/ /\ ~Ui!Armed(inner.name)
       /\ \/ Awaited(outer) /\ (outer.site # inner.site \/ outer.overtaken)
          \/ Unawaited /\ Covered(outer)
PendingIsInnermost ==
    /\ calls = << >> => Unawaited
    /\ Len(calls) = 1 => Awaited(calls[1]) \/ (Unawaited /\ Covered(calls[1]))
    /\ Len(calls) = 2 => Waits(calls[1], calls[2])

UiInv == /\ UiTypes /\ Distinct(UI_OBJECTS) /\ Named
         /\ \A o \in Controls : Settled(o)
         /\ PendingIsInnermost

(* The policy of an object is that of its record.                              *)
LEMMA RecordDecides ==
    ASSUME UI_OBJECTS \in Seq(UiRecords), Distinct(UI_OBJECTS), NEW i \in 1..Len(UI_OBJECTS)
    PROVE  Ui!object_policy(UI_OBJECTS[i].object) = UI_OBJECTS[i].policy
<1> DEFINE o == UI_OBJECTS[i].object
<1>1. DOMAIN UI_OBJECTS = 1..Len(UI_OBJECTS) /\ Len(UI_OBJECTS) \in Nat
  BY LenProperties
<1>2. Ui!Records(o) = {i}
  BY <1>1 DEF Ui!Records, Distinct
<1>3. Ui!Max({i}) = i
  BY <1>1 DEF Ui!Max
<1> HIDE DEF o
<1> QED
  BY <1>2, <1>3, Zenon DEF Ui!object_policy, o

(* Recording a policy of an object: it has it, and the others have theirs.     *)
LEMMA RecordedFacts ==
    ASSUME UI_OBJECTS \in Seq(UiRecords), Distinct(UI_OBJECTS), NEW o \in Controls, NEW policy \in Policies,
           NEW R, R = Ui!Recorded(o, policy)
    PROVE  /\ R \in Seq(UiRecords) /\ Distinct(R)
           /\ \E i \in 1..Len(R) : R[i].object = o /\ R[i].policy = policy
           /\ \A p \in Controls \ {o}, i \in 1..Len(UI_OBJECTS) : UI_OBJECTS[i].object = p =>
                 i \in 1..Len(R) /\ R[i] = UI_OBJECTS[i]
           /\ Len(R) >= Len(UI_OBJECTS) /\ (Ui!Records(o) # {} => Len(R) = Len(UI_OBJECTS))
           /\ \A p \in Controls \ {o}, i \in 1..Len(R) : R[i].object = p =>
                 i \in 1..Len(UI_OBJECTS) /\ UI_OBJECTS[i].object = p
<1> DEFINE U == UI_OBJECTS
           n == Len(U)
           record == [object |-> o, policy |-> policy]
<1>1. DOMAIN U = 1..n /\ n \in Nat /\ \A i \in 1..n : U[i] \in UiRecords
  BY LenProperties, ElementOfSeq
<1>2. record \in UiRecords /\ record.object = o /\ record.policy = policy
  BY DEF UiRecords
<1> HIDE DEF record
<1>3. CASE Ui!Records(o) # {}
  <2> DEFINE new(i) == IF U[i].object = o THEN [U[i] EXCEPT !.policy = policy] ELSE U[i]
  <2>1. R = [i \in 1..n |-> new(i)]
    BY <1>1, <1>3 DEF Ui!Recorded
  <2>2. ASSUME NEW i \in 1..n
        PROVE  /\ new(i) \in UiRecords /\ new(i).object = U[i].object
               /\ U[i].object = o => new(i).policy = policy
               /\ U[i].object # o => new(i) = U[i]
    BY <1>1 DEF UiRecords
  <2>3. PICK k \in 1..n : U[k].object = o
    BY <1>1, <1>3 DEF Ui!Records
  <2> HIDE DEF new
  <2>4. R \in Seq(UiRecords) /\ Len(R) = n
    BY <1>1, <2>1, <2>2
  <2>5. \A i \in 1..n : R[i] = new(i)
    BY <2>1
  <2> HIDE DEF n
  <2>6. Distinct(R)
    BY <2>2, <2>4, <2>5 DEF Distinct, n
  <2>7. R[k].object = o /\ R[k].policy = policy
    BY <2>2, <2>3, <2>5
  <2> QED
    BY <2>2, <2>3, <2>4, <2>5, <2>6, <2>7 DEF n
<1>4. CASE Ui!Records(o) = {}
  <2>1. R = Append(U, record)
    BY <1>4 DEF Ui!Recorded, record
  <2>2. R \in Seq(UiRecords) /\ Len(R) = n + 1 /\ R[n + 1] = record /\ \A i \in 1..n : R[i] = U[i]
    BY <1>1, <1>2, <2>1, AppendProperties
  <2>3. \A i \in 1..n : U[i].object # o
    BY <1>1, <1>4 DEF Ui!Records
  <2> HIDE DEF n
  <2>4. Distinct(R)
    <3> SUFFICES ASSUME NEW i \in 1..n + 1, NEW j \in 1..n + 1, R[i].object = R[j].object PROVE i = j
      BY <2>2 DEF Distinct
    <3>1. CASE i \in 1..n /\ j \in 1..n
      BY <2>2, <3>1 DEF Distinct, n
    <3>2. CASE i = n + 1 /\ j \in 1..n
      BY <1>2, <2>2, <2>3, <3>2, Zenon
    <3>3. CASE j = n + 1 /\ i \in 1..n
      BY <1>2, <2>2, <2>3, <3>3, Zenon
    <3> QED
      BY <1>1, <3>1, <3>2, <3>3
  <2>5. n + 1 \in 1..Len(R) /\ (\A i \in 1..n : i \in 1..Len(R)) /\ Len(R) >= n
    BY <1>1, <2>2
  <2>6. \A i \in 1..Len(R) : i \in 1..n \/ i = n + 1
    BY <1>1, <2>2
  <2>7. \A p \in Controls \ {o}, i \in 1..Len(R) : R[i].object = p => i \in 1..n /\ U[i].object = p
    BY <1>2, <2>2, <2>6
  <2> QED
    BY <1>2, <1>4, <2>2, <2>4, <2>5, <2>7, Zenon DEF n
<1> QED
  BY <1>3, <1>4

(* The lookup that returns is the last; the others stay.                       *)
LEMMA LookupsFacts ==
    ASSUME UiTypes, calls # << >>
    PROVE  /\ Len(calls) \in {1, 2} /\ Ui!Last(calls) = calls[Len(calls)] /\ Ui!Last(calls) \in Lookups
           /\ Ui!Front(calls) \in Seq(Lookups) /\ Len(Ui!Front(calls)) = Len(calls) - 1
           /\ Len(calls) = 2 => Ui!Front(calls)[1] = calls[1]
<1>1. calls \in Seq(Lookups) /\ Len(calls) \in {1, 2}
  <2>1. Len(calls) \in Nat /\ Len(calls) # 0
    BY EmptySeq, LenProperties DEF UiTypes
  <2>2. calls \in Seq(Lookups) /\ Len(calls) =< 2
    BY Zenon DEF UiTypes
  <2> DEFINE n == Len(calls)
  <2>3. n \in {1, 2}
    <3>1. n \in Nat /\ n # 0 /\ n =< 2
      BY <2>1, <2>2, Zenon
    <3> HIDE DEF n
    <3> QED
      BY <3>1
  <2> QED
    BY <2>2, <2>3, Zenon
<1> DEFINE n == Len(calls) - 1
<1>2. n \in Nat /\ n =< 1 /\ (Len(calls) = 2 <=> n = 1) /\ \A i \in 1..n : calls[i] \in Lookups
  BY <1>1, ElementOfSeq
<1> HIDE DEF n
<1>3. /\ SubSeq(calls, 1, n) \in Seq(Lookups) /\ Len(SubSeq(calls, 1, n)) = n
      /\ \A k \in 1..n : SubSeq(calls, 1, n)[k] = calls[k]
  BY <1>2, SubSeqProperties
<1>4. calls[Len(calls)] \in Lookups
  BY <1>1, ElementOfSeq
<1>5. n = 1 => 1 \in 1..n
  OBVIOUS
<1> QED
  BY <1>1, <1>2, <1>3, <1>4, <1>5 DEF Ui!Front, Ui!Last, n

(* A lookup is entered: its return is awaited, or that of another one is.      *)
LEMMA EnterKeeps ==
    ASSUME UiInv, NEW name \in ControlNames, NEW site \in LookupSites, Ui!LookupEntered(name, site)
    PROVE  UiInv'
<1> DEFINE n == Len(calls)
           call == [name |-> name, site |-> site, overtaken |-> FALSE]
           outer(i) == [calls[i] EXCEPT !.overtaken = @ \/ Ui!Overtakes(calls[i], name, site)]
           C == [i \in DOMAIN calls |-> outer(i)]
<1>1. /\ n < 2 /\ calls' = Append(C, call) /\ control' = control /\ UI_OBJECTS' = UI_OBJECTS
      /\ IF Ui!Armed(name) THEN Ui!set_pending_return(site, PolicyOf[name]) ELSE UNCHANGED <<UI_CALL, hook>>
  BY DEF Ui!LookupEntered, Ui!Nesting
<1>2. call \in Lookups /\ call.name = name /\ call.site = site /\ ~call.overtaken
  BY DEF Lookups
<1> HIDE DEF call
<1>3. n \in Nat /\ DOMAIN calls = 1..n /\ n \in {0, 1} /\ \A i \in 1..n : calls[i] \in Lookups
  <2>1. n \in Nat /\ DOMAIN calls = 1..n /\ \A i \in 1..n : calls[i] \in Lookups
    BY LenProperties, ElementOfSeq DEF UiInv, UiTypes
  <2> HIDE DEF n
  <2> QED
    BY <1>1, <2>1
<1>4. ASSUME NEW i \in 1..n
      PROVE  /\ outer(i) \in Lookups /\ outer(i).name = calls[i].name /\ outer(i).site = calls[i].site
             /\ outer(i).overtaken <=> calls[i].overtaken \/ Ui!Overtakes(calls[i], name, site)
  <2>1. calls[i] \in Lookups
    BY <1>3
  <2>2. Ui!Overtakes(calls[i], name, site) \in BOOLEAN
    BY DEF Ui!Overtakes
  <2> DEFINE overtakes == Ui!Overtakes(calls[i], name, site)
  <2> HIDE DEF overtakes
  <2> QED
    BY <2>1, <2>2 DEF Lookups, overtakes
<1> HIDE DEF outer
<1>5. C \in Seq(Lookups) /\ Len(C) = n /\ \A i \in 1..n : C[i] = outer(i)
  <2> HIDE DEF n
  <2> QED
    BY <1>3, <1>4
<1> HIDE DEF C
<1>6. calls' \in Seq(Lookups) /\ Len(calls') = n + 1 /\ calls'[n + 1] = call /\ \A i \in 1..n : calls'[i] = outer(i)
  BY <1>1, <1>2, <1>5, AppendProperties
<1> HIDE DEF n
<1>7. /\ calls' # << >>
      /\ \/ n = 0 /\ calls = << >> /\ Len(calls') = 1 /\ calls'[1] = call
         \/ n = 1 /\ Len(calls') = 2 /\ calls'[2] = call /\ calls'[1] = outer(1)
  <2>1. Len(calls') # 0 /\ (n = 0 \/ n = 1)
    BY <1>3, <1>6
  <2>2. calls' # << >>
    BY <2>1, EmptySeq
  <2>3. n = 0 => calls = << >>
    BY EmptySeq DEF n, UiInv, UiTypes
  <2>4. n = 0 => Len(calls') = 1 /\ calls'[1] = call
    BY <1>6
  <2>5. n = 1 => Len(calls') = 2 /\ calls'[2] = call /\ calls'[1] = outer(1)
    BY <1>6
  <2> QED
    BY <2>1, <2>2, <2>3, <2>4, <2>5, Zenon
<1>8. UiTypes'
  <2>1. Len(calls') =< 2
    <3> DEFINE m == Len(calls')
    <3>1. m = 1 \/ m = 2
      BY <1>7, Zenon
    <3> HIDE DEF m
    <3>2. m =< 2
      BY <3>1
    <3> QED
      BY <3>2 DEF m
  <2> QED
    BY <1>1, <1>6, <2>1, Zenon DEF UiInv, UiTypes
<1>9. Named'
  <2>1. Len(calls') = 2 => ~calls'[2].overtaken
    BY <1>2, <1>7
  <2> QED
    BY <1>1, <2>1, Zenon DEF UiInv, Named
<1>10. \A o \in Controls : Settled(o)'
  BY <1>1, Zenon DEF UiInv, Settled, Ui!Taken, Ui!Records
<1>11. Distinct(UI_OBJECTS)'
  BY <1>1, Zenon DEF UiInv, Distinct
<1>12. Ui!Armed(name) => Awaited(call)'
  <2> SUFFICES ASSUME Ui!Armed(name) PROVE Awaited(call)'
    OBVIOUS
  <2>1. UI_CALL' = [site |-> site, policy |-> PolicyOf[name]] /\ hook' = site
    BY <1>1, Zenon DEF Ui!set_pending_return
  <2>2. UI_CALL'.site = site /\ UI_CALL'.policy = PolicyOf[name]
    BY <2>1
  <2> QED
    BY <1>2, <2>1, <2>2, Zenon DEF Awaited, call
<1>13. ~Ui!Armed(name) => UI_CALL' = UI_CALL /\ hook' = hook
  BY <1>1, Zenon
<1>14. Ui!Armed(call.name) <=> Ui!Armed(name)
  BY <1>2, Zenon
<1>15. PendingIsInnermost'
  <2>1. CASE n = 0
    <3>1. Len(calls') = 1 /\ calls'[1] = call /\ Unawaited /\ Len(calls') # 2
      <4>1. Len(calls') = 1 /\ calls'[1] = call /\ calls = << >>
        BY <1>7, <2>1
      <4>2. Len(calls') # 2
        BY <4>1
      <4> QED
        BY <4>1, <4>2, Zenon DEF UiInv, PendingIsInnermost
    <3>2. ~Ui!Armed(name) => Unawaited' /\ Covered(call)'
      <4>1. ~Ui!Armed(name) => Unawaited'
        BY <1>13, <3>1, Zenon DEF Unawaited
      <4>2. Ui!Armed(call'.name) <=> Ui!Armed(name)
        BY <1>14 DEF call
      <4> QED
        BY <4>1, <4>2, Zenon DEF Covered
    <3>3. Awaited(calls[1])' \/ (Unawaited' /\ Covered(calls[1])')
      <4>1. Awaited(call)' => Awaited(calls[1])'
        BY <3>1, Zenon DEF Awaited, call
      <4>2. Covered(call)' => Covered(calls[1])'
        BY <3>1, Zenon DEF Covered, call
      <4> QED
        BY <1>12, <3>2, <4>1, <4>2
    <3> QED
      BY <1>7, <3>1, <3>3 DEF PendingIsInnermost
  <2>2. CASE n = 1
    <3>1. /\ Len(calls') = 2 /\ calls'[2] = call /\ calls'[1] = outer(1) /\ 1 \in 1..n /\ Len(calls') # 1
      BY <1>7, <2>2
    <3>2. Awaited(calls[1]) \/ (Unawaited /\ Covered(calls[1]))
      BY <2>2, Zenon DEF UiInv, PendingIsInnermost, n
    <3>3. /\ calls'[1].name = calls[1].name /\ calls'[1].site = calls[1].site
          /\ calls'[1].overtaken <=> calls[1].overtaken \/ Ui!Overtakes(calls[1], name, site)
      BY <1>4, <3>1, Zenon
    <3>4. Covered(calls[1]) => Covered(calls[1])'
      BY <1>1, <3>3, Zenon DEF Covered
    <3>5. CASE Ui!Armed(name)
      <4>1. calls'[1].name = name \/ calls'[1].overtaken
        BY <3>3, <3>5, Zenon DEF Ui!Overtakes
      <4>2. Awaited(calls[2])'
        BY <1>12, <3>1, <3>5, Zenon DEF Awaited, call
      <4>3. calls'[2].name = name
        BY <1>2, <3>1
      <4>4. Waits(calls[1], calls[2])'
        BY <4>1, <4>2, <4>3, Zenon DEF Waits, Covered
      <4> QED
        BY <1>7, <3>1, <4>4 DEF PendingIsInnermost
    <3>6. CASE ~Ui!Armed(name)
      <4>1. ~Ui!Armed(calls'[2].name) /\ calls'[2].site = site /\ calls'[2].name = name
        BY <1>2, <1>14, <3>1, <3>6, Zenon
      <4>2. CASE Awaited(calls[1])
        <5>1. Awaited(calls[1])'
          BY <1>13, <3>3, <3>6, <4>2, Zenon DEF Awaited
        <5>2. calls[1].name # name
          BY <3>6, <4>2, Zenon DEF Awaited
        <5>3. calls'[1].site # calls'[2].site \/ calls'[1].overtaken
          BY <3>3, <4>1, <5>2, Zenon DEF Ui!Overtakes
        <5> QED
          BY <1>7, <3>1, <4>1, <5>1, <5>3 DEF PendingIsInnermost, Waits
      <4>3. CASE Unawaited /\ Covered(calls[1])
        <5>1. Unawaited'
          BY <1>13, <3>6, <4>3, Zenon DEF Unawaited
        <5> QED
          BY <1>7, <3>1, <3>4, <4>1, <4>3, <5>1 DEF PendingIsInnermost, Waits
      <4> QED
        BY <3>2, <4>2, <4>3
    <3> QED
      BY <3>5, <3>6
  <2> QED
    BY <1>3, <2>1, <2>2
<1> QED
  BY <1>8, <1>9, <1>10, <1>11, <1>15, Zenon DEF UiInv

(* What keeps the names of the controls, the records of different objects and  *)
(* the controls of a policy settled, keeps the invariant between lookups.      *)
LEMMA BetweenLookups ==
    ASSUME UiInv, calls = << >>, UNCHANGED <<calls, UI_CALL, hook, UI_OBJECTS>>,
           control' \in [Controls -> UiControls], NEW o \in Controls,
           \A p \in Controls : p # o => control'[p] = control[p],
           control'[o].name \in ControlNames =>
              \A p \in Controls : p # o => control[p].name # control'[o].name,
           Settled(o)'
    PROVE  UiInv'
<1>1. UiTypes' /\ Distinct(UI_OBJECTS)'
  BY DEF UiInv, UiTypes, Distinct
<1>2. Named'
  <2>1. ASSUME NEW p \in Controls, NEW q \in Controls, control'[p].name = control'[q].name,
               control'[p].name \in ControlNames
        PROVE  p = q
    BY <2>1, Zenon DEF UiInv, Named
  <2>2. Len(calls') # 2 /\ Len(calls') # 1
    <3>1. Len(calls) = 0
      BY EmptySeq
    <3> QED
      BY <3>1
  <2> QED
    BY <2>1, <2>2, Zenon DEF Named
<1>3. \A p \in Controls : Settled(p)'
  <2> TAKE p \in Controls
  <2>1. CASE p = o
    BY <2>1
  <2>2. CASE p # o
    <3>1. control'[p] = control[p] /\ UI_OBJECTS' = UI_OBJECTS /\ Settled(p)
      BY <2>2 DEF UiInv
    <3> QED
      BY <3>1, Zenon DEF Settled, Ui!Taken, Ui!Records
  <2> QED
    BY <2>1, <2>2
<1>4. PendingIsInnermost'
  <2>1. Len(calls) = 0
    BY EmptySeq
  <2>2. Len(calls') # 2 /\ Len(calls') # 1
    BY <2>1
  <2> QED
    BY <2>2, Zenon DEF UiInv, PendingIsInnermost, Unawaited
<1> QED
  BY <1>1, <1>2, <1>3, <1>4, Zenon DEF UiInv

(* A call of the game that shows or hides a control is overruled.              *)
LEMMA SetKeeps ==
    ASSUME UiInv, NEW o \in Controls, NEW wanted \in BOOLEAN, Ui!SetVisible(o, wanted) PROVE UiInv'
<1> DEFINE seen == CASE Ui!object_policy(o) = "BLOCKED" -> FALSE
                      [] Ui!object_policy(o) = "FORCED_EVENT" -> TRUE
                      [] OTHER -> wanted
           found == control[o].found
<1>0. UiTypes /\ Settled(o) /\ control \in [Controls -> UiControls]
  BY DEF UiInv, UiTypes
<1>1. calls = << >> /\ UNCHANGED <<calls, UI_CALL, hook, UI_OBJECTS>> /\ control' = [control EXCEPT ![o].shown = seen]
  BY DEF Ui!SetVisible
<1>2. seen \in BOOLEAN /\ (Ui!object_policy(o) = "BLOCKED" => ~seen) /\ (Ui!object_policy(o) = "FORCED_EVENT" => seen)
  <2>1. CASE Ui!object_policy(o) = "BLOCKED"
    BY <2>1
  <2>2. CASE Ui!object_policy(o) = "FORCED_EVENT"
    BY <2>2
  <2>3. CASE Ui!object_policy(o) \notin {"BLOCKED", "FORCED_EVENT"}
    BY <2>3
  <2> QED
    BY <2>1, <2>2, <2>3
<1> HIDE DEF seen
<1>3. control[o] \in UiControls
  BY <1>0
<1> HIDE DEF found
<1>6. /\ control' \in [Controls -> UiControls]
      /\ control'[o].name = control[o].name /\ control'[o].shown = seen /\ control'[o].found = found
      /\ \A p \in Controls : p # o => control'[p] = control[p]
  <2> DEFINE b == [control[o] EXCEPT !.shown = seen]
  <2>1. b \in UiControls /\ b.name = control[o].name /\ b.shown = seen /\ b.found = found
    BY <1>2, <1>3 DEF UiControls, found
  <2>2. control' = [control EXCEPT ![o] = b]
    BY <1>0, <1>1
  <2> HIDE DEF b
  <2>3. control' \in [Controls -> UiControls] /\ control'[o] = b /\ \A p \in Controls : p # o => control'[p] = control[p]
    BY <1>0, <2>1, <2>2
  <2> QED
    BY <2>1, <2>3, Zenon
<1>7. Settled(o)'
  <2> SUFFICES ASSUME found, PolicyOf[control[o].name] # "NORMAL", Ui!Taken(o)
               PROVE  /\ \E i \in 1..Len(UI_OBJECTS) : /\ UI_OBJECTS[i].object = o
                                                       /\ UI_OBJECTS[i].policy = PolicyOf[control[o].name]
                      /\ seen = (PolicyOf[control[o].name] = "FORCED_EVENT")
    BY <1>1, <1>6, Zenon DEF Settled, Ui!Taken, Ui!Records
  <2>1. PICK i \in 1..Len(UI_OBJECTS) : /\ UI_OBJECTS[i].object = o
                                        /\ UI_OBJECTS[i].policy = PolicyOf[control[o].name]
    BY <1>0, Zenon DEF Settled, found
  <2>2. Ui!object_policy(o) = PolicyOf[control[o].name]
    BY <2>1, RecordDecides, Zenon DEF UiInv, UiTypes
  <2>3. UI_OBJECTS[i].policy \in Policies
    <3>1. UI_OBJECTS[i] \in UiRecords
      BY ElementOfSeq, Zenon DEF UiInv, UiTypes
    <3> QED
      BY <3>1 DEF UiRecords
  <2>4. seen = (PolicyOf[control[o].name] = "FORCED_EVENT")
    <3>1. PolicyOf[control[o].name] \in {"BLOCKED", "FORCED_EVENT"}
      BY <2>1, <2>3, Zenon DEF Policies
    <3>2. CASE PolicyOf[control[o].name] = "BLOCKED"
      <4>1. ~(PolicyOf[control[o].name] = "FORCED_EVENT") /\ ~seen
        BY <1>2, <2>2, <3>2
      <4> QED
        BY <1>2, <4>1, Zenon
    <3>3. CASE PolicyOf[control[o].name] = "FORCED_EVENT"
      <4>1. seen
        BY <1>2, <2>2, <3>3, Zenon
      <4> QED
        BY <1>2, <3>3, <4>1, Zenon
    <3> QED
      BY <3>1, <3>2, <3>3, Zenon
  <2> QED
    BY <2>1, <2>4, Zenon
<1>8. control'[o].name \in ControlNames => \A p \in Controls : p # o => control[p].name # control'[o].name
  BY <1>6, Zenon DEF UiInv, Named
<1> QED
  BY <1>1, <1>6, <1>7, <1>8, BetweenLookups, Zenon

(* A control that is built or destroyed is not yet, or no longer, found.       *)
LEMMA RemadeKeeps ==
    ASSUME UiInv, NEW o \in Controls, Ui!Destroy(o) \/ \E name \in ControlNames : Ui!Build(o, name)
    PROVE  UiInv'
<1>1. PICK c \in UiControls :
        /\ ~c.found /\ calls = << >> /\ UNCHANGED <<calls, UI_CALL, hook, UI_OBJECTS>>
        /\ control' = [control EXCEPT ![o] = c]
        /\ c.name \in ControlNames => Ui!Standing(c.name) = {}
  <2>1. CASE Ui!Destroy(o)
    <3>1. Ui!Nothing \in UiControls /\ ~Ui!Nothing.found /\ Ui!Nothing.name = "nothing"
      BY DEF UiControls, Ui!Nothing
    <3> QED
      BY <2>1, <3>1, ControlsAssumption, Zenon DEF Ui!Destroy
  <2>2. CASE \E name \in ControlNames : Ui!Build(o, name)
    <3>1. PICK name \in ControlNames : Ui!Build(o, name)
      BY <2>2
    <3> DEFINE c == [name |-> name, shown |-> TRUE, found |-> FALSE]
    <3>2. c \in UiControls /\ ~c.found /\ c.name = name
      BY DEF UiControls
    <3>3. /\ calls = << >> /\ UNCHANGED <<calls, UI_CALL, hook, UI_OBJECTS>>
          /\ control' = [control EXCEPT ![o] = c] /\ Ui!Standing(name) = {}
      BY <3>1, Zenon DEF Ui!Build
    <3> HIDE DEF c
    <3> QED
      BY <3>2, <3>3, Zenon
  <2> QED
    BY <2>1, <2>2
<1>2. /\ control' \in [Controls -> UiControls] /\ control'[o] = c
      /\ \A p \in Controls : p # o => control'[p] = control[p]
  BY <1>1 DEF UiInv, UiTypes
<1>3. Settled(o)'
  BY <1>1, <1>2, Zenon DEF Settled
<1>4. control'[o].name \in ControlNames => \A p \in Controls : p # o => control[p].name # control'[o].name
  BY <1>1, <1>2, Zenon DEF Ui!Standing
<1> QED
  BY <1>1, <1>2, <1>3, <1>4, BetweenLookups, Zenon

(* A lookup of a policy records the control and shows what it must, if the     *)
(* policy is that of the control or the control is of none.                    *)
LEMMA AppliedSettles ==
    ASSUME UiInv, NEW o \in Controls, NEW policy \in Policies, Ui!Taken(o), NEW seen \in BOOLEAN,
           PolicyOf[control[o].name] = policy \/ PolicyOf[control[o].name] = "NORMAL",
           UI_OBJECTS' = Ui!Recorded(o, policy),
           control'[o].name = control[o].name, control'[o].shown = (policy = "FORCED_EVENT"),
           \A p \in Controls : p # o => control'[p] = control[p]
    PROVE  UI_OBJECTS' \in Seq(UiRecords) /\ Distinct(UI_OBJECTS') /\ \A p \in Controls : Settled(p)'
<1> DEFINE R == UI_OBJECTS'
           n == Len(UI_OBJECTS)
<1>1. /\ R \in Seq(UiRecords) /\ Distinct(R)
      /\ \E i \in 1..Len(R) : R[i].object = o /\ R[i].policy = policy
      /\ \A p \in Controls \ {o}, i \in 1..n : UI_OBJECTS[i].object = p =>
            i \in 1..Len(R) /\ R[i] = UI_OBJECTS[i]
      /\ Len(R) >= n /\ (Ui!Records(o) # {} => Len(R) = n)
      /\ \A p \in Controls \ {o}, i \in 1..Len(R) : R[i].object = p =>
            i \in 1..n /\ UI_OBJECTS[i].object = p
  BY RecordedFacts DEF UiInv, UiTypes
<1>2. n \in Nat /\ Len(R) \in Nat /\ DOMAIN UI_OBJECTS = 1..n /\ DOMAIN R = 1..Len(R)
  BY <1>1, LenProperties DEF UiInv, UiTypes
<1>3. ASSUME NEW p \in Controls, p # o, Ui!Taken(p)' PROVE Ui!Taken(p)
  <2>1. CASE Ui!Records(p) # {}
    BY <2>1 DEF Ui!Taken
  <2>2. CASE Ui!Records(p) = {}
    <3>1. \A i \in 1..Len(R) : R[i].object # p
      <4> SUFFICES ASSUME NEW i \in 1..Len(R), R[i].object = p PROVE FALSE
        OBVIOUS
      <4>1. i \in 1..n /\ UI_OBJECTS[i].object = p
        BY <1>1, <1>3, Zenon
      <4>2. i \in Ui!Records(p)
        BY <1>2, <4>1 DEF Ui!Records
      <4> QED
        BY <2>2, <4>2
    <3>2. Ui!Records(p)' = {}
      BY <1>2, <3>1 DEF Ui!Records
    <3>3. Len(R) < MAX_UI_OBJECTS
      BY <1>3, <3>2, Zenon DEF Ui!Taken
    <3>4. Len(R) >= n
      BY <1>1, Zenon
    <3>5. n < MAX_UI_OBJECTS
      <4> HIDE DEF n, R
      <4> QED
        BY <1>2, <3>3, <3>4, ControlsAssumption
    <3> QED
      BY <3>5, Zenon DEF Ui!Taken
  <2> QED
    BY <2>1, <2>2
<1>4. ASSUME NEW p \in Controls PROVE Settled(p)'
  <2>1. CASE p = o
    <3>1. \E i \in 1..Len(UI_OBJECTS') : UI_OBJECTS'[i].object = o /\ UI_OBJECTS'[i].policy = policy
      BY <1>1, Zenon
    <3>2. PolicyOf[control'[o].name] # "NORMAL" => PolicyOf[control'[o].name] = policy
      BY Zenon
    <3> QED
      BY <2>1, <3>1, <3>2, Zenon DEF Settled
  <2>2. CASE p # o
    <3>1. control'[p] = control[p] /\ Settled(p)
      BY <2>2 DEF UiInv
    <3>2. SUFFICES ASSUME control[p].found, PolicyOf[control[p].name] # "NORMAL", Ui!Taken(p)
                   PROVE  /\ \E i \in 1..Len(R) : R[i].object = p /\ R[i].policy = PolicyOf[control[p].name]
                          /\ control[p].shown = (PolicyOf[control[p].name] = "FORCED_EVENT")
      BY <1>3, <2>2, <3>1, Zenon DEF Settled
    <3>3. control[p].shown = (PolicyOf[control[p].name] = "FORCED_EVENT")
      BY <3>1, <3>2, Zenon DEF Settled
    <3>4. PICK i \in 1..n : /\ UI_OBJECTS[i].object = p
                            /\ UI_OBJECTS[i].policy = PolicyOf[control[p].name]
      BY <3>1, <3>2, Zenon DEF Settled
    <3>5. i \in 1..Len(R) /\ R[i] = UI_OBJECTS[i]
      BY <1>1, <2>2, <3>4, Zenon
    <3> QED
      BY <3>3, <3>4, <3>5, Zenon
  <2> QED
    BY <2>1, <2>2
<1> QED
  BY <1>1, <1>4

(* What a lookup that returns leaves: the names, the controls found before, and *)
(* its own control unless it was overtaken.                                    *)
LEMMA ReturnSettles ==
    ASSUME UiInv, Ui!LookupReturns, NEW call \in Lookups, call = Ui!Last(calls), NEW ours \in BOOLEAN,
           ours <=> UI_CALL.site = call.site /\ hook = call.site,
           ours => /\ UI_CALL.policy \in Policies
                   /\ PolicyOf[call.name] = UI_CALL.policy \/ PolicyOf[call.name] = "NORMAL",
           ~ours => Covered(call)
    PROVE  /\ control' \in [Controls -> UiControls] /\ UI_OBJECTS' \in Seq(UiRecords) /\ Distinct(UI_OBJECTS')
           /\ \A p \in Controls : /\ Settled(p)' /\ control'[p].name = control[p].name
                                  /\ control[p].found => control'[p].found
                                  /\ control[p].name = call.name /\ ~call.overtaken => control'[p].found
<1> DEFINE policy == IF ours THEN UI_CALL.policy ELSE "NORMAL"
           applied(o) == policy # "NORMAL" /\ Ui!Taken(o)
<1>1. \/ Ui!Standing(call.name) = {} /\ UNCHANGED <<control, UI_OBJECTS>>
      \/ \E o \in Ui!Standing(call.name) :
           /\ UI_OBJECTS' = IF applied(o) THEN Ui!Recorded(o, policy) ELSE UI_OBJECTS
           /\ control' = [control EXCEPT ![o].found = @ \/ ~call.overtaken,
                              ![o].shown = IF applied(o) THEN policy = "FORCED_EVENT" ELSE @]
  <2> DEFINE taken == UI_CALL.site = Ui!Last(calls).site /\ hook = Ui!Last(calls).site
             rule == IF taken THEN UI_CALL.policy ELSE "NORMAL"
  <2>1. ours <=> taken
    OBVIOUS
  <2>2. \/ Ui!Standing(Ui!Last(calls).name) = {} /\ UNCHANGED <<control, UI_OBJECTS>>
        \/ \E o \in Ui!Standing(Ui!Last(calls).name) :
             /\ UI_OBJECTS' = IF rule # "NORMAL" /\ Ui!Taken(o) THEN Ui!Recorded(o, rule) ELSE UI_OBJECTS
             /\ control' = [control EXCEPT ![o].found = @ \/ ~Ui!Last(calls).overtaken,
                   ![o].shown = IF rule # "NORMAL" /\ Ui!Taken(o) THEN rule = "FORCED_EVENT" ELSE @]
    BY Zenon DEF Ui!LookupReturns
  <2>3. policy = rule
    BY <2>1
  <2> HIDE DEF policy, rule, taken
  <2> QED
    BY <2>2, <2>3, Zenon
<1>2. UiTypes /\ control \in [Controls -> UiControls] /\ UI_OBJECTS \in Seq(UiRecords) /\ Distinct(UI_OBJECTS)
  BY DEF UiInv, UiTypes
<1>3. policy \in Policies /\ (policy # "NORMAL" => ours /\ policy = UI_CALL.policy)
  BY DEF Policies
<1> HIDE DEF policy
<1>4. CASE Ui!Standing(call.name) = {} /\ UNCHANGED <<control, UI_OBJECTS>>
  <2>1. control' = control /\ UI_OBJECTS' = UI_OBJECTS
    BY <1>4
  <2>2. \A p \in Controls : Settled(p)'
    BY <2>1, Zenon DEF UiInv, Settled, Ui!Taken, Ui!Records
  <2>3. \A p \in Controls : control[p].name # call.name
    BY <1>4 DEF Ui!Standing
  <2> QED
    BY <1>2, <2>1, <2>2, <2>3, Zenon
<1>5. ASSUME NEW o \in Ui!Standing(call.name),
             UI_OBJECTS' = IF applied(o) THEN Ui!Recorded(o, policy) ELSE UI_OBJECTS,
             control' = [control EXCEPT ![o].found = @ \/ ~call.overtaken,
                            ![o].shown = IF applied(o) THEN policy = "FORCED_EVENT" ELSE @]
      PROVE  /\ control' \in [Controls -> UiControls] /\ UI_OBJECTS' \in Seq(UiRecords) /\ Distinct(UI_OBJECTS')
             /\ \A p \in Controls : /\ Settled(p)' /\ control'[p].name = control[p].name
                                    /\ control[p].found => control'[p].found
                                    /\ control[p].name = call.name /\ ~call.overtaken => control'[p].found
  <2> DEFINE seen == control[o].found \/ ~call.overtaken
             shows == IF applied(o) THEN policy = "FORCED_EVENT" ELSE control[o].shown
             c == [control[o] EXCEPT !.found = seen, !.shown = shows]
  <2>1. o \in Controls /\ control[o].name = call.name /\ control[o] \in UiControls
    BY <1>2, <1>5 DEF Ui!Standing
  <2>2. seen \in BOOLEAN /\ shows \in BOOLEAN
    BY <2>1 DEF UiControls, Lookups
  <2>3. control' = [control EXCEPT ![o] = c]
    <3> HIDE DEF applied
    <3> QED
      BY <1>2, <1>5, <2>1
  <2>4. /\ (applied(o) => shows = (policy = "FORCED_EVENT")) /\ (~applied(o) => shows = control[o].shown)
        /\ (control[o].found \/ ~call.overtaken => seen) /\ (seen => control[o].found \/ ~call.overtaken)
    BY <2>2
  <2> HIDE DEF seen, shows
  <2>5. c \in UiControls /\ c.name = control[o].name /\ c.found = seen /\ c.shown = shows
    BY <2>1, <2>2 DEF UiControls
  <2> HIDE DEF c
  <2>6. /\ control' \in [Controls -> UiControls] /\ control'[o] = c
        /\ \A p \in Controls : p # o => control'[p] = control[p]
    BY <1>2, <2>1, <2>3, <2>5
  <2>7. \A p \in Controls : control[p].name = call.name => p = o
    <3>1. call.name \in ControlNames
      BY DEF Lookups
    <3> QED
      BY <2>1, <3>1, Zenon DEF UiInv, Named
  <2>8. UI_OBJECTS' \in Seq(UiRecords) /\ Distinct(UI_OBJECTS') /\ \A p \in Controls : Settled(p)'
    <3>1. CASE applied(o)
      <4>1. UI_OBJECTS' = Ui!Recorded(o, policy)
        BY <1>5, <3>1
      <4>2. PolicyOf[control[o].name] = policy \/ PolicyOf[control[o].name] = "NORMAL"
        BY <1>3, <2>1, <3>1, Zenon
      <4>3. control'[o].name = control[o].name /\ control'[o].shown = (policy = "FORCED_EVENT")
        BY <2>4, <2>5, <2>6, <3>1, Zenon
      <4>4. Ui!Taken(o)
        BY <3>1
      <4> QED
        BY <1>3, <2>1, <2>2, <2>6, <4>1, <4>2, <4>3, <4>4, AppliedSettles, Zenon
    <3>2. CASE ~applied(o)
      <4>1. UI_OBJECTS' = UI_OBJECTS /\ control'[o].shown = control[o].shown
        BY <1>5, <2>4, <2>5, <2>6, <3>2, Zenon
      <4>2. ASSUME NEW p \in Controls, p # o PROVE Settled(p)'
        <5>1. control'[p] = control[p] /\ Settled(p)
          BY <2>6, <4>2 DEF UiInv
        <5> QED
          BY <4>1, <5>1, Zenon DEF Settled, Ui!Taken, Ui!Records
      <4>3. Settled(o)'
        <5>1. Ui!Taken(o)' <=> Ui!Taken(o)
          BY <4>1, Zenon DEF Ui!Taken, Ui!Records
        <5>2. \/ PolicyOf[control[o].name] = "NORMAL" \/ ~Ui!Taken(o) \/ (seen => control[o].found)
          <6>1. CASE ours
            <7>1. PolicyOf[call.name] = "NORMAL" \/ policy # "NORMAL"
              BY <6>1 DEF policy
            <7> QED
              BY <2>1, <3>2, <7>1, Zenon
          <6>2. CASE ~ours
            <7>1. Covered(call)
              BY <6>2
            <7>2. ~Ui!Armed(call.name) => PolicyOf[call.name] = "NORMAL"
              BY Zenon DEF Ui!Armed
            <7> QED
              BY <2>1, <2>4, <7>1, <7>2, Zenon DEF Covered
          <6> QED
            BY <6>1, <6>2
        <5>3. Settled(o)
          BY <2>1 DEF UiInv
        <5> QED
          BY <2>5, <2>6, <4>1, <5>1, <5>2, <5>3, Zenon DEF Settled
      <4> QED
        BY <1>2, <4>1, <4>2, <4>3, Zenon
    <3> QED
      BY <3>1, <3>2
  <2> QED
    BY <2>4, <2>5, <2>6, <2>7, <2>8, Zenon
<1> QED
  BY <1>1, <1>4, <1>5, Zenon

(* A lookup returns. *)
LEMMA ReturnKeeps == ASSUME UiInv, Ui!LookupReturns PROVE UiInv'
<1> DEFINE n == Len(calls)
           call == Ui!Last(calls)
           ours == UI_CALL.site = call.site /\ hook = call.site
<1>1. /\ calls # << >> /\ calls' = Ui!Front(calls) /\ UiTypes
      /\ IF ours THEN Ui!clear_pending_return ELSE UNCHANGED <<UI_CALL, hook>>
  BY Zenon DEF Ui!LookupReturns, UiInv
<1>2. /\ n \in {1, 2} /\ call = calls[n] /\ call \in Lookups
      /\ calls' \in Seq(Lookups) /\ Len(calls') = n - 1
      /\ n = 2 => calls'[1] = calls[1]
  BY <1>1, LookupsFacts
<1>3. call.site \in LookupSites /\ call.name \in ControlNames
  BY <1>2 DEF Lookups
<1>4. n = 2 => calls[1] \in Lookups
  <2>1. \A i \in 1..n : calls[i] \in Lookups
    BY ElementOfSeq, Zenon DEF UiInv, UiTypes
  <2> HIDE DEF n
  <2> QED
    BY <2>1
<1> HIDE DEF call, n
<1>5. \/ Awaited(call) /\ (n = 2 => calls[1].name = call.name \/ Covered(calls[1]))
      \/ Unawaited /\ Covered(call) /\ (n = 2 => Covered(calls[1]))
      \/ /\ n = 2 /\ ~Ui!Armed(call.name) /\ Awaited(calls[1])
         /\ calls[1].site # call.site \/ calls[1].overtaken
  <2>1. CASE n = 1
    <3>1. Awaited(calls[1]) \/ (Unawaited /\ Covered(calls[1]))
      BY <2>1, Zenon DEF UiInv, PendingIsInnermost, n
    <3>2. n # 2 /\ call = calls[1]
      BY <1>2, <2>1
    <3> QED
      BY <3>1, <3>2, Zenon
  <2>2. CASE n = 2
    <3>1. Waits(calls[1], calls[2])
      BY <2>2, Zenon DEF UiInv, PendingIsInnermost, n
    <3>2. call = calls[2]
      BY <1>2, <2>2, Zenon
    <3> QED
      BY <2>2, <3>1, <3>2, Zenon DEF Waits, Covered
  <2> QED
    BY <1>2, <2>1, <2>2
<1>6. Unawaited => ~ours
  BY <1>3, ControlsAssumption DEF Unawaited
<1>7. Awaited(call) => ours
  BY Zenon DEF Awaited
<1>8. Awaited(call) => UI_CALL.policy = PolicyOf[call.name] /\ UI_CALL.policy \in Policies
  BY <1>3, ControlsAssumption DEF Awaited, Policies
<1>9. n = 2 /\ Awaited(calls[1]) => UI_CALL.policy = PolicyOf[calls[1].name] /\ UI_CALL.policy \in Policies
  BY <1>4, ControlsAssumption DEF Awaited, Policies, Lookups
<1>10. ~Ui!Armed(call.name) => PolicyOf[call.name] = "NORMAL" /\ Covered(call)
  BY Zenon DEF Ui!Armed, Covered
<1>11. /\ ours => /\ UI_CALL.policy \in Policies
                  /\ PolicyOf[call.name] = UI_CALL.policy \/ PolicyOf[call.name] = "NORMAL"
       /\ ~ours => Covered(call)
  <2> HIDE DEF ours
  <2> QED
    BY <1>5, <1>6, <1>7, <1>8, <1>9, <1>10, Zenon
<1>12. /\ control' \in [Controls -> UiControls] /\ UI_OBJECTS' \in Seq(UiRecords) /\ Distinct(UI_OBJECTS')
       /\ \A p \in Controls : /\ Settled(p)' /\ control'[p].name = control[p].name
                              /\ control[p].found => control'[p].found
                              /\ control[p].name = call.name /\ ~call.overtaken => control'[p].found
  <2>1. ours \in BOOLEAN /\ (ours <=> UI_CALL.site = call.site /\ hook = call.site)
    OBVIOUS
  <2>2. call = Ui!Last(calls)
    BY DEF call
  <2> HIDE DEF ours
  <2> QED
    BY <1>2, <1>11, <2>1, <2>2, ReturnSettles
<1>13. ours => Unawaited'
  <2>1. Ui!NotPending.site = "none" /\ Ui!NoSite = "none"
    BY DEF Ui!NotPending, Ui!NoSite
  <2> QED
    BY <1>1, <2>1, Zenon DEF Ui!clear_pending_return, Unawaited
<1>14. ~ours => UI_CALL' = UI_CALL /\ hook' = hook
  BY <1>1, Zenon
<1> HIDE DEF ours
<1>15. Named' /\ UiTypes'
  <2>1. \A o, p \in Controls : control'[o].name = control'[p].name /\ control'[o].name \in ControlNames => o = p
    BY <1>12, Zenon DEF UiInv, Named
  <2>2. Len(calls') # 2 /\ Len(calls') =< 2
    BY <1>2
  <2> QED
    BY <1>2, <1>12, <2>1, <2>2, Zenon DEF Named, UiTypes
<1>16. PendingIsInnermost'
  <2>1. CASE n = 1
    <3>1. Unawaited'
      <4>1. ~(n = 2)
        BY <2>1
      <4>2. Unawaited /\ ~ours => Unawaited'
        BY <1>14, Zenon DEF Unawaited
      <4> QED
        BY <1>5, <1>6, <1>7, <1>13, <4>1, <4>2, Zenon
    <3>2. Len(calls') # 1 /\ Len(calls') # 2
      BY <1>2, <2>1
    <3> QED
      BY <3>1, <3>2 DEF PendingIsInnermost
  <2>2. CASE n = 2
    <3>1. Len(calls') = 1 /\ calls' # << >> /\ Len(calls') # 2 /\ calls'[1] = calls[1]
      <4>1. Len(calls') = 1 /\ Len(calls') # 2 /\ Len(calls') # 0
        BY <1>2, <2>2
      <4>2. calls' # << >>
        BY <4>1, EmptySeq
      <4> QED
        BY <1>2, <2>2, <4>1, <4>2, Zenon
    <3>2. ~call.overtaken
      BY <1>2, <2>2, Zenon DEF UiInv, Named, n
    <3>3. Covered(calls[1]) => Covered(calls[1])'
      BY <1>12, <3>1, Zenon DEF Covered
    <3>4. calls[1].name = call.name => Covered(calls[1])'
      BY <1>12, <3>1, <3>2, Zenon DEF Covered
    <3>5. calls[1].overtaken => Covered(calls[1])'
      BY <3>1, Zenon DEF Covered
    <3>6. Awaited(calls[1]) /\ ~ours => Awaited(calls[1])'
      BY <1>14, <3>1, Zenon DEF Awaited
    <3>7. Unawaited /\ ~ours => Unawaited'
      BY <1>14, Zenon DEF Unawaited
    <3>8. Awaited(calls[1]) /\ ours => calls[1].site = call.site
      BY Zenon DEF Awaited, ours
    <3>9. Awaited(calls[1])' \/ (Unawaited' /\ Covered(calls[1])')
      BY <1>5, <1>6, <1>7, <1>13, <2>2, <3>3, <3>4, <3>5, <3>6, <3>7, <3>8, Zenon
    <3> QED
      BY <3>1, <3>9 DEF PendingIsInnermost
  <2> QED
    BY <1>2, <2>1, <2>2
<1> QED
  BY <1>12, <1>15, <1>16, Zenon DEF UiInv

(* The invariant hides what is retired.                                        *)
LEMMA UiHolds == UiInv => Ui!RetiredControlsStayHidden
<1> SUFFICES ASSUME UiInv, NEW o \in Controls, control[o].found, Ui!Taken(o)
             PROVE  /\ PolicyOf[control[o].name] = "BLOCKED" => ~control[o].shown
                    /\ PolicyOf[control[o].name] = "FORCED_EVENT" => control[o].shown
  BY DEF Ui!RetiredControlsStayHidden
<1>1. Settled(o)
  BY DEF UiInv
<1>2. "BLOCKED" # "NORMAL" /\ "FORCED_EVENT" # "NORMAL" /\ "BLOCKED" # "FORCED_EVENT"
  OBVIOUS
<1> QED
  BY <1>1, <1>2, Zenon DEF Settled

(* The start: no control, no lookup, no record. *)
LEMMA UiInit == ASSUME Init PROVE UiInv
<1>1. /\ control = [o \in Controls |-> Ui!Nothing] /\ calls = << >>
      /\ UI_CALL = Ui!NotPending /\ hook = Ui!NoSite /\ UI_OBJECTS = << >>
  BY Zenon DEF Init, Ui!Init
<1>2. Ui!Nothing \in UiControls /\ Ui!Nothing.name = "nothing" /\ ~Ui!Nothing.found
  BY DEF Ui!Nothing, UiControls
<1>3. UiTypes
  <2>1. Len(calls) = 0
    BY <1>1, EmptySeq
  <2>2. Len(calls) =< 2
    BY <2>1
  <2>3. calls \in Seq(Lookups) /\ UI_OBJECTS \in Seq(UiRecords)
    BY <1>1, EmptySeq
  <2> QED
    BY <1>1, <1>2, <2>2, <2>3 DEF UiTypes
<1>4. Distinct(UI_OBJECTS)
  BY <1>1 DEF Distinct
<1>5. Named
  <2>1. Len(calls) # 2
    BY <1>1
  <2>2. \A o \in Controls : control[o].name \notin ControlNames
    BY <1>1, <1>2, ControlsAssumption
  <2> QED
    BY <2>1, <2>2, Zenon DEF Named
<1>6. \A o \in Controls : Settled(o)
  BY <1>1, <1>2 DEF Settled
<1>7. PendingIsInnermost
  <2>1. Ui!NotPending.site = "none" /\ Ui!NoSite = "none"
    BY DEF Ui!NotPending, Ui!NoSite
  <2>2. Len(calls) # 1 /\ Len(calls) # 2
    BY <1>1
  <2> QED
    BY <1>1, <2>1, <2>2, Zenon DEF PendingIsInnermost, Unawaited
<1> QED
  BY <1>3, <1>4, <1>5, <1>6, <1>7, Zenon DEF UiInv

(* Every step of the program. *)
LEMMA UiInductive == ASSUME UiInv, [Next]_allVars PROVE UiInv'
<1>1. CASE part = "ui" /\ Ui!Next
  <2>1. CASE \E name \in ControlNames, site \in LookupSites : Ui!LookupEntered(name, site)
    BY <2>1, EnterKeeps, Zenon
  <2>2. CASE Ui!LookupReturns
    BY <2>2, ReturnKeeps, Zenon
  <2>3. CASE \E o \in Controls, wanted \in BOOLEAN : Ui!SetVisible(o, wanted)
    BY <2>3, SetKeeps
  <2>4. CASE \E o \in Controls, name \in ControlNames : Ui!Build(o, name)
    BY <2>4, RemadeKeeps, Zenon
  <2>5. CASE \E o \in Controls : Ui!Destroy(o)
    BY <2>5, RemadeKeeps, Zenon
  <2> QED
    BY <1>1, <2>1, <2>2, <2>3, <2>4, <2>5, Zenon DEF Ui!Next
<1>2. CASE UNCHANGED uiVars
  <2>1. /\ control' = control /\ calls' = calls /\ UI_CALL' = UI_CALL /\ hook' = hook /\ UI_OBJECTS' = UI_OBJECTS
    BY <1>2, Zenon DEF uiVars
  <2>2. UiTypes' /\ Distinct(UI_OBJECTS)' /\ Named'
    BY <2>1, Zenon DEF UiInv, UiTypes, Distinct, Named
  <2>3. \A o \in Controls : Settled(o)'
    BY <2>1, Zenon DEF UiInv, Settled, Ui!Taken, Ui!Records
  <2>4. \A i \in 1..2 : /\ Awaited(calls[i]) => Awaited(calls[i])'
                        /\ Covered(calls[i]) <=> Covered(calls[i])'
    BY <2>1, Zenon DEF Awaited, Covered
  <2>5. 1 \in 1..2 /\ 2 \in 1..2
    OBVIOUS
  <2>6. PendingIsInnermost'
    BY <2>1, <2>4, <2>5, Zenon DEF UiInv, PendingIsInnermost, Waits, Unawaited
  <2> QED
    BY <2>2, <2>3, <2>6, Zenon DEF UiInv
<1> QED
  BY <1>1, <1>2, Zenon DEF Next, OthersRest, allVars

(* The weekly events and the controls of the services that are gone, for any   *)
(* number of managers, weeks, mishaps, controls, names, policies and records.  *)
THEOREM OfflineModeIsKept == Spec => []OfflineModeHolds
<1>1. Init => EventsInv /\ UiInv
  BY EventsInit, UiInit
<1>2. EventsInv /\ [Next]_allVars => EventsInv'
  BY HookKeeps, OthersKeepEvents
<1>3. UiInv /\ [Next]_allVars => UiInv'
  BY UiInductive
<1>4. EventsInv /\ UiInv => OfflineModeHolds
  BY EventsHold, UiHolds, Zenon DEF OfflineModeHolds
<1> QED
  BY <1>1, <1>2, <1>3, <1>4, PTL DEF Spec

=============================================================================
