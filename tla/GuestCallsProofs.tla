---------------------------- MODULE GuestCallsProofs ----------------------------
(***************************************************************************)
(* For any functions, hooks and return addresses, and any depth of nested  *)
(* calls: the game goes on where its innermost activation was to go on.    *)
(*                                                                         *)
(* The state holds two stacks, of host levels and of activations of the    *)
(* game, that no variable ties together.  The invariant ties them with a   *)
(* function base: level k, if it is a call, entered the game with          *)
(* activation base[k], the only kind of activation that returns to MAGIC.  *)
(***************************************************************************)
EXTENDS GuestCalls, SequenceTheorems, TLAPS

(* Addresses are of one kind only: a return address is no entry, and the   *)
(* markers are neither.                                                    *)
Addresses == /\ Hooked \subseteq Functions
             /\ Functions \cap Sites = {}
             /\ {MAGIC, Import, None} \cap (Functions \cup Sites) = {}
-----------------------------------------------------------------------------
(* The invariant. *)

Codes == Functions \cup Sites
Modes == {FALSE} \cup {IsThumb(a) : a \in Codes}
Kinds == {"call", "import", "hook"}
Cpus == [pc : Codes \cup {MAGIC, Import, None}, lr : Sites \cup {MAGIC, None}, thumb : Modes,
         redirect : Sites \cup {None}, blocked : BOOLEAN]
Activations == [ret : Sites \cup {MAGIC}, at : Codes]
Levels == [kind : Kinds, saved : Cpus]
Jumps == [site : Sites, depth : Nat \ {0}, level : Nat]

Typed == /\ cpu \in Cpus /\ guest \in Seq(Activations) /\ host \in Seq(Levels)
         /\ jump \in Jumps \cup {NoJump} /\ fault \in BOOLEAN

(* The game's code, with the registers at c, in activation a. *)
Goes(c, a) ==
    /\ c.pc # None
    /\ c.pc \in Codes => c.thumb = IsThumb(c.pc) /\ c.pc = a.at
    /\ c.pc \in Hooked => c.lr = a.ret
    /\ c.pc = Import => c.lr \in Sites /\ c.lr = a.at

(* Host code of a level, with the registers at c, that activation a entered. *)
Holds(level, c, a) ==
    /\ level.kind = "import" => /\ c.pc = Import /\ c.lr \in Sites /\ c.lr = level.saved.lr
                                /\ c.redirect \in {None, a.at}
                                /\ c.redirect = None => c.lr = a.at
                                /\ c.blocked => c.redirect = None
    /\ level.kind = "hook" => c = level.saved /\ c.pc \in Hooked /\ Goes(c, a)

IsCall(h, k) == k \in 1..Len(h) /\ h[k].kind = "call"

(* Host levels alternate, from a call of the engine on. *)
Alternates(h) == \A k \in 1..Len(h) : h[k].kind = "call" <=> (k = 1 \/ ~IsCall(h, k - 1))

Rising(h, b) == /\ h # << >> => b[1] = 1
                /\ \A j, k \in 1..Len(h) : IsCall(h, j) /\ IsCall(h, k) /\ j < k => b[j] < b[k]

(* Each call has its activation, each activation that returns to the host its call. *)
Frames(g, h, b) ==
    /\ \A k \in 1..Len(h) : IsCall(h, k) => b[k] \in 1..Len(g) /\ g[b[k]].ret = MAGIC
    /\ \A d \in 1..Len(g) : g[d].ret = MAGIC => \E k \in 1..Len(h) : IsCall(h, k) /\ b[k] = d
    /\ \A d \in 1..Len(g) : g[d].ret # MAGIC => d > 1 /\ g[d].ret = g[d - 1].at

(* What a call puts back is what the level below it needs. *)
Suspended(g, h, b) ==
    \A k \in 2..Len(h) : IsCall(h, k) => /\ b[k] \in 2..Len(g) + 1
                                         /\ Holds(h[k - 1], h[k].saved, g[b[k] - 1])

(* A call whose activation is gone is at the magic address. *)
Returned(c, h) == c.pc = MAGIC /\ h # << >>

Nest(c, g, h, b) ==
    /\ Alternates(h) /\ Rising(h, b) /\ Suspended(g, h, b)
    /\ ~Returned(c, h) => Frames(g, h, b)
    /\ Returned(c, h) => /\ IsCall(h, Len(h)) /\ Len(g) = b[Len(h)] - 1
                         /\ Frames(g, Front(h), b)
    /\ h = << >> => g = << >>
    /\ h # << >> => IF IsCall(h, Len(h)) THEN Goes(c, Last(g)) ELSE Holds(Last(h), c, Last(g))

Bases == [Nat -> Nat]
Nested == ~fault => \E b \in Bases : Nest(cpu, guest, host, b)
Inv == Typed /\ Nested
-----------------------------------------------------------------------------
(* Records and sequences. *)

(* Going to a known address leaves registers that are registers. *)
LEMMA BranchTypes ==
    ASSUME NEW c \in Cpus, NEW to \in Codes \cup {MAGIC}
    PROVE  /\ BranchTo(c, to) \in Cpus /\ BranchTo(c, to).pc = to
           /\ BranchTo(c, to).lr = c.lr
           /\ to # MAGIC => BranchTo(c, to).thumb = IsThumb(to)
<1>1. (IF to = MAGIC THEN FALSE ELSE IsThumb(to)) \in Modes
  BY DEF Modes
<1> DEFINE m == IF to = MAGIC THEN FALSE ELSE IsThumb(to)
<1>2. to # MAGIC => m = IsThumb(to)
  OBVIOUS
<1>3. BranchTo(c, to) = [c EXCEPT !.pc = to, !.thumb = m]
  BY DEF BranchTo
<1>4. m \in Modes
  BY <1>1
<1> HIDE DEF m
<1> QED BY <1>2, <1>3, <1>4 DEF Cpus

(* What Front and Last are, position by position. *)
LEMMA FrontFacts ==
    ASSUME NEW U, NEW s \in Seq(U), s # << >>
    PROVE  /\ Len(s) \in Nat \ {0} /\ Last(s) \in U /\ Last(s) = s[Len(s)]
           /\ Front(s) \in Seq(U) /\ Len(Front(s)) = Len(s) - 1
           /\ \A k \in 1..Len(s) - 1 : Front(s)[k] = s[k]
<1>1. Len(s) \in Nat \ {0}
  BY EmptySeq, LenProperties
<1> DEFINE n == Len(s) - 1
<1>2. n \in Nat /\ \A k \in 1..n : s[k] \in U
  BY <1>1, ElementOfSeq
<1> HIDE DEF n
<1>3. /\ SubSeq(s, 1, n) \in Seq(U) /\ Len(SubSeq(s, 1, n)) = n
      /\ \A k \in 1..n : SubSeq(s, 1, n)[k] = s[k]
  BY <1>2, SubSeqProperties
<1>4. s[Len(s)] \in U
  BY <1>1, ElementOfSeq
<1> QED BY <1>1, <1>3, <1>4 DEF Front, Last, n

(* The innermost activation remembers where it is to go on; nothing else changes. *)
Marked(g, site) == [g EXCEPT ![Len(g)].at = site]

(* Marking changes the innermost activation only, and not where it returns to. *)
LEMMA MarkedFacts ==
    ASSUME NEW g \in Seq(Activations), g # << >>, NEW site \in Sites
    PROVE  /\ Marked(g, site) \in Seq(Activations) /\ Len(Marked(g, site)) = Len(g)
           /\ \A d \in 1..Len(g) - 1 : Marked(g, site)[d] = g[d]
           /\ Marked(g, site)[Len(g)].ret = g[Len(g)].ret
           /\ Marked(g, site)[Len(g)].at = site
           /\ Last(Marked(g, site)) = Marked(g, site)[Len(g)]
<1>1. Len(g) \in 1..Len(g) /\ g[Len(g)] \in Activations
  BY EmptySeq, LenProperties, ElementOfSeq
<1>2. [g[Len(g)] EXCEPT !.at = site] \in Activations
  BY <1>1 DEF Activations, Codes
<1> DEFINE a == [g[Len(g)] EXCEPT !.at = site]
<1>3. a.ret = g[Len(g)].ret /\ a.at = site
  BY <1>1 DEF Activations
<1>4. Marked(g, site) = [g EXCEPT ![Len(g)] = a]
  BY DEF Marked
<1>5. a \in Activations
  BY <1>2
<1> HIDE DEF a
<1>6. /\ [g EXCEPT ![Len(g)] = a] \in Seq(Activations)
      /\ Len([g EXCEPT ![Len(g)] = a]) = Len(g)
      /\ [g EXCEPT ![Len(g)] = a][Len(g)] = a
      /\ \A d \in 1..Len(g) - 1 : [g EXCEPT ![Len(g)] = a][d] = g[d]
  BY <1>1, <1>5, ExceptSeq
<1> QED BY <1>3, <1>4, <1>6 DEF Last
-----------------------------------------------------------------------------
(* The two stacks. *)

(* The stack g becomes g2 by what the game does above its activation j. *)
Stays(g, g2, j) ==
    /\ j \in 1..Len(g2) /\ g2[j].ret = MAGIC
    /\ \A d \in 1..j - 1 : g2[d] = g[d]
    /\ \A d \in j + 1..Len(g2) : g2[d].ret # MAGIC /\ g2[d].ret = g2[d - 1].at

(* Above the activation of the innermost call, each returns to the one below. *)
LEMMA AboveTheCall ==
    ASSUME NEW g \in Seq(Activations), NEW h \in Seq(Levels), NEW b \in Bases, NEW m \in 1..Len(h),
           Rising(h, b), Frames(g, h, b), IsCall(h, m),
           \A k \in 1..Len(h) : IsCall(h, k) => k <= m
    PROVE  /\ b[m] \in 1..Len(g) /\ g[b[m]].ret = MAGIC
           /\ \A k \in 1..Len(h) : IsCall(h, k) => b[k] <= b[m] /\ (b[k] = b[m] => k = m)
           /\ \A d \in b[m] + 1..Len(g) : g[d].ret # MAGIC /\ g[d].ret = g[d - 1].at
<1>1. b[m] \in 1..Len(g) /\ g[b[m]].ret = MAGIC
  BY DEF Frames
<1>2. ASSUME NEW k \in 1..Len(h), IsCall(h, k)
      PROVE  b[k] <= b[m] /\ (b[k] = b[m] => k = m)
  <2>1. k <= m /\ b[k] \in Nat /\ b[m] \in Nat /\ k \in Nat /\ m \in Nat
    BY <1>2 DEF Bases
  <2>2. k < m => b[k] < b[m]
    BY <1>2 DEF Rising
  <2> QED BY <2>1, <2>2
<1>3. ASSUME NEW d \in b[m] + 1..Len(g)
      PROVE  g[d].ret # MAGIC /\ g[d].ret = g[d - 1].at
  <2>1. d \in 1..Len(g) /\ d > b[m]
    BY <1>1
  <2>2. g[d].ret # MAGIC
    <3> SUFFICES ASSUME g[d].ret = MAGIC PROVE FALSE
      OBVIOUS
    <3>1. PICK k \in 1..Len(h) : IsCall(h, k) /\ b[k] = d
      BY <2>1 DEF Frames
    <3> QED BY <1>1, <1>2, <2>1, <3>1
  <2> QED BY <2>1, <2>2 DEF Frames
<1> QED BY <1>1, <1>2, <1>3

(* What the game does above the activation of the innermost call concerns no    *)
(* level of the host.                                                           *)
LEMMA Regrown ==
    ASSUME NEW g \in Seq(Activations), NEW h \in Seq(Levels), NEW b \in Bases, NEW m \in 1..Len(h),
           NEW g2 \in Seq(Activations),
           Rising(h, b), Frames(g, h, b), Suspended(g, h, b), IsCall(h, m),
           \A k \in 1..Len(h) : IsCall(h, k) => k <= m,
           Stays(g, g2, b[m])
    PROVE  Frames(g2, h, b) /\ Suspended(g2, h, b)
<1>0. /\ b[m] \in 1..Len(g2) /\ g2[b[m]].ret = MAGIC
      /\ \A d \in 1..b[m] - 1 : g2[d] = g[d]
      /\ \A d \in b[m] + 1..Len(g2) : g2[d].ret # MAGIC /\ g2[d].ret = g2[d - 1].at
  BY DEF Stays
<1>1. /\ b[m] \in 1..Len(g)
      /\ \A k \in 1..Len(h) : IsCall(h, k) => b[k] <= b[m] /\ (b[k] = b[m] => k = m)
  BY AboveTheCall
<1>2. ASSUME NEW k \in 1..Len(h), IsCall(h, k)
      PROVE  b[k] \in 1..Len(g2) /\ g2[b[k]].ret = MAGIC
  <2>1. b[k] \in 1..Len(g) /\ g[b[k]].ret = MAGIC
    BY <1>2 DEF Frames
  <2>2. b[k] <= b[m]
    BY <1>1, <1>2
  <2>3. CASE b[k] = b[m]
    BY <1>0, <2>3
  <2>4. CASE b[k] # b[m]
    <3>1. b[k] \in 1..b[m] - 1
      BY <1>0, <2>1, <2>2, <2>4
    <3>2. g2[b[k]] = g[b[k]]
      BY <1>0, <3>1
    <3>3. b[k] \in 1..Len(g2)
      BY <1>0, <3>1
    <3> QED BY <2>1, <3>2, <3>3
  <2> QED BY <2>3, <2>4
<1>3. ASSUME NEW d \in 1..Len(g2), g2[d].ret = MAGIC
      PROVE  \E k \in 1..Len(h) : IsCall(h, k) /\ b[k] = d
  <2>1. d <= b[m]
    BY <1>0, <1>3
  <2>2. CASE d = b[m]
    BY <1>0, <2>2
  <2>3. CASE d < b[m]
    <3>1. d \in 1..Len(g) /\ g[d].ret = MAGIC
      BY <1>0, <1>1, <1>3, <2>3
    <3> QED BY <3>1 DEF Frames
  <2> QED BY <1>0, <2>1, <2>2, <2>3
<1>4. ASSUME NEW d \in 1..Len(g2), g2[d].ret # MAGIC
      PROVE  d > 1 /\ g2[d].ret = g2[d - 1].at
  <2>1. CASE d > b[m]
    BY <1>0, <2>1
  <2>2. CASE d < b[m]
    <3>1. d \in 1..Len(g) /\ g2[d] = g[d] /\ g[d].ret # MAGIC
      BY <1>0, <1>1, <1>4, <2>2
    <3>2. d > 1 /\ g[d].ret = g[d - 1].at
      BY <3>1 DEF Frames
    <3>3. g2[d - 1] = g[d - 1]
      BY <1>0, <2>2, <3>2
    <3> QED BY <3>1, <3>2, <3>3
  <2>3. CASE d = b[m]
    BY <1>0, <1>4, <2>3
  <2> QED BY <1>0, <2>1, <2>2, <2>3
<1>5. ASSUME NEW k \in 2..Len(h), IsCall(h, k)
      PROVE  b[k] \in 2..Len(g2) + 1 /\ Holds(h[k - 1], h[k].saved, g2[b[k] - 1])
  <2>1. b[k] \in 2..Len(g) + 1 /\ Holds(h[k - 1], h[k].saved, g[b[k] - 1])
    BY <1>5 DEF Suspended
  <2>2. b[k] <= b[m]
    BY <1>1, <1>5
  <2>3. b[k] - 1 \in 1..b[m] - 1
    BY <1>0, <2>1, <2>2
  <2>4. g2[b[k] - 1] = g[b[k] - 1]
    BY <1>0, <2>3
  <2>5. b[k] \in 2..Len(g2) + 1
    BY <1>0, <2>1, <2>2
  <2> QED BY <2>1, <2>4, <2>5
<1> QED BY <1>2, <1>3, <1>4, <1>5 DEF Frames, Suspended

(* The ways the game's stack changes above its activation j: it forgets the     *)
(* innermost activations, marks where the last is to go on, or gains one.       *)
LEMMA CutStays ==
    ASSUME NEW g \in Seq(Activations), NEW j \in Nat, NEW n \in 1..Len(g), Stays(g, g, j), j <= n
    PROVE  /\ SubSeq(g, 1, n) \in Seq(Activations) /\ Len(SubSeq(g, 1, n)) = n
           /\ Stays(g, SubSeq(g, 1, n), j)
<1>1. n \in Nat /\ \A i \in 1..n : g[i] \in Activations
  BY ElementOfSeq, LenProperties
<1> DEFINE s == SubSeq(g, 1, n)
<1>2. s \in Seq(Activations) /\ Len(s) = n /\ \A i \in 1..n : s[i] = g[i]
  BY <1>1, SubSeqProperties
<1> HIDE DEF s
<1>3. j \in 1..n /\ s[j].ret = MAGIC /\ \A d \in 1..j - 1 : s[d] = g[d]
  BY <1>1, <1>2 DEF Stays
<1>4. ASSUME NEW d \in j + 1..n
      PROVE  s[d].ret # MAGIC /\ s[d].ret = s[d - 1].at
  <2>1. d \in j + 1..Len(g) /\ d \in 1..n /\ d - 1 \in 1..n
    BY <1>1, <1>3
  <2>2. g[d].ret # MAGIC /\ g[d].ret = g[d - 1].at
    BY <2>1 DEF Stays
  <2> QED BY <1>2, <2>1, <2>2
<1>5. Stays(g, s, j)
  BY <1>2, <1>3, <1>4 DEF Stays
<1> QED BY <1>2, <1>5 DEF s

(* Marking keeps the activations above j in order. *)
LEMMA MarkStays ==
    ASSUME NEW g \in Seq(Activations), NEW g2 \in Seq(Activations), NEW j \in Nat,
           Stays(g, g2, j), NEW site \in Sites
    PROVE  Stays(g, Marked(g2, site), j)
<1>1. j \in 1..Len(g2) /\ Len(g2) \in Nat /\ g2 # << >>
  BY LenProperties, EmptySeq DEF Stays
<1> DEFINE s == Marked(g2, site)  n == Len(g2)
<1>2. /\ Len(s) = n /\ \A d \in 1..n - 1 : s[d] = g2[d]
      /\ s[n].ret = g2[n].ret
  BY <1>1, MarkedFacts
<1> HIDE DEF s
<1>3. \A d \in 1..n : s[d].ret = g2[d].ret
  <2> SUFFICES ASSUME NEW d \in 1..n PROVE s[d].ret = g2[d].ret
    OBVIOUS
  <2>1. d = n \/ d \in 1..n - 1
    BY <1>1
  <2> QED BY <1>2, <2>1
<1>4. s[j].ret = MAGIC
  BY <1>1, <1>3 DEF Stays
<1>5. \A d \in 1..j - 1 : s[d] = g[d]
  <2> SUFFICES ASSUME NEW d \in 1..j - 1 PROVE s[d] = g[d]
    OBVIOUS
  <2>1. d \in 1..n - 1
    BY <1>1
  <2> QED BY <1>2, <2>1 DEF Stays
<1>6. ASSUME NEW d \in j + 1..n
      PROVE  s[d].ret # MAGIC /\ s[d].ret = s[d - 1].at
  <2>1. d \in 1..n /\ d - 1 \in 1..n - 1
    BY <1>1
  <2>2. g2[d].ret # MAGIC /\ g2[d].ret = g2[d - 1].at
    BY DEF Stays
  <2>3. s[d].ret = g2[d].ret /\ s[d - 1] = g2[d - 1]
    BY <1>2, <1>3, <2>1
  <2> QED BY <2>2, <2>3
<1> QED BY <1>1, <1>2, <1>4, <1>5, <1>6 DEF Stays, s

(* So does a new activation that returns to the place just marked. *)
LEMMA GrowthStays ==
    ASSUME NEW g \in Seq(Activations), NEW g2 \in Seq(Activations), NEW j \in Nat,
           Stays(g, g2, j), NEW a \in Activations, a.ret # MAGIC, a.ret = g2[Len(g2)].at
    PROVE  Stays(g, Append(g2, a), j)
<1> DEFINE s == Append(g2, a)  n == Len(g2)
<1>1. j \in 1..n /\ n \in Nat
  BY LenProperties DEF Stays
<1>2. Len(s) = n + 1 /\ s[n + 1] = a /\ \A d \in 1..n : s[d] = g2[d]
  BY AppendProperties
<1> HIDE DEF s
<1>3. j \in 1..n + 1 /\ s[j].ret = MAGIC
  BY <1>1, <1>2 DEF Stays
<1>4. \A d \in 1..j - 1 : s[d] = g[d]
  <2> SUFFICES ASSUME NEW d \in 1..j - 1 PROVE s[d] = g[d]
    OBVIOUS
  <2>1. d \in 1..n
    BY <1>1
  <2> QED BY <1>2, <2>1 DEF Stays
<1>5. ASSUME NEW d \in j + 1..n + 1
      PROVE  s[d].ret # MAGIC /\ s[d].ret = s[d - 1].at
  <2>1. CASE d = n + 1
    BY <1>1, <1>2, <2>1
  <2>2. CASE d # n + 1
    <3>1. d \in j + 1..n /\ d \in 1..n /\ d - 1 \in 1..n
      BY <1>1, <2>2
    <3>2. g2[d].ret # MAGIC /\ g2[d].ret = g2[d - 1].at
      BY <3>1 DEF Stays
    <3> QED BY <1>2, <3>1, <3>2
  <2> QED BY <2>1, <2>2
<1> QED BY <1>2, <1>3, <1>4, <1>5 DEF Stays, s
-----------------------------------------------------------------------------
(* Steps of the game's code, in the innermost call. *)

(* What is known while the innermost level is a call. *)
LEMMA InTheGame ==
    ASSUME NEW g \in Seq(Activations), NEW h \in Seq(Levels), NEW b \in Bases, NEW c,
           Nest(c, g, h, b), h # << >>, Last(h).kind = "call", c.pc # MAGIC
    PROVE  /\ Len(h) \in 1..Len(h) /\ IsCall(h, Len(h)) /\ ~Returned(c, h)
           /\ Frames(g, h, b) /\ Rising(h, b) /\ Suspended(g, h, b)
           /\ Alternates(h) /\ Goes(c, Last(g))
           /\ Stays(g, g, b[Len(h)]) /\ b[Len(h)] \in 1..Len(g)
           /\ Len(g) \in 1..Len(g) /\ g # << >>
           /\ \A k \in 1..Len(h) : IsCall(h, k) => k <= Len(h)
<1>1. h[Len(h)].kind = "call" /\ Len(h) \in Nat
  BY LenProperties DEF Last
<1>2. Len(h) \in 1..Len(h) /\ IsCall(h, Len(h)) /\ ~Returned(c, h)
  BY <1>1, EmptySeq, LenProperties DEF IsCall, Returned
<1>3. /\ Frames(g, h, b) /\ Rising(h, b) /\ Suspended(g, h, b)
      /\ Alternates(h) /\ Goes(c, Last(g))
  BY <1>2 DEF Nest
<1>4. \A k \in 1..Len(h) : IsCall(h, k) => k <= Len(h)
  BY <1>1
<1>5. b[Len(h)] \in 1..Len(g) /\ Stays(g, g, b[Len(h)])
  BY <1>2, <1>3, <1>4, AboveTheCall DEF Stays
<1>6. Len(g) \in 1..Len(g) /\ g # << >>
  BY <1>5, LenProperties, EmptySeq
<1> QED BY <1>2, <1>3, <1>4, <1>5, <1>6

(* A step of the game that keeps the activation of the call keeps the nesting. *)
LEMMA GameStep ==
    ASSUME NEW g \in Seq(Activations), NEW h \in Seq(Levels), NEW b \in Bases, NEW c,
           Nest(c, g, h, b), h # << >>, Last(h).kind = "call", c.pc # MAGIC,
           NEW g2 \in Seq(Activations), NEW c2, c2.pc # MAGIC,
           Stays(g, g2, b[Len(h)]), Goes(c2, Last(g2))
    PROVE  Nest(c2, g2, h, b)
<1>1. /\ Len(h) \in 1..Len(h) /\ IsCall(h, Len(h)) /\ h # << >>
      /\ Frames(g, h, b) /\ Rising(h, b) /\ Suspended(g, h, b)
      /\ Alternates(h)
      /\ \A k \in 1..Len(h) : IsCall(h, k) => k <= Len(h)
  BY InTheGame
<1>2. Frames(g2, h, b) /\ Suspended(g2, h, b)
  BY <1>1, Regrown
<1> QED BY <1>1, <1>2 DEF Nest, Returned

(* No address of the game is a marker. *)
LEMMA NoMarker ==
    ASSUME Addresses, NEW a \in Codes
    PROVE  a # MAGIC /\ a # Import /\ a # None
BY DEF Addresses, Codes

(* The registers that a step of the game sets. *)
LEMMA LinkTypes ==
    ASSUME NEW c \in Cpus, NEW site \in Sites \cup {MAGIC}
    PROVE  [c EXCEPT !.lr = site] \in Cpus /\ [c EXCEPT !.lr = site].lr = site
BY DEF Cpus

(* A call inside the game (BL): a new activation, with the link register set. *)
LEMMA GuestCallNests ==
    ASSUME Addresses, Inv, NEW f \in Functions, NEW site \in Sites, GuestCall(f, site)
    PROVE  Inv'
<1>1. /\ Typed /\ ~fault /\ Inside("call") /\ cpu.pc \in Codes /\ cpu.pc # MAGIC
      /\ UNCHANGED <<host, jump, fault>>
  BY NoMarker DEF Inv, GuestCall, InGuest, Codes
<1>2. PICK b \in Bases : Nest(cpu, guest, host, b)
  BY <1>1 DEF Inv, Nested
<1> DEFINE g1 == Marked(guest, site)
           a == [ret |-> site, at |-> f]
           c == [cpu EXCEPT !.lr = site]
<1>3. guest' = Append(g1, a) /\ cpu' = BranchTo(c, f)
  BY DEF GuestCall, Marked
<1>4. /\ guest \in Seq(Activations) /\ guest # << >> /\ b[Len(host)] \in Nat
      /\ Stays(guest, guest, b[Len(host)])
  BY <1>1, <1>2, InTheGame DEF Typed, Inside
<1>5. a \in Activations /\ a.ret = site /\ a.at = f /\ f \in Codes /\ site \in Codes
  BY DEF Activations, Codes
<1>6. c \in Cpus /\ c.lr = site
  BY <1>1, LinkTypes DEF Typed
<1>7. /\ g1 \in Seq(Activations) /\ g1[Len(g1)].at = site
      /\ Stays(guest, g1, b[Len(host)])
  BY <1>4, MarkedFacts, MarkStays
<1> HIDE DEF g1, a, c
<1>8. /\ Append(g1, a) \in Seq(Activations) /\ Last(Append(g1, a)) = a
  BY <1>5, <1>7, AppendProperties, LenProperties DEF Last
<1>9. Stays(guest, Append(g1, a), b[Len(host)])
  BY <1>4, <1>5, <1>7, GrowthStays, NoMarker
<1>10. /\ cpu' \in Cpus /\ cpu'.pc = f /\ cpu'.lr = site /\ cpu'.thumb = IsThumb(f)
  BY <1>3, <1>5, <1>6, BranchTypes, NoMarker
<1>11. cpu'.pc # MAGIC /\ Goes(cpu', a)
  BY <1>5, <1>10, NoMarker DEF Goes
<1>12. Nest(cpu', guest', host', b)
  BY <1>1, <1>2, <1>3, <1>8, <1>9, <1>11, GameStep DEF Typed, Inside
<1>13. Typed'
  BY <1>1, <1>3, <1>8, <1>10 DEF Typed
<1> QED BY <1>12, <1>13 DEF Inv, Nested

(* An import and a kernel helper are entered at a site, which is marked. *)
LEMMA SiteNests ==
    ASSUME Addresses, Inv, NEW site \in Sites, ~fault, Inside("call"), cpu.pc \in Codes,
           guest' = Marked(guest, site), cpu' \in Cpus,
           \/ cpu'.pc = Import /\ cpu'.lr = site
           \/ cpu'.pc = site /\ cpu'.thumb = IsThumb(site),
           UNCHANGED <<host, jump, fault>>
    PROVE  Inv'
<1>1. Typed /\ cpu.pc # MAGIC /\ site \in Codes
  BY NoMarker DEF Inv, Codes
<1>2. PICK b \in Bases : Nest(cpu, guest, host, b)
  BY DEF Inv, Nested
<1>3. /\ guest \in Seq(Activations) /\ guest # << >> /\ b[Len(host)] \in Nat
      /\ Stays(guest, guest, b[Len(host)])
  BY <1>1, <1>2, InTheGame DEF Typed, Inside
<1>4. /\ guest' \in Seq(Activations) /\ Last(guest').at = site
      /\ Stays(guest, guest', b[Len(host)])
  BY <1>3, MarkedFacts, MarkStays
<1>5. site \notin Hooked /\ Import \notin Hooked /\ Import \notin Codes /\ Import # MAGIC /\ Import # None
  BY DEF Addresses, Codes, Import, MAGIC, None
<1>6. cpu'.pc # MAGIC /\ Goes(cpu', Last(guest'))
  BY <1>1, <1>4, <1>5, NoMarker DEF Goes
<1>7. Nest(cpu', guest', host', b)
  BY <1>1, <1>2, <1>4, <1>6, GameStep DEF Typed, Inside
<1>8. Typed'
  BY <1>1, <1>4 DEF Typed
<1> QED BY <1>7, <1>8 DEF Inv, Nested

(* A call of an import enters its stub at a marked site. *)
LEMMA CallsImportNests ==
    ASSUME Addresses, Inv, NEW site \in Sites, CallsImport(site)
    PROVE  Inv'
<1>1. /\ cpu \in Cpus /\ ~fault /\ Inside("call") /\ cpu.pc \in Codes
      /\ guest' = Marked(guest, site) /\ UNCHANGED <<host, jump, fault>>
  BY DEF Inv, Typed, CallsImport, InGuest, Codes, Marked
<1>2. cpu' = [cpu EXCEPT !.lr = site, !.pc = Import, !.thumb = FALSE]
  BY DEF CallsImport
<1>3. cpu' \in Cpus /\ cpu'.pc = Import /\ cpu'.lr = site
  BY <1>1, <1>2 DEF Cpus, Modes
<1>4. \/ cpu'.pc = Import /\ cpu'.lr = site
      \/ cpu'.pc = site /\ cpu'.thumb = IsThumb(site)
  BY <1>3
<1> QED BY <1>1, <1>3, <1>4, SiteNests

(* A kernel helper returns to the site it was called from at once. *)
LEMMA KuserNests ==
    ASSUME Addresses, Inv, NEW site \in Sites, kuser_step(site)
    PROVE  Inv'
<1>1. /\ cpu \in Cpus /\ ~fault /\ Inside("call") /\ cpu.pc \in Codes
      /\ guest' = Marked(guest, site) /\ UNCHANGED <<host, jump, fault>>
      /\ cpu' = BranchTo([cpu EXCEPT !.lr = site], site) /\ site \in Codes
  BY DEF Inv, Typed, kuser_step, InGuest, Codes, Marked
<1>2. cpu' \in Cpus /\ cpu'.pc = site /\ cpu'.thumb = IsThumb(site)
  BY <1>1, LinkTypes, BranchTypes, NoMarker
<1> QED BY <1>1, <1>2, SiteNests

(* A return of the game: to the activation below, or, out of the activation of  *)
(* the call, to the host.                                                       *)
LEMMA ReturnNests ==
    ASSUME Addresses,
           NEW g \in Seq(Activations), NEW h \in Seq(Levels), NEW b \in Bases, NEW c,
           Nest(c, g, h, b), h # << >>, Last(h).kind = "call", c.pc # MAGIC,
           NEW c2 \in Cpus, c2.pc = Last(g).ret, c2.pc # MAGIC => c2.thumb = IsThumb(c2.pc)
    PROVE  Front(g) \in Seq(Activations) /\ Nest(c2, Front(g), h, b)
<1> DEFINE m == Len(h)  n == Len(g)  g2 == Front(g)
<1>1. /\ m \in 1..m /\ IsCall(h, m) /\ h # << >>
      /\ Frames(g, h, b) /\ Rising(h, b) /\ Suspended(g, h, b)
      /\ Alternates(h) /\ Stays(g, g, b[m]) /\ b[m] \in 1..n /\ n \in 1..n
      /\ g # << >>
      /\ \A k \in 1..m : IsCall(h, k) => k <= m
  BY InTheGame
<1>2. /\ g2 \in Seq(Activations) /\ Len(g2) = n - 1 /\ \A k \in 1..n - 1 : g2[k] = g[k]
      /\ Last(g) = g[n] /\ Last(g) \in Activations
  BY <1>1, FrontFacts
<1>3. \A k \in 1..m : IsCall(h, k) => b[k] <= b[m] /\ (b[k] = b[m] => k = m)
  BY <1>1, AboveTheCall
<1>4. CASE g[n].ret # MAGIC
  <2>1. b[m] # n
    BY <1>1, <1>4 DEF Frames
  <2>2. n - 1 \in 1..n /\ b[m] <= n - 1 /\ b[m] \in Nat
    BY <1>1, <2>1
  <2>3. Stays(g, g2, b[m])
    BY <1>1, <2>2, CutStays DEF Front
  <2>4. g[n].ret = g[n - 1].at /\ g[n].ret \in Sites
    BY <1>1, <1>2, <1>4 DEF Frames, Activations
  <2>5. Last(g2) = g[n - 1]
    BY <1>2, <2>2 DEF Last
  <2>6. c2.pc \in Sites /\ c2.pc = Last(g2).at /\ c2.thumb = IsThumb(c2.pc) /\ c2.pc \in Codes
    BY <1>2, <1>4, <2>4, <2>5 DEF Codes
  <2>7. c2.pc \notin Hooked /\ c2.pc # MAGIC
    BY <2>6, NoMarker DEF Addresses
  <2>8. Goes(c2, Last(g2))
    BY <2>6, <2>7, NoMarker DEF Goes
  <2>9. Nest(c2, g2, h, b)
    BY <1>1, <1>2, <2>3, <2>7, <2>8, GameStep DEF Typed, Inside
  <2> QED BY <1>2, <2>9
<1>5. CASE g[n].ret = MAGIC
  <2>1. c2.pc = MAGIC /\ Returned(c2, h)
    BY <1>1, <1>2, <1>5 DEF Returned
  <2>2. b[m] = n
    <3>1. PICK k \in 1..m : IsCall(h, k) /\ b[k] = n
      BY <1>1, <1>5 DEF Frames
    <3> QED BY <1>1, <1>3, <3>1
  <2>3. Goes(c2, Last(g2))
    <3>1. MAGIC \notin Codes /\ MAGIC \notin Hooked /\ MAGIC # None /\ MAGIC # Import
      BY DEF Addresses, Codes, MAGIC, None, Import
    <3> QED BY <2>1, <3>1 DEF Goes
  <2>4. Suspended(g2, h, b)
    <3> SUFFICES ASSUME NEW k \in 2..m, IsCall(h, k)
                 PROVE  b[k] \in 2..Len(g2) + 1 /\ Holds(h[k - 1], h[k].saved, g2[b[k] - 1])
      BY DEF Suspended
    <3>1. b[k] \in 2..n + 1 /\ Holds(h[k - 1], h[k].saved, g[b[k] - 1])
      BY <1>1 DEF Suspended
    <3>2. b[k] <= n
      BY <1>3, <2>2
    <3>3. b[k] - 1 \in 1..n - 1
      BY <1>1, <3>1, <3>2
    <3>4. b[k] \in 2..Len(g2) + 1
      BY <1>1, <1>2, <3>1, <3>2
    <3> QED BY <1>2, <3>1, <3>3, <3>4
  <2>5. Frames(g2, Front(h), b)
    <3>1. /\ Len(Front(h)) = m - 1 /\ \A k \in 1..m - 1 : Front(h)[k] = h[k]
      BY <1>1, FrontFacts
    <3>2. \A k \in 1..m - 1 : IsCall(Front(h), k) <=> IsCall(h, k)
      BY <1>1, <3>1 DEF IsCall
    <3>3. ASSUME NEW k \in 1..m - 1, IsCall(Front(h), k)
          PROVE  b[k] \in 1..Len(g2) /\ g2[b[k]].ret = MAGIC
      <4>1. k \in 1..m /\ k # m /\ IsCall(h, k)
        BY <1>1, <3>2, <3>3
      <4>2. b[k] \in 1..n /\ g[b[k]].ret = MAGIC /\ b[k] # n /\ b[k] <= n
        BY <1>1, <1>3, <2>2, <4>1 DEF Frames
      <4>3. b[k] \in 1..n - 1
        BY <1>1, <4>2
      <4> QED BY <1>2, <4>2, <4>3
    <3>4. ASSUME NEW d \in 1..n - 1, g2[d].ret = MAGIC
          PROVE  \E k \in 1..m - 1 : IsCall(Front(h), k) /\ b[k] = d
      <4>1. d \in 1..n /\ g[d].ret = MAGIC /\ d # n
        BY <1>1, <1>2, <3>4
      <4>2. PICK k \in 1..m : IsCall(h, k) /\ b[k] = d
        BY <1>1, <4>1 DEF Frames
      <4>3. k # m
        BY <2>2, <4>1, <4>2
      <4>4. k \in 1..m - 1
        BY <1>1, <4>3
      <4> QED BY <3>2, <4>2, <4>4
    <3>5. ASSUME NEW d \in 1..n - 1, g2[d].ret # MAGIC
          PROVE  d > 1 /\ g2[d].ret = g2[d - 1].at
      <4>1. d \in 1..n /\ g[d].ret # MAGIC
        BY <1>1, <1>2, <3>5
      <4>2. d > 1 /\ g[d].ret = g[d - 1].at
        BY <1>1, <4>1 DEF Frames
      <4>3. d - 1 \in 1..n - 1
        BY <1>1, <4>2
      <4> QED BY <1>2, <4>2, <4>3
    <3> QED BY <1>2, <3>1, <3>3, <3>4, <3>5 DEF Frames
  <2>6. m \in Nat /\ Len(g2) = b[m] - 1
    BY <1>1, <1>2, <2>2
  <2>7. Nest(c2, g2, h, b)
    BY <1>1, <2>1, <2>3, <2>4, <2>5, <2>6 DEF Nest
  <2> QED BY <1>2, <2>7
<1> QED BY <1>4, <1>5

(* A return inside the game (BX lr) takes the address the activation was given. *)
LEMMA GuestReturnsNests ==
    ASSUME Addresses, Inv, GuestReturns
    PROVE  Inv'
<1>1. /\ Typed /\ ~fault /\ Inside("call") /\ cpu.pc \in Codes /\ cpu.pc # MAGIC
      /\ guest' = Front(guest) /\ cpu' = BranchTo(cpu, Last(guest).ret) /\ jump' = Kept
      /\ UNCHANGED <<host, fault>>
  BY NoMarker DEF Inv, GuestReturns, InGuest, Codes
<1>2. PICK b \in Bases : Nest(cpu, guest, host, b)
  BY <1>1 DEF Inv, Nested
<1>3. Last(guest) \in Activations
  BY <1>1, <1>2, InTheGame, FrontFacts DEF Typed, Inside
<1>4. Last(guest).ret \in Codes \cup {MAGIC}
  BY <1>3 DEF Activations, Codes
<1>5. /\ cpu' \in Cpus /\ cpu'.pc = Last(guest).ret
      /\ cpu'.pc # MAGIC => cpu'.thumb = IsThumb(cpu'.pc)
  BY <1>1, <1>4, BranchTypes DEF Typed
<1>6. guest' \in Seq(Activations) /\ Nest(cpu', guest', host', b)
  BY <1>1, <1>2, <1>5, ReturnNests DEF Typed, Inside
<1>7. jump' \in Jumps \cup {NoJump}
  BY <1>1 DEF Kept, Typed
<1> QED BY <1>1, <1>5, <1>6, <1>7 DEF Inv, Typed, Nested
-----------------------------------------------------------------------------
(* Steps of the host: a level is entered, works and ends. *)

(* A level more: what was there is as it was. *)
LEMMA PushFacts ==
    ASSUME NEW h \in Seq(Levels), NEW level \in Levels
    PROVE  /\ Append(h, level) \in Seq(Levels) /\ Append(h, level) # << >>
           /\ Len(Append(h, level)) = Len(h) + 1 /\ Len(h) \in Nat
           /\ \A k \in 1..Len(h) : Append(h, level)[k] = h[k]
           /\ Append(h, level)[Len(h) + 1] = level /\ Last(Append(h, level)) = level
           /\ \A k \in 1..Len(h) : IsCall(Append(h, level), k) <=> IsCall(h, k)
           /\ IsCall(Append(h, level), Len(h) + 1) <=> level.kind = "call"
<1>1. /\ Append(h, level) \in Seq(Levels) /\ Len(Append(h, level)) = Len(h) + 1 /\ Len(h) \in Nat
      /\ \A k \in 1..Len(h) : Append(h, level)[k] = h[k]
      /\ Append(h, level)[Len(h) + 1] = level
  BY AppendProperties, LenProperties
<1> DEFINE s == Append(h, level)
<1> HIDE DEF s
<1>2. s # << >>
  BY <1>1, EmptySeq DEF s
<1>3. /\ \A k \in 1..Len(h) : IsCall(s, k) <=> IsCall(h, k)
      /\ IsCall(s, Len(h) + 1) <=> level.kind = "call"
  BY <1>1 DEF IsCall, s
<1>4. Last(s) = level
  BY <1>1 DEF Last, s
<1> QED BY <1>1, <1>2, <1>3, <1>4 DEF s

(* A level less. *)
LEMMA PopFacts ==
    ASSUME NEW h \in Seq(Levels), h # << >>
    PROVE  /\ Front(h) \in Seq(Levels) /\ Len(Front(h)) = Len(h) - 1 /\ Len(h) \in Nat \ {0}
           /\ \A k \in 1..Len(h) - 1 : Front(h)[k] = h[k]
           /\ \A k \in 1..Len(h) - 1 : IsCall(Front(h), k) <=> IsCall(h, k)
           /\ Last(h) \in Levels /\ Last(h) = h[Len(h)]
<1>1. /\ Front(h) \in Seq(Levels) /\ Len(Front(h)) = Len(h) - 1 /\ Len(h) \in Nat \ {0}
      /\ \A k \in 1..Len(h) - 1 : Front(h)[k] = h[k]
      /\ Last(h) \in Levels /\ Last(h) = h[Len(h)]
  BY FrontFacts
<1>2. \A k \in 1..Len(h) - 1 : IsCall(Front(h), k) <=> IsCall(h, k)
  BY <1>1 DEF IsCall
<1> QED BY <1>1, <1>2

(* Levels that alternate go on so when the innermost ends. *)
LEMMA PoppedLevels ==
    ASSUME NEW h \in Seq(Levels), h # << >>, NEW b \in Bases, NEW g,
           Alternates(h), Rising(h, b), Suspended(g, h, b)
    PROVE  Alternates(Front(h)) /\ Rising(Front(h), b) /\ Suspended(g, Front(h), b)
<1> DEFINE s == Front(h)  n == Len(h)
<1>1. /\ s \in Seq(Levels) /\ Len(s) = n - 1 /\ n \in Nat \ {0}
      /\ \A k \in 1..n - 1 : s[k] = h[k]
      /\ \A k \in 1..n - 1 : IsCall(s, k) <=> IsCall(h, k)
  BY PopFacts
<1> HIDE DEF s
<1>2. Alternates(s)
  <2> SUFFICES ASSUME NEW k \in 1..n - 1
               PROVE  s[k].kind = "call" <=> (k = 1 \/ ~IsCall(s, k - 1))
    BY <1>1 DEF Alternates
  <2>1. k \in 1..n /\ (h[k].kind = "call" <=> (k = 1 \/ ~IsCall(h, k - 1)))
    BY <1>1 DEF Alternates
  <2>2. k # 1 => k - 1 \in 1..n - 1
    BY <1>1
  <2> QED BY <1>1, <2>1, <2>2
<1>3. Rising(s, b)
  <2>1. \A k \in 1..n - 1 : k \in 1..n
    BY <1>1
  <2> QED BY <1>1, <2>1 DEF Rising
<1>4. Suspended(g, s, b)
  <2> SUFFICES ASSUME NEW k \in 2..n - 1, IsCall(s, k)
               PROVE  b[k] \in 2..Len(g) + 1 /\ Holds(s[k - 1], s[k].saved, g[b[k] - 1])
    BY <1>1 DEF Suspended
  <2>1. k \in 2..n /\ k \in 1..n - 1 /\ k - 1 \in 1..n - 1
    BY <1>1
  <2> QED BY <1>1, <2>1 DEF Suspended
<1> QED BY <1>2, <1>3, <1>4 DEF s

(* While the innermost level is an import or a hook, the one below is the call   *)
(* that the game runs in.                                                       *)
LEMMA InTheHost ==
    ASSUME Addresses, Typed, NEW b \in Bases, Nest(cpu, guest, host, b), host # << >>,
           ~Inside("call")
    PROVE  /\ Len(host) \in Nat /\ Len(host) - 1 \in 1..Len(host)
           /\ IsCall(host, Len(host) - 1) /\ ~IsCall(host, Len(host)) /\ ~Returned(cpu, host)
           /\ Frames(guest, host, b) /\ Rising(host, b) /\ Suspended(guest, host, b)
           /\ Alternates(host) /\ Holds(Last(host), cpu, Last(guest))
           /\ Stays(guest, guest, b[Len(host) - 1]) /\ b[Len(host) - 1] \in 1..Len(guest)
           /\ Len(guest) \in 1..Len(guest) /\ guest # << >>
           /\ \A k \in 1..Len(host) : IsCall(host, k) => k <= Len(host) - 1
<1> DEFINE n == Len(host)
<1>0. n \in Nat \ {0} /\ Last(host) = host[n]
  BY FrontFacts DEF Typed, Inside
<1>1. n \in Nat \ {0} /\ n \in 1..n /\ Last(host) = host[n]
  BY <1>0
<1>2. ~IsCall(host, n) /\ host[n].kind # "call"
  BY <1>1 DEF Inside, IsCall
<1>3. n # 1 /\ IsCall(host, n - 1)
  BY <1>1, <1>2 DEF Nest, Alternates
<1>4. n - 1 \in 1..n /\ \A k \in 1..n : IsCall(host, k) => k <= n - 1
  <2>1. ASSUME NEW k \in 1..n, IsCall(host, k) PROVE k <= n - 1
    <3>1. k # n
      BY <1>2, <2>1
    <3> QED BY <1>1, <3>1
  <2>2. n # 1
    BY <1>3
  <2>3. n \in Nat /\ n # 0
    BY <1>1
  <2> HIDE DEF n
  <2>4. n - 1 \in 1..n
    BY <2>2, <2>3
  <2> QED BY <2>1, <2>4
<1>5. ~Returned(cpu, host)
  BY <1>2 DEF Nest
<1>6. /\ Frames(guest, host, b) /\ Rising(host, b) /\ Suspended(guest, host, b)
      /\ Alternates(host) /\ Holds(Last(host), cpu, Last(guest))
  BY <1>2, <1>5 DEF Nest
<1>7. b[n - 1] \in 1..Len(guest) /\ Stays(guest, guest, b[n - 1])
  BY <1>3, <1>4, <1>6, AboveTheCall DEF Typed, Stays
<1>8. Len(guest) \in 1..Len(guest) /\ guest # << >>
  BY <1>7, LenProperties, EmptySeq DEF Typed
<1> QED BY <1>1, <1>2, <1>3, <1>4, <1>5, <1>6, <1>7, <1>8

(* The host enters the game: the registers are put aside, and the call's         *)
(* activation is the one that returns to MAGIC.                                 *)
LEMMA CallNests ==
    ASSUME Addresses, Inv, NEW f \in Functions, mr_guest_call(f)
    PROVE  Inv'
<1> DEFINE n == Len(host)  d == Len(guest)
           level == [kind |-> "call", saved |-> cpu]
           a == [ret |-> MAGIC, at |-> f]
           c == [cpu EXCEPT !.lr = MAGIC]
           s == Append(host, level)
           g2 == Append(guest, a)
<1>1. /\ Typed /\ ~fault /\ host' = s /\ guest' = g2 /\ cpu' = BranchTo(c, f)
      /\ host = << >> \/ Inside("import") \/ Inside("hook")
      /\ jump' = jump /\ fault' = fault
  BY DEF Inv, mr_guest_call, Level, Working
<1>2. PICK b0 \in Bases : Nest(cpu, guest, host, b0)
  BY <1>1 DEF Inv, Nested
<1> DEFINE b == [b0 EXCEPT ![n + 1] = d + 1]
<1>3. n \in Nat /\ d \in Nat /\ guest \in Seq(Activations) /\ host \in Seq(Levels)
  BY LenProperties, <1>1 DEF Typed
<1>4. b \in Bases /\ b[n + 1] = d + 1 /\ \A k \in 1..n : b[k] = b0[k]
  <2>1. n + 1 \in Nat /\ d + 1 \in Nat /\ \A k \in 1..n : k \in Nat /\ k # n + 1
    BY <1>3
  <2> QED BY <2>1 DEF Bases
<1>5. level \in Levels /\ level.kind = "call" /\ level.saved = cpu
  BY <1>1 DEF Levels, Kinds, Typed
<1>6. a \in Activations /\ a.ret = MAGIC /\ a.at = f /\ f \in Codes
  BY DEF Activations, Codes
<1>7. /\ cpu' \in Cpus /\ cpu'.pc = f /\ cpu'.lr = MAGIC /\ cpu'.thumb = IsThumb(f)
  <2>1. c \in Cpus /\ c.lr = MAGIC
    BY <1>1, LinkTypes DEF Typed
  <2> HIDE DEF c
  <2> QED BY <1>1, <1>6, <2>1, BranchTypes, NoMarker
<1> HIDE DEF level, a, c, b
<1>8. /\ s \in Seq(Levels) /\ s # << >> /\ Len(s) = n + 1 /\ \A k \in 1..n : s[k] = host[k]
      /\ s[n + 1] = level /\ Last(s) = level
      /\ \A k \in 1..n : IsCall(s, k) <=> IsCall(host, k)
      /\ IsCall(s, n + 1)
  BY <1>3, <1>5, PushFacts
<1>9. /\ g2 \in Seq(Activations) /\ Len(g2) = d + 1 /\ \A k \in 1..d : g2[k] = guest[k]
      /\ g2[d + 1] = a /\ Last(g2) = a
  BY <1>3, <1>6, AppendProperties DEF Last
<1> HIDE DEF s, g2
<1>10. ~Inside("call")
  BY <1>1 DEF Inside
<1>11. /\ Alternates(host) /\ Rising(host, b0) /\ Suspended(guest, host, b0)
       /\ Frames(guest, host, b0) /\ ~IsCall(host, n)
       /\ host # << >> => d \in 1..d /\ Holds(host[n], cpu, guest[d]) /\ n \in 1..n
       /\ host = << >> => n = 0 /\ d = 0
  <2>1. CASE host = << >>
    <3>1. n = 0 /\ d = 0 /\ ~Returned(cpu, host)
      BY <1>2, <2>1, EmptySeq DEF Nest, Returned
    <3> QED BY <1>2, <2>1, <3>1 DEF Nest, IsCall
  <2>2. CASE host # << >>
    <3>1. Last(host) = host[n] /\ Last(guest) = guest[d]
      BY DEF Last
    <3>2. n \in 1..n
      BY <1>3, <2>2, EmptySeq
    <3> QED BY <1>1, <1>2, <1>10, <2>2, <3>1, <3>2, InTheHost
  <2> QED BY <2>1, <2>2
<1>12. Alternates(s)
  <2> SUFFICES ASSUME NEW k \in 1..n + 1
               PROVE  s[k].kind = "call" <=> (k = 1 \/ ~IsCall(s, k - 1))
    BY <1>8 DEF Alternates
  <2>1. CASE k = n + 1
    <3>1. s[k].kind = "call"
      BY <1>5, <1>8, <2>1
    <3>2. k = 1 \/ ~IsCall(s, k - 1)
      <4>1. k # 1 => n \in 1..n /\ k - 1 = n
        BY <1>3, <2>1
      <4> QED BY <1>8, <1>11, <4>1
    <3> QED BY <3>1, <3>2
  <2>2. CASE k # n + 1
    <3>1. k \in 1..n /\ (k = 1 \/ k - 1 \in 1..n)
      BY <1>3, <2>2
    <3>2. host[k].kind = "call" <=> (k = 1 \/ ~IsCall(host, k - 1))
      BY <1>11, <3>1 DEF Alternates
    <3> QED BY <1>8, <3>1, <3>2
  <2> QED BY <2>1, <2>2
<1>13. \A k \in 1..n : IsCall(s, k) => b[k] \in 1..d /\ guest[b[k]].ret = MAGIC
  BY <1>4, <1>8, <1>11 DEF Frames
<1>14. Rising(s, b)
  <2>1. b[1] = 1
    <3>1. CASE n = 0
      BY <1>4, <1>11, <3>1, EmptySeq
    <3>2. CASE n # 0
      <4>1. host # << >> /\ 1 \in 1..n
        BY <1>3, <3>2, EmptySeq
      <4> QED BY <1>4, <1>11, <4>1 DEF Rising
    <3> QED BY <3>1, <3>2
  <2>2. ASSUME NEW j \in 1..n + 1, NEW k \in 1..n + 1, IsCall(s, j), IsCall(s, k), j < k
        PROVE  b[j] < b[k]
    <3>1. j \in 1..n
      BY <1>3, <2>2
    <3>2. b[j] \in 1..d
      BY <1>13, <2>2, <3>1
    <3>3. CASE k = n + 1
      BY <1>3, <1>4, <3>2, <3>3
    <3>4. CASE k # n + 1
      <4>1. k \in 1..n
        BY <1>3, <3>4
      <4> QED BY <1>4, <1>8, <1>11, <2>2, <3>1, <4>1 DEF Rising
    <3> QED BY <3>3, <3>4
  <2> QED BY <1>8, <2>1, <2>2 DEF Rising
<1>15. Frames(g2, s, b)
  <2>1. ASSUME NEW k \in 1..n + 1, IsCall(s, k)
        PROVE  b[k] \in 1..d + 1 /\ g2[b[k]].ret = MAGIC
    <3>1. CASE k = n + 1
      BY <1>3, <1>4, <1>6, <1>9, <3>1
    <3>2. CASE k # n + 1
      <4>1. k \in 1..n
        BY <1>3, <3>2
      <4>2. b[k] \in 1..d /\ guest[b[k]].ret = MAGIC
        BY <1>13, <2>1, <4>1
      <4>3. b[k] \in 1..d + 1
        BY <1>3, <4>2
      <4> QED BY <1>9, <4>2, <4>3
    <3> QED BY <3>1, <3>2
  <2>2. ASSUME NEW e \in 1..d + 1, g2[e].ret = MAGIC
        PROVE  \E k \in 1..n + 1 : IsCall(s, k) /\ b[k] = e
    <3>1. CASE e = d + 1
      <4>1. n + 1 \in 1..n + 1
        BY <1>3
      <4> QED BY <1>4, <1>8, <3>1, <4>1
    <3>2. CASE e # d + 1
      <4>1. e \in 1..d /\ guest[e].ret = MAGIC
        BY <1>3, <1>9, <2>2, <3>2
      <4>2. PICK k \in 1..n : IsCall(host, k) /\ b0[k] = e
        BY <1>11, <4>1 DEF Frames
      <4>3. k \in 1..n + 1
        BY <1>3
      <4> QED BY <1>4, <1>8, <4>2, <4>3
    <3> QED BY <3>1, <3>2
  <2>3. ASSUME NEW e \in 1..d + 1, g2[e].ret # MAGIC
        PROVE  e > 1 /\ g2[e].ret = g2[e - 1].at
    <3>1. e # d + 1
      BY <1>6, <1>9, <2>3
    <3>2. e \in 1..d /\ guest[e].ret # MAGIC
      BY <1>3, <1>9, <2>3, <3>1
    <3>3. e > 1 /\ guest[e].ret = guest[e - 1].at
      BY <1>11, <3>2 DEF Frames
    <3>4. e - 1 \in 1..d
      BY <1>3, <3>3
    <3> QED BY <1>9, <3>2, <3>3, <3>4
  <2> QED BY <1>8, <1>9, <2>1, <2>2, <2>3 DEF Frames
<1>16. Suspended(g2, s, b)
  <2> SUFFICES ASSUME NEW k \in 2..n + 1, IsCall(s, k)
               PROVE  b[k] \in 2..d + 2 /\ Holds(s[k - 1], s[k].saved, g2[b[k] - 1])
    BY <1>3, <1>8, <1>9 DEF Suspended
  <2>1. CASE k = n + 1
    <3>1. n # 0 /\ host # << >> /\ d \in 1..d /\ n \in 1..n
      BY <1>3, <1>11, <2>1, EmptySeq
    <3>2. Holds(host[n], cpu, guest[d])
      BY <1>11, <3>1
    <3>3. s[k - 1] = host[n] /\ s[k].saved = cpu /\ b[k] - 1 = d /\ g2[d] = guest[d]
      BY <1>3, <1>4, <1>5, <1>8, <1>9, <2>1, <3>1
    <3>4. b[k] \in 2..d + 2
      BY <1>3, <1>4, <2>1, <3>1
    <3> QED BY <3>2, <3>3, <3>4
  <2>2. CASE k # n + 1
    <3>1. k \in 2..n /\ k \in 1..n /\ k - 1 \in 1..n
      BY <1>3, <2>2
    <3>2. b0[k] \in 2..d + 1 /\ Holds(host[k - 1], host[k].saved, guest[b0[k] - 1])
      BY <1>8, <1>11, <3>1 DEF Suspended
    <3>3. b0[k] \in 1..d
      BY <1>4, <1>13, <3>1
    <3>4. b0[k] - 1 \in 1..d /\ b0[k] \in 2..d + 2
      BY <1>3, <3>2, <3>3
    <3>5. b[k] = b0[k] /\ s[k - 1] = host[k - 1] /\ s[k] = host[k]
      BY <1>4, <1>8, <3>1
    <3>6. g2[b0[k] - 1] = guest[b0[k] - 1]
      BY <1>9, <3>4
    <3> QED BY <3>2, <3>4, <3>5, <3>6
  <2> QED BY <2>1, <2>2
<1>17. cpu'.pc # MAGIC /\ Goes(cpu', a)
  BY <1>6, <1>7, NoMarker DEF Goes
<1>18. Nest(cpu', guest', host', b)
  BY <1>1, <1>8, <1>9, <1>12, <1>14, <1>15, <1>16, <1>17 DEF Nest, Returned
<1> QED BY <1>1, <1>4, <1>7, <1>8, <1>9, <1>18 DEF Inv, Typed, Nested

(* The call returns: the host goes on with the registers that were put aside.    *)
LEMMA CallReturnsNests ==
    ASSUME Addresses, Inv, CallReturns
    PROVE  Inv'
<1> DEFINE n == Len(host)
<1>1. /\ Typed /\ ~fault /\ Inside("call") /\ cpu.pc = MAGIC /\ host # << >>
      /\ host' = Front(host) /\ UNCHANGED <<guest, jump, fault>>
      /\ cpu' = IF n > 1 THEN Last(host).saved ELSE cpu
  BY DEF Inv, CallReturns, Inside, Restored
<1>2. PICK b \in Bases : Nest(cpu, guest, host, b)
  BY <1>1 DEF Inv, Nested
<1>3. /\ host \in Seq(Levels) /\ guest \in Seq(Activations) /\ Len(guest) \in Nat
      /\ Front(host) \in Seq(Levels) /\ Len(Front(host)) = n - 1 /\ n \in Nat \ {0}
      /\ \A k \in 1..n - 1 : Front(host)[k] = host[k]
      /\ Last(host) \in Levels /\ Last(host) = host[n]
      /\ \A k \in 1..n - 1 : IsCall(Front(host), k) <=> IsCall(host, k)
  BY <1>1, PopFacts, LenProperties DEF Typed
<1>4. /\ Alternates(host) /\ Rising(host, b) /\ Suspended(guest, host, b)
      /\ IsCall(host, n) /\ Len(guest) = b[n] - 1 /\ Frames(guest, Front(host), b)
  BY <1>1, <1>2 DEF Nest, Returned
<1>5. /\ Alternates(Front(host)) /\ Rising(Front(host), b) /\ Suspended(guest, Front(host), b)
  BY <1>1, <1>3, <1>4, PoppedLevels
<1>6. CASE n = 1
  <2>1. Front(host) = << >> /\ cpu' = cpu
    BY <1>1, <1>3, <1>6, EmptySeq
  <2>2. guest = << >>
    <3>1. b[1] = 1
      BY <1>1, <1>4 DEF Rising
    <3>2. Len(guest) = 0
      BY <1>4, <1>6, <3>1
    <3> QED BY <1>3, <3>2, EmptySeq
  <2>3. Nest(cpu', guest', host', b)
    BY <1>1, <1>4, <1>5, <2>1, <2>2 DEF Nest, Returned
  <2>4. Typed'
    BY <1>1, <1>3, <2>1 DEF Typed
  <2> QED BY <2>3, <2>4 DEF Inv, Nested
<1>7. CASE n # 1
  <2>1. n > 1 /\ n \in 2..n /\ n - 1 \in 1..n - 1
    BY <1>3, <1>7
  <2>2. cpu' = host[n].saved /\ cpu' \in Cpus
    BY <1>1, <1>3, <2>1 DEF Levels
  <2>3. Front(host) # << >>
    BY <1>3, <2>1, EmptySeq
  <2>4. Last(Front(host)) = host[n - 1] /\ Last(guest) = guest[b[n] - 1]
    BY <1>3, <1>4, <2>1 DEF Last
  <2>5. Holds(Last(Front(host)), cpu', Last(guest))
    BY <1>4, <2>1, <2>2, <2>4 DEF Suspended
  <2>6. ~IsCall(host, n - 1)
    BY <1>4, <2>1 DEF Alternates, IsCall
  <2>7. ~IsCall(Front(host), Len(Front(host)))
    BY <1>3, <2>1, <2>6
  <2>8. cpu'.pc # MAGIC
    <3>1. Last(Front(host)).kind \in {"import", "hook"}
      <4>1. host[n - 1] \in Levels /\ n - 1 \in 1..n
        BY <1>3, <2>1, ElementOfSeq
      <4> QED BY <2>4, <2>6, <4>1 DEF IsCall, Levels, Kinds
    <3>2. CASE Last(Front(host)).kind = "import"
      BY <2>5, <3>2 DEF Holds, Import, MAGIC
    <3>3. CASE Last(Front(host)).kind = "hook"
      <4>1. cpu'.pc \in Hooked
        BY <2>5, <3>3 DEF Holds
      <4> QED BY <4>1, NoMarker DEF Addresses, Codes
    <3> QED BY <3>1, <3>2, <3>3
  <2>9. Nest(cpu', guest', host', b)
    BY <1>1, <1>4, <1>5, <2>3, <2>5, <2>7, <2>8 DEF Nest, Returned
  <2>10. Typed'
    BY <1>1, <1>3, <2>2 DEF Typed
  <2> QED BY <2>9, <2>10 DEF Inv, Nested
<1> QED BY <1>6, <1>7

(* An import or a hook is entered from the game: a level more, nothing else.     *)
LEMMA HostNests ==
    ASSUME Addresses, Typed, NEW b \in Bases, Nest(cpu, guest, host, b), Inside("call"),
           cpu.pc # MAGIC, NEW c2 \in Cpus, c2.pc # MAGIC,
           NEW level \in Levels, level.kind # "call", Holds(level, c2, Last(guest))
    PROVE  Append(host, level) \in Seq(Levels) /\ Nest(c2, guest, Append(host, level), b)
<1> DEFINE n == Len(host)  s == Append(host, level)
<1>1. /\ n \in 1..n /\ IsCall(host, n) /\ host \in Seq(Levels)
      /\ Frames(guest, host, b) /\ Rising(host, b) /\ Suspended(guest, host, b)
      /\ Alternates(host)
  BY InTheGame DEF Typed, Inside
<1>2. /\ s \in Seq(Levels) /\ s # << >> /\ Len(s) = n + 1 /\ n \in Nat
      /\ \A k \in 1..n : s[k] = host[k]
      /\ s[n + 1] = level /\ Last(s) = level
      /\ \A k \in 1..n : IsCall(s, k) <=> IsCall(host, k)
      /\ ~IsCall(s, n + 1)
  BY <1>1, PushFacts
<1> HIDE DEF s
<1>3. \A k \in 1..n + 1 : k \in 1..n \/ k = n + 1
  BY <1>2
<1>4. \A k \in 1..n + 1 : IsCall(s, k) => k \in 1..n /\ IsCall(host, k)
  BY <1>2, <1>3
<1>5. Alternates(s)
  <2> SUFFICES ASSUME NEW k \in 1..n + 1
               PROVE  s[k].kind = "call" <=> (k = 1 \/ ~IsCall(s, k - 1))
    BY <1>2 DEF Alternates
  <2>1. CASE k = n + 1
    <3>1. k # 1 /\ k - 1 = n
      BY <1>1, <2>1
    <3>2. IsCall(s, n)
      BY <1>1, <1>2
    <3> QED BY <1>2, <2>1, <3>1, <3>2
  <2>2. CASE k # n + 1
    <3>1. k \in 1..n /\ (k = 1 \/ k - 1 \in 1..n)
      BY <1>2, <2>2
    <3>2. host[k].kind = "call" <=> (k = 1 \/ ~IsCall(host, k - 1))
      BY <1>1, <3>1 DEF Alternates
    <3> QED BY <1>2, <3>1, <3>2
  <2> QED BY <2>1, <2>2
<1>6. Rising(s, b)
  <2>1. host # << >>
    BY <1>1, EmptySeq
  <2> QED BY <1>1, <1>2, <1>4, <2>1 DEF Rising
<1>7. Frames(guest, s, b)
  <2>1. \A k \in 1..n + 1 : IsCall(s, k) => b[k] \in 1..Len(guest) /\ guest[b[k]].ret = MAGIC
    BY <1>1, <1>4 DEF Frames
  <2>2. ASSUME NEW d \in 1..Len(guest), guest[d].ret = MAGIC
        PROVE  \E k \in 1..n + 1 : IsCall(s, k) /\ b[k] = d
    <3>1. PICK k \in 1..n : IsCall(host, k) /\ b[k] = d
      BY <1>1, <2>2 DEF Frames
    <3>2. k \in 1..n + 1
      BY <1>2
    <3> QED BY <1>2, <3>1, <3>2
  <2> QED BY <1>1, <1>2, <2>1, <2>2 DEF Frames
<1>8. Suspended(guest, s, b)
  <2> SUFFICES ASSUME NEW k \in 2..n + 1, IsCall(s, k)
               PROVE  b[k] \in 2..Len(guest) + 1 /\ Holds(s[k - 1], s[k].saved, guest[b[k] - 1])
    BY <1>2 DEF Suspended
  <2>1. k \in 1..n + 1
    BY <1>2
  <2>2. k \in 1..n /\ IsCall(host, k)
    BY <1>4, <2>1
  <2>3. k \in 2..n /\ k - 1 \in 1..n
    BY <1>2, <2>2
  <2>4. s[k] = host[k] /\ s[k - 1] = host[k - 1]
    BY <1>2, <2>2, <2>3
  <2> QED BY <1>1, <2>2, <2>3, <2>4 DEF Suspended
<1>9. Nest(c2, guest, s, b)
  BY <1>2, <1>5, <1>6, <1>7, <1>8 DEF Nest, Returned
<1> QED BY <1>2, <1>9 DEF s

(* step_host_import: the import starts with a clean redirect. *)
LEMMA ImportEnteredNests ==
    ASSUME Addresses, Inv, ImportEntered
    PROVE  Inv'
<1> DEFINE level == [kind |-> "import", saved |-> cpu']
<1>1. /\ Typed /\ ~fault /\ Inside("call") /\ cpu.pc = Import
      /\ UNCHANGED <<guest, jump, fault>>
      /\ cpu' = [cpu EXCEPT !.redirect = None, !.blocked = FALSE]
  BY DEF Inv, ImportEntered
<1>2. host' = Append(host, level)
  BY DEF ImportEntered, Level
<1>3. PICK b \in Bases : Nest(cpu, guest, host, b)
  BY <1>1 DEF Inv, Nested
<1>4. cpu.pc # MAGIC /\ cpu \in Cpus
  BY <1>1 DEF Import, MAGIC, Typed
<1>5. /\ cpu' \in Cpus /\ cpu'.pc = Import /\ cpu'.lr = cpu.lr /\ cpu'.redirect = None
  BY <1>1, <1>4 DEF Cpus
<1>6. cpu.lr \in Sites /\ cpu.lr = Last(guest).at
  BY <1>1, <1>3, <1>4, InTheGame DEF Goes, Typed, Inside
<1>7. level \in Levels /\ level.kind = "import" /\ level.saved = cpu'
  BY <1>5 DEF Levels, Kinds
<1> HIDE DEF level
<1>8. level.kind # "call" /\ Holds(level, cpu', Last(guest)) /\ cpu'.pc # MAGIC
  BY <1>5, <1>6, <1>7 DEF Holds, Import, MAGIC
<1>9. host' \in Seq(Levels) /\ Nest(cpu', guest, host', b)
  BY <1>1, <1>2, <1>3, <1>4, <1>5, <1>7, <1>8, HostNests
<1> QED BY <1>1, <1>5, <1>9 DEF Inv, Typed, Nested

(* A hook is entered with the registers of the function it stands for. *)
LEMMA HookEnteredNests ==
    ASSUME Addresses, Inv, HookEntered
    PROVE  Inv'
<1> DEFINE level == [kind |-> "hook", saved |-> cpu]
<1>1. /\ Typed /\ ~fault /\ Inside("call") /\ cpu.pc \in Hooked /\ cpu.pc # MAGIC /\ cpu \in Cpus
      /\ host' = Append(host, level) /\ UNCHANGED <<cpu, guest, jump, fault>>
  BY NoMarker DEF Inv, HookEntered, InGuest, Codes, Typed, Level
<1>2. PICK b \in Bases : Nest(cpu, guest, host, b)
  BY <1>1 DEF Inv, Nested
<1>3. Goes(cpu, Last(guest))
  BY <1>1, <1>2, InTheGame DEF Typed, Inside
<1>4. level \in Levels /\ level.kind = "hook" /\ level.saved = cpu
  BY <1>1 DEF Levels, Kinds
<1> HIDE DEF level
<1>5. level.kind # "call" /\ Holds(level, cpu, Last(guest))
  BY <1>1, <1>3, <1>4 DEF Holds
<1>6. host' \in Seq(Levels) /\ Nest(cpu, guest, host', b)
  BY <1>1, <1>2, <1>4, <1>5, HostNests
<1> QED BY <1>1, <1>6 DEF Inv, Typed, Nested

(* Host code of the innermost level works: the levels stay. *)
LEMMA HostStep ==
    ASSUME Addresses, Typed, NEW b \in Bases, Nest(cpu, guest, host, b), host # << >>,
           ~Inside("call"), NEW g2 \in Seq(Activations), NEW c2, c2.pc # MAGIC,
           Stays(guest, g2, b[Len(host) - 1]), Holds(Last(host), c2, Last(g2))
    PROVE  Nest(c2, g2, host, b)
<1> DEFINE m == Len(host) - 1
<1>1. /\ m \in 1..Len(host) /\ IsCall(host, m) /\ ~IsCall(host, Len(host))
      /\ Frames(guest, host, b) /\ Rising(host, b) /\ Suspended(guest, host, b)
      /\ Alternates(host)
      /\ \A k \in 1..Len(host) : IsCall(host, k) => k <= m
  BY InTheHost
<1> HIDE DEF m
<1>2. Stays(guest, g2, b[m])
  BY DEF m
<1>3. Frames(g2, host, b) /\ Suspended(g2, host, b)
  BY <1>1, <1>2, Regrown DEF Typed
<1> QED BY <1>1, <1>3 DEF Nest, Returned

(* Inside an import the registers are at the import. *)
LEMMA InTheImport ==
    ASSUME Addresses, Typed, NEW b \in Bases, Nest(cpu, guest, host, b), Inside("import")
    PROVE  /\ host # << >> /\ ~Inside("call") /\ Last(host).kind = "import"
           /\ cpu \in Cpus /\ cpu.pc = Import /\ cpu.pc # MAGIC
           /\ cpu.lr \in Sites /\ cpu.lr = Last(host).saved.lr
           /\ cpu.redirect \in {None, Last(guest).at}
           /\ cpu.redirect = None => cpu.lr = Last(guest).at
           /\ cpu.blocked => cpu.redirect = None
           /\ guest \in Seq(Activations) /\ guest # << >> /\ Len(guest) \in Nat \ {0}
<1>1. host # << >> /\ ~Inside("call") /\ Last(host).kind = "import"
  BY DEF Inside
<1>2. Holds(Last(host), cpu, Last(guest)) /\ guest # << >>
  BY <1>1, InTheHost
<1>3. cpu \in Cpus /\ guest \in Seq(Activations) /\ Len(guest) \in Nat \ {0}
  BY <1>2, FrontFacts DEF Typed, Inside
<1> QED BY <1>1, <1>2, <1>3 DEF Holds, Import, MAGIC

(* setjmp remembers a place of the game and changes no stack. *)
LEMMA SetjmpNests ==
    ASSUME Addresses, Inv, s_setjmp
    PROVE  Inv'
<1>1. /\ Typed /\ ~fault /\ Inside("import") /\ UNCHANGED <<cpu, guest, host, fault>>
      /\ jump' = [site |-> cpu.lr, depth |-> Len(guest), level |-> Len(host)]
  BY DEF Inv, s_setjmp, Working
<1>2. PICK b \in Bases : Nest(cpu, guest, host, b)
  BY <1>1 DEF Inv, Nested
<1>3. cpu.lr \in Sites /\ Len(guest) \in Nat \ {0} /\ Len(host) \in Nat
  BY <1>1, <1>2, InTheImport, LenProperties DEF Typed
<1>4. jump' \in Jumps
  BY <1>1, <1>3 DEF Jumps
<1>5. Typed'
  BY <1>1, <1>4 DEF Typed
<1>6. Nest(cpu', guest', host', b)
  BY <1>1, <1>2
<1> QED BY <1>5, <1>6 DEF Inv, Nested

(* longjmp drops activations of this call only, and marks where the last goes on. *)
LEMMA LongjmpNests ==
    ASSUME Addresses, Inv, s_longjmp
    PROVE  Inv'
<1> DEFINE n == jump.depth  cut == SubSeq(guest, 1, n)
<1>1. /\ Typed /\ ~fault /\ Inside("import") /\ jump # NoJump /\ n <= Len(guest)
      /\ \A d \in n + 1..Len(guest) : guest[d].ret # MAGIC
      /\ guest' = [cut EXCEPT ![n].at = jump.site]
      /\ cpu' = [cpu EXCEPT !.redirect = jump.site] /\ UNCHANGED <<host, jump, fault>>
  BY DEF Inv, s_longjmp, Working
<1>2. PICK b \in Bases : Nest(cpu, guest, host, b)
  BY <1>1 DEF Inv, Nested
<1>3. n \in Nat \ {0} /\ jump.site \in Sites
  BY <1>1 DEF Typed, Jumps
<1>4. /\ host # << >> /\ ~Inside("call") /\ Last(host).kind = "import"
      /\ cpu \in Cpus /\ cpu.pc = Import /\ cpu.lr \in Sites /\ cpu.lr = Last(host).saved.lr
      /\ guest \in Seq(Activations) /\ Len(guest) \in Nat
  BY <1>1, <1>2, InTheImport
<1> DEFINE j == b[Len(host) - 1]
<1>5. j \in 1..Len(guest) /\ j \in Nat /\ Stays(guest, guest, j) /\ guest[j].ret = MAGIC
  BY <1>1, <1>2, <1>4, InTheHost DEF Stays
<1> HIDE DEF j
<1>6. n \in 1..Len(guest) /\ j <= n
  BY <1>1, <1>3, <1>4, <1>5
<1>7. cut \in Seq(Activations) /\ Len(cut) = n /\ Stays(guest, cut, j)
  BY <1>4, <1>5, <1>6, CutStays
<1> HIDE DEF cut
<1>8. guest' = Marked(cut, jump.site) /\ cut # << >>
  BY <1>1, <1>3, <1>7, EmptySeq DEF Marked
<1>9. guest' \in Seq(Activations) /\ Last(guest').at = jump.site
  BY <1>3, <1>7, <1>8, MarkedFacts
<1>10. Stays(guest, guest', j)
  BY <1>3, <1>4, <1>5, <1>7, <1>8, MarkStays
<1>11. Stays(guest, guest', b[Len(host) - 1])
  BY <1>10 DEF j
<1>12. ~cpu.blocked
  BY DEF s_longjmp, Working
<1>13. /\ cpu' \in Cpus /\ cpu'.pc = Import /\ cpu'.lr = cpu.lr /\ cpu'.redirect = jump.site
       /\ cpu'.blocked = cpu.blocked
  BY <1>1, <1>3, <1>4 DEF Cpus
<1>14. jump.site # None
  BY <1>3 DEF Addresses
<1>15. Holds(Last(host), cpu', Last(guest')) /\ cpu'.pc # MAGIC
  <2>1. ~cpu'.blocked
    BY <1>12, <1>13
  <2> QED BY <1>4, <1>9, <1>13, <1>14, <2>1 DEF Holds, Import, MAGIC
<1>16. Nest(cpu', guest', host, b)
  BY <1>1, <1>2, <1>4, <1>9, <1>11, <1>15, HostStep
<1> QED BY <1>1, <1>9, <1>13, <1>16 DEF Inv, Typed, Nested

(* A wait leaves everything but the flag. *)
LEMMA BlocksNests ==
    ASSUME Addresses, Inv, Blocks
    PROVE  Inv'
<1>1. /\ Typed /\ ~fault /\ Inside("import") /\ cpu.redirect = None
      /\ cpu' = [cpu EXCEPT !.blocked = TRUE] /\ UNCHANGED <<guest, host, jump, fault>>
  BY DEF Inv, Blocks
<1>2. PICK b \in Bases : Nest(cpu, guest, host, b)
  BY <1>1 DEF Inv, Nested
<1>3. /\ host # << >> /\ ~Inside("call") /\ Last(host).kind = "import"
      /\ cpu \in Cpus /\ cpu.pc = Import /\ cpu.lr \in Sites /\ cpu.lr = Last(host).saved.lr
      /\ cpu.lr = Last(guest).at /\ guest \in Seq(Activations)
  BY <1>1, <1>2, InTheImport
<1>4. /\ cpu' \in Cpus /\ cpu'.pc = Import /\ cpu'.lr = cpu.lr /\ cpu'.redirect = None
  BY <1>1, <1>3 DEF Cpus
<1>5. Holds(Last(host), cpu', Last(guest)) /\ cpu'.pc # MAGIC
  BY <1>3, <1>4 DEF Holds, Import, MAGIC
<1>6. Stays(guest, guest, b[Len(host) - 1])
  BY <1>1, <1>2, <1>3, InTheHost
<1>7. Nest(cpu', guest, host, b)
  BY <1>1, <1>2, <1>3, <1>5, <1>6, HostStep
<1> QED BY <1>1, <1>4, <1>7 DEF Inv, Typed, Nested

(* Host code of a level ends: the game goes on, below it. *)
LEMMA HostEnds ==
    ASSUME Addresses, Typed, NEW b \in Bases, Nest(cpu, guest, host, b), host # << >>,
           ~Inside("call"), NEW c2, c2.pc # MAGIC, Goes(c2, Last(guest))
    PROVE  /\ Front(host) \in Seq(Levels) /\ Front(host) # << >>
           /\ Last(Front(host)).kind = "call"
           /\ Nest(c2, guest, Front(host), b)
<1> DEFINE n == Len(host)  s == Front(host)
<1>1. /\ n - 1 \in 1..n /\ IsCall(host, n - 1) /\ ~IsCall(host, n)
      /\ Frames(guest, host, b) /\ Rising(host, b) /\ Suspended(guest, host, b)
      /\ Alternates(host)
      /\ \A k \in 1..n : IsCall(host, k) => k <= n - 1
  BY InTheHost
<1>2. /\ s \in Seq(Levels) /\ Len(s) = n - 1 /\ n \in Nat \ {0}
      /\ \A k \in 1..n - 1 : s[k] = host[k]
      /\ \A k \in 1..n - 1 : IsCall(s, k) <=> IsCall(host, k)
  BY PopFacts DEF Typed
<1>3. Alternates(s) /\ Rising(s, b) /\ Suspended(guest, s, b)
  BY <1>1, PoppedLevels DEF Typed
<1> HIDE DEF s
<1>4. n - 1 \in 1..n - 1
  BY <1>1, <1>2
<1>5. s # << >> /\ IsCall(s, Len(s)) /\ Last(s).kind = "call"
  BY <1>1, <1>2, <1>4, EmptySeq DEF IsCall, Last
<1>6. Frames(guest, s, b)
  <2>1. \A k \in 1..n - 1 : IsCall(s, k) => b[k] \in 1..Len(guest) /\ guest[b[k]].ret = MAGIC
    <3>1. \A k \in 1..n - 1 : k \in 1..n
      BY <1>2
    <3> QED BY <1>1, <1>2, <3>1 DEF Frames
  <2>2. ASSUME NEW d \in 1..Len(guest), guest[d].ret = MAGIC
        PROVE  \E k \in 1..n - 1 : IsCall(s, k) /\ b[k] = d
    <3>1. PICK k \in 1..n : IsCall(host, k) /\ b[k] = d
      BY <1>1, <2>2 DEF Frames
    <3>2. k \in 1..n - 1
      BY <1>1, <1>2, <3>1
    <3> QED BY <1>2, <3>1, <3>2
  <2> QED BY <1>1, <1>2, <2>1, <2>2 DEF Frames
<1>7. Nest(c2, guest, s, b)
  BY <1>3, <1>5, <1>6 DEF Nest, Returned
<1> QED BY <1>2, <1>5, <1>7 DEF s

(* An import ends: the game goes on at its link register or its redirect. *)
LEMMA ImportReturnsNests ==
    ASSUME Addresses, Inv, ImportReturns
    PROVE  Inv'
<1>1. /\ Typed /\ ~fault /\ Inside("import") /\ host' = Front(host)
      /\ cpu.blocked => cpu' = cpu
      /\ ~cpu.blocked => /\ cpu' = BranchTo(cpu, IF cpu.redirect # None THEN cpu.redirect ELSE cpu.lr)
                         /\ fault' = fault
      /\ UNCHANGED <<guest, jump>>
  BY DEF Inv, ImportReturns
<1>0. fault' \in BOOLEAN
  <2>1. cpu.blocked => fault' = (Len(host') > 1)
    BY DEF ImportReturns
  <2>2. (Len(host') > 1) \in BOOLEAN
    OBVIOUS
  <2>3. CASE cpu.blocked
    BY <2>1, <2>2, <2>3, Zenon
  <2>4. CASE ~cpu.blocked
    BY <1>1, <2>4 DEF Typed
  <2> QED BY <2>3, <2>4
<1>2. PICK b \in Bases : Nest(cpu, guest, host, b)
  BY <1>1 DEF Inv, Nested
<1>3. /\ host # << >> /\ ~Inside("call")
      /\ cpu \in Cpus /\ cpu.pc = Import
      /\ cpu.lr \in Sites /\ cpu.redirect \in {None, Last(guest).at}
      /\ cpu.redirect = None => cpu.lr = Last(guest).at
      /\ cpu.blocked => cpu.redirect = None
      /\ guest \in Seq(Activations) /\ guest # << >>
  BY <1>1, <1>2, InTheImport
<1>4. Import # MAGIC /\ Import # None /\ Import \notin Codes /\ Import \notin Hooked
  BY DEF Import, MAGIC, None, Addresses, Codes
<1>5. CASE cpu.blocked
  <2>1. Goes(cpu, Last(guest)) /\ cpu.pc # MAGIC
    BY <1>3, <1>4, <1>5 DEF Goes
  <2>2. cpu' = cpu
    BY <1>1, <1>5
  <2>3. host' \in Seq(Levels) /\ Nest(cpu', guest, host', b)
    BY <1>1, <1>2, <1>3, <2>1, <2>2, HostEnds
  <2> QED BY <1>0, <1>1, <2>2, <2>3 DEF Inv, Typed, Nested
<1>6. CASE ~cpu.blocked
  <2> DEFINE to == IF cpu.redirect # None THEN cpu.redirect ELSE cpu.lr
  <2>1. to \in Sites /\ to = Last(guest).at
    <3>1. cpu.redirect \in Sites \cup {None}
      BY <1>3 DEF Cpus
    <3> QED BY <1>3, <3>1
  <2>2. cpu' = BranchTo(cpu, to)
    BY <1>1, <1>6
  <2> HIDE DEF to
  <2>3. to \in Codes /\ to # MAGIC /\ to # None /\ to # Import /\ to \notin Hooked
    BY <2>1, NoMarker DEF Codes, Addresses
  <2>4. cpu' \in Cpus /\ cpu'.pc = to /\ cpu'.thumb = IsThumb(to)
    BY <1>3, <2>2, <2>3, BranchTypes
  <2>5. Goes(cpu', Last(guest)) /\ cpu'.pc # MAGIC
    BY <2>1, <2>3, <2>4 DEF Goes
  <2>6. host' \in Seq(Levels) /\ Nest(cpu', guest, host', b)
    BY <1>1, <1>2, <1>3, <2>5, HostEnds
  <2> QED BY <1>0, <1>1, <2>4, <2>6 DEF Inv, Typed, Nested
<1> QED BY <1>5, <1>6

(* A hook ends in the place of its function: to the function's caller. *)
LEMMA SyntheticReturnNests ==
    ASSUME Addresses, Inv, mr_guest_synthetic_return
    PROVE  Inv'
<1>1. /\ Typed /\ ~fault /\ Inside("hook") /\ host # << >> /\ ~Inside("call")
      /\ host' = Front(host) /\ guest' = Front(guest) /\ cpu' = BranchTo(cpu, cpu.lr)
      /\ jump' = Kept /\ fault' = fault
  BY DEF Inv, mr_guest_synthetic_return, Inside
<1>2. PICK b \in Bases : Nest(cpu, guest, host, b)
  BY <1>1 DEF Inv, Nested
<1>3. Holds(Last(host), cpu, Last(guest)) /\ guest # << >>
  BY <1>1, <1>2, InTheHost
<1>4. cpu.pc \in Hooked /\ Goes(cpu, Last(guest))
  BY <1>1, <1>3 DEF Holds, Inside
<1>5. cpu.pc # MAGIC /\ cpu.lr = Last(guest).ret
  BY <1>4, NoMarker DEF Goes, Addresses, Codes
<1>6. /\ Front(host) \in Seq(Levels) /\ Front(host) # << >> /\ Last(Front(host)).kind = "call"
      /\ Nest(cpu, guest, Front(host), b)
  BY <1>1, <1>2, <1>4, <1>5, HostEnds
<1>7. Last(guest) \in Activations
  BY <1>1, <1>3, FrontFacts DEF Typed
<1>8. cpu.lr \in Codes \cup {MAGIC}
  BY <1>5, <1>7 DEF Activations, Codes
<1>9. /\ cpu' \in Cpus /\ cpu'.pc = Last(guest).ret
      /\ cpu'.pc # MAGIC => cpu'.thumb = IsThumb(cpu'.pc)
  BY <1>1, <1>5, <1>8, BranchTypes DEF Typed
<1>10. guest' \in Seq(Activations) /\ Nest(cpu', guest', host', b)
  BY <1>1, <1>5, <1>6, <1>9, ReturnNests DEF Typed
<1>11. jump' \in Jumps \cup {NoJump}
  BY <1>1 DEF Kept, Typed
<1> QED BY <1>1, <1>6, <1>9, <1>10, <1>11 DEF Inv, Typed, Nested

(* After a fault nothing is claimed of the stacks. *)
LEMMA FaultNests ==
    ASSUME Inv, Faults \/ Unwind
    PROVE  Inv'
<1>1. Typed
  BY DEF Inv
<1>2. CASE Faults
  BY <1>1, <1>2 DEF Faults, Inv, Typed, Nested
<1>3. CASE Unwind
  <2>1. host' \in Seq(Levels)
    BY <1>1, <1>3, PopFacts DEF Unwind, Typed
  <2> QED BY <1>1, <1>3, <2>1 DEF Unwind, Inv, Typed, Nested
<1> QED BY <1>2, <1>3
-----------------------------------------------------------------------------
(* The theorems. *)

(* Before the first call both stacks are empty. *)
LEMMA StartNests ==
    ASSUME Addresses, Init
    PROVE  Inv
<1>1. /\ cpu = [pc |-> None, lr |-> None, thumb |-> FALSE, redirect |-> None, blocked |-> FALSE]
      /\ guest = << >> /\ host = << >> /\ jump = NoJump /\ fault = FALSE
  BY DEF Init
<1>2. Typed
  <2>1. FALSE \in Modes
    BY DEF Modes
  <2>2. cpu \in Cpus
    BY <1>1, <2>1 DEF Cpus
  <2> QED BY <1>1, <2>2, EmptySeq DEF Typed
<1> DEFINE b == [k \in Nat |-> 1]
<1>3. b \in Bases
  BY DEF Bases
<1> HIDE DEF b
<1>4. Nest(cpu, guest, host, b)
  <2>1. Len(host) = 0 /\ Len(guest) = 0
    BY <1>1
  <2>2. Alternates(host) /\ Rising(host, b) /\ Suspended(guest, host, b) /\ Frames(guest, host, b)
    BY <1>1, <2>1 DEF Alternates, Rising, Suspended, Frames
  <2> QED BY <1>1, <2>2 DEF Nest, Returned
<1> QED BY <1>2, <1>3, <1>4 DEF Inv, Nested

(* Every step keeps the invariant. *)
LEMMA StepNests ==
    ASSUME Addresses, Inv, [Next]_boundary
    PROVE  Inv'
<1>1. ASSUME NEW f \in Functions, mr_guest_call(f) PROVE Inv'
  BY <1>1, CallNests
<1>2. ASSUME NEW f \in Functions, NEW site \in Sites, GuestCall(f, site) PROVE Inv'
  BY <1>2, GuestCallNests
<1>3. ASSUME NEW site \in Sites, CallsImport(site) \/ kuser_step(site) PROVE Inv'
  BY <1>3, CallsImportNests, KuserNests
<1>4. ASSUME CallReturns \/ GuestReturns \/ ImportEntered \/ s_setjmp \/ s_longjmp PROVE Inv'
  BY <1>4, CallReturnsNests, GuestReturnsNests, ImportEnteredNests, SetjmpNests, LongjmpNests
<1>5. ASSUME Blocks \/ ImportReturns \/ HookEntered \/ mr_guest_synthetic_return PROVE Inv'
  BY <1>5, BlocksNests, ImportReturnsNests, HookEnteredNests, SyntheticReturnNests
<1>6. ASSUME Faults \/ Unwind PROVE Inv'
  BY <1>6, FaultNests
<1>7. CASE UNCHANGED boundary
  BY <1>7 DEF boundary, Inv, Typed, Nested
<1> QED BY <1>1, <1>2, <1>3, <1>4, <1>5, <1>6, <1>7 DEF Next

(* The stacks of the host and of the game stay tied in every reachable state. *)
THEOREM StacksAreTied ==
    ASSUME Addresses
    PROVE  Spec => []Inv
<1>1. Init => Inv
  BY StartNests
<1>2. Inv /\ [Next]_boundary => Inv'
  BY StepNests
<1> QED BY <1>1, <1>2, PTL DEF Spec

(* Whatever host code ran in between, the game goes on where its innermost       *)
(* activation was to go on and in the instruction set of that place, an import   *)
(* that called the game is resumed as the import it was, and a hook with the     *)
(* registers it was entered with.                                               *)
THEOREM NestedCallsReturn ==
    ASSUME Addresses
    PROVE  Spec => []CallsNest
<1>1. Inv => CallsNest
  <2> SUFFICES ASSUME Inv, ~fault PROVE CallsNest
    BY DEF CallsNest
  <2>1. PICK b \in Bases : Nest(cpu, guest, host, b)
    BY DEF Inv, Nested
  <2>2. Typed
    BY DEF Inv
  <2>3. InGuest => Translated /\ cpu.pc = Last(guest).at
    <3> SUFFICES ASSUME InGuest PROVE Translated /\ cpu.pc = Last(guest).at
      OBVIOUS
    <3>1. Inside("call") /\ cpu.pc \in Codes /\ cpu.pc # MAGIC
      BY NoMarker DEF InGuest, Codes
    <3>2. Goes(cpu, Last(guest))
      BY <2>1, <2>2, <3>1, InTheGame DEF Typed, Inside
    <3> QED BY <3>1, <3>2 DEF Goes, Translated
  <2>4. Inside("import") => /\ cpu.pc = Import /\ cpu.lr = Last(host).saved.lr
                            /\ cpu.redirect \in {None, Last(guest).at}
    BY <2>1, <2>2, InTheImport
  <2>5. Inside("hook") => cpu = Last(host).saved
    <3> SUFFICES ASSUME Inside("hook") PROVE cpu = Last(host).saved
      OBVIOUS
    <3>1. host # << >> /\ ~Inside("call") /\ Last(host).kind = "hook"
      BY DEF Inside
    <3> QED BY <2>1, <2>2, <3>1, InTheHost DEF Holds
  <2>6. host = << >> => guest = << >>
    BY <2>1 DEF Nest
  <2> QED BY <2>3, <2>4, <2>5, <2>6 DEF CallsNest
<1>2. Spec => []Inv
  BY StacksAreTied
<1> QED BY <1>1, <1>2, PTL
=============================================================================
