---------------------------- MODULE RuntimeProofs ----------------------------
(* Theorems about the components of Runtime that carry the run of the game: its *)
(* language, the window of the builder, the start and its take-down, the files *)
(* of the program, nested calls, frames and uploads.  Each component has an    *)
(* invariant of its own, which the steps of the others leave alone; GuestCalls *)
(* has proofs in a module of its own, which is instantiated here.              *)
EXTENDS Runtime, Sequences, SequenceTheorems, FiniteSetTheorems, WellFoundedInduction, TLAPS
-----------------------------------------------------------------------------
(* Localization and LanguageUi: the language is kept, and offered.           *)

(* Short sequences: the buttons of a page, the notices of the builder.        *)
LEMMA ShortSequences ==
    ASSUME NEW a, NEW b
    PROVE  /\ Append(<<>>, a) = <<a>> /\ Append(<<a>>, b) = <<a, b>>
           /\ SubSeq(<<a>>, 1, Len(<<a>>) - 1) = <<>>
           /\ SubSeq(<<a, b>>, 1, Len(<<a, b>>) - 1) = <<a>>
<1> DEFINE S == {a, b}
           none == <<>>
           one == <<a>>
           two == <<a, b>>
<1>1. /\ none \in Seq(S) /\ one \in Seq(S) /\ two \in Seq(S)
      /\ Len(none) = 0 /\ Len(one) = 1 /\ Len(two) = 2
      /\ one[1] = a /\ two[1] = a /\ two[2] = b
  OBVIOUS
<1>a. a \in S /\ b \in S
  OBVIOUS
<1> HIDE DEF S, none, one, two
<1>2. Append(none, a) = one
  <2>1. Append(none, a) \in Seq(S) /\ Len(Append(none, a)) = 1 /\ Append(none, a)[1] = a
    BY <1>1, <1>a, AppendProperties
  <2> QED BY <1>1, <2>1, SeqEqual
<1>3. Append(one, b) = two
  <2> DEFINE c == Append(one, b)
  <2>1. one \in Seq(S) /\ b \in S /\ Len(one) = 1 /\ one[1] = a
    BY <1>1, <1>a
  <2>2. c \in Seq(S) /\ Len(c) = Len(one) + 1 /\ c[Len(one) + 1] = b
    BY <2>1, AppendProperties
  <2>3. c[1] = a
    <3>1. Append(<<a>>, b)[1] = a
      OBVIOUS
    <3> QED
      BY <3>1 DEF one
  <2> HIDE DEF c
  <2>4. Len(c) = 2 /\ c[2] = b
    BY <2>1, <2>2
  <2>5. Len(c) = Len(two) /\ \A i \in 1..Len(c) : c[i] = two[i]
    BY <1>1, <2>3, <2>4
  <2>6. c = two
    BY <1>1, <2>2, <2>5, SeqEqual
  <2> QED
    BY <2>6 DEF c
<1>4. SubSeq(one, 1, Len(one) - 1) = none
  BY <1>1, SubSeqEmpty DEF none
<1>5. SubSeq(two, 1, Len(two) - 1) = one
  <2>1. /\ SubSeq(two, 1, 1) \in Seq(S) /\ Len(SubSeq(two, 1, 1)) = 1
        /\ SubSeq(two, 1, 1)[1] = a
    BY <1>1, <1>a, SubSeqProperties
  <2> QED BY <1>1, <2>1, SeqEqual
<1> QED BY <1>2, <1>3, <1>4, <1>5 DEF none, one, two

(* A step of the runtime is one of the component, or leaves it alone.        *)
LEMMA LanguageStep == [Next]_allVars => [Language!Next]_languageVars
BY DEF Next, OthersRest, allVars, languageVars

(* The engine speaks the language the host has activated, but between the    *)
(* request for another and its selection, and for the frame in which the     *)
(* engine makes its localization singleton in English (bootstrap).           *)
EngineFollows ==
    /\ phase \in {"between", "render", "save-after"} /\ Language!babel => engine = active
    /\ phase = "after" /\ Language!babel => engine = active \/ pending
    /\ pending \in BOOLEAN /\ (phase # "off" => bootstrap = pending)

(* The preference is only ever replaced by a whole one. *)
PreferenceIsSaved ==
    /\ available \subseteq Packs /\ active \in Language!Languages
    /\ request \in Language!Languages \cup {Language!NoLanguage}
    /\ file = saved /\ file # Language!HalfWritten

LanguageInv == EngineFollows /\ PreferenceIsSaved

(* Localization before the launch.                                           *)
LEMMA LanguageInit == Language!Init => LanguageInv
BY DEF Language!Init, LanguageInv, EngineFollows, PreferenceIsSaved, Language!babel, Language!NoLanguage,
       Language!English, Language!HalfWritten, Language!Languages

(* Every step of Localization: a language is active, saved and followed.     *)
LEMMA LanguageInductive == LanguageInv /\ [Language!Next]_languageVars => LanguageInv'
<1> SUFFICES ASSUME LanguageInv, [Language!Next]_languageVars PROVE LanguageInv'
  OBVIOUS
<1> USE DEF Language!babel, Language!NoLanguage, Language!English, Language!HalfWritten, Language!Languages
<1>1. ASSUME NEW o, NEW s, Language!Launch(o, s) PROVE LanguageInv'
  BY <1>1 DEF Language!Launch, Language!find_language, LanguageInv, EngineFollows, PreferenceIsSaved
<1>2. ASSUME NEW l \in Language!Languages, Language!Request(l) PROVE LanguageInv'
  BY <1>2 DEF Language!Request, LanguageInv, EngineFollows, PreferenceIsSaved
<1>3. CASE Language!Apply
  BY <1>3 DEF Language!Apply, LanguageInv, EngineFollows, PreferenceIsSaved
<1>4. CASE Language!SelectRequested
  BY <1>4 DEF Language!SelectRequested, LanguageInv, EngineFollows, PreferenceIsSaved
<1>5. CASE Language!Render
  BY <1>5 DEF Language!Render, Language!mr_localization_engine_query_code,
              LanguageInv, EngineFollows, PreferenceIsSaved
<1>6. CASE Language!AfterRender
  BY <1>6 DEF Language!AfterRender, LanguageInv, EngineFollows, PreferenceIsSaved
<1>7. CASE Language!End
  BY <1>7 DEF Language!End, LanguageInv, EngineFollows, PreferenceIsSaved
<1>8. ASSUME NEW after \in {"request", "after"}, Language!Save(after) PROVE LanguageInv'
  BY <1>8, PacksAssumption DEF Language!Save, Language!write_preference, Language!Saving,
              LanguageInv, EngineFollows, PreferenceIsSaved
<1>9. CASE UNCHANGED languageVars
  BY <1>9 DEF languageVars, LanguageInv, EngineFollows, PreferenceIsSaved
<1> QED
  BY <1>1, <1>2, <1>3, <1>4, <1>5, <1>6, <1>7, <1>8, <1>9 DEF Language!Next

PageFields == {"page", "buttons", "style", "style_dirty", "pending", "injected", "cleanup"}

PagesTyped ==
    /\ count \in {0, 1}
    /\ PAGES = [k \in Pages!Kinds |-> PAGES[k]] /\ view = [k \in Pages!Kinds |-> view[k]]
    /\ \A k \in Pages!Kinds :
          /\ DOMAIN PAGES[k] = PageFields
          /\ PAGES[k].page \in PagesOf(k) \cup {"no page"}
          /\ PAGES[k].pending \in BOOLEAN /\ PAGES[k].injected \in BOOLEAN
          /\ PAGES[k].cleanup \in BOOLEAN /\ PAGES[k].style_dirty \in BOOLEAN
          /\ view[k] \in [PagesOf(k) -> {"absent", "made", "refreshed"}]

(* The page that is noted exists, or its destruction is noted in this frame;   *)
(* one set of buttons at most is there.                                        *)
PageIsNoted(k) ==
    LET s == PAGES[k]
    IN  /\ s.page = "no page" => ~s.pending /\ ~s.injected
        /\ s.page # "no page" /\ ~s.cleanup => view[k][s.page] # "absent"
        /\ s.cleanup => k \in gone
        /\ ~s.injected => s.buttons = <<>>
        /\ s.injected => \E q : s.buttons = <<q>>

(* A page in use whose turn no other page disturbed is the one that is noted,  *)
(* and the only one that was refreshed with its buttons.                       *)
PageIsServed(k) ==
    \A p \in PagesOf(k) :
        LET s == PAGES[k]
        IN  /\ <<k, p>> \in open => view[k][p] # "absent"
            /\ <<k, p>> \notin crossed =>
                  /\ <<k, p>> \notin mistaken
                  /\ count # 0 /\ <<k, p>> \in open => s.page = p /\ ~s.cleanup /\ (s.pending \/ s.injected)
                  /\ view[k][p] = "refreshed" => s.page = p /\ s.injected /\ ~s.cleanup /\ s.buttons = <<p>>
                  /\ s.page = p /\ s.injected /\ ~s.cleanup => view[k][p] = "refreshed"
                  /\ frame = "between" /\ count # 0 /\ <<k, p>> \in open => view[k][p] = "refreshed"

(* The flags show the language, or are noted to be drawn anew.                 *)
FlagsAreNoted(k) ==
    LET s == PAGES[k]
    IN  s.injected /\ k \notin elsewhere /\ (frame = "between" \/ (~s.cleanup /\ ~s.style_dirty)) => s.style = language

PagesInv ==
    PagesTyped /\ \A k \in Pages!Kinds : PageIsNoted(k) /\ PageIsServed(k) /\ FlagsAreNoted(k)

(* No page when the program starts.                                            *)
LEMMA PagesInit == Pages!Init => PagesInv
<1> SUFFICES ASSUME Pages!Init PROVE PagesInv
  OBVIOUS
<1>1. \A k \in Pages!Kinds :
         /\ DOMAIN PAGES[k] = PageFields /\ PAGES[k].page = "no page" /\ PAGES[k].buttons = <<>>
         /\ ~PAGES[k].pending /\ ~PAGES[k].injected /\ ~PAGES[k].cleanup /\ ~PAGES[k].style_dirty
         /\ view[k] = [p \in PagesOf(k) |-> "absent"]
  BY Zenon DEF Pages!Init, Pages!Cleared, Pages!NoPage, Pages!ORIGINAL, PageFields
<1>2. PAGES = [k \in Pages!Kinds |-> PAGES[k]] /\ view = [k \in Pages!Kinds |-> view[k]] /\ count \in {0, 1}
      /\ open = {} /\ mistaken = {}
  BY DEF Pages!Init
<1>3. \A k \in Pages!Kinds : PAGES[k].pending = FALSE /\ PAGES[k].injected = FALSE
                             /\ PAGES[k].cleanup = FALSE /\ PAGES[k].style_dirty = FALSE
  <2>1. \A k \in Pages!Kinds : PAGES[k] = Pages!Cleared
    BY DEF Pages!Init
  <2> QED
    BY <2>1 DEF Pages!Cleared
<1>4. PagesTyped
  BY <1>1, <1>2, <1>3, Zenon DEF PagesTyped
<1>5. ASSUME NEW k \in Pages!Kinds PROVE PageIsNoted(k) /\ PageIsServed(k) /\ FlagsAreNoted(k)
  BY <1>1, <1>2, Zenon DEF PageIsNoted, PageIsServed, FlagsAreNoted
<1> QED
  BY <1>4, <1>5 DEF PagesInv

(* A kind of page that a call does not concern.                                *)
LEMMA OtherKindKeeps ==
    ASSUME PagesInv, NEW k \in Pages!Kinds, PAGES'[k] = PAGES[k], view'[k] = view[k], count' = count,
           k \in gone => k \in gone', k \in elsewhere => k \in elsewhere',
           frame' = frame, language' = language \/ k \in elsewhere',
           \A p \in PagesOf(k) : /\ (<<k, p>> \in open') = (<<k, p>> \in open)
                                 /\ (<<k, p>> \in crossed') = (<<k, p>> \in crossed)
                                 /\ (<<k, p>> \in mistaken') = (<<k, p>> \in mistaken)
    PROVE  PageIsNoted(k)' /\ PageIsServed(k)' /\ FlagsAreNoted(k)'
<1>1. PageIsNoted(k)'
  BY Zenon DEF PagesInv, PageIsNoted
<1>2. PageIsServed(k)'
  BY DEF PagesInv, PageIsServed
<1>3. FlagsAreNoted(k)'
  BY DEF PagesInv, FlagsAreNoted
<1> QED
  BY <1>1, <1>2, <1>3

(* A page is entered: it is noted, and its buttons wanted if it has none.      *)
LEMMA EnterFields ==
    ASSUME NEW s, DOMAIN s = PageFields, NEW p, NEW t, t = Pages!mr_language_ui_enter(s, p)
    PROVE  /\ DOMAIN t = PageFields /\ t.buttons = s.buttons /\ t.style = s.style
           /\ t.style_dirty = s.style_dirty /\ t.injected = s.injected /\ t.cleanup = s.cleanup
           /\ \/ t = s /\ (count = 0 \/ (s.page = p /\ s.injected))
              \/ t.page = p /\ t.pending = TRUE /\ count # 0
<1>1. CASE count = 0 \/ (s.page = p /\ s.injected)
  BY <1>1 DEF Pages!mr_language_ui_enter
<1>2. CASE ~(count = 0 \/ (s.page = p /\ s.injected))
  <2>1. t = [s EXCEPT !.page = p, !.pending = TRUE]
    BY <1>2 DEF Pages!mr_language_ui_enter
  <2> QED
    BY <1>2, <2>1 DEF PageFields
<1> QED
  BY <1>1, <1>2

(* Use of a page: of the next in turn, or of one that crosses others.          *)
LEMMA UseCrosses ==
    ASSUME NEW k \in Pages!Kinds, NEW p \in PagesOf(k), Pages!Use(k, p)
    PROVE  /\ \A j, q : <<j, q>> \in crossed => <<j, q>> \in crossed'
           /\ \A j, q : j # k => (<<j, q>> \in crossed') = (<<j, q>> \in crossed)
           /\ (k \in gone \/ \E q \in PagesOf(k) : q # p /\ view[k][q] # "absent") =>
                 /\ <<k, p>> \in crossed'
                 /\ \A q \in PagesOf(k) : q # p /\ view[k][q] # "absent" => <<k, q>> \in crossed'
<1> DEFINE others == {q \in PagesOf(k) \ {p} : view[k][q] # "absent"}
<1>1. crossed' = crossed \cup (IF k \in gone \/ others # {} THEN {k} \X (others \cup {p}) ELSE {})
  BY DEF Pages!Use, Pages!Others, Pages!Exists
<1>2. \A j, q : <<j, q>> \in {k} \X (others \cup {p}) <=> j = k /\ q \in others \cup {p}
  BY Zenon
<1> QED
  BY <1>1, <1>2

(* What a page in use finds noted, when no other disturbs its turn.            *)
LEMMA TurnIsFree ==
    ASSUME PagesInv, NEW k \in Pages!Kinds, NEW p \in PagesOf(k), Pages!Use(k, p), <<k, p>> \notin crossed'
    PROVE  ~PAGES[k].cleanup /\ PAGES[k].page \in {p, "no page"} /\ <<k, p>> \notin crossed
<1>1. k \notin gone /\ \A q \in PagesOf(k) : q # p => view[k][q] = "absent"
  BY UseCrosses
<1>2. PAGES[k].page \in PagesOf(k) \cup {"no page"} /\ PageIsNoted(k)
  BY Zenon DEF PagesInv, PagesTyped
<1>3. <<k, p>> \notin crossed
  BY UseCrosses
<1> QED
  BY <1>1, <1>2, <1>3, Zenon DEF PageIsNoted

(* A page is entered, or asked for, inside a frame.                            *)
LEMMA NotedKeeps ==
    ASSUME PagesInv, NEW k \in Pages!Kinds, NEW p \in PagesOf(k), NEW t,
           view[k][p] # "absent", frame = "engine", frame' = frame, Pages!Use(k, p),
           DOMAIN t = PageFields, t.buttons = PAGES[k].buttons, t.style = PAGES[k].style,
           t.style_dirty = PAGES[k].style_dirty, t.injected = PAGES[k].injected, t.cleanup = PAGES[k].cleanup,
           t = PAGES[k] \/ (t.page = p /\ t.pending = TRUE),
           PAGES' = [PAGES EXCEPT ![k] = t],
           view' = view, count' = count, gone' = gone, elsewhere' = elsewhere, language' = language,
           \A j, q : <<j, q>> # <<k, p>> => (<<j, q>> \in open') = (<<j, q>> \in open),
           <<k, p>> \in open' => <<k, p>> \in open \/ count = 0 \/ (t.page = p /\ (t.pending \/ t.injected)),
           \A j, q : j # k => (<<j, q>> \in mistaken') = (<<j, q>> \in mistaken),
           \A q : <<k, q>> \in mistaken' => <<k, q>> \in mistaken \/ <<k, q>> \in crossed'
    PROVE  PagesInv'
<1> DEFINE s == PAGES[k]
<1>0. /\ DOMAIN PAGES = Pages!Kinds /\ DOMAIN s = PageFields /\ s.page \in PagesOf(k) \cup {"no page"}
      /\ s.pending \in BOOLEAN /\ s.injected \in BOOLEAN /\ s.cleanup \in BOOLEAN /\ s.style_dirty \in BOOLEAN
      /\ PageIsNoted(k) /\ PageIsServed(k) /\ FlagsAreNoted(k)
  BY Zenon DEF PagesInv, PagesTyped
<1>1. PAGES'[k] = t /\ \A j \in Pages!Kinds : j # k => PAGES'[j] = PAGES[j]
  BY <1>0, Zenon
<1>2. PAGES' = [j \in Pages!Kinds |-> PAGES'[j]]
  BY Zenon DEF PagesInv, PagesTyped
<1>3. t.page \in PagesOf(k) \cup {"no page"} /\ t.pending \in BOOLEAN
  BY <1>0, Zenon
<1>4. PagesTyped'
  <2>1. ASSUME NEW j \in Pages!Kinds
        PROVE  /\ DOMAIN PAGES'[j] = PageFields
               /\ PAGES'[j].page \in PagesOf(j) \cup {"no page"}
               /\ PAGES'[j].pending \in BOOLEAN /\ PAGES'[j].injected \in BOOLEAN
               /\ PAGES'[j].cleanup \in BOOLEAN /\ PAGES'[j].style_dirty \in BOOLEAN
    <3>1. CASE j = k
      BY <1>0, <1>1, <1>3, <3>1, Zenon
    <3>2. CASE j # k
      BY <1>1, <3>2, Zenon DEF PagesInv, PagesTyped
    <3> QED
      BY <3>1, <3>2, Zenon
  <2>2. view' = [j \in Pages!Kinds |-> view'[j]] /\ count' \in {0, 1}
        /\ \A j \in Pages!Kinds : view'[j] \in [PagesOf(j) -> {"absent", "made", "refreshed"}]
    BY Zenon DEF PagesInv, PagesTyped
  <2> QED
    BY <1>2, <2>1, <2>2, Zenon DEF PagesTyped
<1>5. PageIsNoted(k)'
  <2>1. p # "no page"
    BY PagesAssumption, Zenon DEF Pages!NoPage
  <2>2. CASE t = s
    BY <1>0, <1>1, <2>2, Zenon DEF PageIsNoted
  <2>3. CASE t.page = p /\ t.pending = TRUE
    BY <1>0, <1>1, <2>1, <2>3, Zenon DEF PageIsNoted
  <2> QED
    BY <2>2, <2>3
<1>6. FlagsAreNoted(k)'
  BY <1>0, <1>1, Zenon DEF FlagsAreNoted
<1>7. PageIsServed(k)'
  <2> SUFFICES ASSUME NEW q \in PagesOf(k)
               PROVE  /\ <<k, q>> \in open' => view[k][q] # "absent"
                      /\ <<k, q>> \notin crossed' =>
                         /\ <<k, q>> \notin mistaken'
                         /\ count # 0 /\ <<k, q>> \in open' => t.page = q /\ ~t.cleanup /\ (t.pending \/ t.injected)
                         /\ view[k][q] = "refreshed" => t.page = q /\ t.injected /\ ~t.cleanup /\ t.buttons = <<q>>
                         /\ t.page = q /\ t.injected /\ ~t.cleanup => view[k][q] = "refreshed"
    BY <1>1 DEF PageIsServed
  <2>1. CASE q = p
    <3>1. <<k, q>> \in open' => view[k][q] # "absent"
      BY <2>1
    <3>2. ASSUME <<k, q>> \notin crossed'
          PROVE  /\ <<k, q>> \notin mistaken'
                 /\ count # 0 /\ <<k, q>> \in open' => t.page = q /\ ~t.cleanup /\ (t.pending \/ t.injected)
                 /\ view[k][q] = "refreshed" => t.page = q /\ t.injected /\ ~t.cleanup /\ t.buttons = <<q>>
                 /\ t.page = q /\ t.injected /\ ~t.cleanup => view[k][q] = "refreshed"
      <4>1. ~s.cleanup /\ s.page \in {p, "no page"} /\ <<k, p>> \notin crossed
        BY <2>1, <3>2, TurnIsFree, Zenon
      <4>2. s.injected => s.page = p
        BY <1>0, <4>1, Zenon DEF PageIsNoted
      <4> QED
        BY <1>0, <2>1, <3>2, <4>1, <4>2, Zenon DEF PageIsServed
    <3> QED
      BY <3>1, <3>2
  <2>2. CASE q # p
    <3>1. <<k, q>> # <<k, p>>
      BY <2>2
    <3>2. CASE view[k][q] # "absent"
      <4>1. <<k, q>> \notin crossed' => <<k, q>> \notin crossed
        BY UseCrosses
      <4>2. CASE t = s
        BY <1>0, <3>1, <4>1, <4>2, Zenon DEF PageIsServed
      <4>3. CASE t.page = p /\ t.pending = TRUE
        <5>1. CASE k \in gone \/ view[k][q] # "absent"
          BY <1>0, <2>2, <3>1, <3>2, UseCrosses, Zenon DEF PageIsServed
        <5> QED
          BY <3>2, <5>1
      <4> QED
        BY <4>2, <4>3
    <3>3. CASE view[k][q] = "absent"
      <4>1. <<k, q>> \notin crossed' => <<k, q>> \notin crossed
        BY UseCrosses
      <4>2. <<k, q>> \notin open'
        BY <1>0, <3>1, <3>3, Zenon DEF PageIsServed
      <4>3. ~(<<k, q>> \notin crossed' /\ t.page = q /\ t.injected /\ ~t.cleanup)
        BY <1>0, <2>2, <3>3, <4>1, Zenon DEF PageIsNoted
      <4> QED
        BY <1>0, <3>3, <4>1, <4>2, <4>3, Zenon DEF PageIsServed
    <3> QED
      BY <3>2, <3>3
  <2> QED
    BY <2>1, <2>2
<1>8. ASSUME NEW j \in Pages!Kinds, j # k PROVE PageIsNoted(j)' /\ PageIsServed(j)' /\ FlagsAreNoted(j)'
  <2>1. \A q \in PagesOf(j) : /\ (<<j, q>> \in open') = (<<j, q>> \in open)
                              /\ (<<j, q>> \in crossed') = (<<j, q>> \in crossed)
                              /\ (<<j, q>> \in mistaken') = (<<j, q>> \in mistaken)
    <3>1. \A q : <<j, q>> # <<k, p>>
      BY <1>8
    <3> QED
      BY <1>8, <3>1, UseCrosses
  <2> QED
    BY <1>1, <1>8, <2>1, OtherKindKeeps
<1> QED
  BY <1>4, <1>5, <1>6, <1>7, <1>8 DEF PagesInv

(* Enter: the page is noted, and its buttons wanted.                           *)
LEMMA EnterKeeps ==
    ASSUME PagesInv, NEW k \in Pages!Kinds, NEW p \in PagesOf(k), Pages!Enter(k, p)
    PROVE  PagesInv'
<1> DEFINE t == Pages!mr_language_ui_enter(PAGES[k], p)
<1>1. /\ frame = "engine" /\ frame' = frame /\ count' = count /\ view[k][p] # "absent"
      /\ PAGES' = [PAGES EXCEPT ![k] = t] /\ open' = open \cup {<<k, p>>} /\ Pages!Use(k, p)
      /\ language' = language /\ view' = view /\ gone' = gone /\ elsewhere' = elsewhere /\ mistaken' = mistaken
  BY DEF Pages!Enter, Pages!InEngine, Pages!Exists, Pages!Noted
<1>2. DOMAIN PAGES[k] = PageFields /\ PAGES[k].injected \in BOOLEAN
  BY Zenon DEF PagesInv, PagesTyped
<1>3. /\ DOMAIN t = PageFields /\ t.buttons = PAGES[k].buttons /\ t.style = PAGES[k].style
      /\ t.style_dirty = PAGES[k].style_dirty /\ t.injected = PAGES[k].injected /\ t.cleanup = PAGES[k].cleanup
      /\ \/ t = PAGES[k] /\ (count = 0 \/ (PAGES[k].page = p /\ PAGES[k].injected))
         \/ t.page = p /\ t.pending = TRUE /\ count # 0
  BY <1>2, EnterFields
<1> HIDE DEF t
<1>4. /\ \A j, q : <<j, q>> # <<k, p>> => (<<j, q>> \in open') = (<<j, q>> \in open)
      /\ count = 0 \/ (t.page = p /\ (t.pending \/ t.injected))
      /\ \A j, q : j # k => (<<j, q>> \in mistaken') = (<<j, q>> \in mistaken)
      /\ \A q : <<k, q>> \in mistaken' => <<k, q>> \in mistaken \/ <<k, q>> \in crossed'
  BY <1>1, <1>3
<1> QED
  BY <1>1, <1>3, <1>4, NotedKeeps

(* Refresh: as Enter, but for a page that is noted already.  A page that gets  *)
(* no answer from the hook has its buttons.                                    *)
LEMMA RefreshKeeps ==
    ASSUME PagesInv, NEW k \in Pages!Kinds, NEW p \in PagesOf(k), Pages!Refresh(k, p)
    PROVE  PagesInv'
<1> DEFINE s == PAGES[k]
           t == IF count = 0 THEN s ELSE Pages!Asked(s, p)
           deferred == Pages!mr_language_ui_defer_refresh(s, p)
<1>1. /\ frame = "engine" /\ frame' = frame /\ count' = count /\ view[k][p] # "absent"
      /\ PAGES' = [PAGES EXCEPT ![k] = t] /\ open' = open /\ Pages!Use(k, p)
      /\ view' = [view EXCEPT ![k][p] = IF @ = "buttons" /\ ~deferred THEN "refreshed" ELSE @]
      /\ Pages!Served(k, p, count = 0 \/ deferred \/ view[k][p] # "made")
      /\ language' = language /\ gone' = gone /\ elsewhere' = elsewhere
  BY Zenon DEF Pages!Refresh, Pages!InEngine, Pages!Exists, Pages!Noted
<1>2. /\ DOMAIN PAGES[k] = PageFields /\ PAGES[k].injected \in BOOLEAN
      /\ view[k] \in [PagesOf(k) -> {"absent", "made", "refreshed"}]
      /\ view = [j \in Pages!Kinds |-> view[j]] /\ PageIsNoted(k) /\ PageIsServed(k)
  BY Zenon DEF PagesInv, PagesTyped
<1>3. /\ DOMAIN t = PageFields /\ t.buttons = s.buttons /\ t.style = s.style
      /\ t.style_dirty = s.style_dirty /\ t.injected = s.injected /\ t.cleanup = s.cleanup
      /\ t = s \/ (t.page = p /\ t.pending = TRUE)
  <2> HIDE DEF t
  <2>1. CASE t = s
    BY <1>2, <2>1
  <2>2. CASE t = Pages!mr_language_ui_enter(s, p)
    <3> DEFINE u == Pages!mr_language_ui_enter(s, p)
    <3>1. /\ DOMAIN u = PageFields /\ u.buttons = s.buttons /\ u.style = s.style
          /\ u.style_dirty = s.style_dirty /\ u.injected = s.injected /\ u.cleanup = s.cleanup
          /\ u = s \/ (u.page = p /\ u.pending = TRUE)
      <4>1. DOMAIN s = PageFields
        BY <1>2
      <4> HIDE DEF s
      <4>2. /\ DOMAIN u = PageFields /\ u.buttons = s.buttons /\ u.style = s.style
            /\ u.style_dirty = s.style_dirty /\ u.injected = s.injected /\ u.cleanup = s.cleanup
            /\ \/ u = s /\ (count = 0 \/ (s.page = p /\ s.injected))
               \/ u.page = p /\ u.pending = TRUE /\ count # 0
        BY <4>1, EnterFields
      <4> QED
        BY <4>2, Zenon
    <3>2. t = u
      BY <2>2
    <3> HIDE DEF u, s
    <3> QED
      BY <3>1, <3>2, Zenon
  <2>3. t = s \/ t = Pages!mr_language_ui_enter(s, p)
    BY DEF t, Pages!Asked
  <2> QED
    BY <2>1, <2>2, <2>3
<1>4. view' = view
  BY <1>1, <1>2
<1>5. deferred = (count # 0 /\ ~Pages!Asked(s, p).injected)
  BY DEF Pages!mr_language_ui_defer_refresh
<1>6. /\ \A j, q : j # k => (<<j, q>> \in mistaken') = (<<j, q>> \in mistaken)
      /\ \A q : <<k, q>> \in mistaken' => <<k, q>> \in mistaken \/ <<k, q>> \in crossed'
  <2>1. mistaken' = mistaken \cup (IF (count = 0 \/ deferred \/ view[k][p] # "made") \/ <<k, p>> \in crossed'
                                   THEN {} ELSE {<<k, p>>})
    BY <1>1, Zenon DEF Pages!Served
  <2>2. <<k, p>> \notin crossed' => count = 0 \/ deferred \/ view[k][p] # "made"
    <3>1. SUFFICES ASSUME <<k, p>> \notin crossed', count # 0, Pages!Asked(s, p).injected PROVE view[k][p] # "made"
      BY <1>5
    <3>2. ~s.cleanup /\ s.page \in {p, "no page"} /\ <<k, p>> \notin crossed
      BY <1>1, <3>1, TurnIsFree, Zenon
    <3>3. s.injected
      BY <1>3, <3>1
    <3> QED
      BY <1>2, <3>2, <3>3, Zenon DEF PageIsNoted, PageIsServed
  <2> HIDE DEF deferred
  <2> QED
    BY <2>1, <2>2
<1> HIDE DEF t, deferred
<1> QED
  BY <1>1, <1>3, <1>4, <1>6, NotedKeeps

(* A kind whose record and pages change otherwise, the others staying.         *)
LEMMA KindKeeps ==
    ASSUME PagesInv, NEW k \in Pages!Kinds, NEW t, NEW w,
           PAGES' = [PAGES EXCEPT ![k] = t], view' = [view EXCEPT ![k] = w],
           DOMAIN t = PageFields, t.page \in PagesOf(k) \cup {"no page"}, t.pending \in BOOLEAN,
           t.injected \in BOOLEAN, t.cleanup \in BOOLEAN, t.style_dirty \in BOOLEAN,
           w \in [PagesOf(k) -> {"absent", "made", "refreshed"}],
           count' = count, frame = "engine", frame' = frame,
           \A j \in Pages!Kinds : j \in gone => j \in gone',
           \A j \in Pages!Kinds : j \in elsewhere => j \in elsewhere',
           \A j \in Pages!Kinds : j # k => language' = language \/ j \in elsewhere',
           \A j \in Pages!Kinds : \A q : j # k => /\ (<<j, q>> \in open') = (<<j, q>> \in open)
                                              /\ (<<j, q>> \in crossed') = (<<j, q>> \in crossed)
                                              /\ (<<j, q>> \in mistaken') = (<<j, q>> \in mistaken),
           PAGES'[k] = t /\ view'[k] = w => PageIsNoted(k)' /\ PageIsServed(k)' /\ FlagsAreNoted(k)'
    PROVE  PagesInv'
<1>1. PAGES'[k] = t /\ \A j \in Pages!Kinds : j # k => PAGES'[j] = PAGES[j]
  BY Zenon DEF PagesInv, PagesTyped
<1>2. view'[k] = w /\ \A j \in Pages!Kinds : j # k => view'[j] = view[j]
  BY Zenon DEF PagesInv, PagesTyped
<1>3. PAGES' = [j \in Pages!Kinds |-> PAGES'[j]] /\ view' = [j \in Pages!Kinds |-> view'[j]]
      /\ count' \in {0, 1}
  BY Zenon DEF PagesInv, PagesTyped
<1>4. ASSUME NEW j \in Pages!Kinds
      PROVE  /\ DOMAIN PAGES'[j] = PageFields
             /\ PAGES'[j].page \in PagesOf(j) \cup {"no page"}
             /\ PAGES'[j].pending \in BOOLEAN /\ PAGES'[j].injected \in BOOLEAN
             /\ PAGES'[j].cleanup \in BOOLEAN /\ PAGES'[j].style_dirty \in BOOLEAN
             /\ view'[j] \in [PagesOf(j) -> {"absent", "made", "refreshed"}]
  <2>1. CASE j = k
    BY <1>1, <1>2, <2>1, Zenon
  <2>2. CASE j # k
    BY <1>1, <1>2, <2>2, Zenon DEF PagesInv, PagesTyped
  <2> QED
    BY <2>1, <2>2, Zenon
<1>5. PagesTyped'
  BY <1>3, <1>4, Zenon DEF PagesTyped
<1>6. ASSUME NEW j \in Pages!Kinds, j # k PROVE PageIsNoted(j)' /\ PageIsServed(j)' /\ FlagsAreNoted(j)'
  BY <1>1, <1>2, <1>6, OtherKindKeeps, Zenon
<1> QED
  BY <1>1, <1>2, <1>5, <1>6, Zenon DEF PagesInv

(* Make: the engine builds a page.                                             *)
LEMMA MakeKeeps ==
    ASSUME PagesInv, NEW k \in Pages!Kinds, NEW p \in PagesOf(k), Pages!Make(k, p)
    PROVE  PagesInv'
<1> DEFINE t == PAGES[k]
           w == [view[k] EXCEPT ![p] = "made"]
<1>1. /\ frame = "engine" /\ frame' = frame /\ count' = count /\ view[k][p] = "absent"
      /\ view' = [view EXCEPT ![k][p] = "made"] /\ PAGES' = PAGES /\ open' = open /\ crossed' = crossed
      /\ language' = language /\ gone' = gone /\ elsewhere' = elsewhere /\ mistaken' = mistaken
  BY DEF Pages!Make, Pages!InEngine, Pages!Exists
<1>2. /\ DOMAIN t = PageFields /\ t.page \in PagesOf(k) \cup {"no page"} /\ t.pending \in BOOLEAN
      /\ t.injected \in BOOLEAN /\ t.cleanup \in BOOLEAN /\ t.style_dirty \in BOOLEAN
      /\ PAGES = [j \in Pages!Kinds |-> PAGES[j]] /\ view = [j \in Pages!Kinds |-> view[j]]
      /\ view[k] \in [PagesOf(k) -> {"absent", "made", "refreshed"}]
      /\ PageIsNoted(k) /\ PageIsServed(k) /\ FlagsAreNoted(k)
  BY Zenon DEF PagesInv, PagesTyped
<1>3. PAGES' = [PAGES EXCEPT ![k] = t] /\ view' = [view EXCEPT ![k] = w]
      /\ w \in [PagesOf(k) -> {"absent", "made", "refreshed"}]
  BY <1>1, <1>2, Zenon
<1>4. w[p] = "made" /\ \A q \in PagesOf(k) : q # p => w[q] = view[k][q]
  BY <1>2, Zenon
<1> HIDE DEF w
<1>5. ASSUME PAGES'[k] = t, view'[k] = w PROVE PageIsNoted(k)' /\ PageIsServed(k)' /\ FlagsAreNoted(k)'
  <2>1. PageIsNoted(k)'
    BY <1>1, <1>2, <1>4, <1>5, Zenon DEF PageIsNoted
  <2>2. PageIsServed(k)'
    <3>1. ~(<<k, p>> \notin crossed /\ t.page = p /\ t.injected /\ ~t.cleanup)
      BY <1>1, <1>2, PagesAssumption, Zenon DEF PageIsNoted, Pages!NoPage
    <3> QED
      BY <1>1, <1>2, <1>4, <1>5, <3>1, Zenon DEF PageIsServed
  <2>3. FlagsAreNoted(k)'
    BY <1>1, <1>2, <1>5, Zenon DEF FlagsAreNoted
  <2> QED
    BY <2>1, <2>2, <2>3
<1> HIDE DEF t
<1> QED
  BY <1>1, <1>2, <1>3, <1>5, KindKeeps, Zenon

(* A page is destroyed.                                                     *)
LEMMA DestroyFields ==
    ASSUME NEW s, DOMAIN s = PageFields, NEW p,
           NEW t, t = Pages!mr_language_ui_leave(s, p, TRUE)
    PROVE  /\ DOMAIN t = PageFields /\ t.buttons = s.buttons /\ t.style = s.style
           /\ t.style_dirty = s.style_dirty /\ t.injected = s.injected /\ t.page = s.page
           /\ s.page # p => t = s
           /\ s.page = p => t.pending = FALSE
           /\ s.page = p => t.cleanup = TRUE
<1>1. CASE s.page # p
  BY <1>1 DEF Pages!mr_language_ui_leave
<1>2. CASE s.page = p
  <2>1. t = [s EXCEPT !.pending = FALSE, !.cleanup = TRUE]
    BY <1>2 DEF Pages!mr_language_ui_leave
  <2> QED
    BY <1>2, <2>1 DEF PageFields
<1> QED
  BY <1>1, <1>2

(* Leave: the settings page stays, its buttons are no longer waited for.       *)
LEMMA LeaveKeeps ==
    ASSUME PagesInv, NEW p \in PagesOf("OPTIONS"), Pages!Leave(p)
    PROVE  PagesInv'
<1> DEFINE k == "OPTIONS"
           s == PAGES[k]
           t == Pages!mr_language_ui_leave(s, p, FALSE)
<1>1. /\ frame = "engine" /\ frame' = frame /\ count' = count /\ view[k][p] # "absent"
      /\ PAGES' = [PAGES EXCEPT ![k] = t] /\ view' = view /\ crossed' = crossed
      /\ open' = open \ {<<k, p>>}
      /\ language' = language /\ gone' = gone /\ elsewhere' = elsewhere /\ mistaken' = mistaken
  BY DEF Pages!Leave, Pages!InEngine, Pages!Exists, Pages!Noted
<1>a. k \in Pages!Kinds
  BY DEF Pages!Kinds
<1> HIDE DEF k
<1>2. /\ DOMAIN s = PageFields /\ s.page \in PagesOf(k) \cup {"no page"} /\ s.pending \in BOOLEAN
      /\ s.injected \in BOOLEAN /\ s.cleanup \in BOOLEAN /\ s.style_dirty \in BOOLEAN
      /\ view = [j \in Pages!Kinds |-> view[j]] /\ view[k] \in [PagesOf(k) -> {"absent", "made", "refreshed"}]
      /\ PageIsNoted(k) /\ PageIsServed(k) /\ FlagsAreNoted(k)
  BY <1>a, Zenon DEF PagesInv, PagesTyped
<1>3. /\ DOMAIN t = PageFields /\ t.buttons = s.buttons /\ t.style = s.style
      /\ t.style_dirty = s.style_dirty /\ t.injected = s.injected /\ t.page = s.page
      /\ s.page # p => t = s
      /\ s.page = p => t.pending = FALSE /\ t.cleanup = s.cleanup
  <2>1. DOMAIN s = PageFields /\ s.cleanup \in BOOLEAN
    BY <1>2, Zenon
  <2>2. CASE s.page # p
    BY <2>1, <2>2 DEF Pages!mr_language_ui_leave
  <2>3. CASE s.page = p
    <3>1. t = [s EXCEPT !.pending = FALSE, !.cleanup = s.cleanup \/ FALSE]
      BY <2>3 DEF Pages!mr_language_ui_leave
    <3> HIDE DEF t, s
    <3> QED
      BY <2>1, <2>3, <3>1 DEF PageFields
  <2> QED
    BY <2>2, <2>3
<1> HIDE DEF t
<1>4. t.pending \in BOOLEAN /\ t.cleanup \in BOOLEAN /\ t.cleanup = s.cleanup
  BY <1>2, <1>3, Zenon
<1>5. view' = [view EXCEPT ![k] = view[k]]
  BY <1>1, <1>2, Zenon
<1>6. ASSUME PAGES'[k] = t, view'[k] = view[k] PROVE PageIsNoted(k)' /\ PageIsServed(k)' /\ FlagsAreNoted(k)'
  <2>1. PageIsNoted(k)'
    BY <1>1, <1>2, <1>3, <1>4, <1>6, Zenon DEF PageIsNoted
  <2>2. PageIsServed(k)'
    <3>1. ASSUME NEW q \in PagesOf(k), <<k, q>> \in open', <<k, q>> \notin crossed, count # 0
          PROVE  t.page = q /\ ~t.cleanup /\ (t.pending \/ t.injected)
      <4>1. q # p /\ <<k, q>> \in open
        BY <1>1, <3>1
      <4> QED
        BY <1>2, <1>3, <1>4, <3>1, <4>1, Zenon DEF PageIsServed
    <3> SUFFICES ASSUME NEW q \in PagesOf(k)
                 PROVE  /\ <<k, q>> \in open' => view[k][q] # "absent"
                        /\ <<k, q>> \notin crossed =>
                           /\ <<k, q>> \notin mistaken
                           /\ count # 0 /\ <<k, q>> \in open' => t.page = q /\ ~t.cleanup /\ (t.pending \/ t.injected)
                           /\ view[k][q] = "refreshed" => t.page = q /\ t.injected /\ ~t.cleanup /\ t.buttons = <<q>>
                           /\ t.page = q /\ t.injected /\ ~t.cleanup => view[k][q] = "refreshed"
      BY <1>1, <1>6 DEF PageIsServed
    <3>2. <<k, q>> \in open' => <<k, q>> \in open
      BY <1>1
    <3> QED
      BY <1>2, <1>3, <1>4, <3>1, <3>2, Zenon DEF PageIsServed
  <2>3. FlagsAreNoted(k)'
    BY <1>1, <1>2, <1>3, <1>4, <1>6, Zenon DEF FlagsAreNoted
  <2> QED
    BY <2>1, <2>2, <2>3
<1>7. \A j \in Pages!Kinds : \A q : j # k => /\ (<<j, q>> \in open') = (<<j, q>> \in open)
                                         /\ (<<j, q>> \in crossed') = (<<j, q>> \in crossed)
                                         /\ (<<j, q>> \in mistaken') = (<<j, q>> \in mistaken)
  BY <1>1
<1>8. /\ t.page \in PagesOf(k) \cup {"no page"} /\ t.injected \in BOOLEAN /\ t.style_dirty \in BOOLEAN
      /\ view[k] \in [PagesOf(k) -> {"absent", "made", "refreshed"}]
  BY <1>2, <1>3, Zenon
<1> QED
  BY <1>a, <1>1, <1>3, <1>4, <1>5, <1>6, <1>7, <1>8, KindKeeps, Zenon

(* Destroy: the buttons of a noted page are to be deleted.                     *)
LEMMA DestroyKeeps ==
    ASSUME PagesInv, NEW k \in Pages!Kinds, NEW p \in PagesOf(k), Pages!Destroy(k, p)
    PROVE  PagesInv'
<1> DEFINE s == PAGES[k]
           t == Pages!mr_language_ui_leave(s, p, TRUE)
           w == [view[k] EXCEPT ![p] = "absent"]
<1>1. /\ frame = "engine" /\ frame' = frame /\ count' = count /\ view[k][p] # "absent"
      /\ PAGES' = [PAGES EXCEPT ![k] = t] /\ view' = [view EXCEPT ![k][p] = "absent"]
      /\ crossed' = crossed \ {<<k, p>>} /\ open' = open \ {<<k, p>>} /\ mistaken' = mistaken \ {<<k, p>>}
      /\ language' = language /\ gone' = gone \cup {k} /\ elsewhere' = elsewhere
  BY DEF Pages!Destroy, Pages!InEngine, Pages!Exists, Pages!Noted
<1>2. /\ DOMAIN s = PageFields /\ s.page \in PagesOf(k) \cup {"no page"} /\ s.pending \in BOOLEAN
      /\ s.injected \in BOOLEAN /\ s.cleanup \in BOOLEAN /\ s.style_dirty \in BOOLEAN
      /\ view = [j \in Pages!Kinds |-> view[j]] /\ view[k] \in [PagesOf(k) -> {"absent", "made", "refreshed"}]
      /\ PageIsNoted(k) /\ PageIsServed(k) /\ FlagsAreNoted(k)
  BY Zenon DEF PagesInv, PagesTyped
<1>3. /\ DOMAIN t = PageFields /\ t.buttons = s.buttons /\ t.style = s.style
      /\ t.style_dirty = s.style_dirty /\ t.injected = s.injected /\ t.page = s.page
      /\ s.page # p => t = s
      /\ s.page = p => t.pending = FALSE /\ t.cleanup = TRUE
  <2>1. DOMAIN s = PageFields /\ s.cleanup \in BOOLEAN
    BY <1>2, Zenon
  <2> HIDE DEF s
  <2>2. /\ DOMAIN t = PageFields /\ t.buttons = s.buttons /\ t.style = s.style
        /\ t.style_dirty = s.style_dirty /\ t.injected = s.injected /\ t.page = s.page
        /\ s.page # p => t = s
        /\ s.page = p => t.pending = FALSE
        /\ s.page = p => t.cleanup = TRUE
    BY <2>1, DestroyFields, Zenon
  <2> QED
    BY <2>1, <2>2
<1> HIDE DEF t
<1>4. t.pending \in BOOLEAN /\ t.cleanup \in BOOLEAN
  BY <1>2, <1>3, Zenon
<1>5. /\ view' = [view EXCEPT ![k] = w] /\ w \in [PagesOf(k) -> {"absent", "made", "refreshed"}]
      /\ w[p] = "absent" /\ \A q \in PagesOf(k) : q # p => w[q] = view[k][q]
  BY <1>1, <1>2, Zenon
<1> HIDE DEF w
<1>6. ASSUME PAGES'[k] = t, view'[k] = w PROVE PageIsNoted(k)' /\ PageIsServed(k)' /\ FlagsAreNoted(k)'
  <2>1. PageIsNoted(k)'
    <3>1. k \in gone'
      BY <1>1
    <3> QED
      BY <1>2, <1>3, <1>4, <1>5, <1>6, <3>1, Zenon DEF PageIsNoted
  <2>2. PageIsServed(k)'
    <3> SUFFICES ASSUME NEW q \in PagesOf(k)
                 PROVE  /\ <<k, q>> \in open' => w[q] # "absent"
                        /\ <<k, q>> \notin crossed' =>
                           /\ <<k, q>> \notin mistaken'
                           /\ count # 0 /\ <<k, q>> \in open' => t.page = q /\ ~t.cleanup /\ (t.pending \/ t.injected)
                           /\ w[q] = "refreshed" => t.page = q /\ t.injected /\ ~t.cleanup /\ t.buttons = <<q>>
                           /\ t.page = q /\ t.injected /\ ~t.cleanup => w[q] = "refreshed"
      BY <1>1, <1>6 DEF PageIsServed
    <3>1. CASE q = p
      <4>1. <<k, q>> \notin open' /\ <<k, q>> \notin mistaken'
        BY <1>1, <3>1
      <4> QED
        BY <1>3, <1>5, <3>1, <4>1
    <3>2. CASE q # p
      <4>1. <<k, q>> # <<k, p>>
        BY <3>2
      <4>2. /\ (<<k, q>> \in open') = (<<k, q>> \in open) /\ (<<k, q>> \in crossed') = (<<k, q>> \in crossed)
            /\ (<<k, q>> \in mistaken') = (<<k, q>> \in mistaken) /\ w[q] = view[k][q]
        BY <1>1, <1>5, <3>2, <4>1
      <4>3. CASE t = s
        BY <1>2, <4>2, <4>3, Zenon DEF PageIsServed
      <4>4. CASE s.page = p
        BY <1>2, <1>3, <3>2, <4>2, <4>4, Zenon DEF PageIsServed
      <4> QED
        BY <1>3, <4>3, <4>4
    <3> QED
      BY <3>1, <3>2
  <2>3. FlagsAreNoted(k)'
    BY <1>1, <1>2, <1>3, <1>4, <1>6, Zenon DEF FlagsAreNoted
  <2> QED
    BY <2>1, <2>2, <2>3
<1>7. \A j \in Pages!Kinds : \A q : j # k => /\ (<<j, q>> \in open') = (<<j, q>> \in open)
                                         /\ (<<j, q>> \in crossed') = (<<j, q>> \in crossed)
                                         /\ (<<j, q>> \in mistaken') = (<<j, q>> \in mistaken)
  BY <1>1
<1>8. \A j \in Pages!Kinds : j \in gone => j \in gone'
  BY <1>1
<1>9. /\ t.page \in PagesOf(k) \cup {"no page"} /\ t.injected \in BOOLEAN /\ t.style_dirty \in BOOLEAN
  BY <1>2, <1>3, Zenon
<1> QED
  BY <1>1, <1>3, <1>4, <1>5, <1>6, <1>7, <1>8, <1>9, KindKeeps, Zenon

(* A button of a page that was served chooses its language.                    *)
LEMMA PressChooses ==
    ASSUME PagesInv, NEW k \in Pages!Kinds, NEW p \in PagesOf(k), NEW l, <<k, p>> \notin crossed,
           view[k][p] # "absent", l = "original" \/ view[k][p] # "made"
    PROVE  Pages!mr_language_ui_selection(PAGES[k], p, l) = l
<1>1. CASE l = "original"
  BY <1>1 DEF Pages!mr_language_ui_selection, Pages!ORIGINAL
<1>2. CASE l # "original"
  <2>1. view[k][p] = "refreshed"
    BY <1>2, Zenon DEF PagesInv, PagesTyped
  <2>2. PageIsServed(k)
    BY DEF PagesInv
  <2>3. PAGES[k].page = p /\ PAGES[k].buttons = <<p>>
    BY <2>1, <2>2 DEF PageIsServed
  <2>4. p \in Pages!ToSet(<<p>>)
    BY DEF Pages!ToSet
  <2> QED
    BY <2>3, <2>4, Zenon DEF Pages!mr_language_ui_selection
<1> QED
  BY <1>1, <1>2

(* Press: the language of the button, and the flags noted to be drawn anew.    *)
LEMMA PressKeeps ==
    ASSUME PagesInv, NEW k \in Pages!Kinds, NEW p \in PagesOf(k), NEW l, Pages!Press(k, p, l)
    PROVE  PagesInv'
<1> DEFINE s == PAGES[k]
           t == [s EXCEPT !.style_dirty = s.style_dirty \/ s.page = p]
           selected == Pages!mr_language_ui_selection(s, p, l)
<1>1. /\ frame = "engine" /\ frame' = frame /\ count' = count /\ view[k][p] # "absent"
      /\ l = "original" \/ view[k][p] # "made"
      /\ PAGES' = [PAGES EXCEPT ![k] = t] /\ view' = view /\ crossed' = crossed /\ open' = open
      /\ language' = selected /\ gone' = gone
      /\ Pages!Served(k, p, selected = l)
      /\ elsewhere' = IF selected = language THEN elsewhere
                      ELSE elsewhere \cup {q \in Pages!Kinds : q # k \/ s.page # p}
  BY DEF Pages!Press, Pages!InEngine, Pages!Exists, Pages!Noted, Pages!ORIGINAL
<1>2. /\ DOMAIN s = PageFields /\ s.page \in PagesOf(k) \cup {"no page"} /\ s.pending \in BOOLEAN
      /\ s.injected \in BOOLEAN /\ s.cleanup \in BOOLEAN /\ s.style_dirty \in BOOLEAN
      /\ view = [j \in Pages!Kinds |-> view[j]] /\ view[k] \in [PagesOf(k) -> {"absent", "made", "refreshed"}]
  BY Zenon DEF PagesInv, PagesTyped
<1>3. PageIsNoted(k) /\ PageIsServed(k) /\ FlagsAreNoted(k)
  BY DEF PagesInv
<1>4. /\ DOMAIN t = PageFields /\ t.buttons = s.buttons /\ t.style = s.style /\ t.page = s.page
      /\ t.pending = s.pending /\ t.injected = s.injected /\ t.cleanup = s.cleanup
      /\ t.style_dirty \in BOOLEAN /\ (t.style_dirty <=> (s.style_dirty \/ s.page = p))
  BY <1>2, Zenon DEF PageFields
<1>5. /\ \A j, q : <<j, q>> # <<k, p>> => (<<j, q>> \in mistaken') = (<<j, q>> \in mistaken)
      /\ <<k, p>> \notin crossed => mistaken' = mistaken
  <2>1. mistaken' = mistaken \cup (IF selected = l \/ <<k, p>> \in crossed' THEN {} ELSE {<<k, p>>})
    BY <1>1, Zenon DEF Pages!Served
  <2>2. <<k, p>> \notin crossed => selected = l
    BY <1>1, PressChooses
  <2> HIDE DEF selected
  <2> QED
    BY <1>1, <2>1, <2>2
<1> HIDE DEF t
<1>6. ASSUME PAGES'[k] = t, view'[k] = view[k] PROVE PageIsNoted(k)' /\ PageIsServed(k)' /\ FlagsAreNoted(k)'
  <2>1. PageIsNoted(k)'
    BY <1>1, <1>3, <1>4, <1>6, Zenon DEF PageIsNoted
  <2>2. PageIsServed(k)'
    <3> SUFFICES ASSUME NEW q \in PagesOf(k)
                 PROVE  /\ <<k, q>> \in open => view[k][q] # "absent"
                        /\ <<k, q>> \notin crossed =>
                           /\ <<k, q>> \notin mistaken'
                           /\ count # 0 /\ <<k, q>> \in open => t.page = q /\ ~t.cleanup /\ (t.pending \/ t.injected)
                           /\ view[k][q] = "refreshed" => t.page = q /\ t.injected /\ ~t.cleanup /\ t.buttons = <<q>>
                           /\ t.page = q /\ t.injected /\ ~t.cleanup => view[k][q] = "refreshed"
      BY <1>1, <1>6 DEF PageIsServed
    <3>1. <<k, q>> \notin crossed => (<<k, q>> \in mistaken') = (<<k, q>> \in mistaken)
      BY <1>5
    <3> QED
      BY <1>3, <1>4, <3>1 DEF PageIsServed
  <2>3. FlagsAreNoted(k)'
    <3> HIDE DEF selected
    <3> QED
      BY <1>1, <1>3, <1>4, <1>6 DEF FlagsAreNoted
  <2> QED
    BY <2>1, <2>2, <2>3
<1>7. \A j \in Pages!Kinds : \A q : j # k => /\ (<<j, q>> \in open') = (<<j, q>> \in open)
                                         /\ (<<j, q>> \in crossed') = (<<j, q>> \in crossed)
                                         /\ (<<j, q>> \in mistaken') = (<<j, q>> \in mistaken)
  BY <1>1, <1>5
<1>8. /\ \A j \in Pages!Kinds : j \in gone => j \in gone'
      /\ \A j \in Pages!Kinds : j \in elsewhere => j \in elsewhere'
      /\ \A j \in Pages!Kinds : j # k => language' = language \/ j \in elsewhere'
  <2> HIDE DEF selected
  <2> QED
    BY <1>1
<1>9. view' = [view EXCEPT ![k] = view[k]]
  BY <1>1, <1>2, Zenon
<1>10. t.page \in PagesOf(k) \cup {"no page"} /\ t.pending \in BOOLEAN /\ t.injected \in BOOLEAN /\ t.cleanup \in BOOLEAN
      /\ view[k] \in [PagesOf(k) -> {"absent", "made", "refreshed"}] /\ DOMAIN t = PageFields /\ t.style_dirty \in BOOLEAN
  BY <1>2, <1>4, Zenon
<1>11. PAGES' = [PAGES EXCEPT ![k] = t] /\ frame = "engine" /\ frame' = frame /\ count' = count
  BY <1>1
<1> QED
  BY <1>6, <1>7, <1>8, <1>9, <1>10, <1>11, KindKeeps, Zenon

(* The next frame: on macOS the menu may have changed the language.            *)
LEMMA NextFrameKeeps == ASSUME PagesInv, Pages!NextFrame PROVE PagesInv'
<1>1. /\ frame = "between" /\ frame' = "engine" /\ PAGES' = PAGES /\ count' = count /\ view' = view
      /\ gone' = gone /\ open' = open /\ crossed' = crossed /\ mistaken' = mistaken
      /\ elsewhere' = IF language' = language THEN elsewhere ELSE Pages!Kinds
  BY DEF Pages!NextFrame
<1>2. PagesTyped'
  BY <1>1, Zenon DEF PagesInv, PagesTyped
<1>3. ASSUME NEW k \in Pages!Kinds PROVE PageIsNoted(k)' /\ PageIsServed(k)' /\ FlagsAreNoted(k)'
  <2>1. PageIsNoted(k) /\ PageIsServed(k) /\ FlagsAreNoted(k)
    BY DEF PagesInv
  <2>2. PageIsNoted(k)'
    BY <1>1, <2>1, Zenon DEF PageIsNoted
  <2>3. PageIsServed(k)'
    BY <1>1, <2>1 DEF PageIsServed
  <2>4. FlagsAreNoted(k)'
    BY <1>1, <2>1 DEF FlagsAreNoted
  <2> QED
    BY <2>2, <2>3, <2>4
<1> QED
  BY <1>2, <1>3 DEF PagesInv

(* The deferred changes of one kind, at the end of a frame: its buttons are    *)
(* deleted, or made for the page that waits, or its flags drawn anew.          *)
PageApplied(k, u, t, w) ==
    /\ DOMAIN t = PageFields /\ w \in [PagesOf(k) -> {"absent", "made", "refreshed"}]
    /\ PAGES[k].cleanup =>
          /\ t.page = "no page" /\ t.buttons = <<>> /\ t.pending = FALSE /\ t.injected = FALSE
          /\ t.cleanup = FALSE /\ t.style_dirty = FALSE /\ ~Pages!WillInject(u)
          /\ \A p \in PagesOf(k) : w[p] = view[k][p] \/ (w[p] = "made" /\ view[k][p] # "absent")
    /\ ~PAGES[k].cleanup /\ PAGES[k].pending /\ ~PAGES[k].injected =>
          /\ t.page = PAGES[k].page /\ t.buttons = <<PAGES[k].page>> /\ t.pending = FALSE
          /\ t.injected = TRUE /\ t.cleanup = FALSE /\ t.style_dirty = PAGES[k].style_dirty
          /\ t.style = language /\ u.page = PAGES[k].page
          /\ \A p \in PagesOf(k) : w[p] = IF p = PAGES[k].page THEN "refreshed" ELSE view[k][p]
    /\ ~PAGES[k].cleanup /\ ~(PAGES[k].pending /\ ~PAGES[k].injected) =>
          /\ t.page = PAGES[k].page /\ t.buttons = PAGES[k].buttons /\ t.pending = PAGES[k].pending
          /\ t.injected = PAGES[k].injected /\ t.cleanup = FALSE
          /\ t.style_dirty = FALSE \/ t.style_dirty = PAGES[k].style_dirty
          /\ t.injected => t.style = language \/ (t = PAGES[k] /\ PAGES[k].style_dirty = FALSE)
          /\ ~Pages!WillInject(u) /\ w = view[k]

(* The end of a frame does just that to each kind.                             *)
LEMMA ApplyFields ==
    ASSUME PagesInv, NEW k \in Pages!Kinds,
           NEW u, u = Pages!update_flag_styles(Pages!destroy_objects(PAGES[k])),
           NEW t, t = Pages!inject_page(u), NEW w, w = Pages!Seen(k)
    PROVE  PageApplied(k, u, t, w)
<1> DEFINE s == PAGES[k]
<1>1. /\ DOMAIN s = PageFields /\ s.pending \in BOOLEAN
      /\ s.injected \in BOOLEAN /\ s.cleanup \in BOOLEAN /\ s.style_dirty \in BOOLEAN
      /\ view[k] \in [PagesOf(k) -> {"absent", "made", "refreshed"}]
  BY Zenon DEF PagesInv, PagesTyped
<1>2. ~s.injected => s.buttons = <<>>
  BY Zenon DEF PagesInv, PageIsNoted
<1>3. w = [p \in PagesOf(k) |->
             IF Pages!WillInject(u) /\ u.page = p
             THEN IF Pages!mr_language_ui_defer_refresh(Pages!inject_page(u), p) THEN "buttons" ELSE "refreshed"
             ELSE IF s.cleanup /\ p \in Pages!ToSet(s.buttons) /\ view[k][p] # "absent" THEN "made"
             ELSE view[k][p]]
  BY Zenon DEF Pages!Seen, Pages!Exists
<1>4. CASE s.cleanup
  <2> DEFINE c == Pages!Cleared
  <2>1. /\ DOMAIN c = PageFields /\ c.page = "no page" /\ c.buttons = <<>> /\ c.pending = FALSE
        /\ c.injected = FALSE /\ c.cleanup = FALSE /\ c.style_dirty = FALSE
    BY DEF Pages!Cleared, Pages!NoPage, PageFields
  <2>2. Pages!destroy_objects(s) = c
    BY <1>4 DEF Pages!destroy_objects
  <2> HIDE DEF c
  <2>3. u = c
    BY <2>1, <2>2, Zenon DEF Pages!update_flag_styles
  <2>4. ~Pages!WillInject(u)
    BY <2>1, <2>3, Zenon DEF Pages!WillInject
  <2>5. t = c
    BY <2>3, <2>4 DEF Pages!inject_page
  <2>6. /\ w \in [PagesOf(k) -> {"absent", "made", "refreshed"}]
        /\ \A p \in PagesOf(k) : w[p] = view[k][p] \/ (w[p] = "made" /\ view[k][p] # "absent")
    BY <1>1, <1>3, <2>4
  <2> QED
    BY <1>4, <2>1, <2>4, <2>5, <2>6, Zenon DEF PageApplied
<1>5. CASE ~s.cleanup /\ s.pending /\ ~s.injected
  <2>1. Pages!destroy_objects(s) = s
    BY <1>5 DEF Pages!destroy_objects
  <2>2. u = s
    BY <1>5, <2>1 DEF Pages!update_flag_styles
  <2>3. Pages!WillInject(u)
    BY <1>5, <2>2 DEF Pages!WillInject
  <2>4. t = [Pages!create_button(s) EXCEPT !.pending = FALSE, !.injected = TRUE]
    BY <2>2, <2>3 DEF Pages!inject_page
  <2>5. Pages!create_button(s) = [[s EXCEPT !.style = language] EXCEPT !.buttons = Append(s.buttons, s.page)]
    <3>1. [s EXCEPT !.style = language].buttons = s.buttons
      BY <1>1 DEF PageFields
    <3> QED
      BY <3>1 DEF Pages!create_button, Pages!create_flag
  <2>6. Append(s.buttons, s.page) = <<s.page>>
    <3>1. s.buttons = <<>>
      BY <1>2, <1>5
    <3>2. \A q : Append(<<>>, q) = <<q>>
      BY ShortSequences
    <3> QED
      BY <3>1, <3>2, Zenon
  <2>7. /\ DOMAIN t = PageFields /\ t.page = s.page /\ t.buttons = <<s.page>> /\ t.pending = FALSE
        /\ t.injected = TRUE /\ t.cleanup = s.cleanup /\ t.style_dirty = s.style_dirty /\ t.style = language
    BY <1>1, <2>4, <2>5, <2>6 DEF PageFields
  <2>8. ~Pages!mr_language_ui_defer_refresh(t, s.page)
    BY <2>7 DEF Pages!mr_language_ui_defer_refresh, Pages!Asked
  <2>9. \A p \in PagesOf(k) : w[p] = IF p = s.page THEN "refreshed" ELSE view[k][p]
    BY <1>3, <1>5, <2>2, <2>3, <2>8
  <2>10. w \in [PagesOf(k) -> {"absent", "made", "refreshed"}]
    BY <1>1, <1>3, <2>9
  <2>11. t.cleanup = FALSE /\ u.page = s.page
    BY <1>1, <1>5, <2>2, <2>7
  <2> QED
    BY <1>5, <2>7, <2>9, <2>10, <2>11 DEF PageApplied
<1>6. CASE ~s.cleanup /\ ~(s.pending /\ ~s.injected)
  <2>1. Pages!destroy_objects(s) = s
    BY <1>6 DEF Pages!destroy_objects
  <2>2. \/ u = s /\ ~(s.injected /\ s.style_dirty)
        \/ u = [[s EXCEPT !.style = language] EXCEPT !.style_dirty = FALSE]
    BY <2>1, Zenon DEF Pages!update_flag_styles, Pages!create_flag
  <2>3. /\ DOMAIN u = PageFields /\ u.page = s.page /\ u.buttons = s.buttons /\ u.pending = s.pending
        /\ u.injected = s.injected /\ u.cleanup = s.cleanup
        /\ \/ u = s /\ ~(s.injected /\ s.style_dirty)
           \/ u.style = language /\ u.style_dirty = FALSE
    BY <1>1, <2>2 DEF PageFields
  <2>4. ~Pages!WillInject(u)
    BY <1>6, <2>3 DEF Pages!WillInject
  <2>5. t = u
    BY <2>4 DEF Pages!inject_page
  <2>6. w = view[k]
    BY <1>1, <1>3, <1>6, <2>4
  <2>7. t.cleanup = FALSE
    BY <1>1, <1>6, <2>3, <2>5
  <2>8. /\ t.style_dirty = FALSE \/ t.style_dirty = s.style_dirty
        /\ t.style = language \/ t = s
    BY <2>3, <2>5
  <2>9. t.injected => t.style = language \/ (t = s /\ s.style_dirty = FALSE)
    <3>1. CASE u = s /\ ~(s.injected /\ s.style_dirty)
      <4>1. t = s /\ (s.injected => s.style_dirty = FALSE)
        BY <1>1, <2>5, <3>1, Zenon
      <4> QED
        BY <4>1, Zenon
    <3>2. CASE u.style = language
      BY <2>5, <3>2, Zenon
    <3> QED
      BY <2>3, <3>1, <3>2, Zenon
  <2> QED
    BY <1>1, <1>6, <2>3, <2>4, <2>5, <2>6, <2>7, <2>8, <2>9, Zenon DEF PageApplied
<1> QED
  BY <1>1, <1>4, <1>5, <1>6, Zenon DEF PageApplied

(* The end of a frame: every page in use has its buttons.                      *)
LEMMA ApplyKeeps == ASSUME PagesInv, Pages!mr_language_ui_apply PROVE PagesInv'
<1> DEFINE U(k) == Pages!update_flag_styles(Pages!destroy_objects(PAGES[k]))
<1>1. /\ frame = "engine" /\ frame' \in {"between", "ended"} /\ gone' = {}
      /\ count' = count /\ language' = language /\ open' = open /\ crossed' = crossed
      /\ elsewhere' = {k \in elsewhere : PAGES'[k] = PAGES[k]}
      /\ PAGES' = [k \in Pages!Kinds |-> Pages!inject_page([j \in Pages!Kinds |-> U(j)][k])]
      /\ view' = [k \in Pages!Kinds |-> Pages!Seen(k)]
      /\ mistaken' = mistaken \cup {<<k, [j \in Pages!Kinds |-> U(j)][k].page>> : k \in {k \in Pages!Kinds :
                        /\ Pages!WillInject([j \in Pages!Kinds |-> U(j)][k])
                        /\ ~Pages!Exists(k, [j \in Pages!Kinds |-> U(j)][k].page)}}
  BY DEF Pages!mr_language_ui_apply
<1>2. ASSUME NEW k \in Pages!Kinds
      PROVE  PAGES'[k] = Pages!inject_page(U(k)) /\ view'[k] = Pages!Seen(k)
  BY <1>1, Zenon
<1>3. ASSUME NEW k \in Pages!Kinds
      PROVE  PageApplied(k, U(k), PAGES'[k], view'[k])
  <2>1. PAGES'[k] = Pages!inject_page(U(k)) /\ view'[k] = Pages!Seen(k)
    BY <1>2
  <2>2. U(k) = Pages!update_flag_styles(Pages!destroy_objects(PAGES[k]))
    OBVIOUS
  <2> QED
    BY <2>1, <2>2, ApplyFields
<1>4. ASSUME NEW k \in Pages!Kinds
      PROVE  /\ PAGES[k].page \in PagesOf(k) \cup {"no page"} /\ PAGES[k].pending \in BOOLEAN
             /\ PAGES[k].injected \in BOOLEAN /\ PAGES[k].cleanup \in BOOLEAN /\ PAGES[k].style_dirty \in BOOLEAN
             /\ view[k] \in [PagesOf(k) -> {"absent", "made", "refreshed"}]
  BY Zenon DEF PagesInv, PagesTyped
<1>5. ASSUME NEW k \in Pages!Kinds
      PROVE  PageIsNoted(k) /\ PageIsServed(k) /\ FlagsAreNoted(k)
  BY DEF PagesInv
<1>6. mistaken' = mistaken
  <2>1. SUFFICES ASSUME NEW k \in Pages!Kinds, Pages!WillInject(U(k)) PROVE Pages!Exists(k, U(k).page)
    BY <1>1, Zenon
  <2>2. ~PAGES[k].cleanup /\ PAGES[k].pending /\ ~PAGES[k].injected
    BY <1>3, <2>1, Zenon DEF PageApplied
  <2>3. U(k).page = PAGES[k].page
    BY <1>3, <2>2, Zenon DEF PageApplied
  <2>4. PAGES[k].page # "no page"
    BY <1>5, <2>2, Zenon DEF PageIsNoted
  <2>5. view[k][PAGES[k].page] # "absent"
    BY <1>5, <2>2, <2>4, Zenon DEF PageIsNoted
  <2> QED
    BY <2>3, <2>5, Zenon DEF Pages!Exists
<1> HIDE DEF U
<1>7. PagesTyped'
  <2>1. ASSUME NEW k \in Pages!Kinds
        PROVE  /\ DOMAIN PAGES'[k] = PageFields
               /\ PAGES'[k].page \in PagesOf(k) \cup {"no page"}
               /\ PAGES'[k].pending \in BOOLEAN /\ PAGES'[k].injected \in BOOLEAN
               /\ PAGES'[k].cleanup \in BOOLEAN /\ PAGES'[k].style_dirty \in BOOLEAN
               /\ view'[k] \in [PagesOf(k) -> {"absent", "made", "refreshed"}]
    BY <1>3, <1>4, Zenon DEF PageApplied
  <2>2. PAGES' = [k \in Pages!Kinds |-> PAGES'[k]] /\ view' = [k \in Pages!Kinds |-> view'[k]] /\ count' \in {0, 1}
    BY <1>1, Zenon DEF PagesInv, PagesTyped
  <2> QED
    BY <2>1, <2>2, Zenon DEF PagesTyped
<1>8. ASSUME NEW k \in Pages!Kinds PROVE PageIsNoted(k)'
  <2>1. CASE PAGES[k].cleanup
    BY <1>3, <2>1, Zenon DEF PageApplied, PageIsNoted
  <2>2. CASE ~PAGES[k].cleanup /\ PAGES[k].pending /\ ~PAGES[k].injected
    <3>1. PAGES[k].page # "no page"
      BY <1>5, <2>2, Zenon DEF PageIsNoted
    <3>2. view'[k][PAGES[k].page] = "refreshed"
      BY <1>3, <1>4, <2>2, <3>1, Zenon DEF PageApplied
    <3> QED
      BY <1>3, <2>2, <3>1, <3>2, Zenon DEF PageApplied, PageIsNoted
  <2>3. CASE ~PAGES[k].cleanup /\ ~(PAGES[k].pending /\ ~PAGES[k].injected)
    <3> DEFINE s == PAGES[k]
               t == PAGES'[k]
    <3>1. /\ t.page = s.page /\ t.buttons = s.buttons /\ t.pending = s.pending /\ t.injected = s.injected
          /\ t.cleanup = FALSE /\ view'[k] = view[k]
      BY <1>3, <2>3, Zenon DEF PageApplied
    <3>2. /\ s.page = "no page" => ~s.pending /\ ~s.injected
          /\ s.page # "no page" => view[k][s.page] # "absent"
          /\ ~s.injected => s.buttons = <<>>
          /\ s.injected => \E q : s.buttons = <<q>>
      BY <1>5, <2>3, Zenon DEF PageIsNoted
    <3>3. /\ t.page = "no page" => ~t.pending /\ ~t.injected
          /\ t.page # "no page" => view'[k][t.page] # "absent"
          /\ ~t.injected => t.buttons = <<>>
          /\ t.injected => \E q : t.buttons = <<q>>
      <4> HIDE DEF s, t
      <4> QED
        BY <3>1, <3>2
    <3> QED
      BY <3>1, <3>3, Zenon DEF PageIsNoted
  <2> QED
    BY <1>4, <2>1, <2>2, <2>3, Zenon
<1>9. ASSUME NEW k \in Pages!Kinds PROVE PageIsServed(k)'
  <2> DEFINE s == PAGES[k]
             t == PAGES'[k]
             w == view'[k]
  <2> SUFFICES ASSUME NEW p \in PagesOf(k)
               PROVE  /\ <<k, p>> \in open => w[p] # "absent"
                      /\ <<k, p>> \notin crossed =>
                         /\ <<k, p>> \notin mistaken
                         /\ count # 0 /\ <<k, p>> \in open => t.page = p /\ ~t.cleanup /\ (t.pending \/ t.injected)
                         /\ w[p] = "refreshed" => t.page = p /\ t.injected /\ ~t.cleanup /\ t.buttons = <<p>>
                         /\ t.page = p /\ t.injected /\ ~t.cleanup => w[p] = "refreshed"
                         /\ count # 0 /\ <<k, p>> \in open => w[p] = "refreshed"
    BY <1>1, <1>6 DEF PageIsServed
  <2>0. /\ <<k, p>> \in open => view[k][p] # "absent"
        /\ <<k, p>> \notin crossed =>
              /\ <<k, p>> \notin mistaken
              /\ count # 0 /\ <<k, p>> \in open => s.page = p /\ ~s.cleanup /\ (s.pending \/ s.injected)
              /\ view[k][p] = "refreshed" => s.page = p /\ s.injected /\ ~s.cleanup /\ s.buttons = <<p>>
              /\ s.page = p /\ s.injected /\ ~s.cleanup => view[k][p] = "refreshed"
    BY <1>5 DEF PageIsServed
  <2>1. CASE s.cleanup
    <3>1. /\ t.page = "no page" /\ t.injected = FALSE
          /\ w[p] = view[k][p] \/ (w[p] = "made" /\ view[k][p] # "absent")
      BY <1>3, <2>1, Zenon DEF PageApplied
    <3> QED
      BY <2>0, <2>1, <3>1, Zenon
  <2>2. CASE ~s.cleanup /\ s.pending /\ ~s.injected
    <3>1. /\ t.page = s.page /\ t.buttons = <<s.page>> /\ t.injected = TRUE /\ t.cleanup = FALSE
          /\ w[p] = IF p = s.page THEN "refreshed" ELSE view[k][p]
      BY <1>3, <2>2, Zenon DEF PageApplied
    <3> HIDE DEF s, t, w
    <3> QED
      BY <2>0, <2>2, <3>1
  <2>3. CASE ~s.cleanup /\ ~(s.pending /\ ~s.injected)
    <3>1. /\ t.page = s.page /\ t.buttons = s.buttons /\ t.pending = s.pending /\ t.injected = s.injected
          /\ t.cleanup = FALSE /\ w = view[k]
      BY <1>3, <2>3, Zenon DEF PageApplied
    <3> HIDE DEF s, t, w
    <3> QED
      BY <2>0, <2>3, <3>1
  <2> QED
    BY <1>4, <2>1, <2>2, <2>3, Zenon
<1>10. ASSUME NEW k \in Pages!Kinds PROVE FlagsAreNoted(k)'
  <2>1. SUFFICES ASSUME PAGES'[k].injected, k \notin elsewhere' PROVE PAGES'[k].style = language
    BY <1>1 DEF FlagsAreNoted
  <2>2. CASE PAGES[k].cleanup
    BY <1>3, <2>1, <2>2, Zenon DEF PageApplied
  <2>3. CASE ~PAGES[k].cleanup /\ PAGES[k].pending /\ ~PAGES[k].injected
    BY <1>3, <2>3, Zenon DEF PageApplied
  <2>4. CASE ~PAGES[k].cleanup /\ ~(PAGES[k].pending /\ ~PAGES[k].injected)
    <3>1. PAGES'[k].style = language \/ (PAGES'[k] = PAGES[k] /\ PAGES[k].style_dirty = FALSE)
      BY <1>3, <2>1, <2>4, Zenon DEF PageApplied
    <3>2. CASE PAGES'[k] = PAGES[k] /\ PAGES[k].style_dirty = FALSE
      <4>1. k \notin elsewhere /\ PAGES[k].injected
        BY <1>1, <2>1, <3>2
      <4>2. PAGES[k].style = language
        BY <1>5, <2>4, <3>2, <4>1, Zenon DEF FlagsAreNoted
      <4> QED
        BY <3>2, <4>2, Zenon
    <3> QED
      BY <3>1, <3>2, Zenon
  <2> QED
    BY <1>4, <2>2, <2>3, <2>4, Zenon
<1> QED
  BY <1>7, <1>8, <1>9, <1>10 DEF PagesInv

(* Every step of the pages.                                                    *)
LEMMA PagesInductive == ASSUME PagesInv, Pages!Next \/ UNCHANGED pageVars PROVE PagesInv'
<1>1. CASE Pages!Next
  BY <1>1, MakeKeeps, EnterKeeps, RefreshKeeps, DestroyKeeps, PressKeeps, LeaveKeeps, ApplyKeeps, NextFrameKeeps, Zenon
     DEF Pages!Next
<1>2. CASE UNCHANGED pageVars
  <2>1. /\ PAGES' = PAGES /\ count' = count /\ language' = language /\ frame' = frame /\ view' = view /\ gone' = gone
        /\ open' = open /\ crossed' = crossed /\ elsewhere' = elsewhere /\ mistaken' = mistaken
    BY <1>2 DEF pageVars
  <2> QED
    <3>1. PagesTyped'
      BY <2>1, Zenon DEF PagesInv, PagesTyped
    <3>2. ASSUME NEW k \in Pages!Kinds PROVE (PageIsNoted(k) /\ PageIsServed(k) /\ FlagsAreNoted(k))'
      <4>1. PageIsNoted(k) /\ PageIsServed(k) /\ FlagsAreNoted(k)
        BY DEF PagesInv
      <4>2. PageIsNoted(k)'
        BY <2>1, <4>1, Zenon DEF PageIsNoted
      <4>3. PageIsServed(k)'
        BY <2>1, <4>1, Zenon DEF PageIsServed
      <4>4. FlagsAreNoted(k)'
        BY <2>1, <4>1, Zenon DEF FlagsAreNoted
      <4> QED
        BY <4>2, <4>3, <4>4
    <3> QED
      BY <3>1, <3>2 DEF PagesInv
<1> QED
  BY <1>1, <1>2

(* The invariant is what the run checks.                                       *)
LEMMA PagesHold == ASSUME PagesInv PROVE Pages!PagesOfferLanguages
<1>1. Pages!OpenPagesHaveButtons
  BY DEF PagesInv, PageIsServed, Pages!OpenPagesHaveButtons
<1>2. Pages!ButtonsFit
  <2>1. ASSUME NEW k \in Pages!Kinds PROVE Len(PAGES[k].buttons) <= 1
    <3>1. PageIsNoted(k)
      BY DEF PagesInv
    <3>2. CASE PAGES[k].buttons = <<>>
      BY <3>2
    <3>3. CASE \E q : PAGES[k].buttons = <<q>>
      <4>1. PICK q : PAGES[k].buttons = <<q>>
        BY <3>3
      <4>2. Len(<<q>>) = 1
        OBVIOUS
      <4> QED
        BY <4>1, <4>2
    <3> QED
      BY <3>1, <3>2, <3>3, Zenon DEF PageIsNoted
  <2> QED
    BY <2>1 DEF Pages!ButtonsFit
<1>3. Pages!FlagsFollow
  BY DEF PagesInv, FlagsAreNoted, Pages!FlagsFollow
<1> QED
  BY <1>1, <1>2, <1>3 DEF Pages!PagesOfferLanguages

(* A step of the runtime is one of the pages, or leaves them alone.            *)
LEMMA PagesStep == [Next]_allVars => Pages!Next \/ UNCHANGED pageVars
BY Zenon DEF Next, OthersRest, allVars, pageVars

(* The invariant of the language is what the run checks.                       *)
LEMMA LanguageHolds == LanguageInv => Language!LanguageIsKept
BY DEF LanguageInv, EngineFollows, PreferenceIsSaved, Language!LanguageIsKept,
       Language!EngineSpeaksTheLanguage, Language!PreferenceSurvives

(* In every run the engine speaks the language that was chosen, which is saved *)
(* whole (localization.c), and every open page of it offers the community      *)
(* languages, each button choosing its own (language_ui.c): for any set of     *)
(* packs and any pages of the engine.                                          *)
THEOREM LanguageIsOffered == Spec => []LanguageIsKept
<1>1. Init => LanguageInv /\ PagesInv
  BY LanguageInit, PagesInit, Zenon DEF Init
<1>2. LanguageInv /\ PagesInv /\ [Next]_allVars => LanguageInv' /\ PagesInv'
  <2>1. LanguageInv /\ [Next]_allVars => LanguageInv'
    BY LanguageStep, LanguageInductive
  <2>2. ASSUME PagesInv, [Next]_allVars PROVE PagesInv'
    BY <2>2, PagesStep, PagesInductive
  <2> QED
    BY <2>1, <2>2
<1>3. LanguageInv /\ PagesInv => LanguageIsKept
  BY LanguageHolds, PagesHold, Zenon DEF LanguageIsKept
<1> QED
  BY <1>1, <1>2, <1>3, PTL DEF Spec

-----------------------------------------------------------------------------
(* IpaBuilder: what the window shows.                                        *)

(* A step of the runtime is one of the component, or leaves it alone.        *)
LEMMA BuilderStep == [Next]_allVars => [Builder!Next]_builderVars
BY DEF Next, OthersRest, allVars, builderVars

Forms == [output : Outputs \cup {Builder!NoPath}, approved : Outputs \cup {Builder!NoPath},
          files : SUBSET (Outputs \cup {Builder!NoPath})]
States == [running : BOOLEAN, aborted : BOOLEAN, cancel_requested : BOOLEAN,
           ui_state : {"idle", "busy", "ok", "stopped", "failed"}, active_job : {"none", "open"}]

(* The notice of a finished build may lie over the question whether to stop  *)
(* it, and nothing else over anything.                                       *)
Stacks == {<<>>, <<"overwrite">>, <<"cancel">>, <<"terminate">>, <<"done">>, <<"cancel", "done">>}

(* No other box is open while a build runs, and it runs as long as its       *)
(* worker; what was approved in the file dialog is what the user agreed to.  *)
BuilderInv ==
    /\ form \in Forms /\ state \in States /\ boxes \in Stacks
    /\ job \in [overwrite : BOOLEAN, agreed : BOOLEAN]
    /\ state.running => boxes \in {<<>>, <<"cancel">>, <<"terminate">>}
    /\ state.running <=> worker # "none"
    /\ form.approved # Builder!NoPath => consent = form.approved
    /\ Builder!WindowTellsTheTruth

(* The invariant holds at first.                                             *)
LEMMA BuilderInit == Builder!Init => BuilderInv
<1> SUFFICES ASSUME Builder!Init PROVE BuilderInv
  OBVIOUS
<1>1. form \in Forms /\ form.approved = Builder!NoPath
  BY DEF Builder!Init, Forms
<1>2. state \in States /\ ~state.running /\ state.ui_state = "idle" /\ state.active_job = "none"
  BY DEF Builder!Init, States
<1>3. job \in [overwrite : BOOLEAN, agreed : BOOLEAN] /\ ~job.overwrite
  BY DEF Builder!Init
<1> QED
  BY <1>1, <1>2, <1>3 DEF Builder!Init, BuilderInv, Stacks, Builder!WindowTellsTheTruth

(* Setting up a build keeps the window's state true when none was running.   *)
LEMMA BuilderSetUp ==
    ASSUME BuilderInv, ~state.running, NEW overwrite \in BOOLEAN, NEW agreed \in BOOLEAN,
           overwrite => agreed, Builder!SetUp(overwrite, agreed)
    PROVE  /\ state' \in States /\ job' \in [overwrite : BOOLEAN, agreed : BOOLEAN]
           /\ state'.running <=> worker' # "none"
           /\ Builder!WindowTellsTheTruth'
<1>1. CASE /\ state' = [running |-> TRUE, aborted |-> FALSE, cancel_requested |-> FALSE,
                        ui_state |-> "busy", active_job |-> "open"]
           /\ job' = [overwrite |-> overwrite, agreed |-> agreed]
           /\ worker' = "start"
  BY <1>1 DEF States, Builder!WindowTellsTheTruth
<1>2. CASE UNCHANGED <<state, job, worker>>
  BY <1>2 DEF BuilderInv, Builder!WindowTellsTheTruth
<1>3. CASE /\ state' = [state EXCEPT !.ui_state = "failed", !.aborted = FALSE, !.cancel_requested = FALSE]
           /\ UNCHANGED <<job, worker>>
  <2>1. state' \in States /\ state'.ui_state = "failed" /\ state'.running = state.running
        /\ state'.active_job = state.active_job
    BY <1>3 DEF BuilderInv, States
  <2> QED
    BY <1>3, <2>1 DEF BuilderInv, Builder!WindowTellsTheTruth
<1> QED
  BY <1>1, <1>2, <1>3 DEF Builder!SetUp

(* Every step of the component keeps it.                                     *)
LEMMA BuilderInductive == BuilderInv /\ [Builder!Next]_builderVars => BuilderInv'
<1> SUFFICES ASSUME BuilderInv, [Builder!Next]_builderVars PROVE BuilderInv'
  OBVIOUS
<1>1. ASSUME NEW p \in Outputs, Builder!pick_into(p) PROVE BuilderInv'
  BY <1>1 DEF Builder!pick_into, BuilderInv, Forms, Builder!WindowTellsTheTruth
<1>2. CASE Builder!start_build
  <2>1. boxes = <<>> /\ ~state.running
    BY <1>2 DEF Builder!start_build, Builder!Idle
  <2>2. CASE form.output \in form.files /\ form.approved # form.output
    BY <1>2, <2>1, <2>2 DEF Builder!start_build, BuilderInv, Forms, States, Stacks, Builder!WindowTellsTheTruth
  <2>3. CASE ~(form.output \in form.files /\ form.approved # form.output)
    <3>1. /\ Builder!SetUp(form.output \in form.files, consent = form.output)
          /\ form' = Builder!Consume /\ consent' = Builder!NoPath /\ boxes' = boxes
      BY <1>2, <2>3 DEF Builder!start_build
    <3>2. form.output \in form.files => consent = form.output
      BY <1>2, <2>3 DEF Builder!start_build, BuilderInv
    <3>3. /\ state' \in States /\ job' \in [overwrite : BOOLEAN, agreed : BOOLEAN]
          /\ state'.running <=> worker' # "none"
          /\ Builder!WindowTellsTheTruth'
      <4> DEFINE exists == form.output \in form.files
                 agreed == consent = form.output
      <4>1. exists \in BOOLEAN /\ agreed \in BOOLEAN
        OBVIOUS
      <4>2. (exists => agreed) /\ Builder!SetUp(exists, agreed)
        BY <3>1, <3>2
      <4> HIDE DEF exists, agreed
      <4> QED
        BY <2>1, <4>1, <4>2, BuilderSetUp
    <3>4. form' \in Forms /\ form'.approved = Builder!NoPath
      BY <3>1 DEF BuilderInv, Forms, Builder!Consume
    <3> QED
      BY <2>1, <3>1, <3>3, <3>4 DEF BuilderInv, Stacks
  <2> QED
    BY <2>2, <2>3
<1>3. ASSUME NEW yes \in BOOLEAN, Builder!AnswerOverwrite(yes) PROVE BuilderInv'
  <2>1. boxes = <<"overwrite">> /\ boxes' = <<>>
    BY <1>3 DEF Builder!AnswerOverwrite
  <2>2. ~state.running
    BY <2>1 DEF BuilderInv
  <2>3. CASE yes
    <3>1. /\ Builder!SetUp(TRUE, TRUE) /\ form' = Builder!Consume /\ consent' = Builder!NoPath
      BY <1>3, <2>3 DEF Builder!AnswerOverwrite
    <3>2. /\ state' \in States /\ job' \in [overwrite : BOOLEAN, agreed : BOOLEAN]
          /\ state'.running <=> worker' # "none"
          /\ Builder!WindowTellsTheTruth'
      BY <2>2, <3>1, BuilderSetUp
    <3>3. form' \in Forms /\ form'.approved = Builder!NoPath
      BY <3>1 DEF BuilderInv, Forms, Builder!Consume
    <3> QED
      BY <2>1, <3>1, <3>2, <3>3 DEF BuilderInv, Stacks
  <2>4. CASE ~yes
    BY <1>3, <2>1, <2>2, <2>4 DEF Builder!AnswerOverwrite, BuilderInv, Stacks, Builder!WindowTellsTheTruth
  <2> QED
    BY <2>3, <2>4
<1>4. CASE Builder!stop_build
  BY <1>4 DEF Builder!stop_build, BuilderInv, Stacks, Builder!WindowTellsTheTruth
<1>5. ASSUME NEW yes \in BOOLEAN, Builder!AnswerCancel(yes) PROVE BuilderInv'
  BY <1>5 DEF Builder!AnswerCancel, Builder!Requested, BuilderInv, States, Stacks, Builder!WindowTellsTheTruth
<1>6. CASE Builder!Terminate
  BY <1>6 DEF Builder!Terminate, BuilderInv, Stacks, Builder!WindowTellsTheTruth
<1>7. CASE Builder!finish_build
  <2>1. state.running /\ boxes \in {<<>>, <<"cancel">>}
    BY <1>7 DEF Builder!finish_build, BuilderInv
  <2>2. boxes' \in Stacks
    <3>1. Append(<<>>, "done") = <<"done">> /\ Append(<<"cancel">>, "done") = <<"cancel", "done">>
      BY ShortSequences
    <3>2. boxes' \in {boxes, Append(boxes, "done")}
      BY <1>7 DEF Builder!finish_build
    <3> QED
      BY <2>1, <3>1, <3>2 DEF Stacks
  <2>3. state' \in States /\ ~state'.running
    BY <1>7 DEF Builder!finish_build, BuilderInv, States
  <2> QED
    BY <1>7, <2>2, <2>3 DEF Builder!finish_build, BuilderInv, States, Builder!WindowTellsTheTruth
<1>8. CASE Builder!CloseNotice
  <2>1. boxes \in {<<"done">>, <<"cancel", "done">>}
    BY <1>8 DEF Builder!CloseNotice, Builder!Last, BuilderInv, Stacks
  <2>2. boxes' \in {<<>>, <<"cancel">>}
    <3>1. Builder!Front(<<"done">>) = <<>> /\ Builder!Front(<<"cancel", "done">>) = <<"cancel">>
      BY ShortSequences DEF Builder!Front
    <3> QED
      BY <1>8, <2>1, <3>1 DEF Builder!CloseNotice
  <2> QED
    BY <1>8, <2>1, <2>2 DEF Builder!CloseNotice, BuilderInv, Stacks, Builder!WindowTellsTheTruth
<1>9. CASE Builder!WorkerStep
  BY <1>9 DEF Builder!WorkerStep, Builder!Create, Builder!Assign, Builder!Check, Builder!Read, Builder!CleanUp,
              Builder!Worker, BuilderInv, Builder!WindowTellsTheTruth
<1>10. ASSUME NEW code \in {0, 1}, Builder!ProcessEnds(code) PROVE BuilderInv'
  <2>1. form' \in Forms /\ form'.approved = form.approved
    <3>1. \/ form' = [form EXCEPT !.files = form.files \cup {form.output}]
          \/ form' = form
      BY <1>10 DEF Builder!ProcessEnds
    <3> QED
      BY <3>1 DEF BuilderInv, Forms
  <2> QED
    BY <1>10, <2>1 DEF Builder!ProcessEnds, BuilderInv, Builder!WindowTellsTheTruth
<1>11. CASE UNCHANGED builderVars
  BY <1>11 DEF builderVars, BuilderInv, Builder!WindowTellsTheTruth
<1> QED
  BY <1>1, <1>2, <1>3, <1>4, <1>5, <1>6, <1>7, <1>8, <1>9, <1>10, <1>11 DEF Builder!Next, Builder!User

(* The window of the builder shows and offers what is going on: it is busy   *)
(* exactly while a build runs with its job object open, also when the build  *)
(* ends under the question whether to stop it (WM_BUILD_DONE in a message    *)
(* box), and a file is replaced only when the user agreed to it.             *)
THEOREM BuilderShowsWhatIs == Spec => []WindowTellsTheTruth
<1>1. Init => BuilderInv
  BY BuilderInit DEF Init
<1>2. BuilderInv /\ [Next]_allVars => BuilderInv'
  BY BuilderStep, BuilderInductive
<1>3. BuilderInv => WindowTellsTheTruth
  BY DEF BuilderInv, WindowTellsTheTruth
<1> QED
  BY <1>1, <1>2, <1>3, PTL DEF Spec

-----------------------------------------------------------------------------
(* EngineRun: the start is undone, in the order of the constants.            *)

(* A step of the runtime is one of the component, or leaves it alone.        *)
LEMMA EngineStep == [Next]_allVars => [Engine!Next]_engineVars
BY DEF Next, OthersRest, allVars, engineVars

EngineParts == {"audio", "jni", "offline", "a64", "sched", "gl", "window", "names", "elf"}
Dos == {"load", "start", "constructors", "start_engine", "run_frames", "report", "take down", "returned"}

EngineTypes ==
    /\ stage \in [do : Dos, part : EngineParts \cup {"hash", "heap"}] /\ up \subseteq EngineParts /\ ready \subseteq Engine!Holds
    /\ game \in [constructor : Nat, failed : Nat, started : Nat, frames : BOOLEAN]
    /\ result \in {0, 1}

(* What a part that is up works on is up: Uses, written out.                 *)
Stands ==
    /\ up \cap {"gl", "names", "sched", "a64", "offline"} # {} => "elf" \in up
    /\ up \cap {"jni", "audio"} # {} => "names" \in up
    /\ "offline" \in up => "a64" \in up

(* While parts are started, those before the next one are up.                *)
StartsInOrder ==
    Engine!At("start") =>
        /\ \E i \in DOMAIN Engine!StartOrder : stage.part = Engine!StartOrder[i]
        /\ "elf" \in up
        /\ stage.part \in {"jni", "audio", "heap", "sched", "a64", "offline"} => "names" \in up
        /\ stage.part = "offline" => "a64" \in up

(* Until the cleanup every flag belongs to a part that is up, and the cleanup *)
(* finds every part that is.                                                  *)
FlagsTell ==
    /\ Engine!At("load") => up = {} /\ ready = {}
    /\ stage.do \in {"start", "constructors", "start_engine", "run_frames", "report"} => ready \subseteq up
    /\ up \subseteq ready \cup Engine!AlwaysTakenDown

(* In the cleanup the parts before the next one are down, and the window     *)
(* stays until its turn comes, if it was opened.                             *)
TakenDownInOrder ==
    /\ Engine!At("take down") =>
          \E k \in DOMAIN Engine!TakeDownOrder :
             /\ stage.part = Engine!TakeDownOrder[k]
             /\ \A i \in 1 .. k - 1 : Engine!TakeDownOrder[i] \notin up
             /\ k =< 7 => ("window" \in ready => "window" \in up)
    /\ Engine!At("returned") => up = {}

(* Success is reported only after the frames of a game that was started.     *)
SuccessIsEarned ==
    /\ Engine!At("start_engine") => game.failed = 0
    /\ Engine!At("run_frames") => game.failed = 0 /\ game.started = 5
    /\ result = 0 => /\ game.failed = 0 /\ game.started = 5
                     /\ stage.do \in {"report", "take down", "returned"}

EngineInv ==
    EngineTypes /\ Stands /\ StartsInOrder /\ FlagsTell /\ TakenDownInOrder /\ SuccessIsEarned

(* The lists of parts, and the step from one to the next.                    *)
LEMMA StartOrders ==
    /\ DOMAIN Engine!StartOrder = 1 .. 10 /\ Len(Engine!StartOrder) = 10
    /\ Engine!StartOrder[1] = "hash" /\ Engine!StartOrder[2] = "window" /\ Engine!StartOrder[3] = "gl"
    /\ Engine!StartOrder[4] = "names" /\ Engine!StartOrder[5] = "jni" /\ Engine!StartOrder[6] = "audio"
    /\ Engine!StartOrder[7] = "heap" /\ Engine!StartOrder[8] = "sched" /\ Engine!StartOrder[9] = "a64"
    /\ Engine!StartOrder[10] = "offline"
BY DEF Engine!StartOrder

(* The order of the take-down, part by part.                                 *)
LEMMA TakeDownOrders ==
    /\ DOMAIN Engine!TakeDownOrder = 1 .. 9 /\ Len(Engine!TakeDownOrder) = 9
    /\ Engine!TakeDownOrder[1] = "audio" /\ Engine!TakeDownOrder[2] = "jni"
    /\ Engine!TakeDownOrder[3] = "offline" /\ Engine!TakeDownOrder[4] = "a64"
    /\ Engine!TakeDownOrder[5] = "sched" /\ Engine!TakeDownOrder[6] = "gl"
    /\ Engine!TakeDownOrder[7] = "window" /\ Engine!TakeDownOrder[8] = "names"
    /\ Engine!TakeDownOrder[9] = "elf"
BY DEF Engine!TakeDownOrder

(* The cleanup begins with the audio objects.                                *)
LEMMA CleanupFirst ==
    /\ Engine!Cleanup = [do |-> "take down", part |-> "audio"]
    /\ \E k \in DOMAIN Engine!TakeDownOrder :
          /\ Engine!TakeDownOrder[k] = "audio" /\ k =< 7
          /\ \A left : \A i \in 1 .. k - 1 : Engine!TakeDownOrder[i] \notin left
<1>1. Engine!TakeDownOrder[1] = "audio" /\ 1 \in DOMAIN Engine!TakeDownOrder
  BY TakeDownOrders
<1>2. Head(Engine!TakeDownOrder) = "audio"
  BY <1>1 DEF Engine!TakeDownOrder
<1>3. /\ Engine!TakeDownOrder[1] = "audio" /\ 1 =< 7
      /\ \A left : \A i \in 1 .. 1 - 1 : Engine!TakeDownOrder[i] \notin left
  BY <1>1
<1>4. Engine!Cleanup = [do |-> "take down", part |-> "audio"]
  BY <1>2, Zenon DEF Engine!Cleanup
<1> QED
  BY <1>1, <1>3, <1>4, Zenon

(* In a list without repetitions Then goes to the next element.              *)
LEMMA ThenIsNext ==
    ASSUME NEW do, NEW order, NEW k \in DOMAIN order, NEW end,
           \A n \in DOMAIN order : order[n] = order[k] => n = k
    PROVE  Engine!Then(do, order, order[k], end) =
             IF k = Len(order) THEN [do |-> end, part |-> order[k]]
             ELSE [do |-> do, part |-> order[k + 1]]
<1> DEFINE i == CHOOSE n \in DOMAIN order : order[n] = order[k]
<1>1. i = k
  OBVIOUS
<1> QED
  BY <1>1 DEF Engine!Then

(* What follows a part in its order.                                         *)
LEMMA NextPart ==
    /\ \A k \in 1 .. 10 :
          Engine!Then("start", Engine!StartOrder, Engine!StartOrder[k], "constructors") =
            IF k = 10 THEN [do |-> "constructors", part |-> Engine!StartOrder[k]]
            ELSE [do |-> "start", part |-> Engine!StartOrder[k + 1]]
    /\ \A k \in 1 .. 9 :
          Engine!Then("take down", Engine!TakeDownOrder, Engine!TakeDownOrder[k], "returned") =
            IF k = 9 THEN [do |-> "returned", part |-> Engine!TakeDownOrder[k]]
            ELSE [do |-> "take down", part |-> Engine!TakeDownOrder[k + 1]]
<1>1. \A k, n \in 1 .. 10 : Engine!StartOrder[n] = Engine!StartOrder[k] => n = k
  BY StartOrders
<1>2. \A k, n \in 1 .. 9 : Engine!TakeDownOrder[n] = Engine!TakeDownOrder[k] => n = k
  BY TakeDownOrders
<1>3. ASSUME NEW k \in 1 .. 10
      PROVE  Engine!Then("start", Engine!StartOrder, Engine!StartOrder[k], "constructors") =
               IF k = 10 THEN [do |-> "constructors", part |-> Engine!StartOrder[k]]
               ELSE [do |-> "start", part |-> Engine!StartOrder[k + 1]]
  <2>1. k \in DOMAIN Engine!StartOrder /\ Len(Engine!StartOrder) = 10
    BY StartOrders
  <2>2. \A n \in DOMAIN Engine!StartOrder : Engine!StartOrder[n] = Engine!StartOrder[k] => n = k
    BY <1>1, StartOrders
  <2>3. Engine!Then("start", Engine!StartOrder, Engine!StartOrder[k], "constructors") =
          IF k = Len(Engine!StartOrder) THEN [do |-> "constructors", part |-> Engine!StartOrder[k]]
          ELSE [do |-> "start", part |-> Engine!StartOrder[k + 1]]
    BY <2>1, <2>2, ThenIsNext
  <2> QED
    BY <2>1, <2>3
<1>4. ASSUME NEW k \in 1 .. 9
      PROVE  Engine!Then("take down", Engine!TakeDownOrder, Engine!TakeDownOrder[k], "returned") =
               IF k = 9 THEN [do |-> "returned", part |-> Engine!TakeDownOrder[k]]
               ELSE [do |-> "take down", part |-> Engine!TakeDownOrder[k + 1]]
  <2>1. k \in DOMAIN Engine!TakeDownOrder /\ Len(Engine!TakeDownOrder) = 9
    BY TakeDownOrders
  <2>2. \A n \in DOMAIN Engine!TakeDownOrder : Engine!TakeDownOrder[n] = Engine!TakeDownOrder[k] => n = k
    BY <1>2, TakeDownOrders
  <2>3. Engine!Then("take down", Engine!TakeDownOrder, Engine!TakeDownOrder[k], "returned") =
          IF k = Len(Engine!TakeDownOrder) THEN [do |-> "returned", part |-> Engine!TakeDownOrder[k]]
          ELSE [do |-> "take down", part |-> Engine!TakeDownOrder[k + 1]]
    BY <2>1, <2>2, ThenIsNext, Zenon
  <2> QED
    BY <2>1, <2>3, Zenon
<1> QED
  BY <1>3, <1>4, Zenon

(* Uses, written out, is what Stands says.                                   *)
LEMMA UsesStand == EngineTypes /\ Stands => \A p \in up : Engine!Uses[p] \subseteq up
<1> DEFINE U == Engine!Uses
<1>1. /\ U["window"] = {} /\ U["gl"] = {"elf"} /\ U["names"] = {"elf"} /\ U["jni"] = {"names"}
      /\ U["audio"] = {"names"} /\ U["sched"] = {"elf"} /\ U["a64"] = {"elf"}
      /\ U["offline"] = {"a64", "elf"} /\ U["elf"] = {}
  BY DEF Engine!Uses
<1> HIDE DEF U
<1> SUFFICES ASSUME EngineTypes, Stands, NEW p \in up PROVE U[p] \subseteq up
  BY DEF U
<1> QED
  BY <1>1 DEF EngineTypes, EngineParts, Stands

(* The invariant holds at first.                                             *)
LEMMA EngineInit == Engine!Init => EngineInv
<1> SUFFICES ASSUME Engine!Init PROVE EngineInv
  OBVIOUS
<1>1. EngineTypes
  BY DEF Engine!Init, Engine!NotRun, EngineTypes, EngineParts, Dos
<1>2. Stands /\ StartsInOrder /\ FlagsTell /\ TakenDownInOrder /\ SuccessIsEarned
  BY DEF Engine!Init, Engine!At, Stands, StartsInOrder, FlagsTell, TakenDownInOrder, SuccessIsEarned
<1> QED
  BY <1>1, <1>2 DEF EngineInv

(* Each step of the start and of the cleanup keeps it.                       *)
LEMMA LoadKeeps == EngineInv /\ Engine!Load => EngineInv'
<1> SUFFICES ASSUME EngineInv, Engine!Load PROVE EngineInv'
  OBVIOUS
<1>1. stage.do = "load" /\ up = {} /\ ready = {} /\ UNCHANGED <<ready, game, result>>
  BY DEF EngineInv, FlagsTell, Engine!Load, Engine!At
<1>2. Engine!StartOrder[1] = "hash" /\ Head(Engine!StartOrder) = "hash" /\ 1 \in DOMAIN Engine!StartOrder
  BY StartOrders DEF Engine!StartOrder
<1>3. CASE stage' = [do |-> "start", part |-> "hash"] /\ up' = {"elf"}
  <2>1. EngineTypes' /\ Stands'
    BY <1>1, <1>3, Zenon DEF EngineInv, EngineTypes, EngineParts, Dos, Stands
  <2>2. StartsInOrder'
    BY <1>1, <1>2, <1>3 DEF StartsInOrder, Engine!At
  <2>3. FlagsTell' /\ TakenDownInOrder' /\ SuccessIsEarned'
    BY <1>1, <1>3 DEF EngineInv, FlagsTell, TakenDownInOrder, SuccessIsEarned, Engine!At,
                      Engine!AlwaysTakenDown
  <2> QED
    BY <2>1, <2>2, <2>3 DEF EngineInv
<1>4. CASE stage' = [stage EXCEPT !.do = "returned"] /\ up' = up
  <2>1. EngineTypes' /\ stage'.do = "returned"
    BY <1>1, <1>4, Zenon DEF EngineInv, EngineTypes, Dos
  <2> QED
    BY <1>1, <1>4, <2>1 DEF EngineInv, Stands, StartsInOrder, FlagsTell, TakenDownInOrder, SuccessIsEarned,
                            Engine!At
<1> QED
  BY <1>2, <1>3, <1>4 DEF Engine!Load, Engine!Goes
(* A part is started.                                                        *)
LEMMA StartKeeps ==
    ASSUME EngineInv, NEW windowed \in BOOLEAN, Engine!Start(windowed)
    PROVE  EngineInv'
<1>1. PICK i \in 1 .. 10 : stage.part = Engine!StartOrder[i]
  BY StartOrders DEF EngineInv, StartsInOrder, Engine!Start
<1>2. /\ stage.do = "start" /\ "elf" \in up /\ ready \subseteq up
      /\ stage.part \in {"jni", "audio", "heap", "sched", "a64", "offline"} => "names" \in up
      /\ stage.part = "offline" => "a64" \in up
      /\ result # 0
  BY DEF EngineInv, StartsInOrder, FlagsTell, SuccessIsEarned, Engine!Start, Engine!At
<1>3. PICK held \in SUBSET (Engine!Holds \cap {stage.part}) :
         /\ up' = up \cup held /\ ready' = ready \cup held
         /\ stage.part # "window" => held = Engine!Holds \cap {stage.part}
  BY DEF Engine!Start
<1>4. stage' = (IF i = 10 THEN [do |-> "constructors", part |-> stage.part]
                ELSE [do |-> "start", part |-> Engine!StartOrder[i + 1]])
  BY <1>1, NextPart, Zenon DEF Engine!Start
<1>5. UNCHANGED <<game, result>>
  BY DEF Engine!Start
<1>6. i # 10 => i + 1 \in 1 .. 10
  OBVIOUS
<1>7. EngineTypes'
  <2>1. i # 10 => Engine!StartOrder[i + 1] \in EngineParts \cup {"hash", "heap"}
    BY <1>6, StartOrders DEF EngineParts
  <2>2. stage' \in [do : Dos, part : EngineParts \cup {"hash", "heap"}]
    BY <1>4, <2>1, Zenon DEF EngineInv, EngineTypes, Dos
  <2> QED
    BY <1>3, <1>5, <2>2 DEF EngineInv, EngineTypes, EngineParts, Engine!Holds
<1>8. Stands'
  BY <1>2, <1>3 DEF EngineInv, Stands, Engine!Holds
<1>9. StartsInOrder'
  <2>1. CASE i = 10
    BY <1>4, <2>1 DEF StartsInOrder, Engine!At
  <2>2. CASE i # 10
    <3>1. stage'.part = Engine!StartOrder[i + 1] /\ i + 1 \in DOMAIN Engine!StartOrder
      BY <1>4, <2>2, <1>6, StartOrders
    <3>2. stage'.part \in {"jni", "audio", "heap", "sched", "a64", "offline"} => "names" \in up'
      <4>1. CASE i \in {1, 2, 3}
        <5>1. i + 1 = 2 \/ i + 1 = 3 \/ i + 1 = 4
          BY <4>1
        <5>2. /\ Engine!StartOrder[2] = "window" /\ Engine!StartOrder[3] = "gl"
              /\ Engine!StartOrder[4] = "names"
          BY StartOrders
        <5>3. stage'.part \in {"window", "gl", "names"}
          BY <3>1, <5>1, <5>2, Zenon
        <5> QED
          BY <5>3
      <4>2. CASE i = 4
        BY <1>1, <1>3, <4>2, StartOrders DEF Engine!Holds
      <4>3. CASE i \in {5, 6, 7, 8, 9}
        BY <1>1, <1>2, <1>3, <4>3, StartOrders
      <4> QED
        BY <2>2, <4>1, <4>2, <4>3
    <3>3. stage'.part = "offline" => "a64" \in up'
      <4>1. CASE i \in {1, 2, 3, 4, 5, 6, 7, 8}
        <5>1. i + 1 \in {2, 3, 4, 5, 6, 7, 8, 9}
          BY <4>1
        <5>2. \A k \in {2, 3, 4, 5, 6, 7, 8, 9} : Engine!StartOrder[k] # "offline"
          BY StartOrders
        <5> QED
          BY <3>1, <5>1, <5>2, Zenon
      <4>2. CASE i = 9
        BY <1>1, <1>3, <4>2, StartOrders DEF Engine!Holds
      <4> QED
        BY <2>2, <4>1, <4>2
    <3> QED
      BY <1>2, <1>3, <3>1, <3>2, <3>3 DEF StartsInOrder
  <2> QED
    BY <2>1, <2>2
<1>10. stage'.do \in {"start", "constructors"}
  BY <1>4
<1>11. FlagsTell' /\ TakenDownInOrder' /\ SuccessIsEarned'
  BY <1>2, <1>3, <1>5, <1>10, Zenon
     DEF EngineInv, FlagsTell, TakenDownInOrder, SuccessIsEarned, Engine!At
<1> QED
  BY <1>7, <1>8, <1>9, <1>11 DEF EngineInv

(* The cleanup begins with its first part, and all flags true.               *)
LEMMA CleanupBegins ==
    ASSUME EngineTypes', Stands', SuccessIsEarned', stage'.do = "take down", stage'.part = "audio",
           "window" \in ready' => "window" \in up', up' \subseteq ready' \cup Engine!AlwaysTakenDown
    PROVE  EngineInv'
<1>1. TakenDownInOrder'
  BY CleanupFirst, Zenon DEF TakenDownInOrder, Engine!At
<1> QED
  BY <1>1, Zenon DEF EngineInv, StartsInOrder, FlagsTell, Engine!At

(* The start of a part fails.                                                *)
LEMMA FailsKeeps == EngineInv /\ Engine!Fails => EngineInv'
<1> SUFFICES ASSUME EngineInv, Engine!Fails PROVE EngineInv'
  OBVIOUS
<1>1. /\ stage.do = "start" /\ "elf" \in up /\ ready \subseteq up /\ result # 0
      /\ up \subseteq ready \cup Engine!AlwaysTakenDown
  BY DEF EngineInv, StartsInOrder, FlagsTell, SuccessIsEarned, Engine!Fails, Engine!At
<1>2. /\ up' = up \cup ({stage.part} \cap {"window", "names"})
      /\ ready' = ready \cup ({stage.part} \cap {"window"})
      /\ stage' = Engine!Cleanup /\ UNCHANGED <<game, result>>
  BY DEF Engine!Fails, Engine!HalfStarted, Engine!RaisedFirst
<1>3. stage' = [do |-> "take down", part |-> "audio"]
  BY <1>2, CleanupFirst, Zenon
<1>4. EngineTypes'
  <2>1. stage' \in [do : Dos, part : EngineParts \cup {"hash", "heap"}]
    BY <1>3, Zenon DEF EngineParts, Dos
  <2> QED
    BY <1>2, <2>1 DEF EngineInv, EngineTypes, EngineParts, Engine!Holds
<1>5. Stands' /\ SuccessIsEarned'
  <2>1. Stands'
    BY <1>1, <1>2 DEF EngineInv, Stands
  <2>2. stage'.do = "take down"
    BY <1>3, Zenon
  <2> QED
    BY <1>1, <1>2, <2>1, <2>2, Zenon DEF SuccessIsEarned, Engine!At
<1>6. up' \subseteq ready' \cup Engine!AlwaysTakenDown
  BY <1>1, <1>2 DEF Engine!AlwaysTakenDown
<1>7. stage'.do = "take down" /\ stage'.part = "audio" /\ ("window" \in ready' => "window" \in up')
  <2>1. "window" \in ready' => "window" \in up'
    BY <1>1, <1>2
  <2> QED
    BY <1>3, <2>1, Zenon
<1> QED
  BY <1>4, <1>5, <1>6, <1>7, CleanupBegins, Zenon

(* Until the cleanup only the game goes on.                                  *)
LEMMA GameKeeps ==
    ASSUME EngineInv, UNCHANGED <<up, ready>>,
           stage.do \in {"constructors", "start_engine", "run_frames"},
           stage'.do \in {"constructors", "start_engine", "run_frames", "report"},
           EngineTypes', SuccessIsEarned'
    PROVE  EngineInv'
BY Zenon DEF EngineInv, Stands, StartsInOrder, FlagsTell, TakenDownInOrder, Engine!At

(* The record of the game with one field changed.                            *)
LEMMA GameFields ==
    ASSUME NEW g \in [constructor : Nat, failed : Nat, started : Nat, frames : BOOLEAN]
    PROVE  /\ g.constructor + 1 \in Nat
           /\ [g EXCEPT !.constructor = g.constructor + 1] \in
                 [constructor : Nat, failed : Nat, started : Nat, frames : BOOLEAN]
           /\ \A n \in Nat : [g EXCEPT !.failed = n] \in
                 [constructor : Nat, failed : Nat, started : Nat, frames : BOOLEAN]
<1>1. g.constructor + 1 \in Nat
  OBVIOUS
<1>2. [g EXCEPT !.constructor = g.constructor + 1] \in
         [constructor : Nat, failed : Nat, started : Nat, frames : BOOLEAN]
  BY <1>1
<1>3. ASSUME NEW n \in Nat
      PROVE  [g EXCEPT !.failed = n] \in [constructor : Nat, failed : Nat, started : Nat, frames : BOOLEAN]
  OBVIOUS
<1> QED
  BY <1>1, <1>2, <1>3

(* Constructors, the calls that start the engine, and frames.                *)
LEMMA GameStepKeeps ==
    ASSUME EngineInv, NEW b \in BOOLEAN,
           \/ Engine!Constructor(b) \/ Engine!ConstructorsDone \/ Engine!StartCall(b)
           \/ Engine!Frame \/ Engine!FramesEnd(b)
    PROVE  EngineInv'
<1> USE DEF Engine!At, Engine!Goes
<1>0. /\ stage \in [do : Dos, part : EngineParts \cup {"hash", "heap"}]
      /\ game \in [constructor : Nat, failed : Nat, started : Nat, frames : BOOLEAN]
  BY DEF EngineInv, EngineTypes
<1>1. CASE Engine!Constructor(b)
  <2>0. /\ b => game' = [game EXCEPT !.constructor = game.constructor + 1, !.failed = game.failed + 1]
        /\ ~b => game' = [game EXCEPT !.constructor = game.constructor + 1, !.failed = game.failed]
    BY <1>1 DEF Engine!Constructor
  <2>1. game' \in [constructor : Nat, failed : Nat, started : Nat, frames : BOOLEAN]
    <3> DEFINE begun == [game EXCEPT !.constructor = game.constructor + 1]
    <3>1. begun \in [constructor : Nat, failed : Nat, started : Nat, frames : BOOLEAN]
      BY <1>0, GameFields
    <3>2. game' = [begun EXCEPT !.failed = game.failed + 1] \/ game' = [begun EXCEPT !.failed = game.failed]
      BY <2>0
    <3>3. game.failed \in Nat /\ game.failed + 1 \in Nat
      BY <1>0
    <3> HIDE DEF begun
    <3> QED
      BY <3>1, <3>2, <3>3, GameFields
  <2>2. EngineTypes'
    BY <1>1, <2>1 DEF Engine!Constructor, EngineInv, EngineTypes
  <2>3. SuccessIsEarned'
    BY <1>1, Zenon DEF Engine!Constructor, EngineInv, SuccessIsEarned
  <2> QED
    BY <1>1, <2>2, <2>3, GameKeeps DEF Engine!Constructor
<1>2. CASE Engine!ConstructorsDone
  <2>1. /\ stage' \in [do : Dos, part : EngineParts \cup {"hash", "heap"}]
        /\ stage'.do = IF game.failed = 0 THEN "start_engine" ELSE "report"
    BY <1>0, <1>2, Zenon DEF Engine!ConstructorsDone, Dos
  <2>2. EngineTypes'
    BY <1>2, <2>1 DEF Engine!ConstructorsDone, EngineInv, EngineTypes
  <2>3. SuccessIsEarned'
    BY <1>2, <2>1 DEF Engine!ConstructorsDone, EngineInv, SuccessIsEarned
  <2> QED
    BY <1>2, <2>1, <2>2, <2>3, GameKeeps DEF Engine!ConstructorsDone
<1>3. CASE Engine!StartCall(b)
  <2>1. /\ game' \in [constructor : Nat, failed : Nat, started : Nat, frames : BOOLEAN]
        /\ game'.failed = game.failed
    BY <1>0, <1>3 DEF Engine!StartCall
  <2>2. /\ stage' \in [do : Dos, part : EngineParts \cup {"hash", "heap"}]
        /\ \/ stage'.do \in {"report", "start_engine"}
           \/ stage'.do = "run_frames" /\ game'.started = Len(Engine!GameCalls)
    BY <1>0, <1>3, Zenon DEF Engine!StartCall, Dos
  <2>3. Len(Engine!GameCalls) = 5
    BY DEF Engine!GameCalls
  <2>4. EngineTypes'
    BY <1>3, <2>1, <2>2 DEF Engine!StartCall, EngineInv, EngineTypes
  <2>5. SuccessIsEarned'
    BY <1>3, <2>1, <2>2, <2>3 DEF Engine!StartCall, EngineInv, SuccessIsEarned
  <2> QED
    BY <1>3, <2>2, <2>4, <2>5, GameKeeps DEF Engine!StartCall
<1>4. CASE Engine!Frame
  <2>1. /\ game' \in [constructor : Nat, failed : Nat, started : Nat, frames : BOOLEAN]
        /\ game'.failed = game.failed /\ game'.started = game.started
    BY <1>0, <1>4 DEF Engine!Frame
  <2>2. EngineTypes' /\ SuccessIsEarned'
    BY <1>4, <2>1, Zenon DEF Engine!Frame, EngineInv, EngineTypes, SuccessIsEarned
  <2> QED
    BY <1>4, <2>2, GameKeeps DEF Engine!Frame
<1>5. CASE Engine!FramesEnd(b)
  <2>1. stage' \in [do : Dos, part : EngineParts \cup {"hash", "heap"}] /\ stage'.do = "report"
    BY <1>0, <1>5, Zenon DEF Engine!FramesEnd, Dos
  <2>2. EngineTypes' /\ SuccessIsEarned'
    BY <1>5, <2>1 DEF Engine!FramesEnd, EngineInv, EngineTypes, SuccessIsEarned
  <2> QED
    BY <1>5, <2>1, <2>2, GameKeeps DEF Engine!FramesEnd
<1> QED
  BY <1>1, <1>2, <1>3, <1>4, <1>5

(* The report goes before the take-down.                                     *)
LEMMA ReportKeeps ==
    ASSUME EngineInv, NEW bad \in BOOLEAN, Engine!Report(bad)
    PROVE  EngineInv'
<1>1. stage' = [do |-> "take down", part |-> "audio"]
  BY CleanupFirst, Zenon DEF Engine!Report
<1>2. EngineTypes' /\ Stands' /\ SuccessIsEarned'
  <2>1. stage' \in [do : Dos, part : EngineParts \cup {"hash", "heap"}] /\ stage'.do = "take down"
    BY <1>1, Zenon DEF EngineParts, Dos
  <2>2. UNCHANGED <<up, ready, game>> /\ (result' = 1 \/ result' = result) /\ stage.do = "report"
    BY DEF Engine!Report, Engine!At
  <2>4. stage'.do = "take down"
    BY <2>1, Zenon
  <2>3. EngineTypes' /\ Stands'
    BY <2>1, <2>2, Zenon DEF EngineInv, EngineTypes, Stands
  <2> QED
    <3>1. result' = 0 => result = 0
      BY <2>2
    <3> QED
      BY <2>2, <2>3, <2>4, <3>1, Zenon DEF EngineInv, SuccessIsEarned, Engine!At
<1>3. ready' \subseteq up' /\ up' \subseteq ready' \cup Engine!AlwaysTakenDown
  BY DEF Engine!Report, EngineInv, FlagsTell, Engine!At
<1>4. stage'.do = "take down" /\ stage'.part = "audio"
  BY <1>1, Zenon
<1> QED
  BY <1>2, <1>3, <1>4, CleanupBegins, Zenon

(* A part is taken down.                                                     *)
LEMMA TakeDownKeeps == EngineInv /\ Engine!TakeDown => EngineInv'
<1> SUFFICES ASSUME EngineInv, Engine!TakeDown PROVE EngineInv'
  OBVIOUS
<1>1. PICK k \in 1 .. 9 :
         /\ stage.part = Engine!TakeDownOrder[k]
         /\ \A i \in 1 .. k - 1 : Engine!TakeDownOrder[i] \notin up
         /\ k =< 7 => ("window" \in ready => "window" \in up)
  BY TakeDownOrders, Zenon DEF EngineInv, TakenDownInOrder, Engine!TakeDown
<1>2. stage.do = "take down" /\ UNCHANGED <<ready, game, result>>
  BY Zenon DEF Engine!TakeDown, Engine!At
<1>3. up \subseteq ready \cup Engine!AlwaysTakenDown
  BY DEF EngineInv, FlagsTell
<1>4. up' = up \ {Engine!TakeDownOrder[k]}
  <2>1. up' = up \ ({stage.part} \cap (ready \cup Engine!AlwaysTakenDown))
    BY Zenon DEF Engine!TakeDown
  <2> QED
    BY <1>1, <1>3, <2>1
<1>5. stage' = (IF k = 9 THEN [do |-> "returned", part |-> Engine!TakeDownOrder[k]]
                ELSE [do |-> "take down", part |-> Engine!TakeDownOrder[k + 1]])
  BY <1>1, NextPart, Zenon DEF Engine!TakeDown
<1>6. EngineTypes'
  <2>1. Engine!TakeDownOrder[k] \in EngineParts /\ (k # 9 => Engine!TakeDownOrder[k + 1] \in EngineParts)
    <3>1. k # 9 => k + 1 \in 1 .. 9
      OBVIOUS
    <3> QED
      BY <3>1, TakeDownOrders DEF EngineParts
  <2>2. stage' \in [do : Dos, part : EngineParts \cup {"hash", "heap"}]
    BY <1>5, <2>1, Zenon DEF Dos
  <2> QED
    BY <1>2, <1>4, <2>2, Zenon DEF EngineInv, EngineTypes
<1>7. \A i \in 1 .. k : Engine!TakeDownOrder[i] \notin up'
  BY <1>1, <1>4
<1>8. Stands'
  <2>1. up \subseteq EngineParts
    BY DEF EngineInv, EngineTypes
  <2>2. Engine!TakeDownOrder[k] = "elf" => up' = {}
    BY <1>7, <2>1, <1>4, TakeDownOrders DEF EngineParts
  <2>3. Engine!TakeDownOrder[k] = "names" => up' \cap {"jni", "audio"} = {}
    BY <1>7, TakeDownOrders
  <2>4. Engine!TakeDownOrder[k] = "a64" => "offline" \notin up'
    BY <1>7, TakeDownOrders
  <2> QED
    BY <1>4, <2>2, <2>3, <2>4 DEF EngineInv, Stands
<1>9. TakenDownInOrder'
  <2>1. CASE k = 9
    <3>1. up' = {}
      <4>1. up' \subseteq EngineParts
        BY <1>6 DEF EngineTypes
      <4>2. \A i \in 1 .. 9 : Engine!TakeDownOrder[i] \notin up'
        BY <1>7, <2>1
      <4>3. /\ "audio" \notin up' /\ "jni" \notin up' /\ "offline" \notin up' /\ "a64" \notin up'
            /\ "sched" \notin up' /\ "gl" \notin up' /\ "window" \notin up' /\ "names" \notin up'
            /\ "elf" \notin up'
        BY <4>2, TakeDownOrders
      <4> QED
        BY <4>1, <4>3 DEF EngineParts
    <3> QED
      BY <1>5, <2>1, <3>1 DEF TakenDownInOrder, Engine!At
  <2>2. CASE k # 9
    <3>0. k + 1 \in 1 .. 9 /\ k + 1 # 1
      BY <2>2
    <3>1. /\ k + 1 \in DOMAIN Engine!TakeDownOrder /\ stage'.part = Engine!TakeDownOrder[k + 1]
          /\ stage'.do = "take down"
      BY <1>5, <2>2, <3>0, TakeDownOrders, Zenon
    <3>2. \A i \in 1 .. (k + 1) - 1 : Engine!TakeDownOrder[i] \notin up'
      BY <1>7
    <3>3. k + 1 =< 7 => ("window" \in ready' => "window" \in up')
      <4>1. k =< 6 => Engine!TakeDownOrder[k] # "window"
        <5>1. k =< 6 => k \in {1, 2, 3, 4, 5, 6}
          OBVIOUS
        <5> QED
          BY <5>1, TakeDownOrders
      <4>2. k + 1 =< 7 => k =< 6 /\ k =< 7
        OBVIOUS
      <4> QED
        BY <1>1, <1>2, <1>4, <4>1, <4>2, Zenon
    <3> QED
      BY <3>1, <3>2, <3>3, Zenon DEF TakenDownInOrder, Engine!At
  <2> QED
    BY <2>1, <2>2
<1>10. stage'.do \in {"take down", "returned"}
  BY <1>5, Zenon
<1>11. StartsInOrder' /\ FlagsTell' /\ SuccessIsEarned'
  BY <1>2, <1>3, <1>4, <1>10, Zenon DEF EngineInv, StartsInOrder, FlagsTell, SuccessIsEarned, Engine!At
<1> QED
  BY <1>6, <1>8, <1>9, <1>11 DEF EngineInv

(* Every step of the component keeps the invariant.                          *)
LEMMA EngineInductive == EngineInv /\ [Engine!Next]_engineVars => EngineInv'
<1> SUFFICES ASSUME EngineInv, [Engine!Next]_engineVars PROVE EngineInv'
  OBVIOUS
<1>1. CASE UNCHANGED engineVars
  <2>1. EngineTypes' /\ Stands' /\ FlagsTell'
    BY <1>1 DEF engineVars, EngineInv, EngineTypes, Stands, FlagsTell, Engine!At
  <2>2. StartsInOrder'
    BY <1>1 DEF engineVars, EngineInv, StartsInOrder, Engine!At
  <2>3. TakenDownInOrder' /\ SuccessIsEarned'
    BY <1>1, Zenon DEF engineVars, EngineInv, TakenDownInOrder, SuccessIsEarned, Engine!At
  <2> QED
    BY <2>1, <2>2, <2>3 DEF EngineInv
<1>2. CASE Engine!Load
  BY <1>2, LoadKeeps
<1>3. CASE Engine!Fails
  BY <1>3, FailsKeeps
<1>4. CASE Engine!TakeDown
  BY <1>4, TakeDownKeeps
<1>5. CASE Engine!ConstructorsDone \/ Engine!Frame
  BY <1>5, GameStepKeeps
<1>6. ASSUME NEW b \in BOOLEAN, Engine!Start(b) PROVE EngineInv'
  BY <1>6, StartKeeps
<1>7. ASSUME NEW b \in BOOLEAN, Engine!Constructor(b) \/ Engine!StartCall(b) \/ Engine!FramesEnd(b)
      PROVE EngineInv'
  BY <1>7, GameStepKeeps
<1>8. ASSUME NEW b \in BOOLEAN, Engine!Report(b) PROVE EngineInv'
  BY <1>8, ReportKeeps
<1> QED
  BY <1>1, <1>2, <1>3, <1>4, <1>5, <1>6, <1>7, <1>8 DEF Engine!Next

(* Wherever the start of the engine fails and however the game ends, no part *)
(* is taken down while another uses it, nothing is left when mr_engine_main  *)
(* returns, and success is reported only of a run that drew to the end, for  *)
(* any number of static constructors.                                        *)
THEOREM EngineIsTakenDown == Spec => []StartIsUndone
<1>1. Init => EngineInv
  BY EngineInit DEF Init
<1>2. EngineInv /\ [Next]_allVars => EngineInv'
  BY EngineStep, EngineInductive
<1>3. EngineInv => StartIsUndone
  <2> SUFFICES ASSUME EngineInv PROVE Engine!StartIsUndone
    BY DEF StartIsUndone
  <2>1. \A p \in up : Engine!Uses[p] \subseteq up
    BY UsesStand DEF EngineInv
  <2>2. "gl" \in up /\ "window" \in ready => "window" \in up
    <3>1. CASE stage.do \in {"load", "start", "constructors", "start_engine", "run_frames", "report", "returned"}
      BY <3>1, Zenon DEF EngineInv, FlagsTell, TakenDownInOrder, Engine!At
    <3>2. CASE stage.do = "take down"
      <4>1. PICK k \in 1 .. 9 :
               /\ \A i \in 1 .. k - 1 : Engine!TakeDownOrder[i] \notin up
               /\ k =< 7 => ("window" \in ready => "window" \in up)
        BY <3>2, TakeDownOrders, Zenon DEF EngineInv, TakenDownInOrder, Engine!At
      <4>2. k > 7 => "gl" \notin up
        BY <4>1, TakeDownOrders
      <4> QED
        BY <4>1, <4>2
    <3> QED
      BY <3>1, <3>2, Zenon DEF EngineInv, EngineTypes, Dos
  <2>3. Len(Engine!GameCalls) = 5
    BY DEF Engine!GameCalls
  <2> QED
    BY <2>1, <2>2, <2>3, Zenon DEF Engine!StartIsUndone, EngineInv, TakenDownInOrder, SuccessIsEarned
<1> QED
  BY <1>1, <1>2, <1>3, PTL DEF Spec

-----------------------------------------------------------------------------
(* GuestFiles: the overlay, restarts in mid-copy.                            *)

(* A step of the runtime is one of the component, or leaves it alone.        *)
LEMMA FilesStep == [Next]_allVars => [FilesOf!Next]_fileVars
BY DEF Next, OthersRest, allVars, fileVars

(* What PATH_CACHE says of a path is what map_path_uncached would say, and   *)
(* the overlay has no half files under their own names.                      *)
Whole == 1 .. MaxVersion + 1
CacheTells ==
    \A p \in Paths : paths[Slot(p)].guest = p => paths[Slot(p)].layer = FilesOf!map_path_uncached(p)

FilesInv ==
    /\ overlay \in [Paths -> Whole]
    /\ paths = [s \in FilesOf!Slots |-> paths[s]]
    /\ copying \in FilesOf!Calls \cup {FilesOf!NoCall}
    /\ CacheTells

(* The overlay before the first start of the program.                        *)
LEMMA FilesInit == FilesOf!Init => FilesInv
<1> SUFFICES ASSUME FilesOf!Init PROVE FilesInv
  OBVIOUS
<1>1. overlay \in [Paths -> Whole]
  BY FilesAssumption DEF FilesOf!Init, FilesOf!Absent, Whole
<1>2. paths = [s \in FilesOf!Slots |-> FilesOf!NoPath]
  BY DEF FilesOf!Init
<1>3. CacheTells
  BY <1>2, FilesAssumption DEF CacheTells, FilesOf!Slots, FilesOf!NoPath
<1> QED
  BY <1>1, <1>2, <1>3 DEF FilesInv, FilesOf!Init

(* A flush makes the cache say nothing, which is true.                       *)
LEMMA FlushTells ==
    ASSUME FilesOf!path_cache_flush
    PROVE  CacheTells' /\ (paths = [s \in FilesOf!Slots |-> paths[s]])'
<1>1. paths' = [s \in FilesOf!Slots |-> FilesOf!NoPath]
  BY DEF FilesOf!path_cache_flush
<1>2. paths' = [s \in FilesOf!Slots |-> paths'[s]]
  BY <1>1
<1>3. ASSUME NEW p \in Paths PROVE paths'[Slot(p)].guest # p
  BY <1>1, FilesAssumption DEF FilesOf!Slots, FilesOf!NoPath
<1> QED
  BY <1>2, <1>3 DEF CacheTells

(* A call of the program leaves every file whole.                            *)
LEMMA PerformKeepsWhole ==
    ASSUME NEW f \in [Paths -> Whole], NEW d, NEW call \in FilesOf!Calls, FilesOf!Perform(call, f, d)
    PROVE  overlay' \in [Paths -> Whole]
<1>1. call.path \in Paths
  BY DEF FilesOf!Calls
<1>2. FilesOf!Absent \in Whole /\ FilesOf!Fresh \subseteq Whole
  BY FilesAssumption DEF FilesOf!Absent, FilesOf!Fresh, Whole
<1>3. f[call.path] \in Whole
  BY <1>1
<1>4. CASE overlay' = f
  BY <1>4
<1>5. ASSUME NEW v \in FilesOf!Fresh, overlay' = [f EXCEPT ![call.path] = v] PROVE overlay' \in [Paths -> Whole]
  BY <1>2, <1>5
<1>6. CASE overlay' = [f EXCEPT ![call.path] = FilesOf!Absent]
  BY <1>2, <1>6
<1>7. CASE overlay' = [f EXCEPT ![call.path] = IF call.to = call.path THEN @ ELSE FilesOf!Absent,
                                ![call.to] = f[call.path]]
  <2> DEFINE g == [f EXCEPT ![call.path] = IF call.to = call.path THEN @ ELSE FilesOf!Absent]
  <2>1. g \in [Paths -> Whole]
    BY <1>2, <1>3
  <2>2. overlay' = [g EXCEPT ![call.to] = f[call.path]]
    BY <1>7
  <2> HIDE DEF g
  <2> QED
    BY <1>3, <2>1, <2>2
<1> QED
  BY <1>4, <1>5, <1>6, <1>7 DEF FilesOf!Perform

(* Every step of the component keeps the invariant.                          *)
LEMMA FilesInductive == FilesInv /\ [FilesOf!Next]_fileVars => FilesInv'
<1> SUFFICES ASSUME FilesInv, [FilesOf!Next]_fileVars PROVE FilesInv'
  OBVIOUS
<1>0. overlay \in [Paths -> Whole] /\ copying \in FilesOf!Calls \cup {FilesOf!NoCall}
  BY DEF FilesInv
<1>1. CASE UNCHANGED fileVars
  BY <1>1 DEF fileVars, FilesInv, CacheTells, FilesOf!map_path_uncached
<1>2. ASSUME NEW p \in Paths, FilesOf!OpenToRead(p) PROVE FilesInv'
  <2>1. paths' = [paths EXCEPT ![Slot(p)] = [guest |-> p, layer |-> FilesOf!map_path(p)]]
    BY <1>2 DEF FilesOf!OpenToRead
  <2>2. UNCHANGED <<overlay, copying>>
    BY <1>2 DEF FilesOf!OpenToRead
  <2>3. FilesOf!map_path(p) = FilesOf!map_path_uncached(p)
    BY DEF FilesOf!map_path, FilesOf!Cached, FilesInv, CacheTells
  <2>4. paths' = [s \in FilesOf!Slots |-> paths'[s]]
    BY <2>1 DEF FilesInv
  <2>5. ASSUME NEW q \in Paths, paths'[Slot(q)].guest = q
        PROVE  paths'[Slot(q)].layer = FilesOf!map_path_uncached(q)'
    <3>1. FilesOf!map_path_uncached(q)' = FilesOf!map_path_uncached(q)
      BY <2>2 DEF FilesOf!map_path_uncached
    <3>2. Slot(q) \in FilesOf!Slots /\ Slot(p) \in FilesOf!Slots
      BY DEF FilesOf!Slots
    <3>3. CASE Slot(q) = Slot(p)
      <4>1. paths'[Slot(q)] = [guest |-> p, layer |-> FilesOf!map_path(p)]
        BY <2>1, <3>2, <3>3 DEF FilesInv
      <4>2. p = q
        BY <4>1, <2>5
      <4> QED
        BY <4>1, <4>2, <2>3, <3>1
    <3>4. CASE Slot(q) # Slot(p)
      <4>1. paths'[Slot(q)] = paths[Slot(q)]
        BY <2>1, <3>2, <3>4 DEF FilesInv
      <4> QED
        BY <4>1, <2>5, <3>1 DEF FilesInv, CacheTells
    <3> QED
      BY <3>3, <3>4
  <2> QED
    BY <2>2, <2>4, <2>5 DEF FilesInv, CacheTells
<1>3. ASSUME NEW call \in FilesOf!Calls, FilesOf!Write(call) PROVE FilesInv'
  <2>1. overlay' \in [Paths -> Whole]
    BY <1>0, <1>3, PerformKeepsWhole DEF FilesOf!Write
  <2> QED
    BY <1>0, <1>3, <2>1, FlushTells DEF FilesOf!Write, FilesInv
<1>4. ASSUME NEW call \in FilesOf!Calls, FilesOf!CopyFromBase(call) PROVE FilesInv'
  BY <1>4 DEF FilesOf!CopyFromBase, FilesInv, CacheTells, FilesOf!map_path_uncached
<1>5. CASE FilesOf!CopyEnds
  <2>1. copying \in FilesOf!Calls /\ FilesOf!path_cache_flush /\ copying' = FilesOf!NoCall
    BY <1>0, <1>5 DEF FilesOf!CopyEnds
  <2>2. overlay' \in [Paths -> Whole]
    <3> DEFINE f == [overlay EXCEPT ![copying.path] = FilesOf!Original]
    <3>1. FilesOf!Perform(copying, f, dirs) \/ overlay' = overlay
      BY <1>5 DEF FilesOf!CopyEnds
    <3>2. f \in [Paths -> Whole]
      <4>1. FilesOf!Original \in Whole
        BY FilesAssumption DEF FilesOf!Original, Whole
      <4> QED
        BY <1>0, <4>1
    <3> HIDE DEF f
    <3> QED
      BY <1>0, <2>1, <3>1, <3>2, PerformKeepsWhole
  <2> QED
    BY <2>1, <2>2, FlushTells DEF FilesInv
<1>6. ASSUME NEW d, FilesOf!Mkdir(d) \/ FilesOf!Rmdir(d) PROVE FilesInv'
  BY <1>0, <1>6, FlushTells DEF FilesOf!Mkdir, FilesOf!Rmdir, FilesInv
<1>7. CASE FilesOf!Flush \/ FilesOf!Restart
  BY <1>0, <1>7, FlushTells DEF FilesOf!Flush, FilesOf!Restart, FilesInv
<1> QED
  BY <1>1, <1>2, <1>3, <1>4, <1>5, <1>6, <1>7 DEF FilesOf!Next, FilesOf!Call

(* A file that is opened for reading is the newest version of it and whole,  *)
(* whatever was read, copied, written, renamed or removed since its path was *)
(* cached, and wherever the process ended, for any paths and directories,    *)
(* and any sharing of the slots of PATH_CACHE.                               *)
THEOREM FilesAreCurrent == Spec => []ReadsAreCurrent
<1>1. Init => FilesInv
  BY FilesInit DEF Init
<1>2. FilesInv /\ [Next]_allVars => FilesInv'
  BY FilesStep, FilesInductive
<1>3. FilesInv => ReadsAreCurrent
  <2> SUFFICES ASSUME FilesInv, NEW p \in Paths
               PROVE  FilesOf!Read(p) = FilesOf!Newest(p) /\ FilesOf!Read(p) # FilesOf!Partial
    BY DEF ReadsAreCurrent, FilesOf!ReadsAreCurrent, FilesOf!ReadsSeeTheOverlay, FilesOf!NoHalfCopies
  <2>1. FilesOf!map_path(p) = FilesOf!map_path_uncached(p)
    BY DEF FilesOf!map_path, FilesOf!Cached, FilesInv, CacheTells
  <2>2. overlay[p] \in Whole
    BY DEF FilesInv
  <2>3. overlay[p] # 0
    BY <2>2, FilesAssumption DEF Whole
  <2> QED
    BY <2>1, <2>3 DEF FilesOf!Read, FilesOf!Newest, FilesOf!map_path_uncached, FilesOf!Partial, FilesOf!Original
<1> QED
  BY <1>1, <1>2, <1>3, PTL DEF Spec

-----------------------------------------------------------------------------
(* GlTarget: frames and the samples of the target.                           *)

(* A step of the runtime is one of the component, or leaves it alone.        *)
LEMMA TargetStep == [Next]_allVars => [Target!Next]_targetVars
BY DEF Next, OthersRest, allVars, targetVars

(* The game draws where it thinks it does, and the target has every draw of  *)
(* a frame that was begun.                                                   *)
TargetInv ==
    /\ SAMPLES \in BOOLEAN
    /\ draw = bound /\ bound \in {"DEF_FBO", "own"}
    /\ content = [f \in Target!Framebuffers |-> content[f]]
    /\ asked # Target!NotBegun => content["DEF_FBO"] = asked
    /\ Target!FramesAreComplete

(* The framebuffers before the first frame.                                  *)
LEMMA TargetInit == Target!Init => TargetInv
<1> SUFFICES ASSUME Target!Init PROVE TargetInv
  OBVIOUS
<1>1. content = [f \in Target!Framebuffers |-> content[f]]
  BY DEF Target!Init
<1> QED
  BY <1>1 DEF Target!Init, TargetInv, Target!FramesAreComplete

(* Both have the form of Now.                                                *)
LEMMA ResolvedFields ==
    \E a, b, c : Target!Resolved(Target!Now) = [read |-> a, draw |-> b, content |-> c]
<1>1. CASE SAMPLES
  BY <1>1 DEF Target!Resolved, Target!Now
<1>2. CASE ~SAMPLES
  BY <1>2 DEF Target!Resolved, Target!Now
<1> QED
  BY <1>1, <1>2

(* The resolved target has what the target had.                              *)
LEMMA ResolvedHasTheFrame ==
    ASSUME content = [f \in Target!Framebuffers |-> content[f]]
    PROVE  LET s == Target!Resolved(Target!Now)
           IN  /\ s.content[Target!source] = content["DEF_FBO"]
               /\ s.content = [f \in Target!Framebuffers |-> s.content[f]]
<1> USE DEF Target!Resolved, Target!Now, Target!source, Target!Framebuffers
<1>1. CASE SAMPLES
  <2> DEFINE after == [[content EXCEPT !["RESOLVE_FBO"] = content["DEF_FBO"]] EXCEPT !["DEF_FBO"] = Target!Undefined]
  <2>1. after["RESOLVE_FBO"] = content["DEF_FBO"] /\ after = [f \in Target!Framebuffers |-> after[f]]
    OBVIOUS
  <2>2. Target!Resolved(Target!Now).content = after
    BY <1>1
  <2> QED
    BY <1>1, <2>1, <2>2
<1>2. CASE ~SAMPLES
  BY <1>2
<1> QED
  BY <1>1, <1>2

(* On either way to the window the picture is what the target holds, and so  *)
(* is that of a startup capture.                                             *)
LEMMA BlitShowsTheFrame ==
    ASSUME content = [f \in Target!Framebuffers |-> content[f]], NEW one_to_one \in BOOLEAN, NEW capturing \in BOOLEAN
    PROVE  LET s == Target!mr_gl_blit_to_window(one_to_one, capturing)
           IN  /\ s.content["window"] = content["DEF_FBO"]
               /\ capturing => s.content[Target!source] = content["DEF_FBO"]
               /\ s.content = [f \in Target!Framebuffers |-> s.content[f]]
<1> DEFINE direct == SAMPLES /\ one_to_one /\ ~capturing
           kept == [content EXCEPT !["DEF_FBO"] = Target!Undefined]
           s == Target!mr_gl_blit_to_window(one_to_one, capturing)
           from == IF direct THEN kept ELSE Target!Resolved(Target!Now).content
           picture == IF direct THEN content["DEF_FBO"] ELSE Target!Resolved(Target!Now).content[Target!source]
<1>1. s.content = [from EXCEPT !["window"] = picture]
  <2>1. CASE direct
    BY <2>1 DEF Target!mr_gl_blit_to_window, Target!Now
  <2>2. CASE ~direct
    <3> DEFINE r == Target!Resolved(Target!Now)
    <3>1. PICK a, b, c : r = [read |-> a, draw |-> b, content |-> c]
      BY ResolvedFields
    <3>2. s = [r EXCEPT !.read = Target!source, !.draw = "window",
                        !.content = [@ EXCEPT !["window"] = r.content[Target!source]]]
      BY <2>2 DEF Target!mr_gl_blit_to_window
    <3> HIDE DEF r
    <3>3. s.content = [r.content EXCEPT !["window"] = r.content[Target!source]]
      BY <3>1, <3>2
    <3> QED
      BY <2>2, <3>3 DEF r
  <2> QED
    BY <2>1, <2>2
<1>2. picture = content["DEF_FBO"]
  BY ResolvedHasTheFrame
<1>3. from = [f \in Target!Framebuffers |-> from[f]]
  <2>1. CASE direct
    BY <2>1
  <2>2. CASE ~direct
    BY <2>2, ResolvedHasTheFrame
  <2> QED
    BY <2>1, <2>2
<1>4. capturing => from[Target!source] = content["DEF_FBO"]
  BY ResolvedHasTheFrame
<1>5. Target!source \in Target!Framebuffers \ {"window"} /\ "window" \in Target!Framebuffers
  BY DEF Target!source, Target!Framebuffers
<1> HIDE DEF from, picture, s
<1>6. /\ s.content["window"] = picture
      /\ s.content[Target!source] = from[Target!source]
      /\ s.content = [f \in Target!Framebuffers |-> s.content[f]]
  BY <1>1, <1>3, <1>5
<1> QED
  BY <1>2, <1>4, <1>6 DEF s

(* Every step of the component keeps the invariant, of a game that does not  *)
(* read a multisampled target back.                                          *)
LEMMA TargetInductive ==
    ASSUME ~ReadsBack, TargetInv, [Target!Next]_targetVars
    PROVE  TargetInv'
<1> USE DEF Target!Becomes
<1>0. /\ content = [f \in Target!Framebuffers |-> content[f]]
      /\ "DEF_FBO" \in Target!Framebuffers /\ "own" \in Target!Framebuffers
      /\ "RESOLVE_FBO" \in Target!Framebuffers /\ "window" \in Target!Framebuffers
  BY DEF TargetInv, Target!Framebuffers
<1>1. CASE UNCHANGED targetVars
  BY <1>1 DEF targetVars, TargetInv, Target!FramesAreComplete
<1>2. ASSUME NEW f \in {"DEF_FBO", "own"}, Target!t_glBindFramebuffer(f) PROVE TargetInv'
  BY <1>2 DEF Target!t_glBindFramebuffer, TargetInv, Target!FramesAreComplete
<1>3. CASE Target!t_glClear
  <2>1. content' = [f \in Target!Framebuffers |-> content'[f]]
    BY <1>0, <1>3 DEF Target!t_glClear
  <2>2. asked' # Target!NotBegun => content'["DEF_FBO"] = asked'
    BY <1>0, <1>3 DEF Target!t_glClear, TargetInv
  <2> QED
    BY <1>3, <2>1, <2>2 DEF Target!t_glClear, TargetInv, Target!FramesAreComplete
<1>4. CASE Target!t_glDrawElements
  <2>1. content' = [f \in Target!Framebuffers |-> content'[f]]
    BY <1>0, <1>4 DEF Target!t_glDrawElements
  <2>2. asked' # Target!NotBegun => content'["DEF_FBO"] = asked'
    <3>1. CASE bound = "own"
      BY <1>0, <1>4, <3>1 DEF Target!t_glDrawElements, TargetInv
    <3>2. CASE bound = "DEF_FBO"
      <4>1. asked # Target!NotBegun
        BY <1>4, <3>2, DrawsAssumption DEF Target!t_glDrawElements, Target!NotBegun, Target!Undefined
      <4>2. content'["DEF_FBO"] = Target!More(content["DEF_FBO"]) /\ asked' = Target!More(asked)
        BY <1>0, <1>4, <3>2 DEF Target!t_glDrawElements, TargetInv
      <4> QED
        BY <4>1, <4>2 DEF TargetInv
    <3> QED
      BY <3>1, <3>2 DEF TargetInv
  <2> QED
    BY <1>4, <2>1, <2>2 DEF Target!t_glDrawElements, TargetInv, Target!FramesAreComplete
<1>5. CASE Target!ReadPixels
  <2>1. UNCHANGED <<SAMPLES, bound, asked, shown>> /\ ~SAMPLES
    BY <1>5 DEF Target!ReadPixels
  <2>2. UNCHANGED <<draw, content>>
    BY <1>5, <2>1 DEF Target!ReadPixels, Target!Now
  <2> QED
    BY <2>1, <2>2 DEF TargetInv, Target!FramesAreComplete
<1>6. CASE Target!Resize
  <2>1. /\ asked' = Target!NotBegun /\ shown' = shown /\ bound' = "DEF_FBO" /\ SAMPLES' \in BOOLEAN
    BY <1>6 DEF Target!Resize, TargetInv, Target!NotBegun, Target!Undefined
  <2>2. /\ draw' = "DEF_FBO"
        /\ content' = [[content EXCEPT !["DEF_FBO"] = Target!Undefined] EXCEPT !["RESOLVE_FBO"] = Target!Undefined]
    BY <1>6 DEF Target!Resize, Target!Now
  <2>3. content' = [f \in Target!Framebuffers |-> content'[f]]
    BY <1>0, <2>2
  <2> QED
    BY <2>1, <2>2, <2>3 DEF TargetInv, Target!FramesAreComplete, Target!NotBegun, Target!Undefined
<1>7. ASSUME NEW one_to_one \in BOOLEAN, NEW menu_signal \in BOOLEAN,
             Target!mr_win_present(one_to_one, menu_signal)
      PROVE  TargetInv'
  <2> DEFINE capturing == menu_signal /\ capture # "visible"
             s == Target!mr_gl_blit_to_window(one_to_one, capturing)
  <2>1. capturing \in BOOLEAN
    OBVIOUS
  <2>2. /\ s.content["window"] = asked /\ (capturing => s.content[Target!source] = asked)
        /\ s.content = [f \in Target!Framebuffers |-> s.content[f]]
    BY <1>0, <1>7, <2>1, BlitShowsTheFrame DEF Target!mr_win_present, TargetInv
  <2>3. shown' = [asked |-> asked, seen |-> s.content["window"],
                  captured |-> IF capturing THEN s.content[Target!source] ELSE asked]
    BY <1>7 DEF Target!mr_win_present
  <2>4. asked' = Target!NotBegun /\ bound' = "DEF_FBO" /\ SAMPLES' = SAMPLES
    BY <1>7 DEF Target!mr_win_present
  <2>5. draw' = "DEF_FBO" /\ content' = [s.content EXCEPT !["window"] = Target!Undefined]
    <3>1. /\ draw' = Target!mr_gl_restore_target([s EXCEPT !.content = [@ EXCEPT !["window"] = Target!Undefined]]).draw
          /\ content' = Target!mr_gl_restore_target([s EXCEPT !.content = [@ EXCEPT !["window"] = Target!Undefined]]).content
      BY <1>7 DEF Target!mr_win_present
    <3>2. \E a, b, c : s = [read |-> a, draw |-> b, content |-> c]
      <4> DEFINE direct == SAMPLES /\ one_to_one /\ ~capturing
                 kept == [Target!Now EXCEPT !.content = [@ EXCEPT !["DEF_FBO"] = Target!Undefined]]
                 t == IF direct THEN kept ELSE Target!Resolved(Target!Now)
      <4>1. \E a, b, c : t = [read |-> a, draw |-> b, content |-> c]
        <5>1. CASE direct
          BY <5>1 DEF Target!Now
        <5>2. CASE ~direct
          BY <5>2, ResolvedFields
        <5> QED
          BY <5>1, <5>2
      <4>2. \E a, b, c : s = [t EXCEPT !.read = a, !.draw = b, !.content = c]
        BY Zenon DEF Target!mr_gl_blit_to_window
      <4> HIDE DEF s, t
      <4> QED
        BY <4>1, <4>2
    <3> HIDE DEF s
    <3> QED
      BY <3>1, <3>2 DEF Target!mr_gl_restore_target
  <2> HIDE DEF s, capturing
  <2>6. content' = [f \in Target!Framebuffers |-> content'[f]]
    BY <2>2, <2>5
  <2>7. shown'.seen = shown'.asked /\ shown'.captured = shown'.asked
    BY <2>2, <2>3
  <2> QED
    BY <2>4, <2>5, <2>6, <2>7 DEF TargetInv, Target!FramesAreComplete, Target!NotBegun, Target!Undefined
<1> QED
  BY <1>1, <1>2, <1>3, <1>4, <1>5, <1>6, <1>7 DEF Target!Next

(* Of a game that does not read a multisampled target back, every frame that *)
(* is presented shows every draw since it was cleared, on whatever path it   *)
(* reached the drawable, and so does the picture of the startup capture.     *)
THEOREM PresentedFramesAreComplete == ~ReadsBack => (Spec => []FramesAreComplete)
<1> SUFFICES ASSUME ~ReadsBack PROVE Spec => []FramesAreComplete
  OBVIOUS
<1>1. Init => TargetInv
  BY TargetInit DEF Init
<1>2. TargetInv /\ [Next]_allVars => TargetInv'
  BY TargetStep, TargetInductive
<1>3. TargetInv => FramesAreComplete
  BY DEF TargetInv, FramesAreComplete
<1> QED
  BY <1>1, <1>2, <1>3, PTL DEF Spec

-----------------------------------------------------------------------------
(* GuestCalls, from the theorems about it alone.                             *)

CallsProved == INSTANCE GuestCallsProofs

(* Nested calls come back, in the program: GuestCallsProofs!NestedCallsReturn. *)
THEOREM ProgramCallsNest == Spec => []CallsNest
<1>1. CallsProved!Spec => []CallsProved!CallsNest
  BY CallsProved!NestedCallsReturn, AddressesAssumption
     DEF CallsProved!Addresses, CallsProved!MAGIC, CallsProved!Import, CallsProved!None,
         Calls!MAGIC, Calls!Import, Calls!None
<1>2. Init => CallsProved!Init
  BY Zenon DEF Init, Calls!Init, CallsProved!Init, Calls!None, CallsProved!None, Calls!NoJump, CallsProved!NoJump
<1>3. ASSUME [Next]_allVars PROVE [CallsProved!Next]_(CallsProved!boundary)
  <2>1. CASE part = "calls" /\ Calls!Next
    BY <2>1, Zenon DEF Calls!Next, CallsProved!Next, Calls!mr_guest_call, CallsProved!mr_guest_call,
       Calls!GuestCall, CallsProved!GuestCall, Calls!CallsImport, CallsProved!CallsImport,
       Calls!kuser_step, CallsProved!kuser_step, Calls!CallReturns, CallsProved!CallReturns,
       Calls!GuestReturns, CallsProved!GuestReturns, Calls!ImportEntered, CallsProved!ImportEntered,
       Calls!s_setjmp, CallsProved!s_setjmp, Calls!s_longjmp, CallsProved!s_longjmp,
       Calls!Blocks, CallsProved!Blocks, Calls!ImportReturns, CallsProved!ImportReturns,
       Calls!HookEntered, CallsProved!HookEntered, Calls!mr_guest_synthetic_return,
       CallsProved!mr_guest_synthetic_return, Calls!Faults, CallsProved!Faults, Calls!Unwind, CallsProved!Unwind,
       Calls!MAGIC, CallsProved!MAGIC, Calls!Import, CallsProved!Import, Calls!None, CallsProved!None,
       Calls!NoJump, CallsProved!NoJump, Calls!Level, CallsProved!Level, Calls!Inside, CallsProved!Inside,
       Calls!Working, CallsProved!Working, Calls!InGuest, CallsProved!InGuest, Calls!Translated, CallsProved!Translated,
       Calls!BranchTo, CallsProved!BranchTo, Calls!Restored, CallsProved!Restored, Calls!Kept, CallsProved!Kept,
       Calls!Last, CallsProved!Last, Calls!Front, CallsProved!Front
  <2>2. CASE UNCHANGED callVars
    BY <2>2, Zenon DEF callVars, CallsProved!boundary
  <2> QED
    BY <1>3, <2>1, <2>2, Zenon DEF Next, OthersRest, allVars
<1>4. CallsProved!CallsNest => CallsNest
  BY Zenon DEF CallsNest, Calls!CallsNest, CallsProved!CallsNest,
       Calls!MAGIC, CallsProved!MAGIC, Calls!Import, CallsProved!Import, Calls!None, CallsProved!None,
       Calls!Inside, CallsProved!Inside, Calls!InGuest, CallsProved!InGuest, Calls!Translated, CallsProved!Translated,
       Calls!Last, CallsProved!Last
<1> QED
  BY <1>1, <1>2, <1>3, <1>4, PTL DEF Spec, CallsProved!Spec

-----------------------------------------------------------------------------
(* GlUploads: no upload waits.                                               *)

QueuedCommands == [slot : Uploads!Slots, finds : {"buffer", "old storage", "waited for", "fence"}]

UploadsTyped ==
    /\ USE_PBO_SYNC \in BOOLEAN
    /\ slots \in [Uploads!Slots -> [capacity : Nat, fenced : BOOLEAN]]
    /\ UPLOAD_PBO_NEXT \in Uploads!Slots
    /\ gpu \in Seq(QueuedCommands)

(* While fences are used, a buffer that is still to be read is fenced, and     *)
(* its fence is behind the read.                                               *)
ReadsAreFenced ==
    USE_PBO_SYNC => \A n \in 1..Len(gpu) : gpu[n].finds = "buffer" =>
        /\ slots[gpu[n].slot].fenced
        /\ \E m \in n + 1..Len(gpu) : gpu[m] = Uploads!Fence(gpu[n].slot)

UploadsInv == UploadsTyped /\ ReadsAreFenced /\ Uploads!UploadsNeverWait

(* A set of naturals that is not empty has a smallest element.                 *)
LEMMA Smallest ==
    ASSUME NEW S \in SUBSET Nat, S # {}
    PROVE  \E n \in S : \A m \in S : n <= m
<1> DEFINE R == OpToRel(<, Nat)
<1>1. IsWellFoundedOn(R, Nat)
  BY NatLessThanWellFounded
<1>2. PICK n \in S : \A m \in S : <<m, n>> \notin R
  BY <1>1, WFMin
<1>3. \A m \in S : ~(m < n)
  BY <1>2 DEF OpToRel
<1> QED
  BY <1>3

(* The search over the ring comes to every buffer.                             *)
LEMMA RingIsCovered ==
    ASSUME UPLOAD_PBO_COUNT \in Nat, NEW first \in Uploads!Slots, NEW s \in Uploads!Slots
    PROVE  \E n \in Uploads!Slots : (first + n) % UPLOAD_PBO_COUNT = s
<1>1. CASE s >= first
  <2>1. s - first \in Uploads!Slots /\ (first + (s - first)) % UPLOAD_PBO_COUNT = s
    BY <1>1 DEF Uploads!Slots
  <2> QED
    BY <2>1
<1>2. CASE s < first
  <2>1. s + UPLOAD_PBO_COUNT - first \in Uploads!Slots
    BY <1>2 DEF Uploads!Slots
  <2>2. (first + (s + UPLOAD_PBO_COUNT - first)) % UPLOAD_PBO_COUNT = s
    BY <1>2 DEF Uploads!Slots
  <2> QED
    BY <2>1, <2>2
<1> QED
  BY <1>1, <1>2 DEF Uploads!Slots

(* The buffer that is selected is ready, if any is.                            *)
LEMMA SelectedIsReady ==
    ASSUME UPLOAD_PBO_COUNT \in Nat, UPLOAD_PBO_NEXT \in Uploads!Slots,
           \E s \in Uploads!Slots : Uploads!pbo_slot_ready(s)
    PROVE  Uploads!Selected \in Uploads!Slots /\ Uploads!pbo_slot_ready(Uploads!Selected)
<1> DEFINE nth(n) == (UPLOAD_PBO_NEXT + n) % UPLOAD_PBO_COUNT
           Found(n) == Uploads!pbo_slot_ready(nth(n)) /\ \A m \in 0..n - 1 : ~Uploads!pbo_slot_ready(nth(m))
           S == {n \in Uploads!Slots : Uploads!pbo_slot_ready(nth(n))}
<1>1. S \in SUBSET Nat /\ S # {}
  <2>1. PICK s \in Uploads!Slots : Uploads!pbo_slot_ready(s)
    OBVIOUS
  <2>2. PICK n \in Uploads!Slots : nth(n) = s
    BY RingIsCovered
  <2> HIDE DEF nth
  <2>3. Uploads!pbo_slot_ready(nth(n))
    BY <2>1, <2>2, Zenon
  <2>4. n \in S
    BY <2>3, Zenon
  <2> QED
    BY <2>4 DEF Uploads!Slots
<1>2. PICK n \in S : \A m \in S : n <= m
  BY <1>1, Smallest
<1>3. n \in Uploads!Slots /\ Found(n)
  <2> HIDE DEF nth
  <2>1. n \in Uploads!Slots /\ Uploads!pbo_slot_ready(nth(n))
    BY <1>2, Zenon
  <2>2. \A m \in 0..n - 1 : m \in Uploads!Slots /\ ~(n <= m)
    BY <2>1 DEF Uploads!Slots
  <2>3. \A m \in Uploads!Slots : Uploads!pbo_slot_ready(nth(m)) => n <= m
    BY <1>2, Zenon
  <2> QED
    BY <2>1, <2>2, <2>3, Zenon
<1>4. Uploads!Selected = nth(CHOOSE k \in Uploads!Slots : Found(k))
  BY DEF Uploads!Selected
<1> HIDE DEF Found
<1>5. PICK k \in Uploads!Slots : Found(k) /\ Uploads!Selected = nth(k)
  BY <1>3, <1>4
<1>6. nth(k) \in Uploads!Slots
  BY DEF Uploads!Slots
<1> QED
  BY <1>5, <1>6 DEF Found

(* Intervals from 1 that are equal have the same end.                          *)
LEMMA SameInterval ==
    ASSUME NEW i \in Nat, NEW j \in Nat, 1..i = 1..j
    PROVE  i = j
<1>1. i \in 1..j \/ i = 0
  OBVIOUS
<1>2. j \in 1..i \/ j = 0
  OBVIOUS
<1> QED
  BY <1>1, <1>2

(* What a read and a fence of the queue name.                                  *)
LEMMA ReadsDiffer ==
    ASSUME NEW b
    PROVE  /\ Uploads!Read(b).finds = "buffer" /\ Uploads!Read(b).slot = b
           /\ Uploads!Fence(b).finds = "fence" /\ Uploads!Fence(b).slot = b
BY DEF Uploads!Read, Uploads!Fence

(* A read that Now has marked is no read of the buffer any more.               *)
LEMMA MarksDiffer ==
    ASSUME NEW b, NEW where \in {"old storage", "waited for"}
    PROVE  [slot |-> b, finds |-> where].finds = where /\ [slot |-> b, finds |-> where] # Uploads!Read(b)
<1>1. [slot |-> b, finds |-> where].finds = where
  OBVIOUS
<1> QED
  BY <1>1, ReadsDiffer

(* A queue, and two sequences that are put behind it.                          *)
LEMMA ThreeParts ==
    ASSUME NEW S, NEW s \in Seq(S), NEW t \in Seq(S), NEW u \in Seq(S)
    PROVE  /\ s \o t \o u \in Seq(S)
           /\ Len(s \o t \o u) = Len(s) + Len(t) + Len(u)
           /\ \A n \in 1..Len(s) : (s \o t \o u)[n] = s[n]
           /\ \A n \in 1..Len(t) : (s \o t \o u)[Len(s) + n] = t[n]
           /\ \A n \in 1..Len(u) : (s \o t \o u)[Len(s) + Len(t) + n] = u[n]
<1>1. Len(s) \in Nat /\ Len(t) \in Nat /\ Len(u) \in Nat
  BY LenProperties
<1>2. /\ s \o t \in Seq(S) /\ Len(s \o t) = Len(s) + Len(t)
      /\ \A n \in 1..Len(s) + Len(t) :
            (s \o t)[n] = IF n <= Len(s) THEN s[n] ELSE t[n - Len(s)]
  BY ConcatProperties
<1> DEFINE st == s \o t
<1> HIDE DEF st
<1>3. /\ st \o u \in Seq(S) /\ Len(st \o u) = Len(st) + Len(u)
      /\ \A n \in 1..Len(st) + Len(u) :
            (st \o u)[n] = IF n <= Len(st) THEN st[n] ELSE u[n - Len(st)]
  BY <1>2, ConcatProperties DEF st
<1> DEFINE stu == st \o u
<1> HIDE DEF stu
<1>4. Len(st) = Len(s) + Len(t)
  BY <1>2 DEF st
<1>5. \A n \in 1..Len(s) : stu[n] = s[n]
  BY <1>1, <1>2, <1>3, <1>4 DEF st, stu
<1>6. \A n \in 1..Len(t) : stu[Len(s) + n] = t[n]
  BY <1>1, <1>2, <1>3, <1>4 DEF st, stu
<1>7. \A n \in 1..Len(u) : stu[Len(s) + Len(t) + n] = u[n]
  BY <1>1, <1>3, <1>4 DEF stu
<1> QED
  BY <1>3, <1>4, <1>5, <1>6, <1>7 DEF st, stu

(* The places of a queue of length len that had length old before k commands   *)
(* were put behind it.                                                         *)
Places(old, k, len) ==
    /\ \A n \in 1..len : \/ n \in 1..old
                         \/ n > old /\ n = old + 1 /\ k # 0
                         \/ n > old /\ n = old + 2 /\ k = 2
    /\ \A n \in 1..old : ~(n > old)
    /\ \A n \in 1..old : \A m \in n + 1..old : m \in 1..old /\ m \in n + 1..len
    /\ k = 2 => old + 2 \in old + 1 + 1..len

(* Putting k commands behind a queue gives these places.                       *)
LEMMA PlacesBehind ==
    ASSUME NEW old \in Nat, NEW k \in 0..2
    PROVE  Places(old, k, old + k)
BY DEF Places

(* What Now makes of a queue.                                                  *)
LEMMA NowChangesReads ==
    ASSUME NEW queue \in Seq(QueuedCommands), NEW b \in Uploads!Slots,
           NEW where \in {"old storage", "waited for"}
    PROVE  /\ Uploads!Now(queue, b, where) \in Seq(QueuedCommands)
           /\ Len(Uploads!Now(queue, b, where)) = Len(queue)
           /\ \A n \in 1..Len(queue) :
                 Uploads!Now(queue, b, where)[n] =
                     IF queue[n] = Uploads!Read(b) THEN [slot |-> b, finds |-> where] ELSE queue[n]
<1>1. DOMAIN queue = 1..Len(queue) /\ Len(queue) \in Nat /\ queue \in [1..Len(queue) -> QueuedCommands]
  BY LenProperties
<1>3. \A n \in 1..Len(queue) :
         /\ Uploads!Now(queue, b, where)[n] =
               IF queue[n] = Uploads!Read(b) THEN [slot |-> b, finds |-> where] ELSE queue[n]
         /\ Uploads!Now(queue, b, where)[n] \in QueuedCommands
  BY <1>1 DEF Uploads!Now, QueuedCommands
<1>4. Uploads!Now(queue, b, where) \in [1..Len(queue) -> QueuedCommands]
  BY <1>1, <1>3 DEF Uploads!Now
<1>5. Uploads!Now(queue, b, where) \in Seq(QueuedCommands) /\ Len(Uploads!Now(queue, b, where)) = Len(queue)
  <2>1. \E n \in Nat : Uploads!Now(queue, b, where) \in [1..n -> QueuedCommands]
    BY <1>1, <1>4
  <2>2. Uploads!Now(queue, b, where) \in Seq(QueuedCommands)
    BY <2>1, SeqDef, Zenon
  <2>3. DOMAIN Uploads!Now(queue, b, where) = 1..Len(Uploads!Now(queue, b, where))
        /\ Len(Uploads!Now(queue, b, where)) \in Nat
    BY <2>2, LenProperties
  <2>4. 1..Len(Uploads!Now(queue, b, where)) = 1..Len(queue)
    BY <1>4, <2>3
  <2> QED
    BY <1>1, <2>2, <2>3, <2>4, SameInterval
<1> QED
  BY <1>3, <1>5

(* What an upload makes of the queue: the read comes behind the commands it    *)
(* had, then the fence.                                                        *)
Extends(g, queue, k) ==
    /\ g \in Seq(QueuedCommands) /\ Len(g) = Len(queue) + k
    /\ \A n \in 1..Len(queue) : g[n] = queue[n]

(* The three ends an upload can give the queue.                                *)
LEMMA UploadQueues ==
    ASSUME NEW queue \in Seq(QueuedCommands), NEW b \in Uploads!Slots
    PROVE  /\ Extends(queue \o <<>> \o <<>>, queue, 0)
           /\ LET g == queue \o <<Uploads!Read(b)>> \o <<>>
              IN  Extends(g, queue, 1) /\ g[Len(queue) + 1] = Uploads!Read(b)
           /\ LET g == queue \o <<Uploads!Read(b)>> \o <<Uploads!Fence(b)>>
              IN  Extends(g, queue, 2) /\ g[Len(queue) + 1] = Uploads!Read(b) /\ g[Len(queue) + 2] = Uploads!Fence(b)
<1>1. <<>> \in Seq(QueuedCommands) /\ <<Uploads!Read(b)>> \in Seq(QueuedCommands) /\ <<Uploads!Fence(b)>> \in Seq(QueuedCommands)
  <2>1. Uploads!Read(b) \in QueuedCommands /\ Uploads!Fence(b) \in QueuedCommands
    BY DEF Uploads!Read, Uploads!Fence, QueuedCommands
  <2> QED
    BY <2>1
<1>2. Len(queue) \in Nat
  BY LenProperties
<1>3. Extends(queue \o <<>> \o <<>>, queue, 0)
  BY <1>1, <1>2, ThreeParts DEF Extends
<1>4. LET g == queue \o <<Uploads!Read(b)>> \o <<>>
      IN  Extends(g, queue, 1) /\ g[Len(queue) + 1] = Uploads!Read(b)
  <2> DEFINE g == queue \o <<Uploads!Read(b)>> \o <<>>
  <2>1. /\ g \in Seq(QueuedCommands) /\ Len(g) = Len(queue) + 1 + 0
        /\ \A n \in 1..Len(queue) : g[n] = queue[n]
        /\ \A n \in 1..1 : g[Len(queue) + n] = <<Uploads!Read(b)>>[n]
    BY <1>1, ThreeParts
  <2> HIDE DEF g
  <2> QED
    BY <1>2, <2>1 DEF Extends
<1>5. LET g == queue \o <<Uploads!Read(b)>> \o <<Uploads!Fence(b)>>
      IN  Extends(g, queue, 2) /\ g[Len(queue) + 1] = Uploads!Read(b) /\ g[Len(queue) + 2] = Uploads!Fence(b)
  <2> DEFINE g == queue \o <<Uploads!Read(b)>> \o <<Uploads!Fence(b)>>
  <2>1. /\ g \in Seq(QueuedCommands) /\ Len(g) = Len(queue) + 1 + 1
        /\ \A n \in 1..Len(queue) : g[n] = queue[n]
        /\ \A n \in 1..1 : g[Len(queue) + n] = <<Uploads!Read(b)>>[n]
        /\ \A n \in 1..1 : g[Len(queue) + 1 + n] = <<Uploads!Fence(b)>>[n]
    BY <1>1, ThreeParts
  <2> HIDE DEF g
  <2>2. Len(g) = Len(queue) + 2 /\ g[Len(queue) + 1] = Uploads!Read(b) /\ g[Len(queue) + 1 + 1] = Uploads!Fence(b)
    BY <1>2, <2>1
  <2>3. Len(queue) + 1 + 1 = Len(queue) + 2
    BY <1>2
  <2> QED
    BY <2>1, <2>2, <2>3 DEF Extends
<1> QED
  BY <1>3, <1>4, <1>5

(* An empty queue satisfies the invariant.                                     *)
LEMMA UploadsInit ==
    ASSUME UPLOAD_PBO_COUNT \in Nat \ {0}, Uploads!Init
    PROVE  UploadsInv
BY DEF Uploads!Init, UploadsInv, UploadsTyped, ReadsAreFenced, Uploads!UploadsNeverWait, Uploads!Slots

(* No queued command reads the buffer that is selected; with fences because    *)
(* its own fence is past, without because it gets new storage.                 *)
LEMMA UploadKeeps ==
    ASSUME UPLOAD_PBO_COUNT \in Nat \ {0}, Sizes \subseteq Nat, UploadsInv,
           NEW size \in Sizes, NEW mapped \in BOOLEAN, NEW fence \in BOOLEAN,
           Uploads!Upload(size, mapped, fence)
    PROVE  UploadsInv'
<1> DEFINE b == Uploads!Selected
           renewed == ~USE_PBO_SYNC \/ slots[b].capacity < size
           waiting == IF renewed THEN Uploads!Now(gpu, b, "old storage") ELSE gpu
           mappedNow == Uploads!Now(waiting, b, "waited for")
           fenced == USE_PBO_SYNC /\ fence
<1>1. /\ gpu' = mappedNow \o (IF mapped THEN <<Uploads!Read(b)>> ELSE <<>>)
                         \o (IF mapped /\ fenced THEN <<Uploads!Fence(b)>> ELSE <<>>)
      /\ UPLOAD_PBO_NEXT' = (b + 1) % UPLOAD_PBO_COUNT
      /\ USE_PBO_SYNC' = (USE_PBO_SYNC /\ (mapped => fence))
      /\ slots' = [slots EXCEPT ![b] = [capacity |-> IF renewed THEN size ELSE @.capacity,
                                        fenced |-> mapped /\ fenced]]
      /\ \E s \in Uploads!Slots : Uploads!pbo_slot_ready(s)
  BY DEF Uploads!Upload
<1>2. b \in Uploads!Slots /\ Uploads!pbo_slot_ready(b)
  BY <1>1, SelectedIsReady DEF UploadsInv, UploadsTyped
<1> HIDE DEF b
<1>3. /\ gpu \in Seq(QueuedCommands) /\ Len(gpu) \in Nat
      /\ \A n \in 1..Len(gpu) : gpu[n] \in QueuedCommands /\ gpu[n].finds # "waited for"
  <2>1. DOMAIN gpu = 1..Len(gpu) /\ gpu \in [1..Len(gpu) -> QueuedCommands] /\ Len(gpu) \in Nat
    BY LenProperties DEF UploadsInv, UploadsTyped
  <2> QED
    BY <2>1 DEF UploadsInv, UploadsTyped, Uploads!UploadsNeverWait
<1>4. waiting \in Seq(QueuedCommands) /\ Len(waiting) = Len(gpu)
  BY <1>2, NowChangesReads DEF UploadsInv, UploadsTyped
<1>5. \A n \in 1..Len(gpu) : /\ waiting[n] # Uploads!Read(b)
                             /\ waiting[n].finds # "waited for"
                             /\ waiting[n] # gpu[n] => renewed /\ gpu[n] = Uploads!Read(b)
                                                       /\ waiting[n].finds = "old storage"
  <2>1. CASE renewed
    <3>1. \A n \in 1..Len(gpu) :
             waiting[n] = IF gpu[n] = Uploads!Read(b) THEN [slot |-> b, finds |-> "old storage"] ELSE gpu[n]
      BY <1>3, <1>2, <2>1, NowChangesReads
    <3> HIDE DEF waiting, renewed
    <3> SUFFICES ASSUME NEW n \in 1..Len(gpu)
                 PROVE  /\ waiting[n] # Uploads!Read(b) /\ waiting[n].finds # "waited for"
                        /\ waiting[n] # gpu[n] => renewed /\ gpu[n] = Uploads!Read(b)
                                                  /\ waiting[n].finds = "old storage"
      OBVIOUS
    <3>2. CASE gpu[n] = Uploads!Read(b)
      <4>1. waiting[n] = [slot |-> b, finds |-> "old storage"]
        BY <3>1, <3>2
      <4>2. waiting[n].finds = "old storage" /\ waiting[n] # Uploads!Read(b)
        BY <4>1, MarksDiffer, Zenon
      <4> QED
        BY <2>1, <3>2, <4>2
    <3>3. CASE gpu[n] # Uploads!Read(b)
      BY <1>3, <3>1, <3>3
    <3> QED
      BY <3>2, <3>3
  <2>2. CASE ~renewed
    <3>1. ASSUME NEW n \in 1..Len(gpu), gpu[n] = Uploads!Read(b) PROVE FALSE
      <4>1. slots[b].fenced /\ \E m \in n + 1..Len(gpu) : gpu[m] = Uploads!Fence(b)
        BY <2>2, <3>1 DEF UploadsInv, ReadsAreFenced, Uploads!Read
      <4> QED
        BY <1>2, <2>2, <3>1, <4>1 DEF Uploads!pbo_slot_ready, Uploads!Signalled, UploadsInv, UploadsTyped
    <3>2. waiting = gpu
      BY <2>2
    <3> HIDE DEF waiting
    <3> QED
      BY <1>3, <3>1, <3>2
  <2> QED
    BY <2>1, <2>2
<1>6. /\ mappedNow \in Seq(QueuedCommands) /\ Len(mappedNow) = Len(gpu)
      /\ \A n \in 1..Len(gpu) : mappedNow[n] = waiting[n]
  <2> HIDE DEF waiting
  <2>1. /\ mappedNow \in Seq(QueuedCommands) /\ Len(mappedNow) = Len(waiting)
        /\ \A n \in 1..Len(waiting) :
              mappedNow[n] = IF waiting[n] = Uploads!Read(b) THEN [slot |-> b, finds |-> "waited for"]
                             ELSE waiting[n]
    BY <1>2, <1>4, NowChangesReads
  <2> HIDE DEF mappedNow
  <2> QED
    BY <1>4, <1>5, <2>1
<1> HIDE DEF waiting, mappedNow, renewed
<1> HIDE DEF fenced
<1>7. PICK k \in 0..2 :
        /\ Extends(gpu', mappedNow, k)
        /\ k # 0 => mapped /\ gpu'[Len(mappedNow) + 1] = Uploads!Read(b)
        /\ k = 2 => gpu'[Len(mappedNow) + 2] = Uploads!Fence(b)
        /\ mapped /\ fenced => k = 2
  <2>1. CASE ~mapped
    <3>1. gpu' = mappedNow \o <<>> \o <<>>
      BY <1>1, <2>1
    <3>2. Extends(gpu', mappedNow, 0)
      BY <1>2, <1>6, <3>1, UploadQueues
    <3> QED
      BY <2>1, <3>2
  <2>2. CASE mapped /\ ~fenced
    <3>1. gpu' = mappedNow \o <<Uploads!Read(b)>> \o <<>>
      BY <1>1, <2>2
    <3>2. Extends(gpu', mappedNow, 1) /\ gpu'[Len(mappedNow) + 1] = Uploads!Read(b)
      BY <1>2, <1>6, <3>1, UploadQueues
    <3> QED
      BY <2>2, <3>2
  <2>3. CASE mapped /\ fenced
    <3>1. gpu' = mappedNow \o <<Uploads!Read(b)>> \o <<Uploads!Fence(b)>>
      BY <1>1, <2>3
    <3>2. /\ Extends(gpu', mappedNow, 2) /\ gpu'[Len(mappedNow) + 1] = Uploads!Read(b)
          /\ gpu'[Len(mappedNow) + 2] = Uploads!Fence(b)
      BY <1>2, <1>6, <3>1, UploadQueues
    <3> QED
      BY <2>3, <3>2
  <2> QED
    BY <2>1, <2>2, <2>3
<1>8. gpu' \in Seq(QueuedCommands) /\ Len(gpu') = Len(gpu) + k
  BY <1>6, <1>7 DEF Extends
<1>9. \A n \in 1..Len(gpu) : gpu'[n] = waiting[n]
  BY <1>6, <1>7 DEF Extends
<1>10. Places(Len(gpu), k, Len(gpu'))
  <2>1. Len(gpu) \in Nat
    BY <1>3
  <2>2. Places(Len(gpu), k, Len(gpu) + k)
    BY <2>1, PlacesBehind, Zenon
  <2> QED
    BY <1>8, <2>2, Zenon
(* Behind the commands it had, the queue has the read and the fence.           *)
<1>11. \A n \in 1..Len(gpu') : n > Len(gpu) =>
         \/ k # 0 /\ n = Len(gpu) + 1 /\ gpu'[n] = Uploads!Read(b)
         \/ gpu'[n] = Uploads!Fence(b)
  <2> SUFFICES ASSUME NEW n \in 1..Len(gpu'), n > Len(gpu)
               PROVE  \/ k # 0 /\ n = Len(gpu) + 1 /\ gpu'[n] = Uploads!Read(b)
                      \/ gpu'[n] = Uploads!Fence(b)
    OBVIOUS
  <2>1. (n = Len(gpu) + 1 /\ k # 0) \/ (n = Len(gpu) + 2 /\ k = 2)
    BY <1>10, Zenon DEF Places
  <2> QED
    BY <1>6, <1>7, <2>1, Zenon
<1>12. UploadsTyped'
  <2>1. slots' \in [Uploads!Slots -> [capacity : Nat, fenced : BOOLEAN]]
    BY <1>1, <1>2 DEF UploadsInv, UploadsTyped
  <2>2. USE_PBO_SYNC' \in BOOLEAN /\ UPLOAD_PBO_NEXT' \in Uploads!Slots
    BY <1>1, <1>2 DEF Uploads!Slots
  <2> QED
    BY <1>8, <2>1, <2>2 DEF UploadsTyped
<1>13. ReadsAreFenced'
  <2> SUFFICES ASSUME USE_PBO_SYNC', NEW n \in 1..Len(gpu'), gpu'[n].finds = "buffer"
               PROVE  /\ slots'[gpu'[n].slot].fenced
                      /\ \E m \in n + 1..Len(gpu') : gpu'[m] = Uploads!Fence(gpu'[n].slot)
    BY DEF ReadsAreFenced, Uploads!Fence
  <2>1. USE_PBO_SYNC /\ (mapped => fence) /\ (mapped => fenced)
    BY <1>1 DEF fenced
  <2>2. CASE n \in 1..Len(gpu)
    <3>1. gpu'[n] = waiting[n]
      BY <1>9, <2>2
    <3>2. waiting[n] = gpu[n] /\ gpu[n] # Uploads!Read(b)
      BY <1>5, <2>2, <3>1
    <3>3. slots[gpu[n].slot].fenced /\ \E m \in n + 1..Len(gpu) : gpu[m] = Uploads!Fence(gpu[n].slot)
      BY <2>1, <2>2, <3>1, <3>2 DEF UploadsInv, ReadsAreFenced
    <3>4. gpu[n].slot # b
      BY <1>3, <2>2, <3>1, <3>2 DEF QueuedCommands, Uploads!Read
    <3>5. slots'[gpu[n].slot].fenced
      BY <1>3, <1>1, <2>2, <3>3, <3>4 DEF QueuedCommands, UploadsInv, UploadsTyped
    <3>6. PICK m \in n + 1..Len(gpu) : gpu[m] = Uploads!Fence(gpu[n].slot)
      BY <3>3
    <3>7. m \in 1..Len(gpu) /\ m \in n + 1..Len(gpu')
      BY <1>10, <2>2, Zenon DEF Places
    <3>8. gpu[m] # Uploads!Read(b)
      BY <3>6, ReadsDiffer
    <3>9. gpu'[m] = Uploads!Fence(gpu'[n].slot)
      BY <1>5, <1>9, <3>1, <3>2, <3>6, <3>7, <3>8
    <3> QED
      BY <3>1, <3>2, <3>5, <3>7, <3>9
  <2>3. CASE n > Len(gpu)
    <3>1. gpu'[n] = Uploads!Read(b) /\ n = Len(gpu) + 1 /\ k # 0
      BY <1>11, <2>3, ReadsDiffer
    <3>3. mapped /\ fenced /\ k = 2
      BY <1>7, <2>1, <3>1
    <3>4. gpu'[Len(gpu) + 2] = Uploads!Fence(b)
      BY <1>6, <1>7, <3>3
    <3>5. Len(gpu) + 2 \in n + 1..Len(gpu')
      BY <1>10, <3>1, <3>3, Zenon DEF Places
    <3>6. slots'[b].fenced
      BY <1>1, <1>2, <3>3 DEF UploadsInv, UploadsTyped
    <3> QED
      BY <3>1, <3>4, <3>5, <3>6, ReadsDiffer
  <2> QED
    BY <1>10, <2>2, <2>3, Zenon DEF Places
<1>14. Uploads!UploadsNeverWait'
  <2>1. \A n \in 1..Len(gpu') : gpu'[n].finds # "waited for"
    <3> SUFFICES ASSUME NEW n \in 1..Len(gpu') PROVE gpu'[n].finds # "waited for"
      OBVIOUS
    <3>1. CASE n \in 1..Len(gpu)
      BY <1>5, <1>9, <3>1
    <3>2. CASE n > Len(gpu)
      BY <1>11, <3>2, ReadsDiffer
    <3> QED
      BY <1>10, <3>1, <3>2, Zenon DEF Places
  <2>2. DOMAIN gpu' = 1..Len(gpu')
    BY <1>8, LenProperties
  <2> QED
    BY <2>1, <2>2 DEF Uploads!UploadsNeverWait
<1> QED
  BY <1>12, <1>13, <1>14 DEF UploadsInv

(* The command that is executed is the oldest: a fence that is behind a read   *)
(* still is when the read has come closer.                                     *)
LEMMA ExecuteKeeps ==
    ASSUME UploadsInv, Uploads!Execute
    PROVE  UploadsInv'
<1>1. /\ gpu \in Seq(QueuedCommands) /\ gpu # <<>> /\ gpu' = Tail(gpu)
      /\ slots' = slots /\ USE_PBO_SYNC' = USE_PBO_SYNC /\ UPLOAD_PBO_NEXT' = UPLOAD_PBO_NEXT
  BY DEF UploadsInv, UploadsTyped, Uploads!Execute
<1>2. /\ gpu' \in Seq(QueuedCommands) /\ Len(gpu) \in Nat /\ Len(gpu') = Len(gpu) - 1
      /\ \A n \in 1..Len(gpu') : gpu'[n] = gpu[n + 1]
  BY <1>1, HeadTailProperties, LenProperties
<1>3. UploadsTyped'
  BY <1>1, <1>2 DEF UploadsInv, UploadsTyped
<1>4. ReadsAreFenced'
  <2> SUFFICES ASSUME USE_PBO_SYNC', NEW n \in 1..Len(gpu'), gpu'[n].finds = "buffer"
               PROVE  /\ slots'[gpu'[n].slot].fenced
                      /\ \E m \in n + 1..Len(gpu') : gpu'[m] = Uploads!Fence(gpu'[n].slot)
    BY DEF ReadsAreFenced, Uploads!Fence
  <2>1. n + 1 \in 1..Len(gpu) /\ gpu'[n] = gpu[n + 1]
    BY <1>2
  <2>2. slots[gpu[n + 1].slot].fenced
    BY <1>1, <2>1 DEF UploadsInv, ReadsAreFenced
  <2>3. PICK m \in n + 1 + 1..Len(gpu) : gpu[m] = Uploads!Fence(gpu[n + 1].slot)
    BY <1>1, <2>1 DEF UploadsInv, ReadsAreFenced
  <2>4. m - 1 \in n + 1..Len(gpu') /\ m - 1 \in 1..Len(gpu') /\ m - 1 + 1 = m
    BY <1>2
  <2>5. gpu'[m - 1] = gpu[m]
    BY <1>2, <2>4
  <2> QED
    BY <1>1, <2>1, <2>2, <2>3, <2>4, <2>5
<1>5. Uploads!UploadsNeverWait'
  <2>1. DOMAIN gpu = 1..Len(gpu) /\ DOMAIN gpu' = 1..Len(gpu')
    BY <1>1, <1>2, LenProperties
  <2>2. ASSUME NEW n \in 1..Len(gpu') PROVE n + 1 \in 1..Len(gpu) /\ gpu'[n] = gpu[n + 1]
    BY <1>2
  <2> QED
    BY <2>1, <2>2 DEF UploadsInv, Uploads!UploadsNeverWait
<1> QED
  BY <1>3, <1>4, <1>5 DEF UploadsInv

(* No upload waits for the GPU in the program (upload_source maps no storage   *)
(* that a queued command has yet to read), whatever the number of buffers, the *)
(* sizes of the uploads and the bound on the queue.                            *)
THEOREM NoUploadWaits == Spec => []UploadsNeverWait
<1>1. Init => UploadsInv
  BY UploadsInit, BuffersAssumption, Zenon DEF Init
<1>2. UploadsInv /\ [Next]_allVars => UploadsInv'
  <2> SUFFICES ASSUME UploadsInv, [Next]_allVars PROVE UploadsInv'
    OBVIOUS
  <2>1. CASE \E size \in Sizes, mapped, fence \in BOOLEAN : Uploads!Upload(size, mapped, fence)
    BY <2>1, UploadKeeps, BuffersAssumption, Zenon
  <2>2. CASE Uploads!Execute
    BY <2>2, ExecuteKeeps, BuffersAssumption, Zenon
  <2>3. CASE UNCHANGED uploadVars
    <3>1. USE_PBO_SYNC' = USE_PBO_SYNC /\ slots' = slots /\ UPLOAD_PBO_NEXT' = UPLOAD_PBO_NEXT /\ gpu' = gpu
      BY <2>3 DEF uploadVars
    <3> QED
      BY <3>1, Zenon DEF UploadsInv, UploadsTyped, ReadsAreFenced, Uploads!UploadsNeverWait
  <2>4. Uploads!Next \/ UNCHANGED uploadVars
    BY Zenon DEF Next, OthersRest, allVars, uploadVars
  <2> QED
    BY <2>1, <2>2, <2>3, <2>4, Zenon DEF Uploads!Next
<1>3. UploadsInv => UploadsNeverWait
  BY DEF UploadsInv, UploadsNeverWait
<1> QED
  BY <1>1, <1>2, <1>3, PTL DEF Spec

=============================================================================
