------------------------------- MODULE SafeArea -------------------------------
(* The adaptation of the engine's pages to the safe area of the display        *)
(* (safe_area.c).  Before a page is drawn, objects of it are moved by writing   *)
(* their vertical offset in the memory of the game, which goes on moving them   *)
(* itself.  What was written before is kept beside each object, to tell its     *)
(* own movements from those of the game.                                        *)
EXTENDS Integers, FiniteSets, FiniteSetsExt, Functions
CONSTANTS Tree,         \* object of a page -> [parent, kind, y, width, height, role, anchor]
          Page,         \* the parent of its outermost objects
          Movers,       \* objects of which the game moves one
          TopInsets, BottomInsets,
          TOP_BAND, CLEARANCE  \* a quarter of the display; of the lower controls
VARIABLES offset, height,   \* INTERFACE_OFFSET_Y and INTERFACE_HEIGHT of an object
          OBJECT_STATES,    \* the objects seen so far -> what is kept of them
          REGISTERED,       \* object -> role
          SAFE_AREA_ADAPTATION_ACTIVE,
          inset,            \* [top, bottom], mr_win_safe_area
          mover,            \* the object the game moves
          own,              \* ghost: where the game has it
          settled,          \* nothing has happened since the page was drawn
          leapt             \* ghost: the game has moved it far in one frame
area == <<offset, height, OBJECT_STATES, REGISTERED, SAFE_AREA_ADAPTATION_ACTIVE, inset, mover, own, settled, leapt>>
-----------------------------------------------------------------------------
Objects == DOMAIN Tree
Parent(o) == Tree[o].parent
Children(o) == {c \in Objects : Parent(c) = o}
Above[o \in Objects] == IF Parent(o) = Page THEN {} ELSE {Parent(o)} \cup Above[Parent(o)]
Under[o \in Objects] == {x \in Objects : x = o \/ o \in Above[x]}

Unknown == [base |-> 0, applied |-> 0, base_height |-> 0, applied_height |-> 0,
            initialized |-> FALSE, offset_initialized |-> FALSE, height_initialized |-> FALSE,
            moves |-> FALSE, resizes |-> FALSE]

is_2d_visual(o) == Tree[o].kind \in {"text", "list"}
is_vertical_container(o) == Tree[o].kind \in {"area", "list"}
is_projected_3d_container(o) == Tree[o].kind \in {"touch", "body part"}

Init ==
    /\ offset = [o \in Objects |-> 0]
    /\ height = [o \in Objects |-> Tree[o].height]
    /\ OBJECT_STATES = [o \in {} |-> Unknown]
    /\ REGISTERED = [o \in {} |-> "DEFAULT"]
    /\ SAFE_AREA_ADAPTATION_ACTIVE = FALSE
    /\ inset \in [top : TopInsets, bottom : BottomInsets]
    /\ mover \in Movers /\ own = 0
    /\ settled = FALSE /\ leapt = FALSE

\* mr_safe_area_register_ui_object, when a lookup of the game returns.
Registers(o) == IF Tree[o].role = "LAYOUT_GROUP" THEN Parent(o) ELSE o
Named == {o \in Objects : Tree[o].role # "DEFAULT" /\ Registers(o) # Page}
mr_safe_area_register_ui_object(o) ==
    /\ REGISTERED' = [x \in DOMAIN REGISTERED \cup {Registers(o)} |->
                         IF x = Registers(o) THEN Tree[o].role ELSE REGISTERED[x]]
    /\ UNCHANGED <<offset, height, OBJECT_STATES, SAFE_AREA_ADAPTATION_ACTIVE, inset, mover, own, settled, leapt>>
-----------------------------------------------------------------------------
Distance(a, b) == IF a > b THEN a - b ELSE b - a

\* A mutation: what the game has written is always where it wants the object.
Rebased_Absolute(base, applied, current) == IF current # applied THEN current ELSE base

\* What the game has written lies closer to where it had the object itself, or
\* to where the adaptation had put it.
Rebased(base, applied, current) ==
    IF current = applied THEN base
    ELSE IF Distance(current, base) < Distance(current, applied) THEN current
    ELSE current - (applied - base)

\* The offsets and the states of the objects that an adjustment is given for, on
\* a display d of all of them.
Base(d, o) ==
    LET s == d.states[o]
    IN  IF s.offset_initialized THEN Rebased(s.base, s.applied, d.offset[o]) ELSE d.offset[o]
apply_offset(d, adjustment) ==
    [offset |-> [o \in Objects |-> IF o \in DOMAIN adjustment THEN Base(d, o) + adjustment[o]
                                   ELSE d.offset[o]],
     height |-> d.height,
     states |-> [o \in Objects |->
                   IF o \in DOMAIN adjustment
                   THEN [d.states[o] EXCEPT !.base = Base(d, o), !.offset_initialized = TRUE,
                                            !.applied = Base(d, o) + adjustment[o]]
                   ELSE d.states[o]]]

\* The sizes of some go down towards zero, by the inset.
BaseHeight(d, o) ==
    LET s == d.states[o]
    IN  IF s.height_initialized THEN Rebased(s.base_height, s.applied_height, d.height[o])
        ELSE d.height[o]
Shrunk(base) ==
    LET less == Min({inset.top, Max({0, Distance(base, 0) - 1})})
    IN  IF base < 0 THEN base + less ELSE base - less
apply_height(d, objects) ==
    [d EXCEPT !.height = [o \in Objects |-> IF o \in objects THEN Shrunk(BaseHeight(d, o)) ELSE @[o]],
              !.states = [o \in Objects |->
                            IF o \in objects
                            THEN [@[o] EXCEPT !.base_height = BaseHeight(d, o), !.height_initialized = TRUE,
                                              !.applied_height = Shrunk(BaseHeight(d, o))]
                            ELSE @[o]]]
-----------------------------------------------------------------------------
\* Two or more revive anchors below one parent that are in no other take the
\* siblings that begin no higher than they do along.
has_registered_ancestor(o) == \E a \in Above[o] \cap DOMAIN REGISTERED : REGISTERED[a] = REGISTERED[o]
Anchors(parent) ==
    {o \in DOMAIN REGISTERED : Parent(o) = parent /\ REGISTERED[o] = "BOTTOM_OVERFLOW"
                               /\ ~has_registered_ancestor(o)}
find_overflow_groups == {p \in Objects \cup {Page} : Cardinality(Anchors(p)) >= 2}
Overflowing ==
    UNION {{c \in Children(p) : \E o \in Anchors(p) : Tree[c].y >= Tree[o].y} : p \in find_overflow_groups}

control_adjustment == IF inset.bottom > 0 THEN -(inset.bottom + CLEARANCE) ELSE 0
update_registered_objects(d) ==
    LET overflowing == Overflowing
        moved == overflowing \cup {o \in DOMAIN REGISTERED : REGISTERED[o] # "LAYOUT_GROUP"}
    IN  apply_offset(d, [o \in moved |-> IF o \in overflowing THEN inset.bottom
                                         ELSE IF has_registered_ancestor(o) THEN 0
                                         ELSE IF REGISTERED[o] = "BOTTOM_CONTROL" THEN control_adjustment
                                         ELSE inset.bottom])

\* Where the subtree of an object lies, and what it is taken for when it is
\* seen first.
Top(d, o) == Tree[o].y + SumFunctionOnSet(d.offset, {o} \cup Above[o])
measure_subtree(d, o) == UNION {{Top(d, x), Top(d, x) + d.height[x]} : x \in Under[o]}
IsCompact(bounds) == Min(bounds) >= -TOP_BAND /\ Max(bounds) <= TOP_BAND
IsExtended(d, o) ==
    is_vertical_container(o) /\ Min({Top(d, o), Top(d, o) + d.height[o]}) \in -TOP_BAND..TOP_BAND
HasContent(d, o) ==
    Children(o) # {} \/ is_2d_visual(o) \/ Tree[o].width > 1 \/ Distance(d.height[o], 0) > 1
Classified(d, o) ==
    IF d.states[o].initialized THEN d.states[o]
    ELSE [d.states[o] EXCEPT
            !.initialized = TRUE,
            !.moves = HasContent(d, o) /\ (IsExtended(d, o) \/ IsCompact(measure_subtree(d, o))),
            !.resizes = IsExtended(d, o) /\ Distance(d.height[o], 0) > TOP_BAND]

\* The outermost 2D objects inside the body parts of a projected menu.
compensate_projected_2d(o) ==
    LET InBody(x) == \E b \in {x} \cup Above[x] : b \in Under[o] /\ Tree[b].kind = "body part"
        Visual(x) == is_2d_visual(x) /\ InBody(x)
    IN  {x \in Under[o] : Visual(x) /\ \A a \in Above[x] \cap Under[o] : ~Visual(a)}

\* update_ui_subtree below every outermost object: an object that moves, is
\* registered or is projected is not descended into.
Visited(states) ==
    {o \in Objects : \A a \in Above[o] : ~(a \in DOMAIN REGISTERED \/ states[a].moves
                                           \/ is_projected_3d_container(a))}
Shift(states, visited) ==
    LET moving == {o \in visited \ DOMAIN REGISTERED : states[o].moves}
        groups == {o \in visited \cap DOMAIN REGISTERED : REGISTERED[o] = "LAYOUT_GROUP"}
        labels == UNION {compensate_projected_2d(o) : o \in {m \in moving : Tree[m].kind = "touch"}}
    IN  [o \in moving \cup groups \cup labels |-> IF o \in labels THEN -inset.top
                                                  ELSE IF states[o].moves THEN inset.top ELSE 0]
UpdateVisited(d, states, visited) ==
    apply_height(
        apply_offset([d EXCEPT !.states = [o \in Objects |-> IF o \in visited THEN states[o] ELSE @[o]]],
                     Shift(states, visited)),
        {o \in visited \ DOMAIN REGISTERED : states[o].moves /\ states[o].resizes})
UpdateClassified(d, states) == UpdateVisited(d, states, Visited(states))
update_ui_subtree(d) == UpdateClassified(d, [o \in Objects |-> Classified(d, o)])

\* update_top_level_ui, before a page is drawn: the registered objects of every
\* page, and the objects of this one.  The game has looked up its named objects
\* by the time it draws the page.
States == [o \in Objects |-> IF o \in DOMAIN OBJECT_STATES THEN OBJECT_STATES[o] ELSE Unknown]
Display == [offset |-> offset, height |-> height, states |-> States]
update_top_level_ui(page) ==
    IF page = Page THEN update_ui_subtree(update_registered_objects(Display))
    ELSE update_registered_objects(Display)
Draw(page) ==
    LET active == SAFE_AREA_ADAPTATION_ACTIVE \/ inset.top > 0 \/ inset.bottom > 0
    IN  /\ page = Page => {Registers(o) : o \in Named} \subseteq DOMAIN REGISTERED
        /\ SAFE_AREA_ADAPTATION_ACTIVE' = active
        /\ \E d \in {IF active THEN update_top_level_ui(page) ELSE Display} :
              offset' = d.offset /\ height' = d.height /\ OBJECT_STATES' = Restrict(d.states, {o \in Objects : d.states[o] # Unknown})
        /\ settled' = (settled \/ page = Page)
        /\ UNCHANGED <<REGISTERED, inset, mover, own, leapt>>
-----------------------------------------------------------------------------
\* The game moves an object between two frames, to a place or by a distance.  A
\* movement of less than half of what the adaptation has moved it is slight.
Adjusted(o) == States[o].applied - States[o].base
Slight(d) == Adjusted(mover) = 0 \/ 2 * Distance(d, 0) < Distance(Adjusted(mover), 0)
Move(to) ==
    /\ settled /\ settled' = FALSE
    /\ to # own
    /\ offset' \in {[offset EXCEPT ![mover] = to], [offset EXCEPT ![mover] = @ + to - own]}
    /\ own' = to /\ leapt' = ~Slight(to - own)
    /\ UNCHANGED <<height, OBJECT_STATES, REGISTERED, SAFE_AREA_ADAPTATION_ACTIVE, inset, mover>>

\* It lays the page out anew, or builds it again in the same memory.
Relayout ==
    /\ settled /\ settled' = FALSE
    /\ offset' = [o \in Objects |-> 0] /\ height' = [o \in Objects |-> Tree[o].height]
    /\ own' = 0 /\ leapt' = ~Slight(own)
    /\ UNCHANGED <<OBJECT_STATES, REGISTERED, SAFE_AREA_ADAPTATION_ACTIVE, inset, mover>>

\* The device is turned, or a bar comes or goes.
SafeAreaChanges ==
    /\ inset' \in [top : TopInsets, bottom : BottomInsets]
    /\ settled' = FALSE
    /\ UNCHANGED <<offset, height, OBJECT_STATES, REGISTERED, SAFE_AREA_ADAPTATION_ACTIVE, mover, own, leapt>>

\* After a movement that is not slight only the next drawing is followed.
Next ==
    \/ \E page \in {Page, "another page"} : Draw(page)
    \/ /\ ~leapt
       /\ \/ \E o \in Named : mr_safe_area_register_ui_object(o)
          \/ \E to \in -1..1 : Move(to)
          \/ Relayout \/ SafeAreaChanges

Spec == Init /\ [][Next]_area
-----------------------------------------------------------------------------
(* Where the layout policy moves an object: compact upper groups and           *)
(* top-anchored containers below the safe area, lower controls above it,       *)
(* revive anchors beyond it with the siblings below them, labels of projected  *)
(* menus compensated, and everything else nowhere (ARCHITECTURE.md:154).       *)
Due(o) ==
    CASE Tree[o].anchor = "top" -> inset.top
      [] Tree[o].anchor = "compensated" -> -inset.top
      [] Tree[o].anchor = "above the edge" -> control_adjustment
      [] Tree[o].anchor = "overflow" -> inset.bottom
      [] OTHER -> 0

(* A page that is drawn has every object where the game wants it and the       *)
(* policy moves it; a moved container "loses the same amount of height, which  *)
(* keeps its lower edge ... in place" (ARCHITECTURE.md:156).                   *)
PageIsAdapted ==
    settled => \A o \in Objects :
        /\ offset[o] = (IF o = mover THEN own ELSE 0) + Due(o)
        /\ height[o] = Tree[o].height - (IF Tree[o].height > TOP_BAND /\ Tree[o].anchor = "top"
                                         THEN inset.top ELSE 0)

(* The code can keep that as long as the game, in one frame, moves an object   *)
(* by less than half of what the adaptation has moved it: then every drawing   *)
(* of the page tells the two movements apart, in whatever order the game       *)
(* moves and rebuilds, the insets change and other pages are drawn.            *)
ObjectsKeepTheirPlace == ~leapt => PageIsAdapted
=============================================================================
