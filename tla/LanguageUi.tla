----------------------------- MODULE LanguageUi -----------------------------
(* The buttons of the community languages on the two language pages of the     *)
(* engine (language_ui.c, and the hooks of guest_runtime.c that call it).  The *)
(* hooks run inside a frame and only note what is to be done; between frames   *)
(* the buttons are made, drawn anew or destroyed.  A page is an address; the   *)
(* engine makes, shows, refreshes, leaves and destroys pages as it likes.      *)
(* Where the buttons go on a page (arrange_trailing_row) is a part of its own: *)
(* the page shows its own buttons in a grid whose last row may be partly       *)
(* filled and centred, and may keep some out of sight beside it, one below the *)
(* other.  Positions are whole numbers; two that the code takes for the same,  *)
(* less than one apart, are equal.                                             *)
EXTENDS Integers, Sequences, SequencesExt, FiniteSets, FiniteSetsExt
CONSTANTS PagesOf(_),    \* the addresses that pages of a kind may have
          Communities,   \* the community languages
          Rows, Columns, \* sizes of the grid of a page: the rows that are full
          Additions,     \* numbers of buttons to add
          Pitch,         \* distance of two columns or rows, a multiple of four
          Width          \* 1.15 times the width of a button, at most Pitch
VARIABLES PAGES,      \* kind of page -> language_page_state
          count,      \* mr_localization_count
          active,     \* mr_localization_current
          frame,      \* engine, between, or ended
          view,       \* kind -> page -> what the engine has of it
          gone,       \* ghost: kinds of which a page was destroyed in this frame
          open,       \* ghost: <<kind, page>> that were entered and not left
          crossed,    \* ghost: pages of a kind that were in use at the same time
          elsewhere,  \* ghost: kinds whose page did not see the language change
          mistaken,   \* ghost: pages that were served wrongly, crossed apart
          grid,       \* the grid of a page: its rows, columns, and the rest
          layout      \* where buttons are moved to and added, or NotYet
pages == <<PAGES, count, active, frame, view, gone, open, crossed, elsewhere, mistaken>>
cells == <<grid, layout>>
-----------------------------------------------------------------------------
Kinds == {"OPTIONS", "INITIAL"}
NoPage == "no page"
ORIGINAL == "original"          \* MR_LOCALIZATION_ORIGINAL, a language of the game
Languages == Communities \cup {ORIGINAL}

\* style is the language the flags show as selected, buttons the pages into
\* whose maps a set of buttons was put.
Cleared == [page |-> NoPage, buttons |-> <<>>, style |-> ORIGINAL, style_dirty |-> FALSE,
            pending |-> FALSE, injected |-> FALSE, cleanup |-> FALSE]

Init ==
    /\ PAGES = [k \in Kinds |-> Cleared]
    /\ count \in {0, 1}
    /\ active \in (IF count = 0 THEN {ORIGINAL} ELSE Languages)
    /\ frame = "engine"
    /\ view = [k \in Kinds |-> [p \in PagesOf(k) |-> "absent"]]
    /\ gone = {} /\ open = {} /\ crossed = {} /\ elsewhere = {} /\ mistaken = {}

mr_language_ui_enter(s, page) ==
    IF count = 0 \/ (s.page = page /\ s.injected) THEN s ELSE [s EXCEPT !.page = page, !.pending = TRUE]

\* A mutation: the page may be destroyed before its buttons are made.
mr_language_ui_leave_Pending(s, page, destroyed) ==
    IF s.page # page THEN s ELSE [s EXCEPT !.cleanup = @ \/ (destroyed /\ s.injected)]
mr_language_ui_leave(s, page, destroyed) ==
    IF s.page # page THEN s ELSE [s EXCEPT !.pending = FALSE, !.cleanup = @ \/ destroyed]

\* mr_language_ui_defer_refresh: the state after it, and what it answers.
Asked(s, page) == IF s.page # page THEN mr_language_ui_enter(s, page) ELSE s
mr_language_ui_defer_refresh(s, page) == count # 0 /\ ~Asked(s, page).injected

mr_language_ui_selection(s, page, button) ==
    IF s.page = page /\ page \in ToSet(s.buttons) THEN button ELSE ORIGINAL
-----------------------------------------------------------------------------
InEngine == frame = "engine" /\ UNCHANGED <<count, frame>>
Exists(k, p) == view[k][p] # "absent"
Noted(k, s) == PAGES' = [PAGES EXCEPT ![k] = s]

\* The use of a page while another one of its kind exists, or in the frame in
\* which one was destroyed.
Others(k, p) == {q \in PagesOf(k) \ {p} : Exists(k, q)}
Use(k, p) == crossed' = crossed \cup (IF k \in gone \/ Others(k, p) # {}
                                      THEN {k} \X (Others(k, p) \cup {p}) ELSE {})

Served(k, p, right) ==
    mistaken' = mistaken \cup (IF right \/ <<k, p>> \in crossed' THEN {} ELSE {<<k, p>>})

Make(k, p) ==
    /\ InEngine /\ ~Exists(k, p)
    /\ view' = [view EXCEPT ![k][p] = "made"]
    /\ UNCHANGED <<PAGES, active, gone, open, crossed, elsewhere, mistaken>>

Enter(k, p) ==
    /\ InEngine /\ Exists(k, p)
    /\ Noted(k, mr_language_ui_enter(PAGES[k], p))
    /\ open' = open \cup {<<k, p>>} /\ Use(k, p)
    /\ UNCHANGED <<active, view, gone, elsewhere, mistaken>>

\* The engine looks for the button of the language when it refreshes a page,
\* unless the hook returns in its place.
Refresh(k, p) ==
    LET deferred == mr_language_ui_defer_refresh(PAGES[k], p)
    IN  /\ InEngine /\ Exists(k, p)
        /\ Noted(k, IF count = 0 THEN PAGES[k] ELSE Asked(PAGES[k], p))
        /\ view' = [view EXCEPT ![k][p] = IF @ = "buttons" /\ ~deferred THEN "refreshed" ELSE @]
        /\ Use(k, p)
        /\ Served(k, p, count = 0 \/ deferred \/ view[k][p] # "made")
        /\ UNCHANGED <<active, gone, open, elsewhere>>

\* OnMenuQuit of the settings page, which stays for another visit.
Leave(p) ==
    /\ InEngine /\ Exists("OPTIONS", p)
    /\ Noted("OPTIONS", mr_language_ui_leave(PAGES["OPTIONS"], p, FALSE))
    /\ open' = open \ {<<"OPTIONS", p>>}
    /\ UNCHANGED <<active, view, gone, crossed, elsewhere, mistaken>>

\* The destructors of both kinds.
Destroy(k, p) ==
    /\ InEngine /\ Exists(k, p)
    /\ Noted(k, mr_language_ui_leave(PAGES[k], p, TRUE))
    /\ view' = [view EXCEPT ![k][p] = "absent"]
    /\ gone' = gone \cup {k} /\ open' = open \ {<<k, p>>}
    /\ crossed' = crossed \ {<<k, p>>} /\ mistaken' = mistaken \ {<<k, p>>}
    /\ UNCHANGED <<active, elsewhere>>

\* HandleLangButton of a page, for a button that is there; the hook activates
\* the language (mr_localization_activate).
Press(k, p, l) ==
    LET selected == mr_language_ui_selection(PAGES[k], p, l)
    IN  /\ InEngine /\ Exists(k, p) /\ (l = ORIGINAL \/ view[k][p] # "made")
        /\ Noted(k, [PAGES[k] EXCEPT !.style_dirty = @ \/ PAGES[k].page = p])
        /\ active' = selected
        /\ UNCHANGED <<view, gone, open, crossed>>
        /\ Served(k, p, selected = l)
        /\ elsewhere' = IF selected = active THEN elsewhere
                        ELSE elsewhere \cup {q \in Kinds : q # k \/ PAGES[k].page # p}
-----------------------------------------------------------------------------
\* The three steps of mr_language_ui_apply for a kind.
destroy_objects(s) == IF s.cleanup THEN Cleared ELSE s

create_flag(s) == [s EXCEPT !.style = active]
update_flag_styles(s) ==
    IF s.injected /\ s.style_dirty THEN [create_flag(s) EXCEPT !.style_dirty = FALSE] ELSE s

create_button(s) == [create_flag(s) EXCEPT !.buttons = Append(@, s.page)]
WillInject(s) == s.pending /\ ~s.injected
inject_page(s) ==
    IF WillInject(s) THEN [create_button(s) EXCEPT !.pending = FALSE, !.injected = TRUE] ELSE s

\* A page whose buttons are deleted has none; one that gets them is refreshed.
Seen(k) ==
    LET old == ToSet(PAGES[k].buttons)
        s == update_flag_styles(destroy_objects(PAGES[k]))
    IN  [p \in PagesOf(k) |->
            IF WillInject(s) /\ s.page = p
            THEN IF mr_language_ui_defer_refresh(inject_page(s), p) THEN "buttons" ELSE "refreshed"
            ELSE IF PAGES[k].cleanup /\ p \in old /\ Exists(k, p) THEN "made"
            ELSE view[k][p]]

\* A call of the engine that faults ends the game.
mr_language_ui_apply ==
    LET before == [k \in Kinds |-> update_flag_styles(destroy_objects(PAGES[k]))]
    IN  /\ frame = "engine"
        /\ \/ frame' = "between"
           \/ (\E k \in Kinds : PAGES[k].cleanup \/ before[k] # PAGES[k] \/ WillInject(before[k])) /\ frame' = "ended"
        /\ PAGES' = [k \in Kinds |-> inject_page(before[k])]
        /\ view' = [k \in Kinds |-> Seen(k)]
        /\ mistaken' = mistaken \cup {<<k, before[k].page>> : k \in {k \in Kinds :
                           WillInject(before[k]) /\ ~Exists(k, before[k].page)}}
        /\ elsewhere' = {k \in elsewhere : PAGES'[k] = PAGES[k]}
        /\ gone' = {}
        /\ UNCHANGED <<count, active, open, crossed>>

\* The next frame; on macOS the menu may have changed the language before it.
NextFrame ==
    /\ frame = "between" /\ frame' = "engine"
    /\ active' \in (IF count = 0 THEN {ORIGINAL} ELSE Languages)
    /\ elsewhere' = IF active' = active THEN elsewhere ELSE Kinds
    /\ UNCHANGED <<PAGES, count, view, gone, open, crossed, mistaken>>

Next ==
    \/ \E k \in Kinds : \E p \in PagesOf(k) :
          \/ Make(k, p) \/ Enter(k, p) \/ Refresh(k, p) \/ Destroy(k, p)
          \/ \E l \in Languages : Press(k, p, l)
    \/ \E p \in PagesOf("OPTIONS") : Leave(p)
    \/ mr_language_ui_apply \/ NextFrame

Spec == Init /\ [][Next]_pages
-----------------------------------------------------------------------------
(* Where the buttons go.                                                       *)

NotYet == [stays |-> {}, placed |-> <<>>]
Button(x, y) == [x |-> x, y |-> y]
OutOfSight == -10 * Pitch

\* The buttons of the engine on a page.
InRow(n, columns, y) == {Button((Pitch * (columns - n)) \div 2 + Pitch * i, y) : i \in 0..(n - 1)}
Shown(g) == UNION {InRow(g.columns, g.columns, Pitch * r) : r \in 0..(g.rows - 1)}
              \cup InRow(g.trailing, g.columns, Pitch * g.rows)
Bottom(g) == Pitch * (IF g.trailing = 0 THEN g.rows - 1 ELSE g.rows)
Hidden(g) == {Button(OutOfSight, Bottom(g) - Pitch * i) : i \in 0..(g.hidden - 1)}

PageHasGrid ==
    /\ grid \in [rows : Rows, columns : Columns, trailing : 0..Max(Columns), hidden : 0..2,
                 added : Additions]
    /\ grid.trailing < grid.columns
    /\ layout = NotYet

Sorted(values) ==
    [i \in 1..Cardinality(values) |-> CHOOSE v \in values : Cardinality({w \in values : w < v}) = i - 1]
unique_axis(buttons, horizontal) == Sorted({IF horizontal THEN b.x ELSE b.y : b \in buttons})

\* The columns are the positions that occur in more than one row, if there are
\* two of them.
recurring_x_axis(buttons) ==
    LET recurring == {x \in {b.x : b \in buttons} : Cardinality({b \in buttons : b.x = x}) > 1}
    IN  IF Cardinality(recurring) >= 2 THEN Sorted(recurring) ELSE unique_axis(buttons, TRUE)

centered_column(center, spacing, n, index) == center - (spacing * (n - 1)) \div 2 + spacing * index

row_size(total, columns, row) == Min({total - row * columns, columns})

\* Buttons of the last row beyond the margin of the outer columns are not of
\* the grid; a full last row is left alone and a new one is begun.
arrange_trailing_row(buttons, added) ==
    LET xs == recurring_x_axis(buttons)
        ys == unique_axis(buttons, FALSE)
        nx == Len(xs)
        spacing == IF nx > 1 THEN (Last(xs) - xs[1]) \div (nx - 1) ELSE Width
        dy == IF Len(ys) > 1 THEN Last(ys) - ys[Len(ys) - 1] ELSE Width
        margin == spacing \div 2
        last == {b \in buttons : b.y = Last(ys) /\ b.x >= xs[1] - margin /\ b.x <= Last(xs) + margin}
        kept == IF Cardinality(last) >= nx THEN {} ELSE last
        first_y == IF kept = {} THEN Last(ys) + dy ELSE Last(ys)
        total == Cardinality(kept) + added
        Place(o) == Button(centered_column((xs[1] + Last(xs)) \div 2, spacing,
                                           row_size(total, nx, o \div nx), o % nx),
                           first_y + dy * (o \div nx))
    IN  [stays |-> buttons \ kept, placed |-> [o \in 1..total |-> Place(o - 1)]]

\* collect_buttons, and the call of arrange_trailing_row in inject_page; the page
\* has buttons.
place_buttons ==
    /\ layout = NotYet
    /\ layout' = arrange_trailing_row(Shown(grid) \cup Hidden(grid), grid.added)
    /\ UNCHANGED grid

GridSpec == PageHasGrid /\ [][place_buttons]_cells
-----------------------------------------------------------------------------
(* While pages of one kind follow one another, with a frame's end between two: *)
(* a page that is open has its buttons and was refreshed with them by the end  *)
(* of the frame; the engine never refreshes a page before, where it would find *)
(* no button for the language; no page that is gone gets buttons; and a button *)
(* chooses its own language.  (language_ui.h:24 "Applies deferred hierarchy    *)
(* changes between engine frames".)                                            *)
OpenPagesHaveButtons ==
    \A k \in Kinds : \A p \in PagesOf(k) : <<k, p>> \notin crossed =>
        /\ <<k, p>> \notin mistaken
        /\ count # 0 /\ frame = "between" /\ <<k, p>> \in open => view[k][p] = "refreshed"

(* The table of buttons, written without a check of its bounds, holds one set. *)
ButtonsFit == \A k \in Kinds : Len(PAGES[k].buttons) <= 1

(* A community flag shows "their full colors with an orange border only when   *)
(* selected" (LOCALIZATION.md:90), but for changes made on the other page or   *)
(* by the menu.                                                                *)
FlagsFollow ==
    frame = "between" => \A k \in Kinds : PAGES[k].injected /\ k \notin elsewhere => PAGES[k].style = active

(* The language pages offer the community languages and show the chosen one.   *)
PagesOfferLanguages == OpenPagesHaveButtons /\ ButtonsFit /\ FlagsFollow

(* "The final partially filled built-in row and all community buttons are laid *)
(* out together; every incomplete row is centered automatically.  Buttons that *)
(* the engine deliberately places outside the visible grid remain hidden and   *)
(* do not consume community-language slots" (LOCALIZATION.md:85): the grid     *)
(* goes on with full rows but for the last, each is centred, no two buttons    *)
(* overlap, none is lost.                                                      *)
EveryGridGoesOn ==
    layout # NotYet =>
        LET all == layout.stays \cup {layout.placed[o] : o \in DOMAIN layout.placed}
            shown == all \ Hidden(grid)
            Row(y) == {b \in shown : b.y = y}
            bottom == Max({b.y : b \in shown})
            edge == Pitch * (grid.columns - 1)
        IN  /\ Hidden(grid) \subseteq all
            /\ Cardinality(shown) = grid.rows * grid.columns + grid.trailing + grid.added
            /\ \A y \in {b.y : b \in shown} :
                  /\ y < bottom => Cardinality(Row(y)) = grid.columns
                  /\ \A b \in Row(y) : b.x \in 0..edge /\ Button(edge - b.x, y) \in shown
                  /\ \A b, c \in Row(y) : b # c => b.x - c.x >= Pitch \/ c.x - b.x >= Pitch

(* It does where the positions tell the columns: two full rows or more, of two *)
(* columns or more, and one button out of sight at most; or full rows and      *)
(* nothing else.  Elsewhere arrange_trailing_row may take a button of the last *)
(* row, or one out of sight, for a column.                                     *)
ColumnsRecur ==
    \/ grid.rows >= 2 /\ grid.columns >= 2 /\ grid.hidden <= 1
    \/ grid.trailing = 0 /\ grid.hidden = 0
GridGoesOn == ColumnsRecur => EveryGridGoesOn
=============================================================================
