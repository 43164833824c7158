------------------------------- MODULE MCRuntime -------------------------------
(* Small instances of the components of Runtime for TLC. *)
EXTENDS Runtime
CONSTANT Running     \* the components that are run
VARIABLE world      \* which of two environments a component meets, if it has two

\* Two classes of blocks, small enough that free ones meet and have to merge.
MCStamp(size) == IF size <= 4 THEN 16 ELSE 3

\* Two bundled files in a directory, whose slots differ, and one that the game
\* makes elsewhere and that shares a slot.
MCDir(p) == IF p = "n" THEN "m" ELSE "d"
MCSlot(p) == IF p = "b" THEN 2 ELSE 1

\* More names than handles, and a round of a few objects.
MCAnswer(name) == IF name = "getSDFolder" THEN 9 ELSE -1
MCField(name) == IF name = "mPreferencesName" THEN 9 ELSE -1

\* Two pages of settings at a time, or one page of each kind.
MCPages(kind) == IF kind = "OPTIONS" THEN {"p", "q"} ELSE {"r"}
OnePageEach == view'["OPTIONS"]["q"] = "absent"
OneKind == view'["INITIAL"]["r"] = "absent"

\* A page with an object of every sort the layout policy knows.
Thing(parent, kind, y, size, role, anchor) ==
    [parent |-> parent, kind |-> kind, y |-> y, width |-> size, height |-> size, role |-> role,
     anchor |-> anchor]
MCTree ==
    [counter |-> Thing("page", "text", 2, 2, "DEFAULT", "top"),
     list |-> Thing("page", "list", 2, 20, "DEFAULT", "top"),
     item |-> Thing("list", "text", 3, 2, "DEFAULT", "stays"),
     empty |-> Thing("page", "plain", 2, 0, "DEFAULT", "stays"),
     result |-> Thing("page", "plain", 0, 0, "DEFAULT", "stays"),
     score |-> Thing("result", "text", 5, 2, "LAYOUT_GROUP", "stays"),
     total |-> Thing("result", "text", 20, 2, "DEFAULT", "stays"),
     menu |-> Thing("page", "touch", 2, 4, "DEFAULT", "top"),
     body |-> Thing("menu", "body part", 3, 2, "DEFAULT", "stays"),
     label |-> Thing("body", "text", 3, 1, "DEFAULT", "compensated"),
     power |-> Thing("page", "plain", 40, 2, "BOTTOM_CONTROL", "above the edge"),
     counts |-> Thing("power", "text", 40, 1, "BOTTOM_CONTROL", "stays"),
     revive |-> Thing("page", "plain", 0, 0, "DEFAULT", "stays"),
     button |-> Thing("revive", "text", 30, 2, "BOTTOM_OVERFLOW", "overflow"),
     tag |-> Thing("revive", "text", 32, 2, "BOTTOM_OVERFLOW", "overflow"),
     shade |-> Thing("revive", "text", 31, 2, "DEFAULT", "overflow"),
     title |-> Thing("revive", "text", 20, 2, "DEFAULT", "stays")]

\* Images of two levels.
MCHalf(shape) == "small"

MCPolicies == [iap |-> "BLOCKED", events |-> "FORCED_EVENT", play |-> "NORMAL", top |-> "NORMAL"]

\* One function of each instruction set, two return addresses in one of them.
MCThumb(a) == a \in {"g", "t"}
-----------------------------------------------------------------------------
ASSUME RunningAssumption == Running \subseteq Parts

\* What a component that rests would choose at the start does not matter.
MCInit ==
    /\ part \in Running
    /\ world \in {1, 2} /\ (part \in {"pages", "shadow"} \/ world = 1)
    /\ part = "grid" \/ grid = [rows |-> 2, columns |-> 4, trailing |-> 0, hidden |-> 0, added |-> 1]
    /\ part = "area" \/ (mover = "list" /\ inset = [top |-> 0, bottom |-> 0])
    /\ part = "pages" \/ (count = 0 /\ language = Pages!ORIGINAL)
    /\ part = "uploads" \/ USE_PBO_SYNC = TRUE
    /\ part = "target" \/ SAMPLES = TRUE
    /\ Init
    /\ part = "builder" \/ form.files = {}

MCNext ==
    /\ Next
    /\ UNCHANGED world
    /\ part = "pages" => IF world = 1 THEN OneKind ELSE OnePageEach
    /\ part = "shadow" => IF world = 1 THEN Shadow!TextureCall ELSE Shadow!StateCall

MCSpec == MCInit /\ [][MCNext]_<<allVars, world>>
=============================================================================
