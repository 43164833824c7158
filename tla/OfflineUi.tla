------------------------------- MODULE OfflineUi -------------------------------
(* The policy for the controls of retired services (offline_mode.c).  A hook at *)
(* the entry of the game's lookup functions classifies the name that is looked  *)
(* up; the object is known only when the lookup returns, so the hook arms one   *)
(* pending return, for which the dispatcher hooks the return address too.  The  *)
(* object is then recorded, and hidden or shown; later calls of the game that   *)
(* would change it are overruled.  The names of controls the safe area moves    *)
(* arm the same pending return; what it registers then is SafeArea's.  The      *)
(* game's pages are built by its main thread.                                   *)
EXTENDS Integers, Sequences, SequencesExt
CONSTANTS Objects,        \* addresses of controls
          Names,          \* names of controls
          PolicyOf,       \* classify_ui_object: "NORMAL", "BLOCKED", "FORCED_EVENT"
          Anchored,       \* the names with a role for the safe area
          Sites,          \* return addresses of the calls of lookup functions
          MAX_UI_OBJECTS  \* records in UI_OBJECTS
VARIABLES control,  \* what is at an address: [name, shown, found], or Nothing
                    \* (found is of the model: a lookup has returned it)
          calls,    \* the lookups under way, innermost last: [name, site, overtaken]
          UI_CALL,  \* the pending return: [site, policy], or NotPending
          hook,     \* the return address the dispatcher hooks, or NoSite
          UI_OBJECTS \* the records, in the order they were made
ui == <<control, calls, UI_CALL, hook, UI_OBJECTS>>
-----------------------------------------------------------------------------
NoSite == "none"
NotPending == [site |-> NoSite, policy |-> "NORMAL"]
Nothing == [name |-> "nothing", shown |-> FALSE, found |-> FALSE]
Standing(name) == {o \in Objects : control[o].name = name}
Nesting == 2  \* lookups under way at once

\* The lookups whose return is hooked: read_ui_policy says more than the default.
Armed(name) == PolicyOf[name] # "NORMAL" \/ name \in Anchored

\* The latest lookup takes the place of one that has not returned yet.
set_pending_return(site, policy) ==
    /\ UI_CALL' = [site |-> site, policy |-> policy]
    /\ hook' = site

clear_pending_return == UI_CALL' = NotPending /\ hook' = NoSite

\* The latest record of an object counts.
Records(o) == {i \in DOMAIN UI_OBJECTS : UI_OBJECTS[i].object = o}
object_policy(o) == IF Records(o) = {} THEN "NORMAL" ELSE UI_OBJECTS[Max(Records(o))].policy

\* apply_object_policy: a full list takes no other control, which stays as it is.
Taken(o) == Records(o) # {} \/ Len(UI_OBJECTS) < MAX_UI_OBJECTS
Recorded(o, policy) ==
    IF Records(o) # {}
    THEN [i \in DOMAIN UI_OBJECTS |->
            IF UI_OBJECTS[i].object = o THEN [UI_OBJECTS[i] EXCEPT !.policy = policy]
            ELSE UI_OBJECTS[i]]
    ELSE Append(UI_OBJECTS, [object |-> o, policy |-> policy])
-----------------------------------------------------------------------------
Init == /\ control = [o \in Objects |-> Nothing] /\ calls = << >>
        /\ UI_CALL = NotPending /\ hook = NoSite /\ UI_OBJECTS = << >>

\* A lookup function is entered: by the game, or within another one, for the same
\* name or for another.  The pending return of that one is lost to another name's,
\* or is taken at the return address that both have: it is overtaken.
Overtakes(call, name, site) == call.name # name /\ (Armed(name) \/ call.site = site)
LookupEntered(name, site) ==
    /\ Len(calls) < Nesting
    /\ calls' = Append([i \in DOMAIN calls |->
                           [calls[i] EXCEPT !.overtaken = @ \/ Overtakes(calls[i], name, site)]],
                       [name |-> name, site |-> site, overtaken |-> FALSE])
    /\ IF Armed(name) THEN set_pending_return(site, PolicyOf[name]) ELSE UNCHANGED <<UI_CALL, hook>>
    /\ UNCHANGED <<control, UI_OBJECTS>>

\* It returns: the object of that name, or none.  The block that runs next at the
\* pending return address takes the policy, whichever lookup returns there.
LookupReturns ==
    /\ calls # << >> /\ calls' = Front(calls)
    /\ LET call == Last(calls)
           ours == UI_CALL.site = call.site /\ hook = call.site
           policy == IF ours THEN UI_CALL.policy ELSE "NORMAL"
       IN  /\ IF ours THEN clear_pending_return ELSE UNCHANGED <<UI_CALL, hook>>
           /\ \/ Standing(call.name) = {} /\ UNCHANGED <<control, UI_OBJECTS>>
              \/ \E o \in Standing(call.name) :
                   LET applied == policy # "NORMAL" /\ Taken(o)
                   IN  /\ UI_OBJECTS' = IF applied THEN Recorded(o, policy) ELSE UI_OBJECTS
                       /\ control' = [control EXCEPT ![o].found = @ \/ ~call.overtaken,
                                          ![o].shown = IF applied THEN policy = "FORCED_EVENT" ELSE @]

\* ui_set_visible and ui_set_active: the argument is overruled.
SetVisible(o, wanted) ==
    /\ calls = << >> /\ control[o] # Nothing
    /\ control' = [control EXCEPT ![o].shown =
                     CASE object_policy(o) = "BLOCKED" -> FALSE
                       [] object_policy(o) = "FORCED_EVENT" -> TRUE
                       [] OTHER -> wanted]
    /\ UNCHANGED <<calls, UI_CALL, hook, UI_OBJECTS>>

\* A page is built with its controls, and destroyed; the records stay.
Build(o, name) ==
    /\ calls = << >> /\ control[o] = Nothing /\ Standing(name) = {}
    /\ control' = [control EXCEPT ![o] = [name |-> name, shown |-> TRUE, found |-> FALSE]]
    /\ UNCHANGED <<calls, UI_CALL, hook, UI_OBJECTS>>
Destroy(o) ==
    /\ calls = << >> /\ control[o] # Nothing
    /\ control' = [control EXCEPT ![o] = Nothing]
    /\ UNCHANGED <<calls, UI_CALL, hook, UI_OBJECTS>>

Next == \/ \E name \in Names, site \in Sites : LookupEntered(name, site)
        \/ LookupReturns
        \/ \E o \in Objects, wanted \in BOOLEAN : SetVisible(o, wanted)
        \/ \E o \in Objects, name \in Names : Build(o, name)
        \/ \E o \in Objects : Destroy(o)
Spec == Init /\ [][Next]_ui
-----------------------------------------------------------------------------
\* A control of a retired service that a lookup has returned is hidden, and the
\* event button is shown, whatever the game asks for later, through lookups within
\* lookups, and when addresses are used again, unless the list was full when it
\* came: records are never given back.  A lookup that was overtaken counts for
\* nothing (there is one pending return).
RetiredControlsStayHidden ==
    calls = << >> => \A o \in Objects : control[o].found /\ Taken(o) =>
        /\ PolicyOf[control[o].name] = "BLOCKED" => ~control[o].shown
        /\ PolicyOf[control[o].name] = "FORCED_EVENT" => control[o].shown
=============================================================================
