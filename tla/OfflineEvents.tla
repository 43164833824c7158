---------------------------- MODULE OfflineEvents ----------------------------
(* The local weekly events (offline_events.c).  The hooks replace the game's   *)
(* StartLoading and Update of the events manager: each call tries to add the   *)
(* event of the closed week and the one of the current week, then to           *)
(* synchronize the missions with them, and tries again a little later when the *)
(* game is not ready.  A hook runs to its end on the engine thread; what may   *)
(* go wrong inside is guest memory, a guest call that faults, and a list that  *)
(* does not grow.                                                              *)
EXTENDS Integers, Sequences, SequencesExt
CONSTANTS Managers,       \* addresses the game may pass for its EventsMgr
          WEEK_KEY_LIMIT, \* the first week number an event id cannot hold
          FirstWeek       \* the week in which the game is started
VARIABLES week,   \* the week of the host's clock
          game,   \* [version, missions]: which singletons the game has made
          mgr,    \* MANAGER: address, phase, backoff (retry_after_ms), ACTIVE_ID
          list,   \* the events in the game's weekly list: [week, object]
          objects,\* [made, freed]: allocations of social::Event, those returned
          fault   \* a guest call has stopped the game
events == <<week, game, mgr, list, objects, fault>>
-----------------------------------------------------------------------------
NoManager == "none"

\* What may happen while one week is added, in the order of the code.
Mishaps == {"no list", "json faults", "json", "memory", "ctor faults", "add faults", "flat", "none"}

\* What a hook works on, and the state it leaves.
Scene == [mgr |-> mgr, list |-> list, objects |-> objects, fault |-> fault, status |-> 0]
Leave(s) == /\ mgr' = s.mgr /\ list' = s.list
            /\ objects' = s.objects /\ fault' = s.fault

Fails(s) == [s EXCEPT !.status = -1]
Again(s) == [s EXCEPT !.status = 1]

\* The cleanup of an event the game never took.
Discard(s, faulted) ==
    [Fails(s) EXCEPT !.objects = [made |-> @.made + 1, freed |-> @.freed \cup {@.made}],
                     !.fault = faulted]

add_week_event(s, w, mishap) ==
    LET object == s.objects.made
        given == [s EXCEPT !.objects.made = @ + 1]
    IN  CASE mishap = "no list" -> Again(s)
          [] mishap = "json faults" -> [Fails(s) EXCEPT !.fault = TRUE]
          [] mishap \in {"json", "memory"} -> Fails(s)
          [] mishap \in {"ctor faults", "add faults"} -> Discard(s, TRUE)
          [] mishap = "flat" -> [Fails(given) EXCEPT !.mgr.phase = "FAILED"]
          [] OTHER -> [given EXCEPT !.list = Append(@, [week |-> w, object |-> object]),
                                    !.mgr.phase = "ADDED", !.mgr.active = w]

\* A mutation: the phase moves on only when both events are in.
add_current_event_BothOrNone(s, category, first, second) ==
    IF ~category \/ ~game.version THEN Again(s)
    ELSE IF week >= WEEK_KEY_LIMIT THEN Fails(s)
    ELSE LET closed == add_week_event(s, week - 1, first)
             open == add_week_event(closed, week, second)
         IN  IF closed.status # 0 THEN closed
             ELSE IF open.status # 0 THEN [open EXCEPT !.mgr.phase = "EMPTY"] ELSE open

\* The closed week first: its event has the greater key, and is to be claimed.
add_current_event(s, category, first, second) ==
    IF ~category \/ ~game.version THEN Again(s)
    ELSE IF week >= WEEK_KEY_LIMIT THEN Fails(s)
    ELSE LET closed == add_week_event(s, week - 1, first)
         IN  IF closed.status # 0 THEN closed ELSE add_week_event(closed, week, second)

sync_current_mission(s, faults) ==
    IF ~game.missions THEN Again(s)
    ELSE IF faults THEN [Fails(s) EXCEPT !.fault = TRUE]
    ELSE [s EXCEPT !.mgr.phase = "READY"]

service_manager(s, category, first, second, faults) ==
    LET idle == s.mgr.phase \in {"READY", "FAILED"} \/ s.mgr.backoff
        added == IF s.mgr.phase = "EMPTY" THEN add_current_event(s, category, first, second) ELSE s
        synced == IF ~added.fault /\ added.status = 0 /\ added.mgr.phase = "ADDED"
                  THEN sync_current_mission(added, faults) ELSE added
    IN  IF idle THEN s
        ELSE [synced EXCEPT !.mgr.backoff = synced.status # 0, !.status = 0]

\* Only one EventsMgr is served; a second one ends the service.
manager_state(s, m) ==
    IF s.mgr.address \in {NoManager, m} THEN [s EXCEPT !.mgr.address = m]
    ELSE [s EXCEPT !.mgr.phase = "FAILED"]
-----------------------------------------------------------------------------
Init == /\ week = FirstWeek /\ game = [version |-> FALSE, missions |-> FALSE]
        /\ mgr = [address |-> NoManager, phase |-> "EMPTY", backoff |-> FALSE, active |-> 0]
        /\ list = << >> /\ objects = [made |-> 0, freed |-> {}] /\ fault = FALSE

\* StartLoading names a category, which may be missing; Update passes the game's.
before_block ==
    /\ ~fault
    /\ \E m \in Managers, category, faults \in BOOLEAN, first, second \in Mishaps :
         LET known == manager_state(Scene, m)
         IN  Leave(IF known.mgr.address # m THEN known
                   ELSE service_manager(known, category, first, second, faults))
    /\ UNCHANGED <<week, game>>

\* RETRY_DELAY_MS pass.
RetryIsDue == /\ mgr.backoff /\ mgr' = [mgr EXCEPT !.backoff = FALSE]
              /\ UNCHANGED <<week, game, list, objects, fault>>

\* The game reads its version; it makes its OnlineMissionMgr; the week ends.
VersionIsRead == /\ ~game.version /\ game' = [game EXCEPT !.version = TRUE]
                 /\ UNCHANGED <<week, mgr, list, objects, fault>>
MissionsAreMade == /\ ~game.missions /\ game' = [game EXCEPT !.missions = TRUE]
                   /\ UNCHANGED <<week, mgr, list, objects, fault>>
Monday == /\ week < WEEK_KEY_LIMIT /\ week' = week + 1
          /\ UNCHANGED <<game, mgr, list, objects, fault>>

Next == before_block \/ RetryIsDue \/ VersionIsRead \/ MissionsAreMade \/ Monday
Spec == Init /\ [][Next]_events
-----------------------------------------------------------------------------
\* However often the hooks try again, and in whichever week, the game never
\* gets the event of a week twice, never keeps an event whose memory was
\* returned, and the events it has are consecutive weeks, the older one first.
NoEventTwice ==
    /\ \A i, j \in DOMAIN list : i # j => list[i].week # list[j].week
    /\ fault \/ \A i \in DOMAIN list : list[i].object \notin objects.freed
    /\ Len(list) = 2 => list[2].week = list[1].week + 1
=============================================================================
