---------------------------- MODULE GuestSchedProofs ----------------------------
(***************************************************************************)
(* What the proofs about GuestSync and GuestThreads need to know of the    *)
(* scheduler they share: the records of waits, and who is picked to run.   *)
(***************************************************************************)
EXTENDS GuestSched, TLAPS, WellFoundedInduction

USE CapacityAssumption, NoObjAssumption

-----------------------------------------------------------------------------
(* Helpers of the thread table. *)

(* Slot 0 exists. *)
LEMMA MainIsSlot == Main \in Slots
BY DEF Main, Slots

(* The wait-record helpers keep a thread a thread. *)
LEMMA RecordTypes ==
    ASSUME NEW t \in Thread
    PROVE  /\ ClearWait(t) \in Thread
           /\ Parked(t) \in Thread
           /\ Unparked(t) \in Thread
           /\ Requeued(t) \in Thread
           /\ \A kind \in Waits, o \in Objects \cup {NoObj}, a \in Objects \cup {NoObj},
                 timed \in BOOLEAN : Blocked(t, kind, o, a, timed) \in Thread
BY DEF Thread, ClearWait, Parked, Unparked, Requeued, Blocked, States, Waits, Results

(* make_runnable keeps the table a table. *)
LEMMA WokenTypes ==
    ASSUME NEW th \in [Slots -> Thread], NEW S, NEW r \in Results
    PROVE  /\ Woken(th, S, r) \in [Slots -> Thread]
           /\ WokenKeeping(th, S) \in [Slots -> Thread]
<1>1. ASSUME NEW i \in Slots
      PROVE  /\ [th[i] EXCEPT !.state = "RUNNABLE", !.ready = TRUE] \in Thread
             /\ [th[i] EXCEPT !.state = "RUNNABLE", !.result = r, !.ready = TRUE] \in Thread
  BY DEF Thread, States
<1>2. Woken(th, S, r) \in [Slots -> Thread]
  BY <1>1 DEF Woken
<1>3. WokenKeeping(th, S) \in [Slots -> Thread]
  BY <1>1 DEF WokenKeeping
<1> QED
  BY <1>2, <1>3

(* process_timeouts keeps the table a table.                                  *)
LEMMA TimedOutType ==
    ASSUME NEW th \in [Slots -> Thread], NEW expired
    PROVE  TimedOut(th, expired) \in [Slots -> Thread]
BY WokenTypes DEF TimedOut, Results

(* A non-empty set of slots has a member the scan after s->current meets     *)
(* first: wake_one_waiter and pick_worker find one when there is one.        *)
LEMMA FirstExists ==
    ASSUME current \in Slots, NEW S \in SUBSET Slots, S # {}
    PROVE  \E i \in S : \A j \in S : Distance(i) =< Distance(j)
<1> DEFINE D == {Distance(i) : i \in S}
<1>1. ASSUME NEW i \in S
      PROVE  Distance(i) \in Nat
  <2>1. i - current - 1 \in Int /\ Capacity \in Nat /\ Capacity > 0
    BY DEF Slots
  <2> QED
    BY <2>1 DEF Distance
<1>2. D \subseteq Nat /\ D # {}
  BY <1>1
<1>3. PICK d \in D : \A e \in D : ~ (<<e, d>> \in OpToRel(<, Nat))
  BY <1>2, NatLessThanWellFounded, WFMin
<1>4. ASSUME NEW e \in D
      PROVE  d =< e
  <2>1. <<e, d>> \notin {ss \in Nat \X Nat : ss[1] < ss[2]}
    BY <1>3, Zenon DEF OpToRel
  <2> HIDE DEF D
  <2>2. e \in Nat /\ d \in Nat
    BY <1>2
  <2> QED
    BY <2>1, <2>2
<1> QED
  BY <1>4

(* The scan from the slot after s->current picks a member of the set it scans.*)
LEMMA FirstIsMember ==
    ASSUME current \in Slots, NEW S \in SUBSET Slots
    PROVE  /\ FirstAfterCurrent(S) \subseteq S
           /\ S # {} => FirstAfterCurrent(S) # {}
BY FirstExists DEF FirstAfterCurrent

(* A scan from slot 0 picks a member, and finds one when there is one.        *)
LEMMA LowestIsMember ==
    ASSUME NEW S \in SUBSET Nat
    PROVE  LowestOf(S) \subseteq S /\ (S # {} => LowestOf(S) # {})
<1>1. CASE S = {}
  BY <1>1 DEF LowestOf
<1>2. CASE S # {}
  <2>1. PICK d \in S : \A e \in S : ~ (<<e, d>> \in OpToRel(<, Nat))
    BY <1>2, NatLessThanWellFounded, WFMin
  <2>2. ASSUME NEW e \in S
        PROVE  d =< e
    <3>1. <<e, d>> \notin {ss \in Nat \X Nat : ss[1] < ss[2]}
      BY <2>1, Zenon DEF OpToRel
    <3> QED
      BY <3>1
  <2> QED
    BY <1>2, <2>2 DEF LowestOf
<1> QED
  BY <1>1, <1>2

(* A thread that is picked is runnable, and never the main thread when the   *)
(* idle loop picks.                                                          *)
LEMMA PickedIsRunnable ==
    ASSUME current \in Slots, NEW th \in [Slots -> Thread], NEW workers \in SUBSET (Slots \ {Main}),
           NEW main \in BOOLEAN
    PROVE  /\ Pick(th, workers, main) \subseteq Runnable(th)
           /\ ~main => Main \notin Pick(th, workers, main)
<1>1. Runnable(th) \subseteq Slots /\ Runnable(th) \cap workers \in SUBSET Nat
  BY DEF Runnable, Slots
<1>2. /\ LowestOf(Runnable(th) \cap workers) \subseteq Runnable(th) \cap workers
      /\ FirstAfterCurrent(Runnable(th) \ {Main}) \subseteq Runnable(th) \ {Main}
  BY <1>1, LowestIsMember, FirstIsMember
<1> QED
  BY <1>2 DEF Pick

(* What make_runnable does to one thread. *)
LEMMA WokenFields ==
    ASSUME NEW th \in [Slots -> Thread], NEW S, NEW r \in Results, NEW i \in Slots
    PROVE  /\ Woken(th, S, r)[i].wait = th[i].wait
           /\ Woken(th, S, r)[i].obj = th[i].obj
           /\ Woken(th, S, r)[i].aux = th[i].aux
           /\ WokenKeeping(th, S)[i].wait = th[i].wait
           /\ WokenKeeping(th, S)[i].obj = th[i].obj
           /\ WokenKeeping(th, S)[i].aux = th[i].aux
           /\ WokenKeeping(th, S)[i].result = th[i].result
           /\ IF i \in S /\ th[i].state = "BLOCKED"
              THEN /\ Woken(th, S, r)[i].state = "RUNNABLE" /\ Woken(th, S, r)[i].ready
                   /\ WokenKeeping(th, S)[i].state = "RUNNABLE" /\ WokenKeeping(th, S)[i].ready
              ELSE /\ Woken(th, S, r)[i] = th[i]
                   /\ WokenKeeping(th, S)[i] = th[i]
BY DEF Woken, WokenKeeping, Thread
=============================================================================
