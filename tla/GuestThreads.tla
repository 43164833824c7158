----------------------------- MODULE GuestThreads -----------------------------
(***************************************************************************)
(* The life of guest threads in src/native/guest_threads.c: create, join,  *)
(* detach and exit with thread-specific data and its destructors,          *)
(* pthread_once, and the callback workers the audio pump spawns.           *)
(*                                                                         *)
(* A thread returns from its entry, a destructor or a once initializer by  *)
(* reaching a magic address; the guest's stack discipline means that a     *)
(* thread inside an initializer leaves that first.  A shim that returns an *)
(* error and changes nothing only ends the call.                           *)
(***************************************************************************)
EXTENDS GuestSched, Sequences

CONSTANTS
    MaxTid,         \* bound on next_tid: identifiers are given out up to here
    NumKeys,        \* MR_MAX_TLS_KEYS - MR_TLS_FIRST_USER
    Passes,         \* MR_DESTRUCTOR_PASSES
    Onces,          \* guest addresses of pthread_once_t
    MaxOnce,        \* MR_MAX_ONCE
    Nesting         \* MR_ONCE_NESTING

ASSUME LifeObjectsAssumption == Onces \cup (1 .. MaxTid) \subseteq Objects
ASSUME LifeBoundsAssumption ==
    MaxTid \in Nat \ {0} /\ NumKeys \in Nat /\ Passes \in Nat \ {0} /\ Nesting \in Nat

VARIABLES
    life,           \* the rest of s->threads: identity, exit and once frames
    keys,           \* s->keys
    once,           \* s->once by address
    nextTid         \* s->next_tid

vars == <<schedVars, life, keys, once, nextTid>>
lifeVars == <<life, keys, once, nextTid>>

Keys == 0 .. NumKeys - 1
Tids == 1 .. MaxTid

Life == [tid : 0 .. MaxTid, detached : BOOLEAN, worker : BOOLEAN, exiting : BOOLEAN,
         pass : 0 .. Passes, index : 0 .. NumKeys, ran : BOOLEAN,
         tls : [Keys -> BOOLEAN], frames : Seq(Onces)]
Born(tid, detached, worker) ==
    [tid |-> tid, detached |-> detached, worker |-> worker, exiting |-> FALSE,
     pass |-> 0, index |-> 0, ran |-> FALSE, tls |-> [k \in Keys |-> FALSE], frames |-> <<>>]
Vacated == Born(0, FALSE, FALSE)

Prepared == [state |-> "RUNNABLE", wait |-> "NONE", obj |-> NoObj, aux |-> NoObj,
             timed |-> FALSE, result |-> "OK", ready |-> FALSE]
Vacant == [Prepared EXCEPT !.state = "UNUSED"]

NewOnce == [used |-> FALSE, state |-> "new", owner |-> 0]

Init ==
    /\ thread = [i \in Slots |-> IF i = Main THEN Prepared ELSE Vacant]
    /\ call = [i \in Slots |-> NoCall]
    /\ current = Main
    /\ loop = "host"
    /\ inQuantum = FALSE
    /\ started = {}
    /\ life = [i \in Slots |-> IF i = Main THEN Born(1, FALSE, FALSE) ELSE Vacated]
    /\ keys = [k \in Keys |-> [used |-> FALSE, destructor |-> FALSE]]
    /\ once = [o \in Onces |-> NewOnce]
    /\ nextTid = 2

Used(i) == thread[i].state # "UNUSED"
Workers == {i \in Slots : Used(i) /\ life[i].worker}
Self == life[current].tid

(* thread_by_tid: no slot, or the one that holds the identifier. *)
ByTid(t) == {i \in Slots : Used(i) /\ life[i].tid = t}

FreeSlot_ReusesZombies ==
    LowestOf({i \in Slots \ {Main} : thread[i].state \in {"UNUSED", "ZOMBIE"}})
FreeSlot == LowestOf({i \in Slots \ {Main} : thread[i].state = "UNUSED"})

-----------------------------------------------------------------------------
(* The loops.  The audio pump posts to parked workers and may spawn one for *)
(* a player without a worker (at most one in an iteration of the model).    *)
Iterate(posted, spawned) ==
    LET th == [i \in Slots |-> IF i \in posted THEN Unparked(thread[i])
                               ELSE IF i \in spawned THEN Prepared ELSE thread[i]]
    IN  /\ AtLoopTop
        /\ life' = [i \in Slots |-> IF i \in spawned THEN Born(nextTid, TRUE, TRUE)
                                    ELSE life[i]]
        /\ nextTid' = IF spawned = {} THEN nextTid ELSE nextTid + 1
        /\ Dispatch(th, Workers \cup spawned)
        /\ UNCHANGED <<keys, once>>

CancelCallback(i) ==
    /\ AnyCall
    /\ i \in Workers \ {current}
    /\ thread[i].state = "RUNNABLE"
    /\ i \notin started
    /\ thread' = [thread EXCEPT ![i] = Parked(@)]
    /\ UNCHANGED <<call, current, loop, inQuantum, started, lifeVars>>

InNoInitializer == life[current].frames = <<>>

-----------------------------------------------------------------------------
(* pthread_create, spawn_thread.  A full table is EAGAIN. *)
Create(detached) ==
    /\ AnyCall
    /\ nextTid =< MaxTid
    /\ nextTid' = nextTid + 1
    /\ \E i \in FreeSlot :
        /\ thread' = [thread EXCEPT ![i] = Prepared]
        /\ life' = [life EXCEPT ![i] = Born(nextTid, detached, FALSE)]
    /\ Returns
    /\ UNCHANGED <<keys, once>>

JoinersOf(t) ==
    {i \in Slots : thread[i].state = "BLOCKED" /\ thread[i].wait = "JOIN"
                   /\ thread[i].obj = t}

(* reap_thread: the slot is cleared, its identifier is never seen again. *)
ReapedThread(th, i) == [th EXCEPT ![i] = Vacant]
ReapedLife(lf, i) == [lf EXCEPT ![i] = Vacated]

JoinCall(t) == [NoCall EXCEPT !.op = "join", !.obj = t]
Joinable(i) == ~life[i].detached

Join(t) ==
    /\ Executing(JoinCall(t))
    /\ UNCHANGED <<keys, once, nextTid>>
    /\ \/ /\ \A i \in ByTid(t) : i = current \/ ~Joinable(i)
          /\ Returns
          /\ UNCHANGED <<thread, life>>
       \/ \E i \in ByTid(t) \ {current} :
          /\ Joinable(i)
          /\ \/ /\ thread[i].state # "ZOMBIE"
                /\ thread' = [thread EXCEPT ![current] = Blocked(@, "JOIN", t, NoObj, FALSE)]
                /\ Blocks(JoinCall(t))
                /\ UNCHANGED life
             \/ /\ thread[i].state = "ZOMBIE"
                /\ thread' = [ReapedThread(thread, i) EXCEPT ![current] = ClearWait(@)]
                /\ life' = ReapedLife(life, i)
                /\ Returns

Detach_KeepsZombies(t) ==
    /\ AnyCall
    /\ \E i \in ByTid(t) : /\ ~life[i].detached
                           /\ life' = [life EXCEPT ![i].detached = TRUE]
    /\ Returns
    /\ UNCHANGED <<thread, keys, once, nextTid>>
Detach(t) ==
    /\ AnyCall
    /\ \E i \in ByTid(t) :
        /\ ~life[i].detached
        /\ IF thread[i].state = "ZOMBIE"
           THEN /\ thread' = ReapedThread(thread, i)
                /\ life' = ReapedLife(life, i)
           ELSE /\ life' = [life EXCEPT ![i].detached = TRUE]
                /\ UNCHANGED thread
    /\ Returns
    /\ UNCHANGED <<keys, once, nextTid>>

-----------------------------------------------------------------------------
(* Exit and destructors. *)

(* The keys whose destructor a scan from l.index still has to call. *)
Pending(l) == {k \in Keys : /\ k >= l.index
                            /\ keys[k].used /\ keys[k].destructor
                            /\ l.tls[k]}

(* A scan that reached the end and ran something starts the next pass. *)
Rescan_Never(l) == l
Rescan(l) ==
    IF Pending(l) = {} /\ l.ran
    THEN [l EXCEPT !.pass = @ + 1, !.index = 0, !.ran = FALSE] ELSE l

(* start_next_destructor, which finalizes the thread when none is left.     *)
StartsDestructor(l) ==
    /\ Rescan(l).pass < Passes
    /\ \E k \in LowestOf(Pending(Rescan(l))) :
        life' = [life EXCEPT ![current] =
                    [Rescan(l) EXCEPT !.tls[k] = FALSE, !.ran = TRUE, !.index = k + 1]]
    /\ UNCHANGED <<schedVars, keys, once, nextTid>>

WithJoinersWoken(th, l) == Woken(th, JoinersOf(l.tid), "OK")

Finalizes(l) ==
    /\ Rescan(l).pass = Passes \/ Pending(Rescan(l)) = {}
    /\ LET woken == WithJoinersWoken(thread, l)
       IN  IF l.detached
           THEN /\ thread' = ReapedThread(woken, current)
                /\ life' = ReapedLife(life, current)
           ELSE /\ thread' = [woken EXCEPT ![current].state = "ZOMBIE"]
                /\ life' = [life EXCEPT ![current] = l]
    /\ inQuantum' = FALSE
    /\ UNCHANGED <<call, current, loop, started, keys, once, nextTid>>

ExitStep(l) == StartsDestructor(l) \/ Finalizes(l)

ThreadReturns ==
    /\ AnyCall
    /\ InNoInitializer
    /\ current # Main
    /\ ~life[current].worker
    /\ ~life[current].exiting
    /\ ExitStep([life[current] EXCEPT !.exiting = TRUE, !.pass = 0, !.index = 0,
                                      !.ran = FALSE])

DestructorReturns ==
    /\ AnyCall
    /\ InNoInitializer
    /\ life[current].exiting
    /\ ExitStep(life[current])

-----------------------------------------------------------------------------
(* Thread-specific data; the values are abstracted to null and not null. *)
CreateKey(destructor) ==
    /\ AnyCall
    /\ \E k \in LowestOf({k \in Keys : ~keys[k].used}) :
        keys' = [keys EXCEPT ![k] = [used |-> TRUE, destructor |-> destructor]]
    /\ UNCHANGED <<schedVars, life, once, nextTid>>

ForgottenBy_Caller(k) == [life EXCEPT ![current].tls[k] = FALSE]
ForgottenBy(k) == [i \in Slots |-> [life[i] EXCEPT !.tls[k] = FALSE]]

DeleteKey(k) ==
    /\ AnyCall
    /\ keys[k].used
    /\ keys' = [keys EXCEPT ![k] = [used |-> FALSE, destructor |-> FALSE]]
    /\ life' = ForgottenBy(k)
    /\ UNCHANGED <<schedVars, once, nextTid>>

SetSpecific(k, notNull) ==
    /\ AnyCall
    /\ keys[k].used
    /\ life' = [life EXCEPT ![current].tls[k] = notNull]
    /\ UNCHANGED <<schedVars, keys, once, nextTid>>

-----------------------------------------------------------------------------
(* pthread_once. *)
OnceFound(o) ==
    once[o].used \/ Cardinality({p \in Onces : once[p].used}) < MaxOnce

OnceCall(o) == [NoCall EXCEPT !.op = "once", !.obj = o]

Claimable_WhenNotDone(o) == once[o].state # "done" /\ once[o].owner # Self
Claimable(o) == once[o].state # "done" /\ once[o].owner = 0

Once(o) ==
    /\ Executing(OnceCall(o))
    /\ UNCHANGED <<keys, nextTid>>
    /\ \/ /\ OnceFound(o)
          /\ once[o].state = "done"
          /\ thread' = [thread EXCEPT ![current] = ClearWait(@)]
          /\ Returns
          /\ UNCHANGED <<life, once>>
       \/ /\ OnceFound(o)
          /\ Claimable(o)
          /\ Len(life[current].frames) < Nesting
          /\ once' = [once EXCEPT ![o] = [used |-> TRUE, state |-> "running", owner |-> Self]]
          /\ life' = [life EXCEPT ![current].frames = Append(@, o)]
          /\ thread' = [thread EXCEPT ![current] = ClearWait(@)]
          /\ Returns
       \/ /\ OnceFound(o)
          /\ Claimable(o)
          /\ Len(life[current].frames) >= Nesting
          /\ once' = [once EXCEPT ![o].used = TRUE]
          /\ Returns
          /\ UNCHANGED <<thread, life>>
       \/ /\ OnceFound(o)
          /\ ~Claimable(o)
          /\ once[o].state = "running" /\ once[o].owner # Self
          /\ thread' = [thread EXCEPT ![current] = Blocked(@, "ONCE", o, NoObj, FALSE)]
          /\ Blocks(OnceCall(o))
          /\ UNCHANGED <<life, once>>
       \/ /\ ~OnceFound(o) \/ once[o].owner = Self
          /\ Returns
          /\ UNCHANGED <<thread, life, once>>

OnceWaiters(o) ==
    {i \in Slots : thread[i].state = "BLOCKED" /\ thread[i].wait = "ONCE"
                   /\ thread[i].obj = o}

Released(o) == Woken(thread, OnceWaiters(o), "OK")

(* The initializer returns through MR_ONCE_RETURN_MAGIC. *)
OnceReturns ==
    LET frames == life[current].frames
        o == frames[Len(frames)]
    IN  /\ AnyCall
        /\ ~InNoInitializer
        /\ life' = [life EXCEPT ![current].frames = SubSeq(@, 1, Len(@) - 1)]
        /\ IF once[o].owner = Self
           THEN /\ once' = [once EXCEPT ![o].state = "done", ![o].owner = 0]
                /\ thread' = Released(o)
           ELSE UNCHANGED <<once, thread>>
        /\ Returns
        /\ UNCHANGED <<keys, nextTid>>

-----------------------------------------------------------------------------
HostStep ==
    /\ \/ EnterRun \/ EnterIdle \/ LeaveIdle \/ EndQuantum \/ GuestFault
       \/ InNoInitializer /\ (MainReturns \/ CallbackReturns(Workers))
    /\ UNCHANGED lifeVars

LoopStep ==
    \E posted \in SUBSET {i \in Workers : IsParked(thread[i])} :
        \/ Iterate(posted, {})
        \/ nextTid =< MaxTid /\ FreeSlot # {} /\ Iterate(posted, FreeSlot)

LifeStep ==
    \/ \E detached \in BOOLEAN : Create(detached)
    \/ \E t \in Tids : t < nextTid /\ (Join(t) \/ Detach(t))
    \/ ThreadReturns
    \/ DestructorReturns

KeyStep ==
    \/ \E destructor \in BOOLEAN : CreateKey(destructor)
    \/ \E k \in Keys :
        DeleteKey(k) \/ \E notNull \in BOOLEAN : SetSpecific(k, notNull)

OnceStep == (\E o \in Onces : Once(o)) \/ OnceReturns

Next ==
    \/ HostStep
    \/ LoopStep
    \/ LifeStep
    \/ KeyStep
    \/ OnceStep
    \/ \E i \in Slots : CancelCallback(i)

Spec == Init /\ [][Next]_vars

-----------------------------------------------------------------------------
TypeOK ==
    /\ SchedTypeOK
    /\ life \in [Slots -> Life]
    /\ keys \in [Keys -> [used : BOOLEAN, destructor : BOOLEAN]]
    /\ once \in [Onces -> [used : BOOLEAN, state : {"new", "running", "done"},
                            owner : 0 .. MaxTid]]
    /\ nextTid \in 2 .. MaxTid + 1

(* No joiner is stranded.  A thread asleep in pthread_join waits for a       *)
(* thread that has not ended: whoever ends wakes all its joiners, also when  *)
(* it was detached while they waited and its slot is gone at once.           *)
JoinerNotStranded ==
    \A i \in Slots :
        thread[i].state = "BLOCKED" /\ thread[i].wait = "JOIN"
            => \E j \in ByTid(thread[i].obj) : thread[j].state # "ZOMBIE"

(* No slot leaks.  An ended thread keeps its slot only while somebody may    *)
(* still join it: detaching it before, during or after its end frees it.     *)
ZombiesAreJoinable ==
    \A i \in Slots : thread[i].state = "ZOMBIE" => ~life[i].detached /\ i # Main

(* The end of a thread is settled with everybody: its joiners know, and its  *)
(* slot waits for one or is free.                                            *)
EndsAreSettled == JoinerNotStranded /\ ZombiesAreJoinable

(* A new key reads NULL in every thread.  Deleting a key forgets its value   *)
(* in all slots, so a reused index never shows a thread what another owner   *)
(* of that key stored, nor runs a new destructor on an old value.            *)
FreshKeysAreNull ==
    \A i \in Slots, k \in Keys : life[i].tls[k] => keys[k].used /\ Used(i)

FramesOf(o) ==
    {f \in Slots \X (1 .. Nesting) :
        f[2] =< Len(life[f[1]].frames) /\ life[f[1]].frames[f[2]] = o}

(* One initializer at a time.  A once control is running exactly while one   *)
(* frame of one live thread, its owner, is inside the initializer.           *)
OnceExclusive ==
    \A o \in Onces :
        /\ Cardinality(FramesOf(o)) = IF once[o].state = "running" THEN 1 ELSE 0
        /\ \A f \in FramesOf(o) : /\ life[f[1]].tid = once[o].owner
                                 /\ thread[f[1]].state \in {"RUNNABLE", "BLOCKED"}

(* Whoever waits for a once control waits for a running initializer, and is  *)
(* released by its return: nobody sleeps on a control that is done.          *)
OnceWaiterHasRunner ==
    \A i \in Slots :
        thread[i].state = "BLOCKED" /\ thread[i].wait = "ONCE"
            => once[thread[i].obj].state = "running"

(* pthread_once: one thread runs the initializer, the others wait for it.    *)
OnceProtocol == OnceExclusive /\ OnceWaiterHasRunner

(* A thread ends only after its destructors: unless it is in its last pass,  *)
(* no key with a destructor holds a value, also one a later destructor set.  *)
DestructorsRun ==
    [][\A i \in Slots \ {Main} :
         thread[i].state = "RUNNABLE" /\ thread'[i].state \in {"ZOMBIE", "UNUSED"}
            => \/ life[i].exiting /\ life[i].pass = Passes - 1
               \/ \A k \in Keys : keys[k].used /\ keys[k].destructor => ~life[i].tls[k]]_vars

(* The slots implement the life of identifiers. *)
StatusOf(t) ==
    IF t >= nextTid THEN "never"
    ELSE IF ByTid(t) = {} THEN "gone"
    ELSE LET i == CHOOSE i \in ByTid(t) : TRUE
         IN  IF thread[i].state = "ZOMBIE" THEN "ended"
             ELSE IF life[i].detached THEN "detached" ELSE "joinable"
WaitsOf(j) ==
    LET joining == {i \in ByTid(j) : thread[i].state = "BLOCKED" /\ thread[i].wait = "JOIN"}
    IN  IF joining = {} THEN 0 ELSE thread[CHOOSE i \in joining : TRUE].obj

Abstract == INSTANCE ThreadLife WITH
    First <- 1,
    Nobody <- 0,
    status <- [t \in Tids |-> StatusOf(t)],
    waits <- [j \in Tids |-> WaitsOf(j)]

(* Slots are reused, identifiers are not: every create, join, detach and     *)
(* exit is a step in the life of one identifier, and an ended thread is      *)
(* collected by exactly one join.                                            *)
ImplementsThreadLife == Abstract!Spec
=============================================================================
