------------------------------ MODULE GuestCalls ------------------------------
(* The boundary between the game's code and the host (guest_runtime.c, with the *)
(* dispatcher of a64_runtime.c).  The registers of one guest thread are shared  *)
(* by every level: the engine calls the game, the game calls an import or       *)
(* enters a hooked function, and that host code may call the game again, which  *)
(* calls imports.  A level must leave the registers so that the one below goes  *)
(* on where it was, in the right instruction set.                               *)
EXTENDS Integers, Sequences, SequencesExt
CONSTANTS Functions,  \* entries of guest functions
          Hooked,     \* those with a hook that may call the game
          Sites,      \* return addresses in the game's code
          IsThumb(_), \* the instruction set at an entry or a return address
          MaxDepth,   \* bound on the activations of the game's functions
          MaxLevels   \* bound on the levels of host code
VARIABLES cpu,   \* [pc, lr, thumb, redirect, blocked]: the registers that steer
          guest, \* the game's stack: [ret, at], at = where it is to go on
          host,  \* the host's stack: [kind, saved], innermost last
          jump,  \* the game's jmp_buf: [site, depth, level]
          fault
boundary == <<cpu, guest, host, jump, fault>>
-----------------------------------------------------------------------------
MAGIC == "MR_RETURN_MAGIC"
Import == "import"
None == "none"
NoJump == [site |-> None, depth |-> 0, level |-> 0]
Level(kind) == [kind |-> kind, saved |-> cpu]
Inside(kind) == host # << >> /\ Last(host).kind = kind
\* An import that has begun to wait returns at once: it does nothing more.
Working == Inside("import") /\ ~cpu.blocked

\* The dispatcher finds a block only for an address in its instruction set.
InGuest == ~fault /\ Inside("call") /\ cpu.pc \in Functions \cup Sites
Translated == cpu.thumb = IsThumb(cpu.pc)

\* Going to an address with its mode, as BX does.
BranchTo(c, to) == [c EXCEPT !.pc = to, !.thumb = IF to = MAGIC THEN FALSE ELSE IsThumb(to)]

Init == /\ cpu = [pc |-> None, lr |-> None, thumb |-> FALSE, redirect |-> None, blocked |-> FALSE]
        /\ guest = << >> /\ host = << >> /\ jump = NoJump /\ fault = FALSE

\* mr_guest_call: from the engine, from an import (qsort) or from a hook.
mr_guest_call(f) ==
    /\ ~fault /\ Len(guest) < MaxDepth /\ Len(host) < MaxLevels
    /\ host = << >> \/ Working \/ Inside("hook")
    /\ host' = Append(host, Level("call"))
    /\ guest' = Append(guest, [ret |-> MAGIC, at |-> f])
    /\ cpu' = BranchTo([cpu EXCEPT !.lr = MAGIC], f)
    /\ UNCHANGED <<jump, fault>>

\* A mutation: the link register is left to the calling convention.
Restored_NoLink(saved) == [saved EXCEPT !.lr = cpu.lr]

\* What a nested call puts back.
Restored(saved) == saved

\* The call returns to the magic address; only a nested one restores.
CallReturns ==
    /\ ~fault /\ Inside("call") /\ cpu.pc = MAGIC
    /\ cpu' = IF Len(host) > 1 THEN Restored(Last(host).saved) ELSE cpu
    /\ host' = Front(host) /\ UNCHANGED <<guest, jump, fault>>

\* The game's code: a call of its own, an import, a kernel helper, a return.
GuestCall(f, site) ==
    /\ InGuest /\ Translated /\ Len(guest) < MaxDepth /\ IsThumb(site) = cpu.thumb
    /\ cpu.pc \notin Hooked
    /\ guest' = Append([guest EXCEPT ![Len(guest)].at = site], [ret |-> site, at |-> f])
    /\ cpu' = BranchTo([cpu EXCEPT !.lr = site], f)
    /\ UNCHANGED <<host, jump, fault>>
CallsImport(site) ==
    /\ InGuest /\ Translated /\ IsThumb(site) = cpu.thumb /\ cpu.pc \notin Hooked
    /\ guest' = [guest EXCEPT ![Len(guest)].at = site]
    /\ cpu' = [cpu EXCEPT !.lr = site, !.pc = Import, !.thumb = FALSE]
    /\ UNCHANGED <<host, jump, fault>>
kuser_step(site) ==
    /\ InGuest /\ Translated /\ IsThumb(site) = cpu.thumb /\ cpu.pc \notin Hooked
    /\ guest' = [guest EXCEPT ![Len(guest)].at = site]
    /\ cpu' = BranchTo([cpu EXCEPT !.lr = site], site)
    /\ UNCHANGED <<host, jump, fault>>
Kept == IF jump.depth = Len(guest) THEN NoJump ELSE jump
GuestReturns ==
    /\ InGuest /\ Translated /\ cpu.pc \notin Hooked
    /\ guest' = Front(guest) /\ cpu' = BranchTo(cpu, Last(guest).ret)
    /\ jump' = Kept /\ UNCHANGED <<host, fault>>

\* step_host_import: the import starts with a clean redirect, or again after the
\* scheduler woke the thread it had blocked.
ImportEntered ==
    /\ ~fault /\ Inside("call") /\ cpu.pc = Import /\ Len(host) < MaxLevels
    /\ cpu' = [cpu EXCEPT !.redirect = None, !.blocked = FALSE]
    /\ host' = Append(host, [Level("import") EXCEPT !.saved = cpu'])
    /\ UNCHANGED <<guest, jump, fault>>

s_setjmp ==
    /\ ~fault /\ Working /\ cpu.redirect = None
    /\ jump' = [site |-> cpu.lr, depth |-> Len(guest), level |-> Len(host)]
    /\ UNCHANGED <<cpu, guest, host, fault>>

\* A jump within one level of host code to an activation that is still there.
s_longjmp ==
    /\ ~fault /\ Working /\ jump # NoJump
    /\ jump.level = Len(host) /\ jump.depth <= Len(guest)
    /\ \A d \in jump.depth + 1..Len(guest) : guest[d].ret # MAGIC
    /\ guest' = [SubSeq(guest, 1, jump.depth) EXCEPT ![jump.depth].at = jump.site]
    /\ cpu' = [cpu EXCEPT !.redirect = jump.site]
    /\ UNCHANGED <<host, jump, fault>>

\* A wait: the thread stays at the import's address and comes back to it.
Blocks == /\ ~fault /\ Inside("import") /\ cpu.redirect = None
          /\ cpu' = [cpu EXCEPT !.blocked = TRUE]
          /\ UNCHANGED <<guest, host, jump, fault>>

\* The import is over; in a nested run one that blocks is a fault.
ImportReturns ==
    /\ ~fault /\ Inside("import") /\ host' = Front(host)
    /\ IF cpu.blocked
       THEN fault' = (Len(host') > 1) /\ cpu' = cpu
       ELSE /\ cpu' = BranchTo(cpu, IF cpu.redirect # None THEN cpu.redirect ELSE cpu.lr)
            /\ fault' = fault
    /\ UNCHANGED <<guest, jump>>

\* A hooked function is entered: the hook runs in its place, may call the game,
\* and returns to the function's caller.  (A hook that lets the function run
\* calls nothing: its function is an ordinary one here.)
HookEntered ==
    /\ InGuest /\ Translated /\ cpu.pc \in Hooked /\ Len(host) < MaxLevels
    /\ host' = Append(host, Level("hook")) /\ UNCHANGED <<cpu, guest, jump, fault>>
mr_guest_synthetic_return ==
    /\ ~fault /\ Inside("hook") /\ host' = Front(host)
    /\ guest' = Front(guest) /\ cpu' = BranchTo(cpu, cpu.lr)
    /\ jump' = Kept /\ UNCHANGED fault

\* No block for this address, a bad memory access, the instruction limit.
Faults == /\ ~fault /\ Inside("call") /\ fault' = TRUE /\ UNCHANGED <<cpu, guest, host, jump>>
\* After a fault every level returns at once and puts nothing back.
Unwind == /\ fault /\ host # << >> /\ host' = Front(host)
          /\ UNCHANGED <<cpu, guest, jump, fault>>

Next == \/ \E f \in Functions : mr_guest_call(f) \/ \E site \in Sites : GuestCall(f, site)
        \/ \E site \in Sites : CallsImport(site) \/ kuser_step(site)
        \/ CallReturns \/ GuestReturns \/ ImportEntered \/ s_setjmp \/ s_longjmp
        \/ Blocks \/ ImportReturns \/ HookEntered \/ mr_guest_synthetic_return
        \/ Faults \/ Unwind
Spec == Init /\ [][Next]_boundary
-----------------------------------------------------------------------------
\* Whatever host code ran in between, however deeply it called the game, the
\* game goes on exactly where its innermost activation was to go on, and in the
\* instruction set of that place, so that its block is found; and an import that
\* called the game is resumed as the import it was.
CallsNest ==
    ~fault =>
      /\ InGuest => Translated /\ cpu.pc = Last(guest).at
      /\ Inside("import") => /\ cpu.pc = Import /\ cpu.lr = Last(host).saved.lr
                             /\ cpu.redirect \in {None, Last(guest).at}
      /\ Inside("hook") => cpu = Last(host).saved
      /\ host = << >> => guest = << >>
=============================================================================
