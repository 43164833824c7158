----------------------------- MODULE FrameClock -----------------------------
(* The time the engine is given (guest_runtime.c, and run_frames of main.c):   *)
(* its simulation gets whole milliseconds, one delta per update, its clocks    *)
(* show a timeline that is moved on with the display.  Times are counted in    *)
(* thirty-sixths of a millisecond, in which the periods of the displays, whole *)
(* milliseconds and their halves are whole numbers.                            *)
EXTENDS Integers, FiniteSets, FiniteSetsExt
CONSTANTS Rates,          \* of the display, in Hz; divisors of 36000
          TARGET_FPS      \* MR_GRAPHICS_ENGINE_HZ
VARIABLES refresh,        \* period of the display, 0 before the first frame
          TARGET_FPS_BYTE,
          field,          \* the rate in the memory of the game
          residual,       \* STEP_RESIDUAL
          last_dt,        \* STEP_STATS.last_dt
          CLOCK_ACTIVE,
          frame,          \* wait, update
          waited,         \* time the display has shown since the last update
          missed,         \* ghost: as much of it in skipped periods or on another display
          drift,          \* ghost: deltas given, less the scaled time they are for
          late,           \* ghost: periods skipped since ahead was 0, or NotCompared
          ahead           \* ghost: the timeline, less the time the display has shown
time == <<refresh, TARGET_FPS_BYTE, field, residual, last_dt, CLOCK_ACTIVE, frame, waited, missed, drift,
          late, ahead>>
-----------------------------------------------------------------------------
Millisecond == 36
Second == 1000 * Millisecond
CLOCK_GAP_PERIODS == 8
MaxLate == 2          \* bound on the periods skipped while timeline and display are compared
NotCompared == -1
Period(rate) == Second \div rate
lround(a, b) == (2 * a + b) \div (2 * b)

\* mr_guest_clock_reset and mr_guest_set_target_fps before the first frame; 30
\* stands for whatever rate the game asks for itself.
Init ==
    /\ refresh = 0 /\ TARGET_FPS_BYTE = 0 /\ field = 30
    /\ residual = 0 /\ last_dt = 0 /\ CLOCK_ACTIVE = FALSE
    /\ frame = "wait" /\ waited = 0 /\ missed = 0
    /\ drift = 0 /\ late = NotCompared /\ ahead = 0

derive_target_fps_byte(period) ==
    LET frames == Max({1, lround(Second, TARGET_FPS * period)})
    IN  Min({255, Max({1, lround(Second, period * frames)})})

\* The period of the display, or the part of the last delta that is due for it
\* if the two differ by no more than a twentieth (CLOCK_LOCK_TOLERANCE).
Frames(dt, period) == lround(dt * Millisecond, period)
Accepts(dt, period) ==
    /\ Frames(dt, period) >= 1
    /\ LET advance == (dt * Millisecond) \div Frames(dt, period)
       IN  20 * Max({advance - period, period - advance}) <= period
frame_advance_ns(period) ==
    IF Accepts(last_dt, period) THEN (last_dt * Millisecond) \div Frames(last_dt, period) ELSE period

\* mr_guest_clock_step of the frame loop, for the periods since the last frame:
\* more than one when frames were skipped, after many the timeline starts anew
\* at the time it is.  Timeline and display are compared while this one stays
\* the same, over a few skipped periods.
Capped(n) == Max({-(MaxLate + 2) * Millisecond, Min({(MaxLate + 2) * Millisecond, n})})
mr_guest_clock_step(rate, periods) ==
    /\ frame = "wait" /\ frame' = "update"
    /\ refresh' = Period(rate)
    /\ TARGET_FPS_BYTE' = derive_target_fps_byte(refresh')
    /\ CLOCK_ACTIVE' = TRUE
    /\ waited' = waited + periods * refresh'
    /\ missed' = (IF refresh' = refresh THEN missed ELSE waited) + (periods - 1) * refresh'
    /\ LET compared == /\ late # NotCompared /\ late + periods - 1 <= MaxLate
                       /\ CLOCK_ACTIVE /\ periods <= CLOCK_GAP_PERIODS /\ refresh' = refresh
       IN  /\ late' = IF compared THEN late + periods - 1 ELSE NotCompared
           /\ ahead' = IF compared THEN Capped(ahead + periods * (frame_advance_ns(refresh') - refresh'))
                       ELSE 0
    /\ UNCHANGED <<field, residual, last_dt, drift>>

\* The game sets its rate, for a menu or a movie.
GameSetsRate ==
    /\ field' = 30
    /\ UNCHANGED <<refresh, TARGET_FPS_BYTE, residual, last_dt, CLOCK_ACTIVE, frame, waited, missed, drift,
                   late, ahead>>

\* A mutation: only at the first update.
apply_target_fps_Once == IF last_dt = 0 /\ TARGET_FPS_BYTE # 0 THEN TARGET_FPS_BYTE ELSE field
apply_target_fps == IF TARGET_FPS_BYTE # 0 THEN TARGET_FPS_BYTE ELSE field

\* apply_time_step for n updates with a time scale, in halves: the deltas, the
\* last of them, and the rest; a scale that is not between nothing and four
\* leaves the delta of the game.
Accepted(scale) == scale > 0 /\ scale < 8
Requested(scale) == (Period(TARGET_FPS_BYTE) * scale) \div 2
apply_time_step(scale, n) ==
    LET rest(k) == (residual + k * Requested(scale)) % Millisecond
    IN  [sum |-> (residual + n * Requested(scale)) \div Millisecond, residual |-> rest(n),
         dt |-> (rest(n - 1) + Requested(scale)) \div Millisecond]

\* nativeRender: the hook of OnUpdate sets the rate, and the game updates its
\* world when as much time as that has been shown, once or as often as the time
\* is enough for (the double steps of pacing_observe); observe_frame_update.
\* Periods that were skipped count for the world as far as updates make up for
\* them.
Update(scale, n) ==
    LET step == apply_time_step(scale, n)
        shown == Max({waited - missed, n * Period(field')})
    IN  /\ Accepted(scale)
        /\ residual' = step.residual /\ last_dt' = step.dt
        /\ drift' = drift + step.sum * Millisecond - (shown * scale) \div 2
        /\ late' = IF scale # 2 THEN NotCompared ELSE Max({0, late})
        /\ ahead' = IF scale # 2 THEN 0 ELSE ahead
Rejected(scale) ==
    /\ ~Accepted(scale)
    /\ residual' = 0 /\ last_dt' \in {16, 33}
    /\ drift' = 0 /\ late' = NotCompared /\ ahead' = 0
Render(scale) ==
    /\ frame = "update" /\ frame' = "wait"
    /\ field' = apply_target_fps
    /\ IF waited >= Period(field')
       THEN /\ waited' = 0 /\ missed' = 0
            /\ \E n \in 1..(waited \div Period(field')) : Update(scale, n) \/ Rejected(scale)
       ELSE UNCHANGED <<waited, missed, residual, last_dt, drift, late, ahead>>
    /\ UNCHANGED <<refresh, TARGET_FPS_BYTE, CLOCK_ACTIVE>>

Next ==
    \/ \E rate \in Rates, periods \in {1, 2, CLOCK_GAP_PERIODS + 1} : mr_guest_clock_step(rate, periods)
    \/ GameSetsRate
    \/ \E scale \in {0, 1, 2, 3, 8} : Render(scale)

Spec == Init /\ [][Next]_time
-----------------------------------------------------------------------------
(* "A single fractional accumulator alternates adjacent integer deltas so      *)
(* their average matches the selected cadence, and applies the engine time     *)
(* scale before quantization." (ARCHITECTURE.md:254)  The world is never as    *)
(* much as a millisecond from the scaled time the display has shown, but for   *)
(* the periods that are skipped and not made up for, and for what was shown    *)
(* of a frame when the display changes its rate: over changes of display,      *)
(* scale and the game's own rate, and pauses.  (From an invalid scale, which   *)
(* leaves the game its own delta, it starts anew.)                             *)
WorldKeepsTime == drift \in -(Millisecond - 1)..0

(* "Display-link time drives rendering and guest frame time"                   *)
(* (ARCHITECTURE.md:243): while the display is the same and time is not        *)
(* scaled, the timeline is a millisecond from the time the display has shown,  *)
(* and no more than another for every period that was skipped, for which       *)
(* mr_guest_clock_step takes the last delta again.                             *)
ClockFollowsDisplay ==
    late # NotCompared => Max({ahead, -ahead}) <= (1 + late) * Millisecond

(* frame_advance_ns keeps to that on displays of which it takes both of the    *)
(* deltas that alternate, or none.  At 72 or 144 Hz it takes one of the two.   *)
Locks(period) ==
    LET due == Period(derive_target_fps_byte(period))
        short == due \div Millisecond
        long == IF due % Millisecond = 0 THEN short ELSE short + 1
    IN  Accepts(short, period) <=> Accepts(long, period)

TimeIsKept == WorldKeepsTime /\ (refresh # 0 /\ Locks(refresh) => ClockFollowsDisplay)
=============================================================================
