---------------------------- MODULE DepartureClock ----------------------------
(***************************************************************************)
(* The absolute departure schedule of TimingCorrelator                     *)
(* (src/timing_correlator.rs): which instant the next slot gets when one   *)
(* fires, and how much of a backlog is made up for.                        *)
(***************************************************************************)
EXTENDS Integers

CONSTANTS
  Iats,          \* the intervals exponential_sample returns after the clamp
  CatchupLag     \* MAX_CATCHUP_LAG

ASSUME ClockAssumption ==
  /\ Iats \subseteq Nat \ {0}
  /\ Iats # {}
  /\ CatchupLag \in Nat

-----------------------------------------------------------------------------
\* TimingCorrelator::slot_ready.
SlotReady(next, t) == t >= next

\* TimingCorrelator::advance_clock: the next slot follows the previous SLOT,
\* not the present, unless the schedule has fallen so far behind that the
\* debt is dropped.
AdvanceClock(next, iat, t) ==
  IF next + iat + CatchupLag < t THEN t + iat ELSE next + iat

\* TimingCorrelator::restart_clock.
RestartClock(iat, t) == AdvanceClock(t, iat, t)

=============================================================================
