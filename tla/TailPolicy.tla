------------------------------ MODULE TailPolicy ------------------------------
(***************************************************************************)
(* When a shaped flow may start to carry real data and how long it must    *)
(* be padded after its source has ended: the epoch clock, the session      *)
(* classes and the tail targets of src/transport.rs and                    *)
(* src/session_bounder.rs.                                                 *)
(*                                                                         *)
(* Instants are natural numbers counted from the origin of the epoch       *)
(* clock.  One unit is EMIT_TICK = 1 ms, which is also the shortest        *)
(* interval the departure clock can draw.                                  *)
(***************************************************************************)
EXTENDS Integers

CONSTANTS
  Policy,            \* the TailPolicy variant of the flow
  Period,            \* EpochClock.period
  FixedFloor,        \* the duration of TailPolicy::Fixed
  TargetDuration,    \* SessionClass::target_duration
  TargetCells,       \* SessionClass::target_volume_bytes / CELL_BYTES
  VolumeQuantum      \* TAIL_VOLUME_QUANTUM_CELLS

\* The four classes of session_bounder.rs, smallest first.
SessionClass == {"Short", "Medium", "Long", "VeryLong"}

Policies == {"Off", "Fixed", "ByClass", "Epoch"}

\* Fuzzed class boundaries: one draw per session, ordered by construction.
Thresholds ==
  {t \in [short_max : Nat, medium_max : Nat, long_max : Nat] :
     t.short_max < t.medium_max /\ t.medium_max < t.long_max}

ASSUME PolicyAssumption ==
  /\ Policy \in Policies
  /\ Period \in Nat
  /\ FixedFloor \in Nat
  /\ TargetDuration \in [SessionClass -> Nat]
  /\ TargetCells \in [SessionClass -> Nat]
  /\ VolumeQuantum \in Nat \ {0}

-----------------------------------------------------------------------------
\* EpochClock::next_boundary: the boundary after t.  A clock of period zero
\* (MIXTOR_TAIL_FLOOR_MS=epoch:0) returns t itself.
NextBoundary(t) ==
  IF Period = 0 THEN t ELSE (t \div Period + 1) * Period

\* FuzzedClassThresholds::classify.
Classify(thresholds, bytes) ==
  IF bytes <= thresholds.short_max THEN "Short"
  ELSE IF bytes <= thresholds.medium_max THEN "Medium"
  ELSE IF bytes <= thresholds.long_max THEN "Long"
  ELSE "VeryLong"

\* The Fixed policy's volume target: the cells already on the wire, rounded
\* up to a whole quantum.
RoundUpToQuantum(cells) ==
  ((cells + VolumeQuantum - 1) \div VolumeQuantum) * VolumeQuantum

\* Fault: the epoch tail is anchored at the class floor only.
TailTargets_FloorOnly(bytes, cells, thresholds, start, t) ==
  [deadline |-> NextBoundary(start + TargetDuration[Classify(thresholds, bytes)]), vol |-> 0]

\* tail_targets: the instant and the wire volume to reach before closing.
\* None (policy Off) is the target that is met at once.
TailTargets(bytes, cells, thresholds, start, t) ==
  LET class == Classify(thresholds, bytes)
      floor == start + TargetDuration[class]
  IN  CASE Policy = "Off"     -> [deadline |-> 0, vol |-> 0]
        [] Policy = "Fixed"   -> [deadline |-> start + FixedFloor,
                                  vol |-> RoundUpToQuantum(cells)]
        [] Policy = "ByClass" -> [deadline |-> floor, vol |-> TargetCells[class]]
        [] Policy = "Epoch"   -> [deadline |-> NextBoundary(IF floor > t THEN floor ELSE t),
                                  vol |-> 0]

\* Fault: the backstop coincides with the deadline.
Backstop_NoGrace(tail, t, grace) == IF Policy = "Off" THEN t ELSE tail.deadline

\* The backstop service_flow sets with the targets: a grace period after the
\* deadline, or after now when there is no tail.
Backstop(tail, t, grace) ==
  IF Policy = "Off" THEN t + grace ELSE tail.deadline + grace

=============================================================================
