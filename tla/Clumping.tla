------------------------------- MODULE Clumping -------------------------------
(***************************************************************************)
(* The clumping pool of src/clumping.rs and the burst scheduler of         *)
(* src/timing.rs: packets are held until the cycle's number of packets or  *)
(* its timeout is reached, both drawn afresh for every cycle; every burst  *)
(* is reported to the scheduler, which changes its regime after a drawn    *)
(* number of bytes or packets.                                             *)
(*                                                                         *)
(* The six distributions of a regime differ only in how they spread delays *)
(* over the same range, and are left out.                                  *)
(***************************************************************************)
EXTENDS Integers, Sequences, FiniteSetsExt

CONSTANTS
  MinPackets, MaxPackets,     \* packets per burst
  MinTimeout, MaxTimeout,     \* of a cycle
  RegimeBytes, RegimePackets  \* what a timing regime's thresholds are drawn from

\* ClumpingConfig::validate.
PoolValid ==
  /\ MinPackets \in Nat \ {0} /\ MaxPackets \in Nat /\ MinPackets <= MaxPackets
  /\ MinTimeout \in Nat \ {0} /\ MaxTimeout \in Nat /\ MinTimeout <= MaxTimeout

\* TimingConfig::validate.
TimingValid ==
  /\ RegimeBytes \subseteq Nat \ {0} /\ RegimeBytes # {}
  /\ RegimePackets \subseteq Nat \ {0} /\ RegimePackets # {}

ASSUME ClumpingAssumption == PoolValid /\ TimingValid

VARIABLES
  now,
  buffered,   \* the pool: packets [id, len, at]
  thr,        \* the cycle's thresholds
  deadline,   \* of the cycle, NoDeadline when the pool is empty
  burst,      \* the burst the caller has been given and not passed on yet
  tRegime,    \* the scheduler's regime
  tCount      \* bytes and packets seen in it

poolVars == <<buffered, thr, deadline>>
timingVars == <<tRegime, tCount>>

NoDeadline == -1

CycleThresholds == [packets : MinPackets .. MaxPackets, timeout : MinTimeout .. MaxTimeout]
TimingRegimes == [bytes : RegimeBytes, packets : RegimePackets]

\* ClumpingPool::with_config.
PoolInit ==
  /\ now = 0
  /\ buffered = <<>> /\ thr \in CycleThresholds /\ deadline = NoDeadline
  /\ burst = <<>>

\* SeedATimingScheduler::with_config.
SchedulerInit == tRegime \in TimingRegimes /\ tCount = [bytes |-> 0, packets |-> 0]

\* flush_ready on a pool that holds b.
FlushReady(b) ==
  LET n == Min({Len(b), thr.packets}) IN
  /\ burst' = SubSeq(b, 1, n)
  /\ buffered' = SubSeq(b, n + 1, Len(b))
  /\ thr' \in CycleThresholds
  /\ deadline' = IF buffered' = <<>> THEN NoDeadline ELSE now + thr'.timeout

\* Fault: one packet more than the threshold is held.
Push_OffByOne(p) ==
  LET b == Append(buffered, p) IN
  /\ burst = <<>>
  /\ IF Len(b) > thr.packets
     THEN FlushReady(b)
     ELSE /\ buffered' = b
          /\ deadline' = IF buffered = <<>> THEN now + thr.timeout ELSE deadline
          /\ UNCHANGED <<thr, burst>>
  /\ UNCHANGED timingVars

\* Fault: every packet starts the timeout again.
Push_Restarts(p) ==
  LET b == Append(buffered, p) IN
  /\ burst = <<>>
  /\ IF Len(b) >= thr.packets
     THEN FlushReady(b)
     ELSE /\ buffered' = b
          /\ deadline' = now + thr.timeout
          /\ UNCHANGED <<thr, burst>>
  /\ UNCHANGED timingVars

\* ClumpingPool::push.  Its loop is left after one burst: a flush empties the pool,
\* as PoolDrained shows.
Push(p) ==
  LET b == Append(buffered, p) IN
  /\ burst = <<>>
  /\ IF Len(b) >= thr.packets
     THEN FlushReady(b)
     ELSE /\ buffered' = b
          /\ deadline' = IF buffered = <<>> THEN now + thr.timeout ELSE deadline
          /\ UNCHANGED <<thr, burst>>
  /\ UNCHANGED timingVars

TimedOut == deadline # NoDeadline /\ now >= deadline /\ buffered # <<>>

\* ClumpingPool::tick.
PoolTick ==
  /\ burst = <<>> /\ TimedOut
  /\ FlushReady(buffered)
  /\ UNCHANGED timingVars

\* ClumpingPool::flush.
Flush ==
  /\ burst = <<>> /\ buffered # <<>>
  /\ FlushReady(buffered)
  /\ UNCHANGED timingVars

\* Fault: the packets are not counted from zero again.
ObserveBurst_KeepsPackets(bytes, packets) ==
  LET c == [bytes |-> tCount.bytes + bytes, packets |-> tCount.packets + packets] IN
  IF c.bytes >= tRegime.bytes \/ c.packets >= tRegime.packets
  THEN tRegime' \in TimingRegimes /\ tCount' = [c EXCEPT !.bytes = 0]
  ELSE tCount' = c /\ UNCHANGED tRegime

\* SeedATimingScheduler::observe_burst.
ObserveBurst(bytes, packets) ==
  LET c == [bytes |-> tCount.bytes + bytes, packets |-> tCount.packets + packets] IN
  IF c.bytes >= tRegime.bytes \/ c.packets >= tRegime.packets
  THEN tRegime' \in TimingRegimes /\ tCount' = [bytes |-> 0, packets |-> 0]
  ELSE tCount' = c /\ UNCHANGED tRegime

-----------------------------------------------------------------------------
(* Properties.                                                             *)

\* Between two calls the pool holds fewer packets than the cycle it is in allows,
\* although each flush draws new thresholds, possibly smaller ones: so push never
\* has a second burst to return, and deadline is set exactly while packets wait.
PoolDrained ==
  /\ Len(buffered) < thr.packets
  /\ (deadline = NoDeadline) <=> (buffered = <<>>)

\* With a caller that ticks when the deadline is due, no packet waits longer than
\* the largest timeout, however the packets behind it arrive (DEFAULT_MAX_TIMEOUT:
\* "bounded at 350 ms worst case").
WaitBounded == \A i \in DOMAIN buffered : now - buffered[i].at <= MaxTimeout

\* The scheduler's regime ends with the burst that reaches either threshold.
TimingRegimeFresh == tCount.bytes < tRegime.bytes /\ tCount.packets < tRegime.packets
=============================================================================
