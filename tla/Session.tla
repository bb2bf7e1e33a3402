------------------------------- MODULE Session --------------------------------
(***************************************************************************)
(* The crate's traffic engine put together, as its callers use it: packets *)
(* through the clumping pool to the synchronous composer (src/bin/verify.rs*)
(* simulate_session), through the pool to a ShapedSession, or one by one to*)
(* a ShapedSession (src/transport.rs).  A ShapedSession                    *)
(* (src/composition.rs) is the composer and a TimingCorrelator             *)
(* (src/timing_correlator.rs): a queue of real packets and a departure     *)
(* clock with a random generator of its own.                               *)
(*                                                                         *)
(* Seeds and LabLog, which share no state with it, are checked beside it.  *)
(***************************************************************************)
EXTENDS Composition, DepartureClock, Seeds, LabLog

CONSTANTS
  Callers,       \* subset of {"compose", "inject_burst", "inject_real", "seeds", "log"}
  Lens,          \* lengths of packets; no longer than a cell, which the caller sees to
  QueueDepth,    \* max_queue_depth
  MaxGiven,      \* bound: packets
  MaxTime        \* bound: time

\* TimingCorrelatorConfig::validate; the intervals are those of DepartureClock.  A
\* cell of 0 is a composer without cells, which no ShapedSession is made of.
CorrelatorValid == QueueDepth \in Nat \ {0} /\ \A c \in Configs : c.cell \in Nat

ASSUME SessionAssumption ==
  /\ CorrelatorValid
  /\ \A l \in Lens, c \in Configs : l \in Nat \ {0} /\ (c.cell # 0 => l <= c.cell)

VARIABLES
  caller,
  given,      \* packets the caller has handed over
  accepted,   \* history: ids of the packets composed or queued
  lost,       \* history: ids of the packets given back with QueueFull
  queue,      \* real_queue
  next,       \* next_departure
  slots,      \* slots that have fired
  draws       \* values taken from the clock's generator, after the content seed

shapedVars == <<queue, next, slots, draws>>
callVars == <<caller, given, accepted, lost>>
engineVars == <<now, poolVars, burst, timingVars, composerVars, shapedVars, callVars>>
sessionVars == <<engineVars, seedVars, labVars>>

\* A part that this caller does not use stands in one of its initial states.
Standing ==
  /\ caller # "compose" => tRegime = CHOOSE r \in TimingRegimes : TRUE
  /\ caller \notin {"compose", "inject_burst"} => thr = CHOOSE t \in CycleThresholds : TRUE
  /\ caller \notin {"inject_burst", "inject_real"} => next = now + Min(Iats)
  /\ caller \in {"inject_real", "seeds", "log"} =>
       regime = (CHOOSE r \in RatioRegimes : TRUE) /\ due = now + Min(KeepaliveDelays)
  /\ caller \in {"seeds", "log"} => config = CHOOSE c \in Configs : TRUE
  /\ caller # "seeds" => pair = CHOOSE p \in FreshPairs : TRUE

\* TimingCorrelator::new: the first slot is scheduled at once.
FirstSlot ==
  /\ queue = <<>> /\ slots = 0 /\ draws = 1
  /\ next \in {AdvanceClock(now, iat, now) : iat \in Iats}

\* ShapedSession::new needs a cell size.
SessionInit ==
  /\ caller \in Callers
  /\ PoolInit /\ SchedulerInit /\ CompositionInit /\ SeedsInit /\ LabInit
  /\ caller \in {"inject_burst", "inject_real"} => config.cell # 0
  /\ given = 0 /\ accepted = <<>> /\ lost = {}
  /\ FirstSlot
  /\ Standing

Shaped == caller \in {"inject_burst", "inject_real"}
Ids(packets) == [i \in DOMAIN packets |-> packets[i].id]
Packet(len) == [id |-> given + 1, len |-> len, at |-> now]

-----------------------------------------------------------------------------
(* The caller and its pool.                                                 *)

GivePool(len) ==
  /\ caller \in {"compose", "inject_burst"} /\ given < MaxGiven
  /\ Push(Packet(len))
  /\ given' = given + 1
  /\ UNCHANGED <<now, composerVars, shapedVars, caller, accepted, lost>>

PoolDue ==
  /\ PoolTick \/ (given = MaxGiven /\ Flush)
  /\ UNCHANGED <<now, composerVars, shapedVars, callVars>>

\* The burst goes to the scheduler and to the composer.
ComposeBurst ==
  /\ caller = "compose"
  /\ ObserveBurst(SumSeq(Lengths(burst)), Len(burst))
  /\ Compose
  /\ accepted' = accepted \o Ids(burst)
  /\ UNCHANGED <<now, poolVars, shapedVars, caller, given, lost>>

KeepaliveDue ==
  /\ caller = "compose" /\ burst = <<>>
  /\ ComposeKeepalive
  /\ UNCHANGED <<now, poolVars, burst, timingVars, shapedVars, callVars>>

-----------------------------------------------------------------------------
(* ShapedSession.                                                           *)

\* Fault: one packet too many is let in.
Room_OffByOne == QueueDepth - Len(queue) + 1

\* TimingCorrelator::inject_real for packets, as many as there is room for.
Room == QueueDepth - Len(queue)
Enqueue(packets) ==
  /\ queue' = queue \o [i \in DOMAIN packets |-> PadRealPacket(packets[i])]
  /\ accepted' = accepted \o Ids(packets)

\* Fault: the window is charged when the burst is through.
InjectBurst_ChargesLate ==
  LET n == Min({Len(burst), Room}) IN
  /\ caller = "inject_burst" /\ burst # <<>>
  /\ lens' = FoldLeft(IngestLength, lens, Tripled(Lengths(burst)))
  /\ ingested' = ingested \o Tripled(Lengths(burst))
  /\ windows' = windows + 1
  /\ padder' = ObserveLengths(padder, Lengths(burst))
  /\ Enqueue(SubSeq(burst, 1, n))
  /\ lost' = lost \cup ToSet(Ids(SubSeq(burst, n + 1, Len(burst))))
  /\ IF n = Len(burst)
     THEN RecordQuery /\ Observe(SumSeq(Lengths(burst)), Len(burst)) /\ ResetKeepalive
     ELSE UNCHANGED <<acct, regime, rCount, bounder, due, lastAt>>
  /\ burst' = <<>>
  /\ UNCHANGED <<now, poolVars, timingVars, config, dummyBytes, tester, sent, sizes, realOut,
                 next, slots, draws, caller, given>>

\* inject_burst: on QueueFull the packets before it stay queued, the rest is dropped
\* with the burst, and the burst is not observed.
InjectBurst ==
  LET n == Min({Len(burst), Room}) IN
  /\ caller = "inject_burst" /\ burst # <<>>
  /\ NoteBurst
  /\ padder' = ObserveLengths(padder, Lengths(burst))
  /\ Enqueue(SubSeq(burst, 1, n))
  /\ lost' = lost \cup ToSet(Ids(SubSeq(burst, n + 1, Len(burst))))
  /\ IF n = Len(burst)
     THEN Observe(SumSeq(Lengths(burst)), Len(burst)) /\ ResetKeepalive
     ELSE UNCHANGED <<regime, rCount, bounder, due, lastAt>>
  /\ burst' = <<>>
  /\ UNCHANGED <<now, poolVars, timingVars, config, dummyBytes, tester, sent, sizes, realOut,
                 next, slots, draws, caller, given>>

\* inject_real.
InjectReal(len) ==
  /\ caller = "inject_real" /\ given < MaxGiven
  /\ given' = given + 1
  /\ IF Room > 0
     THEN Enqueue(<<Packet(len)>>) /\ UNCHANGED lost
     ELSE lost' = lost \cup {given'} /\ UNCHANGED <<queue, accepted>>
  /\ UNCHANGED <<now, poolVars, burst, timingVars, composerVars, next, slots, draws, caller>>

\* What a slot takes from the clock's generator: an interval, and a coin if some
\* slots are reserved for dummies.
DrawsPerSlot == IF config.reserve THEN 2 ELSE 1

\* pad_to_cell, which fills from the clock's generator if there is anything to fill.
DrawsForPadding(p) == IF p.len < config.cell THEN 1 ELSE 0

\* TimingCorrelator::tick, once a slot is ready: the clock moves on first, then the
\* oldest real packet takes the slot, unless there is none or the slot is reserved.
EmitSlot(iat, forceDummy) ==
  /\ SlotReady(next, now)
  /\ forceDummy => config.reserve
  /\ next' = AdvanceClock(next, iat, now)
  /\ slots' = slots + 1
  /\ IF queue # <<>> /\ ~forceDummy
     THEN /\ Emit(<<[Head(queue) EXCEPT !.len = config.cell]>>)
          /\ queue' = Tail(queue)
          /\ draws' = draws + DrawsPerSlot + DrawsForPadding(Head(queue))
     ELSE /\ Emit(Dummies(<<config.cell>>))
          /\ draws' = draws + DrawsPerSlot
          /\ UNCHANGED queue

\* ShapedSession::tick shows the frame to the tester and counts a dummy's bytes (Emit).
Tick(iat, forceDummy) ==
  /\ Shaped /\ burst = <<>>
  /\ UNCHANGED padder
  /\ EmitSlot(iat, forceDummy)
  /\ UNCHANGED <<now, poolVars, burst, timingVars, config, regime, rCount, lens, acct,
                 bounder, due, lastAt, ingested, windows, callVars>>

-----------------------------------------------------------------------------
\* Time passes; the caller comes when the pool or a keepalive is due, but may be
\* late for a slot.
Passes ==
  /\ now < MaxTime /\ burst = <<>> /\ ~TimedOut
  /\ caller = "compose" => now < due
  /\ caller \notin {"seeds", "log"}
  /\ now' = now + 1
  /\ UNCHANGED <<poolVars, burst, timingVars, composerVars, shapedVars, callVars>>

EngineNext ==
  \/ \E len \in Lens : GivePool(len) \/ InjectReal(len)
  \/ PoolDue \/ ComposeBurst \/ KeepaliveDue \/ InjectBurst
  \/ \E iat \in Iats, f \in BOOLEAN : Tick(iat, f)
  \/ Passes

SessionNext ==
  \/ EngineNext /\ UNCHANGED <<seedVars, labVars>>
  \/ caller = "seeds" /\ SeedsNext /\ UNCHANGED <<engineVars, labVars>>
  \/ caller = "log" /\ LabNext /\ UNCHANGED <<engineVars, seedVars>>

\* The writer thread of the logger is scheduled, and so is the thread that joins it.
SessionSpec ==
  /\ SessionInit /\ [][SessionNext]_sessionVars
  /\ WF_sessionVars(caller = "log" /\ LabStep /\ UNCHANGED <<engineVars, seedVars>>)

-----------------------------------------------------------------------------
(* Properties.                                                             *)

\* Whatever is counted against a drawn threshold stays below it between two calls,
\* though each flush and each regime draws anew: the pool, the scheduler's and the
\* composer's regimes; and the clock's queue stays within its depth.
CountsBelow ==
  PoolDrained /\ TimingRegimeFresh /\ RatioRegimeFresh /\ Len(queue) <= QueueDepth

\* A regime that gives way leaves nothing counted against the next one's thresholds,
\* whichever of its own it reached, and while a regime lasts nothing counted is
\* forgotten: SeedATimingScheduler::observe_burst and SeedBComposer::observe.
Grows(count, later) == \A k \in DOMAIN count : later[k] >= count[k]
Cleared(count) == \A k \in DOMAIN count : count[k] = 0
RegimeChange ==
  /\ Cleared(tCount') \/ (tRegime' = tRegime /\ Grows(tCount, tCount'))
  /\ Cleared(rCount') \/ (regime' = regime /\ Grows(rCount, rCount'))
RegimesStartFresh == [][RegimeChange]_sessionVars

\* After every call, no threshold is passed, and none is reached by what was counted for an earlier
\* regime: flush_ready, observe_burst and observe start again from nothing.
ThresholdsObeyed == [][CountsBelow' /\ RegimeChange]_sessionVars

\* From the caller's hands to the wire real packets keep their order: what has been
\* sent and what is queued is what was accepted, oldest first, and every packet is in
\* exactly one place, or was given back with an error.
FifoThroughout ==
  /\ sent \o Ids(queue) = accepted
  /\ \A i, j \in DOMAIN accepted : i < j => accepted[i] < accepted[j]
  /\ LET held == ToSet(Ids(buffered)) \cup ToSet(Ids(burst)) IN
     /\ ToSet(accepted) \cup lost \cup held = 1 .. given
     /\ ToSet(accepted) \cap (lost \cup held) = {} /\ lost \cap held = {}

\* With a caller that comes when something is due, no packet waits in the pool longer
\* than the largest timeout, and the wire is never silent for longer than
\* max_idle_gap_ms.
DelaysBounded == WaitBounded /\ (caller = "compose" => now - lastAt <= MaxIdleGap)

\* Every burst shown to the DP shaper is charged for, once, even one that is given
\* back with QueueFull after some of its packets were taken.
EpsilonCharged == acct.spent = IF config.dp THEN windows * Epsilon ELSE 0

\* What is counted in several places adds up: the class volume, the tester's frames
\* and the privacy budget.
Accounted == VolumeReached /\ TesterSeesAll /\ EpsilonCharged

\* The departure clock takes the same from its generator in every slot, so that the
\* schedule does not depend on what the slots carry ("Advanced a FIXED amount per
\* slot regardless of real/dummy").
ClockIgnoresContent == draws = 1 + slots * DrawsPerSlot

\* What leaves hides cover among traffic as far as the code goes: frames have one
\* size, or dummies, which draw from the most recent lengths, get sizes the session's
\* packets had, once the padder has a table; and the schedule is drawn without regard
\* to what is sent.
CoverBlends == UniformSizes /\ DummyLooksReal /\ RingIsRecent /\ ClockIgnoresContent
=============================================================================
