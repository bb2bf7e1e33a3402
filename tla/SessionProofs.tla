---------------------------- MODULE SessionProofs -----------------------------
(***************************************************************************)
(* Proofs about the traffic engine: thresholds, delays, the departure      *)
(* clock's generator and the rotation of the seeds, for any configuration, *)
(* any packets and any caller.                                             *)
(***************************************************************************)
EXTENDS Session, ComposerProofs

-----------------------------------------------------------------------------
(* The invariant.                                                          *)

\* A flush takes the whole pool, so that the deadline is always that of the oldest
\* packet of the cycle it was set in, and it has not passed.
PoolInv ==
  /\ now \in Nat /\ given \in Nat /\ config \in Configs
  /\ buffered \in Seq(Packets) /\ burst \in Seq(Packets)
  /\ thr \in CycleThresholds
  /\ PoolDrained
  /\ buffered # <<>> => deadline = buffered[1].at + thr.timeout /\ now <= deadline
  /\ \A i \in 1 .. Len(buffered) : buffered[1].at <= buffered[i].at /\ buffered[i].at <= now

\* Both regimes count up to thresholds that are positive.
TimingInv ==
  tRegime \in TimingRegimes /\ tCount \in [bytes : Nat, packets : Nat] /\ TimingRegimeFresh
RatioInv ==
  /\ regime \in RatioRegimes /\ rCount \in [bursts : Nat, bytes : Nat, packets : Nat]
  /\ RatioRegimeFresh

Cell == [id : Nat \ {0}, len : {config.cell}]
Cells == Seq(Cell)

\* What is queued has been padded, so that the clock's generator is asked for nothing
\* that depends on the packet.
ClockInv ==
  /\ Shaped => config.cell # 0
  /\ queue \in Cells /\ Len(queue) <= QueueDepth
  /\ slots \in Nat /\ ClockIgnoresContent

\* The composer's next keepalive is not overdue, and not later than the gap allows.
GapInv ==
  /\ due \in Int /\ lastAt \in Int
  /\ caller = "compose" => now <= due /\ due <= lastAt + MaxIdleGap

SeedsInv == pair.a # pair.b /\ Usable(pair.a) /\ Usable(pair.b)

\* The first t packets have been accepted or given back.
Disposed(acc, gone, t) ==
  /\ t \in Nat /\ acc \in Seq(Nat)
  /\ \A i, j \in DOMAIN acc : i < j => acc[i] < acc[j]
  /\ ToSet(acc) \cup gone = 1 .. t /\ ToSet(acc) \cap gone = {}

\* The packets held are the latest ones given, in the pool or in the burst; what was
\* accepted before them has been sent or is queued.
Held == Len(buffered) + Len(burst)
FifoInv ==
  /\ buffered = <<>> \/ burst = <<>>
  /\ caller = "inject_real" => buffered = <<>> /\ burst = <<>>
  /\ caller = "compose" => queue = <<>>
  /\ \A i \in DOMAIN buffered : buffered[i].id = given - Held + i
  /\ \A i \in DOMAIN burst : burst[i].id = given - Held + i
  /\ Disposed(accepted, lost, given - Held)
  /\ sent \o Ids(queue) = accepted

\* The budget, the tester and the bounder agree with what has been sent.
AccountInv ==
  /\ CountTypes /\ TesterSeesAll
  /\ windows \in Nat /\ EpsilonCharged
  /\ bounder \in Nat /\ (config.bounded /\ config.cell = 0 => bounder = realOut)

\* The bucket table and the length pool are those of the lengths seen, and what left
\* conforms.
CoverInv ==
  /\ PadderSound(padder) /\ ingested \in Seq(Nat) /\ Ring(lens, ingested)
  /\ Conforming(sizes, padder)

SessionInv ==
  /\ PoolInv /\ TimingInv /\ RatioInv /\ ClockInv /\ GapInv /\ SeedsInv
  /\ FifoInv /\ AccountInv /\ CoverInv

-----------------------------------------------------------------------------
(* The pool.                                                               *)

LEMMA Constants ==
  /\ MinPackets \in Nat \ {0} /\ MaxPackets \in Nat /\ MinTimeout \in Nat \ {0} /\ MaxTimeout \in Nat
  /\ RegimeBytes \subseteq Nat \ {0} /\ RegimePackets \subseteq Nat \ {0}
  /\ SwitchBursts \subseteq Nat \ {0} /\ SwitchBytes \subseteq Nat \ {0}
  /\ SwitchPackets \subseteq Nat \ {0}
  /\ MaxIdleGap \in Nat \ {0} /\ SpectralFloor \in Nat \ {0}
  /\ QueueDepth \in Nat \ {0} /\ \A c \in Configs : c.cell \in Nat
  /\ \A l \in Lens, c \in Configs : l \in Nat \ {0}
BY ClumpingAssumption, CompositionAssumption, SessionAssumption
   DEF PoolValid, TimingValid, CompositionValid, SpectralValid, CorrelatorValid

LEMMA ThresholdTypes ==
  ASSUME NEW t \in CycleThresholds
  PROVE  /\ t.packets \in Nat \ {0} /\ t.timeout \in Nat \ {0} /\ t.timeout <= MaxTimeout
BY Constants DEF CycleThresholds

\* A pool that holds no more than the threshold is emptied.
LEMMA FlushEmpties ==
  ASSUME thr \in CycleThresholds, NEW b \in Seq(Packets), Len(b) <= thr.packets, FlushReady(b)
  PROVE  burst' = b /\ buffered' = <<>> /\ thr' \in CycleThresholds /\ deadline' = NoDeadline
<1>1. Len(b) \in Nat /\ thr.packets \in Nat
  BY ThresholdTypes, LenProperties
<1>2. Min({Len(b), thr.packets}) = Len(b)
  BY <1>1, MinOfTwo
<1>3. SubSeq(b, 1, Len(b)) = b
  BY SubSeqFull
<1>4. SubSeq(b, Len(b) + 1, Len(b)) = <<>>
  BY <1>1
<1>5. /\ burst' = SubSeq(b, 1, Len(b)) /\ buffered' = SubSeq(b, Len(b) + 1, Len(b))
      /\ thr' \in CycleThresholds
      /\ deadline' = IF buffered' = <<>> THEN NoDeadline ELSE now + thr'.timeout
  BY <1>2 DEF FlushReady
<1>6. QED
  BY <1>3, <1>4, <1>5

\* The rest of PoolInv, when the pool has been emptied into a burst.
LEMMA EmptyPool ==
  ASSUME PoolInv, burst' \in Seq(Packets), buffered' = <<>>, thr' \in CycleThresholds,
         deadline' = NoDeadline, now' = now, config' = config, given' \in Nat
  PROVE  PoolInv'
<1>1. Len(buffered') = 0 /\ buffered' \in Seq(Packets)
  OBVIOUS
<1>2. PoolDrained'
  BY <1>1, ThresholdTypes DEF PoolDrained
<1>3. QED
  BY <1>1, <1>2 DEF PoolInv

LEMMA GivePoolKeeps ==
  ASSUME PoolInv, NEW len \in Lens, GivePool(len)
  PROVE  PoolInv'
<1> DEFINE p == Packet(len)  b == Append(buffered, p)
<1>1. /\ now \in Nat /\ given \in Nat /\ config \in Configs
      /\ buffered \in Seq(Packets) /\ burst \in Seq(Packets) /\ thr \in CycleThresholds
  BY DEF PoolInv
<1>2. p \in Packets /\ p.at = now
  BY <1>1, Constants DEF Packet, Packets
<1> HIDE DEF p
<1>3. /\ burst = <<>> /\ now' = now /\ config' = config /\ given' = given + 1
      /\ IF Len(b) >= thr.packets
         THEN FlushReady(b)
         ELSE /\ buffered' = b
              /\ deadline' = IF buffered = <<>> THEN now + thr.timeout ELSE deadline
              /\ UNCHANGED <<thr, burst>>
  BY DEF GivePool, Push, p, composerVars
<1>4. /\ b \in Seq(Packets) /\ Len(buffered) \in Nat /\ Len(b) = Len(buffered) + 1
      /\ \A i \in 1 .. Len(buffered) : b[i] = buffered[i]
      /\ b[Len(buffered) + 1] = p
  BY <1>1, <1>2, AppendProperties, LenProperties
<1>5. thr.packets \in Nat \ {0} /\ thr.timeout \in Nat \ {0} /\ Len(buffered) < thr.packets
  BY <1>1, ThresholdTypes DEF PoolInv, PoolDrained
<1> HIDE DEF b
<1>6. CASE Len(b) >= thr.packets
  <2>1. Len(b) <= thr.packets
    BY <1>4, <1>5
  <2>2. burst' = b /\ buffered' = <<>> /\ thr' \in CycleThresholds /\ deadline' = NoDeadline
    BY <1>1, <1>3, <1>4, <1>6, <2>1, FlushEmpties
  <2>3. QED
    BY <1>1, <1>3, <1>4, <2>2, EmptyPool
<1>7. CASE Len(b) < thr.packets
  <2>1. /\ buffered' = b /\ thr' = thr /\ burst' = burst
        /\ deadline' = IF buffered = <<>> THEN now + thr.timeout ELSE deadline
    BY <1>3, <1>4, <1>5, <1>7
  <2>2. b # <<>> /\ b[1] = IF buffered = <<>> THEN p ELSE buffered[1]
    BY <1>1, <1>4, EmptySeq
  <2>3. deadline' = b[1].at + thr.timeout /\ now <= deadline'
    BY <1>1, <1>2, <1>5, <2>1, <2>2 DEF PoolInv
  <2>4. b[1].at \in Nat
    <3>1. 1 \in 1 .. Len(b)
      BY <1>4
    <3>2. b[1] \in Packets
      BY <1>4, <3>1, ElementOfSeq
    <3>3. QED
      BY <3>2 DEF Packets
  <2>5. ASSUME NEW i \in 1 .. Len(b) PROVE b[1].at <= b[i].at /\ b[i].at <= now
    <3>1. CASE i = Len(buffered) + 1
      <4>1. b[1].at <= now
        <5>1. CASE buffered = <<>>
          BY <1>1, <1>2, <2>2, <5>1
        <5>2. CASE buffered # <<>>
          <6>1. 1 \in 1 .. Len(buffered)
            BY <1>1, <1>4, <5>2, EmptySeq
          <6>2. QED
            BY <2>2, <5>2, <6>1 DEF PoolInv
        <5>3. QED
          BY <5>1, <5>2
      <4>2. QED
        BY <1>1, <1>2, <1>4, <3>1, <4>1
    <3>2. CASE i \in 1 .. Len(buffered)
      <4>1. buffered # <<>>
        BY <3>2
      <4>2. QED
        BY <1>4, <2>2, <3>2, <4>1 DEF PoolInv
    <3>3. QED
      BY <1>4, <3>1, <3>2
  <2>6. PoolDrained'
    BY <1>4, <1>5, <1>7, <2>1, <2>2, <2>3, <2>4 DEF PoolDrained, NoDeadline
  <2>7. QED
    BY <1>1, <1>3, <1>4, <2>1, <2>3, <2>5, <2>6 DEF PoolInv
<1>8. QED
  BY <1>4, <1>5, <1>6, <1>7

LEMMA PoolDueKeeps ==
  ASSUME PoolInv, PoolDue
  PROVE  PoolInv'
<1>1. /\ buffered \in Seq(Packets) /\ thr \in CycleThresholds /\ given \in Nat
      /\ Len(buffered) < thr.packets
  BY DEF PoolInv, PoolDrained
<1>2. FlushReady(buffered) /\ now' = now /\ config' = config /\ given' = given
  BY DEF PoolDue, PoolTick, Flush, composerVars, callVars
<1>3. Len(buffered) <= thr.packets
  BY <1>1, ThresholdTypes, LenProperties
<1>4. burst' = buffered /\ buffered' = <<>> /\ thr' \in CycleThresholds /\ deadline' = NoDeadline
  BY <1>1, <1>2, <1>3, FlushEmpties
<1>5. QED
  BY <1>1, <1>2, <1>4, EmptyPool

\* Time passes only while nothing in the pool is due.
LEMMA PassesKeepsPool ==
  ASSUME PoolInv, Passes
  PROVE  PoolInv'
<1>1. /\ now' = now + 1 /\ ~TimedOut
      /\ UNCHANGED <<buffered, thr, deadline, burst, config, given>>
  BY DEF Passes, poolVars, composerVars, callVars
<1>2. now \in Nat /\ buffered \in Seq(Packets) /\ thr \in CycleThresholds
  BY DEF PoolInv
<1>3. ASSUME NEW i \in 1 .. Len(buffered) PROVE buffered[i].at \in Nat
  <2>1. buffered[i] \in Packets
    BY <1>2, ElementOfSeq
  <2>2. QED
    BY <2>1 DEF Packets
<1>4. buffered # <<>> => now' <= deadline
  <2>1. SUFFICES ASSUME buffered # <<>> PROVE now' <= deadline
    OBVIOUS
  <2>2. deadline # NoDeadline /\ deadline = buffered[1].at + thr.timeout
    BY <2>1 DEF PoolInv, PoolDrained
  <2>3. 1 \in 1 .. Len(buffered)
    BY <1>2, <2>1, EmptySeq, LenProperties
  <2>4. deadline \in Int
    BY <1>2, <1>3, <2>2, <2>3, ThresholdTypes
  <2>5. ~(now >= deadline)
    BY <1>1, <2>1, <2>2 DEF TimedOut
  <2>6. QED
    BY <1>1, <1>2, <2>4, <2>5
<1>5. \A i \in 1 .. Len(buffered) : buffered[i].at <= now'
  BY <1>1, <1>2, <1>3 DEF PoolInv
<1>6. PoolDrained'
  BY <1>1 DEF PoolInv, PoolDrained
<1>7. QED
  BY <1>1, <1>2, <1>4, <1>5, <1>6 DEF PoolInv

\* A step that leaves the pool alone, and has taken the burst or not.
PoolStands ==
  /\ UNCHANGED <<now, buffered, thr, deadline, config>> /\ given' \in {given, given + 1}
  /\ burst' \in {burst, <<>>}

LEMMA PoolStandsKeeps ==
  ASSUME PoolInv, PoolStands
  PROVE  PoolInv'
<1>1. burst' \in Seq(Packets) /\ given' \in Nat
  <2>1. <<>> \in Seq(Packets) /\ burst \in Seq(Packets) /\ given \in Nat
    BY DEF PoolInv
  <2>2. QED
    <3>1. given' = given \/ given' = given + 1
      BY DEF PoolStands
    <3>2. burst' = burst \/ burst' = <<>>
      BY DEF PoolStands
    <3>3. given + 1 \in Nat
      BY <2>1
    <3>4. QED
      BY <2>1, <3>1, <3>2, <3>3
<1>2. PoolDrained'
  BY DEF PoolInv, PoolStands, PoolDrained
<1>3. QED
  BY <1>1, <1>2 DEF PoolInv, PoolStands

LEMMA OthersStand ==
  ASSUME \/ \E len \in Lens : InjectReal(len)
         \/ ComposeBurst \/ KeepaliveDue \/ InjectBurst
         \/ \E iat \in Iats, f \in BOOLEAN : Tick(iat, f)
         \/ UNCHANGED engineVars
  PROVE  PoolStands
<1>1. CASE \E len \in Lens : InjectReal(len)
  BY <1>1 DEF InjectReal, PoolStands, poolVars, composerVars
<1>2. CASE ComposeBurst
  BY <1>2 DEF ComposeBurst, Compose, PoolStands, poolVars
<1>3. CASE KeepaliveDue
  BY <1>3 DEF KeepaliveDue, ComposeKeepalive, PoolStands, poolVars, callVars
<1>4. CASE InjectBurst
  BY <1>4 DEF InjectBurst, PoolStands, poolVars
<1>5. CASE \E iat \in Iats, f \in BOOLEAN : Tick(iat, f)
  BY <1>5 DEF Tick, PoolStands, poolVars, callVars
<1>6. CASE UNCHANGED engineVars
  BY <1>6 DEF engineVars, PoolStands, poolVars, callVars, composerVars
<1>7. QED
  BY <1>1, <1>2, <1>3, <1>4, <1>5, <1>6

\* The engine's steps; those of the seeds and of the log leave it alone.
LEMMA EngineSteps ==
  ASSUME [SessionNext]_sessionVars
  PROVE  EngineNext \/ UNCHANGED engineVars
BY DEF SessionNext, sessionVars

LEMMA PoolStep == PoolInv /\ [SessionNext]_sessionVars => PoolInv'
<1> SUFFICES ASSUME PoolInv, [SessionNext]_sessionVars PROVE PoolInv'
  OBVIOUS
<1>1. CASE \E len \in Lens : GivePool(len)
  BY <1>1, GivePoolKeeps
<1>2. CASE PoolDue
  BY <1>2, PoolDueKeeps
<1>3. CASE Passes
  BY <1>3, PassesKeepsPool
<1>4. CASE \/ \E len \in Lens : InjectReal(len)
           \/ ComposeBurst \/ KeepaliveDue \/ InjectBurst
           \/ \E iat \in Iats, f \in BOOLEAN : Tick(iat, f)
           \/ UNCHANGED engineVars
  BY <1>4, OthersStand, PoolStandsKeeps
<1>5. QED
  BY <1>1, <1>2, <1>3, <1>4, EngineSteps DEF EngineNext

-----------------------------------------------------------------------------
(* The regimes.                                                            *)

\* The bytes and the packets of a burst.
LEMMA BurstCounts ==
  ASSUME NEW b \in Seq(Packets)
  PROVE  SumSeq(Lengths(b)) \in Nat /\ Len(b) \in Nat
<1>1. \A f \in Packets : f.len \in Nat
  BY DEF Packets
<1>2. Lengths(b) \in Seq(Nat) /\ Len(b) \in Nat
  BY <1>1, LengthsType, LenProperties
<1>3. QED
  BY <1>2, SumSteps

LEMMA TimingThresholds ==
  ASSUME NEW r \in TimingRegimes
  PROVE  r.bytes \in Nat \ {0} /\ r.packets \in Nat \ {0}
BY Constants DEF TimingRegimes

LEMMA RatioThresholds ==
  ASSUME NEW r \in RatioRegimes
  PROVE  r.bursts \in Nat \ {0} /\ r.bytes \in Nat \ {0} /\ r.packets \in Nat \ {0}
<1>1. PICK k \in DOMAIN DummyRange, b \in SwitchBursts, y \in SwitchBytes, p \in SwitchPackets :
        r = [lo |-> DummyRange[k][1], hi |-> Min({DummyRange[k][2], MaxDummy}),
             spiky |-> k = "Spiky", bursts |-> b, bytes |-> y, packets |-> p]
  BY DEF RatioRegimes
<1>2. r.bursts = b /\ r.bytes = y /\ r.packets = p
  BY <1>1
<1>3. QED
  BY <1>2, Constants

LEMMA TimingKeeps ==
  ASSUME TimingInv, NEW bytes \in Nat, NEW packets \in Nat, ObserveBurst(bytes, packets)
  PROVE  TimingInv'
<1> DEFINE c == [bytes |-> tCount.bytes + bytes, packets |-> tCount.packets + packets]
<1>1. c \in [bytes : Nat, packets : Nat]
  BY DEF TimingInv
<1> HIDE DEF c
<1>2. CASE c.bytes >= tRegime.bytes \/ c.packets >= tRegime.packets
  <2>1. tRegime' \in TimingRegimes /\ tCount' = [bytes |-> 0, packets |-> 0]
    BY <1>2 DEF ObserveBurst, c
  <2>2. QED
    BY <2>1, TimingThresholds DEF TimingInv, TimingRegimeFresh
<1>3. CASE ~(c.bytes >= tRegime.bytes \/ c.packets >= tRegime.packets)
  <2>1. tCount' = c /\ tRegime' = tRegime
    BY <1>3 DEF ObserveBurst, c
  <2>2. tRegime \in TimingRegimes /\ tRegime.bytes \in Nat /\ tRegime.packets \in Nat
    BY TimingThresholds DEF TimingInv
  <2>3. c.bytes < tRegime.bytes /\ c.packets < tRegime.packets
    BY <1>1, <1>3, <2>2
  <2>4. QED
    BY <1>1, <2>1, <2>2, <2>3 DEF TimingInv, TimingRegimeFresh
<1>4. QED
  BY <1>2, <1>3

LEMMA RatioKeeps ==
  ASSUME RatioInv, NEW bytes \in Nat, NEW packets \in Nat, Observe(bytes, packets)
  PROVE  RatioInv'
<1> DEFINE c == [bursts |-> rCount.bursts + 1, bytes |-> rCount.bytes + bytes,
                 packets |-> rCount.packets + packets]
<1>1. c \in [bursts : Nat, bytes : Nat, packets : Nat]
  BY DEF RatioInv
<1> HIDE DEF c
<1>2. CASE c.bursts >= regime.bursts \/ c.bytes >= regime.bytes \/ c.packets >= regime.packets
  <2>1. regime' \in RatioRegimes /\ rCount' = NoCount
    BY <1>2 DEF Observe, c
  <2>2. QED
    BY <2>1, RatioThresholds DEF RatioInv, RatioRegimeFresh, NoCount
<1>3. CASE ~(c.bursts >= regime.bursts \/ c.bytes >= regime.bytes \/ c.packets >= regime.packets)
  <2>1. rCount' = c /\ regime' = regime
    BY <1>3 DEF Observe, c
  <2>2. /\ regime \in RatioRegimes
        /\ regime.bursts \in Nat /\ regime.bytes \in Nat /\ regime.packets \in Nat
    BY RatioThresholds DEF RatioInv
  <2>3. c.bursts < regime.bursts /\ c.bytes < regime.bytes /\ c.packets < regime.packets
    BY <1>1, <1>3, <2>2
  <2>4. QED
    BY <1>1, <2>1, <2>2, <2>3 DEF RatioInv, RatioRegimeFresh
<1>4. QED
  BY <1>2, <1>3

\* The steps that observe a burst, and all the others.
LEMMA ObservingSteps ==
  ASSUME [SessionNext]_sessionVars
  PROVE  \/ /\ ComposeBurst
            /\ ObserveBurst(SumSeq(Lengths(burst)), Len(burst))
            /\ Observe(SumSeq(Lengths(burst)), Len(burst))
         \/ /\ InjectBurst /\ UNCHANGED timingVars
            /\ Observe(SumSeq(Lengths(burst)), Len(burst)) \/ UNCHANGED <<regime, rCount>>
         \/ UNCHANGED timingVars /\ UNCHANGED <<regime, rCount>>
<1>1. CASE ComposeBurst
  BY <1>1 DEF ComposeBurst, Compose
<1>2. CASE InjectBurst
  BY <1>2 DEF InjectBurst
<1>3. CASE \/ \E len \in Lens : GivePool(len) \/ InjectReal(len)
           \/ PoolDue \/ KeepaliveDue \/ Passes
           \/ \E iat \in Iats, f \in BOOLEAN : Tick(iat, f)
           \/ UNCHANGED engineVars
  <2>1. CASE \E len \in Lens : GivePool(len) \/ InjectReal(len)
    BY <2>1 DEF GivePool, Push, InjectReal, composerVars
  <2>2. CASE PoolDue
    BY <2>2 DEF PoolDue, PoolTick, Flush, composerVars
  <2>3. CASE KeepaliveDue
    BY <2>3 DEF KeepaliveDue, ComposeKeepalive
  <2>4. CASE Passes
    BY <2>4 DEF Passes, composerVars
  <2>5. CASE \E iat \in Iats, f \in BOOLEAN : Tick(iat, f)
    BY <2>5 DEF Tick
  <2>6. CASE UNCHANGED engineVars
    BY <2>6 DEF engineVars, composerVars
  <2>7. QED
    BY <1>3, <2>1, <2>2, <2>3, <2>4, <2>5, <2>6
<1>4. QED
  BY <1>1, <1>2, <1>3, EngineSteps DEF EngineNext

LEMMA RegimesStep ==
  ASSUME PoolInv, TimingInv, RatioInv, [SessionNext]_sessionVars
  PROVE  TimingInv' /\ RatioInv'
<1>1. SumSeq(Lengths(burst)) \in Nat /\ Len(burst) \in Nat
  BY BurstCounts DEF PoolInv
<1>2. ASSUME UNCHANGED timingVars PROVE TimingInv'
  BY <1>2 DEF TimingInv, TimingRegimeFresh, timingVars
<1>3. ASSUME UNCHANGED <<regime, rCount>> PROVE RatioInv'
  BY <1>3 DEF RatioInv, RatioRegimeFresh
<1>4. QED
  BY <1>1, <1>2, <1>3, ObservingSteps, TimingKeeps, RatioKeeps

\* A regime is observed: it ends, with nothing counted for the next, or it counts on.
LEMMA TimingCountsOn ==
  ASSUME TimingInv, NEW bytes \in Nat, NEW packets \in Nat, ObserveBurst(bytes, packets)
  PROVE  Cleared(tCount') \/ (tRegime' = tRegime /\ Grows(tCount, tCount'))
<1> DEFINE c == [bytes |-> tCount.bytes + bytes, packets |-> tCount.packets + packets]
<1>1. tCount \in [bytes : Nat, packets : Nat]
  BY DEF TimingInv
<1>2. Grows(tCount, c)
  BY <1>1 DEF Grows
<1> HIDE DEF c
<1>3. \/ tCount' = [bytes |-> 0, packets |-> 0]
      \/ tCount' = c /\ tRegime' = tRegime
  BY DEF ObserveBurst, c
<1>4. QED
  BY <1>2, <1>3 DEF Cleared

LEMMA RatioCountsOn ==
  ASSUME RatioInv, NEW bytes \in Nat, NEW packets \in Nat, Observe(bytes, packets)
  PROVE  Cleared(rCount') \/ (regime' = regime /\ Grows(rCount, rCount'))
<1> DEFINE c == [bursts |-> rCount.bursts + 1, bytes |-> rCount.bytes + bytes,
                 packets |-> rCount.packets + packets]
<1>1. rCount \in [bursts : Nat, bytes : Nat, packets : Nat]
  BY DEF RatioInv
<1>2. Grows(rCount, c)
  BY <1>1 DEF Grows
<1> HIDE DEF c
<1>3. \/ rCount' = NoCount
      \/ rCount' = c /\ regime' = regime
  BY DEF Observe, c
<1>4. QED
  BY <1>2, <1>3 DEF Cleared, NoCount

LEMMA RegimeChanges ==
  ASSUME PoolInv, TimingInv, RatioInv, [SessionNext]_sessionVars
  PROVE  RegimeChange
<1>1. SumSeq(Lengths(burst)) \in Nat /\ Len(burst) \in Nat
  BY BurstCounts DEF PoolInv
<1>2. tCount \in [bytes : Nat, packets : Nat] /\ rCount \in [bursts : Nat, bytes : Nat, packets : Nat]
  BY DEF TimingInv, RatioInv
<1>3. ASSUME UNCHANGED timingVars PROVE tRegime' = tRegime /\ Grows(tCount, tCount')
  BY <1>2, <1>3 DEF timingVars, Grows
<1>4. ASSUME UNCHANGED <<regime, rCount>> PROVE regime' = regime /\ Grows(rCount, rCount')
  BY <1>2, <1>4 DEF Grows
<1>5. QED
  BY <1>1, <1>3, <1>4, ObservingSteps, TimingCountsOn, RatioCountsOn DEF RegimeChange

-----------------------------------------------------------------------------
(* The gap between two bursts.                                             *)

LEMMA DelayInGap ==
  ASSUME NEW d \in KeepaliveDelays
  PROVE  d \in Nat \ {0} /\ d <= MaxIdleGap
<1>1. PICK e \in SpectralFloor .. 2 * MaxIdleGap : d = Max({1, Min({e, MaxIdleGap})})
  BY DEF KeepaliveDelays
<1>2. e \in Int /\ 1 <= e /\ MaxIdleGap \in Int /\ 1 <= MaxIdleGap
  BY <1>1, Constants
<1> DEFINE m == Min({e, MaxIdleGap})
<1>3. m = IF e <= MaxIdleGap THEN e ELSE MaxIdleGap
  BY <1>2, MinOfTwo
<1> HIDE DEF m
<1>4. m \in Int /\ 1 <= m /\ m <= MaxIdleGap
  BY <1>2, <1>3
<1>5. Max({1, m}) = IF 1 >= m THEN 1 ELSE m
  BY <1>4, MaxOfTwo
<1>6. d = IF 1 >= m THEN 1 ELSE m
  BY <1>1, <1>5 DEF m
<1>7. QED
  BY <1>2, <1>4, <1>6

LEMMA GapStep ==
  ASSUME PoolInv, GapInv, [SessionNext]_sessionVars
  PROVE  GapInv'
<1>1. now \in Nat /\ MaxIdleGap \in Nat
  BY Constants DEF PoolInv
<1>2. ASSUME ResetKeepalive, now' = now, caller' = caller PROVE GapInv'
  <2>1. PICK d \in KeepaliveDelays : due' = now + d
    BY <1>2 DEF ResetKeepalive
  <2>2. lastAt' = now
    BY <1>2 DEF ResetKeepalive
  <2>3. QED
    BY <1>1, <1>2, <2>1, <2>2, DelayInGap DEF GapInv
<1>3. ASSUME UNCHANGED <<due, lastAt, caller, now>> PROVE GapInv'
  BY <1>3 DEF GapInv
<1>4. CASE ComposeBurst
  BY <1>2, <1>4 DEF ComposeBurst, Compose
<1>5. CASE KeepaliveDue
  BY <1>2, <1>5 DEF KeepaliveDue, ComposeKeepalive, callVars
<1>6. CASE InjectBurst
  <2>1. /\ now' = now /\ caller' = caller
        /\ ResetKeepalive \/ UNCHANGED <<due, lastAt>>
    BY <1>6 DEF InjectBurst
  <2>2. QED
    BY <1>2, <1>3, <2>1
<1>7. CASE Passes
  <2>1. now' = now + 1 /\ UNCHANGED <<due, lastAt, caller>> /\ (caller = "compose" => now < due)
    BY <1>7 DEF Passes, composerVars, callVars
  <2>2. QED
    BY <1>1, <2>1 DEF GapInv
<1>8. CASE \/ \E len \in Lens : GivePool(len) \/ InjectReal(len)
           \/ PoolDue
           \/ \E iat \in Iats, f \in BOOLEAN : Tick(iat, f)
           \/ UNCHANGED engineVars
  <2>1. UNCHANGED <<due, lastAt, caller, now>>
    <3>1. CASE \E len \in Lens : GivePool(len) \/ InjectReal(len)
      BY <3>1 DEF GivePool, InjectReal, composerVars
    <3>2. CASE PoolDue
      BY <3>2 DEF PoolDue, composerVars, callVars
    <3>3. CASE \E iat \in Iats, f \in BOOLEAN : Tick(iat, f)
      BY <3>3 DEF Tick, callVars
    <3>4. CASE UNCHANGED engineVars
      BY <3>4 DEF engineVars, composerVars, callVars
    <3>5. QED
      BY <1>8, <3>1, <3>2, <3>3, <3>4
  <2>2. QED
    BY <1>3, <2>1
<1>9. QED
  BY <1>4, <1>5, <1>6, <1>7, <1>8, EngineSteps DEF EngineNext

-----------------------------------------------------------------------------
(* The queue and the clock's generator.                                    *)

\* A real packet that is queued has the size of a cell.
LEMMA Padded ==
  ASSUME config.cell # 0, NEW packets \in Seq(Packets)
  PROVE  /\ [i \in DOMAIN packets |-> PadRealPacket(packets[i])] \in Cells
         /\ Len([i \in DOMAIN packets |-> PadRealPacket(packets[i])]) = Len(packets)
<1> DEFINE q == [i \in DOMAIN packets |-> PadRealPacket(packets[i])]
<1>1. Len(packets) \in Nat /\ DOMAIN packets = 1 .. Len(packets)
  BY LenProperties
<1>2. ASSUME NEW i \in 1 .. Len(packets)
      PROVE  PadRealPacket(packets[i]) \in Cell
  <2>1. packets[i] \in Packets
    BY ElementOfSeq
  <2>2. QED
    BY <2>1 DEF PadRealPacket, Packets, Cell
<1>3. q = [i \in 1 .. Len(packets) |-> PadRealPacket(packets[i])]
  BY <1>1
<1>4. q \in Cells
  BY <1>1, <1>2, <1>3 DEF Cells
<1>5. Len(q) = Len(packets)
  BY <1>1, <1>3
<1>6. QED
  BY <1>4, <1>5

\* inject_real puts in no more than there is room for.
LEMMA EnqueueFits ==
  ASSUME ClockInv, config.cell # 0, NEW packets \in Seq(Packets), Len(packets) <= Room,
         Enqueue(packets)
  PROVE  queue' \in Cells /\ Len(queue') <= QueueDepth
<1> DEFINE q == [i \in DOMAIN packets |-> PadRealPacket(packets[i])]
<1>1. q \in Cells /\ Len(q) = Len(packets)
  BY Padded
<1>2. queue' = queue \o q
  BY DEF Enqueue
<1> HIDE DEF q
<1>3. queue \in Cells
  BY DEF ClockInv, Cells
<1>4. queue' \in Cells /\ Len(queue') = Len(queue) + Len(q)
  BY <1>1, <1>2, <1>3, ConcatProperties DEF Cells
<1>5. Len(queue) \in Nat /\ Len(packets) \in Nat /\ QueueDepth \in Nat
  BY <1>3, LenProperties, Constants DEF Cells
<1>6. QED
  BY <1>1, <1>4, <1>5 DEF Room

\* A step that puts into the queue and leaves the generator alone.
LEMMA ClockStands ==
  ASSUME ClockInv, queue' \in Cells, Len(queue') <= QueueDepth,
         UNCHANGED <<slots, draws, config, caller>>
  PROVE  ClockInv'
BY DEF ClockInv, Cells, Cell, Shaped, ClockIgnoresContent, DrawsPerSlot

LEMMA InjectBurstFits ==
  ASSUME PoolInv, ClockInv, InjectBurst
  PROVE  ClockInv'
<1> DEFINE n == Min({Len(burst), Room})  s == SubSeq(burst, 1, n)
<1>1. /\ caller = "inject_burst" /\ Enqueue(s)
      /\ UNCHANGED <<slots, draws, config, caller>>
  BY DEF InjectBurst
<1>2. burst \in Seq(Packets) /\ Len(burst) \in Nat
  BY LenProperties DEF PoolInv
<1>3. Room \in Nat
  <2>1. Len(queue) \in Nat /\ Len(queue) <= QueueDepth
    BY LenProperties DEF ClockInv
  <2>2. QED
    BY <2>1, Constants DEF Room
<1>4. n \in Nat /\ n <= Len(burst) /\ n <= Room
  <2>1. n = IF Len(burst) <= Room THEN Len(burst) ELSE Room
    BY <1>2, <1>3, MinOfTwo
  <2>2. QED
    BY <1>2, <1>3, <2>1
<1> HIDE DEF n
<1>5. s \in Seq(Packets) /\ Len(s) = n
  <2>1. \A i \in 1 .. n : burst[i] \in Packets
    BY <1>2, <1>4, ElementOfSeq
  <2>2. QED
    BY <1>2, <1>4, <2>1, SubSeqProperties
<1> HIDE DEF s
<1>6. config.cell # 0
  BY <1>1 DEF ClockInv, Shaped
<1>7. queue' \in Cells /\ Len(queue') <= QueueDepth
  BY <1>1, <1>4, <1>5, <1>6, EnqueueFits
<1>8. QED
  BY <1>1, <1>7, ClockStands

LEMMA InjectRealFits ==
  ASSUME PoolInv, ClockInv, NEW len \in Lens, InjectReal(len)
  PROVE  ClockInv'
<1> DEFINE s == <<Packet(len)>>
<1>1. /\ caller = "inject_real"
      /\ (Room > 0 /\ Enqueue(s)) \/ queue' = queue
      /\ UNCHANGED <<slots, draws, config, caller>>
  BY DEF InjectReal, composerVars
<1>2. s \in Seq(Packets) /\ Len(s) = 1
  <2>1. now \in Nat /\ given + 1 \in Nat \ {0} /\ len \in Nat \ {0}
    BY Constants DEF PoolInv
  <2>2. Packet(len) \in Packets
    BY <2>1 DEF Packet, Packets
  <2>3. QED
    BY <2>2
<1> HIDE DEF s
<1>3. config.cell # 0
  BY <1>1 DEF ClockInv, Shaped
<1>4. CASE Room > 0 /\ Enqueue(s)
  <2>1. Room >= 1
    <3>1. Len(queue) \in Nat
      BY LenProperties DEF ClockInv
    <3>2. QED
      BY <1>4, <3>1, Constants DEF Room
  <2>2. queue' \in Cells /\ Len(queue') <= QueueDepth
    <3>1. Len(s) <= Room
      BY <1>2, <2>1
    <3>2. QED
      BY <1>2, <1>3, <1>4, <3>1, EnqueueFits
  <2>3. QED
    BY <1>1, <2>2, ClockStands
<1>5. CASE queue' = queue
  <2>1. queue' \in Cells /\ Len(queue') <= QueueDepth
    BY <1>5 DEF ClockInv, Cells
  <2>2. QED
    BY <1>1, <2>1, ClockStands
<1>6. QED
  BY <1>1, <1>4, <1>5

\* A slot takes the same from the generator whatever it carries: a queued packet is
\* padded already.
LEMMA TickKeepsClock ==
  ASSUME PoolInv, ClockInv, NEW iat \in Iats, NEW f \in BOOLEAN, Tick(iat, f)
  PROVE  ClockInv'
<1>1. /\ slots' = slots + 1 /\ config' = config /\ caller' = caller
      /\ \/ queue # <<>> /\ queue' = Tail(queue)
            /\ draws' = draws + DrawsPerSlot + DrawsForPadding(Head(queue))
         \/ queue' = queue /\ draws' = draws + DrawsPerSlot
  BY DEF Tick, EmitSlot, callVars
<1>2. queue \in Cells /\ Len(queue) \in Nat /\ Len(queue) <= QueueDepth
  BY LenProperties DEF ClockInv, Cells
<1>3. DrawsPerSlot' = DrawsPerSlot /\ DrawsPerSlot \in {1, 2}
  BY <1>1 DEF DrawsPerSlot
<1>4. /\ queue' \in Cells /\ Len(queue') <= QueueDepth
      /\ draws' = draws + DrawsPerSlot
  <2>1. CASE queue' = queue /\ draws' = draws + DrawsPerSlot
    BY <1>2, <2>1
  <2>2. CASE queue # <<>> /\ queue' = Tail(queue)
             /\ draws' = draws + DrawsPerSlot + DrawsForPadding(Head(queue))
    <3>1. /\ Head(queue) \in Cell
          /\ Tail(queue) \in Cells /\ Len(Tail(queue)) = Len(queue) - 1
      BY <1>2, <2>2, HeadTailProperties DEF Cells
    <3>2. Head(queue).len = config.cell
      BY <3>1 DEF Cell
    <3>3. config.cell \in Int
      BY Constants DEF PoolInv
    <3>4. DrawsForPadding(Head(queue)) = 0
      BY <3>2, <3>3 DEF DrawsForPadding
    <3>5. draws \in Int /\ DrawsPerSlot \in Int
      <4>1. slots \in Nat /\ draws = 1 + slots * DrawsPerSlot
        BY DEF ClockInv, ClockIgnoresContent
      <4>2. QED
        BY <1>3, <4>1
    <3>6. draws' = draws + DrawsPerSlot + 0
      BY <2>2, <3>4
    <3>7. draws' = draws + DrawsPerSlot
      BY <3>5, <3>6
    <3>8. Len(queue') <= QueueDepth
      BY <1>2, <2>2, <3>1, Constants
    <3>9. QED
      BY <2>2, <3>1, <3>7, <3>8
  <2>3. QED
    BY <1>1, <2>1, <2>2
<1>5. slots \in Nat /\ draws = 1 + slots * DrawsPerSlot
  BY DEF ClockInv, ClockIgnoresContent
<1>6. draws' = 1 + slots' * DrawsPerSlot'
  <2>1. CASE DrawsPerSlot = 1
    BY <1>1, <1>3, <1>4, <1>5, <2>1
  <2>2. CASE DrawsPerSlot = 2
    BY <1>1, <1>3, <1>4, <1>5, <2>2
  <2>3. QED
    BY <1>3, <2>1, <2>2
<1>7. slots' \in Nat /\ (Shaped' => config'.cell # 0)
  BY <1>1, <1>5 DEF ClockInv, Shaped
<1>8. Cells' = Cells
  BY <1>1 DEF Cells, Cell
<1>9. QED
  BY <1>4, <1>6, <1>7, <1>8 DEF ClockInv, ClockIgnoresContent, Cells

LEMMA ClockStep ==
  ASSUME PoolInv, ClockInv, [SessionNext]_sessionVars
  PROVE  ClockInv'
<1>1. ASSUME UNCHANGED <<queue, slots, draws, config, caller>> PROVE ClockInv'
  BY <1>1 DEF ClockInv, Cells, Cell, Shaped, ClockIgnoresContent, DrawsPerSlot
<1>2. CASE InjectBurst
  BY <1>2, InjectBurstFits
<1>3. CASE \E len \in Lens : InjectReal(len)
  BY <1>3, InjectRealFits
<1>4. CASE \E iat \in Iats, f \in BOOLEAN : Tick(iat, f)
  BY <1>4, TickKeepsClock
<1>5. CASE \/ \E len \in Lens : GivePool(len)
           \/ PoolDue \/ ComposeBurst \/ KeepaliveDue \/ Passes \/ UNCHANGED engineVars
  <2>1. UNCHANGED <<queue, slots, draws, config, caller>>
    <3>1. CASE \E len \in Lens : GivePool(len)
      BY <3>1 DEF GivePool, composerVars, shapedVars
    <3>2. CASE PoolDue
      BY <3>2 DEF PoolDue, composerVars, shapedVars, callVars
    <3>3. CASE ComposeBurst
      BY <3>3 DEF ComposeBurst, Compose, shapedVars
    <3>4. CASE KeepaliveDue
      BY <3>4 DEF KeepaliveDue, ComposeKeepalive, shapedVars, callVars
    <3>5. CASE Passes
      BY <3>5 DEF Passes, composerVars, shapedVars, callVars
    <3>6. CASE UNCHANGED engineVars
      BY <3>6 DEF engineVars, composerVars, shapedVars, callVars
    <3>7. QED
      BY <1>5, <3>1, <3>2, <3>3, <3>4, <3>5, <3>6
  <2>2. QED
    BY <1>1, <2>1
<1>6. QED
  BY <1>2, <1>3, <1>4, <1>5, EngineSteps DEF EngineNext

-----------------------------------------------------------------------------
(* The seeds.                                                              *)

SeedsAction ==
  /\ pair'.a # pair'.b /\ Usable(pair'.a) /\ Usable(pair'.b)
  /\ pair' # pair => pair'.a = drawn /\ ~ShouldRotate'

LEMMA SeedsStep ==
  ASSUME SeedsInv, [SessionNext]_sessionVars
  PROVE  SeedsInv' /\ [SeedsAction]_seedVars
<1>1. CASE \E r \in Random : RotateSecond(r)
  <2>1. PICK r \in Random : RotateSecond(r)
    BY <1>1
  <2>2. CASE Usable(r) /\ r # drawn
    <3>1. pair' = [a |-> drawn, b |-> r] /\ age' = 0 /\ drawn # AllZero
      BY <2>1, <2>2 DEF RotateSecond
    <3>2. pair'.a = drawn /\ pair'.b = r
      BY <3>1
    <3>3. ~ShouldRotate'
      BY <3>1, SeedsAssumption DEF ShouldRotate
    <3>4. QED
      BY <2>2, <3>1, <3>2, <3>3 DEF SeedsInv, SeedsAction, Usable
  <2>3. CASE ~(Usable(r) /\ r # drawn)
    BY <2>1, <2>3 DEF RotateSecond, SeedsInv, SeedsAction, Usable
  <2>4. QED
    BY <2>2, <2>3
<1>2. CASE pair' = pair
  BY <1>2 DEF SeedsInv, SeedsAction, Usable
<1>3. QED
  <2>1. SeedsNext \/ UNCHANGED seedVars
    BY DEF SessionNext, sessionVars
  <2>2. (\E r \in Random : RotateSecond(r)) \/ pair' = pair
    BY <2>1 DEF SeedsNext, RotateFirst, RotateFails, Grow, seedVars
  <2>3. QED
    BY <1>1, <1>2, <2>2

-----------------------------------------------------------------------------
(* Accounting and cover.                                                   *)

LEMMA ConfigCell ==
  ASSUME PoolInv
  PROVE  config.cell \in Nat
BY Constants DEF PoolInv

\* However frames leave, the tester sees them and what has left conforms.
LEMMA Shown ==
  ASSUME config.cell \in Nat, config' = config, CountTypes, TesterSeesAll, NEW p,
         NEW frames \in Seq(Frames(p)), Emit(frames)
  PROVE  CountTypes' /\ TesterSeesAll'
<1> DEFINE reals == OfKind(frames, TRUE)
<1>1. reals = OfKind(frames, TRUE)
  OBVIOUS
<1> HIDE DEF reals
<1>2. /\ CountTypes'
      /\ tester'.real = tester.real + Len(reals) /\ Len(sent') = Len(sent) + Len(reals)
      /\ config.cell # 0 /\ tester.dummy * config.cell = dummyBytes =>
           tester'.dummy * config.cell = dummyBytes'
  BY <1>1, EmitCounts
<1>3. tester.real = Len(sent)
  BY DEF TesterSeesAll
<1>4. tester'.real = Len(sent')
  BY <1>2, <1>3
<1>5. config'.cell # 0 => tester'.dummy * config'.cell = dummyBytes'
  BY <1>2 DEF TesterSeesAll
<1>6. QED
  BY <1>2, <1>4, <1>5 DEF TesterSeesAll

\* A slot carries the oldest real packet, padded, or a dummy.
LEMMA TickEmits ==
  ASSUME PoolInv, ClockInv, NEW iat \in Iats, NEW f \in BOOLEAN, Tick(iat, f), NEW p
  PROVE  /\ config.cell # 0
         /\ \E frames \in Seq(Frames(p)) :
              /\ Emit(frames)
              /\ \/ /\ queue # <<>> /\ queue' = Tail(queue)
                    /\ OfKind(frames, TRUE) = <<[id |-> Head(queue).id, len |-> config.cell]>>
                 \/ queue' = queue /\ OfKind(frames, TRUE) = <<>>
<1>1. config.cell # 0 /\ config.cell \in Nat
  BY ConfigCell DEF Tick, ClockInv
<1>2. CASE queue # <<>> /\ queue' = Tail(queue) /\ Emit(<<[Head(queue) EXCEPT !.len = config.cell]>>)
  <2> DEFINE h == [id |-> Head(queue).id, len |-> config.cell]
  <2>1. Head(queue) \in Cell
    BY <1>2, HeadTailProperties DEF ClockInv, Cells
  <2>2. [Head(queue) EXCEPT !.len = config.cell] = h
    BY <2>1 DEF Cell
  <2>3. h \in Frames(p) /\ IsReal(h)
    BY <1>1, <2>1 DEF Cell, Frames, IsReal
  <2> HIDE DEF h
  <2> DEFINE R == {x \in Frames(p) : IsReal(x)}  s == <<h>>
  <2>4. s \in Seq(R) /\ s \in Seq(Frames(p))
    BY <2>3
  <2>5. \A q \in Seq(R) : OfKind(q, TRUE) = q
    <3>1. \A x \in R : IsReal(x) = TRUE
      BY DEF IsReal
    <3> HIDE DEF R
    <3>2. QED
      BY <3>1, KindAll
  <2> HIDE DEF s, R
  <2>6. OfKind(s, TRUE) = s
    BY <2>4, <2>5
  <2>7. Emit(s)
    BY <1>2, <2>2 DEF s
  <2>8. QED
    BY <1>1, <1>2, <2>4, <2>6, <2>7 DEF s, h
<1>3. CASE queue' = queue /\ Emit(Dummies(<<config.cell>>))
  <2> DEFINE d == [id |-> 0, len |-> config.cell]  s == <<d>>
  <2>1. d \in Cover(p)
    BY <1>1 DEF Cover, DummiesOf, Frames, IsReal
  <2>2. Dummies(<<config.cell>>) = s
    BY DEF Dummies
  <2> HIDE DEF d
  <2>3. s \in Seq(Cover(p))
    BY <2>1
  <2> HIDE DEF s
  <2>4. s \in Seq(Frames(p)) /\ OfKind(s, TRUE) = <<>>
    BY <2>3, CoverIsCover
  <2>5. Emit(s)
    BY <1>3, <2>2
  <2>6. QED
    BY <1>1, <1>3, <2>4, <2>5
<1>4. \/ queue # <<>> /\ queue' = Tail(queue) /\ Emit(<<[Head(queue) EXCEPT !.len = config.cell]>>)
      \/ queue' = queue /\ Emit(Dummies(<<config.cell>>))
  BY DEF Tick, EmitSlot
<1>5. QED
  BY <1>2, <1>3, <1>4

\* The window that is noted is charged.
LEMMA NoteCharges ==
  ASSUME windows \in Nat, EpsilonCharged, NoteBurst, config' = config
  PROVE  windows' \in Nat /\ EpsilonCharged'
<1>1. windows' = windows + 1 /\ RecordQuery
  BY DEF NoteBurst
<1>2. CASE config.dp
  <2>1. acct.spent = windows * Epsilon
    BY <1>2 DEF EpsilonCharged
  <2>2. acct' = [spent |-> acct.spent + Epsilon,
                 exceeded |-> acct.exceeded \/ acct.spent + Epsilon > Budget]
    BY <1>1, <1>2 DEF RecordQuery
  <2>3. acct'.spent = acct.spent + Epsilon
    BY <2>2
  <2>4. Epsilon \in Nat
    BY CompositionAssumption DEF DpValid
  <2>5. windows * Epsilon + Epsilon = (windows + 1) * Epsilon
    BY <2>4
  <2>6. QED
    BY <1>1, <1>2, <2>1, <2>3, <2>5 DEF EpsilonCharged
<1>3. CASE ~config.dp
  BY <1>1, <1>3 DEF RecordQuery, EpsilonCharged
<1>4. QED
  BY <1>2, <1>3

LEMMA BounderTold ==
  ASSUME bounder \in Nat, NEW bytes \in Nat, NEW packets, Observe(bytes, packets)
  PROVE  bounder' \in Nat /\ bounder' = IF config.bounded THEN bounder + bytes ELSE bounder
BY DEF Observe

LEMMA ComposeAccounts ==
  ASSUME PoolInv, AccountInv, CoverInv, ComposeBurst
  PROVE  AccountInv' /\ CoverInv'
<1>1. /\ burst # <<>> /\ NoteBurst /\ Compose /\ config' = config
      /\ Observe(SumSeq(Lengths(burst)), Len(burst))
  BY DEF ComposeBurst, Compose
<1>2. burst \in Seq(Packets) /\ config.cell \in Nat
  BY ConfigCell DEF PoolInv
<1>3. /\ PadderSound(padder) /\ ingested \in Seq(Nat) /\ Ring(lens, ingested)
      /\ Conforming(sizes, padder)
  BY DEF CoverInv
<1>4. /\ PadderSound(padder') /\ padder'.seen = padder.seen \o Lengths(burst)
      /\ Lengths(burst) \in Seq(Nat)
      /\ \E frames \in Seq(Frames(padder')) :
           /\ Emit(frames)
           /\ OfKind(frames, TRUE) = [i \in DOMAIN burst |-> PadRealPacket(burst[i])]
  BY <1>1, <1>2, <1>3, ComposeEmits
<1>5. PICK frames \in Seq(Frames(padder')) :
        /\ Emit(frames)
        /\ OfKind(frames, TRUE) = [i \in DOMAIN burst |-> PadRealPacket(burst[i])]
  BY <1>4
<1> DEFINE q == [i \in DOMAIN burst |-> PadRealPacket(burst[i])]  b == burst  p == padder'
<1>6. CoverInv'
  <2>1. ingested' \in Seq(Nat) /\ Ring(lens', ingested')
    BY <1>1, <1>2, <1>3, NoteKeepsRing
  <2>2. Conforming(sizes, p)
    BY <1>3, <1>4, ConformsMore
  <2>3. Conforming(sizes', p)
    <3> HIDE DEF p
    <3>1. frames \in Seq(Frames(p)) /\ Emit(frames) /\ p.built = padder'.built
      BY <1>5 DEF p
    <3>2. QED
      BY <2>2, <3>1, EmitConforms
  <2>4. Conforming(sizes, padder)'
    BY <1>1, <2>3 DEF Conforming
  <2>5. QED
    BY <1>4, <2>1, <2>4 DEF CoverInv
<1>7. CountTypes' /\ TesterSeesAll'
  <2> HIDE DEF p
  <2>1. frames \in Seq(Frames(p)) /\ Emit(frames)
    BY <1>5 DEF p
  <2>2. QED
    BY <1>1, <1>2, <2>1, Shown DEF AccountInv
<1>8. windows' \in Nat /\ EpsilonCharged'
  BY <1>1, NoteCharges DEF AccountInv
<1>9. SumSeq(Lengths(burst)) \in Nat
  BY <1>4, SumSteps
<1>10. bounder' \in Nat
       /\ bounder' = IF config.bounded THEN bounder + SumSeq(Lengths(burst)) ELSE bounder
  BY <1>1, <1>9, BounderTold DEF AccountInv
<1>11. realOut' = realOut + SumSeq(Lengths(q))
  <2>1. frames \in Seq(Frames(p)) /\ Emit(frames) /\ q = OfKind(frames, TRUE)
    BY <1>5
  <2> HIDE DEF p, q
  <2>2. QED
    BY <1>2, <2>1, EmitCounts DEF AccountInv
<1>12. config.cell = 0 => Lengths(q) = Lengths(b)
  <2>1. /\ q \in Seq(Frames(p)) /\ Len(q) = Len(b)
        /\ config.cell = 0 => \A i \in 1 .. Len(q) : q[i].len = b[i].len
    BY <1>2, RealsPadded
  <2> HIDE DEF p, q
  <2>2. /\ Lengths(q) \in Seq(Nat) /\ Len(Lengths(q)) = Len(q)
        /\ \A i \in 1 .. Len(q) : Lengths(q)[i] = q[i].len
    <3> DEFINE F == Frames(p)
    <3>1. \A x \in F : x.len \in Nat
      BY FrameTypes
    <3> HIDE DEF F
    <3>2. QED
      BY <2>1, <3>1, LengthsType DEF F
  <2>3. /\ Lengths(b) \in Seq(Nat) /\ Len(Lengths(b)) = Len(b)
        /\ \A i \in 1 .. Len(b) : Lengths(b)[i] = b[i].len
    <3>1. \A x \in Packets : x.len \in Nat
      BY DEF Packets
    <3>2. QED
      BY <1>2, <3>1, LengthsType
  <2> DEFINE u == Lengths(q)  v == Lengths(b)
  <2>4. ASSUME config.cell = 0 PROVE u = v
    <3>1. u \in Seq(Nat) /\ v \in Seq(Nat) /\ Len(u) = Len(v) /\ \A i \in 1 .. Len(u) : u[i] = v[i]
      BY <2>1, <2>2, <2>3, <2>4
    <3> HIDE DEF u, v
    <3>2. QED
      BY <3>1, SeqEqual
  <2>5. QED
    BY <2>4
<1>13. config'.bounded /\ config'.cell = 0 => bounder' = realOut'
  BY <1>1, <1>10, <1>11, <1>12 DEF AccountInv
<1>14. QED
  BY <1>6, <1>7, <1>8, <1>10, <1>13 DEF AccountInv

LEMMA KeepaliveAccounts ==
  ASSUME PoolInv, AccountInv, CoverInv, KeepaliveDue
  PROVE  AccountInv' /\ CoverInv' /\ sent' = sent
<1>1. /\ ComposeKeepalive /\ config' = config
      /\ UNCHANGED <<lens, acct, bounder, ingested, windows>>
  BY DEF KeepaliveDue, ComposeKeepalive
<1>2. config.cell \in Nat /\ KeepaliveCount \in Nat
  BY ConfigCell, KeepaliveCounts DEF PoolInv, AccountInv, CountTypes
<1>3. PadderSound(padder) /\ Conforming(sizes, padder) /\ CountTypes
  BY DEF CoverInv, AccountInv
<1>4. /\ PadderSound(padder') /\ padder'.seen = padder.seen
      /\ \E frames \in Seq(Cover(padder')) : Emit(frames)
  BY <1>1, <1>2, <1>3, KeepaliveEmits
<1> DEFINE p == padder'
<1>5. PICK frames \in Seq(Cover(p)) : Emit(frames)
  BY <1>4
<1>6. Conforming(sizes, p) /\ p.built = padder'.built
  BY <1>3, <1>4 DEF Conforming
<1> HIDE DEF p
<1>7. frames \in Seq(Frames(p)) /\ OfKind(frames, TRUE) = <<>>
  BY <1>5, CoverIsCover
<1>8. CountTypes' /\ TesterSeesAll'
  BY <1>1, <1>2, <1>3, <1>5, <1>7, Shown DEF AccountInv
<1>9. Conforming(sizes', p)
  BY <1>5, <1>6, <1>7, EmitConforms
<1>10. realOut' = realOut /\ sent' = sent
  <2> DEFINE reals == <<>>
  <2>1. reals = OfKind(frames, TRUE)
    BY <1>7
  <2> HIDE DEF reals
  <2>2. realOut' = realOut + SumSeq(Lengths(reals)) /\ sent' = sent \o [i \in DOMAIN reals |-> reals[i].id]
    BY <1>2, <1>3, <1>5, <1>7, <2>1, EmitCounts
  <2>3. Lengths(reals) = <<>> /\ [i \in DOMAIN reals |-> reals[i].id] = <<>>
    BY DEF reals, Lengths
  <2>4. sent \o <<>> = sent /\ SumSeq(<<>>) = 0 /\ realOut \in Nat
    BY <1>3, ConcatEmptySeq, SumSteps DEF CountTypes
  <2>5. realOut' = realOut + 0 /\ sent' = sent \o <<>>
    BY <2>2, <2>3, <2>4
  <2>6. QED
    BY <2>4, <2>5
<1>11. CoverInv'
  <2>1. Conforming(sizes, padder)'
    BY <1>1, <1>9 DEF Conforming, p
  <2>2. QED
    BY <1>1, <1>4, <2>1 DEF CoverInv
<1>12. EpsilonCharged'
  BY <1>1 DEF AccountInv, EpsilonCharged
<1>13. QED
  BY <1>1, <1>8, <1>10, <1>11, <1>12 DEF AccountInv

LEMMA InjectBurstAccounts ==
  ASSUME PoolInv, ClockInv, AccountInv, CoverInv, InjectBurst
  PROVE  AccountInv' /\ CoverInv'
<1>1. /\ NoteBurst /\ config' = config /\ padder' = ObserveLengths(padder, Lengths(burst))
      /\ Observe(SumSeq(Lengths(burst)), Len(burst)) \/ bounder' = bounder
      /\ UNCHANGED <<dummyBytes, tester, sent, sizes, realOut>> /\ caller = "inject_burst"
  BY DEF InjectBurst
<1>2. burst \in Seq(Packets) /\ config.cell # 0
  BY <1>1 DEF PoolInv, ClockInv, Shaped
<1>3. Lengths(burst) \in Seq(Nat)
  <2>1. \A x \in Packets : x.len \in Nat
    BY DEF Packets
  <2>2. QED
    BY <1>2, <2>1, LengthsType
<1>4. bounder' \in Nat
  <2>1. SumSeq(Lengths(burst)) \in Nat /\ bounder \in Nat
    BY <1>3, SumSteps DEF AccountInv
  <2>2. QED
    BY <1>1, <2>1, BounderTold
<1>5. windows' \in Nat /\ EpsilonCharged'
  BY <1>1, NoteCharges DEF AccountInv
<1>6. CountTypes' /\ TesterSeesAll'
  BY <1>1 DEF AccountInv, CountTypes, TesterSeesAll
<1>7. AccountInv'
  BY <1>1, <1>2, <1>4, <1>5, <1>6 DEF AccountInv
<1>8. ingested' \in Seq(Nat) /\ Ring(lens', ingested')
  BY <1>1, <1>2, NoteKeepsRing DEF CoverInv
<1>9. PadderSound(padder') /\ padder'.seen = padder.seen \o Lengths(burst)
  BY <1>1, <1>3, ObserveKeepsSound DEF CoverInv
<1>10. Conforming(sizes, padder')
  <2> DEFINE p == padder'
  <2>1. p.seen = padder.seen \o Lengths(burst)
    BY <1>9
  <2> HIDE DEF p
  <2>2. Conforming(sizes, p)
    BY <1>3, <2>1, ConformsMore DEF CoverInv
  <2>3. QED
    BY <2>2 DEF p
<1>11. Conforming(sizes, padder)'
  BY <1>1, <1>10 DEF Conforming
<1>12. QED
  BY <1>7, <1>8, <1>9, <1>11 DEF CoverInv

LEMMA TickAccounts ==
  ASSUME PoolInv, ClockInv, AccountInv, CoverInv, NEW iat \in Iats, NEW f \in BOOLEAN, Tick(iat, f)
  PROVE  AccountInv' /\ CoverInv'
<1>1. UNCHANGED <<config, lens, padder, acct, bounder, ingested, windows>>
  BY DEF Tick
<1>2. config.cell # 0 /\ config.cell \in Nat
  BY ConfigCell, TickEmits
<1>3. PICK frames \in Seq(Frames(padder)) : Emit(frames)
  BY TickEmits
<1>4. CountTypes' /\ TesterSeesAll'
  BY <1>1, <1>2, <1>3, Shown DEF AccountInv
<1>5. Conforming(sizes', padder)
  BY <1>1, <1>3, EmitConforms DEF CoverInv
<1>6. AccountInv'
  BY <1>1, <1>2, <1>4 DEF AccountInv, EpsilonCharged
<1>7. Conforming(sizes, padder)'
  BY <1>1, <1>5 DEF Conforming
<1>8. QED
  BY <1>1, <1>6, <1>7 DEF CoverInv

LEMMA CountsStep ==
  ASSUME PoolInv, ClockInv, AccountInv, CoverInv, [SessionNext]_sessionVars
  PROVE  AccountInv' /\ CoverInv'
<1>1. CASE ComposeBurst
  BY <1>1, ComposeAccounts
<1>2. CASE KeepaliveDue
  BY <1>2, KeepaliveAccounts
<1>3. CASE InjectBurst
  BY <1>3, InjectBurstAccounts
<1>4. CASE \E iat \in Iats, f \in BOOLEAN : Tick(iat, f)
  BY <1>4, TickAccounts
<1>5. CASE \/ \E len \in Lens : GivePool(len) \/ InjectReal(len)
           \/ PoolDue \/ Passes \/ UNCHANGED engineVars
  <2>1. UNCHANGED composerVars
    BY <1>5 DEF GivePool, InjectReal, PoolDue, Passes, engineVars
  <2>2. QED
    BY <2>1 DEF composerVars, AccountInv, CoverInv, CountTypes, TesterSeesAll, EpsilonCharged,
                Conforming
<1>6. QED
  BY <1>1, <1>2, <1>3, <1>4, <1>5, EngineSteps DEF EngineNext

-----------------------------------------------------------------------------
(* The order of the packets.                                               *)

LEMMA IdsAre ==
  ASSUME NEW F, \A f \in F : f.id \in Nat, NEW s \in Seq(F)
  PROVE  Ids(s) \in Seq(Nat) /\ Len(Ids(s)) = Len(s)
         /\ \A i \in 1 .. Len(s) : Ids(s)[i] = s[i].id
<1>1. Len(s) \in Nat /\ DOMAIN s = 1 .. Len(s) /\ \A i \in 1 .. Len(s) : s[i] \in F
  BY LenProperties, ElementOfSeq
<1> DEFINE t == [i \in 1 .. Len(s) |-> s[i].id]
<1>2. Ids(s) = t
  BY <1>1 DEF Ids
<1>3. \A i \in 1 .. Len(s) : t[i] = s[i].id /\ t[i] \in Nat
  BY <1>1
<1>4. t = [i \in 1 .. Len(s) |-> t[i]]
  OBVIOUS
<1> HIDE DEF t
<1>5. t \in [1 .. Len(s) -> Nat]
  BY <1>3, <1>4, Zenon
<1>6. t \in Seq(Nat) /\ Len(t) = Len(s)
  BY <1>1, <1>5
<1>7. QED
  BY <1>2, <1>3, <1>6

LEMMA IdsConcat ==
  ASSUME NEW F, \A f \in F : f.id \in Nat, NEW a \in Seq(F), NEW b \in Seq(F)
  PROVE  Ids(a \o b) = Ids(a) \o Ids(b)
<1> DEFINE c == a \o b  n == Len(a)  k == Len(b)  x == Ids(a)  y == Ids(b)  u == x \o y  v == Ids(c)
<1>1. /\ c \in Seq(F) /\ Len(c) = n + k /\ n \in Nat /\ k \in Nat
      /\ \A i \in 1 .. n + k : c[i] = IF i <= n THEN a[i] ELSE b[i - n]
  BY ConcatProperties, LenProperties
<1> HIDE DEF c
<1>2. /\ x \in Seq(Nat) /\ Len(x) = n /\ \A i \in 1 .. n : x[i] = a[i].id
      /\ y \in Seq(Nat) /\ Len(y) = k /\ \A i \in 1 .. k : y[i] = b[i].id
      /\ v \in Seq(Nat) /\ Len(v) = Len(c) /\ \A i \in 1 .. Len(c) : v[i] = c[i].id
  BY <1>1, IdsAre
<1> HIDE DEF x, y, v, n, k
<1>3. /\ u \in Seq(Nat) /\ Len(u) = Len(x) + Len(y)
      /\ \A i \in 1 .. Len(x) + Len(y) : u[i] = IF i <= Len(x) THEN x[i] ELSE y[i - Len(x)]
  <2>1. x \in Seq(Nat) /\ y \in Seq(Nat)
    BY <1>2
  <2>2. QED
    BY <2>1, ConcatProperties
<1> HIDE DEF u
<1>4. \A i \in 1 .. n + k : u[i] = v[i]
  <2>1. ASSUME NEW i \in 1 .. n + k PROVE u[i] = v[i]
    <3>1. CASE i <= n
      <4>1. i \in 1 .. n /\ c[i] = a[i] /\ u[i] = x[i]
        BY <1>1, <1>2, <1>3, <3>1
      <4>2. QED
        BY <1>1, <1>2, <4>1
    <3>2. CASE i > n
      <4>1. i - n \in 1 .. k
        BY <1>1, <3>2
      <4>2. c[i] = b[i - n] /\ u[i] = y[i - n]
        BY <1>1, <1>2, <1>3, <3>2
      <4>3. QED
        BY <1>1, <1>2, <4>1, <4>2
    <3>3. QED
      BY <1>1, <3>1, <3>2
  <2>2. QED
    BY <2>1
<1>5. v = u
  BY <1>1, <1>2, <1>3, <1>4, SeqEqual
<1>6. QED
  BY <1>5 DEF u, v, c, x, y

\* The next packets are accepted in turn, and those after them are given back.
LEMMA DisposeMore ==
  ASSUME NEW acc, NEW gone, NEW t, Disposed(acc, gone, t),
         NEW s \in Seq(Nat), NEW n, n = Len(s), \A i \in 1 .. n : s[i] = t + i,
         NEW k \in Nat, NEW more, more = t + n + 1 .. t + n + k
  PROVE  Disposed(acc \o s, gone \cup more, t + n + k)
<1> DEFINE r == acc \o s  m == Len(acc)
<1>1. t \in Nat /\ acc \in Seq(Nat) /\ n \in Nat
  BY LenProperties DEF Disposed
<1>2. /\ r \in Seq(Nat) /\ Len(r) = m + n /\ m \in Nat
      /\ \A i \in 1 .. m + n : r[i] = IF i <= m THEN acc[i] ELSE s[i - m]
      /\ DOMAIN r = 1 .. m + n /\ DOMAIN acc = 1 .. m
  BY <1>1, ConcatProperties, LenProperties
<1> HIDE DEF r, m
<1>3. /\ \A i, j \in 1 .. m : i < j => acc[i] < acc[j]
      /\ ToSet(acc) \cup gone = 1 .. t /\ ToSet(acc) \cap gone = {}
  BY <1>2 DEF Disposed
<1>4. \A i \in 1 .. m : acc[i] \in 1 .. t
  BY <1>2, <1>3 DEF ToSet
<1>5. \A i \in 1 .. m + n : i > m => r[i] = t + i - m
  <2>1. ASSUME NEW i \in 1 .. m + n, i > m PROVE r[i] = t + i - m
    <3>1. i - m \in 1 .. n
      BY <1>1, <1>2, <2>1
    <3>2. r[i] = s[i - m]
      BY <1>2, <2>1
    <3>3. QED
      BY <1>1, <1>2, <2>1, <3>1, <3>2
  <2>2. QED
    BY <2>1
<1>6. \A i \in 1 .. m : r[i] = acc[i]
  BY <1>1, <1>2
<1>7. ASSUME NEW i \in 1 .. m + n, NEW j \in 1 .. m + n, i < j PROVE r[i] < r[j]
  <2>1. CASE j \in 1 .. m
    BY <1>2, <1>3, <1>6, <1>7, <2>1
  <2>2. CASE i \in 1 .. m /\ j > m
    BY <1>1, <1>2, <1>4, <1>5, <1>6, <2>2
  <2>3. CASE i > m /\ j > m
    BY <1>1, <1>2, <1>5, <1>7, <2>3
  <2>4. QED
    BY <1>1, <1>2, <1>7, <2>1, <2>2, <2>3
<1>8. ToSet(r) = ToSet(acc) \cup (t + 1 .. t + n)
  <2>1. ASSUME NEW x \in ToSet(r) PROVE x \in ToSet(acc) \cup (t + 1 .. t + n)
    <3>1. PICK i \in 1 .. m + n : x = r[i]
      BY <1>2, <2>1 DEF ToSet
    <3>2. CASE i \in 1 .. m
      BY <1>2, <1>6, <3>1, <3>2 DEF ToSet
    <3>3. CASE i > m
      BY <1>1, <1>2, <1>5, <3>1, <3>3
    <3>4. QED
      BY <1>1, <1>2, <3>2, <3>3
  <2>2. ASSUME NEW x \in ToSet(acc) PROVE x \in ToSet(r)
    <3>1. PICK i \in 1 .. m : x = acc[i]
      BY <1>2, <2>2 DEF ToSet
    <3>2. x = r[i] /\ i \in DOMAIN r
      BY <1>1, <1>2, <1>6, <3>1
    <3>3. QED
      BY <3>2 DEF ToSet
  <2>3. ASSUME NEW x \in t + 1 .. t + n PROVE x \in ToSet(r)
    <3>1. x - t + m \in 1 .. m + n /\ x - t + m > m
      BY <1>1, <1>2, <2>3
    <3>2. r[x - t + m] = x
      BY <1>1, <1>2, <1>5, <2>3, <3>1
    <3>3. QED
      BY <1>2, <3>1, <3>2 DEF ToSet
  <2>4. QED
    BY <2>1, <2>2, <2>3
<1> DEFINE A == ToSet(acc)  B == ToSet(r)
<1>9. A \cup gone = 1 .. t /\ A \cap gone = {} /\ B = A \cup (t + 1 .. t + n)
  BY <1>3, <1>8
<1> HIDE DEF A, B
<1>10. B \cup (gone \cup more) = 1 .. t + n + k /\ B \cap (gone \cup more) = {}
  <2>1. (A \cup gone) \cup ((t + 1 .. t + n) \cup more) = 1 .. t + n + k
    <3>1. (1 .. t) \cup ((t + 1 .. t + n) \cup more) = 1 .. t + n + k
      BY <1>1
    <3>2. QED
      BY <1>9, <3>1
  <2>2. B \cup (gone \cup more) = (A \cup gone) \cup ((t + 1 .. t + n) \cup more)
    BY <1>9
  <2>3. ASSUME NEW x \in B, x \in gone \cup more PROVE FALSE
    <3>1. x \in A \/ x \in t + 1 .. t + n
      BY <1>9, <2>3
    <3>2. x \in A \/ x \in gone => x \in 1 .. t
      BY <1>9
    <3>3. ~(x \in A /\ x \in gone)
      BY <1>9
    <3>4. x \in more => x \in t + n + 1 .. t + n + k
      OBVIOUS
    <3>5. QED
      BY <1>1, <2>3, <3>1, <3>2, <3>3, <3>4
  <2>4. QED
    BY <2>1, <2>2, <2>3
<1>11. t + n + k \in Nat
  BY <1>1
<1>12. QED
  BY <1>2, <1>7, <1>10, <1>11 DEF Disposed, r, B

LEMMA IdsOfNone == Ids(<<>>) = <<>> /\ ToSet(Ids(<<>>)) = {}
BY DEF Ids, ToSet

\* A step that moves no packet.
LEMMA FifoStands ==
  ASSUME FifoInv, UNCHANGED <<buffered, burst, given, caller, accepted, lost, sent, queue>>
  PROVE  FifoInv'
BY DEF FifoInv, Held

\* The packets held are those of b, in the pool or in the burst.
LEMMA HeldMoves ==
  ASSUME FifoInv, NEW b \in Seq(Packets), given' - Len(b) = given - Held,
         \A i \in 1 .. Len(b) : b[i].id = given' - Len(b) + i,
         (burst' = b /\ buffered' = <<>>) \/ (burst' = <<>> /\ buffered' = b),
         caller # "inject_real", UNCHANGED <<caller, accepted, lost, sent, queue>>
  PROVE  FifoInv'
<1>1. Len(b) \in Nat /\ DOMAIN b = 1 .. Len(b) /\ Len(<<>>) = 0 /\ DOMAIN <<>> = {}
  BY LenProperties
<1>2. Held' = Len(b)
  <2>1. Held' = Len(buffered') + Len(burst')
    BY DEF Held
  <2>2. Held' = 0 + Len(b) \/ Held' = Len(b) + 0
    BY <1>1, <2>1
  <2>3. QED
    BY <1>1, <2>2
<1>3. /\ \A i \in DOMAIN buffered' : buffered'[i].id = given' - Held' + i
      /\ \A i \in DOMAIN burst' : burst'[i].id = given' - Held' + i
  BY <1>1, <1>2
<1>4. Disposed(accepted', lost', given' - Held')
  BY <1>2 DEF FifoInv
<1>5. QED
  BY <1>3, <1>4 DEF FifoInv

LEMMA GivePoolInOrder ==
  ASSUME PoolInv, FifoInv, NEW len \in Lens, GivePool(len)
  PROVE  FifoInv'
<1> DEFINE p == Packet(len)  b == Append(buffered, p)
<1>1. /\ caller \in {"compose", "inject_burst"} /\ burst = <<>> /\ given' = given + 1
      /\ IF Len(b) >= thr.packets
         THEN FlushReady(b)
         ELSE buffered' = b /\ burst' = burst
      /\ UNCHANGED <<caller, accepted, lost, sent, queue>>
  BY DEF GivePool, Push, composerVars, shapedVars
<1>2. /\ now \in Nat /\ given \in Nat /\ buffered \in Seq(Packets) /\ thr \in CycleThresholds
      /\ Len(buffered) < thr.packets
  BY DEF PoolInv, PoolDrained
<1>3. p \in Packets /\ p.id = given + 1
  <2>1. given + 1 \in Nat \ {0} /\ len \in Nat \ {0} /\ now \in Nat
    BY <1>2, Constants DEF PoolInv
  <2>2. QED
    BY <2>1 DEF Packet, Packets
<1> HIDE DEF p
<1>4. /\ b \in Seq(Packets) /\ Len(buffered) \in Nat /\ Len(b) = Len(buffered) + 1
      /\ \A i \in 1 .. Len(buffered) : b[i] = buffered[i]
      /\ b[Len(buffered) + 1] = p
  BY <1>2, <1>3, AppendProperties, LenProperties
<1> HIDE DEF b
<1>5. Held = Len(buffered)
  BY <1>1, <1>4 DEF Held
<1>6. given' - Len(b) = given - Held
  BY <1>1, <1>2, <1>4, <1>5
<1>7. ASSUME NEW i \in 1 .. Len(b) PROVE b[i].id = given' - Len(b) + i
  <2>1. CASE i \in 1 .. Len(buffered)
    <3>1. DOMAIN buffered = 1 .. Len(buffered)
      BY <1>2, LenProperties
    <3>2. buffered[i].id = given - Held + i
      BY <2>1, <3>1 DEF FifoInv
    <3>3. QED
      BY <1>4, <1>6, <2>1, <3>2
  <2>2. CASE i = Len(buffered) + 1
    BY <1>1, <1>2, <1>3, <1>4, <2>2
  <2>3. QED
    BY <1>4, <2>1, <2>2
<1>8. (burst' = b /\ buffered' = <<>>) \/ (burst' = <<>> /\ buffered' = b)
  <2>1. CASE Len(b) >= thr.packets
    <3>1. Len(b) <= thr.packets
      BY <1>2, <1>4, ThresholdTypes
    <3>2. FlushReady(b)
      BY <1>1, <2>1
    <3>3. burst' = b /\ buffered' = <<>>
      BY <1>2, <1>4, <3>1, <3>2, FlushEmpties
    <3>4. QED
      BY <3>3
  <2>2. CASE ~(Len(b) >= thr.packets)
    BY <1>1, <2>2
  <2>3. QED
    BY <2>1, <2>2
<1>9. QED
  BY <1>1, <1>4, <1>6, <1>7, <1>8, HeldMoves

LEMMA PoolDueInOrder ==
  ASSUME PoolInv, FifoInv, PoolDue
  PROVE  FifoInv'
<1>1. /\ burst = <<>> /\ buffered # <<>> /\ FlushReady(buffered)
      /\ UNCHANGED <<given, caller, accepted, lost, sent, queue>>
  BY DEF PoolDue, PoolTick, Flush, TimedOut, composerVars, shapedVars, callVars
<1>2. buffered \in Seq(Packets) /\ thr \in CycleThresholds /\ Len(buffered) < thr.packets
  BY DEF PoolInv, PoolDrained
<1>3. Len(buffered) \in Nat /\ DOMAIN buffered = 1 .. Len(buffered) /\ Len(buffered) <= thr.packets
  BY <1>2, LenProperties, ThresholdTypes
<1>4. burst' = buffered /\ buffered' = <<>>
  BY <1>1, <1>2, <1>3, FlushEmpties
<1>5. Held = Len(buffered)
  BY <1>1, <1>3 DEF Held
<1>6. caller # "inject_real" /\ \A i \in 1 .. Len(buffered) : buffered[i].id = given' - Len(buffered) + i
  BY <1>1, <1>3, <1>5 DEF FifoInv
<1>7. given' - Len(buffered) = given - Held
  BY <1>1, <1>5
<1>8. UNCHANGED <<caller, accepted, lost, sent, queue>>
  BY <1>1
<1> DEFINE b == buffered
<1>9. /\ b \in Seq(Packets) /\ given' - Len(b) = given - Held
      /\ \A i \in 1 .. Len(b) : b[i].id = given' - Len(b) + i
      /\ (burst' = b /\ buffered' = <<>>) \/ (burst' = <<>> /\ buffered' = b)
  BY <1>2, <1>4, <1>6, <1>7
<1> HIDE DEF b
<1>10. QED
  BY <1>6, <1>8, <1>9, HeldMoves

\* The first n packets of the burst are taken, and the others given back.
LEMMA BurstTaken ==
  ASSUME PoolInv, FifoInv, burst # <<>>, NEW n \in Nat, n <= Len(burst),
         accepted' = accepted \o Ids(SubSeq(burst, 1, n)),
         lost' = lost \cup ToSet(Ids(SubSeq(burst, n + 1, Len(burst)))),
         burst' = <<>>, UNCHANGED <<buffered, given, caller>>,
         caller = "compose" => queue' = <<>>,
         sent' \o Ids(queue') = accepted'
  PROVE  FifoInv'
<1> DEFINE b == burst  m == Len(b)  t == given - Held
           s == SubSeq(b, 1, n)  r == SubSeq(b, n + 1, m)
           x == Ids(s)  y == Ids(r)  more == ToSet(y)
<1>1. /\ b \in Seq(Packets) /\ m \in Nat /\ n <= m /\ DOMAIN b = 1 .. m
      /\ given \in Nat /\ buffered = <<>> /\ Len(buffered) = 0
  BY LenProperties DEF PoolInv, FifoInv
<1>2. Held = m /\ t = given - m /\ t \in Nat
  BY <1>1 DEF Held, FifoInv, Disposed
<1>3. \A i \in 1 .. m : b[i].id = t + i
  BY <1>1 DEF FifoInv
<1> HIDE DEF b, m, t
<1>4. /\ s \in Seq(Packets) /\ Len(s) = n /\ \A i \in 1 .. n : s[i] = b[i]
      /\ r \in Seq(Packets) /\ Len(r) = m - n /\ \A i \in 1 .. m - n : r[i] = b[n + i]
  <2>1. /\ s \in Seq(Packets) /\ Len(s) = (IF 1 <= n THEN n - 1 + 1 ELSE 0)
        /\ \A i \in 1 .. n - 1 + 1 : s[i] = b[1 + i - 1]
    <3>1. n <= Len(b)
      BY <1>1 DEF m
    <3>2. QED
      BY <1>1, <3>1, PartIs
  <2>2. /\ r \in Seq(Packets) /\ Len(r) = (IF n + 1 <= m THEN m - (n + 1) + 1 ELSE 0)
        /\ \A i \in 1 .. m - (n + 1) + 1 : r[i] = b[n + 1 + i - 1]
    <3>1. m <= Len(b) /\ n + 1 \in Nat \ {0}
      BY <1>1 DEF m
    <3>2. QED
      BY <1>1, <3>1, PartIs
  <2> HIDE DEF s, r
  <2>3. \A i \in 1 .. n : s[i] = b[i]
    <3>1. \A i \in 1 .. n : 1 + i - 1 = i /\ i \in 1 .. n - 1 + 1
      BY <1>1
    <3>2. QED
      BY <2>1, <3>1
  <2>4. \A i \in 1 .. m - n : r[i] = b[n + i]
    <3>1. \A i \in 1 .. m - n : n + 1 + i - 1 = n + i /\ i \in 1 .. m - (n + 1) + 1
      BY <1>1
    <3>2. QED
      BY <2>2, <3>1
  <2>5. Len(s) = n /\ Len(r) = m - n
    BY <1>1, <2>1, <2>2
  <2>6. QED
    BY <2>1, <2>2, <2>3, <2>4, <2>5
<1> HIDE DEF s, r
<1>5. /\ x \in Seq(Nat) /\ Len(x) = Len(s) /\ \A i \in 1 .. Len(s) : x[i] = s[i].id
      /\ y \in Seq(Nat) /\ Len(y) = Len(r) /\ \A i \in 1 .. Len(r) : y[i] = r[i].id
  <2>1. \A f \in Packets : f.id \in Nat
    BY DEF Packets
  <2>2. QED
    BY <1>4, <2>1, IdsAre
<1> HIDE DEF x, y
<1>6. \A i \in 1 .. n : x[i] = t + i
  <2>1. \A i \in 1 .. n : i \in 1 .. m
    BY <1>1
  <2>2. QED
    BY <1>3, <1>4, <1>5, <2>1
<1>7. \A i \in 1 .. m - n : y[i] = t + n + i
  <2>1. ASSUME NEW i \in 1 .. m - n PROVE y[i] = t + n + i
    <3>1. n + i \in 1 .. m
      BY <1>1
    <3>2. y[i] = b[n + i].id
      BY <1>4, <1>5
    <3>3. QED
      BY <1>1, <1>2, <1>3, <3>1, <3>2
  <2>2. QED
    BY <2>1
<1>8. more = t + n + 1 .. t + n + (m - n)
  <2>1. DOMAIN y = 1 .. m - n
    BY <1>4, <1>5, LenProperties
  <2>2. ASSUME NEW z \in t + n + 1 .. t + n + (m - n) PROVE z \in more
    <3>1. z - t - n \in 1 .. m - n
      BY <1>1, <1>2
    <3>2. y[z - t - n] = z
      BY <1>1, <1>2, <1>7, <3>1
    <3>3. QED
      BY <2>1, <3>1, <3>2 DEF ToSet
  <2>3. ASSUME NEW z \in more PROVE z \in t + n + 1 .. t + n + (m - n)
    <3>1. PICK i \in 1 .. m - n : z = y[i]
      BY <2>1, <2>3 DEF ToSet
    <3>2. QED
      BY <1>1, <1>2, <1>7, <3>1
  <2>4. QED
    BY <2>2, <2>3
<1> HIDE DEF more
<1>9. Disposed(accepted \o x, lost \cup more, t + n + (m - n))
  <2>1. Disposed(accepted, lost, t)
    BY DEF FifoInv, t
  <2>2. n = Len(x) /\ m - n \in Nat
    BY <1>1, <1>4, <1>5
  <2>3. QED
    BY <1>5, <1>6, <1>8, <2>1, <2>2, DisposeMore
<1>10. given' - Held' = t + n + (m - n)
  <2>1. Held' = 0 + 0
    BY <1>1 DEF Held
  <2>2. given' = given
    OBVIOUS
  <2>3. QED
    BY <1>1, <1>2, <2>1, <2>2
<1>11. Disposed(accepted', lost', given' - Held')
  BY <1>9, <1>10 DEF x, y, s, r, more, b, m
<1>12. DOMAIN buffered' = {} /\ DOMAIN burst' = {} /\ buffered' = <<>> /\ burst' = <<>>
  BY <1>1
<1>13. QED
  BY <1>11, <1>12 DEF FifoInv

LEMMA ComposeInOrder ==
  ASSUME PoolInv, FifoInv, AccountInv, CoverInv, ComposeBurst
  PROVE  FifoInv'
<1> DEFINE b == burst  m == Len(b)  x == Ids(b)
<1>1. /\ burst # <<>> /\ Compose /\ caller = "compose" /\ queue' = queue
      /\ accepted' = accepted \o Ids(burst) /\ lost' = lost /\ burst' = <<>>
      /\ UNCHANGED <<buffered, given, caller>>
  BY DEF ComposeBurst, Compose, poolVars, shapedVars
<1>2. /\ b \in Seq(Packets) /\ config.cell \in Nat /\ PadderSound(padder) /\ CountTypes
      /\ ingested \in Seq(Nat) /\ Ring(lens, ingested) /\ queue = <<>>
  BY <1>1, ConfigCell DEF PoolInv, CoverInv, AccountInv, FifoInv
<1>3. \E frames \in Seq(Frames(padder')) :
        /\ Emit(frames)
        /\ OfKind(frames, TRUE) = [i \in DOMAIN burst |-> PadRealPacket(burst[i])]
  BY <1>1, <1>2, ComposeEmits
<1> DEFINE p == padder'  q == [i \in DOMAIN b |-> PadRealPacket(b[i])]
<1>4. PICK frames \in Seq(Frames(p)) : Emit(frames) /\ q = OfKind(frames, TRUE)
  BY <1>3
<1>5. q \in Seq(Frames(p)) /\ Len(q) = Len(b) /\ \A i \in 1 .. Len(q) : q[i].id = b[i].id
  BY <1>2, RealsPadded
<1> HIDE DEF p, q
<1>6. sent' = sent \o Ids(q)
  BY <1>2, <1>4, EmitCounts DEF Ids
<1>7. Ids(q) = x
  <2> DEFINE y == Ids(q)
  <2>1. y \in Seq(Nat) /\ Len(y) = Len(q) /\ \A i \in 1 .. Len(q) : y[i] = q[i].id
    <3> DEFINE F == Frames(p)
    <3>1. q \in Seq(F) /\ \A f \in F : f.id \in Nat
      BY <1>5, FrameTypes
    <3> HIDE DEF F
    <3>2. QED
      BY <3>1, IdsAre
  <2>2. x \in Seq(Nat) /\ Len(x) = Len(b) /\ \A i \in 1 .. Len(b) : x[i] = b[i].id
    <3>1. \A f \in Packets : f.id \in Nat
      BY DEF Packets
    <3>2. QED
      BY <1>2, <3>1, IdsAre
  <2> HIDE DEF x, y
  <2>3. QED
    BY <1>5, <2>1, <2>2, SeqEqual DEF y
<1>8. sent \in Seq(Nat) /\ sent = accepted
  <2>1. sent \in Seq(Nat) /\ sent \o Ids(queue) = accepted
    BY <1>2 DEF CountTypes, FifoInv
  <2>2. sent \o <<>> = accepted
    BY <1>2, <2>1, IdsOfNone
  <2>3. QED
    BY <2>1, <2>2, ConcatEmptySeq
<1>9. sent' \o Ids(queue') = accepted'
  <2>1. x \in Seq(Nat)
    <3>1. \A f \in Packets : f.id \in Nat
      BY DEF Packets
    <3>2. QED
      BY <1>2, <3>1, IdsAre
  <2>2. sent' = sent \o x /\ accepted' = sent \o x
    BY <1>1, <1>6, <1>7, <1>8
  <2>3. sent' \in Seq(Nat)
    BY <1>8, <2>1, <2>2, ConcatProperties
  <2>4. Ids(queue') = <<>>
    BY <1>1, <1>2, IdsOfNone
  <2>5. QED
    BY <2>2, <2>3, <2>4, ConcatEmptySeq
<1>10. m \in Nat /\ SubSeq(b, 1, m) = b /\ SubSeq(b, m + 1, m) = <<>>
  <2>1. m \in Nat /\ SubSeq(b, 1, m) = b
    BY <1>2, LenProperties, SubSeqFull
  <2> HIDE DEF m
  <2>2. QED
    BY <2>1, SubSeqEmpty
<1>11. /\ accepted' = accepted \o Ids(SubSeq(burst, 1, m))
       /\ lost' = lost \cup ToSet(Ids(SubSeq(burst, m + 1, Len(burst))))
  BY <1>1, <1>10, IdsOfNone
<1>12. m \in Nat /\ m <= Len(burst) /\ queue' = <<>>
  BY <1>1, <1>2, <1>10
<1> HIDE DEF m, b
<1>13. QED
  BY <1>1, <1>9, <1>11, <1>12, BurstTaken

\* What is queued is what was accepted, after what was queued before.
LEMMA Enqueued ==
  ASSUME PoolInv, ClockInv, AccountInv, FifoInv, config.cell # 0,
         NEW packets \in Seq(Packets), Enqueue(packets)
  PROVE  sent \o Ids(queue') = accepted' /\ accepted' = accepted \o Ids(packets)
<1> DEFINE q == [i \in DOMAIN packets |-> PadRealPacket(packets[i])]
<1>1. q \in Cells /\ queue' = queue \o q /\ accepted' = accepted \o Ids(packets)
  BY Padded DEF Enqueue
<1>2. queue \in Seq(Cell) /\ q \in Seq(Cell) /\ \A c \in Cell : c.id \in Nat
  BY <1>1 DEF ClockInv, Cells, Cell
<1>3. Ids(q) = Ids(packets)
  <2>1. \A i \in DOMAIN packets : PadRealPacket(packets[i]).id = packets[i].id
    BY DEF PadRealPacket
  <2>2. QED
    BY <2>1 DEF Ids
<1> HIDE DEF q
<1>4. Ids(queue') = Ids(queue) \o Ids(q)
  BY <1>1, <1>2, IdsConcat
<1>5. sent \in Seq(Nat) /\ Ids(queue) \in Seq(Nat) /\ Ids(q) \in Seq(Nat)
  BY <1>2, IdsAre DEF AccountInv, CountTypes
<1>6. sent \o (Ids(queue) \o Ids(q)) = (sent \o Ids(queue)) \o Ids(q)
  <2> DEFINE a == Ids(queue)  c == Ids(q)
  <2>1. a \in Seq(Nat) /\ c \in Seq(Nat) /\ sent \in Seq(Nat)
    BY <1>5
  <2> HIDE DEF a, c
  <2>2. (sent \o a) \o c = sent \o (a \o c)
    BY <2>1, ConcatAssociative, SMTT(30)
  <2>3. QED
    BY <2>2 DEF a, c
<1>7. QED
  BY <1>1, <1>3, <1>4, <1>6 DEF FifoInv

LEMMA InjectBurstInOrder ==
  ASSUME PoolInv, ClockInv, AccountInv, FifoInv, InjectBurst
  PROVE  FifoInv'
<1> DEFINE n == Min({Len(burst), Room})  s == SubSeq(burst, 1, n)
<1>1. /\ caller = "inject_burst" /\ burst # <<>> /\ burst' = <<>> /\ Enqueue(s)
      /\ lost' = lost \cup ToSet(Ids(SubSeq(burst, n + 1, Len(burst))))
      /\ UNCHANGED <<sent, buffered, given, caller>>
  BY DEF InjectBurst, poolVars
<1>2. burst \in Seq(Packets) /\ Len(burst) \in Nat
  BY LenProperties DEF PoolInv
<1>3. Room \in Nat
  <2>1. Len(queue) \in Nat /\ Len(queue) <= QueueDepth
    BY LenProperties DEF ClockInv
  <2>2. QED
    BY <2>1, Constants DEF Room
<1>4. n \in Nat /\ n <= Len(burst)
  <2>1. n = IF Len(burst) <= Room THEN Len(burst) ELSE Room
    BY <1>2, <1>3, MinOfTwo
  <2>2. QED
    BY <1>2, <1>3, <2>1
<1> HIDE DEF n
<1>5. s \in Seq(Packets)
  BY <1>2, <1>4, PartIs
<1>6. config.cell # 0
  BY <1>1 DEF ClockInv, Shaped
<1>7. sent \o Ids(queue') = accepted' /\ accepted' = accepted \o Ids(s)
  <2> HIDE DEF s
  <2>1. QED
    BY <1>1, <1>5, <1>6, Enqueued
<1>8. sent' \o Ids(queue') = accepted' /\ accepted' = accepted \o Ids(SubSeq(burst, 1, n))
  BY <1>1, <1>7
<1>9. caller # "compose"
  BY <1>1
<1>10. QED
  BY <1>1, <1>4, <1>8, <1>9, BurstTaken

LEMMA InjectRealInOrder ==
  ASSUME PoolInv, ClockInv, AccountInv, FifoInv, NEW len \in Lens, InjectReal(len)
  PROVE  FifoInv'
<1> DEFINE s == <<Packet(len)>>  x == Ids(s)
<1>1. /\ caller = "inject_real" /\ given' = given + 1
      /\ \/ Enqueue(s) /\ lost' = lost
         \/ lost' = lost \cup {given + 1} /\ UNCHANGED <<queue, accepted>>
      /\ UNCHANGED <<sent, buffered, burst, caller>>
  BY DEF InjectReal, composerVars, poolVars
<1>2. given \in Nat /\ buffered = <<>> /\ burst = <<>> /\ Held = 0 /\ Held' = 0
  <2>1. given \in Nat /\ buffered = <<>> /\ burst = <<>>
    BY <1>1 DEF PoolInv, FifoInv
  <2>2. buffered' = <<>> /\ burst' = <<>>
    BY <1>1, <2>1
  <2>3. QED
    BY <2>1, <2>2 DEF Held
<1>3. Disposed(accepted, lost, given)
  <2>1. given - Held = given
    BY <1>2
  <2>2. QED
    BY <2>1 DEF FifoInv
<1>4. accepted \in Seq(Nat)
  BY <1>3 DEF Disposed
<1>5. Disposed(accepted', lost', given + 1) /\ sent' \o Ids(queue') = accepted'
  <2>1. CASE Enqueue(s) /\ lost' = lost
    <3>1. s \in Seq(Packets) /\ x = <<given + 1>>
      <4>1. now \in Nat /\ given + 1 \in Nat \ {0} /\ len \in Nat \ {0}
        BY <1>2, Constants DEF PoolInv
      <4>2. Packet(len) \in Packets /\ Packet(len).id = given + 1
        BY <4>1 DEF Packet, Packets
      <4>3. QED
        BY <4>2 DEF Ids
    <3> HIDE DEF s, x
    <3>2. config.cell # 0
      BY <1>1 DEF ClockInv, Shaped
    <3>3. sent \o Ids(queue') = accepted' /\ accepted' = accepted \o x
      BY <2>1, <3>1, <3>2, Enqueued DEF x
    <3>4. x \in Seq(Nat) /\ Len(x) = 1 /\ x[1] = given + 1
      BY <1>2, <3>1
    <3>5. \A i \in 1 .. 1 : x[i] = given + i
      BY <3>4
    <3> DEFINE more == given + 1 + 1 .. given + 1 + 0  k == 0  n == 1
    <3>6. more = {} /\ k \in Nat /\ n = Len(x)
      BY <1>2, <3>4
    <3>7. Disposed(accepted \o x, lost \cup more, given + n + k)
      <4>1. more = given + n + 1 .. given + n + k
        OBVIOUS
      <4>2. \A i \in 1 .. n : x[i] = given + i
        BY <3>5
      <4> HIDE DEF more, k, n
      <4>3. QED
        BY <1>3, <3>4, <3>6, <4>1, <4>2, DisposeMore
    <3>8. lost \cup more = lost'
      BY <2>1, <3>6
    <3> HIDE DEF more
    <3>9. given + n + k = given + 1
      BY <1>2
    <3>10. QED
      BY <1>1, <3>3, <3>7, <3>8, <3>9
  <2>2. CASE lost' = lost \cup {given + 1} /\ UNCHANGED <<queue, accepted>>
    <3> DEFINE e == <<>>  n == 0  k == 1  more == {given + 1}
    <3>1. e \in Seq(Nat) /\ n = Len(e) /\ k \in Nat /\ (\A i \in 1 .. n : e[i] = given + i)
      OBVIOUS
    <3>2. more = given + n + 1 .. given + n + k /\ given + n + k = given + 1
      BY <1>2
    <3>3. accepted \o e = accepted
      BY <1>4, ConcatEmptySeq
    <3>4. lost' = lost \cup more
      BY <2>2
    <3> HIDE DEF e, n, k, more
    <3>5. Disposed(accepted \o e, lost \cup more, given + n + k)
      BY <1>3, <3>1, <3>2, DisposeMore
    <3>6. Disposed(accepted', lost', given + 1)
      BY <2>2, <3>2, <3>3, <3>4, <3>5
    <3>7. QED
      BY <1>1, <2>2, <3>6 DEF FifoInv
  <2>3. QED
    BY <1>1, <2>1, <2>2
<1>6. given' - Held' = given + 1
  BY <1>1, <1>2
<1>7. DOMAIN buffered' = {} /\ DOMAIN burst' = {} /\ buffered' = <<>> /\ burst' = <<>>
  BY <1>1, <1>2
<1>8. caller' # "compose"
  BY <1>1
<1>9. QED
  BY <1>5, <1>6, <1>7, <1>8 DEF FifoInv

LEMMA TickInOrder ==
  ASSUME PoolInv, ClockInv, AccountInv, FifoInv, NEW iat \in Iats, NEW f \in BOOLEAN, Tick(iat, f)
  PROVE  FifoInv'
<1>1. Shaped /\ UNCHANGED <<buffered, burst, given, caller, accepted, lost>>
  BY DEF Tick, poolVars, callVars
<1>2. /\ config.cell \in Nat /\ CountTypes /\ sent \in Seq(Nat) /\ queue \in Seq(Cell)
      /\ \A c \in Cell : c.id \in Nat
  BY ConfigCell DEF AccountInv, CountTypes, ClockInv, Cells, Cell
<1>3. PICK frames \in Seq(Frames(padder)) :
        /\ Emit(frames)
        /\ \/ /\ queue # <<>> /\ queue' = Tail(queue)
              /\ OfKind(frames, TRUE) = <<[id |-> Head(queue).id, len |-> config.cell]>>
           \/ queue' = queue /\ OfKind(frames, TRUE) = <<>>
  BY TickEmits
<1> DEFINE q == OfKind(frames, TRUE)
<1>4. q = OfKind(frames, TRUE)
  OBVIOUS
<1> HIDE DEF q
<1>5. sent' = sent \o Ids(q)
  BY <1>2, <1>3, <1>4, EmitCounts DEF Ids
<1>6. sent' \o Ids(queue') = sent \o Ids(queue)
  <2>1. CASE queue # <<>> /\ queue' = Tail(queue) /\ q = <<[id |-> Head(queue).id, len |-> config.cell]>>
    <3> DEFINE h == Head(queue)  r == Tail(queue)
    <3>1. h \in Cell /\ r \in Seq(Cell) /\ queue = <<h>> \o r
      <4>1. h \in Cell /\ r \in Seq(Cell)
        BY <1>2, <2>1, HeadTailProperties
      <4>2. queue = <<h>> \o r
        BY <1>2, <2>1
      <4>3. QED
        BY <4>1, <4>2
    <3>2. Ids(q) = <<h.id>> /\ Ids(<<h>>) = <<h.id>>
      BY <2>1 DEF Ids
    <3>3. <<h>> \in Seq(Cell) /\ queue' = r
      BY <2>1, <3>1
    <3> HIDE DEF h, r
    <3>4. Ids(queue) = Ids(<<h>>) \o Ids(r)
      <4> DEFINE g == <<h>>
      <4>1. g \in Seq(Cell) /\ queue = g \o r
        BY <3>1, <3>3
      <4> HIDE DEF g
      <4>2. Ids(g \o r) = Ids(g) \o Ids(r)
        BY <1>2, <3>1, <4>1, IdsConcat
      <4>3. QED
        BY <4>1, <4>2 DEF g
    <3>5. Ids(<<h>>) \in Seq(Nat) /\ Ids(r) \in Seq(Nat)
      BY <1>2, <3>1, <3>3, IdsAre
    <3>6. (sent \o Ids(<<h>>)) \o Ids(r) = sent \o (Ids(<<h>>) \o Ids(r))
      <4> DEFINE a == Ids(<<h>>)  c == Ids(r)
      <4>1. a \in Seq(Nat) /\ c \in Seq(Nat) /\ sent \in Seq(Nat)
        BY <1>2, <3>5
      <4> HIDE DEF a, c
      <4>2. (sent \o a) \o c = sent \o (a \o c)
        BY <4>1, ConcatAssociative, SMTT(30)
      <4>3. QED
        BY <4>2 DEF a, c
    <3>7. QED
      BY <1>5, <3>2, <3>3, <3>4, <3>6
  <2>2. CASE queue' = queue /\ q = <<>>
    <3>1. sent' = sent
      BY <1>2, <1>5, <2>2, IdsOfNone, ConcatEmptySeq
    <3>2. QED
      BY <2>2, <3>1
  <2>3. QED
    BY <1>3, <1>4, <2>1, <2>2
<1>7. caller # "compose"
  BY <1>1 DEF Shaped
<1>8. Held' = Held
  BY <1>1 DEF Held
<1>9. QED
  BY <1>1, <1>6, <1>7, <1>8 DEF FifoInv

LEMMA FifoStep ==
  ASSUME PoolInv, ClockInv, AccountInv, CoverInv, FifoInv, [SessionNext]_sessionVars
  PROVE  FifoInv'
<1>1. CASE \E len \in Lens : GivePool(len)
  BY <1>1, GivePoolInOrder
<1>2. CASE PoolDue
  BY <1>2, PoolDueInOrder
<1>3. CASE ComposeBurst
  BY <1>3, ComposeInOrder
<1>4. CASE KeepaliveDue
  <2>1. sent' = sent
    BY <1>4, KeepaliveAccounts
  <2>2. UNCHANGED <<buffered, burst, given, caller, accepted, lost, queue>>
    BY <1>4 DEF KeepaliveDue, poolVars, shapedVars, callVars
  <2>3. QED
    BY <2>1, <2>2, FifoStands
<1>5. CASE InjectBurst
  BY <1>5, InjectBurstInOrder
<1>6. CASE \E len \in Lens : InjectReal(len)
  BY <1>6, InjectRealInOrder
<1>7. CASE \E iat \in Iats, f \in BOOLEAN : Tick(iat, f)
  BY <1>7, TickInOrder
<1>8. CASE Passes \/ UNCHANGED engineVars
  <2>1. UNCHANGED <<buffered, burst, given, caller, accepted, lost, sent, queue>>
    BY <1>8 DEF Passes, engineVars, poolVars, shapedVars, callVars, composerVars
  <2>2. QED
    BY <2>1, FifoStands
<1>9. QED
  BY <1>1, <1>2, <1>3, <1>4, <1>5, <1>6, <1>7, <1>8, EngineSteps DEF EngineNext

\* The ids of packets that follow the first t.
LEMMA IdsFrom ==
  ASSUME NEW b \in Seq(Packets), NEW t \in Nat, \A i \in 1 .. Len(b) : b[i].id = t + i
  PROVE  ToSet(Ids(b)) = t + 1 .. t + Len(b)
<1> DEFINE n == Len(b)  x == Ids(b)
<1>1. x \in Seq(Nat) /\ Len(x) = n /\ \A i \in 1 .. n : x[i] = b[i].id
  <2>1. \A f \in Packets : f.id \in Nat
    BY DEF Packets
  <2>2. QED
    BY <2>1, IdsAre
<1>2. n \in Nat /\ DOMAIN x = 1 .. n
  BY <1>1, LenProperties
<1>3. \A i \in 1 .. n : x[i] = t + i
  BY <1>1
<1> HIDE DEF n, x
<1>4. ASSUME NEW z \in t + 1 .. t + n PROVE z \in ToSet(x)
  <2>1. z - t \in 1 .. n
    BY <1>2
  <2>2. x[z - t] = z
    BY <1>3, <2>1
  <2>3. QED
    BY <1>2, <2>1, <2>2 DEF ToSet
<1>5. ASSUME NEW z \in ToSet(x) PROVE z \in t + 1 .. t + n
  <2>1. PICK i \in 1 .. n : z = x[i]
    BY <1>2, <1>5 DEF ToSet
  <2>2. QED
    BY <1>2, <1>3, <2>1
<1>6. QED
  BY <1>4, <1>5 DEF n, x

-----------------------------------------------------------------------------
(* The theorems.                                                           *)

LEMMA SessionStarts == SessionInit => SessionInv
<1> SUFFICES ASSUME SessionInit PROVE SessionInv
  OBVIOUS
<1>1. PoolInv
  <2>1. /\ now = 0 /\ given = 0 /\ config \in Configs /\ thr \in CycleThresholds
        /\ buffered = <<>> /\ burst = <<>> /\ deadline = NoDeadline
    BY DEF SessionInit, PoolInit, CompositionInit
  <2>2. buffered \in Seq(Packets) /\ burst \in Seq(Packets) /\ Len(buffered) = 0
    BY <2>1
  <2>3. PoolDrained
    BY <2>1, <2>2, ThresholdTypes DEF PoolDrained
  <2>4. QED
    BY <2>1, <2>2, <2>3 DEF PoolInv
<1>2. TimingInv
  <2>1. tRegime \in TimingRegimes /\ tCount = [bytes |-> 0, packets |-> 0]
    BY DEF SessionInit, SchedulerInit
  <2>2. QED
    BY <2>1, TimingThresholds DEF TimingInv, TimingRegimeFresh
<1>3. RatioInv
  <2>1. regime \in RatioRegimes /\ rCount = NoCount
    BY DEF SessionInit, CompositionInit
  <2>2. QED
    BY <2>1, RatioThresholds DEF RatioInv, RatioRegimeFresh, NoCount
<1>4. ClockInv
  <2>1. queue = <<>> /\ slots = 0 /\ draws = 1 /\ (Shaped => config.cell # 0)
    BY DEF SessionInit, FirstSlot, Shaped
  <2>2. queue \in Cells /\ Len(queue) <= QueueDepth
    BY <2>1, Constants DEF Cells
  <2>3. draws = 1 + slots * DrawsPerSlot
    <3>1. DrawsPerSlot \in {1, 2}
      BY DEF DrawsPerSlot
    <3>2. QED
      BY <2>1, <3>1
  <2>4. QED
    BY <2>1, <2>2, <2>3 DEF ClockInv, ClockIgnoresContent
<1>5. GapInv
  <2>1. PICK d \in KeepaliveDelays : due = now + d
    BY DEF SessionInit, CompositionInit
  <2>2. now = 0 /\ lastAt = now
    BY DEF SessionInit, PoolInit, CompositionInit
  <2>3. QED
    BY <2>1, <2>2, DelayInGap, Constants DEF GapInv
<1>6. SeedsInv
  BY DEF SessionInit, SeedsInit, FreshPairs, SeedsInv
<1>7. FifoInv
  <2>1. /\ buffered = <<>> /\ burst = <<>> /\ queue = <<>> /\ sent = <<>>
        /\ given = 0 /\ accepted = <<>> /\ lost = {}
    BY DEF SessionInit, PoolInit, CompositionInit, FirstSlot
  <2>2. Held = 0
    BY <2>1 DEF Held
  <2>3. Disposed(<<>>, {}, 0)
    BY DEF Disposed, ToSet
  <2>4. sent \o Ids(queue) = accepted
    <3>1. <<>> \o <<>> = <<>>
      OBVIOUS
    <3>2. QED
      BY <2>1, <3>1, IdsOfNone
  <2>5. Disposed(accepted, lost, given - Held)
    <3>1. given - Held = 0
      BY <2>1, <2>2
    <3>2. QED
      BY <2>1, <2>3, <3>1
  <2>6. QED
    BY <2>1, <2>4, <2>5 DEF FifoInv
<1>8. AccountInv
  <2>1. /\ tester = NewTester /\ acct = NewAccountant /\ sent = <<>>
        /\ bounder = 0 /\ dummyBytes = 0 /\ realOut = 0 /\ windows = 0
    BY DEF SessionInit, CompositionInit
  <2>2. tester \in [real : Nat, dummy : Nat] /\ tester.real = 0 /\ tester.dummy = 0
    BY <2>1 DEF NewTester
  <2>3. CountTypes
    BY <2>1, <2>2 DEF CountTypes
  <2>4. Len(sent) = 0 /\ 0 * config.cell = 0 /\ 0 * Epsilon = 0
    <3>1. config \in Configs /\ Epsilon \in Nat
      BY CompositionAssumption DEF DpValid, SessionInit, CompositionInit
    <3>2. config.cell \in Nat
      BY <3>1, Constants
    <3>3. QED
      BY <2>1, <3>1, <3>2
  <2>5. TesterSeesAll
    BY <2>1, <2>2, <2>4 DEF TesterSeesAll
  <2>6. EpsilonCharged
    BY <2>1, <2>4 DEF EpsilonCharged, NewAccountant
  <2>7. QED
    BY <2>1, <2>3, <2>5, <2>6 DEF AccountInv
<1>9. CoverInv
  <2>1. /\ padder = NewPadder /\ ingested = <<>> /\ sizes = {}
        /\ lens = [pool |-> <<>>, pos |-> 0]
    BY DEF SessionInit, CompositionInit
  <2>2. Ring(lens, ingested)
    <3>1. lens \in LengthPools /\ lens.pool = <<>> /\ lens.pos = 0
      BY <2>1, PoolCapPositive DEF LengthPools
    <3>2. Len(ingested) = 0 /\ ~(0 >= PoolCap)
      BY <2>1, PoolCapPositive
    <3>3. QED
      BY <2>1, <3>1, <3>2 DEF Ring
  <2>3. ingested \in Seq(Nat)
    BY <2>1
  <2>4. QED
    BY <2>1, <2>2, <2>3, NewPadderSound DEF CoverInv, Conforming
<1>10. QED
  BY <1>1, <1>2, <1>3, <1>4, <1>5, <1>6, <1>7, <1>8, <1>9 DEF SessionInv

\* The traffic engine's inductive invariant: what its parts assume of each other
\* across calls (src/clumping.rs, src/timing.rs, src/composition.rs, src/seeds.rs,
\* src/timing_correlator.rs) holds in every session.
THEOREM SessionInvariant == SessionSpec => []SessionInv
<1>1. SessionInit => SessionInv
  BY SessionStarts
<1>2. SessionInv /\ [SessionNext]_sessionVars => SessionInv'
  BY PoolStep, RegimesStep, ClockStep, GapStep, SeedsStep, CountsStep, FifoStep DEF SessionInv
<1>3. QED
  BY <1>1, <1>2, PTL DEF SessionSpec

\* SeedATimingScheduler::observe_burst and SeedBComposer::observe clear every counter of a
\* regime that gives way, whichever threshold it reached, and forget nothing of one that
\* lasts, whatever bursts are observed and whatever thresholds are drawn.
THEOREM RegimesClear == SessionSpec => RegimesStartFresh
<1>1. SessionInv /\ [SessionNext]_sessionVars => [RegimeChange]_sessionVars
  BY RegimeChanges DEF SessionInv
<1>2. QED
  BY <1>1, SessionInvariant, PTL DEF SessionSpec, RegimesStartFresh

\* However packets come and thresholds are drawn, flush_ready takes the whole pool, a
\* regime ends with the burst that reaches a threshold, in the scheduler's
\* observe_burst and in the composer's observe, and leaves nothing to the next; and
\* inject_real keeps the queue within max_queue_depth.
THEOREM ThresholdsHold == SessionSpec => ThresholdsObeyed
<1>1. SessionInv => CountsBelow
  BY DEF SessionInv, PoolInv, TimingInv, RatioInv, ClockInv, CountsBelow
<1>2. SessionInv /\ (CountsBelow)' /\ [SessionNext]_sessionVars => [CountsBelow' /\ RegimeChange]_sessionVars
  BY RegimeChanges DEF SessionInv
<1>3. QED
  BY <1>1, <1>2, SessionInvariant, PTL DEF SessionSpec, ThresholdsObeyed

\* ClumpingPool::tick called at its deadline bounds the wait of every packet by the
\* largest timeout, and compose and compose_keepalive, called when due, keep the gap
\* between bursts within max_idle_gap_ms.
THEOREM DelaysHold == SessionSpec => []DelaysBounded
<1>1. SessionInv => DelaysBounded
  <2> SUFFICES ASSUME SessionInv PROVE DelaysBounded
    OBVIOUS
  <2>1. ASSUME NEW i \in DOMAIN buffered PROVE now - buffered[i].at <= MaxTimeout
    <3>1. /\ buffered \in Seq(Packets) /\ now \in Nat /\ thr \in CycleThresholds
      BY DEF SessionInv, PoolInv
    <3>2. i \in 1 .. Len(buffered) /\ 1 \in 1 .. Len(buffered) /\ buffered # <<>>
      BY <3>1, LenProperties
    <3>3. buffered[i] \in Packets /\ buffered[1] \in Packets
      BY <3>1, <3>2, ElementOfSeq
    <3>4. buffered[i].at \in Nat /\ buffered[1].at \in Nat
      BY <3>3 DEF Packets
    <3>5. /\ deadline = buffered[1].at + thr.timeout /\ now <= deadline
          /\ buffered[1].at <= buffered[i].at
      BY <3>2 DEF SessionInv, PoolInv
    <3>6. thr.timeout \in Nat /\ thr.timeout <= MaxTimeout
      BY <3>1, ThresholdTypes
    <3>7. QED
      BY <3>1, <3>4, <3>5, <3>6, Constants
  <2>2. caller = "compose" => now - lastAt <= MaxIdleGap
    BY Constants DEF SessionInv, PoolInv, GapInv
  <2>3. QED
    BY <2>1, <2>2 DEF DelaysBounded, WaitBounded
<1>2. QED
  BY <1>1, SessionInvariant, PTL

\* TimingCorrelator::tick takes the same number of values from the clock's generator
\* in every slot, because pad_real_packet has filled a packet before it is queued and
\* pad_to_cell finds nothing to fill.
THEOREM ScheduleIgnoresContent == SessionSpec => []ClockIgnoresContent
<1>1. SessionInv => ClockIgnoresContent
  BY DEF SessionInv, ClockInv
<1>2. QED
  BY <1>1, SessionInvariant, PTL

\* SessionSeeds::rotate replaces the pair as a whole or not at all, whatever the
\* system's randomness returns and whenever it fails.
THEOREM SeedsRotateWhole == SessionSpec => RotationAtomic
<1>1. SessionInv /\ [SessionNext]_sessionVars => [SeedsAction]_seedVars
  BY SeedsStep DEF SessionInv
<1>2. QED
  BY <1>1, SessionInvariant, PTL DEF SessionSpec, RotationAtomic, SeedsAction

\* From ClumpingPool::push through flush_ready, compose or inject_real to the wire, real
\* packets keep their order and none is lost or doubled: what has been sent and what is
\* queued is what was accepted, and the rest is in the pool, in the burst or was given
\* back with QueueFull.
THEOREM OrderKept == SessionSpec => []FifoThroughout
<1>1. SessionInv => FifoThroughout
  <2> SUFFICES ASSUME SessionInv PROVE FifoThroughout
    OBVIOUS
  <2> DEFINE t == given - Held  A == ToSet(accepted)
             held == ToSet(Ids(buffered)) \cup ToSet(Ids(burst))
  <2>1. /\ given \in Nat /\ buffered \in Seq(Packets) /\ burst \in Seq(Packets)
        /\ buffered = <<>> \/ burst = <<>>
    BY DEF SessionInv, PoolInv, FifoInv
  <2>2. /\ Disposed(accepted, lost, t)
        /\ \A i \in DOMAIN buffered : buffered[i].id = t + i
        /\ \A i \in DOMAIN burst : burst[i].id = t + i
        /\ sent \o Ids(queue) = accepted
    BY DEF SessionInv, FifoInv
  <2>3. /\ t \in Nat /\ A \cup lost = 1 .. t /\ A \cap lost = {}
        /\ \A i, j \in DOMAIN accepted : i < j => accepted[i] < accepted[j]
    BY <2>2 DEF Disposed
  <2>4. /\ Len(buffered) \in Nat /\ DOMAIN buffered = 1 .. Len(buffered)
        /\ Len(burst) \in Nat /\ DOMAIN burst = 1 .. Len(burst) /\ Len(<<>>) = 0
    BY <2>1, LenProperties
  <2>5. t + Held = given /\ Held = Len(buffered) + Len(burst)
    BY <2>1, <2>4 DEF Held
  <2> HIDE DEF t
  <2>6. held = t + 1 .. given
    <3>1. CASE buffered = <<>>
      <4>1. ToSet(Ids(burst)) = t + 1 .. t + Len(burst)
        BY <2>1, <2>2, <2>3, <2>4, IdsFrom
      <4>2. Len(burst) = Held
        BY <2>4, <2>5, <3>1
      <4>3. held = ToSet(Ids(burst))
        BY <3>1, IdsOfNone
      <4>4. QED
        BY <2>5, <4>1, <4>2, <4>3
    <3>2. CASE burst = <<>>
      <4>1. ToSet(Ids(buffered)) = t + 1 .. t + Len(buffered)
        BY <2>1, <2>2, <2>3, <2>4, IdsFrom
      <4>2. Len(buffered) = Held
        BY <2>4, <2>5, <3>2
      <4>3. held = ToSet(Ids(buffered))
        BY <3>2, IdsOfNone
      <4>4. QED
        BY <2>5, <4>1, <4>2, <4>3
    <3>3. QED
      BY <2>1, <3>1, <3>2
  <2>7. t <= given
    BY <2>1, <2>3, <2>4, <2>5
  <2> HIDE DEF A, held
  <2>8. A \cup lost \cup held = 1 .. given
    <3>1. (1 .. t) \cup (t + 1 .. given) = 1 .. given
      BY <2>1, <2>3, <2>7
    <3>2. QED
      BY <2>3, <2>6, <3>1
  <2>9. A \cap (lost \cup held) = {} /\ lost \cap held = {}
    <3>1. (1 .. t) \cap (t + 1 .. given) = {}
      BY <2>1, <2>3
    <3>2. QED
      BY <2>3, <2>6, <3>1
  <2>10. QED
    BY <2>2, <2>3, <2>8, <2>9 DEF FifoThroughout, A, held
<1>2. QED
  BY <1>1, SessionInvariant, PTL

\* With final_padding_bytes a session comes to its class volume or has passed it; the
\* tester has seen every frame that left; and every window shown to the DP shaper has been
\* charged for once, by compose and by an inject_burst that fails midway alike.
THEOREM BooksBalance == SessionSpec => []Accounted
<1>1. SessionInv => Accounted
  <2> SUFFICES ASSUME SessionInv PROVE Accounted
    OBVIOUS
  <2>1. /\ TesterSeesAll /\ EpsilonCharged /\ CountTypes /\ bounder \in Nat
        /\ config.bounded /\ config.cell = 0 => bounder = realOut
    BY DEF SessionInv, AccountInv
  <2>2. VolumeReached
    <3> SUFFICES ASSUME config.bounded, config.cell = 0
                 PROVE  realOut + dummyBytes + FinalPaddingBytes
                          = Max({ClassVolume, realOut + dummyBytes})
      BY DEF VolumeReached
    <3>1. /\ realOut \in Nat /\ dummyBytes \in Nat /\ ClassVolume \in Nat
          /\ bounder = realOut
      BY <2>1, CompositionAssumption DEF CountTypes, CompositionValid
    <3> DEFINE u == realOut + dummyBytes
    <3>2. Max({ClassVolume, u}) = IF ClassVolume >= u THEN ClassVolume ELSE u
      BY <3>1, MaxOfTwo
    <3>3. FinalPaddingBytes = IF ClassVolume >= u THEN ClassVolume - u ELSE 0
      BY <3>1 DEF FinalPaddingBytes, Monus
    <3> DEFINE f == FinalPaddingBytes  m == Max({ClassVolume, u})
    <3> HIDE DEF f, m
    <3>4. realOut + dummyBytes + f = m
      BY <3>1, <3>2, <3>3 DEF f, m
    <3>5. QED
      BY <3>4 DEF f, m
  <2>3. QED
    BY <2>1, <2>2 DEF Accounted
<1>2. QED
  BY <1>1, SessionInvariant, PTL

\* pad_real_packet and dummy_payload give every frame the cell size, or a dummy a
\* bucket's target, which build_buckets takes from all the lengths seen since the start,
\* so that only the dummies sent before the first rebuild (of length Jumbo) can have a
\* length no packet had; ingest_length keeps the latest LENGTH_POOL_CAP lengths; and the
\* clock's generator is used the same way in every slot.
THEOREM CoverIsBlind == SessionSpec => []CoverBlends
<1>1. SessionInv => CoverBlends
  <2> SUFFICES ASSUME SessionInv PROVE CoverBlends
    OBVIOUS
  <2>1. /\ PadderSound(padder) /\ ingested \in Seq(Nat) /\ Ring(lens, ingested)
        /\ Conforming(sizes, padder) /\ ClockIgnoresContent
    BY DEF SessionInv, CoverInv, ClockInv
  <2>2. UniformSizes
    BY <2>1 DEF UniformSizes, Conforming
  <2>3. DummyLooksReal
    BY <2>1, SoundCovers DEF DummyLooksReal, Conforming
  <2>4. RingIsRecent
    <3> DEFINE n == Min({Len(ingested), PoolCap})
               recent == SubSeq(ingested, Len(ingested) - n + 1, Len(ingested))
    <3>1. n = Min({Len(ingested), PoolCap})
      OBVIOUS
    <3>2. recent = SubSeq(ingested, Len(ingested) - n + 1, Len(ingested))
      OBVIOUS
    <3> HIDE DEF n, recent
    <3>3. HoldsLatest(lens, n, recent)
      BY <2>1, <3>1, <3>2, RingRecent
    <3>4. QED
      BY <3>3 DEF RingIsRecent, HoldsLatest, n, recent
  <2>5. QED
    BY <2>1, <2>2, <2>3, <2>4 DEF CoverBlends
<1>2. QED
  BY <1>1, SessionInvariant, PTL
=============================================================================
