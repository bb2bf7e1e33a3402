----------------------------- MODULE Composition ------------------------------
(***************************************************************************)
(* SeedBComposer of src/composition.rs, with the parts it owns: the ratio  *)
(* regime, the length pool and the padder, the DP shaper's windows charged *)
(* to the privacy accountant (src/dp_shaper.rs, src/privacy_accountant.rs),*)
(* the session bounder (src/session_bounder.rs), the keepalive deadline    *)
(* from the spectral generator (src/spectral.rs) and the self-tester's     *)
(* counters (src/self_test.rs).  Compose and ComposeKeepalive are the      *)
(* synchronous path.                                                       *)
(*                                                                         *)
(* A packet is [id, len, at]; a frame is [id, len], a dummy's id being 0.  *)
(* Random draws are any value of their range, and so is the Laplace noise, *)
(* clamped at zero.                                                        *)
(***************************************************************************)
EXTENDS Clumping, Padding

CONSTANTS
  Configs,        \* [cell: the cell size or 0 for None, dp, bounded : BOOLEAN]
  DummyRange,     \* DummyRange[kind]: dummy_count_range
  MaxDummy,       \* max_dummy_packets_per_burst
  SwitchBursts, SwitchBytes, SwitchPackets,   \* what a regime's thresholds are drawn from
  MaxIdleGap,     \* max_idle_gap_ms
  SpectralFloor,  \* floor_ms
  KeepaliveMin, KeepaliveMax,                 \* bytes
  PoolCap,        \* LENGTH_POOL_CAP
  Noise,          \* the dummy bytes a DP window may ask for
  Epsilon, Budget,
  ClassVolume, ClassDuration                  \* of the session class

\* CompositionConfig::validate, and that MaxDummy does not empty the regimes' ranges
\* (validate accepts a smaller one, and the first draw from an empty range panics).
CompositionValid ==
  /\ MaxDummy \in Nat \ {0}
  /\ \A k \in DOMAIN DummyRange : DummyRange[k][1] <= Min({DummyRange[k][2], MaxDummy})
  /\ SwitchBursts \cup SwitchBytes \cup SwitchPackets \subseteq Nat \ {0}
  /\ MaxIdleGap \in Nat \ {0} /\ PoolCap \in Nat \ {0}
  /\ KeepaliveMin \in Nat \ {0} /\ KeepaliveMax \in Nat /\ KeepaliveMin <= KeepaliveMax
  /\ ClassVolume \in Nat /\ ClassDuration \in Nat \ {0}

\* SpectralConfig::validate, for the floor and the ceiling with_config gives it.
SpectralValid == SpectralFloor \in Nat \ {0} /\ SpectralFloor < 2 * MaxIdleGap

\* DpShaperConfig::validate, and PrivacyAccountant::new.
DpValid == Epsilon \in Nat \ {0} /\ Budget > 0 /\ Noise \subseteq Nat

ASSUME CompositionAssumption == CompositionValid /\ SpectralValid /\ DpValid

VARIABLES
  config,
  regime, rCount,   \* the ratio regime; bursts, bytes and packets seen in it
  lens,             \* the length pool: a ring with its write position
  padder,
  acct,             \* the accountant: spent, exceeded
  bounder,          \* real bytes the session bounder has been told of
  dummyBytes,       \* dummy_bytes_emitted
  due,              \* next_keepalive_due
  lastAt,           \* last_burst_at
  tester,           \* frames of each kind the self-tester has seen
  sent,             \* history: ids of the real packets on the wire
  sizes,            \* history: lengths of frames on the wire, with their kind, and
                    \* whether the padder still had its first table
  realOut,          \* history: bytes of the real frames on the wire
  ingested,         \* history: lengths put into the length pool
  windows           \* history: bursts composed or injected

composerVars == <<config, regime, rCount, lens, padder, acct, bounder, dummyBytes, due,
                  lastAt, tester, sent, sizes, realOut, ingested, windows>>

RatioRegimes ==
  {[lo |-> DummyRange[k][1], hi |-> Min({DummyRange[k][2], MaxDummy}), spiky |-> k = "Spiky",
    bursts |-> b, bytes |-> y, packets |-> p] :
     k \in DOMAIN DummyRange, b \in SwitchBursts, y \in SwitchBytes, p \in SwitchPackets}

NoCount == [bursts |-> 0, bytes |-> 0, packets |-> 0]

\* Fault: the generator's own ceiling is taken for the bound.
KeepaliveDelays_Unclamped == SpectralFloor .. 2 * MaxIdleGap

\* next_delay_ms, clamped by reset_keepalive_deadline: the generator may return
\* anything between its floor and its ceiling.
KeepaliveDelays == {Max({1, Min({d, MaxIdleGap})}) : d \in SpectralFloor .. 2 * MaxIdleGap}

NewAccountant == [spent |-> 0, exceeded |-> FALSE]
NewTester == [real |-> 0, dummy |-> 0]

\* with_config, which sets the first keepalive deadline.
CompositionInit ==
  /\ config \in Configs
  /\ regime \in RatioRegimes /\ rCount = NoCount
  /\ lens = [pool |-> <<>>, pos |-> 0] /\ padder = NewPadder
  /\ acct = NewAccountant
  /\ bounder = 0 /\ dummyBytes = 0
  /\ due \in {now + d : d \in KeepaliveDelays} /\ lastAt = now
  /\ tester = NewTester
  /\ sent = <<>> /\ sizes = {} /\ realOut = 0 /\ ingested = <<>> /\ windows = 0

-----------------------------------------------------------------------------
(* The length pool, the dummy counts and the payloads.                      *)

\* Fault: the position is not moved on.
IngestLength_Stuck(l, len) ==
  IF Len(l.pool) < PoolCap
  THEN [l EXCEPT !.pool = Append(@, len)]
  ELSE [l EXCEPT !.pool[l.pos + 1] = len]

\* ingest_length.
IngestLength(l, len) ==
  IF Len(l.pool) < PoolCap
  THEN [l EXCEPT !.pool = Append(@, len)]
  ELSE [pool |-> [l.pool EXCEPT ![l.pos + 1] = len], pos |-> (l.pos + 1) % PoolCap]

SumSeq(s) == FoldLeft(LAMBDA a, b : a + b, 0, s)
Lengths(packets) == [i \in DOMAIN packets |-> packets[i].len]

\* Each length is ingested three times.
Tripled(lengths) == [i \in 1 .. 3 * Len(lengths) |-> lengths[(i + 2) \div 3]]

MeanLen == IF lens'.pool = <<>> THEN KeepaliveMin ELSE SumSeq(lens'.pool) \div Len(lens'.pool)

\* dummy_count_absolute: a spiky regime is mostly quiet.
DummyCountAbsolute ==
  {Min({n, MaxDummy}) : n \in (regime.lo .. regime.hi) \cup (IF regime.spiky THEN {0, 1} ELSE {})}

\* decide_window: the dummy bytes are the Laplace noise, or 0 if it is negative,
\* whatever the window's real bytes.
DecideWindow == Noise

\* dummy_count_for_burst: with the shaper, at least as many as make up the noise.
CountWithNoise(noise, n) == Min({Max({noise \div Max({MeanLen, 1}), n}), MaxDummy})
DummyCountForBurst ==
  IF config.dp
  THEN {CountWithNoise(noise, n) : noise \in DecideWindow, n \in DummyCountAbsolute}
  ELSE DummyCountAbsolute

\* record_query, the result of which is ignored.
RecordQuery ==
  acct' = IF config.dp
          THEN [spent |-> acct.spent + Epsilon,
                exceeded |-> acct.exceeded \/ acct.spent + Epsilon > Budget]
          ELSE acct

\* The burst is made known to the length pool, the padder and the accountant.
NoteBurst ==
  LET lengths == Lengths(burst) IN
  /\ lens' = FoldLeft(IngestLength, lens, Tripled(lengths))
  /\ ingested' = ingested \o Tripled(lengths)
  /\ RecordQuery
  /\ windows' = windows + 1

\* dummy_payload with a table: the cell size, or a bucket's.
DummySizes(table, pool) ==
  IF config.cell # 0 THEN {config.cell}
  ELSE {OptimalPadLength(l, table) :
          l \in IF pool = <<>> THEN KeepaliveMin .. KeepaliveMax ELSE ToSet(pool)}

\* The padder once n dummies have been made.
PadderAfter(p, n) == IF config.cell = 0 /\ n > 0 THEN Rebuilt(p) ELSE p

\* Fault: a real packet is sent as it is.
PadRealPacket_Bare(packet) == [id |-> packet.id, len |-> packet.len]

\* pad_real_packet: a frame of cell size, whether the packet is padded or cut.
PadRealPacket(packet) ==
  [id |-> packet.id, len |-> IF config.cell = 0 THEN packet.len ELSE config.cell]

Dummies(lengths) == [i \in DOMAIN lengths |-> [id |-> 0, len |-> lengths[i]]]

\* cut[i] dummies precede the i-th real packet.
Cuts(n, d) == {cut \in [1 .. n -> 0 .. d] : \A i, j \in 1 .. n : i <= j => cut[i] <= cut[j]}

\* Fault: the packets are placed from the back.
InterleavePreservingRealOrder_Backwards(reals, dummies, cut) ==
  LET n == Len(reals)
      From(i) == IF i = 1 THEN 1 ELSE cut[i - 1] + 1
  IN FlattenSeq([i \in 1 .. n |-> SubSeq(dummies, From(i), cut[i]) \o <<PadRealPacket(reals[n + 1 - i])>>])
       \o SubSeq(dummies, cut[n] + 1, Len(dummies))

\* interleave_preserving_real_order.
InterleavePreservingRealOrder(reals, dummies, cut) ==
  LET n == Len(reals)
      From(i) == IF i = 1 THEN 1 ELSE cut[i - 1] + 1
  IN FlattenSeq([i \in 1 .. n |-> SubSeq(dummies, From(i), cut[i]) \o <<PadRealPacket(reals[i])>>])
       \o SubSeq(dummies, cut[n] + 1, Len(dummies))

IsReal(f) == f.id # 0

\* The real frames, or the dummies, in order.
OfKind(frames, real) ==
  FoldLeft(LAMBDA s, f : IF IsReal(f) = real THEN Append(s, f) ELSE s, <<>>, frames)

\* Fault: dummies are not shown to the tester.
RecordFrames_RealOnly(frames) ==
  tester' = [tester EXCEPT !.real = @ + Len(OfKind(frames, TRUE))]

\* SelfTester::record_frame for each frame.
RecordFrames(frames) ==
  tester' = [real |-> tester.real + Len(OfKind(frames, TRUE)),
             dummy |-> tester.dummy + Len(OfKind(frames, FALSE))]

\* The frames leave, and are accounted for; padder' is the padder that sized them.
Emit(frames) ==
  LET reals == OfKind(frames, TRUE) IN
  /\ dummyBytes' = dummyBytes + SumSeq(Lengths(OfKind(frames, FALSE)))
  /\ RecordFrames(frames)
  /\ sent' = sent \o [i \in DOMAIN reals |-> reals[i].id]
  /\ sizes' = sizes \cup {[real |-> IsReal(frames[i]), len |-> frames[i].len,
                               early |-> padder'.built = 0] : i \in DOMAIN frames}
  /\ realOut' = realOut + SumSeq(Lengths(reals))

-----------------------------------------------------------------------------
(* Observing, keeping alive, composing.                                     *)

\* Fault: only the counter that reached its threshold is reset.
Observe_ResetsBursts(bytes, packets) ==
  LET c == [bursts |-> rCount.bursts + 1, bytes |-> rCount.bytes + bytes,
            packets |-> rCount.packets + packets] IN
  /\ bounder' = IF config.bounded THEN bounder + bytes ELSE bounder
  /\ IF c.bursts >= regime.bursts \/ c.bytes >= regime.bytes \/ c.packets >= regime.packets
     THEN regime' \in RatioRegimes /\ rCount' = [c EXCEPT !.bursts = 0]
     ELSE rCount' = c /\ UNCHANGED regime

\* Fault: the bounder is told of packets.
Observe_BoundsPackets(bytes, packets) ==
  LET c == [bursts |-> rCount.bursts + 1, bytes |-> rCount.bytes + bytes,
            packets |-> rCount.packets + packets] IN
  /\ bounder' = IF config.bounded THEN bounder + packets ELSE bounder
  /\ IF c.bursts >= regime.bursts \/ c.bytes >= regime.bytes \/ c.packets >= regime.packets
     THEN regime' \in RatioRegimes /\ rCount' = NoCount
     ELSE rCount' = c /\ UNCHANGED regime

\* observe.
Observe(bytes, packets) ==
  LET c == [bursts |-> rCount.bursts + 1, bytes |-> rCount.bytes + bytes,
            packets |-> rCount.packets + packets] IN
  /\ bounder' = IF config.bounded THEN bounder + bytes ELSE bounder
  /\ IF c.bursts >= regime.bursts \/ c.bytes >= regime.bytes \/ c.packets >= regime.packets
     THEN regime' \in RatioRegimes /\ rCount' = NoCount
     ELSE rCount' = c /\ UNCHANGED regime

\* reset_keepalive_deadline.
ResetKeepalive ==
  /\ due' \in {now + d : d \in KeepaliveDelays}
  /\ lastAt' = now

\* compose.
Compose ==
  /\ burst # <<>>
  /\ NoteBurst
  /\ LET seen == ObserveLengths(padder, Lengths(burst)) IN
     \E n \in DummyCountForBurst :
       /\ padder' = PadderAfter(seen, n)
       /\ \E cut \in Cuts(Len(burst), n), ls \in [1 .. n -> DummySizes(padder'.table, lens'.pool)] :
            Emit(InterleavePreservingRealOrder(burst, Dummies(ls), cut))
  /\ Observe(SumSeq(Lengths(burst)), Len(burst))
  /\ ResetKeepalive
  /\ burst' = <<>>
  /\ UNCHANGED config

Monus(a, b) == IF a > b THEN a - b ELSE 0

\* SessionBounder::dummy_bytes_needed_now, by the linear schedule.
DummyBytesNeededNow ==
  LET padding == Monus(ClassVolume, bounder)
      elapsed == Min({now, ClassDuration})
  IN Monus((2 * padding * elapsed + ClassDuration) \div (2 * ClassDuration), dummyBytes)

KeepaliveCount ==
  LET extra == IF config.bounded
               THEN DummyBytesNeededNow \div Max({(KeepaliveMin + KeepaliveMax) \div 2, 1})
               ELSE 0
  IN Min({1 + extra, MaxDummy})

\* compose_keepalive, called when needs_keepalive.
ComposeKeepalive ==
  /\ now >= due
  /\ padder' = PadderAfter(padder, KeepaliveCount)
  /\ \E ls \in [1 .. KeepaliveCount -> DummySizes(padder'.table, lens.pool)] : Emit(Dummies(ls))
  /\ ResetKeepalive
  /\ UNCHANGED <<config, regime, rCount, lens, acct, bounder, ingested, windows>>

\* SessionBounder::final_padding_bytes.
FinalPaddingBytes == Monus(Monus(ClassVolume, bounder), dummyBytes)

-----------------------------------------------------------------------------
(* Properties.                                                             *)

\* The ratio regime ends with the burst that reaches any of its three thresholds.
RatioRegimeFresh ==
  rCount.bursts < regime.bursts /\ rCount.bytes < regime.bytes /\ rCount.packets < regime.packets

\* The length pool holds exactly the most recent lengths (LENGTH_POOL_CAP of them).
RingIsRecent ==
  LET n == Min({Len(ingested), PoolCap})
      recent == SubSeq(ingested, Len(ingested) - n + 1, Len(ingested))
  IN lens.pool = [i \in 1 .. n |-> recent[((i - 1 - lens.pos) % n) + 1]]

\* With a cell size, every frame on the wire has it, whatever it carries and
\* whichever call made it.
UniformSizes == config.cell # 0 => \A s \in sizes : s.len = config.cell

\* Without one, a dummy has a length that a real packet of the session had, recent or
\* not, except that until the padder has built its first table every dummy has the
\* length Jumbo; and the table does what bucket padding promises.
DummyLooksReal ==
  /\ Covers(padder)
  /\ config.cell = 0 =>
       \A s \in sizes : s.real \/ IF s.early THEN s.len = Jumbo ELSE s.len \in ToSet(padder.seen)

\* With final_padding_bytes added, a session comes to exactly the volume of its
\* class, or has exceeded it already, if frames are as long as their packets.
VolumeReached ==
  config.bounded /\ config.cell = 0 =>
    realOut + dummyBytes + FinalPaddingBytes = Max({ClassVolume, realOut + dummyBytes})

\* The tester has seen every frame that left.
TesterSeesAll ==
  /\ tester.real = Len(sent)
  /\ config.cell # 0 => tester.dummy * config.cell = dummyBytes
=============================================================================
