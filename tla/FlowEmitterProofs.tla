--------------------------- MODULE FlowEmitterProofs ---------------------------
(***************************************************************************)
(* Proofs that every flow of FlowEmitter, for all capacities, intervals,   *)
(* policies and inputs, keeps the safety properties stated there.          *)
(***************************************************************************)
EXTENDS FlowEmitter, SequenceFolds

-----------------------------------------------------------------------------
(* The operators the flow is built from.                                   *)

\* An epoch boundary is an instant not before its argument, and strictly
\* after it when the period is not zero (EpochClock::next_boundary).
LEMMA BoundaryAfter ==
  ASSUME NEW t \in Nat
  PROVE  /\ NextBoundary(t) \in Nat
         /\ NextBoundary(t) >= t
         /\ Period # 0 => NextBoundary(t) > t
<1>1. Period \in Nat
  BY PolicyAssumption
<1>2. CASE Period = 0
  BY <1>2 DEF NextBoundary
<1>3. CASE Period # 0
  <2>1. t \div Period \in Nat /\ t = (t \div Period) * Period + (t % Period)
        /\ t % Period \in 0 .. Period - 1
    BY <1>1, <1>3
  <2>2. (t \div Period + 1) * Period = (t \div Period) * Period + Period
    BY <1>1, <2>1
  <2>3. (t \div Period) * Period \in Nat
    BY <1>1, <2>1
  <2>4. QED
    BY <1>1, <1>3, <2>1, <2>2, <2>3 DEF NextBoundary
<1>4. QED
  BY <1>2, <1>3

\* Later instants have later boundaries.
LEMMA BoundaryMonotone ==
  ASSUME NEW s \in Nat, NEW t \in Nat, s <= t
  PROVE  NextBoundary(s) <= NextBoundary(t)
<1>1. Period \in Nat
  BY PolicyAssumption
<1>2. CASE Period = 0
  BY <1>2 DEF NextBoundary
<1>3. CASE Period # 0
  <2>1. /\ s \div Period \in Nat /\ t \div Period \in Nat
        /\ s \div Period <= t \div Period
    BY <1>1, <1>3
  <2>2. QED
    BY <1>1, <1>3, <2>1 DEF NextBoundary
<1>4. QED
  BY <1>2, <1>3

\* Advancing the clock moves the schedule forward by at least one interval,
\* whether or not a backlog is dropped (TimingCorrelator::advance_clock).
LEMMA ClockAdvances ==
  ASSUME NEW next \in Nat, NEW iat \in Iats, NEW t \in Nat
  PROVE  /\ AdvanceClock(next, iat, t) \in Nat
         /\ AdvanceClock(next, iat, t) >= next + 1
         /\ RestartClock(iat, t) \in Nat
         /\ RestartClock(iat, t) >= t + 1
BY ClockAssumption DEF AdvanceClock, RestartClock

\* tail_targets returns instants and volumes; under Epoch the deadline is no
\* earlier than the boundary after now, and under Off and Epoch the backstop
\* leaves the whole grace period.
LEMMA TailTargetsBounds ==
  ASSUME NEW bytes \in Nat, NEW cells \in Nat, NEW th \in Thresholds,
         NEW start \in Nat, NEW t \in Nat
  PROVE  LET tl == TailTargets(bytes, cells, th, start, t)
         IN  /\ tl \in [deadline : Nat, vol : Nat]
             /\ Backstop(tl, t, Grace) \in Nat
             /\ Policy \in {"Off", "Epoch"} => Backstop(tl, t, Grace) >= t + Grace
             /\ Policy = "Epoch" => /\ tl.deadline >= NextBoundary(t)
                                    /\ Backstop(tl, t, Grace) >= tl.deadline
<1> DEFINE class == Classify(th, bytes)
           floor == start + TargetDuration[class]
           anchor == IF floor > t THEN floor ELSE t
           tl == TailTargets(bytes, cells, th, start, t)
<1>1. class \in SessionClass
  BY DEF Classify, SessionClass
<1>2. floor \in Nat /\ TargetCells[class] \in Nat
  BY <1>1, PolicyAssumption
<1>3. anchor \in Nat /\ anchor >= t
  BY <1>2
<1>4. /\ NextBoundary(anchor) \in Nat /\ NextBoundary(t) \in Nat
      /\ NextBoundary(t) <= NextBoundary(anchor) /\ t <= NextBoundary(t)
  BY <1>3, BoundaryAfter, BoundaryMonotone
<1>5. Grace \in Nat
  BY FlowAssumption
<1>6. CASE Policy = "Off"
  BY <1>5, <1>6 DEF TailTargets, Backstop
<1>7. CASE Policy = "Fixed"
  <2>1. RoundUpToQuantum(cells) \in Nat
    BY PolicyAssumption DEF RoundUpToQuantum
  <2>2. QED
    BY <1>5, <1>7, <2>1, PolicyAssumption DEF TailTargets, Backstop
<1>8. CASE Policy = "ByClass"
  BY <1>2, <1>5, <1>8 DEF TailTargets, Backstop
<1>9. CASE Policy = "Epoch"
  <2> HIDE DEF anchor
  <2>1. tl = [deadline |-> NextBoundary(anchor), vol |-> 0]
    BY <1>9 DEF TailTargets, anchor
  <2> HIDE DEF tl
  <2>2. QED
    BY <1>4, <1>5, <1>9, <2>1 DEF Backstop, tl
<1>10. QED
  BY <1>6, <1>7, <1>8, <1>9, PolicyAssumption DEF Policies

\* Cutting a number of bytes into whole frames.
LEMMA WholeFrames ==
  ASSUME NEW b \in Nat, NEW n \in Nat, b <= FrameLen * n
  PROVE  /\ b \div FrameLen \in Nat
         /\ b \div FrameLen <= n
         /\ (b \div FrameLen) * FrameLen \in Nat
         /\ b = FrameLen * n => b \div FrameLen = n
<1>1. FrameLen \in Nat \ {0}
  BY FlowAssumption
<1>2. /\ b \div FrameLen \in Nat
      /\ b = (b \div FrameLen) * FrameLen + (b % FrameLen)
      /\ b % FrameLen \in 0 .. FrameLen - 1
  BY <1>1
<1>3. b \div FrameLen <= n
  BY <1>1, <1>2
<1>4. b = FrameLen * n => b \div FrameLen = n
  BY <1>1, <1>2
<1>5. (b \div FrameLen) * FrameLen \in Nat
  BY <1>1, <1>2
<1>6. QED
  BY <1>2, <1>3, <1>4, <1>5

-----------------------------------------------------------------------------
(* The inductive invariant.                                                *)

\* A flow as it is registered satisfies the invariant.
LEMMA InitInv == Init => IInv
<1> SUFFICES ASSUME Init PROVE IInv
  OBVIOUS
<1> USE DEF Init
<1>1. now \in Nat /\ nextDeparture \in Nat /\ thresholds \in Thresholds
  BY FlowAssumption, ClockAdvances
<1>2. /\ input \in Seq(Nat) /\ flight \in Seq(Nat) /\ channel \in Seq(Nat \ {0})
      /\ queue \in Seq(Nat \ {0}) /\ received \in Seq(Nat \ {0})
  BY EmptySeq
<1>3. tail \in [deadline : Nat, vol : Nat]
  OBVIOUS
<1>4. /\ gate \in BOOLEAN /\ clockStarted \in BOOLEAN /\ readerDone \in BOOLEAN
      /\ peerDone \in BOOLEAN
  OBVIOUS
<1>5. TypeOK
  BY <1>1, <1>2, <1>3, <1>4 DEF TypeOK
<1>6. ReaderInv /\ BufferInv /\ FlightInv
  BY FlowAssumption DEF ReaderInv, BufferInv, FlightInv, InOrderDelivery, Live
<1>7. ByteInv
  BY FlowAssumption DEF ByteInv, Live
<1>8. ClockInv /\ GateInv
  BY DEF ClockInv, GateInv
<1>9. QED
  BY <1>5, <1>6, <1>7, <1>8 DEF IInv

\* The queue after a pull: the cell joins the end because there is room for it.
LEMMA PullFits ==
  ASSUME TypeOK, MayPull, channel # <<>>
  PROVE  /\ Len(queue) < QueueCap
         /\ InjectReal(queue, Head(channel)) = Append(queue, Head(channel))
         /\ Head(channel) \in Nat \ {0} /\ Head(channel) = channel[1]
         /\ Append(queue, Head(channel)) \in Seq(Nat \ {0})
         /\ Tail(channel) \in Seq(Nat \ {0})
         /\ Len(Tail(channel)) = Len(channel) - 1
         /\ \A i \in 1 .. Len(channel) - 1 : Tail(channel)[i] = channel[i + 1]
BY FlowAssumption DEF TypeOK, MayPull, HasQueueSpace, InjectReal

\* Emitting a frame keeps the types and moves the schedule forward.
LEMMA EmitTypes ==
  ASSUME TypeOK, NEW q \in Seq(Nat \ {0}), NEW iat \in Iats, NEW fd \in BOOLEAN,
         EmitFrame(q, iat, fd)
  PROVE  /\ nextDeparture' \in Nat /\ nextDeparture' >= nextDeparture + 1
         /\ queue' \in Seq(Nat \ {0}) /\ flight' \in Seq(Nat)
         /\ realEmitted' \in Nat /\ wireSeq' \in Nat /\ unwritten' \in Nat
<1>1. nextDeparture' \in Nat /\ nextDeparture' >= nextDeparture + 1
  BY ClockAdvances DEF EmitFrame, TypeOK
<1>5. wireSeq' \in Nat /\ unwritten' \in Nat
  BY FlowAssumption DEF EmitFrame, TypeOK
<1>2. CASE ~fd /\ q # <<>>
  <2>1. Head(q) \in Nat /\ Tail(q) \in Seq(Nat \ {0})
    BY <1>2, HeadTailProperties
  <2>2. /\ queue' = Tail(q) /\ flight' = Append(flight, Head(q))
        /\ realEmitted' = realEmitted + 1
    BY <1>2 DEF EmitFrame
  <2>3. flight' \in Seq(Nat)
    BY <2>1, <2>2, AppendProperties DEF TypeOK
  <2>4. QED
    BY <1>1, <1>5, <2>1, <2>2, <2>3 DEF TypeOK
<1>3. CASE ~(~fd /\ q # <<>>)
  <2>1. queue' = q /\ flight' = Append(flight, 0) /\ realEmitted' = realEmitted
    BY <1>3 DEF EmitFrame, Dummy
  <2>2. flight' \in Seq(Nat)
    BY <2>1, AppendProperties DEF TypeOK
  <2>3. QED
    BY <1>1, <1>5, <2>1, <2>2 DEF TypeOK
<1>4. QED
  BY <1>2, <1>3

\* What a drop leaves of the frames in flight: a prefix, all of it when every
\* byte had been written.
LEMMA DropKeepsPrefix ==
  ASSUME TypeOK, ByteInv, NEW outcome \in Outcomes, NEW b \in Nat,
         b <= kernel + unwritten, DropFlow(outcome, b)
  PROVE  /\ flight' \in Seq(Nat) /\ Len(flight') <= Len(flight)
         /\ \A i \in 1 .. Len(flight') : flight'[i] = flight[i]
         /\ kernel' \in Nat /\ kernel' = FrameLen * Len(flight') /\ unwritten' = 0
         /\ channel' = <<>> /\ queue' = <<>> /\ slot' = outcome
         /\ b = kernel + unwritten => flight' = flight
<1> DEFINE m == b \div FrameLen
<1>1. FrameLen \in Nat \ {0} /\ Len(flight) \in Nat
  BY FlowAssumption DEF TypeOK
<1>2. b <= FrameLen * Len(flight)
  BY DEF ByteInv
<1>3. /\ m \in Nat /\ m <= Len(flight) /\ m * FrameLen \in Nat
      /\ b = FrameLen * Len(flight) => m = Len(flight)
  BY <1>1, <1>2, WholeFrames
<1>4. flight' = SubSeq(flight, 1, m) /\ kernel' = m * FrameLen
  BY DEF DropFlow
<1> HIDE DEF m
<1>f. flight \in Seq(Nat) /\ \A i \in 1 .. m : flight[i] \in Nat
  <2>1. flight \in Seq(Nat)
    BY DEF TypeOK
  <2>2. QED
    BY <2>1, <1>1, <1>3, ElementOfSeq
<1>5. /\ flight' \in Seq(Nat) /\ Len(flight') = m
      /\ \A i \in 1 .. m : flight'[i] = flight[i]
  <2>1. /\ SubSeq(flight, 1, m) \in Seq(Nat)
        /\ Len(SubSeq(flight, 1, m)) = IF 1 <= m THEN m - 1 + 1 ELSE 0
        /\ \A i \in 1 .. m - 1 + 1 : SubSeq(flight, 1, m)[i] = flight[1 + i - 1]
    BY <1>3, <1>f, SubSeqProperties
  <2>2. QED
    BY <1>3, <1>4, <2>1
<1>6. m = Len(flight) => flight' = flight
  BY <1>4, SubSeqFull DEF TypeOK
<1>7. kernel' = FrameLen * Len(flight')
  BY <1>1, <1>3, <1>4, <1>5
<1>8. QED
  BY <1>1, <1>3, <1>4, <1>5, <1>6, <1>7 DEF DropFlow, ByteInv

\* The ways a service can end.
LEMMA ServiceEndCases ==
  ASSUME TypeOK, ServiceEnd
  PROVE  \E n \in Nat :
           /\ n <= unwritten
           /\ \/ readerDone /\ TailMet(unwritten - n) /\ DropFlow("drained", kernel + n)
              \/ readerDone /\ now >= finishBy /\ DropFlow("backstop", kernel + n)
              \/ KeepFlow(n)
<1>1. PICK n \in Writable :
       IF readerDone /\ TailMet(unwritten - n) THEN DropFlow("drained", kernel + n)
       ELSE IF readerDone /\ now >= finishBy THEN DropFlow("backstop", kernel + n)
       ELSE KeepFlow(n)
  BY DEF ServiceEnd
<1>2. n \in Nat /\ n <= unwritten
  BY DEF Writable, TypeOK
<1>3. QED
  BY <1>1, <1>2

\* The three slot actions.
Slot == SlotPullsCell \/ SlotSeesEof \/ SlotWithoutPull

\* Every slot emits one frame from a queue that continues the emitted cells and
\* is itself continued by what is left in the channel.
LEMMA SlotEffect ==
  ASSUME IInv, Slot
  PROVE  /\ Live
         /\ channel' \in Seq(Nat \ {0})
         /\ \E q \in Seq(Nat \ {0}), iat \in Iats, fd \in BOOLEAN :
              /\ EmitFrame(q, iat, fd)
              /\ sent = realEmitted + Len(q) + Len(channel')
              /\ \A i \in 1 .. Len(q) : q[i] = realEmitted + i
              /\ \A i \in 1 .. Len(channel') : channel'[i] = realEmitted + Len(q) + i
              /\ Len(q) <= QueueCap
              /\ Len(q) = Len(queue) \/ (Len(q) = Len(queue) + 1 /\ gate)
<1>1. Live
  BY DEF IInv, ByteInv, Slot, SlotPullsCell, SlotSeesEof, SlotWithoutPull
<1>2. TypeOK /\ BufferInv
  BY DEF IInv
<1>3. CASE SlotPullsCell
  <2> DEFINE q == Append(queue, Head(channel))
  <2>1. /\ MayPull /\ channel # <<>> /\ channel' = Tail(channel)
        /\ TickSlot(InjectReal(queue, Head(channel)))
    BY <1>3 DEF SlotPullsCell
  <2>2. PICK iat \in Iats, fd \in BOOLEAN : EmitFrame(q, iat, fd)
    BY <1>2, <2>1, PullFits DEF TickSlot
  <2>3. /\ q \in Seq(Nat \ {0}) /\ Len(q) = Len(queue) + 1
        /\ \A i \in 1 .. Len(queue) : q[i] = queue[i]
        /\ q[Len(queue) + 1] = channel[1]
    BY <1>2, <2>1, PullFits, AppendProperties DEF TypeOK
  <2>4. /\ channel' \in Seq(Nat \ {0}) /\ Len(channel') = Len(channel) - 1
        /\ \A i \in 1 .. Len(channel') : channel'[i] = channel[i + 1]
    BY <1>2, <2>1, PullFits
  <2>5. Len(channel) \in Nat \ {0} /\ Len(queue) \in Nat /\ realEmitted \in Nat
        /\ QueueCap \in Nat
    BY <1>2, <2>1, EmptySeq, FlowAssumption DEF TypeOK
  <2> HIDE DEF q
  <2>6. \A i \in 1 .. Len(q) : q[i] = realEmitted + i
    <3>1. channel[1] = realEmitted + Len(queue) + 1
      BY <1>1, <1>2, <2>5 DEF BufferInv
    <3>2. ASSUME NEW i \in 1 .. Len(q) PROVE q[i] = realEmitted + i
      <4>1. CASE i \in 1 .. Len(queue)
        BY <1>1, <1>2, <2>3, <4>1 DEF BufferInv
      <4>2. CASE i = Len(queue) + 1
        BY <2>3, <2>5, <3>1, <4>2
      <4>3. QED
        BY <2>3, <2>5, <4>1, <4>2
    <3>3. QED
      BY <3>2
  <2>7. \A i \in 1 .. Len(channel') : channel'[i] = realEmitted + Len(q) + i
    BY <1>1, <1>2, <2>3, <2>4, <2>5 DEF BufferInv
  <2>8. sent = realEmitted + Len(q) + Len(channel') /\ Len(q) <= QueueCap /\ gate
    BY <1>1, <1>2, <2>1, <2>3, <2>4, <2>5 DEF BufferInv, MayPull, HasQueueSpace
  <2>9. QED
    BY <1>1, <2>2, <2>3, <2>4, <2>6, <2>7, <2>8
<1>4. CASE SlotSeesEof \/ SlotWithoutPull
  <2>1. channel' = channel /\ TickSlot(queue)
    BY <1>4 DEF SlotSeesEof, SlotWithoutPull
  <2>2. PICK iat \in Iats, fd \in BOOLEAN : EmitFrame(queue, iat, fd)
    BY <2>1 DEF TickSlot
  <2>3. QED
    BY <1>1, <1>2, <2>1, <2>2 DEF BufferInv, TypeOK
<1>5. QED
  BY <1>3, <1>4 DEF Slot

\* What a slot leaves alone.
LEMMA SlotFrame ==
  ASSUME Slot
  PROVE  /\ pc = "service" /\ SlotLoop
         /\ UNCHANGED <<timeVars, readerVars, slot, pc, gate, clockStarted, firstService,
                        thresholds, kernel, wire, peerVars>>
BY DEF Slot, SlotPullsCell, SlotSeesEof, SlotWithoutPull, TickSlot

\* Every step keeps the types.
LEMMA TypeStep == IInv /\ [Next]_vars => TypeOK'
<1> SUFFICES ASSUME IInv, [Next]_vars PROVE TypeOK'
  OBVIOUS
<1>1. TypeOK
  BY DEF IInv
<1>2. CASE ReaderRead
  <2>1. input' \in Seq(Nat)
    BY <1>1, <1>2, FlowAssumption DEF ReaderRead, TypeOK
  <2>2. QED
    BY <1>1, <1>2, <2>1 DEF TypeOK, ReaderRead, timeVars, readerVars, flowVars, clockVars, eofVars, peerVars
<1>3. CASE ReaderSend
  <2>1. channel' \in Seq(Nat \ {0}) /\ sent' \in Nat
    BY <1>1, <1>3, AppendProperties DEF TypeOK, ReaderSend
  <2>2. reader' \in {"read", "send", "done"}
    BY <1>3 DEF ReaderSend
  <2>3. QED
    BY <1>1, <1>3, <2>1, <2>2 DEF TypeOK, ReaderSend, timeVars, flowVars, clockVars, eofVars, peerVars
<1>4. CASE ReaderSendFails \/ ReaderEnds
  BY <1>1, <1>4 DEF TypeOK, ReaderSendFails, ReaderEnds, timeVars, flowVars, clockVars,
     eofVars, peerVars
<1>5. CASE Wake
  <2>1. now' \in Nat
    BY <1>1, <1>5, FlowAssumption DEF Wake, TypeOK
  <2>2. clockStarted' \in BOOLEAN /\ firstService' \in Nat /\ nextDeparture' \in Nat
    <3>1. CASE clockStarted
      BY <1>1, <1>5, <3>1 DEF Wake, TypeOK, clockVars
    <3>2. CASE ~clockStarted
      BY <1>5, <2>1, <3>2, ClockAdvances DEF Wake
    <3>3. QED
      BY <3>1, <3>2
  <2>3. gate' \in BOOLEAN /\ pc' \in {"sleep", "service"}
    BY <1>5 DEF Wake
  <2>4. QED
    BY <1>1, <1>5, <2>1, <2>2, <2>3 DEF TypeOK, Wake, readerVars, eofVars, peerVars
<1>6. CASE Slot
  <2>1. PICK q \in Seq(Nat \ {0}), iat \in Iats, fd \in BOOLEAN : EmitFrame(q, iat, fd)
    BY <1>6, SlotEffect
  <2>2. channel' \in Seq(Nat \ {0})
    BY <1>6, SlotEffect
  <2>3. realBytes' \in Nat
    <3>1. CASE SlotPullsCell
      <4>1. channel # <<>> /\ realBytes' = realBytes + input[Head(channel)]
        BY <3>1 DEF SlotPullsCell, MayPull
      <4>2. Len(channel) \in Nat \ {0} /\ Head(channel) = channel[1] /\ Len(queue) \in Nat
        BY <1>1, <4>1, EmptySeq DEF TypeOK
      <4>3. Head(channel) \in 1 .. Len(input)
        <5>1. BufferInv /\ ReaderInv /\ Live
          BY <1>6, SlotEffect DEF IInv
        <5>2. channel[1] = realEmitted + Len(queue) + 1
          BY <4>2, <5>1 DEF BufferInv
        <5>3. realEmitted + Len(queue) + Len(channel) <= Len(input)
          BY <5>1 DEF BufferInv, ReaderInv
        <5>4. realEmitted \in Nat /\ Len(input) \in Nat
          BY <1>1 DEF TypeOK
        <5>5. QED
          BY <4>2, <5>2, <5>3, <5>4
      <4>4. input[Head(channel)] \in Nat
        BY <1>1, <4>3, ElementOfSeq DEF TypeOK
      <4>5. realBytes \in Nat
        BY <1>1 DEF TypeOK
      <4>6. QED
        BY <4>1, <4>4, <4>5
    <3>2. CASE SlotSeesEof \/ SlotWithoutPull
      BY <1>1, <3>2 DEF SlotSeesEof, SlotWithoutPull, TypeOK
    <3>3. QED
      BY <1>6, <3>1, <3>2 DEF Slot
  <2>4. /\ tail' \in [deadline : Nat, vol : Nat] /\ finishBy' \in Nat
        /\ eofSeen' \in Nat /\ readerDone' \in BOOLEAN
    <3>1. CASE SlotSeesEof
      BY <1>1, <3>1, TailTargetsBounds DEF SlotSeesEof, TypeOK
    <3>2. CASE SlotPullsCell \/ SlotWithoutPull
      BY <1>1, <3>2 DEF SlotPullsCell, SlotWithoutPull, TypeOK, eofVars
    <3>3. QED
      BY <1>6, <3>1, <3>2 DEF Slot
  <2>5. QED
    BY SMTT(60), <1>1, <1>6, <2>1, <2>2, <2>3, <2>4, EmitTypes, SlotFrame
       DEF TypeOK, timeVars, readerVars, peerVars
<1>8. CASE ServiceEnd
  <2>1. PICK n \in Nat :
           /\ n <= unwritten
           /\ \/ readerDone /\ TailMet(unwritten - n) /\ DropFlow("drained", kernel + n)
              \/ readerDone /\ now >= finishBy /\ DropFlow("backstop", kernel + n)
              \/ KeepFlow(n)
    BY <1>1, <1>8, ServiceEndCases
  <2>2. ASSUME NEW o \in Outcomes, DropFlow(o, kernel + n)
        PROVE  TypeOK'
    <3>1. kernel + n \in Nat /\ kernel + n <= kernel + unwritten
      BY <1>1, <2>1 DEF TypeOK
    <3>2. /\ flight' \in Seq(Nat) /\ kernel' \in Nat /\ unwritten' = 0
          /\ channel' = <<>> /\ queue' = <<>> /\ slot' = o
      BY <1>1, <2>2, <3>1, DropKeepsPrefix DEF IInv
    <3>3. QED
      BY <1>1, <1>8, <3>2, EmptySeq
         DEF TypeOK, ServiceEnd, serviceEndFrame, timeVars, readerVars,
             clockVars, eofVars, peerVars
  <2>3. CASE KeepFlow(n)
    BY <1>1, <1>8, <2>1, <2>3 DEF TypeOK, KeepFlow, ServiceEnd, serviceEndFrame,
       timeVars, readerVars, clockVars, eofVars, peerVars
  <2>4. QED
    BY <2>1, <2>2, <2>3 DEF Outcomes
<1>9. CASE ServiceWireError
  <2>1. DropFlow("wireError", 0) /\ "wireError" \in Outcomes /\ 0 <= kernel + unwritten
    BY <1>1, <1>9 DEF ServiceWireError, Outcomes, TypeOK
  <2>2. /\ flight' \in Seq(Nat) /\ kernel' \in Nat /\ unwritten' = 0
        /\ channel' = <<>> /\ queue' = <<>> /\ slot' = "wireError"
    BY <1>1, <2>1, DropKeepsPrefix DEF IInv
  <2>3. QED
    BY <1>1, <1>9, <2>1, <2>2, EmptySeq
       DEF TypeOK, ServiceWireError, serviceEndFrame, timeVars, readerVars,
           clockVars, eofVars, peerVars
<1>10. CASE PeerRead
  <2>1. flight # <<>>
    BY <1>1, <1>10, FlowAssumption DEF PeerRead, IInv, ByteInv, TypeOK
  <2>2. /\ Head(flight) \in Nat /\ flight' \in Seq(Nat) /\ kernel' \in Nat
    BY <1>1, <1>10, <2>1, FlowAssumption, HeadTailProperties DEF TypeOK, PeerRead
  <2>3. received' \in Seq(Nat \ {0})
    BY <1>1, <1>10, <2>2, AppendProperties DEF TypeOK, PeerRead, Dummy
  <2>4. QED
    BY <1>1, <1>10, <2>2, <2>3 DEF TypeOK, PeerRead, senderVars, timeVars,
       readerVars, clockVars, eofVars
<1>11. CASE PeerEof \/ WireBreaks
  BY <1>1, <1>11 DEF TypeOK, PeerEof, WireBreaks, senderVars, timeVars, readerVars,
     clockVars, eofVars, peerVars
<1>12. CASE UNCHANGED vars
  BY <1>1, <1>12 DEF TypeOK, vars, timeVars, readerVars, clockVars, eofVars, peerVars
<1>13. QED
  BY <1>2, <1>3, <1>4, <1>5, <1>6, <1>8, <1>9, <1>10, <1>11, <1>12
     DEF Next, Emitter, Reader, Network, Slot

\* Every step keeps the reader's place in the channel.
LEMMA ReaderStep == IInv /\ [Next]_vars => ReaderInv'
<1> SUFFICES ASSUME IInv, [Next]_vars PROVE ReaderInv'
  OBVIOUS
<1>1. TypeOK /\ ReaderInv
  BY DEF IInv
<1>2. sent \in Nat /\ Len(input) \in Nat
  BY <1>1 DEF TypeOK
<1>3. CASE ReaderRead
  <2>1. PICK chunks \in Reads : input' = input \o chunks
    BY <1>3 DEF ReaderRead
  <2>2. chunks \in Seq(Nat) /\ chunks # <<>>
    BY FlowAssumption
  <2>3. Len(chunks) \in Nat \ {0}
    BY <2>2, EmptySeq
  <2>4. Len(input') = Len(input) + Len(chunks)
    BY <1>1, <2>1, <2>2, ConcatProperties DEF TypeOK
  <2>5. reader = "read" /\ reader' = "send" /\ sent' = sent /\ readerDone' = readerDone
    BY <1>3 DEF ReaderRead, flowVars, eofVars
  <2>6. QED
    BY <1>1, <1>2, <2>3, <2>4, <2>5 DEF ReaderInv
<1>4. CASE ReaderSend
  <2>1. /\ reader = "send" /\ sent' = sent + 1 /\ input' = input
        /\ reader' = IF sent' = Len(input) THEN "read" ELSE "send"
        /\ readerDone' = readerDone
    BY <1>4 DEF ReaderSend, flowVars, eofVars
  <2>2. QED
    BY <1>1, <1>2, <2>1 DEF ReaderInv
<1>5. CASE ReaderSendFails \/ ReaderEnds
  <2>1. /\ reader' = "done" /\ sent' = sent /\ input' = input /\ readerDone' = readerDone
        /\ slot' = slot
        /\ (reader = "send" /\ ~Live) \/ reader = "read"
    BY <1>5 DEF ReaderSendFails, ReaderEnds, flowVars, eofVars
  <2>2. QED
    BY <1>1, <1>2, <2>1 DEF ReaderInv, Live
<1>6. CASE SlotSeesEof
  <2>1. /\ reader = "done" /\ readerDone' = TRUE
        /\ reader' = reader /\ sent' = sent /\ input' = input /\ slot' = slot
    BY <1>6 DEF SlotSeesEof, TickSlot, readerVars
  <2>2. Live
    BY <1>6, SlotEffect DEF Slot
  <2>3. QED
    BY <1>1, <1>2, <2>1, <2>2 DEF ReaderInv, Live
<1>7. CASE Wake \/ SlotPullsCell \/ SlotWithoutPull \/ PeerRead \/ PeerEof \/ WireBreaks
           \/ UNCHANGED vars
  <2>1. UNCHANGED <<readerVars, slot, readerDone>>
    BY <1>7 DEF Wake, SlotPullsCell, SlotWithoutPull, TickSlot, PeerRead, PeerEof,
       WireBreaks, senderVars, eofVars, vars
  <2>2. QED
    BY <1>1, <2>1 DEF ReaderInv, Live, readerVars
<1>8. CASE ServiceEnd \/ ServiceWireError
  <2>1. UNCHANGED <<readerVars, readerDone>> /\ Live
    BY <1>8 DEF ServiceEnd, ServiceWireError, serviceEndFrame, eofVars, IInv, ByteInv
  <2>2. QED
    BY <1>1, <2>1 DEF ReaderInv, Live, readerVars
<1>9. QED
  BY <1>3, <1>4, <1>5, <1>6, <1>7, <1>8 DEF Next, Emitter, Reader, Network

\* Every step keeps the emitted cells, the queue and the channel in a row.
LEMMA BufferStep == IInv /\ [Next]_vars => BufferInv'
<1> SUFFICES ASSUME IInv, [Next]_vars, Live' PROVE BufferInv'
  BY DEF BufferInv
<1>1. TypeOK /\ BufferInv /\ ReaderInv
  BY DEF IInv
<1>2. /\ sent \in Nat /\ realEmitted \in Nat /\ Len(queue) \in Nat /\ Len(channel) \in Nat
      /\ QueueCap \in Nat
  BY <1>1, FlowAssumption DEF TypeOK
<1>3. CASE ReaderSend
  <2>1. /\ channel' = Append(channel, sent + 1) /\ sent' = sent + 1 /\ Live
        /\ UNCHANGED <<queue, realEmitted, readerDone>> /\ reader = "send"
    BY <1>3 DEF ReaderSend, flowVars, eofVars
  <2>2. /\ Len(channel') = Len(channel) + 1
        /\ \A i \in 1 .. Len(channel) : channel'[i] = channel[i]
        /\ channel'[Len(channel) + 1] = sent + 1
    BY <1>1, <1>2, <2>1, AppendProperties DEF TypeOK
  <2>3. ~readerDone
    BY <1>1, <2>1 DEF ReaderInv
  <2>4. \A i \in 1 .. Len(channel') : channel'[i] = realEmitted + Len(queue) + i
    <3>1. ASSUME NEW i \in 1 .. Len(channel') PROVE channel'[i] = realEmitted + Len(queue) + i
      <4>1. CASE i \in 1 .. Len(channel)
        BY <1>1, <2>1, <2>2, <4>1 DEF BufferInv
      <4>2. CASE i = Len(channel) + 1
        BY <1>1, <1>2, <2>1, <2>2, <4>2 DEF BufferInv
      <4>3. QED
        BY <1>2, <2>2, <4>1, <4>2
    <3>2. QED
      BY <3>1
  <2>5. QED
    BY SMTT(60), <1>1, <1>2, <2>1, <2>2, <2>3, <2>4 DEF BufferInv
<1>4. CASE Slot
  <2>1. PICK q \in Seq(Nat \ {0}), iat \in Iats, fd \in BOOLEAN :
              /\ EmitFrame(q, iat, fd)
              /\ sent = realEmitted + Len(q) + Len(channel')
              /\ \A i \in 1 .. Len(q) : q[i] = realEmitted + i
              /\ \A i \in 1 .. Len(channel') : channel'[i] = realEmitted + Len(q) + i
              /\ Len(q) <= QueueCap
    BY <1>4, SlotEffect
  <2>2. sent' = sent /\ Len(q) \in Nat /\ channel' \in Seq(Nat \ {0}) /\ Live
    BY <1>4, SlotFrame, SlotEffect DEF readerVars
  <2>3. readerDone' => channel' = <<>>
    <3>1. CASE SlotSeesEof
      BY <3>1 DEF SlotSeesEof
    <3>2. CASE SlotPullsCell
      BY <3>2 DEF SlotPullsCell, MayPull, eofVars
    <3>3. CASE SlotWithoutPull
      BY <1>1, <2>2, <3>3 DEF SlotWithoutPull, BufferInv, eofVars
    <3>4. QED
      BY <1>4, <3>1, <3>2, <3>3 DEF Slot
  <2>4. CASE ~fd /\ q # <<>>
    <3>1. queue' = Tail(q) /\ realEmitted' = realEmitted + 1
      BY <2>1, <2>4 DEF EmitFrame
    <3>2. /\ Len(q) \in Nat \ {0} /\ Len(queue') = Len(q) - 1
          /\ \A i \in 1 .. Len(queue') : queue'[i] = q[i + 1]
      BY <2>4, <3>1, HeadTailProperties, EmptySeq
    <3>3. \A i \in 1 .. Len(queue') : queue'[i] = realEmitted' + i
      BY <1>2, <2>1, <3>1, <3>2
    <3>4. \A i \in 1 .. Len(channel') : channel'[i] = realEmitted' + Len(queue') + i
      BY <1>2, <2>1, <2>2, <3>1, <3>2
    <3>5. QED
      BY <1>2, <2>1, <2>2, <2>3, <3>1, <3>2, <3>3, <3>4 DEF BufferInv
  <2>5. CASE ~(~fd /\ q # <<>>)
    <3>1. queue' = q /\ realEmitted' = realEmitted
      BY <2>1, <2>5 DEF EmitFrame
    <3>2. QED
      BY <1>2, <2>1, <2>2, <2>3, <3>1 DEF BufferInv
  <2>6. QED
    BY <2>4, <2>5
<1>5. CASE ServiceEnd \/ ServiceWireError
  <2>1. UNCHANGED <<slot, channel, queue, realEmitted, sent, readerDone>>
    <3>1. CASE ServiceEnd
      BY <1>1, <3>1, ServiceEndCases DEF ServiceEnd, DropFlow, KeepFlow, Live,
         serviceEndFrame, readerVars, eofVars
    <3>2. CASE ServiceWireError
      BY <3>2 DEF ServiceWireError, DropFlow, Live
    <3>3. QED
      BY <1>5, <3>1, <3>2
  <2>2. QED
    BY <1>1, <2>1 DEF BufferInv, Live
<1>6. CASE \/ ReaderRead \/ ReaderSendFails \/ ReaderEnds \/ Wake \/ PeerRead \/ PeerEof
           \/ WireBreaks \/ UNCHANGED vars
  <2>1. UNCHANGED <<slot, channel, queue, realEmitted, sent, readerDone>>
    BY <1>6 DEF ReaderRead, ReaderSendFails, ReaderEnds, Wake, PeerRead, PeerEof,
       WireBreaks, flowVars, senderVars, readerVars, eofVars, vars
  <2>2. QED
    BY <1>1, <2>1 DEF BufferInv, Live
<1>7. QED
  BY <1>3, <1>4, <1>5, <1>6 DEF Next, Emitter, Reader, Network, Slot

\* Every step keeps the frames in flight a continuation of what was received.
LEMMA FlightStep == IInv /\ [Next]_vars => FlightInv'
<1> SUFFICES ASSUME IInv, [Next]_vars PROVE FlightInv'
  OBVIOUS
<1>1. TypeOK /\ FlightInv /\ ByteInv
  BY DEF IInv
<1>2. /\ Len(received) \in Nat /\ realEmitted \in Nat /\ Len(flight) \in Nat
      /\ \A i \in 1 .. Len(flight) : flight[i] \in Nat
  BY <1>1, ElementOfSeq DEF TypeOK
<1>3. CASE Slot
  <2>1. PICK q \in Seq(Nat \ {0}), iat \in Iats, fd \in BOOLEAN :
              /\ EmitFrame(q, iat, fd)
              /\ \A i \in 1 .. Len(q) : q[i] = realEmitted + i
    BY <1>3, SlotEffect
  <2>2. received' = received /\ slot' = slot /\ slot = "live"
    BY <1>3, SlotFrame, SlotEffect DEF peerVars, Live
  <2>3. CASE ~fd /\ q # <<>>
    <3>1. flight' = Append(flight, Head(q)) /\ realEmitted' = realEmitted + 1
      BY <2>1, <2>3 DEF EmitFrame
    <3>2. Len(q) \in Nat \ {0} /\ Head(q) = q[1]
      BY <2>3, EmptySeq
    <3>3. Head(q) = realEmitted + 1
      BY <2>1, <3>2
    <3>4. /\ Len(flight') = Len(flight) + 1
          /\ \A i \in 1 .. Len(flight) : flight'[i] = flight[i]
          /\ flight'[Len(flight) + 1] = realEmitted + 1
      BY <1>1, <1>2, <3>1, <3>3, AppendProperties DEF TypeOK
    <3>5. \A i \in 1 .. Len(flight') :
            flight'[i] # Dummy => Len(received) < flight'[i] /\ flight'[i] <= realEmitted + 1
      BY <1>1, <1>2, <3>4 DEF FlightInv
    <3>6. \A i, j \in 1 .. Len(flight') :
            i < j /\ flight'[i] # Dummy /\ flight'[j] # Dummy => flight'[i] < flight'[j]
      <4>1. ASSUME NEW i \in 1 .. Len(flight'), NEW j \in 1 .. Len(flight'),
                   i < j, flight'[i] # Dummy, flight'[j] # Dummy
            PROVE  flight'[i] < flight'[j]
        <5>1. i \in 1 .. Len(flight) /\ flight'[i] = flight[i] /\ flight[i] \in Nat
          BY <1>2, <3>4, <4>1
        <5>2. CASE j \in 1 .. Len(flight)
          BY <1>1, <3>4, <4>1, <5>1, <5>2 DEF FlightInv
        <5>3. CASE j = Len(flight) + 1
          BY <1>1, <1>2, <3>4, <4>1, <5>1, <5>3 DEF FlightInv
        <5>4. QED
          BY <1>2, <3>4, <5>2, <5>3
      <4>2. QED
        BY <4>1
    <3>7. \A i \in 1 .. Len(flight') : \A c \in Len(received) + 1 .. flight'[i] - 1 :
            \E j \in 1 .. i - 1 : flight'[j] = c
      <4>1. ASSUME NEW i \in 1 .. Len(flight'), NEW c \in Len(received) + 1 .. flight'[i] - 1
            PROVE  \E j \in 1 .. i - 1 : flight'[j] = c
        <5>1. CASE i \in 1 .. Len(flight)
          <6>1. flight'[i] = flight[i]
            BY <3>4, <5>1
          <6>2. PICK j \in 1 .. i - 1 : flight[j] = c
            BY <1>1, <5>1, <6>1 DEF FlightInv
          <6>3. j \in 1 .. Len(flight)
            BY <1>2, <5>1, <6>2
          <6>4. QED
            BY <3>4, <6>2, <6>3
        <5>2. CASE i = Len(flight) + 1
          <6>1. c \in Len(received) + 1 .. realEmitted
            BY <1>2, <3>4, <5>2
          <6>2. QED
            BY <1>1, <1>2, <2>2, <3>4, <5>2, <6>1 DEF FlightInv
        <5>3. QED
          BY <1>2, <3>4, <5>1, <5>2
      <4>2. QED
        BY <4>1
    <3>8. \A c \in Len(received) + 1 .. realEmitted + 1 :
            \E i \in 1 .. Len(flight') : flight'[i] = c
      <4>1. ASSUME NEW c \in Len(received) + 1 .. realEmitted + 1
            PROVE  \E i \in 1 .. Len(flight') : flight'[i] = c
        <5>1. CASE c = realEmitted + 1
          BY <1>2, <3>4, <5>1
        <5>2. CASE c \in Len(received) + 1 .. realEmitted
          BY <1>1, <1>2, <2>2, <3>4, <5>2 DEF FlightInv
        <5>3. QED
          BY <1>2, <5>1, <5>2
      <4>2. QED
        BY <4>1
    <3>9. QED
      BY SMTT(60), <1>1, <1>2, <2>2, <3>1, <3>5, <3>6, <3>7, <3>8 DEF FlightInv, InOrderDelivery
  <2>4. CASE ~(~fd /\ q # <<>>)
    <3>1. flight' = Append(flight, 0) /\ realEmitted' = realEmitted
      BY <2>1, <2>4 DEF EmitFrame, Dummy
    <3>2. /\ Len(flight') = Len(flight) + 1
          /\ \A i \in 1 .. Len(flight) : flight'[i] = flight[i]
          /\ flight'[Len(flight) + 1] = 0
      BY <1>1, <1>2, <3>1, AppendProperties DEF TypeOK
    <3>3. \A i \in 1 .. Len(flight') :
            flight'[i] # Dummy => Len(received) < flight'[i] /\ flight'[i] <= realEmitted
      BY <1>1, <1>2, <3>2 DEF FlightInv, Dummy
    <3>4. \A i, j \in 1 .. Len(flight') :
            i < j /\ flight'[i] # Dummy /\ flight'[j] # Dummy => flight'[i] < flight'[j]
      <4>1. \A i \in 1 .. Len(flight') :
              flight'[i] # Dummy => i \in 1 .. Len(flight) /\ flight'[i] = flight[i]
        BY <1>2, <3>2 DEF Dummy
      <4>2. QED
        BY <1>1, <4>1 DEF FlightInv
    <3>5. \A i \in 1 .. Len(flight') : \A c \in Len(received) + 1 .. flight'[i] - 1 :
            \E j \in 1 .. i - 1 : flight'[j] = c
      <4>1. ASSUME NEW i \in 1 .. Len(flight'), NEW c \in Len(received) + 1 .. flight'[i] - 1
            PROVE  \E j \in 1 .. i - 1 : flight'[j] = c
        <5>1. i \in 1 .. Len(flight) /\ flight'[i] = flight[i]
          BY <1>2, <3>2
        <5>2. PICK j \in 1 .. i - 1 : flight[j] = c
          BY <1>1, <5>1 DEF FlightInv
        <5>3. j \in 1 .. Len(flight)
          BY <1>2, <5>1, <5>2
        <5>4. QED
          BY <3>2, <5>2, <5>3
      <4>2. QED
        BY <4>1
    <3>6. \A c \in Len(received) + 1 .. realEmitted :
            \E i \in 1 .. Len(flight') : flight'[i] = c
      BY <1>1, <1>2, <2>2, <3>2 DEF FlightInv
    <3>7. QED
      BY <1>1, <1>2, <2>2, <3>1, <3>3, <3>4, <3>5, <3>6 DEF FlightInv, InOrderDelivery
  <2>5. QED
    BY <2>3, <2>4
<1>4. ASSUME NEW o \in Outcomes, NEW b \in Nat, b <= kernel + unwritten,
             DropFlow(o, b), UNCHANGED <<received, realEmitted>>,
             o = "drained" => b = kernel + unwritten, slot = "live"
      PROVE  FlightInv'
  <2>1. /\ Len(flight') \in Nat /\ Len(flight') <= Len(flight)
        /\ \A i \in 1 .. Len(flight') : flight'[i] = flight[i]
        /\ slot' = o
        /\ o = "drained" => flight' = flight
    BY <1>1, <1>4, DropKeepsPrefix
  <2>2. \A i \in 1 .. Len(flight') : i \in 1 .. Len(flight)
    BY <1>2, <2>1
  <2>3. \A i \in 1 .. Len(flight') : \A c \in Len(received) + 1 .. flight'[i] - 1 :
          \E j \in 1 .. i - 1 : flight'[j] = c
    <3>1. ASSUME NEW i \in 1 .. Len(flight'), NEW c \in Len(received) + 1 .. flight'[i] - 1
          PROVE  \E j \in 1 .. i - 1 : flight'[j] = c
      <4>1. i \in 1 .. Len(flight) /\ flight'[i] = flight[i]
        BY <2>1, <2>2
      <4>2. PICK j \in 1 .. i - 1 : flight[j] = c
        BY <1>1, <4>1 DEF FlightInv
      <4>3. j \in 1 .. Len(flight')
        BY <2>1, <4>2
      <4>4. QED
        BY <2>1, <4>2, <4>3
    <3>2. QED
      BY <3>1
  <2>4. /\ \A i \in 1 .. Len(flight') :
             flight'[i] # Dummy => Len(received) < flight'[i] /\ flight'[i] <= realEmitted
        /\ \A i, j \in 1 .. Len(flight') :
             i < j /\ flight'[i] # Dummy /\ flight'[j] # Dummy => flight'[i] < flight'[j]
    BY <1>1, <2>1, <2>2 DEF FlightInv
  <2>5. slot' \in {"live", "drained"} =>
          \A c \in Len(received) + 1 .. realEmitted :
            \E i \in 1 .. Len(flight') : flight'[i] = c
    BY <1>1, <1>4, <2>1 DEF FlightInv, Outcomes
  <2>6. QED
    BY <1>1, <1>4, <2>3, <2>4, <2>5 DEF FlightInv, InOrderDelivery
<1>5. CASE ServiceEnd
  <2>1. PICK n \in Nat :
           /\ n <= unwritten
           /\ \/ readerDone /\ TailMet(unwritten - n) /\ DropFlow("drained", kernel + n)
              \/ readerDone /\ now >= finishBy /\ DropFlow("backstop", kernel + n)
              \/ KeepFlow(n)
    BY <1>1, <1>5, ServiceEndCases
  <2>2. UNCHANGED <<received, realEmitted>> /\ slot = "live"
    BY <1>1, <1>5 DEF ServiceEnd, serviceEndFrame, peerVars, ByteInv, Live
  <2>3. kernel + n \in Nat /\ kernel + n <= kernel + unwritten
        /\ (TailMet(unwritten - n) => kernel + n = kernel + unwritten)
    BY <1>1, <2>1 DEF TypeOK, TailMet
  <2>4. CASE TailMet(unwritten - n) /\ DropFlow("drained", kernel + n)
    BY <1>4, <2>2, <2>3, <2>4 DEF Outcomes
  <2>5. CASE DropFlow("backstop", kernel + n)
    BY <1>4, <2>2, <2>3, <2>5 DEF Outcomes
  <2>6. CASE KeepFlow(n)
    BY <1>1, <2>2, <2>6 DEF KeepFlow, FlightInv, InOrderDelivery
  <2>7. QED
    BY <2>1, <2>4, <2>5, <2>6
<1>6. CASE ServiceWireError
  <2>1. /\ DropFlow("wireError", 0) /\ UNCHANGED <<received, realEmitted>>
        /\ slot = "live" /\ 0 <= kernel + unwritten
    BY <1>1, <1>6 DEF ServiceWireError, serviceEndFrame, peerVars, ByteInv, Live, TypeOK
  <2>2. QED
    BY <1>4, <2>1 DEF Outcomes
<1>7. CASE PeerRead
  <2>1. flight # <<>>
    BY <1>1, <1>7, FlowAssumption DEF PeerRead, ByteInv, TypeOK
  <2>2. /\ Len(flight) \in Nat \ {0} /\ Head(flight) = flight[1]
        /\ flight' = Tail(flight) /\ Len(flight') = Len(flight) - 1
        /\ \A i \in 1 .. Len(flight') : flight'[i] = flight[i + 1]
    BY <1>1, <1>7, <2>1, EmptySeq, HeadTailProperties DEF PeerRead, TypeOK
  <2>3. UNCHANGED <<realEmitted, slot>>
    BY <1>7 DEF PeerRead, senderVars
  <2>4. \A i \in 1 .. Len(flight') : i + 1 \in 1 .. Len(flight) /\ flight[i + 1] \in Nat
    BY <1>2, <2>2
  <2>5. \A i, j \in 1 .. Len(flight') :
          i < j /\ flight'[i] # Dummy /\ flight'[j] # Dummy => flight'[i] < flight'[j]
    BY <1>1, <1>2, <2>2, <2>4 DEF FlightInv
  \* An index of flight other than 1 is an index of its tail.
  <2>6. \A j \in 1 .. Len(flight) : j # 1 =>
          j - 1 \in 1 .. Len(flight') /\ flight'[j - 1] = flight[j]
    BY <1>2, <2>2
  <2>7. CASE flight[1] = Dummy
    <3>1. received' = received
      BY <1>7, <2>2, <2>7 DEF PeerRead
    <3>2. \A i \in 1 .. Len(flight') :
            flight'[i] # Dummy => Len(received) < flight'[i] /\ flight'[i] <= realEmitted
      BY <1>1, <2>2, <2>4 DEF FlightInv
    <3>3. \A i \in 1 .. Len(flight') : \A c \in Len(received) + 1 .. flight'[i] - 1 :
            \E j \in 1 .. i - 1 : flight'[j] = c
      <4>1. ASSUME NEW i \in 1 .. Len(flight'), NEW c \in Len(received) + 1 .. flight'[i] - 1
            PROVE  \E j \in 1 .. i - 1 : flight'[j] = c
        <5>1. PICK j \in 1 .. (i + 1) - 1 : flight[j] = c
          BY <1>1, <2>2, <2>4 DEF FlightInv
        <5>2. j # 1
          BY <1>2, <2>7, <5>1 DEF Dummy
        <5>3. j - 1 \in 1 .. i - 1 /\ flight'[j - 1] = c
          BY <1>2, <2>2, <2>6, <5>1, <5>2
        <5>4. QED
          BY <5>3
      <4>2. QED
        BY <4>1
    <3>4. slot' \in {"live", "drained"} =>
            \A c \in Len(received) + 1 .. realEmitted :
              \E i \in 1 .. Len(flight') : flight'[i] = c
      <4>1. ASSUME slot \in {"live", "drained"}, NEW c \in Len(received) + 1 .. realEmitted
            PROVE  \E i \in 1 .. Len(flight') : flight'[i] = c
        <5>1. PICK j \in 1 .. Len(flight) : flight[j] = c
          BY <1>1, <4>1 DEF FlightInv
        <5>2. j # 1
          BY <1>2, <2>7, <5>1 DEF Dummy
        <5>3. QED
          BY <2>6, <5>1, <5>2
      <4>2. QED
        BY <2>3, <4>1
    <3>5. QED
      BY <1>1, <2>3, <2>5, <3>1, <3>2, <3>3, <3>4 DEF FlightInv, InOrderDelivery
  <2>8. CASE flight[1] # Dummy
    <3>1. received' = Append(received, flight[1])
      BY <1>7, <2>2, <2>8 DEF PeerRead
    \* Nothing is ahead of the first frame, so it carries the next cell.
    <3>2. flight[1] = Len(received) + 1 /\ flight[1] <= realEmitted
      <4>1. flight[1] \in Nat /\ Len(received) < flight[1] /\ flight[1] <= realEmitted
        BY <1>1, <1>2, <2>2, <2>8 DEF FlightInv
      <4>2. ASSUME Len(received) + 1 < flight[1] PROVE FALSE
        <5>1. Len(received) + 1 \in Len(received) + 1 .. flight[1] - 1
          BY <1>2, <4>1, <4>2
        <5>2. PICK j \in 1 .. 1 - 1 : flight[j] = Len(received) + 1
          BY <1>1, <2>2, <5>1 DEF FlightInv
        <5>3. QED
          BY <5>2
      <4>3. QED
        BY <1>2, <4>1, <4>2
    <3>3. /\ Len(received') = Len(received) + 1
          /\ \A i \in 1 .. Len(received') : received'[i] = i
      <4>1. /\ Len(received') = Len(received) + 1
            /\ \A i \in 1 .. Len(received) : received'[i] = received[i]
            /\ received'[Len(received) + 1] = flight[1]
        BY <1>1, <1>2, <3>1, <3>2, AppendProperties DEF TypeOK
      <4>2. QED
        BY <1>1, <1>2, <3>2, <4>1 DEF FlightInv, InOrderDelivery
    <3>4. \A i \in 1 .. Len(flight') :
            flight'[i] # Dummy => Len(received') < flight'[i] /\ flight'[i] <= realEmitted
      <4>1. ASSUME NEW i \in 1 .. Len(flight'), flight'[i] # Dummy
            PROVE  Len(received') < flight'[i] /\ flight'[i] <= realEmitted
        <5>1. flight[1] < flight[i + 1] /\ flight[i + 1] <= realEmitted
          BY <1>1, <1>2, <2>2, <2>4, <2>8, <4>1 DEF FlightInv
        <5>2. QED
          BY <1>2, <2>2, <2>4, <3>2, <3>3, <5>1
      <4>2. QED
        BY <4>1
    <3>5. \A i \in 1 .. Len(flight') : \A c \in Len(received') + 1 .. flight'[i] - 1 :
            \E j \in 1 .. i - 1 : flight'[j] = c
      <4>1. ASSUME NEW i \in 1 .. Len(flight'), NEW c \in Len(received') + 1 .. flight'[i] - 1
            PROVE  \E j \in 1 .. i - 1 : flight'[j] = c
        <5>1. c \in Len(received) + 1 .. flight[i + 1] - 1 /\ c # flight[1]
          BY <1>2, <2>2, <2>4, <3>2, <3>3
        <5>2. PICK j \in 1 .. (i + 1) - 1 : flight[j] = c
          BY <1>1, <2>4, <5>1 DEF FlightInv
        <5>3. j # 1
          BY <5>1, <5>2
        <5>4. j - 1 \in 1 .. i - 1 /\ flight'[j - 1] = c
          BY <1>2, <2>2, <2>6, <5>2, <5>3
        <5>5. QED
          BY <5>4
      <4>2. QED
        BY <4>1
    <3>6. slot' \in {"live", "drained"} =>
            \A c \in Len(received') + 1 .. realEmitted :
              \E i \in 1 .. Len(flight') : flight'[i] = c
      <4>1. ASSUME slot \in {"live", "drained"}, NEW c \in Len(received') + 1 .. realEmitted
            PROVE  \E i \in 1 .. Len(flight') : flight'[i] = c
        <5>1. c \in Len(received) + 1 .. realEmitted /\ c # flight[1]
          BY <1>2, <3>2, <3>3
        <5>2. PICK j \in 1 .. Len(flight) : flight[j] = c
          BY <1>1, <4>1, <5>1 DEF FlightInv
        <5>3. QED
          BY <2>6, <5>1, <5>2
      <4>2. QED
        BY <2>3, <4>1
    <3>7. Len(received') <= realEmitted
      BY <1>2, <3>2, <3>3
    <3>8. QED
      BY <2>3, <2>5, <3>3, <3>4, <3>5, <3>6, <3>7 DEF FlightInv, InOrderDelivery
  <2>9. QED
    BY <2>7, <2>8
<1>8. CASE Reader \/ Wake \/ PeerEof \/ WireBreaks \/ UNCHANGED vars
  <2>1. UNCHANGED <<flight, received, realEmitted, slot>>
    BY <1>8 DEF Reader, ReaderRead, ReaderSend, ReaderSendFails, ReaderEnds, Wake,
       PeerEof, WireBreaks, flowVars, senderVars, peerVars, vars
  <2>2. QED
    BY <1>1, <2>1 DEF FlightInv, InOrderDelivery
<1>9. QED
  BY <1>3, <1>5, <1>6, <1>7, <1>8 DEF Next, Emitter, Network, Slot

\* Every step keeps bytes and frames in agreement.
LEMMA ByteStep == IInv /\ [Next]_vars => ByteInv'
<1> SUFFICES ASSUME IInv, [Next]_vars PROVE ByteInv'
  OBVIOUS
<1>1. TypeOK /\ ByteInv /\ BufferInv
  BY DEF IInv
<1>2. /\ kernel \in Nat /\ unwritten \in Nat /\ Len(flight) \in Nat
      /\ FrameLen \in Nat \ {0} /\ PendingCap \in Nat \ {0}
  BY <1>1, FlowAssumption DEF TypeOK
<1>3. CASE Slot
  <2>1. PICK q \in Seq(Nat \ {0}), iat \in Iats, fd \in BOOLEAN : EmitFrame(q, iat, fd)
    BY <1>3, SlotEffect
  <2>2. /\ slot = "live" /\ slot' = slot /\ kernel' = kernel /\ unwritten < PendingCap
        /\ peerDone' = peerDone
    BY <1>3, SlotFrame, SlotEffect DEF SlotLoop, Live, peerVars
  <2>3. unwritten' = unwritten + FrameLen
    BY <2>1 DEF EmitFrame
  <2>4. Len(flight') = Len(flight) + 1
    <3>1. CASE ~fd /\ q # <<>>
      BY <1>1, <2>1, <3>1, AppendProperties, HeadTailProperties DEF EmitFrame, TypeOK
    <3>2. CASE ~(~fd /\ q # <<>>)
      BY <1>1, <2>1, <3>2, AppendProperties DEF EmitFrame, TypeOK, Dummy
    <3>3. QED
      BY <3>1, <3>2
  <2>5. FrameLen * Len(flight') = FrameLen * Len(flight) + FrameLen
    BY <1>2, <2>4
  <2>6. kernel' + unwritten' = FrameLen * Len(flight')
    <3>1. kernel + unwritten = FrameLen * Len(flight)
      BY <1>1 DEF ByteInv
    <3>2. kernel' + unwritten' = (kernel + unwritten) + FrameLen
      BY <1>2, <2>2, <2>3
    <3>3. QED
      BY <2>5, <3>1, <3>2
  <2>7. QED
    BY <1>1, <1>2, <2>2, <2>3, <2>6 DEF ByteInv, Live
<1>4. ASSUME NEW o \in Outcomes, NEW b \in Nat, b <= kernel + unwritten,
             DropFlow(o, b), UNCHANGED <<peerDone, readerDone, realEmitted, sent>>,
             o = "drained" => readerDone /\ realEmitted = sent, slot = "live", pc' = "sleep"
      PROVE  ByteInv'
  <2>1. /\ kernel' = FrameLen * Len(flight') /\ kernel' \in Nat /\ unwritten' = 0 /\ slot' = o
    BY <1>1, <1>4, DropKeepsPrefix
  <2>2. ~peerDone /\ o # "live"
    BY <1>1, <1>4 DEF ByteInv, Live, Outcomes
  <2>3. QED
    BY <1>2, <1>4, <2>1, <2>2 DEF ByteInv, Live
<1>5. CASE ServiceEnd
  <2>1. PICK n \in Nat :
           /\ n <= unwritten
           /\ \/ readerDone /\ TailMet(unwritten - n) /\ DropFlow("drained", kernel + n)
              \/ readerDone /\ now >= finishBy /\ DropFlow("backstop", kernel + n)
              \/ KeepFlow(n)
    BY <1>1, <1>5, ServiceEndCases
  <2>2. /\ UNCHANGED <<peerDone, readerDone, realEmitted, sent>> /\ slot = "live"
        /\ pc' = "sleep"
    BY <1>1, <1>5 DEF ServiceEnd, serviceEndFrame, peerVars, eofVars, readerVars, ByteInv, Live
  <2>3. kernel + n \in Nat /\ kernel + n <= kernel + unwritten
    BY <1>2, <2>1
  <2>4. readerDone /\ TailMet(unwritten - n) => realEmitted = sent
    BY <1>1, <2>2, EmptySeq DEF TailMet, BufferInv, Live, TypeOK
  <2>5. CASE readerDone /\ TailMet(unwritten - n) /\ DropFlow("drained", kernel + n)
    BY <1>4, <2>2, <2>3, <2>4, <2>5 DEF Outcomes
  <2>6. CASE DropFlow("backstop", kernel + n)
    BY <1>4, <2>2, <2>3, <2>6 DEF Outcomes
  <2>7. CASE KeepFlow(n)
    BY <1>1, <1>2, <2>1, <2>2, <2>7 DEF KeepFlow, ByteInv, Live
  <2>8. QED
    BY <2>1, <2>5, <2>6, <2>7
<1>6. CASE ServiceWireError
  <2>1. /\ DropFlow("wireError", 0) /\ UNCHANGED <<peerDone, readerDone, realEmitted, sent>>
        /\ slot = "live" /\ 0 <= kernel + unwritten /\ pc' = "sleep"
    BY <1>1, <1>2, <1>6 DEF ServiceWireError, serviceEndFrame, peerVars, eofVars, readerVars,
       ByteInv, Live
  <2>2. QED
    BY <1>4, <2>1 DEF Outcomes
<1>7. CASE PeerRead
  <2>1. /\ kernel >= FrameLen /\ kernel' = kernel - FrameLen /\ flight' = Tail(flight)
        /\ UNCHANGED <<slot, pc, unwritten, peerDone, readerDone, realEmitted, sent>>
    BY <1>7 DEF PeerRead, senderVars, readerVars, eofVars
  <2>2. flight # <<>>
    BY <1>1, <1>2, <2>1 DEF ByteInv, TypeOK
  <2>3. Len(flight) \in Nat \ {0} /\ Len(flight') = Len(flight) - 1
    BY <1>1, <2>1, <2>2, EmptySeq, HeadTailProperties DEF TypeOK
  <2>4. FrameLen * (Len(flight) - 1) = FrameLen * Len(flight) - FrameLen
    BY <1>2
  <2>5. QED
    BY <1>1, <1>2, <2>1, <2>3, <2>4 DEF ByteInv, Live
<1>8. CASE Wake
  <2>1. /\ Live /\ UNCHANGED <<slot, unwritten, kernel, flight, peerDone, readerDone, realEmitted, sent>>
    BY <1>8 DEF Wake, readerVars, eofVars, peerVars
  <2>2. QED
    BY <1>1, <2>1 DEF ByteInv, Live
<1>9. CASE PeerEof
  BY <1>1, <1>9 DEF PeerEof, senderVars, readerVars, eofVars, ByteInv, Live
<1>10. CASE Reader
  <2>1. UNCHANGED <<slot, pc, unwritten, kernel, flight, peerDone, readerDone, realEmitted>>
    BY <1>10 DEF Reader, ReaderRead, ReaderSend, ReaderSendFails, ReaderEnds, flowVars,
       eofVars, peerVars
  <2>2. slot = "drained" => sent' = sent
    BY <1>10 DEF Reader, ReaderRead, ReaderSend, ReaderSendFails, ReaderEnds, Live
  <2>3. QED
    BY <1>1, <2>1, <2>2 DEF ByteInv, Live
<1>11. CASE WireBreaks \/ UNCHANGED vars
  BY <1>1, <1>11 DEF WireBreaks, senderVars, readerVars, eofVars, peerVars, vars, ByteInv, Live
<1>12. QED
  BY <1>3, <1>5, <1>6, <1>7, <1>8, <1>9, <1>10, <1>11 DEF Next, Emitter, Network, Slot

\* A frame moves at most one cell from the queue to the wire.
LEMMA EmitBalance ==
  ASSUME realEmitted \in Nat, NEW q \in Seq(Nat \ {0}), NEW iat \in Iats, NEW fd \in BOOLEAN,
         EmitFrame(q, iat, fd)
  PROVE  /\ realEmitted' + Len(queue') = realEmitted + Len(q)
         /\ realEmitted' \in Nat /\ Len(queue') \in Nat
<1>1. CASE ~fd /\ q # <<>>
  <2>1. queue' = Tail(q) /\ realEmitted' = realEmitted + 1
    BY <1>1 DEF EmitFrame
  <2>2. Len(q) \in Nat \ {0}
    BY <1>1, EmptySeq
  <2>3. Len(Tail(q)) = Len(q) - 1
    BY <1>1, HeadTailProperties
  <2>4. QED
    BY <2>1, <2>2, <2>3
<1>2. CASE ~(~fd /\ q # <<>>)
  <2>1. queue' = q /\ realEmitted' = realEmitted
    BY <1>2 DEF EmitFrame
  <2>2. QED
    BY <2>1
<1>3. QED
  BY <1>1, <1>2

\* Arithmetic of a slot at d <= n that moves the schedule to e, and of a wake.
LEMMA SlotArithmetic ==
  ASSUME NEW w \in Nat, NEW n \in Nat, NEW f \in Nat, NEW d \in Nat, NEW e \in Nat,
         w < d - f, d <= n, e >= d + 1
  PROVE  w + 1 <= n - f /\ w + 1 < e - f
OBVIOUS

LEMMA WakeArithmetic ==
  ASSUME NEW w \in Nat, NEW n \in Nat, NEW m \in Nat, NEW f \in Nat, w <= n - f, m >= n
  PROVE  w <= m - f
OBVIOUS

LEMMA StartArithmetic ==
  ASSUME NEW n \in Nat, NEW e \in Nat, e >= n + 1
  PROVE  0 <= n - n /\ 0 < e - n
OBVIOUS

\* Every step keeps the schedule behind the wall clock.
LEMMA ClockStep == IInv /\ [Next]_vars => ClockInv'
<1> SUFFICES ASSUME IInv, [Next]_vars PROVE ClockInv'
  OBVIOUS
<1>1. TypeOK /\ ClockInv /\ ByteInv
  BY DEF IInv
<1>2. /\ now \in Nat /\ firstService \in Nat /\ nextDeparture \in Nat /\ wireSeq \in Nat
      /\ realEmitted \in Nat /\ Len(queue) \in Nat
  BY <1>1 DEF TypeOK
<1>3. CASE Slot
  <2>1. PICK q \in Seq(Nat \ {0}), iat \in Iats, fd \in BOOLEAN :
              /\ EmitFrame(q, iat, fd)
              /\ Len(q) = Len(queue) \/ (Len(q) = Len(queue) + 1 /\ gate)
    BY <1>3, SlotEffect
  <2>2. /\ UNCHANGED <<clockStarted, firstService, now, pc>> /\ nextDeparture <= now
        /\ slot = "live" /\ slot' = slot /\ clockStarted /\ pc = "service"
    BY <1>1, <1>2, <1>3, SlotFrame, SlotEffect
       DEF timeVars, SlotLoop, SlotReady, Live, ClockInv
  <2>3. wireSeq' = wireSeq + 1 /\ nextDeparture' \in Nat /\ nextDeparture' >= nextDeparture + 1
    BY <1>1, <2>1, EmitTypes DEF EmitFrame
  <2>4. realEmitted' + Len(queue') = realEmitted + Len(q) /\ realEmitted' \in Nat
        /\ Len(queue') \in Nat
    BY <1>2, <2>1, EmitBalance
  <2>5. realEmitted + Len(queue) <= wireSeq
    BY <1>1, <2>2 DEF ClockInv, Live
  <2>6. realEmitted' + Len(queue') <= wireSeq + 1
    BY <1>2, <2>1, <2>4, <2>5
  <2>7. wireSeq + 1 <= now - firstService /\ wireSeq + 1 < nextDeparture' - firstService
    <3>1. wireSeq < nextDeparture - firstService
      BY <1>1, <2>2 DEF ClockInv
    <3>2. QED
      BY <1>2, <2>2, <2>3, <3>1, SlotArithmetic
  <2>8. clockStarted'
    BY <2>2
  <2>9. wireSeq' <= now' - firstService' /\ wireSeq' < nextDeparture' - firstService'
    BY <2>2, <2>3, <2>7
  <2>10. realEmitted' + Len(queue') <= wireSeq' /\ realEmitted' <= wireSeq'
    BY <1>2, <2>3, <2>4, <2>6
  <2>11. QED
    BY <2>8, <2>9, <2>10 DEF ClockInv
<1>4. CASE Wake
  <2>1. /\ now' \in Nat /\ now' >= now
        /\ UNCHANGED <<wireSeq, realEmitted, queue, slot>> /\ pc = "sleep"
    BY <1>2, <1>4, FlowAssumption DEF Wake
  <2>2. /\ Live' => realEmitted' + Len(queue') <= wireSeq'
        /\ realEmitted' <= wireSeq'
    BY <1>1, <2>1 DEF ClockInv, Live
  <2>3. CASE clockStarted
    <3>1. UNCHANGED <<clockStarted, firstService, nextDeparture>>
      BY <1>4, <2>3 DEF Wake, clockVars
    <3>2. wireSeq <= now - firstService /\ wireSeq < nextDeparture - firstService
      BY <1>1, <2>3 DEF ClockInv
    <3>3. wireSeq' <= now' - firstService' /\ wireSeq' < nextDeparture' - firstService'
      <4>1. wireSeq <= now' - firstService
        BY <1>2, <2>1, <3>2, WakeArithmetic
      <4>2. QED
        BY <2>1, <3>1, <3>2, <4>1
    <3>4. clockStarted'
      BY <2>3, <3>1
    <3>5. QED
      BY <2>2, <3>3, <3>4 DEF ClockInv
  <2>4. CASE ~clockStarted
    <3>1. /\ clockStarted' /\ firstService' = now' /\ nextDeparture' >= now' + 1
          /\ nextDeparture' \in Nat
      BY <1>4, <2>1, <2>4, ClockAdvances DEF Wake
    <3>2. wireSeq = 0
      BY <1>1, <2>4 DEF ClockInv
    <3>3. wireSeq' <= now' - firstService' /\ wireSeq' < nextDeparture' - firstService'
      <4>1. now' \in Nat /\ firstService' = now' /\ nextDeparture' \in Nat /\ wireSeq' = 0
        BY <2>1, <3>1, <3>2
      <4>2. nextDeparture' >= now' + 1
        BY <3>1
      <4>3. 0 <= now' - now' /\ 0 < nextDeparture' - now'
        BY <4>1, <4>2, StartArithmetic
      <4>4. QED
        BY <4>1, <4>3
    <3>4. QED
      BY <2>2, <3>1, <3>3 DEF ClockInv
  <2>5. QED
    BY <2>3, <2>4
<1>5. CASE ServiceEnd \/ ServiceWireError
  <2>1. /\ UNCHANGED <<now, firstService, nextDeparture, clockStarted, wireSeq, realEmitted>>
        /\ pc' = "sleep" /\ slot = "live"
    BY <1>1, <1>5 DEF ServiceEnd, ServiceWireError, serviceEndFrame, timeVars, clockVars,
       ByteInv, Live
  <2>2. slot' # "live" \/ queue' = queue
    <3>1. CASE ServiceEnd
      BY <1>1, <3>1, ServiceEndCases DEF DropFlow, KeepFlow
    <3>2. CASE ServiceWireError
      BY <3>2 DEF ServiceWireError, DropFlow
    <3>3. QED
      BY <1>5, <3>1, <3>2
  <2>3. QED
    BY <1>1, <1>2, <2>1, <2>2 DEF ClockInv, Live
<1>6. CASE Reader \/ Network \/ UNCHANGED vars
  <2>1. UNCHANGED <<now, firstService, nextDeparture, clockStarted, wireSeq, realEmitted,
                    queue, slot, pc>>
    BY <1>6 DEF Reader, ReaderRead, ReaderSend, ReaderSendFails, ReaderEnds, Network,
       PeerRead, PeerEof, WireBreaks, flowVars, senderVars, timeVars, clockVars, vars
  <2>2. QED
    BY <1>1, <2>1 DEF ClockInv, Live
<1>7. QED
  BY <1>3, <1>4, <1>5, <1>6 DEF Next, Emitter, Slot

\* Every step keeps the entry gate and the exit instants.
LEMMA GateStep == IInv /\ [Next]_vars => GateInv'
<1> SUFFICES ASSUME IInv, [Next]_vars PROVE GateInv'
  OBVIOUS
<1>1. TypeOK /\ GateInv /\ ByteInv
  BY DEF IInv
<1>2. /\ now \in Nat /\ realEmitted \in Nat /\ Len(queue) \in Nat /\ finishBy \in Nat
      /\ HoldUntil \in Nat
  <2>1. sessionStart \in Nat
    BY <1>1 DEF TypeOK
  <2>2. NextBoundary(sessionStart) \in Nat
    BY <2>1, BoundaryAfter
  <2>3. HoldUntil \in Nat
    BY <2>1, <2>2 DEF HoldUntil
  <2>4. QED
    BY <1>1, <2>3 DEF TypeOK
<1>3. CASE Slot
  <2>1. PICK q \in Seq(Nat \ {0}), iat \in Iats, fd \in BOOLEAN :
              /\ EmitFrame(q, iat, fd)
              /\ Len(q) = Len(queue) \/ (Len(q) = Len(queue) + 1 /\ gate)
    BY <1>3, SlotEffect
  <2>2. /\ UNCHANGED <<now, sessionStart, gate, slot>> /\ slot = "live"
    BY <1>3, SlotFrame, SlotEffect DEF timeVars, Live
  <2>3. realEmitted' + Len(queue') = realEmitted + Len(q)
    BY <1>2, <2>1, EmitBalance
  <2>4. HoldUntil' = HoldUntil
    BY <2>2 DEF HoldUntil
  <2>5. realEmitted' + Len(queue') > 0 => now >= HoldUntil
    BY <1>1, <1>2, <2>1, <2>3 DEF GateInv
  <2>6. CASE SlotSeesEof
    <3>1. /\ tail' = TailTargets(realBytes, wireSeq, thresholds, sessionStart, now)
          /\ finishBy' = Backstop(tail', now, Grace) /\ eofSeen' = now
      BY <2>6 DEF SlotSeesEof
    <3>2. /\ Policy \in {"Off", "Epoch"} => finishBy' >= now + Grace
          /\ Policy = "Epoch" => tail'.deadline >= NextBoundary(now) /\ finishBy' >= tail'.deadline
      BY <1>1, <3>1, TailTargetsBounds DEF TypeOK
    <3>3. QED
      BY <1>1, <2>2, <2>4, <2>5, <3>1, <3>2 DEF GateInv
  <2>7. CASE SlotPullsCell \/ SlotWithoutPull
    <3>1. UNCHANGED <<readerDone, tail, finishBy, eofSeen>>
      BY <2>7 DEF SlotPullsCell, SlotWithoutPull, eofVars
    <3>2. QED
      BY <1>1, <2>2, <2>4, <2>5, <3>1 DEF GateInv
  <2>8. QED
    BY <1>3, <2>6, <2>7 DEF Slot
<1>4. CASE Wake
  <2>1. /\ now' \in Nat /\ now' >= now /\ gate' = (now' >= HoldUntil)
        /\ UNCHANGED <<sessionStart, slot, queue, realEmitted, readerDone, tail, finishBy, eofSeen>>
    BY <1>2, <1>4, FlowAssumption DEF Wake, HoldUntil, eofVars
  <2>2. HoldUntil' = HoldUntil /\ slot = "live"
    BY <1>4, <2>1 DEF HoldUntil, Wake, Live
  <2>3. gate' => now' >= HoldUntil'
    BY <2>1, <2>2
  <2>4. realEmitted' + Len(queue') > 0 => now' >= HoldUntil'
    <3>1. realEmitted + Len(queue) > 0 => now >= HoldUntil
      BY <1>1 DEF GateInv
    <3>2. QED
      BY <1>2, <2>1, <2>2, <3>1
  <2>5. QED
    BY <1>1, <2>1, <2>2, <2>3, <2>4 DEF GateInv
<1>5. CASE ServiceEnd
  <2>1. PICK n \in Nat :
           /\ n <= unwritten
           /\ \/ readerDone /\ TailMet(unwritten - n) /\ DropFlow("drained", kernel + n)
              \/ readerDone /\ now >= finishBy /\ DropFlow("backstop", kernel + n)
              \/ KeepFlow(n)
    BY <1>1, <1>5, ServiceEndCases
  <2>2. UNCHANGED <<now, sessionStart, gate, realEmitted, readerDone, tail, finishBy, eofSeen>>
    BY <1>5 DEF ServiceEnd, serviceEndFrame, timeVars, eofVars
  <2>3. HoldUntil' = HoldUntil
    BY <2>2 DEF HoldUntil
  <2>4. queue' = <<>> \/ queue' = queue
    BY <2>1 DEF DropFlow, KeepFlow
  <2>5. realEmitted' + Len(queue') > 0 => now >= HoldUntil
    BY <1>1, <1>2, <2>2, <2>4 DEF GateInv
  <2>6. /\ slot' = "backstop" => readerDone /\ now >= finishBy
        /\ slot' = "drained" => now >= tail.deadline
    BY <1>1, <2>1 DEF GateInv, DropFlow, KeepFlow, TailMet
  <2>7. QED
    BY <1>1, <2>2, <2>3, <2>5, <2>6 DEF GateInv
<1>6. CASE ServiceWireError
  <2>1. /\ UNCHANGED <<now, sessionStart, gate, realEmitted, readerDone, tail, finishBy, eofSeen>>
        /\ queue' = <<>> /\ slot' = "wireError"
    BY <1>6 DEF ServiceWireError, DropFlow, serviceEndFrame, timeVars, eofVars
  <2>2. HoldUntil' = HoldUntil
    BY <2>1 DEF HoldUntil
  <2>3. realEmitted' + Len(queue') > 0 => now >= HoldUntil
    BY <1>1, <1>2, <2>1 DEF GateInv
  <2>4. QED
    BY <1>1, <2>1, <2>2, <2>3 DEF GateInv
<1>7. CASE Reader \/ Network \/ UNCHANGED vars
  <2>1. UNCHANGED <<now, sessionStart, gate, slot, queue, realEmitted, readerDone, tail,
                    finishBy, eofSeen>>
    BY <1>7 DEF Reader, ReaderRead, ReaderSend, ReaderSendFails, ReaderEnds, Network,
       PeerRead, PeerEof, WireBreaks, flowVars, senderVars, timeVars, eofVars, vars
  <2>2. QED
    BY <1>1, <2>1 DEF GateInv, HoldUntil
<1>8. QED
  BY <1>3, <1>4, <1>5, <1>6, <1>7 DEF Next, Emitter, Slot

-----------------------------------------------------------------------------
(* The theorems.                                                           *)

\* Every step preserves the inductive invariant.
LEMMA InvariantStep == IInv /\ [Next]_vars => IInv'
BY TypeStep, ReaderStep, BufferStep, FlightStep, ByteStep, ClockStep, GateStep DEF IInv

\* The inductive invariant holds of every flow.
THEOREM Invariance == Spec => []IInv
BY InitInv, InvariantStep, PTL DEF Spec

\* Type correctness of the flow.
THEOREM TypeCorrect == Spec => []TypeOK
<1>1. IInv => TypeOK
  BY DEF IInv
<1>2. QED
  BY <1>1, Invariance, PTL

\* Real cells are forwarded in order, once each, without gaps.
THEOREM DeliveryInOrder == Spec => []InOrderDelivery
<1>1. IInv => InOrderDelivery
  BY DEF IInv, FlightInv
<1>2. QED
  BY <1>1, Invariance, PTL

\* Once a drained flow has less than a frame on the way, its peer has everything.
LEMMA DrainedIsComplete ==
  ASSUME IInv, slot = "drained", kernel < FrameLen
  PROVE  Len(received) = Len(input)
<1>1. TypeOK /\ ReaderInv /\ FlightInv /\ ByteInv
  BY DEF IInv
<1>2. realEmitted = Len(input)
  BY <1>1 DEF ByteInv, ReaderInv
<1>3. /\ kernel \in Nat /\ Len(flight) \in Nat /\ Len(received) \in Nat /\ Len(input) \in Nat
      /\ FrameLen \in Nat \ {0}
  BY <1>1, FlowAssumption DEF TypeOK
<1>4. kernel = FrameLen * Len(flight)
  BY <1>1, <1>3 DEF ByteInv, Live, TypeOK
<1>5. Len(flight) = 0
  BY <1>3, <1>4
<1>6. ~(Len(received) < realEmitted)
  BY <1>1, <1>2, <1>3, <1>5 DEF FlightInv
<1>7. QED
  BY <1>1, <1>2, <1>3, <1>6 DEF FlightInv

\* A flow that closes as drained has delivered everything its source gave.
THEOREM OrderlyClose == Spec => []OrderlyCloseIsComplete
<1>1. IInv => OrderlyCloseIsComplete
  BY DrainedIsComplete DEF IInv, ByteInv, OrderlyCloseIsComplete
<1>2. QED
  BY <1>1, Invariance, PTL

\* pending stays below its cap plus one frame.
THEOREM PendingIsBounded == Spec => []PendingBounded
<1>1. IInv => PendingBounded
  BY DEF IInv, ByteInv, PendingBounded
<1>2. QED
  BY <1>1, Invariance, PTL

\* Neither the cover nor the intake of real cells outruns the clock.
THEOREM ThroughputIsCapped == Spec => []ThroughputCap
<1>1. IInv => ThroughputCap
  BY DEF IInv, ClockInv, BufferInv, TypeOK, ThroughputCap
<1>2. QED
  BY <1>1, Invariance, PTL

\* No real cell is emitted before the entry gate opens.
THEOREM EntryGate == Spec => []EntryGateHolds
<1>1. IInv => EntryGateHolds
  BY DEF IInv, GateInv, TypeOK, EntryGateHolds
<1>2. QED
  BY <1>1, Invariance, PTL

\* Under the Epoch policy a flow ends on or after an epoch boundary that
\* follows the end of its source.
THEOREM EpochExit == Spec => []ExitOnBoundary
<1>1. IInv => ExitOnBoundary
  <2> SUFFICES ASSUME IInv, Policy = "Epoch", slot \in {"drained", "backstop"}
               PROVE  now >= NextBoundary(eofSeen)
    BY DEF ExitOnBoundary
  <2>1. readerDone
    BY DEF IInv, GateInv, ByteInv
  <2>2. /\ tail.deadline >= NextBoundary(eofSeen) /\ finishBy >= tail.deadline
        /\ now >= tail.deadline \/ now >= finishBy
    BY <2>1 DEF IInv, GateInv
  <2>3. /\ now \in Nat /\ finishBy \in Nat /\ tail.deadline \in Nat
        /\ NextBoundary(eofSeen) \in Nat
    BY BoundaryAfter DEF IInv, TypeOK
  <2>4. QED
    BY <2>2, <2>3
<1>2. QED
  BY <1>1, Invariance, PTL

\* With no tail, or an epoch tail, a flow is never cut off before the grace
\* period has passed.
THEOREM GraceIsGiven ==
  ASSUME Policy \in {"Off", "Epoch"}
  PROVE  Spec => []GraceBeforeForcedClose
<1>1. IInv => GraceBeforeForcedClose
  BY FlowAssumption DEF IInv, GateInv, TypeOK, GraceBeforeForcedClose
<1>2. QED
  BY <1>1, Invariance, PTL

-----------------------------------------------------------------------------
(* The flow implements the abstract pipe.                                  *)

\* What the invariant does not say of a flow that was cut: all it has emitted was
\* sent by the reader.
EmittedWasSent == realEmitted <= sent

LEMMA EmittedInit == Init => EmittedWasSent
BY DEF Init, EmittedWasSent

\* A live flow has its cells from the channel, and a dropped one emits nothing.
LEMMA EmittedStep == IInv /\ EmittedWasSent /\ [Next]_vars => EmittedWasSent'
<1> SUFFICES ASSUME IInv, EmittedWasSent, [Next]_vars PROVE EmittedWasSent'
  OBVIOUS
<1>1. CASE slot' = "live"
  <2>1. BufferInv' /\ TypeOK'
    BY InvariantStep DEF IInv
  <2>2. sent' = realEmitted' + Len(queue') + Len(channel')
    BY <1>1, <2>1 DEF BufferInv, Live
  <2>3. /\ sent' \in Nat /\ realEmitted' \in Nat
        /\ queue' \in Seq(Nat \ {0}) /\ channel' \in Seq(Nat \ {0})
    BY <2>1 DEF TypeOK
  <2>4. Len(queue') \in Nat /\ Len(channel') \in Nat
    BY <2>3, LenProperties
  <2>5. QED
    BY <2>2, <2>3, <2>4 DEF EmittedWasSent
<1>2. CASE slot' # "live"
  <2>1. CASE Slot \/ Wake \/ ReaderSend
    <3>1. slot = "live" /\ slot' = slot
      BY <2>1, SlotFrame, SlotEffect DEF Live, Wake, ReaderSend, flowVars
    <3>2. QED
      BY <1>2, <3>1
  <2>2. CASE ~(Slot \/ Wake \/ ReaderSend)
    <3>1. UNCHANGED <<sent, realEmitted>>
      BY <2>2 DEF Next, Emitter, Slot, ServiceEnd, ServiceWireError, serviceEndFrame,
         readerVars, Reader, ReaderRead, ReaderSendFails, ReaderEnds, flowVars, Network,
         PeerRead, PeerEof, WireBreaks, senderVars, vars
    <3>2. QED
      BY <3>1 DEF EmittedWasSent
  <2>3. QED
    BY <2>1, <2>2
<1>3. QED
  BY <1>1, <1>2

\* A flow is dropped at most once, and only a service that is under way does it.
LEMMA SlotCloses ==
  ASSUME IInv, [Next]_vars, slot' # slot
  PROVE  /\ slot = "live" /\ slot' \in Outcomes
         /\ UNCHANGED <<input, received, peerDone>>
<1>1. ServiceEnd \/ ServiceWireError
  BY DEF Next, Emitter, Wake, SlotPullsCell, SlotSeesEof, SlotWithoutPull, TickSlot,
     Reader, ReaderRead, ReaderSend, ReaderSendFails, ReaderEnds, flowVars, Network,
     PeerRead, PeerEof, WireBreaks, senderVars, vars
<1>2. slot = "live"
  BY <1>1 DEF IInv, ByteInv, Live, ServiceEnd, ServiceWireError
<1>3. UNCHANGED <<input, received, peerDone>>
  BY <1>1 DEF ServiceEnd, ServiceWireError, serviceEndFrame, readerVars, peerVars
<1>4. slot' \in Outcomes
  BY <1>1 DEF ServiceEnd, ServiceWireError, KeepFlow, DropFlow, Outcomes
<1>5. QED
  BY <1>2, <1>3, <1>4

\* A read of the source offers cells.
LEMMA ReadOffers ==
  ASSUME IInv, ReaderRead
  PROVE  Pipe!Offer
<1>1. TypeOK /\ ReaderInv /\ ByteInv
  BY DEF IInv
<1>2. PICK chunks \in Reads : input' = input \o chunks
  BY DEF ReaderRead
<1>3. chunks \in Seq(Nat) /\ chunks # <<>>
  BY <1>2, FlowAssumption
<1>4. Len(chunks) \in Nat \ {0} /\ Len(input) \in Nat
  BY <1>1, <1>3, EmptySeq DEF TypeOK
<1>5. Len(input') = Len(input) + Len(chunks)
  BY <1>1, <1>2, <1>3, ConcatProperties DEF TypeOK
<1>6. PipeState # "complete"
  BY <1>1 DEF ReaderRead, ReaderInv, ByteInv, PipeState
<1>7. UNCHANGED <<slot, received, peerDone>>
  BY DEF ReaderRead, flowVars, peerVars
<1>8. QED
  BY <1>4, <1>5, <1>6, <1>7 DEF Pipe!Offer, PipeState

\* A frame that the peer reads is a dummy, or delivers the next cell.
LEMMA ReadDelivers ==
  ASSUME IInv, IInv', EmittedWasSent, PeerRead
  PROVE  Pipe!Deliver \/ UNCHANGED Pipe!pipeVars
<1>1. TypeOK /\ ReaderInv /\ FlightInv /\ ByteInv /\ FlightInv'
  BY DEF IInv
<1>2. UNCHANGED <<input, slot, peerDone, sent, realEmitted>>
  BY DEF PeerRead, senderVars, readerVars
<1>3. CASE Head(flight) = Dummy
  BY <1>2, <1>3 DEF PeerRead, Pipe!pipeVars, PipeState
<1>4. CASE Head(flight) # Dummy
  <2>1. received' = Append(received, Head(flight))
    BY <1>4 DEF PeerRead
  <2>2. kernel \in Nat /\ unwritten \in Nat /\ Len(flight) \in Nat /\ FrameLen \in Nat \ {0}
        /\ kernel >= FrameLen
    BY <1>1, FlowAssumption DEF PeerRead, TypeOK
  <2>3. ~peerDone
    BY <1>1, <2>2 DEF ByteInv
  <2>4. flight # <<>> /\ Head(flight) = flight[1] /\ 1 \in 1 .. Len(flight)
    <3>1. kernel + unwritten = FrameLen * Len(flight)
      BY <1>1 DEF ByteInv
    <3>2. Len(flight) # 0
      BY <2>2, <3>1
    <3>3. QED
      BY <1>1, <2>2, <3>2, EmptySeq, HeadTailProperties DEF TypeOK
  <2>5. Len(received) < Head(flight) /\ Head(flight) <= realEmitted
    BY <1>1, <1>4, <2>4 DEF FlightInv
  <2>6. /\ Len(received) \in Nat /\ Head(flight) \in Nat /\ realEmitted \in Nat
        /\ sent \in Nat /\ Len(input) \in Nat
    BY <1>1, <2>4, HeadTailProperties DEF TypeOK
  <2>7. Len(received) < Len(input)
    BY <1>1, <2>5, <2>6 DEF ReaderInv, EmittedWasSent
  <2>8. Head(flight) = Len(received) + 1
    <3>1. /\ Len(received') = Len(received) + 1
          /\ received'[Len(received) + 1] = Head(flight)
      BY <1>1, <2>1, <2>6, AppendProperties DEF TypeOK
    <3>2. received'[Len(received) + 1] = Len(received) + 1
      BY <1>1, <2>6, <3>1 DEF FlightInv, InOrderDelivery
    <3>3. QED
      BY <3>1, <3>2
  <2>9. QED
    BY <1>2, <2>1, <2>3, <2>7, <2>8 DEF Pipe!Deliver, PipeState
<1>5. QED
  BY <1>3, <1>4

\* The peer sees the end of the stream when the pipe is closed, and has everything
\* if the flow was drained.
LEMMA EofEnds ==
  ASSUME IInv, PeerEof
  PROVE  Pipe!End
<1>1. UNCHANGED <<input, slot, received>> /\ peerDone' = TRUE /\ ~peerDone /\ slot # "live"
  BY DEF PeerEof, senderVars, readerVars, Live
<1>2. slot = "drained" => Len(received) = Len(input)
  BY DrainedIsComplete DEF PeerEof
<1>3. QED
  BY <1>1, <1>2 DEF Pipe!End, PipeState

\* The shaped flow, with its clocks, buffers and cover, implements an in-order pipe:
\* every step is one of the pipe or invisible to the two applications.
THEOREM FlowIsAPipe == Spec => ImplementsPipe
<1>1. Init => Pipe!Init
  <2> SUFFICES ASSUME Init PROVE Pipe!Init
    OBVIOUS
  <2>1. QED
    BY EmptySeq DEF Init, Pipe!Init, PipeState
<1>2. IInv /\ IInv' /\ EmittedWasSent /\ [Next]_vars => [Pipe!Next]_(Pipe!pipeVars)
  <2> SUFFICES ASSUME IInv, IInv', EmittedWasSent, [Next]_vars
               PROVE  Pipe!Next \/ UNCHANGED Pipe!pipeVars
    OBVIOUS
  <2>1. CASE slot' # slot
    <3>1. PipeState = "open" /\ PipeState' \in {"complete", "cut"}
      BY <2>1, SlotCloses DEF PipeState, Outcomes
    <3>2. Pipe!Close
      BY <2>1, <3>1, SlotCloses DEF Pipe!Close
    <3>3. QED
      BY <3>2 DEF Pipe!Next
  <2>2. CASE ReaderRead
    BY <2>2, ReadOffers DEF Pipe!Next
  <2>3. CASE PeerRead
    BY <2>3, ReadDelivers DEF Pipe!Next
  <2>4. CASE PeerEof
    BY <2>4, EofEnds DEF Pipe!Next
  <2>5. CASE slot' = slot /\ ~(ReaderRead \/ PeerRead \/ PeerEof)
    <3>1. UNCHANGED <<input, received, peerDone>>
      BY <2>5 DEF Next, Emitter, Wake, SlotPullsCell, SlotSeesEof, SlotWithoutPull, TickSlot,
         ServiceEnd, ServiceWireError, serviceEndFrame, Reader, ReaderSend, ReaderSendFails,
         ReaderEnds, Network, WireBreaks, senderVars, readerVars, peerVars, vars
    <3>2. QED
      BY <2>5, <3>1 DEF Pipe!pipeVars, PipeState
  <2>6. QED
    BY <2>1, <2>2, <2>3, <2>4, <2>5
<1>3. Spec => []EmittedWasSent
  BY EmittedInit, EmittedStep, Invariance, PTL DEF Spec
<1>4. QED
  BY <1>1, <1>2, <1>3, Invariance, PTL DEF Spec, ImplementsPipe, Pipe!Spec

-----------------------------------------------------------------------------
(* The class of the whole source (policy ByClass).                         *)

\* The bytes counted are those of the cells taken from the channel; what is fixed
\* when the end of the source is seen is the tail of all of them.
Pulled == SubSeq(input, 1, sent - Len(channel))
ClassTail(class) == [deadline |-> sessionStart + TargetDuration[class], vol |-> TargetCells[class]]
ClassInv ==
  /\ Live => realBytes = Total(Pulled)
  /\ readerDone => realBytes = TotalBytes
  /\ readerDone /\ Policy = "ByClass" =>
       /\ tail = ClassTail(Classify(thresholds, realBytes))
       /\ finishBy = tail.deadline + Grace
  /\ slot = "drained" => wireSeq >= tail.vol

LEMMA SumIsTotal == \A s : SumSeq(s) = Total(s)
BY DEF SumSeq, Total

LEMMA LongerPart ==
  ASSUME NEW s \in Seq(Nat), NEW k \in Nat, k + 1 <= Len(s)
  PROVE  /\ SubSeq(s, 1, k) \in Seq(Nat) /\ s[k + 1] \in Nat
         /\ SubSeq(s, 1, k + 1) = Append(SubSeq(s, 1, k), s[k + 1])
<1>1. Len(s) \in Nat /\ \A i \in 1 .. Len(s) : s[i] \in Nat
  BY LenProperties, ElementOfSeq
<1>2. k + 1 \in 1 .. Len(s) /\ s[k + 1] \in Nat
  BY <1>1
<1> DEFINE b == SubSeq(s, 1, k)
<1>3. b \in Seq(Nat)
  <2>1. \A i \in 1 .. k : s[i] \in Nat
    BY <1>1
  <2>2. QED
    BY <1>1, <2>1, SubSeqProperties
<1>4. SubSeq(s, 1, k + 1) = SubSeq(s, 1, (k + 1) - 1) \o <<s[k + 1]>>
  BY <1>1, <1>2, SubSeqRecursiveSecond
<1>5. (k + 1) - 1 = k
  OBVIOUS
<1>6. SubSeq(s, 1, k + 1) = b \o <<s[k + 1]>>
  BY <1>4, <1>5, Zenon
<1> HIDE DEF b
<1>7. b \o <<s[k + 1]>> = Append(b, s[k + 1])
  BY <1>2, <1>3, AppendIsConcat
<1>8. QED
  BY <1>2, <1>3, <1>6, <1>7 DEF b

\* A longer input begins like the one before.
LEMMA SamePart ==
  ASSUME NEW s \in Seq(Nat), NEW t \in Seq(Nat), NEW k \in Nat, k <= Len(s)
  PROVE  SubSeq(s \o t, 1, k) = SubSeq(s, 1, k)
<1> DEFINE u == s \o t
<1>1. /\ Len(s) \in Nat /\ u \in Seq(Nat) /\ Len(u) = Len(s) + Len(t) /\ Len(t) \in Nat
      /\ \A i \in 1 .. Len(s) : u[i] = s[i]
  BY LenProperties, ConcatProperties
<1> HIDE DEF u
<1>2. \A i \in 1 .. k : s[i] \in Nat /\ u[i] \in Nat /\ u[i] = s[i]
  BY <1>1, ElementOfSeq
<1> DEFINE a == SubSeq(s, 1, k)  b == SubSeq(u, 1, k)
<1>3. /\ a \in Seq(Nat) /\ Len(a) = k /\ \A i \in 1 .. k : a[i] = s[i]
  BY <1>2, SubSeqProperties
<1>4. /\ b \in Seq(Nat) /\ Len(b) = k /\ \A i \in 1 .. k : b[i] = u[i]
  BY <1>2, SubSeqProperties
<1> HIDE DEF a, b
<1>5. \A i \in 1 .. Len(a) : a[i] = b[i]
  BY <1>2, <1>3, <1>4
<1>6. a = b
  BY <1>3, <1>4, <1>5, SeqEqual
<1>7. QED
  BY <1>6 DEF a, b, u

LEMMA ClassStarts == Init => ClassInv
<1> SUFFICES ASSUME Init PROVE ClassInv
  OBVIOUS
<1>1. /\ input = <<>> /\ sent = 0 /\ channel = <<>> /\ realBytes = 0 /\ readerDone = FALSE
      /\ slot = "live"
  BY DEF Init
<1>2. SubSeq(<<>>, 1, 0) = <<>>
  BY SubSeqEmpty
<1>3. Pulled = <<>>
  BY <1>1, <1>2 DEF Pulled
<1>4. QED
  BY <1>1, <1>3, TotalSteps DEF ClassInv

\* How many cells the emitter of a live flow has taken.
LEMMA PulledIs ==
  ASSUME IInv, Live
  PROVE  /\ input \in Seq(Nat) /\ Len(channel) \in Nat /\ sent - Len(channel) \in Nat
         /\ sent - Len(channel) <= Len(input)
         /\ channel # <<>> => /\ Head(channel) = sent - Len(channel) + 1
                              /\ Head(channel) <= Len(input)
<1>1. TypeOK /\ ReaderInv /\ BufferInv
  BY DEF IInv
<1>2. /\ input \in Seq(Nat) /\ channel \in Seq(Nat \ {0}) /\ sent \in Nat /\ sent <= Len(input)
      /\ Len(channel) \in Nat /\ Len(queue) \in Nat /\ realEmitted \in Nat /\ Len(input) \in Nat
  BY <1>1, LenProperties DEF TypeOK, ReaderInv
<1>3. /\ sent = realEmitted + Len(queue) + Len(channel)
      /\ \A i \in 1 .. Len(channel) : channel[i] = realEmitted + Len(queue) + i
  BY <1>1 DEF BufferInv
<1>4. channel # <<>> => Len(channel) >= 1 /\ Head(channel) = channel[1]
  BY <1>2, EmptySeq
<1>5. QED
  BY <1>2, <1>3, <1>4

\* Counting the bytes of the cell that is pulled.
LEMMA PullCounts ==
  ASSUME IInv, ClassInv, SlotPullsCell
  PROVE  realBytes' = Total(Pulled)'
<1>1. Live /\ TypeOK
  BY SlotEffect DEF IInv, Slot
<1> DEFINE k == sent - Len(channel)
<1>2. /\ input \in Seq(Nat) /\ Len(channel) \in Nat /\ k \in Nat /\ sent \in Nat
      /\ channel # <<>> /\ Head(channel) = k + 1 /\ k + 1 <= Len(input)
  BY <1>1, PulledIs DEF SlotPullsCell, TypeOK
<1>3. realBytes' = realBytes + input[k + 1] /\ input' = input
  BY <1>2 DEF SlotPullsCell, MayPull, TickSlot, readerVars
<1>4. sent' - Len(channel') = k + 1
  <2>1. Len(channel') = Len(channel) - 1 /\ sent' = sent
    BY <1>1, <1>2, PullFits DEF SlotPullsCell, TickSlot, readerVars
  <2>2. QED
    BY <1>2, <2>1
<1>5. realBytes = Total(SubSeq(input, 1, k))
  BY <1>1 DEF ClassInv, Pulled
<1>6. Total(Pulled)' = Total(SubSeq(input, 1, k + 1))
  BY <1>3, <1>4 DEF Pulled
<1> HIDE DEF k
<1>7. /\ SubSeq(input, 1, k) \in Seq(Nat) /\ input[k + 1] \in Nat
      /\ SubSeq(input, 1, k + 1) = Append(SubSeq(input, 1, k), input[k + 1])
  BY <1>2, LongerPart
<1>8. QED
  BY <1>3, <1>5, <1>6, <1>7, TotalSteps

LEMMA ClassStep == IInv /\ ClassInv /\ [Next]_vars => ClassInv'
<1> SUFFICES ASSUME IInv, ClassInv, [Next]_vars PROVE ClassInv'
  OBVIOUS
<1>1. TypeOK /\ ReaderInv /\ BufferInv /\ ByteInv
  BY DEF IInv
<1>2. CASE SlotPullsCell
  <2>1. /\ UNCHANGED <<sessionStart, slot, thresholds, input>> /\ slot = "live"
        /\ ~readerDone /\ UNCHANGED <<readerDone, tail, finishBy>>
    BY <1>2, SlotFrame, SlotEffect DEF Slot, timeVars, readerVars, Live, SlotPullsCell, MayPull, eofVars
  <2>2. QED
    BY <1>2, <2>1, PullCounts DEF ClassInv
<1>3. CASE SlotSeesEof
  <2>1. /\ UNCHANGED <<sessionStart, slot, thresholds, input, sent, channel, realBytes>>
        /\ slot = "live" /\ channel = <<>> /\ reader = "done"
    BY <1>3, SlotFrame, SlotEffect DEF Slot, timeVars, readerVars, Live, SlotSeesEof
  <2>2. sent = Len(input) /\ Len(channel) = 0 /\ input \in Seq(Nat)
    BY <1>1, <2>1 DEF ReaderInv, Live, TypeOK
  <2>3. Pulled = input
    <3>1. Pulled = SubSeq(input, 1, Len(input))
      <4>1. Len(input) - 0 = Len(input)
        BY <2>2, LenProperties
      <4>2. QED
        BY <2>2, <4>1 DEF Pulled
    <3>2. QED
      BY <2>2, <3>1, SubSeqFull
  <2>4. Live /\ realBytes = Total(Pulled)
    BY <2>1 DEF ClassInv, Live
  <2>5. realBytes = TotalBytes
    BY <2>3, <2>4, SumIsTotal DEF TotalBytes
  <2>6. TotalBytes' = TotalBytes /\ Pulled' = Pulled
    BY <2>1 DEF TotalBytes, Pulled
  <2>7. Policy = "ByClass" => /\ tail' = ClassTail(Classify(thresholds, realBytes))
                              /\ finishBy' = tail'.deadline + Grace
    BY <1>3 DEF SlotSeesEof, TailTargets, Backstop, ClassTail
  <2>8. ClassTail(Classify(thresholds, realBytes))' = ClassTail(Classify(thresholds, realBytes))
    BY <2>1 DEF ClassTail, Classify
  <2>9. QED
    BY <2>1, <2>4, <2>5, <2>6, <2>7, <2>8 DEF ClassInv
<1>4. CASE SlotWithoutPull
  <2>1. UNCHANGED <<sessionStart, slot, thresholds, input, sent, channel, realBytes,
                    readerDone, tail, finishBy>> /\ slot = "live"
    BY <1>4, SlotFrame, SlotEffect DEF Slot, timeVars, readerVars, Live, SlotWithoutPull, eofVars
  <2>2. TotalBytes' = TotalBytes /\ Pulled' = Pulled
    BY <2>1 DEF TotalBytes, Pulled
  <2>3. QED
    BY <2>1, <2>2 DEF ClassInv, ClassTail, Classify, Live
<1>5. CASE Wake
  <2>1. UNCHANGED <<sessionStart, slot, thresholds, input, sent, channel, realBytes,
                    readerDone, tail, finishBy, wireSeq>>
    BY <1>5 DEF Wake, readerVars, eofVars
  <2>2. TotalBytes' = TotalBytes /\ Pulled' = Pulled
    BY <2>1 DEF TotalBytes, Pulled
  <2>3. QED
    BY <2>1, <2>2 DEF ClassInv, ClassTail, Classify, Live
<1>6. CASE ServiceEnd \/ ServiceWireError
  <2>1. UNCHANGED <<sessionStart, thresholds, input, sent, realBytes, readerDone, tail,
                    finishBy, wireSeq>>
    BY <1>6 DEF ServiceEnd, ServiceWireError, serviceEndFrame, readerVars, eofVars, timeVars
  <2>2. /\ slot' = "live" => slot = "live" /\ channel' = channel
        /\ slot' = "drained" => slot = "drained" \/ wireSeq >= tail.vol
    <3>1. CASE ServiceEnd
      <4>1. PICK n \in Nat :
               /\ n <= unwritten
               /\ \/ readerDone /\ TailMet(unwritten - n) /\ DropFlow("drained", kernel + n)
                  \/ readerDone /\ now >= finishBy /\ DropFlow("backstop", kernel + n)
                  \/ KeepFlow(n)
        BY <1>1, <3>1, ServiceEndCases
      <4>2. QED
        BY <4>1 DEF DropFlow, KeepFlow, TailMet
    <3>2. CASE ServiceWireError
      BY <3>2 DEF ServiceWireError, DropFlow
    <3>3. QED
      BY <1>6, <3>1, <3>2
  <2>3. TotalBytes' = TotalBytes /\ (slot' = "live" => Pulled' = Pulled)
    BY <2>1, <2>2 DEF TotalBytes, Pulled
  <2>4. QED
    BY <2>1, <2>2, <2>3 DEF ClassInv, ClassTail, Classify, Live
<1>7. CASE ReaderRead
  <2>1. PICK chunks \in Reads : input' = input \o chunks
    BY <1>7 DEF ReaderRead
  <2>2. /\ UNCHANGED <<sessionStart, slot, thresholds, sent, channel, realBytes, readerDone,
                       tail, finishBy, wireSeq>> /\ ~readerDone
    BY <1>1, <1>7 DEF ReaderRead, timeVars, flowVars, eofVars, ReaderInv
  <2>3. ASSUME Live PROVE Pulled' = Pulled
    <3>1. chunks \in Seq(Nat)
      BY FlowAssumption
    <3>2. QED
      BY <2>1, <2>2, <2>3, <3>1, PulledIs, SamePart DEF Pulled
  <2>4. QED
    BY <2>2, <2>3 DEF ClassInv, Live
<1>8. CASE ReaderSend
  <2>1. /\ UNCHANGED <<sessionStart, slot, thresholds, input, realBytes, readerDone, tail,
                       finishBy, wireSeq>>
        /\ slot = "live" /\ sent' = sent + 1 /\ channel' = Append(channel, sent + 1)
    BY <1>8 DEF ReaderSend, timeVars, flowVars, eofVars, Live
  <2>2. Len(channel') = Len(channel) + 1 /\ Len(channel) \in Nat /\ sent \in Nat
    BY <1>1, <2>1, AppendProperties, LenProperties DEF TypeOK
  <2>3. sent' - Len(channel') = sent - Len(channel)
    BY <2>1, <2>2
  <2>4. TotalBytes' = TotalBytes /\ Pulled' = Pulled
    BY <2>1, <2>3 DEF TotalBytes, Pulled
  <2>5. QED
    BY <2>1, <2>4 DEF ClassInv, ClassTail, Classify, Live
<1>9. CASE ReaderSendFails \/ ReaderEnds \/ Network \/ UNCHANGED vars
  <2>1. UNCHANGED <<sessionStart, slot, thresholds, input, sent, channel, realBytes,
                    readerDone, tail, finishBy, wireSeq>>
    BY <1>9 DEF ReaderSendFails, ReaderEnds, Network, PeerRead, PeerEof, WireBreaks,
       flowVars, senderVars, timeVars, readerVars, eofVars, vars
  <2>2. TotalBytes' = TotalBytes /\ Pulled' = Pulled
    BY <2>1 DEF TotalBytes, Pulled
  <2>3. QED
    BY <2>1, <2>2 DEF ClassInv, ClassTail, Classify, Live
<1>10. QED
  BY <1>2, <1>3, <1>4, <1>5, <1>6, <1>7, <1>8, <1>9 DEF Next, Emitter, Reader

\* The tail of a flow is that of the class of all its bytes.
THEOREM ClassFloor == Spec => []ClassFloorHolds
<1>1. Spec => [](IInv /\ ClassInv)
  <2>1. Init => IInv /\ ClassInv
    BY InitInv, ClassStarts
  <2>2. IInv /\ ClassInv /\ [Next]_vars => IInv' /\ ClassInv'
    BY InvariantStep, ClassStep
  <2>3. QED
    BY <2>1, <2>2, PTL DEF Spec
<1>2. IInv /\ ClassInv => ClassFloorHolds
  <2> SUFFICES ASSUME IInv, ClassInv, Policy = "ByClass", slot \in {"drained", "backstop"}
               PROVE  LET class == Classify(thresholds, TotalBytes)
                      IN  /\ now >= sessionStart + TargetDuration[class]
                          /\ slot = "drained" => wireSeq >= TargetCells[class]
    BY DEF ClassFloorHolds
  <2> DEFINE class == Classify(thresholds, TotalBytes)
  <2>1. readerDone /\ realBytes = TotalBytes
    BY DEF IInv, ByteInv, GateInv, ClassInv
  <2>2. tail = ClassTail(class) /\ finishBy = tail.deadline + Grace
    BY <2>1 DEF ClassInv
  <2>3. now \in Nat /\ sessionStart \in Nat /\ Grace \in Nat /\ TargetDuration[class] \in Nat
    <3>1. class \in SessionClass
      BY DEF Classify, SessionClass
    <3>2. QED
      BY <3>1, PolicyAssumption, FlowAssumption DEF IInv, TypeOK
  <2> HIDE DEF class
  <2>4. slot = "drained" => now >= tail.deadline /\ wireSeq >= tail.vol
    BY DEF IInv, GateInv, ClassInv
  <2>5. slot = "backstop" => now >= finishBy
    BY DEF IInv, GateInv
  <2>6. now >= tail.deadline
    BY <2>2, <2>3, <2>4, <2>5 DEF ClassTail
  <2>7. QED
    BY <2>2, <2>4, <2>6 DEF ClassTail, class
<1>3. QED
  BY <1>1, <1>2, PTL

-----------------------------------------------------------------------------
(* The retirement of a flow whose peer reads (policies Off and ByClass).    *)

\* The instances for which RetirementBound is claimed: the peer empties the socket
\* while the emitter sleeps and the socket takes all that may be pending, and the
\* queue does not fill.  Intervals and late wakes have a bound.
Retires ==
  /\ Policy \in {"Off", "ByClass"}
  /\ PromptPeer /\ PendingCap + FrameLen - 1 <= SocketCap
  /\ MaxCells < QueueCap
  /\ Sleeps # {} /\ \E n \in Nat : \A x \in Iats \cup Sleeps : x <= n

\* Everything is written at the end of a service, and a service starts with an empty
\* socket; every due slot may look at the channel.
FlushInv ==
  /\ pc = "sleep" => unwritten = 0
  /\ pc = "service" => gate /\ (Live => kernel = 0)
  /\ sessionStart <= now /\ Len(input) <= MaxCells
  /\ clockStarted => nextDeparture <= now + Max(Iats)
  /\ ~clockStarted => now = sessionStart

\* When the last slot fired that took a cell from the channel, at the latest.
FiredBy == readerEnd + Max(Sleeps) + (ChannelCap - Len(channel)) * SlotTime

\* From the end of the reader to the slot that sees it.
PullInv ==
  Live /\ reader = "done" /\ ~readerDone =>
    /\ readerEnd <= now /\ Len(channel) <= ChannelCap
    /\ ~clockStarted => now = readerEnd
    /\ clockStarted => nextDeparture <= FiredBy + Max(Iats)
    /\ clockStarted /\ pc = "sleep" => now < nextDeparture \/ now <= FiredBy
    /\ pc = "service" => now <= FiredBy \/ (unwritten = 0 /\ now <= FiredBy + SlotTime)

\* From there to the end of the flow.
TailInv ==
  Live /\ readerDone =>
    /\ finishBy + Max(Sleeps) <= RetirementLimit
    /\ pc = "sleep" => now < finishBy
    /\ pc = "service" => now < RetirementLimit

RetireInv == FlushInv /\ Len(channel) <= ChannelCap /\ PullInv /\ TailInv

\* The longest interval and the latest wake.
LEMMA Bounds ==
  ASSUME Retires
  PROVE  /\ Max(Iats) \in Nat \ {0} /\ \A iat \in Iats : iat \in Nat \ {0} /\ iat <= Max(Iats)
         /\ Max(Sleeps) \in Nat \ {0} /\ \A d \in Sleeps : d \in Nat \ {0} /\ d <= Max(Sleeps)
         /\ SlotTime \in Nat /\ SlotTime = Max(Iats) + Max(Sleeps) - 1
<1>1. PICK n \in Nat : \A x \in Iats \cup Sleeps : x <= n
  BY DEF Retires
<1>2. /\ Iats \in SUBSET Nat /\ Iats # {} /\ \A x \in Iats : x <= n
      /\ Sleeps \in SUBSET Nat /\ Sleeps # {} /\ \A x \in Sleeps : x <= n
  BY <1>1, ClockAssumption, FlowAssumption DEF Retires
<1>3. /\ Max(Iats) \in Iats /\ \A x \in Iats : x <= Max(Iats)
      /\ Max(Sleeps) \in Sleeps /\ \A x \in Sleeps : x <= Max(Sleeps)
  BY <1>2, MaxOfBounded
<1>4. (\A x \in Iats : x \in Nat \ {0}) /\ (\A x \in Sleeps : x \in Nat \ {0})
  BY ClockAssumption, FlowAssumption
<1>5. Max(Iats) \in Nat \ {0} /\ Max(Sleeps) \in Nat \ {0}
  BY <1>3, <1>4
<1> DEFINE i == Max(Iats)  d == Max(Sleeps)
<1>6. SlotTime = i + d - 1
  BY DEF SlotTime
<1>7. SlotTime \in Nat
  <2> HIDE DEF i, d
  <2>1. i \in Nat \ {0} /\ d \in Nat \ {0}
    BY <1>5 DEF i, d
  <2>2. QED
    BY <1>6, <2>1
<1>8. QED
  BY <1>3, <1>4, <1>5, <1>6, <1>7

\* The slots still to come cost a slot time each.
LEMMA Pace ==
  ASSUME NEW c \in Nat, NEW t \in Nat, NEW k \in Nat, k <= c
  PROVE  /\ (c - k) * t \in Nat /\ (c - k) * t + t <= (c + 1) * t
         /\ k > 0 => (c - (k - 1)) * t = (c - k) * t + t
<1> DEFINE d == c - k
<1>1. d \in Nat /\ c = d + k
  OBVIOUS
<1> HIDE DEF d
<1>2. d * t \in Nat /\ k * t \in Nat
  BY <1>1
<1>3. (c + 1) * t = d * t + k * t + t
  BY <1>1
<1>4. k > 0 => c - (k - 1) = d + 1
  BY <1>1
<1>5. (d + 1) * t = d * t + t
  BY <1>1
<1>6. QED
  BY <1>1, <1>2, <1>3, <1>4, <1>5 DEF d

\* The limit leaves room for the last pull and for the longest class.
LEMMA LimitCovers ==
  ASSUME Retires, readerEnd \in Nat, sessionStart \in Nat
  PROVE  /\ SeenBy \in Nat /\ RetirementLimit \in Nat
         /\ SeenBy + Grace + Max(Sleeps) <= RetirementLimit
         /\ Policy = "ByClass" => \A class \in SessionClass :
              sessionStart + TargetDuration[class] + Grace + Max(Sleeps) <= RetirementLimit
<1>1. /\ SlotTime \in Nat /\ Max(Sleeps) \in Nat /\ Grace \in Nat /\ ChannelCap + 1 \in Nat
  BY Bounds, FlowAssumption
<1>2. SeenBy \in Nat
  <2>1. (ChannelCap + 1) * SlotTime \in Nat
    BY <1>1
  <2>2. QED
    BY <1>1, <2>1 DEF SeenBy
<1>3. /\ LongestClass \in Nat
      /\ Policy = "ByClass" => \A class \in SessionClass : TargetDuration[class] <= LongestClass
  <2>1. CASE Policy # "ByClass"
    BY <2>1 DEF LongestClass
  <2>2. CASE Policy = "ByClass"
    <3> DEFINE R == Range(TargetDuration)
               D(class) == TargetDuration[class]
    <3>1. R = {D("Short"), D("Medium"), D("Long"), D("VeryLong")}
      BY PolicyAssumption DEF Range, SessionClass
    <3>2. /\ D("Short") \in Nat /\ D("Medium") \in Nat /\ D("Long") \in Nat
          /\ D("VeryLong") \in Nat
      BY PolicyAssumption DEF SessionClass
    <3> DEFINE n == D("Short") + D("Medium") + D("Long") + D("VeryLong")
    <3> HIDE DEF R, D
    <3>3. n \in Nat /\ R \in SUBSET Nat /\ R # {} /\ \A x \in R : x <= n
      BY <3>1, <3>2
    <3> HIDE DEF n
    <3>4. Max(R) \in R /\ \A x \in R : x <= Max(R)
      BY <3>3, MaxOfBounded
    <3>5. \A class \in SessionClass : D(class) \in R
      BY <3>1 DEF SessionClass
    <3>6. QED
      BY <2>2, <3>3, <3>4, <3>5 DEF LongestClass, R, D
  <2>3. QED
    BY <2>1, <2>2
<1> DEFINE a == SeenBy  b == sessionStart + LongestClass  m == Max({a, b})
<1>4. a \in Nat /\ b \in Nat
  BY <1>2, <1>3
<1>5. m \in Nat /\ a <= m /\ b <= m
  <2> HIDE DEF a, b
  <2> DEFINE S == {a, b}  n == a + b
  <2>1. S \in SUBSET Nat /\ S # {} /\ n \in Nat /\ (\A x \in S : x <= n) /\ a \in S /\ b \in S
    BY <1>4
  <2> HIDE DEF S, n
  <2>2. Max(S) \in S /\ \A x \in S : x <= Max(S)
    BY <2>1, MaxOfBounded
  <2>3. QED
    BY <2>1, <2>2 DEF S
<1>6. RetirementLimit = m + Grace + Max(Sleeps)
  BY DEF RetirementLimit
<1> HIDE DEF m
<1>7. RetirementLimit \in Nat /\ SeenBy + Grace + Max(Sleeps) <= RetirementLimit
  BY <1>1, <1>2, <1>5, <1>6
<1>8. ASSUME Policy = "ByClass", NEW class \in SessionClass
      PROVE  sessionStart + TargetDuration[class] + Grace + Max(Sleeps) <= RetirementLimit
  <2>1. TargetDuration[class] \in Nat /\ TargetDuration[class] <= LongestClass
    BY <1>3, <1>8, PolicyAssumption
  <2>2. QED
    BY <1>1, <1>3, <1>5, <1>6, <2>1
<1>9. QED
  BY <1>2, <1>7, <1>8

LEMMA RetireStarts == Init /\ Retires => RetireInv
<1> SUFFICES ASSUME Init, Retires PROVE RetireInv
  OBVIOUS
<1>1. /\ now \in Nat /\ sessionStart = now /\ input = <<>> /\ channel = <<>> /\ reader = "read"
      /\ pc = "sleep" /\ unwritten = 0 /\ clockStarted = FALSE /\ readerDone = FALSE
  BY FlowAssumption DEF Init
<1>2. Len(input) = 0 /\ Len(channel) = 0 /\ MaxCells \in Nat /\ ChannelCap \in Nat
  BY <1>1, FlowAssumption
<1>3. QED
  BY <1>1, <1>2 DEF RetireInv, FlushInv, PullInv, TailInv

\* A slot that fires reschedules the next one at most an interval from now.
LEMMA SlotPaces ==
  ASSUME IInv, Retires, Slot
  PROVE  nextDeparture' <= now + Max(Iats)
<1>1. PICK q \in Seq(Nat \ {0}), iat \in Iats, fd \in BOOLEAN : EmitFrame(q, iat, fd)
  BY SlotEffect
<1>2. nextDeparture' = AdvanceClock(nextDeparture, iat, now)
  BY <1>1 DEF EmitFrame
<1>3. nextDeparture <= now /\ now \in Nat /\ nextDeparture \in Nat
  BY SlotFrame DEF SlotLoop, SlotReady, IInv, TypeOK
<1>4. iat \in Nat /\ iat <= Max(Iats) /\ Max(Iats) \in Nat
  BY Bounds
<1>5. QED
  BY <1>2, <1>3, <1>4, ClockAssumption DEF AdvanceClock

\* A service that does not drop the flow writes everything.
LEMMA ServiceFlushes ==
  ASSUME IInv, Retires, FlushInv, ServiceEnd
  PROVE  /\ unwritten' = 0 /\ pc' = "sleep"
         /\ slot' = "live" => channel' = channel /\ (readerDone => now < finishBy)
<1>1. /\ Live /\ pc = "service" /\ kernel = 0 /\ unwritten \in Nat /\ SocketCap \in Nat \ {0}
      /\ FrameLen \in Nat /\ PendingCap \in Nat /\ now \in Nat /\ finishBy \in Nat
  BY FlowAssumption DEF ServiceEnd, IInv, TypeOK, ByteInv, FlushInv
<1>2. unwritten <= SocketCap
  BY <1>1 DEF Retires, IInv, ByteInv
<1>3. Writable = {unwritten}
  <2>1. CASE unwritten = 0
    BY <2>1 DEF Writable
  <2>2. CASE unwritten # 0
    BY <1>1, <1>2, <2>2 DEF Writable, Retires
  <2>3. QED
    BY <2>1, <2>2
<1>4. LET n == unwritten IN
       IF readerDone /\ TailMet(unwritten - n) THEN DropFlow("drained", kernel + n)
       ELSE IF readerDone /\ now >= finishBy THEN DropFlow("backstop", kernel + n)
       ELSE KeepFlow(n)
  BY <1>3 DEF ServiceEnd
<1>5. pc' = "sleep"
  BY DEF ServiceEnd
<1>6. CASE \E o \in Outcomes : \E b : DropFlow(o, b)
  BY <1>5, <1>6 DEF DropFlow, Outcomes
<1>7. CASE KeepFlow(unwritten) /\ ~(readerDone /\ now >= finishBy)
  BY <1>1, <1>5, <1>7 DEF KeepFlow
<1>8. QED
  BY <1>4, <1>6, <1>7 DEF Outcomes

\* What a wake does.
LEMMA WakeOf ==
  ASSUME IInv, Retires, FlushInv, Wake
  PROVE  /\ Live /\ pc = "sleep" /\ pc' = "service" /\ unwritten = 0
         /\ now' \in Nat /\ now < now' /\ now' <= now + Max(Sleeps)
         /\ kernel = 0 /\ gate' /\ clockStarted'
         /\ nextDeparture' <= now' + Max(Iats)
         /\ clockStarted => nextDeparture' = nextDeparture
         /\ UNCHANGED <<sessionStart, input, reader, readerEnd, channel, slot, readerDone,
                        finishBy, unwritten, kernel>>
<1>1. PICK d \in Sleeps : now' = now + d
  BY DEF Wake
<1>2. d \in Nat \ {0} /\ d <= Max(Sleeps) /\ Max(Sleeps) \in Nat /\ now \in Nat
  BY Bounds DEF IInv, TypeOK
<1>3. /\ Live /\ pc = "sleep" /\ pc' = "service"
      /\ UNCHANGED <<sessionStart, input, reader, readerEnd, channel, slot, readerDone,
                     finishBy, unwritten, kernel>>
  BY DEF Wake, readerVars, eofVars
<1>4. unwritten = 0 /\ kernel = 0
  <2>1. unwritten = 0 /\ kernel < FrameLen /\ kernel = FrameLen * Len(flight)
    BY <1>3 DEF FlushInv, Wake, Retires, IInv, ByteInv, TypeOK
  <2>2. FrameLen \in Nat \ {0} /\ Len(flight) \in Nat /\ kernel \in Nat
    BY FlowAssumption, LenProperties DEF IInv, TypeOK
  <2>3. CASE Len(flight) = 0
    BY <2>1, <2>2, <2>3
  <2>4. CASE Len(flight) # 0
    <3>1. FrameLen * Len(flight) >= FrameLen
      BY <2>2, <2>4
    <3>2. QED
      BY <2>1, <2>2, <3>1
  <2>5. QED
    BY <2>1, <2>3, <2>4
<1>5. gate'
  <2>1. HoldUntil = sessionStart /\ sessionStart <= now /\ sessionStart \in Nat
    BY DEF HoldUntil, Retires, FlushInv, IInv, TypeOK
  <2>2. HoldUntil' = HoldUntil
    BY <1>3 DEF HoldUntil
  <2>3. now' >= HoldUntil
    BY <1>1, <1>2, <2>1
  <2>4. gate' = (now' >= HoldUntil)
    BY DEF Wake
  <2>5. QED
    BY <2>3, <2>4
<1>6. CASE clockStarted
  <2>1. nextDeparture' = nextDeparture /\ clockStarted'
    BY <1>6 DEF Wake, clockVars
  <2>2. nextDeparture <= now + Max(Iats) /\ nextDeparture \in Nat /\ Max(Iats) \in Nat
    BY <1>6, Bounds DEF FlushInv, IInv, TypeOK
  <2>3. QED
    BY <1>1, <1>2, <1>3, <1>4, <1>5, <2>1, <2>2
<1>7. CASE ~clockStarted
  <2>1. PICK iat \in Iats : nextDeparture' = RestartClock(iat, now')
    BY <1>7 DEF Wake
  <2>2. iat \in Nat /\ iat <= Max(Iats) /\ Max(Iats) \in Nat
    BY Bounds
  <2>3. nextDeparture' = now' + iat
    BY <1>1, <1>2, <2>1, <2>2, ClockAssumption DEF RestartClock, AdvanceClock
  <2>4. clockStarted'
    BY <1>7 DEF Wake
  <2>5. QED
    BY <1>1, <1>2, <1>3, <1>4, <1>5, <1>7, <2>2, <2>3, <2>4
<1>8. QED
  BY <1>6, <1>7

LEMMA FlushStep == IInv /\ Retires /\ FlushInv /\ [Next]_vars => FlushInv'
<1> SUFFICES ASSUME IInv, Retires, FlushInv, [Next]_vars PROVE FlushInv'
  OBVIOUS
<1>1. TypeOK /\ ByteInv /\ ClockInv /\ IInv'
  BY InvariantStep DEF IInv
<1>2. now \in Nat /\ sessionStart \in Nat
  BY <1>1 DEF TypeOK
<1>3. CASE Slot
  <2>1. /\ pc = "service" /\ UNCHANGED <<now, sessionStart, input, slot, pc, gate, clockStarted, kernel>>
    BY <1>3, SlotFrame DEF timeVars, readerVars
  <2>2. nextDeparture' <= now + Max(Iats)
    BY <1>3, SlotPaces
  <2>3. clockStarted
    BY <1>1, <2>1 DEF ClockInv, TypeOK
  <2>4. QED
    BY <2>1, <2>2, <2>3 DEF FlushInv, Live
<1>4. CASE Wake
  <2>1. /\ pc' = "service" /\ now < now' /\ kernel = 0 /\ kernel' = kernel /\ gate'
        /\ clockStarted' /\ nextDeparture' <= now' + Max(Iats)
        /\ UNCHANGED <<sessionStart, input>> /\ now' \in Nat
    BY <1>4, WakeOf
  <2>2. sessionStart <= now' /\ Len(input) <= MaxCells
    BY <1>2, <2>1 DEF FlushInv
  <2>3. QED
    BY <2>1, <2>2 DEF FlushInv
<1>5. CASE ServiceEnd
  <2>1. unwritten' = 0 /\ pc' = "sleep"
    BY <1>5, ServiceFlushes
  <2>2. UNCHANGED <<now, sessionStart, input, clockStarted, nextDeparture>>
    BY <1>5 DEF ServiceEnd, serviceEndFrame, timeVars, readerVars, clockVars
  <2>3. QED
    BY <2>1, <2>2 DEF FlushInv
<1>6. CASE ServiceWireError
  <2>1. unwritten' = 0 /\ pc' = "sleep"
        /\ UNCHANGED <<now, sessionStart, input, clockStarted, nextDeparture>>
    BY <1>6 DEF ServiceWireError, DropFlow, serviceEndFrame, timeVars, readerVars, clockVars
  <2>2. QED
    BY <2>1 DEF FlushInv
<1>7. CASE Reader
  <2>1. UNCHANGED <<now, sessionStart, slot, pc, gate, clockStarted, nextDeparture, kernel, unwritten>>
    BY <1>7 DEF Reader, ReaderRead, ReaderSend, ReaderSendFails, ReaderEnds, flowVars, timeVars, clockVars
  <2>2. Len(input') <= MaxCells
    <3>1. CASE ReaderRead
      <4>1. PICK chunks \in Reads : Len(input) + Len(chunks) <= MaxCells /\ input' = input \o chunks
        BY <3>1 DEF ReaderRead
      <4>2. input \in Seq(Nat) /\ chunks \in Seq(Nat)
        BY <1>1, FlowAssumption DEF TypeOK
      <4>3. Len(input') = Len(input) + Len(chunks)
        BY <4>1, <4>2, ConcatProperties
      <4>4. QED
        BY <4>1, <4>3
    <3>2. CASE ReaderSend \/ ReaderSendFails \/ ReaderEnds
      BY <3>2 DEF ReaderSend, ReaderSendFails, ReaderEnds, FlushInv
    <3>3. QED
      BY <1>7, <3>1, <3>2 DEF Reader
  <2>3. QED
    BY <2>1, <2>2 DEF FlushInv, Live
<1>8. CASE PeerRead
  <2>1. /\ UNCHANGED <<now, sessionStart, input, slot, pc, gate, clockStarted, nextDeparture, unwritten>>
        /\ kernel >= FrameLen
    BY <1>8 DEF PeerRead, senderVars, timeVars, readerVars, clockVars
  <2>2. pc = "service" => ~Live
    BY <2>1, FlowAssumption DEF FlushInv
  <2>3. QED
    BY <2>1, <2>2 DEF FlushInv, Live
<1>9. CASE PeerEof \/ WireBreaks \/ UNCHANGED vars
  <2>1. UNCHANGED <<now, sessionStart, input, slot, pc, gate, clockStarted, nextDeparture, unwritten, kernel>>
    BY <1>9 DEF PeerEof, WireBreaks, vars, senderVars, timeVars, readerVars, clockVars
  <2>2. QED
    BY <2>1 DEF FlushInv, Live
<1>10. QED
  BY <1>3, <1>4, <1>5, <1>6, <1>7, <1>8, <1>9 DEF Next, Emitter, Slot, Network

LEMMA ChannelStep ==
  IInv /\ Len(channel) <= ChannelCap /\ [Next]_vars => Len(channel') <= ChannelCap
<1> SUFFICES ASSUME IInv, Len(channel) <= ChannelCap, [Next]_vars
             PROVE  Len(channel') <= ChannelCap
  OBVIOUS
<1>1. channel \in Seq(Nat \ {0}) /\ Len(channel) \in Nat /\ sent \in Nat /\ ChannelCap \in Nat
  BY LenProperties, FlowAssumption DEF IInv, TypeOK
<1>2. CASE SlotPullsCell
  <2>1. Len(channel') = Len(channel) - 1
    BY <1>2, PullFits DEF SlotPullsCell, IInv
  <2>2. QED
    BY <1>1, <2>1
<1>3. CASE ReaderSend
  BY <1>1, <1>3, AppendProperties DEF ReaderSend
<1>4. CASE ServiceEnd \/ ServiceWireError
  <2>1. channel' = <<>> \/ channel' = channel
    BY <1>4 DEF ServiceEnd, ServiceWireError, DropFlow, KeepFlow
  <2>2. QED
    BY <1>1, <2>1
<1>5. CASE ~(SlotPullsCell \/ ReaderSend \/ ServiceEnd \/ ServiceWireError)
  <2>1. channel' = channel
    BY <1>5 DEF Next, Emitter, Wake, SlotSeesEof, SlotWithoutPull, Reader, ReaderRead,
       ReaderSendFails, ReaderEnds, Network, PeerRead, PeerEof, WireBreaks, senderVars, vars
  <2>2. QED
    BY <2>1
<1>6. QED
  BY <1>2, <1>3, <1>4, <1>5

\* When the reader has ended and the end was not seen, every slot finds something in
\* the channel.
LEMMA SlotFinds ==
  ASSUME IInv, Retires, FlushInv, Slot, reader = "done", ~readerDone
  PROVE  ~SlotWithoutPull
<1>1. /\ Live /\ pc = "service" /\ gate
  BY SlotFrame, SlotEffect DEF FlushInv
<1>2. /\ sent = realEmitted + Len(queue) + Len(channel) /\ sent <= Len(input)
      /\ Len(input) <= MaxCells
  BY <1>1 DEF IInv, BufferInv, ReaderInv, FlushInv
<1>3. /\ realEmitted \in Nat /\ Len(queue) \in Nat /\ Len(channel) \in Nat /\ Len(input) \in Nat
      /\ MaxCells \in Nat /\ QueueCap \in Nat
  BY LenProperties, FlowAssumption DEF IInv, TypeOK
<1>4. HasQueueSpace
  BY <1>2, <1>3 DEF HasQueueSpace, Retires
<1>5. MayPull
  BY <1>1, <1>4 DEF MayPull
<1>6. QED
  BY <1>5 DEF SlotWithoutPull

\* The bound on the last slot, as a number.
LEMMA FiredByIs ==
  ASSUME IInv, Retires, Len(channel) <= ChannelCap
  PROVE  /\ FiredBy \in Nat /\ readerEnd + Max(Sleeps) <= FiredBy /\ FiredBy + SlotTime <= SeenBy
<1>1. /\ ChannelCap \in Nat /\ SlotTime \in Nat /\ Len(channel) \in Nat /\ Max(Sleeps) \in Nat
      /\ readerEnd \in Nat
  BY Bounds, LenProperties, FlowAssumption DEF IInv, TypeOK
<1> DEFINE r == (ChannelCap - Len(channel)) * SlotTime  s == (ChannelCap + 1) * SlotTime
<1>2. r \in Nat /\ r + SlotTime <= s
  BY <1>1, Pace
<1>3. s \in Nat
  BY <1>1
<1>4. FiredBy = readerEnd + Max(Sleeps) + r /\ SeenBy = readerEnd + Max(Sleeps) + s
  BY DEF FiredBy, SeenBy
<1> HIDE DEF r, s
<1>5. QED
  BY <1>1, <1>2, <1>3, <1>4

LEMMA PullStep ==
  IInv /\ Retires /\ FlushInv /\ Len(channel) <= ChannelCap /\ PullInv /\ [Next]_vars => PullInv'
<1> SUFFICES ASSUME IInv, Retires, FlushInv, Len(channel) <= ChannelCap, PullInv, [Next]_vars,
                    slot' = "live", reader' = "done", ~readerDone'
             PROVE  PullInv'
  BY DEF PullInv, Live
<1>1. /\ TypeOK /\ TypeOK' /\ IInv' /\ ClockInv /\ ReaderInv /\ Len(channel') <= ChannelCap
  BY InvariantStep, ChannelStep DEF IInv
<1>2. /\ now \in Nat /\ readerEnd \in Nat /\ nextDeparture \in Nat
      /\ Max(Iats) \in Nat \ {0} /\ Max(Sleeps) \in Nat \ {0} /\ SlotTime \in Nat
      /\ SlotTime = Max(Iats) + Max(Sleeps) - 1
  BY <1>1, Bounds DEF TypeOK
<1>3. FiredBy \in Nat /\ readerEnd + Max(Sleeps) <= FiredBy
  BY FiredByIs
<1>4. CASE SlotPullsCell
  <2>1. /\ Live /\ ~readerDone /\ pc = "service"
        /\ UNCHANGED <<now, reader, readerEnd, pc, clockStarted>>
    BY <1>4, SlotFrame, SlotEffect DEF Slot, timeVars, readerVars, SlotPullsCell, MayPull
  <2>2. /\ readerEnd <= now /\ now <= FiredBy + SlotTime /\ clockStarted
    <3>1. reader = "done"
      BY <2>1
    <3>2. readerEnd <= now /\ (now <= FiredBy \/ now <= FiredBy + SlotTime)
      BY <2>1, <3>1 DEF PullInv
    <3>3. clockStarted
      BY <1>1, <2>1 DEF ClockInv, TypeOK
    <3>4. QED
      BY <1>2, <1>3, <3>2, <3>3
  <2>3. FiredBy' = FiredBy + SlotTime
    <3>1. Len(channel') = Len(channel) - 1 /\ channel # <<>>
      BY <1>1, <1>4, PullFits DEF SlotPullsCell
    <3>2. Len(channel) \in Nat /\ Len(channel) > 0 /\ ChannelCap \in Nat
      <4>1. Len(channel) \in Nat /\ Len(channel') \in Nat
        BY <1>1, LenProperties DEF TypeOK
      <4>2. QED
        BY <3>1, <4>1, FlowAssumption
    <3> DEFINE r == (ChannelCap - Len(channel)) * SlotTime
               q == (ChannelCap - (Len(channel) - 1)) * SlotTime
    <3>3. r \in Nat /\ q = r + SlotTime
      BY <1>2, <3>2, Pace
    <3>4. FiredBy = readerEnd + Max(Sleeps) + r /\ FiredBy' = readerEnd + Max(Sleeps) + q
      BY <2>1, <3>1 DEF FiredBy
    <3> HIDE DEF r, q
    <3>5. QED
      BY <1>2, <3>3, <3>4
  <2>4. nextDeparture' <= now + Max(Iats) /\ nextDeparture' \in Nat
    BY <1>1, <1>4, SlotPaces DEF Slot, TypeOK
  <2>5. nextDeparture' <= FiredBy' + Max(Iats)
    BY <1>2, <1>3, <2>2, <2>3, <2>4
  <2>6. QED
    BY <1>1, <2>1, <2>2, <2>3, <2>5 DEF PullInv
<1>5. CASE SlotSeesEof
  BY <1>5 DEF SlotSeesEof
<1>6. CASE SlotWithoutPull
  <2>1. ~readerDone /\ reader = "done"
    BY <1>6, SlotFrame DEF Slot, SlotWithoutPull, eofVars, readerVars
  <2>2. QED
    BY <1>6, <2>1, SlotFinds DEF Slot
<1>7. CASE Wake
  <2>1. /\ Live /\ pc = "sleep" /\ pc' = "service" /\ unwritten = 0
        /\ now' \in Nat /\ now < now' /\ now' <= now + Max(Sleeps) /\ clockStarted'
        /\ nextDeparture' <= now' + Max(Iats)
        /\ clockStarted => nextDeparture' = nextDeparture
        /\ UNCHANGED <<reader, readerEnd, channel, slot, readerDone, unwritten>>
    BY <1>7, WakeOf
  <2>2. FiredBy' = FiredBy
    BY <2>1 DEF FiredBy
  <2>3. CASE clockStarted
    <3>1. /\ readerEnd <= now /\ nextDeparture <= FiredBy + Max(Iats)
          /\ now < nextDeparture \/ now <= FiredBy
      BY <2>1, <2>3 DEF PullInv
    <3>2. now' <= FiredBy + SlotTime /\ readerEnd <= now'
      BY <1>2, <1>3, <2>1, <3>1
    <3>3. QED
      BY <1>1, <2>1, <2>2, <2>3, <3>1, <3>2 DEF PullInv
  <2>4. CASE ~clockStarted
    <3>1. now = readerEnd
      BY <2>1, <2>4 DEF PullInv
    <3>2. now' <= FiredBy /\ readerEnd <= now'
      BY <1>2, <1>3, <2>1, <3>1
    <3>3. nextDeparture' \in Nat
      BY <1>1 DEF TypeOK
    <3>4. nextDeparture' <= FiredBy + Max(Iats)
      BY <1>2, <1>3, <2>1, <3>2, <3>3
    <3>5. QED
      BY <1>1, <2>1, <2>2, <3>2, <3>4 DEF PullInv
  <2>5. QED
    BY <2>3, <2>4
<1>8. CASE ServiceEnd
  <2>1. /\ pc = "service" /\ pc' = "sleep" /\ channel' = channel /\ Live
        /\ UNCHANGED <<now, reader, readerEnd, clockStarted, nextDeparture, readerDone>>
        /\ ~SlotLoop /\ clockStarted
    BY <1>1, <1>8, ServiceFlushes DEF ServiceEnd, serviceEndFrame, timeVars, readerVars, clockVars, eofVars,
       ClockInv, TypeOK, IInv, ByteInv
  <2>2. FiredBy' = FiredBy
    BY <2>1 DEF FiredBy
  <2>3. /\ readerEnd <= now /\ nextDeparture <= FiredBy + Max(Iats)
        /\ now <= FiredBy \/ unwritten = 0
    BY <2>1 DEF PullInv
  <2>4. now < nextDeparture \/ now <= FiredBy
    <3>1. unwritten = 0 => now < nextDeparture
      BY <1>2, <2>1, FlowAssumption DEF SlotLoop, SlotReady
    <3>2. QED
      BY <2>3, <3>1
  <2>5. QED
    BY <1>1, <2>1, <2>2, <2>3, <2>4 DEF PullInv
<1>9. CASE ServiceWireError
  BY <1>9 DEF ServiceWireError, DropFlow
<1>10. CASE ReaderRead
  BY <1>10 DEF ReaderRead
<1>11. CASE ReaderSend
  BY <1>11 DEF ReaderSend
<1>12. CASE ReaderSendFails
  BY <1>12 DEF ReaderSendFails, flowVars, Live
<1>13. CASE ReaderEnds
  <2>1. /\ readerEnd' = now /\ Live
        /\ UNCHANGED <<now, channel, pc, clockStarted, nextDeparture, unwritten>>
    BY <1>13 DEF ReaderEnds, flowVars, timeVars, clockVars, Live
  <2>2. FiredBy' \in Nat /\ now + Max(Sleeps) <= FiredBy'
    <3>1. readerEnd' \in Nat /\ Len(channel) \in Nat /\ ChannelCap \in Nat
      BY <1>1, LenProperties, FlowAssumption DEF TypeOK
    <3> DEFINE r == (ChannelCap - Len(channel)) * SlotTime
    <3>2. r \in Nat
      BY <1>2, <3>1, Pace
    <3>3. FiredBy' = now + Max(Sleeps) + r
      BY <2>1 DEF FiredBy
    <3> HIDE DEF r
    <3>4. QED
      BY <1>2, <3>2, <3>3
  <2>3. clockStarted => nextDeparture <= now + Max(Iats)
    BY DEF FlushInv
  <2>4. now <= FiredBy' /\ (clockStarted => nextDeparture <= FiredBy' + Max(Iats))
    BY <1>2, <2>2, <2>3
  <2>5. QED
    BY <1>1, <1>2, <2>1, <2>4 DEF PullInv
<1>14. CASE Network \/ UNCHANGED vars
  <2>1. UNCHANGED <<now, reader, readerEnd, channel, slot, pc, readerDone, clockStarted,
                    nextDeparture, unwritten>>
    BY <1>14 DEF Network, PeerRead, PeerEof, WireBreaks, senderVars, timeVars, readerVars,
       clockVars, eofVars, vars
  <2>2. QED
    BY <2>1 DEF PullInv, FiredBy, Live
<1>15. QED
  BY <1>4, <1>5, <1>6, <1>7, <1>8, <1>9, <1>10, <1>11, <1>12, <1>13, <1>14
     DEF Next, Emitter, Reader

LEMMA TailStep ==
  IInv /\ Retires /\ FlushInv /\ Len(channel) <= ChannelCap /\ PullInv /\ TailInv /\ [Next]_vars
    => TailInv'
<1> SUFFICES ASSUME IInv, Retires, FlushInv, Len(channel) <= ChannelCap, PullInv, TailInv,
                    [Next]_vars, slot' = "live", readerDone'
             PROVE  TailInv'
  BY DEF TailInv, Live
<1>1. TypeOK /\ TypeOK' /\ ReaderInv
  BY InvariantStep DEF IInv
<1>2. /\ now \in Nat /\ readerEnd \in Nat /\ finishBy \in Nat /\ Max(Sleeps) \in Nat \ {0}
      /\ Grace \in Nat /\ sessionStart \in Nat
  BY <1>1, Bounds, FlowAssumption DEF TypeOK
<1>3. /\ SeenBy \in Nat /\ RetirementLimit \in Nat
      /\ SeenBy + Grace + Max(Sleeps) <= RetirementLimit
      /\ Policy = "ByClass" => \A class \in SessionClass :
           sessionStart + TargetDuration[class] + Grace + Max(Sleeps) <= RetirementLimit
  BY <1>2, LimitCovers
<1>4. CASE SlotSeesEof
  <2>1. /\ Live /\ ~readerDone /\ reader = "done" /\ pc = "service" /\ pc' = "service"
        /\ UNCHANGED <<now, readerEnd, sessionStart>>
    BY <1>4, SlotFrame, SlotEffect DEF Slot, timeVars, readerVars, SlotSeesEof, MayPull
  <2>2. now <= SeenBy
    <3>1. now <= FiredBy \/ now <= FiredBy + SlotTime
      BY <2>1 DEF PullInv
    <3>2. FiredBy \in Nat /\ FiredBy + SlotTime <= SeenBy /\ SlotTime \in Nat
      BY FiredByIs, Bounds
    <3>3. QED
      BY <1>2, <1>3, <3>1, <3>2
  <2>3. RetirementLimit' = RetirementLimit
    BY <2>1 DEF RetirementLimit, SeenBy
  <2>4. finishBy' + Max(Sleeps) <= RetirementLimit
    <3>1. finishBy' = Backstop(TailTargets(realBytes, wireSeq, thresholds, sessionStart, now), now, Grace)
      BY <1>4 DEF SlotSeesEof
    <3>2. CASE Policy = "Off"
      <4>1. finishBy' = now + Grace
        BY <3>1, <3>2 DEF Backstop
      <4>2. QED
        BY <1>2, <1>3, <2>2, <4>1
    <3>3. CASE Policy = "ByClass"
      <4> DEFINE class == Classify(thresholds, realBytes)
      <4>1. class \in SessionClass
        BY DEF Classify, SessionClass
      <4>2. finishBy' = sessionStart + TargetDuration[class] + Grace
        BY <3>1, <3>3 DEF Backstop, TailTargets
      <4>3. QED
        BY <1>3, <3>3, <4>1, <4>2
    <3>4. QED
      BY <3>2, <3>3 DEF Retires
  <2>5. now < RetirementLimit
    BY <1>2, <1>3, <2>2
  <2>6. QED
    BY <2>1, <2>3, <2>4, <2>5 DEF TailInv
<1>5. CASE SlotPullsCell \/ SlotWithoutPull
  <2>1. /\ Live /\ UNCHANGED <<now, readerEnd, sessionStart, pc, slot, readerDone, finishBy>>
    BY <1>5, SlotFrame, SlotEffect DEF Slot, timeVars, readerVars, SlotPullsCell,
       SlotWithoutPull, eofVars
  <2>2. QED
    BY <2>1 DEF TailInv, RetirementLimit, SeenBy, Live
<1>6. CASE Wake
  <2>1. /\ Live /\ pc = "sleep" /\ pc' = "service" /\ now' \in Nat /\ now' <= now + Max(Sleeps)
        /\ UNCHANGED <<sessionStart, readerEnd, slot, readerDone, finishBy>>
    BY <1>6, WakeOf
  <2>2. now < finishBy /\ finishBy + Max(Sleeps) <= RetirementLimit
    BY <2>1 DEF TailInv
  <2>3. now' < RetirementLimit
    BY <1>2, <1>3, <2>1, <2>2
  <2>4. RetirementLimit' = RetirementLimit
    BY <2>1 DEF RetirementLimit, SeenBy
  <2>5. QED
    BY <2>1, <2>2, <2>3, <2>4 DEF TailInv
<1>7. CASE ServiceEnd
  <2>1. /\ Live /\ pc' = "sleep" /\ readerDone
        /\ UNCHANGED <<now, readerEnd, sessionStart, readerDone, finishBy>>
    BY <1>7 DEF ServiceEnd, serviceEndFrame, timeVars, readerVars, eofVars, IInv, ByteInv
  <2>2. now < finishBy
    BY <1>7, <2>1, ServiceFlushes
  <2>3. QED
    BY <2>1, <2>2 DEF TailInv, RetirementLimit, SeenBy
<1>8. CASE ServiceWireError
  BY <1>8 DEF ServiceWireError, DropFlow
<1>9. CASE ReaderRead \/ ReaderSend \/ ReaderEnds
  <2>1. readerDone' = readerDone /\ reader # "done"
    BY <1>9 DEF ReaderRead, ReaderSend, ReaderEnds, flowVars, eofVars
  <2>2. QED
    BY <1>1, <2>1 DEF ReaderInv
<1>10. CASE ReaderSendFails
  BY <1>10 DEF ReaderSendFails, flowVars, Live
<1>11. CASE Network \/ UNCHANGED vars
  <2>1. UNCHANGED <<now, readerEnd, sessionStart, slot, pc, readerDone, finishBy>>
    BY <1>11 DEF Network, PeerRead, PeerEof, WireBreaks, senderVars, timeVars, readerVars,
       eofVars, vars
  <2>2. QED
    BY <2>1 DEF TailInv, RetirementLimit, SeenBy, Live
<1>12. QED
  BY <1>4, <1>5, <1>6, <1>7, <1>8, <1>9, <1>10, <1>11 DEF Next, Emitter, Reader

\* A flow whose source has ended is retired in time, when its peer reads.
THEOREM Retirement ==
  ASSUME Retires
  PROVE  Spec => []RetirementBound
<1>1. Spec => [](IInv /\ RetireInv)
  <2>1. Init => IInv /\ RetireInv
    BY InitInv, RetireStarts
  <2>2. IInv /\ RetireInv /\ [Next]_vars => IInv' /\ RetireInv'
    BY InvariantStep, FlushStep, ChannelStep, PullStep, TailStep DEF RetireInv
  <2>3. QED
    BY <2>1, <2>2, PTL DEF Spec
<1>2. IInv /\ RetireInv => RetirementBound
  <2> SUFFICES ASSUME IInv, RetireInv, Live, reader = "done" PROVE now < RetirementLimit
    BY DEF RetirementBound
  <2>1. /\ now \in Nat /\ readerEnd \in Nat /\ sessionStart \in Nat /\ finishBy \in Nat
        /\ nextDeparture \in Nat /\ Grace \in Nat /\ Max(Iats) \in Nat \ {0}
        /\ Max(Sleeps) \in Nat \ {0} /\ SlotTime \in Nat
        /\ SlotTime = Max(Iats) + Max(Sleeps) - 1 /\ pc \in {"sleep", "service"}
    BY Bounds, FlowAssumption DEF IInv, TypeOK
  <2>2. /\ SeenBy \in Nat /\ RetirementLimit \in Nat
        /\ SeenBy + Grace + Max(Sleeps) <= RetirementLimit
    BY <2>1, LimitCovers
  <2>3. CASE readerDone
    BY <2>1, <2>2, <2>3 DEF RetireInv, TailInv
  <2>4. CASE ~readerDone
    <3>1. PullInv /\ Len(channel) <= ChannelCap
      BY DEF RetireInv
    <3>2. FiredBy \in Nat /\ readerEnd + Max(Sleeps) <= FiredBy /\ FiredBy + SlotTime <= SeenBy
      BY <3>1, FiredByIs
    <3>3. \/ now = readerEnd
          \/ now < nextDeparture /\ nextDeparture <= FiredBy + Max(Iats)
          \/ now <= FiredBy
          \/ now <= FiredBy + SlotTime
      BY <2>1, <2>4, <3>1 DEF PullInv, IInv, ClockInv
    <3>4. now <= SeenBy
      BY <2>1, <2>2, <3>2, <3>3
    <3>5. QED
      BY <2>1, <2>2, <3>4
  <2>5. QED
    BY <2>3, <2>4
<1>3. QED
  BY <1>1, <1>2, PTL
=============================================================================
