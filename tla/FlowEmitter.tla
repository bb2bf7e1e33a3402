----------------------------- MODULE FlowEmitter ------------------------------
(***************************************************************************)
(* One shaped flow of src/transport.rs, from the source socket to the      *)
(* peer that strips the cover:                                             *)
(*                                                                         *)
(*    reader --channel--> emitter --queue--> slot --pending--> socket      *)
(*                                                   --> strip_and_forward *)
(*                                                                         *)
(* The reader task (shaped_forward) cuts the source into cells.  The       *)
(* emitter thread (run_emitter) wakes on its own timer and services the    *)
(* flow (service_flow): every departure slot that is due pulls at most one *)
(* cell from the channel and puts exactly one frame on the wire, real or   *)
(* dummy.  After the source has ended the flow is padded to its tail       *)
(* target, or cut off at a backstop.                                       *)
(*                                                                         *)
(* Real cells are numbered in the order in which they are read; 0 is a     *)
(* dummy frame.  The true payload length of cell c is input[c].            *)
(***************************************************************************)
EXTENDS TailPolicy, DepartureClock, SequencesExt

CONSTANTS
  Gated,           \* TRUE: entry gate (shaped_forward); FALSE: mux wire
  ChannelCap,      \* STEADY_CHANNEL_CAP
  QueueCap,        \* max_queue_depth of the correlator
  PendingCap,      \* PENDING_CAP, in bytes
  FrameLen,        \* enc_frame_len(CELL_BYTES), in bytes
  SocketCap,       \* send and receive buffers of the TCP connection, in bytes
  Grace,           \* the backstop's 5 s
  ThresholdDraws,  \* what FuzzedClassThresholds::sample can return
  Sleeps,          \* how long a sleep of the emitter can really take
  StartTimes,      \* instants at which a session can begin
  Reads,           \* the chunk lengths one read of the source can give
  PromptPeer,      \* TRUE: the peer empties the socket during every sleep
  LossyNetwork,    \* TRUE: the connection may break
  MaxCells,        \* bound: cells read from the source
  MaxTime          \* bound: the last instant explored

ASSUME FlowAssumption ==
  /\ Gated \in BOOLEAN /\ PromptPeer \in BOOLEAN /\ LossyNetwork \in BOOLEAN
  /\ ChannelCap \in Nat \ {0} /\ QueueCap \in Nat \ {0}
  /\ PendingCap \in Nat \ {0} /\ FrameLen \in Nat \ {0}
  /\ SocketCap \in Nat \ {0}
  /\ Grace \in Nat
  /\ ThresholdDraws \subseteq Thresholds
  /\ Sleeps \subseteq Nat \ {0}
  /\ StartTimes \subseteq Nat
  /\ Reads \subseteq Seq(Nat) \ {<<>>}
  /\ MaxCells \in Nat /\ MaxTime \in Nat

VARIABLES
  \* time
  now, sessionStart,
  \* the reader task: chunks read, cells handed to the channel, its state
  input, sent, reader, readerEnd,
  channel,
  \* the FlowSlot and its correlator
  slot, pc, gate, clockStarted, firstService, nextDeparture,
  queue, realEmitted, wireSeq, thresholds,
  readerDone, realBytes, tail, finishBy, eofSeen,
  \* the connection: frames emitted and not yet read by the peer, how many of
  \* their bytes are in the kernel and how many still in `pending'
  flight, kernel, unwritten, wire,
  \* the receiver: real cells forwarded, and whether it saw the end of stream
  received, peerDone

timeVars     == <<now, sessionStart>>
readerVars   == <<input, sent, reader, readerEnd>>
clockVars    == <<clockStarted, firstService, nextDeparture>>
eofVars      == <<readerDone, tail, finishBy, eofSeen>>
peerVars     == <<received, peerDone>>
vars == <<timeVars, readerVars, channel, slot, pc, gate, clockVars, queue,
          realEmitted, wireSeq, thresholds, eofVars, realBytes,
          flight, kernel, unwritten, wire, peerVars>>

Dummy == 0
Live == slot = "live"
Outcomes == {"drained", "backstop", "wireError"}

-----------------------------------------------------------------------------
\* real_hold_until: the first epoch boundary for a gated flow of the Epoch
\* policy, the start of the session for every other flow.
HoldUntil == IF Gated /\ Policy = "Epoch" THEN NextBoundary(sessionStart) ELSE sessionStart

\* A flow as shaped_forward or register_shaped_flow creates it.
Init ==
  /\ now \in StartTimes /\ sessionStart = now
  /\ input = <<>> /\ sent = 0 /\ reader = "read" /\ readerEnd = 0
  /\ channel = <<>>
  /\ slot = "live" /\ pc = "sleep" /\ gate = FALSE
  /\ clockStarted = FALSE /\ firstService = 0
  /\ nextDeparture \in {AdvanceClock(now, iat, now) : iat \in Iats}
  /\ queue = <<>> /\ realEmitted = 0 /\ wireSeq = 0
  /\ thresholds \in ThresholdDraws
  /\ readerDone = FALSE /\ realBytes = 0 /\ eofSeen = 0
  /\ tail = [deadline |-> 0, vol |-> 0] /\ finishBy = 0
  /\ flight = <<>> /\ kernel = 0 /\ unwritten = 0 /\ wire = "open"
  /\ received = <<>> /\ peerDone = FALSE

-----------------------------------------------------------------------------
(* The reader task.                                                        *)

flowVars == <<slot, pc, gate, clockVars, queue, realEmitted, wireSeq, thresholds,
              eofVars, realBytes, flight, kernel, unwritten, wire>>

\* The source yields bytes, cut into chunks of at most CELL_PAYLOAD.
ReaderRead ==
  /\ reader = "read"
  /\ \E chunks \in Reads :
       /\ Len(input) + Len(chunks) <= MaxCells
       /\ input' = input \o chunks
  /\ reader' = "send"
  /\ UNCHANGED <<timeVars, sent, readerEnd, channel, flowVars, peerVars>>

\* cell_tx.send(cell).await: waits for room in the channel.
ReaderSend ==
  /\ reader = "send" /\ Live
  /\ Len(channel) < ChannelCap
  /\ channel' = Append(channel, sent + 1)
  /\ sent' = sent + 1
  /\ reader' = IF sent' = Len(input) THEN "read" ELSE "send"
  /\ UNCHANGED <<timeVars, input, readerEnd, flowVars, peerVars>>

\* The emitter has dropped the flow, so the send fails and the task returns.
ReaderSendFails ==
  /\ reader = "send" /\ ~Live
  /\ reader' = "done" /\ readerEnd' = now
  /\ UNCHANGED <<timeVars, input, sent, channel, flowVars, peerVars>>

\* End of the source or a read error: either way cell_tx is dropped.
ReaderEnds ==
  /\ reader = "read"
  /\ reader' = "done" /\ readerEnd' = now
  /\ UNCHANGED <<timeVars, input, sent, channel, flowVars, peerVars>>

-----------------------------------------------------------------------------
(* The emitter.  Between a wake and the end of the service no await is     *)
(* reached; only the reader and the peer run concurrently with it.         *)

\* Fault: the departure clock is not restarted on the first service.
Wake_NoRestart ==
  /\ Live /\ pc = "sleep"
  /\ \E d \in Sleeps : now + d <= MaxTime /\ now' = now + d
  /\ gate' = (now' >= HoldUntil)
  /\ pc' = "service" /\ clockStarted' = TRUE
  /\ firstService' = IF clockStarted THEN firstService ELSE now'
  /\ UNCHANGED <<sessionStart, readerVars, channel, slot, queue, realEmitted,
                 nextDeparture, wireSeq, thresholds, eofVars, realBytes, flight,
                 kernel, unwritten, wire, peerVars>>

\* run_emitter wakes from sleep(EMIT_TICK) and starts to service the flow.
\* The first service restarts the departure clock.
Wake ==
  /\ Live /\ pc = "sleep"
  /\ PromptPeer => kernel < FrameLen
  /\ \E d \in Sleeps : now + d <= MaxTime /\ now' = now + d
  /\ gate' = (now' >= HoldUntil)
  /\ pc' = "service"
  /\ IF clockStarted
     THEN UNCHANGED clockVars
     ELSE /\ clockStarted' = TRUE
          /\ firstService' = now'
          /\ nextDeparture' \in {RestartClock(iat, now') : iat \in Iats}
  /\ UNCHANGED <<sessionStart, readerVars, channel, slot, queue, realEmitted,
                 wireSeq, thresholds, eofVars, realBytes, flight, kernel,
                 unwritten, wire, peerVars>>

\* Fault: the cap on pending is not looked at.
SlotLoop_NoCap == SlotReady(nextDeparture, now)

\* The condition of the slot loop: a slot is due and pending is below its cap.
SlotLoop == SlotReady(nextDeparture, now) /\ unwritten < PendingCap

HasQueueSpace == Len(queue) < QueueCap

\* Fault: the cell overtakes the queue.
InjectReal_Front(q, cell) == IF Len(q) >= QueueCap THEN q ELSE <<cell>> \o q

\* TimingCorrelator::inject_real: a full queue refuses the cell, which the
\* caller has already taken from the channel.
InjectReal(q, cell) == IF Len(q) >= QueueCap THEN q ELSE Append(q, cell)

\* Fault: the entry gate is ignored.
MayPull_NoGate == ~readerDone /\ HasQueueSpace

\* When this slot may look at the channel.
MayPull == ~readerDone /\ HasQueueSpace /\ gate

\* TimingCorrelator::tick for a slot that is due, over the queue q the pull
\* left: advance the clock, then emit the oldest real cell unless the slot is
\* reserved for a dummy; encode_frame appends the sealed frame to pending.
EmitFrame(q, iat, forceDummy) ==
  /\ nextDeparture' = AdvanceClock(nextDeparture, iat, now)
  /\ IF ~forceDummy /\ q # <<>>
     THEN /\ queue' = Tail(q)
          /\ flight' = Append(flight, Head(q))
          /\ realEmitted' = realEmitted + 1
     ELSE /\ queue' = q
          /\ flight' = Append(flight, Dummy)
          /\ UNCHANGED realEmitted
  /\ wireSeq' = wireSeq + 1
  /\ unwritten' = unwritten + FrameLen

\* The frame of this slot, for every interval and every coin the RNG can give.
TickSlot(q) ==
  /\ \E iat \in Iats, forceDummy \in BOOLEAN : EmitFrame(q, iat, forceDummy)
  /\ UNCHANGED <<timeVars, readerVars, slot, pc, gate, clockStarted, firstService,
                 thresholds, kernel, wire, peerVars>>

\* Fault: the byte count is assigned instead of accumulated.
SlotPullsCell_LastOnly ==
  /\ pc = "service" /\ SlotLoop /\ MayPull
  /\ channel # <<>>
  /\ channel' = Tail(channel)
  /\ realBytes' = input[Head(channel)]
  /\ TickSlot(InjectReal(queue, Head(channel)))
  /\ UNCHANGED eofVars

\* try_recv returns a cell.
SlotPullsCell ==
  /\ pc = "service" /\ SlotLoop /\ MayPull
  /\ channel # <<>>
  /\ channel' = Tail(channel)
  /\ realBytes' = realBytes + (IF HasQueueSpace THEN input[Head(channel)] ELSE 0)
  /\ TickSlot(InjectReal(queue, Head(channel)))
  /\ UNCHANGED eofVars

\* Fault: an empty channel is taken for a closed one.
SlotSeesEof_OnEmpty ==
  /\ pc = "service" /\ SlotLoop /\ MayPull
  /\ channel = <<>>
  /\ readerDone' = TRUE
  /\ tail' = TailTargets(realBytes, wireSeq, thresholds, sessionStart, now)
  /\ finishBy' = Backstop(tail', now, Grace)
  /\ eofSeen' = now
  /\ TickSlot(queue)
  /\ UNCHANGED <<channel, realBytes>>

\* try_recv returns Disconnected: the reader is gone and the channel empty.
SlotSeesEof ==
  /\ pc = "service" /\ SlotLoop /\ MayPull
  /\ channel = <<>> /\ reader = "done"
  /\ readerDone' = TRUE
  /\ tail' = TailTargets(realBytes, wireSeq, thresholds, sessionStart, now)
  /\ finishBy' = Backstop(tail', now, Grace)
  /\ eofSeen' = now
  /\ TickSlot(queue)
  /\ UNCHANGED <<channel, realBytes>>

\* try_recv returns Empty, or the slot does not look at the channel.
SlotWithoutPull ==
  /\ pc = "service" /\ SlotLoop
  /\ MayPull => channel = <<>> /\ reader # "done"
  /\ TickSlot(queue)
  /\ UNCHANGED <<channel, realBytes, eofVars>>

\* Fault: more is drained from pending than was written.
Writable_Overrun ==
  IF unwritten = 0 \/ kernel >= SocketCap THEN {0} ELSE 1 .. SocketCap - kernel

\* How many bytes try_write can take: none when there is nothing to write or
\* the socket is full (WouldBlock), otherwise at least one, and all that fits
\* in the socket of a prompt peer.
Writable ==
  IF unwritten = 0 \/ kernel >= SocketCap THEN {0}
  ELSE {n \in 1 .. unwritten :
          /\ n <= SocketCap - kernel
          /\ PromptPeer => n \in {unwritten, SocketCap - kernel}}

\* Fault: cells still in the correlator's queue are forgotten.
TailMet_IgnoresQueue(left) ==
  left = 0 /\ now >= tail.deadline /\ wireSeq >= tail.vol

\* Everything accepted has been emitted and written, and the tail is reached.
TailMet(left) ==
  /\ queue = <<>> /\ left = 0
  /\ now >= tail.deadline /\ wireSeq >= tail.vol

\* The FlowSlot is dropped: what is queued is lost, the write half is closed
\* and the frames that are completely in the kernel still reach the peer.
DropFlow(outcome, inKernel) ==
  /\ slot' = outcome
  /\ channel' = <<>> /\ queue' = <<>>
  /\ flight' = SubSeq(flight, 1, inKernel \div FrameLen)
  /\ kernel' = (inKernel \div FrameLen) * FrameLen
  /\ unwritten' = 0

KeepFlow(written) ==
  /\ kernel' = kernel + written
  /\ unwritten' = unwritten - written
  /\ UNCHANGED <<slot, channel, queue, flight>>

serviceEndFrame == <<timeVars, readerVars, gate, clockVars, realEmitted, wireSeq,
                     thresholds, eofVars, realBytes, wire, peerVars>>

\* Fault: there is no backstop.
ServiceEnd_NoBackstop ==
  /\ pc = "service" /\ ~SlotLoop
  /\ wire = "open" \/ unwritten = 0
  /\ \E n \in Writable :
       IF readerDone /\ TailMet(unwritten - n) THEN DropFlow("drained", kernel + n)
       ELSE KeepFlow(n)
  /\ pc' = "sleep"
  /\ UNCHANGED serviceEndFrame

\* The slot loop is over: flush, then decide whether the flow is finished.
ServiceEnd ==
  /\ pc = "service" /\ ~SlotLoop
  /\ wire = "open" \/ unwritten = 0
  /\ \E n \in Writable :
       IF readerDone /\ TailMet(unwritten - n) THEN DropFlow("drained", kernel + n)
       ELSE IF readerDone /\ now >= finishBy THEN DropFlow("backstop", kernel + n)
       ELSE KeepFlow(n)
  /\ pc' = "sleep"
  /\ UNCHANGED serviceEndFrame

\* try_write fails: the flow is dropped.
ServiceWireError ==
  /\ pc = "service" /\ ~SlotLoop
  /\ wire = "broken" /\ unwritten > 0
  /\ DropFlow("wireError", 0)
  /\ pc' = "sleep"
  /\ UNCHANGED serviceEndFrame

-----------------------------------------------------------------------------
(* The connection and the peer (strip_and_forward).                        *)

senderVars == <<timeVars, readerVars, channel, slot, pc, gate, clockVars, queue,
                realEmitted, wireSeq, thresholds, eofVars, realBytes, unwritten>>

\* read_sealed_frame gets a whole frame; dummies are dropped.
PeerRead ==
  /\ wire = "open" /\ kernel >= FrameLen
  /\ flight' = Tail(flight)
  /\ kernel' = kernel - FrameLen
  /\ received' = IF Head(flight) = Dummy THEN received ELSE Append(received, Head(flight))
  /\ UNCHANGED <<senderVars, wire, peerDone>>

\* read_exact hits the end of the stream, possibly inside a frame: clean EOF
\* for the receiver either way, and it shuts its output down.
PeerEof ==
  /\ wire = "open" /\ ~Live
  /\ kernel < FrameLen /\ ~peerDone
  /\ peerDone' = TRUE
  /\ UNCHANGED <<senderVars, flight, kernel, wire, received>>

\* The connection breaks; frames in the kernel are lost.
WireBreaks ==
  /\ LossyNetwork /\ wire = "open"
  /\ wire' = "broken"
  /\ UNCHANGED <<senderVars, flight, kernel, peerVars>>

-----------------------------------------------------------------------------
Emitter == \/ Wake \/ SlotPullsCell \/ SlotSeesEof \/ SlotWithoutPull
           \/ ServiceEnd \/ ServiceWireError
Reader  == ReaderRead \/ ReaderSend \/ ReaderSendFails \/ ReaderEnds
Network == PeerRead \/ PeerEof \/ WireBreaks

Next == Emitter \/ Reader \/ Network

Spec == Init /\ [][Next]_vars

\* The emitter thread is always scheduled again, and a send whose channel has
\* room, or whose receiver is gone, completes.  Nothing is assumed of the
\* source or of the peer.
FairSpec == Spec /\ WF_vars(Emitter) /\ WF_vars(ReaderSend \/ ReaderSendFails)

-----------------------------------------------------------------------------
(* Properties.                                                             *)

\* The types of the flow; a slot is live or dropped for one of three reasons, and
\* no byte count of service_flow's flush goes below zero.
TypeOK ==
  /\ now \in Nat /\ sessionStart \in Nat
  /\ input \in Seq(Nat) /\ sent \in Nat
  /\ reader \in {"read", "send", "done"} /\ readerEnd \in Nat
  /\ channel \in Seq(Nat \ {0}) /\ queue \in Seq(Nat \ {0})
  /\ slot \in {"live"} \cup Outcomes
  /\ pc \in {"sleep", "service"} /\ gate \in BOOLEAN
  /\ clockStarted \in BOOLEAN /\ firstService \in Nat /\ nextDeparture \in Nat
  /\ realEmitted \in Nat /\ wireSeq \in Nat /\ realBytes \in Nat
  /\ thresholds \in Thresholds
  /\ readerDone \in BOOLEAN /\ finishBy \in Nat /\ eofSeen \in Nat
  /\ tail \in [deadline : Nat, vol : Nat]
  /\ flight \in Seq(Nat) /\ kernel \in Nat /\ unwritten \in Nat
  /\ wire \in {"open", "broken"}
  /\ received \in Seq(Nat \ {0}) /\ peerDone \in BOOLEAN

\* The receiver forwards the real cells in the order the reader read them,
\* each once and without a gap, however slots, forced dummies, partial writes
\* and a dropped flow interleave (service_flow, strip_and_forward).
InOrderDelivery == \A i \in 1 .. Len(received) : received[i] = i

\* pending never holds a whole frame more than PENDING_CAP allows: the cap is
\* tested before every slot and not once per service.
PendingBounded == unwritten < PendingCap + FrameLen

\* The hard throughput cap of service_flow: since the first service the flow
\* has emitted at most one frame per shortest interval, with no startup burst
\* of the slots that came due before it, and has taken no more cells from the
\* channel than it has emitted frames.
ThroughputCap ==
  /\ clockStarted => wireSeq <= now - firstService
  /\ Live => sent - Len(channel) <= wireSeq

\* Epoch entry gate: no real cell is emitted before the first epoch boundary
\* after the session started.
EntryGateHolds == realEmitted > 0 => now >= HoldUntil

\* A flow is cut off by its backstop only when it has had the whole grace
\* period since the end of its source was seen.
GraceBeforeForcedClose == slot = "backstop" => now >= eofSeen + Grace

\* Epoch exit: a flow that ends without a wire error does so at or after the
\* first epoch boundary following the end of its source, as all flows of that
\* epoch do.
ExitOnBoundary ==
  Policy = "Epoch" /\ slot \in {"drained", "backstop"} => now >= NextBoundary(eofSeen)

\* When a flow closes as drained, the receiver that sees the end of the stream
\* has got every cell that was read from the source.
OrderlyCloseIsComplete ==
  slot = "drained" /\ peerDone => Len(received) = Len(input)

SumSeq(s) == FoldLeft(LAMBDA a, b : a + b, 0, s)
TotalBytes == SumSeq(input)

\* A flow of the ByClass policy that is not torn down by the wire lasts as long
\* as the class of ALL the bytes of its source asks for, and if it closes as
\* drained it has put that class's volume on the wire.  tail_targets is called
\* once, when the end of the source is seen, so this needs every byte to have
\* been counted by then (service_flow, real_bytes).
ClassFloorHolds ==
  LET class == Classify(thresholds, TotalBytes)
  IN  Policy = "ByClass" /\ slot \in {"drained", "backstop"} =>
        /\ now >= sessionStart + TargetDuration[class]
        /\ slot = "drained" => wireSeq >= TargetCells[class]

\* How long a flow of the Off or the ByClass policy may live when its peer reads:
\* after the first wake, every cell that is still in the channel and the end of the
\* stream take a slot each, which waits for its interval and a late wake; when the
\* longest class is over, too, come the grace period and one more wake.
SlotTime == Max(Iats) + Max(Sleeps) - 1
SeenBy == readerEnd + Max(Sleeps) + (ChannelCap + 1) * SlotTime
LongestClass == IF Policy = "ByClass" THEN Max(Range(TargetDuration)) ELSE 0
RetirementLimit == Max({SeenBy, sessionStart + LongestClass}) + Grace + Max(Sleeps)

\* A flow whose source has ended is retired within the limit: "a flow is never
\* kept alive indefinitely" (FlowSlot.finish_by, service_flow).
RetirementBound == Live /\ reader = "done" => now < RetirementLimit

\* The pipe is open as long as the flow lives, and complete when it was drained.
PipeState == CASE slot = "live"    -> "open"
               [] slot = "drained" -> "complete"
               [] OTHER            -> "cut"

\* The flow is an implementation of the abstract cell pipe.
Pipe == INSTANCE CellPipe WITH
          offered   <- Len(input),
          delivered <- received,
          state     <- PipeState,
          ended     <- peerDone

\* Every step of the flow is a step of the pipe or leaves it unchanged.
ImplementsPipe == Pipe!Spec

\* The backstop: once the end of the source has been seen the flow is dropped,
\* whatever the peer does.  (finishBy <= MaxTime: the model's clock reaches it.)
BackstopFires == readerDone /\ finishBy <= MaxTime ~> ~Live

-----------------------------------------------------------------------------
(* The inductive invariant behind the safety properties, part by part.     *)

\* Where the reader stands with respect to the channel.
ReaderInv ==
  /\ sent <= Len(input)
  /\ reader = "read" => sent = Len(input)
  /\ reader = "send" => sent < Len(input)
  /\ Live /\ reader = "done" => sent = Len(input)
  /\ readerDone => reader = "done" /\ sent = Len(input)

\* While the flow lives, the cells handed over are the emitted ones, then the
\* queue, then the channel, with no gap between them.
BufferInv ==
  Live => /\ sent = realEmitted + Len(queue) + Len(channel)
          /\ \A i \in 1 .. Len(queue) : queue[i] = realEmitted + i
          /\ \A i \in 1 .. Len(channel) : channel[i] = realEmitted + Len(queue) + i
          /\ Len(queue) <= QueueCap
          /\ readerDone => channel = <<>>

\* The real frames in flight continue what was received: they ascend, every
\* cell between the last one received and a real frame is ahead of it, and
\* nothing emitted is missing as long as the flow has not been cut.
FlightInv ==
  /\ InOrderDelivery
  /\ Len(received) <= realEmitted
  /\ \A i \in 1 .. Len(flight) :
       flight[i] # Dummy => Len(received) < flight[i] /\ flight[i] <= realEmitted
  /\ \A i, j \in 1 .. Len(flight) :
       i < j /\ flight[i] # Dummy /\ flight[j] # Dummy => flight[i] < flight[j]
  /\ \A i \in 1 .. Len(flight) : \A c \in Len(received) + 1 .. flight[i] - 1 :
       \E j \in 1 .. i - 1 : flight[j] = c
  /\ slot \in {"live", "drained"} =>
       \A c \in Len(received) + 1 .. realEmitted :
         \E i \in 1 .. Len(flight) : flight[i] = c

\* Bytes and frames agree; a dropped flow has nothing left to write.
ByteInv ==
  /\ kernel + unwritten = FrameLen * Len(flight)
  /\ unwritten < PendingCap + FrameLen
  /\ ~Live => unwritten = 0 /\ pc = "sleep"
  /\ peerDone => ~Live /\ kernel < FrameLen
  /\ slot = "drained" => readerDone /\ realEmitted = sent

\* The schedule never runs ahead of one slot per unit since the first service.
ClockInv ==
  /\ ~clockStarted => wireSeq = 0 /\ pc = "sleep"
  /\ clockStarted => /\ wireSeq <= now - firstService
                     /\ wireSeq < nextDeparture - firstService
  /\ Live => realEmitted + Len(queue) <= wireSeq
  /\ realEmitted <= wireSeq

\* The entry gate and the instants fixed when the end of the source was seen.
GateInv ==
  /\ gate => now >= HoldUntil
  /\ realEmitted + Len(queue) > 0 => now >= HoldUntil
  /\ readerDone /\ Policy \in {"Off", "Epoch"} => finishBy >= eofSeen + Grace
  /\ readerDone /\ Policy = "Epoch" =>
       tail.deadline >= NextBoundary(eofSeen) /\ finishBy >= tail.deadline
  /\ slot = "backstop" => readerDone /\ now >= finishBy
  /\ slot = "drained" => now >= tail.deadline

IInv == TypeOK /\ ReaderInv /\ BufferInv /\ FlightInv /\ ByteInv /\ ClockInv /\ GateInv
=============================================================================
