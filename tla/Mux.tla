--------------------------------- MODULE Mux ----------------------------------
(***************************************************************************)
(* The multiplexed wire of src/transport.rs: many Tor circuits share one   *)
(* shaped connection, and the server gives each stream a bridge connection *)
(* of its own.                                                             *)
(*                                                                         *)
(*   mux_tor_reader --uplink--> mux_demux_to_bridges --chan--> relay writer*)
(*   mux_tor_writer <--down-- receive_mux_inbound <--downlink-- relay reader*)
(*                                                                         *)
(* uplink and downlink are the two shaped flows, taken here as the in-order*)
(* pipes CellPipe specifies and FlowEmitter implements.                    *)
(*                                                                         *)
(* A cell is <<stream id, source, n>>: the n-th cell of a circuit (uplink) *)
(* or of a relay (downlink), or a close sentinel when n = 0.  Only the id  *)
(* and the sentinel are on the wire; source and n identify the payload.    *)
(***************************************************************************)
EXTENDS Integers, Sequences, FiniteSets, Functions

CONSTANTS
  NumCircuits,     \* circuits the client accepts
  IdMod,           \* 2^16: the range of the u16 stream id
  MaxStreams,      \* MAX_STREAMS_PER_WIRE
  MaxGlobal,       \* MAX_GLOBAL_BRIDGE_STREAMS
  LinkCap,         \* cells a shaped flow buffers
  ChanCap,         \* the 256 cells of a relay's channel
  DownCap,         \* the 256 cells of a circuit's channel
  HoldCap,         \* EPOCH_HOLD_MAX_BYTES, in cells
  EpochHold,       \* TRUE: the policy is Epoch, so that relays hold
  TorErrors,       \* TRUE: reads from and writes to a circuit may fail
  BridgeErrors,    \* TRUE: the bridge may refuse, fail a read or a write
  WireErrors,      \* TRUE: the connection may break
  FrameErrors,     \* TRUE: a frame may fail to open, at either end
  MaxCells,        \* bound: data cells of each circuit
  MaxReplies       \* bound: data cells per relay

ASSUME MuxAssumption ==
  /\ NumCircuits \in Nat /\ IdMod \in Nat /\ IdMod > 2
  /\ {MaxStreams, MaxGlobal, LinkCap, ChanCap, DownCap, HoldCap} \subseteq Nat \ {0}
  /\ {EpochHold, TorErrors, BridgeErrors, WireErrors, FrameErrors} \subseteq BOOLEAN
  /\ MaxCells \in [1 .. NumCircuits -> Nat] /\ MaxReplies \in Nat

Circuits == 1 .. NumCircuits
Ids == 1 .. IdMod - 1

VARIABLES
  \* the client: id allocator, stream_map and the circuits; TRUE when the
  \* receive task has returned while the connection is up
  nextId, cmap, circ, deaf,
  \* the wire
  wire, uplink, downlink,
  \* the server: demux loop, its stream_map, the relays, the global counter
  demux, smap, relay, streams,
  \* history: uplink cells dropped, with the reason
  lost

clientVars == <<nextId, cmap, circ, deaf>>
serverVars == <<demux, smap, relay, streams>>
vars == <<clientVars, wire, uplink, downlink, serverVars, lost>>

Id(cell) == cell[1]
Source(cell) == cell[2]
Number(cell) == cell[3]
Close(id) == <<id, 0, 0>>
IsClose(cell) == Number(cell) = 0

Without(map, id) == Restrict(map, DOMAIN map \ {id})
With(map, id, value) == [i \in DOMAIN map \cup {id} |-> IF i = id THEN value ELSE map[i]]

Idle == [id |-> 0, reader |-> "idle", writer |-> "none", sent |-> 0,
         down |-> <<>>, got |-> <<>>]

Init ==
  /\ nextId = 1 /\ cmap = <<>>
  /\ circ = [c \in Circuits |-> Idle] /\ deaf = FALSE
  /\ wire = "up" /\ uplink = <<>> /\ downlink = <<>>
  /\ demux = [pc |-> "read", echo |-> 0]
  /\ smap = <<>> /\ relay = <<>> /\ streams = 0
  /\ lost = {}

-----------------------------------------------------------------------------
(* The client.                                                             *)

InMap(c) == \E id \in DOMAIN cmap : cmap[id] = c

\* Fault: the allocator hands out the lowest free id.
ScanFrom_Lowest(start) == CHOOSE id \in Ids \ DOMAIN cmap : \A j \in Ids \ DOMAIN cmap : id <= j

\* The scan of add_stream: 0 is skipped, and so is every id in the map.
FreeId(id) == id # 0 /\ id \notin DOMAIN cmap
ScanFrom(start) ==
  LET steps == {k \in 0 .. IdMod - 1 : FreeId((start + k) % IdMod)}
  IN  (start + (CHOOSE k \in steps : \A j \in steps : k <= j)) % IdMod

Saturated == Cardinality(DOMAIN cmap) >= IdMod - 2

\* connect_circuit on a live wire: a stream id, a channel and the two tasks.
AddStream(c) ==
  /\ circ[c].reader = "idle" /\ wire = "up" /\ ~Saturated
  /\ LET id == ScanFrom(nextId) IN
       /\ cmap' = With(cmap, id, c)
       /\ nextId' = (id + 1) % IdMod
       /\ circ' = [circ EXCEPT ![c] = [Idle EXCEPT !.id = id, !.reader = "run", !.writer = "run"]]
  /\ UNCHANGED <<deaf, wire, uplink, downlink, serverVars, lost>>

\* add_stream returns None: the circuit is dropped.
AddStreamFails(c) ==
  /\ circ[c].reader = "idle" /\ wire = "up" /\ Saturated
  /\ circ' = [circ EXCEPT ![c].reader = "refused"]
  /\ UNCHANGED <<nextId, cmap, deaf, wire, uplink, downlink, serverVars, lost>>

\* mux_tor_reader reads a chunk and sends it, waiting for room in the uplink.
TorRead(c) ==
  /\ circ[c].reader = "run" /\ circ[c].sent < MaxCells[c]
  /\ wire = "up" /\ Len(uplink) < LinkCap
  /\ uplink' = Append(uplink, <<circ[c].id, c, circ[c].sent + 1>>)
  /\ circ' = [circ EXCEPT ![c].sent = @ + 1]
  /\ UNCHANGED <<nextId, cmap, deaf, wire, downlink, serverVars, lost>>

\* The circuit's end of file: the close sentinel is sent.
TorEof(c) ==
  /\ circ[c].reader = "run"
  /\ wire = "up" /\ Len(uplink) < LinkCap
  /\ uplink' = Append(uplink, Close(circ[c].id))
  /\ circ' = [circ EXCEPT ![c].reader = "done"]
  /\ UNCHANGED <<nextId, cmap, deaf, wire, downlink, serverVars, lost>>

\* A read error ends the reader without a sentinel; so does a send on a wire
\* whose flow is gone.
TorReaderFails(c) ==
  /\ circ[c].reader = "run"
  /\ TorErrors \/ wire = "down"
  /\ circ' = [circ EXCEPT ![c].reader = "failed"]
  /\ UNCHANGED <<nextId, cmap, deaf, wire, uplink, downlink, serverVars, lost>>

\* mux_tor_writer forwards a chunk, or fails to and drops its receiver.
TorWrite(c) ==
  /\ circ[c].writer = "run" /\ circ[c].down # <<>>
  /\ \/ circ' = [circ EXCEPT ![c].got = Append(@, Head(circ[c].down)), ![c].down = Tail(@)]
     \/ /\ TorErrors
        /\ circ' = [circ EXCEPT ![c].writer = "done", ![c].down = <<>>]
  /\ UNCHANGED <<nextId, cmap, deaf, wire, uplink, downlink, serverVars, lost>>

\* All senders are gone and the channel is empty: the write half is shut down.
TorWriterEnds(c) ==
  /\ circ[c].writer = "run" /\ circ[c].down = <<>> /\ ~InMap(c)
  /\ circ' = [circ EXCEPT ![c].writer = "done"]
  /\ UNCHANGED <<nextId, cmap, deaf, wire, uplink, downlink, serverVars, lost>>

\* receive_mux_inbound: a close sentinel removes the map entry; a data cell goes
\* to its circuit, unless the id is unknown, the circuit's writer is gone (the
\* entry goes too) or its channel is full.
Receive ==
  /\ wire = "up" /\ ~deaf /\ downlink # <<>>
  /\ downlink' = Tail(downlink)
  /\ LET cell == Head(downlink)
         id   == Id(cell)
         c    == cmap[id]
     IN  IF IsClose(cell) THEN cmap' = Without(cmap, id) /\ UNCHANGED circ
         ELSE IF id \notin DOMAIN cmap THEN UNCHANGED <<cmap, circ>>
         ELSE IF circ[c].writer # "run" THEN cmap' = Without(cmap, id) /\ UNCHANGED circ
         ELSE IF Len(circ[c].down) >= DownCap THEN UNCHANGED <<cmap, circ>>
         ELSE circ' = [circ EXCEPT ![c].down = Append(@, cell)] /\ UNCHANGED cmap
  /\ UNCHANGED <<nextId, deaf, wire, uplink, serverVars, lost>>

\* A frame does not open: receive_mux_inbound returns by itself.  The map keeps
\* its senders, the uplink goes on, and nobody reads the downlink any more.
ReceiveFails ==
  /\ wire = "up" /\ ~deaf /\ FrameErrors
  /\ deaf' = TRUE
  /\ UNCHANGED <<nextId, cmap, circ, wire, uplink, downlink, serverVars, lost>>

-----------------------------------------------------------------------------
(* The server's demux loop.                                                *)

LiveRelay(r) == relay[r].phase \in {"hold", "connect", "run"}

\* The receiving end of the relay's channel still exists.
Receiving(r) == relay[r].phase \in {"hold", "connect"} \/ relay[r].writer = "run"

\* A relay task as mux_demux_to_bridges spawns it, with its first cell routed.
NewRelay(cell) ==
  [id |-> Id(cell), owner |-> Source(cell),
   phase |-> IF EpochHold THEN "hold" ELSE "connect",
   sender |-> TRUE, chan |-> <<cell>>, held |-> <<>>,
   writer |-> "none", out |-> <<>>, reader |-> "none", replies |-> 0]

\* Fault: a copy of each sender survives.
DropSenders_Leak(ids) == relay

\* The entries of stream_map are dropped: their relays see the channel close.
DropSenders(ids) ==
  [r \in DOMAIN relay |->
     IF \E id \in ids : id \in DOMAIN smap /\ smap[id] = r
     THEN [relay[r] EXCEPT !.sender = FALSE] ELSE relay[r]]

Reading == demux.pc = "read" /\ wire = "up" /\ uplink # <<>>

\* Fault: the close is not echoed.
DemuxClose_NoEcho ==
  /\ Reading /\ IsClose(Head(uplink))
  /\ uplink' = Tail(uplink)
  /\ smap' = Without(smap, Id(Head(uplink)))
  /\ relay' = DropSenders({Id(Head(uplink))})
  /\ UNCHANGED <<clientVars, wire, downlink, demux, streams, lost>>

\* A close sentinel: the entry goes at once, the echo waits for room.
DemuxClose ==
  /\ Reading /\ IsClose(Head(uplink))
  /\ uplink' = Tail(uplink)
  /\ smap' = Without(smap, Id(Head(uplink)))
  /\ relay' = DropSenders({Id(Head(uplink))})
  /\ demux' = [pc |-> "echo", echo |-> Id(Head(uplink))]
  /\ UNCHANGED <<clientVars, wire, downlink, streams, lost>>

DemuxEcho ==
  /\ demux.pc = "echo"
  /\ IF wire = "up"
     THEN Len(downlink) < LinkCap /\ downlink' = Append(downlink, Close(demux.echo))
     ELSE UNCHANGED downlink
  /\ demux' = [pc |-> "read", echo |-> 0]
  /\ UNCHANGED <<clientVars, wire, uplink, smap, relay, streams, lost>>

\* A data cell of a known stream goes to its relay.  A full channel drops the
\* cell; a channel whose receiver is gone drops the cell and the entry.
DemuxRoute ==
  /\ Reading /\ ~IsClose(Head(uplink)) /\ Id(Head(uplink)) \in DOMAIN smap
  /\ uplink' = Tail(uplink)
  /\ LET cell == Head(uplink)
         r    == smap[Id(cell)]
     IN  IF ~Receiving(r)
         THEN /\ smap' = Without(smap, Id(cell)) /\ relay' = DropSenders({Id(cell)})
              /\ lost' = lost \cup {[cell |-> cell, why |-> "closed"]}
         ELSE IF Len(relay[r].chan) >= ChanCap
         THEN /\ lost' = lost \cup {[cell |-> cell, why |-> relay[r].phase]}
              /\ UNCHANGED <<smap, relay>>
         ELSE /\ relay' = [relay EXCEPT ![r].chan = Append(@, cell)]
              /\ UNCHANGED <<smap, lost>>
  /\ UNCHANGED <<clientVars, wire, downlink, demux, streams>>

\* The first data cell of a stream the map does not hold.
NewStream ==
  /\ Reading /\ ~IsClose(Head(uplink)) /\ Id(Head(uplink)) \notin DOMAIN smap
  /\ uplink' = Tail(uplink)

\* Fault: the new stream is not entered into the map.
DemuxOpen_NoInsert ==
  /\ NewStream
  /\ Cardinality(DOMAIN smap) < MaxStreams /\ streams < MaxGlobal
  /\ streams' = streams + 1
  /\ relay' = Append(relay, NewRelay(Head(uplink)))
  /\ UNCHANGED <<clientVars, wire, downlink, demux, smap, lost>>

\* A relay is spawned for it.
DemuxOpen ==
  /\ NewStream
  /\ Cardinality(DOMAIN smap) < MaxStreams /\ streams < MaxGlobal
  /\ streams' = streams + 1
  /\ relay' = Append(relay, NewRelay(Head(uplink)))
  /\ smap' = With(smap, Id(Head(uplink)), Len(relay) + 1)
  /\ UNCHANGED <<clientVars, wire, downlink, demux, lost>>

\* The global cap is reached: the cell is dropped, the wire kept.
DemuxRefuse ==
  /\ NewStream
  /\ Cardinality(DOMAIN smap) < MaxStreams /\ streams >= MaxGlobal
  /\ lost' = lost \cup {[cell |-> Head(uplink), why |-> "refused"]}
  /\ UNCHANGED <<clientVars, wire, downlink, demux, smap, relay, streams>>

\* The loop returns and drops every sender.
DemuxReturns ==
  /\ demux' = [pc |-> "ended", echo |-> 0]
  /\ smap' = <<>>
  /\ relay' = DropSenders(DOMAIN smap)
  /\ UNCHANGED <<clientVars, wire, downlink, streams>>

\* The wire has ended or broken, or the client is over the per-wire cap.
DemuxEnds ==
  /\ \/ demux.pc = "read" /\ wire = "down" /\ UNCHANGED <<uplink, lost>>
     \/ /\ NewStream /\ Cardinality(DOMAIN smap) >= MaxStreams
        /\ lost' = lost \cup {[cell |-> Head(uplink), why |-> "overload"]}
  /\ DemuxReturns

\* A frame does not open.
DemuxFails ==
  /\ demux.pc = "read" /\ wire = "up" /\ FrameErrors
  /\ DemuxReturns
  /\ UNCHANGED <<uplink, lost>>

-----------------------------------------------------------------------------
(* One relay (bridge_stream_relay) and its two tasks.                      *)

relayFrame == <<clientVars, wire, uplink, demux, smap, lost>>

\* Fault: the hold buffer has no cap.
HoldPull_NoCap(r) ==
  /\ relay[r].phase = "hold" /\ relay[r].chan # <<>>
  /\ relay' = [relay EXCEPT ![r].held = Append(@, Head(relay[r].chan)), ![r].chan = Tail(@)]
  /\ UNCHANGED <<relayFrame, downlink, streams>>

\* The hold phase buffers cells up to its cap.
HoldPull(r) ==
  /\ relay[r].phase = "hold" /\ Len(relay[r].held) < HoldCap /\ relay[r].chan # <<>>
  /\ relay' = [relay EXCEPT ![r].held = Append(@, Head(relay[r].chan)), ![r].chan = Tail(@)]
  /\ UNCHANGED <<relayFrame, downlink, streams>>

\* The stream is closed before the gate opens: the task returns.
HoldClosed(r) ==
  /\ relay[r].phase = "hold" /\ Len(relay[r].held) < HoldCap
  /\ relay[r].chan = <<>> /\ ~relay[r].sender
  /\ relay' = [relay EXCEPT ![r].phase = "early"]
  /\ streams' = streams - 1
  /\ UNCHANGED <<relayFrame, downlink>>

GateOpens(r) ==
  /\ relay[r].phase = "hold"
  /\ relay' = [relay EXCEPT ![r].phase = "connect"]
  /\ UNCHANGED <<relayFrame, downlink, streams>>

\* The bridge connection is opened and the two tasks start, or the connect
\* fails and the task returns.
Connect(r) ==
  /\ relay[r].phase = "connect"
  /\ \/ /\ relay' = [relay EXCEPT ![r].phase = "run", ![r].writer = "run", ![r].reader = "run"]
        /\ UNCHANGED streams
     \/ /\ BridgeErrors
        /\ relay' = [relay EXCEPT ![r].phase = "failed"]
        /\ streams' = streams - 1
  /\ UNCHANGED <<relayFrame, downlink>>

\* Fault: the channel is served before the held cells.
BridgeWrite_ChanFirst(r) ==
  /\ relay[r].writer = "run"
  /\ IF relay[r].chan # <<>>
     THEN relay' = [relay EXCEPT ![r].out = Append(@, Head(relay[r].chan)), ![r].chan = Tail(@)]
     ELSE /\ relay[r].held # <<>>
          /\ relay' = [relay EXCEPT ![r].out = Append(@, Head(relay[r].held)), ![r].held = Tail(@)]
  /\ UNCHANGED <<relayFrame, downlink, streams>>

\* bridge_stream_writer: the held cells first, then the channel.
BridgeWrite(r) ==
  /\ relay[r].writer = "run"
  /\ IF relay[r].held # <<>>
     THEN relay' = [relay EXCEPT ![r].out = Append(@, Head(relay[r].held)), ![r].held = Tail(@)]
     ELSE /\ relay[r].chan # <<>>
          /\ relay' = [relay EXCEPT ![r].out = Append(@, Head(relay[r].chan)), ![r].chan = Tail(@)]
  /\ UNCHANGED <<relayFrame, downlink, streams>>

\* The writer ends with its channel.
BridgeWriterEnds(r) ==
  /\ relay[r].writer = "run"
  /\ relay[r].held = <<>> /\ relay[r].chan = <<>> /\ ~relay[r].sender
  /\ relay' = [relay EXCEPT ![r].writer = "done"]
  /\ UNCHANGED <<relayFrame, downlink, streams>>

\* Or with a write error.
BridgeWriteFails(r) ==
  /\ relay[r].writer = "run" /\ BridgeErrors
  /\ relay[r].held # <<>> \/ relay[r].chan # <<>>
  /\ relay' = [relay EXCEPT ![r].writer = "done"]
  /\ UNCHANGED <<relayFrame, downlink, streams>>

\* bridge_stream_reader forwards a reply.
BridgeReply(r) ==
  /\ relay[r].reader = "run" /\ relay[r].replies < MaxReplies
  /\ wire = "up" /\ Len(downlink) < LinkCap
  /\ downlink' = Append(downlink, <<relay[r].id, r, relay[r].replies + 1>>)
  /\ relay' = [relay EXCEPT ![r].replies = @ + 1]
  /\ UNCHANGED <<relayFrame, streams>>

\* The bridge closes: the sentinel is sent.
BridgeEof(r) ==
  /\ relay[r].reader = "run"
  /\ wire = "up" /\ Len(downlink) < LinkCap
  /\ downlink' = Append(downlink, Close(relay[r].id))
  /\ relay' = [relay EXCEPT ![r].reader = "done"]
  /\ UNCHANGED <<relayFrame, streams>>

\* A read error, or a downlink that is gone: no sentinel.
BridgeReaderFails(r) ==
  /\ relay[r].reader = "run"
  /\ BridgeErrors \/ wire = "down"
  /\ relay' = [relay EXCEPT ![r].reader = "done"]
  /\ UNCHANGED <<relayFrame, downlink, streams>>

\* Fault: the guard is forgotten.
RelayReturns_NoGuard(r) ==
  /\ relay[r].phase = "run"
  /\ relay[r].writer = "done" \/ relay[r].reader = "done"
  /\ relay' = [relay EXCEPT ![r].phase = "done"]
  /\ UNCHANGED <<relayFrame, downlink, streams>>

\* One of the two tasks has ended: the select returns, the guard is dropped,
\* and the other task goes on by itself.
RelayReturns(r) ==
  /\ relay[r].phase = "run"
  /\ relay[r].writer = "done" \/ relay[r].reader = "done"
  /\ relay' = [relay EXCEPT ![r].phase = "done"]
  /\ streams' = streams - 1
  /\ UNCHANGED <<relayFrame, downlink>>

-----------------------------------------------------------------------------
\* Somebody can still send on the downlink.
DownlinkSenders ==
  \/ demux.pc # "ended"
  \/ \E r \in DOMAIN relay : relay[r].phase \in {"hold", "connect"} \/ relay[r].reader = "run"

\* The connection breaks, or the server closes it because the demux loop has
\* returned and the downlink flow has been drained: what is in the two flows is
\* lost, and nothing is received any more.
WireBreaks ==
  /\ wire = "up"
  /\ WireErrors \/ (~DownlinkSenders /\ downlink = <<>>)
  /\ wire' = "down"
  /\ uplink' = <<>> /\ downlink' = <<>>
  /\ UNCHANGED <<nextId, cmap, circ, deaf, serverVars, lost>>

Circuit(c) == \/ AddStream(c) \/ AddStreamFails(c) \/ TorRead(c) \/ TorEof(c)
              \/ TorReaderFails(c) \/ TorWrite(c) \/ TorWriterEnds(c)
Demux == DemuxClose \/ DemuxEcho \/ DemuxRoute \/ DemuxOpen \/ DemuxRefuse \/ DemuxEnds
RelayTask(r) == \/ HoldPull(r) \/ HoldClosed(r) \/ GateOpens(r) \/ Connect(r)
                \/ BridgeWrite(r) \/ BridgeWriterEnds(r) \/ RelayReturns(r)
Bridge(r) == BridgeReply(r) \/ BridgeEof(r) \/ BridgeReaderFails(r) \/ BridgeWriteFails(r)

Next ==
  \/ \E c \in Circuits : Circuit(c)
  \/ Receive \/ ReceiveFails \/ Demux \/ DemuxFails \/ WireBreaks
  \/ \E r \in DOMAIN relay : RelayTask(r)
  \/ \E r \in DOMAIN relay : Bridge(r)

Spec == Init /\ [][Next]_vars

\* Tasks that can run are run: the receive and the demux loop, the writer of
\* every circuit and the relay tasks; a connect comes to a result, and a bridge
\* that is written to takes the bytes or fails.  Nothing is assumed of what the
\* circuits and the bridges send, nor of when they close, and no failure of a read,
\* a write, a frame or the wire is ever bound to happen.
RelayIndices == 1 .. SumFunction(MaxCells)
FairSpec ==
  /\ Spec
  /\ WF_vars(Receive) /\ WF_vars(Demux)
  /\ \A c \in Circuits : WF_vars(TorWrite(c) \/ TorWriterEnds(c))
  /\ \A r \in RelayIndices : WF_vars(r \in DOMAIN relay /\ RelayTask(r))

-----------------------------------------------------------------------------
(* Properties.                                                             *)

\* The types, and the bounds of every buffer: the circuits' and relays' channels,
\* the two flows and the hold buffer of bridge_stream_relay.
TypeOK ==
  /\ nextId \in 0 .. IdMod - 1
  /\ DOMAIN cmap \subseteq Ids /\ \A id \in DOMAIN cmap : cmap[id] \in Circuits
  /\ \A c \in Circuits :
       /\ circ[c].id \in Ids \cup {0} /\ circ[c].sent \in 0 .. MaxCells[c]
       /\ circ[c].reader \in {"idle", "run", "done", "failed", "refused"}
       /\ circ[c].writer \in {"none", "run", "done"}
       /\ Len(circ[c].down) <= DownCap
  /\ wire \in {"up", "down"} /\ Len(uplink) <= LinkCap /\ Len(downlink) <= LinkCap
  /\ demux \in [pc : {"read", "echo", "ended"}, echo : Ids \cup {0}]
  /\ DOMAIN smap \subseteq Ids /\ \A id \in DOMAIN smap : smap[id] \in DOMAIN relay
  /\ \A r \in DOMAIN relay : Len(relay[r].chan) <= ChanCap /\ Len(relay[r].held) <= HoldCap
  /\ streams \in Nat

\* What a relay has taken from its stream, in the order its bridge gets it.
Stream(r) == relay[r].out \o relay[r].held \o relay[r].chan

\* A bridge connection carries the cells of one circuit only, and a circuit
\* gets replies only from bridge connections opened for it, although streams
\* are told apart by nothing but a 16-bit id (mux_demux_to_bridges,
\* receive_mux_inbound).
NoCrossRouting ==
  /\ \A r \in DOMAIN relay : \A i \in DOMAIN Stream(r) : Source(Stream(r)[i]) = relay[r].owner
  /\ \A c \in Circuits : LET all == circ[c].got \o circ[c].down IN
       \A i \in DOMAIN all : relay[Source(all[i])].owner = c

\* No cell is duplicated or overtaken: on a healthy wire every cell a circuit
\* has sent is in the uplink, in exactly one relay or known to be dropped, and
\* a bridge gets its cells in the order they were sent.
UplinkAccounted ==
  /\ \A r \in DOMAIN relay : \A i, j \in DOMAIN Stream(r) :
       i < j => Number(Stream(r)[i]) < Number(Stream(r)[j])
  /\ wire = "up" => \A c \in Circuits : \A n \in 1 .. circ[c].sent :
       LET here(seq) == \E i \in DOMAIN seq : Source(seq[i]) = c /\ Number(seq[i]) = n
           owners == {r \in DOMAIN relay : here(Stream(r))}
           dropped == \E l \in lost : Source(l.cell) = c /\ Number(l.cell) = n
       IN  IF here(uplink) \/ dropped THEN owners = {} ELSE Cardinality(owners) = 1

\* GLOBAL_BRIDGE_STREAMS is the number of relay tasks that have not returned,
\* however they end (BridgeStreamGuard), and never exceeds the cap.
StreamCountExact ==
  /\ streams = Cardinality({r \in DOMAIN relay : LiveRelay(r)})
  /\ streams <= MaxGlobal

\* Without failures and below the caps a circuit has one bridge connection for
\* its whole life, even after one of its directions has ended.
OneBridgePerCircuit ==
  \A r, s \in DOMAIN relay : relay[r].owner = relay[s].owner => r = s

\* A circuit whose mux_tor_reader ends with a sentinel gets its id freed, while
\* the wire, the demux loop and the receive task last: the sentinel reaches the
\* server, its echo is not stuck behind a full downlink, and the receive loop
\* removes the entry.
CloseFreesId ==
  \A c \in Circuits :
    circ[c].reader = "done" ~> ~InMap(c) \/ deaf \/ wire = "down" \/ demux.pc = "ended"

\* When the wire goes, mux_demux_to_bridges drops its senders, and every relay
\* task, held for its gate, connecting or running, ends and gives its place back.
WireDownReleasesStreams == wire = "down" ~> streams = 0
=============================================================================
