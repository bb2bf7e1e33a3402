-------------------------------- MODULE Client --------------------------------
(***************************************************************************)
(* The mixtor-client process: local connections from Tor, in managed mode  *)
(* behind a SOCKS5 negotiation (src/socks.rs), are put on the persistent   *)
(* wire of their bridge, which the wire manager (MuxClientHandle in        *)
(* src/transport.rs) connects when there is none that is alive.  The map of*)
(* wires is behind one mutex, held across the connect and the handshake.   *)
(* A wire is alive as long as the shared emitter (Emitter) has its flow.   *)
(*                                                                         *)
(* What happens on a wire between its ends is Mux; what a handshake does is*)
(* Handshake, of which the outcome is used: it succeeds with the right key.*)
(***************************************************************************)
EXTENDS Emitter, FiniteSets

CONSTANTS
  Circuits,       \* local connections
  Servers,        \* bridge addresses
  KeyAt,          \* KeyAt[a]: the identity of the bridge at a
  Modes,          \* "managed", "raw" or "single" (handle_client_connection)
  Requests,       \* Requests[c]: what Tor may ask for over SOCKS on connection c
  Fallback,       \* --server-key, or None
  MaxWires        \* bound: wires that are dialled

None == "none"

ASSUME ClientAssumption ==
  /\ IsFiniteSet(Circuits) /\ "prewarm" \notin Circuits /\ MaxWires \in Nat
  /\ Servers # {}
  /\ Modes \subseteq {"managed", "raw", "single"}
  /\ \A c \in Circuits : \A r \in Requests[c] : DOMAIN r = {"methods", "cert", "target"}

VARIABLES
  mode,
  pc,         \* pc[c]: where the task of connection c stands
  ask,        \* ask[c]: [server, key] the circuit is to be connected to
  req,        \* req[c]: the SOCKS request
  queue,      \* the wire map's mutex: its holder and those waiting, in order
  wires,      \* wires[w]: [server, key] of every wire that was connected
  map,        \* map[a]: the wire registered for a, 0 if none
  on,         \* on[c]: the wire of circuit c
  sends,      \* sends[c]: Tor has sent something the reader has not forwarded
  receiving   \* the wires whose receive task runs: it has a handle of the stream map

cVars == <<mode, pc, ask, req, queue, wires, map, on, sends, receiving>>
clientVars == <<cVars, emVars>>

\* The task that prewarms a raw client's wire, before the accept loop.
Prewarm == "prewarm"
Tasks == Circuits \cup {Prewarm}

NoReq == [methods |-> {}, cert |-> None, target |-> None]
NoAsk == [server |-> None, key |-> None]
RawServer == CHOOSE a \in Servers : TRUE

ClientInit ==
  /\ EmitterInit
  /\ mode \in Modes
  /\ pc = [t \in Tasks |-> IF t = Prewarm /\ mode = "raw" THEN "lock" ELSE "none"]
  /\ ask = [t \in Tasks |-> IF t = Prewarm /\ mode = "raw"
                              THEN [server |-> RawServer, key |-> Fallback] ELSE NoAsk]
  /\ req = [c \in Circuits |-> NoReq]
  /\ queue = IF mode = "raw" THEN <<Prewarm>> ELSE <<>>
  /\ wires = <<>> /\ map = [a \in Servers |-> 0]
  /\ on = [c \in Circuits |-> 0]
  /\ sends = [c \in Circuits |-> FALSE] /\ receiving = {}

Alive(w) == Slotted(w)

-----------------------------------------------------------------------------
(* SOCKS (accept_socks5_connect, handle_managed_socks_connection).          *)

Goto(t, label) == pc' = [pc EXCEPT ![t] = label]

\* The accept loop: it runs once prewarm has returned.
AcceptManaged(c, r) ==
  /\ mode = "managed" /\ pc[c] = "none"
  /\ req' = [req EXCEPT ![c] = r]
  /\ Goto(c, "negotiate")
  /\ UNCHANGED <<mode, ask, queue, wires, map, on, sends, receiving, emVars>>

\* Fault: no-auth is preferred.
Negotiate_NoAuthFirst(c) ==
  /\ pc[c] = "negotiate"
  /\ Goto(c, IF "noauth" \in req[c].methods THEN "target"
             ELSE IF "userpass" \in req[c].methods THEN "userpass" ELSE "failed")
  /\ UNCHANGED <<mode, ask, req, queue, wires, map, on, sends, receiving, emVars>>

\* negotiate: username/password if it is offered, for that is where the cert comes
\* from.
Negotiate(c) ==
  /\ pc[c] = "negotiate"
  /\ Goto(c, IF "userpass" \in req[c].methods THEN "userpass"
             ELSE IF "noauth" \in req[c].methods THEN "target" ELSE "failed")
  /\ UNCHANGED <<mode, ask, req, queue, wires, map, on, sends, receiving, emVars>>

\* read_userpass_args: a cert that is not a key counts as none.
ReadArgs(c) ==
  /\ pc[c] = "userpass"
  /\ ask' = [ask EXCEPT ![c].key = req[c].cert]
  /\ Goto(c, "target")
  /\ UNCHANGED <<mode, req, queue, wires, map, on, sends, receiving, emVars>>

\* read_connect_target, the reply, and the choice of the key: an IP address is
\* needed, and a key.
ReadTarget(c) ==
  /\ pc[c] = "target"
  /\ LET key == IF ask[c].key # None THEN ask[c].key ELSE Fallback IN
     IF req[c].target \in Servers /\ key # None
     THEN /\ ask' = [ask EXCEPT ![c] = [server |-> req[c].target, key |-> key]]
          /\ Goto(c, "lock") /\ queue' = Append(queue, c)
     ELSE Goto(c, "failed") /\ UNCHANGED <<ask, queue>>
  /\ UNCHANGED <<mode, req, wires, map, on, sends, receiving, emVars>>

\* Tor goes away, or sends something that is not SOCKS.
SocksFails(c) ==
  /\ pc[c] \in {"negotiate", "userpass", "target"}
  /\ Goto(c, "failed")
  /\ UNCHANGED <<mode, ask, req, queue, wires, map, on, sends, receiving, emVars>>

\* run_raw_client: every connection goes to the one server.
AcceptRaw(c) ==
  /\ mode = "raw" /\ pc[Prewarm] \in {"up", "failed"} /\ pc[c] = "none"
  /\ ask' = [ask EXCEPT ![c] = [server |-> RawServer, key |-> Fallback]]
  /\ Goto(c, "lock") /\ queue' = Append(queue, c)
  /\ UNCHANGED <<mode, req, wires, map, on, sends, receiving, emVars>>

-----------------------------------------------------------------------------
(* The wire manager.                                                       *)

Holds(t) == queue # <<>> /\ Head(queue) = t

\* The task goes on with wire w: a circuit adds its stream, a prewarm is done.
Proceed(t, w) ==
  /\ on' = IF t = Prewarm THEN on ELSE [on EXCEPT ![t] = w]
  /\ Goto(t, IF t = Prewarm THEN "up" ELSE "stream")

\* get_or_connect_wire finds a wire that is alive.
WireHit(t) ==
  /\ pc[t] = "lock" /\ Holds(t)
  /\ map[ask[t].server] # 0 /\ Alive(map[ask[t].server])
  /\ Proceed(t, map[ask[t].server])
  /\ queue' = Tail(queue)
  /\ UNCHANGED <<mode, ask, req, wires, map, sends, receiving, emVars>>

WireMissing(t) == map[ask[t].server] = 0 \/ ~Alive(map[ask[t].server])

\* Fault: the mutex is released before the connect.
Dial_Unlocked(t) ==
  /\ pc[t] = "lock" /\ Holds(t) /\ WireMissing(t)
  /\ Goto(t, "connect") /\ queue' = Tail(queue)
  /\ UNCHANGED <<mode, ask, req, wires, map, on, sends, receiving, emVars>>

\* It finds none, and dials: the mutex is kept.
Dial(t) ==
  /\ pc[t] = "lock" /\ Holds(t) /\ WireMissing(t)
  /\ Goto(t, "connect")
  /\ UNCHANGED <<mode, ask, req, queue, wires, map, on, sends, receiving, emVars>>

\* The guard of the mutex is dropped: the next in the queue has it.
Unlock(t) == queue' = IF Holds(t) THEN Tail(queue) ELSE queue

\* Fault: whatever answers is taken for the server.
Connected_Unverified(t) ==
  /\ pc[t] = "connect" /\ mode # "single" /\ Len(wires) < MaxWires
  /\ wires' = Append(wires, [server |-> ask[t].server, key |-> ask[t].key])
  /\ map' = [map EXCEPT ![ask[t].server] = Len(wires')]
  /\ RegisterFlow(Len(wires'))
  /\ Proceed(t, Len(wires'))
  /\ Unlock(t)
  /\ receiving' = receiving \cup {Len(wires')}
  /\ UNCHANGED <<mode, ask, req, sends, handle, flows, over, at, loop, calls>>

\* MuxWire::connect succeeds: the server has the key, the uplink flow is registered,
\* the receive task is started, the map has the wire.
Connected(t) ==
  /\ pc[t] = "connect" /\ mode # "single" /\ Len(wires) < MaxWires
  /\ ask[t].key = KeyAt[ask[t].server]
  /\ wires' = Append(wires, [server |-> ask[t].server, key |-> ask[t].key])
  /\ map' = [map EXCEPT ![ask[t].server] = Len(wires')]
  /\ RegisterFlow(Len(wires'))
  /\ Proceed(t, Len(wires'))
  /\ Unlock(t)
  /\ receiving' = receiving \cup {Len(wires')}
  /\ UNCHANGED <<mode, ask, req, sends, handle, flows, over, at, loop, calls>>

\* Fault: the mutex is not released.
ConnectFails_KeepsLock(t) ==
  /\ pc[t] = "connect" /\ mode # "single"
  /\ Goto(t, "failed")
  /\ UNCHANGED <<mode, ask, req, queue, wires, map, on, sends, receiving, emVars>>

\* The connect is refused, the server does not answer to this key, or
\* HANDSHAKE_TIMEOUT passes: the map keeps what it had.
ConnectFails(t) ==
  /\ pc[t] = "connect" /\ mode # "single"
  /\ Goto(t, "failed") /\ Unlock(t)
  /\ UNCHANGED <<mode, ask, req, wires, map, on, sends, receiving, emVars>>

\* add_stream and handle_mux_tor_connection: the circuit runs on its wire, which
\* may have died since it was looked at.
AddStream(c) ==
  /\ pc[c] = "stream"
  /\ Goto(c, "run")
  /\ UNCHANGED <<mode, ask, req, queue, wires, map, on, sends, receiving, emVars>>

-----------------------------------------------------------------------------
(* A connection of its own (handle_client_connection).                      *)

DialSingle(c) ==
  /\ mode = "single" /\ wires = <<>> /\ handle /\ pc[c] = "none"
  /\ \A d \in Circuits : pc[d] = "none"
  /\ ask' = [ask EXCEPT ![c] = [server |-> RawServer, key |-> Fallback]]
  /\ Goto(c, "connect")
  /\ UNCHANGED <<mode, req, queue, wires, map, on, sends, receiving, emVars>>

\* The flow is registered with an emitter of its own, whose only handle goes with
\* the function.
SingleConnected(c) ==
  /\ mode = "single" /\ pc[c] = "connect" /\ Len(wires) < MaxWires
  /\ ask[c].key = KeyAt[ask[c].server]
  /\ wires' = Append(wires, [server |-> ask[c].server, key |-> ask[c].key])
  /\ RegisterFlow(Len(wires'))
  /\ handle' = FALSE
  /\ on' = [on EXCEPT ![c] = Len(wires')]
  /\ receiving' = {Len(wires')}
  /\ Goto(c, "run")
  /\ UNCHANGED <<mode, ask, req, queue, map, sends, flows, over, at, loop, calls>>

SingleFails(c) ==
  /\ mode = "single" /\ pc[c] = "connect"
  /\ Goto(c, "failed")
  /\ handle' = FALSE
  /\ UNCHANGED <<mode, ask, req, queue, wires, map, on, sends, receiving, reg, flows, over, at, loop, calls>>

-----------------------------------------------------------------------------
(* Wires and circuits.                                                     *)

\* The connection breaks, or all senders are gone and the tail has been sent: the
\* next service finds the flow finished.
FlowOver(w) ==
  /\ Alive(w) /\ w \notin over
  /\ over' = over \cup {w}
  /\ UNCHANGED <<cVars, reg, handle, flows, at, loop, calls>>

TorSends(c) ==
  /\ pc[c] = "run" /\ ~sends[c]
  /\ sends' = [sends EXCEPT ![c] = TRUE]
  /\ UNCHANGED <<mode, pc, ask, req, queue, wires, map, on, receiving, emVars>>

\* Fault: a failed send is ignored.
Forward_IgnoresError(c) ==
  /\ pc[c] = "run" /\ sends[c] /\ Alive(on[c])
  /\ sends' = [sends EXCEPT ![c] = FALSE]
  /\ UNCHANGED <<mode, pc, ask, req, queue, wires, map, on, receiving, emVars>>

\* The reader forwards it.  On a wire that is gone the send fails, the reader returns,
\* and select! drops the writer's handle: connect_circuit returns with the wire it
\* held, and the writer, detached, keeps Tor's socket and waits on its channel.
Forward(c) ==
  /\ pc[c] = "run" /\ sends[c]
  /\ sends' = [sends EXCEPT ![c] = FALSE]
  /\ IF Alive(on[c]) THEN UNCHANGED pc ELSE Goto(c, "orphan")
  /\ UNCHANGED <<mode, ask, req, queue, wires, map, on, receiving, emVars>>

\* The receive task of a wire ends: the connection is at its end or broken, or a
\* frame does not open.  The senders stay in the stream map; a connection of its own
\* has none, for its receive task is what writes to Tor.
ReceiveEnds(w) ==
  /\ w \in receiving
  /\ receiving' = receiving \ {w}
  /\ pc' = [t \in Tasks |->
              IF mode = "single" /\ pc[t] \in {"run", "orphan"} THEN "ended" ELSE pc[t]]
  /\ UNCHANGED <<mode, ask, req, queue, wires, map, on, sends, emVars>>

\* The bridge closes the stream of a detached writer: its sender leaves the map.
WriterClosed(c) ==
  /\ pc[c] = "orphan" /\ mode # "single" /\ on[c] \in receiving
  /\ Goto(c, "ended")
  /\ UNCHANGED <<mode, ask, req, queue, wires, map, on, sends, receiving, emVars>>

\* Fault: a writer has a handle of the wire itself.
WireDropped_WriterHolds(w, a) ==
  /\ map[a] # w /\ w \notin receiving
  /\ \A d \in Circuits : on[d] = w => pc[d] \notin {"stream", "run", "orphan"}

\* Nobody has the wire or its stream map: not the map of wires, not the receive task,
\* no circuit.
WireDropped(w, a) ==
  /\ map[a] # w /\ w \notin receiving
  /\ \A d \in Circuits : on[d] = w => pc[d] \notin {"stream", "run"}

\* The stream map is gone, and with it the sender of a detached writer, who shuts
\* Tor's socket down.
WriterReleased(c) ==
  /\ pc[c] = "orphan" /\ WireDropped(on[c], ask[c].server)
  /\ Goto(c, "ended")
  /\ UNCHANGED <<mode, ask, req, queue, wires, map, on, sends, receiving, emVars>>

\* The bridge closes the circuit, and the writer ends; or Tor does, the reader ends,
\* and the writer is left behind.
CircuitCloses(c) ==
  /\ pc[c] = "run"
  /\ Goto(c, "ended") \/ Goto(c, "orphan")
  /\ sends' = [sends EXCEPT ![c] = FALSE]
  /\ UNCHANGED <<mode, ask, req, queue, wires, map, on, receiving, emVars>>

Socks(c) == Negotiate(c) \/ ReadArgs(c) \/ ReadTarget(c)
Manage(t) == WireHit(t) \/ Dial(t)
Outcome(t) == Connected(t) \/ ConnectFails(t)

ClientNext ==
  \/ \E c \in Circuits :
       \/ \E r \in Requests[c] : AcceptManaged(c, r)
       \/ Socks(c) \/ SocksFails(c) \/ AcceptRaw(c) \/ AddStream(c)
       \/ DialSingle(c) \/ SingleConnected(c) \/ SingleFails(c)
       \/ TorSends(c) \/ Forward(c) \/ CircuitCloses(c)
       \/ WriterClosed(c) \/ WriterReleased(c)
  \/ \E t \in Tasks : Manage(t) \/ Outcome(t)
  \/ \E w \in DOMAIN wires : FlowOver(w) \/ ReceiveEnds(w)
  \/ EmitterStep /\ UNCHANGED cVars

ClientSpec == ClientInit /\ [][ClientNext]_clientVars

\* Tasks that can run are run, the emitter thread among them, and a connect comes
\* to an end (the handshake by HANDSHAKE_TIMEOUT, the TCP connect by the system's).
FairClientSpec ==
  /\ ClientSpec
  /\ WF_clientVars(EmitterStep /\ UNCHANGED cVars)
  /\ \A t \in Tasks : WF_clientVars(Manage(t)) /\ WF_clientVars(Outcome(t))
  /\ \A c \in Circuits : /\ WF_clientVars(Forward(c)) /\ WF_clientVars(AddStream(c))
                         /\ WF_clientVars(WriterReleased(c))

-----------------------------------------------------------------------------
(* Properties.                                                             *)

\* However many circuits come at once, and however slow the connects are, there is
\* at most one live wire per bridge address: whoever connects has the mutex, and the
\* emitter carries no flow that nobody dialled (get_or_connect_wire holds the mutex
\* across MuxWire::connect).
OneWirePerBridge ==
  /\ \A v, w \in DOMAIN wires : Alive(v) /\ Alive(w) /\ wires[v].server = wires[w].server => v = w
  /\ \A t \in Tasks : pc[t] = "connect" /\ mode # "single" => Holds(t)
  /\ ToSet(flows) \subseteq DOMAIN wires

\* A circuit is on a wire to the bridge it asked for, and that bridge has proved its
\* identity; a request that carries a cert is dialled with no other key (negotiate
\* prefers the method that carries it).
CircuitOnItsBridge ==
  \A c \in Circuits :
    /\ pc[c] \in {"stream", "run"} =>
         wires[on[c]] = [server |-> ask[c].server, key |-> KeyAt[ask[c].server]]
    /\ mode = "managed" /\ pc[c] = "lock" /\ req[c].cert # None /\ "userpass" \in req[c].methods
         => ask[c].key = req[c].cert

\* Nobody waits for the wire map for ever, whatever the connects of those before
\* it come to.
EveryCircuitSettles ==
  \A t \in Tasks : pc[t] = "lock" ~> pc[t] \in {"stream", "run", "up", "ended", "failed"}

\* A circuit does not stay on a broken wire while Tor goes on sending: the flow
\* leaves the emitter, and the circuit's next send fails.  That alone does not tell
\* Tor, for the detached writer keeps the socket as long as anybody has the wire.
\* When another wire has taken its place in the map and its receive task is over,
\* the writer ends, unless a circuit stays on the wire on which Tor sends no more.
DeadWireReleases ==
  \A c \in Circuits :
    /\ <>[](pc[c] = "run" /\ on[c] \in over) => <>[]~sends[c]
    /\ pc[c] = "orphan" /\ map[ask[c].server] # on[c] /\ on[c] \notin receiving
         ~> \/ pc[c] = "ended"
            \/ \E d \in Circuits : pc[d] = "run" /\ on[d] = on[c] /\ ~sends[d]
=============================================================================
