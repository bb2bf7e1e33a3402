-------------------------------- MODULE Server --------------------------------
(***************************************************************************)
(* The mixtor-server process: it starts with an identity (Identity), admits*)
(* connections (serve_accept_loop and handle_server_connection_with_lab),  *)
(* and lets the demux loops of the admitted ones share the bridge-stream   *)
(* counter (StreamCap, whose wires are the connections).                   *)
(*                                                                         *)
(* A connection holds a handshake permit from accept until its handshake   *)
(* has succeeded or the black hole that follows a failed one has ended; an *)
(* established connection holds a connection permit.                       *)
(***************************************************************************)
EXTENDS StreamCap, Identity

CONSTANTS
  Self,             \* the process whose connections are modelled
  MaxHandshakes,    \* MAX_CONCURRENT_HANDSHAKES
  MaxConnections,   \* MAX_TOTAL_CONNECTIONS
  HandshakeTicks,   \* HANDSHAKE_TIMEOUT
  BlackholeTicks    \* BLACKHOLE_MIN_SECS .. BLACKHOLE_MAX_SECS

ASSUME ServerAssumption ==
  /\ Self \in Instances
  /\ {MaxHandshakes, MaxConnections, HandshakeTicks} \subseteq Nat \ {0}
  /\ BlackholeTicks \subseteq Nat \ {0} /\ IsFiniteSet(BlackholeTicks) /\ BlackholeTicks # {}

VARIABLES
  conn,       \* conn[c]: the phase of connection c
  left,       \* left[c]: ticks until its timer fires
  held,       \* history: ticks for which c has held its handshake permit
  hsFree,     \* permits of the semaphore of serve_accept_loop
  connFree    \* permits of global_connection_sem

admVars == <<conn, left, held, hsFree, connFree>>
serverVars == <<vars, idVars, admVars>>

Serving == inst[Self].pc = "serving"
\* Bound: connections are accepted once no process can start any more.  A serving
\* process touches none of the variables of Identity, so what the others do in the
\* meantime makes no difference to it.
Settled == \A i \in Instances :
  starts[i] = MaxStarts[i] /\ inst[i].pc \in {"down", "exited", "serving"}

Timed(c) == conn[c] \in {"handshake", "blackhole"}

AdmissionInit ==
  /\ conn = [c \in Wires |-> "closed"]
  /\ left = [c \in Wires |-> 0] /\ held = [c \in Wires |-> 0]
  /\ hsFree = MaxHandshakes /\ connFree = MaxConnections

ServerInit == Init /\ IdentityInit /\ AdmissionInit

-----------------------------------------------------------------------------
(* Admission.                                                              *)

\* A connection is accepted: try_acquire_owned, or it is dropped at once.
Accept(c) ==
  /\ Serving /\ Settled /\ conn[c] \in {"closed", "shed"}
  /\ IF hsFree > 0
     THEN /\ hsFree' = hsFree - 1
          /\ conn' = [conn EXCEPT ![c] = "handshake"]
          /\ left' = [left EXCEPT ![c] = HandshakeTicks]
     ELSE /\ conn' = [conn EXCEPT ![c] = "shed"]
          /\ UNCHANGED <<hsFree, left>>
  /\ UNCHANGED <<vars, idVars, held, connFree>>

\* Fault: the black hole has no deadline of its own.
Blackholed_NoDeadline(c, ticks) ==
  /\ conn[c] = "handshake"
  /\ conn' = [conn EXCEPT ![c] = "blackhole"]
  /\ left' = [left EXCEPT ![c] = HandshakeTicks + 9]
  /\ UNCHANGED <<vars, idVars, held, hsFree, connFree>>

\* The handshake fails, or its time is up: the peer is drained for a drawn time,
\* and the permit is kept.
Blackholed(c, ticks) ==
  /\ conn[c] = "handshake"
  /\ conn' = [conn EXCEPT ![c] = "blackhole"]
  /\ left' = [left EXCEPT ![c] = ticks]
  /\ UNCHANGED <<vars, idVars, held, hsFree, connFree>>

\* Fault: only the peer's close ends it.
BlackholeEnds_PeerOnly(c, peerCloses) ==
  /\ conn[c] = "blackhole" /\ peerCloses
  /\ conn' = [conn EXCEPT ![c] = "closed"]
  /\ left' = [left EXCEPT ![c] = 0] /\ held' = [held EXCEPT ![c] = 0]
  /\ hsFree' = hsFree + 1
  /\ UNCHANGED <<vars, idVars, connFree>>

\* The peer closes or the deadline is reached: the task returns.
BlackholeEnds(c, peerCloses) ==
  /\ conn[c] = "blackhole" /\ (peerCloses \/ left[c] = 0)
  /\ conn' = [conn EXCEPT ![c] = "closed"]
  /\ left' = [left EXCEPT ![c] = 0] /\ held' = [held EXCEPT ![c] = 0]
  /\ hsFree' = hsFree + 1
  /\ UNCHANGED <<vars, idVars, connFree>>

\* The handshake succeeds in time: its permit is dropped.
Complete(c) ==
  /\ conn[c] = "handshake"
  /\ conn' = [conn EXCEPT ![c] = "gate"]
  /\ left' = [left EXCEPT ![c] = 0] /\ held' = [held EXCEPT ![c] = 0]
  /\ hsFree' = hsFree + 1
  /\ UNCHANGED <<vars, idVars, connFree>>

\* Fault: the connection permit is dropped where it is taken (let _ = ...).
PassGate_Unheld(c) ==
  /\ conn[c] = "gate"
  /\ conn' = [conn EXCEPT ![c] = IF connFree > 0 THEN "established" ELSE "shed"]
  /\ UNCHANGED <<vars, idVars, left, held, hsFree, connFree>>

\* try_acquire on global_connection_sem: the demux loop starts, or the connection
\* is shed.
PassGate(c) ==
  /\ conn[c] = "gate"
  /\ IF connFree > 0
     THEN conn' = [conn EXCEPT ![c] = "established"] /\ connFree' = connFree - 1
     ELSE conn' = [conn EXCEPT ![c] = "shed"] /\ UNCHANGED connFree
  /\ UNCHANGED <<vars, idVars, left, held, hsFree>>

\* The demux loop returns, between two cells; the relays it has spawned go on.
DemuxReturns(c) ==
  /\ conn[c] = "established" /\ pc[c] = "read"
  /\ conn' = [conn EXCEPT ![c] = "closed"]
  /\ connFree' = connFree + 1
  /\ UNCHANGED <<vars, idVars, left, held, hsFree>>

\* Timers fire when they are due: time passes while none is.
ServerTick ==
  /\ \E c \in Wires : Timed(c)
  /\ \A c \in Wires : Timed(c) => left[c] > 0
  /\ left' = [c \in Wires |-> IF Timed(c) THEN left[c] - 1 ELSE left[c]]
  /\ held' = [c \in Wires |-> IF Timed(c) THEN held[c] + 1 ELSE held[c]]
  /\ UNCHANGED <<vars, idVars, conn, hsFree, connFree>>

-----------------------------------------------------------------------------
(* The process.                                                            *)

\* The process ends: its sockets, permits and counters go with it.
ProcessEnds ==
  /\ Crash(Self)
  /\ count' = 0 /\ live' = 0
  /\ pc' = [w \in Wires |-> "read"] /\ prev' = [w \in Wires |-> 0]
  /\ conn' = [c \in Wires |-> "closed"]
  /\ left' = [c \in Wires |-> 0] /\ held' = [c \in Wires |-> 0]
  /\ hsFree' = MaxHandshakes /\ connFree' = MaxConnections

Admission(c) ==
  \/ Accept(c) \/ Complete(c) \/ PassGate(c) \/ DemuxReturns(c)
  \/ \E ticks \in BlackholeTicks : Blackholed(c, ticks)
  \/ \E peerCloses \in BOOLEAN : BlackholeEnds(c, peerCloses)

\* The demux loop of an established connection, and the relays' ends.
Streams ==
  /\ \/ \E w \in Wires : conn[w] = "established" /\ (Take(w) \/ Admit(w) \/ Refuse(w))
     \/ GuardDrops
  /\ UNCHANGED <<idVars, admVars>>

Startup ==
  /\ \E i \in Instances : Start(i) \/ Load(i) \/ (i # Self /\ Crash(i))
  /\ UNCHANGED <<vars, admVars>>

ServerNext ==
  \/ Startup \/ ProcessEnds
  \/ \E c \in Wires : Admission(c)
  \/ ServerTick \/ Streams

ServerSpec == ServerInit /\ [][ServerNext]_serverVars

\* Timers fire and time passes; nothing is assumed of the peers.
TimerFires(c) ==
  \/ conn[c] = "handshake" /\ left[c] = 0 /\ \E ticks \in BlackholeTicks : Blackholed(c, ticks)
  \/ BlackholeEnds(c, FALSE)
FairServerSpec ==
  ServerSpec /\ WF_serverVars(ServerTick) /\ \A c \in Wires : WF_serverVars(TimerFires(c))

-----------------------------------------------------------------------------
(* Properties.                                                             *)

Phase(phases) == Cardinality({c \in Wires : conn[c] \in phases})

\* No permit and no place is lost or returned twice, on any of the ways a connection
\* can take through handle_server_connection_with_lab: at most
\* MAX_CONCURRENT_HANDSHAKES are unauthenticated, at most MAX_TOTAL_CONNECTIONS are
\* established, and the stream counter is what StreamCap says.  A peer that does not
\* authenticate has its permit for a bounded time, whatever it sends and however
\* slowly: the handshake timeout plus the longest black hole.
PermitsExact ==
  /\ hsFree + Phase({"handshake", "blackhole"}) = MaxHandshakes
  /\ connFree + Phase({"established"}) = MaxConnections
  /\ CountExact
  /\ \A c \in Wires : \E longest \in BlackholeTicks :
       Timed(c) => held[c] <= HandshakeTicks + longest

\* A full handshake gate opens again by itself, even if every peer stalls.
GateReopens == hsFree = 0 ~> hsFree > 0
=============================================================================
