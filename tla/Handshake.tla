------------------------------ MODULE Handshake -------------------------------
(***************************************************************************)
(* The handshake and the frame cipher of src/crypto.rs, on one connection. *)
(*                                                                         *)
(*   client -> server:  x_repr |        pad | MARK | MAC                   *)
(*   server -> client:  y_repr | auth | pad | MARK | MAC                   *)
(*                                                                         *)
(* and then frames both ways.  The peer that connects is a client that was *)
(* configured with some key (perhaps not the server's), or a stranger that *)
(* sends bytes of its own and pieces of a request it has recorded.         *)
(*                                                                         *)
(* A connection is a byte stream: a read takes any number of bytes that are*)
(* there, whatever message they belong to.  Bytes are grouped into units,  *)
(* one per field, one per PadUnit of padding and two per frame.  A key, a  *)
(* hash or a shared secret is the term that tells what it was made from.   *)
(***************************************************************************)
EXTENDS Integers, Sequences, FiniteSets

CONSTANTS
  ServerKey,      \* the server's static public key B
  Settings,       \* who may connect to whom, and with what clocks: the values of fixedVars
  HourLen,        \* ticks of the clock per hour
  MaxPad,         \* HS_MAX_PAD, in units
  MaxLen,         \* MAX_HANDSHAKE_LEN, in units
  ReadMax,        \* the 1024 bytes of one read, in units
  CounterMod,     \* 2^64: the range of the nonce counter
  MaxTicks,       \* bound: ticks of the clock (HANDSHAKE_TIMEOUT is 15 s)
  MaxJunk,        \* bound: units a stranger sends
  MaxFrames       \* bound: frames each side seals

None == "none"

ASSUME HandshakeAssumption ==
  /\ {HourLen, MaxLen, ReadMax, CounterMod} \subseteq Nat \ {0}
  /\ {MaxPad, MaxTicks, MaxJunk, MaxFrames} \subseteq Nat
  /\ \A x \in Settings : /\ x.start \in Nat /\ x.skew \in Int /\ {x.weak, x.genuine} \subseteq BOOLEAN
                         /\ x.weak => x.configured # None
  /\ MaxPad + 4 < MaxLen    \* the longest message fits: 64 + 2048 + 32 < 8192
  /\ MaxFrames < CounterMod

Sides == {"client", "server"}
Peer(s) == IF s = "client" THEN "server" ELSE "client"
Guess == "guess"    \* what an impostor has in place of B's secret
NoKeys == [send |-> <<>>, recv |-> <<>>]

\* A stranger has no key, and the server's secret is not guessed.
ASSUME ServerKeyAssumption == ServerKey \notin {None, Guess}

VARIABLES
  start, ticks, skew,  \* the client's clock is start + ticks; the server's is skew ahead
  turned,         \* history: sides for which the hour turned while they checked a MAC
  configured,     \* the key the client dials with; None: a stranger
  weak,           \* TRUE: the client's ephemeral key is a point of small order
  genuine,        \* FALSE: the server knows B and not its secret
  junk,           \* units the stranger has sent
  pipe,           \* pipe[s]: what s can read, in order
  closed,         \* sides that have closed the connection
  pc,             \* pc[s]: "start", "wait", "open", or how the handshake ended
  buf,            \* buf[s]: what read_marked_message has read
  keys,           \* keys[s]: the ciphers' keys and the transcript, once derived
  sent, opened,   \* frames s has sealed; nonces s has used to open
  discarded       \* units s read behind the handshake message and dropped

fixedVars == <<start, skew, configured, weak, genuine>>
clockVars == <<ticks, turned>>
envVars == <<fixedVars, clockVars>>
vars == <<envVars, junk, pipe, closed, pc, buf, keys, sent, opened, discarded>>

Init ==
  /\ \E x \in Settings : /\ start = x.start /\ skew = x.skew
                         /\ configured = x.configured /\ weak = x.weak /\ genuine = x.genuine
  /\ ticks = 0 /\ turned = {} /\ junk = 0
  /\ pipe = [s \in Sides |-> <<>>] /\ closed = {}
  /\ pc = [client |-> IF configured = None THEN "stranger" ELSE "start", server |-> "wait"]
  /\ buf = [s \in Sides |-> <<>>]
  /\ keys = [s \in Sides |-> NoKeys]
  /\ sent = [s \in Sides |-> 0] /\ opened = [s \in Sides |-> 0]
  /\ discarded = [s \in Sides |-> 0]

-----------------------------------------------------------------------------
(* Keys, marks and messages.                                               *)

\* epoch_hour_bytes: each side's own hour.
HourAt(s, t) == (start + t + (IF s = "client" THEN 0 ELSE skew)) \div HourLen
Hour(s) == HourAt(s, ticks)

\* An ephemeral key and its representative carry the name of the side.
LowOrder == "low order"
Repr(s) == [f |-> "repr", of |-> IF s = "client" /\ weak THEN LowOrder ELSE s]

\* dh: the secret two key holders share, the same from either end; zero when the
\* point is of small order (decode_representative, dh_is_zero).
Dh(point, scalar) == IF point = LowOrder THEN {} ELSE {point, scalar}
NonContributory(secrets) == {} \in secrets

\* The secret a server has for B: its own, when it is not the bridge.
StaticSecret == IF genuine THEN ServerKey ELSE Guess

\* Fault: the static secret is left out.
DeriveSession_NoStatic(dh1, dh2, b, x, y) ==
  LET seed == <<dh1, b, x, y>>
  IN  [c2s |-> <<"c2s", seed>>, s2c |-> <<"s2c", seed>>, auth |-> [f |-> "auth", seed |-> seed]]

\* Fault: both directions get the same key.
DeriveSession_OneKey(dh1, dh2, b, x, y) ==
  LET seed == <<dh1, dh2, b, x, y>>
  IN  [c2s |-> <<"c2s", seed>>, s2c |-> <<"c2s", seed>>, auth |-> [f |-> "auth", seed |-> seed]]

\* derive_session: both directions' keys and the server-auth tag.
DeriveSession(dh1, dh2, b, x, y) ==
  LET seed == <<dh1, dh2, b, x, y>>
  IN  [c2s |-> <<"c2s", seed>>, s2c |-> <<"s2c", seed>>, auth |-> [f |-> "auth", seed |-> seed]]

\* mark_value: keyed by the server's identity, over the representative.
Mark(key, repr) == [f |-> "mark", key |-> key, over |-> repr]

\* mac_with_epoch
Mac(key, data, hour) == [f |-> "mac", key |-> key, over |-> data, hour |-> hour]

Offset == <<0, -1, 1>>

\* Fault: only the current hour and the one before it are accepted.
VerifyMac_NoNextHour(key, data, received, hours) ==
  \E k \in 1 .. 2 : received = Mac(key, data, hours[k] + Offset[k])

\* verify_mac_epochs: three comparisons, and hours[k] is the hour the k-th reads.
VerifyMac(key, data, received, hours) ==
  \E k \in 1 .. 3 : received = Mac(key, data, hours[k] + Offset[k])

\* build_marked_message with n units of padding.
MarkedMessage(key, prefix, n, hour) ==
  LET marked == prefix \o [i \in 1 .. n |-> [f |-> "pad"]] \o <<Mark(key, prefix[1])>>
  IN  Append(marked, Mac(key, marked, hour))

\* find_subslice: the first place of the mark behind the prefix, 0 if none.
MarkPos(bytes, key, prefixLen) ==
  LET at == {i \in prefixLen + 1 .. Len(bytes) : bytes[i] = Mark(key, bytes[1])}
  IN  IF at = {} THEN 0 ELSE CHOOSE i \in at : \A j \in at : i <= j

\* Fault: reading goes on without a limit.
Verdict_NoLimit(bytes, key, prefixLen, hours) ==
  LET p == MarkPos(bytes, key, prefixLen) IN
  CASE p # 0 /\ Len(bytes) >= p + 1 ->
         IF VerifyMac(key, SubSeq(bytes, 1, p), bytes[p + 1], hours) THEN "accept" ELSE "reject"
    [] OTHER -> "more"

\* Fault: bytes behind the MAC are waited for.
Verdict_WaitsPastMac(bytes, key, prefixLen, hours) ==
  LET p == MarkPos(bytes, key, prefixLen) IN
  CASE p # 0 /\ Len(bytes) > p + 1 ->
         IF VerifyMac(key, SubSeq(bytes, 1, p), bytes[p + 1], hours) THEN "accept" ELSE "reject"
    [] OTHER -> IF Len(bytes) >= MaxLen THEN "reject" ELSE "more"

\* Fault: any message is good enough.
Verdict_NoMark(bytes, key, prefixLen, hours) ==
  IF Len(bytes) >= prefixLen + 1 THEN "accept"
  ELSE IF Len(bytes) >= MaxLen THEN "reject" ELSE "more"

\* read_marked_message, between two reads.
Verdict(bytes, key, prefixLen, hours) ==
  LET p == MarkPos(bytes, key, prefixLen) IN
  CASE p # 0 /\ Len(bytes) >= p + 1 ->
         IF VerifyMac(key, SubSeq(bytes, 1, p), bytes[p + 1], hours) THEN "accept" ELSE "reject"
    [] OTHER -> IF Len(bytes) >= MaxLen THEN "reject" ELSE "more"

\* buf.truncate(prefix_len): the bytes read behind the MAC are dropped with it.
Excess(bytes, key, prefixLen) == Len(bytes) - (MarkPos(bytes, key, prefixLen) + 1)

-----------------------------------------------------------------------------
(* The handshake.                                                          *)

\* The connection: a read returns what is there, up to its buffer.
Arrived(s, n) == n \in 1 .. ReadMax /\ n <= Len(pipe[s])
Taken(s, n) == buf[s] \o SubSeq(pipe[s], 1, n)
Rest(s, n) == SubSeq(pipe[s], n + 1, Len(pipe[s]))

\* s ends: its socket is closed, and nothing more of it is looked at.
Ends(s, how) ==
  /\ pc' = [pc EXCEPT ![s] = how]
  /\ closed' = closed \cup {s}
  /\ buf' = [buf EXCEPT ![s] = <<>>]

\* client_handshake up to its first await: the request is sent.
ClientHello(n) ==
  /\ pc["client"] = "start"
  /\ pipe' = [pipe EXCEPT !["server"] =
                @ \o MarkedMessage(configured, <<Repr("client")>>, n, Hour("client"))]
  /\ pc' = [pc EXCEPT !["client"] = "wait"]
  /\ UNCHANGED <<envVars, junk, closed, buf, keys, sent, opened, discarded>>

\* A request that some client has sent to this server in the hour of start, and a
\* stranger has recorded.
PastRepr == [f |-> "repr", of |-> "past"]
Recorded == MarkedMessage(ServerKey, <<PastRepr>>, MaxPad, start \div HourLen)

\* Bytes of a peer that is not a client: its own, which mean as much as padding, or
\* some it has recorded, in any order.
StrangerSends(u) ==
  /\ pc["client"] = "stranger" /\ junk < MaxJunk
  /\ junk' = junk + 1
  /\ pipe' = [pipe EXCEPT !["server"] = Append(@, u)]
  /\ UNCHANGED <<envVars, closed, pc, buf, keys, sent, opened, discarded>>

\* The moments at which verify_mac_epochs reads the clock, for each of its three
\* comparisons: time may pass between them.
Readings == {u \in [1 .. 3 -> ticks .. MaxTicks] : u[1] = ticks /\ u[2] <= u[3]}
Hours(s, u) == [k \in 1 .. 3 |-> HourAt(s, u[k])]

\* The clock has been read at the moments u.
Checked(s, u) ==
  /\ ticks' = u[3]
  /\ turned' = IF Hours(s, u)[1] = Hours(s, u)[3] THEN turned ELSE turned \cup {s}

\* The read of read_marked_message that does not complete the message.
ReadMore(s, n, u) ==
  LET key == IF s = "client" THEN configured ELSE ServerKey
      prefixLen == IF s = "client" THEN 2 ELSE 1
  IN  /\ pc[s] = "wait" /\ Arrived(s, n)
      /\ LET verdict == Verdict(Taken(s, n), key, prefixLen, Hours(s, u)) IN
           \/ /\ verdict = "more"
              /\ buf' = [buf EXCEPT ![s] = Taken(s, n)]
              /\ UNCHANGED <<pc, closed, clockVars>>
           \/ verdict = "reject" /\ Ends(s, "ProbeRejected") /\ Checked(s, u)
      /\ pipe' = [pipe EXCEPT ![s] = Rest(s, n)]
      /\ UNCHANGED <<fixedVars, junk, keys, sent, opened, discarded>>

\* The two ciphers of a side: what it seals with and what it opens with.
Ciphers(s, session) ==
  IF s = "client" THEN [send |-> session.c2s, recv |-> session.s2c]
                  ELSE [send |-> session.s2c, recv |-> session.c2s]

\* s has a valid message: the rest of its bytes is dropped, and it holds keys.
Establish(s, n, key, prefixLen, session) ==
  /\ pc' = [pc EXCEPT ![s] = "open"]
  /\ keys' = [keys EXCEPT ![s] = Ciphers(s, session)]
  /\ discarded' = [discarded EXCEPT ![s] = Excess(Taken(s, n), key, prefixLen)]
  /\ buf' = [buf EXCEPT ![s] = <<>>]

\* server_handshake, from the last read to the reply: the proof is checked before
\* anything is computed or sent.  The reply fits in the socket's buffer, and may fail
\* when the peer has gone.
ServerAccepts(n, pad, u) ==
  /\ pc["server"] = "wait" /\ Arrived("server", n)
  /\ Verdict(Taken("server", n), ServerKey, 1, Hours("server", u)) = "accept"
  /\ Checked("server", u)
  /\ LET x == Taken("server", n)[1]
         y == Repr("server")
         dh1 == Dh(x.of, "server")
         dh2 == Dh(x.of, StaticSecret)
         session == DeriveSession(dh1, dh2, ServerKey, x, y)
     IN  \/ /\ NonContributory({dh1, dh2})
            /\ Ends("server", "NonContributory")
            /\ pipe' = [pipe EXCEPT !["server"] = Rest("server", n)]
            /\ UNCHANGED <<keys, discarded>>
         \/ /\ ~NonContributory({dh1, dh2}) /\ "client" \in closed
            /\ Ends("server", "Io")
            /\ pipe' = [pipe EXCEPT !["server"] = Rest("server", n)]
            /\ UNCHANGED <<keys, discarded>>
         \/ /\ ~NonContributory({dh1, dh2})
            /\ Establish("server", n, ServerKey, 1, session)
            /\ pipe' = [server |-> Rest("server", n),
                        client |-> pipe["client"] \o
                          MarkedMessage(ServerKey, <<y, session.auth>>, pad, HourAt("server", u[3]))]
            /\ UNCHANGED closed
  /\ UNCHANGED <<fixedVars, junk, sent, opened>>

\* client_handshake, from the last read: the server's tag must be the one the
\* client computes.
ClientAccepts(n, u) ==
  /\ pc["client"] = "wait" /\ Arrived("client", n)
  /\ Verdict(Taken("client", n), configured, 2, Hours("client", u)) = "accept"
  /\ Checked("client", u)
  /\ LET x == Repr("client")
         y == Taken("client", n)[1]
         dh1 == Dh(y.of, "client")
         dh2 == Dh(configured, "client")
         session == DeriveSession(dh1, dh2, configured, x, y)
         how == IF NonContributory({dh1, dh2}) THEN "NonContributory" ELSE "BadServerAuth"
     IN  IF ~NonContributory({dh1, dh2}) /\ Taken("client", n)[2] = session.auth
         THEN Establish("client", n, configured, 2, session) /\ UNCHANGED closed
         ELSE Ends("client", how) /\ UNCHANGED <<keys, discarded>>
  /\ pipe' = [pipe EXCEPT !["client"] = Rest("client", n)]
  /\ UNCHANGED <<fixedVars, junk, sent, opened>>

\* A read returns 0: the peer has closed and nothing is left.
ReadEof(s) ==
  /\ pc[s] = "wait" /\ Peer(s) \in closed /\ pipe[s] = <<>>
  /\ Ends(s, "Closed")
  /\ UNCHANGED <<envVars, junk, pipe, keys, sent, opened, discarded>>

\* HANDSHAKE_TIMEOUT: the future is dropped.
TimesOut(s) ==
  /\ pc[s] = "wait"
  /\ Ends(s, "timeout")
  /\ UNCHANGED <<envVars, junk, pipe, keys, sent, opened, discarded>>

StrangerCloses ==
  /\ pc["client"] = "stranger" /\ "client" \notin closed
  /\ closed' = closed \cup {"client"}
  /\ UNCHANGED <<envVars, junk, pipe, pc, buf, keys, sent, opened, discarded>>

-----------------------------------------------------------------------------
(* Frames.                                                                 *)

\* FrameCipher: the nonce of the next frame.
Nonce(n) == n % CounterMod

FrameHalf(key, n, half) == [f |-> "frame", key |-> key, nonce |-> n, half |-> half]

\* seal, and the write of the frame.
SendFrame(s) ==
  /\ pc[s] = "open" /\ sent[s] < MaxFrames
  /\ sent' = [sent EXCEPT ![s] = @ + 1]
  /\ pipe' = [pipe EXCEPT ![Peer(s)] =
                @ \o [h \in 1 .. 2 |-> FrameHalf(keys[s].send, Nonce(sent[s]), h)]]
  /\ UNCHANGED <<envVars, junk, closed, pc, buf, keys, opened, discarded>>

\* Fault: the counter stays when a frame opens.
OpenFrame_KeepsNonce(s) ==
  /\ pc[s] = "open" /\ Len(pipe[s]) >= 2
  /\ pipe' = [pipe EXCEPT ![s] = Rest(s, 2)]
  /\ IF SubSeq(pipe[s], 1, 2) = [h \in 1 .. 2 |-> FrameHalf(keys[s].recv, Nonce(opened[s]), h)]
     THEN UNCHANGED <<pc, closed, buf>>
     ELSE Ends(s, "broken")
  /\ UNCHANGED <<envVars, junk, keys, sent, opened, discarded>>

\* A whole frame has been read: open uses up a nonce, and fails on bytes that are
\* not the frame of that nonce, which ends the flow.
OpenFrame(s) ==
  /\ pc[s] = "open" /\ Len(pipe[s]) >= 2
  /\ pipe' = [pipe EXCEPT ![s] = Rest(s, 2)]
  /\ opened' = [opened EXCEPT ![s] = @ + 1]
  /\ IF SubSeq(pipe[s], 1, 2) = [h \in 1 .. 2 |-> FrameHalf(keys[s].recv, Nonce(opened[s]), h)]
     THEN UNCHANGED <<pc, closed, buf>>
     ELSE Ends(s, "broken")
  /\ UNCHANGED <<envVars, junk, keys, sent, discarded>>

\* Time passes during the handshake.
Tick ==
  /\ pc["server"] = "wait" \/ pc["client"] \in {"start", "wait"}
  /\ ticks < MaxTicks
  /\ ticks' = ticks + 1
  /\ UNCHANGED <<fixedVars, turned, junk, pipe, closed, pc, buf, keys, sent, opened, discarded>>

-----------------------------------------------------------------------------
ServerReads == \E n \in 1 .. ReadMax, u \in Readings :
  ReadMore("server", n, u) \/ \E pad \in 0 .. MaxPad : ServerAccepts(n, pad, u)
ClientReads == \E n \in 1 .. ReadMax, u \in Readings :
  ReadMore("client", n, u) \/ ClientAccepts(n, u)
ClientDials == \E n \in 0 .. MaxPad : ClientHello(n)

Next ==
  \/ ClientDials \/ ClientReads \/ ServerReads
  \/ \E i \in 0 .. Len(Recorded) :
       StrangerSends(IF i = 0 THEN [f |-> "pad"] ELSE Recorded[i])
  \/ StrangerCloses
  \/ \E s \in Sides : ReadEof(s) \/ TimesOut(s) \/ SendFrame(s) \/ OpenFrame(s)
  \/ Tick

Spec == Init /\ [][Next]_vars

\* The two handshake tasks are run, and a socket that has bytes is read.
\* Nothing is assumed of the clock, of strangers, of timeouts or of frames.
FairSpec == Spec /\ WF_vars(ClientDials) /\ WF_vars(ClientReads) /\ WF_vars(ServerReads)

-----------------------------------------------------------------------------
(* Properties.                                                             *)

Derived(s) == keys[s] # NoKeys

\* A client that finishes has finished with the holder of the key it was configured
\* with, and not with another that knows the key's public half: the server has
\* derived the same two keys, each for the opposite direction, and the two differ, so
\* that no frame is sealed under the key and the nonce of another (client_handshake,
\* server_handshake, derive_session, FrameCipher::next_nonce).
KeyAgreement ==
  Derived("client") =>
    /\ configured = ServerKey /\ genuine /\ Derived("server")
    /\ keys["client"].send = keys["server"].recv
    /\ keys["client"].recv = keys["server"].send
    /\ keys["client"].send # keys["server"].send
    /\ \A s \in Sides : sent[s] < CounterMod

\* What the server derives from the recorded request and its own new key.
PastSession ==
  DeriveSession(Dh("past", "server"), Dh("past", StaticSecret), ServerKey, PastRepr, Repr("server"))

\* A server says nothing to a peer that does not know its key, however much the peer
\* sends and however its bytes are split into reads, and what the server keeps of them
\* stays below MAX_HANDSHAKE_LEN; with one exception, for no request is remembered: a
\* peer that replays a recorded request is answered as long as the server's hour is
\* next to the recorded one.  No frame of such a peer is opened: its first ends the
\* flow (read_marked_message before the reply in server_handshake).
SilentUnlessReplayed ==
  configured # ServerKey =>
    /\ Len(buf["server"]) < MaxLen
    /\ Derived("server") \/ pipe["client"] # <<>> =>
         /\ configured = None
         /\ keys["server"] = Ciphers("server", PastSession)
         /\ start \div HourLen \in HourAt("server", 0) - 1 .. Hour("server") + 1
    /\ opened["server"] > 0 => pc["server"] = "broken"

Tolerated == (IF skew < 0 THEN -skew ELSE skew) + ticks <= HourLen

\* s's clock is ahead of the other's.
Ahead(s) == IF s = "client" THEN skew < 0 ELSE skew > 0

\* A client that knows the key is not taken for a probe, nor the server's answer for
\* a forgery, while the clocks differ by no more than an hour, even when the hour
\* changes on the way; unless it changes between the comparisons of one check, and the
\* sender was ahead: the comparisons are then not those of three adjacent hours
\* (verify_mac_epochs).
SkewTolerated ==
  configured = ServerKey /\ Tolerated =>
    \A s \in Sides : pc[s] = "ProbeRejected" => s \in turned /\ Ahead(Peer(s))

\* Between a client and a server, only the client can lose frames with the handshake
\* (it reads while the server already sends frames), and a frame fails to open only at
\* a side that did.
LockstepUnlessOverread ==
  configured # None =>
    /\ discarded["server"] = 0
    /\ \A s \in Sides : pc[s] = "broken" => discarded[s] > 0

\* An honest client and the server come to an end with keys, whatever the padding
\* and however the messages are split, unless somebody's time is up or the hour
\* turned in the middle of a check (read_marked_message goes on reading exactly as long
\* as it must).
HandshakeCompletes ==
  configured = ServerKey /\ ~weak /\ genuine ~>
    \/ \A s \in Sides : Derived(s)
    \/ \E s \in Sides : pc[s] = "timeout" \/ (pc[s] = "ProbeRejected" /\ s \in turned)
    \/ ~Tolerated

-----------------------------------------------------------------------------
(* What a comment of the code says, and the code does not do.              *)

\* FrameCipher: "the two endpoints stay in lockstep because frames travel in order
\* over TCP", so that no frame of an established connection fails to open.
Lockstep == \A s \in Sides : pc[s] # "broken"
=============================================================================
