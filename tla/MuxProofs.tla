------------------------------- MODULE MuxProofs -------------------------------
(***************************************************************************)
(* Proofs about the multiplexed wire, in two parts.  The first needs no    *)
(* assumption beyond those on the constants: the types and bounds of its   *)
(* buffers, and the count of bridge streams, for any number of circuits,   *)
(* any caps and any failures.  The second is about where its cells go.     *)
(***************************************************************************)
EXTENDS Mux, SequenceFolds, FiniteSetTheorems

-----------------------------------------------------------------------------
(* The types.                                                              *)

Cell == Ids \X Nat \X Nat

Phases == {"hold", "connect", "run", "early", "failed", "done"}
Reasons == Phases \cup {"closed", "refused", "overload"}

CircRec ==
  [id : 0 .. IdMod - 1, reader : {"idle", "run", "done", "failed", "refused"},
   writer : {"none", "run", "done"}, sent : Nat, down : Seq(Cell), got : Seq(Cell)]

RelayRec ==
  [id : Ids, owner : Nat, phase : Phases,
   sender : BOOLEAN, chan : Seq(Cell), held : Seq(Cell), writer : {"none", "run", "done"},
   out : Seq(Cell), reader : {"none", "run", "done"}, replies : Nat]

\* The client's part; a circuit that reads has a stream id.
ClientTypes ==
  /\ nextId \in 0 .. IdMod - 1
  /\ DOMAIN cmap \subseteq Ids /\ \A id \in DOMAIN cmap : cmap[id] \in Circuits
  /\ circ \in [Circuits -> CircRec]
  /\ \A c \in Circuits : circ[c].reader = "run" => circ[c].id \in Ids
  /\ \A c \in Circuits : circ[c].sent <= MaxCells[c] /\ Len(circ[c].down) <= DownCap

WireTypes ==
  /\ wire \in {"up", "down"} /\ uplink \in Seq(Cell) /\ downlink \in Seq(Cell)
  /\ Len(uplink) <= LinkCap /\ Len(downlink) <= LinkCap
  /\ lost \subseteq [cell : Cell, why : Reasons]

\* The server's part; an echo is for a stream id.
ServerTypes ==
  /\ demux \in [pc : {"read", "echo", "ended"}, echo : Ids \cup {0}]
  /\ demux.pc = "echo" => demux.echo \in Ids
  /\ DOMAIN smap \subseteq Ids /\ \A id \in DOMAIN smap : smap[id] \in 1 .. Len(relay)
  /\ relay \in Seq(RelayRec)
  /\ \A r \in 1 .. Len(relay) : Len(relay[r].chan) <= ChanCap /\ Len(relay[r].held) <= HoldCap

\* The relay tasks that have not returned.
Live == {r \in DOMAIN relay : LiveRelay(r)}

CountInv == streams \in Nat /\ streams = Cardinality(Live) /\ streams <= MaxGlobal

MuxTypes == ClientTypes /\ WireTypes /\ ServerTypes /\ CountInv

-----------------------------------------------------------------------------
(* Sequences and the scan for a free id.                                   *)

\* The first of t goes to the end of s: the two together are what they were.
LEMMA ShiftFirst ==
  ASSUME NEW S, NEW s \in Seq(S), NEW t \in Seq(S), t # <<>>
  PROVE  /\ Append(s, Head(t)) \in Seq(S) /\ Tail(t) \in Seq(S)
         /\ Append(s, Head(t)) \o Tail(t) = s \o t
<1>1. /\ Head(t) \in S /\ Tail(t) \in Seq(S) /\ Head(t) = t[1]
      /\ Len(Tail(t)) = Len(t) - 1 /\ \A i \in 1 .. Len(Tail(t)) : Tail(t)[i] = t[i + 1]
      /\ Len(t) \in Nat \ {0} /\ Len(s) \in Nat
  BY HeadTailProperties, EmptySeq, LenProperties
<1> DEFINE a == Append(s, Head(t))
<1>2. /\ a \in Seq(S) /\ Len(a) = Len(s) + 1 /\ a[Len(s) + 1] = t[1]
      /\ \A i \in 1 .. Len(s) : a[i] = s[i]
  BY <1>1, AppendProperties
<1> HIDE DEF a
<1>3. /\ a \o Tail(t) \in Seq(S) /\ Len(a \o Tail(t)) = Len(a) + Len(Tail(t))
      /\ \A i \in 1 .. Len(a) + Len(Tail(t)) :
           (a \o Tail(t))[i] = IF i <= Len(a) THEN a[i] ELSE Tail(t)[i - Len(a)]
  BY <1>1, <1>2, ConcatProperties
<1>4. /\ s \o t \in Seq(S) /\ Len(s \o t) = Len(s) + Len(t)
      /\ \A i \in 1 .. Len(s) + Len(t) : (s \o t)[i] = IF i <= Len(s) THEN s[i] ELSE t[i - Len(s)]
  BY ConcatProperties
<1>5. Len(a \o Tail(t)) = Len(s \o t)
  BY <1>1, <1>2, <1>3, <1>4
<1>6. ASSUME NEW i \in 1 .. Len(a \o Tail(t)) PROVE (a \o Tail(t))[i] = (s \o t)[i]
  <2>1. CASE i <= Len(s)
    BY <1>1, <1>2, <1>3, <1>4, <1>5, <2>1
  <2>2. CASE i = Len(s) + 1
    BY <1>1, <1>2, <1>3, <1>4, <1>5, <2>2
  <2>3. CASE i > Len(s) + 1
    <3>1. i - Len(a) \in 1 .. Len(Tail(t)) /\ i - Len(a) + 1 = i - Len(s)
      BY <1>1, <1>2, <1>3, <2>3
    <3>2. QED
      BY <1>1, <1>2, <1>3, <1>4, <1>5, <2>3, <3>1
  <2>4. QED
    BY <1>1, <1>2, <1>3, <2>1, <2>2, <2>3
<1>7. a \o Tail(t) = s \o t
  BY <1>3, <1>4, <1>5, <1>6, SeqEqual
<1>8. QED
  BY <1>1, <1>2, <1>7 DEF a

\* The head of a sequence, and what is left without it.
LEMMA HeadAndTail ==
  ASSUME NEW S, NEW s \in Seq(S), s # <<>>
  PROVE  /\ Head(s) \in S /\ Head(s) = s[1] /\ 1 \in 1 .. Len(s)
         /\ Tail(s) \in Seq(S) /\ Len(Tail(s)) = Len(s) - 1
         /\ \A i \in 1 .. Len(Tail(s)) : i + 1 \in 1 .. Len(s) /\ Tail(s)[i] = s[i + 1]
         /\ \A i \in 1 .. Len(s) : i = 1 \/ (i - 1 \in 1 .. Len(Tail(s)) /\ Tail(s)[i - 1] = s[i])
<1>1. /\ Head(s) \in S /\ Tail(s) \in Seq(S) /\ Head(s) = s[1]
      /\ Len(Tail(s)) = Len(s) - 1 /\ \A i \in 1 .. Len(Tail(s)) : Tail(s)[i] = s[i + 1]
      /\ Len(s) \in Nat \ {0}
  BY HeadTailProperties, EmptySeq, LenProperties
<1>2. ASSUME NEW i \in 1 .. Len(s), i # 1
      PROVE  i - 1 \in 1 .. Len(Tail(s)) /\ Tail(s)[i - 1] = s[i]
  <2>1. i - 1 \in 1 .. Len(Tail(s)) /\ (i - 1) + 1 = i
    BY <1>1, <1>2
  <2>2. QED
    BY <1>1, <2>1
<1>3. \A i \in 1 .. Len(Tail(s)) : i + 1 \in 1 .. Len(s)
  BY <1>1
<1>4. QED
  BY <1>1, <1>2, <1>3

\* An element is put at the end.
LEMMA Appended ==
  ASSUME NEW S, NEW s \in Seq(S), NEW e \in S
  PROVE  /\ Append(s, e) \in Seq(S) /\ Len(s) \in Nat /\ Len(Append(s, e)) = Len(s) + 1
         /\ \A i \in 1 .. Len(s) : i \in 1 .. Len(s) + 1 /\ Append(s, e)[i] = s[i]
         /\ Append(s, e)[Len(s) + 1] = e /\ Len(s) + 1 \in 1 .. Len(s) + 1
         /\ \A i \in 1 .. Len(s) + 1 : i \in 1 .. Len(s) \/ i = Len(s) + 1
BY AppendProperties, LenProperties

\* add_stream: when the map is not saturated the scan finds an id that is free.
LEMMA ScanFindsFree ==
  ASSUME ClientTypes, ~Saturated, NEW start \in 0 .. IdMod - 1
  PROVE  ScanFrom(start) \in Ids \ DOMAIN cmap
<1> DEFINE steps == {k \in 0 .. IdMod - 1 : FreeId((start + k) % IdMod)}
<1>1. IdMod \in Nat /\ IdMod > 2
  BY MuxAssumption
<1>2. PICK id \in Ids : id \notin DOMAIN cmap
  <2>1. IsFiniteSet(Ids) /\ Cardinality(Ids) = IdMod - 1
    BY <1>1, FS_Interval DEF Ids
  <2>2. DOMAIN cmap \subseteq Ids
    BY DEF ClientTypes
  <2>3. Cardinality(DOMAIN cmap) < IdMod - 2
    <3>1. Cardinality(DOMAIN cmap) \in Nat
      BY <2>1, <2>2, FS_Subset, FS_CardinalityType
    <3>2. QED
      BY <1>1, <3>1 DEF Saturated
  <2>4. DOMAIN cmap # Ids
    BY <1>1, <2>1, <2>3
  <2>5. QED
    BY <2>2, <2>4
<1>3. \E k \in 0 .. IdMod - 1 : (start + k) % IdMod = id
  <2>1. \A x \in 0 .. IdMod - 1 : x % IdMod = x /\ (x + IdMod) % IdMod = x
    BY <1>1
  <2>2. CASE id >= start
    <3>1. id - start \in 0 .. IdMod - 1 /\ start + (id - start) = id /\ id \in 0 .. IdMod - 1
      BY <1>1, <2>2 DEF Ids
    <3>2. QED
      BY <2>1, <3>1
  <2>3. CASE id < start
    <3>1. id - start + IdMod \in 0 .. IdMod - 1 /\ start + (id - start + IdMod) = id + IdMod
          /\ id \in 0 .. IdMod - 1
      BY <1>1, <2>3 DEF Ids
    <3>2. QED
      BY <2>1, <3>1
  <2>4. QED
    BY <1>1, <2>2, <2>3 DEF Ids
<1>4. steps # {} /\ steps \in SUBSET Nat
  <2>1. PICK k \in 0 .. IdMod - 1 : (start + k) % IdMod = id
    BY <1>3
  <2>2. id # 0
    BY DEF Ids
  <2>3. k \in steps
    BY <1>2, <2>1, <2>2 DEF FreeId
  <2>4. \A j \in 0 .. IdMod - 1 : j \in Nat
    BY <1>1
  <2>5. QED
    BY <2>3, <2>4
<1>5. \E k \in steps : \A j \in steps : k <= j
  BY <1>4, LeastElement
<1> DEFINE least == CHOOSE k \in steps : \A j \in steps : k <= j
<1>6. least \in steps
  BY <1>5
<1>7. ScanFrom(start) = (start + least) % IdMod
  BY DEF ScanFrom
<1> HIDE DEF least
<1>8. FreeId(ScanFrom(start)) /\ least \in Nat
  BY <1>4, <1>6, <1>7
<1>9. ScanFrom(start) \in 0 .. IdMod - 1
  BY <1>1, <1>7, <1>8
<1>10. QED
  BY <1>1, <1>8, <1>9 DEF FreeId, Ids

-----------------------------------------------------------------------------
(* What the steps of one relay do.                                         *)

\* What a relay is after a step of its own: the same stream, with the same cells.
Carries(new, r) ==
  /\ new.id = relay[r].id /\ new.owner = relay[r].owner /\ new.sender = relay[r].sender
  /\ (new.out \o new.held) \o new.chan = Stream(r)
  /\ Len(new.chan) <= ChanCap /\ Len(new.held) <= HoldCap

\* A step of relay r that makes it new.
Becomes(r, new) == new \in RelayRec /\ Carries(new, r) /\ relay' = [relay EXCEPT ![r] = new]

\* The cells a relay holds are moved on from one buffer to the next.
LEMMA RelayMoves ==
  ASSUME ServerTypes, NEW r \in DOMAIN relay, HoldPull(r) \/ BridgeWrite(r)
  PROVE  \E new : /\ Becomes(r, new) /\ new.phase = relay[r].phase
                  /\ new.writer = relay[r].writer /\ new.reader = relay[r].reader
<1> DEFINE q == relay[r]
<1>1. DOMAIN relay = 1 .. Len(relay) /\ relay \in Seq(RelayRec)
  BY LenProperties DEF ServerTypes
<1>2. q \in RelayRec /\ Len(q.chan) <= ChanCap /\ Len(q.held) <= HoldCap
  BY <1>1, ElementOfSeq DEF ServerTypes
<1>3. q.chan \in Seq(Cell) /\ q.held \in Seq(Cell) /\ q.out \in Seq(Cell)
  BY <1>2 DEF RelayRec, Phases
<1>4. Stream(r) = (q.out \o q.held) \o q.chan
  BY DEF Stream
<1>5. HoldCap \in Nat /\ ChanCap \in Nat
  BY MuxAssumption
<1>6. CASE HoldPull(r)
  <2> DEFINE new == [q EXCEPT !.held = Append(q.held, Head(q.chan)), !.chan = Tail(q.chan)]
  <2>1. relay' = [relay EXCEPT ![r] = new] /\ q.chan # <<>> /\ Len(q.held) < HoldCap
    BY <1>6 DEF HoldPull
  <2>2. /\ Append(q.held, Head(q.chan)) \in Seq(Cell) /\ Tail(q.chan) \in Seq(Cell)
        /\ Append(q.held, Head(q.chan)) \o Tail(q.chan) = q.held \o q.chan
    BY <1>3, <2>1, ShiftFirst
  <2>3. /\ Len(Append(q.held, Head(q.chan))) <= HoldCap /\ Len(Tail(q.chan)) <= ChanCap
    BY <1>2, <1>3, <1>5, <2>1, HeadAndTail, Appended, LenProperties
  <2>4. (q.out \o Append(q.held, Head(q.chan))) \o Tail(q.chan) = (q.out \o q.held) \o q.chan
    <3>1. Append(q.held, Head(q.chan)) \o Tail(q.chan) = q.held \o q.chan
      BY <2>2
    <3>2. q.out \o (Append(q.held, Head(q.chan)) \o Tail(q.chan)) = q.out \o (q.held \o q.chan)
      BY <3>1
    <3>3. \A s, t, u \in Seq(Cell) : (s \o t) \o u = s \o (t \o u)
      BY ConcatAssociative
    <3>4. (q.out \o q.held) \o q.chan = q.out \o (q.held \o q.chan)
      BY <1>3, <3>3
    <3>5. (q.out \o Append(q.held, Head(q.chan))) \o Tail(q.chan)
            = q.out \o (Append(q.held, Head(q.chan)) \o Tail(q.chan))
      BY <1>3, <2>2, <3>3
    <3>6. QED
      BY <3>2, <3>4, <3>5
  <2>5. new \in RelayRec /\ new.phase = q.phase /\ new.writer = q.writer /\ new.reader = q.reader
    BY <1>2, <2>2 DEF RelayRec, Phases
  <2>6. Carries(new, r)
    BY <1>2, <1>4, <2>3, <2>4 DEF Carries, RelayRec
  <2>7. QED
    BY <2>1, <2>5, <2>6 DEF Becomes
<1>7. CASE BridgeWrite(r) /\ q.held # <<>>
  <2> DEFINE new == [q EXCEPT !.out = Append(q.out, Head(q.held)), !.held = Tail(q.held)]
  <2>1. relay' = [relay EXCEPT ![r] = new]
    BY <1>7 DEF BridgeWrite
  <2>2. /\ Append(q.out, Head(q.held)) \in Seq(Cell) /\ Tail(q.held) \in Seq(Cell)
        /\ Append(q.out, Head(q.held)) \o Tail(q.held) = q.out \o q.held
    BY <1>3, <1>7, ShiftFirst
  <2>3. Len(Tail(q.held)) <= HoldCap
    BY <1>2, <1>3, <1>5, <1>7, HeadAndTail, LenProperties
  <2>4. new \in RelayRec /\ new.phase = q.phase /\ new.writer = q.writer /\ new.reader = q.reader
    BY <1>2, <2>2 DEF RelayRec, Phases
  <2>5. Carries(new, r)
    BY <1>2, <1>4, <2>2, <2>3 DEF Carries, RelayRec
  <2>6. QED
    BY <2>1, <2>4, <2>5 DEF Becomes
<1>8. CASE BridgeWrite(r) /\ q.held = <<>>
  <2> DEFINE new == [q EXCEPT !.out = Append(q.out, Head(q.chan)), !.chan = Tail(q.chan)]
  <2>1. relay' = [relay EXCEPT ![r] = new] /\ q.chan # <<>>
    BY <1>8 DEF BridgeWrite
  <2>2. /\ Append(q.out, Head(q.chan)) \in Seq(Cell) /\ Tail(q.chan) \in Seq(Cell)
        /\ Append(q.out, Head(q.chan)) \o Tail(q.chan) = q.out \o q.chan
    BY <1>3, <2>1, ShiftFirst
  <2>3. Len(Tail(q.chan)) <= ChanCap
    BY <1>2, <1>3, <1>5, <2>1, HeadAndTail, LenProperties
  <2>4. /\ Append(q.out, Head(q.chan)) \o q.held = Append(q.out, Head(q.chan))
        /\ q.out \o q.held = q.out
    BY <1>3, <1>8, <2>2, ConcatEmptySeq
  <2>5. new \in RelayRec /\ new.phase = q.phase /\ new.writer = q.writer /\ new.reader = q.reader
    BY <1>2, <2>2 DEF RelayRec, Phases
  <2>6. Carries(new, r)
    BY <1>2, <1>4, <2>2, <2>3, <2>4 DEF Carries, RelayRec
  <2>7. QED
    BY <2>1, <2>5, <2>6 DEF Becomes
<1>9. QED
  BY <1>6, <1>7, <1>8

\* The relay counts as long as it has not returned; without bridge errors the receiving
\* end of its channel lasts as long as the sender.
Goes(new, r) ==
  /\ \/ streams' = streams /\ (new.phase \in {"hold", "connect", "run"} <=> LiveRelay(r))
     \/ streams' = streams - 1 /\ LiveRelay(r) /\ new.phase \notin {"hold", "connect", "run"}
  /\ ~BridgeErrors /\ relay[r].sender /\ Receiving(r) =>
       new.phase \in {"hold", "connect"} \/ new.writer = "run"

\* Every step of a relay and of its bridge.
LEMMA RelaySteps ==
  ASSUME ServerTypes, NEW r \in DOMAIN relay, RelayTask(r) \/ Bridge(r)
  PROVE  \E new : Becomes(r, new) /\ Goes(new, r)
<1> DEFINE q == relay[r]
<1>1. DOMAIN relay = 1 .. Len(relay) /\ relay \in Seq(RelayRec)
  BY LenProperties DEF ServerTypes
<1>2. q \in RelayRec /\ Len(q.chan) <= ChanCap /\ Len(q.held) <= HoldCap
  BY <1>1, ElementOfSeq DEF ServerTypes
<1>3. Stream(r) = (q.out \o q.held) \o q.chan
  BY DEF Stream
<1>4. CASE HoldPull(r) \/ BridgeWrite(r)
  <2>1. PICK new : /\ Becomes(r, new) /\ new.phase = relay[r].phase
                   /\ new.writer = relay[r].writer /\ new.reader = relay[r].reader
    BY <1>4, RelayMoves
  <2>2. streams' = streams
    BY <1>4 DEF HoldPull, BridgeWrite
  <2>3. QED
    BY <2>1, <2>2 DEF Goes, LiveRelay, Receiving
<1>5. CASE HoldClosed(r)
  <2> DEFINE new == [q EXCEPT !.phase = "early"]
  <2>1. relay' = [relay EXCEPT ![r] = new] /\ ~q.sender /\ q.phase = "hold" /\ streams' = streams - 1
    BY <1>5 DEF HoldClosed
  <2>2. new \in RelayRec /\ Carries(new, r) /\ new.phase = "early"
    BY <1>2, <1>3 DEF RelayRec, Phases, Carries
  <2>3. QED
    BY <2>1, <2>2 DEF Becomes, Goes, LiveRelay
<1>6. CASE GateOpens(r)
  <2> DEFINE new == [q EXCEPT !.phase = "connect"]
  <2>1. relay' = [relay EXCEPT ![r] = new] /\ q.phase = "hold" /\ streams' = streams
    BY <1>6 DEF GateOpens
  <2>2. new \in RelayRec /\ Carries(new, r) /\ new.phase = "connect"
    BY <1>2, <1>3 DEF RelayRec, Phases, Carries
  <2>3. QED
    BY <2>1, <2>2 DEF Becomes, Goes, LiveRelay
<1>7. CASE Connect(r)
  <2>1. CASE relay' = [relay EXCEPT ![r].phase = "run", ![r].writer = "run", ![r].reader = "run"]
             /\ streams' = streams
    <3> DEFINE new == [q EXCEPT !.phase = "run", !.writer = "run", !.reader = "run"]
    <3>1. relay' = [relay EXCEPT ![r] = new] /\ q.phase = "connect"
      BY <1>7, <2>1 DEF Connect
    <3>2. new \in RelayRec /\ Carries(new, r) /\ new.phase = "run" /\ new.writer = "run"
      BY <1>2, <1>3 DEF RelayRec, Phases, Carries
    <3>3. QED
      BY <2>1, <3>1, <3>2 DEF Becomes, Goes, LiveRelay
  <2>2. CASE BridgeErrors /\ relay' = [relay EXCEPT ![r].phase = "failed"] /\ streams' = streams - 1
    <3> DEFINE new == [q EXCEPT !.phase = "failed"]
    <3>1. relay' = [relay EXCEPT ![r] = new] /\ q.phase = "connect"
      BY <1>7, <2>2 DEF Connect
    <3>2. new \in RelayRec /\ Carries(new, r) /\ new.phase = "failed"
      BY <1>2, <1>3 DEF RelayRec, Phases, Carries
    <3>3. QED
      BY <2>2, <3>1, <3>2 DEF Becomes, Goes, LiveRelay
  <2>3. QED
    BY <1>7, <2>1, <2>2 DEF Connect
<1>8. CASE BridgeWriterEnds(r) \/ BridgeWriteFails(r)
  <2> DEFINE new == [q EXCEPT !.writer = "done"]
  <2>1. /\ relay' = [relay EXCEPT ![r] = new] /\ q.writer = "run" /\ streams' = streams
        /\ ~q.sender \/ BridgeErrors
    BY <1>8 DEF BridgeWriterEnds, BridgeWriteFails
  <2>2. new \in RelayRec /\ Carries(new, r) /\ new.phase = q.phase
    BY <1>2, <1>3 DEF RelayRec, Phases, Carries
  <2>3. QED
    BY <2>1, <2>2 DEF Becomes, Goes, LiveRelay
<1>9. CASE RelayReturns(r)
  <2> DEFINE new == [q EXCEPT !.phase = "done"]
  <2>1. relay' = [relay EXCEPT ![r] = new] /\ q.phase = "run" /\ streams' = streams - 1
    BY <1>9 DEF RelayReturns
  <2>2. new \in RelayRec /\ Carries(new, r) /\ new.phase = "done" /\ new.writer = q.writer
    BY <1>2, <1>3 DEF RelayRec, Phases, Carries
  <2>3. QED
    BY <2>1, <2>2 DEF Becomes, Goes, LiveRelay, Receiving
<1>10. CASE BridgeReply(r)
  <2> DEFINE new == [q EXCEPT !.replies = q.replies + 1]
  <2>1. relay' = [relay EXCEPT ![r] = new] /\ streams' = streams
    BY <1>10 DEF BridgeReply
  <2>2. q.replies + 1 \in Nat
    BY <1>2 DEF RelayRec, Phases
  <2>3. new \in RelayRec /\ Carries(new, r) /\ new.phase = q.phase /\ new.writer = q.writer
    BY <1>2, <1>3, <2>2 DEF RelayRec, Phases, Carries
  <2>4. QED
    BY <2>1, <2>3 DEF Becomes, Goes, LiveRelay, Receiving
<1>11. CASE BridgeEof(r) \/ BridgeReaderFails(r)
  <2> DEFINE new == [q EXCEPT !.reader = "done"]
  <2>1. relay' = [relay EXCEPT ![r] = new] /\ streams' = streams
    BY <1>11 DEF BridgeEof, BridgeReaderFails
  <2>2. new \in RelayRec /\ Carries(new, r) /\ new.phase = q.phase /\ new.writer = q.writer
    BY <1>2, <1>3 DEF RelayRec, Phases, Carries
  <2>3. QED
    BY <2>1, <2>2 DEF Becomes, Goes, LiveRelay, Receiving
<1>12. QED
  BY <1>4, <1>5, <1>6, <1>7, <1>8, <1>9, <1>10, <1>11 DEF RelayTask, Bridge

\* What else they change: the downlink, which gets a reply or a sentinel of the relay.
LEMMA RelayFrames ==
  ASSUME ServerTypes, NEW r \in DOMAIN relay, RelayTask(r) \/ Bridge(r)
  PROVE  /\ UNCHANGED relayFrame
         /\ \/ downlink' = downlink
            \/ /\ Len(downlink) < LinkCap
               /\ \E n \in Nat \ {0} : downlink' = Append(downlink, <<relay[r].id, r, n>>)
            \/ Len(downlink) < LinkCap /\ downlink' = Append(downlink, Close(relay[r].id))
<1>1. DOMAIN relay = 1 .. Len(relay) /\ relay \in Seq(RelayRec)
  BY LenProperties DEF ServerTypes
<1>2. relay[r].replies + 1 \in Nat \ {0}
  <2>1. relay[r] \in RelayRec
    BY <1>1, ElementOfSeq
  <2>2. QED
    BY <2>1 DEF RelayRec, Phases
<1>3. CASE BridgeReply(r)
  BY <1>2, <1>3 DEF BridgeReply
<1>4. CASE BridgeEof(r)
  BY <1>4 DEF BridgeEof
<1>5. QED
  BY <1>3, <1>4 DEF RelayTask, Bridge, HoldPull, HoldClosed, GateOpens, Connect, BridgeWrite,
                    BridgeWriterEnds, BridgeWriteFails, RelayReturns, BridgeReaderFails

\* The relays after such a step.
LEMMA RelaysAfter ==
  ASSUME ServerTypes, NEW r \in DOMAIN relay, NEW new, Becomes(r, new)
  PROVE  /\ relay' \in Seq(RelayRec) /\ Len(relay') = Len(relay)
         /\ relay'[r] = new
         /\ \A s \in 1 .. Len(relay) : s # r => relay'[s] = relay[s]
         /\ \A s \in 1 .. Len(relay) :
              /\ relay'[s].id = relay[s].id /\ relay'[s].owner = relay[s].owner
              /\ relay'[s].sender = relay[s].sender /\ Stream(s)' = Stream(s)
              /\ Len(relay'[s].chan) <= ChanCap /\ Len(relay'[s].held) <= HoldCap
<1>1. DOMAIN relay = 1 .. Len(relay) /\ relay \in Seq(RelayRec)
  BY LenProperties DEF ServerTypes
<1>2. new \in RelayRec /\ Carries(new, r) /\ relay' = [relay EXCEPT ![r] = new]
  BY DEF Becomes
<1>3. /\ relay' \in Seq(RelayRec) /\ Len(relay') = Len(relay)
      /\ \A s \in 1 .. Len(relay) : relay'[s] = IF s = r THEN new ELSE relay[s]
  BY <1>1, <1>2, ExceptSeq
<1>4. \A s \in 1 .. Len(relay) : Stream(s)' = Stream(s)
  BY <1>1, <1>2, <1>3 DEF Stream, Carries
<1>5. QED
  BY <1>1, <1>2, <1>3, <1>4 DEF Carries, ServerTypes

-----------------------------------------------------------------------------
(* What the steps of one circuit do, but for the first.                    *)

\* The circuit keeps its id, reads no more once it has stopped, and hands to Tor what
\* it has received.
CircBecomes(c, new) ==
  /\ new \in CircRec /\ circ' = [circ EXCEPT ![c] = new]
  /\ new.id = circ[c].id /\ new.sent <= MaxCells[c] /\ Len(new.down) <= DownCap
  /\ new.reader = "run" => circ[c].reader = "run"
  /\ new.reader = "idle" => circ[c].reader = "idle"
  /\ \A i \in 1 .. Len(new.got) : \/ \E j \in 1 .. Len(circ[c].got) : circ[c].got[j] = new.got[i]
                                  \/ \E j \in 1 .. Len(circ[c].down) : circ[c].down[j] = new.got[i]
  /\ \A i \in 1 .. Len(new.down) : \E j \in 1 .. Len(circ[c].down) : circ[c].down[j] = new.down[i]

\* What the reader puts on the uplink: nothing, its next cell or its sentinel.
CircSends(c, new) ==
  \/ uplink' = uplink /\ new.sent = circ[c].sent
  \/ /\ circ[c].reader = "run" /\ wire = "up" /\ Len(uplink) < LinkCap
     /\ \/ /\ uplink' = Append(uplink, <<circ[c].id, c, circ[c].sent + 1>>)
           /\ new.sent = circ[c].sent + 1
        \/ /\ uplink' = Append(uplink, Close(circ[c].id))
           /\ new.sent = circ[c].sent /\ new.reader # "run"

LEMMA CircuitSteps ==
  ASSUME ClientTypes, NEW c \in Circuits, Circuit(c), ~AddStream(c)
  PROVE  /\ \E new : CircBecomes(c, new) /\ CircSends(c, new)
         /\ UNCHANGED <<nextId, cmap, wire, downlink, serverVars, lost>>
<1> DEFINE q == circ[c]
<1>1. q \in CircRec /\ q.sent <= MaxCells[c] /\ Len(q.down) <= DownCap
  BY DEF ClientTypes
<1>2. q.sent \in Nat /\ MaxCells[c] \in Nat /\ DownCap \in Nat
      /\ q.down \in Seq(Cell) /\ q.got \in Seq(Cell)
  BY <1>1, MuxAssumption DEF CircRec, Circuits
<1>3. CASE AddStreamFails(c) \/ TorEof(c) \/ TorReaderFails(c)
  <2>1. PICK l \in {"refused", "done", "failed"} :
           /\ circ' = [circ EXCEPT ![c].reader = l]
           /\ \/ uplink' = uplink
              \/ /\ q.reader = "run" /\ wire = "up" /\ Len(uplink) < LinkCap
                 /\ uplink' = Append(uplink, Close(q.id))
    BY <1>3 DEF AddStreamFails, TorEof, TorReaderFails
  <2> DEFINE new == [q EXCEPT !.reader = l]
  <2>2. circ' = [circ EXCEPT ![c] = new]
    BY <2>1
  <2>3. /\ new \in CircRec /\ new.id = q.id /\ new.sent = q.sent /\ new.down = q.down
        /\ new.got = q.got /\ new.reader = l
    BY <1>1 DEF CircRec
  <2>4. CircBecomes(c, new)
    BY <1>1, <2>2, <2>3 DEF CircBecomes
  <2>5. CircSends(c, new)
    BY <2>1, <2>3 DEF CircSends
  <2>6. UNCHANGED <<nextId, cmap, wire, downlink, serverVars, lost>>
    BY <1>3 DEF AddStreamFails, TorEof, TorReaderFails
  <2>7. QED
    BY <2>4, <2>5, <2>6
<1>4. CASE TorRead(c)
  <2> DEFINE new == [q EXCEPT !.sent = q.sent + 1]
  <2>1. circ' = [circ EXCEPT ![c] = new]
    BY <1>4 DEF TorRead
  <2>2. /\ q.reader = "run" /\ q.sent < MaxCells[c] /\ wire = "up" /\ Len(uplink) < LinkCap
        /\ uplink' = Append(uplink, <<q.id, c, q.sent + 1>>)
        /\ UNCHANGED <<nextId, cmap, wire, downlink, serverVars, lost>>
    BY <1>4 DEF TorRead
  <2>3. q.sent + 1 \in Nat /\ q.sent + 1 <= MaxCells[c]
    BY <1>2, <2>2
  <2>4. /\ new \in CircRec /\ new.id = q.id /\ new.sent = q.sent + 1 /\ new.down = q.down
        /\ new.got = q.got /\ new.reader = q.reader
    BY <1>1, <2>3 DEF CircRec
  <2>5. CircBecomes(c, new)
    BY <1>1, <2>1, <2>3, <2>4 DEF CircBecomes
  <2>6. CircSends(c, new)
    BY <2>2, <2>4 DEF CircSends
  <2>7. QED
    BY <2>2, <2>5, <2>6
<1>5. CASE TorWrite(c) /\ circ' = [circ EXCEPT ![c].got = Append(@, Head(circ[c].down)), ![c].down = Tail(@)]
  <2> DEFINE new == [q EXCEPT !.got = Append(q.got, Head(q.down)), !.down = Tail(q.down)]
  <2>1. circ' = [circ EXCEPT ![c] = new] /\ q.down # <<>>
    BY <1>5 DEF TorWrite
  <2>2. /\ Head(q.down) \in Cell /\ Head(q.down) = q.down[1] /\ 1 \in 1 .. Len(q.down)
        /\ Tail(q.down) \in Seq(Cell) /\ Len(Tail(q.down)) = Len(q.down) - 1
        /\ \A i \in 1 .. Len(Tail(q.down)) : i + 1 \in 1 .. Len(q.down) /\ Tail(q.down)[i] = q.down[i + 1]
    BY <1>2, <2>1, HeadAndTail
  <2>3. /\ Append(q.got, Head(q.down)) \in Seq(Cell)
        /\ Len(Append(q.got, Head(q.down))) = Len(q.got) + 1
        /\ \A i \in 1 .. Len(q.got) : Append(q.got, Head(q.down))[i] = q.got[i]
        /\ Append(q.got, Head(q.down))[Len(q.got) + 1] = q.down[1]
        /\ \A i \in 1 .. Len(q.got) + 1 : i \in 1 .. Len(q.got) \/ i = Len(q.got) + 1
    BY <1>2, <2>2, Appended
  <2>4. /\ new \in CircRec /\ new.id = q.id /\ new.sent = q.sent /\ new.down = Tail(q.down)
        /\ new.got = Append(q.got, Head(q.down)) /\ new.reader = q.reader
    BY <1>1, <2>2, <2>3 DEF CircRec
  <2>5. Len(new.down) <= DownCap
    BY <1>1, <1>2, <2>2, <2>4, LenProperties
  <2>6. CircBecomes(c, new)
    BY <1>1, <2>1, <2>2, <2>3, <2>4, <2>5 DEF CircBecomes
  <2>7. CircSends(c, new)
    BY <1>5, <2>4 DEF CircSends, TorWrite
  <2>8. QED
    BY <1>5, <2>6, <2>7 DEF TorWrite
<1>6. CASE TorWriterEnds(c) \/ (TorWrite(c) /\ circ' = [circ EXCEPT ![c].writer = "done", ![c].down = <<>>])
  <2> DEFINE new == [q EXCEPT !.writer = "done", !.down = <<>>]
  <2>1. circ' = [circ EXCEPT ![c] = new]
    <3>1. CASE TorWriterEnds(c)
      <4>1. q = [q EXCEPT !.down = <<>>]
        BY <1>1, <3>1 DEF TorWriterEnds, CircRec
      <4>2. QED
        BY <3>1, <4>1 DEF TorWriterEnds
    <3>2. QED
      BY <1>6, <3>1
  <2>2. /\ new \in CircRec /\ new.id = q.id /\ new.sent = q.sent /\ new.down = <<>>
        /\ new.got = q.got /\ new.reader = q.reader
    <3>1. <<>> \in Seq(Cell)
      BY EmptySeq
    <3>2. QED
      BY <1>1, <3>1 DEF CircRec
  <2>3. Len(new.down) = 0
    BY <2>2
  <2>4. CircBecomes(c, new)
    BY <1>1, <1>2, <2>1, <2>2, <2>3 DEF CircBecomes
  <2>5. CircSends(c, new)
    BY <1>6, <2>2 DEF CircSends, TorWrite, TorWriterEnds
  <2>6. UNCHANGED <<nextId, cmap, wire, downlink, serverVars, lost>>
    BY <1>6 DEF TorWrite, TorWriterEnds
  <2>7. QED
    BY <2>4, <2>5, <2>6
<1>7. QED
  BY <1>3, <1>4, <1>5, <1>6 DEF Circuit, TorWrite

\* The first step: a stream id that nobody has in the map.
LEMMA StreamAdded ==
  ASSUME ClientTypes, NEW c \in Circuits, AddStream(c)
  PROVE  /\ circ[c].reader = "idle"
         /\ circ' = [circ EXCEPT ![c] = [Idle EXCEPT !.id = ScanFrom(nextId), !.reader = "run",
                                                     !.writer = "run"]]
         /\ circ'[c] \in CircRec /\ circ'[c].id = ScanFrom(nextId) /\ circ'[c].reader = "run"
         /\ circ'[c].down = <<>> /\ circ'[c].got = <<>> /\ circ'[c].sent = 0
         /\ \A d \in Circuits : d # c => circ'[d] = circ[d]
         /\ ScanFrom(nextId) \in Ids \ DOMAIN cmap
         /\ DOMAIN cmap' = DOMAIN cmap \cup {ScanFrom(nextId)}
         /\ \A id \in DOMAIN cmap' : cmap'[id] = IF id = ScanFrom(nextId) THEN c ELSE cmap[id]
         /\ nextId' = (ScanFrom(nextId) + 1) % IdMod /\ nextId' \in 0 .. IdMod - 1
         /\ UNCHANGED <<wire, uplink, downlink, serverVars, lost>>
<1> DEFINE new == [Idle EXCEPT !.id = ScanFrom(nextId), !.reader = "run", !.writer = "run"]
<1>1. ScanFrom(nextId) \in Ids \ DOMAIN cmap
  BY ScanFindsFree DEF AddStream, ClientTypes
<1>2. /\ new \in CircRec /\ new.id = ScanFrom(nextId) /\ new.reader = "run" /\ new.down = <<>>
      /\ new.got = <<>> /\ new.sent = 0
  <2>1. ScanFrom(nextId) \in 0 .. IdMod - 1 /\ <<>> \in Seq(Cell)
    BY <1>1, MuxAssumption, EmptySeq DEF Ids
  <2>2. QED
    BY <2>1 DEF Idle, CircRec
<1>3. /\ circ' = [circ EXCEPT ![c] = new] /\ circ'[c] = new
      /\ \A d \in Circuits : d # c => circ'[d] = circ[d]
  BY DEF AddStream, ClientTypes
<1>4. cmap' = With(cmap, ScanFrom(nextId), c)
  BY DEF AddStream
<1>5. /\ DOMAIN cmap' = DOMAIN cmap \cup {ScanFrom(nextId)}
      /\ \A id \in DOMAIN cmap' : cmap'[id] = IF id = ScanFrom(nextId) THEN c ELSE cmap[id]
  <2> DEFINE n == ScanFrom(nextId)
  <2>1. cmap' = With(cmap, n, c)
    BY <1>4
  <2> HIDE DEF n
  <2>2. /\ DOMAIN cmap' = DOMAIN cmap \cup {n}
        /\ \A id \in DOMAIN cmap \cup {n} : cmap'[id] = IF id = n THEN c ELSE cmap[id]
    BY <2>1 DEF With
  <2>3. QED
    BY <2>2 DEF n
<1>6. nextId' = (ScanFrom(nextId) + 1) % IdMod /\ nextId' \in 0 .. IdMod - 1
  BY <1>1, MuxAssumption DEF AddStream, Ids
<1>7. QED
  BY <1>1, <1>2, <1>3, <1>5, <1>6 DEF AddStream

-----------------------------------------------------------------------------
(* What the demux loop does to the relays.                                 *)

\* Two sequences with the same domain are of the same length.
LEMMA SameLength ==
  ASSUME NEW m \in Nat, NEW n \in Nat, 1 .. m = 1 .. n
  PROVE  m = n
<1>1. CASE m > n
  <2>1. m \in 1 .. m /\ m \notin 1 .. n
    BY <1>1
  <2>2. QED
    BY <2>1
<1>2. CASE n > m
  <2>1. n \in 1 .. n /\ n \notin 1 .. m
    BY <1>2
  <2>2. QED
    BY <2>1
<1>3. QED
  BY <1>1, <1>2

\* Senders are dropped: nothing else of a relay changes.
LEMMA SendersDropped ==
  ASSUME ServerTypes, NEW ids, relay' = DropSenders(ids)
  PROVE  /\ relay' \in Seq(RelayRec) /\ Len(relay') = Len(relay) /\ DOMAIN relay' = DOMAIN relay
         /\ \A r \in 1 .. Len(relay) :
              /\ relay'[r].id = relay[r].id /\ relay'[r].owner = relay[r].owner
              /\ relay'[r].phase = relay[r].phase /\ relay'[r].writer = relay[r].writer
              /\ relay'[r].chan = relay[r].chan /\ relay'[r].held = relay[r].held
              /\ relay'[r].out = relay[r].out
              /\ relay'[r].sender => relay[r].sender
              /\ relay[r].sender /\ ~relay'[r].sender => \E id \in ids \cap DOMAIN smap : smap[id] = r
              /\ Stream(r)' = Stream(r)
<1>1. relay \in Seq(RelayRec) /\ Len(relay) \in Nat /\ DOMAIN relay = 1 .. Len(relay)
  BY LenProperties DEF ServerTypes
<1>2. DOMAIN relay' = 1 .. Len(relay)
  BY <1>1 DEF DropSenders
<1>3. ASSUME NEW r \in 1 .. Len(relay)
      PROVE  relay'[r] = IF \E id \in ids : id \in DOMAIN smap /\ smap[id] = r
                         THEN [relay[r] EXCEPT !.sender = FALSE] ELSE relay[r]
  BY <1>1 DEF DropSenders
<1>4. ASSUME NEW r \in 1 .. Len(relay) PROVE relay[r] \in RelayRec
  BY <1>1, ElementOfSeq
<1>5. ASSUME NEW r \in 1 .. Len(relay) PROVE relay'[r] \in RelayRec
  <2>1. [relay[r] EXCEPT !.sender = FALSE] \in RelayRec
    BY <1>4 DEF RelayRec, Phases
  <2>2. QED
    BY <1>3, <1>4, <2>1
<1>6. relay' \in [1 .. Len(relay) -> RelayRec]
  BY <1>1, <1>5 DEF DropSenders
<1>7. relay' \in Seq(RelayRec)
  BY <1>1, <1>6, SeqDef
<1>8. Len(relay') \in Nat /\ DOMAIN relay' = 1 .. Len(relay')
  BY <1>7, LenProperties
<1>9. Len(relay') = Len(relay)
  BY <1>1, <1>2, <1>8, SameLength
<1>10. ASSUME NEW r \in 1 .. Len(relay)
       PROVE  /\ relay'[r].id = relay[r].id /\ relay'[r].owner = relay[r].owner
              /\ relay'[r].phase = relay[r].phase /\ relay'[r].writer = relay[r].writer
              /\ relay'[r].chan = relay[r].chan /\ relay'[r].held = relay[r].held
              /\ relay'[r].out = relay[r].out
              /\ relay'[r].sender => relay[r].sender
              /\ relay[r].sender /\ ~relay'[r].sender => \E id \in ids \cap DOMAIN smap : smap[id] = r
  <2>1. CASE \E id \in ids : id \in DOMAIN smap /\ smap[id] = r
    <3>1. relay'[r] = [relay[r] EXCEPT !.sender = FALSE] /\ relay[r] \in RelayRec
      BY <1>3, <1>4, <2>1
    <3>2. relay'[r].sender = FALSE
      BY <3>1 DEF RelayRec, Phases
    <3>3. QED
      BY <2>1, <3>1, <3>2 DEF RelayRec, Phases
  <2>2. CASE ~\E id \in ids : id \in DOMAIN smap /\ smap[id] = r
    BY <1>3, <2>2
  <2>3. QED
    BY <2>1, <2>2
<1>11. ASSUME NEW r \in 1 .. Len(relay) PROVE Stream(r)' = Stream(r)
  BY <1>10 DEF Stream
<1>12. QED
  BY <1>1, <1>2, <1>7, <1>9, <1>10, <1>11

LEMMA StreamKept ==
  ASSUME NEW r, relay'[r] = relay[r]
  PROVE  Stream(r)' = Stream(r)
BY DEF Stream

\* A cell goes to the end of the stream of a relay.
LEMMA CellRouted ==
  ASSUME ServerTypes, NEW r \in 1 .. Len(relay), NEW cell \in Cell,
         Len(relay[r].chan) < ChanCap, relay' = [relay EXCEPT ![r].chan = Append(@, cell)]
  PROVE  /\ relay' \in Seq(RelayRec) /\ Len(relay') = Len(relay)
         /\ \A s \in 1 .. Len(relay) :
              /\ relay'[s].id = relay[s].id /\ relay'[s].owner = relay[s].owner
              /\ relay'[s].phase = relay[s].phase /\ relay'[s].writer = relay[s].writer
              /\ relay'[s].sender = relay[s].sender
              /\ Len(relay'[s].chan) <= ChanCap /\ Len(relay'[s].held) <= HoldCap
              /\ Stream(s)' = IF s = r THEN Append(Stream(r), cell) ELSE Stream(s)
<1> DEFINE q == relay[r]
           new == [q EXCEPT !.chan = Append(q.chan, cell)]
<1>1. relay \in Seq(RelayRec) /\ Len(relay) \in Nat /\ DOMAIN relay = 1 .. Len(relay)
  BY LenProperties DEF ServerTypes
<1>2. q \in RelayRec /\ Len(q.held) <= HoldCap
  BY <1>1, ElementOfSeq DEF ServerTypes
<1>3. q.chan \in Seq(Cell) /\ q.held \in Seq(Cell) /\ q.out \in Seq(Cell) /\ ChanCap \in Nat
  BY <1>2, MuxAssumption DEF RelayRec, Phases
<1>4. Append(q.chan, cell) \in Seq(Cell) /\ Len(Append(q.chan, cell)) <= ChanCap
  BY <1>3, Appended
<1>5. /\ new \in RelayRec /\ new.id = q.id /\ new.owner = q.owner /\ new.phase = q.phase
      /\ new.writer = q.writer /\ new.sender = q.sender /\ new.held = q.held
      /\ new.out = q.out /\ new.chan = Append(q.chan, cell)
  BY <1>2, <1>4 DEF RelayRec, Phases
<1>6. relay' = [relay EXCEPT ![r] = new]
  OBVIOUS
<1> HIDE DEF new
<1>7. /\ relay' \in Seq(RelayRec) /\ Len(relay') = Len(relay)
      /\ \A s \in 1 .. Len(relay) : relay'[s] = IF s = r THEN new ELSE relay[s]
  <2> DEFINE all == [relay EXCEPT ![r] = new]
  <2>1. new \in RelayRec
    BY <1>5
  <2>2. /\ all \in Seq(RelayRec) /\ Len(all) = Len(relay)
        /\ \A s \in 1 .. Len(relay) : all[s] = IF s = r THEN new ELSE relay[s]
    BY <1>1, <2>1, ExceptSeq
  <2>3. relay' = all
    BY <1>6
  <2> HIDE DEF all
  <2>4. QED
    BY <2>2, <2>3
<1>8. (q.out \o q.held) \o Append(q.chan, cell) = Append((q.out \o q.held) \o q.chan, cell)
  <2>1. q.out \o q.held \in Seq(Cell)
    BY <1>3, ConcatProperties
  <2>2. \A a, b \in Seq(Cell) : a \o Append(b, cell) = Append(a \o b, cell)
    <3>1. ASSUME NEW a \in Seq(Cell), NEW b \in Seq(Cell)
          PROVE  a \o Append(b, cell) = Append(a \o b, cell)
      <4>1. <<cell>> \in Seq(Cell) /\ Append(b, cell) = b \o <<cell>>
        BY AppendIsConcat
      <4>2. a \o b \in Seq(Cell)
        BY ConcatProperties
      <4>3. Append(a \o b, cell) = (a \o b) \o <<cell>>
        BY <4>2, AppendIsConcat
      <4>4. (a \o b) \o <<cell>> = a \o (b \o <<cell>>)
        BY <4>1, ConcatAssociative
      <4>5. QED
        BY <4>1, <4>3, <4>4
    <3>2. QED
      BY <3>1
  <2>3. QED
    BY <1>3, <2>1, <2>2
<1>9. ASSUME NEW s \in 1 .. Len(relay)
      PROVE  Stream(s)' = IF s = r THEN Append(Stream(r), cell) ELSE Stream(s)
  <2>1. CASE s = r
    <3>1. relay'[s] = new
      BY <1>7, <2>1
    <3>2. QED
      BY <1>5, <1>8, <2>1, <3>1 DEF Stream
  <2>2. CASE s # r
    <3>1. relay'[s] = relay[s]
      BY <1>7, <2>2
    <3>2. QED
      BY <2>2, <3>1, StreamKept
  <2>3. QED
    BY <2>1, <2>2
<1>10. QED
  BY <1>2, <1>4, <1>5, <1>7, <1>9 DEF ServerTypes

\* A relay is spawned with its first cell.
LEMMA RelayOpened ==
  ASSUME ServerTypes, NEW cell \in Cell, relay' = Append(relay, NewRelay(cell))
  PROVE  /\ relay' \in Seq(RelayRec) /\ Len(relay) \in Nat /\ Len(relay') = Len(relay) + 1
         /\ \A s \in 1 .. Len(relay) : relay'[s] = relay[s] /\ Stream(s)' = Stream(s)
         /\ \A s \in 1 .. Len(relay') : s \in 1 .. Len(relay) \/ s = Len(relay')
         /\ Len(relay') \in 1 .. Len(relay')
         /\ relay'[Len(relay')].id = Id(cell) /\ relay'[Len(relay')].owner = Source(cell)
         /\ relay'[Len(relay')].phase \in {"hold", "connect"} /\ relay'[Len(relay')].sender = TRUE
         /\ Len(relay'[Len(relay')].chan) <= ChanCap /\ Len(relay'[Len(relay')].held) <= HoldCap
         /\ \A s \in 1 .. Len(relay') : s = Len(relay) + 1 => Stream(s)' = <<cell>>
<1> DEFINE new == NewRelay(cell)
<1>1. relay \in Seq(RelayRec)
  BY DEF ServerTypes
<1>2. Id(cell) \in Ids /\ Source(cell) \in Nat
  BY DEF Cell, Id, Source
<1>3. <<cell>> \in Seq(Cell) /\ <<>> \in Seq(Cell) /\ Len(<<cell>>) = 1 /\ Len(<<>>) = 0
  BY EmptySeq
<1>4. 1 <= ChanCap /\ 0 <= HoldCap
  BY MuxAssumption
<1>5. /\ new \in RelayRec /\ new.id = Id(cell) /\ new.owner = Source(cell)
      /\ new.phase \in {"hold", "connect"} /\ new.sender = TRUE
      /\ new.chan = <<cell>> /\ new.held = <<>> /\ new.out = <<>>
  BY <1>2, <1>3 DEF NewRelay, RelayRec, Phases
<1> HIDE DEF new
<1>6. /\ relay' \in Seq(RelayRec) /\ Len(relay) \in Nat /\ Len(relay') = Len(relay) + 1
      /\ \A s \in 1 .. Len(relay) : relay'[s] = relay[s]
      /\ relay'[Len(relay')] = new
      /\ \A s \in 1 .. Len(relay') : s \in 1 .. Len(relay) \/ s = Len(relay')
      /\ Len(relay') \in 1 .. Len(relay')
  <2>1. relay' = Append(relay, new)
    BY DEF new
  <2>2. QED
    BY <1>1, <1>5, <2>1, Appended
<1>7. ASSUME NEW s \in 1 .. Len(relay) PROVE Stream(s)' = Stream(s)
  BY <1>6 DEF Stream
<1>8. (<<>> \o <<>>) \o <<cell>> = <<cell>>
  BY <1>3, ConcatEmptySeq
<1>9. ASSUME NEW s \in 1 .. Len(relay'), s = Len(relay) + 1 PROVE Stream(s)' = <<cell>>
  <2>1. relay'[s] = new
    BY <1>6, <1>9
  <2>2. (relay'[s].out \o relay'[s].held) \o relay'[s].chan = <<cell>>
    BY <1>5, <1>8, <2>1
  <2>3. QED
    BY <2>2 DEF Stream
<1>10. QED
  BY <1>3, <1>4, <1>5, <1>6, <1>7, <1>9

-----------------------------------------------------------------------------
(* The receive loop.                                                       *)

\* The channel of the circuit the cell is for gets it.
Delivered ==
  LET cell == Head(downlink)
      c    == cmap[Id(cell)]
  IN  /\ ~IsClose(cell) /\ Id(cell) \in DOMAIN cmap /\ Len(circ[c].down) < DownCap
      /\ circ' = [circ EXCEPT ![c].down = Append(@, cell)]

LEMMA ReceiveSteps ==
  ASSUME ClientTypes, WireTypes, Receive
  PROVE  /\ downlink # <<>> /\ downlink' = Tail(downlink)
         /\ DOMAIN cmap' \subseteq DOMAIN cmap /\ \A id \in DOMAIN cmap' : cmap'[id] = cmap[id]
         /\ circ' = circ \/ Delivered
         /\ \A d \in Circuits : /\ circ'[d].id = circ[d].id /\ circ'[d].reader = circ[d].reader
                                /\ circ'[d].sent = circ[d].sent
         /\ UNCHANGED <<nextId, wire, uplink, serverVars, lost>>
<1>1. cmap' = cmap \/ cmap' = Without(cmap, Id(Head(downlink)))
  BY DEF Receive
<1>2. DOMAIN cmap' \subseteq DOMAIN cmap /\ \A id \in DOMAIN cmap' : cmap'[id] = cmap[id]
  BY <1>1 DEF Without, Restrict
<1>3. Len(circ[cmap[Id(Head(downlink))]].down) >= DownCap
      \/ Len(circ[cmap[Id(Head(downlink))]].down) < DownCap \/ circ' = circ
  <2>1. CASE Id(Head(downlink)) \in DOMAIN cmap
    <3>1. circ[cmap[Id(Head(downlink))]] \in CircRec /\ DownCap \in Nat
      BY <2>1, MuxAssumption DEF ClientTypes
    <3>2. circ[cmap[Id(Head(downlink))]].down \in Seq(Cell)
      BY <3>1 DEF CircRec
    <3>3. Len(circ[cmap[Id(Head(downlink))]].down) \in Nat
      BY <3>2, LenProperties
    <3>4. QED
      BY <3>1, <3>3
  <2>2. CASE Id(Head(downlink)) \notin DOMAIN cmap
    BY <2>2 DEF Receive
  <2>3. QED
    BY <2>1, <2>2
<1>4. circ' = circ \/ Delivered
  BY <1>3 DEF Receive, Delivered
<1>5. \A d \in Circuits : /\ circ'[d].id = circ[d].id /\ circ'[d].reader = circ[d].reader
                          /\ circ'[d].sent = circ[d].sent
  <2>1. CASE Delivered
    <3>1. PICK c \in Circuits : circ' = [circ EXCEPT ![c].down = Append(@, Head(downlink))]
      BY <2>1 DEF Delivered, ClientTypes
    <3> DEFINE new == [circ[c] EXCEPT !.down = Append(@, Head(downlink))]
    <3>2. circ \in [Circuits -> CircRec] /\ circ' = [circ EXCEPT ![c] = new]
      BY <3>1 DEF ClientTypes
    <3>3. new.id = circ[c].id /\ new.reader = circ[c].reader /\ new.sent = circ[c].sent
      BY <3>2 DEF CircRec
    <3> HIDE DEF new
    <3>4. QED
      BY <3>2, <3>3
  <2>2. QED
    BY <1>4, <2>1
<1>6. QED
  BY <1>2, <1>4, <1>5 DEF Receive

LEMMA ReceiveTypes ==
  ASSUME ClientTypes, WireTypes, Receive
  PROVE  ClientTypes' /\ WireTypes'
<1>1. /\ downlink # <<>> /\ downlink' = Tail(downlink)
      /\ DOMAIN cmap' \subseteq DOMAIN cmap /\ \A id \in DOMAIN cmap' : cmap'[id] = cmap[id]
      /\ circ' = circ \/ Delivered
      /\ UNCHANGED <<nextId, wire, uplink, lost>>
  BY ReceiveSteps
<1>2. downlink \in Seq(Cell) /\ Len(downlink) <= LinkCap /\ LinkCap \in Nat
  BY MuxAssumption DEF WireTypes
<1>3. Head(downlink) \in Cell /\ downlink' \in Seq(Cell) /\ Len(downlink') = Len(downlink) - 1
      /\ Len(downlink) \in Nat
  BY <1>1, <1>2, HeadAndTail, LenProperties
<1>4. WireTypes'
  BY <1>1, <1>2, <1>3 DEF WireTypes
<1>5. circ' \in [Circuits -> CircRec]
      /\ \A c \in Circuits : /\ circ'[c].reader = circ[c].reader /\ circ'[c].id = circ[c].id
                             /\ circ'[c].sent = circ[c].sent /\ Len(circ'[c].down) <= DownCap
  <2>1. CASE circ' = circ
    BY <2>1 DEF ClientTypes
  <2>2. CASE Delivered
    <3> DEFINE d == cmap[Id(Head(downlink))]
               q == circ[d]
               new == [q EXCEPT !.down = Append(q.down, Head(downlink))]
    <3>1. d \in Circuits /\ q \in CircRec /\ Len(q.down) < DownCap
      BY <2>2 DEF Delivered, ClientTypes
    <3>2. q.down \in Seq(Cell) /\ DownCap \in Nat
      BY <3>1, MuxAssumption DEF CircRec
    <3>3. Append(q.down, Head(downlink)) \in Seq(Cell) /\ Len(Append(q.down, Head(downlink))) <= DownCap
      BY <1>3, <3>1, <3>2, Appended
    <3>4. /\ new \in CircRec /\ new.reader = q.reader /\ new.id = q.id /\ new.sent = q.sent
          /\ Len(new.down) <= DownCap
      BY <3>1, <3>3 DEF CircRec
    <3>5. circ' = [circ EXCEPT ![d] = new]
      BY <2>2 DEF Delivered
    <3> HIDE DEF new, d
    <3>6. QED
      BY <3>1, <3>4, <3>5 DEF ClientTypes
  <2>3. QED
    BY <1>1, <2>1, <2>2
<1>6. ClientTypes'
  BY <1>1, <1>5 DEF ClientTypes
<1>7. QED
  BY <1>4, <1>6

-----------------------------------------------------------------------------
(* The types are invariant.                                                *)

LEMMA CircuitTypes ==
  ASSUME ClientTypes, WireTypes, NEW c \in Circuits, Circuit(c)
  PROVE  ClientTypes' /\ WireTypes'
<1>1. CASE AddStream(c)
  <2>1. /\ circ' = [circ EXCEPT ![c] = [Idle EXCEPT !.id = ScanFrom(nextId), !.reader = "run",
                                                    !.writer = "run"]]
        /\ circ'[c] \in CircRec /\ circ'[c].id = ScanFrom(nextId) /\ circ'[c].reader = "run"
        /\ circ'[c].down = <<>> /\ circ'[c].sent = 0
        /\ ScanFrom(nextId) \in Ids
        /\ DOMAIN cmap' = DOMAIN cmap \cup {ScanFrom(nextId)}
        /\ \A id \in DOMAIN cmap' : cmap'[id] = IF id = ScanFrom(nextId) THEN c ELSE cmap[id]
        /\ nextId' \in 0 .. IdMod - 1
        /\ UNCHANGED <<wire, uplink, downlink, lost>>
    BY <1>1, StreamAdded
  <2>2. circ' \in [Circuits -> CircRec] /\ \A d \in Circuits : d # c => circ'[d] = circ[d]
    BY <2>1 DEF ClientTypes
  <2>3. 0 <= MaxCells[c] /\ Len(<<>>) <= DownCap
    BY MuxAssumption, EmptySeq DEF Circuits
  <2>4. ClientTypes'
    BY <2>1, <2>2, <2>3 DEF ClientTypes
  <2>5. QED
    BY <2>1, <2>4 DEF WireTypes
<1>2. CASE ~AddStream(c)
  <2>1. PICK new : CircBecomes(c, new) /\ CircSends(c, new)
    BY <1>2, CircuitSteps
  <2>2. UNCHANGED <<nextId, cmap, wire, downlink, lost>>
    BY <1>2, CircuitSteps
  <2>3. ClientTypes'
    BY <2>1, <2>2 DEF ClientTypes, CircBecomes
  <2>4. circ[c].reader = "run" => circ[c].id \in Ids /\ circ[c].sent \in Nat
    BY DEF ClientTypes, CircRec
  <2>5. uplink' \in Seq(Cell) /\ Len(uplink') <= LinkCap
    <3>1. CASE uplink' = uplink
      BY <3>1 DEF WireTypes
    <3>2. CASE uplink' # uplink
      <4>1. PICK cell \in Cell : uplink' = Append(uplink, cell)
        <5>1. circ[c].reader = "run"
          BY <2>1, <3>2 DEF CircSends
        <5>2. circ[c].id \in Ids /\ circ[c].sent + 1 \in Nat /\ c \in Nat
          BY <2>4, <5>1, MuxAssumption DEF Circuits
        <5>3. <<circ[c].id, c, circ[c].sent + 1>> \in Cell /\ Close(circ[c].id) \in Cell
          BY <5>2 DEF Cell, Close
        <5>4. QED
          BY <2>1, <3>2, <5>3 DEF CircSends
      <4>2. Len(uplink) < LinkCap /\ uplink \in Seq(Cell) /\ LinkCap \in Nat
        BY <2>1, <3>2, MuxAssumption DEF CircSends, WireTypes
      <4>3. QED
        BY <4>1, <4>2, Appended
    <3>3. QED
      BY <3>1, <3>2
  <2>6. QED
    BY <2>2, <2>3, <2>5 DEF WireTypes
<1>3. QED
  BY <1>1, <1>2

\* The sentinel and the cells that the server puts on the downlink.
LEMMA DownlinkTypes ==
  ASSUME WireTypes, NEW cell \in Cell, Len(downlink) < LinkCap,
         downlink' = Append(downlink, cell), UNCHANGED <<wire, uplink, lost>>
  PROVE  WireTypes'
<1>1. downlink \in Seq(Cell) /\ LinkCap \in Nat
  BY MuxAssumption DEF WireTypes
<1>2. downlink' \in Seq(Cell) /\ Len(downlink') <= LinkCap
  BY <1>1, Appended
<1>3. QED
  BY <1>2 DEF WireTypes

\* The count: a relay task that returns gives its place back.
LEMMA RelayCounts ==
  ASSUME ServerTypes, CountInv, NEW r \in DOMAIN relay, NEW new, Becomes(r, new), Goes(new, r)
  PROVE  CountInv'
<1>1. /\ Len(relay') = Len(relay) /\ relay'[r] = new
      /\ \A s \in 1 .. Len(relay) : s # r => relay'[s] = relay[s]
      /\ relay' \in Seq(RelayRec)
  BY RelaysAfter
<1>2. DOMAIN relay = 1 .. Len(relay) /\ DOMAIN relay' = 1 .. Len(relay) /\ Len(relay) \in Nat
  <2>1. relay \in Seq(RelayRec)
    BY DEF ServerTypes
  <2>2. QED
    BY <1>1, <2>1, LenProperties
<1>3. IsFiniteSet(Live)
  <2>1. IsFiniteSet(1 .. Len(relay)) /\ Live \in SUBSET (1 .. Len(relay))
    BY <1>2, FS_Interval DEF Live
  <2>2. QED
    BY <2>1, FS_Subset
<1>4. CASE streams' = streams /\ (new.phase \in {"hold", "connect", "run"} <=> LiveRelay(r))
  <2>1. Live' = Live
    BY <1>1, <1>2, <1>4 DEF Live, LiveRelay
  <2>2. QED
    BY <1>4, <2>1 DEF CountInv
<1>5. CASE streams' = streams - 1 /\ LiveRelay(r) /\ new.phase \notin {"hold", "connect", "run"}
  <2>1. Live' = Live \ {r} /\ r \in Live
    BY <1>1, <1>2, <1>5 DEF Live, LiveRelay
  <2>2. Cardinality(Live') = Cardinality(Live) - 1 /\ Cardinality(Live') \in Nat
    BY <1>3, <2>1, FS_RemoveElement, FS_CardinalityType
  <2>3. MaxGlobal \in Nat
    BY MuxAssumption
  <2>4. QED
    BY <1>5, <2>2, <2>3 DEF CountInv
<1>6. QED
  BY <1>4, <1>5 DEF Goes

LEMMA RelayTypes ==
  ASSUME MuxTypes, NEW r \in DOMAIN relay, RelayTask(r) \/ Bridge(r)
  PROVE  MuxTypes'
<1>1. ClientTypes /\ WireTypes /\ ServerTypes /\ CountInv
  BY DEF MuxTypes
<1>2. PICK new : Becomes(r, new) /\ Goes(new, r)
  BY <1>1, RelaySteps
<1>3. /\ UNCHANGED relayFrame
      /\ \/ downlink' = downlink
         \/ /\ Len(downlink) < LinkCap
            /\ \E n \in Nat \ {0} : downlink' = Append(downlink, <<relay[r].id, r, n>>)
         \/ Len(downlink) < LinkCap /\ downlink' = Append(downlink, Close(relay[r].id))
  BY <1>1, RelayFrames
<1>4. /\ relay' \in Seq(RelayRec) /\ Len(relay') = Len(relay)
      /\ \A s \in 1 .. Len(relay) : Len(relay'[s].chan) <= ChanCap /\ Len(relay'[s].held) <= HoldCap
  BY <1>1, <1>2, RelaysAfter
<1>5. ServerTypes' /\ ClientTypes'
  BY <1>1, <1>3, <1>4 DEF ServerTypes, ClientTypes, relayFrame, clientVars
<1>6. WireTypes'
  <2>1. CASE downlink' = downlink
    BY <1>1, <1>3, <2>1 DEF WireTypes, relayFrame
  <2>2. CASE downlink' # downlink
    <3>1. relay[r] \in RelayRec /\ r \in Nat
      BY <1>1, LenProperties, ElementOfSeq DEF ServerTypes
    <3>2. relay[r].id \in Ids
      BY <3>1 DEF RelayRec, Phases
    <3>3. PICK cell \in Cell : downlink' = Append(downlink, cell) /\ Len(downlink) < LinkCap
      BY <1>3, <2>2, <3>1, <3>2 DEF Cell, Close
    <3>4. QED
      BY <1>1, <1>3, <3>3, DownlinkTypes DEF relayFrame
  <2>3. QED
    BY <2>1, <2>2
<1>7. CountInv'
  BY <1>1, <1>2, RelayCounts
<1>8. QED
  BY <1>5, <1>6, <1>7 DEF MuxTypes

\* A turn of the demux loop takes a cell off the uplink.
LEMMA UplinkTaken ==
  ASSUME WireTypes, uplink # <<>>, uplink' = Tail(uplink)
  PROVE  /\ Head(uplink) \in Cell /\ Head(uplink) = uplink[1] /\ 1 \in 1 .. Len(uplink)
         /\ uplink' \in Seq(Cell) /\ Len(uplink') = Len(uplink) - 1 /\ Len(uplink') <= LinkCap
         /\ \A i \in 1 .. Len(uplink') : i + 1 \in 1 .. Len(uplink) /\ uplink'[i] = uplink[i + 1]
         /\ \A i \in 1 .. Len(uplink) : i = 1 \/ (i - 1 \in 1 .. Len(uplink') /\ uplink'[i - 1] = uplink[i])
<1>1. uplink \in Seq(Cell) /\ LinkCap \in Nat /\ Len(uplink) <= LinkCap
  BY MuxAssumption DEF WireTypes
<1>2. QED
  BY <1>1, HeadAndTail, LenProperties

\* The demux loop drops entries of its map, with their senders.
LEMMA EntriesDropped ==
  ASSUME ServerTypes, CountInv, NEW ids, relay' = DropSenders(ids), streams' = streams,
         DOMAIN smap' \subseteq DOMAIN smap, \A id \in DOMAIN smap' : smap'[id] = smap[id],
         demux' \in [pc : {"read", "echo", "ended"}, echo : Ids \cup {0}],
         demux'.pc = "echo" => demux'.echo \in Ids
  PROVE  ServerTypes' /\ CountInv'
<1>1. /\ relay' \in Seq(RelayRec) /\ Len(relay') = Len(relay) /\ DOMAIN relay' = DOMAIN relay
      /\ \A r \in 1 .. Len(relay) :
           /\ relay'[r].phase = relay[r].phase
           /\ relay'[r].chan = relay[r].chan /\ relay'[r].held = relay[r].held
  BY SendersDropped
<1>2. ServerTypes'
  BY <1>1 DEF ServerTypes
<1>3. DOMAIN relay = 1 .. Len(relay)
  BY LenProperties DEF ServerTypes
<1>4. Live' = Live
  BY <1>1, <1>3 DEF Live, LiveRelay
<1>5. QED
  BY <1>2, <1>4 DEF CountInv

LEMMA DemuxTypes ==
  ASSUME MuxTypes, Demux \/ DemuxFails
  PROVE  MuxTypes'
<1>1. ClientTypes /\ WireTypes /\ ServerTypes /\ CountInv
  BY DEF MuxTypes
<1>2. ClientTypes'
  BY <1>1 DEF ClientTypes, clientVars, Demux, DemuxClose, DemuxEcho, DemuxRoute, DemuxOpen,
              DemuxRefuse, DemuxEnds, DemuxFails, DemuxReturns
<1>3. ASSUME uplink # <<>>, uplink' = Tail(uplink), UNCHANGED <<wire, downlink>>,
             lost' = lost \/ \E why \in Reasons : lost' = lost \cup {[cell |-> Head(uplink), why |-> why]}
      PROVE  WireTypes' /\ Head(uplink) \in Cell /\ Id(Head(uplink)) \in Ids
  <2>1. Head(uplink) \in Cell /\ uplink' \in Seq(Cell) /\ Len(uplink') <= LinkCap
    BY <1>1, <1>3, UplinkTaken
  <2>2. Id(Head(uplink)) \in Ids
    BY <2>1 DEF Cell, Id
  <2>3. lost' \subseteq [cell : Cell, why : Reasons]
    BY <1>1, <1>3, <2>1 DEF WireTypes
  <2>4. QED
    BY <1>1, <1>3, <2>1, <2>2, <2>3 DEF WireTypes
<1>4. CASE DemuxClose
  <2>1. WireTypes' /\ Id(Head(uplink)) \in Ids
    BY <1>3, <1>4 DEF DemuxClose, Reading
  <2>2. DOMAIN smap' \subseteq DOMAIN smap /\ \A id \in DOMAIN smap' : smap'[id] = smap[id]
    BY <1>4 DEF DemuxClose, Without, Restrict
  <2>3. ServerTypes' /\ CountInv'
    BY <1>1, <1>4, <2>1, <2>2, EntriesDropped DEF DemuxClose
  <2>4. QED
    BY <1>2, <2>1, <2>3 DEF MuxTypes
<1>5. CASE DemuxEcho
  <2>1. demux.echo \in Ids /\ Close(demux.echo) \in Cell
    BY <1>1, <1>5 DEF DemuxEcho, ServerTypes, Cell, Close
  <2>2. WireTypes'
    <3>1. CASE wire = "up"
      BY <1>1, <1>5, <2>1, <3>1, DownlinkTypes DEF DemuxEcho
    <3>2. CASE wire # "up"
      BY <1>1, <1>5, <3>2 DEF DemuxEcho, WireTypes
    <3>3. QED
      BY <3>1, <3>2
  <2>3. ServerTypes' /\ CountInv'
    BY <1>1, <1>5 DEF DemuxEcho, ServerTypes, CountInv, Live, LiveRelay
  <2>4. QED
    BY <1>2, <2>2, <2>3 DEF MuxTypes
<1>6. CASE DemuxRoute
  <2> DEFINE cell == Head(uplink)
             r == smap[Id(cell)]
  <2>1. r \in 1 .. Len(relay) /\ r \in DOMAIN relay
    BY <1>1, <1>6, LenProperties DEF DemuxRoute, ServerTypes
  <2>2. relay[r] \in RelayRec
    BY <1>1, <2>1, ElementOfSeq DEF ServerTypes
  <2>3. /\ relay[r].phase \in Reasons /\ Len(relay[r].chan) \in Nat /\ ChanCap \in Nat
    <3>1. relay[r].chan \in Seq(Cell)
      BY <2>2 DEF RelayRec, Phases
    <3>2. relay[r].phase \in Phases
      BY <2>2 DEF RelayRec, Phases
    <3>3. QED
      BY <3>1, <3>2, LenProperties, MuxAssumption DEF Reasons
  <2>4. WireTypes' /\ cell \in Cell
    <3>1. lost' = lost \/ \E why \in Reasons : lost' = lost \cup {[cell |-> cell, why |-> why]}
      <4>1. \/ lost' = lost
            \/ lost' = lost \cup {[cell |-> cell, why |-> "closed"]}
            \/ lost' = lost \cup {[cell |-> cell, why |-> relay[r].phase]}
        BY <1>6 DEF DemuxRoute
      <4>2. "closed" \in Reasons
        BY DEF Reasons
      <4>3. QED
        BY <2>3, <4>1, <4>2
    <3>2. uplink # <<>> /\ uplink' = Tail(uplink) /\ UNCHANGED <<wire, downlink>>
      BY <1>6 DEF DemuxRoute, Reading
    <3>3. QED
      BY <1>3, <3>1, <3>2
  <2>5. ServerTypes' /\ CountInv'
    <3>1. CASE ~Receiving(r)
      <4>1. smap' = Without(smap, Id(cell)) /\ relay' = DropSenders({Id(cell)})
            /\ UNCHANGED <<demux, streams>>
        BY <1>6, <3>1 DEF DemuxRoute
      <4>2. DOMAIN smap' \subseteq DOMAIN smap /\ \A id \in DOMAIN smap' : smap'[id] = smap[id]
        BY <4>1 DEF Without, Restrict
      <4>3. /\ demux' \in [pc : {"read", "echo", "ended"}, echo : Ids \cup {0}]
            /\ demux'.pc = "echo" => demux'.echo \in Ids
        BY <1>1, <4>1 DEF ServerTypes
      <4>4. QED
        BY <1>1, <4>1, <4>2, <4>3, EntriesDropped
    <3>2. CASE Receiving(r) /\ Len(relay[r].chan) >= ChanCap
      <4>1. UNCHANGED <<demux, smap, relay, streams>>
        BY <1>6, <3>2 DEF DemuxRoute
      <4>2. QED
        BY <1>1, <4>1 DEF ServerTypes, CountInv, Live, LiveRelay
    <3>3. CASE Receiving(r) /\ ~(Len(relay[r].chan) >= ChanCap)
      <4>1. relay' = [relay EXCEPT ![r].chan = Append(@, cell)] /\ UNCHANGED <<demux, smap, streams>>
        BY <1>6, <3>3 DEF DemuxRoute
      <4>2. Len(relay[r].chan) < ChanCap
        BY <2>3, <3>3
      <4>3. /\ relay' \in Seq(RelayRec) /\ Len(relay') = Len(relay)
            /\ \A s \in 1 .. Len(relay) :
                 /\ relay'[s].phase = relay[s].phase
                 /\ Len(relay'[s].chan) <= ChanCap /\ Len(relay'[s].held) <= HoldCap
        <5> HIDE DEF cell, r
        <5>1. QED
          BY <1>1, <2>1, <2>4, <4>1, <4>2, CellRouted
      <4>4. DOMAIN relay = 1 .. Len(relay) /\ DOMAIN relay' = 1 .. Len(relay)
        BY <1>1, <4>3, LenProperties DEF ServerTypes
      <4>5. Live' = Live
        BY <4>3, <4>4 DEF Live, LiveRelay
      <4>6. ServerTypes'
        BY <1>1, <4>1, <4>3 DEF ServerTypes
      <4>7. QED
        BY <1>1, <4>1, <4>5, <4>6 DEF CountInv
    <3>4. QED
      BY <3>1, <3>2, <3>3
  <2>6. QED
    BY <1>2, <2>4, <2>5 DEF MuxTypes
<1>7. CASE DemuxOpen
  <2>1. WireTypes' /\ Head(uplink) \in Cell /\ Id(Head(uplink)) \in Ids
    BY <1>3, <1>7 DEF DemuxOpen, NewStream, Reading
  <2>2. /\ relay' \in Seq(RelayRec) /\ Len(relay) \in Nat /\ Len(relay') = Len(relay) + 1
        /\ \A s \in 1 .. Len(relay) : relay'[s] = relay[s]
        /\ \A s \in 1 .. Len(relay') : s \in 1 .. Len(relay) \/ s = Len(relay')
        /\ Len(relay') \in 1 .. Len(relay')
        /\ relay'[Len(relay')].phase \in {"hold", "connect"}
        /\ Len(relay'[Len(relay')].chan) <= ChanCap /\ Len(relay'[Len(relay')].held) <= HoldCap
    <3>1. relay' = Append(relay, NewRelay(Head(uplink)))
      BY <1>7 DEF DemuxOpen
    <3>2. QED
      BY <1>1, <2>1, <3>1, RelayOpened
  <2>3. /\ DOMAIN smap' = DOMAIN smap \cup {Id(Head(uplink))}
        /\ \A id \in DOMAIN smap' :
             smap'[id] = IF id = Id(Head(uplink)) THEN Len(relay') ELSE smap[id]
    <3>1. smap' = With(smap, Id(Head(uplink)), Len(relay'))
      BY <1>7, <2>2 DEF DemuxOpen
    <3>2. QED
      BY <3>1 DEF With
  <2>4. ServerTypes'
    <3>1. \A id \in DOMAIN smap' : smap'[id] \in 1 .. Len(relay')
      BY <1>1, <2>2, <2>3 DEF ServerTypes
    <3>2. \A r \in 1 .. Len(relay') : Len(relay'[r].chan) <= ChanCap /\ Len(relay'[r].held) <= HoldCap
      BY <1>1, <2>2 DEF ServerTypes
    <3>3. demux' = demux
      BY <1>7 DEF DemuxOpen
    <3>4. QED
      BY <1>1, <2>1, <2>2, <2>3, <3>1, <3>2, <3>3 DEF ServerTypes
  <2>5. CountInv'
    <3>1. DOMAIN relay = 1 .. Len(relay) /\ DOMAIN relay' = 1 .. Len(relay')
      BY <1>1, <2>2, LenProperties DEF ServerTypes
    <3>2. IsFiniteSet(Live) /\ Len(relay') \notin Live
      <4>1. IsFiniteSet(1 .. Len(relay)) /\ Live \in SUBSET (1 .. Len(relay))
        BY <2>2, <3>1, FS_Interval DEF Live
      <4>2. QED
        <5>1. IsFiniteSet(Live)
          BY <4>1, FS_Subset
        <5>2. Len(relay') \notin 1 .. Len(relay)
          BY <2>2
        <5>3. QED
          BY <4>1, <5>1, <5>2
    <3>3. Live' = Live \cup {Len(relay')}
      BY <2>2, <3>1 DEF Live, LiveRelay
    <3>4. Cardinality(Live') = Cardinality(Live) + 1
      BY <3>2, <3>3, FS_AddElement
    <3>5. streams' = streams + 1 /\ streams < MaxGlobal /\ MaxGlobal \in Nat
      BY <1>7, MuxAssumption DEF DemuxOpen
    <3>6. QED
      BY <1>1, <3>4, <3>5 DEF CountInv
  <2>6. QED
    BY <1>2, <2>1, <2>4, <2>5 DEF MuxTypes
<1>8. CASE DemuxRefuse
  <2>1. WireTypes'
    <3>1. /\ uplink # <<>> /\ uplink' = Tail(uplink) /\ UNCHANGED <<wire, downlink>>
          /\ lost' = lost \cup {[cell |-> Head(uplink), why |-> "refused"]}
      BY <1>8 DEF DemuxRefuse, NewStream, Reading
    <3>2. "refused" \in Reasons
      BY DEF Reasons
    <3>3. QED
      BY <1>3, <3>1, <3>2
  <2>2. ServerTypes' /\ CountInv'
    BY <1>1, <1>8 DEF DemuxRefuse, ServerTypes, CountInv, Live, LiveRelay
  <2>3. QED
    BY <1>2, <2>1, <2>2 DEF MuxTypes
<1>9. CASE DemuxEnds \/ DemuxFails
  <2>1. WireTypes'
    <3>1. CASE UNCHANGED <<uplink, lost>>
      BY <1>1, <1>9, <3>1 DEF DemuxEnds, DemuxFails, DemuxReturns, WireTypes
    <3>2. CASE ~UNCHANGED <<uplink, lost>>
      <4>1. /\ uplink # <<>> /\ uplink' = Tail(uplink) /\ UNCHANGED <<wire, downlink>>
            /\ lost' = lost \cup {[cell |-> Head(uplink), why |-> "overload"]}
        BY <1>9, <3>2 DEF DemuxEnds, DemuxFails, DemuxReturns, NewStream, Reading
      <4>2. "overload" \in Reasons
        BY DEF Reasons
      <4>3. QED
        BY <1>3, <4>1, <4>2
    <3>3. QED
      BY <3>1, <3>2
  <2>2. DOMAIN smap' \subseteq DOMAIN smap /\ \A id \in DOMAIN smap' : smap'[id] = smap[id]
    <3>1. DOMAIN smap' = {}
      BY <1>9 DEF DemuxEnds, DemuxFails, DemuxReturns
    <3>2. QED
      BY <3>1
  <2>3. ServerTypes' /\ CountInv'
    <3>1. relay' = DropSenders(DOMAIN smap) /\ streams' = streams /\ demux' = [pc |-> "ended", echo |-> 0]
      BY <1>9 DEF DemuxEnds, DemuxFails, DemuxReturns
    <3>2. QED
      BY <1>1, <2>2, <3>1, EntriesDropped
  <2>4. QED
    BY <1>2, <2>1, <2>3 DEF MuxTypes
<1>10. QED
  BY <1>4, <1>5, <1>6, <1>7, <1>8, <1>9 DEF Demux

LEMMA MuxTypesInit == Init => MuxTypes
<1> SUFFICES ASSUME Init PROVE MuxTypes
  OBVIOUS
<1> USE MuxAssumption
<1>1. <<>> \in Seq(Cell) /\ Len(<<>>) = 0 /\ DOMAIN <<>> = {} /\ <<>> \in Seq(RelayRec)
  BY EmptySeq
<1>2. Idle \in CircRec /\ Idle.id = 0 /\ Idle.reader = "idle" /\ Idle.sent = 0 /\ Idle.down = <<>>
  BY <1>1 DEF Idle, CircRec
<1>3. ClientTypes
  <2>1. nextId \in 0 .. IdMod - 1 /\ cmap = <<>> /\ circ = [c \in Circuits |-> Idle]
    BY DEF Init
  <2>2. \A c \in Circuits : 0 <= MaxCells[c]
    BY DEF Circuits
  <2>3. QED
    BY <1>1, <1>2, <2>1, <2>2 DEF ClientTypes
<1>4. WireTypes
  BY <1>1 DEF Init, WireTypes
<1>5. ServerTypes
  BY <1>1 DEF Init, ServerTypes
<1>6. CountInv
  <2>1. Live = {}
    BY <1>1 DEF Init, Live
  <2>2. QED
    BY <2>1, FS_EmptySet DEF Init, CountInv
<1>7. QED
  BY <1>3, <1>4, <1>5, <1>6 DEF MuxTypes

LEMMA MuxTypesStep == MuxTypes /\ [Next]_vars => MuxTypes'
<1> SUFFICES ASSUME MuxTypes, [Next]_vars PROVE MuxTypes'
  OBVIOUS
<1>1. ASSUME UNCHANGED serverVars, ClientTypes', WireTypes' PROVE MuxTypes'
  BY <1>1 DEF MuxTypes, serverVars, ServerTypes, CountInv, Live, LiveRelay
<1>2. CASE \E c \in Circuits : Circuit(c)
  <2>1. PICK c \in Circuits : Circuit(c)
    BY <1>2
  <2>2. ClientTypes' /\ WireTypes'
    BY <2>1, CircuitTypes DEF MuxTypes
  <2>3. UNCHANGED serverVars
    BY <2>1 DEF Circuit, AddStream, AddStreamFails, TorRead, TorEof, TorReaderFails, TorWrite,
                TorWriterEnds
  <2>4. QED
    BY <1>1, <2>2, <2>3
<1>3. CASE Receive
  <2>1. ClientTypes' /\ WireTypes'
    BY <1>3, ReceiveTypes DEF MuxTypes
  <2>2. UNCHANGED serverVars
    BY <1>3 DEF Receive
  <2>3. QED
    BY <1>1, <2>1, <2>2
<1>4. CASE Demux \/ DemuxFails
  BY <1>4, DemuxTypes
<1>5. CASE WireBreaks
  <2>1. UNCHANGED <<nextId, cmap, circ, serverVars, lost>> /\ wire' = "down"
        /\ uplink' = <<>> /\ downlink' = <<>>
    BY <1>5 DEF WireBreaks
  <2>2. <<>> \in Seq(Cell) /\ Len(<<>>) <= LinkCap
    BY EmptySeq, MuxAssumption
  <2>3. ClientTypes' /\ WireTypes'
    BY <2>1, <2>2 DEF MuxTypes, ClientTypes, WireTypes
  <2>4. QED
    BY <1>1, <2>1, <2>3
<1>6. CASE \E r \in DOMAIN relay : RelayTask(r) \/ Bridge(r)
  BY <1>6, RelayTypes
<1>7. CASE UNCHANGED vars \/ ReceiveFails
  <2>1. ClientTypes' /\ WireTypes' /\ UNCHANGED serverVars
    BY <1>7 DEF ReceiveFails, vars, clientVars, MuxTypes, ClientTypes, WireTypes
  <2>2. QED
    BY <1>1, <2>1
<1>8. QED
  BY <1>2, <1>3, <1>4, <1>5, <1>6, <1>7 DEF Next

\* The types and the bounds hold throughout.
THEOREM TypesThroughout == Spec => []MuxTypes
<1>1. QED
  BY MuxTypesInit, MuxTypesStep, PTL DEF Spec

\* Every buffer of the wire, of its circuits and of its relays stays within its bound,
\* and stream ids are in range: add_stream hands out a free id that is not 0.
THEOREM BuffersBounded == Spec => []TypeOK
<1>1. ASSUME MuxTypes PROVE TypeOK
  <2>1. ClientTypes /\ WireTypes /\ ServerTypes /\ CountInv
    BY <1>1 DEF MuxTypes
  <2>2. \A c \in Circuits :
          /\ circ[c].id \in Ids \cup {0} /\ circ[c].sent \in 0 .. MaxCells[c]
          /\ circ[c].reader \in {"idle", "run", "done", "failed", "refused"}
          /\ circ[c].writer \in {"none", "run", "done"}
          /\ Len(circ[c].down) <= DownCap
    <3>1. ASSUME NEW c \in Circuits
          PROVE  /\ circ[c].id \in Ids \cup {0} /\ circ[c].sent \in 0 .. MaxCells[c]
                 /\ circ[c].reader \in {"idle", "run", "done", "failed", "refused"}
                 /\ circ[c].writer \in {"none", "run", "done"}
      <4>1. circ[c] \in CircRec /\ circ[c].sent <= MaxCells[c] /\ MaxCells[c] \in Nat
        BY <2>1, MuxAssumption DEF ClientTypes, Circuits
      <4>2. QED
        BY <4>1, MuxAssumption DEF CircRec, Ids
    <3>2. QED
      BY <2>1, <3>1 DEF ClientTypes
  <2>3. DOMAIN relay = 1 .. Len(relay)
    BY <2>1, LenProperties DEF ServerTypes
  <2>4. QED
    BY <2>1, <2>2, <2>3 DEF TypeOK, ClientTypes, WireTypes, ServerTypes, CountInv
<1>2. QED
  BY <1>1, TypesThroughout, PTL

\* GLOBAL_BRIDGE_STREAMS is the number of relay tasks that have not returned, however
\* they end, and never exceeds MAX_GLOBAL_BRIDGE_STREAMS.
THEOREM StreamsCounted == Spec => []StreamCountExact
<1>1. MuxTypes => StreamCountExact
  BY DEF MuxTypes, CountInv, Live, StreamCountExact
<1>2. QED
  BY <1>1, TypesThroughout, PTL

-----------------------------------------------------------------------------
(***************************************************************************)
(* Who gets which cell.  A stream is known by nothing but its 16-bit id,   *)
(* so that what follows holds as long as the allocator has not come round: *)
(* for a wire that carries fewer circuits in its life than there are ids   *)
(* (IdsLast).  Beyond it the code misroutes, as the run MuxIdReuse shows.  *)
(* Any caps and any failures are allowed, but for OneBridgePerCircuit,     *)
(* which bridge errors break.                                              *)
(***************************************************************************)

\* No id is handed out twice in the life of the wire.
IdsLast == NumCircuits < IdMod

-----------------------------------------------------------------------------
(* The invariants.                                                         *)

Assigned == {c \in Circuits : circ[c].id # 0}

\* Ids are handed out in order, one to a circuit; the map has each under its own.
AllocInv ==
  /\ \A c \in Circuits : circ[c].id <= Cardinality(Assigned)
  /\ Assigned # Circuits => nextId = Cardinality(Assigned) + 1
  /\ \A c, d \in Circuits : circ[c].id = circ[d].id /\ circ[c].id # 0 => c = d
  /\ \A c \in Circuits : /\ circ[c].reader = "idle" => circ[c].id = 0
                         /\ circ[c].id = 0 => circ[c].sent = 0
  /\ \A id \in DOMAIN cmap : circ[cmap[id]].id = id

\* A data cell of a circuit: it bears the circuit's id, and has been sent.
Data(cell) == /\ Source(cell) \in Circuits /\ Number(cell) \in 1 .. circ[Source(cell)].sent
              /\ circ[Source(cell)].id = Id(cell)

UplinkInv == \A i \in 1 .. Len(uplink) :
  IF IsClose(uplink[i]) THEN \E c \in Circuits : circ[c].id = Id(uplink[i]) ELSE Data(uplink[i])

\* A relay has the cells of the circuit it was opened for.
RelayInv == \A r \in 1 .. Len(relay) :
  /\ relay[r].owner \in Circuits /\ circ[relay[r].owner].id = relay[r].id
  /\ \A i \in 1 .. Len(Stream(r)) : Data(Stream(r)[i]) /\ Source(Stream(r)[i]) = relay[r].owner

MapInv == \A id \in DOMAIN smap : relay[smap[id]].id = id

\* A reply comes from a relay, under the relay's id.
DownlinkInv == \A i \in 1 .. Len(downlink) :
  IsClose(downlink[i]) \/ /\ Source(downlink[i]) \in 1 .. Len(relay)
                          /\ relay[Source(downlink[i])].id = Id(downlink[i])

For(cell, c) == Source(cell) \in 1 .. Len(relay) /\ relay[Source(cell)].owner = c

RepliesInv == \A c \in Circuits :
  /\ \A i \in 1 .. Len(circ[c].got) : For(circ[c].got[i], c)
  /\ \A i \in 1 .. Len(circ[c].down) : For(circ[c].down[i], c)

RouteInv == AllocInv /\ UplinkInv /\ RelayInv /\ MapInv /\ DownlinkInv /\ RepliesInv

Before(a, b) == Source(a) = Source(b) => Number(a) < Number(b)
Differ(a, b) == Source(a) = Source(b) => Number(a) # Number(b)

\* Within a stream and on the uplink the cells of a circuit are in order.
StreamsOrdered == \A r \in 1 .. Len(relay) : \A i, j \in 1 .. Len(Stream(r)) :
  i < j => Number(Stream(r)[i]) < Number(Stream(r)[j])

UplinkOrdered == \A i, j \in 1 .. Len(uplink) :
  i < j /\ ~IsClose(uplink[j]) => Before(uplink[i], uplink[j])

\* What has left the uplink is older than what is on it.
UplinkYounger == \A j \in 1 .. Len(uplink) : ~IsClose(uplink[j]) =>
  /\ \A r \in 1 .. Len(relay) : \A i \in 1 .. Len(Stream(r)) : Before(Stream(r)[i], uplink[j])
  /\ \A l \in lost : Before(l.cell, uplink[j])

\* No cell is in two streams, nor in a stream and dropped.
StreamsApart == \A r, s \in 1 .. Len(relay) : r # s =>
  \A i \in 1 .. Len(Stream(r)), j \in 1 .. Len(Stream(s)) : Differ(Stream(r)[i], Stream(s)[j])

LostApart == \A l \in lost : Data(l.cell) /\ \A r \in 1 .. Len(relay) :
  \A i \in 1 .. Len(Stream(r)) : Differ(l.cell, Stream(r)[i])

OrderInv == StreamsOrdered /\ UplinkOrdered /\ UplinkYounger /\ StreamsApart /\ LostApart

\* The n-th cell of circuit c.
Is(cell, c, n) == Source(cell) = c /\ Number(cell) = n

\* On a wire that is up every cell that was sent is somewhere.
PlacedInv == wire = "up" => \A c \in Circuits : \A n \in 1 .. circ[c].sent :
  \/ \E i \in 1 .. Len(uplink) : Is(uplink[i], c, n)
  \/ \E l \in lost : Is(l.cell, c, n)
  \/ \E r \in 1 .. Len(relay) : \E i \in 1 .. Len(Stream(r)) : Is(Stream(r)[i], c, n)

MuxInv == MuxTypes /\ RouteInv /\ OrderInv /\ PlacedInv

-----------------------------------------------------------------------------
(* The kinds of steps, by what they do to the cells of the circuits.       *)

SameRelays ==
  /\ Len(relay') = Len(relay)
  /\ \A r \in 1 .. Len(relay) : relay'[r].owner = relay[r].owner /\ relay'[r].id = relay[r].id

SameStreams == SameRelays /\ \A r \in 1 .. Len(relay) : Stream(r)' = Stream(r)

IdsKept == \A c \in Circuits : circ[c].id # 0 => circ'[c].id = circ[c].id

\* Nothing moves, unless the wire breaks.
Quiet ==
  /\ (uplink' = uplink /\ wire' = wire) \/ (uplink' = <<>> /\ wire' = "down")
  /\ SameStreams /\ lost' = lost
  /\ IdsKept /\ \A c \in Circuits : circ'[c].sent = circ[c].sent

\* Circuit c sends its next cell, or its sentinel.
Sends(c) ==
  /\ circ[c].id # 0 /\ IdsKept /\ SameStreams /\ lost' = lost /\ wire' = wire
  /\ \A d \in Circuits : d # c => circ'[d].sent = circ[d].sent
  /\ \/ /\ uplink' = Append(uplink, <<circ[c].id, c, circ[c].sent + 1>>)
        /\ circ'[c].sent = circ[c].sent + 1
     \/ uplink' = Append(uplink, Close(circ[c].id)) /\ circ'[c].sent = circ[c].sent

\* A cell leaves the uplink: a sentinel, a cell that is dropped, one for a relay that is
\* there, or the first one of a new relay.
Taken == uplink # <<>> /\ uplink' = Tail(uplink) /\ wire' = wire /\ circ' = circ

TakesClose == Taken /\ IsClose(Head(uplink)) /\ SameStreams /\ lost' = lost

Drops == /\ Taken /\ ~IsClose(Head(uplink)) /\ SameStreams
         /\ \E why : lost' = lost \cup {[cell |-> Head(uplink), why |-> why]}

Routes(r) ==
  /\ Taken /\ ~IsClose(Head(uplink)) /\ SameRelays /\ lost' = lost
  /\ relay[r].id = Id(Head(uplink))
  /\ \A s \in 1 .. Len(relay) :
       Stream(s)' = IF s = r THEN Append(Stream(r), Head(uplink)) ELSE Stream(s)

Opens ==
  /\ Taken /\ ~IsClose(Head(uplink)) /\ lost' = lost
  /\ Len(relay') = Len(relay) + 1
  /\ \A s \in 1 .. Len(relay) : relay'[s] = relay[s] /\ Stream(s)' = Stream(s)
  /\ relay'[Len(relay')].id = Id(Head(uplink)) /\ relay'[Len(relay')].owner = Source(Head(uplink))
  /\ \A s \in 1 .. Len(relay') : s = Len(relay) + 1 => Stream(s)' = <<Head(uplink)>>

LEMMA StreamTyped ==
  ASSUME ServerTypes, NEW r \in 1 .. Len(relay)
  PROVE  Stream(r) \in Seq(Cell) /\ Len(Stream(r)) \in Nat
<1>1. relay[r] \in RelayRec
  BY ElementOfSeq DEF ServerTypes
<1>2. relay[r].out \in Seq(Cell) /\ relay[r].held \in Seq(Cell) /\ relay[r].chan \in Seq(Cell)
  BY <1>1 DEF RelayRec
<1>3. relay[r].out \o relay[r].held \in Seq(Cell)
  BY <1>2, ConcatProperties
<1>4. Stream(r) \in Seq(Cell)
  BY <1>2, <1>3, ConcatProperties DEF Stream
<1>5. QED
  BY <1>4, LenProperties

LEMMA DemuxKinds ==
  ASSUME MuxTypes, MapInv, Demux \/ DemuxFails
  PROVE  Quiet \/ TakesClose \/ Drops \/ Opens \/ \E r \in 1 .. Len(relay) : Routes(r)
<1>1. ServerTypes /\ WireTypes
  BY DEF MuxTypes
<1>2. UNCHANGED <<circ, wire>>
  BY DEF clientVars, Demux, DemuxClose, DemuxEcho, DemuxRoute, DemuxOpen, DemuxRefuse, DemuxEnds, DemuxFails, DemuxReturns
<1>3. ASSUME relay' = relay PROVE SameStreams
  BY <1>3 DEF SameStreams, SameRelays, Stream
<1>4. ASSUME NEW ids, relay' = DropSenders(ids) PROVE SameStreams
  BY <1>1, <1>4, SendersDropped DEF SameStreams, SameRelays
<1>5. CASE DemuxClose
  BY <1>2, <1>4, <1>5 DEF DemuxClose, Reading, TakesClose, Taken
<1>6. CASE DemuxEcho
  BY <1>2, <1>3, <1>6 DEF DemuxEcho, Quiet, IdsKept
<1>7. CASE DemuxRefuse
  BY <1>2, <1>3, <1>7 DEF DemuxRefuse, NewStream, Reading, Drops, Taken
<1>8. CASE DemuxEnds \/ DemuxFails
  BY <1>2, <1>4, <1>8 DEF DemuxEnds, DemuxFails, DemuxReturns, NewStream, Reading, Drops, Taken, Quiet, IdsKept
<1>9. CASE DemuxOpen
  <2>1. Head(uplink) \in Cell
    BY <1>1, <1>9, UplinkTaken DEF DemuxOpen, NewStream, Reading
  <2>2. relay' = Append(relay, NewRelay(Head(uplink)))
    BY <1>9 DEF DemuxOpen
  <2>3. /\ Len(relay') = Len(relay) + 1
        /\ \A s \in 1 .. Len(relay) : relay'[s] = relay[s] /\ Stream(s)' = Stream(s)
        /\ relay'[Len(relay')].id = Id(Head(uplink))
        /\ relay'[Len(relay')].owner = Source(Head(uplink))
        /\ \A s \in 1 .. Len(relay') : s = Len(relay) + 1 => Stream(s)' = <<Head(uplink)>>
    BY <1>1, <2>1, <2>2, RelayOpened
  <2>4. Taken /\ ~IsClose(Head(uplink)) /\ lost' = lost
    BY <1>2, <1>9 DEF DemuxOpen, NewStream, Reading, Taken
  <2>5. QED
    BY <2>3, <2>4 DEF Opens
<1>10. CASE DemuxRoute
  <2> DEFINE cell == Head(uplink)
             r == smap[Id(cell)]
  <2>1. Taken /\ ~IsClose(cell) /\ cell \in Cell
    BY <1>1, <1>2, <1>10, UplinkTaken DEF DemuxRoute, Reading, Taken
  <2>2. r \in 1 .. Len(relay) /\ relay[r].id = Id(cell)
    BY <1>1, <1>10 DEF DemuxRoute, ServerTypes, MapInv
  <2>3. CASE ~Receiving(r)
    <3>1. relay' = DropSenders({Id(cell)}) /\ lost' = lost \cup {[cell |-> cell, why |-> "closed"]}
      BY <1>10, <2>3 DEF DemuxRoute
    <3>2. QED
      BY <1>4, <2>1, <3>1 DEF Drops
  <2>4. CASE Receiving(r) /\ Len(relay[r].chan) >= ChanCap
    <3>1. relay' = relay /\ lost' = lost \cup {[cell |-> cell, why |-> relay[r].phase]}
      BY <1>10, <2>4 DEF DemuxRoute
    <3>2. QED
      BY <1>3, <2>1, <3>1 DEF Drops
  <2>5. CASE Receiving(r) /\ ~(Len(relay[r].chan) >= ChanCap)
    <3>1. relay' = [relay EXCEPT ![r].chan = Append(@, cell)] /\ lost' = lost
      BY <1>10, <2>5 DEF DemuxRoute
    <3>2. Len(relay[r].chan) < ChanCap
      <4>1. relay[r] \in RelayRec
        BY <1>1, <2>2, ElementOfSeq DEF ServerTypes
      <4>2. relay[r].chan \in Seq(Cell)
        BY <4>1 DEF RelayRec
      <4>3. QED
        BY <2>5, <4>2, LenProperties, MuxAssumption
    <3> HIDE DEF cell, r
    <3>3. /\ Len(relay') = Len(relay)
          /\ \A s \in 1 .. Len(relay) :
               /\ relay'[s].id = relay[s].id /\ relay'[s].owner = relay[s].owner
               /\ Stream(s)' = IF s = r THEN Append(Stream(r), cell) ELSE Stream(s)
      BY <1>1, <2>1, <2>2, <3>1, <3>2, CellRouted
    <3>4. Routes(r)
      BY <2>1, <2>2, <3>1, <3>3 DEF Routes, SameRelays, cell
    <3>5. QED
      BY <2>2, <3>4
  <2>6. QED
    BY <2>3, <2>4, <2>5
<1>11. QED
  BY <1>5, <1>6, <1>7, <1>8, <1>9, <1>10 DEF Demux

-----------------------------------------------------------------------------
(* The ids.                                                                *)

\* The scan of add_stream stops at once: the id after the last is free.
LEMMA IdHandedOut ==
  ASSUME IdsLast, MuxTypes, AllocInv, NEW c \in Circuits, AddStream(c)
  PROVE  /\ circ[c].id = 0 /\ ScanFrom(nextId) = nextId
         /\ nextId = Cardinality(Assigned) + 1 /\ Cardinality(Assigned) \in Nat
         /\ Assigned' = Assigned \cup {c} /\ Cardinality(Assigned') = Cardinality(Assigned) + 1
         /\ Assigned' # Circuits => nextId' = nextId + 1
<1>1. ClientTypes /\ circ \in [Circuits -> CircRec] /\ nextId \in 0 .. IdMod - 1
  BY DEF MuxTypes, ClientTypes
<1>2. IdMod \in Nat /\ IdMod > 2 /\ NumCircuits \in Nat /\ NumCircuits < IdMod
  BY MuxAssumption DEF IdsLast
<1>3. /\ circ[c].id = 0 /\ \A d \in Circuits : d # c => circ'[d] = circ[d]
      /\ circ'[c].id = ScanFrom(nextId) /\ ScanFrom(nextId) \in Ids
      /\ nextId' = (ScanFrom(nextId) + 1) % IdMod
  <2>1. circ[c].reader = "idle" /\ circ'[c].id = ScanFrom(nextId) /\ ScanFrom(nextId) \in Ids
        /\ nextId' = (ScanFrom(nextId) + 1) % IdMod
    BY <1>1, StreamAdded
  <2>2. \A d \in Circuits : d # c => circ'[d] = circ[d]
    BY <1>1, StreamAdded
  <2>3. QED
    BY <2>1, <2>2 DEF AllocInv
<1>4. IsFiniteSet(Circuits) /\ Cardinality(Circuits) = NumCircuits
  BY <1>2, FS_Interval DEF Circuits
<1>5. Assigned \in SUBSET Circuits /\ c \notin Assigned
  BY <1>3 DEF Assigned
<1>6. IsFiniteSet(Assigned) /\ Cardinality(Assigned) \in Nat
  BY <1>4, <1>5, FS_Subset, FS_CardinalityType
<1>7. nextId = Cardinality(Assigned) + 1
  BY <1>5 DEF AllocInv
<1>8. nextId \notin DOMAIN cmap
  <2>1. SUFFICES ASSUME nextId \in DOMAIN cmap PROVE FALSE
    OBVIOUS
  <2>2. cmap[nextId] \in Circuits /\ circ[cmap[nextId]].id = nextId
    BY <1>1, <2>1 DEF AllocInv, ClientTypes
  <2>3. nextId <= Cardinality(Assigned)
    BY <2>2 DEF AllocInv
  <2>4. QED
    BY <1>6, <1>7, <2>3
<1>9. ScanFrom(nextId) = nextId
  <2> DEFINE steps == {k \in 0 .. IdMod - 1 : FreeId((nextId + k) % IdMod)}
             least == CHOOSE k \in steps : \A j \in steps : k <= j
  <2>1. 0 \in steps
    <3>1. (nextId + 0) % IdMod = nextId
      BY <1>1, <1>2
    <3>2. nextId # 0
      BY <1>6, <1>7
    <3>3. FreeId(nextId)
      BY <1>8, <3>2 DEF FreeId
    <3>4. QED
      BY <1>2, <3>1, <3>3
  <2>2. \A j \in steps : 0 <= j
    BY <1>2
  <2>3. least \in steps /\ \A j \in steps : least <= j
    BY <2>1, <2>2
  <2>4. ScanFrom(nextId) = (nextId + least) % IdMod
    BY DEF ScanFrom
  <2> HIDE DEF least
  <2>5. least = 0
    BY <1>2, <2>1, <2>3
  <2>6. QED
    BY <1>1, <1>2, <2>4, <2>5
<1>10. Assigned' = Assigned \cup {c}
  <2>1. circ'[c].id # 0
    BY <1>2, <1>3 DEF Ids
  <2>2. \A d \in Circuits : d # c => circ'[d] = circ[d]
    BY <1>1, <1>3
  <2>3. QED
    BY <2>1, <2>2 DEF Assigned, Circuits
<1>11. Cardinality(Assigned') = Cardinality(Assigned) + 1
  BY <1>5, <1>6, <1>10, FS_AddElement
<1>12. ASSUME Assigned' # Circuits PROVE nextId' = nextId + 1
  <2>1. Assigned' \in SUBSET Circuits
    BY <1>5, <1>10
  <2>2. Cardinality(Assigned') # NumCircuits /\ Cardinality(Assigned') <= NumCircuits
    BY <1>4, <1>12, <2>1, FS_Subset
  <2>3. nextId + 1 < IdMod /\ nextId + 1 \in Nat
    BY <1>2, <1>6, <1>7, <1>11, <2>2
  <2>4. QED
    BY <1>2, <1>3, <1>9, <2>3
<1>13. QED
  BY <1>3, <1>6, <1>7, <1>9, <1>10, <1>11, <1>12

\* The ids stay distinct, and the map under them.
LEMMA AllocStep ==
  ASSUME IdsLast, MuxTypes, AllocInv, [Next]_vars
  PROVE  AllocInv'
<1>1. ClientTypes /\ WireTypes /\ ServerTypes /\ circ \in [Circuits -> CircRec]
  BY DEF MuxTypes, ClientTypes
<1>2. ASSUME \A c \in Circuits : /\ circ'[c].id = circ[c].id
                                 /\ circ'[c].reader = "idle" => circ[c].reader = "idle"
                                 /\ circ[c].id = 0 => circ'[c].sent = 0,
             nextId' = nextId,
             DOMAIN cmap' \subseteq DOMAIN cmap, \A id \in DOMAIN cmap' : cmap'[id] = cmap[id]
      PROVE  AllocInv'
  <2>1. Assigned' = Assigned
    BY <1>2 DEF Assigned, Circuits
  <2>2. \A id \in DOMAIN cmap' : cmap[id] \in Circuits
    BY <1>1, <1>2 DEF ClientTypes
  <2>3. QED
    BY <1>2, <2>1, <2>2 DEF AllocInv, Circuits
<1>3. ASSUME circ' = circ, nextId' = nextId, cmap' = cmap PROVE AllocInv'
  BY <1>2, <1>3 DEF AllocInv
<1>4. CASE UNCHANGED vars \/ ReceiveFails
  BY <1>3, <1>4 DEF ReceiveFails, vars, clientVars
<1>5. CASE WireBreaks
  BY <1>3, <1>5 DEF WireBreaks
<1>6. CASE Demux \/ DemuxFails
  BY <1>3, <1>6 DEF clientVars, Demux, DemuxClose, DemuxEcho, DemuxRoute, DemuxOpen, DemuxRefuse,
                    DemuxEnds, DemuxFails, DemuxReturns
<1>7. CASE \E r \in DOMAIN relay : RelayTask(r) \/ Bridge(r)
  BY <1>1, <1>3, <1>7, RelayFrames DEF relayFrame, clientVars
<1>8. CASE Receive
  <2>1. DOMAIN cmap' \subseteq DOMAIN cmap /\ (\A id \in DOMAIN cmap' : cmap'[id] = cmap[id])
        /\ nextId' = nextId
    BY <1>1, <1>8, ReceiveSteps
  <2>2. \A d \in Circuits : circ'[d].id = circ[d].id /\ circ'[d].reader = circ[d].reader
                            /\ circ'[d].sent = circ[d].sent
    BY <1>1, <1>8, ReceiveSteps
  <2>3. QED
    BY <1>2, <2>1, <2>2 DEF AllocInv
<1>9. ASSUME NEW c \in Circuits, Circuit(c), ~AddStream(c) PROVE AllocInv'
  <2>1. PICK new : CircBecomes(c, new) /\ CircSends(c, new)
    BY <1>1, <1>9, CircuitSteps
  <2>2. nextId' = nextId /\ cmap' = cmap
    BY <1>1, <1>9, CircuitSteps
  <2>3. circ[c].id = 0 => new.sent = circ[c].sent
    <3>1. circ[c].reader = "run" => circ[c].id \in Ids
      BY <1>1 DEF ClientTypes
    <3>2. 0 \notin Ids
      BY MuxAssumption DEF Ids
    <3>3. QED
      BY <2>1, <3>1, <3>2 DEF CircSends
  <2>4. \A d \in Circuits : /\ circ'[d].id = circ[d].id
                            /\ circ'[d].reader = "idle" => circ[d].reader = "idle"
                            /\ circ[d].id = 0 => circ'[d].sent = 0
    BY <1>1, <2>1, <2>3 DEF CircBecomes, AllocInv
  <2>5. QED
    BY <1>2, <2>2, <2>4
<1>10. ASSUME NEW c \in Circuits, AddStream(c) PROVE AllocInv'
  <2>1. /\ circ[c].id = 0 /\ ScanFrom(nextId) = nextId
        /\ nextId = Cardinality(Assigned) + 1 /\ Cardinality(Assigned) \in Nat
        /\ Cardinality(Assigned') = Cardinality(Assigned) + 1
        /\ Assigned' # Circuits => nextId' = nextId + 1
    BY <1>10, IdHandedOut
  <2>2. /\ circ'[c].id = nextId /\ circ'[c].reader = "run"
        /\ DOMAIN cmap' = DOMAIN cmap \cup {nextId}
        /\ \A id \in DOMAIN cmap' : cmap'[id] = IF id = nextId THEN c ELSE cmap[id]
    BY <1>1, <1>10, <2>1, StreamAdded
  <2>3. \A d \in Circuits : d # c => circ'[d] = circ[d]
    BY <1>1, <1>10, StreamAdded
  <2>4. \A d \in Circuits : circ[d].id \in Nat /\ circ[d].id <= Cardinality(Assigned)
    BY <1>1, MuxAssumption DEF CircRec, AllocInv
  <2>5. \A d \in Circuits : circ'[d].id <= Cardinality(Assigned')
    BY <2>1, <2>2, <2>3, <2>4
  <2>6. \A d, e \in Circuits : circ'[d].id = circ'[e].id /\ circ'[d].id # 0 => d = e
    BY <2>1, <2>2, <2>3, <2>4 DEF AllocInv
  <2>7. \A id \in DOMAIN cmap' : circ'[cmap'[id]].id = id
    <3>1. ASSUME NEW id \in DOMAIN cmap' PROVE circ'[cmap'[id]].id = id
      <4>1. CASE id = nextId
        BY <2>2, <4>1
      <4>2. CASE id # nextId
        <5>1. id \in DOMAIN cmap /\ cmap'[id] = cmap[id] /\ cmap[id] \in Circuits
          BY <1>1, <2>2, <4>2 DEF ClientTypes
        <5>2. circ[cmap[id]].id = id /\ id # 0
          BY <1>1, <5>1, MuxAssumption DEF AllocInv, ClientTypes, Ids
        <5>3. cmap[id] # c
          BY <2>1, <5>2
        <5>4. QED
          BY <2>3, <5>1, <5>2, <5>3
      <4>3. QED
        BY <4>1, <4>2
    <3>2. QED
      BY <3>1
  <2>8. \A d \in Circuits : /\ circ'[d].reader = "idle" => circ'[d].id = 0
                            /\ circ'[d].id = 0 => circ'[d].sent = 0
    BY <2>1, <2>2, <2>3 DEF AllocInv
  <2>9. Assigned' # Circuits => nextId' = Cardinality(Assigned') + 1
    BY <2>1
  <2>10. QED
    BY <2>5, <2>6, <2>7, <2>8, <2>9 DEF AllocInv, Circuits
<1>11. QED
  BY <1>4, <1>5, <1>6, <1>7, <1>8, <1>9, <1>10 DEF Next

-----------------------------------------------------------------------------
(* Every step is of one of the kinds.                                      *)

\* Until it has an id a circuit sends nothing.
LEMMA CircuitKinds ==
  ASSUME IdsLast, MuxTypes, AllocInv, NEW c \in Circuits, Circuit(c)
  PROVE  Quiet \/ Sends(c)
<1>1. ClientTypes /\ WireTypes /\ circ \in [Circuits -> CircRec]
  BY DEF MuxTypes, ClientTypes
<1>2. ASSUME relay' = relay PROVE SameStreams
  BY <1>2 DEF SameStreams, SameRelays, Stream
<1>3. CASE AddStream(c)
  <2>1. /\ UNCHANGED <<wire, uplink, downlink, serverVars, lost>>
        /\ circ[c].reader = "idle" /\ circ'[c].sent = 0
    BY <1>1, <1>3, StreamAdded
  <2>2. \A d \in Circuits : d # c => circ'[d] = circ[d]
    BY <1>1, <1>3, StreamAdded
  <2>3. circ[c].id = 0 /\ circ[c].sent = 0
    BY <2>1 DEF AllocInv
  <2>4. QED
    BY <1>2, <2>1, <2>2, <2>3 DEF Quiet, IdsKept, serverVars
<1>4. CASE ~AddStream(c)
  <2>1. PICK new : CircBecomes(c, new) /\ CircSends(c, new)
    BY <1>1, <1>4, CircuitSteps
  <2>2. SameStreams /\ lost' = lost /\ wire' = wire
    BY <1>1, <1>2, <1>4, CircuitSteps DEF serverVars
  <2>3. circ'[c] = new /\ new.id = circ[c].id /\ \A d \in Circuits : d # c => circ'[d] = circ[d]
    BY <1>1, <2>1 DEF CircBecomes
  <2>4. IdsKept /\ \A d \in Circuits : d # c => circ'[d].sent = circ[d].sent
    BY <2>3 DEF IdsKept
  <2>5. CASE uplink' = uplink /\ new.sent = circ[c].sent
    BY <2>2, <2>3, <2>4, <2>5 DEF Quiet
  <2>6. CASE ~(uplink' = uplink /\ new.sent = circ[c].sent)
    <3>1. circ[c].id # 0
      BY <1>1, <2>1, <2>6, MuxAssumption DEF CircSends, ClientTypes, Ids
    <3>2. \/ /\ uplink' = Append(uplink, <<circ[c].id, c, circ[c].sent + 1>>)
             /\ new.sent = circ[c].sent + 1
          \/ uplink' = Append(uplink, Close(circ[c].id)) /\ new.sent = circ[c].sent
      BY <2>1, <2>6 DEF CircSends
    <3>3. QED
      BY <2>2, <2>3, <2>4, <3>1, <3>2 DEF Sends
  <2>7. QED
    BY <2>5, <2>6
<1>5. QED
  BY <1>3, <1>4

LEMMA StepKinds ==
  ASSUME IdsLast, MuxTypes, AllocInv, MapInv, [Next]_vars
  PROVE  \/ Quiet \/ TakesClose \/ Drops \/ Opens
         \/ \E c \in Circuits : Sends(c)
         \/ \E r \in 1 .. Len(relay) : Routes(r)
<1>1. ClientTypes /\ WireTypes /\ ServerTypes /\ circ \in [Circuits -> CircRec]
  BY DEF MuxTypes, ClientTypes
<1>2. ASSUME relay' = relay PROVE SameStreams
  BY <1>2 DEF SameStreams, SameRelays, Stream
<1>3. CASE UNCHANGED vars \/ ReceiveFails
  BY <1>2, <1>3 DEF ReceiveFails, vars, clientVars, serverVars, Quiet, IdsKept
<1>4. CASE WireBreaks
  BY <1>2, <1>4 DEF WireBreaks, serverVars, Quiet, IdsKept
<1>5. CASE Receive
  <2>1. UNCHANGED <<wire, uplink, lost>> /\ SameStreams
    BY <1>1, <1>2, <1>5, ReceiveSteps DEF serverVars
  <2>2. \A d \in Circuits : circ'[d].id = circ[d].id /\ circ'[d].sent = circ[d].sent
    BY <1>1, <1>5, ReceiveSteps
  <2>3. QED
    BY <2>1, <2>2 DEF Quiet, IdsKept
<1>6. CASE Demux \/ DemuxFails
  BY <1>6, DemuxKinds
<1>7. ASSUME NEW c \in Circuits, Circuit(c)
      PROVE  Quiet \/ Sends(c)
  BY <1>7, CircuitKinds
<1>8. ASSUME NEW r \in DOMAIN relay, RelayTask(r) \/ Bridge(r) PROVE Quiet
  <2>1. PICK new : Becomes(r, new)
    BY <1>1, <1>8, RelaySteps
  <2>2. SameStreams
    BY <1>1, <2>1, RelaysAfter DEF SameStreams, SameRelays
  <2>3. UNCHANGED <<circ, wire, uplink, lost>>
    BY <1>1, <1>8, RelayFrames DEF relayFrame, clientVars
  <2>4. QED
    BY <2>2, <2>3 DEF Quiet, IdsKept
<1>9. QED
  BY <1>3, <1>4, <1>5, <1>6, <1>7, <1>8 DEF Next

\* Whatever the kind: ids stay, more may be sent, and relays stay what they are.
Keeps ==
  /\ IdsKept /\ \A c \in Circuits : circ[c].sent <= circ'[c].sent
  /\ Len(relay) <= Len(relay')
  /\ \A r \in 1 .. Len(relay) : relay'[r].owner = relay[r].owner /\ relay'[r].id = relay[r].id

LEMMA AllKeep ==
  ASSUME MuxTypes, \/ Quiet \/ TakesClose \/ Drops \/ Opens
                   \/ \E c \in Circuits : Sends(c)
                   \/ \E r \in 1 .. Len(relay) : Routes(r)
  PROVE  Keeps
<1>1. \A c \in Circuits : circ[c].sent \in Nat
  BY DEF MuxTypes, ClientTypes, CircRec
<1>2. Len(relay) \in Nat
  BY LenProperties DEF MuxTypes, ServerTypes
<1>3. CASE Quiet
  BY <1>1, <1>2, <1>3 DEF Quiet, SameStreams, SameRelays, Keeps
<1>4. CASE TakesClose \/ Drops
  BY <1>1, <1>2, <1>4 DEF TakesClose, Drops, Taken, SameStreams, SameRelays, IdsKept, Keeps
<1>5. CASE Opens
  BY <1>1, <1>2, <1>5 DEF Opens, Taken, IdsKept, Keeps
<1>6. ASSUME NEW c \in Circuits, Sends(c) PROVE Keeps
  BY <1>1, <1>2, <1>6 DEF Sends, SameStreams, SameRelays, Keeps
<1>7. ASSUME NEW r \in 1 .. Len(relay), Routes(r) PROVE Keeps
  BY <1>1, <1>2, <1>7 DEF Routes, Taken, SameRelays, IdsKept, Keeps
<1>8. QED
  BY <1>3, <1>4, <1>5, <1>6, <1>7

\* The same of a cell and the next state.
DataNext(cell) == /\ Source(cell) \in Circuits
                  /\ Number(cell) \in 1 .. circ'[Source(cell)].sent
                  /\ circ'[Source(cell)].id = Id(cell)

\* A cell stays a data cell of its circuit.
LEMMA DataKept ==
  ASSUME MuxTypes, MuxTypes', Keeps
  PROVE  \A cell \in Cell : Data(cell) => DataNext(cell)
<1> SUFFICES ASSUME NEW cell \in Cell, Data(cell) PROVE DataNext(cell)
  OBVIOUS
<1> DEFINE c == Source(cell)
<1>1. c \in Circuits /\ Number(cell) \in 1 .. circ[c].sent /\ circ[c].id = Id(cell)
  BY DEF Data
<1>2. circ[c].id # 0
  BY <1>1, MuxAssumption DEF Cell, Id, Ids
<1>3. circ'[c].id = Id(cell) /\ circ[c].sent <= circ'[c].sent
  BY <1>1, <1>2 DEF Keeps, IdsKept
<1>4. circ[c].sent \in Nat /\ circ'[c].sent \in Nat
  BY <1>1 DEF MuxTypes, ClientTypes, CircRec
<1>5. QED
  BY <1>1, <1>3, <1>4 DEF DataNext

-----------------------------------------------------------------------------
(* Routing.                                                                *)

\* What may be on the uplink, and on the uplink of the next state.
Good(cell) == IF IsClose(cell) THEN \E c \in Circuits : circ[c].id = Id(cell) ELSE Data(cell)
GoodNext(cell) ==
  IF IsClose(cell) THEN \E c \in Circuits : circ'[c].id = Id(cell) ELSE DataNext(cell)

\* What is on the uplink comes from the circuits.
LEMMA UplinkStep ==
  ASSUME MuxTypes, MuxTypes', UplinkInv, Keeps,
         \/ Quiet \/ TakesClose \/ Drops \/ Opens
         \/ \E c \in Circuits : Sends(c)
         \/ \E r \in 1 .. Len(relay) : Routes(r)
  PROVE  UplinkInv'
<1>1. WireTypes /\ ClientTypes /\ \A i \in 1 .. Len(uplink) : uplink[i] \in Cell
  BY ElementOfSeq DEF MuxTypes, WireTypes
<1>2. \A cell \in Cell : Good(cell) => GoodNext(cell)
  <2>1. \A cell \in Cell : Data(cell) => DataNext(cell)
    BY DataKept
  <2>2. \A cell \in Cell : Id(cell) # 0
    BY MuxAssumption DEF Cell, Ids, Id
  <2>3. \A c \in Circuits : circ[c].id # 0 => circ'[c].id = circ[c].id
    BY DEF Keeps, IdsKept
  <2>4. QED
    BY <2>1, <2>2, <2>3 DEF Good, GoodNext
<1>3. \A i \in 1 .. Len(uplink) : Good(uplink[i])
  BY DEF UplinkInv, Good
<1>4. \A i \in 1 .. Len(uplink) : GoodNext(uplink[i])
  BY <1>1, <1>2, <1>3
<1>5. SUFFICES ASSUME NEW i \in 1 .. Len(uplink') PROVE GoodNext(uplink'[i])
  BY DEF UplinkInv, Data, IsClose, Number, Source, Id, Circuits, GoodNext, DataNext
<1>6. CASE Quiet
  <2>1. CASE uplink' = <<>>
    BY <2>1
  <2>2. QED
    BY <1>4, <1>6, <2>1 DEF Quiet
<1>7. CASE Taken
  <2>1. i + 1 \in 1 .. Len(uplink) /\ uplink'[i] = uplink[i + 1]
    BY <1>1, <1>7, UplinkTaken DEF Taken
  <2>2. QED
    BY <1>4, <2>1
<1>8. ASSUME NEW c \in Circuits, Sends(c) PROVE GoodNext(uplink'[i])
  <2> DEFINE cell == <<circ[c].id, c, circ[c].sent + 1>>
  <2>1. /\ circ[c].id \in Ids /\ circ[c].sent \in Nat /\ c \in Nat /\ circ'[c].id = circ[c].id
    BY <1>1, <1>8, MuxAssumption, SMTT(30) DEF ClientTypes, CircRec, Sends, IdsKept, Ids, Circuits
  <2>2. CASE uplink' = Append(uplink, cell) /\ circ'[c].sent = circ[c].sent + 1
    <3>1. cell \in Cell
      BY <2>1 DEF Cell
    <3>2. i \in 1 .. Len(uplink) + 1 => \/ uplink'[i] = cell
                                        \/ i \in 1 .. Len(uplink) /\ uplink'[i] = uplink[i]
      <4> HIDE DEF cell
      <4>1. QED
        BY <1>1, <2>2, <3>1, Appended DEF WireTypes
    <3>3. Len(uplink') = Len(uplink) + 1
      <4> HIDE DEF cell
      <4>1. QED
        BY <1>1, <2>2, <3>1, Appended DEF WireTypes
    <3>4. GoodNext(cell)
      BY <2>1, <2>2 DEF GoodNext, DataNext, IsClose, Number, Source, Id
    <3>5. QED
      BY <1>4, <3>2, <3>3, <3>4
  <2>3. CASE uplink' = Append(uplink, Close(circ[c].id))
    <3>1. Close(circ[c].id) \in Cell
      BY <2>1 DEF Cell, Close
    <3>2. /\ Len(uplink') = Len(uplink) + 1
          /\ i \in 1 .. Len(uplink) + 1 => \/ uplink'[i] = Close(circ[c].id)
                                           \/ i \in 1 .. Len(uplink) /\ uplink'[i] = uplink[i]
      BY <1>1, <2>3, <3>1, Appended DEF WireTypes
    <3>3. GoodNext(Close(circ[c].id))
      BY <2>1 DEF Close, GoodNext, IsClose, Number, Id
    <3>4. QED
      BY <1>4, <3>2, <3>3
  <2>4. QED
    BY <1>8, <2>2, <2>3 DEF Sends
<1>9. QED
  BY <1>6, <1>7, <1>8 DEF TakesClose, Drops, Opens, Routes

\* The circuit a relay was opened for is the one its id was given to.
LEMMA OneOwner ==
  ASSUME MuxTypes, AllocInv, RelayInv, NEW r \in 1 .. Len(relay), NEW c \in Circuits,
         circ[c].id = relay[r].id
  PROVE  c = relay[r].owner
<1>1. relay[r] \in RelayRec
  BY ElementOfSeq DEF MuxTypes, ServerTypes
<1>2. circ[c].id # 0 /\ relay[r].owner \in Circuits /\ circ[relay[r].owner].id = circ[c].id
  BY <1>1, MuxAssumption DEF RelayRec, Ids, RelayInv
<1>3. QED
  BY <1>2 DEF AllocInv

\* A cell that leaves the uplink is what its circuit sent.
LEMMA TakenData ==
  ASSUME MuxTypes, MuxTypes', UplinkInv, Taken, ~IsClose(Head(uplink))
  PROVE  Head(uplink) \in Cell /\ Data(Head(uplink)) /\ DataNext(Head(uplink))
<1> DEFINE cell == Head(uplink)
<1>1. cell \in Cell /\ cell = uplink[1] /\ 1 \in 1 .. Len(uplink)
  BY UplinkTaken DEF MuxTypes, Taken
<1>2. Data(cell) /\ circ' = circ
  BY <1>1 DEF UplinkInv, Taken
<1> HIDE DEF cell
<1>3. DataNext(cell)
  BY <1>2 DEF Data, DataNext
<1>4. QED
  BY <1>1, <1>2, <1>3 DEF cell

LEMMA RelayStep ==
  ASSUME MuxTypes, MuxTypes', AllocInv, UplinkInv, RelayInv, Keeps,
         \/ Quiet \/ TakesClose \/ Drops \/ Opens
         \/ \E c \in Circuits : Sends(c)
         \/ \E r \in 1 .. Len(relay) : Routes(r)
  PROVE  RelayInv'
<1> DEFINE Its(r, cell) == DataNext(cell) /\ Source(cell) = relay'[r].owner
<1>1. WireTypes /\ ClientTypes /\ ServerTypes
  BY DEF MuxTypes
<1>2. \A cell \in Cell : Data(cell) => DataNext(cell)
  BY DataKept
<1>3. ASSUME NEW r \in 1 .. Len(relay)
      PROVE  /\ relay'[r].owner \in Circuits /\ circ'[relay'[r].owner].id = relay'[r].id
             /\ Stream(r) \in Seq(Cell)
             /\ \A i \in 1 .. Len(Stream(r)) : Its(r, Stream(r)[i])
  <2>1. relay[r] \in RelayRec
    BY <1>1, ElementOfSeq DEF ServerTypes
  <2>2. Stream(r) \in Seq(Cell)
    BY <1>1, StreamTyped
  <2>3. \A i \in 1 .. Len(Stream(r)) : Stream(r)[i] \in Cell
    BY <2>2, ElementOfSeq
  <2>4. relay'[r].owner = relay[r].owner /\ relay'[r].id = relay[r].id
    BY DEF Keeps
  <2>5. circ[relay[r].owner].id # 0
    BY <2>1, MuxAssumption DEF RelayInv, RelayRec, Ids
  <2>6. \A i \in 1 .. Len(Stream(r)) : Its(r, Stream(r)[i])
    BY <1>2, <2>3, <2>4 DEF RelayInv
  <2>7. QED
    BY <2>2, <2>4, <2>5, <2>6 DEF RelayInv, Keeps, IdsKept
<1>4. SUFFICES ASSUME NEW r \in 1 .. Len(relay'), NEW new, new = Stream(r)'
               PROVE  /\ relay'[r].owner \in Circuits /\ circ'[relay'[r].owner].id = relay'[r].id
                      /\ \A i \in 1 .. Len(new) : Its(r, new[i])
  BY DEF RelayInv, Data, DataNext, Number, Source, Id
<1>5. CASE SameStreams
  BY <1>3, <1>4, <1>5 DEF SameStreams, SameRelays
<1>6. CASE Opens
  <2>1. Head(uplink) \in Cell /\ DataNext(Head(uplink))
    BY <1>6, TakenData DEF Opens
  <2>2. Len(relay) \in Nat /\ Len(relay') = Len(relay) + 1
    BY <1>1, <1>6, LenProperties DEF ServerTypes, Opens
  <2>3. CASE r \in 1 .. Len(relay)
    <3>1. new = Stream(r)
      BY <1>4, <1>6, <2>3 DEF Opens
    <3>2. QED
      BY <1>3, <2>3, <3>1
  <2>4. CASE r = Len(relay')
    <3>1. new = <<Head(uplink)>>
      BY <1>4, <1>6, <2>2, <2>4 DEF Opens
    <3>2. relay'[r].id = Id(Head(uplink)) /\ relay'[r].owner = Source(Head(uplink))
      BY <1>6, <2>4 DEF Opens
    <3>3. \A i \in 1 .. Len(new) : new[i] = Head(uplink)
      BY <3>1
    <3>4. QED
      BY <2>1, <3>2, <3>3 DEF DataNext
  <2>5. QED
    BY <2>2, <2>3, <2>4
<1>7. ASSUME NEW s \in 1 .. Len(relay), Routes(s)
      PROVE  /\ relay'[r].owner \in Circuits /\ circ'[relay'[r].owner].id = relay'[r].id
             /\ \A i \in 1 .. Len(new) : Its(r, new[i])
  <2>1. Head(uplink) \in Cell /\ Data(Head(uplink)) /\ DataNext(Head(uplink))
    BY <1>7, TakenData DEF Routes
  <2>2. r \in 1 .. Len(relay)
    BY <1>7 DEF Routes, SameRelays
  <2>3. CASE r # s
    <3>1. new = Stream(r)
      BY <1>4, <1>7, <2>2, <2>3 DEF Routes
    <3>2. QED
      BY <1>3, <2>2, <3>1
  <2>4. CASE r = s
    <3>1. new = Append(Stream(r), Head(uplink))
      BY <1>4, <1>7, <2>2, <2>4 DEF Routes
    <3>2. Source(Head(uplink)) \in Circuits /\ circ[Source(Head(uplink))].id = relay[r].id
      BY <1>7, <2>1, <2>4 DEF Data, Routes
    <3>3. Source(Head(uplink)) = relay'[r].owner
      BY <2>2, <3>2, OneOwner DEF Keeps
    <3>4. \A i \in 1 .. Len(new) : \/ new[i] = Head(uplink)
                                   \/ i \in 1 .. Len(Stream(r)) /\ new[i] = Stream(r)[i]
      BY <1>3, <2>1, <2>2, <3>1, Appended
    <3>5. QED
      BY <1>3, <2>1, <2>2, <3>3, <3>4
  <2>5. QED
    BY <2>3, <2>4
<1>8. QED
  BY <1>5, <1>6, <1>7 DEF TakesClose, Drops, Quiet, Sends

\* The demux loop enters a relay under the id it was opened for.
LEMMA MapStep ==
  ASSUME MuxTypes, MapInv, Keeps, [Next]_vars
  PROVE  MapInv'
<1>1. ServerTypes /\ WireTypes /\ ClientTypes /\ Len(relay) \in Nat
  BY LenProperties DEF MuxTypes, ServerTypes
<1>2. ASSUME DOMAIN smap' \subseteq DOMAIN smap, \A id \in DOMAIN smap' : smap'[id] = smap[id]
      PROVE  MapInv'
  BY <1>1, <1>2 DEF MapInv, Keeps, ServerTypes
<1>3. ASSUME smap' = smap PROVE MapInv'
  BY <1>2, <1>3
<1>4. CASE UNCHANGED vars \/ ReceiveFails
  BY <1>3, <1>4 DEF ReceiveFails, vars, serverVars
<1>5. CASE WireBreaks \/ Receive
  BY <1>3, <1>5 DEF WireBreaks, Receive, serverVars
<1>6. ASSUME NEW c \in Circuits, Circuit(c) PROVE MapInv'
  BY <1>3, <1>6 DEF Circuit, AddStream, AddStreamFails, TorRead, TorEof, TorReaderFails, TorWrite,
                    TorWriterEnds, serverVars
<1>7. ASSUME NEW r \in DOMAIN relay, RelayTask(r) \/ Bridge(r) PROVE MapInv'
  BY <1>1, <1>3, <1>7, RelayFrames DEF relayFrame
<1>8. CASE Demux \/ DemuxFails
  <2>1. ASSUME NEW id, smap' = Without(smap, id) PROVE MapInv'
    BY <1>2, <2>1 DEF Without, Restrict
  <2>2. CASE DemuxClose
    BY <2>1, <2>2 DEF DemuxClose
  <2>3. CASE DemuxEcho \/ DemuxRefuse
    BY <1>3, <2>3 DEF DemuxEcho, DemuxRefuse
  <2>4. CASE DemuxRoute
    BY <1>3, <2>1, <2>4 DEF DemuxRoute
  <2>5. CASE DemuxEnds \/ DemuxFails
    BY <1>2, <2>5 DEF DemuxEnds, DemuxFails, DemuxReturns
  <2>6. CASE DemuxOpen
    <3> DEFINE id == Id(Head(uplink))
               r == Len(relay) + 1
    <3>1. smap' = With(smap, id, r) /\ relay' = Append(relay, NewRelay(Head(uplink)))
      BY <2>6 DEF DemuxOpen
    <3>2. Head(uplink) \in Cell
      BY <1>1, <2>6, UplinkTaken DEF DemuxOpen, NewStream, Reading
    <3>3. relay'[r].id = id
      BY <1>1, <3>1, <3>2, RelayOpened
    <3>4. ASSUME NEW j \in DOMAIN smap' PROVE relay'[smap'[j]].id = j
      <4>1. CASE j = id
        <5>1. smap'[j] = r
          BY <3>1, <4>1 DEF With
        <5>2. QED
          BY <3>3, <4>1, <5>1
      <4>2. CASE j # id
        <5>1. j \in DOMAIN smap /\ smap'[j] = smap[j]
          BY <3>1, <4>2 DEF With
        <5>2. QED
          BY <1>1, <5>1 DEF MapInv, Keeps, ServerTypes
      <4>3. QED
        BY <4>1, <4>2
    <3>5. QED
      BY <3>4 DEF MapInv
  <2>7. QED
    BY <1>8, <2>2, <2>3, <2>4, <2>5, <2>6 DEF Demux
<1>9. QED
  BY <1>4, <1>5, <1>6, <1>7, <1>8 DEF Next

\* A cell on the downlink stays the reply of its relay.
Reply(cell) == IsClose(cell) \/ /\ Source(cell) \in 1 .. Len(relay)
                                /\ relay[Source(cell)].id = Id(cell)
ReplyNext(cell) == IsClose(cell) \/ /\ Source(cell) \in 1 .. Len(relay')
                                    /\ relay'[Source(cell)].id = Id(cell)

LEMMA DownlinkStep ==
  ASSUME MuxTypes, MuxTypes', DownlinkInv, Keeps, [Next]_vars
  PROVE  DownlinkInv'
<1>1. ServerTypes /\ WireTypes /\ ClientTypes /\ Len(relay) \in Nat /\ Len(relay') \in Nat
  BY LenProperties DEF MuxTypes, ServerTypes
<1>2. \A i \in 1 .. Len(downlink) : ReplyNext(downlink[i])
  <2>1. \A i \in 1 .. Len(downlink) : Reply(downlink[i])
    BY DEF DownlinkInv, Reply
  <2>2. ASSUME NEW i \in 1 .. Len(downlink) PROVE ReplyNext(downlink[i])
    <3> DEFINE cell == downlink[i]
    <3>1. Reply(cell)
      BY <2>1
    <3> HIDE DEF cell
    <3>2. ReplyNext(cell)
      BY <1>1, <3>1 DEF Keeps, Reply, ReplyNext
    <3>3. QED
      BY <3>2 DEF cell
  <2>3. QED
    BY <2>2
<1>3. SUFFICES ASSUME NEW i \in 1 .. Len(downlink') PROVE ReplyNext(downlink'[i])
  BY DEF DownlinkInv, ReplyNext, Source, Id, IsClose, Number
<1>4. CASE downlink' = downlink
  BY <1>2, <1>4
<1>5. CASE UNCHANGED vars \/ ReceiveFails
  BY <1>4, <1>5 DEF ReceiveFails, vars
<1>6. CASE WireBreaks
  <2>1. downlink' = <<>>
    BY <1>6 DEF WireBreaks
  <2>2. QED
    BY <2>1
<1>7. CASE Receive
  <2>1. downlink # <<>> /\ downlink' = Tail(downlink)
    BY <1>7 DEF Receive
  <2>2. i + 1 \in 1 .. Len(downlink) /\ downlink'[i] = downlink[i + 1]
    BY <1>1, <2>1, HeadAndTail DEF WireTypes
  <2>3. QED
    BY <1>2, <2>2
<1>8. ASSUME NEW c \in Circuits, Circuit(c) PROVE ReplyNext(downlink'[i])
  BY <1>4, <1>8 DEF Circuit, AddStream, AddStreamFails, TorRead, TorEof, TorReaderFails, TorWrite,
                    TorWriterEnds
<1>9. ASSUME NEW cell \in Cell, downlink' = Append(downlink, cell), ReplyNext(cell)
      PROVE  ReplyNext(downlink'[i])
  <2>1. \/ downlink'[i] = cell
        \/ i \in 1 .. Len(downlink) /\ downlink'[i] = downlink[i]
    BY <1>1, <1>9, Appended DEF WireTypes
  <2>2. QED
    BY <1>2, <1>9, <2>1
<1>10. ASSUME NEW id \in Ids, downlink' = Append(downlink, Close(id))
       PROVE  ReplyNext(downlink'[i])
  <2>1. Close(id) \in Cell /\ ReplyNext(Close(id))
    BY DEF Close, Cell, ReplyNext, IsClose, Number
  <2>2. QED
    BY <1>9, <1>10, <2>1
<1>11. CASE Demux \/ DemuxFails
  <2>1. CASE DemuxEcho
    <3>1. demux.echo \in Ids /\ (downlink' = downlink \/ downlink' = Append(downlink, Close(demux.echo)))
      BY <1>1, <2>1 DEF DemuxEcho, ServerTypes
    <3>2. QED
      BY <1>4, <1>10, <3>1
  <2>2. CASE ~DemuxEcho
    BY <1>4, <1>11, <2>2 DEF Demux, DemuxClose, DemuxRoute, DemuxOpen, DemuxRefuse, DemuxEnds, DemuxFails, DemuxReturns
  <2>3. QED
    BY <2>1, <2>2
<1>12. ASSUME NEW r \in DOMAIN relay, RelayTask(r) \/ Bridge(r) PROVE ReplyNext(downlink'[i])
  <2>1. r \in 1 .. Len(relay) /\ r \in Nat /\ relay[r].id \in Ids
    <3>1. r \in 1 .. Len(relay)
      BY <1>1, LenProperties DEF ServerTypes
    <3>2. relay[r] \in RelayRec
      BY <1>1, <3>1, ElementOfSeq DEF ServerTypes
    <3>3. QED
      BY <1>1, <3>1, <3>2 DEF RelayRec
  <2>2. CASE downlink' = Append(downlink, Close(relay[r].id))
    BY <1>10, <2>1, <2>2
  <2>3. ASSUME NEW n \in Nat \ {0}, downlink' = Append(downlink, <<relay[r].id, r, n>>)
        PROVE  ReplyNext(downlink'[i])
    <3>1. <<relay[r].id, r, n>> \in Cell
      BY <2>1 DEF Cell
    <3>2. ReplyNext(<<relay[r].id, r, n>>)
      BY <1>1, <2>1 DEF Keeps, ReplyNext, Source, Id
    <3> DEFINE cell == <<relay[r].id, r, n>>
    <3> HIDE DEF cell
    <3>3. cell \in Cell /\ ReplyNext(cell) /\ downlink' = Append(downlink, cell)
      BY <2>3, <3>1, <3>2 DEF cell
    <3>4. QED
      BY <1>9, <3>3
  <2>4. QED
    BY <1>1, <1>4, <1>12, <2>2, <2>3, RelayFrames
<1>13. QED
  BY <1>5, <1>6, <1>7, <1>8, <1>11, <1>12 DEF Next

\* What a circuit has got, or has waiting, comes from relays opened for it.
ForNext(cell, c) == Source(cell) \in 1 .. Len(relay') /\ relay'[Source(cell)].owner = c

LEMMA RepliesStep ==
  ASSUME MuxTypes, MuxTypes', AllocInv, RelayInv, DownlinkInv, RepliesInv, Keeps, [Next]_vars
  PROVE  RepliesInv'
<1>1. /\ ServerTypes /\ WireTypes /\ ClientTypes /\ Len(relay) \in Nat /\ Len(relay') \in Nat
      /\ circ \in [Circuits -> CircRec]
  BY LenProperties DEF MuxTypes, ServerTypes, ClientTypes
<1>2. \A c \in Circuits : \A cell : For(cell, c) => ForNext(cell, c)
  BY <1>1 DEF Keeps, For, ForNext
<1>3. \A c \in Circuits : /\ \A i \in 1 .. Len(circ[c].got) : ForNext(circ[c].got[i], c)
                          /\ \A i \in 1 .. Len(circ[c].down) : ForNext(circ[c].down[i], c)
  BY <1>2 DEF RepliesInv
<1>4. SUFFICES ASSUME NEW d \in Circuits
               PROVE  /\ \A i \in 1 .. Len(circ'[d].got) : ForNext(circ'[d].got[i], d)
                      /\ \A i \in 1 .. Len(circ'[d].down) : ForNext(circ'[d].down[i], d)
  BY DEF RepliesInv, For, ForNext, Source, Circuits
<1>5. CASE circ'[d] = circ[d]
  BY <1>3, <1>5
<1>6. CASE UNCHANGED vars \/ ReceiveFails \/ WireBreaks
  BY <1>5, <1>6 DEF ReceiveFails, vars, clientVars, WireBreaks
<1>7. CASE Demux \/ DemuxFails
  BY <1>5, <1>7 DEF clientVars, Demux, DemuxClose, DemuxEcho, DemuxRoute, DemuxOpen, DemuxRefuse,
                    DemuxEnds, DemuxFails, DemuxReturns
<1>8. CASE \E r \in DOMAIN relay : RelayTask(r) \/ Bridge(r)
  BY <1>1, <1>5, <1>8, RelayFrames DEF relayFrame, clientVars
<1>9. CASE Receive /\ circ'[d] # circ[d]
  <2>1. Delivered /\ downlink # <<>>
    BY <1>1, <1>9, ReceiveSteps
  <2> DEFINE cell == Head(downlink)
             c == cmap[Id(cell)]
  <2>2. /\ c \in Circuits /\ circ[c].id = Id(cell) /\ ~IsClose(cell)
        /\ circ' = [circ EXCEPT ![c].down = Append(@, cell)]
    BY <1>1, <2>1 DEF Delivered, ClientTypes, AllocInv
  <2>3. cell \in Cell /\ cell = downlink[1] /\ 1 \in 1 .. Len(downlink)
    BY <1>1, <2>1, HeadAndTail DEF WireTypes
  <2>4. Source(cell) \in 1 .. Len(relay) /\ relay[Source(cell)].id = Id(cell)
    BY <2>2, <2>3 DEF DownlinkInv
  <2>5. c = relay[Source(cell)].owner
    BY <2>2, <2>4, OneOwner
  <2>6. ForNext(cell, c)
    BY <1>2, <2>2, <2>4, <2>5 DEF For
  <2> HIDE DEF cell, c
  <2>7. d = c
    BY <1>1, <1>9, <2>2
  <2>8. circ'[c].got = circ[c].got /\ circ'[c].down = Append(circ[c].down, cell)
        /\ circ[c].down \in Seq(Cell)
    BY <1>1, <2>2 DEF CircRec
  <2>9. \A i \in 1 .. Len(circ'[c].down) : \/ circ'[c].down[i] = cell
                                          \/ /\ i \in 1 .. Len(circ[c].down)
                                             /\ circ'[c].down[i] = circ[c].down[i]
    BY <2>3, <2>8, Appended
  <2>10. QED
    BY <1>3, <2>6, <2>7, <2>8, <2>9
<1>10. ASSUME NEW c \in Circuits, Circuit(c), circ'[d] # circ[d]
       PROVE  /\ \A i \in 1 .. Len(circ'[d].got) : ForNext(circ'[d].got[i], d)
              /\ \A i \in 1 .. Len(circ'[d].down) : ForNext(circ'[d].down[i], d)
  <2>1. CASE AddStream(c)
    <3>1. c = d
      BY <1>1, <1>10, <2>1, StreamAdded
    <3>2. circ'[c].down = <<>> /\ circ'[c].got = <<>>
      BY <1>1, <2>1, StreamAdded
    <3>3. QED
      BY <3>1, <3>2
  <2>2. CASE ~AddStream(c)
    <3>1. PICK new : CircBecomes(c, new)
      BY <1>1, <1>10, <2>2, CircuitSteps
    <3>2. c = d /\ circ'[c] = new
      BY <1>1, <1>10, <3>1 DEF CircBecomes
    <3>3. \A i \in 1 .. Len(new.got) :
            \/ \E j \in 1 .. Len(circ[c].got) : circ[c].got[j] = new.got[i]
            \/ \E j \in 1 .. Len(circ[c].down) : circ[c].down[j] = new.got[i]
      BY <3>1 DEF CircBecomes
    <3>4. \A i \in 1 .. Len(new.down) :
            \E j \in 1 .. Len(circ[c].down) : circ[c].down[j] = new.down[i]
      BY <3>1 DEF CircBecomes
    <3>5. \A i \in 1 .. Len(new.got) : ForNext(new.got[i], c)
      BY <1>3, <3>3
    <3>6. \A i \in 1 .. Len(new.down) : ForNext(new.down[i], c)
      BY <1>3, <3>4
    <3>7. QED
      BY <3>2, <3>5, <3>6
  <2>3. QED
    BY <2>1, <2>2
<1>11. QED
  BY <1>5, <1>6, <1>7, <1>8, <1>9, <1>10 DEF Next

LEMMA RouteStep ==
  ASSUME IdsLast, MuxTypes, MuxTypes', RouteInv, [Next]_vars
  PROVE  RouteInv'
<1>1. AllocInv /\ UplinkInv /\ RelayInv /\ MapInv /\ DownlinkInv /\ RepliesInv
  BY DEF RouteInv
<1>2. \/ Quiet \/ TakesClose \/ Drops \/ Opens
      \/ \E c \in Circuits : Sends(c)
      \/ \E r \in 1 .. Len(relay) : Routes(r)
  BY <1>1, StepKinds
<1>3. Keeps
  BY <1>2, AllKeep
<1>4. AllocInv'
  BY <1>1, AllocStep
<1>5. UplinkInv' /\ RelayInv'
  BY <1>1, <1>2, <1>3, UplinkStep, RelayStep
<1>6. MapInv' /\ DownlinkInv' /\ RepliesInv'
  BY <1>1, <1>3, MapStep, DownlinkStep, RepliesStep
<1>7. QED
  BY <1>4, <1>5, <1>6 DEF RouteInv

-----------------------------------------------------------------------------
(* Order.                                                                  *)

\* The streams as they were: nothing, for a relay that is new.
Was(s) == IF s \in 1 .. Len(relay) THEN Stream(s) ELSE <<>>

\* Relay r, an old one or a new one, gets the cell that leaves the uplink.
Gets(r) ==
  /\ Taken /\ ~IsClose(Head(uplink)) /\ lost' = lost /\ Len(relay) <= Len(relay')
  /\ r \in 1 .. Len(relay') /\ relay'[r].owner = Source(Head(uplink))
  /\ \A s \in 1 .. Len(relay) : relay'[s].owner = relay[s].owner
  /\ \A s \in 1 .. Len(relay') :
       Stream(s)' = IF s = r THEN Append(Was(s), Head(uplink)) ELSE Was(s)

LEMMA OneGets ==
  ASSUME MuxTypes, MuxTypes', RouteInv, Opens \/ \E r \in 1 .. Len(relay) : Routes(r)
  PROVE  \E r \in 1 .. Len(relay') : Gets(r)
<1>1. Len(relay) \in Nat
  BY LenProperties DEF MuxTypes, ServerTypes
<1>2. CASE Opens
  <2> DEFINE r == Len(relay')
  <2>1. Len(relay') = Len(relay) + 1 /\ r \in 1 .. Len(relay')
    BY <1>1, <1>2 DEF Opens
  <2>2. \A s \in 1 .. Len(relay') : s \in 1 .. Len(relay) \/ s = Len(relay) + 1
    BY <1>1, <2>1
  <2>3. \A s \in 1 .. Len(relay) : s # r /\ Stream(s)' = Was(s)
    BY <1>1, <1>2, <2>1 DEF Opens, Was
  <2>4. Was(Len(relay) + 1) = <<>>
    BY <1>1 DEF Was
  <2>5. \A s \in 1 .. Len(relay') : s = Len(relay) + 1 => Stream(s)' = Append(<<>>, Head(uplink))
    BY <1>2 DEF Opens
  <2>6. \A s \in 1 .. Len(relay') :
          Stream(s)' = IF s = r THEN Append(Was(s), Head(uplink)) ELSE Was(s)
    BY <2>1, <2>2, <2>3, <2>4, <2>5
  <2>7. Gets(r)
    BY <1>1, <1>2, <2>1, <2>6 DEF Gets, Opens
  <2>8. QED
    BY <2>1, <2>7
<1>3. ASSUME NEW r \in 1 .. Len(relay), Routes(r) PROVE Gets(r) /\ r \in 1 .. Len(relay')
  <2>1. Data(Head(uplink)) /\ relay[r].id = Id(Head(uplink))
    BY <1>3, TakenData DEF Routes, RouteInv
  <2>2. relay[r].owner = Source(Head(uplink))
    BY <2>1, OneOwner DEF Data, RouteInv
  <2>3. QED
    BY <1>1, <1>3, <2>2 DEF Gets, Routes, SameRelays, Was
<1>4. QED
  BY <1>2, <1>3

\* A cell of a stream after the step was there before, or is the one that was taken.
LEMMA GetsCells ==
  ASSUME MuxTypes, NEW r, Gets(r), NEW s \in 1 .. Len(relay'), NEW new, new = Stream(s)'
  PROVE  /\ Len(Was(s)) \in Nat
         /\ \A i \in 1 .. Len(new) : \/ i \in 1 .. Len(Was(s)) /\ new[i] = Was(s)[i]
                                     \/ s = r /\ i = Len(Was(s)) + 1 /\ new[i] = Head(uplink)
<1>1. Was(s) \in Seq(Cell)
  BY StreamTyped, EmptySeq DEF Was, MuxTypes
<1>2. Head(uplink) \in Cell
  BY UplinkTaken DEF Gets, Taken, MuxTypes
<1>3. new = IF s = r THEN Append(Was(s), Head(uplink)) ELSE Was(s)
  BY DEF Gets
<1>4. QED
  BY <1>1, <1>2, <1>3, Appended

LEMMA UplinkOrderedStep ==
  ASSUME MuxTypes, RouteInv, UplinkOrdered,
         Quiet \/ Taken \/ \E c \in Circuits : Sends(c)
  PROVE  UplinkOrdered'
<1>1. WireTypes /\ ClientTypes /\ Len(uplink) \in Nat /\ \A i \in 1 .. Len(uplink) : uplink[i] \in Cell
  BY ElementOfSeq, LenProperties DEF MuxTypes, WireTypes
<1>2. SUFFICES ASSUME NEW i \in 1 .. Len(uplink'), NEW j \in 1 .. Len(uplink'),
                      i < j, ~IsClose(uplink'[j])
               PROVE  Before(uplink'[i], uplink'[j])
  BY DEF UplinkOrdered, Before, IsClose, Number, Source
<1>3. CASE Quiet
  <2>1. uplink' # <<>>
    OBVIOUS
  <2>2. QED
    BY <1>2, <1>3, <2>1 DEF Quiet, UplinkOrdered
<1>4. CASE Taken
  <2>1. /\ i + 1 \in 1 .. Len(uplink) /\ uplink'[i] = uplink[i + 1]
        /\ j + 1 \in 1 .. Len(uplink) /\ uplink'[j] = uplink[j + 1]
    BY <1>1, <1>4, UplinkTaken DEF Taken
  <2>2. i + 1 < j + 1
    BY <1>2
  <2>3. QED
    BY <1>2, <2>1, <2>2 DEF UplinkOrdered
<1>5. ASSUME NEW c \in Circuits, Sends(c) PROVE Before(uplink'[i], uplink'[j])
  <2>1. circ[c].id \in Ids /\ circ[c].sent \in Nat /\ c \in Nat
    <3>1. circ[c] \in CircRec /\ circ[c].id # 0
      BY <1>1, <1>5 DEF ClientTypes, Sends
    <3>2. QED
      BY <3>1, MuxAssumption, SMTT(30) DEF CircRec, Ids, Circuits
  <2>2. PICK cell : /\ uplink' = Append(uplink, cell)
                    /\ cell = <<circ[c].id, c, circ[c].sent + 1>> \/ cell = Close(circ[c].id)
    BY <1>5 DEF Sends
  <2>3. cell \in Cell
    BY <2>1, <2>2 DEF Cell, Close
  <2>4. /\ i \in 1 .. Len(uplink) /\ uplink'[i] = uplink[i]
        /\ (j \in 1 .. Len(uplink) /\ uplink'[j] = uplink[j]) \/ uplink'[j] = cell
    <3>1. Len(uplink') = Len(uplink) + 1
      BY <1>1, <2>2, <2>3, Appended DEF WireTypes
    <3>2. i \in 1 .. Len(uplink) /\ (j \in 1 .. Len(uplink) \/ j = Len(uplink) + 1)
      BY <1>1, <1>2, <3>1
    <3>3. QED
      BY <1>1, <2>2, <2>3, <3>2, Appended DEF WireTypes
  <2>5. CASE j \in 1 .. Len(uplink) /\ uplink'[j] = uplink[j]
    BY <1>2, <2>4, <2>5 DEF UplinkOrdered
  <2>6. CASE uplink'[j] = cell
    <3>1. Source(cell) = c /\ Number(cell) = circ[c].sent + 1
      BY <1>2, <2>2, <2>6 DEF Close, IsClose, Number, Source
    <3>2. Source(uplink[i]) = c => Number(uplink[i]) <= circ[c].sent
      <4>1. CASE IsClose(uplink[i])
        BY <2>1, <4>1 DEF IsClose
      <4>2. CASE ~IsClose(uplink[i])
        BY <2>1, <2>4, <4>2 DEF RouteInv, UplinkInv, Data
      <4>3. QED
        BY <4>1, <4>2
    <3>3. Number(uplink[i]) \in Nat
      BY <1>1, <2>4 DEF Cell, Number
    <3>4. QED
      BY <2>1, <2>4, <2>6, <3>1, <3>2, <3>3 DEF Before
  <2>7. QED
    BY <2>4, <2>5, <2>6
<1>6. QED
  BY <1>3, <1>4, <1>5

\* A cell of circuit c that was put in a stream or dropped has been sent before.
LEMMA StreamData ==
  ASSUME MuxTypes, RouteInv, NEW r, NEW i \in 1 .. Len(Was(r))
  PROVE  Was(r)[i] \in Cell /\ Data(Was(r)[i]) /\ r \in 1 .. Len(relay)
         /\ Was(r) = Stream(r) /\ Source(Was(r)[i]) = relay[r].owner
<1>1. r \in 1 .. Len(relay)
  BY DEF Was
<1>2. Was(r) = Stream(r) /\ Stream(r) \in Seq(Cell)
  BY <1>1, StreamTyped DEF Was, MuxTypes
<1>3. QED
  BY <1>1, <1>2, ElementOfSeq DEF RouteInv, RelayInv

LEMMA StreamsOrderedStep ==
  ASSUME MuxTypes, RouteInv, OrderInv,
         SameStreams \/ \E r \in 1 .. Len(relay') : Gets(r)
  PROVE  StreamsOrdered'
<1>1. SUFFICES ASSUME NEW s \in 1 .. Len(relay'), NEW new, new = Stream(s)',
                      NEW i \in 1 .. Len(new), NEW j \in 1 .. Len(new), i < j
               PROVE  Number(new[i]) < Number(new[j])
  BY DEF StreamsOrdered, Number
<1>2. CASE SameStreams
  BY <1>1, <1>2 DEF SameStreams, SameRelays, OrderInv, StreamsOrdered
<1>3. ASSUME NEW r \in 1 .. Len(relay'), Gets(r) PROVE Number(new[i]) < Number(new[j])
  <2>1. /\ Len(Was(s)) \in Nat
        /\ i \in 1 .. Len(Was(s)) /\ new[i] = Was(s)[i]
        /\ \/ j \in 1 .. Len(Was(s)) /\ new[j] = Was(s)[j]
           \/ s = r /\ new[j] = Head(uplink)
    <3>1. /\ Len(Was(s)) \in Nat
          /\ \A k \in 1 .. Len(new) : \/ k \in 1 .. Len(Was(s)) /\ new[k] = Was(s)[k]
                                      \/ s = r /\ k = Len(Was(s)) + 1 /\ new[k] = Head(uplink)
      BY <1>1, <1>3, GetsCells
    <3>2. ~(i = Len(Was(s)) + 1)
      BY <1>1, <3>1
    <3>3. QED
      BY <3>1, <3>2
  <2>2. Was(s) = Stream(s) /\ s \in 1 .. Len(relay) /\ Source(Was(s)[i]) = relay[s].owner
    BY <2>1, StreamData
  <2>3. CASE j \in 1 .. Len(Was(s)) /\ new[j] = Was(s)[j]
    BY <1>1, <2>1, <2>2, <2>3 DEF OrderInv, StreamsOrdered
  <2>4. CASE s = r /\ new[j] = Head(uplink)
    <3>1. Head(uplink) = uplink[1] /\ 1 \in 1 .. Len(uplink) /\ ~IsClose(Head(uplink))
      BY <1>3, UplinkTaken DEF Gets, Taken, MuxTypes
    <3>2. Before(Was(s)[i], Head(uplink))
      BY <2>1, <2>2, <3>1 DEF OrderInv, UplinkYounger
    <3>3. Source(Was(s)[i]) = Source(Head(uplink))
      BY <1>3, <2>2, <2>4 DEF Gets
    <3>4. QED
      BY <2>1, <2>4, <3>2, <3>3 DEF Before
  <2>5. QED
    BY <2>1, <2>3, <2>4
<1>4. QED
  BY <1>2, <1>3

LEMMA UplinkYoungerStep ==
  ASSUME MuxTypes, MuxTypes', RouteInv, OrderInv,
         \/ Quiet \/ TakesClose \/ Drops
         \/ \E c \in Circuits : Sends(c)
         \/ \E r \in 1 .. Len(relay') : Gets(r)
  PROVE  UplinkYounger'
<1>1. WireTypes /\ ClientTypes /\ Len(uplink) \in Nat /\ \A i \in 1 .. Len(uplink) : uplink[i] \in Cell
  BY ElementOfSeq, LenProperties DEF MuxTypes, WireTypes
<1>2. SUFFICES ASSUME NEW j \in 1 .. Len(uplink'), ~IsClose(uplink'[j])
               PROVE  /\ \A s \in 1 .. Len(relay') : \A new : new = Stream(s)' =>
                           \A i \in 1 .. Len(new) : Before(new[i], uplink'[j])
                      /\ \A l \in lost' : Before(l.cell, uplink'[j])
  <2>1. \A r \in 1 .. Len(relay') : \A i \in 1 .. Len(Stream(r)') :
          \E new : new = Stream(r)' /\ i \in 1 .. Len(new)
    OBVIOUS
  <2>2. QED
    BY <2>1 DEF UplinkYounger, Before, IsClose, Number, Source
<1> DEFINE young == uplink'[j]
<1> HIDE DEF young
<1>3. ASSUME NEW k \in 1 .. Len(uplink), young = uplink[k]
      PROVE  /\ \A s \in 1 .. Len(relay) : \A i \in 1 .. Len(Stream(s)) : Before(Stream(s)[i], young)
             /\ \A l \in lost : Before(l.cell, young)
             /\ young \in Cell
  BY <1>1, <1>2, <1>3 DEF OrderInv, UplinkYounger, young
<1>4. CASE Quiet
  <2>1. uplink' # <<>>
    OBVIOUS
  <2>2. j \in 1 .. Len(uplink) /\ young = uplink[j] /\ SameStreams /\ lost' = lost
    BY <1>4, <2>1 DEF Quiet, young
  <2>3. QED
    BY <1>3, <2>2 DEF SameStreams, SameRelays, young
<1>5. ASSUME Taken
      PROVE  /\ j + 1 \in 1 .. Len(uplink) /\ young = uplink[j + 1]
             /\ Head(uplink) = uplink[1] /\ Before(Head(uplink), young)
  <2>1. /\ j + 1 \in 1 .. Len(uplink) /\ uplink'[j] = uplink[j + 1]
        /\ Head(uplink) = uplink[1] /\ 1 \in 1 .. Len(uplink)
    BY <1>1, <1>5, UplinkTaken DEF Taken
  <2>2. 1 < j + 1
    OBVIOUS
  <2>3. QED
    BY <1>2, <2>1, <2>2 DEF OrderInv, UplinkOrdered, young
<1>6. CASE TakesClose
  BY <1>3, <1>5, <1>6 DEF TakesClose, SameStreams, SameRelays, young
<1>7. CASE Drops
  <2>1. PICK why : lost' = lost \cup {[cell |-> Head(uplink), why |-> why]}
    BY <1>7 DEF Drops
  <2>2. Taken /\ SameStreams
    BY <1>7 DEF Drops
  <2>3. \A l \in lost' : Before(l.cell, young)
    BY <1>3, <1>5, <2>1, <2>2
  <2>4. QED
    BY <1>3, <1>5, <2>2, <2>3 DEF SameStreams, SameRelays, young
<1>8. ASSUME NEW r \in 1 .. Len(relay'), Gets(r)
      PROVE  /\ \A s \in 1 .. Len(relay') : \A new : new = Stream(s)' =>
                  \A i \in 1 .. Len(new) : Before(new[i], young)
             /\ \A l \in lost' : Before(l.cell, young)
  <2>1. Taken /\ lost' = lost
    BY <1>8 DEF Gets
  <2>2. ASSUME NEW s \in 1 .. Len(relay'), NEW new, new = Stream(s)', NEW i \in 1 .. Len(new)
        PROVE  Before(new[i], young)
    <3>1. \/ i \in 1 .. Len(Was(s)) /\ new[i] = Was(s)[i]
          \/ new[i] = Head(uplink)
      BY <1>8, <2>2, GetsCells
    <3>2. CASE i \in 1 .. Len(Was(s)) /\ new[i] = Was(s)[i]
      <4>1. Was(s) = Stream(s) /\ s \in 1 .. Len(relay)
        BY <3>2, StreamData
      <4>2. QED
        BY <1>3, <1>5, <2>1, <3>2, <4>1
    <3>3. QED
      BY <1>5, <2>1, <3>1, <3>2
  <2>3. QED
    BY <1>3, <1>5, <2>1, <2>2
<1>9. ASSUME NEW c \in Circuits, Sends(c)
      PROVE  /\ \A s \in 1 .. Len(relay') : \A new : new = Stream(s)' =>
                  \A i \in 1 .. Len(new) : Before(new[i], young)
             /\ \A l \in lost' : Before(l.cell, young)
  <2>1. circ[c].id \in Ids /\ circ[c].sent \in Nat /\ c \in Nat
    <3>1. circ[c] \in CircRec /\ circ[c].id # 0
      BY <1>1, <1>9 DEF ClientTypes, Sends
    <3>2. QED
      BY <3>1, MuxAssumption, SMTT(30) DEF CircRec, Ids, Circuits
  <2>2. PICK cell : /\ uplink' = Append(uplink, cell)
                    /\ cell = <<circ[c].id, c, circ[c].sent + 1>> \/ cell = Close(circ[c].id)
    BY <1>9 DEF Sends
  <2>3. cell \in Cell
    BY <2>1, <2>2 DEF Cell, Close
  <2>4. (j \in 1 .. Len(uplink) /\ uplink'[j] = uplink[j]) \/ uplink'[j] = cell
    <3>1. Len(uplink') = Len(uplink) + 1
      BY <1>1, <2>2, <2>3, Appended DEF WireTypes
    <3>2. QED
      BY <1>1, <2>2, <2>3, <3>1, Appended DEF WireTypes
  <2>5. SameStreams /\ lost' = lost
    BY <1>9 DEF Sends
  <2>6. CASE j \in 1 .. Len(uplink) /\ uplink'[j] = uplink[j]
    BY <1>3, <2>5, <2>6 DEF SameStreams, SameRelays, young
  <2>7. CASE uplink'[j] = cell
    <3>1. Source(young) = c /\ Number(young) = circ[c].sent + 1
      BY <1>2, <2>2, <2>7 DEF Close, IsClose, Number, Source, young
    <3>2. \A x \in Cell : Data(x) => Before(x, young)
      <4>1. ASSUME NEW x \in Cell, Data(x), Source(x) = c PROVE Number(x) < circ[c].sent + 1
        BY <2>1, <4>1 DEF Data
      <4>2. QED
        BY <3>1, <4>1 DEF Before
    <3>3. \A l \in lost : l.cell \in Cell /\ Data(l.cell)
      BY <1>1 DEF WireTypes, OrderInv, LostApart
    <3>4. \A s \in 1 .. Len(relay) : \A i \in 1 .. Len(Stream(s)) :
            Stream(s)[i] \in Cell /\ Data(Stream(s)[i])
      BY StreamData DEF Was
    <3>5. QED
      BY <2>5, <3>2, <3>3, <3>4 DEF SameStreams, SameRelays
  <2>8. QED
    BY <2>4, <2>6, <2>7
<1>10. QED
  BY <1>4, <1>6, <1>7, <1>8, <1>9 DEF young

\* The cell that is taken is younger than any that is in a stream or dropped.
LEMMA HeadYounger ==
  ASSUME MuxTypes, RouteInv, OrderInv, Taken, ~IsClose(Head(uplink))
  PROVE  /\ Head(uplink) \in Cell /\ Number(Head(uplink)) \in Nat
         /\ \A s \in 1 .. Len(relay) : \A i \in 1 .. Len(Stream(s)) :
              Stream(s)[i] \in Cell /\ Before(Stream(s)[i], Head(uplink))
         /\ \A l \in lost : l.cell \in Cell /\ Before(l.cell, Head(uplink))
<1>1. Head(uplink) \in Cell /\ Head(uplink) = uplink[1] /\ 1 \in 1 .. Len(uplink)
  BY UplinkTaken DEF Taken, MuxTypes
<1>2. \A s \in 1 .. Len(relay) : \A i \in 1 .. Len(Stream(s)) : Stream(s)[i] \in Cell
  BY StreamTyped, ElementOfSeq DEF MuxTypes
<1>3. \A l \in lost : l.cell \in Cell
  BY DEF MuxTypes, WireTypes
<1>4. QED
  BY <1>1, <1>2, <1>3 DEF OrderInv, UplinkYounger, Cell, Number

LEMMA StreamsApartStep ==
  ASSUME MuxTypes, RouteInv, OrderInv,
         SameStreams \/ \E r \in 1 .. Len(relay') : Gets(r)
  PROVE  StreamsApart'
<1>1. SUFFICES ASSUME NEW s \in 1 .. Len(relay'), NEW t \in 1 .. Len(relay'), s # t,
                      NEW a, a = Stream(s)', NEW b, b = Stream(t)',
                      NEW i \in 1 .. Len(a), NEW j \in 1 .. Len(b)
               PROVE  Differ(a[i], b[j])
  BY DEF StreamsApart, Differ, Number, Source
<1>2. CASE SameStreams
  BY <1>1, <1>2 DEF SameStreams, SameRelays, OrderInv, StreamsApart
<1>3. ASSUME NEW r \in 1 .. Len(relay'), Gets(r) PROVE Differ(a[i], b[j])
  <2>1. /\ Number(Head(uplink)) \in Nat
        /\ \A u \in 1 .. Len(relay) : \A k \in 1 .. Len(Stream(u)) :
             Stream(u)[k] \in Cell /\ Before(Stream(u)[k], Head(uplink))
    BY <1>3, HeadYounger DEF Gets
  <2>2. \A u \in 1 .. Len(relay) : \A k \in 1 .. Len(Stream(u)) :
          Differ(Stream(u)[k], Head(uplink)) /\ Differ(Head(uplink), Stream(u)[k])
    <3>1. \A x \in Cell : Before(x, Head(uplink)) =>
            Differ(x, Head(uplink)) /\ Differ(Head(uplink), x)
      BY <2>1 DEF Before, Differ, Cell, Number
    <3>2. QED
      BY <2>1, <3>1
  <2>3. \/ i \in 1 .. Len(Was(s)) /\ a[i] = Was(s)[i]
        \/ s = r /\ a[i] = Head(uplink)
    BY <1>1, <1>3, GetsCells
  <2>4. \/ j \in 1 .. Len(Was(t)) /\ b[j] = Was(t)[j]
        \/ t = r /\ b[j] = Head(uplink)
    BY <1>1, <1>3, GetsCells
  <2>5. i \in 1 .. Len(Was(s)) => s \in 1 .. Len(relay) /\ Was(s) = Stream(s)
    BY DEF Was
  <2>6. j \in 1 .. Len(Was(t)) => t \in 1 .. Len(relay) /\ Was(t) = Stream(t)
    BY DEF Was
  <2>7. QED
    BY <1>1, <2>2, <2>3, <2>4, <2>5, <2>6 DEF OrderInv, StreamsApart
<1>4. QED
  BY <1>2, <1>3

LEMMA LostApartStep ==
  ASSUME MuxTypes, MuxTypes', RouteInv, OrderInv, Keeps,
         \/ SameStreams /\ lost' = lost
         \/ Drops \/ \E r \in 1 .. Len(relay') : Gets(r)
  PROVE  LostApart'
<1>1. \A l \in lost : l.cell \in Cell /\ Data(l.cell) /\ DataNext(l.cell)
  BY DataKept DEF MuxTypes, WireTypes, OrderInv, LostApart
<1>2. SUFFICES /\ \A l \in lost' : DataNext(l.cell)
               /\ \A l \in lost' : \A s \in 1 .. Len(relay') : \A new : new = Stream(s)' =>
                    \A i \in 1 .. Len(new) : Differ(l.cell, new[i])
  <2>1. ASSUME /\ \A l \in lost' : DataNext(l.cell)
               /\ \A l \in lost' : \A s \in 1 .. Len(relay') : \A new : new = Stream(s)' =>
                    \A i \in 1 .. Len(new) : Differ(l.cell, new[i])
        PROVE  LostApart'
    BY <2>1 DEF LostApart, Data, DataNext, Differ, Number, Source, Id
  <2>2. QED
    BY <2>1
<1>3. CASE SameStreams /\ lost' = lost
  BY <1>1, <1>3 DEF SameStreams, SameRelays, OrderInv, LostApart
<1>4. ASSUME Taken, ~IsClose(Head(uplink))
      PROVE  /\ DataNext(Head(uplink))
             /\ \A s \in 1 .. Len(relay) : \A i \in 1 .. Len(Stream(s)) :
                  Differ(Head(uplink), Stream(s)[i])
             /\ \A l \in lost : Differ(l.cell, Head(uplink))
  <2>1. DataNext(Head(uplink))
    BY <1>4, TakenData DEF RouteInv
  <2>2. /\ Number(Head(uplink)) \in Nat
        /\ \A s \in 1 .. Len(relay) : \A i \in 1 .. Len(Stream(s)) :
             Stream(s)[i] \in Cell /\ Before(Stream(s)[i], Head(uplink))
        /\ \A l \in lost : l.cell \in Cell /\ Before(l.cell, Head(uplink))
    BY <1>4, HeadYounger
  <2>3. \A x \in Cell : Before(x, Head(uplink)) =>
          Differ(x, Head(uplink)) /\ Differ(Head(uplink), x)
    BY <2>2 DEF Before, Differ, Cell, Number
  <2>4. QED
    BY <2>1, <2>2, <2>3
<1>5. CASE Drops
  <2>1. PICK why : lost' = lost \cup {[cell |-> Head(uplink), why |-> why]}
    BY <1>5 DEF Drops
  <2>2. SameStreams /\ Taken /\ ~IsClose(Head(uplink))
    BY <1>5 DEF Drops
  <2>3. \A l \in lost' : l \in lost \/ l.cell = Head(uplink)
    BY <2>1
  <2>4. QED
    BY <1>1, <1>4, <2>2, <2>3 DEF SameStreams, SameRelays, OrderInv, LostApart
<1>6. ASSUME NEW r \in 1 .. Len(relay'), Gets(r)
      PROVE  /\ \A l \in lost' : DataNext(l.cell)
             /\ \A l \in lost' : \A s \in 1 .. Len(relay') : \A new : new = Stream(s)' =>
                  \A i \in 1 .. Len(new) : Differ(l.cell, new[i])
  <2>1. lost' = lost /\ Taken /\ ~IsClose(Head(uplink))
    BY <1>6 DEF Gets
  <2>2. ASSUME NEW l \in lost, NEW s \in 1 .. Len(relay'), NEW new, new = Stream(s)',
               NEW i \in 1 .. Len(new)
        PROVE  Differ(l.cell, new[i])
    <3>1. \/ i \in 1 .. Len(Was(s)) /\ new[i] = Was(s)[i]
          \/ new[i] = Head(uplink)
      BY <1>6, <2>2, GetsCells
    <3>2. i \in 1 .. Len(Was(s)) => s \in 1 .. Len(relay) /\ Was(s) = Stream(s)
      BY DEF Was
    <3>3. QED
      BY <1>4, <2>1, <3>1, <3>2 DEF OrderInv, LostApart
  <2>3. QED
    BY <1>1, <2>1, <2>2
<1>7. QED
  BY <1>3, <1>5, <1>6

LEMMA OrderStep ==
  ASSUME IdsLast, MuxTypes, MuxTypes', RouteInv, OrderInv, [Next]_vars
  PROVE  OrderInv'
<1>1. \/ Quiet \/ TakesClose \/ Drops \/ Opens
      \/ \E c \in Circuits : Sends(c)
      \/ \E r \in 1 .. Len(relay) : Routes(r)
  BY StepKinds DEF RouteInv
<1>2. Keeps
  BY <1>1, AllKeep
<1>3. \/ Quiet \/ TakesClose \/ Drops
      \/ \E c \in Circuits : Sends(c)
      \/ \E r \in 1 .. Len(relay') : Gets(r)
  BY <1>1, OneGets
<1>4. Quiet \/ Taken \/ \E c \in Circuits : Sends(c)
  BY <1>3 DEF TakesClose, Drops, Gets
<1>5. SameStreams \/ \E r \in 1 .. Len(relay') : Gets(r)
  BY <1>3 DEF TakesClose, Drops, Quiet, Sends
<1>6. \/ SameStreams /\ lost' = lost
      \/ Drops \/ \E r \in 1 .. Len(relay') : Gets(r)
  BY <1>3 DEF TakesClose, Quiet, Sends
<1>7. UplinkOrdered' /\ UplinkYounger'
  BY <1>3, <1>4, UplinkOrderedStep, UplinkYoungerStep DEF OrderInv
<1>8. StreamsOrdered' /\ StreamsApart' /\ LostApart'
  BY <1>2, <1>5, <1>6, StreamsOrderedStep, StreamsApartStep, LostApartStep
<1>9. QED
  BY <1>7, <1>8 DEF OrderInv

-----------------------------------------------------------------------------
(* Nothing is mislaid.                                                     *)

\* Where the n-th cell of circuit c is.
OnUplink(c, n) == \E i \in 1 .. Len(uplink) : Is(uplink[i], c, n)
Dropped(c, n) == \E l \in lost : Is(l.cell, c, n)
InStream(c, n) == \E r \in 1 .. Len(relay) : \E i \in 1 .. Len(Stream(r)) : Is(Stream(r)[i], c, n)

LEMMA InStreamNext ==
  ASSUME NEW c, NEW n, NEW s \in 1 .. Len(relay'), NEW new, new = Stream(s)',
         NEW i \in 1 .. Len(new), Is(new[i], c, n)
  PROVE  InStream(c, n)'
BY DEF InStream, Is, Number, Source

\* A cell that is in a stream or dropped stays there.
LEMMA KeptPlaced ==
  ASSUME MuxTypes, NEW c, NEW n, Dropped(c, n) \/ InStream(c, n),
         \/ SameStreams /\ lost' = lost
         \/ Drops \/ \E r \in 1 .. Len(relay') : Gets(r)
  PROVE  Dropped(c, n)' \/ InStream(c, n)'
<1>1. lost \subseteq lost'
  BY DEF Drops, Gets
<1>2. CASE Dropped(c, n)
  BY <1>1, <1>2 DEF Dropped, Is, Number, Source
<1>3. CASE InStream(c, n)
  <2> PICK s \in 1 .. Len(relay) : \E i \in 1 .. Len(Stream(s)) : Is(Stream(s)[i], c, n)
    BY <1>3 DEF InStream
  <2>1. PICK i \in 1 .. Len(Stream(s)) : Is(Stream(s)[i], c, n)
    OBVIOUS
  <2>2. CASE SameStreams
    <3>1. Stream(s)' = Stream(s) /\ s \in 1 .. Len(relay')
      BY <2>2 DEF SameStreams, SameRelays
    <3>2. QED
      BY <2>1, <3>1, InStreamNext
  <2>3. ASSUME NEW r \in 1 .. Len(relay'), Gets(r) PROVE InStream(c, n)'
    <3>1. s \in 1 .. Len(relay') /\ Was(s) = Stream(s) /\ Stream(s) \in Seq(Cell)
      <4>1. Len(relay) \in Nat /\ Len(relay) <= Len(relay')
        BY <2>3, LenProperties DEF MuxTypes, ServerTypes, Gets
      <4>2. s \in 1 .. Len(relay')
        BY <4>1
      <4>3. QED
        BY <4>2, StreamTyped DEF Was, MuxTypes
    <3>2. Head(uplink) \in Cell
      BY <2>3, UplinkTaken DEF Gets, Taken, MuxTypes
    <3>3. PICK new : new = Stream(s)'
      OBVIOUS
    <3>4. new = Append(Stream(s), Head(uplink)) \/ new = Stream(s)
      BY <2>3, <3>1, <3>3 DEF Gets
    <3>5. i \in 1 .. Len(new) /\ new[i] = Stream(s)[i]
      BY <3>1, <3>2, <3>4, Appended
    <3>6. QED
      BY <2>1, <3>1, <3>3, <3>5, InStreamNext
  <2>4. QED
    BY <2>2, <2>3 DEF Drops
<1>4. QED
  BY <1>2, <1>3

LEMMA PlacedStep ==
  ASSUME IdsLast, MuxTypes, MuxTypes', RouteInv, PlacedInv, [Next]_vars
  PROVE  PlacedInv'
<1>1. /\ WireTypes /\ ClientTypes /\ Len(uplink) \in Nat
      /\ \A i \in 1 .. Len(uplink) : uplink[i] \in Cell
  BY ElementOfSeq, LenProperties DEF MuxTypes, WireTypes
<1>2. SUFFICES ASSUME wire' = "up", NEW c \in Circuits, NEW n \in 1 .. circ'[c].sent
               PROVE  OnUplink(c, n)' \/ Dropped(c, n)' \/ InStream(c, n)'
  BY DEF PlacedInv, OnUplink, Dropped, InStream, Is, Number, Source, Circuits
<1>3. \/ Quiet \/ TakesClose \/ Drops
      \/ \E d \in Circuits : Sends(d)
      \/ \E r \in 1 .. Len(relay') : Gets(r)
  BY StepKinds, OneGets DEF RouteInv
<1>4. wire = "up"
  BY <1>2, <1>3 DEF Quiet, TakesClose, Drops, Sends, Gets, Taken
<1>5. \/ SameStreams /\ lost' = lost
      \/ Drops \/ \E r \in 1 .. Len(relay') : Gets(r)
  BY <1>3 DEF TakesClose, Quiet, Sends
<1>6. n \in 1 .. circ[c].sent => OnUplink(c, n) \/ Dropped(c, n) \/ InStream(c, n)
  BY <1>4 DEF PlacedInv, OnUplink, Dropped, InStream
<1>7. CASE Dropped(c, n) \/ InStream(c, n)
  BY <1>5, <1>7, KeptPlaced
<1>8. CASE Quiet /\ ~(Dropped(c, n) \/ InStream(c, n))
  <2>1. uplink' = uplink /\ circ'[c].sent = circ[c].sent
    BY <1>2, <1>8 DEF Quiet
  <2>2. QED
    BY <1>6, <1>8, <2>1 DEF OnUplink, Is
<1>9. CASE Taken /\ ~(Dropped(c, n) \/ InStream(c, n))
  <2>1. PICK i \in 1 .. Len(uplink) : Is(uplink[i], c, n)
    BY <1>6, <1>9 DEF Taken, OnUplink
  <2>2. Head(uplink) = uplink[1] /\ Head(uplink) \in Cell
    BY <1>1, <1>9, UplinkTaken DEF Taken
  <2>3. CASE i # 1
    <3>1. i - 1 \in 1 .. Len(uplink') /\ uplink'[i - 1] = uplink[i]
      BY <1>1, <1>9, <2>3, UplinkTaken DEF Taken
    <3>2. \E k \in 1 .. Len(uplink') : Is(uplink'[k], c, n)
      BY <2>1, <3>1
    <3>3. QED
      BY <3>2 DEF OnUplink, Is, Number, Source
  <2>4. CASE i = 1
    <3>1. Is(Head(uplink), c, n) /\ ~IsClose(Head(uplink))
      BY <2>1, <2>2, <2>4 DEF Is, IsClose
    <3>2. CASE Drops
      <4> PICK why : lost' = lost \cup {[cell |-> Head(uplink), why |-> why]}
        BY <3>2 DEF Drops
      <4> DEFINE gone == [cell |-> Head(uplink), why |-> why]
      <4>1. gone \in lost' /\ gone.cell = Head(uplink)
        OBVIOUS
      <4> HIDE DEF gone
      <4>2. \E l \in lost' : Is(l.cell, c, n)
        BY <3>1, <4>1
      <4>3. QED
        BY <4>2 DEF Dropped, Is, Number, Source
    <3>3. ASSUME NEW r \in 1 .. Len(relay'), Gets(r) PROVE InStream(c, n)'
      <4>1. PICK new : new = Stream(r)'
        OBVIOUS
      <4>2. new = Append(Was(r), Head(uplink)) /\ Was(r) \in Seq(Cell)
        BY <3>3, <4>1, StreamTyped, EmptySeq DEF Gets, Was, MuxTypes
      <4>3. PICK k \in 1 .. Len(new) : new[k] = Head(uplink)
        BY <2>2, <4>2, Appended
      <4>4. Is(new[k], c, n)
        BY <3>1, <4>3
      <4>5. QED
        BY <4>1, <4>4, InStreamNext
    <3>4. ~Quiet /\ ~\E d \in Circuits : Sends(d)
      <4>1. Len(uplink') = Len(uplink) - 1 /\ uplink # <<>>
        BY <1>1, <1>9, UplinkTaken DEF Taken
      <4>2. ~Quiet
        <5>1. uplink' # uplink
          BY <1>1, <4>1
        <5>2. QED
          BY <1>2, <5>1 DEF Quiet
      <4>3. ASSUME NEW d \in Circuits, Sends(d) PROVE FALSE
        <5>1. PICK cell : uplink' = Append(uplink, cell)
          BY <4>3 DEF Sends
        <5>2. Len(uplink') = Len(uplink) + 1
          BY <1>1, <5>1 DEF WireTypes
        <5>3. QED
          BY <1>1, <4>1, <5>2
      <4>4. QED
        BY <4>2, <4>3
    <3>5. QED
      BY <1>3, <3>1, <3>2, <3>3, <3>4 DEF TakesClose
  <2>5. QED
    BY <2>3, <2>4
<1>10. ASSUME NEW d \in Circuits, Sends(d), ~(Dropped(c, n) \/ InStream(c, n))
       PROVE  OnUplink(c, n)'
  <2>1. circ[d].id \in Ids /\ circ[d].sent \in Nat /\ d \in Nat
    <3>1. circ[d] \in CircRec /\ circ[d].id # 0
      BY <1>1, <1>10 DEF ClientTypes, Sends
    <3>2. QED
      BY <3>1, MuxAssumption, SMTT(30) DEF CircRec, Ids, Circuits
  <2>2. PICK cell :
          /\ uplink' = Append(uplink, cell)
          /\ \/ cell = <<circ[d].id, d, circ[d].sent + 1>> /\ circ'[d].sent = circ[d].sent + 1
             \/ cell = Close(circ[d].id) /\ circ'[d].sent = circ[d].sent
    BY <1>10 DEF Sends
  <2>3. cell \in Cell
    BY <2>1, <2>2 DEF Cell, Close
  <2>4. /\ Len(uplink') = Len(uplink) + 1 /\ uplink'[Len(uplink) + 1] = cell
        /\ \A i \in 1 .. Len(uplink) : i \in 1 .. Len(uplink') /\ uplink'[i] = uplink[i]
    BY <1>1, <2>2, <2>3, Appended DEF WireTypes
  <2>5. CASE n \in 1 .. circ[c].sent
    <3>1. PICK i \in 1 .. Len(uplink) : Is(uplink[i], c, n)
      BY <1>6, <1>10, <2>5 DEF OnUplink
    <3>2. \E k \in 1 .. Len(uplink') : Is(uplink'[k], c, n)
      BY <2>4, <3>1
    <3>3. QED
      BY <3>2 DEF OnUplink, Is, Number, Source
  <2>6. CASE n \notin 1 .. circ[c].sent
    <3>1. c = d
      BY <1>10, <2>6 DEF Sends
    <3>2. cell = <<circ[d].id, d, circ[d].sent + 1>> /\ n = circ[d].sent + 1
      BY <2>1, <2>2, <2>6, <3>1
    <3>3. Is(cell, c, n)
      BY <3>1, <3>2 DEF Is, Source, Number
    <3>4. \E k \in 1 .. Len(uplink') : Is(uplink'[k], c, n)
      BY <1>1, <2>4, <3>3
    <3>5. QED
      BY <3>4 DEF OnUplink, Is, Number, Source
  <2>7. QED
    BY <2>5, <2>6
<1>11. QED
  BY <1>3, <1>7, <1>8, <1>9, <1>10 DEF TakesClose, Drops, Gets

-----------------------------------------------------------------------------
(* The theorems.                                                           *)

LEMMA MuxInit == Init => MuxInv
<1> SUFFICES ASSUME Init PROVE MuxInv
  OBVIOUS
<1>1. MuxTypes
  BY MuxTypesInit
<1>2. /\ nextId = 1 /\ cmap = <<>> /\ uplink = <<>> /\ downlink = <<>> /\ smap = <<>>
      /\ relay = <<>> /\ lost = {} /\ circ = [c \in Circuits |-> Idle]
  BY DEF Init
<1>3. \A c \in Circuits : /\ circ[c].id = 0 /\ circ[c].sent = 0
                          /\ circ[c].got = <<>> /\ circ[c].down = <<>>
  BY <1>2 DEF Idle
<1>4. Assigned = {} /\ Cardinality(Assigned) = 0
  BY <1>3, FS_EmptySet DEF Assigned
<1>5. DOMAIN cmap = {} /\ DOMAIN smap = {}
  BY <1>2
<1>6. Len(uplink) = 0 /\ Len(relay) = 0 /\ Len(downlink) = 0
  BY <1>2
<1>7. AllocInv
  BY <1>2, <1>3, <1>4, <1>5 DEF AllocInv
<1>8. UplinkInv /\ RelayInv /\ DownlinkInv /\ MapInv
  BY <1>5, <1>6 DEF UplinkInv, RelayInv, DownlinkInv, MapInv
<1>9. RepliesInv
  BY <1>3 DEF RepliesInv
<1>10. OrderInv
  BY <1>2, <1>6 DEF OrderInv, StreamsOrdered, UplinkOrdered, UplinkYounger, StreamsApart, LostApart
<1>11. PlacedInv
  BY <1>3 DEF PlacedInv
<1>12. QED
  BY <1>1, <1>7, <1>8, <1>9, <1>10, <1>11 DEF MuxInv, RouteInv

LEMMA MuxStep == IdsLast /\ MuxInv /\ [Next]_vars => MuxInv'
<1> SUFFICES ASSUME IdsLast, MuxInv, [Next]_vars PROVE MuxInv'
  OBVIOUS
<1>1. MuxTypes /\ RouteInv /\ OrderInv /\ PlacedInv
  BY DEF MuxInv
<1>2. MuxTypes'
  BY <1>1, MuxTypesStep
<1>3. RouteInv' /\ OrderInv' /\ PlacedInv'
  BY <1>1, <1>2, RouteStep, OrderStep, PlacedStep
<1>4. QED
  BY <1>2, <1>3 DEF MuxInv

\* While ids last, the routing, order and placing of cells are as the invariants say.
THEOREM RoutingThroughout ==
  ASSUME IdsLast
  PROVE  Spec => []MuxInv
<1>1. MuxInv /\ [Next]_vars => MuxInv'
  BY MuxStep
<1>2. QED
  BY <1>1, MuxInit, PTL DEF Spec

\* A bridge connection carries the cells of one circuit, and a circuit gets replies only
\* from bridge connections opened for it, whatever fails, as long as no id is reused.
THEOREM CellsStayApart ==
  ASSUME IdsLast
  PROVE  Spec => []NoCrossRouting
<1>1. ASSUME MuxInv PROVE NoCrossRouting
  <2>1. ServerTypes /\ ClientTypes /\ RelayInv /\ RepliesInv
    BY <1>1 DEF MuxInv, MuxTypes, RouteInv
  <2>2. ASSUME NEW r \in DOMAIN relay, NEW i \in DOMAIN Stream(r)
        PROVE  Source(Stream(r)[i]) = relay[r].owner
    <3>1. r \in 1 .. Len(relay)
      BY <2>1, LenProperties DEF ServerTypes
    <3>2. i \in 1 .. Len(Stream(r))
      BY <2>1, <2>2, <3>1, StreamTyped, LenProperties
    <3>3. QED
      BY <2>1, <3>1, <3>2 DEF RelayInv
  <2>3. ASSUME NEW c \in Circuits, NEW i \in DOMAIN (circ[c].got \o circ[c].down)
        PROVE  relay[Source((circ[c].got \o circ[c].down)[i])].owner = c
    <3> DEFINE g == circ[c].got
               d == circ[c].down
    <3>1. g \in Seq(Cell) /\ d \in Seq(Cell)
      BY <2>1 DEF ClientTypes, CircRec
    <3>2. /\ \A k \in 1 .. Len(g) : relay[Source(g[k])].owner = c
          /\ \A k \in 1 .. Len(d) : relay[Source(d[k])].owner = c
      BY <2>1 DEF RepliesInv, For
    <3>3. i \in DOMAIN (g \o d)
      BY <2>3
    <3> HIDE DEF g, d
    <3>4. i \in 1 .. Len(g) + Len(d) /\ Len(g) \in Nat /\ Len(d) \in Nat
          /\ (g \o d)[i] = IF i <= Len(g) THEN g[i] ELSE d[i - Len(g)]
      BY <3>1, <3>3, ConcatProperties, LenProperties
    <3>5. relay[Source((g \o d)[i])].owner = c
      <4>1. CASE i <= Len(g)
        BY <3>2, <3>4, <4>1
      <4>2. CASE ~(i <= Len(g))
        <5>1. i - Len(g) \in 1 .. Len(d)
          BY <3>4, <4>2
        <5>2. QED
          BY <3>2, <3>4, <4>2, <5>1
      <4>3. QED
        BY <4>1, <4>2
    <3>6. QED
      BY <3>5 DEF g, d
  <2>4. QED
    BY <2>2, <2>3 DEF NoCrossRouting
<1>2. QED
  BY <1>1, RoutingThroughout, PTL

\* On a wire that is up every cell a circuit has sent is on the uplink, in exactly one
\* stream or dropped, and a bridge gets its cells in the order they were sent.
THEOREM CellsAccounted ==
  ASSUME IdsLast
  PROVE  Spec => []UplinkAccounted
<1>1. ASSUME MuxInv PROVE UplinkAccounted
  <2>1. WireTypes /\ ServerTypes /\ RouteInv /\ OrderInv /\ PlacedInv /\ MuxTypes
    BY <1>1 DEF MuxInv, MuxTypes
  <2>2. DOMAIN relay = 1 .. Len(relay) /\ DOMAIN uplink = 1 .. Len(uplink)
    BY <2>1, LenProperties DEF ServerTypes, WireTypes
  <2>3. ASSUME NEW r \in DOMAIN relay PROVE DOMAIN Stream(r) = 1 .. Len(Stream(r))
    BY <2>1, <2>2, StreamTyped, LenProperties
  <2>4. \A r \in DOMAIN relay : \A i, j \in DOMAIN Stream(r) :
          i < j => Number(Stream(r)[i]) < Number(Stream(r)[j])
    BY <2>1, <2>2, <2>3 DEF OrderInv, StreamsOrdered
  <2>5. ASSUME wire = "up", NEW c \in Circuits, NEW n \in 1 .. circ[c].sent
        PROVE  LET here(seq) == \E i \in DOMAIN seq : Source(seq[i]) = c /\ Number(seq[i]) = n
                   owners == {r \in DOMAIN relay : here(Stream(r))}
                   dropped == \E l \in lost : Source(l.cell) = c /\ Number(l.cell) = n
               IN  IF here(uplink) \/ dropped THEN owners = {} ELSE Cardinality(owners) = 1
    <3> DEFINE here(seq) == \E i \in DOMAIN seq : Source(seq[i]) = c /\ Number(seq[i]) = n
               owners == {r \in DOMAIN relay : here(Stream(r))}
               dropped == \E l \in lost : Source(l.cell) = c /\ Number(l.cell) = n
    <3>1. n \in Nat \ {0}
      <4>1. circ[c].sent \in Nat
        BY <2>1 DEF MuxTypes, ClientTypes, CircRec
      <4>2. QED
        BY <4>1
    <3>2. CASE here(uplink)
      <4>1. PICK i \in 1 .. Len(uplink) : Source(uplink[i]) = c /\ Number(uplink[i]) = n
        BY <2>2, <3>2
      <4>2. ~IsClose(uplink[i])
        BY <3>1, <4>1 DEF IsClose
      <4>3. ASSUME NEW r \in DOMAIN relay, here(Stream(r)) PROVE FALSE
        <5>1. PICK k \in 1 .. Len(Stream(r)) : Source(Stream(r)[k]) = c /\ Number(Stream(r)[k]) = n
          BY <2>3, <4>3
        <5>2. Before(Stream(r)[k], uplink[i])
          BY <2>1, <2>2, <4>2 DEF OrderInv, UplinkYounger
        <5>3. QED
          BY <3>1, <4>1, <5>1, <5>2 DEF Before
      <4>4. owners = {}
        BY <4>3
      <4>5. QED
        BY <3>2, <4>4
    <3>3. CASE dropped
      <4>1. PICK l \in lost : Source(l.cell) = c /\ Number(l.cell) = n
        BY <3>3
      <4>2. ASSUME NEW r \in DOMAIN relay, here(Stream(r)) PROVE FALSE
        <5>1. PICK k \in 1 .. Len(Stream(r)) : Source(Stream(r)[k]) = c /\ Number(Stream(r)[k]) = n
          BY <2>3, <4>2
        <5>2. Differ(l.cell, Stream(r)[k])
          BY <2>1, <2>2 DEF OrderInv, LostApart
        <5>3. QED
          BY <4>1, <5>1, <5>2 DEF Differ
      <4>3. owners = {}
        BY <4>2
      <4>4. QED
        BY <3>3, <4>3
    <3>4. CASE ~here(uplink) /\ ~dropped
      <4>1. PICK r \in 1 .. Len(relay) : \E k \in 1 .. Len(Stream(r)) : Is(Stream(r)[k], c, n)
        BY <2>1, <2>2, <2>5, <3>4 DEF PlacedInv, Is
      <4>2. r \in owners
        BY <2>2, <2>3, <4>1 DEF Is
      <4>3. ASSUME NEW s \in owners PROVE s = r
        <5>1. PICK k \in 1 .. Len(Stream(r)) : Is(Stream(r)[k], c, n)
          BY <4>1
        <5>2. PICK j \in 1 .. Len(Stream(s)) : Source(Stream(s)[j]) = c /\ Number(Stream(s)[j]) = n
          BY <2>3
        <5>3. s # r => Differ(Stream(r)[k], Stream(s)[j])
          BY <2>1, <2>2 DEF OrderInv, StreamsApart
        <5>4. QED
          BY <5>1, <5>2, <5>3 DEF Is, Differ
      <4>4. owners = {r}
        BY <4>2, <4>3
      <4>5. Cardinality(owners) = 1
        BY <4>4, FS_Singleton
      <4>6. QED
        BY <3>4, <4>5
    <3>5. QED
      BY <3>2, <3>3, <3>4
  <2>6. QED
    BY <2>4, <2>5 DEF UplinkAccounted
<1>2. QED
  BY <1>1, RoutingThroughout, PTL

-----------------------------------------------------------------------------
(* One bridge connection per circuit, when bridges do not fail.            *)

\* A sender's channel is being received, and the map has the senders.
SendersHeld ==
  /\ \A r \in 1 .. Len(relay) : relay[r].sender => Receiving(r)
  /\ \A id \in DOMAIN smap : relay[smap[id]].sender

\* Nothing follows a sentinel: its circuit has stopped reading.
LastCloses == \A i, j \in 1 .. Len(uplink) :
  i < j /\ IsClose(uplink[i]) => Id(uplink[j]) # Id(uplink[i])
ClosedStops == \A i \in 1 .. Len(uplink) : IsClose(uplink[i]) =>
  \A c \in Circuits : circ[c].id = Id(uplink[i]) => circ[c].reader # "run"

\* No cell of circuit c will reach the demux loop any more.
Over(c) ==
  /\ circ[c].reader # "run"
  /\ \A i \in 1 .. Len(uplink) : IsClose(uplink[i]) \/ Source(uplink[i]) # c

\* A relay is in the map, or no other will be opened for its circuit.
Entered == \A r \in 1 .. Len(relay) :
  IF relay[r].id \in DOMAIN smap THEN smap[relay[r].id] = r
  ELSE demux.pc = "ended" \/ Over(relay[r].owner)

OneRelay == \A r, s \in 1 .. Len(relay) : relay[r].owner = relay[s].owner => r = s

OneInv == SendersHeld /\ LastCloses /\ ClosedStops /\ Entered /\ OneRelay

\* Apart from the circuits' own steps, readers go on and the uplink does not grow.
Still ==
  /\ \A c \in Circuits : circ'[c].id = circ[c].id /\ circ'[c].reader = circ[c].reader
  /\ uplink' \in Seq(Cell)
  /\ \A i \in 1 .. Len(uplink') : i \in Nat /\ \/ /\ i \in 1 .. Len(uplink) /\ uplink'[i] = uplink[i]
                                                  /\ uplink' = uplink
                                               \/ /\ i + 1 \in 1 .. Len(uplink)
                                                  /\ uplink'[i] = uplink[i + 1]
                                                  /\ uplink' = Tail(uplink)

LEMMA OtherSteps ==
  ASSUME MuxTypes, MuxTypes', [Next]_vars, ~\E c \in Circuits : Circuit(c)
  PROVE  Still
<1>1. WireTypes /\ WireTypes' /\ ClientTypes /\ circ \in [Circuits -> CircRec] /\ ServerTypes
  BY DEF MuxTypes, ClientTypes
<1>2. Len(uplink) \in Nat /\ uplink' \in Seq(Cell) /\ Len(uplink') \in Nat
  BY <1>1, LenProperties DEF WireTypes
<1>3. CASE UNCHANGED <<circ, uplink>>
  BY <1>2, <1>3 DEF Still
<1>4. CASE UNCHANGED circ /\ uplink' = <<>>
  BY <1>2, <1>4 DEF Still
<1>5. CASE UNCHANGED circ /\ uplink # <<>> /\ uplink' = Tail(uplink)
  <2>1. \A i \in 1 .. Len(uplink') : i + 1 \in 1 .. Len(uplink) /\ uplink'[i] = uplink[i + 1]
    BY <1>1, <1>5, UplinkTaken
  <2>2. QED
    BY <1>2, <1>5, <2>1 DEF Still
<1>6. CASE UNCHANGED vars \/ ReceiveFails \/ WireBreaks
  BY <1>3, <1>4, <1>6 DEF ReceiveFails, vars, clientVars, WireBreaks
<1>7. CASE Receive
  <2>1. uplink' = uplink /\ \A d \in Circuits : /\ circ'[d].id = circ[d].id
                                               /\ circ'[d].reader = circ[d].reader
    BY <1>1, <1>7, ReceiveSteps
  <2>2. QED
    BY <1>2, <2>1 DEF Still
<1>8. CASE Demux \/ DemuxFails
  <2>1. UNCHANGED circ /\ (uplink' = uplink \/ (uplink # <<>> /\ uplink' = Tail(uplink)))
    BY <1>8 DEF clientVars, Demux, DemuxClose, DemuxEcho, DemuxRoute, DemuxOpen, DemuxRefuse,
                DemuxEnds, DemuxFails, DemuxReturns, NewStream, Reading
  <2>2. QED
    BY <1>3, <1>5, <2>1
<1>9. CASE \E r \in DOMAIN relay : RelayTask(r) \/ Bridge(r)
  BY <1>1, <1>3, <1>9, RelayFrames DEF relayFrame, clientVars
<1>10. QED
  BY <1>6, <1>7, <1>8, <1>9 DEF Next

\* A circuit's first step: nobody has the id it is given.
LEMMA FreshCircuit ==
  ASSUME IdsLast, MuxTypes, AllocInv, NEW c \in Circuits, AddStream(c)
  PROVE  /\ circ[c].id = 0 /\ \A d \in Circuits : circ[d].id # circ'[c].id
         /\ \A d \in Circuits : d # c => circ'[d] = circ[d]
         /\ UNCHANGED <<uplink, serverVars>>
<1>1. ClientTypes /\ circ \in [Circuits -> CircRec]
  BY DEF MuxTypes, ClientTypes
<1>2. /\ circ[c].id = 0 /\ ScanFrom(nextId) = nextId
      /\ nextId = Cardinality(Assigned) + 1 /\ Cardinality(Assigned) \in Nat
  BY IdHandedOut
<1>3. circ'[c].id = nextId /\ UNCHANGED <<uplink, serverVars>>
  BY <1>1, <1>2, StreamAdded
<1>4. \A d \in Circuits : circ[d].id # nextId
  <2>1. \A d \in Circuits : circ[d].id \in Nat /\ circ[d].id <= Cardinality(Assigned)
    BY <1>1, MuxAssumption DEF CircRec, AllocInv
  <2>2. QED
    BY <1>2, <2>1
<1>5. \A d \in Circuits : d # c => circ'[d] = circ[d]
  BY <1>1, StreamAdded
<1>6. QED
  BY <1>2, <1>3, <1>4, <1>5

\* What a circuit that goes on does to its reader and to the uplink.
LEMMA ReaderSteps ==
  ASSUME MuxTypes, NEW c \in Circuits, Circuit(c), ~AddStream(c)
  PROVE  /\ \A d \in Circuits : circ'[d].id = circ[d].id
                                /\ (circ'[d].reader = "run" => circ[d].reader = "run")
         /\ UNCHANGED serverVars /\ Len(uplink) \in Nat
         /\ \/ uplink' = uplink
            \/ /\ circ[c].reader = "run"
               /\ \E cell \in Cell :
                    /\ uplink' = Append(uplink, cell) /\ Len(uplink') = Len(uplink) + 1
                    /\ \A i \in 1 .. Len(uplink') : \/ i \in 1 .. Len(uplink) /\ uplink'[i] = uplink[i]
                                                    \/ i = Len(uplink) + 1 /\ uplink'[i] = cell
                    /\ Id(cell) = circ[c].id
                    /\ IF IsClose(cell) THEN circ'[c].reader # "run" ELSE Source(cell) = c
<1>1. WireTypes /\ ClientTypes /\ circ \in [Circuits -> CircRec]
  BY DEF MuxTypes, ClientTypes
<1>2. PICK new : CircBecomes(c, new) /\ CircSends(c, new)
  BY <1>1, CircuitSteps
<1>3. UNCHANGED serverVars /\ Len(uplink) \in Nat
  BY <1>1, CircuitSteps, LenProperties DEF WireTypes
<1>4. circ'[c] = new /\ \A d \in Circuits : d # c => circ'[d] = circ[d]
  BY <1>1, <1>2 DEF CircBecomes
<1>5. \A d \in Circuits : circ'[d].id = circ[d].id
                          /\ (circ'[d].reader = "run" => circ[d].reader = "run")
  BY <1>2, <1>4 DEF CircBecomes
<1>6. CASE uplink' # uplink
  <2>1. circ[c].reader = "run" /\ circ[c].id \in Ids /\ circ[c].sent \in Nat /\ c \in Nat
    BY <1>1, <1>2, <1>6, MuxAssumption, SMTT(30) DEF CircSends, ClientTypes, CircRec, Circuits
  <2>2. PICK cell :
          /\ uplink' = Append(uplink, cell)
          /\ \/ cell = <<circ[c].id, c, circ[c].sent + 1>>
             \/ cell = Close(circ[c].id) /\ new.reader # "run"
    BY <1>2, <1>6 DEF CircSends
  <2>3. /\ cell \in Cell /\ Id(cell) = circ[c].id
        /\ IF IsClose(cell) THEN circ'[c].reader # "run" ELSE Source(cell) = c
    BY <1>4, <2>1, <2>2 DEF Cell, Close, Id, IsClose, Number, Source
  <2>4. /\ Len(uplink') = Len(uplink) + 1
        /\ \A i \in 1 .. Len(uplink') : \/ i \in 1 .. Len(uplink) /\ uplink'[i] = uplink[i]
                                        \/ i = Len(uplink) + 1 /\ uplink'[i] = cell
    BY <1>1, <2>2, <2>3, Appended DEF WireTypes
  <2>5. QED
    BY <1>3, <1>5, <2>1, <2>2, <2>3, <2>4
<1>7. QED
  BY <1>3, <1>5, <1>6

\* A sentinel is the last of its circuit, whose reader has stopped.
LEMMA CloseStep ==
  ASSUME IdsLast, MuxTypes, MuxTypes', RouteInv, LastCloses, ClosedStops, [Next]_vars
  PROVE  LastCloses' /\ ClosedStops'
<1> DEFINE Stopped(cell) == IsClose(cell) =>
             \A c \in Circuits : circ'[c].id = Id(cell) => circ'[c].reader # "run"
<1>1. SUFFICES /\ \A i, j \in 1 .. Len(uplink') :
                    i < j /\ IsClose(uplink'[i]) => Id(uplink'[j]) # Id(uplink'[i])
               /\ \A i \in 1 .. Len(uplink') : Stopped(uplink'[i])
  BY DEF LastCloses, ClosedStops, IsClose, Number, Id, Circuits
<1>2. ASSUME NEW i \in 1 .. Len(uplink),
             \A c \in Circuits : circ'[c].id = circ[c].id /\ (circ'[c].reader = "run" => circ[c].reader = "run")
      PROVE  Stopped(uplink[i])
  BY <1>2 DEF ClosedStops
<1>3. CASE ~\E c \in Circuits : Circuit(c)
  <2>1. Still
    BY <1>3, OtherSteps
  <2>2. ASSUME NEW i \in 1 .. Len(uplink'), NEW j \in 1 .. Len(uplink'), i < j, IsClose(uplink'[i])
        PROVE  Id(uplink'[j]) # Id(uplink'[i])
    <3>1. CASE uplink' = uplink
      BY <2>2, <3>1 DEF LastCloses
    <3>2. CASE uplink' # uplink
      <4>1. /\ i + 1 \in 1 .. Len(uplink) /\ uplink'[i] = uplink[i + 1]
            /\ j + 1 \in 1 .. Len(uplink) /\ uplink'[j] = uplink[j + 1] /\ i + 1 < j + 1
        BY <2>1, <2>2, <3>2 DEF Still
      <4>2. QED
        BY <2>2, <4>1 DEF LastCloses
    <3>3. QED
      BY <3>1, <3>2
  <2>3. ASSUME NEW i \in 1 .. Len(uplink') PROVE Stopped(uplink'[i])
    <3>1. PICK k \in 1 .. Len(uplink) : uplink'[i] = uplink[k]
      BY <2>1 DEF Still
    <3>2. Stopped(uplink[k])
      BY <1>2, <2>1 DEF Still
    <3>3. QED
      BY <3>1, <3>2
  <2>4. QED
    BY <2>2, <2>3
<1>4. ASSUME NEW c \in Circuits, AddStream(c)
      PROVE  /\ \A i, j \in 1 .. Len(uplink') :
                  i < j /\ IsClose(uplink'[i]) => Id(uplink'[j]) # Id(uplink'[i])
             /\ \A i \in 1 .. Len(uplink') : Stopped(uplink'[i])
  <2>1. /\ uplink' = uplink /\ \A d \in Circuits : circ[d].id # circ'[c].id
        /\ \A d \in Circuits : d # c => circ'[d] = circ[d]
    BY <1>4, FreshCircuit DEF RouteInv
  <2>2. \A i \in 1 .. Len(uplink) : IsClose(uplink[i]) => \E d \in Circuits : circ[d].id = Id(uplink[i])
    BY DEF RouteInv, UplinkInv
  <2>3. QED
    BY <2>1, <2>2 DEF LastCloses, ClosedStops
<1>5. ASSUME NEW c \in Circuits, Circuit(c), ~AddStream(c)
      PROVE  /\ \A i, j \in 1 .. Len(uplink') :
                  i < j /\ IsClose(uplink'[i]) => Id(uplink'[j]) # Id(uplink'[i])
             /\ \A i \in 1 .. Len(uplink') : Stopped(uplink'[i])
  <2>1. /\ \A d \in Circuits : circ'[d].id = circ[d].id
                               /\ (circ'[d].reader = "run" => circ[d].reader = "run")
        /\ Len(uplink) \in Nat
    BY <1>5, ReaderSteps
  <2>2. CASE uplink' = uplink
    BY <1>2, <2>1, <2>2 DEF LastCloses
  <2>3. CASE uplink' # uplink
    <3>1. PICK cell \in Cell :
            /\ circ[c].reader = "run" /\ Len(uplink') = Len(uplink) + 1
            /\ \A i \in 1 .. Len(uplink') : \/ i \in 1 .. Len(uplink) /\ uplink'[i] = uplink[i]
                                            \/ i = Len(uplink) + 1 /\ uplink'[i] = cell
            /\ Id(cell) = circ[c].id
            /\ IF IsClose(cell) THEN circ'[c].reader # "run" ELSE Source(cell) = c
      BY <1>5, <2>3, ReaderSteps
    <3>2. circ[c].id # 0
      BY <3>1, MuxAssumption DEF MuxTypes, ClientTypes, Ids
    <3>3. ASSUME NEW i \in 1 .. Len(uplink'), NEW j \in 1 .. Len(uplink'), i < j, IsClose(uplink'[i])
          PROVE  Id(uplink'[j]) # Id(uplink'[i])
      <4>1. i \in 1 .. Len(uplink) /\ uplink'[i] = uplink[i]
        BY <2>1, <3>1, <3>3
      <4>2. CASE j \in 1 .. Len(uplink) /\ uplink'[j] = uplink[j]
        BY <3>3, <4>1, <4>2 DEF LastCloses
      <4>3. CASE uplink'[j] = cell
        BY <3>1, <3>3, <4>1, <4>3 DEF ClosedStops
      <4>4. QED
        BY <3>1, <4>2, <4>3
    <3>4. Stopped(cell)
      BY <2>1, <3>1, <3>2 DEF RouteInv, AllocInv
    <3>5. ASSUME NEW i \in 1 .. Len(uplink') PROVE Stopped(uplink'[i])
      BY <1>2, <2>1, <3>1, <3>4
    <3>6. QED
      BY <3>3, <3>5
  <2>4. QED
    BY <2>2, <2>3
<1>6. QED
  BY <1>3, <1>4, <1>5

\* Once over, a circuit stays so.
LEMMA OverStep ==
  ASSUME IdsLast, MuxTypes, MuxTypes', RouteInv, [Next]_vars, NEW c \in Circuits, circ[c].id # 0,
         Over(c)
  PROVE  Over(c)'
<1>1. SUFFICES /\ circ'[c].reader # "run"
               /\ \A i \in 1 .. Len(uplink') : IsClose(uplink'[i]) \/ Source(uplink'[i]) # c
  BY DEF Over, IsClose, Number, Source
<1>2. CASE ~\E d \in Circuits : Circuit(d)
  <2>1. Still
    BY <1>2, OtherSteps
  <2>2. \A i \in 1 .. Len(uplink') : \E k \in 1 .. Len(uplink) : uplink'[i] = uplink[k]
    BY <2>1 DEF Still
  <2>3. QED
    BY <2>1, <2>2 DEF Over, Still
<1>3. ASSUME NEW d \in Circuits, AddStream(d)
      PROVE  /\ circ'[c].reader # "run"
             /\ \A i \in 1 .. Len(uplink') : IsClose(uplink'[i]) \/ Source(uplink'[i]) # c
  <2>1. uplink' = uplink /\ c # d /\ circ'[c] = circ[c]
    BY <1>3, FreshCircuit DEF RouteInv
  <2>2. QED
    BY <2>1 DEF Over
<1>4. ASSUME NEW d \in Circuits, Circuit(d), ~AddStream(d)
      PROVE  /\ circ'[c].reader # "run"
             /\ \A i \in 1 .. Len(uplink') : IsClose(uplink'[i]) \/ Source(uplink'[i]) # c
  <2>1. circ'[c].reader = "run" => circ[c].reader = "run"
    BY <1>4, ReaderSteps
  <2>2. CASE uplink' = uplink
    BY <2>1, <2>2 DEF Over
  <2>3. CASE uplink' # uplink
    <3>1. PICK cell \in Cell :
            /\ circ[d].reader = "run"
            /\ \A i \in 1 .. Len(uplink') : \/ i \in 1 .. Len(uplink) /\ uplink'[i] = uplink[i]
                                            \/ uplink'[i] = cell
            /\ IsClose(cell) \/ Source(cell) = d
      BY <1>4, <2>3, ReaderSteps
    <3>2. c # d
      BY <3>1 DEF Over
    <3>3. QED
      BY <2>1, <3>1, <3>2 DEF Over
  <2>4. QED
    BY <2>2, <2>3
<1>5. QED
  BY <1>2, <1>3, <1>4

\* Without bridge errors the receiving end of a channel outlives its sender.
LEMMA SendersStep ==
  ASSUME ~BridgeErrors, MuxTypes, MapInv, SendersHeld, [Next]_vars
  PROVE  SendersHeld'
<1>1. ServerTypes /\ WireTypes /\ ClientTypes /\ Len(relay) \in Nat
  BY LenProperties DEF MuxTypes, ServerTypes
<1>2. ASSUME UNCHANGED <<smap, relay>> PROVE SendersHeld'
  BY <1>2 DEF SendersHeld, Receiving
<1>3. CASE UNCHANGED vars \/ ReceiveFails \/ WireBreaks \/ Receive
  BY <1>2, <1>3 DEF ReceiveFails, vars, serverVars, WireBreaks, Receive
<1>4. ASSUME NEW c \in Circuits, Circuit(c) PROVE SendersHeld'
  BY <1>2, <1>4 DEF Circuit, AddStream, AddStreamFails, TorRead, TorEof, TorReaderFails, TorWrite,
                    TorWriterEnds, serverVars
<1>5. ASSUME NEW r \in DOMAIN relay, RelayTask(r) \/ Bridge(r) PROVE SendersHeld'
  <2>1. PICK new : Becomes(r, new) /\ Goes(new, r)
    BY <1>1, <1>5, RelaySteps
  <2>2. /\ Len(relay') = Len(relay) /\ relay'[r] = new
        /\ \A s \in 1 .. Len(relay) : s # r => relay'[s] = relay[s]
        /\ \A s \in 1 .. Len(relay) : relay'[s].sender = relay[s].sender
    BY <1>1, <2>1, RelaysAfter
  <2>3. r \in 1 .. Len(relay) /\ smap' = smap
    BY <1>1, <1>5, RelayFrames, LenProperties DEF ServerTypes, relayFrame
  <2>4. relay[r].sender => Receiving(r)
    BY <2>3 DEF SendersHeld
  <2>5. relay[r].sender => new.phase \in {"hold", "connect"} \/ new.writer = "run"
    BY <2>1, <2>4 DEF Goes
  <2>6. ASSUME NEW s \in 1 .. Len(relay), relay'[s].sender
        PROVE  relay'[s].phase \in {"hold", "connect"} \/ relay'[s].writer = "run"
    <3>1. CASE s = r
      BY <2>2, <2>5, <2>6, <3>1
    <3>2. CASE s # r
      BY <2>2, <2>6, <3>2 DEF SendersHeld, Receiving
    <3>3. QED
      BY <3>1, <3>2
  <2>7. QED
    BY <1>1, <2>2, <2>3, <2>6 DEF SendersHeld, Receiving, ServerTypes
<1>6. ASSUME NEW ids, relay' = DropSenders(ids),
             \A id \in DOMAIN smap' : id \in DOMAIN smap /\ id \notin ids /\ smap'[id] = smap[id]
      PROVE  SendersHeld'
  <2>1. /\ Len(relay') = Len(relay)
        /\ \A r \in 1 .. Len(relay) :
             /\ relay'[r].phase = relay[r].phase /\ relay'[r].writer = relay[r].writer
             /\ relay'[r].sender => relay[r].sender
             /\ relay[r].sender /\ ~relay'[r].sender => \E id \in ids \cap DOMAIN smap : smap[id] = r
    BY <1>1, <1>6, SendersDropped
  <2>2. \A r \in 1 .. Len(relay') : relay'[r].sender =>
          relay'[r].phase \in {"hold", "connect"} \/ relay'[r].writer = "run"
    BY <2>1 DEF SendersHeld, Receiving
  <2>3. ASSUME NEW id \in DOMAIN smap' PROVE relay'[smap'[id]].sender
    <3>1. id \in DOMAIN smap /\ id \notin ids /\ smap'[id] = smap[id] /\ smap[id] \in 1 .. Len(relay)
      BY <1>1, <1>6 DEF ServerTypes
    <3>2. relay[smap[id]].sender
      BY <3>1 DEF SendersHeld
    <3>3. ~\E j \in ids \cap DOMAIN smap : smap[j] = smap[id]
      BY <3>1 DEF MapInv
    <3>4. QED
      BY <2>1, <3>1, <3>2, <3>3
  <2>4. QED
    BY <2>2, <2>3 DEF SendersHeld, Receiving
<1>7. CASE Demux \/ DemuxFails
  <2>1. ASSUME NEW id, smap' = Without(smap, id), relay' = DropSenders({id}) PROVE SendersHeld'
    <3>1. \A j \in DOMAIN smap' : j \in DOMAIN smap /\ j \notin {id} /\ smap'[j] = smap[j]
      BY <2>1 DEF Without, Restrict
    <3>2. QED
      BY <1>6, <2>1, <3>1
  <2>2. CASE DemuxClose
    BY <2>1, <2>2 DEF DemuxClose
  <2>3. CASE DemuxEcho \/ DemuxRefuse
    BY <1>2, <2>3 DEF DemuxEcho, DemuxRefuse
  <2>4. CASE DemuxEnds \/ DemuxFails
    <3>1. relay' = DropSenders(DOMAIN smap) /\ DOMAIN smap' = {}
      BY <2>4 DEF DemuxEnds, DemuxFails, DemuxReturns
    <3>2. QED
      BY <1>6, <3>1
  <2>5. CASE DemuxOpen
    <3> DEFINE cell == Head(uplink)
    <3>1. /\ smap' = With(smap, Id(cell), Len(relay) + 1)
          /\ relay' = Append(relay, NewRelay(cell))
      BY <2>5 DEF DemuxOpen
    <3>2. cell \in Cell
      BY <1>1, <2>5, UplinkTaken DEF DemuxOpen, NewStream, Reading
    <3> HIDE DEF cell
    <3>3. /\ Len(relay') = Len(relay) + 1
          /\ \A s \in 1 .. Len(relay) : relay'[s] = relay[s]
          /\ \A s \in 1 .. Len(relay') : s \in 1 .. Len(relay) \/ s = Len(relay')
          /\ relay'[Len(relay')].phase \in {"hold", "connect"}
          /\ relay'[Len(relay')].sender = TRUE
      BY <1>1, <3>1, <3>2, RelayOpened
    <3>4. \A s \in 1 .. Len(relay') : relay'[s].sender =>
            relay'[s].phase \in {"hold", "connect"} \/ relay'[s].writer = "run"
      BY <3>3 DEF SendersHeld, Receiving
    <3>5. ASSUME NEW id \in DOMAIN smap' PROVE relay'[smap'[id]].sender
      <4>1. \/ smap'[id] = Len(relay')
            \/ id \in DOMAIN smap /\ smap'[id] = smap[id]
        BY <3>1, <3>3 DEF With
      <4>2. QED
        BY <1>1, <3>3, <4>1 DEF SendersHeld, ServerTypes
    <3>6. QED
      BY <3>4, <3>5 DEF SendersHeld, Receiving
  <2>6. CASE DemuxRoute
    <3> DEFINE cell == Head(uplink)
               r == smap[Id(cell)]
    <3>1. r \in 1 .. Len(relay) /\ Receiving(r)
      BY <1>1, <2>6 DEF DemuxRoute, ServerTypes, SendersHeld
    <3>2. smap' = smap /\ \/ relay' = relay
                          \/ /\ relay' = [relay EXCEPT ![r].chan = Append(@, cell)]
                             /\ ~(Len(relay[r].chan) >= ChanCap)
      BY <2>6, <3>1 DEF DemuxRoute
    <3>3. CASE relay' = relay
      BY <1>2, <3>2, <3>3
    <3>4. CASE relay' # relay
      <4>1. cell \in Cell
        BY <1>1, <2>6, UplinkTaken DEF DemuxRoute, Reading
      <4>2. Len(relay[r].chan) < ChanCap
        <5>1. relay[r] \in RelayRec
          BY <1>1, <3>1, ElementOfSeq DEF ServerTypes
        <5>2. relay[r].chan \in Seq(Cell)
          BY <5>1 DEF RelayRec
        <5>3. QED
          BY <3>2, <3>4, <5>2, LenProperties, MuxAssumption
      <4> HIDE DEF cell, r
      <4>3. /\ Len(relay') = Len(relay)
            /\ \A s \in 1 .. Len(relay) :
                 /\ relay'[s].phase = relay[s].phase /\ relay'[s].writer = relay[s].writer
                 /\ relay'[s].sender = relay[s].sender
        BY <1>1, <3>1, <3>2, <3>4, <4>1, <4>2, CellRouted
      <4>4. QED
        BY <1>1, <3>2, <4>3 DEF SendersHeld, Receiving, ServerTypes
    <3>5. QED
      BY <3>3, <3>4
  <2>7. QED
    BY <1>7, <2>2, <2>3, <2>4, <2>5, <2>6 DEF Demux
<1>8. QED
  BY <1>3, <1>4, <1>5, <1>7 DEF Next

\* What is in the map stays there until its circuit has closed.
LEMMA EnteredStep ==
  ASSUME IdsLast, MuxTypes, MuxTypes', RouteInv, OneInv, [Next]_vars
  PROVE  Entered' /\ OneRelay'
<1>1. /\ ServerTypes /\ WireTypes /\ ClientTypes /\ Len(relay) \in Nat
      /\ AllocInv /\ UplinkInv /\ RelayInv /\ MapInv
      /\ SendersHeld /\ LastCloses /\ ClosedStops /\ Entered /\ OneRelay
  BY LenProperties DEF MuxTypes, ServerTypes, RouteInv, OneInv
<1> DEFINE OverNext(c) == /\ circ'[c].reader # "run"
                          /\ \A i \in 1 .. Len(uplink') : IsClose(uplink'[i]) \/ Source(uplink'[i]) # c
           In(r) == IF relay'[r].id \in DOMAIN smap' THEN smap'[relay'[r].id] = r
                    ELSE demux'.pc = "ended" \/ OverNext(relay'[r].owner)
<1>2. ASSUME NEW r \in 1 .. Len(relay)
      PROVE  /\ relay[r].id \in Ids /\ relay[r].owner \in Circuits
             /\ circ[relay[r].owner].id = relay[r].id /\ circ[relay[r].owner].id # 0
             /\ Over(relay[r].owner) => OverNext(relay[r].owner)
  <2> DEFINE o == relay[r].owner
  <2>1. relay[r] \in RelayRec
    BY <1>1, ElementOfSeq DEF ServerTypes
  <2>2. relay[r].id \in Ids /\ o \in Circuits /\ circ[o].id = relay[r].id /\ circ[o].id # 0
    BY <1>1, <2>1, MuxAssumption, SMTT(30) DEF RelayRec, RelayInv, Ids
  <2> HIDE DEF o
  <2>3. \A c \in Circuits : circ[c].id # 0 /\ Over(c) => OverNext(c)
    BY OverStep DEF Over, IsClose, Number, Source
  <2>4. Over(o) => OverNext(o)
    BY <2>2, <2>3
  <2>5. QED
    BY <2>2, <2>4 DEF o
<1>3. (\A r \in 1 .. Len(relay') : In(r)) => Entered'
  BY DEF Entered, Over, IsClose, Number, Source
<1>4. SameRelays => OneRelay'
  BY <1>1 DEF SameRelays, OneRelay
<1>5. ASSUME SameRelays, smap' = smap, demux.pc = "ended" => demux'.pc = "ended"
      PROVE  Entered' /\ OneRelay'
  <2>1. ASSUME NEW r \in 1 .. Len(relay') PROVE In(r)
    <3>1. r \in 1 .. Len(relay) /\ relay'[r].id = relay[r].id /\ relay'[r].owner = relay[r].owner
      BY <1>5 DEF SameRelays
    <3> HIDE DEF OverNext
    <3>2. CASE relay[r].id \in DOMAIN smap
      BY <1>1, <1>5, <3>1, <3>2 DEF Entered
    <3>3. CASE relay[r].id \notin DOMAIN smap
      <4>1. demux.pc = "ended" \/ Over(relay[r].owner)
        BY <1>1, <3>1, <3>3 DEF Entered
      <4>2. demux'.pc = "ended" \/ OverNext(relay[r].owner)
        BY <1>2, <1>5, <3>1, <4>1
      <4>3. QED
        BY <1>5, <3>1, <3>3, <4>2
    <3>4. QED
      BY <3>2, <3>3
  <2>2. QED
    BY <1>3, <1>4, <1>5, <2>1
<1>6. CASE UNCHANGED vars \/ ReceiveFails \/ WireBreaks \/ Receive
  <2>1. UNCHANGED <<smap, relay, demux>>
    BY <1>6 DEF ReceiveFails, vars, serverVars, WireBreaks, Receive
  <2>2. QED
    BY <1>5, <2>1 DEF SameRelays
<1>7. ASSUME NEW c \in Circuits, Circuit(c) PROVE Entered' /\ OneRelay'
  <2>1. UNCHANGED <<smap, relay, demux>>
    BY <1>7 DEF Circuit, AddStream, AddStreamFails, TorRead, TorEof, TorReaderFails, TorWrite,
                TorWriterEnds, serverVars
  <2>2. QED
    BY <1>5, <2>1 DEF SameRelays
<1>8. ASSUME NEW r \in DOMAIN relay, RelayTask(r) \/ Bridge(r) PROVE Entered' /\ OneRelay'
  <2>1. PICK new : Becomes(r, new)
    BY <1>1, <1>8, RelaySteps
  <2>2. SameRelays
    BY <1>1, <2>1, RelaysAfter DEF SameRelays
  <2>3. UNCHANGED <<smap, demux>>
    BY <1>1, <1>8, RelayFrames DEF relayFrame
  <2>4. QED
    BY <1>5, <2>2, <2>3
<1>9. ASSUME NEW ids, relay' = DropSenders(ids) PROVE SameRelays
  BY <1>1, <1>9, SendersDropped DEF SameRelays
<1>10. CASE DemuxEcho \/ DemuxRefuse
  <2>1. UNCHANGED <<smap, relay>> /\ demux.pc # "ended"
    BY <1>10 DEF DemuxEcho, DemuxRefuse, NewStream, Reading
  <2>2. QED
    BY <1>5, <2>1 DEF SameRelays
<1>11. CASE DemuxEnds \/ DemuxFails
  <2>1. demux'.pc = "ended" /\ DOMAIN smap' = {} /\ relay' = DropSenders(DOMAIN smap)
    BY <1>11 DEF DemuxEnds, DemuxFails, DemuxReturns
  <2>2. QED
    BY <1>3, <1>4, <1>9, <2>1
<1>12. CASE DemuxRoute
  <2> DEFINE cell == Head(uplink)
             r == smap[Id(cell)]
  <2>1. r \in 1 .. Len(relay) /\ Receiving(r) /\ demux' = demux
    BY <1>1, <1>12 DEF DemuxRoute, ServerTypes, SendersHeld
  <2>2. smap' = smap /\ \/ relay' = relay
                        \/ relay' = [relay EXCEPT ![r].chan = Append(@, cell)]
    BY <1>12, <2>1 DEF DemuxRoute
  <2> HIDE DEF cell, r
  <2>3. CASE relay' = [relay EXCEPT ![r].chan = Append(@, cell)]
    <3> DEFINE new == [relay[r] EXCEPT !.chan = Append(@, cell)]
    <3>1. relay' = [relay EXCEPT ![r] = new]
      BY <1>1, <2>1, <2>3 DEF ServerTypes
    <3>2. new.id = relay[r].id /\ new.owner = relay[r].owner
      <4>1. relay[r] \in RelayRec
        BY <1>1, <2>1, ElementOfSeq DEF ServerTypes
      <4>2. QED
        BY <4>1 DEF RelayRec
    <3> HIDE DEF new
    <3>3. Len(relay') = Len(relay) /\ \A s \in 1 .. Len(relay) : relay'[s] = IF s = r THEN new ELSE relay[s]
      BY <1>1, <2>1, <3>1, ExceptSeq DEF ServerTypes
    <3>4. SameRelays
      BY <3>2, <3>3 DEF SameRelays
    <3>5. QED
      BY <1>5, <2>1, <2>2, <3>4
  <2>4. QED
    BY <1>5, <2>1, <2>2, <2>3 DEF SameRelays
<1>13. CASE DemuxClose
  <2> DEFINE cell == Head(uplink)
  <2>1. /\ SameRelays /\ smap' = Without(smap, Id(cell)) /\ IsClose(cell)
        /\ circ' = circ /\ uplink # <<>> /\ uplink' = Tail(uplink) /\ demux.pc # "ended"
    BY <1>9, <1>13 DEF DemuxClose, Reading, clientVars
  <2>2. /\ cell = uplink[1] /\ 1 \in 1 .. Len(uplink)
        /\ \A i \in 1 .. Len(uplink') : i + 1 \in 1 .. Len(uplink) /\ uplink'[i] = uplink[i + 1]
                                        /\ 1 < i + 1
    BY <1>1, <2>1, UplinkTaken
  <2> HIDE DEF cell
  <2>3. ASSUME NEW r \in 1 .. Len(relay') PROVE In(r)
    <3>1. r \in 1 .. Len(relay) /\ relay'[r].id = relay[r].id /\ relay'[r].owner = relay[r].owner
      BY <2>1 DEF SameRelays
    <3>2. CASE relay[r].id \in DOMAIN smap'
      BY <1>1, <2>1, <3>1, <3>2 DEF Entered, Without, Restrict
    <3>3. CASE relay[r].id \in DOMAIN smap /\ relay[r].id \notin DOMAIN smap'
      <4>1. relay[r].id = Id(cell)
        BY <2>1, <3>3 DEF Without, Restrict
      <4>2. circ[relay[r].owner].reader # "run"
        BY <1>1, <1>2, <2>1, <2>2, <3>1, <4>1 DEF ClosedStops
      <4>3. ASSUME NEW i \in 1 .. Len(uplink'), ~IsClose(uplink'[i])
            PROVE  Source(uplink'[i]) # relay[r].owner
        <5>1. Data(uplink[i + 1]) /\ Id(uplink[i + 1]) # Id(cell)
          BY <1>1, <2>1, <2>2, <4>3 DEF UplinkInv, LastCloses
        <5>2. QED
          BY <1>2, <2>2, <3>1, <4>1, <5>1 DEF Data
      <4>4. OverNext(relay'[r].owner)
        BY <2>1, <3>1, <4>2, <4>3
      <4>5. QED
        BY <3>1, <3>3, <4>4
    <3>4. CASE relay[r].id \notin DOMAIN smap
      <4>1. Over(relay[r].owner)
        BY <1>1, <2>1, <3>1, <3>4 DEF Entered
      <4>2. OverNext(relay'[r].owner)
        BY <1>2, <3>1, <4>1
      <4>3. relay'[r].id \notin DOMAIN smap'
        BY <2>1, <3>1, <3>4 DEF Without, Restrict
      <4>4. QED
        BY <4>2, <4>3
    <3>5. QED
      BY <3>2, <3>3, <3>4
  <2>4. QED
    BY <1>3, <1>4, <2>1, <2>3
<1>14. CASE DemuxOpen
  <2> DEFINE cell == Head(uplink)
             new == Len(relay) + 1
  <2>1. /\ smap' = With(smap, Id(cell), new) /\ relay' = Append(relay, NewRelay(cell))
        /\ Id(cell) \notin DOMAIN smap /\ demux.pc = "read" /\ ~IsClose(cell)
        /\ uplink # <<>> /\ uplink' = Tail(uplink)
    BY <1>14 DEF DemuxOpen, NewStream, Reading
  <2>2. cell \in Cell /\ cell = uplink[1] /\ 1 \in 1 .. Len(uplink)
    BY <1>1, <2>1, UplinkTaken
  <2>3. Data(cell)
    BY <1>1, <2>1, <2>2 DEF UplinkInv
  <2> HIDE DEF cell
  <2>4. /\ Len(relay') = new /\ \A s \in 1 .. Len(relay) : relay'[s] = relay[s]
        /\ relay'[new].id = Id(cell) /\ relay'[new].owner = Source(cell)
        /\ \A s \in 1 .. Len(relay') : s \in 1 .. Len(relay) \/ s = new
    BY <1>1, <2>1, <2>2, RelayOpened
  <2>5. DOMAIN smap' = DOMAIN smap \cup {Id(cell)} /\ smap'[Id(cell)] = new
        /\ \A id \in DOMAIN smap : smap'[id] = smap[id]
    BY <2>1 DEF With
  <2>6. ASSUME NEW r \in 1 .. Len(relay) PROVE relay[r].owner # Source(cell)
    <3>1. SUFFICES ASSUME relay[r].owner = Source(cell) PROVE FALSE
      OBVIOUS
    <3>2. relay[r].id = Id(cell)
      BY <1>2, <2>3, <3>1 DEF Data
    <3>3. Over(relay[r].owner)
      BY <1>1, <2>1, <3>2 DEF Entered
    <3>4. QED
      BY <2>1, <2>2, <3>1, <3>3 DEF Over
  <2>7. OneRelay'
    BY <1>1, <2>4, <2>6 DEF OneRelay
  <2>8. ASSUME NEW r \in 1 .. Len(relay) PROVE In(r)
    <3>1. relay'[r] = relay[r] /\ relay[r].id # Id(cell)
      <4>1. relay[r].id = Id(cell) => relay[r].owner = Source(cell)
        BY <1>1, <1>2, <2>3 DEF Data, AllocInv
      <4>2. QED
        BY <2>4, <2>6, <4>1
    <3> HIDE DEF OverNext
    <3>2. CASE relay[r].id \in DOMAIN smap
      BY <1>1, <2>5, <3>1, <3>2 DEF Entered
    <3>3. CASE relay[r].id \notin DOMAIN smap
      <4>1. Over(relay[r].owner)
        BY <1>1, <2>1, <3>3 DEF Entered
      <4>2. OverNext(relay[r].owner)
        BY <1>2, <4>1
      <4>3. QED
        BY <2>5, <3>1, <3>3, <4>2
    <3>4. QED
      BY <3>2, <3>3
  <2>9. In(new)
    BY <2>4, <2>5
  <2>10. \A r \in 1 .. Len(relay') : In(r)
    BY <2>4, <2>8, <2>9
  <2>11. QED
    BY <1>3, <2>7, <2>10
<1>15. QED
  BY <1>6, <1>7, <1>8, <1>10, <1>11, <1>12, <1>13, <1>14 DEF Next, Demux

LEMMA OneInit == Init => OneInv
<1> SUFFICES ASSUME Init PROVE OneInv
  OBVIOUS
<1>1. Len(uplink) = 0 /\ Len(relay) = 0 /\ DOMAIN smap = {}
  BY DEF Init
<1>2. QED
  BY <1>1 DEF OneInv, SendersHeld, LastCloses, ClosedStops, Entered, OneRelay

\* Without bridge errors a circuit has one bridge connection for its whole life, even
\* after one of its directions has ended, whatever the caps and the other failures.
THEOREM OneConnection ==
  ASSUME IdsLast, ~BridgeErrors
  PROVE  Spec => []OneBridgePerCircuit
<1>1. ASSUME MuxInv, OneInv, [Next]_vars PROVE MuxInv' /\ OneInv'
  <2>1. MuxTypes /\ MuxTypes' /\ RouteInv /\ MapInv /\ MuxInv'
    BY <1>1, MuxStep DEF MuxInv, RouteInv
  <2>2. LastCloses' /\ ClosedStops'
    BY <1>1, <2>1, CloseStep DEF OneInv
  <2>3. SendersHeld'
    BY <1>1, <2>1, SendersStep DEF OneInv
  <2>4. Entered' /\ OneRelay'
    BY <1>1, <2>1, EnteredStep
  <2>5. QED
    BY <2>1, <2>2, <2>3, <2>4 DEF OneInv
<1>2. MuxInv /\ OneInv => OneBridgePerCircuit
  <2> SUFFICES ASSUME MuxInv, OneInv PROVE OneBridgePerCircuit
    OBVIOUS
  <2>1. DOMAIN relay = 1 .. Len(relay)
    BY LenProperties DEF MuxInv, MuxTypes, ServerTypes
  <2>2. QED
    BY <2>1 DEF OneInv, OneRelay, OneBridgePerCircuit
<1>3. Init => MuxInv /\ OneInv
  BY MuxInit, OneInit
<1>4. MuxInv /\ OneInv /\ [Next]_vars => (MuxInv /\ OneInv)'
  BY <1>1
<1>5. QED
  BY <1>2, <1>3, <1>4, PTL DEF Spec
========================================
