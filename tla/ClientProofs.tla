----------------------------- MODULE ClientProofs -----------------------------
(***************************************************************************)
(* Proofs about the client process: the walk of the shared emitter over its*)
(* flows, the wires the manager keeps and the circuits on them, for any    *)
(* number of connections, bridges, requests and wires.                     *)
(***************************************************************************)
EXTENDS Client, SequenceTheorems, TLAPS

-----------------------------------------------------------------------------
(* The emitter thread.                                                     *)

EmitterTypes ==
  /\ reg \in Seq(Nat) /\ flows \in Seq(Nat) /\ at \in Nat
  /\ loop \in {"admit", "service", "stopped"}

\* A flow is registered once, and is in the channel or in the vector.
FlowsDistinct ==
  /\ \A i, j \in 1 .. Len(flows) : flows[i] = flows[j] => i = j
  /\ \A i, j \in 1 .. Len(reg) : reg[i] = reg[j] => i = j
  /\ \A i \in 1 .. Len(flows), j \in 1 .. Len(reg) : flows[i] # reg[j]

\* During a tick the flows before the index are the ones that have been serviced, and
\* so are those that have left the vector.
WalkInv ==
  /\ \A f \in DOMAIN calls : calls[f] \in 0 .. 1
  /\ loop = "service" =>
       /\ at \in 1 .. Len(flows) + 1
       /\ \A i \in 1 .. Len(flows) :
            flows[i] \in DOMAIN calls /\ calls[flows[i]] = IF i < at THEN 1 ELSE 0
       /\ \A f \in DOMAIN calls : (\A i \in 1 .. Len(flows) : flows[i] # f) => calls[f] = 1
  /\ loop = "admit" => \A f \in DOMAIN calls : calls[f] = 1
  /\ loop = "stopped" => reg = <<>> /\ flows = <<>>

EmInv == EmitterTypes /\ FlowsDistinct /\ WalkInv

\* The members of a sequence.
LEMMA Members ==
  ASSUME NEW s \in Seq(Nat), NEW f
  PROVE  f \in ToSet(s) <=> \E i \in 1 .. Len(s) : s[i] = f
<1>1. DOMAIN s = 1 .. Len(s)
  BY LenProperties
<1>2. QED
  BY <1>1 DEF ToSet

\* swap_remove: the last element stands at the place of the removed one.
LEMMA SwapRemoved ==
  ASSUME NEW s \in Seq(Nat), NEW i \in 1 .. Len(s)
  PROVE  /\ SwapRemove(s, i) \in Seq(Nat)
         /\ Len(SwapRemove(s, i)) = Len(s) - 1
         /\ \A j \in 1 .. Len(s) - 1 :
              SwapRemove(s, i)[j] = IF j = i THEN s[Len(s)] ELSE s[j]
<1>1. Len(s) \in Nat /\ Len(s) \in 1 .. Len(s)
  BY LenProperties
<1>2. s[Len(s)] \in Nat
  BY <1>1, ElementOfSeq
<1> DEFINE t == [s EXCEPT ![i] = s[Len(s)]]
<1>3. /\ t \in Seq(Nat) /\ Len(t) = Len(s)
      /\ \A j \in 1 .. Len(s) : t[j] = IF j = i THEN s[Len(s)] ELSE s[j]
  BY <1>2, ExceptSeq
<1>4. SwapRemove(s, i) = SubSeq(t, 1, Len(s) - 1)
  BY <1>3 DEF SwapRemove, Front, Last
<1> HIDE DEF t
<1>5. \A j \in 1 .. Len(s) - 1 : t[j] \in Nat
  BY <1>1, <1>3, ElementOfSeq
<1>6. /\ SubSeq(t, 1, Len(s) - 1) \in Seq(Nat)
      /\ Len(SubSeq(t, 1, Len(s) - 1)) = Len(s) - 1
      /\ \A j \in 1 .. Len(s) - 1 : SubSeq(t, 1, Len(s) - 1)[j] = t[j]
  <2> DEFINE m == Len(s) - 1
  <2>1. m \in Nat /\ 1 \in Int /\ m \in Int
    BY <1>1
  <2>2. \A j \in 1 .. m : t[j] \in Nat
    BY <1>5
  <2> HIDE DEF m
  <2>3. /\ SubSeq(t, 1, m) \in Seq(Nat)
        /\ Len(SubSeq(t, 1, m)) = IF 1 <= m THEN m - 1 + 1 ELSE 0
        /\ \A j \in 1 .. m - 1 + 1 : SubSeq(t, 1, m)[j] = t[1 + j - 1]
    BY <2>1, <2>2, SubSeqProperties
  <2>4. \A j \in 1 .. m : SubSeq(t, 1, m)[j] = t[j]
    <3>1. ASSUME NEW j \in 1 .. m PROVE SubSeq(t, 1, m)[j] = t[j]
      <4>1. j \in 1 .. m - 1 + 1 /\ 1 + j - 1 = j
        BY <2>1
      <4>2. QED
        BY <2>3, <4>1
    <3>2. QED
      BY <3>1
  <2>5. Len(SubSeq(t, 1, m)) = m
    BY <2>1, <2>3
  <2>6. QED
    BY <2>3, <2>4, <2>5 DEF m
<1>7. QED
  BY <1>1, <1>3, <1>4, <1>6

\* Flow n, which was unknown, is registered.
LEMMA RegisterKeeps ==
  ASSUME EmInv, NEW n \in Nat, ~Slotted(n), RegisterFlow(n),
         UNCHANGED <<flows, at, loop, calls>>
  PROVE  EmInv' /\ \A f : Slotted(f)' => Slotted(f) \/ f = n
<1>1. EmitterTypes /\ FlowsDistinct /\ WalkInv
  BY DEF EmInv
<1>2. reg \in Seq(Nat) /\ flows \in Seq(Nat)
  BY <1>1 DEF EmitterTypes
<1>3. CASE loop = "stopped"
  <2>1. UNCHANGED <<reg, flows, at, loop, calls>>
    BY <1>3 DEF RegisterFlow
  <2>2. QED
    BY <1>1, <2>1 DEF EmInv, EmitterTypes, FlowsDistinct, WalkInv, Slotted, ToSet
<1>4. CASE loop # "stopped"
  <2>1. reg' = Append(reg, n)
    BY <1>4 DEF RegisterFlow
  <2>2. /\ reg' \in Seq(Nat) /\ Len(reg) \in Nat /\ Len(reg') = Len(reg) + 1
        /\ \A i \in 1 .. Len(reg) : reg'[i] = reg[i]
        /\ reg'[Len(reg) + 1] = n
    BY <1>2, <2>1, AppendProperties, LenProperties
  <2>3. /\ \A i \in 1 .. Len(reg) : reg[i] # n
        /\ \A i \in 1 .. Len(flows) : flows[i] # n
    BY <1>2, Members DEF Slotted
  <2>4. FlowsDistinct'
    <3>1. \A i \in 1 .. Len(reg') : i \in 1 .. Len(reg) \/ i = Len(reg) + 1
      BY <2>2
    <3>2. \A i, j \in 1 .. Len(reg') : reg'[i] = reg'[j] => i = j
      BY <1>1, <2>2, <2>3, <3>1 DEF FlowsDistinct
    <3>3. \A i \in 1 .. Len(flows), j \in 1 .. Len(reg') : flows[i] # reg'[j]
      BY <1>1, <2>2, <2>3, <3>1 DEF FlowsDistinct
    <3>4. QED
      BY <1>1, <3>2, <3>3 DEF FlowsDistinct
  <2>5. EmitterTypes' /\ WalkInv'
    BY <1>1, <1>4, <2>2 DEF EmitterTypes, WalkInv
  <2>6. ASSUME NEW f, Slotted(f)' PROVE Slotted(f) \/ f = n
    <3>1. f \in ToSet(reg') \/ f \in ToSet(flows)
      BY <2>6 DEF Slotted
    <3>2. CASE f \in ToSet(flows)
      BY <3>2 DEF Slotted
    <3>3. CASE f \in ToSet(reg')
      <4>1. PICK i \in 1 .. Len(reg') : reg'[i] = f
        BY <2>2, <3>3, Members
      <4>2. CASE i \in 1 .. Len(reg)
        BY <1>2, <2>2, <4>1, <4>2, Members DEF Slotted
      <4>3. CASE i = Len(reg) + 1
        BY <2>2, <4>1, <4>3
      <4>4. QED
        BY <2>2, <4>2, <4>3
    <3>4. QED
      BY <3>1, <3>2, <3>3
  <2>7. QED
    BY <2>4, <2>5, <2>6 DEF EmInv
<1>5. QED
  BY <1>3, <1>4

\* Every registered flow goes to the end of the vector, and a tick begins.
LEMMA AdmitKeeps ==
  ASSUME EmInv, Admit
  PROVE  EmInv' /\ \A f : Slotted(f)' => Slotted(f)
<1>1. EmitterTypes /\ FlowsDistinct /\ WalkInv
  BY DEF EmInv
<1>2. reg \in Seq(Nat) /\ flows \in Seq(Nat)
  BY <1>1 DEF EmitterTypes
<1>3. /\ flows' = flows \o reg /\ reg' = <<>> /\ loop = "admit"
  BY DEF Admit
<1>4. /\ flows' \in Seq(Nat) /\ Len(flows') = Len(flows) + Len(reg)
      /\ \A i \in 1 .. Len(flows) + Len(reg) :
           flows'[i] = IF i <= Len(flows) THEN flows[i] ELSE reg[i - Len(flows)]
      /\ Len(flows) \in Nat /\ Len(reg) \in Nat
  BY <1>2, <1>3, ConcatProperties, LenProperties
<1>5. reg' \in Seq(Nat) /\ Len(reg') = 0
  BY <1>3, EmptySeq
<1>6. FlowsDistinct'
  <2>1. ASSUME NEW i \in 1 .. Len(flows'), NEW j \in 1 .. Len(flows'), flows'[i] = flows'[j]
        PROVE  i = j
    <3>1. CASE i <= Len(flows) /\ j <= Len(flows)
      BY <1>1, <1>4, <2>1, <3>1, SMTT(30) DEF FlowsDistinct
    <3>2. CASE i > Len(flows) /\ j > Len(flows)
      <4>1. i - Len(flows) \in 1 .. Len(reg) /\ j - Len(flows) \in 1 .. Len(reg)
        BY <1>4, <3>2
      <4>2. reg[i - Len(flows)] = reg[j - Len(flows)]
        BY <1>4, <2>1, <3>2
      <4>3. i - Len(flows) = j - Len(flows)
        BY <1>1, <4>1, <4>2 DEF FlowsDistinct
      <4>4. QED
        BY <1>4, <4>3
    <3>3. CASE i <= Len(flows) /\ j > Len(flows)
      <4>1. j - Len(flows) \in 1 .. Len(reg) /\ i \in 1 .. Len(flows)
        BY <1>4, <3>3
      <4>2. flows[i] = reg[j - Len(flows)]
        BY <1>4, <2>1, <3>3
      <4>3. QED
        BY <1>1, <4>1, <4>2 DEF FlowsDistinct
    <3>4. CASE i > Len(flows) /\ j <= Len(flows)
      <4>1. i - Len(flows) \in 1 .. Len(reg) /\ j \in 1 .. Len(flows)
        BY <1>4, <3>4
      <4>2. flows[j] = reg[i - Len(flows)]
        BY <1>4, <2>1, <3>4
      <4>3. QED
        BY <1>1, <4>1, <4>2 DEF FlowsDistinct
    <3>5. QED
      BY <1>4, <3>1, <3>2, <3>3, <3>4
  <2>2. QED
    BY <1>5, <2>1 DEF FlowsDistinct
<1>7. EmitterTypes' /\ WalkInv'
  <2>1. CASE ~handle /\ flows' = <<>>
    BY <1>1, <1>3, <1>4, <1>5, <2>1 DEF Admit, EmitterTypes, WalkInv
  <2>2. CASE ~(~handle /\ flows' = <<>>)
    <3>1. at' = 1 /\ loop' = "service" /\ calls' = [f \in ToSet(flows') |-> 0]
      BY <2>2 DEF Admit
    <3>2. DOMAIN calls' = ToSet(flows') /\ \A f \in DOMAIN calls' : calls'[f] = 0
      BY <3>1
    <3>3. \A i \in 1 .. Len(flows') : flows'[i] \in ToSet(flows')
      BY <1>4, Members
    <3>4. \A f \in DOMAIN calls' : \E i \in 1 .. Len(flows') : flows'[i] = f
      BY <1>4, <3>2, Members
    <3>5. \A i \in 1 .. Len(flows') : ~(i < at')
      BY <3>1
    <3>6. WalkInv'
      BY <1>4, <3>1, <3>2, <3>3, <3>4, <3>5 DEF WalkInv
    <3>7. QED
      BY <1>4, <1>5, <3>1, <3>6 DEF EmitterTypes
  <2>3. QED
    BY <2>1, <2>2
<1>8. ASSUME NEW f, Slotted(f)' PROVE Slotted(f)
  <2>1. \A i : ~(i \in 1 .. Len(reg'))
    BY <1>5
  <2>2. f \in ToSet(flows')
    BY <1>5, <1>8, <2>1, Members DEF Slotted
  <2>3. PICK i \in 1 .. Len(flows') : flows'[i] = f
    BY <1>4, <2>2, Members
  <2>4. CASE i <= Len(flows)
    <3>1. i \in 1 .. Len(flows) /\ flows[i] = f
      BY <1>4, <2>3, <2>4
    <3>2. QED
      BY <1>2, <3>1, Members DEF Slotted
  <2>5. CASE i > Len(flows)
    <3>1. i - Len(flows) \in 1 .. Len(reg) /\ reg[i - Len(flows)] = f
      BY <1>4, <2>3, <2>5
    <3>2. QED
      BY <1>2, <3>1, Members DEF Slotted
  <2>6. QED
    BY <1>4, <2>4, <2>5
<1>9. QED
  BY <1>6, <1>7, <1>8 DEF EmInv

\* One turn of the loop: the flow at the index has been serviced, and the flows that
\* have not been are behind the index, also when the last one has been moved.
LEMMA ServiceKeeps ==
  ASSUME EmInv, Service
  PROVE  EmInv' /\ \A f : Slotted(f)' => Slotted(f)
<1>1. EmitterTypes /\ FlowsDistinct /\ WalkInv
  BY DEF EmInv
<1>2. reg \in Seq(Nat) /\ flows \in Seq(Nat) /\ Len(flows) \in Nat /\ at \in 1 .. Len(flows)
  BY <1>1, LenProperties DEF EmitterTypes, WalkInv, Service
<1>3. loop = "service" /\ loop' = "service" /\ reg' = reg
  BY DEF Service
<1>4. /\ flows[at] \in DOMAIN calls /\ calls[flows[at]] = 0
      /\ calls' = [calls EXCEPT ![flows[at]] = calls[flows[at]] + 1]
  BY <1>1, <1>2, <1>3 DEF WalkInv, Service
<1>5. DOMAIN calls' = DOMAIN calls
      /\ \A f \in DOMAIN calls : calls'[f] = IF f = flows[at] THEN 1 ELSE calls[f]
  BY <1>4
<1>6. /\ \A i \in 1 .. Len(flows) : flows[i] \in DOMAIN calls
      /\ \A i \in 1 .. Len(flows) : calls'[flows[i]] = IF i <= at THEN 1 ELSE 0
      /\ \A f \in DOMAIN calls : (\A i \in 1 .. Len(flows) : flows[i] # f) => calls'[f] = 1
  BY <1>1, <1>2, <1>3, <1>5 DEF WalkInv, FlowsDistinct
<1>7. \A f \in DOMAIN calls' : calls'[f] \in 0 .. 1
  BY <1>1, <1>5 DEF WalkInv
<1>8. CASE flows[at] \notin over
  <2>1. flows' = flows /\ at' = at + 1
    BY <1>8 DEF Service
  <2>2. WalkInv'
    <3>1. at' \in 1 .. Len(flows') + 1 /\ \A i \in 1 .. Len(flows) : i < at' <=> i <= at
      BY <1>2, <2>1
    <3>2. \A i \in 1 .. Len(flows') :
            flows'[i] \in DOMAIN calls' /\ calls'[flows'[i]] = IF i < at' THEN 1 ELSE 0
      BY <1>5, <1>6, <2>1, <3>1
    <3>3. \A f \in DOMAIN calls' : (\A i \in 1 .. Len(flows') : flows'[i] # f) => calls'[f] = 1
      BY <1>5, <1>6, <2>1
    <3>4. QED
      BY <1>3, <1>7, <3>1, <3>2, <3>3 DEF WalkInv
  <2>3. QED
    BY <1>1, <1>2, <1>3, <2>1, <2>2 DEF EmInv, EmitterTypes, FlowsDistinct, Slotted, ToSet
<1>9. CASE flows[at] \in over
  <2>1. flows' = SwapRemove(flows, at) /\ at' = at
    BY <1>9 DEF Service
  <2>2. /\ flows' \in Seq(Nat) /\ Len(flows') = Len(flows) - 1
        /\ \A j \in 1 .. Len(flows') : flows'[j] = IF j = at THEN flows[Len(flows)] ELSE flows[j]
    BY <1>2, <2>1, SwapRemoved, ZenonT(30)
  <2>3. \A j \in 1 .. Len(flows') : \E k \in 1 .. Len(flows) :
          /\ flows'[j] = flows[k] /\ k # at
          /\ (j < at => k = j) /\ (j >= at => k > at)
    <3>1. ASSUME NEW j \in 1 .. Len(flows')
          PROVE  \E k \in 1 .. Len(flows) :
                   /\ flows'[j] = flows[k] /\ k # at
                   /\ (j < at => k = j) /\ (j >= at => k > at)
      <4>1. CASE j = at
        <5>1. Len(flows) \in 1 .. Len(flows) /\ Len(flows) > at
          BY <1>2, <2>2, <4>1
        <5>2. QED
          BY <2>2, <4>1, <5>1
      <4>2. CASE j # at
        <5>1. flows'[j] = flows[j] /\ j \in 1 .. Len(flows)
          BY <1>2, <2>2, <4>2
        <5>2. (j < at => j = j) /\ (j >= at => j > at)
          BY <1>2, <2>2, <4>2
        <5>3. QED
          BY <4>2, <5>1, <5>2
      <4>3. QED
        BY <4>1, <4>2
    <3>2. QED
      BY <3>1
  <2>4. FlowsDistinct'
    <3>1. ASSUME NEW i \in 1 .. Len(flows'), NEW j \in 1 .. Len(flows'), flows'[i] = flows'[j]
          PROVE  i = j
      <4>1. Len(flows) \in 1 .. Len(flows) /\ i \in 1 .. Len(flows) /\ j \in 1 .. Len(flows)
            /\ i # Len(flows) /\ j # Len(flows)
        BY <1>2, <2>2, SMTT(30)
      <4>2. CASE i = at /\ j # at
        BY <1>1, <2>2, <3>1, <4>1, <4>2 DEF FlowsDistinct
      <4>3. CASE i # at /\ j = at
        BY <1>1, <2>2, <3>1, <4>1, <4>3 DEF FlowsDistinct
      <4>4. CASE i # at /\ j # at
        BY <1>1, <2>2, <3>1, <4>1, <4>4 DEF FlowsDistinct
      <4>5. QED
        BY <4>2, <4>3, <4>4
    <3>2. \A i \in 1 .. Len(flows'), j \in 1 .. Len(reg') : flows'[i] # reg'[j]
      BY <1>1, <1>3, <2>3 DEF FlowsDistinct
    <3>3. \A i, j \in 1 .. Len(reg') : reg'[i] = reg'[j] => i = j
      BY <1>1, <1>3 DEF FlowsDistinct
    <3>4. QED
      BY <3>1, <3>2, <3>3 DEF FlowsDistinct
  <2>5. WalkInv'
    <3>1. at' \in 1 .. Len(flows') + 1
      BY <1>2, <2>1, <2>2
    <3>2. ASSUME NEW i \in 1 .. Len(flows')
          PROVE  flows'[i] \in DOMAIN calls' /\ calls'[flows'[i]] = IF i < at' THEN 1 ELSE 0
      <4>1. PICK k \in 1 .. Len(flows) : /\ flows'[i] = flows[k] /\ k # at
                                         /\ (i < at => k = i) /\ (i >= at => k > at)
        BY <2>3
      <4>2. QED
        BY <1>2, <1>5, <1>6, <2>1, <2>2, <4>1, SMTT(30)
    <3>3. ASSUME NEW f \in DOMAIN calls', \A i \in 1 .. Len(flows') : flows'[i] # f
          PROVE  calls'[f] = 1
      <4>1. CASE f = flows[at]
        BY <1>4, <1>5, <4>1
      <4>2. CASE \A i \in 1 .. Len(flows) : flows[i] # f
        BY <1>5, <1>6, <4>2
      <4>3. CASE \E i \in 1 .. Len(flows) : flows[i] = f /\ i # at
        <5>1. PICK i \in 1 .. Len(flows) : flows[i] = f /\ i # at
          BY <4>3
        <5>2. CASE i = Len(flows)
          <6>1. at \in 1 .. Len(flows') /\ flows'[at] = f
            BY <1>2, <2>2, <5>1, <5>2
          <6>2. QED
            BY <3>3, <6>1
        <5>3. CASE i # Len(flows)
          <6>1. i \in 1 .. Len(flows') /\ flows'[i] = f
            BY <1>2, <2>2, <5>1, <5>3
          <6>2. QED
            BY <3>3, <6>1
        <5>4. QED
          BY <5>2, <5>3
      <4>4. QED
        BY <1>2, <4>1, <4>2, <4>3
    <3>4. QED
      BY <1>3, <1>7, <3>1, <3>2, <3>3 DEF WalkInv
  <2>6. ASSUME NEW f, Slotted(f)' PROVE Slotted(f)
    <3>1. CASE f \in ToSet(flows')
      <4>1. PICK j \in 1 .. Len(flows') : flows'[j] = f
        BY <2>2, <3>1, Members
      <4>2. \E k \in 1 .. Len(flows) : flows[k] = f
        BY <2>3, <4>1
      <4>3. QED
        BY <1>2, <4>2, Members DEF Slotted
    <3>2. QED
      BY <1>3, <2>6, <3>1 DEF Slotted
  <2>7. QED
    BY <1>2, <1>3, <2>1, <2>2, <2>4, <2>5, <2>6 DEF EmInv, EmitterTypes
<1>10. QED
  BY <1>8, <1>9

\* Every step of the thread keeps the invariant and creates no flow.
LEMMA EmitterKeeps ==
  ASSUME EmInv, EmitterStep
  PROVE  EmInv' /\ \A f : Slotted(f)' => Slotted(f)
<1>1. CASE TickEnds
  <2>1. UNCHANGED <<reg, flows, at, calls>> /\ loop' = "admit" /\ loop = "service" /\ at > Len(flows)
    BY <1>1 DEF TickEnds
  <2>2. EmitterTypes /\ FlowsDistinct /\ WalkInv
    BY DEF EmInv
  <2>3. \A i \in 1 .. Len(flows) : i < at
    BY <2>1, <2>2, LenProperties DEF EmitterTypes
  <2>4. \A f \in DOMAIN calls : calls[f] = 1
    BY <2>1, <2>2, <2>3 DEF WalkInv
  <2>5. QED
    BY <2>1, <2>2, <2>4 DEF EmInv, EmitterTypes, FlowsDistinct, WalkInv, Slotted
<1>2. QED
  BY <1>1, AdmitKeeps, ServiceKeeps DEF EmitterStep

-----------------------------------------------------------------------------
(* The wire manager and its circuits.                                      *)

Labels == {"none", "negotiate", "userpass", "target", "lock", "connect", "stream", "run",
           "orphan", "up", "ended", "failed"}

\* A wire that was connected: the bridge at the address has proved its identity.
ProvedWire == {[server |-> a, key |-> KeyAt[a]] : a \in Servers}

ClientTypes ==
  /\ mode \in {"managed", "raw", "single"}
  /\ pc \in [Tasks -> Labels]
  /\ DOMAIN ask = Tasks /\ \A t \in Tasks : DOMAIN ask[t] = {"server", "key"}
  /\ DOMAIN req = Circuits
  /\ queue \in Seq(Tasks)
  /\ wires \in Seq(ProvedWire)
  /\ map \in [Servers -> 0 .. Len(wires)]
  /\ on \in [Circuits -> 0 .. Len(wires)]

\* The emitter carries flows of connected wires only.
FlowsDialled == \A f \in ToSet(reg) \cup ToSet(flows) : f \in 1 .. Len(wires)

\* Who queues for the mutex wants a wire, and who connects has the mutex.
QueueInv ==
  /\ \A i, j \in 1 .. Len(queue) : queue[i] = queue[j] => i = j
  /\ \A i \in 1 .. Len(queue) : pc[queue[i]] \in {"lock", "connect"}
  /\ \A t \in Tasks : pc[t] = "connect" /\ mode # "single" => Holds(t)
  /\ \A t \in Tasks : pc[t] \in {"lock", "connect"} => ask[t].server \in Servers

\* A connection of its own: one task, one wire.
SingleInv == mode = "single" =>
  /\ queue = <<>> /\ Len(wires) <= 1
  /\ handle => wires = <<>>
  /\ \A t, u \in Tasks : pc[t] # "none" /\ pc[u] # "none" => t = u
  /\ \A t \in Tasks : pc[t] = "connect" => wires = <<>>
  /\ \A t \in Tasks : pc[t] \in {"none", "connect", "run", "orphan", "ended", "failed"}
  /\ pc[Prewarm] = "none"

\* The map has every live wire, and the one who connects knows that there is none.
WiresInv == mode # "single" =>
  /\ \A w \in 1 .. Len(wires) : Alive(w) => map[wires[w].server] = w
  /\ \A a \in Servers : map[a] # 0 => wires[map[a]].server = a
  /\ \A t \in Tasks : pc[t] = "connect" =>
       \A w \in 1 .. Len(wires) : Alive(w) => wires[w].server # ask[t].server

\* A circuit is on a wire to the bridge it asked for, and asks with its cert.
CircuitInv ==
  /\ \A c \in Circuits : pc[c] \in {"stream", "run"} =>
       on[c] \in 1 .. Len(wires) /\ wires[on[c]].server = ask[c].server
  /\ mode = "managed" => \A c \in Circuits :
       pc[c] \in {"target", "lock"} /\ req[c].cert # None /\ "userpass" \in req[c].methods
         => ask[c].key = req[c].cert
  /\ \A c \in Circuits : pc[c] = "userpass" => "userpass" \in req[c].methods

ClientInv ==
  EmInv /\ ClientTypes /\ FlowsDialled /\ QueueInv /\ SingleInv /\ WiresInv /\ CircuitInv

LEMMA ClientInitially == ClientInit => ClientInv
<1> SUFFICES ASSUME ClientInit PROVE ClientInv
  OBVIOUS
<1> USE ClientAssumption
<1>1. reg = <<>> /\ flows = <<>> /\ calls = <<>> /\ at = 1 /\ loop = "admit" /\ handle = TRUE
  BY DEF ClientInit, EmitterInit
<1>2. <<>> \in Seq(Nat) /\ Len(<<>>) = 0
  OBVIOUS
<1>3. EmInv
  <2>1. EmitterTypes /\ FlowsDistinct
    BY <1>1, <1>2 DEF EmitterTypes, FlowsDistinct
  <2>2. WalkInv
    BY <1>1 DEF WalkInv
  <2>3. QED
    BY <2>1, <2>2 DEF EmInv
<1>4. \A f : ~Slotted(f)
  <2>1. ToSet(<<>>) = {}
    BY DEF ToSet
  <2>2. QED
    BY <1>1, <2>1 DEF Slotted
<1>5. RawServer \in Servers
  BY DEF RawServer
<1>6. wires = <<>> /\ map = [a \in Servers |-> 0] /\ on = [c \in Circuits |-> 0] /\ mode \in Modes
  BY DEF ClientInit
<1>7. Prewarm \in Tasks /\ Prewarm \notin Circuits
  BY DEF Tasks, Prewarm
<1>8. /\ \A t \in Tasks : pc[t] = IF t = Prewarm /\ mode = "raw" THEN "lock" ELSE "none"
      /\ queue = IF mode = "raw" THEN <<Prewarm>> ELSE <<>>
  BY DEF ClientInit
<1>9. ClientTypes
  <2>1. pc \in [Tasks -> Labels] /\ queue \in Seq(Tasks)
    BY <1>7 DEF ClientInit, Labels
  <2>2. DOMAIN ask = Tasks /\ \A t \in Tasks : DOMAIN ask[t] = {"server", "key"}
    BY DEF ClientInit, NoAsk
  <2>3. QED
    BY <1>6, <2>1, <2>2 DEF ClientTypes, ClientInit
<1>10. QueueInv
  <2>1. \A t \in Tasks : pc[t] \in {"lock", "connect"} => ask[t].server \in Servers
    BY <1>5 DEF ClientInit
  <2>2. \A i, j \in 1 .. Len(queue) : queue[i] = queue[j] => i = j
    BY <1>8
  <2>3. \A i \in 1 .. Len(queue) : pc[queue[i]] \in {"lock", "connect"}
    BY <1>7, <1>8
  <2>4. QED
    BY <1>8, <2>1, <2>2, <2>3 DEF QueueInv
<1>11. SingleInv /\ WiresInv /\ CircuitInv
  BY <1>1, <1>6, <1>7, <1>8 DEF SingleInv, WiresInv, CircuitInv, Tasks
<1>12. QED
  BY <1>3, <1>4, <1>9, <1>10, <1>11 DEF ClientInv, FlowsDialled, Slotted

\* A step that leaves the emitter and the wires alone.
LEMMA EmitterQuiet ==
  ASSUME EmInv, FlowsDialled, UNCHANGED <<reg, flows, at, loop, calls, wires>>
  PROVE  EmInv' /\ FlowsDialled' /\ \A f : Slotted(f)' <=> Slotted(f)
BY DEF EmInv, EmitterTypes, FlowsDistinct, WalkInv, FlowsDialled, Slotted, ToSet

\* A task that neither waits for the mutex nor has it goes on to where it does not
\* either.
LEMMA AwayFromQueue ==
  ASSUME ClientInv, NEW c \in Circuits, NEW l \in Labels \ {"lock", "connect"},
         pc[c] \notin {"lock", "connect"}, pc' = [pc EXCEPT ![c] = l],
         \A t \in Tasks : t # c => ask'[t] = ask[t],
         UNCHANGED <<mode, queue, wires, map>>, \A f : Slotted(f)' => Slotted(f)
  PROVE  pc' \in [Tasks -> Labels] /\ QueueInv' /\ WiresInv'
<1>1. pc \in [Tasks -> Labels] /\ c \in Tasks /\ queue \in Seq(Tasks)
  BY DEF ClientInv, ClientTypes, Tasks
<1>2. pc' \in [Tasks -> Labels] /\ \A t \in Tasks : pc'[t] = IF t = c THEN l ELSE pc[t]
  BY <1>1
<1>3. QueueInv'
  <2>1. QueueInv
    BY DEF ClientInv
  <2>2. \A i \in 1 .. Len(queue) : queue[i] \in Tasks /\ queue[i] # c
    BY <1>1, <2>1, ElementOfSeq DEF QueueInv
  <2>3. \A i \in 1 .. Len(queue) : pc'[queue[i]] \in {"lock", "connect"}
    BY <1>2, <2>1, <2>2 DEF QueueInv
  <2>4. \A t \in Tasks : pc'[t] = "connect" /\ mode' # "single" => Holds(t)'
    BY <1>2, <2>1 DEF QueueInv, Holds
  <2>5. \A t \in Tasks : pc'[t] \in {"lock", "connect"} => ask'[t].server \in Servers
    BY <1>2, <2>1 DEF QueueInv
  <2>6. QED
    BY <2>1, <2>3, <2>4, <2>5 DEF QueueInv
<1>4. WiresInv'
  <2>1. WiresInv
    BY DEF ClientInv
  <2>2. \A t \in Tasks : pc'[t] = "connect" => pc[t] = "connect" /\ ask'[t] = ask[t]
    BY <1>2
  <2>3. QED
    BY <2>1, <2>2 DEF WiresInv, Alive
<1>5. QED
  BY <1>2, <1>3, <1>4

\* The negotiation, up to where the circuit wants a wire or has failed.
LEMMA SocksKeeps ==
  ASSUME ClientInv, NEW c \in Circuits,
         \/ \E r \in Requests[c] : AcceptManaged(c, r)
         \/ Negotiate(c) \/ ReadArgs(c) \/ SocksFails(c)
         \/ ReadTarget(c) /\ pc'[c] = "failed"
  PROVE  ClientInv'
<1>1. /\ ClientTypes /\ QueueInv /\ SingleInv /\ WiresInv /\ CircuitInv
  BY DEF ClientInv
<1>2. PICK l \in {"negotiate", "userpass", "target", "failed"} : pc' = [pc EXCEPT ![c] = l]
  <2>1. CASE ReadTarget(c) /\ pc'[c] = "failed"
    BY <1>1, <2>1 DEF ReadTarget, Goto, ClientTypes, Tasks
  <2>2. QED
    BY <2>1 DEF AcceptManaged, Negotiate, ReadArgs, SocksFails, Goto
<1>3. /\ UNCHANGED <<mode, queue, wires, map, on, emVars>>
      /\ pc[c] \in {"none", "negotiate", "userpass", "target"}
  <2>1. CASE ReadTarget(c) /\ pc'[c] = "failed"
    <3>1. pc' # [pc EXCEPT ![c] = "lock"]
      BY <1>1, <2>1 DEF ClientTypes, Tasks
    <3>2. QED
      BY <2>1, <3>1 DEF ReadTarget, Goto
  <2>2. QED
    BY <2>1 DEF AcceptManaged, Negotiate, ReadArgs, SocksFails, Goto
<1>4. /\ ask' = ask \/ (pc[c] = "userpass" /\ l = "target" /\ ask' = [ask EXCEPT ![c].key = req[c].cert])
      /\ req' = req \/ \E r : req' = [req EXCEPT ![c] = r]
  <2>1. CASE ReadTarget(c) /\ pc'[c] = "failed"
    <3>1. pc' # [pc EXCEPT ![c] = "lock"]
      BY <1>1, <2>1 DEF ClientTypes, Tasks
    <3>2. QED
      BY <2>1, <3>1 DEF ReadTarget, Goto
  <2>2. CASE ReadArgs(c)
    <3>1. l = "target"
      BY <1>1, <1>2, <2>2 DEF ReadArgs, Goto, ClientTypes, Tasks
    <3>2. QED
      BY <2>2, <3>1 DEF ReadArgs
  <2>3. QED
    BY <2>1, <2>2 DEF AcceptManaged, Negotiate, SocksFails
<1>5. /\ \A t \in Tasks : t # c => ask'[t] = ask[t]
      /\ \A t \in Tasks : ask'[t].server = ask[t].server /\ DOMAIN ask'[t] = {"server", "key"}
      /\ DOMAIN ask' = Tasks /\ DOMAIN req' = Circuits
      /\ \A d \in Circuits : d # c => req'[d] = req[d]
  <2>1. c \in Tasks /\ DOMAIN ask = Tasks /\ DOMAIN ask[c] = {"server", "key"}
    BY <1>1 DEF ClientTypes, Tasks
  <2>2. /\ DOMAIN ask' = Tasks /\ \A t \in Tasks : t # c => ask'[t] = ask[t]
        /\ ask'[c].server = ask[c].server /\ DOMAIN ask'[c] = {"server", "key"}
    BY <1>4, <2>1
  <2>3. DOMAIN req' = Circuits /\ \A d \in Circuits : d # c => req'[d] = req[d]
    BY <1>1, <1>4 DEF ClientTypes
  <2>4. QED
    BY <1>1, <2>2, <2>3 DEF ClientTypes
<1>6. EmInv' /\ FlowsDialled' /\ \A f : Slotted(f)' <=> Slotted(f)
  BY <1>3, EmitterQuiet DEF ClientInv, emVars
<1>7. pc' \in [Tasks -> Labels] /\ QueueInv' /\ WiresInv'
  BY <1>2, <1>3, <1>5, <1>6, AwayFromQueue DEF Labels
<1>8. \A t \in Tasks : pc'[t] = IF t = c THEN l ELSE pc[t]
  BY <1>1, <1>2 DEF ClientTypes
<1>9. ClientTypes'
  BY <1>1, <1>3, <1>5, <1>7 DEF ClientTypes
<1>10. SingleInv'
  <2>1. mode = "managed" \/ pc[c] \in {"negotiate", "userpass", "target"}
    BY DEF AcceptManaged, Negotiate, ReadArgs, SocksFails, ReadTarget
  <2>2. mode # "single"
    BY <1>1, <2>1 DEF SingleInv, Tasks
  <2>3. QED
    BY <1>3, <2>2 DEF SingleInv
<1>11. CircuitInv'
  <2>1. \A d \in Circuits : pc'[d] \in {"stream", "run"} =>
          on'[d] \in 1 .. Len(wires') /\ wires'[on'[d]].server = ask'[d].server
    BY <1>1, <1>2, <1>3, <1>5, <1>8 DEF CircuitInv, Tasks
  <2>2. CASE \E r \in Requests[c] : AcceptManaged(c, r)
    <3>1. l = "negotiate"
      BY <1>1, <1>8, <2>2 DEF AcceptManaged, Goto, ClientTypes, Tasks
    <3>2. ask' = ask
      BY <2>2 DEF AcceptManaged
    <3>3. QED
      BY <1>1, <1>3, <1>5, <1>8, <2>1, <3>1, <3>2 DEF CircuitInv, Tasks
  <2>3. CASE ~\E r \in Requests[c] : AcceptManaged(c, r)
    <3>1. req' = req
      BY <2>3 DEF Negotiate, ReadArgs, SocksFails, ReadTarget
    <3>2. l = "userpass" => "userpass" \in req[c].methods
      BY <1>1, <1>2, <1>8, <2>3 DEF Negotiate, ReadArgs, SocksFails, ReadTarget, Goto, ClientTypes, Tasks
    <3>3. l = "target" => "userpass" \notin req[c].methods \/ ask'[c].key = req[c].cert
      BY <1>1, <1>2, <1>8, <2>3 DEF Negotiate, ReadArgs, SocksFails, ReadTarget, Goto, ClientTypes, Tasks
    <3>4. QED
      BY <1>1, <1>3, <1>5, <1>8, <2>1, <3>1, <3>2, <3>3 DEF CircuitInv, Tasks
  <2>4. QED
    BY <2>2, <2>3
<1>12. QED
  BY <1>6, <1>7, <1>9, <1>10, <1>11 DEF ClientInv

\* A circuit joins the queue for the wire map.
LEMMA EnqueueKeeps ==
  ASSUME ClientInv, NEW c \in Circuits, AcceptRaw(c) \/ (ReadTarget(c) /\ pc'[c] # "failed")
  PROVE  ClientInv'
<1>1. /\ ClientTypes /\ QueueInv /\ SingleInv /\ WiresInv /\ CircuitInv
  BY DEF ClientInv
<1>2. c \in Tasks /\ pc \in [Tasks -> Labels] /\ queue \in Seq(Tasks)
  BY <1>1 DEF ClientTypes, Tasks
<1>3. RawServer \in Servers
  BY ClientAssumption DEF RawServer
<1>4. /\ pc' = [pc EXCEPT ![c] = "lock"] /\ queue' = Append(queue, c)
      /\ pc[c] \in {"none", "target"} /\ UNCHANGED <<mode, req, wires, map, on, emVars>>
  <2>1. CASE ReadTarget(c) /\ pc'[c] # "failed"
    <3>1. pc' # [pc EXCEPT ![c] = "failed"]
      BY <1>2, <2>1
    <3>2. QED
      BY <2>1, <3>1 DEF ReadTarget, Goto
  <2>2. QED
    BY <2>1 DEF AcceptRaw, Goto
<1>5. PICK s, k :
        /\ s \in Servers
        /\ ask' = [ask EXCEPT ![c] = [server |-> s, key |-> k]]
        /\ mode = "managed" => k = ask[c].key \/ ask[c].key = None
  <2>1. CASE ReadTarget(c) /\ pc'[c] # "failed"
    <3>1. pc' # [pc EXCEPT ![c] = "failed"]
      BY <1>2, <2>1
    <3>2. QED
      BY <2>1, <3>1 DEF ReadTarget, Goto
  <2>2. CASE AcceptRaw(c)
    BY <1>3, <2>2 DEF AcceptRaw
  <2>3. QED
    BY <2>1, <2>2
<1>6. /\ DOMAIN ask' = Tasks /\ ask'[c] = [server |-> s, key |-> k]
      /\ \A t \in Tasks : t # c => ask'[t] = ask[t]
  BY <1>1, <1>2, <1>5 DEF ClientTypes
<1>7. \A t \in Tasks : pc'[t] = IF t = c THEN "lock" ELSE pc[t]
  BY <1>2, <1>4
<1>8. /\ queue' \in Seq(Tasks) /\ Len(queue) \in Nat /\ Len(queue') = Len(queue) + 1
      /\ \A i \in 1 .. Len(queue) : queue'[i] = queue[i]
      /\ queue'[Len(queue) + 1] = c
  BY <1>2, <1>4, AppendProperties, LenProperties
<1>9. EmInv' /\ FlowsDialled' /\ \A f : Slotted(f)' <=> Slotted(f)
  BY <1>4, EmitterQuiet DEF ClientInv, emVars
<1>10. mode # "single"
  BY <1>1, <1>2 DEF SingleInv, AcceptRaw, ReadTarget
<1>11. ClientTypes'
  <2>1. pc' \in [Tasks -> Labels]
    BY <1>2, <1>4 DEF Labels
  <2>2. \A t \in Tasks : DOMAIN ask'[t] = {"server", "key"}
    BY <1>1, <1>5, <1>6 DEF ClientTypes
  <2>3. QED
    BY <1>1, <1>4, <1>6, <1>8, <2>1, <2>2 DEF ClientTypes, emVars
<1>12. QueueInv'
  <2>1. \A i \in 1 .. Len(queue') : i \in 1 .. Len(queue) \/ i = Len(queue) + 1
    BY <1>8
  <2>2. \A i \in 1 .. Len(queue) : queue[i] \in Tasks /\ queue[i] # c
    BY <1>1, <1>2, <1>4, ElementOfSeq DEF QueueInv
  <2>3. \A i, j \in 1 .. Len(queue') : queue'[i] = queue'[j] => i = j
    BY <1>1, <1>8, <2>1, <2>2 DEF QueueInv
  <2>4. \A i \in 1 .. Len(queue') : pc'[queue'[i]] \in {"lock", "connect"}
    BY <1>1, <1>2, <1>7, <1>8, <2>1, <2>2 DEF QueueInv
  <2>5. ASSUME NEW t \in Tasks, pc'[t] = "connect", mode' # "single" PROVE Holds(t)'
    <3>1. Holds(t)
      BY <1>1, <1>4, <1>7, <2>5 DEF QueueInv
    <3>2. queue # <<>> /\ Head(queue) = t
      BY <3>1 DEF Holds
    <3>3. Len(queue) > 0 /\ queue[1] = t
      BY <1>2, <1>8, <3>2, EmptySeq, HeadTailProperties
    <3>4. queue'[1] = t /\ Len(queue') > 0
      BY <1>8, <3>3
    <3>5. QED
      BY <1>8, <3>4 DEF Holds
  <2>6. \A t \in Tasks : pc'[t] \in {"lock", "connect"} => ask'[t].server \in Servers
    BY <1>1, <1>5, <1>6, <1>7 DEF QueueInv
  <2>7. QED
    BY <2>3, <2>4, <2>5, <2>6 DEF QueueInv
<1>13. SingleInv'
  BY <1>4, <1>10 DEF SingleInv
<1>14. WiresInv'
  <2>1. \A t \in Tasks : pc'[t] = "connect" => pc[t] = "connect" /\ ask'[t] = ask[t]
    BY <1>6, <1>7
  <2>2. QED
    BY <1>1, <1>4, <1>9, <2>1 DEF WiresInv, Alive
<1>15. CircuitInv'
  <2>1. \A d \in Circuits : pc'[d] \in {"stream", "run"} =>
          on'[d] \in 1 .. Len(wires') /\ wires'[on'[d]].server = ask'[d].server
    BY <1>1, <1>4, <1>6, <1>7 DEF CircuitInv, Tasks
  <2>2. mode = "managed" => pc[c] = "target"
    BY DEF AcceptRaw, ReadTarget
  <2>3. ASSUME mode = "managed", req[c].cert # None, "userpass" \in req[c].methods
        PROVE  ask'[c].key = req[c].cert
    BY <1>1, <1>5, <1>6, <2>2, <2>3 DEF CircuitInv
  <2>4. QED
    BY <1>1, <1>4, <1>6, <1>7, <2>1, <2>3 DEF CircuitInv, Tasks
<1>16. QED
  BY <1>9, <1>11, <1>12, <1>13, <1>14, <1>15 DEF ClientInv

\* The holder of the mutex lets it go and goes on elsewhere: the next has it, and
\* nobody is connecting.
LEMMA LeavesQueue ==
  ASSUME ClientTypes, QueueInv, NEW t \in Tasks, NEW l \in Labels \ {"lock", "connect"},
         mode # "single", Holds(t), queue' = Tail(queue), pc' = [pc EXCEPT ![t] = l],
         UNCHANGED <<mode, ask>>
  PROVE  /\ pc' \in [Tasks -> Labels] /\ queue' \in Seq(Tasks) /\ QueueInv'
         /\ \A u \in Tasks : pc'[u] # "connect"
<1>1. pc \in [Tasks -> Labels] /\ queue \in Seq(Tasks)
  BY DEF ClientTypes
<1>2. pc' \in [Tasks -> Labels] /\ \A u \in Tasks : pc'[u] = IF u = t THEN l ELSE pc[u]
  BY <1>1
<1>3. queue # <<>> /\ Head(queue) = t
  BY DEF Holds
<1>4. /\ Len(queue) \in Nat /\ Len(queue) > 0 /\ queue[1] = t
      /\ queue' \in Seq(Tasks) /\ Len(queue') = Len(queue) - 1
      /\ \A i \in 1 .. Len(queue') : queue'[i] = queue[i + 1]
  BY <1>1, <1>3, LenProperties, EmptySeq, HeadTailProperties
<1>5. \A i \in 1 .. Len(queue') : /\ i + 1 \in 1 .. Len(queue) /\ 1 \in 1 .. Len(queue) /\ i + 1 # 1
                                  /\ queue'[i] = queue[i + 1] /\ queue[i + 1] \in Tasks
  BY <1>1, <1>4, ElementOfSeq
<1>6. \A i \in 1 .. Len(queue') : queue'[i] # t
  BY <1>4, <1>5 DEF QueueInv
<1>7. \A u \in Tasks : pc'[u] # "connect"
  BY <1>2, <1>3 DEF QueueInv, Holds
<1>8. \A i \in 1 .. Len(queue') : pc'[queue'[i]] \in {"lock", "connect"}
  BY <1>2, <1>5, <1>6 DEF QueueInv
<1>9. \A i, j \in 1 .. Len(queue') : queue'[i] = queue'[j] => i = j
  <2>1. ASSUME NEW i \in 1 .. Len(queue'), NEW j \in 1 .. Len(queue'), queue'[i] = queue'[j]
        PROVE  i = j
    <3>1. i + 1 = j + 1
      BY <1>5, <2>1 DEF QueueInv
    <3>2. QED
      BY <1>4, <3>1
  <2>2. QED
    BY <2>1
<1>10. \A u \in Tasks : pc'[u] \in {"lock", "connect"} => ask'[u].server \in Servers
  BY <1>2 DEF QueueInv
<1>11. QED
  BY <1>2, <1>4, <1>7, <1>8, <1>9, <1>10 DEF QueueInv

\* The wire manager finds a wire that is alive: the circuit goes on with it.
LEMMA WireHitKeeps ==
  ASSUME ClientInv, NEW t \in Tasks, WireHit(t)
  PROVE  ClientInv'
<1>1. /\ ClientTypes /\ QueueInv /\ SingleInv /\ WiresInv /\ CircuitInv
  BY DEF ClientInv
<1>2. /\ Holds(t) /\ queue' = Tail(queue) /\ pc[t] = "lock"
      /\ UNCHANGED <<mode, ask, req, wires, map, emVars>>
      /\ map[ask[t].server] # 0
  BY DEF WireHit
<1>3. PICK l \in {"up", "stream"} : pc' = [pc EXCEPT ![t] = l]
  BY DEF WireHit, Proceed, Goto
<1>4. mode # "single"
  BY <1>1, <1>2 DEF SingleInv
<1>5. /\ pc' \in [Tasks -> Labels] /\ queue' \in Seq(Tasks) /\ QueueInv'
      /\ \A u \in Tasks : pc'[u] # "connect"
  BY <1>1, <1>2, <1>3, <1>4, LeavesQueue DEF Labels
<1>6. EmInv' /\ FlowsDialled' /\ \A f : Slotted(f)' <=> Slotted(f)
  BY <1>2, EmitterQuiet DEF ClientInv, emVars
<1>7. \A u \in Tasks : pc'[u] = IF u = t THEN l ELSE pc[u]
  BY <1>1, <1>3 DEF ClientTypes
<1>8. ask[t].server \in Servers
  BY <1>1, <1>2 DEF QueueInv
<1>9. map[ask[t].server] \in 1 .. Len(wires) /\ wires[map[ask[t].server]].server = ask[t].server
  <2>1. map[ask[t].server] \in 0 .. Len(wires)
    BY <1>1, <1>8 DEF ClientTypes
  <2>2. QED
    BY <1>1, <1>2, <1>4, <1>8, <2>1 DEF WiresInv
<1>10. /\ on' \in [Circuits -> 0 .. Len(wires)]
       /\ \A c \in Circuits : on'[c] = IF c = t THEN map[ask[t].server] ELSE on[c]
  <2>1. CASE t = Prewarm
    BY <1>1, <2>1, ClientAssumption DEF WireHit, Proceed, ClientTypes, Prewarm
  <2>2. CASE t # Prewarm
    <3>1. t \in Circuits /\ on' = [on EXCEPT ![t] = map[ask[t].server]]
      BY <2>2 DEF WireHit, Proceed, Tasks
    <3>2. on \in [Circuits -> 0 .. Len(wires)] /\ map[ask[t].server] \in 0 .. Len(wires)
      BY <1>1, <1>8 DEF ClientTypes
    <3>3. QED
      BY <3>1, <3>2
  <2>3. QED
    BY <2>1, <2>2
<1>11. ClientTypes'
  BY <1>1, <1>2, <1>5, <1>10 DEF ClientTypes
<1>12. SingleInv'
  BY <1>2, <1>4 DEF SingleInv
<1>13. WiresInv'
  BY <1>1, <1>2, <1>5, <1>6 DEF WiresInv, Alive
<1>14. CircuitInv'
  BY <1>1, <1>2, <1>7, <1>9, <1>10 DEF CircuitInv, Tasks
<1>15. QED
  BY <1>5, <1>6, <1>11, <1>12, <1>13, <1>14 DEF ClientInv

\* It finds none: no wire to that bridge is alive, and the holder of the mutex dials.
LEMMA DialKeeps ==
  ASSUME ClientInv, NEW t \in Tasks, Dial(t)
  PROVE  ClientInv'
<1>1. /\ ClientTypes /\ QueueInv /\ SingleInv /\ WiresInv /\ CircuitInv
  BY DEF ClientInv
<1>2. /\ Holds(t) /\ pc[t] = "lock" /\ pc' = [pc EXCEPT ![t] = "connect"]
      /\ UNCHANGED <<mode, ask, req, queue, wires, map, on, emVars>>
  BY DEF Dial, Goto
<1>3. mode # "single"
  BY <1>1, <1>2 DEF SingleInv
<1>4. /\ pc' \in [Tasks -> Labels]
      /\ \A u \in Tasks : pc'[u] = IF u = t THEN "connect" ELSE pc[u]
  BY <1>1, <1>2 DEF ClientTypes, Labels
<1>5. EmInv' /\ FlowsDialled' /\ \A f : Slotted(f)' <=> Slotted(f)
  BY <1>2, EmitterQuiet DEF ClientInv, emVars
<1>6. ClientTypes'
  BY <1>1, <1>2, <1>4 DEF ClientTypes
<1>7. QueueInv'
  <2>1. \A i \in 1 .. Len(queue) : queue[i] \in Tasks
    BY <1>1, ElementOfSeq DEF ClientTypes
  <2>2. \A u \in Tasks : Holds(u)' <=> Holds(u)
    BY <1>2 DEF Holds
  <2>3. QED
    BY <1>1, <1>2, <1>4, <2>1, <2>2 DEF QueueInv
<1>8. SingleInv'
  BY <1>2, <1>3 DEF SingleInv
<1>9. WiresInv'
  <2>1. \A w \in 1 .. Len(wires) : Alive(w) => wires[w].server # ask[t].server
    <3>1. ASSUME NEW w \in 1 .. Len(wires), Alive(w), wires[w].server = ask[t].server
          PROVE  FALSE
      <4>1. map[ask[t].server] = w /\ w # 0
        BY <1>1, <1>3, <3>1 DEF WiresInv
      <4>2. QED
        BY <3>1, <4>1 DEF Dial, WireMissing
    <3>2. QED
      BY <3>1
  <2>2. QED
    BY <1>1, <1>2, <1>3, <1>4, <1>5, <2>1 DEF WiresInv, Alive
<1>10. CircuitInv'
  BY <1>1, <1>2, <1>4 DEF CircuitInv, Tasks
<1>11. QED
  BY <1>5, <1>6, <1>7, <1>8, <1>9, <1>10 DEF ClientInv

\* A new wire: a flow the emitter does not know.
LEMMA WireAdded ==
  ASSUME ClientInv, NEW t \in Tasks, ask[t].server \in Servers,
         ask[t].key = KeyAt[ask[t].server],
         wires' = Append(wires, [server |-> ask[t].server, key |-> ask[t].key]),
         RegisterFlow(Len(wires')), UNCHANGED <<flows, at, loop, calls>>
  PROVE  /\ wires' \in Seq(ProvedWire) /\ Len(wires) \in Nat /\ Len(wires') = Len(wires) + 1
         /\ \A w \in 1 .. Len(wires) : wires'[w] = wires[w]
         /\ wires'[Len(wires')] = [server |-> ask[t].server, key |-> KeyAt[ask[t].server]]
         /\ EmInv' /\ FlowsDialled'
         /\ \A f : Slotted(f)' => Slotted(f) \/ f = Len(wires')
<1>1. wires \in Seq(ProvedWire)
  BY DEF ClientInv, ClientTypes
<1>2. [server |-> ask[t].server, key |-> ask[t].key] \in ProvedWire
  BY DEF ProvedWire
<1>3. /\ wires' \in Seq(ProvedWire) /\ Len(wires) \in Nat /\ Len(wires') = Len(wires) + 1
      /\ \A w \in 1 .. Len(wires) : wires'[w] = wires[w]
      /\ wires'[Len(wires')] = [server |-> ask[t].server, key |-> KeyAt[ask[t].server]]
  BY <1>1, <1>2, AppendProperties, LenProperties
<1>4. Len(wires') \in Nat /\ ~Slotted(Len(wires'))
  BY <1>3 DEF ClientInv, FlowsDialled, Slotted
<1>5. EmInv' /\ \A f : Slotted(f)' => Slotted(f) \/ f = Len(wires')
  <2> DEFINE n == Len(wires')
  <2>1. n \in Nat /\ ~Slotted(n) /\ RegisterFlow(n)
    BY <1>4
  <2> HIDE DEF n
  <2>2. EmInv' /\ \A f : Slotted(f)' => Slotted(f) \/ f = n
    BY <2>1, RegisterKeeps DEF ClientInv
  <2>3. QED
    BY <2>2 DEF n
<1>6. FlowsDialled'
  BY <1>3, <1>5 DEF ClientInv, FlowsDialled, Slotted
<1>7. QED
  BY <1>3, <1>5, <1>6

\* The connect succeeds: there was no live wire to that bridge, now there is one.
LEMMA ConnectedKeeps ==
  ASSUME ClientInv, NEW t \in Tasks, Connected(t)
  PROVE  ClientInv'
<1>1. /\ ClientTypes /\ QueueInv /\ SingleInv /\ WiresInv /\ CircuitInv
  BY DEF ClientInv
<1>2. /\ pc[t] = "connect" /\ mode # "single" /\ ask[t].key = KeyAt[ask[t].server]
      /\ wires' = Append(wires, [server |-> ask[t].server, key |-> ask[t].key])
      /\ RegisterFlow(Len(wires')) /\ UNCHANGED <<flows, at, loop, calls>>
      /\ map' = [map EXCEPT ![ask[t].server] = Len(wires')]
      /\ UNCHANGED <<mode, ask, req>>
  BY DEF Connected
<1>3. Holds(t) /\ ask[t].server \in Servers
  BY <1>1, <1>2 DEF QueueInv
<1>4. queue' = Tail(queue)
  BY <1>3 DEF Connected, Unlock
<1>5. PICK l \in {"up", "stream"} : pc' = [pc EXCEPT ![t] = l]
  BY DEF Connected, Proceed, Goto
<1>6. /\ pc' \in [Tasks -> Labels] /\ queue' \in Seq(Tasks) /\ QueueInv'
      /\ \A u \in Tasks : pc'[u] # "connect"
  BY <1>1, <1>2, <1>3, <1>4, <1>5, LeavesQueue DEF Labels
<1>7. \A u \in Tasks : pc'[u] = IF u = t THEN l ELSE pc[u]
  BY <1>1, <1>5 DEF ClientTypes
<1>8. /\ wires' \in Seq(ProvedWire) /\ Len(wires) \in Nat /\ Len(wires') = Len(wires) + 1
      /\ \A w \in 1 .. Len(wires) : wires'[w] = wires[w]
      /\ wires'[Len(wires')] = [server |-> ask[t].server, key |-> KeyAt[ask[t].server]]
      /\ EmInv' /\ FlowsDialled'
      /\ \A f : Slotted(f)' => Slotted(f) \/ f = Len(wires')
  BY <1>2, <1>3, WireAdded
<1>9. /\ map' \in [Servers -> 0 .. Len(wires')]
      /\ \A a \in Servers : map'[a] = IF a = ask[t].server THEN Len(wires') ELSE map[a]
  <2>1. map \in [Servers -> 0 .. Len(wires)] /\ Len(wires') \in 0 .. Len(wires')
    BY <1>1, <1>8 DEF ClientTypes
  <2>2. \A a \in Servers : map[a] \in 0 .. Len(wires')
    BY <1>8, <2>1
  <2>3. QED
    BY <1>2, <2>1, <2>2
<1>10. /\ on' \in [Circuits -> 0 .. Len(wires')]
       /\ \A c \in Circuits : on'[c] = IF c = t THEN Len(wires') ELSE on[c]
  <2>1. on \in [Circuits -> 0 .. Len(wires')] /\ Len(wires') \in 0 .. Len(wires')
    BY <1>1, <1>8 DEF ClientTypes
  <2>2. CASE t = Prewarm
    BY <2>1, <2>2, ClientAssumption DEF Connected, Proceed, Prewarm
  <2>3. CASE t # Prewarm
    <3>1. t \in Circuits /\ on' = [on EXCEPT ![t] = Len(wires')]
      BY <2>3 DEF Connected, Proceed, Tasks
    <3>2. QED
      BY <2>1, <3>1
  <2>4. QED
    BY <2>2, <2>3
<1>11. ClientTypes'
  BY <1>1, <1>2, <1>6, <1>8, <1>9, <1>10 DEF ClientTypes
<1>12. SingleInv'
  BY <1>2 DEF SingleInv
<1>13. WiresInv'
  <2>1. \A w \in 1 .. Len(wires') : w \in 1 .. Len(wires) \/ w = Len(wires')
    BY <1>8
  <2>2. \A w \in 1 .. Len(wires) : Alive(w)' => Alive(w)
    BY <1>8 DEF Alive
  <2>3. \A w \in 1 .. Len(wires) : Alive(w) => wires[w].server # ask[t].server
    BY <1>1, <1>2 DEF WiresInv
  <2>4. \A w \in 1 .. Len(wires) : wires[w].server \in Servers
    BY <1>1, ElementOfSeq DEF ClientTypes, ProvedWire
  <2>5. \A w \in 1 .. Len(wires') : Alive(w)' => map'[wires'[w].server] = w
    BY <1>1, <1>2, <1>3, <1>8, <1>9, <2>1, <2>2, <2>3, <2>4 DEF WiresInv
  <2>6. ASSUME NEW a \in Servers, map'[a] # 0 PROVE wires'[map'[a]].server = a
    <3>1. CASE a = ask[t].server
      BY <1>8, <1>9, <3>1
    <3>2. CASE a # ask[t].server
      <4>1. map[a] \in 1 .. Len(wires) /\ map'[a] = map[a]
        BY <1>1, <1>8, <1>9, <2>6, <3>2 DEF ClientTypes
      <4>2. QED
        BY <1>1, <1>2, <1>8, <2>6, <4>1 DEF WiresInv
    <3>3. QED
      BY <3>1, <3>2
  <2>7. QED
    BY <1>6, <2>5, <2>6 DEF WiresInv
<1>14. CircuitInv'
  <2>1. ASSUME NEW c \in Circuits, pc'[c] \in {"stream", "run"}
        PROVE  on'[c] \in 1 .. Len(wires') /\ wires'[on'[c]].server = ask'[c].server
    <3>1. CASE c = t
      BY <1>2, <1>8, <1>10, <3>1
    <3>2. CASE c # t
      <4>1. pc[c] \in {"stream", "run"} /\ on'[c] = on[c]
        BY <1>7, <1>10, <2>1, <3>2 DEF Tasks
      <4>2. on[c] \in 1 .. Len(wires) /\ wires[on[c]].server = ask[c].server
        BY <1>1, <4>1 DEF CircuitInv
      <4>3. QED
        BY <1>2, <1>8, <4>1, <4>2
    <3>3. QED
      BY <3>1, <3>2
  <2>2. QED
    BY <1>1, <1>2, <1>7, <2>1 DEF CircuitInv, Tasks
<1>15. QED
  BY <1>6, <1>8, <1>11, <1>12, <1>13, <1>14 DEF ClientInv

\* The connect fails, and the mutex goes to the next.
LEMMA ConnectFailsKeeps ==
  ASSUME ClientInv, NEW t \in Tasks, ConnectFails(t)
  PROVE  ClientInv'
<1>1. /\ ClientTypes /\ QueueInv /\ SingleInv /\ WiresInv /\ CircuitInv
  BY DEF ClientInv
<1>2. /\ pc[t] = "connect" /\ mode # "single" /\ pc' = [pc EXCEPT ![t] = "failed"]
      /\ UNCHANGED <<mode, ask, req, wires, map, on, emVars>>
  BY DEF ConnectFails, Goto
<1>3. Holds(t) /\ queue' = Tail(queue)
  BY <1>1, <1>2 DEF QueueInv, ConnectFails, Unlock
<1>4. /\ pc' \in [Tasks -> Labels] /\ queue' \in Seq(Tasks) /\ QueueInv'
      /\ \A u \in Tasks : pc'[u] # "connect"
  BY <1>1, <1>2, <1>3, LeavesQueue DEF Labels
<1>5. EmInv' /\ FlowsDialled' /\ \A f : Slotted(f)' <=> Slotted(f)
  BY <1>2, EmitterQuiet DEF ClientInv, emVars
<1>6. \A u \in Tasks : pc'[u] = IF u = t THEN "failed" ELSE pc[u]
  BY <1>1, <1>2 DEF ClientTypes
<1>7. ClientTypes' /\ SingleInv'
  BY <1>1, <1>2, <1>4 DEF ClientTypes, SingleInv
<1>8. WiresInv'
  BY <1>1, <1>2, <1>4, <1>5 DEF WiresInv, Alive
<1>9. CircuitInv'
  BY <1>1, <1>2, <1>6 DEF CircuitInv, Tasks
<1>10. QED
  BY <1>4, <1>5, <1>7, <1>8, <1>9 DEF ClientInv

\* What a circuit does on its wire.
LEMMA CircuitKeeps ==
  ASSUME ClientInv, NEW c \in Circuits,
         \/ AddStream(c) \/ TorSends(c) \/ Forward(c) \/ CircuitCloses(c)
         \/ WriterClosed(c) \/ WriterReleased(c)
  PROVE  ClientInv'
<1>1. /\ ClientTypes /\ QueueInv /\ SingleInv /\ WiresInv /\ CircuitInv
  BY DEF ClientInv
<1>2. UNCHANGED <<mode, ask, req, queue, wires, map, on, emVars>> 
      /\ pc[c] \in {"stream", "run", "orphan"}
  BY DEF AddStream, TorSends, Forward, CircuitCloses, WriterClosed, WriterReleased
<1>3. c \in Tasks
  BY DEF Tasks
<1>4. PICK l \in {"run", "orphan", "ended"} : pc' = [pc EXCEPT ![c] = l]
  <2>1. pc = [pc EXCEPT ![c] = pc[c]]
    BY <1>1, <1>3 DEF ClientTypes
  <2>2. CASE pc' = pc /\ pc[c] = "run"
    BY <2>1, <2>2
  <2>3. CASE ~(pc' = pc /\ pc[c] = "run")
    BY <2>3 DEF AddStream, TorSends, Forward, CircuitCloses, WriterClosed, WriterReleased, Goto
  <2>4. QED
    BY <2>2, <2>3
<1>5. EmInv' /\ FlowsDialled' /\ \A f : Slotted(f)' <=> Slotted(f)
  BY <1>2, EmitterQuiet DEF ClientInv, emVars
<1>6. pc' \in [Tasks -> Labels] /\ QueueInv' /\ WiresInv'
  BY <1>2, <1>4, <1>5, AwayFromQueue DEF Labels
<1>7. \A u \in Tasks : pc'[u] = IF u = c THEN l ELSE pc[u]
  BY <1>1, <1>4 DEF ClientTypes
<1>8. ClientTypes'
  BY <1>1, <1>2, <1>6 DEF ClientTypes
<1>9. SingleInv'
  <2>1. \A u \in Tasks : /\ pc'[u] # "none" => pc[u] # "none"
                         /\ pc'[u] = "connect" => pc[u] = "connect"
                         /\ pc'[u] \in {"run", "orphan", "ended"} \/ pc'[u] = pc[u]
    BY <1>2, <1>7
  <2>2. c # Prewarm /\ Prewarm \in Tasks
    BY ClientAssumption DEF Tasks, Prewarm
  <2>3. QED
    BY <1>1, <1>2, <1>7, <2>1, <2>2 DEF SingleInv, emVars
<1>10. CircuitInv'
  <2>1. l = "run" => pc[c] \in {"stream", "run"}
    BY <1>1, <1>3, <1>7 DEF AddStream, TorSends, Forward, CircuitCloses, WriterClosed,
       WriterReleased, Goto, ClientTypes
  <2>2. QED
    BY <1>1, <1>2, <1>7, <2>1 DEF CircuitInv, Tasks
<1>11. QED
  BY <1>5, <1>6, <1>8, <1>9, <1>10 DEF ClientInv

\* The receive task of a wire ends.
LEMMA ReceiveKeeps ==
  ASSUME ClientInv, NEW w, ReceiveEnds(w)
  PROVE  ClientInv'
<1>1. /\ ClientTypes /\ QueueInv /\ SingleInv /\ WiresInv /\ CircuitInv
  BY DEF ClientInv
<1>2. /\ UNCHANGED <<mode, ask, req, queue, wires, map, on, emVars>>
      /\ pc' = [t \in Tasks |->
                  IF mode = "single" /\ pc[t] \in {"run", "orphan"} THEN "ended" ELSE pc[t]]
  BY DEF ReceiveEnds
<1>3. EmInv' /\ FlowsDialled' /\ \A f : Slotted(f)' <=> Slotted(f)
  BY <1>2, EmitterQuiet DEF ClientInv, emVars
<1>4. /\ pc' \in [Tasks -> Labels]
      /\ \A t \in Tasks : pc'[t] = pc[t] \/ (mode = "single" /\ pc[t] # "none" /\ pc'[t] = "ended")
  BY <1>1, <1>2 DEF ClientTypes, Labels
<1>5. ClientTypes'
  BY <1>1, <1>2, <1>4 DEF ClientTypes
<1>6. \A i \in 1 .. Len(queue) : pc'[queue[i]] \in {"lock", "connect"}
  <2>1. \A i \in 1 .. Len(queue) : queue[i] \in Tasks
    BY <1>1, ElementOfSeq DEF ClientTypes
  <2>2. \A i \in 1 .. Len(queue) : pc'[queue[i]] = pc[queue[i]]
    BY <1>1, <1>2, <2>1 DEF QueueInv
  <2>3. QED
    BY <1>1, <2>2 DEF QueueInv
<1>7. QueueInv'
  BY <1>1, <1>2, <1>4, <1>6 DEF QueueInv, Holds
<1>8. SingleInv'
  <2>1. Prewarm \in Tasks
    BY DEF Tasks
  <2>2. QED
    BY <1>1, <1>2, <1>4, <2>1 DEF SingleInv, emVars
<1>9. WiresInv'
  BY <1>1, <1>2, <1>3, <1>4 DEF WiresInv, Alive
<1>10. CircuitInv'
  BY <1>1, <1>2, <1>4 DEF CircuitInv, Tasks
<1>11. QED
  BY <1>3, <1>5, <1>7, <1>8, <1>9, <1>10 DEF ClientInv

\* A connection of its own is dialled once.
LEMMA DialSingleKeeps ==
  ASSUME ClientInv, NEW c \in Circuits, DialSingle(c)
  PROVE  ClientInv'
<1>1. /\ ClientTypes /\ QueueInv /\ SingleInv /\ WiresInv /\ CircuitInv
  BY DEF ClientInv
<1>2. /\ mode = "single" /\ wires = <<>> /\ pc[c] = "none"
      /\ pc' = [pc EXCEPT ![c] = "connect"]
      /\ ask' = [ask EXCEPT ![c] = [server |-> RawServer, key |-> Fallback]]
      /\ UNCHANGED <<mode, req, queue, wires, map, on, emVars>>
  BY DEF DialSingle, Goto
<1>3. c \in Tasks /\ RawServer \in Servers /\ \A d \in Circuits : pc[d] = "none"
  BY ClientAssumption DEF Tasks, RawServer, DialSingle
<1>4. EmInv' /\ FlowsDialled' /\ \A f : Slotted(f)' <=> Slotted(f)
  BY <1>2, EmitterQuiet DEF ClientInv, emVars
<1>5. /\ pc' \in [Tasks -> Labels]
      /\ \A u \in Tasks : pc'[u] = IF u = c THEN "connect" ELSE pc[u]
  BY <1>1, <1>2, <1>3 DEF ClientTypes, Labels
<1>6. /\ DOMAIN ask' = Tasks /\ ask'[c].server = RawServer /\ DOMAIN ask'[c] = {"server", "key"}
      /\ \A u \in Tasks : u # c => ask'[u] = ask[u]
  BY <1>1, <1>2, <1>3 DEF ClientTypes
<1>7. ClientTypes'
  <2>1. \A t \in Tasks : DOMAIN ask'[t] = {"server", "key"}
    BY <1>1, <1>6 DEF ClientTypes
  <2>2. QED
    BY <1>1, <1>2, <1>5, <1>6, <2>1 DEF ClientTypes
<1>8. queue = <<>> /\ Len(queue) = 0
  BY <1>1, <1>2 DEF SingleInv
<1>9. QueueInv'
  BY <1>1, <1>2, <1>3, <1>5, <1>6, <1>8 DEF QueueInv
<1>10. pc[Prewarm] = "none" /\ c # Prewarm
  BY <1>1, <1>2, ClientAssumption DEF SingleInv, Prewarm
<1>11. SingleInv'
  <2>1. \A u \in Tasks : pc[u] = "none"
    BY <1>3, <1>10 DEF Tasks
  <2>2. QED
    BY <1>1, <1>2, <1>5, <1>10, <2>1 DEF SingleInv, emVars, Tasks
<1>12. WiresInv'
  BY <1>2 DEF WiresInv
<1>13. CircuitInv'
  BY <1>1, <1>2, <1>5, <1>6 DEF CircuitInv, Tasks
<1>14. QED
  BY <1>4, <1>7, <1>9, <1>11, <1>12, <1>13 DEF ClientInv

\* It is connected, and its emitter will have no other flow.
LEMMA SingleConnectedKeeps ==
  ASSUME ClientInv, NEW c \in Circuits, SingleConnected(c)
  PROVE  ClientInv'
<1>1. /\ ClientTypes /\ QueueInv /\ SingleInv /\ WiresInv /\ CircuitInv
  BY DEF ClientInv
<1>2. /\ mode = "single" /\ pc[c] = "connect" /\ ask[c].key = KeyAt[ask[c].server]
      /\ wires' = Append(wires, [server |-> ask[c].server, key |-> ask[c].key])
      /\ RegisterFlow(Len(wires')) /\ handle' = FALSE
      /\ on' = [on EXCEPT ![c] = Len(wires')] /\ pc' = [pc EXCEPT ![c] = "run"]
      /\ UNCHANGED <<mode, ask, req, queue, map, flows, at, loop, calls>>
  BY DEF SingleConnected, Goto
<1>3. c \in Tasks /\ c # Prewarm /\ Prewarm \in Tasks
  BY ClientAssumption DEF Tasks, Prewarm
<1>4. ask[c].server \in Servers
  BY <1>1, <1>2, <1>3 DEF QueueInv
<1>5. /\ wires' \in Seq(ProvedWire) /\ Len(wires) \in Nat /\ Len(wires') = Len(wires) + 1
      /\ \A w \in 1 .. Len(wires) : wires'[w] = wires[w]
      /\ wires'[Len(wires')] = [server |-> ask[c].server, key |-> KeyAt[ask[c].server]]
      /\ EmInv' /\ FlowsDialled'
  BY <1>2, <1>3, <1>4, WireAdded
<1>6. wires = <<>> /\ Len(wires) = 0 /\ queue = <<>> /\ Len(queue) = 0
  BY <1>1, <1>2, <1>3 DEF SingleInv
<1>7. /\ pc' \in [Tasks -> Labels]
      /\ \A u \in Tasks : pc'[u] = IF u = c THEN "run" ELSE "none"
  BY <1>1, <1>2, <1>3 DEF ClientTypes, Labels, SingleInv
<1>8. /\ on' \in [Circuits -> 0 .. Len(wires')] /\ map' \in [Servers -> 0 .. Len(wires')]
      /\ on'[c] = Len(wires')
  <2>1. on \in [Circuits -> 0 .. 0] /\ map \in [Servers -> 0 .. 0]
    BY <1>1, <1>6 DEF ClientTypes
  <2>2. Len(wires') = 1 /\ 1 \in 0 .. 1
    BY <1>5, <1>6
  <2>3. on \in [Circuits -> 0 .. 1] /\ map \in [Servers -> 0 .. 1]
    BY <2>1
  <2>4. QED
    BY <1>2, <2>2, <2>3
<1>9. ClientTypes'
  BY <1>1, <1>2, <1>5, <1>7, <1>8 DEF ClientTypes
<1>10. QueueInv'
  BY <1>2, <1>6, <1>7 DEF QueueInv
<1>11. SingleInv'
  BY <1>2, <1>3, <1>5, <1>6, <1>7 DEF SingleInv
<1>12. WiresInv'
  BY <1>2 DEF WiresInv
<1>13. CircuitInv'
  BY <1>2, <1>5, <1>7, <1>8 DEF CircuitInv, Tasks
<1>14. QED
  BY <1>5, <1>9, <1>10, <1>11, <1>12, <1>13 DEF ClientInv

\* It is not connected, and the function returns.
LEMMA SingleFailsKeeps ==
  ASSUME ClientInv, NEW c \in Circuits, SingleFails(c)
  PROVE  ClientInv'
<1>1. /\ ClientTypes /\ QueueInv /\ SingleInv /\ WiresInv /\ CircuitInv
  BY DEF ClientInv
<1>2. /\ mode = "single" /\ pc[c] = "connect" /\ pc' = [pc EXCEPT ![c] = "failed"]
      /\ handle' = FALSE
      /\ UNCHANGED <<mode, ask, req, queue, wires, map, on, reg, flows, at, loop, calls>>
  BY DEF SingleFails, Goto
<1>3. c \in Tasks /\ c # Prewarm /\ Prewarm \in Tasks
  BY ClientAssumption DEF Tasks, Prewarm
<1>4. queue = <<>> /\ Len(queue) = 0
  BY <1>1, <1>2 DEF SingleInv
<1>5. /\ pc' \in [Tasks -> Labels]
      /\ \A u \in Tasks : pc'[u] = IF u = c THEN "failed" ELSE "none"
  BY <1>1, <1>2, <1>3 DEF ClientTypes, Labels, SingleInv
<1>6. EmInv' /\ FlowsDialled'
  BY <1>2, EmitterQuiet DEF ClientInv
<1>7. ClientTypes'
  BY <1>1, <1>2, <1>5 DEF ClientTypes
<1>8. QueueInv'
  BY <1>2, <1>4, <1>5 DEF QueueInv
<1>9. SingleInv'
  BY <1>1, <1>2, <1>3, <1>5 DEF SingleInv
<1>10. WiresInv'
  BY <1>2 DEF WiresInv
<1>11. CircuitInv'
  BY <1>2, <1>5 DEF CircuitInv, Tasks
<1>12. QED
  BY <1>6, <1>7, <1>8, <1>9, <1>10, <1>11 DEF ClientInv

\* A wire's flow is over, or the emitter thread takes a step: wires may die.
LEMMA EmitterSideKeeps ==
  ASSUME ClientInv,
         \/ \E w \in DOMAIN wires : FlowOver(w)
         \/ EmitterStep /\ UNCHANGED cVars
         \/ UNCHANGED clientVars
  PROVE  ClientInv'
<1>1. /\ EmInv /\ ClientTypes /\ FlowsDialled /\ QueueInv /\ SingleInv /\ WiresInv /\ CircuitInv
  BY DEF ClientInv
<1>2. UNCHANGED <<cVars, handle>>
  BY DEF FlowOver, EmitterStep, Admit, Service, TickEnds, clientVars, emVars
<1>3. EmInv' /\ FlowsDialled' /\ \A f : Slotted(f)' => Slotted(f)
  <2>1. CASE EmitterStep /\ UNCHANGED cVars
    <3>1. EmInv' /\ \A f : Slotted(f)' => Slotted(f)
      BY <1>1, <2>1, EmitterKeeps
    <3>2. QED
      BY <1>1, <2>1, <3>1 DEF FlowsDialled, Slotted, cVars
  <2>2. CASE ~(EmitterStep /\ UNCHANGED cVars)
    <3>1. UNCHANGED <<reg, flows, at, loop, calls, wires>>
      BY <2>2 DEF FlowOver, clientVars, cVars, emVars
    <3>2. QED
      BY <1>1, <3>1, EmitterQuiet
  <2>3. QED
    BY <2>1, <2>2
<1>4. ClientTypes' /\ QueueInv' /\ SingleInv' /\ CircuitInv'
  <2>1. ClientTypes'
    BY <1>1, <1>2 DEF ClientTypes, cVars
  <2>2. QueueInv'
    BY <1>1, <1>2 DEF QueueInv, cVars, Holds
  <2>3. SingleInv'
    BY <1>1, <1>2 DEF SingleInv, cVars
  <2>4. CircuitInv'
    BY <1>1, <1>2 DEF CircuitInv, cVars
  <2>5. QED
    BY <2>1, <2>2, <2>3, <2>4
<1>5. WiresInv'
  BY <1>1, <1>2, <1>3 DEF WiresInv, cVars, Alive
<1>6. QED
  BY <1>3, <1>4, <1>5 DEF ClientInv

LEMMA ClientInvariance == ClientInv /\ [ClientNext]_clientVars => ClientInv'
<1> SUFFICES ASSUME ClientInv, [ClientNext]_clientVars PROVE ClientInv'
  OBVIOUS
<1>1. ASSUME NEW c \in Circuits,
             \/ \E r \in Requests[c] : AcceptManaged(c, r)
             \/ Socks(c) \/ SocksFails(c) \/ AcceptRaw(c)
      PROVE  ClientInv'
  BY <1>1, SocksKeeps, EnqueueKeeps DEF Socks
<1>2. ASSUME NEW c \in Circuits, DialSingle(c) \/ SingleConnected(c) \/ SingleFails(c)
      PROVE  ClientInv'
  BY <1>2, DialSingleKeeps, SingleConnectedKeeps, SingleFailsKeeps
<1>3. ASSUME NEW c \in Circuits,
             \/ AddStream(c) \/ TorSends(c) \/ Forward(c) \/ CircuitCloses(c)
             \/ WriterClosed(c) \/ WriterReleased(c)
      PROVE  ClientInv'
  BY <1>3, CircuitKeeps
<1>4. ASSUME NEW t \in Tasks, Manage(t) \/ Outcome(t) PROVE ClientInv'
  BY <1>4, WireHitKeeps, DialKeeps, ConnectedKeeps, ConnectFailsKeeps DEF Manage, Outcome
<1>5. ASSUME \/ \E w \in DOMAIN wires : FlowOver(w)
             \/ EmitterStep /\ UNCHANGED cVars
             \/ UNCHANGED clientVars
      PROVE  ClientInv'
  BY <1>5, EmitterSideKeeps
<1>6. ASSUME NEW w, ReceiveEnds(w) PROVE ClientInv'
  BY <1>6, ReceiveKeeps
<1>7. QED
  BY <1>1, <1>2, <1>3, <1>4, <1>5, <1>6 DEF ClientNext

\* The invariant of the client process, on any number of connections and bridges.
THEOREM ClientInvariant == ClientSpec => []ClientInv
<1>1. QED
  BY ClientInitially, ClientInvariance, PTL DEF ClientSpec

\* run_emitter services every flow once per tick, although flows are removed from the
\* vector it walks over, and does not end while it has a flow.
THEOREM EveryFlowServicedOnce == ClientSpec => []ServicedOnce
<1>1. ClientInv => ServicedOnce
  BY DEF ClientInv, EmInv, WalkInv, ServicedOnce
<1>2. QED
  BY <1>1, ClientInvariant, PTL

\* get_or_connect_wire: at most one live wire per bridge address, for the one who
\* connects has the mutex, and no flow that nobody dialled.
THEOREM OneLiveWire == ClientSpec => []OneWirePerBridge
<1>1. ASSUME ClientInv PROVE OneWirePerBridge
  <2>1. ClientTypes /\ FlowsDialled /\ QueueInv /\ SingleInv /\ WiresInv
    BY <1>1 DEF ClientInv
  <2>2. DOMAIN wires = 1 .. Len(wires) /\ Len(wires) \in Nat
    BY <2>1, LenProperties DEF ClientTypes
  <2>3. \A v, w \in 1 .. Len(wires) :
          Alive(v) /\ Alive(w) /\ wires[v].server = wires[w].server => v = w
    BY <2>1, <2>2 DEF SingleInv, WiresInv
  <2>4. ToSet(flows) \subseteq 1 .. Len(wires)
    BY <2>1 DEF FlowsDialled
  <2>5. QED
    BY <2>1, <2>2, <2>3, <2>4 DEF OneWirePerBridge, QueueInv
<1>2. QED
  BY <1>1, ClientInvariant, PTL

\* A circuit is on a wire to the bridge it asked for, which has proved its identity,
\* and a request that carries a cert is dialled with no other key.
THEOREM CircuitsOnTheirBridge == ClientSpec => []CircuitOnItsBridge
<1>1. ASSUME ClientInv PROVE CircuitOnItsBridge
  <2>1. ClientTypes /\ CircuitInv
    BY <1>1 DEF ClientInv
  <2>2. \A w \in 1 .. Len(wires) :
          wires[w] = [server |-> wires[w].server, key |-> KeyAt[wires[w].server]]
    BY <2>1, ElementOfSeq DEF ClientTypes, ProvedWire
  <2>3. QED
    BY <2>1, <2>2 DEF CircuitOnItsBridge, CircuitInv
<1>2. QED
  BY <1>1, ClientInvariant, PTL
=============================================================================
