--------------------------- MODULE HandshakeProofs ---------------------------
(***************************************************************************)
(* Proofs about one connection: who ends the handshake with which keys, who*)
(* gets an answer, which clocks are tolerated and when a frame fails to    *)
(* open, for any limits, any padding and any split of the stream in reads. *)
(* Keys and hashes are terms, so that a proof about them is one about the  *)
(* protocol, not about the primitives.                                     *)
(***************************************************************************)
EXTENDS Handshake, SequenceTheorems, WellFoundedInduction, TLAPS

-----------------------------------------------------------------------------
(* Sequences of units.  A unit contains others (a MAC is over a message),  *)
(* so that there is no set of all units to take the sequences of.          *)

Units(q) == \E S : q \in Seq(S)

\* Two sequences of units are sequences over one set.
LEMMA OneSet ==
  ASSUME NEW p, NEW q, Units(p), Units(q)
  PROVE  \E S : p \in Seq(S) /\ q \in Seq(S)
<1>1. PICK S : p \in Seq(S)
  BY DEF Units
<1>2. PICK T : q \in Seq(T)
  BY DEF Units
<1>3. p \in Seq(S \cup T) /\ q \in Seq(S \cup T)
  BY <1>1, <1>2, SeqMonotonic
<1>4. QED
  BY <1>3

LEMMA LengthOf ==
  ASSUME NEW q, Units(q)
  PROVE  /\ Len(q) \in Nat /\ DOMAIN q = 1 .. Len(q)
         /\ q = <<>> <=> Len(q) = 0
<1>1. PICK S : q \in Seq(S)
  BY DEF Units
<1>2. QED
  BY <1>1, LenProperties, EmptySeq

LEMMA SameUnits ==
  ASSUME NEW p, NEW q, Units(p), Units(q), Len(p) = Len(q),
         \A i \in 1 .. Len(p) : p[i] = q[i]
  PROVE  p = q
<1>1. PICK S : p \in Seq(S) /\ q \in Seq(S)
  BY OneSet
<1>2. QED
  BY <1>1, SeqEqual

LEMMA Joined ==
  ASSUME NEW p, NEW q, Units(p), Units(q)
  PROVE  /\ Units(p \o q) /\ Len(p \o q) = Len(p) + Len(q)
         /\ \A i \in 1 .. Len(p) : (p \o q)[i] = p[i]
         /\ \A i \in 1 .. Len(q) : (p \o q)[Len(p) + i] = q[i]
<1>1. PICK S : p \in Seq(S) /\ q \in Seq(S)
  BY OneSet
<1>2. /\ p \o q \in Seq(S) /\ Len(p \o q) = Len(p) + Len(q)
      /\ \A i \in 1 .. Len(p) + Len(q) :
           (p \o q)[i] = IF i <= Len(p) THEN p[i] ELSE q[i - Len(p)]
      /\ Len(p) \in Nat /\ Len(q) \in Nat
  BY <1>1, ConcatProperties, LenProperties
<1>3. \A i \in 1 .. Len(p) : (p \o q)[i] = p[i]
  BY <1>2
<1>4. ASSUME NEW i \in 1 .. Len(q) PROVE (p \o q)[Len(p) + i] = q[i]
  <2>1. Len(p) + i \in 1 .. Len(p) + Len(q) /\ ~(Len(p) + i <= Len(p)) /\ Len(p) + i - Len(p) = i
    BY <1>2
  <2>2. QED
    BY <1>2, <2>1
<1>5. QED
  BY <1>2, <1>3, <1>4 DEF Units

LEMMA JoinedTwice ==
  ASSUME NEW p, NEW q, NEW r, Units(p), Units(q), Units(r), NEW pq, pq = p \o q, NEW qr, qr = q \o r
  PROVE  pq \o r = p \o qr
<1>1. PICK S : p \in Seq(S) /\ q \in Seq(S)
  BY OneSet
<1>2. PICK T : r \in Seq(T)
  BY DEF Units
<1>3. p \in Seq(S \cup T) /\ q \in Seq(S \cup T) /\ r \in Seq(S \cup T)
  BY <1>1, <1>2, SeqMonotonic
<1>4. QED
  BY <1>3, ConcatAssociative

LEMMA Longer ==
  ASSUME NEW q, Units(q), NEW u
  PROVE  /\ Units(Append(q, u)) /\ Len(Append(q, u)) = Len(q) + 1
         /\ Append(q, u)[Len(q) + 1] = u
         /\ \A i \in 1 .. Len(q) : Append(q, u)[i] = q[i]
<1>1. PICK S : q \in Seq(S)
  BY DEF Units
<1>2. q \in Seq(S \cup {u}) /\ u \in S \cup {u}
  BY <1>1, SeqMonotonic
<1>3. QED
  BY <1>2, AppendProperties DEF Units

LEMMA Part ==
  ASSUME NEW q, Units(q), NEW a \in Nat, NEW b \in Nat, 1 <= a, b <= Len(q), a <= b + 1
  PROVE  /\ Units(SubSeq(q, a, b)) /\ Len(SubSeq(q, a, b)) = b + 1 - a
         /\ \A i \in 1 .. b + 1 - a : SubSeq(q, a, b)[i] = q[a + i - 1]
<1>1. PICK S : q \in Seq(S)
  BY DEF Units
<1>2. Len(q) \in Nat /\ \A i \in a .. b : q[i] \in S
  BY <1>1, LenProperties, ElementOfSeq
<1>3. /\ SubSeq(q, a, b) \in Seq(S)
      /\ Len(SubSeq(q, a, b)) = IF a <= b THEN b - a + 1 ELSE 0
      /\ \A i \in 1 .. b - a + 1 : SubSeq(q, a, b)[i] = q[a + i - 1]
  BY <1>2, SubSeqProperties
<1>4. b - a + 1 = b + 1 - a
  OBVIOUS
<1>5. QED
  BY <1>3, <1>4 DEF Units

LEMMA Short ==
  /\ Units(<<>>)
  /\ \A u : Units(<<u>>) /\ Len(<<u>>) = 1 /\ <<u>>[1] = u
  /\ \A u, v : Units(<<u, v>>) /\ Len(<<u, v>>) = 2 /\ <<u, v>>[1] = u /\ <<u, v>>[2] = v
<1>1. Units(<<>>)
  BY EmptySeq DEF Units
<1>2. ASSUME NEW u PROVE Units(<<u>>) /\ Len(<<u>>) = 1 /\ <<u>>[1] = u
  <2>1. <<u>> \in Seq({u})
    OBVIOUS
  <2>2. QED
    BY <2>1 DEF Units
<1>3. ASSUME NEW u, NEW v
      PROVE  Units(<<u, v>>) /\ Len(<<u, v>>) = 2 /\ <<u, v>>[1] = u /\ <<u, v>>[2] = v
  <2>1. <<u, v>> \in Seq({u, v})
    OBVIOUS
  <2>2. QED
    BY <2>1 DEF Units
<1>4. QED
  BY <1>1, <1>2, <1>3

LEMMA PadUnits ==
  ASSUME NEW n \in Nat
  PROVE  LET pad == [i \in 1 .. n |-> [f |-> "pad"]]
         IN  Units(pad) /\ Len(pad) = n /\ \A i \in 1 .. n : pad[i] = [f |-> "pad"]
<1> DEFINE pad == [i \in 1 .. n |-> [f |-> "pad"]]
<1>1. pad \in Seq({[f |-> "pad"]}) /\ Len(pad) = n
  OBVIOUS
<1>2. QED
  BY <1>1 DEF Units

-----------------------------------------------------------------------------
(* Messages, the search for the mark and the verdict.                      *)

\* build_marked_message: prefix, padding, mark, and a MAC over all of it.
Marked(key, prefix, n) ==
  prefix \o [i \in 1 .. n |-> [f |-> "pad"]] \o <<Mark(key, prefix[1])>>

LEMMA MarkedUnits ==
  ASSUME NEW key, NEW prefix, Units(prefix), Len(prefix) \in Nat \ {0}, NEW n \in Nat
  PROVE  LET m == Marked(key, prefix, n) IN
         /\ Units(m) /\ Len(m) = Len(prefix) + n + 1
         /\ \A i \in 1 .. Len(prefix) : m[i] = prefix[i]
         /\ \A i \in 1 .. n : m[Len(prefix) + i] = [f |-> "pad"]
         /\ m[Len(prefix) + n + 1] = Mark(key, prefix[1])
<1> DEFINE pad == [i \in 1 .. n |-> [f |-> "pad"]]
           mark == <<Mark(key, prefix[1])>>
           a == prefix \o pad
           m == a \o mark
<1>1. Units(pad) /\ Len(pad) = n /\ \A i \in 1 .. n : pad[i] = [f |-> "pad"]
  BY PadUnits
<1>2. Units(mark) /\ Len(mark) = 1 /\ mark[1] = Mark(key, prefix[1])
  BY Short
<1> HIDE DEF pad, mark
<1>3. /\ Units(a) /\ Len(a) = Len(prefix) + n
      /\ \A i \in 1 .. Len(prefix) : a[i] = prefix[i]
      /\ \A i \in 1 .. n : a[Len(prefix) + i] = pad[i]
  BY <1>1, Joined
<1> HIDE DEF a
<1>4. /\ Units(m) /\ Len(m) = Len(a) + 1
      /\ \A i \in 1 .. Len(a) : m[i] = a[i]
      /\ m[Len(a) + 1] = mark[1]
  <2>1. Units(a) /\ Units(mark)
    BY <1>2, <1>3
  <2>2. /\ Units(m) /\ Len(m) = Len(a) + Len(mark)
        /\ \A i \in 1 .. Len(a) : m[i] = a[i]
        /\ \A i \in 1 .. Len(mark) : m[Len(a) + i] = mark[i]
    BY <2>1, Joined
  <2>3. QED
    BY <1>2, <2>2
<1>5. m = Marked(key, prefix, n)
  BY DEF Marked, m, a, pad, mark
<1> HIDE DEF m
<1>6. ASSUME NEW i \in 1 .. n PROVE m[Len(prefix) + i] = [f |-> "pad"]
  <2>1. Len(prefix) + i \in 1 .. Len(a)
    BY <1>3
  <2>2. m[Len(prefix) + i] = a[Len(prefix) + i]
    BY <1>4, <2>1
  <2>3. QED
    BY <1>1, <1>3, <2>2
<1>7. \A i \in 1 .. Len(prefix) : m[i] = prefix[i]
  BY <1>3, <1>4
<1>8. QED
  BY <1>2, <1>3, <1>4, <1>5, <1>6, <1>7

LEMMA MessageUnits ==
  ASSUME NEW key, NEW prefix, Units(prefix), Len(prefix) \in Nat \ {0}, NEW n \in Nat, NEW hour
  PROVE  LET m == MarkedMessage(key, prefix, n, hour)
             l == Len(prefix) + n + 1 IN
         /\ Units(m) /\ Len(m) = l + 1
         /\ \A i \in 1 .. Len(prefix) : m[i] = prefix[i]
         /\ \A i \in 1 .. n : m[Len(prefix) + i] = [f |-> "pad"]
         /\ m[l] = Mark(key, prefix[1])
         /\ m[l + 1] = Mac(key, Marked(key, prefix, n), hour)
         /\ SubSeq(m, 1, l) = Marked(key, prefix, n)
<1> DEFINE b == Marked(key, prefix, n)
           l == Len(prefix) + n + 1
           mac == Mac(key, b, hour)
           m == Append(b, mac)
<1>1. /\ Units(b) /\ Len(b) = l
      /\ \A i \in 1 .. Len(prefix) : b[i] = prefix[i]
      /\ \A i \in 1 .. n : b[Len(prefix) + i] = [f |-> "pad"]
      /\ b[l] = Mark(key, prefix[1])
  <2> HIDE DEF b
  <2>1. LET c == Marked(key, prefix, n) IN
         /\ Units(c) /\ Len(c) = Len(prefix) + n + 1
         /\ \A i \in 1 .. Len(prefix) : c[i] = prefix[i]
         /\ \A i \in 1 .. n : c[Len(prefix) + i] = [f |-> "pad"]
         /\ c[Len(prefix) + n + 1] = Mark(key, prefix[1])
    BY MarkedUnits, Zenon
  <2>2. QED
    BY <2>1 DEF b
<1>2. m = MarkedMessage(key, prefix, n, hour)
  BY DEF MarkedMessage, Marked
<1> HIDE DEF b, mac
<1>0. l \in Nat
  OBVIOUS
<1>3. /\ Units(m) /\ Len(m) = l + 1 /\ m[l + 1] = mac
      /\ \A i \in 1 .. l : m[i] = b[i]
  <2>1. /\ Units(m) /\ Len(m) = Len(b) + 1 /\ m[Len(b) + 1] = mac
        /\ \A i \in 1 .. Len(b) : m[i] = b[i]
    <3>1. Units(b)
      BY <1>1
    <3>2. QED
      BY <3>1, Longer
  <2>2. QED
    BY <1>1, <2>1
<1> HIDE DEF m
<1>4. SubSeq(m, 1, l) = b
  <2>1. /\ Units(SubSeq(m, 1, l)) /\ Len(SubSeq(m, 1, l)) = l
        /\ \A i \in 1 .. l : SubSeq(m, 1, l)[i] = m[i]
    <3>1. /\ Units(SubSeq(m, 1, l)) /\ Len(SubSeq(m, 1, l)) = l + 1 - 1
          /\ \A i \in 1 .. l + 1 - 1 : SubSeq(m, 1, l)[i] = m[1 + i - 1]
      <4> HIDE DEF l
      <4>1. Units(m) /\ 1 \in Nat /\ 1 <= 1 /\ l <= Len(m) /\ 1 <= l + 1
        BY <1>0, <1>3
      <4>2. QED
        BY <1>0, <4>1, Part
    <3>2. l + 1 - 1 = l /\ \A i \in 1 .. l : 1 + i - 1 = i
      BY <1>0
    <3>3. QED
      BY <3>1, <3>2
  <2>2. QED
    BY <1>1, <1>3, <2>1, SameUnits
<1>5. QED
  BY <1>1, <1>2, <1>3, <1>4 DEF b, mac

LEMMA MessageStart ==
  ASSUME NEW key, NEW prefix, Units(prefix), Len(prefix) \in Nat \ {0}, NEW n \in Nat, NEW hour
  PROVE  /\ Units(MarkedMessage(key, prefix, n, hour))
         /\ Len(MarkedMessage(key, prefix, n, hour)) = Len(prefix) + n + 1 + 1
         /\ \A i \in 1 .. Len(prefix) : MarkedMessage(key, prefix, n, hour)[i] = prefix[i]
<1>1. LET m == MarkedMessage(key, prefix, n, hour)
          l == Len(prefix) + n + 1 IN
      /\ Units(m) /\ Len(m) = l + 1
      /\ \A i \in 1 .. Len(prefix) : m[i] = prefix[i]
      /\ \A i \in 1 .. n : m[Len(prefix) + i] = [f |-> "pad"]
      /\ m[l] = Mark(key, prefix[1])
      /\ m[l + 1] = Mac(key, Marked(key, prefix, n), hour)
      /\ SubSeq(m, 1, l) = Marked(key, prefix, n)
  BY MessageUnits, Zenon
<1>2. QED
  BY <1>1

\* A read splits what is there in two.
LEMMA ReadSplits ==
  ASSUME NEW s \in Sides, Units(buf[s]), Units(pipe[s]), NEW n \in Nat, Arrived(s, n)
  PROVE  /\ Units(Taken(s, n)) /\ Units(Rest(s, n))
         /\ Taken(s, n) \o Rest(s, n) = buf[s] \o pipe[s]
         /\ Len(Taken(s, n)) = Len(buf[s]) + n /\ Len(Rest(s, n)) = Len(pipe[s]) - n
         /\ Len(Taken(s, n)) \in Nat \ {0} /\ Len(Taken(s, n)) <= Len(buf[s] \o pipe[s])
         /\ \A i \in 1 .. Len(Taken(s, n)) : Taken(s, n)[i] = (buf[s] \o pipe[s])[i]
<1> DEFINE b == buf[s]  p == pipe[s]  h == SubSeq(p, 1, n)  t == SubSeq(p, n + 1, Len(p))
<1>1. n \in 1 .. Len(p) /\ Len(p) \in Nat /\ Len(b) \in Nat
  BY LengthOf DEF Arrived
<1>2. PICK S : b \in Seq(S) /\ p \in Seq(S)
  BY OneSet
<1>3. Units(h) /\ Len(h) = n
  <2>1. Units(h) /\ Len(h) = n + 1 - 1
    BY <1>1, Part
  <2>2. QED
    BY <1>1, <2>1
<1>4. Units(t) /\ Len(t) = Len(p) - n
  <2>1. /\ n + 1 \in Nat /\ 1 <= n + 1 /\ n + 1 <= Len(p) + 1 /\ Units(p)
        /\ Len(p) \in Nat /\ Len(p) <= Len(p)
    BY <1>1
  <2> HIDE DEF p
  <2>2. Units(t) /\ Len(t) = Len(p) + 1 - (n + 1)
    BY <2>1, Part
  <2>3. QED
    BY <1>1, <2>2
<1>5. h \o t = p
  <2>1. SubSeq(p, 1, n) \o SubSeq(p, n + 1, Len(p)) = SubSeq(p, 1, Len(p))
    BY <1>1, <1>2, ConcatAdjacentSubSeq
  <2>2. QED
    BY <1>2, <2>1, SubSeqFull
<1>6. Taken(s, n) = b \o h /\ Rest(s, n) = t
  BY DEF Taken, Rest
<1> HIDE DEF h, t, b, p
<1>7. Units(b)
  BY DEF b
<1>8. (b \o h) \o t = b \o p
  <2>1. Units(b) /\ Units(h) /\ Units(t)
    BY <1>3, <1>4, <1>7
  <2>2. (b \o h) \o t = b \o (h \o t)
    BY <2>1, JoinedTwice
  <2>3. QED
    BY <1>5, <2>2
<1>9. Units(b \o h) /\ Len(b \o h) = Len(b) + n
  BY <1>3, <1>7, Joined
<1>10. /\ Len((b \o h) \o t) = Len(b \o h) + Len(t)
       /\ \A i \in 1 .. Len(b \o h) : ((b \o h) \o t)[i] = (b \o h)[i]
  BY <1>4, <1>9, Joined
<1>11. Len(b \o h) \in Nat \ {0} /\ Len(b \o h) <= Len(b \o p)
  BY <1>1, <1>4, <1>8, <1>9, <1>10
<1>12. QED
  BY <1>4, <1>6, <1>8, <1>9, <1>10, <1>11 DEF b, p

\* find_subslice gives the first mark behind the prefix.
LEMMA MarkFound ==
  ASSUME NEW q, Units(q), NEW key, NEW prefixLen \in Nat, NEW l \in Nat, l > prefixLen,
         \A i \in prefixLen + 1 .. Len(q) : i < l => q[i] # Mark(key, q[1])
  PROVE  /\ l <= Len(q) /\ q[l] = Mark(key, q[1]) => MarkPos(q, key, prefixLen) = l
         /\ (\A i \in l .. Len(q) : q[i] # Mark(key, q[1])) => MarkPos(q, key, prefixLen) = 0
<1> DEFINE at == {i \in prefixLen + 1 .. Len(q) : q[i] = Mark(key, q[1])}
<1>1. Len(q) \in Nat
  BY LengthOf
<1>2. MarkPos(q, key, prefixLen) =
        IF at = {} THEN 0 ELSE CHOOSE i \in at : \A j \in at : i <= j
  BY DEF MarkPos
<1>3. ASSUME l <= Len(q), q[l] = Mark(key, q[1]) PROVE MarkPos(q, key, prefixLen) = l
  <2>1. l \in at /\ \A j \in at : l <= j /\ j \in Nat
    BY <1>1, <1>3
  <2> HIDE DEF at
  <2>2. (CHOOSE i \in at : \A j \in at : i <= j) = l
    <3>1. \A k \in at : (\A j \in at : k <= j) => k = l
      BY <2>1
    <3>2. \E k \in at : \A j \in at : k <= j
      BY <2>1
    <3>3. QED
      BY <3>1, <3>2
  <2>3. QED
    BY <1>2, <2>1, <2>2
<1>4. ASSUME \A i \in l .. Len(q) : q[i] # Mark(key, q[1]) PROVE MarkPos(q, key, prefixLen) = 0
  <2>1. at = {}
    BY <1>1, <1>4
  <2>2. QED
    BY <1>2, <2>1
<1>5. QED
  BY <1>3, <1>4

\* q begins as m does, as far as both go.
Begins(q, m) == \A i \in 1 .. Len(m) : i <= Len(q) => q[i] = m[i]

\* A message of that hour passes the three comparisons.
Matches(hour, hours) == \E k \in 1 .. 3 : hour = hours[k] + Offset[k]

\* What a reader takes q for that begins as a message of n units under key does.
ReadAs(q, key, prefixLen, n, hour, hours) ==
  /\ Len(q) < n =>
       Verdict(q, key, prefixLen, hours) = IF Len(q) >= MaxLen THEN "reject" ELSE "more"
  /\ Len(q) >= n =>
       /\ Verdict(q, key, prefixLen, hours) = IF Matches(hour, hours) THEN "accept" ELSE "reject"
       /\ Excess(q, key, prefixLen) = Len(q) - n
  /\ \A other : other # key /\ Len(q) <= n => Verdict(q, other, prefixLen, hours) # "accept"

LEMMA MessageRead ==
  ASSUME NEW key, NEW prefix, Units(prefix), Len(prefix) \in Nat \ {0}, NEW n \in Nat, NEW hour,
         NEW q, Units(q), Len(q) >= 1, NEW hours, Begins(q, MarkedMessage(key, prefix, n, hour))
  PROVE  ReadAs(q, key, Len(prefix), Len(prefix) + n + 2, hour, hours)
<1> DEFINE m == MarkedMessage(key, prefix, n, hour)
           L == Len(prefix)
           l == L + n + 1
<1>1. Len(q) \in Nat \ {0} /\ l \in Nat /\ l > L /\ L \in Nat \ {0}
  BY LengthOf
<1>2. /\ Units(m) /\ Len(m) = l + 1
      /\ \A i \in 1 .. L : m[i] = prefix[i]
      /\ \A i \in 1 .. n : m[L + i] = [f |-> "pad"]
      /\ m[l] = Mark(key, prefix[1])
      /\ m[l + 1] = Mac(key, Marked(key, prefix, n), hour)
      /\ SubSeq(m, 1, l) = Marked(key, prefix, n)
  BY MessageUnits
<1> HIDE DEF m, L, l
<1>3. \A i \in 1 .. l + 1 : i <= Len(q) => q[i] = m[i]
  <2>1. Begins(q, m)
    BY DEF m
  <2>2. QED
    BY <1>2, <2>1 DEF Begins
<1>4. q[1] = prefix[1]
  BY <1>1, <1>2, <1>3
<1>5. ASSUME NEW i \in L + 1 .. Len(q), i < l, NEW other PROVE q[i] # Mark(other, q[1])
  <2>1. i - L \in 1 .. n /\ L + (i - L) = i /\ i \in 1 .. l + 1
    BY <1>1, <1>5 DEF l
  <2>2. q[i] = m[i]
    BY <1>1, <1>3, <2>1
  <2>3. m[L + (i - L)] = [f |-> "pad"]
    BY <1>2, <2>1
  <2>4. QED
    BY <2>1, <2>2, <2>3 DEF Mark
<1>6. ASSUME Len(q) < l PROVE MarkPos(q, key, L) = 0
  <2>1. \A i \in l .. Len(q) : q[i] # Mark(key, q[1])
    BY <1>1, <1>6
  <2>2. \A i \in L + 1 .. Len(q) : i < l => q[i] # Mark(key, q[1])
    BY <1>5
  <2>3. QED
    BY <1>1, <2>1, <2>2, MarkFound
<1>7. ASSUME Len(q) >= l PROVE MarkPos(q, key, L) = l
  <2>1. q[l] = Mark(key, q[1])
    BY <1>1, <1>2, <1>3, <1>4, <1>7
  <2>2. \A i \in L + 1 .. Len(q) : i < l => q[i] # Mark(key, q[1])
    BY <1>5
  <2>3. QED
    BY <1>1, <1>7, <2>1, <2>2, MarkFound
<1>8. ASSUME Len(q) < l + 1
      PROVE  Verdict(q, key, L, hours) = IF Len(q) >= MaxLen THEN "reject" ELSE "more"
  <2>1. ~(MarkPos(q, key, L) # 0 /\ Len(q) >= MarkPos(q, key, L) + 1)
    BY <1>1, <1>6, <1>7, <1>8
  <2>2. QED
    BY <2>1 DEF Verdict
<1>9. ASSUME Len(q) >= l + 1
      PROVE  /\ Verdict(q, key, L, hours) =
                  IF Matches(hour, hours) THEN "accept" ELSE "reject"
             /\ Excess(q, key, L) = Len(q) - (l + 1)
  <2>1. MarkPos(q, key, L) = l /\ l # 0
    BY <1>1, <1>7, <1>9
  <2>2. SubSeq(q, 1, l) = SubSeq(m, 1, l)
    <3>1. /\ Units(SubSeq(q, 1, l)) /\ Len(SubSeq(q, 1, l)) = l + 1 - 1
          /\ \A i \in 1 .. l + 1 - 1 : SubSeq(q, 1, l)[i] = q[1 + i - 1]
      <4>1. 1 \in Nat /\ 1 <= 1 /\ l <= Len(q) /\ 1 <= l + 1
        BY <1>1, <1>9
      <4>2. QED
        BY <1>1, <4>1, Part
    <3>2. /\ Units(SubSeq(m, 1, l)) /\ Len(SubSeq(m, 1, l)) = l + 1 - 1
          /\ \A i \in 1 .. l + 1 - 1 : SubSeq(m, 1, l)[i] = m[1 + i - 1]
      <4>1. 1 \in Nat /\ 1 <= 1 /\ l <= Len(m) /\ 1 <= l + 1 /\ Units(m)
        BY <1>1, <1>2
      <4>2. QED
        BY <1>1, <4>1, Part
    <3>3. \A i \in 1 .. l : q[i] = m[i] /\ 1 + i - 1 = i
      BY <1>1, <1>3, <1>9
    <3>4. l + 1 - 1 = l
      BY <1>1
    <3>5. \A i \in 1 .. l : SubSeq(q, 1, l)[i] = SubSeq(m, 1, l)[i]
      BY <3>1, <3>2, <3>3, <3>4
    <3>6. QED
      BY <3>1, <3>2, <3>4, <3>5, SameUnits
  <2>3. q[l + 1] = Mac(key, SubSeq(q, 1, l), hour)
    <3>1. q[l + 1] = m[l + 1]
      BY <1>1, <1>3, <1>9
    <3>2. SubSeq(q, 1, l) = Marked(key, prefix, n)
      BY <1>2, <2>2
    <3>3. QED
      BY <1>2, <3>1, <3>2
  <2>4. VerifyMac(key, SubSeq(q, 1, l), q[l + 1], hours) <=>
          Matches(hour, hours)
    <3>1. ASSUME NEW d, NEW h PROVE Mac(key, d, hour) = Mac(key, d, h) <=> hour = h
      <4>1. Mac(key, d, hour).hour = hour /\ Mac(key, d, h).hour = h
        BY DEF Mac
      <4>2. QED
        BY <4>1
    <3>2. QED
      BY <2>3, <3>1 DEF VerifyMac, Matches
  <2>5. QED
    BY <1>9, <2>1, <2>4 DEF Verdict, Excess
<1>10. ASSUME NEW other, other # key, Len(q) <= l + 1
       PROVE  Verdict(q, other, L, hours) # "accept"
  <2>1. ASSUME NEW i \in l .. Len(q) PROVE q[i] # Mark(other, q[1])
    <3>1. i = l \/ i = l + 1
      BY <1>1, <1>10
    <3>2. q[i] = m[i]
      BY <1>1, <1>3, <3>1
    <3>3. QED
      BY <1>2, <1>10, <3>1, <3>2 DEF Mark, Mac
  <2>2. \A i \in L + 1 .. Len(q) : i < l => q[i] # Mark(other, q[1])
    BY <1>5
  <2>3. MarkPos(q, other, L) = 0
    BY <1>1, <2>1, <2>2, MarkFound
  <2>4. QED
    BY <2>3 DEF Verdict
<1>11. l + 1 = Len(prefix) + n + 2
  BY <1>1 DEF l, L
<1>12. ReadAs(q, key, L, l + 1, hour, hours)
  BY <1>8, <1>9, <1>10 DEF ReadAs
<1>13. QED
  BY <1>11, <1>12 DEF L

-----------------------------------------------------------------------------
(* The invariant of a connection that a client dials.                      *)

\* What a client that knows B and the server derive, each from its own end.
Session == DeriveSession(Dh("client", "server"), Dh("client", StaticSecret), ServerKey,
                         Repr("client"), Repr("server"))

Request(n, t) == MarkedMessage(configured, <<Repr("client")>>, n, HourAt("client", t))
Reply(n, t) == MarkedMessage(ServerKey, <<Repr("server"), Session.auth>>, n, HourAt("server", t))

\* All that a side that is still reading has read or can read.
Whole(s) == buf[s] \o pipe[s]

Types ==
  /\ start \in Nat /\ ticks \in Nat /\ skew \in Int /\ weak \in BOOLEAN /\ genuine \in BOOLEAN
  /\ DOMAIN pipe = Sides /\ DOMAIN buf = Sides /\ DOMAIN pc = Sides /\ DOMAIN keys = Sides
  /\ \A s \in Sides : Units(pipe[s]) /\ Units(buf[s])
  /\ sent \in [Sides -> 0 .. MaxFrames] /\ opened \in [Sides -> Nat] /\ discarded \in [Sides -> Nat]
  /\ Len(buf["server"]) < MaxLen

\* Who has keys, and which; a server has them only for a client that knows its key, and
\* a client only when the server has, and is the one the key belongs to.
KeysInv ==
  /\ \A s \in Sides :
       /\ Derived(s) <=> pc[s] \in {"open", "broken"}
       /\ Derived(s) => keys[s] = Ciphers(s, Session)
       /\ ~Derived(s) => sent[s] = 0 /\ opened[s] = 0 /\ discarded[s] = 0
       /\ pc[s] # "wait" => buf[s] = <<>>
  /\ Derived("server") => configured = ServerKey /\ ~weak /\ pc["client"] # "start"
  /\ Derived("client") => Derived("server") /\ genuine
  /\ pc["client"] # "stranger" /\ configured # None

\* The frames from..to-1 stand behind the first units of q, and nothing else does.
FramesFrom(q, first, key, from, to) ==
  /\ Len(q) = first + 2 * (to - from)
  /\ \A j \in 0 .. to - from - 1 :
       /\ q[first + 2 * j + 1] = FrameHalf(key, Nonce(from + j), 1)
       /\ q[first + 2 * j + 2] = FrameHalf(key, Nonce(from + j), 2)

\* w is the message m and the frames 0..k-1.
Carries(w, m, key, k) ==
  (\A i \in 1 .. Len(m) : w[i] = m[i]) /\ FramesFrom(w, Len(m), key, 0, k)

\* Until the server has read the request it has this request to read.
RequestInv ==
  pc["server"] = "wait" =>
    /\ pc["client"] = "start" => Whole("server") = <<>>
    /\ pc["client"] # "start" =>
         \E n \in 0 .. MaxPad, t \in 0 .. ticks : Whole("server") = Request(n, t)

\* Until the client has read the reply it has the reply to read, and the frames that
\* the server has sent since.
ReplyInv ==
  /\ ~Derived("server") => buf["client"] = <<>> /\ pipe["client"] = <<>>
  /\ Derived("server") /\ pc["client"] = "wait" =>
       \E n \in 0 .. MaxPad, t \in 0 .. ticks :
         Carries(Whole("client"), Reply(n, t), Session.s2c, sent["server"])

\* A side that has dropped nothing has the peer's frames to read from the one on that
\* its counter stands at.
FrameInv == \A s \in Sides : pc[s] = "open" /\ discarded[s] = 0 =>
  /\ opened[s] <= sent[Peer(s)]
  /\ FramesFrom(pipe[s], 0, keys[s].recv, opened[s], sent[Peer(s)])

ClientInv ==
  /\ Types /\ KeysInv /\ RequestInv /\ ReplyInv /\ FrameInv
  /\ LockstepUnlessOverread /\ SkewTolerated

-----------------------------------------------------------------------------
(* The two messages.                                                       *)

LEMMA Bounds ==
  /\ HourLen \in Nat \ {0} /\ MaxLen \in Nat \ {0} /\ ReadMax \in Nat \ {0}
  /\ CounterMod \in Nat \ {0} /\ MaxPad \in Nat /\ MaxTicks \in Nat /\ MaxFrames \in Nat
  /\ MaxPad + 4 < MaxLen /\ MaxFrames < CounterMod
BY HandshakeAssumption

LEMMA RequestUnits ==
  ASSUME NEW n \in Nat, NEW t
  PROVE  /\ Units(Request(n, t)) /\ Len(Request(n, t)) = n + 3
         /\ Request(n, t)[1] = Repr("client")
<1> DEFINE prefix == <<Repr("client")>>
           m == MarkedMessage(configured, prefix, n, HourAt("client", t))
<1>1. Units(prefix) /\ Len(prefix) = 1 /\ prefix[1] = Repr("client")
  BY Short
<1> HIDE DEF prefix
<1>2. /\ Units(m) /\ Len(m) = Len(prefix) + n + 1 + 1
      /\ \A i \in 1 .. Len(prefix) : m[i] = prefix[i]
  <2>1. Units(prefix) /\ Len(prefix) \in Nat \ {0}
    BY <1>1
  <2>2. QED
    BY <2>1, MessageStart
<1>3. m = Request(n, t)
  BY DEF Request, m, prefix
<1> HIDE DEF m
<1>4. QED
  BY <1>1, <1>2, <1>3

LEMMA ReplyUnits ==
  ASSUME NEW n \in Nat, NEW t
  PROVE  /\ Units(Reply(n, t)) /\ Len(Reply(n, t)) = n + 4
         /\ Reply(n, t)[1] = Repr("server") /\ Reply(n, t)[2] = Session.auth
<1> DEFINE prefix == <<Repr("server"), Session.auth>>
           m == MarkedMessage(ServerKey, prefix, n, HourAt("server", t))
<1>1. Units(prefix) /\ Len(prefix) = 2 /\ prefix[1] = Repr("server") /\ prefix[2] = Session.auth
  BY Short
<1> HIDE DEF prefix
<1>2. /\ Units(m) /\ Len(m) = Len(prefix) + n + 1 + 1
      /\ \A i \in 1 .. Len(prefix) : m[i] = prefix[i]
  <2>1. Units(prefix) /\ Len(prefix) \in Nat \ {0}
    BY <1>1
  <2>2. QED
    BY <2>1, MessageStart
<1>3. m = Reply(n, t)
  BY DEF Reply, m, prefix
<1> HIDE DEF m
<1>4. QED
  BY <1>1, <1>2, <1>3

\* Instants no more than an hour apart are in the same hour or in hours that follow one
\* another.
LEMMA HoursClose ==
  ASSUME NEW a \in Int, NEW b \in Int, a - b <= HourLen, b - a <= HourLen
  PROVE  \E offset \in {0, -1, 1} : a \div HourLen = (b \div HourLen) + offset
<1> DEFINE H == HourLen  p == a \div H  q == b \div H
<1>1. H \in Nat \ {0}
  BY Bounds
<1>2. /\ p \in Int /\ a = p * H + (a % H) /\ a % H \in 0 .. H - 1
      /\ q \in Int /\ b = q * H + (b % H) /\ b % H \in 0 .. H - 1
  BY <1>1
<1> HIDE DEF H, p, q
<1>3. ASSUME NEW x \in Int, NEW y \in Int, x >= y + 2 PROVE x * H >= y * H + 2 * H
  <2>1. PICK d \in Nat : x = y + 2 + d
    <3>1. x - y - 2 \in Nat /\ x = y + 2 + (x - y - 2)
      BY <1>3
    <3>2. QED
      BY <3>1
  <2>2. x * H = y * H + 2 * H + d * H
    BY <1>1, <2>1
  <2>3. d * H \in Nat
    BY <1>1
  <2>4. y * H \in Int
    BY <1>1
  <2>5. QED
    BY <1>1, <2>2, <2>3, <2>4
<1>4. p * H \in Int /\ q * H \in Int
  BY <1>1, <1>2
<1>5. a - b <= H /\ b - a <= H
  BY DEF H
<1>6. ~(p >= q + 2) /\ ~(q >= p + 2)
  BY <1>1, <1>2, <1>3, <1>4, <1>5
<1>7. p = q \/ p = q + (-1) \/ p = q + 1
  BY <1>2, <1>6
<1>8. \E offset \in {0, -1, 1} : p = q + offset
  <2>1. 0 \in {0, -1, 1} /\ (-1) \in {0, -1, 1} /\ 1 \in {0, -1, 1} /\ q + 0 = q
    BY <1>2
  <2>2. QED
    BY <1>7, <2>1
<1>9. QED
  BY <1>8 DEF p, q, H

LEMMA DivGrows ==
  ASSUME NEW a \in Int, NEW b \in Int, a <= b
  PROVE  a \div HourLen \in Int /\ b \div HourLen \in Int /\ a \div HourLen <= b \div HourLen
<1> DEFINE H == HourLen  p == a \div H  q == b \div H
<1>1. H \in Nat \ {0}
  BY Bounds
<1>2. /\ p \in Int /\ a = p * H + (a % H) /\ a % H \in 0 .. H - 1
      /\ q \in Int /\ b = q * H + (b % H) /\ b % H \in 0 .. H - 1
  BY <1>1
<1> HIDE DEF H, p, q
<1>3. ASSUME q < p PROVE FALSE
  <2>1. PICK d \in Nat : p = q + 1 + d
    <3>1. p - q - 1 \in Nat /\ p = q + 1 + (p - q - 1)
      BY <1>2, <1>3
    <3>2. QED
      BY <3>1
  <2>2. p * H = q * H + H + d * H
    BY <1>1, <1>2, <2>1
  <2>3. d * H \in Nat /\ q * H \in Int
    BY <1>1, <1>2
  <2>4. QED
    BY <1>1, <1>2, <2>2, <2>3
<1>4. QED
  BY <1>2, <1>3 DEF p, q, H

\* A check at three moments, of a message made at a: one of the comparisons is the
\* right one, unless the hour turned between the first and the last and a was ahead of
\* the first.
LEMMA HoursMatch ==
  ASSUME NEW a \in Int, NEW b \in [1 .. 3 -> Int], b[1] <= b[2], b[2] <= b[3],
         \A k \in 1 .. 3 : a - b[k] <= HourLen /\ b[k] - a <= HourLen
  PROVE  LET hours == [k \in 1 .. 3 |-> b[k] \div HourLen] IN
         Matches(a \div HourLen, hours) \/ (hours[1] # hours[3] /\ a > b[1])
<1> DEFINE hours == [k \in 1 .. 3 |-> b[k] \div HourLen]
           p == a \div HourLen  h1 == hours[1]  h2 == hours[2]  h3 == hours[3]
<1>1. b[1] \in Int /\ b[2] \in Int /\ b[3] \in Int /\ HourLen \in Nat \ {0}
  BY Bounds
<1>2. h1 = b[1] \div HourLen /\ h2 = b[2] \div HourLen /\ h3 = b[3] \div HourLen
  OBVIOUS
<1>3. /\ p \in Int /\ h1 \in Int /\ h2 \in Int /\ h3 \in Int
      /\ h1 <= h2 /\ h2 <= h3
      /\ a <= b[1] => p <= h1
  <2>1. a <= a /\ b[1] <= b[2] /\ b[2] <= b[3]
    OBVIOUS
  <2>2. QED
    BY <1>1, <1>2, <2>1, DivGrows
<1>4. \A k \in 1 .. 3 : \E offset \in {0, -1, 1} : p = (b[k] \div HourLen) + offset
  <2>1. \A k \in 1 .. 3 : b[k] \in Int /\ a - b[k] <= HourLen /\ b[k] - a <= HourLen
    OBVIOUS
  <2>2. QED
    BY <2>1, HoursClose
<1>5. (p = h1 \/ p = h1 - 1 \/ p = h1 + 1) /\ (p = h2 \/ p = h2 - 1 \/ p = h2 + 1)
  <2>1. 1 \in 1 .. 3 /\ 2 \in 1 .. 3
    OBVIOUS
  <2>2. (\E offset \in {0, -1, 1} : p = h1 + offset) /\ (\E offset \in {0, -1, 1} : p = h2 + offset)
    BY <1>2, <1>4, <2>1
  <2> HIDE DEF p, h1, h2
  <2>3. QED
    BY <1>3, <2>2
<1> HIDE DEF p, hours
<1>6. p = h1 + 0 \/ p = h2 - 1 \/ p = h3 + 1 \/ (h1 # h3 /\ a > b[1])
  <2> HIDE DEF h1, h2, h3
  <2>1. CASE p = h1
    BY <1>3, <2>1
  <2>2. CASE p = h1 - 1
    BY <1>3, <1>5, <2>2
  <2>3. CASE p = h1 + 1
    BY <1>1, <1>3, <2>3
  <2>4. QED
    BY <1>5, <2>1, <2>2, <2>3
<1>7. p = h1 + 0 \/ p = h2 - 1 \/ p = h3 + 1 => Matches(p, hours)
  <2>1. /\ 1 \in 1 .. 3 /\ 2 \in 1 .. 3 /\ 3 \in 1 .. 3
        /\ Offset[1] = 0 /\ Offset[2] = -1 /\ Offset[3] = 1
    BY DEF Offset
  <2>2. h2 - 1 = h2 + (-1)
    BY <1>3
  <2>3. /\ p = h1 + 0 => p = hours[1] + Offset[1]
        /\ p = h2 - 1 => p = hours[2] + Offset[2]
        /\ p = h3 + 1 => p = hours[3] + Offset[3]
    BY <2>1, <2>2
  <2>4. QED
    BY <2>1, <2>3 DEF Matches
<1>8. QED
  BY <1>6, <1>7 DEF p, hours

\* The clocks differ by an hour at most when t ticks have passed.
ToleratedAt(t) == (IF skew < 0 THEN -skew ELSE skew) + t <= HourLen

\* The moments of a check follow one another.
LEMMA ReadingsFollow ==
  ASSUME ticks \in Nat, NEW u \in Readings
  PROVE  /\ u[1] = ticks /\ u[1] \in Nat /\ u[2] \in Nat /\ u[3] \in Nat
         /\ u[1] <= u[2] /\ u[2] <= u[3]
<1>1. MaxTicks \in Nat
  BY Bounds
<1>2. u \in [1 .. 3 -> ticks .. MaxTicks] /\ u[1] = ticks /\ u[2] <= u[3]
  BY DEF Readings
<1>3. \A k \in 1 .. 3 : u[k] \in Nat /\ ticks <= u[k]
  BY <1>1, <1>2
<1>4. 1 \in 1 .. 3 /\ 2 \in 1 .. 3 /\ 3 \in 1 .. 3
  OBVIOUS
<1>5. QED
  BY <1>2, <1>3, <1>4

\* A side that checks at the moments u what its peer made at the moment t.
LEMMA HonestHours ==
  ASSUME start \in Nat, ticks \in Nat, skew \in Int, NEW s \in Sides, NEW t \in 0 .. ticks,
         NEW u \in Readings, ToleratedAt(u[3])
  PROVE  \/ Matches(HourAt(Peer(s), t), Hours(s, u))
         \/ Hours(s, u)[1] # Hours(s, u)[3] /\ Ahead(Peer(s))
<1> DEFINE mine == IF s = "client" THEN 0 ELSE skew
           its == IF s = "client" THEN skew ELSE 0
           a == start + t + its
           b == [k \in 1 .. 3 |-> start + u[k] + mine]
<1>1. /\ u[1] = ticks /\ u[1] \in Nat /\ u[2] \in Nat /\ u[3] \in Nat
      /\ u[1] <= u[2] /\ u[2] <= u[3]
  BY ReadingsFollow
<1>2. mine \in Int /\ its \in Int /\ t \in Nat /\ t <= ticks /\ a \in Int
  OBVIOUS
<1>3. HourAt(Peer(s), t) = a \div HourLen
  <2>1. CASE s = "client"
    BY <2>1 DEF HourAt, Peer
  <2>2. CASE s = "server"
    BY <2>2 DEF HourAt, Peer
  <2>3. QED
    BY <2>1, <2>2 DEF Sides
<1>4. Hours(s, u) = [k \in 1 .. 3 |-> b[k] \div HourLen]
  BY DEF Hours, HourAt
<1>5. /\ \A k \in 1 .. 3 : k = 1 \/ k = 2 \/ k = 3
      /\ b[1] = start + u[1] + mine /\ b[2] = start + u[2] + mine /\ b[3] = start + u[3] + mine
  OBVIOUS
<1>6. \/ mine = 0 /\ its = skew
      \/ mine = skew /\ its = 0
  OBVIOUS
<1>7. HourLen \in Nat /\ skew + u[3] <= HourLen /\ u[3] - skew <= HourLen
  BY <1>1, Bounds DEF ToleratedAt
<1>8. b \in [1 .. 3 -> Int]
  <2>1. \A k \in 1 .. 3 : u[k] \in Int
    BY <1>1, <1>5
  <2>2. QED
    BY <1>2, <2>1
<1>9. a > b[1] => Ahead(Peer(s))
  <2>1. CASE s = "client"
    BY <1>1, <1>2, <1>5, <2>1 DEF Ahead, Peer
  <2>2. CASE s = "server"
    BY <1>1, <1>2, <1>5, <2>2 DEF Ahead, Peer
  <2>3. QED
    BY <2>1, <2>2 DEF Sides
<1> HIDE DEF mine, its
<1>10. b[1] <= b[2] /\ b[2] <= b[3]
  BY <1>1, <1>2, <1>5
<1>11. \A k \in 1 .. 3 : a - b[k] <= HourLen /\ b[k] - a <= HourLen
  <2>1. a - b[1] <= HourLen /\ b[1] - a <= HourLen
    BY <1>1, <1>2, <1>5, <1>6, <1>7
  <2>2. a - b[2] <= HourLen /\ b[2] - a <= HourLen
    BY <1>1, <1>2, <1>5, <1>6, <1>7
  <2>3. a - b[3] <= HourLen /\ b[3] - a <= HourLen
    BY <1>1, <1>2, <1>5, <1>6, <1>7
  <2>4. QED
    BY <1>5, <2>1, <2>2, <2>3
<1> HIDE DEF a, b
<1>12. Matches(a \div HourLen, Hours(s, u)) \/ (Hours(s, u)[1] # Hours(s, u)[3] /\ a > b[1])
  BY <1>2, <1>4, <1>8, <1>10, <1>11, HoursMatch
<1>13. QED
  BY <1>3, <1>9, <1>12

\* What stands in front of the frames has been read.
LEMMA FramesBehind ==
  ASSUME NEW a, NEW b, Units(a), Units(b), NEW key, NEW from \in Nat, NEW to \in Nat, from <= to,
         FramesFrom(a \o b, Len(a), key, from, to)
  PROVE  FramesFrom(b, 0, key, from, to)
<1>1. /\ Len(a \o b) = Len(a) + Len(b) /\ Len(a) \in Nat /\ Len(b) \in Nat
      /\ \A i \in 1 .. Len(b) : (a \o b)[Len(a) + i] = b[i]
  BY Joined, LengthOf
<1>2. /\ Len(a \o b) = Len(a) + 2 * (to - from)
      /\ \A j \in 0 .. to - from - 1 :
           /\ (a \o b)[Len(a) + 2 * j + 1] = FrameHalf(key, Nonce(from + j), 1)
           /\ (a \o b)[Len(a) + 2 * j + 2] = FrameHalf(key, Nonce(from + j), 2)
  BY DEF FramesFrom
<1>3. Len(b) = 2 * (to - from)
  BY <1>1, <1>2
<1>4. ASSUME NEW j \in 0 .. to - from - 1
      PROVE  /\ b[0 + 2 * j + 1] = FrameHalf(key, Nonce(from + j), 1)
             /\ b[0 + 2 * j + 2] = FrameHalf(key, Nonce(from + j), 2)
  <2>1. /\ 2 * j + 1 \in 1 .. Len(b) /\ 2 * j + 2 \in 1 .. Len(b)
        /\ Len(a) + (2 * j + 1) = Len(a) + 2 * j + 1 /\ Len(a) + (2 * j + 2) = Len(a) + 2 * j + 2
        /\ 0 + 2 * j + 1 = 2 * j + 1 /\ 0 + 2 * j + 2 = 2 * j + 2
    BY <1>1, <1>3
  <2>2. /\ b[2 * j + 1] = (a \o b)[Len(a) + (2 * j + 1)]
        /\ b[2 * j + 2] = (a \o b)[Len(a) + (2 * j + 2)]
    BY <1>1, <2>1
  <2>3. /\ b[2 * j + 1] = (a \o b)[Len(a) + 2 * j + 1]
        /\ b[2 * j + 2] = (a \o b)[Len(a) + 2 * j + 2]
    BY <2>1, <2>2
  <2>4. QED
    BY <1>2, <2>1, <2>3
<1>5. QED
  BY <1>3, <1>4 DEF FramesFrom

\* The server takes its client's request for one, and nothing else.
LEMMA RequestVerdict ==
  ASSUME Types, KeysInv, RequestInv, pc["server"] = "wait", NEW n \in Nat, Arrived("server", n),
         NEW u \in Readings
  PROVE  LET q == Taken("server", n)
             v == Verdict(q, ServerKey, 1, Hours("server", u)) IN
         /\ v = "accept" =>
              /\ configured = ServerKey /\ pc["client"] # "start"
              /\ q[1] = Repr("client") /\ Rest("server", n) = <<>> /\ Excess(q, ServerKey, 1) = 0
         /\ configured = ServerKey /\ ToleratedAt(u[3]) /\ v = "reject" =>
              Hours("server", u)[1] # Hours("server", u)[3] /\ Ahead("client")
<1> DEFINE q == Taken("server", n)
           r == Rest("server", n)
           w == Whole("server")
           hours == Hours("server", u)
           v == Verdict(q, ServerKey, 1, hours)
<1>1. /\ Units(q) /\ Units(r) /\ q \o r = w /\ Len(q) \in Nat \ {0} /\ Len(q) <= Len(w)
      /\ \A i \in 1 .. Len(q) : q[i] = w[i]
  <2>1. "server" \in Sides /\ Units(buf["server"]) /\ Units(pipe["server"])
    BY DEF Types, Sides
  <2>2. QED
    BY <2>1, ReadSplits DEF Whole
<1>2. Len(w) = Len(q) + Len(r) /\ Len(w) \in Nat /\ Len(r) \in Nat /\ (r = <<>> <=> Len(r) = 0)
  BY <1>1, Joined, LengthOf
<1>4. CASE pc["client"] = "start"
  <2>1. w = <<>>
    BY <1>4 DEF RequestInv
  <2>2. Len(w) = 0
    BY <2>1
  <2>3. QED
    BY <1>1, <1>2, <2>2
<1>5. CASE pc["client"] # "start"
  <2>1. PICK m \in 0 .. MaxPad, t \in 0 .. ticks : w = Request(m, t)
    BY <1>5 DEF RequestInv
  <2>2. /\ m \in Nat /\ m <= MaxPad /\ MaxLen \in Nat /\ MaxPad + 4 < MaxLen /\ MaxPad \in Nat
        /\ t \in Nat /\ t <= ticks /\ ticks \in Nat
    BY Bounds DEF Types
  <2>3. Units(Request(m, t)) /\ Len(w) = m + 3 /\ w[1] = Repr("client")
    BY <2>1, <2>2, RequestUnits
  <2> DEFINE prefix == <<Repr("client")>>
             sentHour == HourAt("client", t)
  <2>4. Units(prefix) /\ Len(prefix) = 1
    BY Short
  <2>5. w = MarkedMessage(configured, prefix, m, sentHour)
    BY <2>1 DEF Request
  <2> HIDE DEF prefix, q, r, w, sentHour, hours
  <2>6. ReadAs(q, configured, 1, m + 3, sentHour, hours)
    <3>1. Begins(q, MarkedMessage(configured, prefix, m, sentHour))
      BY <1>1, <2>2, <2>3, <2>5 DEF Begins
    <3>2. Units(q) /\ Len(q) >= 1 /\ Units(prefix) /\ Len(prefix) \in Nat \ {0} /\ m \in Nat
      BY <1>1, <2>2, <2>4
    <3>3. ReadAs(q, configured, Len(prefix), Len(prefix) + m + 2, sentHour, hours)
      BY <3>1, <3>2, MessageRead
    <3>4. Len(prefix) + m + 2 = m + 3
      BY <2>2, <2>4
    <3>5. QED
      BY <2>4, <3>3, <3>4
  <2>7. /\ Len(q) < m + 3 =>
              Verdict(q, configured, 1, hours) = IF Len(q) >= MaxLen THEN "reject" ELSE "more"
        /\ Len(q) >= m + 3 =>
              /\ Verdict(q, configured, 1, hours) =
                   IF Matches(sentHour, hours) THEN "accept" ELSE "reject"
              /\ Excess(q, configured, 1) = Len(q) - (m + 3)
        /\ configured # ServerKey /\ Len(q) <= m + 3 => v # "accept"
    BY <2>6 DEF ReadAs
  <2>8. ASSUME v = "accept"
        PROVE  /\ configured = ServerKey
               /\ q[1] = Repr("client") /\ r = <<>> /\ Excess(q, ServerKey, 1) = 0
    <3>1. configured = ServerKey
      BY <1>1, <1>2, <2>2, <2>3, <2>7, <2>8
    <3>2. Len(q) >= m + 3
      BY <1>1, <2>2, <2>7, <2>8, <3>1
    <3>3. Len(q) = m + 3 /\ Len(r) = 0
      BY <1>1, <1>2, <2>2, <2>3, <3>2
    <3>4. QED
      BY <1>1, <1>2, <2>2, <2>3, <2>7, <3>1, <3>3
  <2>9. ASSUME configured = ServerKey, ToleratedAt(u[3]), v = "reject"
        PROVE  hours[1] # hours[3] /\ Ahead("client")
    <3>1. Len(q) < m + 3 => ~(Len(q) >= MaxLen)
      BY <1>1, <2>2
    <3>2. ~Matches(sentHour, hours)
      BY <1>1, <2>2, <2>7, <2>9, <3>1
    <3>3. "server" \in Sides /\ Peer("server") = "client"
      BY DEF Sides, Peer
    <3>4. QED
      BY <2>1, <2>9, <3>2, <3>3, HonestHours DEF Types, sentHour, hours
  <2>10. QED
    BY <1>5, <2>8, <2>9 DEF q, r, hours
<1>6. QED
  BY <1>4, <1>5

\* The client takes the reply of a server that it shares its key with for one; the
\* frames of the server that it has not read with it are left to be read.
LEMMA ReplyVerdict ==
  ASSUME Types, KeysInv, ReplyInv, pc["client"] = "wait", NEW n \in Nat, Arrived("client", n),
         NEW u \in Readings
  PROVE  LET q == Taken("client", n)
             v == Verdict(q, configured, 2, Hours("client", u)) IN
         /\ Derived("server") /\ configured = ServerKey
         /\ v = "accept" =>
              /\ q[1] = Repr("server") /\ q[2] = Session.auth
              /\ Excess(q, configured, 2) \in Nat
              /\ Excess(q, configured, 2) = 0 =>
                   FramesFrom(Rest("client", n), 0, Session.s2c, 0, sent["server"])
         /\ ToleratedAt(u[3]) /\ v = "reject" =>
              Hours("client", u)[1] # Hours("client", u)[3] /\ Ahead("server")
<1> DEFINE q == Taken("client", n)
           r == Rest("client", n)
           w == Whole("client")
           hours == Hours("client", u)
           v == Verdict(q, configured, 2, hours)
<1>1. /\ Units(q) /\ Units(r) /\ q \o r = w /\ Len(q) \in Nat \ {0} /\ Len(q) <= Len(w)
      /\ \A i \in 1 .. Len(q) : q[i] = w[i]
  <2>1. "client" \in Sides /\ Units(buf["client"]) /\ Units(pipe["client"])
    BY DEF Types, Sides
  <2>2. QED
    BY <2>1, ReadSplits DEF Whole
<1>2. Len(w) = Len(q) + Len(r) /\ Len(w) \in Nat /\ Len(r) \in Nat
  BY <1>1, Joined, LengthOf
<1>3. Derived("server") /\ configured = ServerKey
  <2>1. ASSUME ~Derived("server") PROVE FALSE
    <3>1. pipe["client"] = <<>>
      BY <2>1 DEF ReplyInv
    <3>2. Len(pipe["client"]) = 0
      BY <3>1
    <3>3. QED
      BY <3>2 DEF Arrived
  <2>2. QED
    BY <2>1 DEF KeysInv
<1>0. PICK m \in 0 .. MaxPad, t \in 0 .. ticks :
        Carries(w, Reply(m, t), Session.s2c, sent["server"])
  BY <1>3 DEF ReplyInv
<1>5. /\ m \in Nat /\ m <= MaxPad /\ MaxLen \in Nat /\ MaxPad + 4 < MaxLen /\ MaxPad \in Nat
      /\ t \in Nat /\ t <= ticks /\ ticks \in Nat
      /\ sent["server"] \in Nat
  BY Bounds DEF Types, Sides
<1>6. /\ Units(Reply(m, t)) /\ Len(Reply(m, t)) = m + 4
      /\ Reply(m, t)[1] = Repr("server") /\ Reply(m, t)[2] = Session.auth
  BY <1>5, ReplyUnits
<1>4. /\ \A i \in 1 .. m + 4 : w[i] = Reply(m, t)[i]
      /\ FramesFrom(w, m + 4, Session.s2c, 0, sent["server"])
  BY <1>0, <1>6 DEF Carries
<1>7. Len(w) >= m + 4
  BY <1>4, <1>5 DEF FramesFrom
<1> DEFINE prefix == <<Repr("server"), Session.auth>>
           sentHour == HourAt("server", t)
<1>8. Units(prefix) /\ Len(prefix) = 2
  BY Short
<1>9. Reply(m, t) = MarkedMessage(ServerKey, prefix, m, sentHour)
  BY DEF Reply
<1> HIDE DEF prefix, q, r, w, sentHour, hours
<1>10. ReadAs(q, ServerKey, 2, m + 4, sentHour, hours)
  <2>1. Begins(q, MarkedMessage(ServerKey, prefix, m, sentHour))
    <3>1. \A i \in 1 .. m + 4 : i <= Len(q) => q[i] = Reply(m, t)[i]
      BY <1>1, <1>4, <1>5
    <3>2. QED
      BY <1>6, <1>9, <3>1 DEF Begins
  <2>2. Units(q) /\ Len(q) >= 1 /\ Units(prefix) /\ Len(prefix) \in Nat \ {0} /\ m \in Nat
    BY <1>1, <1>5, <1>8
  <2>3. ReadAs(q, ServerKey, Len(prefix), Len(prefix) + m + 2, sentHour, hours)
    BY <2>1, <2>2, MessageRead
  <2>4. Len(prefix) + m + 2 = m + 4
    BY <1>5, <1>8
  <2>5. QED
    BY <1>8, <2>3, <2>4
<1>11. /\ Len(q) < m + 4 => v = IF Len(q) >= MaxLen THEN "reject" ELSE "more"
       /\ Len(q) >= m + 4 =>
            /\ v = IF Matches(sentHour, hours) THEN "accept" ELSE "reject"
            /\ Excess(q, configured, 2) = Len(q) - (m + 4)
  BY <1>3, <1>10 DEF ReadAs
<1>12. ASSUME v = "accept"
       PROVE  /\ q[1] = Repr("server") /\ q[2] = Session.auth
              /\ Excess(q, configured, 2) \in Nat
              /\ Excess(q, configured, 2) = 0 =>
                   FramesFrom(r, 0, Session.s2c, 0, sent["server"])
  <2>1. Len(q) >= m + 4
    BY <1>1, <1>5, <1>11, <1>12
  <2>2. Excess(q, configured, 2) = Len(q) - (m + 4) /\ Len(q) - (m + 4) \in Nat
    BY <1>1, <1>5, <1>11, <2>1
  <2>3. q[1] = w[1] /\ q[2] = w[2]
    BY <1>1, <1>5, <2>1
  <2>4. w[1] = Reply(m, t)[1] /\ w[2] = Reply(m, t)[2]
    BY <1>4, <1>5
  <2>5. ASSUME Excess(q, configured, 2) = 0 PROVE FramesFrom(r, 0, Session.s2c, 0, sent["server"])
    <3>1. Len(q) = m + 4
      BY <1>1, <1>5, <2>2, <2>5
    <3>2. FramesFrom(q \o r, Len(q), Session.s2c, 0, sent["server"])
      BY <1>1, <1>4, <3>1
    <3>3. 0 \in Nat /\ 0 <= sent["server"]
      BY <1>5
    <3>4. QED
      BY <1>1, <1>5, <3>2, <3>3, FramesBehind
  <2>6. QED
    BY <1>6, <2>2, <2>3, <2>4, <2>5
<1>13. ASSUME ToleratedAt(u[3]), v = "reject" PROVE hours[1] # hours[3] /\ Ahead("server")
  <2>1. Len(q) < m + 4 => ~(Len(q) >= MaxLen)
    BY <1>1, <1>5
  <2>2. ~Matches(sentHour, hours)
    BY <1>1, <1>5, <1>11, <1>13, <2>1
  <2>3. "client" \in Sides /\ Peer("client") = "server"
    BY DEF Sides, Peer
  <2>4. QED
    BY <1>13, <2>2, <2>3, HonestHours DEF Types, sentHour, hours
<1>14. QED
  BY <1>3, <1>12, <1>13 DEF q, r, hours

-----------------------------------------------------------------------------
(* Frames.                                                                 *)

Frame(key, k) == [h \in 1 .. 2 |-> FrameHalf(key, Nonce(k), h)]

LEMMA FrameUnits ==
  ASSUME NEW key, NEW k
  PROVE  /\ Units(Frame(key, k)) /\ Len(Frame(key, k)) = 2
         /\ Frame(key, k)[1] = FrameHalf(key, Nonce(k), 1)
         /\ Frame(key, k)[2] = FrameHalf(key, Nonce(k), 2)
<1> DEFINE e(h) == FrameHalf(key, Nonce(k), h)
           S == {e(h) : h \in 1 .. 2}
           g == Frame(key, k)
<1> HIDE DEF e
<1>1. g = [h \in 1 .. 2 |-> e(h)]
  BY DEF Frame, e
<1>2. \A h \in 1 .. 2 : e(h) \in S
  OBVIOUS
<1> HIDE DEF S, g
<1>3. g \in [1 .. 2 -> S]
  BY <1>1, <1>2
<1>4. g \in Seq(S) /\ Len(g) = 2
  BY <1>1, <1>3
<1>5. g[1] = e(1) /\ g[2] = e(2)
  BY <1>1
<1>6. QED
  BY <1>4, <1>5 DEF Units, e, g

\* One more frame is sealed.
LEMMA FrameAdded ==
  ASSUME NEW q, Units(q), NEW key, NEW first \in Nat, NEW from \in Nat, NEW to \in Nat, from <= to,
         FramesFrom(q, first, key, from, to)
  PROVE  FramesFrom(q \o Frame(key, to), first, key, from, to + 1)
<1> DEFINE g == Frame(key, to)  z == q \o g
<1>1. /\ Units(g) /\ Len(g) = 2
      /\ g[1] = FrameHalf(key, Nonce(to), 1) /\ g[2] = FrameHalf(key, Nonce(to), 2)
  BY FrameUnits
<1> HIDE DEF g
<1>2. /\ Len(z) = Len(q) + Len(g)
      /\ \A i \in 1 .. Len(q) : z[i] = q[i]
      /\ \A i \in 1 .. Len(g) : z[Len(q) + i] = g[i]
  <2>1. Units(g)
    BY <1>1
  <2>2. QED
    BY <2>1, Joined
<1>3. /\ Len(q) = first + 2 * (to - from)
      /\ \A j \in 0 .. to - from - 1 :
           /\ q[first + 2 * j + 1] = FrameHalf(key, Nonce(from + j), 1)
           /\ q[first + 2 * j + 2] = FrameHalf(key, Nonce(from + j), 2)
  BY DEF FramesFrom
<1> HIDE DEF z
<1>4. Len(z) = first + 2 * (to + 1 - from)
  BY <1>1, <1>2, <1>3
<1>5. ASSUME NEW j \in 0 .. to + 1 - from - 1
      PROVE  /\ z[first + 2 * j + 1] = FrameHalf(key, Nonce(from + j), 1)
             /\ z[first + 2 * j + 2] = FrameHalf(key, Nonce(from + j), 2)
  <2>1. CASE j = to - from
    <3>1. /\ first + 2 * j + 1 = Len(q) + 1 /\ first + 2 * j + 2 = Len(q) + 2 /\ from + j = to
          /\ 1 \in 1 .. Len(g) /\ 2 \in 1 .. Len(g)
      BY <1>1, <1>3, <2>1
    <3>2. z[Len(q) + 1] = g[1] /\ z[Len(q) + 2] = g[2]
      BY <1>2, <3>1
    <3>3. QED
      BY <1>1, <3>1, <3>2
  <2>2. CASE j # to - from
    <3>1. /\ j \in 0 .. to - from - 1
          /\ first + 2 * j + 1 \in 1 .. Len(q) /\ first + 2 * j + 2 \in 1 .. Len(q)
      BY <1>3, <2>2
    <3>2. z[first + 2 * j + 1] = q[first + 2 * j + 1] /\ z[first + 2 * j + 2] = q[first + 2 * j + 2]
      BY <1>2, <3>1
    <3>3. QED
      BY <1>3, <3>1, <3>2
  <2>3. QED
    BY <2>1, <2>2
<1>6. QED
  BY <1>4, <1>5 DEF FramesFrom, z, g

\* The first frame is read.
LEMMA FrameTaken ==
  ASSUME NEW q, Units(q), NEW key, NEW from \in Nat, NEW to \in Nat, from <= to,
         FramesFrom(q, 0, key, from, to), Len(q) >= 2
  PROVE  /\ SubSeq(q, 1, 2) = Frame(key, from) /\ from + 1 <= to
         /\ Units(SubSeq(q, 2 + 1, Len(q)))
         /\ FramesFrom(SubSeq(q, 2 + 1, Len(q)), 0, key, from + 1, to)
<1>1. /\ Len(q) = 0 + 2 * (to - from)
      /\ \A j \in 0 .. to - from - 1 :
           /\ q[0 + 2 * j + 1] = FrameHalf(key, Nonce(from + j), 1)
           /\ q[0 + 2 * j + 2] = FrameHalf(key, Nonce(from + j), 2)
  BY DEF FramesFrom
<1>2. from + 1 <= to /\ Len(q) \in Nat /\ Len(q) = 2 * (to - from)
  BY <1>1
<1>3. SubSeq(q, 1, 2) = Frame(key, from)
  <2>1. /\ Units(SubSeq(q, 1, 2)) /\ Len(SubSeq(q, 1, 2)) = 2 + 1 - 1
        /\ \A i \in 1 .. 2 + 1 - 1 : SubSeq(q, 1, 2)[i] = q[1 + i - 1]
    <3>1. 1 \in Nat /\ 2 \in Nat /\ 1 <= 1 /\ 2 <= Len(q) /\ 1 <= 2 + 1
      OBVIOUS
    <3>2. QED
      BY <3>1, Part
  <2>2. SubSeq(q, 1, 2)[1] = q[1] /\ SubSeq(q, 1, 2)[2] = q[2]
    <3>1. 1 \in 1 .. 2 + 1 - 1 /\ 2 \in 1 .. 2 + 1 - 1 /\ 1 + 1 - 1 = 1 /\ 1 + 2 - 1 = 2
      OBVIOUS
    <3>2. QED
      BY <2>1, <3>1
  <2>3. q[1] = FrameHalf(key, Nonce(from), 1) /\ q[2] = FrameHalf(key, Nonce(from), 2)
    <3>1. /\ 0 \in 0 .. to - from - 1 /\ 0 + 2 * 0 + 1 = 1 /\ 0 + 2 * 0 + 2 = 2 /\ from + 0 = from
      BY <1>2
    <3>2. QED
      BY <1>1, <3>1
  <2>4. /\ Units(Frame(key, from)) /\ Len(Frame(key, from)) = 2
        /\ Frame(key, from)[1] = q[1] /\ Frame(key, from)[2] = q[2]
    BY <2>3, FrameUnits
  <2>5. Len(SubSeq(q, 1, 2)) = 2
    BY <2>1
  <2>6. \A i \in 1 .. 2 : SubSeq(q, 1, 2)[i] = Frame(key, from)[i]
    <3>1. \A i \in 1 .. 2 : i = 1 \/ i = 2
      OBVIOUS
    <3>2. QED
      BY <2>2, <2>4, <3>1
  <2>7. QED
    BY <2>1, <2>4, <2>5, <2>6, SameUnits
<1>4. /\ Units(SubSeq(q, 2 + 1, Len(q)))
      /\ FramesFrom(SubSeq(q, 2 + 1, Len(q)), 0, key, from + 1, to)
  <2> DEFINE z == SubSeq(q, 3, Len(q))
  <2>1. /\ Units(z) /\ Len(z) = Len(q) + 1 - 3
        /\ \A i \in 1 .. Len(q) + 1 - 3 : z[i] = q[3 + i - 1]
    <3>1. 3 \in Nat /\ 1 <= 3 /\ Len(q) <= Len(q) /\ 3 <= Len(q) + 1 /\ Len(q) \in Nat
      BY <1>2
    <3>2. QED
      BY <3>1, Part
  <2> HIDE DEF z
  <2>2. Len(z) = 0 + 2 * (to - (from + 1))
    BY <1>2, <2>1
  <2>3. ASSUME NEW j \in 0 .. to - (from + 1) - 1
        PROVE  /\ z[0 + 2 * j + 1] = FrameHalf(key, Nonce(from + 1 + j), 1)
               /\ z[0 + 2 * j + 2] = FrameHalf(key, Nonce(from + 1 + j), 2)
    <3>1. /\ 0 + 2 * j + 1 \in 1 .. Len(q) + 1 - 3 /\ 0 + 2 * j + 2 \in 1 .. Len(q) + 1 - 3
          /\ 3 + (0 + 2 * j + 1) - 1 = 0 + 2 * (j + 1) + 1
          /\ 3 + (0 + 2 * j + 2) - 1 = 0 + 2 * (j + 1) + 2
          /\ j + 1 \in 0 .. to - from - 1 /\ from + (j + 1) = from + 1 + j
      BY <1>2
    <3>2. /\ z[0 + 2 * j + 1] = q[3 + (0 + 2 * j + 1) - 1]
          /\ z[0 + 2 * j + 2] = q[3 + (0 + 2 * j + 2) - 1]
      BY <2>1, <3>1
    <3>3. /\ z[0 + 2 * j + 1] = q[0 + 2 * (j + 1) + 1]
          /\ z[0 + 2 * j + 2] = q[0 + 2 * (j + 1) + 2]
      BY <3>1, <3>2
    <3>4. /\ q[0 + 2 * (j + 1) + 1] = FrameHalf(key, Nonce(from + (j + 1)), 1)
          /\ q[0 + 2 * (j + 1) + 2] = FrameHalf(key, Nonce(from + (j + 1)), 2)
      BY <1>1, <3>1
    <3>5. QED
      BY <3>1, <3>3, <3>4
  <2>4. FramesFrom(z, 0, key, from + 1, to)
    BY <2>2, <2>3 DEF FramesFrom
  <2>5. 2 + 1 = 3
    OBVIOUS
  <2>6. QED
    BY <2>1, <2>4, <2>5 DEF z
<1>5. QED
  BY <1>2, <1>3, <1>4

-----------------------------------------------------------------------------
(* Steps that change little.                                               *)

EnvKept == UNCHANGED <<start, skew, configured, weak, genuine>>

\* The terms of a connection stay what they are.
LEMMA SameTerms ==
  ASSUME EnvKept
  PROVE  /\ Session' = Session /\ (Session.s2c)' = Session.s2c
         /\ \A n, t : Request(n, t)' = Request(n, t) /\ Reply(n, t)' = Reply(n, t)
         /\ \A s : Ciphers(s, Session)' = Ciphers(s, Session)
<1>1. StaticSecret' = StaticSecret /\ Repr("client")' = Repr("client") /\ Repr("server")' = Repr("server")
  BY DEF EnvKept, StaticSecret, Repr
<1>2. Session' = Session
  BY <1>1 DEF Session
<1>3. ASSUME NEW s, NEW t PROVE HourAt(s, t)' = HourAt(s, t)
  BY DEF EnvKept, HourAt
<1>4. ASSUME NEW n, NEW t PROVE Request(n, t)' = Request(n, t) /\ Reply(n, t)' = Reply(n, t)
  BY <1>1, <1>2, <1>3 DEF EnvKept, Request, Reply
<1>5. ASSUME NEW s PROVE Ciphers(s, Session)' = Ciphers(s, Session)
  BY <1>2 DEF Ciphers
<1>6. QED
  BY <1>2, <1>4, <1>5

\* Time goes on.
Later == ticks' \in Nat /\ ticks <= ticks' /\ turned \subseteq turned'

LEMMA CheckedLater ==
  ASSUME ticks \in Nat, NEW s, NEW u \in Readings, Checked(s, u)
  PROVE  /\ Later /\ ticks' = u[3]
         /\ Hours(s, u)[1] # Hours(s, u)[3] => s \in turned'
<1>1. /\ u[1] = ticks /\ u[1] \in Nat /\ u[2] \in Nat /\ u[3] \in Nat
      /\ u[1] <= u[2] /\ u[2] <= u[3]
  BY ReadingsFollow
<1>2. ticks' = u[3] /\ turned' = IF Hours(s, u)[1] = Hours(s, u)[3] THEN turned ELSE turned \cup {s}
  BY DEF Checked
<1>3. turned \subseteq turned' /\ (Hours(s, u)[1] # Hours(s, u)[3] => s \in turned')
  BY <1>2
<1>4. QED
  BY <1>1, <1>2, <1>3 DEF Later

\* Nobody is rejected but as SkewTolerated allows.
LEMMA SkewKept ==
  ASSUME Types, SkewTolerated, EnvKept, Later,
         \A s \in Sides : pc'[s] = "ProbeRejected" =>
           \/ pc[s] = "ProbeRejected"
           \/ configured = ServerKey /\ Tolerated' => s \in turned' /\ Ahead(Peer(s))
  PROVE  SkewTolerated'
<1>1. Tolerated' => Tolerated
  <2>1. /\ skew \in Int /\ ticks \in Nat /\ ticks' \in Nat /\ ticks <= ticks'
        /\ skew' = skew /\ HourLen \in Nat
    BY Bounds DEF Types, Later, EnvKept
  <2> DEFINE apart == IF skew < 0 THEN -skew ELSE skew
  <2>2. (Tolerated <=> apart + ticks <= HourLen) /\ (Tolerated' <=> apart + ticks' <= HourLen)
    BY <2>1 DEF Tolerated
  <2>3. apart \in Int
    BY <2>1
  <2> HIDE DEF apart
  <2>4. \A a \in Int, t \in Nat, u \in Nat, h \in Nat : t <= u /\ a + u <= h => a + t <= h
    OBVIOUS
  <2>5. apart + ticks' <= HourLen => apart + ticks <= HourLen
    BY <2>1, <2>3, <2>4
  <2>6. QED
    BY <2>2, <2>5
<1>2. \A s : Ahead(Peer(s))' <=> Ahead(Peer(s))
  BY DEF EnvKept, Ahead, Peer
<1>3. SUFFICES ASSUME configured = ServerKey, Tolerated', NEW s \in Sides, pc'[s] = "ProbeRejected"
               PROVE  s \in turned' /\ Ahead(Peer(s))
  BY <1>2 DEF SkewTolerated, EnvKept
<1>4. pc[s] = "ProbeRejected" => s \in turned /\ Ahead(Peer(s))
  BY <1>1, <1>3 DEF SkewTolerated
<1>5. QED
  BY <1>3, <1>4 DEF Later

\* Units move from a connection to the buffer of the side that reads it, or only time
\* passes.
Quiet ==
  /\ EnvKept /\ Later
  /\ UNCHANGED <<pc, keys, sent, opened, discarded>>
  /\ DOMAIN pipe' = Sides /\ DOMAIN buf' = Sides
  /\ \A s \in Sides : Units(pipe'[s]) /\ Units(buf'[s])
  /\ Len(buf'["server"]) < MaxLen
  /\ \A s \in Sides : pc[s] = "wait" => buf'[s] \o pipe'[s] = Whole(s)
  /\ \A s \in Sides : pc[s] # "wait" => pipe'[s] = pipe[s] /\ buf'[s] = buf[s]
  /\ \A s \in Sides : buf[s] = <<>> /\ pipe[s] = <<>> => buf'[s] = <<>> /\ pipe'[s] = <<>>

LEMMA QuietStep ==
  ASSUME ClientInv, Quiet
  PROVE  ClientInv'
<1>1. /\ Types /\ KeysInv /\ RequestInv /\ ReplyInv /\ FrameInv
      /\ LockstepUnlessOverread /\ SkewTolerated
  BY DEF ClientInv
<1>2. /\ Session' = Session /\ (Session.s2c)' = Session.s2c
      /\ \A n, t : Request(n, t)' = Request(n, t) /\ Reply(n, t)' = Reply(n, t)
      /\ \A s : Ciphers(s, Session)' = Ciphers(s, Session)
  BY SameTerms DEF Quiet
<1>3. \A s \in Sides : Derived(s)' <=> Derived(s)
  BY DEF Quiet, Derived
<1>4. Types'
  BY <1>1 DEF Types, Quiet, EnvKept, Later
<1>5. KeysInv'
  BY <1>1, <1>2, <1>3 DEF KeysInv, Quiet, EnvKept, Sides
<1>6. \A t \in 0 .. ticks : t \in 0 .. ticks'
  BY <1>1 DEF Types, Quiet, Later
<1>7. RequestInv'
  <2>1. SUFFICES ASSUME pc["server"] = "wait" PROVE RequestInv'
    BY DEF RequestInv, Quiet
  <2>2. Whole("server")' = Whole("server")
    BY <2>1 DEF Quiet, Whole, Sides
  <2>3. QED
    BY <1>1, <1>2, <1>6, <2>1, <2>2 DEF RequestInv, Quiet
<1>8. ReplyInv'
  <2>1. ~Derived("server")' => buf'["client"] = <<>> /\ pipe'["client"] = <<>>
    BY <1>1, <1>3 DEF ReplyInv, Quiet, Sides
  <2>2. pc["client"] = "wait" => Whole("client")' = Whole("client")
    BY DEF Quiet, Whole, Sides
  <2>3. QED
    BY <1>1, <1>2, <1>3, <1>6, <2>1, <2>2 DEF ReplyInv, Quiet, Sides
<1>9. FrameInv'
  BY <1>1 DEF FrameInv, Quiet
<1>10. LockstepUnlessOverread'
  BY <1>1 DEF LockstepUnlessOverread, Quiet, EnvKept
<1>11. SkewTolerated'
  BY <1>1, SkewKept DEF Quiet
<1>12. QED
  BY <1>4, <1>5, <1>7, <1>8, <1>9, <1>10, <1>11 DEF ClientInv

Endings == {"ProbeRejected", "Closed", "Io", "timeout", "NonContributory", "BadServerAuth"}

\* The handshake of s ends without keys.
Leaves(s) == \E how \in Endings :
  /\ pc[s] = "wait" /\ pc' = [pc EXCEPT ![s] = how] /\ buf' = [buf EXCEPT ![s] = <<>>]
  /\ EnvKept /\ Later /\ UNCHANGED <<keys, sent, opened, discarded>>
  /\ DOMAIN pipe' = Sides /\ Units(pipe'[s]) /\ pipe'[Peer(s)] = pipe[Peer(s)]
  /\ pipe[s] = <<>> => pipe'[s] = <<>>
  /\ how = "ProbeRejected" /\ configured = ServerKey /\ Tolerated' =>
    s \in turned' /\ Ahead(Peer(s))

LEMMA LeavesStep ==
  ASSUME ClientInv, NEW s \in Sides, Leaves(s)
  PROVE  ClientInv'
<1>1. /\ Types /\ KeysInv /\ RequestInv /\ ReplyInv /\ FrameInv
      /\ LockstepUnlessOverread /\ SkewTolerated
  BY DEF ClientInv
<1>2. PICK how \in Endings :
        /\ pc[s] = "wait" /\ pc' = [pc EXCEPT ![s] = how] /\ buf' = [buf EXCEPT ![s] = <<>>]
        /\ EnvKept /\ Later /\ UNCHANGED <<keys, sent, opened, discarded>>
        /\ DOMAIN pipe' = Sides /\ Units(pipe'[s]) /\ pipe'[Peer(s)] = pipe[Peer(s)]
        /\ pipe[s] = <<>> => pipe'[s] = <<>>
        /\ how = "ProbeRejected" /\ configured = ServerKey /\ Tolerated' =>
           s \in turned' /\ Ahead(Peer(s))
  BY DEF Leaves
<1>3. /\ Session' = Session /\ (Session.s2c)' = Session.s2c
      /\ \A n, t : Request(n, t)' = Request(n, t) /\ Reply(n, t)' = Reply(n, t)
      /\ \A r : Ciphers(r, Session)' = Ciphers(r, Session)
  BY <1>2, SameTerms
<1>4. /\ how \notin {"open", "broken", "wait", "start", "stranger"}
      /\ pc'[s] = how /\ \A r \in Sides : r # s => pc'[r] = pc[r] /\ buf'[r] = buf[r] /\ pipe'[r] = pipe[r]
      /\ buf'[s] = <<>>
  <2>1. how \notin {"open", "broken", "wait", "start", "stranger"}
    BY DEF Endings
  <2>2. \A r \in Sides : r # s => r = Peer(s)
    BY DEF Sides, Peer
  <2>3. QED
    BY <1>1, <1>2, <2>1, <2>2 DEF Types
<1>5. \A r \in Sides : Derived(r)' <=> Derived(r)
  BY <1>2 DEF Derived
<1>6. ~Derived(s)
  BY <1>1, <1>2 DEF KeysInv
<1>7. Types'
  <2>1. \A r \in Sides : Units(pipe'[r]) /\ Units(buf'[r])
    BY <1>1, <1>2, <1>4, Short DEF Types
  <2>2. Len(buf'["server"]) < MaxLen
    <3>1. Len(<<>>) = 0 /\ MaxLen \in Nat \ {0} /\ "server" \in Sides
      BY Bounds DEF Sides
    <3>2. buf'["server"] = <<>> \/ buf'["server"] = buf["server"]
      BY <1>4, <3>1
    <3>3. QED
      BY <1>1, <3>1, <3>2 DEF Types
  <2>3. QED
    BY <1>1, <1>2, <2>1, <2>2 DEF Types, EnvKept, Later
<1>8. KeysInv'
  <2>1. ASSUME NEW r \in Sides
        PROVE  /\ Derived(r)' <=> pc'[r] \in {"open", "broken"}
               /\ pc'[r] # "wait" => buf'[r] = <<>>
    BY <1>1, <1>4, <1>5, <1>6 DEF KeysInv
  <2>2. /\ pc'["client"] = "start" => pc["client"] = "start"
        /\ pc["client"] # "stranger" => pc'["client"] # "stranger"
        /\ "server" \in Sides /\ "client" \in Sides
    BY <1>2, <1>4 DEF Sides
  <2>3. QED
    BY <1>1, <1>2, <1>3, <1>5, <2>1, <2>2 DEF KeysInv, EnvKept
<1>9. \A t \in 0 .. ticks : t \in 0 .. ticks'
  BY <1>1, <1>2 DEF Types, Later
<1>10. RequestInv'
  <2>1. CASE s = "server"
    BY <1>4, <2>1 DEF RequestInv
  <2>2. CASE s = "client"
    <3>1. Whole("server")' = Whole("server") /\ pc'["server"] = pc["server"]
      BY <1>4, <2>2 DEF Whole, Sides
    <3>2. pc["client"] # "start" /\ pc'["client"] # "start"
      BY <1>2, <1>4, <2>2
    <3>3. QED
      BY <1>1, <1>2, <1>3, <1>9, <3>1, <3>2 DEF RequestInv
  <2>3. QED
    BY <2>1, <2>2 DEF Sides
<1>11. ReplyInv'
  <2>1. "client" \in Sides /\ "server" \in Sides
    BY DEF Sides
  <2>2. ~Derived("server")' => buf'["client"] = <<>> /\ pipe'["client"] = <<>>
    <3>1. s = "client" \/ s # "client"
      OBVIOUS
    <3>2. QED
      BY <1>1, <1>2, <1>4, <1>5, <2>1, <3>1 DEF ReplyInv
  <2>3. pc'["client"] = "wait" => Whole("client")' = Whole("client") /\ pc["client"] = "wait"
    BY <1>4, <2>1 DEF Whole
  <2>4. QED
    BY <1>1, <1>2, <1>3, <1>5, <1>9, <2>1, <2>2, <2>3 DEF ReplyInv
<1>12. FrameInv'
  <2>1. \A r \in Sides : pc'[r] = "open" => r # s /\ pipe'[r] = pipe[r] /\ pc[r] = "open"
    BY <1>4
  <2>2. QED
    BY <1>1, <1>2, <2>1 DEF FrameInv
<1>13. LockstepUnlessOverread'
  <2>1. \A r \in Sides : pc'[r] = "broken" => pc[r] = "broken"
    BY <1>4
  <2>2. QED
    BY <1>1, <1>2, <2>1 DEF LockstepUnlessOverread, EnvKept
<1>14. SkewTolerated'
  <2>1. \A r \in Sides : pc'[r] = "ProbeRejected" =>
          \/ pc[r] = "ProbeRejected"
          \/ configured = ServerKey /\ Tolerated' => r \in turned' /\ Ahead(Peer(r))
    BY <1>2, <1>4
  <2>2. QED
    BY <1>1, <1>2, <2>1, SkewKept
<1>15. QED
  BY <1>7, <1>8, <1>10, <1>11, <1>12, <1>13, <1>14 DEF ClientInv

LEMMA ReadMoreStep ==
  ASSUME ClientInv, NEW s \in Sides, NEW n \in 1 .. ReadMax, NEW u \in Readings, ReadMore(s, n, u)
  PROVE  ClientInv'
<1> DEFINE key == IF s = "client" THEN configured ELSE ServerKey
           prefixLen == IF s = "client" THEN 2 ELSE 1
           verdict == Verdict(Taken(s, n), key, prefixLen, Hours(s, u))
<1>1. Types /\ KeysInv /\ RequestInv /\ ReplyInv
  BY DEF ClientInv
<1>2. /\ pc[s] = "wait" /\ Arrived(s, n) /\ pipe' = [pipe EXCEPT ![s] = Rest(s, n)]
      /\ EnvKept /\ UNCHANGED <<keys, sent, opened, discarded>>
      /\ \/ /\ verdict = "more"
            /\ buf' = [buf EXCEPT ![s] = Taken(s, n)]
            /\ UNCHANGED <<pc, clockVars>>
         \/ verdict = "reject" /\ Ends(s, "ProbeRejected") /\ Checked(s, u)
  BY DEF ReadMore, EnvKept, fixedVars
<1>3. n \in Nat
  BY Bounds
<1>4. /\ Units(Taken(s, n)) /\ Units(Rest(s, n))
      /\ Taken(s, n) \o Rest(s, n) = Whole(s)
      /\ Len(Taken(s, n)) \in Nat
  <2>1. Units(buf[s]) /\ Units(pipe[s])
    BY <1>1 DEF Types
  <2>2. QED
    BY <1>2, <1>3, <2>1, ReadSplits DEF Whole
<1>5. pipe[s] # <<>>
  <2>1. Len(<<>>) = 0
    OBVIOUS
  <2>2. QED
    BY <1>2, <2>1 DEF Arrived
<1>6. /\ pipe'[s] = Rest(s, n) /\ DOMAIN pipe' = Sides
      /\ \A r \in Sides : r # s => pipe'[r] = pipe[r]
  BY <1>1, <1>2 DEF Types
<1>7. CASE verdict = "more" /\ buf' = [buf EXCEPT ![s] = Taken(s, n)] /\ UNCHANGED <<pc, clockVars>>
  <2>1. /\ buf'[s] = Taken(s, n) /\ DOMAIN buf' = Sides
        /\ \A r \in Sides : r # s => buf'[r] = buf[r]
    BY <1>1, <1>7 DEF Types
  <2>2. ~(Len(Taken(s, n)) >= MaxLen)
    BY <1>7 DEF Verdict
  <2>3. Len(buf'["server"]) < MaxLen
    <3>1. CASE s = "server"
      BY <1>4, <2>1, <2>2, <3>1, Bounds
    <3>2. CASE s # "server"
      BY <1>1, <2>1, <3>2 DEF Types, Sides
    <3>3. QED
      BY <3>1, <3>2
  <2>4. \A r \in Sides : Units(pipe'[r]) /\ Units(buf'[r])
    BY <1>1, <1>4, <1>6, <2>1 DEF Types
  <2>5. /\ \A r \in Sides : pc[r] = "wait" => buf'[r] \o pipe'[r] = Whole(r)
        /\ \A r \in Sides : pc[r] # "wait" => pipe'[r] = pipe[r] /\ buf'[r] = buf[r]
        /\ \A r \in Sides : buf[r] = <<>> /\ pipe[r] = <<>> => buf'[r] = <<>> /\ pipe'[r] = <<>>
    BY <1>2, <1>4, <1>5, <1>6, <2>1 DEF Whole
  <2>6. EnvKept /\ Later
    BY <1>1, <1>2, <1>7 DEF Types, clockVars, Later
  <2>7. Quiet
    BY <1>2, <1>6, <1>7, <2>1, <2>3, <2>4, <2>5, <2>6 DEF Quiet
  <2>8. QED
    BY <2>7, QuietStep
<1>8. CASE verdict = "reject" /\ Ends(s, "ProbeRejected") /\ Checked(s, u)
  <2>1. Later /\ ticks' = u[3] /\ (Hours(s, u)[1] # Hours(s, u)[3] => s \in turned')
    BY <1>1, <1>8, CheckedLater DEF Types
  <2>2. Tolerated' <=> ToleratedAt(u[3])
    BY <1>2, <2>1 DEF Tolerated, ToleratedAt, EnvKept
  <2>3. configured = ServerKey /\ Tolerated' => s \in turned' /\ Ahead(Peer(s))
    <3>1. CASE s = "server"
      <4>1. configured = ServerKey /\ ToleratedAt(u[3]) =>
              Hours("server", u)[1] # Hours("server", u)[3] /\ Ahead("client")
        BY <1>1, <1>2, <1>3, <1>8, <3>1, RequestVerdict
      <4>2. QED
        BY <2>1, <2>2, <3>1, <4>1 DEF Peer
    <3>2. CASE s = "client"
      <4>1. ToleratedAt(u[3]) => Hours("client", u)[1] # Hours("client", u)[3] /\ Ahead("server")
        BY <1>1, <1>2, <1>3, <1>8, <3>2, ReplyVerdict
      <4>2. QED
        BY <2>1, <2>2, <3>2, <4>1 DEF Peer
    <3>3. QED
      BY <3>1, <3>2 DEF Sides
  <2>4. Peer(s) \in Sides /\ Peer(s) # s
    BY DEF Peer, Sides
  <2>5. Leaves(s)
    BY <1>2, <1>4, <1>5, <1>6, <1>8, <2>3, <2>4, <2>1 DEF Leaves, Ends, Endings
  <2>6. QED
    BY <2>5, LeavesStep
<1>9. QED
  BY <1>2, <1>7, <1>8

LEMMA EnvRests ==
  ASSUME ticks \in Nat, UNCHANGED envVars
  PROVE  EnvKept /\ Later
BY DEF envVars, fixedVars, clockVars, EnvKept, Later

\* A side gives up.
LEMMA GivesUpStep ==
  ASSUME ClientInv, NEW s \in Sides, ReadEof(s) \/ TimesOut(s)
  PROVE  ClientInv'
<1>1. Types
  BY DEF ClientInv
<1>2. PICK how \in {"Closed", "timeout"} :
        pc[s] = "wait" /\ Ends(s, how)
        /\ UNCHANGED <<envVars, junk, pipe, keys, sent, opened, discarded>>
  BY DEF ReadEof, TimesOut
<1>3. Peer(s) \in Sides /\ how \in Endings /\ how # "ProbeRejected"
  BY DEF Peer, Sides, Endings
<1>4. DOMAIN pipe' = Sides /\ Units(pipe'[s]) /\ pipe'[Peer(s)] = pipe[Peer(s)] /\ pipe'[s] = pipe[s]
  BY <1>1, <1>2 DEF Types
<1>5. Leaves(s)
  BY <1>1, <1>2, <1>3, <1>4, EnvRests DEF Leaves, Ends, Types
<1>6. QED
  BY <1>5, LeavesStep

\* Nothing of the two sides changes.
LEMMA IdleStep ==
  ASSUME ClientInv, StrangerCloses \/ Tick \/ UNCHANGED vars
  PROVE  ClientInv'
<1>1. Types
  BY DEF ClientInv
<1>2. EnvKept /\ Later /\ UNCHANGED <<pipe, pc, buf, keys, sent, opened, discarded>>
  <2>1. CASE StrangerCloses
    BY <1>1, <2>1, EnvRests DEF StrangerCloses, Types
  <2>2. CASE Tick
    BY <1>1, <2>2 DEF Tick, Types, fixedVars, EnvKept, Later
  <2>3. CASE UNCHANGED vars
    BY <1>1, <2>3, EnvRests DEF vars, Types
  <2>4. QED
    BY <2>1, <2>2, <2>3
<1>3. Quiet
  BY <1>1, <1>2 DEF Quiet, Types, Whole
<1>4. QED
  BY <1>3, QuietStep

-----------------------------------------------------------------------------
(* The steps of the handshake.                                             *)

LEMMA NoUnits ==
  /\ Len(<<>>) = 0 /\ Units(<<>>)
  /\ \A q : Units(q) => <<>> \o q = q
  /\ \A key : \A k \in Nat : FramesFrom(<<>>, 0, key, k, k)
<1>1. Len(<<>>) = 0 /\ Units(<<>>)
  BY Short
<1>2. ASSUME NEW q, Units(q) PROVE <<>> \o q = q
  <2>1. PICK S : q \in Seq(S)
    BY <1>2 DEF Units
  <2>2. QED
    BY <2>1, ConcatEmptySeq
<1>3. ASSUME NEW key, NEW k \in Nat PROVE FramesFrom(<<>>, 0, key, k, k)
  <2>1. k - k = 0 /\ 0 + 2 * 0 = 0 /\ 0 .. 0 - 1 = {}
    OBVIOUS
  <2>2. QED
    BY <1>1, <2>1 DEF FramesFrom
<1>4. QED
  BY <1>1, <1>2, <1>3

LEMMA HelloStep ==
  ASSUME ClientInv, NEW n \in 0 .. MaxPad, ClientHello(n)
  PROVE  ClientInv'
<1>1. /\ Types /\ KeysInv /\ RequestInv /\ ReplyInv /\ FrameInv
      /\ LockstepUnlessOverread /\ SkewTolerated
  BY DEF ClientInv
<1>2. /\ pc["client"] = "start"
      /\ pipe' = [pipe EXCEPT !["server"] = @ \o Request(n, ticks)]
      /\ pc' = [pc EXCEPT !["client"] = "wait"]
      /\ UNCHANGED <<start, ticks, turned, skew, configured, weak, genuine, buf, keys, sent, opened, discarded>>
  BY DEF ClientHello, Request, Hour, envVars, fixedVars, clockVars
<1>3. "client" \in Sides /\ "server" \in Sides
  BY DEF Sides
<1>4. /\ pipe'["server"] = pipe["server"] \o Request(n, ticks) /\ pipe'["client"] = pipe["client"]
      /\ pc'["client"] = "wait" /\ pc'["server"] = pc["server"]
      /\ DOMAIN pipe' = Sides /\ DOMAIN pc' = Sides
  BY <1>1, <1>2, <1>3 DEF Types
<1>5. /\ Session' = Session /\ (Session.s2c)' = Session.s2c
      /\ \A i, t : Request(i, t)' = Request(i, t) /\ Reply(i, t)' = Reply(i, t)
      /\ \A r : Ciphers(r, Session)' = Ciphers(r, Session)
  BY <1>2, SameTerms DEF EnvKept
<1>6. n \in Nat /\ ticks \in Nat
  BY <1>1, Bounds DEF Types
<1>7. Units(Request(n, ticks)) /\ Units(pipe["server"])
  BY <1>1, <1>3, <1>6, RequestUnits DEF Types
<1>8. \A r \in Sides : Derived(r)' <=> Derived(r)
  BY <1>2 DEF Derived
<1>9. ~Derived("server") /\ ~Derived("client")
  BY <1>1, <1>2 DEF KeysInv
<1>10. Types'
  <2>1. Units(pipe'["server"]) /\ Units(pipe'["client"])
    <3>1. Units(pipe["server"] \o Request(n, ticks))
      BY <1>7, Joined
    <3>2. QED
      BY <1>1, <1>3, <1>4, <3>1 DEF Types
  <2>2. QED
    BY <1>1, <1>2, <1>4, <2>1 DEF Types, Sides
<1>11. KeysInv'
  <2>1. \A r \in Sides : /\ Derived(r)' <=> pc'[r] \in {"open", "broken"}
                         /\ pc'[r] # "wait" => buf'[r] = <<>>
    BY <1>1, <1>2, <1>4, <1>8, <1>9 DEF KeysInv, Sides
  <2>2. QED
    BY <1>1, <1>2, <1>3, <1>4, <1>5, <1>8, <1>9, <2>1 DEF KeysInv
<1>12. RequestInv'
  <2>1. ASSUME pc["server"] = "wait" PROVE Whole("server")' = Request(n, ticks)
    <3>1. Whole("server") = <<>> /\ Units(buf["server"])
      BY <1>1, <1>2, <1>3, <2>1 DEF RequestInv, Types
    <3>2. Len(buf["server"]) = 0 /\ Len(pipe["server"]) = 0
      <4>1. Len(buf["server"] \o pipe["server"]) = Len(buf["server"]) + Len(pipe["server"])
        BY <1>7, <3>1, Joined
      <4>2. Len(buf["server"]) \in Nat /\ Len(pipe["server"]) \in Nat
        BY <1>7, <3>1, LengthOf
      <4>3. QED
        BY <3>1, <4>1, <4>2, NoUnits DEF Whole
    <3>3. buf["server"] = <<>> /\ pipe["server"] = <<>>
      BY <1>7, <3>1, <3>2, LengthOf
    <3>4. QED
      BY <1>2, <1>4, <1>7, <3>3, NoUnits DEF Whole
  <2>2. ticks \in 0 .. ticks'
    BY <1>2, <1>6
  <2>3. pc'["client"] # "start"
    BY <1>4
  <2>4. QED
    BY <1>4, <1>5, <2>1, <2>2, <2>3 DEF RequestInv
<1>13. ReplyInv'
  BY <1>1, <1>2, <1>3, <1>4, <1>8, <1>9 DEF ReplyInv
<1>14. FrameInv'
  <2>1. \A r \in Sides : pc'[r] # "open"
    BY <1>1, <1>4, <1>9 DEF KeysInv, Sides
  <2>2. QED
    BY <2>1 DEF FrameInv
<1>15. LockstepUnlessOverread'
  BY <1>1, <1>2, <1>4 DEF LockstepUnlessOverread, Sides
<1>16. SkewTolerated'
  <2>1. \A r \in Sides : pc'[r] = "ProbeRejected" => pc[r] = "ProbeRejected"
    BY <1>4 DEF Sides
  <2>2. EnvKept /\ Later
    BY <1>2, <1>6 DEF EnvKept, Later
  <2>3. QED
    BY <1>1, <2>1, <2>2, SkewKept
<1>17. QED
  BY <1>10, <1>11, <1>12, <1>13, <1>14, <1>15, <1>16 DEF ClientInv

\* The keys are there, whatever they are.
LEMMA KeysDerived ==
  ASSUME NEW s \in Sides
  PROVE  Ciphers(s, Session) # NoKeys
<1>1. Ciphers(s, Session).send # <<>>
  <2>1. \A a, b : <<a, b>> # <<>>
    OBVIOUS
  <2>2. Session.c2s # <<>> /\ Session.s2c # <<>>
    BY <2>1 DEF Session, DeriveSession
  <2>3. QED
    BY <2>2 DEF Ciphers
<1>2. QED
  BY <1>1 DEF NoKeys

LEMMA ServerAcceptsStep ==
  ASSUME ClientInv, NEW n \in 1 .. ReadMax, NEW pad \in 0 .. MaxPad, NEW u \in Readings,
         ServerAccepts(n, pad, u)
  PROVE  ClientInv'
<1> DEFINE q == Taken("server", n)
           x == q[1]
           y == Repr("server")
           dh1 == Dh(x.of, "server")
           dh2 == Dh(x.of, StaticSecret)
           session == DeriveSession(dh1, dh2, ServerKey, x, y)
<1>1. /\ Types /\ KeysInv /\ RequestInv /\ ReplyInv /\ FrameInv
      /\ LockstepUnlessOverread /\ SkewTolerated
  BY DEF ClientInv
<1>2. /\ pc["server"] = "wait" /\ Arrived("server", n)
      /\ Verdict(q, ServerKey, 1, Hours("server", u)) = "accept"
      /\ Checked("server", u)
      /\ UNCHANGED <<start, skew, configured, weak, genuine, sent, opened>>
      /\ \/ /\ \E how \in {"NonContributory", "Io"} : Ends("server", how)
            /\ pipe' = [pipe EXCEPT !["server"] = Rest("server", n)]
            /\ UNCHANGED <<keys, discarded>>
         \/ /\ ~NonContributory({dh1, dh2})
            /\ Establish("server", n, ServerKey, 1, session)
            /\ pipe' = [server |-> Rest("server", n),
                        client |-> pipe["client"] \o
                          MarkedMessage(ServerKey, <<y, session.auth>>, pad, HourAt("server", u[3]))]
  BY DEF ServerAccepts, fixedVars
<1>3. /\ configured = ServerKey /\ pc["client"] # "start"
      /\ x = Repr("client") /\ Rest("server", n) = <<>> /\ Excess(q, ServerKey, 1) = 0
  <2>1. n \in Nat
    BY Bounds
  <2>2. QED
    BY <1>1, <1>2, <2>1, RequestVerdict
<1>4. "client" \in Sides /\ "server" \in Sides /\ "client" # "server"
  BY DEF Sides
<1>5. ~Derived("server") /\ ~Derived("client")
  BY <1>1, <1>2, <1>4 DEF KeysInv
<1>6. EnvKept /\ Later /\ ticks' = u[3] /\ ticks' \in Nat
  BY <1>1, <1>2, CheckedLater DEF EnvKept, Types, Later
<1>7. CASE \E how \in {"NonContributory", "Io"} : Ends("server", how)
           /\ pipe' = [pipe EXCEPT !["server"] = Rest("server", n)]
           /\ UNCHANGED <<keys, discarded>>
  <2>1. /\ Units(pipe'["server"]) /\ DOMAIN pipe' = Sides
        /\ pipe'["client"] = pipe["client"] /\ pipe'["server"] = <<>>
    BY <1>1, <1>3, <1>4, <1>7, NoUnits DEF Types
  <2>2. Peer("server") = "client"
    BY DEF Peer
  <2>3. Leaves("server")
    BY <1>2, <1>7, <1>6, <2>1, <2>2 DEF Leaves, Ends, Endings
  <2>4. QED
    BY <1>4, <2>3, LeavesStep
<1>8. CASE /\ ~NonContributory({dh1, dh2})
           /\ Establish("server", n, ServerKey, 1, session)
           /\ pipe' = [server |-> Rest("server", n),
                       client |-> pipe["client"] \o
                         MarkedMessage(ServerKey, <<y, session.auth>>, pad, HourAt("server", u[3]))]
  <2>1. ~weak
    BY <1>3, <1>8 DEF NonContributory, Dh, Repr
  <2>2. session = Session
    <3>1. x.of = "client"
      BY <1>3, <2>1 DEF Repr
    <3>2. QED
      BY <1>3, <3>1 DEF Session
  <2>3. MarkedMessage(ServerKey, <<y, session.auth>>, pad, HourAt("server", u[3])) = Reply(pad, u[3])
    BY <2>2 DEF Reply
  <2>4. pad \in Nat /\ u[3] \in 0 .. ticks' /\ pad \in 0 .. MaxPad
    BY <1>6, Bounds
  <2> HIDE DEF q, x, y, dh1, dh2, session
  <2>5. /\ Units(Reply(pad, u[3])) /\ Len(Reply(pad, u[3])) = pad + 4
    BY <2>4, ReplyUnits
  <2>6. buf["client"] = <<>> /\ pipe["client"] = <<>>
    BY <1>1, <1>5 DEF ReplyInv
  <2>7. /\ pc' = [pc EXCEPT !["server"] = "open"]
        /\ keys' = [keys EXCEPT !["server"] = Ciphers("server", Session)]
        /\ discarded' = [discarded EXCEPT !["server"] = 0]
        /\ buf' = [buf EXCEPT !["server"] = <<>>]
    BY <1>3, <1>8, <2>2 DEF Establish, q
  <2>8. /\ pc'["server"] = "open" /\ pc'["client"] = pc["client"] /\ DOMAIN pc' = Sides
        /\ keys'["server"] = Ciphers("server", Session) /\ keys'["client"] = keys["client"]
        /\ discarded'["server"] = 0 /\ discarded'["client"] = discarded["client"]
        /\ buf'["server"] = <<>> /\ buf'["client"] = <<>>
        /\ DOMAIN keys' = Sides /\ DOMAIN buf' = Sides
        /\ discarded' \in [Sides -> Nat]
    BY <1>1, <1>4, <2>6, <2>7 DEF Types
  <2>9. /\ pipe'["server"] = <<>> /\ pipe'["client"] = Reply(pad, u[3]) /\ DOMAIN pipe' = Sides
    <3>1. <<>> \o Reply(pad, u[3]) = Reply(pad, u[3])
      BY <2>5, NoUnits
    <3>2. QED
      BY <1>3, <1>8, <2>3, <2>6, <3>1 DEF Sides
  <2>10. /\ Session' = Session /\ (Session.s2c)' = Session.s2c
         /\ \A i, t : Request(i, t)' = Request(i, t) /\ Reply(i, t)' = Reply(i, t)
         /\ \A r : Ciphers(r, Session)' = Ciphers(r, Session)
    BY <1>6, SameTerms
  <2>11. Derived("server")' /\ ~Derived("client")'
    BY <1>4, <1>5, <2>8, KeysDerived DEF Derived
  <2>12. sent["client"] = 0 /\ sent["server"] = 0 /\ opened["server"] = 0
    BY <1>1, <1>4, <1>5 DEF KeysInv
  <2>13. Types'
    <3>1. \A r \in Sides : Units(pipe'[r]) /\ Units(buf'[r])
      BY <2>5, <2>8, <2>9, NoUnits DEF Sides
    <3>2. Len(buf'["server"]) < MaxLen
      BY <2>8, NoUnits, Bounds
    <3>3. QED
      BY <1>1, <1>2, <1>6, <2>8, <2>9, <3>1, <3>2 DEF Types
  <2>14. KeysInv'
    <3>1. \A r \in Sides : /\ Derived(r)' <=> pc'[r] \in {"open", "broken"}
                           /\ pc'[r] # "wait" => buf'[r] = <<>>
                           /\ Derived(r)' => keys'[r] = Ciphers(r, Session)
                           /\ ~Derived(r)' => sent[r] = 0 /\ opened[r] = 0 /\ discarded'[r] = 0
      BY <1>1, <1>5, <2>8, <2>11 DEF KeysInv, Sides
    <3>2. QED
      BY <1>1, <1>2, <1>3, <2>1, <2>8, <2>10, <2>11, <3>1 DEF KeysInv
  <2>15. RequestInv'
    BY <2>8 DEF RequestInv
  <2>16. ReplyInv'
    <3>1. Whole("client")' = Reply(pad, u[3])
      <4>1. buf'["client"] \o pipe'["client"] = Reply(pad, u[3])
        BY <2>5, <2>8, <2>9, NoUnits
      <4>2. QED
        BY <4>1 DEF Whole
    <3>2. Carries(Reply(pad, u[3]), Reply(pad, u[3]), Session.s2c, 0)
      <4>1. Len(Reply(pad, u[3])) + 2 * (0 - 0) = Len(Reply(pad, u[3])) /\ 0 .. 0 - 0 - 1 = {}
        BY <2>4, <2>5
      <4>2. QED
        BY <4>1 DEF Carries, FramesFrom
    <3>3. sent'["server"] = 0
      BY <1>2, <2>12
    <3>4. QED
      BY <2>4, <2>10, <2>11, <3>1, <3>2, <3>3 DEF ReplyInv
  <2>17. FrameInv'
    <3>1. pc'["client"] # "open"
      BY <1>1, <1>4, <1>5, <2>8 DEF KeysInv
    <3>2. /\ opened'["server"] <= sent'["client"] /\ opened'["server"] = 0 /\ sent'["client"] = 0
      BY <1>2, <2>12
    <3>3. FramesFrom(pipe'["server"], 0, keys'["server"].recv, opened'["server"], sent'["client"])
      BY <2>9, <3>2, NoUnits
    <3>4. Peer("server") = "client"
      BY DEF Peer
    <3>5. QED
      BY <3>1, <3>2, <3>3, <3>4 DEF FrameInv, Sides
  <2>18. LockstepUnlessOverread'
    BY <1>1, <1>2, <2>8 DEF LockstepUnlessOverread, Sides
  <2>19. SkewTolerated'
    <3>1. \A r \in Sides : pc'[r] = "ProbeRejected" => pc[r] = "ProbeRejected"
      BY <2>8 DEF Sides
    <3>2. QED
      BY <1>1, <1>6, <3>1, SkewKept
  <2>20. QED
    BY <2>13, <2>14, <2>15, <2>16, <2>17, <2>18, <2>19 DEF ClientInv
<1>9. QED
  BY <1>2, <1>7, <1>8

\* A server that names the client's session has B's secret.
LEMMA SameSession ==
  ASSUME LET dh1 == Dh("server", "client")
             dh2 == Dh(ServerKey, "client")
             session == DeriveSession(dh1, dh2, ServerKey, Repr("client"), Repr("server"))
         IN  ~NonContributory({dh1, dh2}) /\ Session.auth = session.auth
  PROVE  /\ genuine
         /\ DeriveSession(Dh("server", "client"), Dh(ServerKey, "client"), ServerKey,
                          Repr("client"), Repr("server")) = Session
<1> DEFINE a == Dh("server", "client")
           b == Dh(ServerKey, "client")
           c == Dh("client", "server")
           d == Dh("client", StaticSecret)
           x == Repr("client")
           y == Repr("server")
<1>1. b # {} /\ b = {ServerKey, "client"} /\ d = {"client", StaticSecret}
  BY DEF NonContributory, Dh, LowOrder
<1>2. <<c, d, ServerKey, x, y>> = <<a, b, ServerKey, x, y>>
  <2>1. Session.auth.seed = <<c, d, ServerKey, x, y>>
    BY DEF Session, DeriveSession
  <2>2. DeriveSession(a, b, ServerKey, x, y).auth.seed = <<a, b, ServerKey, x, y>>
    BY DEF DeriveSession
  <2>3. Session.auth = DeriveSession(a, b, ServerKey, x, y).auth
    OBVIOUS
  <2>4. QED
    BY <2>1, <2>2, <2>3
<1> HIDE DEF a, b, c, d, x, y
<1>3. c = a /\ d = b
  BY <1>2
<1>4. ServerKey = StaticSecret
  BY <1>1, <1>3
<1>5. genuine
  BY <1>4, ServerKeyAssumption DEF StaticSecret
<1>6. QED
  BY <1>3, <1>5 DEF Session, a, b, c, d, x, y

LEMMA ClientAcceptsStep ==
  ASSUME ClientInv, NEW n \in 1 .. ReadMax, NEW u \in Readings, ClientAccepts(n, u)
  PROVE  ClientInv'
<1> DEFINE q == Taken("client", n)
           x == Repr("client")
           y == q[1]
           dh1 == Dh(y.of, "client")
           dh2 == Dh(configured, "client")
           session == DeriveSession(dh1, dh2, configured, x, y)
           how == IF NonContributory({dh1, dh2}) THEN "NonContributory" ELSE "BadServerAuth"
<1>1. /\ Types /\ KeysInv /\ RequestInv /\ ReplyInv /\ FrameInv
      /\ LockstepUnlessOverread /\ SkewTolerated
  BY DEF ClientInv
<1>2. /\ pc["client"] = "wait" /\ Arrived("client", n)
      /\ Verdict(q, configured, 2, Hours("client", u)) = "accept"
      /\ Checked("client", u)
      /\ pipe' = [pipe EXCEPT !["client"] = Rest("client", n)]
      /\ UNCHANGED <<start, skew, configured, weak, genuine, sent, opened>>
      /\ IF ~NonContributory({dh1, dh2}) /\ q[2] = session.auth
         THEN Establish("client", n, configured, 2, session)
         ELSE Ends("client", how) /\ UNCHANGED <<keys, discarded>>
  BY DEF ClientAccepts, fixedVars
<1>3. n \in Nat
  BY Bounds
<1>4. /\ Derived("server") /\ configured = ServerKey
      /\ y = Repr("server") /\ q[2] = Session.auth
      /\ Excess(q, configured, 2) \in Nat
      /\ Excess(q, configured, 2) = 0 =>
           FramesFrom(Rest("client", n), 0, Session.s2c, 0, sent["server"])
  BY <1>1, <1>2, <1>3, ReplyVerdict
<1>5. "client" \in Sides /\ "server" \in Sides /\ "client" # "server"
      /\ Peer("client") = "server" /\ Peer("server") = "client"
  BY DEF Sides, Peer
<1>6. EnvKept /\ Later /\ ticks' \in Nat
  BY <1>1, <1>2, CheckedLater DEF EnvKept, Types, Later
<1>7. Units(Rest("client", n)) /\ pipe["client"] # <<>>
  <2>1. Units(buf["client"]) /\ Units(pipe["client"])
    BY <1>1, <1>5 DEF Types
  <2>2. QED
    <3>1. Units(Rest("client", n))
      BY <1>2, <1>3, <1>5, <2>1, ReadSplits
    <3>2. pipe["client"] # <<>>
      BY <1>2, NoUnits DEF Arrived
    <3>3. QED
      BY <3>1, <3>2
<1>8. /\ pipe'["client"] = Rest("client", n) /\ pipe'["server"] = pipe["server"] /\ DOMAIN pipe' = Sides
  BY <1>1, <1>2, <1>5 DEF Types
<1>9. CASE Ends("client", how) /\ UNCHANGED <<keys, discarded>>
  <2>1. how \in Endings /\ how # "ProbeRejected"
    BY DEF Endings
  <2>2. Leaves("client")
    BY <1>2, <1>5, <1>7, <1>8, <1>9, <1>6, <2>1 DEF Leaves, Ends
  <2>3. QED
    BY <1>5, <2>2, LeavesStep
<1>10. CASE /\ ~NonContributory({dh1, dh2}) /\ q[2] = session.auth
           /\ Establish("client", n, configured, 2, session)
  <2>1. genuine /\ session = Session
    <3>1. y.of = "server"
      BY <1>4 DEF Repr
    <3>2. QED
      BY <1>4, <1>10, <3>1, SameSession
  <2> HIDE DEF q, x, y, dh1, dh2, session, how
  <2>2. /\ pc' = [pc EXCEPT !["client"] = "open"]
        /\ keys' = [keys EXCEPT !["client"] = Ciphers("client", Session)]
        /\ discarded' = [discarded EXCEPT !["client"] = Excess(q, configured, 2)]
        /\ buf' = [buf EXCEPT !["client"] = <<>>]
    BY <1>10, <2>1 DEF Establish, q
  <2>3. /\ pc'["client"] = "open" /\ pc'["server"] = pc["server"] /\ DOMAIN pc' = Sides
        /\ keys'["client"] = Ciphers("client", Session) /\ keys'["server"] = keys["server"]
        /\ discarded'["client"] = Excess(q, configured, 2) /\ discarded'["server"] = discarded["server"]
        /\ buf'["client"] = <<>> /\ buf'["server"] = buf["server"]
        /\ DOMAIN keys' = Sides /\ DOMAIN buf' = Sides
        /\ discarded' \in [Sides -> Nat]
    BY <1>1, <1>4, <1>5, <2>2 DEF Types
  <2>4. /\ Session' = Session /\ (Session.s2c)' = Session.s2c
        /\ \A i, t : Request(i, t)' = Request(i, t) /\ Reply(i, t)' = Reply(i, t)
        /\ \A r : Ciphers(r, Session)' = Ciphers(r, Session)
    BY <1>6, SameTerms
  <2>5. Derived("client")' /\ Derived("server")'
    BY <1>4, <1>5, <2>3, KeysDerived DEF Derived
  <2>6. ~Derived("client")
    BY <1>1, <1>2, <1>5 DEF KeysInv
  <2>7. sent["client"] = 0 /\ opened["client"] = 0
    BY <1>1, <1>5, <2>6 DEF KeysInv
  <2>8. Types'
    <3>1. \A r \in Sides : Units(pipe'[r]) /\ Units(buf'[r])
      BY <1>1, <1>7, <1>8, <2>3, NoUnits DEF Sides, Types
    <3>2. QED
      BY <1>1, <1>2, <1>8, <1>6, <2>3, <3>1 DEF Types
  <2>9. KeysInv'
    <3>1. \A r \in Sides : /\ Derived(r)' <=> pc'[r] \in {"open", "broken"}
                           /\ pc'[r] # "wait" => buf'[r] = <<>>
                           /\ Derived(r)' => keys'[r] = Ciphers(r, Session)
                           /\ ~Derived(r)' => sent[r] = 0 /\ opened[r] = 0 /\ discarded'[r] = 0
      BY <1>1, <1>4, <2>3, <2>5 DEF KeysInv, Sides
    <3>2. ~weak /\ configured # None
      BY <1>1, <1>2, <1>4 DEF KeysInv
    <3>3. QED
      BY <1>2, <1>4, <2>1, <2>3, <2>4, <2>5, <3>1, <3>2 DEF KeysInv
  <2>10. RequestInv'
    <3>1. pc["server"] # "wait"
      BY <1>1, <1>4, <1>5 DEF KeysInv
    <3>2. QED
      BY <2>3, <3>1 DEF RequestInv
  <2>11. ReplyInv'
    BY <2>3, <2>5 DEF ReplyInv
  <2>12. FrameInv'
    <3>1. ASSUME discarded'["client"] = 0
          PROVE  /\ opened'["client"] <= sent'["server"]
                 /\ FramesFrom(pipe'["client"], 0, keys'["client"].recv, opened'["client"], sent'["server"])
      <4>1. /\ opened'["client"] = 0 /\ sent'["server"] = sent["server"] /\ sent["server"] \in Nat
        BY <1>1, <1>2, <1>5, <2>7, Bounds DEF Types
      <4>2. keys'["client"].recv = Session.s2c
        BY <2>3 DEF Ciphers
      <4>3. FramesFrom(Rest("client", n), 0, Session.s2c, 0, sent["server"])
        BY <1>4, <2>3, <3>1
      <4>4. QED
        BY <1>8, <4>1, <4>2, <4>3
    <3>2. ASSUME pc'["server"] = "open", discarded'["server"] = 0
          PROVE  /\ opened'["server"] <= sent'["client"]
                 /\ FramesFrom(pipe'["server"], 0, keys'["server"].recv, opened'["server"], sent'["client"])
      BY <1>1, <1>2, <1>5, <1>8, <2>3, <3>2 DEF FrameInv
    <3>3. QED
      BY <1>5, <3>1, <3>2 DEF FrameInv, Sides
  <2>13. LockstepUnlessOverread'
    BY <1>1, <1>2, <2>3 DEF LockstepUnlessOverread, Sides
  <2>14. SkewTolerated'
    <3>1. \A r \in Sides : pc'[r] = "ProbeRejected" => pc[r] = "ProbeRejected"
      BY <2>3 DEF Sides
    <3>2. QED
      BY <1>1, <1>6, <3>1, SkewKept
  <2>15. QED
    BY <2>8, <2>9, <2>10, <2>11, <2>12, <2>13, <2>14 DEF ClientInv
<1>11. QED
  BY <1>2, <1>9, <1>10

-----------------------------------------------------------------------------
(* Frames on their way.                                                    *)

LEMMA SendStep ==
  ASSUME ClientInv, NEW s \in Sides, SendFrame(s)
  PROVE  ClientInv'
<1> DEFINE r == Peer(s)  g == Frame(keys[s].send, sent[s])
<1>1. /\ Types /\ KeysInv /\ RequestInv /\ ReplyInv /\ FrameInv
      /\ LockstepUnlessOverread /\ SkewTolerated
  BY DEF ClientInv
<1>2. /\ pc[s] = "open" /\ sent[s] < MaxFrames
      /\ sent' = [sent EXCEPT ![s] = @ + 1]
      /\ pipe' = [pipe EXCEPT ![r] = @ \o g]
      /\ UNCHANGED <<start, ticks, turned, skew, configured, weak, genuine, pc, buf, keys, opened, discarded>>
  BY DEF SendFrame, Frame, envVars, fixedVars, clockVars
<1>3. /\ r \in Sides /\ r # s /\ Peer(r) = s
      /\ (s = "server" /\ r = "client") \/ (s = "client" /\ r = "server")
      /\ "client" \in Sides /\ "server" \in Sides
  <2>1. s = "server" \/ s = "client"
    BY DEF Sides
  <2>2. Peer("server") = "client" /\ Peer("client") = "server"
    BY DEF Peer
  <2>3. QED
    BY <2>1, <2>2 DEF Sides
<1>4. Units(g) /\ Units(pipe[r]) /\ Units(buf[r]) /\ sent[s] \in Nat
  BY <1>1, <1>3, FrameUnits, Bounds DEF Types
<1> HIDE DEF r, g
<1>5. /\ pipe'[r] = pipe[r] \o g /\ pipe'[s] = pipe[s] /\ DOMAIN pipe' = Sides
      /\ sent'[s] = sent[s] + 1 /\ sent'[r] = sent[r] /\ sent' \in [Sides -> 0 .. MaxFrames]
  BY <1>1, <1>2, <1>3, <1>4, Bounds, SMTT(30) DEF Types
<1>6. \A i \in Sides : i = s \/ i = r
  BY <1>3 DEF Sides
<1>7. Derived(s) /\ Derived("server") /\ ~(pc["server"] = "wait")
  BY <1>1, <1>2, <1>3 DEF KeysInv
<1>8. keys[s] = Ciphers(s, Session)
  BY <1>1, <1>7 DEF KeysInv
<1>9. \A i \in Sides : Derived(i)' <=> Derived(i)
  BY <1>2 DEF Derived
<1>10. /\ Session' = Session /\ (Session.s2c)' = Session.s2c
       /\ \A i, t : Request(i, t)' = Request(i, t) /\ Reply(i, t)' = Reply(i, t)
       /\ \A i : Ciphers(i, Session)' = Ciphers(i, Session)
  BY <1>2, SameTerms DEF EnvKept
<1>11. Types'
  <2>1. Units(pipe[r] \o g)
    BY <1>4, Joined
  <2>2. \A i \in Sides : Units(pipe'[i]) /\ Units(buf'[i])
    BY <1>1, <1>2, <1>5, <1>6, <2>1 DEF Types
  <2>3. QED
    BY <1>1, <1>2, <1>5, <2>2 DEF Types
<1>12. KeysInv'
  <2>1. \A i \in Sides : /\ Derived(i)' <=> pc'[i] \in {"open", "broken"}
                         /\ pc'[i] # "wait" => buf'[i] = <<>>
                         /\ Derived(i)' => keys'[i] = Ciphers(i, Session)
                         /\ ~Derived(i)' => sent'[i] = 0 /\ opened'[i] = 0 /\ discarded'[i] = 0
    BY <1>1, <1>2, <1>5, <1>6, <1>7, <1>9 DEF KeysInv
  <2>2. QED
    BY <1>1, <1>2, <1>3, <1>9, <1>10, <2>1 DEF KeysInv
<1>13. RequestInv'
  BY <1>2, <1>7 DEF RequestInv
<1>14. ReplyInv'
  <2>1. CASE s = "client"
    <3>1. pc["client"] # "wait"
      BY <1>2, <2>1
    <3>2. QED
      BY <1>2, <1>3, <1>7, <1>9, <3>1 DEF ReplyInv
  <2>2. CASE s = "server"
    <3> DEFINE w == Whole("client")
    <3>1. ASSUME pc["client"] = "wait"
          PROVE  \E n \in 0 .. MaxPad, t \in 0 .. ticks :
                   Carries(w \o g, Reply(n, t), Session.s2c, sent["server"] + 1)
      <4>1. PICK n \in 0 .. MaxPad, t \in 0 .. ticks : Carries(w, Reply(n, t), Session.s2c, sent["server"])
        BY <1>1, <1>7, <3>1 DEF ReplyInv
      <4> DEFINE m == Reply(n, t)  k == sent["server"]
      <4>2. n \in Nat /\ k \in Nat
        BY <1>4, <2>2, Bounds
      <4>3. Units(m) /\ Len(m) = n + 4
        BY <4>2, ReplyUnits
      <4>4. Units(w)
        BY <1>3, <1>4, <2>2, Joined DEF Whole
      <4> HIDE DEF m, k, w
      <4>5. (\A i \in 1 .. Len(m) : w[i] = m[i]) /\ FramesFrom(w, Len(m), Session.s2c, 0, k)
        BY <4>1 DEF Carries, m, k
      <4>6. g = Frame(Session.s2c, k)
        BY <1>8, <2>2 DEF g, k, Ciphers
      <4>7. Len(m) \in Nat /\ 0 \in Nat /\ 0 <= k
        BY <4>2, <4>3
      <4>8. FramesFrom(w \o g, Len(m), Session.s2c, 0, k + 1)
        BY <4>2, <4>4, <4>5, <4>6, <4>7, FrameAdded
      <4>9. Len(w) \in Nat /\ Len(m) <= Len(w)
        BY <4>2, <4>4, <4>5, <4>7, LengthOf DEF FramesFrom
      <4>10. \A i \in 1 .. Len(w) : (w \o g)[i] = w[i]
        BY <1>4, <4>4, Joined
      <4>11. \A i \in 1 .. Len(m) : (w \o g)[i] = m[i]
        BY <4>5, <4>7, <4>9, <4>10
      <4>12. Carries(w \o g, m, Session.s2c, k + 1)
        BY <4>8, <4>11 DEF Carries
      <4>13. QED
        BY <4>12 DEF m, k
    <3>2. Whole("client")' = w \o g
      <4>1. (buf["client"] \o pipe["client"]) \o g = buf["client"] \o (pipe["client"] \o g)
        <5> DEFINE b == buf["client"]  p == pipe["client"]
        <5>1. Units(b) /\ Units(p) /\ Units(g)
          BY <1>3, <1>4, <2>2
        <5> HIDE DEF b, p
        <5>2. (b \o p) \o g = b \o (p \o g)
          BY <5>1, JoinedTwice
        <5>3. QED
          BY <5>2 DEF b, p
      <4>2. QED
        BY <1>2, <1>3, <1>5, <2>2, <4>1 DEF Whole
    <3> HIDE DEF w
    <3>3. sent'["server"] = sent["server"] + 1 /\ ticks' = ticks /\ pc' = pc
      BY <1>2, <1>5, <2>2
    <3>4. QED
      BY <1>7, <1>9, <1>10, <1>3, <3>1, <3>2, <3>3 DEF ReplyInv
  <2>3. QED
    BY <1>3, <2>1, <2>2
<1>15. FrameInv'
  <2>1. ASSUME pc[r] = "open", discarded[r] = 0
        PROVE  /\ opened[r] <= sent[s] + 1
               /\ FramesFrom(pipe[r] \o g, 0, keys[r].recv, opened[r], sent[s] + 1)
    <3>1. opened[r] <= sent[s] /\ FramesFrom(pipe[r], 0, keys[r].recv, opened[r], sent[s])
      BY <1>1, <1>3, <2>1 DEF FrameInv
    <3>2. keys[r] = Ciphers(r, Session)
      BY <1>1, <1>3, <2>1 DEF KeysInv
    <3>3. keys[r].recv = keys[s].send
      BY <1>3, <1>8, <3>2 DEF Ciphers
    <3>4. opened[r] \in Nat /\ 0 \in Nat
      BY <1>1, <1>3 DEF Types
    <3>5. FramesFrom(pipe[r] \o g, 0, keys[r].recv, opened[r], sent[s] + 1)
      BY <1>4, <3>1, <3>3, <3>4, FrameAdded DEF g
    <3>6. QED
      BY <1>4, <3>1, <3>4, <3>5
  <2>2. ASSUME pc[s] = "open", discarded[s] = 0
        PROVE  /\ opened[s] <= sent[r]
               /\ FramesFrom(pipe[s], 0, keys[s].recv, opened[s], sent[r])
    BY <1>1, <2>2 DEF FrameInv, r
  <2>3. Peer(s) = r
    BY DEF r
  <2>4. QED
    BY <1>2, <1>3, <1>5, <1>6, <2>1, <2>2, <2>3 DEF FrameInv
<1>16. LockstepUnlessOverread'
  BY <1>1, <1>2 DEF LockstepUnlessOverread
<1>17. SkewTolerated'
  BY <1>1, <1>2, SkewKept DEF Types, EnvKept, Later
<1>18. QED
  BY <1>11, <1>12, <1>13, <1>14, <1>15, <1>16, <1>17 DEF ClientInv

LEMMA OpenStep ==
  ASSUME ClientInv, NEW s \in Sides, OpenFrame(s)
  PROVE  ClientInv'
<1> DEFINE r == Peer(s)  g == Frame(keys[s].recv, opened[s])  z == SubSeq(pipe[s], 2 + 1, Len(pipe[s]))
<1>1. /\ Types /\ KeysInv /\ RequestInv /\ ReplyInv /\ FrameInv
      /\ LockstepUnlessOverread /\ SkewTolerated
  BY DEF ClientInv
<1>2. /\ pc[s] = "open" /\ Len(pipe[s]) >= 2
      /\ pipe' = [pipe EXCEPT ![s] = z]
      /\ opened' = [opened EXCEPT ![s] = @ + 1]
      /\ IF SubSeq(pipe[s], 1, 2) = g THEN UNCHANGED <<pc, buf>> ELSE Ends(s, "broken")
      /\ UNCHANGED <<start, ticks, turned, skew, configured, weak, genuine, keys, sent, discarded>>
  BY DEF OpenFrame, Frame, Rest, envVars, fixedVars, clockVars
<1>3. /\ r \in Sides /\ r # s /\ Peer(r) = s
      /\ (s = "server" /\ r = "client") \/ (s = "client" /\ r = "server")
      /\ "client" \in Sides /\ "server" \in Sides
  <2>1. s = "server" \/ s = "client"
    BY DEF Sides
  <2>2. Peer("server") = "client" /\ Peer("client") = "server"
    BY DEF Peer
  <2>3. QED
    BY <2>1, <2>2 DEF Sides
<1>4. Units(pipe[s]) /\ Len(pipe[s]) \in Nat /\ opened[s] \in Nat /\ discarded[s] \in Nat
      /\ sent[r] \in Nat
  BY <1>1, <1>3, LengthOf, Bounds DEF Types
<1>5. Units(z)
  <2>1. /\ 2 + 1 \in Nat /\ 1 <= 2 + 1 /\ Len(pipe[s]) <= Len(pipe[s])
        /\ 2 + 1 <= Len(pipe[s]) + 1
    BY <1>2, <1>4
  <2>2. QED
    BY <1>4, <2>1, Part
<1> HIDE DEF g, z, r
<1>6. /\ pipe'[s] = z /\ pipe'[r] = pipe[r] /\ DOMAIN pipe' = Sides
      /\ opened'[s] = opened[s] + 1 /\ opened'[r] = opened[r] /\ opened' \in [Sides -> Nat]
  BY <1>1, <1>2, <1>3, <1>4, SMTT(30) DEF Types
<1>7. \A i \in Sides : i = s \/ i = r
  BY <1>3 DEF Sides
<1>8. Derived(s) /\ Derived("server") /\ pc["server"] # "wait"
  BY <1>1, <1>2, <1>3 DEF KeysInv
<1>9. /\ pc'[r] = pc[r] /\ buf'[r] = buf[r] /\ buf'[s] = <<>> /\ pc'[s] \in {"open", "broken"}
      /\ DOMAIN pc' = Sides /\ DOMAIN buf' = Sides
      /\ pc'[s] = "broken" => SubSeq(pipe[s], 1, 2) # g
  <2>1. buf[s] = <<>>
    BY <1>1, <1>2 DEF KeysInv
  <2>2. CASE UNCHANGED <<pc, buf>>
    BY <1>1, <1>2, <2>1, <2>2 DEF Types
  <2>3. CASE Ends(s, "broken") /\ SubSeq(pipe[s], 1, 2) # g
    BY <1>1, <1>3, <2>3 DEF Types, Ends
  <2>4. QED
    BY <1>2, <2>2, <2>3
<1>10. ASSUME discarded[s] = 0
       PROVE  /\ SubSeq(pipe[s], 1, 2) = g /\ opened[s] + 1 <= sent[r]
              /\ FramesFrom(z, 0, keys[s].recv, opened[s] + 1, sent[r])
  <2>1. opened[s] <= sent[r] /\ FramesFrom(pipe[s], 0, keys[s].recv, opened[s], sent[r])
    BY <1>1, <1>2, <1>10 DEF FrameInv, r
  <2>2. QED
    BY <1>2, <1>4, <2>1, FrameTaken DEF g, z
<1>11. \A i \in Sides : Derived(i)' <=> Derived(i)
  BY <1>2 DEF Derived
<1>12. /\ Session' = Session /\ (Session.s2c)' = Session.s2c
       /\ \A i, t : Request(i, t)' = Request(i, t) /\ Reply(i, t)' = Reply(i, t)
       /\ \A i : Ciphers(i, Session)' = Ciphers(i, Session)
  BY <1>2, SameTerms DEF EnvKept
<1>13. Types'
  <2>1. \A i \in Sides : Units(pipe'[i]) /\ Units(buf'[i])
    BY <1>1, <1>3, <1>5, <1>6, <1>7, <1>9, NoUnits DEF Types
  <2>2. Len(buf'["server"]) < MaxLen
    <3>1. buf'["server"] = <<>> \/ buf'["server"] = buf["server"]
      BY <1>3, <1>9
    <3>2. Len(buf["server"]) < MaxLen /\ Len(<<>>) = 0 /\ 0 < MaxLen
      BY <1>1, NoUnits, Bounds DEF Types
    <3>3. QED
      BY <3>1, <3>2
  <2>3. QED
    BY <1>1, <1>2, <1>6, <1>9, <2>1, <2>2 DEF Types
<1>14. KeysInv'
  <2>1. \A i \in Sides : /\ Derived(i)' <=> pc'[i] \in {"open", "broken"}
                         /\ pc'[i] # "wait" => buf'[i] = <<>>
                         /\ Derived(i)' => keys'[i] = Ciphers(i, Session)
                         /\ ~Derived(i)' => sent'[i] = 0 /\ opened'[i] = 0 /\ discarded'[i] = 0
    BY <1>1, <1>2, <1>6, <1>7, <1>8, <1>9, <1>11 DEF KeysInv
  <2>2. /\ pc'["client"] # "stranger"
        /\ pc'["client"] = "start" => pc["client"] = "start"
    BY <1>1, <1>2, <1>3, <1>9 DEF KeysInv
  <2>3. QED
    BY <1>1, <1>2, <1>3, <1>11, <1>12, <2>1, <2>2 DEF KeysInv
<1>15. RequestInv'
  BY <1>3, <1>8, <1>9 DEF RequestInv
<1>16. ReplyInv'
  <2>1. CASE s = "client"
    BY <1>3, <1>8, <1>9, <1>11, <2>1 DEF ReplyInv
  <2>2. CASE s = "server"
    <3>1. Whole("client")' = Whole("client") /\ pc'["client"] = pc["client"]
      BY <1>3, <1>6, <1>9, <2>2 DEF Whole
    <3>2. QED
      BY <1>1, <1>2, <1>3, <1>8, <1>11, <1>12, <3>1 DEF ReplyInv
  <2>3. QED
    BY <1>3, <2>1, <2>2
<1>17. FrameInv'
  <2>1. Peer(s) = r
    BY DEF r
  <2>2. ASSUME pc[r] = "open", discarded[r] = 0
        PROVE  /\ opened[r] <= sent[s]
               /\ FramesFrom(pipe[r], 0, keys[r].recv, opened[r], sent[s])
    BY <1>1, <1>3, <2>2 DEF FrameInv
  <2>3. QED
    BY <1>2, <1>3, <1>6, <1>7, <1>9, <1>10, <2>1, <2>2 DEF FrameInv
<1>18. LockstepUnlessOverread'
  <2>1. pc'[s] = "broken" => discarded[s] > 0
    BY <1>4, <1>9, <1>10
  <2>2. QED
    BY <1>1, <1>2, <1>7, <1>9, <2>1 DEF LockstepUnlessOverread
<1>19. SkewTolerated'
  <2>1. \A i \in Sides : pc'[i] = "ProbeRejected" => pc[i] = "ProbeRejected"
    BY <1>7, <1>9
  <2>2. EnvKept /\ Later
    BY <1>1, <1>2 DEF EnvKept, Later, Types
  <2>3. QED
    BY <1>1, <2>1, <2>2, SkewKept
<1>20. QED
  BY <1>13, <1>14, <1>15, <1>16, <1>17, <1>18, <1>19 DEF ClientInv
-----------------------------------------------------------------------------
(* A connection of a stranger.                                             *)

\* What a stranger sends: bytes of its own, and the units of the recorded request.
StrangerUnits ==
  {PastRepr, [f |-> "pad"], Mark(ServerKey, PastRepr),
   Mac(ServerKey, Marked(ServerKey, <<PastRepr>>, MaxPad), start \div HourLen)}

LEMMA EachUnit ==
  ASSUME NEW key, NEW prefix, Units(prefix), Len(prefix) \in Nat \ {0}, NEW n \in Nat, NEW hour,
         NEW i \in 1 .. Len(MarkedMessage(key, prefix, n, hour))
  PROVE  MarkedMessage(key, prefix, n, hour)[i] \in
           {prefix[j] : j \in 1 .. Len(prefix)} \cup
             {[f |-> "pad"], Mark(key, prefix[1]), Mac(key, Marked(key, prefix, n), hour)}
<1> DEFINE m == MarkedMessage(key, prefix, n, hour)
           L == Len(prefix)
           l == L + n + 1
<1>1. l \in Nat /\ L \in Nat \ {0}
  BY LengthOf
<1>2. /\ Units(m) /\ Len(m) = l + 1
      /\ \A j \in 1 .. L : m[j] = prefix[j]
      /\ \A j \in 1 .. n : m[L + j] = [f |-> "pad"]
      /\ m[l] = Mark(key, prefix[1])
      /\ m[l + 1] = Mac(key, Marked(key, prefix, n), hour)
      /\ SubSeq(m, 1, l) = Marked(key, prefix, n)
  BY MessageUnits
<1> HIDE DEF m
<1>3. i \in 1 .. l + 1
  BY <1>2 DEF m
<1>4. CASE i <= L
  <2>1. i \in 1 .. L
    BY <1>3, <1>4
  <2>2. QED
    BY <1>2, <2>1 DEF m
<1>5. CASE i > L /\ i < l
  <2>1. i - L \in 1 .. n /\ L + (i - L) = i
    BY <1>1, <1>3, <1>5
  <2>2. m[i] = [f |-> "pad"]
    BY <1>2, <2>1
  <2>3. QED
    BY <2>2 DEF m
<1>6. CASE i = l \/ i = l + 1
  BY <1>2, <1>6 DEF m
<1>7. i <= L \/ (i > L /\ i < l) \/ i = l \/ i = l + 1
  BY <1>1, <1>3
<1>8. QED
  BY <1>4, <1>5, <1>6, <1>7

LEMMA RecordedUnits == \A i \in 1 .. Len(Recorded) : Recorded[i] \in StrangerUnits
<1> DEFINE prefix == <<PastRepr>>
           hour == start \div HourLen
           m == MarkedMessage(ServerKey, prefix, MaxPad, hour)
<1>1. Units(prefix) /\ Len(prefix) = 1 /\ prefix[1] = PastRepr /\ MaxPad \in Nat
  BY Short, Bounds
<1>2. {prefix[j] : j \in 1 .. Len(prefix)} = {PastRepr}
  <2> HIDE DEF prefix
  <2>1. \A j \in 1 .. Len(prefix) : j = 1
    BY <1>1
  <2>2. 1 \in 1 .. Len(prefix)
    BY <1>1
  <2>3. QED
    BY <1>1, <2>1, <2>2
<1> HIDE DEF prefix, hour
<1>3. ASSUME NEW i \in 1 .. Len(m) PROVE m[i] \in StrangerUnits
  <2>1. m[i] \in {prefix[j] : j \in 1 .. Len(prefix)} \cup
                   {[f |-> "pad"], Mark(ServerKey, prefix[1]), Mac(ServerKey, Marked(ServerKey, prefix, MaxPad), hour)}
    <3>1. Len(prefix) \in Nat \ {0}
      BY <1>1
    <3>2. QED
      BY <1>1, <1>3, <3>1, EachUnit
  <2> HIDE DEF m
  <2>2. m[i] \in {PastRepr, [f |-> "pad"], Mark(ServerKey, PastRepr), Mac(ServerKey, Marked(ServerKey, prefix, MaxPad), hour)}
    BY <1>1, <1>2, <2>1
  <2>3. QED
    BY <2>2 DEF StrangerUnits, prefix, hour
<1>4. QED
  BY <1>3 DEF Recorded, m, prefix, hour

\* The server has answered a replay, in an hour next to the recorded one.
ReplayAnswered ==
  /\ keys["server"] = Ciphers("server", PastSession)
  /\ start \div HourLen \in HourAt("server", 0) - 1 .. Hour("server") + 1

StrangerInv ==
  /\ configured = None /\ pc["client"] = "stranger" /\ ~Derived("client")
  /\ start \in Nat /\ ticks \in Nat /\ skew \in Int
  /\ DOMAIN pipe = Sides /\ DOMAIN buf = Sides /\ DOMAIN pc = Sides /\ DOMAIN keys = Sides
  /\ DOMAIN opened = Sides
  /\ buf["server"] \in Seq(StrangerUnits) /\ pipe["server"] \in Seq(StrangerUnits)
  /\ Len(buf["server"]) < MaxLen
  /\ Derived("server") <=> pc["server"] \in {"open", "broken"}
  /\ Derived("server") => ReplayAnswered
  /\ pipe["client"] # <<>> => Derived("server")
  /\ opened["server"] > 0 => pc["server"] = "broken"

LEMMA HourTypes ==
  ASSUME start \in Nat, skew \in Int, NEW a \in Nat, NEW b \in Nat, a <= b
  PROVE  /\ HourAt("server", a) \in Int /\ HourAt("server", b) \in Int
         /\ HourAt("server", a) <= HourAt("server", b)
<1>1. start + a + skew \in Int /\ start + b + skew \in Int /\ start + a + skew <= start + b + skew
  OBVIOUS
<1>2. HourAt("server", a) = (start + a + skew) \div HourLen /\ HourAt("server", b) = (start + b + skew) \div HourLen
  BY DEF HourAt
<1>3. QED
  BY <1>1, <1>2, DivGrows

LEMMA StrangerTerms ==
  ASSUME StrangerInv, EnvKept, Later
  PROVE  /\ StrangerUnits' = StrangerUnits /\ Ciphers("server", PastSession)' = Ciphers("server", PastSession)
         /\ HourAt("server", 0)' = HourAt("server", 0) /\ (start \div HourLen)' = start \div HourLen
         /\ HourAt("server", 0) \in Int /\ Hour("server") \in Int /\ Hour("server")' \in Int
         /\ Hour("server") <= Hour("server")' /\ Hour("server")' = HourAt("server", ticks')
<1>1. /\ start \in Nat /\ skew \in Int /\ ticks \in Nat /\ ticks' \in Nat /\ ticks <= ticks'
      /\ start' = start /\ skew' = skew
  BY DEF StrangerInv, EnvKept, Later
<1>2. Hour("server")' = HourAt("server", ticks') /\ HourAt("server", 0)' = HourAt("server", 0)
  BY <1>1 DEF Hour, HourAt
<1>3. /\ HourAt("server", 0) \in Int /\ HourAt("server", ticks) \in Int /\ HourAt("server", ticks') \in Int
      /\ HourAt("server", ticks) <= HourAt("server", ticks')
  <2>1. 0 \in Nat /\ 0 <= ticks
    BY <1>1
  <2>2. QED
    BY <1>1, <2>1, HourTypes
<1>4. StrangerUnits' = StrangerUnits
  BY <1>1 DEF StrangerUnits
<1>5. Repr("server")' = Repr("server") /\ StaticSecret' = StaticSecret
  BY DEF EnvKept, StaticSecret, Repr
<1>6. PastSession' = PastSession
  BY <1>5 DEF PastSession
<1>7. QED
  BY <1>1, <1>2, <1>3, <1>4, <1>6 DEF Hour, Ciphers

\* A step in which nobody gets keys.
LEMMA StrangerQuiet ==
  ASSUME StrangerInv, EnvKept, Later, pc'["client"] = "stranger", keys' = keys,
         DOMAIN pipe' = Sides, DOMAIN buf' = Sides, DOMAIN pc' = Sides, DOMAIN opened' = Sides,
         buf'["server"] \in Seq(StrangerUnits), pipe'["server"] \in Seq(StrangerUnits),
         Len(buf'["server"]) < MaxLen, pipe'["client"] # <<>> => Derived("server"),
         pc'["server"] \in {"open", "broken"} <=> pc["server"] \in {"open", "broken"},
         opened'["server"] > 0 => pc'["server"] = "broken"
  PROVE  StrangerInv'
<1>1. /\ StrangerUnits' = StrangerUnits /\ Ciphers("server", PastSession)' = Ciphers("server", PastSession)
      /\ HourAt("server", 0)' = HourAt("server", 0) /\ (start \div HourLen)' = start \div HourLen
      /\ HourAt("server", 0) \in Int /\ Hour("server") \in Int /\ Hour("server")' \in Int
      /\ Hour("server") <= Hour("server")'
  BY StrangerTerms
<1>2. \A s \in Sides : Derived(s)' <=> Derived(s)
  BY DEF Derived
<1>3. ReplayAnswered => ReplayAnswered'
  <2>1. start \div HourLen \in HourAt("server", 0) - 1 .. Hour("server") + 1 =>
          start \div HourLen \in HourAt("server", 0) - 1 .. Hour("server")' + 1
    BY <1>1
  <2>2. QED
    BY <1>1, <2>1 DEF ReplayAnswered
<1>4. "client" \in Sides /\ "server" \in Sides
  BY DEF Sides
<1>5. start' \in Nat /\ ticks' \in Nat /\ skew' \in Int /\ configured' = None
  BY DEF StrangerInv, EnvKept, Later
<1>6. QED
  BY <1>1, <1>2, <1>3, <1>4, <1>5 DEF StrangerInv

\* A set of numbers has a least one.
Less == OpToRel(<, Nat)

LEMMA Least ==
  ASSUME NEW T, T \subseteq Nat, T # {}
  PROVE  \E x \in T : \A y \in T : x <= y
<1>1. IsWellFoundedOn(Less, Nat)
  BY NatLessThanWellFounded DEF Less
<1>2. \A x \in Nat, y \in Nat : y < x => <<y, x>> \in Less
  BY DEF Less, OpToRel
<1> HIDE DEF Less
<1>3. PICK x \in T : \A y \in T : ~(<<y, x>> \in Less)
  BY <1>1, WFMin
<1>4. ASSUME NEW y \in T PROVE x <= y
  <2>1. ~(y < x)
    BY <1>2, <1>3
  <2>2. x \in Nat /\ y \in Nat
    OBVIOUS
  <2>3. QED
    BY <2>1, <2>2
<1>5. QED
  BY <1>4

\* Only the recorded request is accepted, in the hours around its own.
LEMMA ReplayVerdict ==
  ASSUME StrangerInv, NEW q \in Seq(StrangerUnits), NEW u \in Readings,
         Verdict(q, ServerKey, 1, Hours("server", u)) = "accept"
  PROVE  /\ q[1] = PastRepr
         /\ start \div HourLen \in HourAt("server", 0) - 1 .. HourAt("server", u[3]) + 1
<1> DEFINE p == MarkPos(q, ServerKey, 1)
           hours == Hours("server", u)
           at == {i \in 1 + 1 .. Len(q) : q[i] = Mark(ServerKey, q[1])}
           hour == start \div HourLen
<1>0. Len(q) \in Nat /\ \A i \in 1 .. Len(q) : q[i] \in StrangerUnits
  <2>1. Len(q) \in Nat
    BY LenProperties
  <2>2. QED
    BY <2>1, ElementOfSeq
<1>1. p # 0 /\ Len(q) >= p + 1 /\ VerifyMac(ServerKey, SubSeq(q, 1, p), q[p + 1], hours)
  BY DEF Verdict
<1>2. p \in at
  <2>1. p = IF at = {} THEN 0 ELSE CHOOSE i \in at : \A j \in at : i <= j
    BY DEF MarkPos
  <2>2. at \subseteq Nat
    BY <1>0
  <2> HIDE DEF at, p
  <2>3. at # {}
    BY <1>1, <2>1
  <2>4. \E i \in at : \A j \in at : i <= j
    BY <2>2, <2>3, Least
  <2>5. QED
    BY <2>1, <2>3, <2>4
<1>3. /\ p \in 2 .. Len(q) /\ q[p] = Mark(ServerKey, q[1]) /\ p + 1 \in 1 .. Len(q) /\ p \in 1 .. Len(q)
  BY <1>0, <1>1, <1>2
<1>4. PICK k \in 1 .. 3 : q[p + 1] = Mac(ServerKey, SubSeq(q, 1, p), hours[k] + Offset[k])
  BY <1>1 DEF VerifyMac
<1> HIDE DEF p, at
<1>5. q[1] = PastRepr
  <2>1. q[p] \in StrangerUnits /\ q[p].f = "mark"
    BY <1>0, <1>3 DEF Mark
  <2>2. q[p] = Mark(ServerKey, PastRepr)
    BY <2>1 DEF StrangerUnits, PastRepr, Mark, Mac
  <2>3. q[p].over = q[1] /\ q[p].over = PastRepr
    BY <1>3, <2>2 DEF Mark
  <2>4. QED
    BY <2>3
<1>6. hour = hours[k] + Offset[k]
  <2>1. q[p + 1] \in StrangerUnits /\ q[p + 1].f = "mac" /\ q[p + 1].hour = hours[k] + Offset[k]
    BY <1>0, <1>3, <1>4 DEF Mac
  <2>2. q[p + 1].hour = hour
    BY <2>1 DEF StrangerUnits, PastRepr, Mark, Mac
  <2>3. QED
    BY <2>1, <2>2
<1>7. hours[k] \in Int /\ HourAt("server", 0) <= hours[k] /\ hours[k] <= HourAt("server", u[3])
      /\ HourAt("server", 0) \in Int /\ HourAt("server", u[3]) \in Int
  <2>1. /\ u[1] = ticks /\ u[1] \in Nat /\ u[2] \in Nat /\ u[3] \in Nat
        /\ u[1] <= u[2] /\ u[2] <= u[3]
    BY ReadingsFollow DEF StrangerInv
  <2>2. u[k] \in Nat /\ u[k] <= u[3] /\ 0 <= u[k] /\ 0 \in Nat
    <3>1. k = 1 \/ k = 2 \/ k = 3
      OBVIOUS
    <3>2. QED
      BY <2>1, <3>1
  <2>3. hours[k] = HourAt("server", u[k])
    BY DEF Hours
  <2>4. start \in Nat /\ skew \in Int
    BY DEF StrangerInv
  <2>5. /\ HourAt("server", 0) \in Int /\ HourAt("server", u[k]) \in Int /\ HourAt("server", u[3]) \in Int
        /\ HourAt("server", 0) <= HourAt("server", u[k]) /\ HourAt("server", u[k]) <= HourAt("server", u[3])
    BY <2>1, <2>2, <2>4, HourTypes
  <2>6. QED
    BY <2>3, <2>5
<1>8. Offset[k] = 0 \/ Offset[k] = -1 \/ Offset[k] = 1
  BY DEF Offset
<1>9. hour \in HourAt("server", 0) - 1 .. HourAt("server", u[3]) + 1
  <2> HIDE DEF hour, hours
  <2>1. QED
    BY <1>6, <1>7, <1>8
<1>10. QED
  BY <1>5, <1>9

LEMMA StrangerReads ==
  ASSUME NEW S, buf["server"] \in Seq(S), pipe["server"] \in Seq(S),
         NEW n \in 1 .. ReadMax, Arrived("server", n)
  PROVE  Taken("server", n) \in Seq(S) /\ Rest("server", n) \in Seq(S)
<1> DEFINE p == pipe["server"]
<1>1. n \in Nat /\ n >= 1 /\ n <= Len(p) /\ Len(p) \in Nat
  BY LenProperties, Bounds DEF Arrived
<1>2. \A i \in 1 .. Len(p) : p[i] \in S
  BY <1>1, ElementOfSeq
<1>3. SubSeq(p, 1, n) \in Seq(S)
  <2>1. \A i \in 1 .. n : p[i] \in S
    BY <1>1, <1>2
  <2>2. QED
    BY <1>1, <2>1, SubSeqProperties
<1>4. SubSeq(p, n + 1, Len(p)) \in Seq(S)
  <2>1. \A i \in n + 1 .. Len(p) : p[i] \in S
    BY <1>1, <1>2
  <2>2. n + 1 \in Int /\ Len(p) \in Int
    BY <1>1
  <2>3. QED
    BY <2>1, <2>2, SubSeqProperties
<1>5. QED
  BY <1>3, <1>4, ConcatProperties DEF Taken, Rest

LEMMA ReplayAcceptedStep ==
  ASSUME StrangerInv, NEW n \in 1 .. ReadMax, NEW pad \in 0 .. MaxPad, NEW u \in Readings,
         ServerAccepts(n, pad, u)
  PROVE  StrangerInv'
<1> DEFINE q == Taken("server", n)
           y == Repr("server")
           dh1 == Dh(q[1].of, "server")
           dh2 == Dh(q[1].of, StaticSecret)
           session == DeriveSession(dh1, dh2, ServerKey, q[1], y)
           reply == MarkedMessage(ServerKey, <<y, session.auth>>, pad, HourAt("server", u[3]))
<1>1. /\ pc["server"] = "wait" /\ Arrived("server", n)
      /\ Verdict(q, ServerKey, 1, Hours("server", u)) = "accept"
      /\ Checked("server", u)
      /\ EnvKept /\ UNCHANGED opened
      /\ \/ /\ \E how \in {"NonContributory", "Io"} : Ends("server", how)
            /\ pipe' = [pipe EXCEPT !["server"] = Rest("server", n)]
            /\ UNCHANGED keys
         \/ /\ Establish("server", n, ServerKey, 1, session)
            /\ pipe' = [server |-> Rest("server", n), client |-> pipe["client"] \o reply]
  BY DEF ServerAccepts, fixedVars, EnvKept
<1>2. "client" \in Sides /\ "server" \in Sides /\ "client" # "server"
  BY DEF Sides
<1>3. q \in Seq(StrangerUnits) /\ Rest("server", n) \in Seq(StrangerUnits)
  BY <1>1, StrangerReads DEF StrangerInv
<1>4. Later /\ ticks' = u[3]
  BY <1>1, CheckedLater DEF StrangerInv
<1>5. /\ q[1] = PastRepr
      /\ start \div HourLen \in HourAt("server", 0) - 1 .. HourAt("server", u[3]) + 1
  BY <1>1, <1>3, ReplayVerdict
<1>6. Len(<<>>) < MaxLen /\ <<>> \in Seq(StrangerUnits)
  BY Bounds
<1>7. CASE /\ \E how \in {"NonContributory", "Io"} : Ends("server", how)
           /\ pipe' = [pipe EXCEPT !["server"] = Rest("server", n)]
           /\ UNCHANGED keys
  <2>1. /\ pc'["client"] = "stranger" /\ DOMAIN pipe' = Sides /\ DOMAIN buf' = Sides
        /\ DOMAIN pc' = Sides /\ buf'["server"] = <<>> /\ pipe'["server"] = Rest("server", n)
        /\ pipe'["client"] = pipe["client"] /\ pc'["server"] \notin {"open", "broken", "wait"}
    BY <1>2, <1>7 DEF StrangerInv, Ends
  <2>2. ~(opened["server"] > 0) /\ DOMAIN opened' = Sides /\ pc["server"] \notin {"open", "broken"}
    BY <1>1 DEF StrangerInv
  <2>3. pipe'["client"] # <<>> => Derived("server")
    BY <2>1 DEF StrangerInv
  <2>4. QED
    BY <1>1, <1>3, <1>4, <1>6, <1>7, <2>1, <2>2, <2>3, StrangerQuiet
<1>8. CASE /\ Establish("server", n, ServerKey, 1, session)
           /\ pipe' = [server |-> Rest("server", n), client |-> pipe["client"] \o reply]
  <2>1. session = PastSession
    <3>1. PastRepr.of = "past"
      BY DEF PastRepr
    <3>2. QED
      BY <1>5, <3>1 DEF PastSession
  <2> HIDE DEF q, y, dh1, dh2, session, reply
  <2>2. /\ pc' = [pc EXCEPT !["server"] = "open"]
        /\ keys' = [keys EXCEPT !["server"] = Ciphers("server", PastSession)]
        /\ buf' = [buf EXCEPT !["server"] = <<>>]
    BY <1>8, <2>1 DEF Establish
  <2>3. /\ pc'["server"] = "open" /\ pc'["client"] = "stranger" /\ DOMAIN pc' = Sides
        /\ keys'["server"] = Ciphers("server", PastSession) /\ keys'["client"] = keys["client"]
        /\ DOMAIN keys' = Sides /\ buf'["server"] = <<>> /\ DOMAIN buf' = Sides
    BY <1>2, <2>2 DEF StrangerInv
  <2>4. pipe'["server"] = Rest("server", n) /\ DOMAIN pipe' = Sides
    BY <1>8 DEF Sides
  <2>5. /\ StrangerUnits' = StrangerUnits /\ Ciphers("server", PastSession)' = Ciphers("server", PastSession)
        /\ HourAt("server", 0)' = HourAt("server", 0) /\ (start \div HourLen)' = start \div HourLen
        /\ Hour("server")' = HourAt("server", u[3])
    BY <1>1, <1>4, StrangerTerms
  <2>6. ReplayAnswered'
    BY <1>5, <2>3, <2>5 DEF ReplayAnswered
  <2>7. Derived("server")' /\ ~Derived("client")'
    <3>1. Ciphers("server", PastSession) # NoKeys
      <4>1. \A a, b : <<a, b>> # <<>>
        OBVIOUS
      <4>2. Ciphers("server", PastSession).send # <<>>
        BY <4>1 DEF PastSession, DeriveSession, Ciphers
      <4>3. QED
        BY <4>2 DEF NoKeys
    <3>2. QED
      BY <2>3, <3>1 DEF Derived, StrangerInv
  <2>8. ~(opened'["server"] > 0) /\ DOMAIN opened' = Sides
    BY <1>1 DEF StrangerInv
  <2>9. start' \in Nat /\ ticks' \in Nat /\ skew' \in Int /\ configured' = None
    BY <1>1, <1>4 DEF StrangerInv, EnvKept, Later
  <2>10. QED
    BY <1>3, <1>6, <2>3, <2>4, <2>5, <2>6, <2>7, <2>8, <2>9 DEF StrangerInv
<1>9. QED
  BY <1>1, <1>7, <1>8

LEMMA StrangerStep == StrangerInv /\ [Next]_vars => StrangerInv'
<1> SUFFICES ASSUME StrangerInv, [Next]_vars PROVE StrangerInv'
  OBVIOUS
<1>1. /\ configured = None /\ pc["client"] = "stranger" /\ ticks \in Nat
      /\ DOMAIN pipe = Sides /\ DOMAIN buf = Sides /\ DOMAIN pc = Sides /\ DOMAIN opened = Sides
      /\ buf["server"] \in Seq(StrangerUnits) /\ pipe["server"] \in Seq(StrangerUnits)
      /\ Len(buf["server"]) < MaxLen
      /\ Derived("server") <=> pc["server"] \in {"open", "broken"}
      /\ pipe["client"] # <<>> => Derived("server")
      /\ opened["server"] > 0 => pc["server"] = "broken"
  BY DEF StrangerInv
<1>2. /\ "client" \in Sides /\ "server" \in Sides /\ "client" # "server"
      /\ \A s \in Sides : s = "client" \/ s = "server"
      /\ Peer("server") = "client"
  BY DEF Sides, Peer
<1>3. Len(<<>>) < MaxLen /\ <<>> \in Seq(StrangerUnits)
  BY Bounds
<1>4. ClientDials \/ ClientReads => FALSE
  BY <1>1 DEF ClientDials, ClientReads, ClientHello, ReadMore, ClientAccepts
<1>5. CASE ServerReads
  <2>1. PICK n \in 1 .. ReadMax, u \in Readings :
          ReadMore("server", n, u) \/ \E pad \in 0 .. MaxPad : ServerAccepts(n, pad, u)
    BY <1>5 DEF ServerReads
  <2>2. CASE ReadMore("server", n, u)
    <3> DEFINE v == Verdict(Taken("server", n), ServerKey, 1, Hours("server", u))
    <3>1. /\ pc["server"] = "wait" /\ Arrived("server", n)
          /\ pipe' = [pipe EXCEPT !["server"] = Rest("server", n)]
          /\ EnvKept /\ UNCHANGED <<keys, opened>>
          /\ \/ /\ v = "more" /\ buf' = [buf EXCEPT !["server"] = Taken("server", n)]
                /\ UNCHANGED <<pc, clockVars>>
             \/ Ends("server", "ProbeRejected") /\ Checked("server", u)
      BY <2>2 DEF ReadMore, EnvKept, fixedVars
    <3>2. /\ Taken("server", n) \in Seq(StrangerUnits) /\ Rest("server", n) \in Seq(StrangerUnits)
          /\ Len(Taken("server", n)) \in Nat
      BY <3>1, StrangerReads, LenProperties DEF StrangerInv
    <3>3. /\ pipe'["server"] = Rest("server", n) /\ pipe'["client"] = pipe["client"]
          /\ DOMAIN pipe' = Sides /\ ~(opened'["server"] > 0) /\ DOMAIN opened' = Sides
      BY <1>1, <1>2, <3>1
    <3>4. CASE v = "more" /\ buf' = [buf EXCEPT !["server"] = Taken("server", n)]
               /\ UNCHANGED <<pc, clockVars>>
      <4>1. ~(Len(Taken("server", n)) >= MaxLen)
        BY <3>4 DEF Verdict
      <4>2. Len(Taken("server", n)) < MaxLen
        BY <3>2, <4>1, Bounds
      <4>3. /\ buf'["server"] = Taken("server", n) /\ DOMAIN buf' = Sides /\ pc' = pc /\ Later
        BY <1>1, <1>2, <3>4 DEF clockVars, Later
      <4>4. QED
        BY <1>1, <3>1, <3>2, <3>3, <4>2, <4>3, StrangerQuiet
    <3>5. CASE Ends("server", "ProbeRejected") /\ Checked("server", u)
      <4>1. Later
        BY <1>1, <3>5, CheckedLater
      <4>2. /\ buf'["server"] = <<>> /\ DOMAIN buf' = Sides /\ DOMAIN pc' = Sides
            /\ pc'["client"] = "stranger" /\ pc'["server"] = "ProbeRejected"
        BY <1>1, <1>2, <3>5 DEF Ends
      <4>3. QED
        BY <1>1, <1>3, <3>1, <3>2, <3>3, <4>1, <4>2, StrangerQuiet
    <3>6. QED
      BY <3>1, <3>4, <3>5
  <2>3. QED
    BY <2>1, <2>2, ReplayAcceptedStep
<1>6. CASE \E i \in 0 .. Len(Recorded) :
             StrangerSends(IF i = 0 THEN [f |-> "pad"] ELSE Recorded[i])
  <2>1. PICK i \in 0 .. Len(Recorded) : StrangerSends(IF i = 0 THEN [f |-> "pad"] ELSE Recorded[i])
    BY <1>6
  <2> DEFINE unit == IF i = 0 THEN [f |-> "pad"] ELSE Recorded[i]
  <2>2. unit \in StrangerUnits
    <3>1. CASE i = 0
      BY <3>1 DEF StrangerUnits
    <3>2. CASE i # 0
      <4>1. i \in 1 .. Len(Recorded)
        BY <3>2
      <4>2. QED
        BY <3>2, <4>1, RecordedUnits
    <3>3. QED
      BY <3>1, <3>2
  <2> HIDE DEF unit
  <2>3. StrangerSends(unit)
    BY <2>1 DEF unit
  <2>4. /\ pipe' = [pipe EXCEPT !["server"] = Append(@, unit)]
        /\ UNCHANGED <<envVars, pc, buf, keys, opened>>
    BY <2>3 DEF StrangerSends
  <2>5. pipe'["server"] \in Seq(StrangerUnits) /\ pipe'["client"] = pipe["client"] /\ DOMAIN pipe' = Sides
    BY <1>1, <1>2, <2>2, <2>4, AppendProperties
  <2>6. QED
    BY <1>1, <2>4, <2>5, EnvRests, StrangerQuiet
<1>7. CASE StrangerCloses \/ Tick \/ UNCHANGED vars
  <2>1. EnvKept /\ Later /\ UNCHANGED <<pipe, pc, buf, keys, opened>>
    <3>1. CASE StrangerCloses
      BY <1>1, <3>1, EnvRests DEF StrangerCloses
    <3>2. CASE Tick
      BY <1>1, <3>2 DEF Tick, fixedVars, EnvKept, Later
    <3>3. CASE UNCHANGED vars
      BY <1>1, <3>3, EnvRests DEF vars
    <3>4. QED
      BY <1>7, <3>1, <3>2, <3>3
  <2>2. QED
    BY <1>1, <2>1, StrangerQuiet
<1>8. ASSUME NEW s \in Sides, ReadEof(s) \/ TimesOut(s)
      PROVE  StrangerInv'
  <2>1. PICK how \in {"Closed", "timeout"} :
          pc[s] = "wait" /\ Ends(s, how) /\ UNCHANGED <<envVars, pipe, keys, opened>>
    BY <1>8 DEF ReadEof, TimesOut
  <2>2. s = "server"
    BY <1>1, <1>2, <2>1
  <2>3. /\ buf'["server"] = <<>> /\ DOMAIN buf' = Sides /\ DOMAIN pc' = Sides
        /\ pc'["client"] = "stranger" /\ pc'["server"] = how
        /\ pc["server"] = "wait" /\ how \notin {"open", "broken"}
    BY <1>1, <1>2, <2>1, <2>2 DEF Ends
  <2>4. ~(opened'["server"] > 0)
    BY <1>1, <2>1, <2>3
  <2>5. QED
    BY <1>1, <1>3, <2>1, <2>3, <2>4, EnvRests, StrangerQuiet
<1>9. ASSUME NEW s \in Sides, SendFrame(s)
      PROVE  StrangerInv'
  <2>1. /\ pc[s] = "open" /\ UNCHANGED <<envVars, pc, buf, keys, opened>>
        /\ \E q : pipe' = [pipe EXCEPT ![Peer(s)] = q]
    BY <1>9 DEF SendFrame
  <2>2. s = "server"
    BY <1>1, <1>2, <2>1
  <2>3. pipe'["server"] = pipe["server"] /\ DOMAIN pipe' = Sides /\ Derived("server")
    BY <1>1, <1>2, <2>1, <2>2
  <2>4. QED
    BY <1>1, <2>1, <2>3, EnvRests, StrangerQuiet
<1>10. ASSUME NEW s \in Sides, OpenFrame(s)
       PROVE  StrangerInv'
  <2> DEFINE p == pipe["server"]
  <2>1. /\ pc[s] = "open" /\ Len(pipe[s]) >= 2
        /\ pipe' = [pipe EXCEPT ![s] = Rest(s, 2)]
        /\ opened' = [opened EXCEPT ![s] = @ + 1]
        /\ SubSeq(pipe[s], 1, 2) # [h \in 1 .. 2 |-> FrameHalf(keys[s].recv, Nonce(opened[s]), h)] =>
             Ends(s, "broken")
        /\ UNCHANGED <<envVars, keys>>
    BY <1>10 DEF OpenFrame
  <2>2. s = "server"
    BY <1>1, <1>2, <2>1
  <2>3. Len(p) \in Nat /\ \A i \in 1 .. Len(p) : p[i] \in StrangerUnits
    <3>1. Len(p) \in Nat
      BY <1>1, LenProperties
    <3>2. QED
      BY <1>1, <3>1, ElementOfSeq
  <2>4. SubSeq(p, 1, 2)[1] = p[1] /\ p[1] \in StrangerUnits
    <3>1. \A i \in 1 .. 2 : p[i] \in StrangerUnits
      BY <2>1, <2>2, <2>3
    <3>2. \A i \in 1 .. 2 - 1 + 1 : SubSeq(p, 1, 2)[i] = p[1 + i - 1]
      BY <3>1, SubSeqProperties
    <3>3. 1 \in 1 .. 2 - 1 + 1 /\ 1 + 1 - 1 = 1
      OBVIOUS
    <3>4. QED
      BY <3>1, <3>2, <3>3
  <2>5. \A a, b : p[1] # FrameHalf(a, b, 1)
    BY <2>4 DEF StrangerUnits, PastRepr, Mark, Mac, FrameHalf
  <2>6. Ends("server", "broken")
    <3>1. \A a, b : SubSeq(p, 1, 2) # [h \in 1 .. 2 |-> FrameHalf(a, b, h)]
      <4>1. \A a, b : [h \in 1 .. 2 |-> FrameHalf(a, b, h)][1] = FrameHalf(a, b, 1)
        OBVIOUS
      <4>2. QED
        BY <2>4, <2>5, <4>1
    <3>2. QED
      BY <2>1, <2>2, <3>1
  <2>7. Rest("server", 2) \in Seq(StrangerUnits)
    <3>1. \A i \in 2 + 1 .. Len(p) : p[i] \in StrangerUnits
      BY <2>3
    <3>2. SubSeq(p, 2 + 1, Len(p)) \in Seq(StrangerUnits)
      BY <2>3, <3>1, SubSeqProperties
    <3>3. QED
      BY <3>2 DEF Rest
  <2>8. /\ pipe'["server"] = Rest("server", 2) /\ pipe'["client"] = pipe["client"] /\ DOMAIN pipe' = Sides
        /\ buf'["server"] = <<>> /\ DOMAIN buf' = Sides /\ DOMAIN pc' = Sides /\ DOMAIN opened' = Sides
        /\ pc'["client"] = "stranger" /\ pc'["server"] = "broken" /\ pc["server"] = "open"
    BY <1>1, <1>2, <2>1, <2>2, <2>6 DEF Ends
  <2>9. QED
    BY <1>1, <1>3, <2>1, <2>7, <2>8, EnvRests, StrangerQuiet
<1>11. QED
  BY <1>4, <1>5, <1>6, <1>7, <1>8, <1>9, <1>10 DEF Next

-----------------------------------------------------------------------------
(* The theorems.                                                           *)

\* A connection is a client's or a stranger's, from its beginning.
HsInv == ClientInv \/ StrangerInv

LEMMA ClientInit == Init /\ configured # None => ClientInv
<1> SUFFICES ASSUME Init, configured # None PROVE ClientInv
  OBVIOUS
<1>1. /\ start \in Nat /\ ticks = 0 /\ skew \in Int /\ weak \in BOOLEAN /\ genuine \in BOOLEAN
      /\ weak => configured # None
      /\ pipe = [s \in Sides |-> <<>>] /\ buf = [s \in Sides |-> <<>>]
      /\ pc = [client |-> IF configured = None THEN "stranger" ELSE "start", server |-> "wait"]
      /\ keys = [s \in Sides |-> NoKeys]
      /\ sent = [s \in Sides |-> 0] /\ opened = [s \in Sides |-> 0]
      /\ discarded = [s \in Sides |-> 0]
  BY HandshakeAssumption DEF Init
<1>2. /\ "client" \in Sides /\ "server" \in Sides
      /\ \A s \in Sides : s = "client" \/ s = "server"
  BY DEF Sides
<1>3. /\ \A s \in Sides : pipe[s] = <<>> /\ buf[s] = <<>> /\ keys[s] = NoKeys
      /\ \A s \in Sides : sent[s] = 0 /\ opened[s] = 0 /\ discarded[s] = 0
      /\ DOMAIN pipe = Sides /\ DOMAIN buf = Sides /\ DOMAIN keys = Sides
  BY <1>1
<1>4. /\ pc["client"] = "start" /\ pc["server"] = "wait"
      /\ DOMAIN pc = Sides
  BY <1>1 DEF Sides
<1>5. \A s \in Sides : Whole(s) = <<>>
  <2>1. <<>> \o <<>> = <<>>
    BY NoUnits
  <2>2. QED
    BY <1>3, <2>1 DEF Whole
<1>6. Types
  <2>1. \A s \in Sides : Units(pipe[s]) /\ Units(buf[s])
    BY <1>3, NoUnits
  <2>2. /\ sent \in [Sides -> 0 .. MaxFrames] /\ opened \in [Sides -> Nat]
        /\ discarded \in [Sides -> Nat]
    BY <1>1, Bounds
  <2>3. Len(buf["server"]) < MaxLen
    BY <1>2, <1>3, NoUnits, Bounds
  <2>4. QED
    BY <1>1, <1>3, <1>4, <2>1, <2>2, <2>3 DEF Types
<1>7. \A s \in Sides : ~Derived(s) /\ pc[s] \notin {"open", "broken", "ProbeRejected"}
  BY <1>2, <1>3, <1>4 DEF Derived
<1>8. KeysInv
  BY <1>2, <1>3, <1>4, <1>7 DEF KeysInv
<1>9. RequestInv
  BY <1>2, <1>4, <1>5 DEF RequestInv
<1>10. ReplyInv
  BY <1>2, <1>3, <1>7 DEF ReplyInv
<1>11. FrameInv /\ LockstepUnlessOverread /\ SkewTolerated
  BY <1>2, <1>3, <1>7 DEF FrameInv, LockstepUnlessOverread, SkewTolerated
<1>12. QED
  BY <1>6, <1>8, <1>9, <1>10, <1>11 DEF ClientInv

LEMMA StrangerInit == Init /\ configured = None => StrangerInv
<1> SUFFICES ASSUME Init, configured = None PROVE StrangerInv
  OBVIOUS
<1>1. /\ start \in Nat /\ ticks = 0 /\ skew \in Int
      /\ pipe = [s \in Sides |-> <<>>] /\ buf = [s \in Sides |-> <<>>]
      /\ pc = [client |-> "stranger", server |-> "wait"]
      /\ keys = [s \in Sides |-> NoKeys] /\ opened = [s \in Sides |-> 0]
  BY HandshakeAssumption DEF Init
<1>2. "client" \in Sides /\ "server" \in Sides
  BY DEF Sides
<1>3. /\ pc["client"] = "stranger" /\ pc["server"] = "wait" /\ DOMAIN pc = Sides
      /\ pipe["client"] = <<>> /\ pipe["server"] = <<>> /\ buf["server"] = <<>>
      /\ DOMAIN pipe = Sides /\ DOMAIN buf = Sides /\ DOMAIN keys = Sides /\ DOMAIN opened = Sides
      /\ ~(opened["server"] > 0) /\ ~Derived("client") /\ ~Derived("server")
  BY <1>1, <1>2 DEF Sides, Derived
<1>4. <<>> \in Seq(StrangerUnits) /\ Len(<<>>) < MaxLen
  BY Bounds
<1>5. QED
  BY <1>1, <1>3, <1>4 DEF StrangerInv

LEMMA ClientStep == ClientInv /\ [Next]_vars => ClientInv'
<1> SUFFICES ASSUME ClientInv, [Next]_vars PROVE ClientInv'
  OBVIOUS
<1>1. CASE ClientDials
  BY <1>1, HelloStep DEF ClientDials
<1>2. CASE ClientReads
  <2>1. PICK n \in 1 .. ReadMax, u \in Readings : ReadMore("client", n, u) \/ ClientAccepts(n, u)
    BY <1>2 DEF ClientReads
  <2>2. "client" \in Sides
    BY DEF Sides
  <2>3. QED
    BY <2>1, <2>2, ReadMoreStep, ClientAcceptsStep
<1>3. CASE ServerReads
  <2>1. PICK n \in 1 .. ReadMax, u \in Readings :
          ReadMore("server", n, u) \/ \E pad \in 0 .. MaxPad : ServerAccepts(n, pad, u)
    BY <1>3 DEF ServerReads
  <2>2. "server" \in Sides
    BY DEF Sides
  <2>3. QED
    BY <2>1, <2>2, ReadMoreStep, ServerAcceptsStep
<1>4. CASE \E i \in 0 .. Len(Recorded) :
             StrangerSends(IF i = 0 THEN [f |-> "pad"] ELSE Recorded[i])
  BY <1>4 DEF StrangerSends, ClientInv, KeysInv
<1>5. CASE StrangerCloses \/ Tick \/ UNCHANGED vars
  BY <1>5, IdleStep
<1>6. CASE \E s \in Sides : ReadEof(s) \/ TimesOut(s) \/ SendFrame(s) \/ OpenFrame(s)
  BY <1>6, GivesUpStep, SendStep, OpenStep
<1>7. QED
  BY <1>1, <1>2, <1>3, <1>4, <1>5, <1>6 DEF Next

LEMMA HsInit == Init => HsInv
BY ClientInit, StrangerInit DEF HsInv

LEMMA HsStep == HsInv /\ [Next]_vars => HsInv'
<1>1. ClientInv /\ [Next]_vars => ClientInv'
  BY ClientStep
<1>2. StrangerInv /\ [Next]_vars => StrangerInv'
  BY StrangerStep
<1>3. QED
  BY <1>1, <1>2 DEF HsInv

\* What one connection is throughout: what stands in the pipes is the message that is
\* due and then the frames in order, whoever dials and however it is read, or else what
\* a stranger sends (client_handshake, server_handshake, FrameCipher).
THEOREM HandshakeInvariant == Spec => []HsInv
BY HsInit, HsStep, PTL DEF Spec

\* KeyAgreement: client_handshake returns keys only when server_handshake has, with the
\* secret of the key the client was configured with, and they are the same keys.
THEOREM KeysAgree == Spec => []KeyAgreement
<1>1. ASSUME ClientInv PROVE KeyAgreement
  <2> SUFFICES ASSUME Derived("client") PROVE KeyAgreement
    BY DEF KeyAgreement
  <2>1. "client" \in Sides /\ "server" \in Sides
    BY DEF Sides
  <2>2. configured = ServerKey /\ genuine /\ Derived("server")
    BY <1>1 DEF ClientInv, KeysInv
  <2>3. keys["client"] = Ciphers("client", Session) /\ keys["server"] = Ciphers("server", Session)
    BY <1>1, <2>1, <2>2 DEF ClientInv, KeysInv
  <2>4. Session.c2s # Session.s2c
    BY DEF Session, DeriveSession
  <2>5. \A s \in Sides : sent[s] < CounterMod
    BY <1>1, Bounds DEF ClientInv, Types
  <2>6. QED
    BY <2>2, <2>3, <2>4, <2>5 DEF KeyAgreement, Ciphers
<1>2. StrangerInv => KeyAgreement
  BY DEF StrangerInv, KeyAgreement
<1>3. HsInv => KeyAgreement
  BY <1>1, <1>2 DEF HsInv
<1>4. QED
  BY <1>3, HandshakeInvariant, PTL

\* SilentUnlessReplayed: read_marked_message lets nothing through to the reply of
\* server_handshake but a request under the key, in an hour next to the one it was made
\* in, and keeps less than MAX_HANDSHAKE_LEN; who only replays one opens no frame.
THEOREM OnlyReplaysAnswered == Spec => []SilentUnlessReplayed
<1>1. "client" \in Sides /\ "server" \in Sides
  BY DEF Sides
<1>2. ASSUME ClientInv PROVE SilentUnlessReplayed
  <2> SUFFICES ASSUME configured # ServerKey PROVE SilentUnlessReplayed
    BY DEF SilentUnlessReplayed
  <2>1. ~Derived("server") /\ opened["server"] = 0
    BY <1>1, <1>2 DEF ClientInv, KeysInv
  <2>2. pipe["client"] = <<>> /\ Len(buf["server"]) < MaxLen
    BY <1>2, <2>1 DEF ClientInv, ReplyInv, Types
  <2>3. QED
    BY <2>1, <2>2 DEF SilentUnlessReplayed
<1>3. StrangerInv => SilentUnlessReplayed
  BY DEF StrangerInv, ReplayAnswered, SilentUnlessReplayed
<1>4. HsInv => SilentUnlessReplayed
  BY <1>2, <1>3 DEF HsInv
<1>5. QED
  BY <1>4, HandshakeInvariant, PTL

\* SkewTolerated: while the clocks differ by an hour at most, verify_mac_epochs accepts
\* what mac_with_epoch made, whatever the padding and the reads; it rejects only when the
\* hour turns between its three comparisons and the sender's clock is ahead.
THEOREM HonestClocksPass == Spec => []SkewTolerated
<1>1. HsInv => SkewTolerated
  BY ServerKeyAssumption DEF HsInv, ClientInv, StrangerInv, SkewTolerated
<1>2. QED
  BY <1>1, HandshakeInvariant, PTL

\* LockstepUnlessOverread: FrameCipher::open fails only behind a buf.truncate that
\* dropped the first frames with the handshake message, or for a stranger.
THEOREM FramesOpen == Spec => []LockstepUnlessOverread
<1>1. HsInv => LockstepUnlessOverread
  BY DEF HsInv, ClientInv, StrangerInv, LockstepUnlessOverread
<1>2. QED
  BY <1>1, HandshakeInvariant, PTL
=============================================================================
