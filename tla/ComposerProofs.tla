---------------------------- MODULE ComposerProofs -----------------------------
(***************************************************************************)
(* What the loops of the composer compute, for sequences of any length:    *)
(* sums, selections and concatenations of frames, the length pool and the  *)
(* bucket table.                                                           *)
(***************************************************************************)
EXTENDS Composition, SequenceFolds

-----------------------------------------------------------------------------
(* Sums.                                                                   *)

LEMMA SumSteps ==
  /\ SumSeq(<<>>) = 0
  /\ \A s \in Seq(Nat) : SumSeq(s) \in Nat
  /\ \A s \in Seq(Nat), x \in Nat : SumSeq(Append(s, x)) = SumSeq(s) + x
<1>1. \A s : SumSeq(s) = Total(s)
  BY DEF SumSeq, Total
<1>2. QED
  BY <1>1, TotalSteps

-----------------------------------------------------------------------------
(* Selections.                                                             *)

Selects(q, x, real) == IF IsReal(x) = real THEN Append(q, x) ELSE q

KindPrefixes(s, real, n, f) ==
  /\ f[0] = <<>> /\ OfKind(s, real) = f[n]
  /\ \A k \in 1 .. n : f[k] = Selects(f[k - 1], s[k], real)

LEMMA SelectsKeeps ==
  ASSUME NEW F, NEW q \in Seq(F), NEW x \in F, NEW real
  PROVE  Selects(q, x, real) \in Seq(F)
BY AppendProperties DEF Selects

LEMMA KindHasPrefixes ==
  ASSUME NEW F, NEW s \in Seq(F), NEW real, NEW n, n = Len(s)
  PROVE  \E f : KindPrefixes(s, real, n, f)
<1> DEFINE Is(g) == g = [S \in SUBSET (1 .. n) |->
                           IF S = {} THEN <<>>
                           ELSE IF IsReal(s[Max(S)]) = real
                                THEN Append(g[S \ {Max(S)}], s[Max(S)])
                                ELSE g[S \ {Max(S)}]]
           G == CHOOSE g : Is(g)
<1>1. n \in Nat /\ DOMAIN s = 1 .. n /\ \A k \in 1 .. n : s[k] \in F
  BY LenProperties, ElementOfSeq
<1>2. \E g : Is(g)
  <2> DEFINE step == [x \in Seq(F) \X (1 .. n) |-> Selects(x[1], s[x[2]], real)]
  <2>1. ASSUME NEW a \in Seq(F), NEW k \in 1 .. n
        PROVE  step[<<a, k>>] = Selects(a, s[k], real) /\ Selects(a, s[k], real) \in Seq(F)
    BY <1>1, SelectsKeeps
  <2> HIDE DEF step
  <2>2. PICK g : Folds(Seq(F), <<>>, n, step, g)
    <3>1. StaysIn(Seq(F), n, step) /\ <<>> \in Seq(F)
      BY <2>1 DEF StaysIn
    <3>2. QED
      BY <1>1, <3>1, FoldExists
  <2>3. ASSUME NEW S \in SUBSET (1 .. n)
        PROVE  g[S] = IF S = {} THEN <<>> ELSE Selects(g[S \ {Max(S)}], s[Max(S)], real)
    <3>1. CASE S = {}
      BY <2>2, <3>1 DEF Folds
    <3>2. CASE S # {}
      <4>1. g[S \ {Max(S)}] \in Seq(F) /\ Max(S) \in 1 .. n
        BY <1>1, <2>2, <3>2, MaxOfPart DEF Folds
      <4>2. QED
        BY <2>1, <2>2, <3>2, <4>1 DEF Folds
    <3>3. QED
      BY <3>1, <3>2
  <2>4. g = [S \in SUBSET (1 .. n) |-> g[S]]
    BY <2>2 DEF Folds
  <2>5. Is(g)
    BY <2>3, <2>4 DEF Selects
  <2>6. QED
    BY <2>5
<1>3. Is(G)
  BY <1>2
<1>4. OfKind(s, real) = G[1 .. n]
  BY <1>1 DEF OfKind, FoldLeft, MapThenFoldSet
<1> HIDE DEF G
<1>5. ASSUME NEW k \in 1 .. n PROVE G[1 .. k] = Selects(G[1 .. k - 1], s[k], real)
  <2>1. (1 .. k) \in SUBSET (1 .. n) /\ k \in Nat /\ k # 0
    BY <1>1
  <2> DEFINE K == 1 .. k
  <2>2. Max(K) = k /\ K \ {k} = 1 .. k - 1 /\ K # {}
    BY <2>1, Intervals
  <2>3. K \in SUBSET (1 .. n)
    BY <2>1
  <2> HIDE DEF K
  <2>4. G[K] = Selects(G[K \ {Max(K)}], s[Max(K)], real)
    BY <1>3, <2>2, <2>3 DEF Selects
  <2>5. QED
    BY <2>2, <2>4 DEF K
<1>6. G[1 .. 0] = <<>>
  BY <1>3, Intervals
<1> DEFINE f == [k \in 0 .. n |-> G[1 .. k]]
<1>7. f[0] = <<>> /\ f[n] = G[1 .. n] /\ \A k \in 1 .. n : f[k] = Selects(f[k - 1], s[k], real)
  BY <1>1, <1>5, <1>6
<1> HIDE DEF f
<1>8. QED
  BY <1>4, <1>7 DEF KindPrefixes

LEMMA KindOfNone == \A real : OfKind(<<>>, real) = <<>>
<1>1. <<>> \in Seq({}) /\ 0 = Len(<<>>)
  OBVIOUS
<1>2. ASSUME NEW real PROVE OfKind(<<>>, real) = <<>>
  <2>1. PICK f : KindPrefixes(<<>>, real, 0, f)
    BY <1>1, KindHasPrefixes
  <2>2. QED
    BY <2>1 DEF KindPrefixes
<1>3. QED
  BY <1>2

LEMMA KindOfMore ==
  ASSUME NEW F, NEW s \in Seq(F), NEW x \in F, NEW real
  PROVE  OfKind(Append(s, x), real) = Selects(OfKind(s, real), x, real)
<1> DEFINE n == Len(s)  u == Append(s, x)
<1>1. /\ n \in Nat /\ u \in Seq(F) /\ Len(u) = n + 1 /\ u[n + 1] = x
      /\ \A i \in 1 .. n : u[i] = s[i]
  BY LenProperties, AppendProperties
<1>2. PICK f : KindPrefixes(s, real, n, f)
  BY KindHasPrefixes
<1>3. PICK h : KindPrefixes(u, real, n + 1, h)
  BY <1>1, KindHasPrefixes
<1> HIDE DEF n, u
<1> DEFINE T == {i \in Nat : i <= n => f[i] = h[i]}
<1>4. 0 \in T
  BY <1>2, <1>3 DEF KindPrefixes
<1>5. ASSUME NEW i \in Nat, i \in T, i + 1 <= n PROVE f[i + 1] = h[i + 1]
  <2>1. /\ i + 1 \in 1 .. n /\ i + 1 \in 1 .. n + 1 /\ (i + 1) - 1 = i
        /\ f[i] = h[i] /\ u[i + 1] = s[i + 1]
    BY <1>1, <1>5
  <2>2. f[i + 1] = Selects(f[i], s[i + 1], real) /\ h[i + 1] = Selects(h[i], u[i + 1], real)
    BY <1>2, <1>3, <2>1 DEF KindPrefixes
  <2>3. QED
    BY <2>1, <2>2
<1>6. \A i \in Nat : i \in T => i + 1 \in T
  BY <1>5
<1> HIDE DEF T
<1>7. Nat \subseteq T
  BY <1>4, <1>6, Induction
<1>8. f[n] = h[n]
  BY <1>1, <1>7 DEF T
<1>9. h[n + 1] = Selects(h[n], u[n + 1], real)
  <2>1. n + 1 \in 1 .. n + 1 /\ (n + 1) - 1 = n
    BY <1>1
  <2>2. QED
    BY <1>3, <2>1 DEF KindPrefixes
<1>10. OfKind(s, real) = f[n] /\ OfKind(u, real) = h[n + 1]
  BY <1>2, <1>3 DEF KindPrefixes
<1>11. QED
  BY <1>1, <1>8, <1>9, <1>10 DEF u

\* What is selected is of the kind asked for.
LEMMA KindType ==
  ASSUME NEW F, NEW real
  PROVE  \A s \in Seq(F) : OfKind(s, real) \in Seq({x \in F : IsReal(x) = real})
<1> DEFINE K == {x \in F : IsReal(x) = real}
           T == {s \in Seq(F) : OfKind(s, real) \in Seq(K)}
<1>1. <<>> \in T
  <2>1. OfKind(<<>>, real) = <<>>
    BY KindOfNone
  <2> HIDE DEF K
  <2>2. <<>> \in Seq(F) /\ <<>> \in Seq(K)
    OBVIOUS
  <2>3. OfKind(<<>>, real) \in Seq(K)
    BY <2>1, <2>2, Zenon
  <2>4. QED
    BY <2>2, <2>3, Zenon
<1>2. ASSUME NEW s \in Seq(F), NEW x \in F, s \in T PROVE Append(s, x) \in T
  <2>1. OfKind(s, real) \in Seq(K)
    BY <1>2
  <2>2. OfKind(Append(s, x), real) \in Seq(K)
    <3> HIDE DEF T
    <3>1. OfKind(Append(s, x), real) = Selects(OfKind(s, real), x, real)
      BY KindOfMore
    <3>2. CASE IsReal(x) = real
      <4>1. x \in K
        BY <3>2
      <4> HIDE DEF K
      <4>2. QED
        BY <2>1, <3>1, <4>1, SelectsKeeps
    <3>3. CASE IsReal(x) # real
      BY <2>1, <3>1, <3>3 DEF Selects
    <3>4. QED
      BY <3>2, <3>3
  <2>3. Append(s, x) \in Seq(F)
    BY AppendProperties
  <2>4. QED
    BY <2>2, <2>3
<1> HIDE DEF T
<1>3. Seq(F) \subseteq T
  BY <1>1, <1>2, SequenceInduction
<1>4. QED
  BY <1>3 DEF T

LEMMA AppendConcat ==
  ASSUME NEW F, NEW a \in Seq(F), NEW b \in Seq(F), NEW x \in F
  PROVE  a \o Append(b, x) = Append(a \o b, x)
<1>1. <<x>> \in Seq(F) /\ a \o b \in Seq(F)
  BY ConcatProperties
<1>2. Append(b, x) = b \o <<x>> /\ Append(a \o b, x) = (a \o b) \o <<x>>
  BY <1>1, AppendIsConcat
<1>3. (a \o b) \o <<x>> = a \o (b \o <<x>>)
  BY <1>1, ConcatAssociative
<1>4. QED
  BY <1>2, <1>3

LEMMA KindConcat ==
  ASSUME NEW F, NEW a \in Seq(F), NEW c \in Seq(F), NEW real
  PROVE  OfKind(a \o c, real) = OfKind(a, real) \o OfKind(c, real)
<1> DEFINE A == OfKind(a, real)
           T == {b \in Seq(F) : OfKind(a \o b, real) = A \o OfKind(b, real)}
<1>0. A \in Seq(F)
  <2>1. {x \in F : IsReal(x) = real} \subseteq F
    OBVIOUS
  <2>2. QED
    BY <2>1, KindType, SeqMonotonic
<1>1. <<>> \in T
  <2>1. OfKind(<<>>, real) = <<>>
    BY KindOfNone
  <2>2. a \o <<>> = a /\ A \o <<>> = A
    BY <1>0, ConcatEmptySeq
  <2> HIDE DEF A
  <2>3. OfKind(a \o <<>>, real) = A \o OfKind(<<>>, real)
    BY <2>1, <2>2 DEF A
  <2>4. <<>> \in Seq(F)
    OBVIOUS
  <2>5. QED
    BY <2>3, <2>4, Zenon
<1>2. ASSUME NEW b \in Seq(F), NEW x \in F, b \in T PROVE Append(b, x) \in T
  <2> DEFINE d == a \o b  B == OfKind(b, real)
  <2>1. OfKind(d, real) = A \o B
    BY <1>2
  <2> HIDE DEF T
  <2>2. d \in Seq(F) /\ Append(b, x) \in Seq(F)
    BY ConcatProperties, AppendProperties
  <2>3. a \o Append(b, x) = Append(d, x)
    BY AppendConcat
  <2>4. OfKind(Append(b, x), real) = Selects(B, x, real)
    BY KindOfMore
  <2> HIDE DEF d
  <2>5. OfKind(Append(d, x), real) = Selects(A \o B, x, real)
    BY <2>1, <2>2, KindOfMore
  <2>6. B \in Seq(F)
    <3>1. {y \in F : IsReal(y) = real} \subseteq F
      OBVIOUS
    <3>2. QED
      BY <3>1, KindType, SeqMonotonic
  <2> HIDE DEF A, B
  <2>7. Selects(A \o B, x, real) = A \o Selects(B, x, real)
    <3>1. A \o Append(B, x) = Append(A \o B, x)
      BY <1>0, <2>6, AppendConcat
    <3>2. QED
      BY <3>1, Zenon DEF Selects
  <2>8. OfKind(a \o Append(b, x), real) = A \o OfKind(Append(b, x), real)
    BY <2>3, <2>4, <2>5, <2>7
  <2>9. QED
    BY <2>2, <2>8 DEF T
<1> HIDE DEF T
<1>3. Seq(F) \subseteq T
  BY <1>1, <1>2, SequenceInduction
<1>4. QED
  BY <1>3 DEF T

LEMMA KindAll ==
  ASSUME NEW F, NEW real, \A x \in F : IsReal(x) = real
  PROVE  \A s \in Seq(F) : OfKind(s, real) = s
<1> DEFINE T == {s \in Seq(F) : OfKind(s, real) = s}
<1>1. <<>> \in T
  <2>1. OfKind(<<>>, real) = <<>> /\ <<>> \in Seq(F)
    BY KindOfNone
  <2>2. QED
    BY <2>1, Zenon
<1>2. ASSUME NEW s \in Seq(F), NEW x \in F, s \in T PROVE Append(s, x) \in T
  <2>1. OfKind(s, real) = s /\ Append(s, x) \in Seq(F)
    BY <1>2, AppendProperties
  <2> HIDE DEF T
  <2>2. OfKind(Append(s, x), real) = Append(s, x)
    BY <2>1, KindOfMore DEF Selects
  <2>3. QED
    BY <2>1, <2>2 DEF T
<1> HIDE DEF T
<1>3. Seq(F) \subseteq T
  BY <1>1, <1>2, SequenceInduction
<1>4. QED
  BY <1>3 DEF T

LEMMA KindNone ==
  ASSUME NEW F, NEW real, \A x \in F : IsReal(x) # real
  PROVE  \A s \in Seq(F) : OfKind(s, real) = <<>>
<1> DEFINE T == {s \in Seq(F) : OfKind(s, real) = <<>>}
<1>1. <<>> \in T
  <2>1. OfKind(<<>>, real) = <<>> /\ <<>> \in Seq(F)
    BY KindOfNone
  <2>2. QED
    BY <2>1, Zenon
<1>2. ASSUME NEW s \in Seq(F), NEW x \in F, s \in T PROVE Append(s, x) \in T
  <2>1. OfKind(s, real) = <<>> /\ Append(s, x) \in Seq(F)
    BY <1>2, AppendProperties
  <2> HIDE DEF T
  <2>2. OfKind(Append(s, x), real) = <<>>
    BY <2>1, KindOfMore DEF Selects
  <2>3. QED
    BY <2>1, <2>2 DEF T
<1> HIDE DEF T
<1>3. Seq(F) \subseteq T
  BY <1>1, <1>2, SequenceInduction
<1>4. QED
  BY <1>3 DEF T

-----------------------------------------------------------------------------
(* Concatenations.                                                         *)

FlattenPrefixes(P, n, f) ==
  /\ f[0] = <<>> /\ FlattenSeq(P) = f[n]
  /\ \A k \in 1 .. n : f[k] = f[k - 1] \o P[k]

LEMMA FlattenHasPrefixes ==
  ASSUME NEW F, NEW P \in Seq(Seq(F)), NEW n, n = Len(P)
  PROVE  \E f : FlattenPrefixes(P, n, f)
<1>1. n \in Nat /\ \A k \in 1 .. n : P[k] \in Seq(F)
  BY LenProperties, ElementOfSeq
<1>2. CASE n = 0
  <2>1. P = <<>>
    BY <1>2, EmptySeq
  <2>2. FlattenSeq(P) = <<>>
    BY <1>2, <2>1 DEF FlattenSeq
  <2> DEFINE f == [k \in {0} |-> <<>>]
  <2>3. f[0] = <<>> /\ 1 .. n = {}
    BY <1>2
  <2>4. FlattenPrefixes(P, n, f)
    BY <1>2, <2>2, <2>3 DEF FlattenPrefixes
  <2>5. QED
    BY <2>4
<1>3. CASE n # 0
  <2> DEFINE Part(k, g) == g = [i \in 1 .. k |-> IF i = 1 THEN P[i] ELSE g[i - 1] \o P[i]]
             Has(k) == \E g : Part(k, g)
             T == {k \in Nat : Has(k)}
             G == CHOOSE g : Part(n, g)
  <2>1. Has(0)
    <3>1. Part(0, [i \in 1 .. 0 |-> P[i]])
      OBVIOUS
    <3>2. QED
      BY <3>1
  <2>2. ASSUME NEW k \in Nat, Has(k) PROVE Has(k + 1)
    <3>1. PICK g : Part(k, g)
      BY <2>2
    <3> DEFINE h == [i \in 1 .. k + 1 |->
                       IF i <= k THEN g[i] ELSE IF i = 1 THEN P[i] ELSE g[i - 1] \o P[i]]
    <3>2. ASSUME NEW i \in 1 .. k + 1
          PROVE  h[i] = IF i = 1 THEN P[i] ELSE h[i - 1] \o P[i]
      <4>1. CASE i <= k
        <5>1. i \in 1 .. k /\ h[i] = g[i] /\ (i # 1 => h[i - 1] = g[i - 1])
          BY <4>1
        <5>2. g[i] = IF i = 1 THEN P[i] ELSE g[i - 1] \o P[i]
          BY <3>1, <5>1
        <5>3. QED
          BY <5>1, <5>2
      <4>2. CASE i = k + 1
        <5>1. (i # 1 => h[i - 1] = g[i - 1]) /\ ~(i <= k)
          BY <4>2
        <5>2. QED
          BY <5>1
      <4>3. QED
        BY <4>1, <4>2
    <3>3. h = [i \in 1 .. k + 1 |-> h[i]]
      OBVIOUS
    <3> HIDE DEF h
    <3>4. Part(k + 1, h)
      BY <3>2, <3>3
    <3>5. QED
      BY <3>4
  <2> HIDE DEF Has
  <2>3. 0 \in T /\ \A k \in Nat : k \in T => k + 1 \in T
    BY <2>1, <2>2
  <2> HIDE DEF T
  <2>4. Nat \subseteq T
    BY <2>3, Induction
  <2>5. Has(n)
    BY <1>1, <2>4 DEF T
  <2>6. Part(n, G)
    BY <2>5 DEF Has
  <2>7. FlattenSeq(P) = G[n]
    BY <1>3 DEF FlattenSeq
  <2> HIDE DEF G
  <2> DEFINE f == [k \in 0 .. n |-> IF k = 0 THEN <<>> ELSE G[k]]
  <2>8. ASSUME NEW k \in 1 .. n PROVE f[k] = f[k - 1] \o P[k]
    <3>1. f[k] = G[k] /\ f[k - 1] = IF k = 1 THEN <<>> ELSE G[k - 1]
      BY <1>1
    <3>2. G[k] = IF k = 1 THEN P[k] ELSE G[k - 1] \o P[k]
      BY <2>6
    <3> HIDE DEF f
    <3>3. <<>> \o P[k] = P[k]
      BY <1>1, ConcatEmptySeq
    <3>4. CASE k = 1
      BY <3>1, <3>2, <3>3, <3>4
    <3>5. CASE k # 1
      BY <3>1, <3>2, <3>5
    <3>6. QED
      BY <3>4, <3>5
  <2>9. f[0] = <<>> /\ f[n] = G[n]
    BY <1>1, <1>3
  <2> HIDE DEF f
  <2>10. FlattenPrefixes(P, n, f)
    BY <2>7, <2>8, <2>9 DEF FlattenPrefixes
  <2>11. QED
    BY <2>10
<1>4. QED
  BY <1>2, <1>3

\* Pieces with one real frame each.
LEMMA FlattenPieces ==
  ASSUME NEW F, NEW P \in Seq(Seq(F)), NEW q \in Seq(F), Len(q) = Len(P),
         \A i \in 1 .. Len(P) : OfKind(P[i], TRUE) = <<q[i]>>
  PROVE  FlattenSeq(P) \in Seq(F) /\ OfKind(FlattenSeq(P), TRUE) = q
<1> DEFINE n == Len(P)
<1>1. n \in Nat /\ \A i \in 1 .. n : P[i] \in Seq(F)
  BY LenProperties, ElementOfSeq
<1>2. PICK f : FlattenPrefixes(P, n, f)
  BY FlattenHasPrefixes
<1>3. Len(q) = n /\ \A i \in 1 .. n : OfKind(P[i], TRUE) = <<q[i]>>
  OBVIOUS
<1> HIDE DEF n
<1> DEFINE Good(k) == f[k] \in Seq(F) /\ OfKind(f[k], TRUE) = SubSeq(q, 1, k)
           T == {k \in Nat : k <= n => Good(k)}
<1>4. Good(0)
  <2>1. f[0] = <<>> /\ <<>> \in Seq(F)
    BY <1>2 DEF FlattenPrefixes
  <2>2. SubSeq(q, 1, 0) = <<>>
    BY SubSeqEmpty
  <2>3. QED
    BY <2>1, <2>2, KindOfNone
<1>5. ASSUME NEW k \in Nat, Good(k), k + 1 <= n PROVE Good(k + 1)
  <2>1. k + 1 \in 1 .. n /\ (k + 1) - 1 = k /\ k + 1 \in 1 .. Len(q) /\ 1 \in 1 .. Len(q)
        /\ k + 1 \in 1 .. Len(q)
    BY <1>1, <1>3, <1>5
  <2> DEFINE a == f[k]  b == P[k + 1]
  <2>2. f[k + 1] = a \o b
    BY <1>2, <2>1 DEF FlattenPrefixes
  <2>3. a \in Seq(F) /\ b \in Seq(F) /\ OfKind(a, TRUE) = SubSeq(q, 1, k)
        /\ OfKind(b, TRUE) = <<q[k + 1]>>
    BY <1>1, <1>3, <1>5, <2>1
  <2> HIDE DEF a, b
  <2>4. a \o b \in Seq(F)
    BY <2>3, ConcatProperties
  <2>4a. OfKind(a \o b, TRUE) = SubSeq(q, 1, k) \o <<q[k + 1]>>
    <3>1. \A real : OfKind(a \o b, real) = OfKind(a, real) \o OfKind(b, real)
      BY <2>3, KindConcat
    <3>2. QED
      BY <2>3, <3>1, Zenon
  <2>5. SubSeq(q, 1, k + 1) = SubSeq(q, 1, (k + 1) - 1) \o <<q[k + 1]>>
    BY <2>1, SubSeqRecursiveSecond
  <2>6. QED
    BY <2>1, <2>2, <2>4, <2>4a, <2>5
<1> HIDE DEF Good
<1>6. 0 \in T /\ \A k \in Nat : k \in T => k + 1 \in T
  BY <1>1, <1>4, <1>5
<1> HIDE DEF T
<1>7. Nat \subseteq T
  BY <1>6, Induction
<1>8. Good(n)
  BY <1>1, <1>7 DEF T
<1>9. SubSeq(q, 1, n) = q
  BY <1>3, SubSeqFull
<1>10. FlattenSeq(P) = f[n]
  BY <1>2 DEF FlattenPrefixes
<1>11. QED
  BY <1>8, <1>9, <1>10 DEF Good

\* q is what becomes of the packets reals.
PaddedAs(reals, q) ==
  /\ Len(reals) = Len(q)
  /\ \A i \in 1 .. Len(q) : PadRealPacket(reals[i]) = q[i] /\ IsReal(q[i])

DummiesOf(F) == {f \in F : ~IsReal(f)}

\* The real ones of the frames are q.
Carries(frames, F, q) == frames \in Seq(F) /\ OfKind(frames, TRUE) = q

\* Wherever the dummies fall, the real packets leave in the order they came in.
LEMMA InterleavingKeepsOrder ==
  ASSUME NEW F, NEW reals, NEW q \in Seq(F), PaddedAs(reals, q), q # <<>>,
         NEW ds \in Seq(DummiesOf(F)), NEW cut \in Cuts(Len(q), Len(ds))
  PROVE  Carries(InterleavePreservingRealOrder(reals, ds, cut), F, q)
<1> DEFINE n == Len(q)  D == DummiesOf(F)
           From(i) == IF i = 1 THEN 1 ELSE cut[i - 1] + 1
           Piece(i) == SubSeq(ds, From(i), cut[i]) \o <<PadRealPacket(reals[i])>>
           P == [i \in 1 .. n |-> Piece(i)]
           rest == SubSeq(ds, cut[n] + 1, Len(ds))
<1>0. \A i \in 1 .. n : PadRealPacket(reals[i]) = q[i] /\ IsReal(q[i])
  BY DEF PaddedAs
<1>1. n \in Nat \ {0} /\ Len(ds) \in Nat /\ Len(reals) = n
  BY EmptySeq, LenProperties DEF PaddedAs
<1>2. \A i \in 1 .. n : cut[i] \in Nat /\ cut[i] <= Len(ds)
  BY <1>1 DEF Cuts
<1>3. \A i \in 1 .. Len(ds) : ds[i] \in D
  BY ElementOfSeq
<1>4. InterleavePreservingRealOrder(reals, ds, cut) = FlattenSeq(P) \o rest
  BY <1>1 DEF InterleavePreservingRealOrder
<1>5. ASSUME NEW i \in 1 .. n PROVE From(i) \in Nat \ {0}
  <2>1. CASE i = 1
    BY <2>1
  <2>2. CASE i # 1
    <3>1. i - 1 \in 1 .. n
      BY <1>1, <2>2
    <3>2. QED
      BY <1>2, <2>2, <3>1
  <2>3. QED
    BY <2>1, <2>2
<1> HIDE DEF From
<1>6. ASSUME NEW s \in Seq(D) PROVE s \in Seq(F) /\ OfKind(s, TRUE) = <<>>
  <2>1. D \subseteq F /\ \A f \in D : IsReal(f) # TRUE
    BY DEF DummiesOf, IsReal
  <2> HIDE DEF D
  <2>2. QED
    BY <2>1, KindNone, SeqMonotonic
<1>7. rest \in Seq(D)
  <2>1. cut[n] \in Nat
    BY <1>1, <1>2
  <2>2. \A i \in cut[n] + 1 .. Len(ds) : ds[i] \in D
    BY <1>1, <1>3, <2>1
  <2> HIDE DEF D
  <2>3. QED
    BY <1>1, <2>1, <2>2, SubSeqProperties
<1>8. ASSUME NEW i \in 1 .. n PROVE P[i] \in Seq(F) /\ OfKind(P[i], TRUE) = <<q[i]>>
  <2> DEFINE a == SubSeq(ds, From(i), cut[i])
  <2>1. a \in Seq(D)
    <3>1. From(i) \in Nat \ {0} /\ cut[i] \in Nat /\ cut[i] <= Len(ds)
      BY <1>2, <1>5
    <3>2. \A k \in From(i) .. cut[i] : ds[k] \in D
      BY <1>1, <1>3, <3>1
    <3> HIDE DEF D
    <3>3. QED
      BY <3>1, <3>2, SubSeqProperties
  <2>2. P[i] = a \o <<q[i]>>
    BY <1>0
  <2> HIDE DEF a, P
  <2>3. a \in Seq(F) /\ OfKind(a, TRUE) = <<>>
    BY <1>6, <2>1
  <2>4. q[i] \in F /\ IsReal(q[i]) = TRUE
    BY <1>0, ElementOfSeq DEF IsReal
  <2>5. <<q[i]>> \in Seq(F) /\ <<q[i]>> = Append(<<>>, q[i]) /\ <<>> \in Seq(F)
    BY <2>4
  <2>6. OfKind(<<q[i]>>, TRUE) = <<q[i]>>
    <3>1. OfKind(Append(<<>>, q[i]), TRUE) = Selects(OfKind(<<>>, TRUE), q[i], TRUE)
      BY <2>4, <2>5, KindOfMore, Zenon
    <3>2. Selects(<<>>, q[i], TRUE) = Append(<<>>, q[i])
      BY <2>4, Zenon DEF Selects
    <3>3. OfKind(<<>>, TRUE) = <<>>
      BY KindOfNone, Zenon
    <3>4. QED
      BY <2>5, <3>1, <3>2, <3>3, Zenon
  <2>7. a \o <<q[i]>> \in Seq(F) /\ OfKind(a \o <<q[i]>>, TRUE) = <<>> \o <<q[i]>>
    <3>1. a \o <<q[i]>> \in Seq(F)
      BY <2>3, <2>5, ConcatProperties
    <3>2. \A real : OfKind(a \o <<q[i]>>, real) = OfKind(a, real) \o OfKind(<<q[i]>>, real)
      <4> DEFINE b == <<q[i]>>
      <4>1. b \in Seq(F)
        BY <2>5
      <4> HIDE DEF b
      <4>2. \A real : OfKind(a \o b, real) = OfKind(a, real) \o OfKind(b, real)
        BY <2>3, <4>1, KindConcat
      <4>3. QED
        BY <4>2 DEF b
    <3>3. QED
      BY <2>3, <2>6, <3>1, <3>2, Zenon
  <2>8. <<>> \o <<q[i]>> = <<q[i]>>
    BY <2>5, ConcatEmptySeq
  <2>9. QED
    BY <2>2, <2>7, <2>8
<1>9. P \in Seq(Seq(F)) /\ Len(P) = n
  <2>1. P = [i \in 1 .. n |-> P[i]]
    OBVIOUS
  <2> HIDE DEF P
  <2>2. P \in [1 .. n -> Seq(F)]
    BY <1>8, <2>1, Zenon
  <2>3. QED
    BY <1>1, <2>2
<1> HIDE DEF P, rest, D
<1>10. FlattenSeq(P) \in Seq(F) /\ OfKind(FlattenSeq(P), TRUE) = q
  BY <1>8, <1>9, FlattenPieces
<1>11. rest \in Seq(F) /\ OfKind(rest, TRUE) = <<>>
  BY <1>6, <1>7
<1>12. /\ FlattenSeq(P) \o rest \in Seq(F)
       /\ OfKind(FlattenSeq(P) \o rest, TRUE) = q \o <<>>
  <2>1. FlattenSeq(P) \o rest \in Seq(F)
    BY <1>10, <1>11, ConcatProperties
  <2>2. \A real : OfKind(FlattenSeq(P) \o rest, real)
                   = OfKind(FlattenSeq(P), real) \o OfKind(rest, real)
    BY <1>10, <1>11, KindConcat
  <2>3. QED
    BY <1>10, <1>11, <2>1, <2>2, Zenon
<1>13. q \o <<>> = q
  BY ConcatEmptySeq
<1>14. QED
  BY <1>4, <1>12, <1>13 DEF Carries

-----------------------------------------------------------------------------
(* Sorting.                                                                *)

\* p sorts the first k lengths.
Sorts(s, k, p) ==
  /\ p \in Bijection(1 .. k, 1 .. k)
  /\ \A i, j \in 1 .. k : i < j => s[p[i]] <= s[p[j]]

\* A length more is put before the first that is larger.
LEMMA SortOneMore ==
  ASSUME NEW s, NEW k \in Nat, \A i \in 1 .. k + 1 : s[i] \in Nat, NEW p, Sorts(s, k, p)
  PROVE  \E r : Sorts(s, k + 1, r)
<1> DEFINE M == {i \in 1 .. k + 1 : i = k + 1 \/ s[p[i]] > s[k + 1]}
<1>1. M \in SUBSET Nat /\ k + 1 \in M
  OBVIOUS
<1> HIDE DEF M
<1>2. PICK m \in M : \A i \in M : m <= i
  BY <1>1, LeastElement
<1>3. m \in 1 .. k + 1 /\ (m = k + 1 \/ s[p[m]] > s[k + 1])
  BY <1>2 DEF M
<1>4. /\ p \in [1 .. k -> 1 .. k]
      /\ \A i, j \in 1 .. k : p[i] = p[j] => i = j
      /\ \A t \in 1 .. k : \E i \in 1 .. k : p[i] = t
      /\ \A i, j \in 1 .. k : i < j => s[p[i]] <= s[p[j]]
  BY DEF Sorts, Bijection, Injection, IsInjective, Surjection
<1>5. ASSUME NEW i \in 1 .. k, i < m PROVE s[p[i]] <= s[k + 1]
  <2>1. i \notin M /\ i \in 1 .. k + 1
    BY <1>2, <1>3, <1>5
  <2>2. ~(s[p[i]] > s[k + 1])
    BY <2>1 DEF M
  <2>3. p[i] \in 1 .. k + 1
    BY <1>4
  <2>4. s[p[i]] \in Nat /\ s[k + 1] \in Nat
    BY <2>3
  <2>5. QED
    BY <2>2, <2>4
<1>6. ASSUME NEW i \in 1 .. k, m <= i PROVE s[k + 1] <= s[p[i]]
  <2>1. m \in 1 .. k /\ s[p[m]] > s[k + 1]
    BY <1>3, <1>6
  <2>2. m = i \/ s[p[m]] <= s[p[i]]
    <3>1. m \in 1 .. k /\ (m = i \/ m < i)
      BY <1>6, <2>1
    <3>2. QED
      BY <1>4, <3>1
  <2>3. p[i] \in 1 .. k + 1 /\ p[m] \in 1 .. k + 1
    <3>1. p[i] \in 1 .. k /\ p[m] \in 1 .. k
      BY <1>4, <2>1
    <3>2. QED
      BY <3>1
  <2>4. s[p[i]] \in Nat /\ s[p[m]] \in Nat /\ s[k + 1] \in Nat
    BY <2>3
  <2>5. QED
    BY <2>1, <2>2, <2>4
<1> DEFINE r == [i \in 1 .. k + 1 |-> IF i < m THEN p[i] ELSE IF i = m THEN k + 1 ELSE p[i - 1]]
<1>7. /\ \A i \in 1 .. k + 1 : /\ i < m => i \in 1 .. k /\ r[i] = p[i]
                               /\ i = m => r[i] = k + 1
                               /\ i > m => i - 1 \in 1 .. k /\ r[i] = p[i - 1]
      /\ DOMAIN r = 1 .. k + 1
  BY <1>3
<1>8. r \in [1 .. k + 1 -> 1 .. k + 1]
  <2>1. \A i \in 1 .. k : p[i] \in 1 .. k + 1
    BY <1>4
  <2>2. \A i \in 1 .. k + 1 : r[i] \in 1 .. k + 1
    BY <1>3, <1>7, <2>1
  <2>3. r = [i \in 1 .. k + 1 |-> r[i]]
    OBVIOUS
  <2> HIDE DEF r
  <2>4. QED
    BY <2>2, <2>3
<1> HIDE DEF r
<1>9. ASSUME NEW i \in 1 .. k + 1, NEW j \in 1 .. k + 1, r[i] = r[j] PROVE i = j
  <2>1. \A x \in 1 .. k : p[x] \in 1 .. k /\ p[x] # k + 1
    BY <1>4
  <2>2. CASE i = m
    BY <1>3, <1>7, <1>9, <2>1, <2>2
  <2>3. CASE j = m
    BY <1>3, <1>7, <1>9, <2>1, <2>3
  <2> DEFINE Old(x) == IF x < m THEN x ELSE x - 1
  <2>4. ASSUME NEW x \in 1 .. k + 1, x # m PROVE Old(x) \in 1 .. k /\ r[x] = p[Old(x)]
    BY <1>3, <1>7, <2>4
  <2>5. CASE i # m /\ j # m
    <3>1. Old(i) \in 1 .. k /\ Old(j) \in 1 .. k /\ p[Old(i)] = p[Old(j)]
      BY <1>9, <2>4, <2>5
    <3>2. Old(i) = Old(j)
      BY <1>4, <3>1
    <3>3. QED
      BY <1>3, <2>5, <3>2
  <2>6. QED
    BY <2>2, <2>3, <2>5
<1>10. ASSUME NEW t \in 1 .. k + 1 PROVE \E i \in 1 .. k + 1 : r[i] = t
  <2>1. CASE t = k + 1
    BY <1>3, <1>7, <2>1
  <2>2. CASE t \in 1 .. k
    <3>1. PICK i \in 1 .. k : p[i] = t
      BY <1>4, <2>2
    <3>2. CASE i < m
      BY <1>7, <3>1, <3>2
    <3>3. CASE i >= m
      <4>1. i + 1 \in 1 .. k + 1 /\ i + 1 > m /\ (i + 1) - 1 = i
        BY <1>3, <3>3
      <4>2. r[i + 1] = t
        BY <1>7, <3>1, <4>1
      <4>3. QED
        BY <4>1, <4>2
    <3>4. QED
      BY <1>3, <3>2, <3>3
  <2>3. QED
    BY <2>1, <2>2
<1>11. ASSUME NEW i \in 1 .. k + 1, NEW j \in 1 .. k + 1, i < j PROVE s[r[i]] <= s[r[j]]
  <2>1. CASE j < m
    <3>1. i \in 1 .. k /\ j \in 1 .. k /\ r[i] = p[i] /\ r[j] = p[j]
      BY <1>3, <1>7, <1>11, <2>1
    <3>2. QED
      BY <1>4, <1>11, <3>1
  <2>2. CASE j = m
    BY <1>3, <1>5, <1>7, <1>11, <2>2
  <2>3. CASE j > m
    <3>1. j - 1 \in 1 .. k /\ r[j] = p[j - 1] /\ m <= j - 1
      BY <1>3, <1>7, <2>3
    <3>2. s[k + 1] <= s[p[j - 1]]
      BY <1>6, <3>1
    <3>3. CASE i < m
      <4>1. i \in 1 .. k /\ i < j - 1 /\ r[i] = p[i]
        BY <1>3, <1>7, <1>11, <2>3, <3>3
      <4>2. QED
        BY <1>4, <3>1, <4>1
    <3>4. CASE i = m
      BY <1>7, <3>1, <3>2, <3>4
    <3>5. CASE i > m
      <4>1. i - 1 \in 1 .. k /\ i - 1 < j - 1 /\ r[i] = p[i - 1]
        BY <1>3, <1>7, <1>11, <3>5
      <4>2. QED
        BY <1>4, <3>1, <4>1
    <3>6. QED
      BY <1>3, <3>3, <3>4, <3>5
  <2>4. QED
    BY <1>3, <2>1, <2>2, <2>3
<1>12. Sorts(s, k + 1, r)
  BY <1>7, <1>8, <1>9, <1>10, <1>11 DEF Sorts, Bijection, Injection, IsInjective, Surjection
<1>13. QED
  BY <1>12

LEMMA SortExists ==
  ASSUME NEW s, NEW n \in Nat, \A i \in 1 .. n : s[i] \in Nat
  PROVE  \E p : Sorts(s, n, p)
<1> DEFINE Has(k) == \E p : Sorts(s, k, p)
           T == {k \in Nat : k <= n => Has(k)}
<1>1. Has(0)
  <2>1. Sorts(s, 0, [i \in 1 .. 0 |-> 0])
    BY DEF Sorts, Bijection, Injection, IsInjective, Surjection
  <2>2. QED
    BY <2>1
<1>2. ASSUME NEW k \in Nat, Has(k), k + 1 <= n PROVE Has(k + 1)
  <2>1. \A i \in 1 .. k + 1 : s[i] \in Nat
    BY <1>2
  <2>2. QED
    BY <1>2, <2>1, SortOneMore
<1> HIDE DEF Has
<1>3. 0 \in T /\ \A k \in Nat : k \in T => k + 1 \in T
  BY <1>1, <1>2
<1> HIDE DEF T
<1>4. Nat \subseteq T
  BY <1>3, Induction
<1>5. QED
  BY <1>4 DEF T, Has

LEMMA SortedFacts ==
  ASSUME NEW s \in Seq(Nat), NEW n, n = Len(s)
  PROVE  /\ Sorted(s) \in Seq(Nat) /\ Len(Sorted(s)) = n
         /\ \A i, j \in 1 .. n : i <= j => Sorted(s)[i] <= Sorted(s)[j]
         /\ ToSet(Sorted(s)) = ToSet(s)
<1>1. n \in Nat /\ DOMAIN s = 1 .. n /\ \A i \in 1 .. n : s[i] \in Nat
  BY LenProperties, ElementOfSeq
<1> DEFINE C == CHOOSE p \in Bijection(1 .. n, 1 .. n) :
                  \A i, j \in 1 .. n : i < j => s[p[i]] <= s[p[j]]
<1>2. Sorts(s, n, C)
  <2>1. PICK p : Sorts(s, n, p)
    BY <1>1, SortExists
  <2>2. \E q \in Bijection(1 .. n, 1 .. n) : \A i, j \in 1 .. n : i < j => s[q[i]] <= s[q[j]]
    BY <2>1, Zenon DEF Sorts
  <2>3. /\ C \in Bijection(1 .. n, 1 .. n)
        /\ \A i, j \in 1 .. n : i < j => s[C[i]] <= s[C[j]]
    BY <2>2, Zenon
  <2> HIDE DEF C
  <2>4. QED
    BY <2>3 DEF Sorts
<1>3. Sorted(s) = [i \in 1 .. n |-> s[C[i]]]
  BY <1>1 DEF Sorted
<1> HIDE DEF C
<1> DEFINE q == [i \in 1 .. n |-> s[C[i]]]
<1>4. /\ \A i \in 1 .. n : C[i] \in 1 .. n
      /\ \A t \in 1 .. n : \E i \in 1 .. n : C[i] = t
      /\ \A i, j \in 1 .. n : i < j => s[C[i]] <= s[C[j]]
  BY <1>2 DEF Sorts, Bijection, Injection, Surjection
<1>5. q \in Seq(Nat) /\ Len(q) = n /\ DOMAIN q = 1 .. n /\ \A i \in 1 .. n : q[i] = s[C[i]]
  <2>1. DOMAIN q = 1 .. n /\ (\A i \in 1 .. n : q[i] = s[C[i]]) /\ q = [i \in 1 .. n |-> q[i]]
    OBVIOUS
  <2> HIDE DEF q
  <2>2. \A i \in 1 .. n : q[i] \in Nat
    BY <1>1, <1>4, <2>1
  <2>3. q \in [1 .. n -> Nat]
    BY <2>1, <2>2, Zenon
  <2>4. q \in Seq(Nat) /\ Len(q) = n
    BY <1>1, <2>3
  <2>5. QED
    BY <2>1, <2>4
<1> HIDE DEF q
<1>6. ASSUME NEW i \in 1 .. n, NEW j \in 1 .. n, i <= j PROVE q[i] <= q[j]
  <2>1. CASE i = j
    <3>1. q[i] \in Nat
      BY <1>1, <1>4, <1>5
    <3>2. QED
      BY <2>1, <3>1
  <2>2. CASE i < j
    BY <1>4, <1>5, <2>2
  <2>3. QED
    BY <1>1, <1>6, <2>1, <2>2
<1>7. ToSet(q) = ToSet(s)
  <2>1. ASSUME NEW v \in ToSet(q) PROVE v \in ToSet(s)
    <3>1. PICK i \in 1 .. n : v = q[i]
      BY <1>5, <2>1 DEF ToSet
    <3>2. v = s[C[i]] /\ C[i] \in DOMAIN s
      BY <1>1, <1>4, <1>5, <3>1
    <3>3. QED
      BY <3>2 DEF ToSet
  <2>2. ASSUME NEW v \in ToSet(s) PROVE v \in ToSet(q)
    <3>1. PICK t \in 1 .. n : v = s[t]
      BY <1>1, <2>2 DEF ToSet
    <3>2. PICK i \in 1 .. n : C[i] = t
      BY <1>4
    <3>3. QED
      BY <1>5, <3>1, <3>2 DEF ToSet
  <2>3. QED
    BY <2>1, <2>2
<1>8. QED
  BY <1>3, <1>5, <1>6, <1>7 DEF q

-----------------------------------------------------------------------------
(* Buckets.                                                                *)

Targets == [hi : Nat, target : Nat]

\* The buckets divide the lengths of old, in order, and the last reaches up to the
\* largest.
Divides(table, old) ==
  /\ \A i \in 1 .. Len(table) : table[i].hi = table[i].target /\ table[i].target \in ToSet(old)
  /\ \A i, j \in 1 .. Len(table) : i <= j => table[i].target <= table[j].target
  /\ \A l \in ToSet(old) : l <= table[Len(table)].target

LEMMA MinOfTwo ==
  ASSUME NEW a \in Int, NEW b \in Int
  PROVE  Min({a, b}) = IF a <= b THEN a ELSE b
<1> DEFINE m == IF a <= b THEN a ELSE b
<1>1. m \in {a, b} /\ \A x \in {a, b} : (\A y \in {a, b} : x <= y) <=> x = m
  OBVIOUS
<1> HIDE DEF m
<1>2. Min({a, b}) = m
  BY <1>1 DEF Min
<1>3. QED
  BY <1>2 DEF m

LEMMA MaxOfTwo ==
  ASSUME NEW a \in Int, NEW b \in Int
  PROVE  Max({a, b}) = IF a >= b THEN a ELSE b
<1> DEFINE m == IF a >= b THEN a ELSE b
<1>1. m \in {a, b} /\ \A x \in {a, b} : (\A y \in {a, b} : x >= y) <=> x = m
  OBVIOUS
<1> HIDE DEF m
<1>2. Max({a, b}) = m
  BY <1>1 DEF Max
<1>3. QED
  BY <1>2 DEF m

\* c lengths to a bucket, in k buckets, are not more than there are.
LEMMA ChunkEnds ==
  ASSUME NEW n \in Nat, NEW k \in Nat \ {0}, k <= n
  PROVE  /\ n \div k \in Nat \ {0}
         /\ \A i \in 1 .. k : i * (n \div k) \in 1 .. n
         /\ \A i, j \in 1 .. k : i <= j => i * (n \div k) <= j * (n \div k)
<1> DEFINE c == n \div k
<1>1. c \in Nat \ {0} /\ c * k <= n
  OBVIOUS
<1> HIDE DEF c
<1>2. ASSUME NEW i \in 1 .. k, NEW j \in 1 .. k, i <= j PROVE i * c <= j * c
  BY <1>1, <1>2
<1>3. ASSUME NEW i \in 1 .. k PROVE i * c \in 1 .. n
  <2>1. i * c <= k * c /\ k * c = c * k
    BY <1>1, <1>2
  <2>2. i * c \in Nat \ {0}
    BY <1>1
  <2>3. QED
    BY <1>1, <2>1, <2>2
<1>4. QED
  BY <1>1, <1>2, <1>3 DEF c

LEMMA BucketsDivide ==
  ASSUME NEW old \in Seq(Nat), old # <<>>, NEW table, table = BuildBuckets(old, Buckets)
  PROVE  table \in Seq(Targets) /\ table # <<>> /\ Divides(table, old)
<1> DEFINE q == Sorted(old)  n == Len(old)  k == Min({Buckets, n})  c == n \div k
           End(i) == IF i = k THEN n ELSE i * c
<1>1. n \in Nat \ {0} /\ Buckets \in Nat \ {0}
  BY EmptySeq, PaddingAssumption
<1>2. /\ q \in Seq(Nat) /\ Len(q) = n /\ \A i \in 1 .. n : q[i] \in Nat
      /\ \A i, j \in 1 .. n : i <= j => q[i] <= q[j]
      /\ ToSet(q) = ToSet(old)
  <2>1. q \in Seq(Nat) /\ Len(q) = n
    BY SortedFacts
  <2> HIDE DEF q
  <2>2. \A i \in 1 .. n : q[i] \in Nat
    BY <2>1, ElementOfSeq
  <2>3. QED
    BY <2>1, <2>2, SortedFacts DEF q
<1>3. k \in Nat \ {0} /\ k <= n
  <2>1. k = IF Buckets <= n THEN Buckets ELSE n
    BY <1>1, MinOfTwo
  <2>2. QED
    BY <1>1, <2>1
<1>4. table = [i \in 1 .. k |-> [hi |-> q[End(i)], target |-> q[End(i)]]]
  BY <1>2 DEF BuildBuckets
<1> HIDE DEF q, n, k
<1>5. /\ \A i \in 1 .. k : i * c \in 1 .. n
      /\ \A i, j \in 1 .. k : i <= j => i * c <= j * c
  BY <1>1, <1>3, ChunkEnds
<1> HIDE DEF c
<1>6. /\ \A i \in 1 .. k : End(i) \in 1 .. n
      /\ \A i, j \in 1 .. k : i <= j => End(i) <= End(j)
      /\ End(k) = n
  <2>1. ASSUME NEW i \in 1 .. k PROVE End(i) \in 1 .. n
    BY <1>1, <1>5
  <2>2. ASSUME NEW i \in 1 .. k, NEW j \in 1 .. k, i <= j PROVE End(i) <= End(j)
    <3>1. i * c \in 1 .. n /\ j * c \in 1 .. n /\ i * c <= j * c
      BY <1>5, <2>2
    <3>2. i = k => j = k
      BY <1>3, <2>2
    <3>3. QED
      BY <1>1, <3>1, <3>2
  <2>3. QED
    BY <2>1, <2>2
<1> HIDE DEF End
<1>7. /\ table \in Seq(Targets) /\ Len(table) = k
      /\ \A i \in 1 .. k : table[i].hi = q[End(i)] /\ table[i].target = q[End(i)]
  <2>1. \A i \in 1 .. k : q[End(i)] \in Nat
    BY <1>2, <1>6
  <2>2. \A i \in 1 .. k : [hi |-> q[End(i)], target |-> q[End(i)]] \in Targets
    BY <2>1 DEF Targets
  <2>3. table \in [1 .. k -> Targets]
    BY <1>4, <2>2
  <2>4. table \in Seq(Targets) /\ Len(table) = k
    BY <1>3, <2>3
  <2>5. ASSUME NEW i \in 1 .. k PROVE table[i].hi = q[End(i)] /\ table[i].target = q[End(i)]
    <3>1. table[i] = [hi |-> q[End(i)], target |-> q[End(i)]]
      BY <1>4
    <3>2. QED
      BY <3>1
  <2>6. QED
    BY <2>4, <2>5
<1>8. \A i \in 1 .. n : q[i] \in ToSet(old)
  <2>1. \A i \in 1 .. n : i \in DOMAIN q
    BY <1>2, LenProperties
  <2>2. \A i \in 1 .. n : q[i] \in ToSet(q)
    BY <2>1 DEF ToSet
  <2>3. QED
    BY <1>2, <2>2
<1>9. ASSUME NEW l \in ToSet(old) PROVE l <= table[k].target
  <2>1. l \in ToSet(q) /\ DOMAIN q = 1 .. n
    BY <1>2, LenProperties
  <2>2. PICK i \in 1 .. n : l = q[i]
    BY <2>1 DEF ToSet
  <2>3. q[i] <= q[n] /\ table[k].target = q[n]
    <3>1. n \in 1 .. n /\ i <= n /\ k \in 1 .. k
      BY <1>1, <1>3
    <3>2. QED
      BY <1>2, <1>6, <1>7, <3>1
  <2>4. QED
    BY <2>2, <2>3
<1>10. \A i, j \in 1 .. k : i <= j => table[i].target <= table[j].target
  BY <1>2, <1>6, <1>7
<1>11. Divides(table, old)
  BY <1>6, <1>7, <1>8, <1>9, <1>10 DEF Divides
<1>12. table # <<>>
  BY <1>3, <1>7
<1>13. QED
  BY <1>7, <1>11, <1>12

\* Which bucket optimal_pad_length finds.
LEMMA BucketFound ==
  ASSUME NEW table \in Seq(Targets), table # <<>>, NEW len
  PROVE  \E i \in 1 .. Len(table) :
           /\ OptimalPadLength(len, table) = table[i].target
           /\ \/ table[i].hi >= len /\ \A j \in 1 .. Len(table) : table[j].hi >= len => i <= j
              \/ \A j \in 1 .. Len(table) : ~(table[j].hi >= len)
<1> DEFINE I == {i \in 1 .. Len(table) : table[i].hi >= len}
<1>1. Len(table) \in Nat \ {0}
  BY EmptySeq
<1>2. SelectInSeq(table, LAMBDA b : b.hi >= len) = IF I # {} THEN Min(I) ELSE 0
  BY DEF SelectInSeq
<1>3. CASE I = {}
  <2>1. OptimalPadLength(len, table) = table[Len(table)].target
    BY <1>2, <1>3 DEF OptimalPadLength, Last
  <2>2. QED
    BY <1>1, <1>3, <2>1
<1>4. CASE I # {}
  <2>1. I \in SUBSET Nat
    OBVIOUS
  <2> HIDE DEF I
  <2>2. PICK i \in I : \A j \in I : i <= j
    BY <1>4, <2>1, LeastElement
  <2>3. \A x \in I : (\A y \in I : x <= y) <=> x = i
    BY <2>1, <2>2
  <2>4. Min(I) = i
    BY <2>2, <2>3 DEF Min
  <2>5. i \in 1 .. Len(table) /\ table[i].hi >= len /\ i # 0
    BY <2>2 DEF I
  <2>6. OptimalPadLength(len, table) = table[i].target
    BY <1>2, <1>4, <2>4, <2>5 DEF OptimalPadLength
  <2>7. \A j \in 1 .. Len(table) : table[j].hi >= len => i <= j
    BY <2>2 DEF I
  <2>8. QED
    BY <2>5, <2>6, <2>7
<1>5. QED
  BY <1>3, <1>4

-----------------------------------------------------------------------------
(* The padder.                                                             *)

Padders == [seen : Seq(Nat), built : Nat, table : Seq(Targets)]

\* The table is that of the lengths there were when it was built.
PadderSound(p) ==
  /\ p \in Padders /\ p.table # <<>> /\ p.built <= Len(p.seen)
  /\ p.built = 0 => p.table = NewPadder.table
  /\ p.built > 0 => Divides(p.table, SubSeq(p.seen, 1, p.built))

LEMMA NewPadderSound == PadderSound(NewPadder)
<1>1. <<[hi |-> Jumbo, target |-> Jumbo]>> \in Seq(Targets)
  <2>1. [hi |-> Jumbo, target |-> Jumbo] \in Targets
    BY PaddingAssumption DEF Targets
  <2>2. QED
    BY <2>1
<1>2. NewPadder \in Padders
  BY <1>1 DEF NewPadder, Padders
<1>3. NewPadder.built = 0 /\ NewPadder.seen = <<>> /\ NewPadder.table # <<>>
  BY DEF NewPadder
<1>4. QED
  BY <1>2, <1>3 DEF PadderSound

LEMMA ObserveKeepsSound ==
  ASSUME NEW p, PadderSound(p), NEW lengths \in Seq(Nat)
  PROVE  /\ PadderSound(ObserveLengths(p, lengths))
         /\ ObserveLengths(p, lengths).seen = p.seen \o lengths
         /\ ObserveLengths(p, lengths).table = p.table
<1> DEFINE o == ObserveLengths(p, lengths)  s == p.seen \o lengths
<1>1. p \in Padders /\ p.seen \in Seq(Nat) /\ p.built \in Nat /\ Len(p.seen) \in Nat
  BY LenProperties DEF PadderSound, Padders
<1>2. s \in Seq(Nat) /\ Len(s) = Len(p.seen) + Len(lengths) /\ Len(lengths) \in Nat
  BY <1>1, ConcatProperties, LenProperties
<1> HIDE DEF s
<1>3. o = [p EXCEPT !.seen = s]
  BY DEF ObserveLengths, s
<1>4. o \in Padders /\ o.seen = s /\ o.built = p.built /\ o.table = p.table
  BY <1>1, <1>2, <1>3 DEF Padders
<1> HIDE DEF o
<1>5. p.built > 0 => SubSeq(s, 1, p.built) = SubSeq(p.seen, 1, p.built)
  <2>1. SUFFICES ASSUME p.built > 0 PROVE SubSeq(s, 1, p.built) = SubSeq(p.seen, 1, p.built)
    OBVIOUS
  <2>2. 1 \in 1 .. Len(p.seen) /\ p.built \in 1 .. Len(p.seen)
    BY <1>1, <2>1 DEF PadderSound
  <2> DEFINE a == p.seen
  <2> HIDE DEF a
  <2>3. SubSeq(a \o lengths, 1, p.built) = SubSeq(a, 1, p.built)
    BY <1>1, <2>2, SubSeqOfConcat1 DEF a
  <2>4. QED
    BY <2>3 DEF a, s
<1>6. PadderSound(o)
  <2>1. o.built > 0 => SubSeq(o.seen, 1, o.built) = SubSeq(p.seen, 1, p.built)
    BY <1>4, <1>5
  <2>2. o.built <= Len(o.seen)
    BY <1>1, <1>2, <1>4 DEF PadderSound
  <2>3. QED
    BY <1>4, <2>1, <2>2, Zenon DEF PadderSound
<1>7. QED
  BY <1>4, <1>6 DEF o, s

LEMMA RebuiltKeepsSound ==
  ASSUME NEW p, PadderSound(p)
  PROVE  PadderSound(Rebuilt(p)) /\ Rebuilt(p).seen = p.seen
<1>1. p \in Padders /\ p.seen \in Seq(Nat) /\ p.built \in Nat /\ Len(p.seen) \in Nat
      /\ RebuildEvery \in Nat \ {0}
  BY LenProperties, PaddingAssumption DEF PadderSound, Padders
<1>2. CASE Len(p.seen) - p.built >= RebuildEvery
  <2> DEFINE t == BuildBuckets(p.seen, Buckets)  r == Rebuilt(p)
  <2>1. p.seen # <<>> /\ Len(p.seen) > 0
    BY <1>1, <1>2, EmptySeq
  <2>2. t \in Seq(Targets) /\ t # <<>> /\ Divides(t, p.seen)
    BY <1>1, <2>1, BucketsDivide
  <2>3. r = [p EXCEPT !.built = Len(p.seen), !.table = t]
    BY <1>2 DEF Rebuilt
  <2> HIDE DEF t, r
  <2>4. /\ r \in Padders /\ r.seen = p.seen /\ r.built = Len(p.seen) /\ r.table = t
    BY <1>1, <2>2, <2>3 DEF Padders
  <2>5. SubSeq(p.seen, 1, Len(p.seen)) = p.seen
    BY <1>1, SubSeqFull
  <2>6. PadderSound(r)
    <3>1. SubSeq(r.seen, 1, r.built) = p.seen
      BY <2>4, <2>5
    <3>2. r.built # 0 /\ r.built <= Len(r.seen)
      BY <1>1, <2>1, <2>4
    <3>3. QED
      BY <2>2, <2>4, <3>1, <3>2, Zenon DEF PadderSound
  <2>7. QED
    BY <2>4, <2>6 DEF r
<1>3. CASE ~(Len(p.seen) - p.built >= RebuildEvery)
  BY <1>3 DEF Rebuilt
<1>4. QED
  BY <1>2, <1>3

LEMMA PartOfSeen ==
  ASSUME NEW s \in Seq(Nat), NEW k \in Nat, k <= Len(s)
  PROVE  ToSet(SubSeq(s, 1, k)) \subseteq ToSet(s) /\ ToSet(SubSeq(s, 1, k)) \subseteq Nat
<1> DEFINE t == SubSeq(s, 1, k)
<1>1. Len(s) \in Nat /\ DOMAIN s = 1 .. Len(s) /\ \A i \in 1 .. Len(s) : s[i] \in Nat
  BY LenProperties, ElementOfSeq
<1>2. /\ t \in Seq(Nat) /\ Len(t) = k /\ \A i \in 1 .. k : t[i] = s[i]
  <2>1. \A i \in 1 .. k : s[i] \in Nat
    BY <1>1
  <2>2. QED
    BY <2>1, SubSeqProperties
<1> HIDE DEF t
<1>3. DOMAIN t = 1 .. k
  BY <1>2, LenProperties
<1>4. ASSUME NEW v \in ToSet(t) PROVE v \in ToSet(s) /\ v \in Nat
  <2>1. PICK i \in 1 .. k : v = t[i]
    BY <1>3 DEF ToSet
  <2>2. i \in 1 .. Len(s) /\ v = s[i]
    BY <1>1, <1>2, <2>1
  <2>3. QED
    BY <1>1, <2>2 DEF ToSet
<1>5. QED
  BY <1>4 DEF t

\* A length is padded to an observed one, or to the first table's.
LEMMA PadTargets ==
  ASSUME NEW p, PadderSound(p), NEW len
  PROVE  /\ OptimalPadLength(len, p.table) \in Nat
         /\ IF p.built = 0 THEN OptimalPadLength(len, p.table) = Jumbo
                           ELSE OptimalPadLength(len, p.table) \in ToSet(p.seen)
<1>1. p.table \in Seq(Targets) /\ p.table # <<>> /\ p.seen \in Seq(Nat) /\ p.built \in Nat
  BY DEF PadderSound, Padders
<1>2. PICK i \in 1 .. Len(p.table) : OptimalPadLength(len, p.table) = p.table[i].target
  BY <1>1, BucketFound
<1>3. p.table[i].target \in Nat
  <2>1. p.table[i] \in Targets
    BY <1>1, ElementOfSeq
  <2>2. QED
    BY <2>1 DEF Targets
<1>4. CASE p.built = 0
  <2>1. p.table[i].target = Jumbo
    BY <1>4 DEF PadderSound, NewPadder
  <2>2. QED
    BY <1>4, <1>2, <1>3, <2>1
<1>5. CASE p.built > 0
  <2> DEFINE old == SubSeq(p.seen, 1, p.built)
  <2>1. p.table[i].target \in ToSet(old)
    BY <1>5 DEF PadderSound, Divides
  <2>2. ToSet(old) \subseteq ToSet(p.seen)
    BY <1>1, PartOfSeen DEF PadderSound
  <2>3. QED
    BY <1>1, <1>5, <1>2, <1>3, <2>1, <2>2
<1>6. QED
  BY <1>1, <1>4, <1>5

\* Bucket padding does what it promises.
LEMMA SoundCovers ==
  ASSUME NEW p, PadderSound(p)
  PROVE  Covers(p)
<1>1. p.table \in Seq(Targets) /\ p.table # <<>> /\ p.seen \in Seq(Nat) /\ p.built \in Nat
      /\ p.built <= Len(p.seen)
  BY DEF PadderSound, Padders
<1> DEFINE old == ToSet(SubSeq(p.seen, 1, p.built))  n == Len(p.table)
           t(i) == p.table[i].target  Opt(l) == OptimalPadLength(l, p.table)
<1>2. n \in Nat \ {0} /\ \A i \in 1 .. n : t(i) \in Nat
  <2>1. \A i \in 1 .. n : p.table[i] \in Targets
    BY <1>1, ElementOfSeq
  <2>2. QED
    BY <1>1, <2>1, EmptySeq DEF Targets
<1>3. old \subseteq Nat
  BY <1>1, PartOfSeen
<1>4. SUFFICES ASSUME p.built > 0
               PROVE  \A l \in old : /\ Opt(l) \in {m \in old : m >= l}
                                     /\ \A m \in old : l <= m => Opt(l) <= Opt(m)
  BY DEF Covers
<1>5. /\ \A i \in 1 .. n : p.table[i].hi = t(i) /\ t(i) \in old
      /\ \A i, j \in 1 .. n : i <= j => t(i) <= t(j)
      /\ \A l \in old : l <= t(n)
  BY <1>4 DEF PadderSound, Divides
<1> DEFINE Bucket(l, i) == /\ i \in 1 .. n /\ Opt(l) = t(i) /\ t(i) >= l
                           /\ \A j \in 1 .. n : t(j) >= l => i <= j
<1>6. ASSUME NEW l \in old PROVE \E i : Bucket(l, i)
  <2>1. PICK i \in 1 .. n :
          /\ Opt(l) = t(i)
          /\ \/ p.table[i].hi >= l /\ \A j \in 1 .. n : p.table[j].hi >= l => i <= j
             \/ \A j \in 1 .. n : ~(p.table[j].hi >= l)
    BY <1>1, BucketFound
  <2>2. n \in 1 .. n /\ t(n) >= l /\ p.table[n].hi >= l
    BY <1>2, <1>3, <1>5
  <2>3. p.table[i].hi >= l /\ \A j \in 1 .. n : p.table[j].hi >= l => i <= j
    BY <2>1, <2>2
  <2>4. Bucket(l, i)
    BY <1>5, <2>1, <2>3
  <2>5. QED
    BY <2>4
<1> HIDE DEF Opt, t, old, n
<1>7. ASSUME NEW l \in old
      PROVE  /\ Opt(l) \in {m \in old : m >= l}
             /\ \A m \in old : l <= m => Opt(l) <= Opt(m)
  <2>1. PICK i : Bucket(l, i)
    BY <1>6
  <2>2. Opt(l) \in {m \in old : m >= l}
    BY <1>5, <2>1
  <2>3. ASSUME NEW m \in old, l <= m PROVE Opt(l) <= Opt(m)
    <3>1. PICK j : Bucket(m, j)
      BY <1>6
    <3>2. t(j) >= l
      BY <1>2, <1>3, <2>3, <3>1
    <3>3. i <= j
      BY <2>1, <3>1, <3>2
    <3>4. QED
      BY <1>5, <2>1, <3>1, <3>3
  <2>4. QED
    BY <2>2, <2>3
<1>8. QED
  BY <1>7

-----------------------------------------------------------------------------
(* The length pool.                                                        *)

LengthPools == {l \in [pool : Seq(Nat), pos : Nat] : l.pos < PoolCap}

LEMMA PoolCapPositive == PoolCap \in Nat \ {0}
BY CompositionAssumption DEF CompositionValid

\* What ingest_length does, before and after the ring has been filled.
LEMMA IngestIs ==
  ASSUME NEW l \in LengthPools, NEW x \in Nat, NEW r, r = IngestLength(l, x)
  PROVE  /\ r \in LengthPools
         /\ Len(l.pool) < PoolCap => r.pool = Append(l.pool, x) /\ r.pos = l.pos
         /\ Len(l.pool) >= PoolCap =>
              /\ r.pos = IF l.pos + 1 = PoolCap THEN 0 ELSE l.pos + 1
              /\ Len(r.pool) = Len(l.pool)
              /\ \A i \in 1 .. Len(l.pool) :
                   r.pool[i] = IF i = l.pos + 1 THEN x ELSE l.pool[i]
<1> DEFINE C == PoolCap  a == l.pool  k == l.pos
<1>1. /\ l \in [pool : Seq(Nat), pos : Nat] /\ a \in Seq(Nat) /\ k \in Nat /\ k < C
      /\ Len(a) \in Nat /\ C \in Nat \ {0}
  BY PoolCapPositive, LenProperties DEF LengthPools
<1>2. CASE Len(a) < C
  <2> DEFINE b == Append(a, x)
  <2>1. r = [l EXCEPT !.pool = b]
    BY <1>2 DEF IngestLength
  <2>2. b \in Seq(Nat)
    BY <1>1, AppendProperties
  <2> HIDE DEF b
  <2>3. r.pool = b /\ r.pos = k /\ r \in [pool : Seq(Nat), pos : Nat]
    BY <1>1, <2>1, <2>2
  <2>4. r \in LengthPools
    BY <1>1, <2>3 DEF LengthPools
  <2>5. QED
    BY <1>1, <1>2, <2>3, <2>4 DEF b
<1>3. CASE Len(a) >= C
  <2> DEFINE b == [a EXCEPT ![k + 1] = x]  m == (k + 1) % C
  <2>1. r = [pool |-> b, pos |-> m]
    BY <1>1, <1>3 DEF IngestLength
  <2>2. k + 1 \in 1 .. Len(a)
    BY <1>1, <1>3
  <2>3. /\ b \in Seq(Nat) /\ Len(b) = Len(a)
        /\ \A i \in 1 .. Len(a) : b[i] = IF i = k + 1 THEN x ELSE a[i]
    BY <1>1, <2>2, ExceptSeq
  <2>4. m = IF k + 1 = C THEN 0 ELSE k + 1
    <3> HIDE DEF k, C
    <3>1. CASE k + 1 = C
      BY <1>1, <3>1
    <3>2. CASE k + 1 # C
      <4>1. k + 1 \in 0 .. C - 1
        BY <1>1, <3>2
      <4>2. QED
        BY <1>1, <3>2, <4>1
    <3>3. QED
      BY <3>1, <3>2
  <2>5. m \in Nat /\ m < C
    BY <1>1, <2>4
  <2> HIDE DEF b, m
  <2>6. r.pool = b /\ r.pos = m /\ r \in LengthPools
    BY <2>1, <2>3, <2>5 DEF LengthPools
  <2>7. QED
    BY <1>1, <1>3, <2>3, <2>4, <2>6
<1>4. QED
  BY <1>1, <1>2, <1>3

IngestPrefixes(l, s, n, f) ==
  /\ f[0] = l /\ FoldLeft(IngestLength, l, s) = f[n]
  /\ \A k \in 1 .. n : f[k] = IngestLength(f[k - 1], s[k])

LEMMA IngestHasPrefixes ==
  ASSUME NEW l \in LengthPools, NEW s \in Seq(Nat), NEW n, n = Len(s)
  PROVE  \E f : IngestPrefixes(l, s, n, f)
<1> DEFINE Is(g) == g = [S \in SUBSET (1 .. n) |->
                           IF S = {} THEN l ELSE IngestLength(g[S \ {Max(S)}], s[Max(S)])]
           G == CHOOSE g : Is(g)
<1>1. n \in Nat /\ DOMAIN s = 1 .. n /\ \A k \in 1 .. n : s[k] \in Nat
  BY LenProperties, ElementOfSeq
<1>2. \E g : Is(g)
  <2> DEFINE step == [x \in LengthPools \X (1 .. n) |-> IngestLength(x[1], s[x[2]])]
  <2>1. ASSUME NEW a \in LengthPools, NEW k \in 1 .. n
        PROVE  step[<<a, k>>] = IngestLength(a, s[k]) /\ IngestLength(a, s[k]) \in LengthPools
    BY <1>1, IngestIs
  <2> HIDE DEF step
  <2>2. PICK g : Folds(LengthPools, l, n, step, g)
    <3>1. StaysIn(LengthPools, n, step)
      BY <2>1 DEF StaysIn
    <3>2. QED
      BY <1>1, <3>1, FoldExists
  <2>3. ASSUME NEW S \in SUBSET (1 .. n)
        PROVE  g[S] = IF S = {} THEN l ELSE IngestLength(g[S \ {Max(S)}], s[Max(S)])
    <3>1. CASE S = {}
      BY <2>2, <3>1 DEF Folds
    <3>2. CASE S # {}
      <4>1. g[S \ {Max(S)}] \in LengthPools /\ Max(S) \in 1 .. n
        BY <1>1, <2>2, <3>2, MaxOfPart DEF Folds
      <4>2. QED
        BY <2>1, <2>2, <3>2, <4>1 DEF Folds
    <3>3. QED
      BY <3>1, <3>2
  <2>4. g = [S \in SUBSET (1 .. n) |-> g[S]]
    BY <2>2 DEF Folds
  <2>5. Is(g)
    BY <2>3, <2>4
  <2>6. QED
    BY <2>5
<1>3. Is(G)
  BY <1>2
<1>4. FoldLeft(IngestLength, l, s) = G[1 .. n]
  BY <1>1 DEF FoldLeft, MapThenFoldSet
<1> HIDE DEF G
<1>5. ASSUME NEW k \in 1 .. n PROVE G[1 .. k] = IngestLength(G[1 .. k - 1], s[k])
  <2>1. (1 .. k) \in SUBSET (1 .. n) /\ k \in Nat /\ k # 0
    BY <1>1
  <2>2. QED
    BY <1>3, <2>1, Intervals
<1>6. G[1 .. 0] = l
  BY <1>3, Intervals
<1> DEFINE f == [k \in 0 .. n |-> G[1 .. k]]
<1>7. f[0] = l /\ f[n] = G[1 .. n] /\ \A k \in 1 .. n : f[k] = IngestLength(f[k - 1], s[k])
  BY <1>1, <1>5, <1>6
<1> HIDE DEF f
<1>8. QED
  BY <1>4, <1>7 DEF IngestPrefixes

\* The ring l after the lengths ing: the most recent of them, the oldest where the
\* next one goes.
Ring(l, ing) ==
  /\ l \in LengthPools
  /\ Len(ing) < PoolCap => l.pool = ing /\ l.pos = 0
  /\ Len(ing) >= PoolCap =>
       /\ Len(l.pool) = PoolCap
       /\ \A i \in 1 .. PoolCap :
            l.pool[i] = ing[i - l.pos + IF i <= l.pos THEN Len(ing) ELSE Len(ing) - PoolCap]

\* A length that is not overwritten stays where it was.
LEMMA SlotStays ==
  ASSUME NEW n \in Nat, NEW c \in Nat, n >= c, NEW p \in Nat, p < c,
         NEW q, q = IF p + 1 = c THEN 0 ELSE p + 1, NEW i \in 1 .. c, i # p + 1,
         NEW h, h = i - p + IF i <= p THEN n ELSE n - c,
         NEW j, j = i - q + IF i <= q THEN n + 1 ELSE n + 1 - c
  PROVE  j = h /\ h \in 1 .. n
<1>1. CASE i <= p
  BY <1>1
<1>2. CASE i > p
  <2>1. i > p + 1
    BY <1>2
  <2>2. p + 1 # c
    BY <2>1
  <2>3. QED
    BY <2>1, <2>2
<1>3. QED
  BY <1>1, <1>2

LEMMA RingStep ==
  ASSUME NEW l, NEW ing \in Seq(Nat), Ring(l, ing), NEW x \in Nat
  PROVE  Ring(IngestLength(l, x), Append(ing, x))
<1> DEFINE r == IngestLength(l, x)  a == Append(ing, x)  N == Len(ing)  C == PoolCap
<1>1. /\ l \in LengthPools /\ l.pos \in Nat /\ l.pos < C /\ N \in Nat /\ C \in Nat \ {0}
      /\ a \in Seq(Nat) /\ Len(a) = N + 1 /\ a[N + 1] = x
      /\ \A i \in 1 .. N : a[i] = ing[i]
  BY PoolCapPositive, LenProperties, AppendProperties DEF Ring, LengthPools
<1>2. /\ r \in LengthPools
      /\ Len(l.pool) < C => r.pool = Append(l.pool, x) /\ r.pos = l.pos
      /\ Len(l.pool) >= C =>
           /\ r.pos = IF l.pos + 1 = C THEN 0 ELSE l.pos + 1
           /\ Len(r.pool) = Len(l.pool)
           /\ \A i \in 1 .. Len(l.pool) : r.pool[i] = IF i = l.pos + 1 THEN x ELSE l.pool[i]
  BY <1>1, IngestIs
<1>3. CASE N < C
  <2>1. l.pool = ing /\ l.pos = 0 /\ Len(l.pool) < C
    BY <1>3 DEF Ring
  <2>2. r.pool = a /\ r.pos = 0
    BY <1>2, <2>1
  <2> HIDE DEF r, a
  <2>3. Len(a) >= C => Len(a) = C
    BY <1>1, <1>3
  <2>4. \A i \in 1 .. C : i - 0 = i /\ ~(i <= 0)
    BY <1>1
  <2>5. ASSUME Len(a) >= C, NEW i \in 1 .. C
        PROVE  r.pool[i] = a[i - r.pos + IF i <= r.pos THEN Len(a) ELSE Len(a) - C]
    <3> DEFINE k == Len(a)
    <3>a. k = C /\ C \in Nat /\ r.pos = 0
      BY <1>1, <2>2, <2>3, <2>5
    <3> HIDE DEF k, C
    <3>b. i - 0 + (IF i <= 0 THEN k ELSE k - C) = i
      BY <3>a
    <3>1. i - r.pos + (IF i <= r.pos THEN Len(a) ELSE Len(a) - C) = i
      BY <3>a, <3>b DEF k
    <3>2. QED
      BY <2>2, <3>1
  <2>6. Ring(r, a)
    BY <1>2, <2>2, <2>3, <2>5 DEF Ring
  <2>7. QED
    BY <2>6 DEF r, a
<1>4. CASE N >= C
  <2>1. /\ Len(l.pool) = C
        /\ \A i \in 1 .. C : l.pool[i] = ing[i - l.pos + IF i <= l.pos THEN N ELSE N - C]
    BY <1>4 DEF Ring
  <2>2. /\ r.pos = IF l.pos + 1 = C THEN 0 ELSE l.pos + 1
        /\ Len(r.pool) = C
        /\ \A i \in 1 .. C : r.pool[i] = IF i = l.pos + 1 THEN x ELSE l.pool[i]
    <3> HIDE DEF r, a, C
    <3>1. Len(l.pool) >= C
      BY <1>1, <2>1
    <3>2. QED
      BY <1>2, <2>1, <3>1, Zenon
  <2> HIDE DEF r, a
  <2>3. ASSUME NEW i \in 1 .. C
        PROVE  r.pool[i] = a[i - r.pos + IF i <= r.pos THEN Len(a) ELSE Len(a) - C]
    <3> DEFINE j == i - r.pos + IF i <= r.pos THEN Len(a) ELSE Len(a) - C
               h == i - l.pos + IF i <= l.pos THEN N ELSE N - C
    <3>1. CASE i = l.pos + 1
      <4>1. j = N + 1
        BY <1>1, <2>2, <3>1
      <4>2. QED
        BY <1>1, <2>2, <3>1, <4>1
    <3>2. CASE i # l.pos + 1
      <4>1. j = h /\ h \in 1 .. N
        <5> DEFINE P == l.pos  Q == r.pos
        <5>1. N \in Nat /\ C \in Nat /\ N >= C /\ P \in Nat /\ P < C
          BY <1>1, <1>4
        <5>2. Q = (IF P + 1 = C THEN 0 ELSE P + 1) /\ i # P + 1
          BY <2>2, <3>2
        <5>3. h = i - P + IF i <= P THEN N ELSE N - C
          BY Zenon
        <5>4. j = i - Q + IF i <= Q THEN N + 1 ELSE N + 1 - C
          BY <1>1
        <5> HIDE DEF h, j, N, C, P, Q
        <5>5. QED
          BY <5>1, <5>2, <5>3, <5>4, SlotStays
      <4>3. r.pool[i] = l.pool[i] /\ l.pool[i] = ing[h]
        BY <2>1, <2>2, <3>2
      <4> HIDE DEF j, h
      <4>4. r.pool[i] = a[j]
        BY <1>1, <4>1, <4>3
      <4>5. QED
        BY <4>4 DEF j
    <3>3. QED
      BY <3>1, <3>2
  <2>4. Ring(r, a)
    BY <1>1, <1>2, <1>4, <2>2, <2>3 DEF Ring
  <2>5. QED
    BY <2>4 DEF r, a
<1>5. QED
  BY <1>1, <1>3, <1>4

\* The ring after a burst's lengths.
LEMMA RingAfter ==
  ASSUME NEW l, NEW ing \in Seq(Nat), Ring(l, ing), NEW s \in Seq(Nat)
  PROVE  Ring(FoldLeft(IngestLength, l, s), ing \o s)
<1> DEFINE n == Len(s)
<1>1. n \in Nat /\ \A k \in 1 .. n : s[k] \in Nat
  BY LenProperties, ElementOfSeq
<1>2. PICK f : IngestPrefixes(l, s, n, f)
  BY IngestHasPrefixes DEF Ring
<1>3. n = Len(s)
  OBVIOUS
<1> HIDE DEF n
<1> DEFINE Past(k) == ing \o SubSeq(s, 1, k)
           Good(k) == Past(k) \in Seq(Nat) /\ Ring(f[k], Past(k))
           T == {k \in Nat : k <= n => Good(k)}
<1>4. Good(0)
  <2>1. SubSeq(s, 1, 0) = <<>>
    BY SubSeqEmpty
  <2>2. ing \o <<>> = ing
    BY ConcatEmptySeq
  <2>3. Past(0) = ing
    BY <2>1, <2>2, Zenon
  <2>4. f[0] = l
    BY <1>2 DEF IngestPrefixes
  <2> HIDE DEF Past
  <2>5. QED
    BY <2>3, <2>4
<1>5. ASSUME NEW k \in Nat, Good(k), k + 1 <= n PROVE Good(k + 1)
  <2>1. k + 1 \in 1 .. n /\ (k + 1) - 1 = k /\ s[k + 1] \in Nat
    BY <1>1, <1>5
  <2>2. f[k + 1] = IngestLength(f[k], s[k + 1])
    BY <1>2, <2>1 DEF IngestPrefixes
  <2>3. Past(k + 1) = Append(Past(k), s[k + 1]) /\ Append(Past(k), s[k + 1]) \in Seq(Nat)
    <3> DEFINE b == SubSeq(s, 1, k)
    <3>1. b \in Seq(Nat)
      <4>1. \A i \in 1 .. k : s[i] \in Nat
        BY <1>1, <1>5
      <4>2. QED
        BY <1>1, <1>3, <1>5, <4>1, SubSeqProperties
    <3>2. SubSeq(s, 1, k + 1) = SubSeq(s, 1, (k + 1) - 1) \o <<s[k + 1]>>
      BY <1>1, <1>3, <2>1, SubSeqRecursiveSecond
    <3>3. SubSeq(s, 1, k + 1) = b \o <<s[k + 1]>>
      BY <2>1, <3>2, Zenon
    <3> HIDE DEF b
    <3>4. b \o <<s[k + 1]>> = Append(b, s[k + 1])
      BY <2>1, <3>1, AppendIsConcat
    <3>5. ing \o Append(b, s[k + 1]) = Append(ing \o b, s[k + 1])
      BY <2>1, <3>1, AppendConcat
    <3>6. Past(k) = ing \o b
      BY DEF b
    <3>7. ing \o b \in Seq(Nat)
      BY <3>1, ConcatProperties
    <3>8. Append(ing \o b, s[k + 1]) \in Seq(Nat)
      BY <2>1, <3>7, AppendProperties
    <3>9. QED
      BY <3>3, <3>4, <3>5, <3>6, <3>8, Zenon
  <2> HIDE DEF Past
  <2>4. Ring(IngestLength(f[k], s[k + 1]), Append(Past(k), s[k + 1]))
    BY <1>5, <2>1, RingStep
  <2>5. QED
    BY <2>2, <2>3, <2>4
<1> HIDE DEF Good
<1>6. 0 \in T /\ \A k \in Nat : k \in T => k + 1 \in T
  BY <1>1, <1>4, <1>5
<1> HIDE DEF T
<1>7. Nat \subseteq T
  BY <1>6, Induction
<1>8. Good(n)
  BY <1>1, <1>7 DEF T
<1>9. SubSeq(s, 1, n) = s
  BY <1>3, SubSeqFull
<1>10. FoldLeft(IngestLength, l, s) = f[n]
  BY <1>2 DEF IngestPrefixes
<1>11. QED
  BY <1>8, <1>9, <1>10 DEF Good

LEMMA TripledType ==
  ASSUME NEW s \in Seq(Nat)
  PROVE  Tripled(s) \in Seq(Nat)
<1>1. Len(s) \in Nat /\ \A i \in 1 .. Len(s) : s[i] \in Nat
  BY LenProperties, ElementOfSeq
<1> DEFINE n == Len(s)  P == [i \in 1 .. 3 * n |-> s[(i + 2) \div 3]]
<1>2. ASSUME NEW i \in 1 .. 3 * n PROVE P[i] \in Nat
  <2>1. (i + 2) \div 3 \in 1 .. n
    BY <1>1
  <2>2. QED
    BY <1>1, <2>1
<1>3. P = [i \in 1 .. 3 * n |-> P[i]] /\ Tripled(s) = P
  BY DEF Tripled
<1> HIDE DEF P
<1>4. P \in [1 .. 3 * n -> Nat]
  BY <1>2, <1>3, Zenon
<1>5. 3 * n \in Nat
  BY <1>1
<1>6. QED
  BY <1>3, <1>4, <1>5

LEMMA Residue ==
  ASSUME NEW n \in Nat \ {0}, NEW x \in Int
  PROVE  /\ 0 <= x /\ x < n => x % n = x
         /\ -n <= x /\ x < 0 => x % n = x + n
<1>1. ASSUME 0 <= x, x < n PROVE x % n = x
  BY <1>1
<1>2. ASSUME -n <= x, x < 0 PROVE x % n = x + n
  BY <1>2
<1>3. QED
  BY <1>1, <1>2

LEMMA PartIs ==
  ASSUME NEW F, NEW s \in Seq(F), NEW m \in Nat \ {0}, NEW n \in Nat, n <= Len(s)
  PROVE  /\ SubSeq(s, m, n) \in Seq(F)
         /\ Len(SubSeq(s, m, n)) = IF m <= n THEN n - m + 1 ELSE 0
         /\ \A i \in 1 .. n - m + 1 : SubSeq(s, m, n)[i] = s[m + i - 1]
<1>1. Len(s) \in Nat /\ \A i \in 1 .. Len(s) : s[i] \in F
  BY LenProperties, ElementOfSeq
<1>2. \A i \in m .. n : s[i] \in F
  BY <1>1
<1>3. QED
  BY <1>2, SubSeqProperties

\* The pool holds the latest lengths.
HoldsLatest(l, n, recent) == l.pool = [i \in 1 .. n |-> recent[((i - 1 - l.pos) % n) + 1]]

LEMMA RingRecent ==
  ASSUME NEW l, NEW ing \in Seq(Nat), Ring(l, ing), NEW n, n = Min({Len(ing), PoolCap}),
         NEW recent, recent = SubSeq(ing, Len(ing) - n + 1, Len(ing))
  PROVE  HoldsLatest(l, n, recent)
<1> DEFINE N == Len(ing)  C == PoolCap  P == l.pos
<1>1. /\ N \in Nat /\ C \in Nat \ {0} /\ P \in Nat /\ P < C /\ l.pool \in Seq(Nat)
      /\ \A i \in 1 .. N : ing[i] \in Nat
  BY PoolCapPositive, LenProperties, ElementOfSeq DEF Ring, LengthPools
<1>2. n = IF N <= C THEN N ELSE C
  <2>1. N \in Int /\ C \in Int /\ n = Min({N, C})
    BY <1>1
  <2> HIDE DEF N, C
  <2>2. QED
    BY <2>1, MinOfTwo
<1>3. n \in Nat /\ N - n \in Nat
  BY <1>1, <1>2
<1>4. /\ recent \in Seq(Nat) /\ Len(recent) = n
      /\ \A k \in 1 .. n : recent[k] = ing[N - n + k]
  <2>1. N - n + 1 \in Nat /\ N - n + 1 >= 1 /\ N - n + 1 <= N + 1
    BY <1>1, <1>3
  <2> DEFINE m == N - n + 1
  <2>2. m \in Nat \ {0} /\ recent = SubSeq(ing, m, N)
    BY <1>1, <1>3
  <2> HIDE DEF m
  <2>3. /\ recent \in Seq(Nat)
        /\ Len(recent) = IF m <= N THEN N - m + 1 ELSE 0
        /\ \A k \in 1 .. N - m + 1 : recent[k] = ing[m + k - 1]
    <3>1. N \in Nat /\ N <= Len(ing)
      BY <1>1
    <3> HIDE DEF N
    <3>2. /\ SubSeq(ing, m, N) \in Seq(Nat)
          /\ Len(SubSeq(ing, m, N)) = IF m <= N THEN N - m + 1 ELSE 0
          /\ \A k \in 1 .. N - m + 1 : SubSeq(ing, m, N)[k] = ing[m + k - 1]
      BY <2>2, <3>1, PartIs, SMTT(30)
    <3>3. QED
      BY <2>2, <3>2, Zenon
  <2>4. N - (N - n + 1) + 1 = n /\ (N - n + 1 <= N <=> n # 0)
    BY <1>1, <1>3
  <2>5. ASSUME NEW k \in 1 .. n PROVE recent[k] = ing[N - n + k]
    <3>1. (N - n + 1) + k - 1 = N - n + k
      BY <1>1, <1>3
    <3>2. QED
      BY <2>3, <2>4, <3>1 DEF m
  <2>6. recent \in Seq(Nat) /\ Len(recent) = n
    <3>1. recent \in Seq(Nat)
      BY <2>3
    <3>2. CASE n = 0
      BY <1>1, <2>3, <2>4, <3>2 DEF m
    <3>3. CASE n # 0
      BY <1>3, <2>3, <2>4, <3>3 DEF m
    <3>4. QED
      BY <3>1, <3>2, <3>3
  <2>7. QED
    BY <2>5, <2>6
<1>5. Len(l.pool) = n
  <2>1. CASE N < C
    BY <1>1, <1>2, <2>1 DEF Ring
  <2>2. CASE N >= C
    <3>1. Len(l.pool) = C
      BY <2>2 DEF Ring
    <3>2. n = C
      <4> HIDE DEF N, C
      <4>1. QED
        BY <1>1, <1>2, <2>2
    <3>3. QED
      BY <3>1, <3>2
  <2>3. QED
    BY <1>1, <2>1, <2>2
<1>6. ASSUME NEW i \in 1 .. n PROVE l.pool[i] = recent[((i - 1 - P) % n) + 1]
  <2> DEFINE x == i - 1 - P  m == x % n
  <2>1. n \in Nat \ {0} /\ x \in Int
    <3>1. P \in Int /\ n # 0
      <4> HIDE DEF P, N, C, m
      <4>1. QED
        BY <1>1, <1>3
    <3>2. i \in Int
      BY <1>3
    <3> HIDE DEF P, m
    <3>3. x \in Int
      BY <3>1, <3>2
    <3>4. QED
      BY <1>3, <3>1, <3>3
  <2>2. CASE N < C
    <3>1. n = N /\ P = 0 /\ l.pool = ing /\ x = i - 1
      BY <1>1, <1>2, <2>2 DEF Ring
    <3>2. 0 <= x /\ x < n
      BY <1>3, <3>1
    <3> HIDE DEF x
    <3>3. x % n = i - 1
      BY <2>1, <3>1, <3>2, Residue
    <3>4. (x % n) + 1 = i /\ N - n + i = i
      BY <1>1, <3>1, <3>3
    <3>5. QED
      BY <1>4, <3>1, <3>4 DEF x
  <2>3. CASE N >= C
    <3>1. /\ n = C
          /\ l.pool[i] = ing[i - P + IF i <= P THEN N ELSE N - C]
      BY <1>1, <1>2, <2>3 DEF Ring
    <3>2. CASE i <= P
      <4>1. -n <= x /\ x < 0
        BY <1>1, <3>1, <3>2
      <4>2. m = x + n
        <5> HIDE DEF x
        <5>1. QED
          BY <2>1, <4>1, Residue
      <4> HIDE DEF m, N, C, P
      <4>3. m + 1 = i - P + n /\ i - P + n \in 1 .. n
        BY <1>1, <2>1, <3>1, <3>2, <4>2
      <4>4. N - n + (i - P + n) = i - P + N
        BY <1>1, <2>1
      <4>5. recent[i - P + n] = ing[i - P + N]
        <5>1. recent[i - P + n] = ing[N - n + (i - P + n)]
          BY <1>4, <4>3
        <5>2. QED
          BY <4>4, <5>1
      <4>6. QED
        BY <3>1, <3>2, <4>3, <4>5 DEF m
    <3>3. CASE ~(i <= P)
      <4>1. 0 <= x /\ x < n
        <5>1. P \in Nat
          BY <1>1
        <5> HIDE DEF P
        <5>2. QED
          BY <1>3, <3>3, <5>1
      <4>2. m = x
        <5> HIDE DEF x
        <5>1. QED
          BY <2>1, <4>1, Residue
      <4> HIDE DEF m, N, C, P
      <4>3. m + 1 = i - P /\ i - P \in 1 .. n
        BY <1>1, <2>1, <3>1, <3>3, <4>2
      <4>4. N - n + (i - P) = i - P + (N - C)
        BY <1>1, <2>1, <3>1
      <4>5. recent[i - P] = ing[i - P + (N - C)]
        <5>1. recent[i - P] = ing[N - n + (i - P)]
          BY <1>4, <4>3
        <5>2. QED
          BY <4>4, <5>1
      <4>6. QED
        BY <3>1, <3>3, <4>3, <4>5 DEF m
    <3>4. QED
      BY <3>2, <3>3
  <2>4. N < C \/ N >= C
    BY <1>1
  <2>5. QED
    BY <2>2, <2>3, <2>4
<1>7. DOMAIN l.pool = 1 .. n /\ l.pool = [i \in DOMAIN l.pool |-> l.pool[i]]
  BY <1>1, <1>5, LenProperties
<1>8. QED
  BY <1>6, <1>7 DEF HoldsLatest

-----------------------------------------------------------------------------
(* Counts and sizes.                                                       *)

Packets == [id : Nat \ {0}, len : Nat \ {0}, at : Nat]

LEMMA LengthsType ==
  ASSUME NEW F, \A f \in F : f.len \in Nat, NEW s \in Seq(F)
  PROVE  Lengths(s) \in Seq(Nat) /\ Len(Lengths(s)) = Len(s)
         /\ \A i \in 1 .. Len(s) : Lengths(s)[i] = s[i].len
<1>1. Len(s) \in Nat /\ DOMAIN s = 1 .. Len(s) /\ \A i \in 1 .. Len(s) : s[i] \in F
  BY LenProperties, ElementOfSeq
<1> DEFINE t == [i \in 1 .. Len(s) |-> s[i].len]
<1>2. Lengths(s) = t
  BY <1>1 DEF Lengths
<1>3. \A i \in 1 .. Len(s) : t[i] = s[i].len /\ t[i] \in Nat
  BY <1>1
<1>4. t = [i \in 1 .. Len(s) |-> t[i]]
  OBVIOUS
<1> HIDE DEF t
<1>5. t \in [1 .. Len(s) -> Nat]
  BY <1>3, <1>4, Zenon
<1>6. t \in Seq(Nat) /\ Len(t) = Len(s)
  BY <1>1, <1>5
<1>7. QED
  BY <1>2, <1>3, <1>6

LEMMA ConstantSum ==
  ASSUME NEW c \in Nat
  PROVE  \A s \in Seq({c}) : SumSeq(s) = Len(s) * c
<1> DEFINE T == {s \in Seq({c}) : SumSeq(s) = Len(s) * c}
<1>1. <<>> \in T
  <2>1. SumSeq(<<>>) = Len(<<>>) * c
    BY SumSteps
  <2>2. <<>> \in Seq({c})
    OBVIOUS
  <2>3. QED
    BY <2>1, <2>2, Zenon
<1>2. ASSUME NEW s \in Seq({c}), NEW x \in {c}, s \in T PROVE Append(s, x) \in T
  <2>1. s \in Seq(Nat) /\ Len(s) \in Nat
    BY LenProperties, SeqMonotonic
  <2>2. SumSeq(Append(s, x)) = SumSeq(s) + c
    BY <2>1, SumSteps
  <2>3. SumSeq(s) = Len(s) * c
    BY <1>2
  <2>4. Append(s, x) \in Seq({c}) /\ Len(Append(s, x)) = Len(s) + 1
    BY AppendProperties
  <2> DEFINE k == Len(s)
  <2>5. k * c + c = (k + 1) * c
    <3> HIDE DEF k
    <3>1. QED
      BY <2>1 DEF k
  <2>6. SumSeq(Append(s, x)) = Len(Append(s, x)) * c
    BY <2>2, <2>3, <2>4, <2>5
  <2>7. QED
    BY <2>4, <2>6
<1> HIDE DEF T
<1>3. Seq({c}) \subseteq T
  BY <1>1, <1>2, SequenceInduction
<1>4. QED
  BY <1>3 DEF T

\* The counts of dummies are integers.
LEMMA AbsoluteCount ==
  ASSUME NEW n \in DummyCountAbsolute
  PROVE  n \in Int
<1>1. PICK m \in (regime.lo .. regime.hi) \cup (IF regime.spiky THEN {0, 1} ELSE {}) :
        n = Min({m, MaxDummy})
  BY DEF DummyCountAbsolute
<1>2. m \in Int /\ MaxDummy \in Int
  BY CompositionAssumption DEF CompositionValid
<1>3. QED
  BY <1>1, <1>2, MinOfTwo

LEMMA BurstCount ==
  ASSUME lens'.pool \in Seq(Nat), NEW n \in DummyCountForBurst
  PROVE  n \in Int
<1>1. MeanLen \in Int
  <2>1. CASE lens'.pool = <<>>
    BY <2>1, CompositionAssumption DEF MeanLen, CompositionValid
  <2>2. CASE lens'.pool # <<>>
    <3>1. Len(lens'.pool) \in Nat \ {0} /\ SumSeq(lens'.pool) \in Nat
      BY <2>2, EmptySeq, LenProperties, SumSteps
    <3>2. SumSeq(lens'.pool) \div Len(lens'.pool) \in Int
      BY <3>1
    <3>3. QED
      BY <2>2, <3>2 DEF MeanLen
  <2>3. QED
    BY <2>1, <2>2
<1>2. CASE ~config.dp
  BY <1>2, AbsoluteCount DEF DummyCountForBurst
<1>3. CASE config.dp
  <2>1. PICK noise \in DecideWindow, m \in DummyCountAbsolute :
          n = CountWithNoise(noise, m)
    BY <1>3 DEF DummyCountForBurst
  <2> DEFINE d == Max({MeanLen, 1})
  <2>2. d \in Nat \ {0}
    <3>1. d = IF MeanLen >= 1 THEN MeanLen ELSE 1
      BY <1>1, MaxOfTwo
    <3>2. QED
      BY <1>1, <3>1
  <2>3. noise \in Nat /\ MaxDummy \in Int /\ m \in Int
    BY CompositionAssumption, AbsoluteCount DEF DecideWindow, DpValid, CompositionValid
  <2> HIDE DEF d
  <2> DEFINE e == noise \div d
  <2>4. e \in Int
    BY <2>2, <2>3
  <2>5. n = Min({Max({e, m}), MaxDummy})
    BY <2>1 DEF d, CountWithNoise
  <2> HIDE DEF e
  <2>6. Max({e, m}) \in Int
    BY <2>3, <2>4, MaxOfTwo
  <2>7. QED
    BY <2>3, <2>5, <2>6, MinOfTwo
<1>4. QED
  BY <1>2, <1>3

LEMMA MonusType ==
  ASSUME NEW a \in Nat, NEW b \in Nat
  PROVE  Monus(a, b) \in Nat
BY DEF Monus

LEMMA KeepaliveCounts ==
  ASSUME now \in Nat, bounder \in Nat, dummyBytes \in Nat
  PROVE  KeepaliveCount \in Nat
<1>1. /\ ClassVolume \in Nat /\ ClassDuration \in Nat \ {0} /\ MaxDummy \in Nat
      /\ KeepaliveMin \in Nat /\ KeepaliveMax \in Nat
  BY CompositionAssumption DEF CompositionValid
<1> DEFINE padding == Monus(ClassVolume, bounder)  elapsed == Min({now, ClassDuration})
           a == 2 * padding * elapsed + ClassDuration
           share == a \div (2 * ClassDuration)
           each == Max({(KeepaliveMin + KeepaliveMax) \div 2, 1})
<1>2. padding \in Nat /\ elapsed \in Nat
  <2>1. elapsed = IF now <= ClassDuration THEN now ELSE ClassDuration
    BY <1>1, MinOfTwo
  <2>2. QED
    BY <1>1, <2>1, MonusType
<1>3. share \in Nat
  <2>1. a \in Nat
    <3> HIDE DEF padding, elapsed
    <3>1. padding * elapsed \in Nat
      BY <1>2
    <3>2. 2 * padding * elapsed \in Nat
      BY <1>2
    <3>3. QED
      BY <1>1, <3>2
  <2> HIDE DEF a
  <2>2. 2 * ClassDuration \in Nat \ {0}
    BY <1>1
  <2>3. QED
    BY <2>1, <2>2
<1>4. DummyBytesNeededNow \in Nat
  <2>1. DummyBytesNeededNow = Monus(share, dummyBytes)
    BY DEF DummyBytesNeededNow
  <2> HIDE DEF share
  <2>2. QED
    BY <1>3, <2>1, MonusType
<1>5. each \in Nat \ {0}
  <2>1. (KeepaliveMin + KeepaliveMax) \div 2 \in Int
    BY <1>1
  <2>2. QED
    BY <2>1, MaxOfTwo
<1> DEFINE extra == IF config.bounded THEN DummyBytesNeededNow \div each ELSE 0
<1>6. extra \in Nat
  <2> HIDE DEF each
  <2>1. DummyBytesNeededNow \div each \in Nat
    BY <1>4, <1>5
  <2>2. QED
    BY <2>1
<1>7. KeepaliveCount = Min({1 + extra, MaxDummy})
  BY DEF KeepaliveCount
<1> HIDE DEF extra
<1>8. QED
  <2>1. 1 + extra \in Int /\ MaxDummy \in Int
    BY <1>1, <1>6
  <2>2. KeepaliveCount = IF 1 + extra <= MaxDummy THEN 1 + extra ELSE MaxDummy
    BY <1>7, <2>1, MinOfTwo
  <2>3. QED
    BY <1>1, <1>6, <2>2

-----------------------------------------------------------------------------
(* What leaves.                                                            *)

\* Frames that cannot be told apart by their lengths, p being the padder.
Covered(p) == IF p.built = 0 THEN {Jumbo} ELSE ToSet(p.seen)
Frames(p) ==
  {f \in [id : Nat, len : Nat] :
     IF config.cell # 0 THEN f.len = config.cell ELSE IsReal(f) \/ f.len \in Covered(p)}
Cover(p) == DummiesOf(Frames(p))

LEMMA DummyLengths ==
  ASSUME config.cell \in Nat, NEW p, PadderSound(p), NEW pool, NEW x \in DummySizes(p.table, pool)
  PROVE  [id |-> 0, len |-> x] \in Cover(p)
<1> DEFINE f == [id |-> 0, len |-> x]
<1>1. f.id = 0 /\ f.len = x /\ ~IsReal(f)
  BY DEF IsReal
<1>2. CASE config.cell # 0
  <2>1. x = config.cell
    BY <1>2 DEF DummySizes
  <2>2. QED
    BY <1>1, <1>2, <2>1 DEF Cover, DummiesOf, Frames
<1>3. CASE config.cell = 0
  <2>1. PICK l \in (IF pool = <<>> THEN KeepaliveMin .. KeepaliveMax ELSE ToSet(pool)) :
          x = OptimalPadLength(l, p.table)
    BY <1>3 DEF DummySizes
  <2>2. x \in Nat /\ x \in Covered(p)
    BY <2>1, PadTargets DEF Covered
  <2>3. QED
    BY <1>1, <1>3, <2>2 DEF Cover, DummiesOf, Frames
<1>4. QED
  BY <1>2, <1>3

LEMMA DummiesCover ==
  ASSUME config.cell \in Nat, NEW p, PadderSound(p), NEW pool, NEW n \in Nat,
         NEW ls \in [1 .. n -> DummySizes(p.table, pool)]
  PROVE  Dummies(ls) \in Seq(Cover(p)) /\ Len(Dummies(ls)) = n
<1> DEFINE d == [i \in 1 .. n |-> [id |-> 0, len |-> ls[i]]]
<1>1. Dummies(ls) = d
  BY DEF Dummies
<1>2. ASSUME NEW i \in 1 .. n PROVE d[i] \in Cover(p)
  <2>1. ls[i] \in DummySizes(p.table, pool)
    OBVIOUS
  <2>2. QED
    BY <2>1, DummyLengths
<1>3. d = [i \in 1 .. n |-> d[i]]
  OBVIOUS
<1> HIDE DEF d
<1>4. d \in [1 .. n -> Cover(p)]
  BY <1>2, <1>3, Zenon
<1>5. QED
  BY <1>1, <1>4

LEMMA RealsPadded ==
  ASSUME config.cell \in Nat, NEW p, NEW b \in Seq(Packets),
         NEW q, q = [i \in DOMAIN b |-> PadRealPacket(b[i])]
  PROVE  /\ q \in Seq(Frames(p)) /\ Len(q) = Len(b)
         /\ \A i \in 1 .. Len(q) : PadRealPacket(b[i]) = q[i] /\ IsReal(q[i])
         /\ \A i \in 1 .. Len(q) : q[i].id = b[i].id
         /\ config.cell = 0 => \A i \in 1 .. Len(q) : q[i].len = b[i].len
<1>1. Len(b) \in Nat /\ DOMAIN b = 1 .. Len(b) /\ \A i \in 1 .. Len(b) : b[i] \in Packets
  BY LenProperties, ElementOfSeq
<1>2. ASSUME NEW i \in 1 .. Len(b)
      PROVE  /\ PadRealPacket(b[i]) \in Frames(p) /\ IsReal(PadRealPacket(b[i]))
             /\ PadRealPacket(b[i]).id = b[i].id
             /\ config.cell = 0 => PadRealPacket(b[i]).len = b[i].len
  <2> DEFINE f == PadRealPacket(b[i])
  <2>1. b[i] \in Packets
    BY <1>1
  <2>2. /\ f = [id |-> b[i].id, len |-> f.len] /\ f.id = b[i].id
        /\ f.len = IF config.cell = 0 THEN b[i].len ELSE config.cell
    BY DEF PadRealPacket
  <2>3. b[i].id \in Nat /\ b[i].id # 0 /\ f.len \in Nat
    BY <2>1, <2>2 DEF Packets
  <2> HIDE DEF f
  <2>4. f \in [id : Nat, len : Nat] /\ IsReal(f)
    BY <2>2, <2>3 DEF IsReal
  <2>5. f \in Frames(p)
    BY <2>2, <2>4 DEF Frames
  <2>6. QED
    BY <2>2, <2>4, <2>5 DEF f
<1>3. q = [i \in 1 .. Len(b) |-> PadRealPacket(b[i])]
  BY <1>1
<1>4. \A i \in 1 .. Len(b) : q[i] = PadRealPacket(b[i])
  BY <1>3
<1>5. q = [i \in 1 .. Len(b) |-> q[i]]
  BY <1>3
<1>6. q \in [1 .. Len(b) -> Frames(p)]
  BY <1>2, <1>4, <1>5, Zenon
<1>7. q \in Seq(Frames(p)) /\ Len(q) = Len(b)
  BY <1>1, <1>6
<1>8. QED
  BY <1>2, <1>4, <1>7

LEMMA NoteKeepsRing ==
  ASSUME burst \in Seq(Packets), ingested \in Seq(Nat), Ring(lens, ingested), NoteBurst
  PROVE  ingested' \in Seq(Nat) /\ Ring(lens', ingested')
<1> DEFINE s == Tripled(Lengths(burst))
<1>1. s \in Seq(Nat)
  <2>1. \A f \in Packets : f.len \in Nat
    BY DEF Packets
  <2>2. QED
    BY <2>1, LengthsType, TripledType
<1>2. lens' = FoldLeft(IngestLength, lens, s) /\ ingested' = ingested \o s
  BY DEF NoteBurst
<1> HIDE DEF s
<1>3. ingested \o s \in Seq(Nat)
  BY <1>1, ConcatProperties
<1>4. Ring(FoldLeft(IngestLength, lens, s), ingested \o s)
  BY <1>1, RingAfter
<1>5. QED
  BY <1>2, <1>3, <1>4

LEMMA PadderAfterSound ==
  ASSUME NEW p, PadderSound(p), NEW n
  PROVE  PadderSound(PadderAfter(p, n)) /\ PadderAfter(p, n).seen = p.seen
BY RebuiltKeepsSound DEF PadderAfter

\* A burst leaves as its packets, in order and padded, among cover.
LEMMA ComposeEmits ==
  ASSUME config.cell \in Nat, burst \in Seq(Packets), burst # <<>>, PadderSound(padder),
         ingested \in Seq(Nat), Ring(lens, ingested), Compose
  PROVE  /\ PadderSound(padder') /\ padder'.seen = padder.seen \o Lengths(burst)
         /\ Lengths(burst) \in Seq(Nat)
         /\ \E frames \in Seq(Frames(padder')) :
              /\ Emit(frames)
              /\ OfKind(frames, TRUE) = [i \in DOMAIN burst |-> PadRealPacket(burst[i])]
<1> DEFINE seen == ObserveLengths(padder, Lengths(burst))
           q == [i \in DOMAIN burst |-> PadRealPacket(burst[i])]
<1>1. Lengths(burst) \in Seq(Nat)
  <2>1. \A f \in Packets : f.len \in Nat
    BY DEF Packets
  <2>2. QED
    BY <2>1, LengthsType
<1>2. PadderSound(seen) /\ seen.seen = padder.seen \o Lengths(burst)
  BY <1>1, ObserveKeepsSound
<1>3. PICK n \in DummyCountForBurst :
        /\ padder' = PadderAfter(seen, n)
        /\ \E cut \in Cuts(Len(burst), n), ls \in [1 .. n -> DummySizes(padder'.table, lens'.pool)] :
             Emit(InterleavePreservingRealOrder(burst, Dummies(ls), cut))
  BY DEF Compose
<1>4. PICK cut \in Cuts(Len(burst), n), ls \in [1 .. n -> DummySizes(padder'.table, lens'.pool)] :
        Emit(InterleavePreservingRealOrder(burst, Dummies(ls), cut))
  BY <1>3
<1> HIDE DEF seen, q
<1>5. PadderSound(padder') /\ padder'.seen = padder.seen \o Lengths(burst)
  BY <1>2, <1>3, PadderAfterSound
<1>6. Len(burst) \in Nat \ {0}
  BY EmptySeq, LenProperties
<1>7. n \in Nat
  <2>1. Ring(lens', ingested')
    BY NoteKeepsRing DEF Compose
  <2>2. n \in Int
    BY <2>1, BurstCount DEF Ring, LengthPools
  <2>3. cut[1] \in 0 .. n
    BY <1>6 DEF Cuts
  <2>4. QED
    BY <2>2, <2>3
<1>8. Dummies(ls) \in Seq(Cover(padder')) /\ Len(Dummies(ls)) = n
  <2> DEFINE p == padder'  pool == lens'.pool
  <2>1. ls \in [1 .. n -> DummySizes(p.table, pool)] /\ PadderSound(p)
    BY <1>5
  <2> HIDE DEF p, pool
  <2>2. Dummies(ls) \in Seq(Cover(p)) /\ Len(Dummies(ls)) = n
    BY <1>7, <2>1, DummiesCover
  <2>3. QED
    BY <2>2 DEF p
<1> DEFINE F == Frames(padder')  ds == Dummies(ls)
<1>9. /\ q \in Seq(F) /\ Len(q) = Len(burst)
      /\ \A i \in 1 .. Len(q) : PadRealPacket(burst[i]) = q[i] /\ IsReal(q[i])
  BY RealsPadded DEF q
<1>10. ds \in Seq(DummiesOf(F)) /\ Len(ds) = n
  BY <1>8 DEF Cover
<1>11. q # <<>>
  BY <1>6, <1>9
<1> HIDE DEF F, ds
<1>12. cut \in Cuts(Len(q), Len(ds))
  BY <1>9, <1>10
<1> DEFINE frames == InterleavePreservingRealOrder(burst, ds, cut)
<1>13. frames \in Seq(F) /\ OfKind(frames, TRUE) = q
  <2>1. PaddedAs(burst, q)
    BY <1>9 DEF PaddedAs
  <2>2. q \in Seq(F) /\ ds \in Seq(DummiesOf(F))
    BY <1>9, <1>10
  <2>3. Carries(frames, F, q)
    BY <1>11, <1>12, <2>1, <2>2, InterleavingKeepsOrder
  <2> HIDE DEF frames
  <2>4. QED
    BY <2>3 DEF Carries
<1>14. Emit(frames)
  BY <1>4 DEF ds
<1> HIDE DEF frames
<1>15. QED
  BY <1>1, <1>5, <1>13, <1>14 DEF F, q

\* A keepalive is cover.
LEMMA KeepaliveEmits ==
  ASSUME config.cell \in Nat, PadderSound(padder), KeepaliveCount \in Nat, ComposeKeepalive
  PROVE  /\ PadderSound(padder') /\ padder'.seen = padder.seen
         /\ \E frames \in Seq(Cover(padder')) : Emit(frames)
<1> DEFINE n == KeepaliveCount
<1>1. n \in Nat
  OBVIOUS
<1>2. padder' = PadderAfter(padder, n)
  BY DEF ComposeKeepalive
<1>3. PICK ls \in [1 .. n -> DummySizes(padder'.table, lens.pool)] : Emit(Dummies(ls))
  BY DEF ComposeKeepalive
<1> HIDE DEF n
<1>4. PadderSound(padder') /\ padder'.seen = padder.seen
  BY <1>2, PadderAfterSound
<1>5. Dummies(ls) \in Seq(Cover(padder'))
  <2> DEFINE p == padder'
  <2>1. ls \in [1 .. n -> DummySizes(p.table, lens.pool)] /\ PadderSound(p)
    BY <1>4
  <2> HIDE DEF p
  <2>2. Dummies(ls) \in Seq(Cover(p))
    BY <1>1, <2>1, DummiesCover
  <2>3. QED
    BY <2>2 DEF p
<1>6. QED
  BY <1>3, <1>4, <1>5

-----------------------------------------------------------------------------
(* What is counted when it leaves.                                         *)

CountTypes ==
  dummyBytes \in Nat /\ realOut \in Nat /\ tester \in [real : Nat, dummy : Nat] /\ sent \in Seq(Nat)

\* The frames on the wire cannot be told apart either, except the first dummies.
Conforming(z, p) ==
  \A s \in z : IF config.cell # 0 THEN s.len = config.cell
               ELSE s.real \/ IF s.early THEN s.len = Jumbo ELSE s.len \in ToSet(p.seen)

LEMMA KindOfFrames ==
  ASSUME NEW p, NEW frames \in Seq(Frames(p)), NEW real
  PROVE  OfKind(frames, real) \in Seq(Frames(p))
<1>1. {x \in Frames(p) : IsReal(x) = real} \subseteq Frames(p)
  OBVIOUS
<1>2. QED
  BY <1>1, KindType, SeqMonotonic

LEMMA FrameTypes ==
  ASSUME NEW p
  PROVE  /\ \A f \in Frames(p) : f.len \in Nat /\ f.id \in Nat
         /\ config.cell # 0 => \A f \in Frames(p) : f.len = config.cell
BY DEF Frames

LEMMA EmitCounts ==
  ASSUME config.cell \in Nat, CountTypes, NEW p, NEW frames \in Seq(Frames(p)), Emit(frames),
         NEW reals, reals = OfKind(frames, TRUE)
  PROVE  /\ CountTypes'
         /\ tester'.real = tester.real + Len(reals)
         /\ Len(sent') = Len(sent) + Len(reals)
         /\ sent' = sent \o [i \in DOMAIN reals |-> reals[i].id]
         /\ realOut' = realOut + SumSeq(Lengths(reals))
         /\ config.cell # 0 /\ tester.dummy * config.cell = dummyBytes =>
              tester'.dummy * config.cell = dummyBytes'
<1> DEFINE dummies == OfKind(frames, FALSE)  ids == [i \in DOMAIN reals |-> reals[i].id]
<1>1. reals \in Seq(Frames(p)) /\ dummies \in Seq(Frames(p))
  <2>1. \A real : OfKind(frames, real) \in Seq(Frames(p))
    BY KindOfFrames
  <2>2. QED
    BY <2>1, Zenon
<1>2. /\ dummyBytes' = dummyBytes + SumSeq(Lengths(dummies))
      /\ tester' = [real |-> tester.real + Len(reals), dummy |-> tester.dummy + Len(dummies)]
      /\ sent' = sent \o ids
      /\ realOut' = realOut + SumSeq(Lengths(reals))
  BY Zenon DEF Emit, RecordFrames
<1> HIDE DEF dummies
<1>3. /\ Lengths(reals) \in Seq(Nat) /\ Lengths(dummies) \in Seq(Nat)
      /\ Len(Lengths(dummies)) = Len(dummies)
      /\ \A i \in 1 .. Len(dummies) : Lengths(dummies)[i] = dummies[i].len
  <2> DEFINE F == Frames(p)
  <2>1. \A f \in F : f.len \in Nat
    BY FrameTypes
  <2> HIDE DEF F
  <2>2. QED
    BY <1>1, <2>1, LengthsType DEF F
<1>4. /\ SumSeq(Lengths(reals)) \in Nat /\ SumSeq(Lengths(dummies)) \in Nat
      /\ Len(reals) \in Nat /\ Len(dummies) \in Nat
  BY <1>1, <1>3, SumSteps, LenProperties
<1>5. ids \in Seq(Nat) /\ Len(ids) = Len(reals)
  <2> DEFINE n == Len(reals)
  <2>1. n \in Nat /\ DOMAIN reals = 1 .. n /\ \A i \in 1 .. n : reals[i] \in Frames(p)
    BY <1>1, LenProperties, ElementOfSeq
  <2>2. \A i \in 1 .. n : ids[i] = reals[i].id /\ reals[i].id \in Nat
    BY <2>1, FrameTypes
  <2>3. ids = [i \in 1 .. n |-> ids[i]]
    BY <2>1
  <2> HIDE DEF ids, n
  <2>4. ids \in [1 .. n -> Nat]
    BY <2>2, <2>3, Zenon
  <2>5. ids \in Seq(Nat) /\ Len(ids) = n
    BY <2>1, <2>4
  <2>6. QED
    BY <2>5 DEF n
<1> HIDE DEF ids
<1>6. sent' \in Seq(Nat) /\ Len(sent') = Len(sent) + Len(reals)
  <2>1. sent \in Seq(Nat)
    BY DEF CountTypes
  <2>2. sent \o ids \in Seq(Nat) /\ Len(sent \o ids) = Len(sent) + Len(ids)
    BY <1>5, <2>1, ConcatProperties
  <2>3. QED
    BY <1>2, <1>5, <2>2, Zenon
<1>7. /\ tester.real \in Nat /\ tester.dummy \in Nat
      /\ tester'.real = tester.real + Len(reals) /\ tester'.dummy = tester.dummy + Len(dummies)
      /\ tester' \in [real : Nat, dummy : Nat]
  <2>1. tester.real \in Nat /\ tester.dummy \in Nat
    BY DEF CountTypes
  <2> DEFINE a == tester.real + Len(reals)  b == tester.dummy + Len(dummies)
  <2>2. a \in Nat /\ b \in Nat /\ tester' = [real |-> a, dummy |-> b]
    <3>1. a \in Nat /\ b \in Nat
      <4> DEFINE m == Len(reals)  k == Len(dummies)
      <4>1. m \in Nat /\ k \in Nat
        BY <1>4, Zenon
      <4> HIDE DEF m, k
      <4>2. tester.real + m \in Nat /\ tester.dummy + k \in Nat
        BY <2>1, <4>1
      <4>3. QED
        BY <4>2, Zenon DEF m, k
    <3>2. QED
      BY <1>2, <3>1, Zenon
  <2> HIDE DEF a, b
  <2>3. tester'.real = a /\ tester'.dummy = b /\ tester' \in [real : Nat, dummy : Nat]
    BY <2>2
  <2>4. QED
    BY <2>1, <2>3 DEF a, b
<1>8. CountTypes'
  <2>1. dummyBytes' \in Nat /\ realOut' \in Nat
    <3> DEFINE x == SumSeq(Lengths(dummies))  y == SumSeq(Lengths(reals))
    <3>1. dummyBytes' = dummyBytes + x /\ realOut' = realOut + y /\ x \in Nat /\ y \in Nat
      BY <1>2, <1>4, Zenon
    <3> HIDE DEF x, y
    <3>2. QED
      BY <3>1 DEF CountTypes
  <2>2. QED
    BY <1>6, <1>7, <2>1 DEF CountTypes
<1>9. ASSUME config.cell # 0, tester.dummy * config.cell = dummyBytes
      PROVE  tester'.dummy * config.cell = dummyBytes'
  <2> DEFINE c == config.cell  s == Lengths(dummies)  d == tester.dummy  n == Len(dummies)
  <2>1. s \in Seq({c})
    <3>1. \A i \in 1 .. Len(s) : s[i] \in {c}
      <4>1. \A i \in 1 .. Len(dummies) : dummies[i].len = c
        BY <1>1, <1>9, ElementOfSeq, FrameTypes
      <4>2. QED
        BY <1>3, <4>1
    <3>2. s \in Seq(Nat)
      BY <1>3
    <3> HIDE DEF s, c
    <3>3. Len(s) \in Nat /\ s = [i \in 1 .. Len(s) |-> s[i]]
      BY <3>2, LenProperties
    <3>4. s \in [1 .. Len(s) -> {c}]
      BY <3>1, <3>3, Zenon
    <3>5. QED
      BY <3>3, <3>4
  <2>2. SumSeq(s) = n * c
    <3> HIDE DEF s, c
    <3>1. SumSeq(s) = Len(s) * c
      BY <2>1, ConstantSum DEF c
    <3>2. QED
      BY <1>3, <3>1 DEF s
  <2>3. d \in Nat /\ n \in Nat /\ c \in Nat /\ d * c = dummyBytes
        /\ dummyBytes' = dummyBytes + SumSeq(s) /\ tester'.dummy = d + n
    BY <1>2, <1>4, <1>7, <1>9
  <2> HIDE DEF s, c, d, n
  <2>4. (d + n) * c = d * c + n * c
    BY <2>3
  <2>5. tester'.dummy * c = dummyBytes'
    BY <2>2, <2>3, <2>4
  <2>6. QED
    BY <2>5 DEF c
<1>10. QED
  BY <1>2, <1>6, <1>7, <1>8, <1>9 DEF ids

LEMMA EmitConforms ==
  ASSUME NEW p, NEW frames \in Seq(Frames(p)), Emit(frames), Conforming(sizes, p),
         p.built = padder'.built
  PROVE  Conforming(sizes', p)
<1>1. sizes' = sizes \cup {[real |-> IsReal(frames[i]), len |-> frames[i].len,
                            early |-> padder'.built = 0] : i \in DOMAIN frames}
  BY DEF Emit
<1>2. DOMAIN frames = 1 .. Len(frames) /\ \A i \in 1 .. Len(frames) : frames[i] \in Frames(p)
  BY LenProperties, ElementOfSeq
<1>3. ASSUME NEW s \in sizes'
      PROVE  IF config.cell # 0 THEN s.len = config.cell
             ELSE s.real \/ IF s.early THEN s.len = Jumbo ELSE s.len \in ToSet(p.seen)
  <2>1. CASE s \in sizes
    BY <2>1 DEF Conforming
  <2>2. CASE s \notin sizes
    <3>1. PICK i \in DOMAIN frames : s = [real |-> IsReal(frames[i]), len |-> frames[i].len,
                                        early |-> padder'.built = 0]
      BY <1>1, <2>2
    <3> DEFINE f == frames[i]
    <3>2. f \in Frames(p)
      BY <1>2
    <3>3. s.len = f.len /\ s.real = IsReal(f) /\ s.early = (p.built = 0)
      BY <3>1
    <3> HIDE DEF f
    <3>4. QED
      BY <3>2, <3>3 DEF Frames, Covered
  <2>3. QED
    BY <2>1, <2>2
<1>4. QED
  BY <1>3 DEF Conforming

\* Cover has no real frame.
LEMMA CoverIsCover ==
  ASSUME NEW p, NEW frames \in Seq(Cover(p))
  PROVE  frames \in Seq(Frames(p)) /\ OfKind(frames, TRUE) = <<>>
<1>1. Cover(p) \subseteq Frames(p) /\ \A f \in Cover(p) : IsReal(f) # TRUE
  BY DEF Cover, DummiesOf, IsReal
<1>2. frames \in Seq(Frames(p))
  BY <1>1, SeqMonotonic
<1>3. \A s \in Seq(Cover(p)) : OfKind(s, TRUE) = <<>>
  BY <1>1, KindNone
<1>4. QED
  BY <1>2, <1>3

\* As lengths are observed, what conformed still does.
LEMMA ConformsMore ==
  ASSUME NEW p, NEW q, PadderSound(p), NEW more \in Seq(Nat), q.seen = p.seen \o more,
         Conforming(sizes, p)
  PROVE  Conforming(sizes, q)
<1>1. p.seen \in Seq(Nat)
  BY DEF PadderSound, Padders
<1> DEFINE a == p.seen  b == q.seen
<1>2. a \in Seq(Nat) /\ b = a \o more /\ Len(a) \in Nat /\ Len(more) \in Nat
      /\ Len(b) = Len(a) + Len(more) /\ b \in Seq(Nat)
      /\ \A i \in 1 .. Len(a) : b[i] = a[i]
  <2>1. a \in Seq(Nat) /\ b = a \o more
    BY <1>1
  <2> HIDE DEF a, b
  <2>2. QED
    BY <2>1, LenProperties, ConcatProperties
<1> HIDE DEF a, b
<1>3. ToSet(a) \subseteq ToSet(b)
  <2>1. ASSUME NEW v \in ToSet(a) PROVE v \in ToSet(b)
    <3>1. PICK i \in 1 .. Len(a) : v = a[i]
      BY <1>2, LenProperties DEF ToSet
    <3>2. i \in DOMAIN b /\ v = b[i]
      BY <1>2, <3>1, LenProperties
    <3>3. QED
      BY <3>2 DEF ToSet
  <2>2. QED
    BY <2>1
<1>4. ToSet(p.seen) \subseteq ToSet(q.seen)
  BY <1>3 DEF a, b
<1>5. QED
  BY <1>4 DEF Conforming
=============================================================================
