---------------------------- MODULE SequenceFolds ------------------------------
(***************************************************************************)
(* Induction over the naturals and over sequences, and what a loop over a  *)
(* sequence computes when it is written with the folds of the community    *)
(* modules: the partial results, and the sum of a sequence.                *)
(***************************************************************************)
EXTENDS SequencesExt, SequenceTheorems, WellFoundedInduction, TLAPS

-----------------------------------------------------------------------------
(* Induction, for a set of naturals or of sequences.                        *)

LEMMA LeastElement ==
  ASSUME NEW S \in SUBSET Nat, S # {}
  PROVE  \E k \in S : \A j \in S : k <= j
<1> DEFINE R == {p \in Nat \X Nat : p[1] < p[2]}
<1>1. IsWellFoundedOn(R, Nat)
  <2>1. R = OpToRel(<, Nat)
    BY Zenon DEF OpToRel
  <2>2. QED
    BY <2>1, NatLessThanWellFounded, Zenon
<1>2. PICK k \in S : \A j \in S : <<j, k>> \notin R
  BY <1>1, WFMin, Zenon
<1>3. ASSUME NEW j \in S PROVE k <= j
  <2>1. j \in Nat /\ k \in Nat /\ <<j, k>> \notin R
    BY <1>2
  <2>2. QED
    BY <2>1
<1>4. QED
  BY <1>3

LEMMA Induction ==
  ASSUME NEW T, 0 \in T, \A k \in Nat : k \in T => k + 1 \in T
  PROVE  Nat \subseteq T
<1> DEFINE S == Nat \ T
<1>1. SUFFICES ASSUME S # {} PROVE FALSE
  OBVIOUS
<1>2. S \in SUBSET Nat
  OBVIOUS
<1> HIDE DEF S
<1>3. PICK k \in S : \A j \in S : k <= j
  BY <1>1, <1>2, LeastElement
<1>4. k \in Nat /\ k \notin T /\ k # 0
  BY <1>3 DEF S
<1>5. k - 1 \in Nat /\ k - 1 \notin S
  BY <1>3, <1>4
<1>6. k - 1 \in T /\ (k - 1) + 1 = k
  BY <1>4, <1>5 DEF S
<1>7. QED
  BY <1>4, <1>5, <1>6

\* A sequence that is not empty is one element longer than another.
LEMMA LastApart ==
  ASSUME NEW A, NEW s \in Seq(A), NEW k \in Nat, Len(s) = k + 1
  PROVE  /\ SubSeq(s, 1, k) \in Seq(A) /\ Len(SubSeq(s, 1, k)) = k
         /\ s[k + 1] \in A /\ s = Append(SubSeq(s, 1, k), s[k + 1])
<1> DEFINE t == SubSeq(s, 1, k)
<1>1. \A i \in 1 .. k : s[i] \in A
  BY ElementOfSeq
<1>2. /\ t \in Seq(A) /\ Len(t) = k /\ \A i \in 1 .. k : t[i] = s[i]
  BY <1>1, SubSeqProperties
<1>3. s[k + 1] \in A
  BY ElementOfSeq
<1> HIDE DEF t
<1> DEFINE u == Append(t, s[k + 1])
<1>4. /\ u \in Seq(A) /\ Len(u) = k + 1 /\ u[k + 1] = s[k + 1]
      /\ \A i \in 1 .. k : u[i] = t[i]
  BY <1>2, <1>3, AppendProperties
<1> HIDE DEF u
<1>5. \A i \in 1 .. Len(s) : s[i] = u[i]
  BY <1>2, <1>4
<1>6. s = u
  BY <1>4, <1>5, SeqEqual
<1>7. QED
  BY <1>2, <1>3, <1>6 DEF t, u

LEMMA SequenceInduction ==
  ASSUME NEW A, NEW T, <<>> \in T,
         \A s \in Seq(A), x \in A : s \in T => Append(s, x) \in T
  PROVE  Seq(A) \subseteq T
<1> DEFINE N == {k \in Nat : \A s \in Seq(A) : Len(s) = k => s \in T}
<1>1. 0 \in N
  <2>1. ASSUME NEW s \in Seq(A), Len(s) = 0 PROVE s \in T
    BY <2>1, EmptySeq
  <2>2. QED
    BY <2>1
<1>2. ASSUME NEW k \in Nat, k \in N PROVE k + 1 \in N
  <2>1. ASSUME NEW s \in Seq(A), Len(s) = k + 1 PROVE s \in T
    <3> DEFINE t == SubSeq(s, 1, k)  x == s[k + 1]
    <3>1. t \in Seq(A) /\ Len(t) = k /\ x \in A /\ s = Append(t, x)
      BY <2>1, LastApart
    <3> HIDE DEF t, x
    <3>2. t \in T
      BY <1>2, <3>1
    <3>3. QED
      BY <3>1, <3>2
  <2>2. QED
    BY <2>1
<1> HIDE DEF N
<1>3. Nat \subseteq N
  BY <1>1, <1>2, Induction
<1>4. ASSUME NEW s \in Seq(A) PROVE s \in T
  <2>1. Len(s) \in Nat
    BY LenProperties
  <2>2. Len(s) \in N
    BY <1>3, <2>1
  <2>3. QED
    BY <2>2 DEF N
<1>5. QED
  BY <1>4

-----------------------------------------------------------------------------
(* Folds.                                                                  *)

\* The sets FoldLeft goes through.
LEMMA Intervals ==
  /\ 1 .. 0 = {}
  /\ \A k \in Nat : k # 0 => Max(1 .. k) = k /\ (1 .. k) \ {k} = 1 .. k - 1 /\ 1 .. k # {}
<1>1. ASSUME NEW k \in Nat, k # 0 PROVE Max(1 .. k) = k
  <2>1. k \in 1 .. k /\ \A x \in 1 .. k : (\A y \in 1 .. k : x >= y) <=> x = k
    BY <1>1
  <2>2. QED
    BY <2>1 DEF Max
<1>2. QED
  BY <1>1

LEMMA MaxOfBounded ==
  ASSUME NEW S \in SUBSET Nat, S # {}, NEW n \in Nat, \A x \in S : x <= n
  PROVE  Max(S) \in S /\ \A x \in S : x <= Max(S)
<1> DEFINE D == {d \in Nat : n - d \in S}
<1>1. D \in SUBSET Nat /\ D # {}
  <2>1. PICK x \in S : TRUE
    OBVIOUS
  <2>2. n - x \in D
    BY <2>1
  <2>3. QED
    BY <2>2
<1> HIDE DEF D
<1>2. PICK d \in D : \A e \in D : d <= e
  BY <1>1, LeastElement
<1>3. d \in Nat /\ n - d \in S
  BY <1>2 DEF D
<1>4. ASSUME NEW y \in S PROVE n - d >= y
  <2>1. n - y \in D /\ y \in Nat
    BY DEF D
  <2>2. QED
    BY <1>2, <1>3, <2>1
<1>5. Max(S) \in S /\ \A y \in S : Max(S) >= y
  BY <1>3, <1>4 DEF Max
<1>6. QED
  BY <1>5

LEMMA MaxOfPart ==
  ASSUME NEW n \in Nat, NEW S \in SUBSET (1 .. n), S # {}
  PROVE  Max(S) \in S
<1>1. S \in SUBSET Nat /\ \A x \in S : x <= n
  OBVIOUS
<1>2. QED
  BY <1>1, MaxOfBounded

Folds(A, base, n, step, g) ==
  /\ g \in [SUBSET (1 .. n) -> A]
  /\ \A S \in SUBSET (1 .. n) :
       g[S] = IF S = {} THEN base ELSE step[<<g[S \ {Max(S)}], Max(S)>>]

StaysIn(A, n, step) == \A a \in A, k \in 1 .. n : step[<<a, k>>] \in A

LEMMA FoldExists ==
  ASSUME NEW A, NEW base \in A, NEW n \in Nat, NEW step,
         StaysIn(A, n, step)
  PROVE  \E g : Folds(A, base, n, step, g)
<1> USE DEF StaysIn
<1> DEFINE Is(k, g) == \A S \in SUBSET (1 .. k) :
                         g[S] = IF S = {} THEN base ELSE step[<<g[S \ {Max(S)}], Max(S)>>]
           Has(k) == \E g \in [SUBSET (1 .. k) -> A] : Is(k, g)
           T == {k \in Nat : k <= n => Has(k)}
<1>1. Has(0)
  <2> DEFINE g == [S \in SUBSET (1 .. 0) |-> base]
  <2>1. \A S \in SUBSET (1 .. 0) : S = {}
    OBVIOUS
  <2>2. g \in [SUBSET (1 .. 0) -> A] /\ Is(0, g)
    BY <2>1
  <2>3. QED
    BY <2>2
<1>2. ASSUME NEW k \in Nat, Has(k), k + 1 <= n PROVE Has(k + 1)
  <2>1. PICK g \in [SUBSET (1 .. k) -> A] : Is(k, g)
    BY <1>2
  <2> DEFINE h == [S \in SUBSET (1 .. k + 1) |->
                     IF k + 1 \in S THEN step[<<g[S \ {k + 1}], k + 1>>] ELSE g[S]]
  <2>2. ASSUME NEW S \in SUBSET (1 .. k + 1)
        PROVE  /\ h[S] \in A
               /\ h[S] = IF S = {} THEN base ELSE step[<<h[S \ {Max(S)}], Max(S)>>]
    <3>1. CASE k + 1 \in S
      <4>1. Max(S) = k + 1
        <5>1. \A x \in S : (\A y \in S : x >= y) <=> x = k + 1
          BY <3>1
        <5>2. QED
          BY <3>1, <5>1 DEF Max
      <4>2. /\ S \ {k + 1} \in SUBSET (1 .. k) /\ S \ {k + 1} \in SUBSET (1 .. k + 1)
            /\ k + 1 \notin S \ {k + 1}
        OBVIOUS
      <4>3. h[S \ {k + 1}] = g[S \ {k + 1}]
        BY <4>2
      <4>4. h[S] = step[<<g[S \ {k + 1}], k + 1>>]
        BY <3>1
      <4>5. g[S \ {k + 1}] \in A /\ k + 1 \in 1 .. n
        BY <1>2, <2>1, <4>2
      <4> HIDE DEF h
      <4>6. QED
        BY <3>1, <4>1, <4>3, <4>4, <4>5
    <3>2. CASE k + 1 \notin S
      <4>1. S \in SUBSET (1 .. k)
        BY <3>2
      <4>2. g[S] \in A /\ g[S] = IF S = {} THEN base ELSE step[<<g[S \ {Max(S)}], Max(S)>>]
        BY <2>1, <4>1
      <4>3. h[S] = g[S]
        BY <3>2
      <4> DEFINE Q == S \ {Max(S)}
      <4>4. Q \in SUBSET (1 .. k + 1) /\ k + 1 \notin Q
        BY <3>2
      <4> HIDE DEF Q
      <4>5. h[Q] = g[Q]
        BY <4>4
      <4> HIDE DEF h
      <4>6. QED
        BY <4>2, <4>3, <4>5 DEF Q
    <3>3. QED
      BY <3>1, <3>2
  <2>3. h \in [SUBSET (1 .. k + 1) -> A]
    <3>1. h = [S \in SUBSET (1 .. k + 1) |-> h[S]]
      OBVIOUS
    <3> HIDE DEF h
    <3>2. QED
      BY <2>2, <3>1
  <2> HIDE DEF h
  <2>4. Is(k + 1, h)
    BY <2>2
  <2>5. QED
    BY <2>3, <2>4
<1> HIDE DEF Has
<1>3. 0 \in T /\ \A k \in Nat : k \in T => k + 1 \in T
  BY <1>1, <1>2
<1> HIDE DEF T
<1>4. Nat \subseteq T
  BY <1>3, Induction
<1>5. Has(n)
  BY <1>4 DEF T
<1>6. QED
  BY <1>5 DEF Has, Folds

-----------------------------------------------------------------------------
(* Sums.                                                                   *)

Total(s) == FoldLeft(LAMBDA a, b : a + b, 0, s)

TotalPrefixes(s, n, f) ==
  /\ f[0] = 0 /\ Total(s) = f[n]
  /\ \A k \in 1 .. n : f[k] = f[k - 1] + s[k]

LEMMA TotalHasPrefixes ==
  ASSUME NEW s \in Seq(Nat), NEW n, n = Len(s)
  PROVE  \E f : TotalPrefixes(s, n, f)
<1> DEFINE Is(g) == g = [S \in SUBSET (1 .. n) |->
                           IF S = {} THEN 0 ELSE g[S \ {Max(S)}] + s[Max(S)]]
           G == CHOOSE g : Is(g)
<1>1. n \in Nat /\ DOMAIN s = 1 .. n /\ \A k \in 1 .. n : s[k] \in Nat
  BY LenProperties, ElementOfSeq
<1>2. \E g : Is(g)
  <2> DEFINE step == [x \in Nat \X (1 .. n) |-> x[1] + s[x[2]]]
  <2>1. \A a \in Nat, k \in 1 .. n : step[<<a, k>>] = a + s[k] /\ a + s[k] \in Nat
    BY <1>1
  <2> HIDE DEF step
  <2>2. PICK g : Folds(Nat, 0, n, step, g)
    <3>1. StaysIn(Nat, n, step) /\ 0 \in Nat
      BY <2>1 DEF StaysIn
    <3>2. QED
      BY <1>1, <3>1, FoldExists
  <2>3. ASSUME NEW S \in SUBSET (1 .. n)
        PROVE  g[S] = IF S = {} THEN 0 ELSE g[S \ {Max(S)}] + s[Max(S)]
    <3>1. CASE S = {}
      BY <2>2, <3>1 DEF Folds
    <3>2. CASE S # {}
      <4>1. g[S \ {Max(S)}] \in Nat /\ Max(S) \in 1 .. n
        BY <1>1, <2>2, <3>2, MaxOfPart DEF Folds
      <4>2. QED
        BY <2>1, <2>2, <3>2, <4>1 DEF Folds
    <3>3. QED
      BY <3>1, <3>2
  <2>4. g = [S \in SUBSET (1 .. n) |-> g[S]]
    BY <2>2 DEF Folds
  <2>5. Is(g)
    BY <2>3, <2>4
  <2>6. QED
    BY <2>5
<1>3. Is(G)
  BY <1>2
<1>4. Total(s) = G[1 .. n]
  BY <1>1 DEF Total, FoldLeft, MapThenFoldSet
<1> HIDE DEF G
<1>5. ASSUME NEW k \in 1 .. n PROVE G[1 .. k] = G[1 .. k - 1] + s[k]
  <2>1. (1 .. k) \in SUBSET (1 .. n) /\ k \in Nat /\ k # 0
    BY <1>1
  <2>2. QED
    BY <1>3, <2>1, Intervals
<1>6. G[1 .. 0] = 0
  BY <1>3, Intervals
<1> DEFINE f == [k \in 0 .. n |-> G[1 .. k]]
<1>7. f[0] = 0 /\ f[n] = G[1 .. n] /\ \A k \in 1 .. n : f[k] = f[k - 1] + s[k]
  BY <1>1, <1>5, <1>6
<1> HIDE DEF f
<1>8. QED
  BY <1>4, <1>7 DEF TotalPrefixes

LEMMA TotalSteps ==
  /\ Total(<<>>) = 0
  /\ \A s \in Seq(Nat) : Total(s) \in Nat
  /\ \A s \in Seq(Nat), x \in Nat : Total(Append(s, x)) = Total(s) + x
<1>1. Total(<<>>) = 0
  <2>1. <<>> \in Seq(Nat) /\ 0 = Len(<<>>)
    OBVIOUS
  <2>2. QED
    BY <2>1, TotalHasPrefixes DEF TotalPrefixes
<1>2. ASSUME NEW s \in Seq(Nat), NEW n, n = Len(s), NEW f, TotalPrefixes(s, n, f),
             NEW k \in 0 .. n
      PROVE  f[k] \in Nat
  <2>1. n \in Nat /\ \A i \in 1 .. n : s[i] \in Nat
    BY <1>2, LenProperties, ElementOfSeq
  <2> DEFINE T == {i \in Nat : i <= n => f[i] \in Nat}
  <2>2. 0 \in T
    BY <1>2 DEF TotalPrefixes
  <2>3. ASSUME NEW i \in Nat, i \in T, i + 1 <= n PROVE f[i + 1] \in Nat
    <3>1. i + 1 \in 1 .. n /\ (i + 1) - 1 = i /\ f[i] \in Nat
      BY <2>1, <2>3
    <3>2. f[i + 1] = f[i] + s[i + 1]
      BY <1>2, <3>1 DEF TotalPrefixes
    <3>3. QED
      BY <2>1, <3>1, <3>2
  <2>4. \A i \in Nat : i \in T => i + 1 \in T
    BY <2>3
  <2> HIDE DEF T
  <2>5. Nat \subseteq T
    BY <2>2, <2>4, Induction
  <2>6. k \in T /\ k <= n
    BY <2>1, <2>5
  <2>7. QED
    BY <2>6 DEF T
<1>3. ASSUME NEW s \in Seq(Nat) PROVE Total(s) \in Nat
  <2>1. PICK f : TotalPrefixes(s, Len(s), f)
    BY TotalHasPrefixes
  <2>2. f[Len(s)] \in Nat
    BY <1>2, <2>1, LenProperties
  <2>3. QED
    BY <2>1, <2>2 DEF TotalPrefixes
<1>4. ASSUME NEW s \in Seq(Nat), NEW x \in Nat PROVE Total(Append(s, x)) = Total(s) + x
  <2> DEFINE n == Len(s)  u == Append(s, x)
  <2>1. /\ n \in Nat /\ u \in Seq(Nat) /\ Len(u) = n + 1 /\ u[n + 1] = x
        /\ \A i \in 1 .. n : u[i] = s[i]
    BY LenProperties, AppendProperties
  <2>2. PICK f : TotalPrefixes(s, n, f)
    BY TotalHasPrefixes
  <2>3. PICK h : TotalPrefixes(u, n + 1, h)
    BY <2>1, TotalHasPrefixes
  <2> HIDE DEF n, u
  <2> DEFINE T == {i \in Nat : i <= n => f[i] = h[i]}
  <2>4. 0 \in T
    BY <2>2, <2>3 DEF TotalPrefixes
  <2>5. ASSUME NEW i \in Nat, i \in T, i + 1 <= n PROVE f[i + 1] = h[i + 1]
    <3>1. /\ i + 1 \in 1 .. n /\ i + 1 \in 1 .. n + 1 /\ (i + 1) - 1 = i
          /\ f[i] = h[i] /\ u[i + 1] = s[i + 1]
      BY <2>1, <2>5
    <3>2. f[i + 1] = f[i] + s[i + 1] /\ h[i + 1] = h[i] + u[i + 1]
      BY <2>2, <2>3, <3>1 DEF TotalPrefixes
    <3>3. QED
      BY <3>1, <3>2
  <2>6. \A i \in Nat : i \in T => i + 1 \in T
    BY <2>5
  <2> HIDE DEF T
  <2>7. n \in T
    BY <2>1, <2>4, <2>6, Induction
  <2>8. f[n] = h[n]
    BY <2>1, <2>7 DEF T
  <2>9. h[n + 1] = h[n] + u[n + 1]
    <3>1. n + 1 \in 1 .. n + 1 /\ (n + 1) - 1 = n
      BY <2>1
    <3>2. QED
      BY <2>3, <3>1 DEF TotalPrefixes
  <2>10. Total(s) = f[n] /\ Total(u) = h[n + 1]
    BY <2>2, <2>3 DEF TotalPrefixes
  <2>11. QED
    BY <2>1, <2>8, <2>9, <2>10 DEF u
<1>5. QED
  BY <1>1, <1>3, <1>4

=============================================================================
