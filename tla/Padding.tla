------------------------------- MODULE Padding --------------------------------
(***************************************************************************)
(* Bucket padding (src/optimal_padding.rs): observed lengths are divided   *)
(* into buckets of equal counts, and a length is padded to the largest     *)
(* length of its bucket.                                                   *)
(***************************************************************************)
EXTENDS Integers, Sequences, SequencesExt

CONSTANTS
  Buckets,        \* padding_buckets
  RebuildEvery,   \* rebuild_interval
  Jumbo           \* the target of the first table, 65535

ASSUME PaddingAssumption == Buckets \in Nat \ {0} /\ RebuildEvery \in Nat \ {0} /\ Jumbo \in Nat

NewPadder == [seen |-> <<>>, built |-> 0, table |-> <<[hi |-> Jumbo, target |-> Jumbo]>>]

\* The lengths in order, from the smallest.
Sorted(lengths) ==
  LET I == DOMAIN lengths
      p == CHOOSE p \in Bijection(I, I) : \A i, j \in I : i < j => lengths[p[i]] <= lengths[p[j]]
  IN [i \in I |-> lengths[p[i]]]

\* Fault: the last bucket ends with its chunk.
BuildBuckets_DropsRest(lengths, k) ==
  LET sorted == Sorted(lengths)
      n == Len(sorted)
      kActual == Min({k, n})
      chunk == n \div kActual
  IN [i \in 1 .. kActual |-> [hi |-> sorted[i * chunk], target |-> sorted[i * chunk]]]

\* build_buckets for lengths that are not empty (before that the first table is
\* used); the last bucket takes what is left over.
BuildBuckets(lengths, k) ==
  LET sorted == Sorted(lengths)
      n == Len(sorted)
      kActual == Min({k, n})
      chunk == n \div kActual
      End(i) == IF i = kActual THEN n ELSE i * chunk
  IN [i \in 1 .. kActual |-> [hi |-> sorted[End(i)], target |-> sorted[End(i)]]]

\* optimal_pad_length: the first bucket that reaches up to len, or the last one.
OptimalPadLength(len, table) ==
  LET i == SelectInSeq(table, LAMBDA b : b.hi >= len) IN
  IF i = 0 THEN Last(table).target ELSE table[i].target

\* OptimalPadder::observe_length.
ObserveLengths(p, lengths) == [p EXCEPT !.seen = @ \o lengths]

\* OptimalPadder::pad_length rebuilds the table first, when it is old enough.
Rebuilt(p) ==
  IF Len(p.seen) - p.built >= RebuildEvery
  THEN [p EXCEPT !.built = Len(p.seen), !.table = BuildBuckets(p.seen, Buckets)]
  ELSE p

-----------------------------------------------------------------------------
\* What the table is for, said without the algorithm: every length observed before
\* the last rebuild is padded to an observed length that is no smaller, and two
\* lengths are never padded to sizes in the opposite order.
Covers(p) ==
  LET old == ToSet(SubSeq(p.seen, 1, p.built)) IN
  p.built > 0 =>
    \A l \in old :
      /\ OptimalPadLength(l, p.table) \in {m \in old : m >= l}
      /\ \A m \in old : l <= m => OptimalPadLength(l, p.table) <= OptimalPadLength(m, p.table)
=============================================================================
