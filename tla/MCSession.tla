------------------------------ MODULE MCSession -------------------------------
(* Small instances of Session.                                              *)
EXTENDS Session

\* dummy_count_range, scaled down; MaxDummy cuts the last.  HeavyCover is a range like
\* Balanced's.
Ranges == [Sparse |-> <<0, 1>>, Balanced |-> <<1, 1>>, Spiky |-> <<2, 3>>]

\* Cells, with the DP shaper and reserved slots; packets as they are.
Setups ==
  {[cell |-> 2, dp |-> TRUE, bounded |-> FALSE, reserve |-> TRUE],
   [cell |-> 0, dp |-> FALSE, bounded |-> TRUE, reserve |-> FALSE]}
=============================================================================
