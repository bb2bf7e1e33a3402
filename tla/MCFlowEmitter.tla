----------------------------- MODULE MCFlowEmitter ----------------------------
(* Small instances of FlowEmitter.                                           *)
EXTENDS FlowEmitter

\* Class boundaries, floors and volumes scaled to a handful of bytes; the two
\* draws differ in the class of a session of two bytes.
MCThresholds == {[short_max |-> 1, medium_max |-> 2, long_max |-> 3]}
MCFuzz       == MCThresholds \cup {[short_max |-> 2, medium_max |-> 3, long_max |-> 4]}
MCDuration   == [Short |-> 1, Medium |-> 2, Long |-> 4, VeryLong |-> 6]
MCCells      == [Short |-> 1, Medium |-> 2, Long |-> 3, VeryLong |-> 8]

\* A full chunk followed by a short one, or a single chunk.
MCReads == {<<1>>, <<2, 1>>}

=============================================================================
