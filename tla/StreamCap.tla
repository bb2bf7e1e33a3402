------------------------------- MODULE StreamCap ------------------------------
(***************************************************************************)
(* GLOBAL_BRIDGE_STREAMS of src/transport.rs: the demux loops of all       *)
(* client wires take places for their streams from one atomic counter.     *)
(* A loop takes the place first and looks at the previous value afterwards,*)
(* so that a loop that finds the cap reached has to give its place back,   *)
(* and in between other loops and ending relays work on the counter.       *)
(***************************************************************************)
EXTENDS Integers, FiniteSets

CONSTANTS
  Wires,        \* the demux loops
  MaxGlobal     \* MAX_GLOBAL_BRIDGE_STREAMS

ASSUME CapAssumption == IsFiniteSet(Wires) /\ MaxGlobal \in Nat

VARIABLES
  count,    \* GLOBAL_BRIDGE_STREAMS
  pc,       \* where each demux loop stands
  prev,     \* the value fetch_add returned to it, while it compares
  live      \* BridgeStreamGuards in existence: relays that have not returned

vars == <<count, pc, prev, live>>

\* Demux loops that have taken a place and not yet compared prev with the cap,
\* and those of them that are going to keep it.
Undecided == {w \in Wires : pc[w] = "compare"}
Entitled == {w \in Undecided : prev[w] < MaxGlobal}

Init ==
  /\ count = 0 /\ live = 0
  /\ pc = [w \in Wires |-> "read"]
  /\ prev = [w \in Wires |-> 0]

\* A data cell of a stream that is not in the map: fetch_add.
Take(w) ==
  /\ pc[w] = "read"
  /\ count' = count + 1
  /\ prev' = [prev EXCEPT ![w] = count]
  /\ pc' = [pc EXCEPT ![w] = "compare"]
  /\ UNCHANGED live

\* Fault: the comparison admits one stream too many.
Admit_OffByOne(w) ==
  /\ pc[w] = "compare" /\ prev[w] <= MaxGlobal
  /\ live' = live + 1
  /\ pc' = [pc EXCEPT ![w] = "read"] /\ prev' = [prev EXCEPT ![w] = 0]
  /\ UNCHANGED count

\* The previous value was below the cap: the relay is spawned with its guard.
Admit(w) ==
  /\ pc[w] = "compare" /\ prev[w] < MaxGlobal
  /\ live' = live + 1
  /\ pc' = [pc EXCEPT ![w] = "read"] /\ prev' = [prev EXCEPT ![w] = 0]
  /\ UNCHANGED count

\* Fault: a refused stream keeps its place.
Refuse_KeepsPlace(w) ==
  /\ pc[w] = "compare" /\ prev[w] >= MaxGlobal
  /\ pc' = [pc EXCEPT ![w] = "read"] /\ prev' = [prev EXCEPT ![w] = 0]
  /\ UNCHANGED <<count, live>>

\* The cap was reached: fetch_sub, and the stream is refused.
Refuse(w) ==
  /\ pc[w] = "compare" /\ prev[w] >= MaxGlobal
  /\ count' = count - 1
  /\ pc' = [pc EXCEPT ![w] = "read"] /\ prev' = [prev EXCEPT ![w] = 0]
  /\ UNCHANGED live

\* A relay returns: its guard is dropped (BridgeStreamGuard::drop).
GuardDrops ==
  /\ live > 0
  /\ live' = live - 1
  /\ count' = count - 1
  /\ UNCHANGED <<pc, prev>>

Next ==
  \/ \E w \in Wires : Take(w) \/ Admit(w) \/ Refuse(w)
  \/ GuardDrops

Spec == Init /\ [][Next]_vars

-----------------------------------------------------------------------------
(* Properties.                                                             *)

\* The types; count \in Nat says that the AtomicUsize never wraps below zero.
TypeOK ==
  /\ count \in Nat /\ live \in Nat
  /\ pc \in [Wires -> {"read", "compare"}]
  /\ prev \in [Wires -> Nat]

\* No interleaving of the two steps of the demux loops with the guards' drops
\* admits more streams than the cap, although the check (fetch_add, then the
\* comparison in mux_demux_to_bridges) is not one atomic step.
CapHolds == live <= MaxGlobal

\* No place is lost or given back twice: the counter is the relays that have
\* not returned and the loops that are about to decide.  Hence it never wraps
\* below zero, and it exceeds the cap by at most one per wire.
CountExact == count = live + Cardinality(Undecided)

\* What the next comparisons admit still fits under the cap.
EntitledFit == live + Cardinality(Entitled) <= MaxGlobal

IInv == TypeOK /\ CountExact /\ EntitledFit
=============================================================================
