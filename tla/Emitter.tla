------------------------------- MODULE Emitter --------------------------------
(***************************************************************************)
(* The shared emitter of src/transport.rs (EmitterHandle, run_emitter): one*)
(* thread that admits registered flows and services each of them once per  *)
(* EMIT_TICK, removing finished ones from the vector it is walking over.   *)
(* What a service does to its flow is FlowEmitter; here it only finds the  *)
(* flow finished or not.                                                   *)
(***************************************************************************)
EXTENDS Integers, Sequences, SequencesExt

VARIABLES
  reg,        \* the registration channel
  handle,     \* TRUE: some EmitterHandle exists
  flows,      \* the vector
  over,       \* flows whose next service finds them finished
  at,         \* the index i of the service loop
  loop,       \* "admit", "service" or "stopped"
  calls       \* history: services in this tick of each flow in the vector

emVars == <<reg, handle, flows, over, at, loop, calls>>

EmitterInit ==
  /\ reg = <<>> /\ handle = TRUE /\ flows = <<>> /\ over = {}
  /\ at = 1 /\ loop = "admit" /\ calls = <<>>

\* The flow's slot, and with it the receiving end of its channel, exists.
Slotted(f) == f \in ToSet(reg) \cup ToSet(flows)

\* EmitterHandle::register, as a part of a caller's step: after the emitter has
\* stopped the slot is dropped.
RegisterFlow(f) == reg' = IF loop = "stopped" THEN reg ELSE Append(reg, f)

\* Fault: the emitter looks for an end before it admits.
Admit_StopsFirst ==
  /\ loop = "admit"
  /\ IF ~handle /\ flows = <<>>
     THEN loop' = "stopped" /\ UNCHANGED <<reg, flows, at, calls>>
     ELSE /\ flows' = flows \o reg /\ reg' = <<>>
          /\ at' = 1 /\ loop' = "service"
          /\ calls' = [f \in ToSet(flows') |-> 0]
  /\ UNCHANGED <<handle, over>>

\* The head of run_emitter's loop, up to the end of its sleep: every registered
\* flow is admitted; with no handle and no flow left the emitter stops.
Admit ==
  /\ loop = "admit"
  /\ flows' = flows \o reg /\ reg' = <<>>
  /\ IF ~handle /\ flows' = <<>>
     THEN loop' = "stopped" /\ UNCHANGED <<at, calls>>
     ELSE /\ at' = 1 /\ loop' = "service"
          /\ calls' = [f \in ToSet(flows') |-> 0]
  /\ UNCHANGED <<handle, over>>

\* Vec::swap_remove: the last flow takes the place of the removed one.
SwapRemove(s, i) == Front([s EXCEPT ![i] = Last(s)])

\* Fault: the index moves on although another flow is now at its place.
Service_SkipsMoved ==
  /\ loop = "service" /\ at <= Len(flows)
  /\ calls' = [calls EXCEPT ![flows[at]] = @ + 1]
  /\ at' = at + 1
  /\ flows' = IF flows[at] \in over THEN SwapRemove(flows, at) ELSE flows
  /\ UNCHANGED <<reg, handle, over, loop>>

\* Fault: a finished flow stays.
Service_KeepsFinished ==
  /\ loop = "service" /\ at <= Len(flows)
  /\ calls' = [calls EXCEPT ![flows[at]] = @ + 1]
  /\ at' = at + 1
  /\ UNCHANGED <<reg, handle, flows, over, loop>>

\* One turn of the service loop.
Service ==
  /\ loop = "service" /\ at <= Len(flows)
  /\ calls' = [calls EXCEPT ![flows[at]] = @ + 1]
  /\ IF flows[at] \in over
     THEN flows' = SwapRemove(flows, at) /\ UNCHANGED at
     ELSE at' = at + 1 /\ UNCHANGED flows
  /\ UNCHANGED <<reg, handle, over, loop>>

TickEnds ==
  /\ loop = "service" /\ at > Len(flows)
  /\ loop' = "admit"
  /\ UNCHANGED <<reg, handle, flows, over, at, calls>>

EmitterStep == Admit \/ Service \/ TickEnds

-----------------------------------------------------------------------------
(* Properties.                                                             *)

\* Every flow that was in the vector when a tick began is serviced exactly once in
\* that tick, although flows are removed and moved while the loop walks over them
\* (run_emitter: "Service every flow once"), and the thread does not end while a flow
\* is registered or in the vector.
ServicedOnce ==
  /\ \A f \in DOMAIN calls : calls[f] <= 1
  /\ loop = "admit" => \A f \in DOMAIN calls : calls[f] = 1
  /\ loop = "stopped" => reg = <<>> /\ flows = <<>>
=============================================================================
