------------------------------- MODULE CellPipe -------------------------------
(***************************************************************************)
(* What a shaped flow promises to the two applications at its ends, with   *)
(* cover, clocks, buffers and frames left out: an in-order pipe of real    *)
(* cells.  Cells are numbered as they are offered.                         *)
(*                                                                         *)
(*  - Cells come out in the order they went in, each once, without gaps.   *)
(*  - A pipe that completes has stopped taking cells and delivers all it   *)
(*    took before the receiver sees the end of the stream.                 *)
(*  - A pipe that is cut (wire error, backstop) may end anywhere.          *)
(***************************************************************************)
EXTENDS Integers, Sequences

VARIABLES
  offered,     \* how many cells the source has offered
  delivered,   \* the cells that came out
  state,       \* "open", "complete" or "cut"
  ended        \* the receiver has seen the end of the stream

pipeVars == <<offered, delivered, state, ended>>

Init ==
  /\ offered = 0 /\ delivered = <<>> /\ state = "open" /\ ended = FALSE

Offer ==
  /\ state # "complete"
  /\ offered' \in Nat /\ offered' > offered
  /\ UNCHANGED <<delivered, state, ended>>

Deliver ==
  /\ ~ended /\ Len(delivered) < offered
  /\ delivered' = Append(delivered, Len(delivered) + 1)
  /\ UNCHANGED <<offered, state, ended>>

Close ==
  /\ state = "open"
  /\ state' \in {"complete", "cut"}
  /\ UNCHANGED <<offered, delivered, ended>>

End ==
  /\ ~ended /\ state # "open"
  /\ state = "complete" => Len(delivered) = offered
  /\ ended' = TRUE
  /\ UNCHANGED <<offered, delivered, state>>

Next == Offer \/ Deliver \/ Close \/ End

Spec == Init /\ [][Next]_pipeVars
=============================================================================
