-------------------------------- MODULE MCMux ---------------------------------
(* Small instances of Mux: the data cells of each circuit.                  *)
EXTENDS Mux

OneEach    == [c \in Circuits |-> 1]
TwoThenOne == [c \in Circuits |-> IF c = 1 THEN 2 ELSE 1]
ThreeEach  == [c \in Circuits |-> 3]
=============================================================================
