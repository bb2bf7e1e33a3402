------------------------------- MODULE MCClient -------------------------------
(* Small instances of Client: two bridges, and the requests of Tor.         *)
EXTENDS Client

Keys == [a \in Servers |-> IF a = RawServer THEN "ka" ELSE "kb"]

\* With a cert of either bridge; with a wrong one, with none, over each of the methods;
\* to a host name; with no method the client knows.
Certified ==
  {[methods |-> {"userpass", "noauth"}, cert |-> Keys[a], target |-> a] : a \in Servers}
Odd ==
  {[methods |-> {"userpass"}, cert |-> "other", target |-> RawServer],
   [methods |-> {"noauth"}, cert |-> None, target |-> RawServer],
   [methods |-> {"userpass"}, cert |-> "ka", target |-> "host name"],
   [methods |-> {}, cert |-> None, target |-> RawServer]}

\* One connection asks for anything, one for a bridge with its cert, and the others
\* come in raw and single mode only.
Asked ==
  LET anything == CHOOSE c \in Circuits : TRUE
      certified == CHOOSE c \in Circuits \ {anything} : TRUE
  IN  [c \in Circuits |->
         IF c = anything THEN Certified \cup Odd ELSE IF c = certified THEN Certified ELSE {}]
=============================================================================
