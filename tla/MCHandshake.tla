----------------------------- MODULE MCHandshake ------------------------------
(* Small instances of Handshake: clients and strangers, with the clocks of the  *)
(* two sides apart by more or by less than an hour.                             *)
EXTENDS Handshake

\* Clients with the right key or another, with an ephemeral key of small order or
\* not, that reach the server or an impostor.
Clients ==
  [configured : {"B", "C"}, weak : BOOLEAN, genuine : BOOLEAN,
   start : {6, 7, 8}, skew : {-5, -2, -1, 0, 1, 2, 5}]

\* A stranger whose recorded request is an hour old, and two when the hour turns.
Strangers ==
  [configured : {None}, weak : {FALSE}, genuine : {TRUE}, start : {7}, skew : {4}]

All == Clients \cup Strangers

Honest == [configured : {"B"}, weak : {FALSE}, genuine : {TRUE}, start : {4}, skew : {0}]
=============================================================================
