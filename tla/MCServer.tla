------------------------------- MODULE MCServer -------------------------------
(* Small instances of Server: processes that share their files.             *)
EXTENDS Server

\* Two servers over one state directory; a server with the key file that another
\* process generates; one with a key on its command line and one without any.
Sharing == {[i \in Instances |-> IF i = Self THEN pair[1] ELSE pair[2]] :
  pair \in {<<"state-dir", "state-dir">>, <<"key-file", "keygen-file">>, <<"key-flag", "none">>}}

\* The server is restarted once.
Restarted == [i \in Instances |-> IF i = Self THEN 2 ELSE 1]
=============================================================================
