------------------------------ MODULE MCServer ------------------------------
(***************************************************************************)
(* An instance of Server for TLC: the commands its clients send.           *)
(***************************************************************************)
EXTENDS Server

CONSTANT k1

Req(name) == [name |-> name, key |-> k1, db |-> 0, good |-> FALSE, on |-> FALSE]

\* INFO stands for every command that only reads.
AllRequests ==
  {Req(n) : n \in {"AUTH", "READONLY", "SAVE", "INFO", "SET", "FLUSHALL", "PUBLISH"}} \cup
  {[Req("AUTH") EXCEPT !.good = TRUE], [Req("READONLY") EXCEPT !.on = TRUE]} \cup
  {[Req(n) EXCEPT !.db = d] : n \in {"SELECT", "MOVE"}, d \in {1, 2}}

=============================================================================
