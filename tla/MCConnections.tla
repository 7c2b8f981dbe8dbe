--------------------------- MODULE MCConnections ----------------------------
(***************************************************************************)
(* Instances of Connections for TLC.                                       *)
(***************************************************************************)
EXTENDS Connections, TLC

Symmetry == Permutations(Conn) \cup Permutations(Fd) \cup Permutations(Channel)

=============================================================================
