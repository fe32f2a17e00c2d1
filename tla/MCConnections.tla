--------------------------- MODULE MCConnections ----------------------------
(* A few handlers that compete for a few client IDs.                       *)
EXTENDS Connections, TLC

Symmetry == Permutations(Handler) \cup Permutations(Handle)
=============================================================================
