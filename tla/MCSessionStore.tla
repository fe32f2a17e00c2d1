--------------------------- MODULE MCSessionStore ---------------------------
(***************************************************************************)
(* Small instances of SessionStore for TLC.                                *)
(***************************************************************************)
EXTENDS SessionStore, TLC

\* Pointers and filters are interchangeable.
Symmetry == Permutations(Handle) \cup Permutations(ClientID)
              \cup Permutations(Filter \ OversizedFilter)
=============================================================================
