------------------------------ MODULE Filters ------------------------------
(***************************************************************************)
(* The two pure decisions on filters (internal/topic/parse.go) against     *)
(* their definitions: which topics a filter matches, and whether one       *)
(* filter covers another.  The machine walks over all pairs of an allowed  *)
(* filter (an access rule) and a requested one (a SUBSCRIBE).              *)
(***************************************************************************)
EXTENDS Topic

CONSTANTS
  AllFilters,  \* valid topic filters
  AllNames     \* valid topic names

VARIABLES allowed, requested

vars == <<allowed, requested>>

Init == allowed = Hash /\ requested = Hash

Allow(f) == allowed' = f /\ UNCHANGED requested
Request(f) == requested' = f /\ UNCHANGED allowed

Next == \E f \in AllFilters : Allow(f) \/ Request(f)

Spec == Init /\ [][Next]_vars

-----------------------------------------------------------------------------
\* MatchFilter decides the MQTT rule (Matches), for every filter (looked at once, in
\* the state where both are that filter) and every topic name in range; and
\* CoversFilter holds exactly when every valid topic the requested filter
\* matches is matched by the allowed one: an access rule neither lets a wider
\* subscription through nor refuses one it contains.
FiltersCorrect ==
  /\ allowed = requested =>
       \A t \in AllNames : MatchFilter(requested, t) <=> Matches(requested, t)
  /\ CoversFilter(allowed, requested)
       <=> \A t \in AllNames : Matches(requested, t) => Matches(allowed, t)
=============================================================================
