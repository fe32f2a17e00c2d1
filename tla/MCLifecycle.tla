---------------------------- MODULE MCLifecycle ----------------------------
(***************************************************************************)
(* Small instances of Lifecycle and Access for TLC.  The two share no      *)
(* variable, so their states are explored side by side and not as a        *)
(* product: Lifecycle moves while Access is in its initial state, Access   *)
(* where Lifecycle has come to its end at once.  Neither state leaves the  *)
(* other specification a step it is bound to take.                         *)
(***************************************************************************)
EXTENDS Lifecycle, Access

MCInit == Init /\ AccessInit

MCNext ==
  \/ AccessInit /\ Next /\ UNCHANGED accessVars
  \/ main = "failed" /\ ~ctx /\ AccessNext /\ UNCHANGED vars

MCSpec == MCInit /\ [][MCNext]_<<vars, accessVars>> /\ Fairness /\ AccessFairness

-----------------------------------------------------------------------------
(* Two users; bob's password is empty, and a file that lists alice's       *)
(* client ID for bob too is not accepted.                                  *)

Letter(x) == <<x>>
Alice == [username |-> "alice", password |-> "pw", clientIDs |-> <<Letter("a")>>,
          publish |-> {<<"x", "/", "#">>}, subscribe |-> {<<"x", "/", "+">>}]
Bob == [username |-> "bob", password |-> "", clientIDs |-> <<Letter("b")>>,
        publish |-> {}, subscribe |-> {}]
Thief == [Bob EXCEPT !.clientIDs = <<Letter("b"), Letter("a")>>]

Secure(users) == [mode |-> "secure", loopback |-> FALSE, tls |-> TRUE,
                  inRange |-> TRUE, users |-> users]
Development == [mode |-> "development", loopback |-> TRUE, tls |-> FALSE,
                inRange |-> TRUE, users |-> NoPolicy]

MCConfigs ==
  {Secure(<<Alice, Bob>>), Secure(<<Alice, Thief>>), Secure(NoPolicy), Development,
   [Development EXCEPT !.loopback = FALSE], [Development EXCEPT !.inRange = FALSE]}

Request(u, p, id, will, clean) ==
  [username |-> u, password |-> p, id |-> Letter(id), will |-> will, clean |-> clean]

\* All return codes, with and without a will, for both kinds of session.
MCRequests ==
  {Request("alice", "pw", "a", <<"x">>, FALSE), Request("alice", "pw", "a", <<"y">>, FALSE),
   Request("bob", "", "a", Missing, FALSE), Request("bob", Missing, "b", Missing, FALSE),
   Request("bob", "", "b", Missing, TRUE), Request("alice", "no", "a", Missing, TRUE)}

MCFilters == {<<"x", "/", "+">>, <<"x", "/", "#">>}
MCNames == {<<"x">>, <<"x", "/", "y">>, <<"x", "/", "y", "/", "z">>}
=============================================================================
