------------------------------- MODULE Topic -------------------------------
(***************************************************************************)
(* Topic names and filters (internal/topic, and the validity rules of      *)
(* internal/protocol/wire.go).                                             *)
(*                                                                         *)
(* A string is a sequence of one-character strings.  The characters are    *)
(* kept because what can go wrong lies at the separators: an empty level,  *)
(* a leading or trailing "/", an index one past the end.  A byte that is   *)
(* not one of "/", "+", "#", "$" has no role in the code, so a few letters *)
(* stand for all of them; UTF-8 validity and the 65535-byte limit are left *)
(* out.  Strings are indexed from 1 here and from 0 in the code.           *)
(***************************************************************************)
EXTENDS Integers, Sequences, FiniteSets

\* validateTopicName.
ValidTopic(s) == s # <<>> /\ \A i \in DOMAIN s : s[i] \notin {"+", "#"}

\* ValidateTopicFilter.
ValidFilter(s) ==
  /\ s # <<>>
  /\ \A i \in DOMAIN s :
       /\ s[i] \in {"+", "#"} /\ i > 1 => s[i - 1] = "/"
       /\ s[i] = "+" /\ i < Len(s) => s[i + 1] = "/"
       /\ s[i] = "#" => i = Len(s)

StartsWith(s, chars) == s # <<>> /\ s[1] \in chars

\* The index of the first "/" of s at or after idx; Len(s) + 1 if there is none.
Separator(s, idx) ==
  CHOOSE n \in idx..(Len(s) + 1) :
    /\ n = Len(s) + 1 \/ s[n] = "/"
    /\ \A k \in idx..(n - 1) : s[k] # "/"

\* Where the levels of s begin, and the level that begins at idx.
Starts(s) == {i \in 1..(Len(s) + 1) : i = 1 \/ s[i - 1] = "/"}
Level(s, idx) == SubSeq(s, idx, Separator(s, idx) - 1)

\* splitFilter and splitTopic: the levels, in the order in which they begin.
Split(s) ==
  LET Start(k) == CHOOSE i \in Starts(s) : Cardinality({j \in Starts(s) : j < i}) = k - 1
  IN  [k \in 1..Cardinality(Starts(s)) |-> Level(s, Start(k))]

Plus == <<"+">>
Hash == <<"#">>

\* MatchFilter: the first "#" the loop reaches ends it with TRUE, the first
\* level that does not fit ends it with FALSE.
MatchFilter(filter, topic) ==
  LET f == Split(filter)
      t == Split(topic)
      Fits(i) == i <= Len(t) /\ f[i] \in {Plus, t[i]}
  IN  /\ ~(StartsWith(topic, {"$"}) /\ StartsWith(filter, {"+", "#"}))
      /\ \/ \E h \in DOMAIN f : f[h] = Hash /\ \A i \in 1..(h - 1) : Fits(i)
         \/ Len(f) = Len(t) /\ \A i \in DOMAIN f : Fits(i)

\* CoversFilter: what "#" and "/#" are read as,
Expanded(requested) ==
  CASE requested = <<"#">>      -> <<"+", "/", "#">>
    [] requested = <<"/", "#">> -> <<"/", "+", "/", "#">>
    [] OTHER                    -> requested

\* Mutant: "#" is compared with the allowed filter as it is.
CoversFilterUnexpanded(allowed, requested) ==
  LET a == Split(allowed)
      r == Split(requested)
      Fits(i) == i <= Len(r) /\ r[i] # Hash /\ a[i] \in {Plus, r[i]}
  IN  /\ ~(StartsWith(requested, {"$"}) /\ StartsWith(allowed, {"+", "#"}))
      /\ \/ \E h \in DOMAIN a : a[h] = Hash /\ \A i \in 1..(h - 1) : Fits(i)
         \/ Len(a) = Len(r) /\ \A i \in DOMAIN a : Fits(i)

\* and the loop over the levels of allowed.
CoversFilter(allowed, requested) ==
  LET a == Split(allowed)
      r == Split(Expanded(requested))
      Fits(i) == i <= Len(r) /\ r[i] # Hash /\ a[i] \in {Plus, r[i]}
  IN  /\ ~(StartsWith(requested, {"$"}) /\ StartsWith(allowed, {"+", "#"}))
      /\ \/ \E h \in DOMAIN a : a[h] = Hash /\ \A i \in 1..(h - 1) : Fits(i)
         \/ Len(a) = Len(r) /\ \A i \in DOMAIN a : Fits(i)

-----------------------------------------------------------------------------
\* The MQTT rule on levels: "+" stands for one level, a final "#" for any
\* number of levels, none included, and a wildcard in the first level does
\* not stand for a level that starts with "$".
Matches(filter, topic) ==
  LET f == Split(filter)
      t == Split(topic)
      n == IF f[Len(f)] = Hash THEN Len(f) - 1 ELSE Len(f)
      Stands(p, l) == p = l \/ p = Plus
  IN  /\ IF f[Len(f)] = Hash THEN Len(t) >= n ELSE Len(t) = n
      /\ \A i \in 1..n : Stands(f[i], t[i])
      /\ f[1] \in {Plus, Hash} => ~StartsWith(t[1], {"$"})
=============================================================================
