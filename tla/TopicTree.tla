----------------------------- MODULE TopicTree -----------------------------
(***************************************************************************)
(* The subscription tree (internal/topic/tree.go) driven by arbitrary      *)
(* sequences of Subscribe, Unsubscribe and UnsubscribeAll, beside the flat *)
(* table of subscriptions it stands for.                                   *)
(***************************************************************************)
EXTENDS Topic, Functions

CONSTANTS
  ID,        \* client identifiers
  QoSLevel,  \* granted QoS values
  Filter,    \* filters clients subscribe to
  Name       \* topic names published to

ASSUME TopicAssumption ==
  /\ \A f \in Filter : ValidFilter(f)
  /\ \A t \in Name : ValidTopic(t)

-----------------------------------------------------------------------------
(* The tree: a node has a function from levels to nodes and one from       *)
(* client identifiers to the granted QoS.  An update builds a new tree and *)
(* leaves the old one as it was, which is what Clone is for in the code.   *)

Root == [children |-> <<>>, subs |-> <<>>]

Put(f, k, v) == [x \in DOMAIN f \cup {k} |-> IF x = k THEN v ELSE f[x]]
Without(f, k) == Restrict(f, DOMAIN f \ {k})
Child(n, level) == IF level \in DOMAIN n.children THEN n.children[level] ELSE Root
Empty(n) == n.children = <<>> /\ n.subs = <<>>

RECURSIVE SubscribeAt(_, _, _, _)
SubscribeAt(n, levels, id, qos) ==
  IF levels = <<>>
  THEN [n EXCEPT !.subs = Put(n.subs, id, qos)]
  ELSE [n EXCEPT !.children =
          Put(n.children, Head(levels),
              SubscribeAt(Child(n, Head(levels)), Tail(levels), id, qos))]

\* node.unsubscribe: a child left empty is removed.
RECURSIVE unsubscribe(_, _, _)
unsubscribe(n, levels, id) ==
  IF levels = <<>> THEN [n EXCEPT !.subs = Without(n.subs, id)]
  ELSE IF Head(levels) \notin DOMAIN n.children THEN n
  ELSE LET child == unsubscribe(n.children[Head(levels)], Tail(levels), id) IN
       [n EXCEPT !.children = IF Empty(child)
                              THEN Without(n.children, Head(levels))
                              ELSE Put(n.children, Head(levels), child)]

\* Tree.unsubscribeAll, the same for every child.
RECURSIVE unsubscribeAll(_, _)
unsubscribeAll(n, id) ==
  LET child == [l \in DOMAIN n.children |-> unsubscribeAll(n.children[l], id)] IN
  [children |-> Restrict(child, {l \in DOMAIN child : ~Empty(child[l])}),
   subs     |-> Without(n.subs, id)]

SubsOf(n) == {<<id, n.subs[id]>> : id \in DOMAIN n.subs}

\* Mutant: the end of the topic is taken for the end of its levels.
RECURSIVE matchShort(_, _, _)
matchShort(n, topic, idx) ==
  IF idx > Len(topic)
  THEN SubsOf(n) \cup SubsOf(Child(n, Hash))
  ELSE LET next == Separator(topic, idx)
           level == SubSeq(topic, idx, next - 1)
       IN  matchShort(Child(n, level), topic, next + 1)
             \cup (IF idx = 1 /\ topic[1] = "$" THEN {}
                   ELSE matchShort(Child(n, Plus), topic, next + 1)
                          \cup SubsOf(Child(n, Hash)))

\* Tree.match: the subscriptions it hands to addMatch.  An index past the end
\* of the topic marks exhaustion, an index at the end is an empty level.
RECURSIVE match(_, _, _)
match(n, topic, idx) ==
  IF idx > Len(topic) + 1
  THEN SubsOf(n) \cup SubsOf(Child(n, Hash))
  ELSE LET next == Separator(topic, idx)
           level == SubSeq(topic, idx, next - 1)
       IN  match(Child(n, level), topic, next + 1)
             \cup (IF idx = 1 /\ topic[1] = "$" THEN {}
                   ELSE match(Child(n, Plus), topic, next + 1)
                          \cup SubsOf(Child(n, Hash)))

\* addMatch: per client the highest QoS wins.
addMatch(found) ==
  [id \in {p[1] : p \in found} |->
     CHOOSE q \in {p[2] : p \in {r \in found : r[1] = id}} :
       \A p \in found : p[1] = id => q >= p[2]]

Match(tree, topic) == addMatch(match(tree, topic, 1))

-----------------------------------------------------------------------------
VARIABLES
  tree,   \* the root node
  table   \* reference: the QoS granted to <<id, filter>>

vars == <<tree, table>>

Init == tree = Root /\ table = <<>>

Subscribe(filter, id, qos) ==
  /\ tree' = SubscribeAt(tree, Split(filter), id, qos)
  /\ table' = Put(table, <<id, filter>>, qos)

Unsubscribe(filter, id) ==
  /\ tree' = unsubscribe(tree, Split(filter), id)
  /\ table' = Without(table, <<id, filter>>)

UnsubscribeAll(id) ==
  /\ tree' = unsubscribeAll(tree, id)
  /\ table' = Restrict(table, {k \in DOMAIN table : k[1] # id})

Next ==
  \E id \in ID :
    \/ \E filter \in Filter :
         \/ \E qos \in QoSLevel : Subscribe(filter, id, qos)
         \/ Unsubscribe(filter, id)
    \/ UnsubscribeAll(id)

Spec == Init /\ [][Next]_vars

-----------------------------------------------------------------------------
RECURSIVE Nodes(_, _)
Nodes(n, path) ==
  {<<path, n>>} \cup UNION {Nodes(n.children[l], Append(path, l)) : l \in DOMAIN n.children}

\* After any sequence of calls the tree is what the subscriptions in force make
\* it.  Publishing through the tree and matching one filter at a time agree:
\* for every topic, Match returns each client that holds some filter
\* MatchFilter accepts, with the highest QoS granted to such a filter (live
\* fan-out uses the first, retained messages the second).  Each subscription
\* is at the node its filter names, and no node is left that leads to none:
\* the tree does not grow with the filters ever used.
Exact ==
  LET nodes == Nodes(tree, <<>>) IN
  /\ \A t \in Name :
       LET held == {k \in DOMAIN table : MatchFilter(k[2], t)}
           found == Match(tree, t)
       IN  /\ DOMAIN found = {k[1] : k \in held}
           /\ \A k \in held : found[k[1]] >= table[k]
           /\ \A id \in DOMAIN found :
                \E k \in held : k[1] = id /\ table[k] = found[id]
  /\ {<<id, p[1], p[2].subs[id]>> : <<id, p>> \in
        {x \in ID \X nodes : x[1] \in DOMAIN x[2][2].subs}}
       = {<<k[1], Split(k[2]), table[k]>> : k \in DOMAIN table}
  /\ \A p \in nodes : p[1] # <<>> => ~Empty(p[2])
=============================================================================
