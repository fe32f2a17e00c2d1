---------------------------- MODULE BrokerProofs ----------------------------
(***************************************************************************)
(* What the broker promises to its subscribers, proved for any number of   *)
(* clients, messages, topics, filters and requests; and that the bytes it  *)
(* sends them are right, for every message that fits in a packet.          *)
(***************************************************************************)
EXTENDS Broker, Framing, FiniteSetTheorems, SequenceTheorems, TLAPS

\* First-order reasoning: Zenon, but for the leaves that cite SMT.
USE Zenon

(***************************************************************************)
(* The inductive invariant.                                                *)
(***************************************************************************)

Pairs == Client \X Filter
Held(c) == {f \in Filter : <<c, f>> \in tree}
Tried(c, m) == <<c, m>> \in offered \cup failed

BrokerType ==
  /\ tree \subseteq Pairs /\ newTree \in [Client -> SUBSET Pairs]
  /\ topicsMu \in Client \cup {None}
  /\ retained \in [Topic -> Message \cup {None}]
  /\ at \in [Client -> {"idle", "topics", "store", "retained", "closed"}]
  /\ \A c \in Client :
       at[c] \in {"topics", "store", "retained"} => request[c].filters \subseteq Filter
  /\ want \in [Client -> SUBSET Filter]
  /\ pc \in [Message -> {"new", "load", "deliver", "done"}]
  /\ \A m \in Message : pc[m] # "new" => msg[m].topic \in Topic /\ msg[m].size \in Nat
  /\ todo \in [Message -> SUBSET Client]
  /\ err \in [Message -> {None, "limit", "failed"}]
  /\ audience \in [Message -> SUBSET Client]
  /\ DOMAIN request = Client /\ DOMAIN msg = Message

\* Only the holder of the mutex has a clone, and it is one of the stored tree.
CloneCurrent ==
  \A c \in Client :
    /\ at[c] = "store" <=> topicsMu = c
    /\ at[c] = "store" => newTree[c] = Changed(c)

\* The tree holds what a client was answered, and what it is about to drop.
TreeWanted ==
  \A c \in Client :
    want[c] = IF at[c] \in {"topics", "store"} /\ request[c].op # "subscribe"
              THEN Held(c) \ request[c].filters ELSE Held(c)

\* A message of the retained map was published under the topic it is held for.
RetainedPublished ==
  \A t \in Topic :
    retained[t] # None =>
      pc[retained[t]] # "new" /\ msg[retained[t]].topic = t /\ err[retained[t]] # "limit"

\* A client that is about to read the retained messages of topic t.
WillRead(c, t) == at[c] = "retained" /\ \E f \in request[c].filters : t \in Accepts[f]

\* Once its tree is loaded, a retained message has been tried on every client
\* that wants it, is still to be, or will be found by the client.
RetainedOwed ==
  \A t \in Topic, c \in Client :
    /\ retained[t] # None /\ pc[retained[t]] \in {"deliver", "done"}
    /\ at[c] # "closed" /\ ~WillRead(c, t)
    /\ \E f \in want[c] : t \in Accepts[f]
    => Tried(c, retained[t]) \/ c \in todo[retained[t]]

\* The audience of a message still wants it when the tree is loaded, and is
\* tried or still to be afterwards.
AudienceOwed ==
  \A m \in Message : \A c \in audience[m] :
    /\ pc[m] = "load" => \E f \in want[c] : msg[m].topic \in Accepts[f]
    /\ pc[m] \in {"deliver", "done"} => Tried(c, m) \/ c \in todo[m]

\* What the progress of a message says about it.
ProgressedOne(m) ==
  /\ pc[m] = "new" => /\ audience[m] = {} /\ err[m] = None
                      /\ \A c \in Client : ~Tried(c, m)
  /\ pc[m] \in {"new", "load", "done"} => todo[m] = {}
  /\ err[m] = None => \A c \in Client : <<c, m>> \notin failed
  /\ err[m] = "limit" => pc[m] = "done" /\ \A c \in Client : ~Tried(c, m)

Progressed == \A m \in Message : ProgressedOne(m)

\* The retained budgets, and the rejections counted one by one.
Budgets ==
  /\ bytes \in Int /\ bytes <= MaxBytes
  /\ IsFiniteSet({t \in Topic : retained[t] # None})
  /\ Cardinality({t \in Topic : retained[t] # None}) <= MaxMessages
  /\ IsFiniteSet({m \in Message : err[m] = "limit"})
  /\ rejected = Cardinality({m \in Message : err[m] = "limit"})

BrokerInv ==
  /\ BrokerType /\ CloneCurrent /\ TreeWanted /\ RetainedPublished
  /\ RetainedOwed /\ AudienceOwed /\ Progressed /\ Budgets

-----------------------------------------------------------------------------
\* NewWithLimits: nothing is subscribed, published or retained.
LEMMA InitInv == Init => BrokerInv
<1> SUFFICES ASSUME Init PROVE BrokerInv OBVIOUS
<1> USE BrokerAssumption DEF Init
<1>1. BrokerType BY DEF BrokerType, Pairs, NoRequest
<1>2. CloneCurrent /\ TreeWanted BY DEF CloneCurrent, TreeWanted, Held
<1>3. RetainedPublished /\ RetainedOwed BY DEF RetainedPublished, RetainedOwed
<1>4. AudienceOwed /\ Progressed
  BY DEF AudienceOwed, Progressed, ProgressedOne, Tried
<1>5. {t \in Topic : retained[t] # None} = {} /\ {m \in Message : err[m] = "limit"} = {}
  OBVIOUS
<1>6. IsFiniteSet({}) /\ Cardinality({}) = 0 BY FS_EmptySet
<1>7. Budgets
  <2>1. bytes \in Int /\ bytes <= MaxBytes /\ rejected = 0 /\ 0 <= MaxMessages BY SMT
  <2> QED BY <1>5, <1>6, <2>1 DEF Budgets
<1> QED BY <1>1, <1>2, <1>3, <1>4, <1>7 DEF BrokerInv

\* A step of a client leaves what publishing writes alone.
LEMMA BudgetsKept ==
  ASSUME Budgets, UNCHANGED <<retained, bytes, rejected, err>>
  PROVE  Budgets'
BY DEF Budgets

\* handleSubscribe, handleUnsubscribe: a request begins.
LEMMA RequestInv ==
  ASSUME BrokerInv, NEW c \in Client,
         \/ \E f \in Filter : HandleSubscribe(c, f)
         \/ \E filters \in SUBSET Filter : HandleUnsubscribe(c, filters)
  PROVE  BrokerInv'
<1> USE BrokerAssumption DEF BrokerInv, messageVars
<1>0. PICK filters \in SUBSET Filter, op \in {"subscribe", "unsubscribe"} :
        /\ at[c] = "idle" /\ at' = [at EXCEPT ![c] = "topics"]
        /\ request' = [request EXCEPT ![c] = [op |-> op, filters |-> filters]]
        /\ UNCHANGED <<tree, topicsMu, newTree, retained, bytes, rejected,
                       messageVars, offered, failed>>
        /\ \/ op = "subscribe" /\ UNCHANGED <<want, audience>>
           \/ /\ op = "unsubscribe"
              /\ want' = [want EXCEPT ![c] = @ \ filters]
              /\ audience' = [m \in Message |-> audience[m] \ {c}]
  <2>1. ASSUME NEW f \in Filter, HandleSubscribe(c, f) PROVE {f} \in SUBSET Filter OBVIOUS
  <2> QED BY <2>1 DEF Request, HandleSubscribe, HandleUnsubscribe, NextCall
<1>1. BrokerType' BY <1>0, SMT DEF BrokerType
<1>2. \A d \in Client : d # c => /\ at'[d] = at[d] /\ request'[d] = request[d]
                                 /\ want'[d] = want[d] /\ Held(d)' = Held(d)
  BY <1>0 DEF BrokerType, Held
<1>3. /\ at'[c] = "topics" /\ request'[c] = [op |-> op, filters |-> filters]
      /\ Held(c)' = Held(c) /\ newTree' = newTree /\ topicsMu' = topicsMu /\ tree' = tree
  BY <1>0 DEF BrokerType, Held
<1>4. CloneCurrent'
  <2> SUFFICES ASSUME NEW d \in Client
               PROVE  /\ at'[d] = "store" <=> topicsMu = d
                      /\ at'[d] = "store" => newTree[d] = Changed(d)'
    BY <1>3 DEF CloneCurrent
  <2>1. CASE d = c BY <1>0, <1>3, <2>1 DEF CloneCurrent
  <2>2. CASE d # c BY <1>2, <1>3, <2>2, SMT DEF CloneCurrent, Changed
  <2> QED BY <2>1, <2>2
<1>5. TreeWanted'
  <2>1. want[c] = Held(c) BY <1>0 DEF TreeWanted
  <2>2. want'[c] = IF op # "subscribe" THEN Held(c) \ filters ELSE Held(c)
    BY <1>0, <2>1 DEF BrokerType
  <2> SUFFICES ASSUME NEW d \in Client
               PROVE  want'[d] = IF at'[d] \in {"topics", "store"} /\ request'[d].op # "subscribe"
                                 THEN Held(d)' \ request'[d].filters ELSE Held(d)'
    BY DEF TreeWanted
  <2>3. CASE d = c
    <3>1. request'[c].op = op /\ request'[c].filters = filters BY <1>3, SMT
    <3>2. Held(d)' = Held(c) BY <1>3, <2>3 DEF Held
    <3> QED BY <1>3, <2>2, <2>3, <3>1, <3>2
  <2>4. CASE d # c BY <1>2, <2>4 DEF TreeWanted
  <2> QED BY <2>3, <2>4
<1>6. RetainedPublished' BY <1>0 DEF RetainedPublished
<1>7. RetainedOwed' BY <1>0, SMT DEF BrokerType, RetainedOwed, WillRead, Tried
<1>8. AudienceOwed'
  <2>1. ASSUME NEW m \in Message, NEW d \in audience'[m]
        PROVE  d \in audience[m] /\ want'[d] = want[d]
    BY <1>0, <2>1, SMT DEF BrokerType
  <2>2. \A m, d : Tried(d, m)' <=> Tried(d, m) BY <1>0 DEF Tried
  <2>3. pc' = pc /\ msg' = msg /\ todo' = todo BY <1>0
  <2> QED BY <2>1, <2>2, <2>3, SMT DEF AudienceOwed
<1>9. Progressed' BY <1>0, SMT DEF BrokerType, Progressed, ProgressedOne, Tried
<1> QED BY <1>0, <1>1, <1>4, <1>5, <1>6, <1>7, <1>8, <1>9, BudgetsKept

\* Subscribe, Unsubscribe, UnsubscribeAll: lock, clone and change.
LEMMA LoadInv ==
  ASSUME BrokerInv, NEW c \in Client, LoadTopics(c)
  PROVE  BrokerInv'
<1> USE BrokerAssumption DEF BrokerInv, LoadTopics, messageVars
<1>1. BrokerType' BY SMT DEF BrokerType, Changed, Pairs
<1>2. CloneCurrent' BY DEF BrokerType, CloneCurrent, Changed
<1>3. TreeWanted' BY DEF BrokerType, TreeWanted, Held
<1>4. RetainedPublished' BY DEF RetainedPublished
<1>5. RetainedOwed' BY DEF BrokerType, RetainedOwed, WillRead, Tried
<1>6. AudienceOwed' BY DEF BrokerType, AudienceOwed, Tried
<1>7. Progressed' BY DEF BrokerType, Progressed, ProgressedOne, Tried
<1> QED BY <1>1, <1>2, <1>3, <1>4, <1>5, <1>6, <1>7, BudgetsKept

\* The store: the clone is one of the tree it replaces, so only the filters
\* of this client change.
LEMMA StoreInv ==
  ASSUME BrokerInv, NEW c \in Client, StoreTopics(c)
  PROVE  BrokerInv'
<1> USE BrokerAssumption DEF BrokerInv, StoreTopics, messageVars, NextCall
<1>1. tree' = Changed(c) BY DEF CloneCurrent
<1>2. BrokerType' BY <1>1, SMT DEF BrokerType, Changed, Pairs
<1>3. CloneCurrent' BY SMT DEF BrokerType, CloneCurrent, Changed
<1>4. ASSUME NEW d \in Client
      PROVE  Held(d)' = IF d # c THEN Held(d)
                        ELSE IF request[c].op = "subscribe"
                             THEN Held(c) \cup request[c].filters
                             ELSE Held(c) \ request[c].filters
  BY <1>1 DEF BrokerType, Changed, Held
<1>5. TreeWanted'
  <2> SUFFICES ASSUME NEW d \in Client
               PROVE  want'[d] = IF at'[d] \in {"topics", "store"} /\ request[d].op # "subscribe"
                                 THEN Held(d)' \ request[d].filters ELSE Held(d)'
    BY DEF TreeWanted
  <2>1. CASE d = c
    <3>1. at'[c] \notin {"topics", "store"} BY DEF BrokerType
    <3>2. want'[c] = Held(c)' BY <1>4 DEF BrokerType, TreeWanted
    <3> QED BY <2>1, <3>1, <3>2
  <2>2. CASE d # c
    <3>1. at'[d] = at[d] /\ want'[d] = want[d] /\ Held(d)' = Held(d)
      BY <1>4, <2>2 DEF BrokerType
    <3> QED BY <3>1 DEF TreeWanted
  <2> QED BY <2>1, <2>2
<1>6. RetainedPublished' BY DEF RetainedPublished
<1>7. RetainedOwed' BY SMT DEF BrokerType, RetainedOwed, WillRead, Tried
<1>8. AudienceOwed'
  <2>1. \A d \in Client : want[d] \subseteq want'[d] BY SMT DEF BrokerType
  <2>2. \A m \in Message : audience[m] \subseteq Client BY DEF BrokerType
  <2> QED BY <2>1, <2>2 DEF AudienceOwed, Tried
<1>9. Progressed' BY DEF BrokerType, Progressed, ProgressedOne, Tried
<1> QED BY <1>2, <1>3, <1>5, <1>6, <1>7, <1>8, <1>9, BudgetsKept

\* handleSubscribe: the retained matches are offered, all of them or up to
\* the first that fails.
LEMMA ReadInv ==
  ASSUME BrokerInv, NEW c \in Client, SendRetained(c) \/ RetainedFails(c)
  PROVE  BrokerInv'
<1> USE BrokerAssumption DEF BrokerInv, messageVars, NextCall
<1>0. PICK sent \in SUBSET RetainedMatching(request[c].filters) :
        /\ offered' = offered \cup ({c} \X sent)
        /\ at[c] = "retained"
        /\ \/ at' = [at EXCEPT ![c] = "closed"]
           \/ /\ at' = [at EXCEPT ![c] = "idle"]
              /\ sent = RetainedMatching(request[c].filters)
        /\ UNCHANGED <<tree, topicsMu, newTree, retained, bytes, rejected, request,
                       requests, want, messageVars, failed, audience>>
  BY DEF SendRetained, RetainedFails
<1>1. \A m \in sent : \E t \in Topic : m = retained[t] /\ m # None
  BY <1>0, SMT DEF RetainedMatching, BrokerType
<1>2. BrokerType' BY <1>0 DEF BrokerType
<1>3. CloneCurrent' BY <1>0, SMT DEF BrokerType, CloneCurrent, Changed
<1>4. TreeWanted' BY <1>0, SMT DEF BrokerType, TreeWanted, Held
<1>5. RetainedPublished' BY <1>0 DEF RetainedPublished
<1>6. RetainedOwed'
  <2> SUFFICES ASSUME NEW t \in Topic, NEW d \in Client,
                      retained[t] # None, pc[retained[t]] \in {"deliver", "done"},
                      at'[d] # "closed", ~WillRead(d, t)',
                      \E f \in want[d] : t \in Accepts[f]
               PROVE  Tried(d, retained[t])' \/ d \in todo[retained[t]]
    BY <1>0 DEF RetainedOwed
  <2>1. CASE ~WillRead(d, t)
    BY <1>0, <2>1 DEF BrokerType, RetainedOwed, Tried
  <2>2. CASE WillRead(d, t)
    <3>1. d = c /\ sent = RetainedMatching(request[c].filters)
      BY <1>0, <2>2 DEF WillRead, BrokerType
    <3>2. retained[t] \in RetainedMatching(request[c].filters)
      BY <2>2, <3>1 DEF WillRead, RetainedMatching
    <3> QED BY <1>0, <3>1, <3>2 DEF Tried
  <2> QED BY <2>1, <2>2
<1>7. AudienceOwed' BY <1>0 DEF AudienceOwed, Tried
<1>8. Progressed'
  BY <1>0, <1>1, SMT DEF RetainedPublished, Progressed, ProgressedOne, Tried
<1> QED BY <1>0, <1>2, <1>3, <1>4, <1>5, <1>6, <1>7, <1>8, BudgetsKept

\* updateRetained: the map keeps within both of its budgets.
LEMMA RetainedSet ==
  ASSUME NEW t \in Topic, NEW m, BrokerType,
         retained' = [retained EXCEPT ![t] = m]
  PROVE  {u \in Topic : retained'[u] # None} =
           IF m = None THEN {u \in Topic : retained[u] # None} \ {t}
                       ELSE {u \in Topic : retained[u] # None} \cup {t}
BY DEF BrokerType

\* A publish keeps the retained messages within their limits.
LEMMA PublishBudgets ==
  ASSUME BrokerInv, NEW m \in Message,
         NEW r \in [topic : Topic, size : Size, retain : BOOLEAN], Publish(m, r)
  PROVE  Budgets'
<1> USE BrokerAssumption DEF BrokerInv
<1>1. CASE ~r.retain BY <1>1, BudgetsKept DEF Publish
<1>2. CASE r.retain
  <2> DEFINE held == {t \in Topic : retained[t] # None}
  <2>1. /\ retained' = [retained EXCEPT ![r.topic] = IF r.size = 0 THEN None ELSE m]
        /\ bytes' = bytes + (NewBytes(r) - OldBytes(r.topic))
        /\ UNCHANGED <<rejected, err>> /\ ~RetainedLimit(r)
    BY <1>2 DEF Publish, updateRetained
  <2>2. /\ bytes \in Int /\ bytes <= MaxBytes /\ IsFiniteSet(held)
        /\ Cardinality(held) <= MaxMessages /\ Cardinality(held) \in Nat
    BY FS_CardinalityType DEF Budgets
  <2>3. r.topic \in Topic /\ r.size \in Nat /\ Length[r.topic] \in Nat OBVIOUS
  <2>4. NewBytes(r) \in Nat /\ (r.size = 0 => NewBytes(r) = 0)
    BY <2>3, SMT DEF NewBytes
  <2>5. OldBytes(r.topic) \in Nat
    <3>1. CASE retained[r.topic] = None BY <3>1 DEF OldBytes
    <3>2. CASE retained[r.topic] # None
      <4>1. /\ msg[retained[r.topic]].topic = r.topic
            /\ msg[retained[r.topic]].size \in Nat
        BY <2>3, <3>2, SMT DEF BrokerType, RetainedPublished
      <4> QED BY <2>3, <3>2, <4>1, SMT DEF OldBytes, Weight
    <3> QED BY <3>1, <3>2
  <2>6. bytes' \in Int /\ bytes' <= MaxBytes
    <3>1. r.size = 0 \/ NewBytes(r) <= MaxBytes - (bytes - OldBytes(r.topic))
      BY <2>1, <2>2, <2>3, <2>4, <2>5, SMT DEF RetainedLimit
    <3> QED BY <2>1, <2>2, <2>4, <2>5, <3>1, SMT
  <2>7. IsFiniteSet(held') /\ Cardinality(held') <= MaxMessages
    <3>1. CASE r.size = 0
      <4>1. held' = held \ {r.topic} BY <2>1, <2>3, <3>1, RetainedSet
      <4> HIDE DEF held
      <4>2. /\ IsFiniteSet(held \ {r.topic})
            /\ Cardinality(held \ {r.topic}) =
                 IF r.topic \in held THEN Cardinality(held) - 1 ELSE Cardinality(held)
        BY <2>2, FS_RemoveElement
      <4>3. Cardinality(held \ {r.topic}) <= MaxMessages BY <2>2, <4>2, SMT
      <4> QED BY <4>1, <4>2, <4>3
    <3>2. CASE r.size # 0
      <4>1. held' = held \cup {r.topic} BY <2>1, <2>3, <3>2, RetainedSet
      <4>2. r.topic \in held \/ ~(Cardinality(held) >= MaxMessages)
        BY <2>1, <2>3, <3>2, SMT DEF RetainedLimit
      <4> HIDE DEF held
      <4>3. /\ IsFiniteSet(held \cup {r.topic})
            /\ Cardinality(held \cup {r.topic}) =
                 IF r.topic \in held THEN Cardinality(held) ELSE Cardinality(held) + 1
        BY <2>2, FS_AddElement
      <4>4. Cardinality(held \cup {r.topic}) <= MaxMessages BY <2>2, <4>2, <4>3, SMT
      <4> QED BY <4>1, <4>3, <4>4
    <3> QED BY <3>1, <3>2
  <2> QED BY <2>1, <2>6, <2>7 DEF Budgets
<1> QED BY <1>1, <1>2

\* A step of a message leaves the tree and the requests alone.
LEMMA ClientsKept ==
  ASSUME CloneCurrent, TreeWanted, UNCHANGED <<tree, topicsMu, newTree, clientVars>>
  PROVE  CloneCurrent' /\ TreeWanted'
BY DEF CloneCurrent, TreeWanted, Held, Changed, clientVars

\* Publish, up to the load of the tree.
LEMMA PublishInv ==
  ASSUME BrokerInv, NEW m \in Message,
         NEW r \in [topic : Topic, size : Size, retain : BOOLEAN], Publish(m, r)
  PROVE  BrokerInv'
<1> USE BrokerAssumption DEF BrokerInv, Publish, clientVars
<1>0. /\ \A t \in Topic : retained'[t] # None =>
           retained'[t] = retained[t] \/ (retained'[t] = m /\ t = r.topic)
      /\ retained' \in [Topic -> Message \cup {None}]
  BY SMT DEF BrokerType, updateRetained
<1>1. BrokerType' BY <1>0 DEF BrokerType
<1>2. CloneCurrent' /\ TreeWanted' BY ClientsKept
<1>3. \A t \in Topic : retained[t] # m BY SMT DEF RetainedPublished
<1>4. RetainedPublished'
  BY <1>0, SMT DEF BrokerType, RetainedPublished, Progressed, ProgressedOne
<1>5. RetainedOwed'
  <2> SUFFICES ASSUME NEW t \in Topic, NEW c \in Client,
                      retained'[t] # None, pc'[retained'[t]] \in {"deliver", "done"},
                      at[c] # "closed", ~WillRead(c, t),
                      \E f \in want[c] : t \in Accepts[f]
               PROVE  Tried(c, retained'[t]) \/ c \in todo[retained'[t]]
    BY DEF RetainedOwed, WillRead, Tried
  <2>1. retained'[t] = retained[t] /\ retained[t] # m
    BY <1>0, <1>3 DEF BrokerType
  <2> QED BY <2>1 DEF BrokerType, RetainedOwed
<1>6. AudienceOwed'
  <2> SUFFICES ASSUME NEW n \in Message, NEW c \in audience'[n]
               PROVE  /\ pc'[n] = "load" => \E f \in want[c] : msg'[n].topic \in Accepts[f]
                      /\ pc'[n] \in {"deliver", "done"} => Tried(c, n) \/ c \in todo[n]
    BY DEF AudienceOwed, Tried
  <2>1. CASE n = m BY <2>1 DEF BrokerType
  <2>2. CASE n # m BY <2>2 DEF BrokerType, AudienceOwed
  <2> QED BY <2>1, <2>2
<1>7. Progressed'
  <2> SUFFICES ASSUME NEW n \in Message PROVE ProgressedOne(n)'
    BY DEF Progressed
  <2>1. ProgressedOne(n) /\ ProgressedOne(m) BY DEF Progressed
  <2>2. CASE n = m BY <2>1, <2>2 DEF BrokerType, ProgressedOne, Tried
  <2>3. CASE n # m BY <2>1, <2>3 DEF BrokerType, ProgressedOne, Tried
  <2> QED BY <2>2, <2>3
<1> QED BY <1>1, <1>2, <1>4, <1>5, <1>6, <1>7, PublishBudgets

\* Publish that a retained budget ends: the message is counted once.
LEMMA RejectedInv ==
  ASSUME BrokerInv, NEW m \in Message,
         NEW r \in [topic : Topic, size : Size, retain : BOOLEAN], PublishRejected(m, r)
  PROVE  BrokerInv'
<1> USE BrokerAssumption DEF BrokerInv, PublishRejected, clientVars
<1>1. BrokerType' BY DEF BrokerType
<1>2. CloneCurrent' /\ TreeWanted' BY ClientsKept
<1>3. \A t \in Topic : retained[t] # m BY SMT DEF RetainedPublished
<1>4. RetainedPublished' BY <1>3, SMT DEF BrokerType, RetainedPublished
<1>5. RetainedOwed' BY <1>3, ZenonT(30) DEF BrokerType, RetainedOwed, WillRead, Tried
<1>6. AudienceOwed'
  <2>1. audience[m] = {} BY DEF Progressed, ProgressedOne
  <2>2. \A n \in Message : n # m => pc'[n] = pc[n] /\ msg'[n] = msg[n]
    BY DEF BrokerType
  <2>3. \A n, c : Tried(c, n)' <=> Tried(c, n) BY DEF Tried
  <2>4. ASSUME NEW n \in Message, NEW c \in audience[n]
        PROVE  n # m BY <2>1
  <2>5. audience' = audience /\ want' = want /\ todo' = todo OBVIOUS
  <2> HIDE DEF PublishRejected
  <2> QED BY <2>2, <2>3, <2>4, <2>5, SMT DEF AudienceOwed
<1>7. Progressed'
  <2> SUFFICES ASSUME NEW n \in Message PROVE ProgressedOne(n)'
    BY DEF Progressed
  <2>1. ProgressedOne(n) /\ ProgressedOne(m) BY DEF Progressed
  <2>2. CASE n = m BY <2>1, <2>2 DEF BrokerType, ProgressedOne, Tried
  <2>3. CASE n # m BY <2>1, <2>3 DEF BrokerType, ProgressedOne, Tried
  <2> QED BY <2>2, <2>3
<1>8. Budgets'
  <2> DEFINE limited == {n \in Message : err[n] = "limit"}
  <2>1. limited' = limited \cup {m} /\ m \notin limited
    BY SMT DEF BrokerType, Progressed, ProgressedOne
  <2>2. IsFiniteSet(limited) /\ rejected = Cardinality(limited) BY DEF Budgets
  <2>3. IsFiniteSet(limited') /\ Cardinality(limited') = rejected + 1
    <3> HIDE DEF limited
    <3>1. IsFiniteSet(limited \cup {m}) /\ Cardinality(limited \cup {m}) = Cardinality(limited) + 1
      BY <2>1, <2>2, FS_AddElement
    <3> QED BY <2>1, <2>2, <3>1
  <2> QED BY <2>3 DEF Budgets
<1> QED BY <1>1, <1>2, <1>4, <1>5, <1>6, <1>7, <1>8

\* Publish loads the tree: what a client wants is in it, so the client is
\* among those still to be tried.
LEMMA MatchInv ==
  ASSUME BrokerInv, NEW m \in Message, MatchTopic(m)
  PROVE  BrokerInv'
<1> USE BrokerAssumption DEF BrokerInv, MatchTopic, clientVars
<1>1. BrokerType' BY DEF BrokerType
<1>2. CloneCurrent' /\ TreeWanted' BY ClientsKept
<1>3. ASSUME NEW c \in Client, \E f \in want[c] : msg[m].topic \in Accepts[f]
      PROVE  c \in todo'[m]
  <2>1. want[c] \subseteq Held(c) BY DEF TreeWanted
  <2> QED BY <1>3, <2>1 DEF BrokerType, Held
<1>4. RetainedPublished' BY ZenonT(30) DEF BrokerType, RetainedPublished
<1>5. RetainedOwed'
  <2> SUFFICES ASSUME NEW t \in Topic, NEW c \in Client,
                      retained[t] # None, pc'[retained[t]] \in {"deliver", "done"},
                      at[c] # "closed", ~WillRead(c, t),
                      \E f \in want[c] : t \in Accepts[f]
               PROVE  Tried(c, retained[t]) \/ c \in todo'[retained[t]]
    BY DEF RetainedOwed, WillRead, Tried
  <2>1. CASE retained[t] = m BY <1>3, <2>1 DEF RetainedPublished
  <2>2. CASE retained[t] # m BY <2>2 DEF BrokerType, RetainedOwed
  <2> QED BY <2>1, <2>2
<1>6. AudienceOwed'
  <2> SUFFICES ASSUME NEW n \in Message, NEW c \in audience[n]
               PROVE  /\ pc'[n] = "load" => \E f \in want[c] : msg[n].topic \in Accepts[f]
                      /\ pc'[n] \in {"deliver", "done"} => Tried(c, n) \/ c \in todo'[n]
    BY DEF AudienceOwed, Tried
  <2>1. CASE n = m BY <1>3, <2>1 DEF BrokerType, AudienceOwed
  <2>2. CASE n # m BY <2>2 DEF BrokerType, AudienceOwed
  <2> QED BY <2>1, <2>2
<1>7. Progressed' BY DEF BrokerType, Progressed, ProgressedOne, Tried
<1> QED BY <1>1, <1>2, <1>4, <1>5, <1>6, <1>7, BudgetsKept

\* deliver for one subscription, whether it fails or not.
LEMMA DeliverInv ==
  ASSUME BrokerInv, NEW m \in Message, NEW c \in Client, NEW ok \in BOOLEAN,
         Deliver(m, c, ok)
  PROVE  BrokerInv'
<1> USE BrokerAssumption DEF BrokerInv, Deliver, clientVars
<1>1. BrokerType' BY DEF BrokerType
<1>2. CloneCurrent' /\ TreeWanted' BY ClientsKept
<1>3. /\ \A d, n : Tried(d, n) => Tried(d, n)'
      /\ \A d, n : Tried(d, n)' => Tried(d, n) \/ <<d, n>> = <<c, m>>
      /\ Tried(c, m)'
  BY DEF Tried
<1>4. RetainedPublished' BY SMT DEF BrokerType, RetainedPublished
<1>5. RetainedOwed' BY <1>3 DEF BrokerType, RetainedOwed, WillRead
<1>6. AudienceOwed' BY <1>3 DEF BrokerType, AudienceOwed
<1>7. err[m] # "limit" /\ err'[m] # "limit"
  BY DEF BrokerType, Progressed, ProgressedOne
<1>8. Progressed' BY <1>3, <1>7, SMT DEF BrokerType, Progressed, ProgressedOne
<1>9. Budgets'
  <2>1. {n \in Message : err'[n] = "limit"} = {n \in Message : err[n] = "limit"}
    BY <1>7 DEF BrokerType
  <2> QED BY <2>1 DEF Budgets
<1> QED BY <1>1, <1>2, <1>4, <1>5, <1>6, <1>8, <1>9

\* Publish returns.
LEMMA PublishedInv ==
  ASSUME BrokerInv, NEW m \in Message, Published(m)
  PROVE  BrokerInv'
<1> USE BrokerAssumption DEF BrokerInv, Published, clientVars
<1>1. BrokerType' BY DEF BrokerType
<1>2. CloneCurrent' /\ TreeWanted' BY ClientsKept
<1>4. RetainedPublished' BY SMT DEF BrokerType, RetainedPublished
<1>5. RetainedOwed' BY DEF BrokerType, RetainedOwed, WillRead, Tried
<1>6. AudienceOwed'
  <2>1. \A n \in Message : pc'[n] # pc[n] => pc[n] = "deliver" /\ pc'[n] = "done"
    BY DEF BrokerType
  <2>2. UNCHANGED <<audience, want, msg, todo, offered, failed>> OBVIOUS
  <2> QED BY <2>1, <2>2, ZenonT(30) DEF AudienceOwed, Tried
<1>7. Progressed' BY DEF BrokerType, Progressed, ProgressedOne, Tried
<1> QED BY <1>1, <1>2, <1>4, <1>5, <1>6, <1>7, BudgetsKept

-----------------------------------------------------------------------------
\* Every step of a client or of a publish keeps the invariant.
LEMMA NextInv == BrokerInv /\ [Next]_vars => BrokerInv'
<1> SUFFICES ASSUME BrokerInv, [Next]_vars PROVE BrokerInv' OBVIOUS
<1>1. CASE UNCHANGED vars
  <2> USE <1>1 DEF BrokerInv, vars, clientVars, messageVars
  <2>1. BrokerType' /\ Budgets' BY DEF BrokerType, Budgets
  <2>2. CloneCurrent' /\ TreeWanted' BY ClientsKept
  <2>3. RetainedPublished' /\ RetainedOwed'
    BY DEF RetainedPublished, RetainedOwed, WillRead, Tried
  <2>4. AudienceOwed' /\ Progressed'
    BY DEF AudienceOwed, Progressed, ProgressedOne, Tried
  <2> QED BY <2>1, <2>2, <2>3, <2>4
<1>2. ASSUME NEW c \in Client, ClientNext(c) PROVE BrokerInv'
  <2>1. Filter \in SUBSET Filter /\ \A f \in Filter : {f} \in SUBSET Filter OBVIOUS
  <2> QED BY <1>2, <2>1, RequestInv, LoadInv, StoreInv, ReadInv DEF ClientNext
<1>3. ASSUME NEW m \in Message, MessageNext(m) PROVE BrokerInv'
  BY <1>3, RejectedInv, PublishInv, MatchInv, DeliverInv, PublishedInv
  DEF MessageNext
<1> QED BY <1>1, <1>2, <1>3 DEF Next

\* The invariant holds of every reachable state of the broker.
THEOREM BrokerInvariant == Spec => []BrokerInv
BY InitInv, NextInv, PTL DEF Spec

\* No subscription is lost and none comes back, however the copies of the tree
\* that Subscribe, Unsubscribe and UnsubscribeAll make and store interleave.
THEOREM NoLostUpdateCorrect == Spec => []NoLostUpdate
<1>1. BrokerInv => NoLostUpdate
  BY DEF BrokerInv, TreeWanted, NoLostUpdate, Held
<1> QED BY <1>1, BrokerInvariant, PTL

\* The current retained message of a topic passes no subscriber by, however
\* Publish (map, then tree) and handleSubscribe (tree, then map) cross.
THEOREM RetainedReachesCorrect == Spec => []RetainedReachesAll
<1>1. BrokerInv => RetainedReachesAll
  <2> SUFFICES ASSUME BrokerInv, NEW t \in Topic, NEW c \in Client,
                      retained[t] # None, pc[retained[t]] = "done", at[c] = "idle",
                      \E f \in want[c] : t \in Accepts[f]
               PROVE  <<c, retained[t]>> \in offered \cup failed
    BY DEF RetainedReachesAll
  <2>1. Tried(c, retained[t]) \/ c \in todo[retained[t]]
    BY DEF BrokerInv, RetainedOwed, WillRead
  <2>2. todo[retained[t]] = {}
    BY DEF BrokerInv, BrokerType, Progressed, ProgressedOne
  <2> QED BY <2>1, <2>2 DEF Tried
<1> QED BY <1>1, BrokerInvariant, PTL

\* Publish tries every client that stays subscribed, and returns no error
\* (publishMessage sends the PUBACK) only when every offer was taken.
THEOREM FanOutCorrect == Spec => []FanOutComplete
<1>1. BrokerInv => FanOutComplete
  <2> SUFFICES ASSUME BrokerInv, NEW m \in Message, pc[m] = "done", NEW c \in audience[m]
               PROVE  <<c, m>> \in IF err[m] = None THEN offered ELSE offered \cup failed
    BY DEF FanOutComplete
  <2>1. c \in Client BY DEF BrokerInv, BrokerType
  <2>2. todo[m] = {} /\ (err[m] = None => <<c, m>> \notin failed)
    BY <2>1 DEF BrokerInv, Progressed, ProgressedOne
  <2>3. Tried(c, m) BY <2>2 DEF BrokerInv, AudienceOwed
  <2> QED BY <2>2, <2>3 DEF Tried
<1> QED BY <1>1, BrokerInvariant, PTL

\* A message that updateRetained rejects is counted, and neither stored nor
\* offered to anybody.
THEOREM RejectedCorrect == Spec => []RejectedInvisible
<1>1. BrokerInv => RejectedInvisible
  <2> SUFFICES ASSUME BrokerInv PROVE RejectedInvisible OBVIOUS
  <2>1. rejected = Cardinality({m \in Message : err[m] = "limit"})
    BY DEF BrokerInv, Budgets
  <2>2. ASSUME NEW m \in Message, err[m] = "limit"
        PROVE  /\ \A t \in Topic : retained[t] # m
               /\ \A c \in Client : <<c, m>> \notin offered
    BY <2>2, BrokerAssumption, SMT
    DEF BrokerInv, RetainedPublished, Progressed, ProgressedOne, Tried
  <2> QED BY <2>1, <2>2 DEF RejectedInvisible
<1> QED BY <1>1, BrokerInvariant, PTL

(***************************************************************************)
(* The bytes of the retained map.                                          *)
(***************************************************************************)

\* A topic that holds n bytes adds n to the bytes occupied.
LEMMA TopicBytes ==
  ASSUME NEW t, NEW n \in Nat
  PROVE  IsFiniteSet({t} \X (1 .. n)) /\ Cardinality({t} \X (1 .. n)) = n
<1>1. IsFiniteSet({t}) /\ Cardinality({t}) = 1 BY FS_Singleton
<1>2. IsFiniteSet(1 .. n) /\ Cardinality(1 .. n) = n
  <2>1. 1 \in Int /\ n \in Int /\ (1 <= n \/ n = 0) BY SMT
  <2>2. IsFiniteSet(1 .. n) /\ Cardinality(1 .. n) = IF 1 > n THEN 0 ELSE n - 1 + 1
    BY <2>1, FS_Interval
  <2> QED BY <2>2, SMT
<1>3. /\ IsFiniteSet({t} \X (1 .. n))
      /\ Cardinality({t} \X (1 .. n)) = Cardinality({t}) * Cardinality(1 .. n)
  BY <1>1, <1>2, FS_Product
<1> QED BY <1>1, <1>2, <1>3, SMT

\* What a set of bytes comes to when N takes the place of O.
LEMMA BytesReplaced ==
  ASSUME NEW A, NEW O, NEW N, IsFiniteSet(A), IsFiniteSet(O), IsFiniteSet(N),
         O \subseteq A, (A \ O) \cap N = {}
  PROVE  /\ IsFiniteSet((A \ O) \cup N)
         /\ Cardinality((A \ O) \cup N) = Cardinality(A) + (Cardinality(N) - Cardinality(O))
<1> DEFINE R == A \ O
<1>1. IsFiniteSet(R) /\ Cardinality(R) = Cardinality(A) - Cardinality(A \cap O)
  BY FS_Difference
<1>2. A \cap O = O OBVIOUS
<1>3. R \cap N = {} OBVIOUS
<1> HIDE DEF R
<1>4. /\ IsFiniteSet(R \cup N)
      /\ Cardinality(R \cup N) = Cardinality(R) + Cardinality(N) - Cardinality(R \cap N)
  BY <1>1, FS_Union
<1>5. /\ Cardinality({}) = 0 /\ Cardinality(A) \in Nat /\ Cardinality(O) \in Nat
      /\ Cardinality(N) \in Nat
  BY FS_EmptySet, FS_CardinalityType
<1>6. /\ Cardinality(R) = Cardinality(A) - Cardinality(O)
      /\ Cardinality(R \cup N) = Cardinality(R) + Cardinality(N) - 0
  BY <1>1, <1>2, <1>3, <1>4, <1>5
<1>7. Cardinality(R \cup N) = Cardinality(A) + (Cardinality(N) - Cardinality(O))
  BY <1>5, <1>6, SMT
<1> QED BY <1>4, <1>7 DEF R

\* The statistics are what the stored map occupies.
Measured == IsFiniteSet(Occupied) /\ bytes = Cardinality(Occupied)

\* The bytes of topic t.
LEMMA OccupiedMember == \A x : x \in Occupied <=> \E t \in Topic : x \in {t} \X (1 .. OldBytes(t))
BY DEF Occupied

\* The map and the messages in it stay as they are.
LEMMA MeasuredFrame ==
  ASSUME Measured, UNCHANGED <<retained, bytes>>,
         \A t \in Topic : OldBytes(t)' = OldBytes(t)
  PROVE  Measured'
<1>1. Occupied' = Occupied BY DEF Occupied
<1> QED BY <1>1 DEF Measured

\* The message of a publish that begins is not in the map.
LEMMA FreshMessage ==
  ASSUME BrokerInv, NEW m \in Message, pc[m] = "new", NEW r, msg' = [msg EXCEPT ![m] = r],
         NEW t \in Topic, retained'[t] = retained[t]
  PROVE  OldBytes(t)' = OldBytes(t)
<1> USE BrokerAssumption DEF BrokerInv
<1>1. CASE retained[t] = None BY <1>1 DEF OldBytes
<1>2. CASE retained[t] # None
  <2>1. retained[t] \in Message /\ retained[t] # m
    BY <1>2 DEF BrokerType, RetainedPublished
  <2>2. msg'[retained[t]] = msg[retained[t]] BY <2>1 DEF BrokerType
  <2>3. Weight(retained'[t], msg') = Weight(retained[t], msg) BY <2>2 DEF Weight
  <2> QED BY <1>2, <2>3 DEF OldBytes
<1> QED BY <1>1, <1>2

\* updateRetained: the bytes of one topic change.
LEMMA PublishMeasured ==
  ASSUME BrokerInv, Measured, NEW m \in Message,
         NEW r \in [topic : Topic, size : Size, retain : BOOLEAN], Publish(m, r)
  PROVE  Measured'
<1> USE BrokerAssumption
<1>1. pc[m] = "new" /\ msg' = [msg EXCEPT ![m] = r] BY DEF Publish
<1>2. CASE ~r.retain
  <2>1. UNCHANGED <<retained, bytes>> BY <1>2 DEF Publish
  <2>2. \A t \in Topic : OldBytes(t)' = OldBytes(t) BY <1>1, <2>1, FreshMessage
  <2> QED BY <2>1, <2>2, MeasuredFrame
<1>3. CASE r.retain
  <2> DEFINE u == r.topic
             o == OldBytes(u)
             n == NewBytes(r)
             O == {u} \X (1 .. o)
             N == {u} \X (1 .. n)
  <2>1. u \in Topic /\ r.size \in Nat OBVIOUS
  <2>2. /\ retained' = [retained EXCEPT ![u] = IF r.size = 0 THEN None ELSE m]
        /\ bytes' = bytes + (n - o)
    BY <1>3 DEF Publish, updateRetained
  <2>3. retained \in [Topic -> Message \cup {None}] BY DEF BrokerInv, BrokerType
  <2>4. ASSUME NEW t \in Topic, t # u PROVE OldBytes(t)' = OldBytes(t)
    <3>1. retained'[t] = retained[t] BY <2>1, <2>2, <2>3, <2>4
    <3> QED BY <1>1, <3>1, FreshMessage
  <2>5. OldBytes(u)' = n
    <3>1. retained'[u] = IF r.size = 0 THEN None ELSE m BY <2>1, <2>2, <2>3
    <3>2. msg'[m] = r BY <1>1 DEF BrokerInv, BrokerType
    <3> QED BY <2>1, <3>1, <3>2 DEF OldBytes, NewBytes, Weight
  <2>6. o \in Nat /\ n \in Nat
    <3>1. Length[u] \in Nat BY <2>1, SMT
    <3>2. n \in Nat BY <2>1, <3>1, SMT DEF NewBytes
    <3>3. CASE retained[u] = None BY <3>2, <3>3, SMT DEF OldBytes
    <3>4. CASE retained[u] # None
      <4>1. /\ msg[retained[u]].topic = u /\ msg[retained[u]].size \in Nat
        BY <2>1, <2>3, <3>4 DEF BrokerInv, BrokerType, RetainedPublished
      <4> QED BY <3>1, <3>2, <3>4, <4>1, SMT DEF OldBytes, Weight
    <3> QED BY <3>3, <3>4
  <2> HIDE DEF o, n
  <2>7. O \subseteq Occupied BY <2>1, OccupiedMember DEF o
  <2>8. \A x : x \in Occupied' <=> \E t \in Topic : x \in {t} \X (1 .. OldBytes(t)')
    BY DEF Occupied
  <2>9. Occupied' = (Occupied \ O) \cup N
    <3>1. ASSUME NEW x \in Occupied' PROVE x \in (Occupied \ O) \cup N
      <4>1. PICK t \in Topic : x \in {t} \X (1 .. OldBytes(t)') BY <2>8
      <4>2. CASE t = u BY <2>5, <4>1, <4>2
      <4>3. CASE t # u
        <5>1. x \in {t} \X (1 .. OldBytes(t)) BY <2>4, <4>1, <4>3
        <5>2. x \notin O BY <4>3, <5>1
        <5> QED BY <5>1, <5>2, OccupiedMember
      <4> QED BY <4>2, <4>3
    <3>2. ASSUME NEW x \in (Occupied \ O) \cup N PROVE x \in Occupied'
      <4>1. CASE x \in N BY <2>1, <2>5, <2>8, <4>1
      <4>2. CASE x \in Occupied \ O
        <5>1. PICK t \in Topic : x \in {t} \X (1 .. OldBytes(t)) BY <4>2, OccupiedMember
        <5>2. t # u BY <4>2, <5>1 DEF o
        <5> QED BY <2>4, <2>8, <5>1, <5>2
      <4> QED BY <4>1, <4>2
    <3> QED BY <3>1, <3>2
  <2>10. (Occupied \ O) \cap N = {}
    <3> SUFFICES ASSUME NEW x \in Occupied \ O, x \in N PROVE FALSE
      OBVIOUS
    <3>1. PICK t \in Topic : x \in {t} \X (1 .. OldBytes(t)) BY OccupiedMember
    <3>2. t = u BY <3>1
    <3> QED BY <3>1, <3>2 DEF o
  <2>11. IsFiniteSet(Occupied') /\ Cardinality(Occupied') = Cardinality(Occupied) + (n - o)
    <3>1. IsFiniteSet(Occupied) BY DEF Measured
    <3>2. IsFiniteSet(O) /\ Cardinality(O) = o /\ IsFiniteSet(N) /\ Cardinality(N) = n
      BY <2>6, TopicBytes
    <3> HIDE DEF O, N
    <3> QED BY <2>7, <2>9, <2>10, <3>1, <3>2, BytesReplaced
  <2> QED BY <2>2, <2>11 DEF Measured
<1> QED BY <1>2, <1>3

\* Every step of the broker keeps the statistics those of the stored map.
LEMMA MeasuredNext == BrokerInv /\ Measured /\ [Next]_vars => Measured'
<1> SUFFICES ASSUME BrokerInv, Measured, [Next]_vars PROVE Measured' OBVIOUS
<1>1. ASSUME UNCHANGED <<retained, bytes, msg>> PROVE Measured'
  BY <1>1, MeasuredFrame DEF OldBytes, Weight
<1>2. ASSUME NEW m \in Message, NEW r \in [topic : Topic, size : Size, retain : BOOLEAN],
             PublishRejected(m, r)
      PROVE  Measured'
  BY <1>2, FreshMessage, MeasuredFrame DEF PublishRejected
<1>3. ASSUME NEW m \in Message, NEW r \in [topic : Topic, size : Size, retain : BOOLEAN],
             Publish(m, r)
      PROVE  Measured'
  BY <1>3, PublishMeasured
<1>4. ASSUME NEW c \in Client, ClientNext(c) PROVE Measured'
  <2>1. UNCHANGED <<retained, bytes, msg>>
    BY <1>4 DEF ClientNext, HandleSubscribe, HandleUnsubscribe, Request, LoadTopics,
                StoreTopics, SendRetained, RetainedFails, messageVars
  <2> QED BY <1>1, <2>1
<1>5. ASSUME NEW m \in Message,
             \/ MatchTopic(m) \/ Published(m)
             \/ \E c \in Client, ok \in BOOLEAN : Deliver(m, c, ok)
      PROVE  Measured'
  BY <1>1, <1>5 DEF MatchTopic, Deliver, Published
<1>6. CASE UNCHANGED vars BY <1>1, <1>6 DEF vars, messageVars
<1> QED BY <1>2, <1>3, <1>4, <1>5, <1>6 DEF Next, MessageNext

\* The retained statistics are those of the stored map, whatever is published,
\* replaced and cleared, and updateRetained keeps both budgets.
THEOREM BudgetCorrect == Spec => []RetainedBudget
<1>1. Init => Measured
  <2> SUFFICES ASSUME Init PROVE Measured OBVIOUS
  <2>1. \A t \in Topic : OldBytes(t) = 0 BY DEF Init, OldBytes
  <2>2. \A t : {t} \X (1 .. 0) = {} BY SMT
  <2>3. Occupied = {} BY <2>1, <2>2 DEF Occupied
  <2> QED BY <2>3, FS_EmptySet DEF Init, Measured
<1>2. BrokerInv /\ Measured => RetainedBudget
  BY DEF BrokerInv, Budgets, Measured, RetainedBudget
<1> QED BY <1>1, <1>2, BrokerInvariant, MeasuredNext, PTL DEF Spec

(***************************************************************************)
(* The bytes of a message: the remaining length, and the template of a     *)
(* PUBLISH that is completed for every attempt to send it.                 *)
(***************************************************************************)

\* The numbers of one byte and of two, and a reader without an error.
Byte == 0 .. 255
Word == {n \in Nat : n < 65536}
First(s) == s[1]
Second(s) == s[2]
Reader(v, coded, n) == [ok |-> TRUE, v |-> v, in |-> coded, n |-> n]

\* A byte in front of others is their first, and they are what follows it.
LEMMA Behind ==
  ASSUME NEW S, NEW b \in S, NEW s \in Seq(S)
  PROVE  LET t == <<b>> \o s
         IN  /\ t \in Seq(S) /\ Len(t) = 1 + Len(s) /\ t[1] = b
             /\ SubSeq(t, 1, 1)[1] = b
             /\ SubSeq(t, 2, Len(t)) = s
<1> DEFINE t == <<b>> \o s
<1>1. t \in Seq(S) /\ Len(t) = 1 + Len(s) /\ t[1] = b
  BY SMT
<1>2. SubSeq(t, 1, 1)[1] = b
  BY <1>1, SMT
<1>3. SubSeq(t, 2, Len(t)) = s
  <2>1. \A i \in 1 .. Len(s) : t[i + 1] = s[i]
    BY SMT
  <2>2. SubSeq(t, 2, Len(t)) \in Seq(S) /\ Len(SubSeq(t, 2, Len(t))) = Len(s)
    BY <1>1, SMT
  <2>3. \A i \in 1 .. Len(s) : SubSeq(t, 2, Len(t))[i] = t[i + 1]
    BY <1>1, SMT
  <2> QED
    BY <2>1, <2>2, <2>3, SMT
<1> QED
  BY <1>1, <1>2, <1>3, SMT

\* readByte takes the first byte, and one of what may be read.
LEMMA ReadsByte ==
  ASSUME NEW S, NEW v, NEW b \in S, NEW s \in Seq(S), NEW n \in Nat, n > 0,
         NEW m, m = n - 1
  PROVE  readByte(Reader(v, <<b>> \o s, n)) = Reader(b, s, m)
<1> DEFINE t == <<b>> \o s
           r == Reader(v, t, n)
           e == SubSeq(t, 1, 1)
           u == [ok |-> TRUE, v |-> e, in |-> s, n |-> m]
<1>1. /\ t \in Seq(S) /\ 1 <= Len(t)
      /\ e[1] = b
      /\ SubSeq(t, 2, Len(t)) = s
  BY Behind, SMT
<1>2. r.ok = TRUE /\ r.in = t /\ r.n = n
  BY SMT DEF Reader
<1> HIDE DEF t, r, e
<1>3. Take(r, 1) = [ok |-> TRUE, v |-> SubSeq(t, 1, 1),
                    in |-> SubSeq(t, 1 + 1, Len(t)), n |-> n - 1]
  BY <1>1, <1>2, SMT DEF Take
<1>4. Take(r, 1) = u
  <2>1. 1 + 1 = 2
    BY SMT
  <2> QED
    BY <1>1, <1>3, <2>1, Zenon DEF e
<1>5. u.ok = TRUE /\ u.v = e /\ u.in = s /\ u.n = m
  BY SMT
<1> HIDE DEF u
<1>6. Then(u, u.v[1]) = Reader(b, s, m)
  BY <1>1, <1>5, Zenon DEF Then, Value, Reader
<1>7. readByte(r) = Reader(b, s, m)
  BY <1>4, <1>6, SMT DEF readByte
<1> QED
  BY <1>7, SMT DEF r, t

\* A byte in front of x, and y after both.
LEMMA Strung ==
  ASSUME NEW S, NEW x \in Seq(S), NEW y \in Seq(S), NEW a \in S
  PROVE  (<<a>> \o x) \o y = <<a>> \o (x \o y)
<1> DEFINE l == (<<a>> \o x) \o y
           r == <<a>> \o (x \o y)
<1>1. /\ <<a>> \o x \in Seq(S) /\ x \o y \in Seq(S)
      /\ Len(<<a>> \o x) = 1 + Len(x) /\ Len(x \o y) = Len(x) + Len(y)
  BY SMT
<1>2. l \in Seq(S) /\ r \in Seq(S) /\ Len(l) = Len(r) /\ Len(l) = 1 + Len(x) + Len(y)
  BY <1>1, SMT
<1>3. ASSUME NEW i \in 1 .. Len(l) PROVE l[i] = r[i]
  <2>1. CASE i = 1
    BY <2>1, <1>1, SMT
  <2>2. CASE i \in 2 .. 1 + Len(x)
    BY <2>2, <1>1, SMT
  <2>3. CASE i > 1 + Len(x)
    BY <2>3, <1>1, <1>2, SMT
  <2> QED
    BY <1>2, <2>1, <2>2, <2>3, SMT
<1> QED
  BY <1>2, <1>3, SMT

\* A reader that has read w without an error.
LEMMA ReaderFields ==
  \A w, s, l : Reader(w, s, l).ok = TRUE /\ Reader(w, s, l).v = w
  BY SMT DEF Reader

\* What is computed from the bytes replaces the one that was read last.
LEMMA ReaderThen ==
  \A w, s, l, a : Then(Reader(w, s, l), a) = Reader(a, s, l)
  BY SMT DEF Then, Value, Reader

\* decodeRemainingLength ends with the first byte below 128: here that is
\* the first one ...
LEMMA DecodesOne ==
  ASSUME NEW S, NEW v, NEW s \in Seq(S), NEW n \in Nat, n > 0,
         NEW a \in S, a < 128
  PROVE  decodeRemainingLength(Reader(v, <<a>> \o s, n))
           = Reader(a, s, n - 1)
<1> DEFINE s0 == <<a>> \o s
           r == Reader(v, s0, n)
           x == readByte(r)
           n1 == n - 1
           value == x.v
<1>1. /\ n > 0 /\ n1 = n - 1 /\ n1 \in Nat
  BY SMT
<1> HIDE DEF s0, r, x, n1, value
<1>2. /\ x = Reader(a, s, n1) /\ x.ok = TRUE /\ x.v = a
      /\ Then(x, value) = Reader(value, s, n1)
  <2>1. readByte(Reader(v, s0, n)) = Reader(a, s, n1)
    BY <1>1, ReadsByte, SMT DEF s0
  <2>2. x = Reader(a, s, n1)
    BY <2>1, Zenon DEF r, x
  <2>3. Reader(a, s, n1).ok = TRUE /\ Reader(a, s, n1).v = a
    BY ReaderFields, Zenon
  <2>4. Then(Reader(a, s, n1), value) = Reader(value, s, n1)
    BY ReaderThen, SMT
  <2> QED
    BY <2>2, <2>3, <2>4, Zenon
<1>3. decodeRemainingLength(r) = x
  BY <1>2, Zenon DEF decodeRemainingLength, x
<1> QED
  BY <1>2, <1>3, Zenon DEF r, n1, s0

\* ... the second ...
LEMMA DecodesTwo ==
  ASSUME NEW S, NEW v, NEW s \in Seq(S), NEW n \in Nat, n > 1,
         NEW a \in S, ~(a < 128), NEW A, A = a % 128,
         NEW b \in S, b < 128
  PROVE  decodeRemainingLength(Reader(v, <<a>> \o (<<b>> \o s), n))
           = Reader(A + 128 * b, s, n - 2)
<1> DEFINE t == <<b>> \o s
           s0 == <<a>> \o t
           r == Reader(v, s0, n)
           x == readByte(r)
           y == readByte(x)
           n1 == n - 1
           n2 == n - 2
           value == (x.v % 128) + 128 * y.v
<1>1. /\ n > 0 /\ n1 = n - 1 /\ n1 \in Nat
      /\ n1 > 0 /\ n2 = n1 - 1 /\ n2 \in Nat
  BY SMT
<1>2. t \in Seq(S)
  BY <1>1, Behind, Zenon
<1> HIDE DEF s0, t, r, x, y, n1, n2, value
<1>3. /\ x = Reader(a, t, n1) /\ x.ok = TRUE /\ x.v = a
  <2>1. readByte(Reader(v, s0, n)) = Reader(a, t, n1)
    BY <1>1, <1>2, ReadsByte, SMT DEF s0
  <2>2. x = Reader(a, t, n1)
    BY <2>1, Zenon DEF r, x
  <2>3. Reader(a, t, n1).ok = TRUE /\ Reader(a, t, n1).v = a
    BY ReaderFields, Zenon
  <2> QED
    BY <2>2, <2>3, Zenon
<1>4. /\ y = Reader(b, s, n2) /\ y.ok = TRUE /\ y.v = b
      /\ Then(y, value) = Reader(value, s, n2)
  <2>1. readByte(Reader(a, t, n1)) = Reader(b, s, n2)
    BY <1>1, ReadsByte, SMT DEF t
  <2>2. y = Reader(b, s, n2)
    BY <1>3, <2>1, Zenon DEF y
  <2>3. Reader(b, s, n2).ok = TRUE /\ Reader(b, s, n2).v = b
    BY ReaderFields, Zenon
  <2>4. Then(Reader(b, s, n2), value) = Reader(value, s, n2)
    BY ReaderThen, SMT
  <2> QED
    BY <2>2, <2>3, <2>4, Zenon
<1>5. decodeRemainingLength(r) = Then(y, value)
  BY <1>3, <1>4, Zenon DEF decodeRemainingLength, value, x, y
<1>6. value = A + 128 * b
  BY <1>3, <1>4, Zenon DEF value
<1> QED
  BY <1>4, <1>5, <1>6, Zenon DEF r, n2, s0, t

\* ... the third ...
LEMMA DecodesThree ==
  ASSUME NEW S, NEW v, NEW s \in Seq(S), NEW n \in Nat, n > 2,
         NEW a \in S, ~(a < 128), NEW A, A = a % 128,
         NEW b \in S, ~(b < 128), NEW B, B = b % 128,
         NEW c \in S, c < 128
  PROVE  decodeRemainingLength(Reader(v, <<a>> \o (<<b>> \o (<<c>> \o s)), n))
           = Reader(A + 128 * (B + 128 * c), s, n - 3)
<1> DEFINE u == <<c>> \o s
           t == <<b>> \o u
           s0 == <<a>> \o t
           r == Reader(v, s0, n)
           x == readByte(r)
           y == readByte(x)
           z == readByte(y)
           n1 == n - 1
           n2 == n - 2
           n3 == n - 3
           value == (x.v % 128) + 128 * ((y.v % 128) + 128 * z.v)
<1>1. /\ n > 0 /\ n1 = n - 1 /\ n1 \in Nat
      /\ n1 > 0 /\ n2 = n1 - 1 /\ n2 \in Nat
      /\ n2 > 0 /\ n3 = n2 - 1 /\ n3 \in Nat
  BY SMT
<1>2. u \in Seq(S)
  BY <1>1, Behind, Zenon
<1>3. t \in Seq(S)
  BY <1>1, <1>2, Behind, Zenon
<1> HIDE DEF s0, t, u, r, x, y, z, n1, n2, n3, value
<1>4. /\ x = Reader(a, t, n1) /\ x.ok = TRUE /\ x.v = a
  <2>1. readByte(Reader(v, s0, n)) = Reader(a, t, n1)
    BY <1>1, <1>3, ReadsByte, SMT DEF s0
  <2>2. x = Reader(a, t, n1)
    BY <2>1, Zenon DEF r, x
  <2>3. Reader(a, t, n1).ok = TRUE /\ Reader(a, t, n1).v = a
    BY ReaderFields, Zenon
  <2> QED
    BY <2>2, <2>3, Zenon
<1>5. /\ y = Reader(b, u, n2) /\ y.ok = TRUE /\ y.v = b
  <2>1. readByte(Reader(a, t, n1)) = Reader(b, u, n2)
    BY <1>1, <1>2, ReadsByte, SMT DEF t
  <2>2. y = Reader(b, u, n2)
    BY <1>4, <2>1, Zenon DEF y
  <2>3. Reader(b, u, n2).ok = TRUE /\ Reader(b, u, n2).v = b
    BY ReaderFields, Zenon
  <2> QED
    BY <2>2, <2>3, Zenon
<1>6. /\ z = Reader(c, s, n3) /\ z.ok = TRUE /\ z.v = c
      /\ Then(z, value) = Reader(value, s, n3)
  <2>1. readByte(Reader(b, u, n2)) = Reader(c, s, n3)
    BY <1>1, ReadsByte, SMT DEF u
  <2>2. z = Reader(c, s, n3)
    BY <1>5, <2>1, Zenon DEF z
  <2>3. Reader(c, s, n3).ok = TRUE /\ Reader(c, s, n3).v = c
    BY ReaderFields, Zenon
  <2>4. Then(Reader(c, s, n3), value) = Reader(value, s, n3)
    BY ReaderThen, SMT
  <2> QED
    BY <2>2, <2>3, <2>4, Zenon
<1>7. decodeRemainingLength(r) = Then(z, value)
  BY <1>4, <1>5, <1>6, Zenon DEF decodeRemainingLength, value, x, y, z
<1>8. value = A + 128 * (B + 128 * c)
  BY <1>4, <1>5, <1>6, Zenon DEF value
<1> QED
  BY <1>6, <1>7, <1>8, Zenon DEF r, n3, s0, t, u

\* ... or the fourth.
LEMMA DecodesFour ==
  ASSUME NEW S, NEW v, NEW s \in Seq(S), NEW n \in Nat, n > 3,
         NEW a \in S, ~(a < 128), NEW A, A = a % 128,
         NEW b \in S, ~(b < 128), NEW B, B = b % 128,
         NEW c \in S, ~(c < 128), NEW C, C = c % 128,
         NEW d \in S, d < 128
  PROVE  decodeRemainingLength(Reader(v, <<a>> \o (<<b>> \o (<<c>> \o (<<d>> \o s))), n))
           = Reader(A + 128 * (B + 128 * (C + 128 * d)), s, n - 4)
<1> DEFINE w == <<d>> \o s
           u == <<c>> \o w
           t == <<b>> \o u
           s0 == <<a>> \o t
           r == Reader(v, s0, n)
           x == readByte(r)
           y == readByte(x)
           z == readByte(y)
           e == readByte(z)
           n1 == n - 1
           n2 == n - 2
           n3 == n - 3
           n4 == n - 4
           value == (x.v % 128) + 128 * ((y.v % 128) + 128 * ((z.v % 128) + 128 * e.v))
<1>1. /\ n > 0 /\ n1 = n - 1 /\ n1 \in Nat
      /\ n1 > 0 /\ n2 = n1 - 1 /\ n2 \in Nat
      /\ n2 > 0 /\ n3 = n2 - 1 /\ n3 \in Nat
      /\ n3 > 0 /\ n4 = n3 - 1 /\ n4 \in Nat
  BY SMT
<1>2. w \in Seq(S)
  BY <1>1, Behind, Zenon
<1>3. u \in Seq(S)
  BY <1>1, <1>2, Behind, Zenon
<1>4. t \in Seq(S)
  BY <1>1, <1>3, Behind, Zenon
<1> HIDE DEF s0, t, u, w, r, x, y, z, e, n1, n2, n3, n4, value
<1>5. /\ x = Reader(a, t, n1) /\ x.ok = TRUE /\ x.v = a
  <2>1. readByte(Reader(v, s0, n)) = Reader(a, t, n1)
    BY <1>1, <1>4, ReadsByte, SMT DEF s0
  <2>2. x = Reader(a, t, n1)
    BY <2>1, Zenon DEF r, x
  <2>3. Reader(a, t, n1).ok = TRUE /\ Reader(a, t, n1).v = a
    BY ReaderFields, Zenon
  <2> QED
    BY <2>2, <2>3, Zenon
<1>6. /\ y = Reader(b, u, n2) /\ y.ok = TRUE /\ y.v = b
  <2>1. readByte(Reader(a, t, n1)) = Reader(b, u, n2)
    BY <1>1, <1>3, ReadsByte, SMT DEF t
  <2>2. y = Reader(b, u, n2)
    BY <1>5, <2>1, Zenon DEF y
  <2>3. Reader(b, u, n2).ok = TRUE /\ Reader(b, u, n2).v = b
    BY ReaderFields, Zenon
  <2> QED
    BY <2>2, <2>3, Zenon
<1>7. /\ z = Reader(c, w, n3) /\ z.ok = TRUE /\ z.v = c
  <2>1. readByte(Reader(b, u, n2)) = Reader(c, w, n3)
    BY <1>1, <1>2, ReadsByte, SMT DEF u
  <2>2. z = Reader(c, w, n3)
    BY <1>6, <2>1, Zenon DEF z
  <2>3. Reader(c, w, n3).ok = TRUE /\ Reader(c, w, n3).v = c
    BY ReaderFields, Zenon
  <2> QED
    BY <2>2, <2>3, Zenon
<1>8. /\ e = Reader(d, s, n4) /\ e.ok = TRUE /\ e.v = d
      /\ Then(e, value) = Reader(value, s, n4)
  <2>1. readByte(Reader(c, w, n3)) = Reader(d, s, n4)
    BY <1>1, ReadsByte, SMT DEF w
  <2>2. e = Reader(d, s, n4)
    BY <1>7, <2>1, Zenon DEF e
  <2>3. Reader(d, s, n4).ok = TRUE /\ Reader(d, s, n4).v = d
    BY ReaderFields, Zenon
  <2>4. Then(Reader(d, s, n4), value) = Reader(value, s, n4)
    BY ReaderThen, SMT
  <2> QED
    BY <2>2, <2>3, <2>4, Zenon
<1>9. decodeRemainingLength(r) = Then(e, value)
  <2>1. ~(~x.ok \/ x.v < 128)
    BY <1>5, Zenon
  <2>2. ~(~y.ok \/ y.v < 128)
    BY <1>6, Zenon
  <2>3. ~(~z.ok \/ z.v < 128)
    BY <1>7, Zenon
  <2>4. ~e.ok \/ e.v < 128
    BY <1>8, Zenon
  <2> QED
    BY <2>1, <2>2, <2>3, <2>4, Zenon DEF decodeRemainingLength, value, x, y, z, e
<1>10. value = A + 128 * (B + 128 * (C + 128 * d))
  <2>1. x.v % 128 = A
    BY <1>5, Zenon
  <2>2. y.v % 128 = B
    BY <1>6, Zenon
  <2>3. z.v % 128 = C
    BY <1>7, Zenon
  <2>4. e.v = d
    BY <1>8, Zenon
  <2> QED
    BY <2>1, <2>2, <2>3, <2>4, Zenon DEF value
<1> QED
  BY <1>8, <1>9, <1>10, Zenon DEF r, n4, s0, t, u, w

\* A byte in front makes a sequence of bytes one longer.
LEMMA Prefixed ==
  \A b \in Byte : \A s \in Seq(Byte) :
    <<b>> \o s \in Seq(Byte) /\ Len(<<b>> \o s) = 1 + Len(s)
BY SMT

\* The bytes of a length, with s behind them.
LEMMA Listed ==
  ASSUME NEW S, NEW s \in Seq(S), NEW a \in S, NEW b \in S, NEW c \in S, NEW d \in S
  PROVE  /\ (<<a>> \o <<b>>) \o s = <<a>> \o (<<b>> \o s)
         /\ (<<a>> \o (<<b>> \o <<c>>)) \o s = <<a>> \o (<<b>> \o (<<c>> \o s))
         /\ (<<a>> \o (<<b>> \o (<<c>> \o <<d>>))) \o s
              = <<a>> \o (<<b>> \o (<<c>> \o (<<d>> \o s)))
<1> DEFINE q == <<b>> \o <<c>>
           p == <<c>> \o <<d>>
           r == <<b>> \o p
<1>1. <<b>> \in Seq(S) /\ <<c>> \in Seq(S) /\ <<d>> \in Seq(S)
  BY SMT
<1>2. q \in Seq(S) /\ p \in Seq(S)
  BY <1>1, Behind, Zenon
<1>3. r \in Seq(S)
  BY <1>2, Behind, Zenon
<1>4. (<<a>> \o <<b>>) \o s = <<a>> \o (<<b>> \o s)
  BY <1>1, Strung, Zenon
<1>5. (<<a>> \o q) \o s = <<a>> \o (<<b>> \o (<<c>> \o s))
  <2>1. (<<a>> \o q) \o s = <<a>> \o (q \o s)
    BY <1>2, Strung, Zenon
  <2>2. q \o s = <<b>> \o (<<c>> \o s)
    BY <1>1, Strung, Zenon
  <2> QED
    BY <2>1, <2>2, Zenon
<1>6. (<<a>> \o r) \o s = <<a>> \o (<<b>> \o (<<c>> \o (<<d>> \o s)))
  <2>1. (<<a>> \o r) \o s = <<a>> \o (r \o s)
    <3> HIDE DEF r
    <3> QED
      BY <1>3, Strung, Zenon
  <2>2. r \o s = <<b>> \o (p \o s)
    BY <1>2, Strung, Zenon
  <2>3. p \o s = <<c>> \o (<<d>> \o s)
    BY <1>1, Strung, Zenon
  <2> QED
    BY <2>1, <2>2, <2>3, Zenon
<1> QED
  BY <1>4, <1>5, <1>6, Zenon

\* A byte that says that another follows keeps seven bits.
LEMMA Continued ==
  ASSUME NEW n \in Nat
  PROVE  /\ 128 + (n % 128) \in Byte
         /\ ~(128 + (n % 128) < 128)
         /\ (128 + (n % 128)) % 128 = n % 128
  BY SMT DEF Byte

\* encodeRemainingLength and decodeRemainingLength are inverses: for every
\* length up to MaxRemainingLength, with whatever bytes behind it, the decoder
\* reads the length that was written and stops at its last byte.
\* encodedLengthSize, the server's own count, is the number of those bytes.
THEOREM LengthsExact ==
  ASSUME NEW n, n \in Nat, n <= MaxRemainingLength, NEW v, NEW rest \in Seq(Byte),
         NEW l, l \in Nat, l >= encodedLengthSize(n)
  PROVE  LET coded == encodeRemainingLength(n)
             size == encodedLengthSize(n)
         IN  /\ coded \in Seq(Byte)
             /\ Len(coded) = size /\ size \in 1 .. 4
             /\ decodeRemainingLength(Reader(v, coded \o rest, l)) = Reader(n, rest, l - size)
<1> DEFINE m == n \div 128
           k == m \div 128
           j == k \div 128
           a == 128 + (n % 128)
           b == 128 + (m % 128)
           c == 128 + (k % 128)
           A == n % 128
           B == m % 128
           C == k % 128
           coded == encodeRemainingLength(n)
           size == encodedLengthSize(n)
           Exact == /\ coded \in Seq(Byte) /\ Len(coded) = size /\ size \in 1 .. 4
                    /\ decodeRemainingLength(Reader(v, coded \o rest, l))
                         = Reader(n, rest, l - size)
<1>0. /\ m = n \div 128 /\ k = m \div 128 /\ j = k \div 128
      /\ A = n % 128 /\ B = m % 128 /\ C = k % 128
      /\ a = 128 + A /\ b = 128 + B /\ c = 128 + C
      /\ l >= size
  BY SMT
<1>3. coded = IF m = 0 THEN <<n>>
              ELSE <<a>> \o (IF k = 0 THEN <<m>>
                             ELSE <<b>> \o (IF j = 0 THEN <<k>> ELSE <<c>> \o <<j>>))
  BY Zenon DEF encodeRemainingLength
<1>4. size = 1 + (IF m > 0 THEN 1 ELSE 0) + (IF k > 0 THEN 1 ELSE 0)
               + (IF j > 0 THEN 1 ELSE 0)
  BY Zenon DEF encodedLengthSize, Flag
<1> SUFFICES Exact
  BY SMT
<1> HIDE DEF m, k, j, a, b, c, A, B, C, coded, size, Exact
<1>1. /\ m \in Nat /\ k \in Nat /\ j \in 0 .. 127
      /\ A \in 0 .. 127 /\ B \in 0 .. 127 /\ C \in 0 .. 127
      /\ n = A + 128 * m /\ m = B + 128 * k /\ k = C + 128 * j
  <2>1. m \in Nat /\ A \in 0 .. 127 /\ n = A + 128 * m
    BY <1>0, SMT
  <2>2. k \in Nat /\ B \in 0 .. 127 /\ m = B + 128 * k
    BY <1>0, <2>1, SMT
  <2>3. j \in Nat /\ C \in 0 .. 127 /\ k = C + 128 * j
    BY <1>0, <2>2, SMT
  <2>4. j <= 127
    BY <2>1, <2>2, <2>3, SMT DEF MaxRemainingLength
  <2> QED
    BY <2>1, <2>2, <2>3, <2>4, SMT
<1>2. /\ a \in Byte /\ ~(a < 128) /\ A = a % 128
      /\ b \in Byte /\ ~(b < 128) /\ B = b % 128
      /\ c \in Byte /\ ~(c < 128) /\ C = c % 128
  BY <1>0, <1>1, Continued, SMT
<1>5. ASSUME NEW d \in 0 .. 127
      PROVE  /\ d \in Byte /\ d < 128
             /\ <<d>> \in Seq(Byte) /\ Len(<<d>>) = 1
  BY SMT DEF Byte
<1>6. CASE m = 0
  <2>1. n \in 0 .. 127 /\ k = 0 /\ j = 0
    BY <1>1, <1>6, SMT
  <2>2. coded = <<n>> /\ size = 1 /\ l > 0 /\ 1 \in 1 .. 4
    <3>1. coded = <<n>>
      BY <1>1, <1>3, <1>6, <2>1, SMT
    <3>2. size = 1
      BY <1>1, <1>4, <1>6, <2>1, SMT
    <3> QED
      BY <1>0, <3>1, <3>2, SMT
  <2>3. n \in Byte /\ n < 128 /\ <<n>> \in Seq(Byte) /\ Len(<<n>>) = 1
    BY <1>5, <2>1, Zenon
  <2>4. decodeRemainingLength(Reader(v, <<n>> \o rest, l)) = Reader(n, rest, l - 1)
    BY <2>2, <2>3, DecodesOne, SMT
  <2> QED
    BY <2>2, <2>3, <2>4, Zenon DEF Exact
<1>7. CASE m # 0 /\ k = 0
  <2>1. m \in 0 .. 127 /\ m > 0 /\ j = 0 /\ n = A + 128 * m
    BY <1>1, <1>7, SMT
  <2>2. coded = <<a>> \o <<m>> /\ size = 2 /\ l > 1 /\ 2 \in 1 .. 4
    <3>1. coded = <<a>> \o <<m>>
      BY <1>1, <1>3, <1>7, <2>1, SMT
    <3>2. size = 2
      BY <1>1, <1>4, <1>7, <2>1, SMT
    <3> QED
      BY <1>0, <3>1, <3>2, SMT
  <2>3. m \in Byte /\ m < 128 /\ <<m>> \in Seq(Byte) /\ Len(<<m>>) = 1
    BY <1>5, <2>1, Zenon
  <2>4. <<a>> \o <<m>> \in Seq(Byte) /\ Len(<<a>> \o <<m>>) = 2
    BY <1>2, <2>3, Behind, SMT
  <2>5. (<<a>> \o <<m>>) \o rest = <<a>> \o (<<m>> \o rest)
    BY <1>2, <2>3, Listed, SMT
  <2>6. decodeRemainingLength(Reader(v, <<a>> \o (<<m>> \o rest), l))
          = Reader(A + 128 * m, rest, l - 2)
    BY <1>2, <2>2, <2>3, DecodesTwo, SMT
  <2> QED
    BY <2>1, <2>2, <2>4, <2>5, <2>6, Zenon DEF Exact
<1>8. CASE k # 0 /\ j = 0
  <2> DEFINE q == <<b>> \o <<k>>
  <2>1. k \in 0 .. 127 /\ k > 0 /\ m > 0 /\ n = A + 128 * (B + 128 * k)
    BY <1>1, <1>8, SMT
  <2>2. coded = <<a>> \o q /\ size = 3 /\ l > 2 /\ 3 \in 1 .. 4
    <3>1. coded = <<a>> \o q
      BY <1>1, <1>3, <1>8, <2>1, SMT
    <3>2. size = 3
      BY <1>1, <1>4, <1>8, <2>1, SMT
    <3> QED
      BY <1>0, <3>1, <3>2, SMT
  <2>3. k \in Byte /\ k < 128 /\ <<k>> \in Seq(Byte) /\ Len(<<k>>) = 1
    BY <1>5, <2>1, Zenon
  <2>4. q \in Seq(Byte) /\ Len(q) = 2
    BY <1>2, <2>3, Behind, SMT
  <2>5. (<<a>> \o q) \o rest = <<a>> \o (<<b>> \o (<<k>> \o rest))
    BY <1>2, <2>3, Listed, SMT
  <2>6. decodeRemainingLength(Reader(v, <<a>> \o (<<b>> \o (<<k>> \o rest)), l))
          = Reader(A + 128 * (B + 128 * k), rest, l - 3)
    <3>1. l > 2 /\ k \in Byte /\ k < 128
      BY <2>2, <2>3, SMT
    <3> QED
      BY <1>2, <3>1, DecodesThree, SMT
  <2> HIDE DEF q
  <2>7. <<a>> \o q \in Seq(Byte) /\ Len(<<a>> \o q) = 3
    <3>1. a \in Byte /\ b \in Byte
      BY <1>2, SMT
    <3>2. <<a>> \o q \in Seq(Byte) /\ Len(<<a>> \o q) = 1 + Len(q)
      BY <2>4, <3>1, Prefixed, Zenon
    <3> QED
      BY <2>4, <3>2, SMT
  <2> QED
    BY <2>1, <2>2, <2>5, <2>6, <2>7, Zenon DEF Exact
<1>9. CASE j # 0
  <2> DEFINE p == <<c>> \o <<j>>
             q == <<b>> \o p
  <2>1. j > 0 /\ k > 0 /\ m > 0 /\ n = A + 128 * (B + 128 * (C + 128 * j))
    BY <1>1, <1>9, SMT
  <2>2. coded = <<a>> \o q /\ size = 4 /\ l > 3 /\ 4 \in 1 .. 4
    <3>0. ~(m = 0) /\ ~(k = 0) /\ ~(j = 0)
      BY <1>9, <2>1, SMT
    <3>1. coded = <<a>> \o q
      BY <1>3, <3>0, Zenon
    <3>2. size = 4
      BY <1>1, <1>4, <1>9, <2>1, SMT
    <3> QED
      BY <1>0, <3>1, <3>2, SMT
  <2>3. j \in Byte /\ j < 128 /\ <<j>> \in Seq(Byte) /\ Len(<<j>>) = 1
    BY <1>1, <1>5, Zenon
  <2>4. p \in Seq(Byte) /\ Len(p) = 2
    BY <1>2, <2>3, Behind, SMT
  <2>5. (<<a>> \o q) \o rest = <<a>> \o (<<b>> \o (<<c>> \o (<<j>> \o rest)))
    BY <1>2, <2>3, Listed, SMT
  <2>6. decodeRemainingLength(Reader(v, <<a>> \o (<<b>> \o (<<c>> \o (<<j>> \o rest))), l))
          = Reader(A + 128 * (B + 128 * (C + 128 * j)), rest, l - 4)
    <3>1. l > 3 /\ j \in Byte /\ j < 128
      BY <2>2, <2>3, SMT
    <3> QED
      BY <1>2, <3>1, DecodesFour, SMT
  <2> HIDE DEF p
  <2>7. q \in Seq(Byte) /\ Len(q) = 3
    <3>1. a \in Byte /\ b \in Byte
      BY <1>2, SMT
    <3>2. q \in Seq(Byte) /\ Len(q) = 1 + Len(p)
      BY <2>4, <3>1, Prefixed, Zenon
    <3> QED
      BY <2>4, <3>2, SMT
  <2> HIDE DEF q
  <2>8. <<a>> \o q \in Seq(Byte) /\ Len(<<a>> \o q) = 4
    <3>1. a \in Byte
      BY <1>2, SMT
    <3>2. <<a>> \o q \in Seq(Byte) /\ Len(<<a>> \o q) = 1 + Len(q)
      BY <2>7, <3>1, Prefixed, Zenon
    <3> QED
      BY <2>7, <3>2, SMT
  <2> QED
    BY <2>1, <2>2, <2>5, <2>6, <2>8, Zenon DEF Exact
<1> QED
  BY <1>1, <1>6, <1>7, <1>8, <1>9, SMT

\* The elements of two sequences in a row.
LEMMA Joined ==
  ASSUME NEW S, NEW p \in Seq(S), NEW q \in Seq(S)
  PROVE  /\ p \o q \in Seq(S)
         /\ Len(p \o q) = Len(p) + Len(q)
         /\ \A k \in 1 .. Len(p) + Len(q) :
              (p \o q)[k] = IF k <= Len(p) THEN p[k] ELSE q[k - Len(p)]
BY SMT

\* Two sequences that differ in their first element at most.
SameTail(p, q) ==
  Len(p) = Len(q) /\ Len(p) > 0 /\ \A i \in 2 .. Len(p) : p[i] = q[i]

\* What is written behind two such sequences does not make them differ more.
LEMMA SameTailJoined ==
  ASSUME NEW S, NEW p \in Seq(S), NEW q \in Seq(S), NEW s \in Seq(S), SameTail(p, q)
  PROVE  /\ p \o s \in Seq(S) /\ q \o s \in Seq(S)
         /\ Len(p \o s) = Len(p) + Len(s)
         /\ (p \o s)[1] = p[1] /\ (q \o s)[1] = q[1]
         /\ SameTail(p \o s, q \o s)
<1>1. /\ p \o s \in Seq(S) /\ q \o s \in Seq(S)
      /\ Len(p \o s) = Len(p) + Len(s) /\ Len(q \o s) = Len(q) + Len(s)
      /\ \A k \in 1 .. Len(p) + Len(s) : (p \o s)[k] = IF k <= Len(p) THEN p[k] ELSE s[k - Len(p)]
      /\ \A k \in 1 .. Len(q) + Len(s) : (q \o s)[k] = IF k <= Len(q) THEN q[k] ELSE s[k - Len(q)]
  BY Joined, SMT
<1>2. Len(p) \in Nat /\ Len(s) \in Nat /\ Len(p) = Len(q) /\ Len(p) > 0
  BY SMT DEF SameTail
<1>3. (p \o s)[1] = p[1] /\ (q \o s)[1] = q[1]
  BY <1>1, <1>2, SMT
<1>4. ASSUME NEW i \in 2 .. Len(p) + Len(s) PROVE (p \o s)[i] = (q \o s)[i]
  <2>1. CASE i <= Len(p)
    BY <1>1, <1>2, <2>1, SMT DEF SameTail
  <2>2. CASE ~(i <= Len(p))
    BY <1>1, <1>2, <2>2, SMT
  <2> QED
    BY <2>1, <2>2, Zenon
<1> QED
  BY <1>1, <1>2, <1>3, <1>4, SMT DEF SameTail

\* The bytes of a template and of the packet that is made of it: they differ in
\* the first byte and in the two after o of them.
Differ(p, q, u, w, z, o) ==
  /\ p \in Seq(Byte) /\ q \in Seq(Byte) /\ SameTail(p, q) /\ o = Len(p)
  /\ u \in Seq(Byte) /\ Len(u) = 2 /\ w \in Seq(Byte) /\ Len(w) = 2
  /\ z \in Seq(Byte)
Completed(raw, o, a, c, d) == [raw EXCEPT ![1] = a, ![o + 1] = c, ![o + 2] = d]

\* What Next writes into a copy of the one makes it the other.
LEMMA Patched ==
  ASSUME NEW p, NEW q, NEW u, NEW w, NEW z, NEW o, Differ(p, q, u, w, z, o)
  PROVE  Completed((p \o u) \o z, o, First(q), First(w), Second(w)) = (q \o w) \o z
<1> DEFINE pu == p \o u
           qw == q \o w
           r == pu \o z
           t == qw \o z
           n == Len(p) + 2 + Len(z)
           e == [r EXCEPT ![1] = q[1], ![o + 1] = w[1], ![o + 2] = w[2]]
<1> /\ p \in Seq(Byte) /\ q \in Seq(Byte) /\ SameTail(p, q) /\ o = Len(p)
    /\ u \in Seq(Byte) /\ Len(u) = 2 /\ w \in Seq(Byte) /\ Len(w) = 2
    /\ z \in Seq(Byte)
  BY SMT DEF Differ
<1>1. Len(p) \in Nat /\ Len(z) \in Nat /\ Len(q) = Len(p) /\ Len(p) > 0
  BY SMT DEF SameTail
<1>2. /\ pu \in Seq(Byte) /\ Len(pu) = Len(p) + 2
      /\ \A k \in 1 .. Len(p) + 2 : pu[k] = IF k <= Len(p) THEN p[k] ELSE u[k - Len(p)]
  <2>1. /\ pu \in Seq(Byte) /\ Len(pu) = Len(p) + Len(u)
        /\ \A k \in 1 .. Len(p) + Len(u) : pu[k] = IF k <= Len(p) THEN p[k] ELSE u[k - Len(p)]
    BY Joined, Zenon
  <2> QED
    BY <2>1, SMT
<1>3. /\ qw \in Seq(Byte) /\ Len(qw) = Len(p) + 2
      /\ \A k \in 1 .. Len(p) + 2 : qw[k] = IF k <= Len(p) THEN q[k] ELSE w[k - Len(p)]
  <2>1. /\ qw \in Seq(Byte) /\ Len(qw) = Len(q) + Len(w)
        /\ \A k \in 1 .. Len(q) + Len(w) : qw[k] = IF k <= Len(q) THEN q[k] ELSE w[k - Len(q)]
    BY Joined, Zenon
  <2> QED
    BY <1>1, <2>1, SMT
<1> HIDE DEF pu, qw
<1>4. /\ r \in Seq(Byte) /\ Len(r) = n
      /\ \A k \in 1 .. n : r[k] = IF k <= Len(p) + 2 THEN pu[k] ELSE z[k - (Len(p) + 2)]
  <2>1. /\ r \in Seq(Byte) /\ Len(r) = Len(pu) + Len(z)
        /\ \A k \in 1 .. Len(pu) + Len(z) : r[k] = IF k <= Len(pu) THEN pu[k] ELSE z[k - Len(pu)]
    <3>1. pu \in Seq(Byte)
      BY <1>2, SMT
    <3> QED
      BY <3>1, Joined, SMT
  <2> QED
    BY <1>2, <2>1, SMT
<1>5. /\ t \in Seq(Byte) /\ Len(t) = n
      /\ \A k \in 1 .. n : t[k] = IF k <= Len(p) + 2 THEN qw[k] ELSE z[k - (Len(p) + 2)]
  <2>1. /\ t \in Seq(Byte) /\ Len(t) = Len(qw) + Len(z)
        /\ \A k \in 1 .. Len(qw) + Len(z) : t[k] = IF k <= Len(qw) THEN qw[k] ELSE z[k - Len(qw)]
    <3>1. qw \in Seq(Byte)
      BY <1>3, SMT
    <3> QED
      BY <3>1, Joined, SMT
  <2> QED
    BY <1>3, <2>1, SMT
<1> HIDE DEF r, t
<1>6. DOMAIN r = 1 .. n /\ r = [k \in 1 .. n |-> r[k]] /\ t = [k \in 1 .. n |-> t[k]]
  BY <1>4, <1>5, SMT
<1>7. ASSUME NEW k \in 1 .. n
      PROVE  t[k] = IF k = o + 2 THEN w[2] ELSE IF k = o + 1 THEN w[1]
                    ELSE IF k = 1 THEN q[1] ELSE r[k]
  <2>1. CASE k = 1
    <3>1. t[k] = qw[k] /\ qw[k] = q[k]
      BY <1>1, <1>3, <1>5, <2>1, SMT
    <3> QED
      BY <1>1, <2>1, <3>1, SMT
  <2>2. CASE k \in 2 .. Len(p)
    <3>1. p[k] = q[k]
      BY <2>2, SMT DEF SameTail
    <3>2. t[k] = qw[k] /\ r[k] = pu[k]
      BY <1>1, <1>4, <1>5, <2>2, SMT
    <3>3. qw[k] = q[k] /\ pu[k] = p[k]
      BY <1>1, <1>2, <1>3, <2>2, SMT
    <3> QED
      BY <1>1, <2>2, <3>1, <3>2, <3>3, SMT
  <2>3. CASE k = Len(p) + 1
    BY <1>1, <1>3, <1>5, <2>3, SMT
  <2>4. CASE k = Len(p) + 2
    BY <1>1, <1>3, <1>5, <2>4, SMT
  <2>5. CASE k > Len(p) + 2
    <3>1. t[k] = z[k - (Len(p) + 2)] /\ r[k] = z[k - (Len(p) + 2)]
      BY <1>1, <1>4, <1>5, <2>5, SMT
    <3> QED
      BY <1>1, <2>5, <3>1, SMT
  <2> QED
    BY <1>1, <2>1, <2>2, <2>3, <2>4, <2>5, SMT
<1>8. e = [k \in 1 .. n |-> IF k = o + 2 THEN w[2] ELSE IF k = o + 1 THEN w[1]
                             ELSE IF k = 1 THEN q[1] ELSE r[k]]
  BY <1>1, <1>6, Zenon
<1>9. e = t
  BY <1>6, <1>7, <1>8, Zenon
<1> QED
  BY <1>9, Zenon DEF r, t, pu, qw, Completed, First, Second

\* What EncodePublish writes before the identifier of a PUBLISH of QoS 1, and
\* all of it.
Opening(retain, dup) == 48 + Flag(dup, 8) + 2 * 1 + Flag(retain, 1)
Preamble(topic, payload, retain, dup) ==
  <<Opening(retain, dup)>>
  \o encodeRemainingLength(2 + Len(topic) + 2 + Len(payload))
  \o Uint16(Len(topic)) \o topic
Whole(topic, payload, retain, dup, pid) ==
  (Preamble(topic, payload, retain, dup) \o Uint16(pid)) \o payload

\* EncodePublish accepts a PUBLISH of QoS 1 that has an identifier, a valid
\* topic and room for it all.
LEMMA Encoded ==
  ASSUME NEW p, p.qos = 1, ~(p.pid = 0), validateTopicName(p.topic),
         2 + Len(p.topic) + 2 + Len(p.payload) <= MaxRemainingLength,
         Len(p.topic) \in Nat, Len(p.payload) \in Nat
  PROVE  EncodePublish(p) = Written(Whole(p.topic, p.payload, p.retain, p.dup, p.pid))
<1> DEFINE max == MaxRemainingLength
           rem == 2 + Len(p.topic) + 2 + Len(p.payload)
<1>1. Flag(p.qos > 0, 2) = 2 /\ p.qos > 0 /\ ~(p.qos > 1) /\ ~(p.qos = 0)
  BY SMT DEF Flag
<1>2. ~(rem > max)
  <2>1. MaxRemainingLength \in Nat
    BY SMT DEF MaxRemainingLength
  <2>2. \A x, y, m \in Nat : 2 + x + 2 + y <= m => ~(2 + x + 2 + y > m)
    BY SMT
  <2> QED
    BY <2>1, <2>2, Zenon
<1> QED
  BY <1>1, <1>2, Zenon DEF EncodePublish, Whole, Preamble, Opening

\* A sequence of two.
LEMMA Pair ==
  ASSUME NEW S, NEW a \in S, NEW b \in S
  PROVE  <<a, b>> \in Seq(S) /\ Len(<<a, b>>) = 2 /\ <<a, b>>[1] = a /\ <<a, b>>[2] = b
  BY SMT

\* The numbers of two bytes.
LEMMA WordIs == \A n \in Word : n \in Nat /\ n < 65536
BY SMT DEF Word

\* Both bytes of such a number are below 256.
LEMMA Quotient ==
  \A n \in Nat : n < 65536 => n \div 256 \in 0 .. 255 /\ n % 256 \in 0 .. 255
BY SMT

\* Uint16 writes two bytes.
LEMMA Halves ==
  \A n \in Word : /\ Uint16(n) \in Seq(Byte) /\ Len(Uint16(n)) = 2
                  /\ First(Uint16(n)) = n \div 256 /\ Second(Uint16(n)) = n % 256
<1> TAKE n \in Word
<1> DEFINE a == n \div 256
           b == n % 256
<1>1. a \in Byte /\ b \in Byte
  BY WordIs, Quotient, SMT DEF Byte
<1> HIDE DEF a, b
<1>2. <<a, b>> \in Seq(Byte) /\ Len(<<a, b>>) = 2 /\ <<a, b>>[1] = a /\ <<a, b>>[2] = b
  BY <1>1, Pair, SMT
<1> QED
  BY <1>2, Zenon DEF Uint16, First, Second, a, b

\* The first byte of a template says PUBLISH and QoS 1, and with the DUP bit
\* set as Next sets it, it is the first byte of the packet.
LEMMA FirstByte ==
  ASSUME NEW retain \in BOOLEAN, NEW dup \in BOOLEAN
  PROVE  LET b == Opening(retain, FALSE)
             c == Opening(retain, dup)
         IN  /\ b \in Byte /\ c \in Byte
             /\ b - Flag(Bit(b, 8), 8) + Flag(dup, 8) = c
             /\ b \div 16 = 3 /\ TwoBits(b, 2) = 1
  BY SMT DEF Opening, Flag, Bit, TwoBits, Byte

\* Two sequences of bytes, one of which may say DUP.
Alike(p, q) == p \in Seq(Byte) /\ q \in Seq(Byte) /\ SameTail(p, q)

\* SameTailJoined, for bytes.
LEMMA Tails ==
  \A p, q : \A s \in Seq(Byte) : Alike(p, q) =>
    /\ Alike(p \o s, q \o s)
    /\ Len(p \o s) = Len(p) + Len(s)
    /\ First(p \o s) = First(p) /\ First(q \o s) = First(q)
<1> TAKE p, q
<1> TAKE s \in Seq(Byte)
<1> HAVE Alike(p, q)
<1>1. p \in Seq(Byte) /\ q \in Seq(Byte) /\ SameTail(p, q)
  BY SMT DEF Alike
<1>2. /\ p \o s \in Seq(Byte) /\ q \o s \in Seq(Byte)
      /\ Len(p \o s) = Len(p) + Len(s)
      /\ (p \o s)[1] = p[1] /\ (q \o s)[1] = q[1]
      /\ SameTail(p \o s, q \o s)
  BY <1>1, SameTailJoined, Zenon
<1> QED
  BY <1>2, Zenon DEF Alike, First

\* The identifier a template is encoded with.
LEMMA OneIsWord == 1 \in Word
BY SMT DEF Word

\* With and without DUP, what comes before the identifier differs in the
\* first byte at most, and it has as many bytes as publishPacketIDOffset says.
LEMMA Preambles ==
  ASSUME NEW topic \in Seq(Byte), Len(topic) \in Word, NEW payload \in Seq(Byte),
         2 + Len(topic) + 2 + Len(payload) <= MaxRemainingLength,
         NEW retain \in BOOLEAN, NEW dup \in BOOLEAN
  PROVE  LET p == Preamble(topic, payload, retain, FALSE)
             q == Preamble(topic, payload, retain, dup)
         IN  /\ Alike(p, q)
             /\ Len(p) = publishPacketIDOffset(topic, Len(payload))
             /\ Len(p) \in Nat /\ Len(p) >= 2
             /\ First(p) = Opening(retain, FALSE)
             /\ First(q) = Opening(retain, dup)
<1> DEFINE b == Opening(retain, FALSE)
           c == Opening(retain, dup)
           rem == 2 + Len(topic) + 2 + Len(payload)
           size == encodedLengthSize(rem)
           L == encodeRemainingLength(rem)
           U == Uint16(Len(topic))
           p0 == <<b>>
           q0 == <<c>>
           p1 == p0 \o L
           q1 == q0 \o L
           p2 == p1 \o U
           q2 == q1 \o U
           p3 == p2 \o topic
           q3 == q2 \o topic
<1>1. Len(topic) \in Nat /\ Len(payload) \in Nat
  BY SMT
<1>2. b \in Byte /\ c \in Byte
  BY FirstByte, Zenon
<1>3. L \in Seq(Byte) /\ Len(L) = size /\ size \in 1 .. 4
  <2>1. rem \in Nat
    BY <1>1, SMT
  <2> HIDE DEF rem
  <2>2. size \in Nat
    BY <2>1, SMT DEF encodedLengthSize, Flag
  <2>3. size >= size
    BY <2>2, SMT
  <2>4. <<>> \in Seq(Byte)
    BY SMT
  <2>5. rem <= MaxRemainingLength
    BY SMT DEF rem
  <2> QED
    BY <2>1, <2>2, <2>3, <2>4, <2>5, LengthsExact, Zenon
<1>4. U \in Seq(Byte) /\ Len(U) = 2
  BY Halves, Zenon
<1> HIDE DEF b, c, L, U, size
<1>5. Alike(p0, q0)
      /\ Len(p0) = 1 /\ First(p0) = b /\ First(q0) = c
  BY <1>2, SMT DEF Alike, SameTail, First
<1> HIDE DEF p0, q0
<1>6. /\ Alike(p1, q1)
      /\ Len(p1) = Len(p0) + Len(L) /\ First(p1) = First(p0) /\ First(q1) = First(q0)
  <2>1. Alike(p0, q0) /\ L \in Seq(Byte)
    BY <1>3, <1>5, Zenon
  <2> QED
    BY <2>1, Tails, Zenon
<1> HIDE DEF p1, q1
<1>7. /\ Alike(p2, q2)
      /\ Len(p2) = Len(p1) + Len(U) /\ First(p2) = First(p1) /\ First(q2) = First(q1)
  <2>1. Alike(p1, q1) /\ U \in Seq(Byte)
    BY <1>4, <1>6, Zenon
  <2> QED
    BY <2>1, Tails, Zenon
<1> HIDE DEF p2, q2
<1>8. /\ Alike(p3, q3)
      /\ Len(p3) = Len(p2) + Len(topic) /\ First(p3) = First(p2) /\ First(q3) = First(q2)
  <2>1. Alike(p2, q2) /\ topic \in Seq(Byte)
    BY <1>7, Zenon
  <2> QED
    BY <2>1, Tails, Zenon
<1> HIDE DEF p3, q3
<1>9. Len(p3) = 1 + size + 2 + Len(topic) /\ First(p3) = b /\ First(q3) = c
  BY <1>3, <1>4, <1>5, <1>6, <1>7, <1>8, SMT
<1>10. Len(p3) \in Nat /\ Len(p3) >= 2
  BY <1>1, <1>3, <1>9, SMT
<1>11. /\ p3 = Preamble(topic, payload, retain, FALSE)
       /\ q3 = Preamble(topic, payload, retain, dup)
  BY Zenon DEF p3, q3, p2, q2, p1, q1, p0, q0, b, c, L, U, Preamble
<1>12. publishPacketIDOffset(topic, Len(payload)) = 1 + size + 2 + Len(topic)
  BY Zenon DEF publishPacketIDOffset, size
<1> QED
  BY <1>8, <1>9, <1>10, <1>11, <1>12, Zenon DEF b, c

\* p is a PUBLISH of QoS 1 with these fields.
Bears(p, topic, payload, retain, dup, pid) ==
  /\ p.topic = topic /\ p.payload = payload /\ p.retain = retain
  /\ p.dup = dup /\ p.qos = 1 /\ p.pid = pid

\* What is routed: a message that fits in a packet, and an attempt to send it.
Ready(topic, payload, retain, pid, replay) ==
  /\ topic \in Seq(Byte) /\ Len(topic) \in Word /\ validateTopicName(topic)
  /\ payload \in Seq(Byte) /\ retain \in BOOLEAN
  /\ 2 + Len(topic) + 2 + Len(payload) <= MaxRemainingLength
  /\ pid \in Word /\ ~(pid = 0) /\ replay \in BOOLEAN

\* TemplateExact, for the two packets that EncodePublish is called with.
LEMMA Template ==
  ASSUME NEW topic, NEW payload, NEW retain, NEW pid, NEW replay, NEW one, NEW again,
         Ready(topic, payload, retain, pid, replay),
         Bears(one, topic, payload, retain, FALSE, 1),
         Bears(again, topic, payload, retain, replay, pid)
  PROVE  LET t == [raw |-> EncodePublish(one).v, offset |-> publishPacketIDOffset(topic, Len(payload))]
         IN  /\ Admissible(t)
             /\ EncodePublish(again).ok = TRUE
             /\ Attempt(t, pid, replay) = EncodePublish(again).v
<1> DEFINE o == publishPacketIDOffset(topic, Len(payload))
           u == Uint16(1)
           w == Uint16(pid)
           pre == Preamble(topic, payload, retain, FALSE)
           post == Preamble(topic, payload, retain, replay)
           raw == (pre \o u) \o payload
           t == [raw |-> raw, offset |-> o]
<1> /\ topic \in Seq(Byte) /\ Len(topic) \in Word /\ validateTopicName(topic)
    /\ payload \in Seq(Byte) /\ retain \in BOOLEAN
    /\ 2 + Len(topic) + 2 + Len(payload) <= MaxRemainingLength
    /\ pid \in Word /\ ~(pid = 0) /\ replay \in BOOLEAN
  BY Zenon DEF Ready
<1>4. Len(topic) \in Nat /\ Len(payload) \in Nat
  BY SMT
<1>6. EncodePublish(one) = Written(raw)
  <2>1. ~(1 = 0)
    BY SMT
  <2> QED
    BY <1>4, <2>1, Encoded, Zenon DEF Bears, Whole
<1>7. EncodePublish(again) = Written((post \o w) \o payload)
  BY <1>4, Encoded, Zenon DEF Bears, Whole
<1>8. /\ u \in Seq(Byte) /\ Len(u) = 2
      /\ w \in Seq(Byte) /\ Len(w) = 2 /\ First(w) = pid \div 256 /\ Second(w) = pid % 256
  BY OneIsWord, Halves, Zenon
<1>9. /\ Alike(pre, post)
      /\ Len(pre) = o /\ Len(pre) \in Nat /\ Len(pre) >= 2
      /\ First(pre) = Opening(retain, FALSE)
      /\ First(post) = Opening(retain, replay)
  BY Preambles, Zenon
<1> HIDE DEF pre, post, u, w, o
<1>10. First(raw) = First(pre) /\ Len(raw) = Len(pre) + 2 + Len(payload)
  <2> DEFINE pu == pre \o u
             pw == post \o u
  <2>1. /\ Alike(pu, pw)
        /\ Len(pu) = Len(pre) + Len(u) /\ First(pu) = First(pre)
    BY <1>8, <1>9, Tails, Zenon
  <2> HIDE DEF pu, pw
  <2>2. Len(pu \o payload) = Len(pu) + Len(payload) /\ First(pu \o payload) = First(pu)
    BY <2>1, Tails, Zenon
  <2>3. Len(pu \o payload) = Len(pre) + 2 + Len(payload)
    BY <1>8, <2>1, <2>2, SMT
  <2> QED
    BY <2>1, <2>2, <2>3, Zenon DEF pu
<1> HIDE DEF raw
<1>11. EncodePublish(one).v = raw
  <2>1. Written(raw).v = raw
    BY SMT DEF Written
  <2> QED
    BY <1>6, <2>1, Zenon
<1>12. t.raw = raw /\ t.offset = o
  BY SMT
<1> HIDE DEF t
<1>13. Admissible(t)
  <2>1. First(raw) \div 16 = 3 /\ TwoBits(First(raw), 2) = 1
    <3>1. First(raw) = Opening(retain, FALSE)
      BY <1>9, <1>10, Zenon
    <3> QED
      BY <3>1, FirstByte, Zenon
  <2>2. o \in 2 .. Len(raw) - 2
    BY <1>4, <1>9, <1>10, SMT
  <2> QED
    BY <1>12, <2>1, <2>2, Zenon DEF Admissible, First
<1>14. First(raw) - Flag(Bit(First(raw), 8), 8) + Flag(replay, 8) = First(post)
  <2>1. First(raw) = Opening(retain, FALSE)
    BY <1>9, <1>10, Zenon
  <2>2. First(post) = Opening(retain, replay)
    BY <1>9, Zenon
  <2> QED
    BY <2>1, <2>2, FirstByte, Zenon
<1>15. Completed(raw, o, First(post), First(w), Second(w)) = (post \o w) \o payload
  <2>1. Alike(pre, post) /\ o = Len(pre)
    BY <1>9, Zenon
  <2>2. u \in Seq(Byte) /\ Len(u) = 2 /\ w \in Seq(Byte) /\ Len(w) = 2
    BY <1>8, Zenon
  <2>3. Differ(pre, post, u, w, payload, o)
    BY <2>1, <2>2, Zenon DEF Differ, Alike
  <2>4. Completed((pre \o u) \o payload, o, First(post), First(w), Second(w))
          = (post \o w) \o payload
    BY <2>3, Patched, SMT
  <2> QED
    BY <2>4, SMT DEF raw
<1>16. Attempt(t, pid, replay) = (post \o w) \o payload
  BY <1>8, <1>12, <1>14, <1>15, Zenon DEF Attempt, Completed, First
<1>17. Written((post \o w) \o payload).ok /\ Written((post \o w) \o payload).v = (post \o w) \o payload
  BY SMT DEF Written
<1> QED
  BY <1>7, <1>11, <1>13, <1>16, <1>17, Zenon DEF t, o

\* A template stands for every packet it is completed to: for every valid
\* topic and payload that fit in a packet, Admit accepts the template that the
\* server encodes with identifier 1, and what Next makes of it for an
\* identifier and a first or a repeated attempt is byte for byte the PUBLISH
\* that EncodePublish would have written with that identifier and DUP flag.
THEOREM TemplateExact ==
  ASSUME NEW topic \in Seq(Byte), Len(topic) \in Word, validateTopicName(topic),
         NEW payload \in Seq(Byte), NEW retain \in BOOLEAN,
         2 + Len(topic) + 2 + Len(payload) <= MaxRemainingLength,
         NEW dup, NEW qos, NEW id, NEW pid \in Word, ~(pid = 0), NEW replay \in BOOLEAN
  PROVE  LET p == newOutboundPublish(PublishPacket(topic, payload, retain, dup, qos, id), 1)
             t == newPublishTemplate(p)
             sent == EncodePublish([p EXCEPT !.pid = pid, !.dup = replay])
         IN  /\ Admissible(t)
             /\ sent.ok = TRUE
             /\ Attempt(t, pid, replay) = sent.v
<1> DEFINE p == newOutboundPublish(PublishPacket(topic, payload, retain, dup, qos, id), 1)
           p1 == PublishPacket(topic, payload, retain, FALSE, 1, 0)
           one == [p1 EXCEPT !.pid = 1]
           again == [p1 EXCEPT !.pid = pid, !.dup = replay]
<1>1. p = p1
  <2>1. LET x == PublishPacket(topic, payload, retain, dup, qos, id)
        IN  x.topic = topic /\ x.payload = payload /\ x.retain = retain
    BY SMT DEF PublishPacket
  <2> QED
    BY <2>1, Zenon DEF newOutboundPublish
<1>2. p1.topic = topic /\ p1.payload = payload
  BY SMT DEF PublishPacket
<1>3. Bears(one, topic, payload, retain, FALSE, 1)
  BY SMT DEF PublishPacket, Bears
<1>4. Bears(again, topic, payload, retain, replay, pid)
  BY SMT DEF PublishPacket, Bears
<1> DEFINE t == [raw |-> EncodePublish(one).v, offset |-> publishPacketIDOffset(topic, Len(payload))]
<1>5. newPublishTemplate(p1) = t
  BY <1>2, Zenon DEF newPublishTemplate
<1> HIDE DEF p, p1, one, again
<1>6. /\ Admissible(t)
      /\ EncodePublish(again).ok = TRUE
      /\ Attempt(t, pid, replay) = EncodePublish(again).v
  <2>1. Ready(topic, payload, retain, pid, replay)
    BY Zenon DEF Ready
  <2> QED
    BY <1>3, <1>4, <2>1, Template, Zenon
<1> QED
  BY <1>1, <1>5, <1>6, Zenon DEF p, again

\* Concatenation is associative.
LEMMA Shifts ==
  \A x, y, z \in Seq(Byte) : (x \o y) \o z = x \o (y \o z)
  BY ConcatAssociative, SMT

\* What is written after bytes are bytes.
LEMMA Closed ==
  \A x, y \in Seq(Byte) : x \o y \in Seq(Byte) /\ Len(x \o y) = Len(x) + Len(y)
  BY SMT

\* A PUBLISH of QoS 1 says how long it is: for every packet that fits, and
\* whatever the connection carries behind it, the length that is decoded from
\* its header is the number of its bytes that follow the header.
THEOREM PublishFramed ==
  ASSUME NEW topic, NEW payload, NEW retain, NEW pid, NEW dup,
         Ready(topic, payload, retain, pid, dup),
         NEW more \in Seq(Byte), NEW v, NEW l \in Nat, l >= 5
  PROVE  LET sent == EncodePublish(PublishPacket(topic, payload, retain, dup, 1, pid))
             r == decodeRemainingLength(readByte(Reader(v, sent.v \o more, l)))
         IN  /\ r.ok = TRUE
             /\ \E body \in Seq(Byte) : r.in = body \o more /\ r.v = Len(body)
<1> DEFINE p == PublishPacket(topic, payload, retain, dup, 1, pid)
           b == Opening(retain, dup)
           rem == 2 + Len(topic) + 2 + Len(payload)
           size == encodedLengthSize(rem)
           B == <<b>>
           L == encodeRemainingLength(rem)
           U == Uint16(Len(topic))
           P == Uint16(pid)
           c1 == U \o topic
           c2 == c1 \o P
           c3 == c2 \o payload
           c4 == c3 \o more
           left == l - 1
<1>1. /\ topic \in Seq(Byte) /\ Len(topic) \in Word /\ validateTopicName(topic)
      /\ payload \in Seq(Byte) /\ retain \in BOOLEAN
      /\ rem <= MaxRemainingLength
      /\ pid \in Word /\ ~(pid = 0) /\ dup \in BOOLEAN
  BY Zenon DEF Ready
<1>2. Len(topic) \in Nat /\ Len(payload) \in Nat /\ rem \in Nat
  BY <1>1, SMT
<1>3. EncodePublish(p) = Written(Whole(topic, payload, retain, dup, pid))
  <2>1. Bears(p, topic, payload, retain, dup, pid)
    BY SMT DEF Bears, PublishPacket
  <2> HIDE DEF p
  <2> QED
    BY <1>1, <1>2, <2>1, Encoded, Zenon DEF Bears
<1>4. b \in Byte /\ B \in Seq(Byte)
  <2>1. b \in Byte
    BY <1>1, FirstByte, Zenon
  <2> HIDE DEF b
  <2> QED
    BY <2>1, SMT
<1>5. U \in Seq(Byte) /\ Len(U) = 2 /\ P \in Seq(Byte) /\ Len(P) = 2
  BY <1>1, Halves, Zenon
<1> HIDE DEF rem
<1>6. size \in Nat
  BY <1>2, SMT DEF encodedLengthSize, Flag
<1>7. L \in Seq(Byte) /\ Len(L) = size /\ size \in 1 .. 4
  <2>1. size >= size
    BY <1>6, SMT
  <2> QED
    BY <1>1, <1>2, <1>6, <2>1, LengthsExact, Zenon
<1> HIDE DEF B, L, U, P, b, size, left
<1> DEFINE H == B \o L
<1>8. H \in Seq(Byte)
  BY <1>4, <1>7, Closed, Zenon
<1>9. H \o c4 = B \o (L \o c4)
  <2>1. c4 \in Seq(Byte)
    BY <1>1, <1>5, Closed, Zenon
  <2> HIDE DEF c4
  <2> QED
    BY <1>4, <1>7, <2>1, Shifts, Zenon
<1> HIDE DEF H
<1>10. c1 \in Seq(Byte) /\ Len(c1) = Len(U) + Len(topic)
  BY <1>1, <1>5, Closed, Zenon
<1>11. (H \o U) \o topic = H \o c1
  BY <1>1, <1>5, <1>8, Shifts, Zenon
<1> HIDE DEF c1
<1>12. c2 \in Seq(Byte) /\ Len(c2) = Len(c1) + Len(P)
  BY <1>5, <1>10, Closed, Zenon
<1>13. (H \o c1) \o P = H \o c2
  BY <1>5, <1>8, <1>10, Shifts, Zenon
<1> HIDE DEF c2
<1>14. c3 \in Seq(Byte) /\ Len(c3) = Len(c2) + Len(payload)
  BY <1>1, <1>12, Closed, Zenon
<1>15. (H \o c2) \o payload = H \o c3
  BY <1>1, <1>8, <1>12, Shifts, Zenon
<1> HIDE DEF c3
<1>16. c4 \in Seq(Byte) /\ L \o c4 \in Seq(Byte) /\ (H \o c3) \o more = H \o c4
  <2>1. c4 \in Seq(Byte)
    BY <1>14, Closed, Zenon
  <2>2. L \o c4 \in Seq(Byte)
    <3> HIDE DEF c4
    <3> QED
      BY <1>7, <2>1, Closed, Zenon
  <2>3. (H \o c3) \o more = H \o c4
    BY <1>8, <1>14, Shifts, Zenon
  <2> QED
    BY <2>1, <2>2, <2>3, Zenon
<1>17. Len(c3) = rem
  BY <1>1, <1>2, <1>5, <1>10, <1>12, <1>14, SMT DEF rem
<1>18. Whole(topic, payload, retain, dup, pid) \o more = B \o (L \o c4)
  BY <1>9, <1>11, <1>13, <1>15, <1>16, Zenon DEF Whole, Preamble, H, B, b, L, U, P, rem
<1> HIDE DEF c4
<1>19. Written(Whole(topic, payload, retain, dup, pid)).v = Whole(topic, payload, retain, dup, pid)
  BY SMT DEF Written
<1>20. EncodePublish(p).v \o more = B \o (L \o c4)
  BY <1>3, <1>18, <1>19, Zenon
<1>21. left \in Nat /\ left >= size /\ left = l - 1 /\ l > 0
  BY <1>7, SMT DEF left
<1>22. readByte(Reader(v, B \o (L \o c4), l)) = Reader(b, L \o c4, left)
  <2> DEFINE s == L \o c4
  <2>1. s \in Seq(Byte)
    BY <1>16, SMT
  <2> HIDE DEF s
  <2>2. readByte(Reader(v, <<b>> \o s, l)) = Reader(b, s, left)
    BY <1>4, <1>21, <2>1, ReadsByte, SMT
  <2> QED
    BY <2>2, Zenon DEF B, s
<1>23. decodeRemainingLength(Reader(b, L \o c4, left)) = Reader(rem, c4, left - size)
  <2>1. rem \in Nat /\ rem <= MaxRemainingLength /\ c4 \in Seq(Byte)
    BY <1>1, <1>2, <1>16, Zenon
  <2>2. left \in Nat /\ left >= encodedLengthSize(rem)
    BY <1>21, Zenon DEF size
  <2> QED
    BY <2>1, <2>2, LengthsExact, Zenon DEF L, size
<1> DEFINE r == Reader(rem, c4, left - size)
<1>24. r.ok = TRUE /\ r.in = c4 /\ r.v = rem
  BY SMT DEF Reader
<1>25. c4 = c3 \o more
  BY SMT DEF c4
<1> QED
  BY <1>14, <1>17, <1>20, <1>22, <1>23, <1>24, <1>25, Zenon
=============================================================================
