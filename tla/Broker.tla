------------------------------- MODULE Broker -------------------------------
(***************************************************************************)
(* The broker (internal/broker/broker.go) and the server calls that drive  *)
(* it: handleSubscribe, handleUnsubscribe and publishMessage.  Both the    *)
(* subscription tree and the retained map are copied, changed and stored   *)
(* by writers under a mutex and loaded by readers without one.             *)
(*                                                                         *)
(* A client has one request at a time.  A message is published once, by a  *)
(* goroutine of its own.  The tree is the set of its subscriptions: that   *)
(* Match agrees with MatchFilter is shown in TopicTree.  What becomes of a *)
(* message offered to a session is decided elsewhere: Admit drops it       *)
(* without an error when a budget is used up (SessionStore), and a QoS 0   *)
(* message for a client that is not connected is dropped the same way.  An *)
(* offer fails when the packet cannot be encoded or queued.                *)
(***************************************************************************)
EXTENDS Integers, FiniteSets

CONSTANTS
  Client, Message, Topic, Filter,
  Accepts,       \* the topics MatchFilter accepts, for each filter
  Size,          \* payload sizes; 0 is the empty payload
  Length,        \* the length of each topic name
  MaxMessages, MaxBytes,   \* RetainedLimits
  MaxRequests,   \* bound: requests per client
  None

\* RetainedLimits.Validate, and topic names are not empty.
ASSUME BrokerAssumption ==
  /\ MaxMessages \in Nat \ {0} /\ MaxBytes \in Nat \ {0}
  /\ Accepts \in [Filter -> SUBSET Topic]
  /\ Size \subseteq Nat
  /\ Length \in [Topic -> Nat \ {0}]
  /\ None \notin Client \cup Message \cup {"limit", "failed"}

VARIABLES
  tree,       \* topics: the stored tree, as a set of <<client, filter>>
  topicsMu,   \* who holds the mutex
  newTree,    \* per client: the changed clone it is about to store
  retained,   \* the stored map: per topic a message, or None
  bytes,      \* stats.RetainedBytes
  rejected,   \* stats.RetainedRejections
  at,         \* per client: where its request is
  request,    \* per client: the request
  requests,   \* per client: requests made
  pc,         \* per message: new, load, deliver, done
  msg,        \* per message: topic, size and RETAIN flag
  todo,       \* per message: subscribers left to deliver to
  err,        \* per message: the error publishMessage will return
  offered,    \* <<client, message>> offered without error
  failed,     \* <<client, message>> whose offer failed
  want,       \* per client: the filters its answered requests add up to
  audience    \* per message: the clients it is owed to

clientVars == <<at, request, requests, want>>
messageVars == <<pc, msg, todo, err>>
vars == <<tree, topicsMu, newTree, retained, bytes, rejected, clientVars,
          messageVars, offered, failed, audience>>

NoRequest == [op |-> "none"]
NoMsg == [topic |-> None, size |-> 0, retain |-> FALSE]

\* NewWithLimits.
Init ==
  /\ tree = {} /\ topicsMu = None
  /\ newTree = [c \in Client |-> {}]
  /\ retained = [t \in Topic |-> None]
  /\ bytes = 0 /\ rejected = 0
  /\ at = [c \in Client |-> "idle"]
  /\ request = [c \in Client |-> NoRequest]
  /\ requests = [c \in Client |-> 0]
  /\ want = [c \in Client |-> {}]
  /\ pc = [m \in Message |-> "new"]
  /\ msg = [m \in Message |-> NoMsg]
  /\ todo = [m \in Message |-> {}]
  /\ err = [m \in Message |-> None]
  /\ offered = {} /\ failed = {}
  /\ audience = [m \in Message |-> {}]

-----------------------------------------------------------------------------
(* Requests of a client.                                                   *)

\* Mutant: the retained messages are read before the subscription is stored.
NextCallSwapped(call) ==
  CASE call = "start"    -> "retained"
    [] call = "retained" -> "topics"
    [] call = "topics"   -> "idle"

\* handleSubscribe: the order of its calls on the broker.
NextCall(call) ==
  CASE call = "start"    -> "topics"
    [] call = "topics"   -> "retained"
    [] call = "retained" -> "idle"

Request(c, r, where) ==
  /\ at[c] = "idle" /\ requests[c] < MaxRequests
  /\ requests' = [requests EXCEPT ![c] = @ + 1]
  /\ request' = [request EXCEPT ![c] = r]
  /\ at' = [at EXCEPT ![c] = where]
  /\ UNCHANGED <<tree, topicsMu, newTree, retained, bytes, rejected, messageVars,
                 offered, failed>>

HandleSubscribe(c, f) ==
  /\ Request(c, [op |-> "subscribe", filters |-> {f}], NextCall("start"))
  /\ UNCHANGED <<want, audience>>

\* handleUnsubscribe for one filter, or UnsubscribeAll when a session is
\* deleted.  From here on the client may miss what is published.
HandleUnsubscribe(c, filters) ==
  /\ Request(c, [op |-> "unsubscribe", filters |-> filters], "topics")
  /\ want' = [want EXCEPT ![c] = @ \ filters]
  /\ audience' = [m \in Message |-> audience[m] \ {c}]

Changed(c) ==
  LET r == request[c] IN
  IF r.op = "subscribe" THEN tree \cup ({c} \X r.filters)
                        ELSE tree \ ({c} \X r.filters)

\* Mutant: the tree is loaded without the mutex.
LoadTopicsUnlocked(c) ==
  /\ at[c] = "topics"
  /\ topicsMu' = c
  /\ newTree' = [newTree EXCEPT ![c] = Changed(c)]
  /\ at' = [at EXCEPT ![c] = "store"]
  /\ UNCHANGED <<tree, retained, bytes, rejected, request, requests, want,
                 messageVars, offered, failed, audience>>

\* Subscribe, Unsubscribe, UnsubscribeAll: lock, load, clone and change,
LoadTopics(c) ==
  /\ at[c] = "topics" /\ topicsMu = None
  /\ topicsMu' = c
  /\ newTree' = [newTree EXCEPT ![c] = Changed(c)]
  /\ at' = [at EXCEPT ![c] = "store"]
  /\ UNCHANGED <<tree, retained, bytes, rejected, request, requests, want,
                 messageVars, offered, failed, audience>>

\* store and unlock.
StoreTopics(c) ==
  /\ at[c] = "store"
  /\ tree' = newTree[c]
  /\ topicsMu' = None
  /\ newTree' = [newTree EXCEPT ![c] = {}]
  /\ IF request[c].op = "subscribe"
     THEN /\ want' = [want EXCEPT ![c] = @ \cup request[c].filters]
          /\ at' = [at EXCEPT ![c] = NextCall("topics")]
     ELSE /\ at' = [at EXCEPT ![c] = "idle"]
          /\ UNCHANGED want
  /\ UNCHANGED <<retained, bytes, rejected, request, requests, messageVars,
                 offered, failed, audience>>

RetainedMatching(filters) ==
  {retained[t] : t \in {u \in UNION {Accepts[f] : f \in filters} : retained[u] # None}}

\* handleSubscribe: every retained match is offered to the client,
SendRetained(c) ==
  /\ at[c] = "retained"
  /\ offered' = offered \cup ({c} \X RetainedMatching(request[c].filters))
  /\ at' = [at EXCEPT ![c] = NextCall("retained")]
  /\ UNCHANGED <<tree, topicsMu, newTree, retained, bytes, rejected, request,
                 requests, want, messageVars, failed, audience>>

\* or the first that fails ends the connection.  The session and its routes
\* remain.
RetainedFails(c) ==
  /\ at[c] = "retained"
  /\ \E sent \in SUBSET RetainedMatching(request[c].filters) :
       /\ sent # RetainedMatching(request[c].filters)
       /\ offered' = offered \cup ({c} \X sent)
  /\ at' = [at EXCEPT ![c] = "closed"]
  /\ UNCHANGED <<tree, topicsMu, newTree, retained, bytes, rejected, request,
                 requests, want, messageVars, failed, audience>>

-----------------------------------------------------------------------------
(* Publishing.                                                             *)

Weight(m, messages) == Length[messages[m].topic] + messages[m].size

\* updateRetained, one critical section of retainedMu.  In the code the sizes
\* are those of the stored and the new packet.
OldBytes(t) == IF retained[t] = None THEN 0 ELSE Weight(retained[t], msg)
NewBytes(r) == IF r.size = 0 THEN 0 ELSE Length[r.topic] + r.size

RetainedLimit(r) ==
  /\ r.size > 0
  /\ \/ /\ retained[r.topic] = None
        /\ Cardinality({t \in Topic : retained[t] # None}) >= MaxMessages
     \/ NewBytes(r) > MaxBytes - (bytes - OldBytes(r.topic))

\* Mutant: what the replaced message occupied is not given back.
updateRetainedLeaks(m, r) ==
  /\ retained' = [retained EXCEPT ![r.topic] = IF r.size = 0 THEN None ELSE m]
  /\ bytes' = bytes + NewBytes(r)

updateRetained(m, r) ==
  /\ retained' = [retained EXCEPT ![r.topic] = IF r.size = 0 THEN None ELSE m]
  /\ bytes' = bytes + (NewBytes(r) - OldBytes(r.topic))

\* Mutant: the error of updateRetained is dropped.
PublishRejectedGoesOn(m, r) ==
  /\ pc[m] = "new" /\ r.retain /\ RetainedLimit(r)
  /\ rejected' = rejected + 1
  /\ msg' = [msg EXCEPT ![m] = r]
  /\ err' = [err EXCEPT ![m] = "limit"]
  /\ pc' = [pc EXCEPT ![m] = "load"]
  /\ UNCHANGED <<tree, topicsMu, newTree, retained, bytes, clientVars, todo,
                 offered, failed, audience>>

\* Publish, up to the load of the tree: a retained update that is rejected
\* ends it before any fan-out.
PublishRejected(m, r) ==
  /\ pc[m] = "new" /\ r.retain /\ RetainedLimit(r)
  /\ rejected' = rejected + 1
  /\ msg' = [msg EXCEPT ![m] = r]
  /\ err' = [err EXCEPT ![m] = "limit"]
  /\ pc' = [pc EXCEPT ![m] = "done"]
  /\ UNCHANGED <<tree, topicsMu, newTree, retained, bytes, clientVars, todo,
                 offered, failed, audience>>

Publish(m, r) ==
  /\ pc[m] = "new" /\ ~(r.retain /\ RetainedLimit(r))
  /\ IF r.retain THEN updateRetained(m, r) ELSE UNCHANGED <<retained, bytes>>
  /\ msg' = [msg EXCEPT ![m] = r]
  /\ pc' = [pc EXCEPT ![m] = "load"]
  /\ audience' = [audience EXCEPT ![m] =
                    {c \in Client : \E f \in want[c] : r.topic \in Accepts[f]}]
  /\ UNCHANGED <<tree, topicsMu, newTree, rejected, clientVars, todo, err,
                 offered, failed>>

\* Publish: load the tree and Match,
MatchTopic(m) ==
  /\ pc[m] = "load"
  /\ todo' = [todo EXCEPT ![m] =
                {c \in Client : \E f \in Filter : /\ <<c, f>> \in tree
                                                  /\ msg[m].topic \in Accepts[f]}]
  /\ pc' = [pc EXCEPT ![m] = "deliver"]
  /\ UNCHANGED <<tree, topicsMu, newTree, retained, bytes, rejected, clientVars,
                 msg, err, offered, failed, audience>>

\* deliver for one subscription, in any order; publishMessage's callback
\* remembers an error, Publish goes on.
Deliver(m, c, ok) ==
  /\ pc[m] = "deliver" /\ c \in todo[m]
  /\ todo' = [todo EXCEPT ![m] = @ \ {c}]
  /\ err' = [err EXCEPT ![m] = IF ok THEN @ ELSE "failed"]
  /\ offered' = IF ok THEN offered \cup {<<c, m>>} ELSE offered
  /\ failed' = IF ok THEN failed ELSE failed \cup {<<c, m>>}
  /\ UNCHANGED <<tree, topicsMu, newTree, retained, bytes, rejected, clientVars,
                 pc, msg, audience>>

\* Mutant: the fan-out ends with the first refusal.
PublishedEarly(m) ==
  /\ pc[m] = "deliver" /\ (todo[m] = {} \/ err[m] # None)
  /\ todo' = [todo EXCEPT ![m] = {}]
  /\ pc' = [pc EXCEPT ![m] = "done"]
  /\ UNCHANGED <<tree, topicsMu, newTree, retained, bytes, rejected, clientVars,
                 msg, err, offered, failed, audience>>

Published(m) ==
  /\ pc[m] = "deliver" /\ todo[m] = {}
  /\ pc' = [pc EXCEPT ![m] = "done"]
  /\ UNCHANGED <<tree, topicsMu, newTree, retained, bytes, rejected, clientVars,
                 msg, todo, err, offered, failed, audience>>

-----------------------------------------------------------------------------
ClientNext(c) ==
  \/ \E f \in Filter : HandleSubscribe(c, f) \/ HandleUnsubscribe(c, {f})
  \/ HandleUnsubscribe(c, Filter)
  \/ LoadTopics(c) \/ StoreTopics(c) \/ SendRetained(c) \/ RetainedFails(c)

MessageNext(m) ==
  \/ \E r \in [topic : Topic, size : Size, retain : BOOLEAN] :
       PublishRejected(m, r) \/ Publish(m, r)
  \/ MatchTopic(m)
  \/ \E c \in Client, ok \in BOOLEAN : Deliver(m, c, ok)
  \/ Published(m)

Next == (\E c \in Client : ClientNext(c)) \/ (\E m \in Message : MessageNext(m))

Spec == Init /\ [][Next]_vars

-----------------------------------------------------------------------------
\* No subscription is lost and none comes back: between requests of a client,
\* whatever other clients' copies were stored meanwhile, the tree holds for it
\* exactly the filters its answered requests add up to.
NoLostUpdate ==
  \A c \in Client :
    at[c] = "idle" => {f \in Filter : <<c, f>> \in tree} = want[c]

\* A retained message passes nobody by: once it is published and a client's
\* subscription is answered, that client has been offered the current retained
\* message of every topic it subscribed to, through the fan-out or through the
\* retained read, however the two crossed.  (Publish updates the map before it
\* loads the tree, handleSubscribe stores the tree before it reads the map.)
RetainedReachesAll ==
  \A t \in Topic, c \in Client :
    /\ retained[t] # None /\ pc[retained[t]] = "done"
    /\ at[c] = "idle" /\ \E f \in want[c] : t \in Accepts[f]
    => <<c, retained[t]>> \in offered \cup failed

\* A subscriber whose delivery fails keeps a message from nobody else: every
\* client that was subscribed when the publish began and did not unsubscribe
\* meanwhile was tried.  And a publish that returns without error, so that a
\* QoS 1 publisher gets its PUBACK, was offered to all of them without error.
FanOutComplete ==
  \A m \in Message : pc[m] = "done" =>
    \A c \in audience[m] :
      <<c, m>> \in IF err[m] = None THEN offered ELSE offered \cup failed

\* The bytes of the retained messages, each named by its topic and place.
Occupied == UNION {{t} \X (1 .. OldBytes(t)) : t \in Topic}

\* The retained statistics are those of the stored map, and both budgets hold.
RetainedBudget ==
  /\ bytes = Cardinality(Occupied)
  /\ bytes <= MaxBytes
  /\ Cardinality({t \in Topic : retained[t] # None}) <= MaxMessages

\* A message rejected by a retained budget is seen by nobody: it is neither
\* stored nor offered, and the rejections are counted one by one.
RejectedInvisible ==
  /\ rejected = Cardinality({m \in Message : err[m] = "limit"})
  /\ \A m \in Message :
       err[m] = "limit" =>
         /\ \A t \in Topic : retained[t] # m
         /\ \A c \in Client : <<c, m>> \notin offered
=============================================================================
