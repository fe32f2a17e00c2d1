---------------------------- MODULE Connections -----------------------------
(***************************************************************************)
(* internal/server: connection handlers from CONNECT to cleanup, the       *)
(* registry of the connections that own a client ID, takeover, session     *)
(* expiry and publishing, over the sessions of SessionState and the        *)
(* broker's routing table.                                                 *)
(*                                                                         *)
(* One handler is one run of handleConn; handlers interleave.  clientsMu   *)
(* is a read-write lock: each write-locked section is one action, and a    *)
(* publisher holds the read lock over several.  A client is closed or not  *)
(* (Client has the details); any client may fail at any time.  What is     *)
(* queued for a session is left to SessionStore and Delivery: here Admit   *)
(* changes nothing.                                                        *)
(***************************************************************************)
EXTENDS SessionState

CONSTANTS
  Handler,       \* connection handlers, each accepted once
  Nobody,        \* a nil *activeConnection
  Handle,        \* pointers to the State structs ever allocated
  NoState,       \* the nil *State
  MaxSessions,   \* Limits.MaxSessions
  Wills,         \* whether CONNECT carries a will: a subset of BOOLEAN
  Cleans,        \* values of the CleanSession flag
  MaxTime        \* bound of the model: clock ticks

ASSUME ConnectionsAssumption ==
  /\ Nobody \notin Handler
  /\ NoState \notin Handle
  /\ IsFiniteSet(Handler) /\ IsFiniteSet(Handle)
  /\ MaxSessions \in Nat \ {0}
  /\ Wills \subseteq BOOLEAN /\ Cleans \subseteq BOOLEAN
  /\ MaxTime \in Nat

VARIABLES
  pc,         \* where each handler is
  req,        \* its CONNECT packet and authenticated identity
  prev,       \* the connection it waits for in acquireConnection
  sess,       \* owner.session; NoState while it owns nothing
  closed,     \* its client is closed
  consumer,   \* its consumeDeliveries goroutine
  ready,      \* owner.ready
  discAt,     \* owner.disconnectedAt; NoTime while not closing
  graceful,   \* cleanDisconnect
  wills,      \* how often its will was published
  arg,        \* the subscription it is handling
  snap,       \* subscriptions its publish has yet to serve
  clients,    \* Server.clients
  st, data,   \* the State structs, and Store.data
  routes,     \* the broker's subscriptions, by client ID and filter
  now         \* the clock
handlerVars == <<pc, req, prev, sess, closed, consumer, ready, discAt,
                 graceful, wills, arg, snap>>
serverVars == <<clients, st, data, routes>>
vars == <<handlerVars, serverVars, now>>

NoRoute == [sess |-> NoState, qos |-> NoSub]
Requests == [id : ClientID, identity : Owner, clean : Cleans, will : Wills]
Subs == [filter : Filter, qos : QoS]
NoReq == [id |-> Nobody]
NoArg == [filter |-> Nobody]

Init ==
  /\ pc = [h \in Handler |-> "new"]
  /\ req = [h \in Handler |-> NoReq]
  /\ prev = [h \in Handler |-> Nobody]
  /\ sess = [h \in Handler |-> NoState]
  /\ closed = [h \in Handler |-> FALSE]
  /\ consumer = [h \in Handler |-> "off"]
  /\ ready = [h \in Handler |-> FALSE]
  /\ discAt = [h \in Handler |-> NoTime]
  /\ graceful = [h \in Handler |-> FALSE]
  /\ wills = [h \in Handler |-> 0]
  /\ arg = [h \in Handler |-> NoArg]
  /\ snap = [h \in Handler |-> {}]
  /\ clients = [id \in ClientID |-> Nobody]
  /\ st = [s \in {} |-> NoState]
  /\ data = [id \in ClientID |-> NoState]
  /\ routes = [id \in ClientID |-> [f \in Filter |-> NoRoute]]
  /\ now = 0

Owns(h) == sess[h] # NoState /\ pc[h] # "exit"
Live == {id \in ClientID : data[id] # NoState}
ID(h) == req[h].id
NoRoutes == [f \in Filter |-> NoRoute]

\* Mutant: publishers do not take the lock.
LockIgnored == TRUE

\* clientsMu can be write-locked: no publisher holds it for reading.
Lockable == \A h \in Handler : pc[h] \notin {"publish", "willPublish"}

Goto(h, l) == pc' = [pc EXCEPT ![h] = l]
SetState(s, v) == st' = [st EXCEPT ![s] = v]

\* beginClosing: the first closing event counts.
beginClosing(h) ==
  discAt' = IF discAt[h] = NoTime THEN [discAt EXCEPT ![h] = now] ELSE discAt

-----------------------------------------------------------------------------
(* CONNECT and the acquisition of the client ID.                           *)

\* handshake and authenticateConnect.
Connect(h) ==
  /\ pc[h] = "new"
  /\ \E r \in Requests : req' = [req EXCEPT ![h] = r]
  /\ \E l \in {"acquire", "close"} : Goto(h, l)
  /\ UNCHANGED <<prev, sess, closed, consumer, ready, discAt, graceful, wills,
                 arg, snap, serverVars, now>>

\* openSession, then MarkConnected and the session's subscriptions: the
\* routes and sessions that the handler finds are replaced by its own.
OpenSession(h) ==
  LET id == ID(h)
      old == data[id]
      expired == old # NoState /\ Expired(st[old], now)
      dropped == expired \/ req[h].clean
      removed == dropped /\ old # NoState
      kept == IF removed THEN [st EXCEPT ![old] = Deleted(@)] ELSE st
      rest == IF dropped THEN [routes EXCEPT ![id] = NoRoutes] ELSE routes
      others == Cardinality(Live \ {id})
      Register(s, heap) ==
        /\ st' = [heap EXCEPT ![s] = MarkConnected(@)]
        /\ data' = [data EXCEPT ![id] = s]
        /\ routes' = [rest EXCEPT ![id] = [f \in Filter |->
             IF f \in Subscribed(heap[s])
             THEN [sess |-> s, qos |-> heap[s].subscriptions[f]]
             ELSE rest[id][f]]]
        /\ sess' = [sess EXCEPT ![h] = s]
        /\ clients' = [clients EXCEPT ![id] = h]
        /\ Goto(h, "connack")
  IN  \/ /\ old # NoState
         /\ ~removed
         /\ Register(old, st)
      \/ /\ old = NoState \/ removed
         /\ others < MaxSessions
         /\ \E s \in Handle \ DOMAIN st :
              Register(s, [x \in DOMAIN st \cup {s} |->
                             IF x = s THEN NewState(id, req[h].identity, now)
                                      ELSE kept[x]])
      \/ /\ old = NoState \/ removed
         /\ others >= MaxSessions
         /\ st' = kept
         /\ data' = [data EXCEPT ![id] = NoState]
         /\ routes' = rest
         /\ Goto(h, "close")
         /\ UNCHANGED <<sess, clients>>

\* Mutant: the owner of the session is not compared with the identity.
AcquireAnyIdentity(h) ==
  LET id == ID(h)
  IN  /\ pc[h] = "acquire"
      /\ Lockable
      /\ \/ /\ clients[id] = Nobody
            /\ OpenSession(h)
            /\ UNCHANGED <<prev, discAt>>
         \/ /\ clients[id] # Nobody
            /\ beginClosing(clients[id])
            /\ prev' = [prev EXCEPT ![h] = clients[id]]
            /\ Goto(h, "evict")
            /\ UNCHANGED <<sess, serverVars>>
      /\ UNCHANGED <<req, closed, consumer, ready, graceful, wills, arg, snap,
                     now>>

\* acquireConnection, one pass of its loop up to the unlock.
Acquire(h) ==
  LET id == ID(h)
      foreign == data[id] # NoState /\ st[data[id]].owner # req[h].identity
  IN  /\ pc[h] = "acquire"
      /\ Lockable
      /\ \/ /\ foreign
            /\ Goto(h, "close")
            /\ UNCHANGED <<prev, sess, discAt, serverVars>>
         \/ /\ ~foreign
            /\ clients[id] = Nobody
            /\ OpenSession(h)
            /\ UNCHANGED <<prev, discAt>>
         \/ /\ ~foreign
            /\ clients[id] # Nobody
            /\ beginClosing(clients[id])
            /\ prev' = [prev EXCEPT ![h] = clients[id]]
            /\ Goto(h, "evict")
            /\ UNCHANGED <<sess, serverVars>>
      /\ UNCHANGED <<req, closed, consumer, ready, graceful, wills, arg, snap,
                     now>>

\* Mutant: the previous connection is marked closing, not closed.
EvictNoClose(h) ==
  /\ pc[h] = "evict"
  /\ Goto(h, "await")
  /\ UNCHANGED <<req, prev, sess, closed, consumer, ready, discAt, graceful,
                 wills, arg, snap, serverVars, now>>

\* previous.client.Close()
Evict(h) ==
  /\ pc[h] = "evict"
  /\ closed' = [closed EXCEPT ![prev[h]] = TRUE]
  /\ Goto(h, "await")
  /\ UNCHANGED <<req, prev, sess, consumer, ready, discAt, graceful, wills,
                 arg, snap, serverVars, now>>

\* previous.done is closed by its handler's closeSession.
Await(h) ==
  /\ pc[h] = "await"
  /\ pc[prev[h]] = "exit"
  /\ Goto(h, "acquire")
  /\ UNCHANGED <<req, prev, sess, closed, consumer, ready, discAt, graceful,
                 wills, arg, snap, serverVars, now>>

\* The handshake deadline or a shutdown ends the acquisition.
GiveUp(h) ==
  /\ pc[h] \in {"acquire", "await"}
  /\ pc[h] = "acquire" => Lockable
  /\ Goto(h, "close")
  /\ UNCHANGED <<req, prev, sess, closed, consumer, ready, discAt, graceful,
                 wills, arg, snap, serverVars, now>>

-----------------------------------------------------------------------------
(* The connection is accepted and served.  Packets already in the reader's *)
(* buffer are handled even after the connection was closed.                *)

\* SetWriteTimeout, CONNACK, the end of the handshake deadline.
Connack(h) ==
  /\ pc[h] = "connack"
  /\ \/ ~closed[h] /\ Goto(h, "ready")
     \/ Goto(h, "close")
  /\ UNCHANGED <<req, prev, sess, closed, consumer, ready, discAt, graceful,
                 wills, arg, snap, serverVars, now>>

\* owner.ready = true, under the write lock.
MarkReady(h) ==
  /\ pc[h] = "ready"
  /\ Lockable
  /\ ready' = [ready EXCEPT ![h] = TRUE]
  /\ Goto(h, "begin")
  /\ UNCHANGED <<req, prev, sess, closed, consumer, discAt, graceful, wills,
                 arg, snap, serverVars, now>>

StartConsumer(h) ==
  /\ pc[h] = "begin"
  /\ SetState(sess[h], BeginDelivery(st[sess[h]]))
  /\ consumer' = [consumer EXCEPT ![h] = "running"]
  /\ Goto(h, "serve")
  /\ UNCHANGED <<req, prev, sess, closed, ready, discAt, graceful, wills, arg,
                 snap, clients, data, routes, now>>

\* consumeDeliveries returns once the client is done.
StopConsumer(h) ==
  /\ consumer[h] = "running"
  /\ closed[h]
  /\ consumer' = [consumer EXCEPT ![h] = "exited"]
  /\ UNCHANGED <<pc, req, prev, sess, closed, ready, discAt, graceful, wills,
                 arg, snap, serverVars, now>>

\* A write fails, the consumer's send fails, or the server shuts down.
Fail(h) ==
  /\ pc[h] \notin {"new", "exit"}
  /\ ~closed[h]
  /\ closed' = [closed EXCEPT ![h] = TRUE]
  /\ UNCHANGED <<pc, req, prev, sess, consumer, ready, discAt, graceful,
                 wills, arg, snap, serverVars, now>>

\* serve returns: DISCONNECT, or an error of the connection or of a packet.
ServeReturns(h, clean) ==
  /\ pc[h] = "serve"
  /\ graceful' = [graceful EXCEPT ![h] = clean]
  /\ Goto(h, "will")
  /\ UNCHANGED <<req, prev, sess, closed, consumer, ready, discAt, wills, arg,
                 snap, serverVars, now>>

\* After a reply: back to serve, or out of it because the reply was not sent.
Replied(h) ==
  \/ ~closed[h] /\ Goto(h, "serve")
  \/ Goto(h, "will")

\* handleSubscribe pauses delivery, then handles one filter after the other.
BeginSubscribe(h) ==
  /\ pc[h] = "serve"
  /\ SetState(sess[h], PauseDelivery(st[sess[h]]))
  /\ Goto(h, "subscribe")
  /\ UNCHANGED <<req, prev, sess, closed, consumer, ready, discAt, graceful,
                 wills, arg, snap, clients, data, routes, now>>

\* SetSubscription accepts the filter; a refused one leaves no trace.
Subscribe(h, sub) ==
  LET s == st[sess[h]]
  IN  /\ pc[h] = "subscribe"
      /\ ~s.deleted
      /\ sub.filter \notin OversizedFilter
      /\ \/ sub.filter \in Subscribed(s)
         \/ Cardinality(Subscribed(s)) < MaxSubscriptions
      /\ SetState(sess[h], SetSubscription(s, sub.filter, sub.qos))
      /\ arg' = [arg EXCEPT ![h] = sub]
      /\ Goto(h, "route")
      /\ UNCHANGED <<req, prev, sess, closed, consumer, ready, discAt,
                     graceful, wills, snap, clients, data, routes, now>>

\* broker.Subscribe
Route(h) ==
  /\ pc[h] = "route"
  /\ routes' = [routes EXCEPT ![ID(h)][arg[h].filter] =
                   [sess |-> sess[h], qos |-> arg[h].qos]]
  /\ arg' = [arg EXCEPT ![h] = NoArg]
  /\ Goto(h, "subscribe")
  /\ UNCHANGED <<req, prev, sess, closed, consumer, ready, discAt, graceful,
                 wills, snap, clients, st, data, now>>

\* Mutant: an error return leaves delivery paused.
EndSubscribeNoDefer(h) ==
  /\ pc[h] = "subscribe"
  /\ \/ /\ ~closed[h]
        /\ SetState(sess[h], ResumeDelivery(st[sess[h]]))
        /\ Goto(h, "serve")
     \/ Goto(h, "will") /\ UNCHANGED st
  /\ UNCHANGED <<req, prev, sess, closed, consumer, ready, discAt, graceful,
                 wills, arg, snap, clients, data, routes, now>>

\* SUBACK, the retained messages, and the deferred ResumeDelivery.
EndSubscribe(h) ==
  /\ pc[h] = "subscribe"
  /\ SetState(sess[h], ResumeDelivery(st[sess[h]]))
  /\ Replied(h)
  /\ UNCHANGED <<req, prev, sess, closed, consumer, ready, discAt, graceful,
                 wills, arg, snap, clients, data, routes, now>>

\* handleUnsubscribe: the route goes first,
BeginUnsubscribe(h, f) ==
  /\ pc[h] = "serve"
  /\ routes' = [routes EXCEPT ![ID(h)][f] = NoRoute]
  /\ arg' = [arg EXCEPT ![h] = [filter |-> f, qos |-> 0]]
  /\ Goto(h, "unsubscribe")
  /\ UNCHANGED <<req, prev, sess, closed, consumer, ready, discAt, graceful,
                 wills, snap, clients, st, data, now>>

\* the session's record of it second.
EndUnsubscribe(h) ==
  /\ pc[h] = "unsubscribe"
  /\ SetState(sess[h], DeleteSubscription(st[sess[h]], arg[h].filter))
  /\ arg' = [arg EXCEPT ![h] = NoArg]
  /\ Replied(h)
  /\ UNCHANGED <<req, prev, sess, closed, consumer, ready, discAt, graceful,
                 wills, snap, clients, data, routes, now>>

-----------------------------------------------------------------------------
(* publishMessage, for a PUBLISH packet or for a will.                     *)

Installed ==
  {[id |-> x[1], route |-> routes[x[1]][x[2]]] :
     x \in {y \in ClientID \X Filter : routes[y[1]][y[2]] # NoRoute}}

\* RLock, the update of the retained messages, and the load of the routes.
BeginPublish(h, l) ==
  /\ snap' = [snap EXCEPT ![h] = Installed]
  /\ Goto(h, l)
  /\ UNCHANGED <<req, prev, sess, closed, consumer, ready, discAt, graceful,
                 wills, arg, serverVars, now>>

Publish(h) == pc[h] = "serve" /\ BeginPublish(h, "publish")

\* Mutant: a clean disconnection publishes the will too.
PublishWillAlways(h) ==
  pc[h] = "will" /\ req[h].will /\ BeginPublish(h, "willPublish")

PublishWill(h) ==
  /\ pc[h] = "will"
  /\ req[h].will /\ ~graceful[h]
  /\ BeginPublish(h, "willPublish")

\* deliverPublishToSubscriber: a client whose queue is full is closed.
Deliver(h, sub) ==
  LET owner == clients[sub.id]
      online == /\ data[sub.id] = sub.route.sess
                /\ owner # Nobody
                /\ discAt[owner] = NoTime
                /\ ready[owner]
                /\ sess[owner] = sub.route.sess
  IN  /\ pc[h] \in {"publish", "willPublish"}
      /\ sub \in snap[h]
      /\ snap' = [snap EXCEPT ![h] = @ \ {sub}]
      /\ \/ UNCHANGED closed
         \/ online /\ closed' = [closed EXCEPT ![owner] = TRUE]
      /\ UNCHANGED <<pc, req, prev, sess, consumer, ready, discAt, graceful,
                     wills, arg, serverVars, now>>

\* RUnlock, and PUBACK for a PUBLISH with QoS 1.
EndPublish(h) ==
  /\ snap[h] = {}
  /\ \/ /\ pc[h] = "publish"
        /\ \E l \in {"serve", "will"} : Goto(h, l)
        /\ UNCHANGED wills
     \/ /\ pc[h] = "willPublish"
        /\ wills' = [wills EXCEPT ![h] = @ + 1]
        /\ Goto(h, "close")
  /\ UNCHANGED <<req, prev, sess, closed, consumer, ready, discAt, graceful,
                 arg, snap, serverVars, now>>

-----------------------------------------------------------------------------
(* The deferred cleanup.                                                   *)

SkipWill(h) ==
  /\ pc[h] = "will"
  /\ ~req[h].will \/ graceful[h]
  /\ Goto(h, "close")
  /\ UNCHANGED <<req, prev, sess, closed, consumer, ready, discAt, graceful,
                 wills, arg, snap, serverVars, now>>

BeginClose(h) ==
  /\ pc[h] = "close"
  /\ IF sess[h] # NoState THEN Lockable /\ beginClosing(h)
                          ELSE UNCHANGED discAt
  /\ Goto(h, "closeClient")
  /\ UNCHANGED <<req, prev, sess, closed, consumer, ready, graceful, wills,
                 arg, snap, serverVars, now>>

CloseClient(h) ==
  /\ pc[h] = "closeClient"
  /\ closed' = [closed EXCEPT ![h] = TRUE]
  /\ Goto(h, "drain")
  /\ UNCHANGED <<req, prev, sess, consumer, ready, discAt, graceful, wills,
                 arg, snap, serverVars, now>>

\* Mutant: the handler does not wait for the consumer.
DrainNoWait(h) ==
  /\ pc[h] = "drain"
  /\ Goto(h, IF sess[h] # NoState THEN "release" ELSE "exit")
  /\ UNCHANGED <<req, prev, sess, closed, consumer, ready, discAt, graceful,
                 wills, arg, snap, serverVars, now>>

\* The consumer has returned, and so has the writer of the closed client.
Drain(h) ==
  /\ pc[h] = "drain"
  /\ consumer[h] # "running"
  /\ Goto(h, IF sess[h] # NoState THEN "release" ELSE "exit")
  /\ UNCHANGED <<req, prev, sess, closed, consumer, ready, discAt, graceful,
                 wills, arg, snap, serverVars, now>>

closeSession(h) ==
  LET id == ID(h)
  IN  /\ pc[h] = "release"
      /\ Lockable
      /\ IF clients[id] # h
         THEN UNCHANGED serverVars
         ELSE /\ IF req[h].clean
                 THEN /\ st' = IF data[id] = NoState THEN st
                              ELSE [st EXCEPT ![data[id]] = Deleted(@)]
                      /\ data' = [data EXCEPT ![id] = NoState]
                      /\ routes' = [routes EXCEPT ![id] = NoRoutes]
                 ELSE /\ SetState(sess[h],
                              MarkDisconnectedAt(st[sess[h]], discAt[h]))
                      /\ UNCHANGED <<data, routes>>
              /\ clients' = [clients EXCEPT ![id] = Nobody]
      /\ Goto(h, "exit")
      /\ UNCHANGED <<req, prev, sess, closed, consumer, ready, discAt,
                     graceful, wills, arg, snap, now>>

\* Mutant: the routes of an expired session stay.
ExpireSessionsKeepRoutes(at) ==
  LET gone == {id \in Live : Expired(st[data[id]], at)}
      states == {data[id] : id \in gone}
  IN  /\ Lockable
      /\ gone # {}
      /\ st' = [s \in DOMAIN st |-> IF s \in states THEN Deleted(st[s])
                                                    ELSE st[s]]
      /\ data' = [id \in ClientID |-> IF id \in gone THEN NoState
                                                    ELSE data[id]]
      /\ UNCHANGED <<handlerVars, clients, routes, now>>

\* One tick of the expiry goroutine, which was given a time not after now.
ExpireSessions(at) ==
  LET gone == {id \in Live : Expired(st[data[id]], at)}
      states == {data[id] : id \in gone}
  IN  /\ Lockable
      /\ gone # {}
      /\ st' = [s \in DOMAIN st |-> IF s \in states THEN Deleted(st[s])
                                                    ELSE st[s]]
      /\ data' = [id \in ClientID |-> IF id \in gone THEN NoState
                                                    ELSE data[id]]
      /\ routes' = [id \in ClientID |-> IF id \in gone THEN NoRoutes
                                                      ELSE routes[id]]
      /\ UNCHANGED <<handlerVars, clients, now>>

Tick ==
  /\ now < MaxTime
  /\ now' = now + 1
  /\ UNCHANGED <<handlerVars, serverVars>>

-----------------------------------------------------------------------------

\* The steps a handler takes without waiting for its peer.
Progress(h) ==
  \/ Acquire(h) \/ Evict(h) \/ Await(h)
  \/ Connack(h) \/ MarkReady(h) \/ StartConsumer(h)
  \/ Route(h) \/ EndUnsubscribe(h)
  \/ PublishWill(h) \/ SkipWill(h) \/ EndPublish(h)
  \/ \E sub \in snap[h] : Deliver(h, sub)
  \/ BeginClose(h) \/ CloseClient(h) \/ Drain(h) \/ closeSession(h)

\* The steps that depend on what the peer sends.
Serve(h) ==
  \/ \E clean \in BOOLEAN : ServeReturns(h, clean)
  \/ BeginSubscribe(h) \/ EndSubscribe(h)
  \/ \E sub \in Subs : Subscribe(h, sub)
  \/ \E f \in Filter : BeginUnsubscribe(h, f)
  \/ Publish(h)

HandlerNext(h) ==
  Connect(h) \/ GiveUp(h) \/ Fail(h) \/ StopConsumer(h) \/ Progress(h) \/ Serve(h)

\* Every handler has returned; the model accepts no further connection.
Finished ==
  /\ \A h \in Handler : pc[h] = "exit"
  /\ UNCHANGED vars

Next ==
  \/ \E h \in Handler : HandlerNext(h)
  \/ \E at \in 0 .. now : ExpireSessions(at)
  \/ Tick
  \/ Finished

Safe == Init /\ [][Next]_vars

\* Goroutines run.  A goroutine waiting to write-lock clientsMu keeps later
\* readers out, so it gets the lock although others may publish for ever; a
\* SUBSCRIBE packet and the reader's buffer hold finitely many requests.
Fairness ==
  \A h \in Handler :
    /\ WF_vars(StopConsumer(h))
    /\ SF_vars(Progress(h))
    /\ SF_vars(EndSubscribe(h))
    /\ SF_vars(closed[h] /\ ServeReturns(h, FALSE))

Spec == Safe /\ Fairness

-----------------------------------------------------------------------------
(* Properties.                                                             *)

\* A client ID has one connection at a time: a handler is registered from the
\* moment it acquires the ID until it has released it, whoever else asks for
\* the ID meanwhile, and only a registered handler has a delivery consumer.
OneConnection ==
  \A h \in Handler :
    /\ \A id \in ClientID : clients[id] = h <=> Owns(h) /\ ID(h) = id
    /\ consumer[h] = "running" => Owns(h)

\* A session is marked connected exactly while a connection owns it, so it
\* never expires under its owner; the owner holds the session of the store,
\* with its own identity; a session without one has a time to expire from.
ConnectedIffOwned ==
  /\ \A h \in Handler :
       Owns(h) => LET s == st[sess[h]]
                  IN  /\ data[ID(h)] = sess[h]
                      /\ s.connected /\ ~s.deleted
                      /\ s.owner = req[h].identity
  /\ \A id \in Live :
       clients[id] = Nobody => /\ ~st[data[id]].connected
                               /\ st[data[id]].offlineSince # NoTime

\* The routing table and the sessions agree, outside the two calls of the
\* subscription being handled: a stored session is routed as it subscribed,
\* and no route outlives its session by expiry, takeover or clean start.
RoutesMatchSessions ==
  \A id \in ClientID, f \in Filter :
    LET r == routes[id][f]
        busy == \E h \in Handler : /\ clients[id] = h
                                   /\ pc[h] \in {"route", "unsubscribe"}
                                   /\ arg[h].filter = f
    IN  /\ r # NoRoute => id \in Live /\ r.sess = data[id]
        /\ id \in Live /\ ~busy => r.qos = st[data[id]].subscriptions[f]

\* No publisher works on a subscription whose session was replaced or
\* removed since it loaded the routes.
SnapshotsLive ==
  \A h \in Handler : \A sub \in snap[h] : data[sub.id] = sub.route.sess

\* Delivery stays paused only while the owner handles a SUBSCRIBE; a
\* connection lost in the middle does not leave the session paused.
PausedWhileSubscribing ==
  \A id \in Live :
    st[data[id]].paused =>
      clients[id] # Nobody /\ pc[clients[id]] \in {"subscribe", "route"}

\* The will of a connection that was served is published exactly once, unless
\* it disconnected cleanly, and before the connection lets go of its ID.
WillOnce ==
  \A h \in Handler :
    LET due == /\ consumer[h] # "off"
               /\ pc[h] \in {"close", "closeClient", "drain", "release", "exit"}
               /\ req[h].will /\ ~graceful[h]
    IN  wills[h] = IF due THEN 1 ELSE 0

\* Only the identity that owns a session can make its connection close by
\* connecting, or make its session go away before it has expired.
Acts(h) == pc'[h] # pc[h]
IdentityIsolated ==
  [][/\ \A h \in Handler :
          discAt'[h] # discAt[h] =>
            \E g \in Handler : Acts(g) /\ req[g].identity = req[h].identity
     /\ \A s \in DOMAIN st :
          st'[s].deleted /\ ~st[s].deleted =>
            \/ Expired(st[s], now)
            \/ \E g \in Handler : Acts(g) /\ req[g].identity = st[s].owner
    ]_vars

\* A connection that finds a session expired does not resume it, whether or
\* not the periodic sweep has run, and what it resumes keeps its
\* subscriptions.
ResumedInTime ==
  [][\A h \in Handler :
       sess[h] = NoState /\ sess'[h] \in DOMAIN st =>
         /\ OfflineTTL # 0 => now - st[sess'[h]].offlineSince < OfflineTTL
         /\ ~req[h].clean
         /\ st'[sess'[h]].subscriptions = st[sess'[h]].subscriptions]_vars

\* Whoever asks for a client ID gets an answer, whatever state the previous
\* connection is in and however many ask for it.
AcquireEnds ==
  \A h \in Handler : pc[h] = "acquire" ~> pc[h] \in {"serve", "exit"}

=============================================================================
