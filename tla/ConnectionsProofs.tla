------------------------- MODULE ConnectionsProofs --------------------------
(***************************************************************************)
(* What the connection handlers promise about client IDs, sessions, routes *)
(* and wills, proved for any number of handlers, client IDs, identities    *)
(* and filters.                                                            *)
(***************************************************************************)
EXTENDS Connections, SessionStateProofs

\* First-order reasoning: Zenon, but for the leaves that cite SMT.
USE Zenon

(***************************************************************************)
(* The inductive invariant.                                                *)
(***************************************************************************)

Asking == {"new", "acquire", "evict", "await"}
Serving == {"serve", "subscribe", "route", "unsubscribe", "publish"}
Publishing == {"publish", "willPublish"}
Closing == {"close", "closeClient", "drain", "release", "exit"}
Places == Asking \cup {"connack", "ready", "begin"} \cup Serving
          \cup {"will", "willPublish"} \cup Closing
RouteType == [sess : Handle \cup {NoState}, qos : QoS \cup {NoSub}]

PlaceType ==
  /\ pc \in [Handler -> Places]
  /\ sess \in [Handler -> Handle \cup {NoState}]
  /\ DOMAIN arg = Handler

FieldType ==
  /\ DOMAIN req = Handler /\ DOMAIN snap = Handler
  /\ prev \in [Handler -> Handler \cup {Nobody}]
  /\ closed \in [Handler -> BOOLEAN]
  /\ consumer \in [Handler -> {"off", "running", "exited"}]
  /\ ready \in [Handler -> BOOLEAN]
  /\ discAt \in [Handler -> Nat \cup {NoTime}]
  /\ graceful \in [Handler -> BOOLEAN]
  /\ wills \in [Handler -> Nat]

ServerType ==
  /\ clients \in [ClientID -> Handler \cup {Nobody}]
  /\ DOMAIN st \subseteq Handle /\ st \in [DOMAIN st -> State]
  /\ data \in [ClientID -> DOMAIN st \cup {NoState}]
  /\ routes \in [ClientID -> [Filter -> RouteType]]
  /\ now \in Nat

\* What the place of a handler says about its own fields.
Placed(h) ==
  /\ pc[h] # "new" => req[h] \in Requests
  /\ pc[h] \in Asking => sess[h] = NoState
  /\ pc[h] \notin Asking \cup Closing => sess[h] # NoState
  /\ pc[h] = "release" => sess[h] # NoState
  /\ pc[h] \in Asking \cup {"connack", "ready", "begin"} => consumer[h] = "off"
  /\ pc[h] \in Serving \cup {"will", "willPublish"} => consumer[h] # "off"
  /\ consumer[h] = "running" => sess[h] # NoState /\ pc[h] \notin {"release", "exit"}
  /\ pc[h] = "willPublish" => req[h].will /\ ~graceful[h]
  /\ wills[h] = IF /\ consumer[h] # "off" /\ pc[h] \in Closing
                   /\ req[h].will /\ ~graceful[h] THEN 1 ELSE 0
  /\ sess[h] # NoState /\ pc[h] \in {"closeClient", "drain", "release"} =>
       discAt[h] # NoTime
  /\ snap[h] # {} => pc[h] \in Publishing
  /\ pc[h] \in {"route", "unsubscribe"} => arg[h].filter \in Filter
  /\ pc[h] = "route" => arg[h].qos \in QoS

\* Server.clients holds exactly the handlers that own their client ID.
Registered ==
  \A h \in Handler, id \in ClientID : clients[id] = h <=> Owns(h) /\ ID(h) = id

\* What holds of the stored session of a client ID.
Stored(id) ==
  LET s == st[data[id]] IN
  /\ s.id = id /\ ~s.deleted
  /\ clients[id] = Nobody => ~s.connected /\ s.offlineSince # NoTime
  /\ s.paused => clients[id] # Nobody /\ pc[clients[id]] \in {"subscribe", "route"}

\* What holds of a handler that owns a session.
Owning(h) ==
  /\ data[ID(h)] = sess[h]
  /\ st[sess[h]].connected /\ st[sess[h]].owner = req[h].identity
  /\ pc[h] = "route" => st[sess[h]].subscriptions[arg[h].filter] = arg[h].qos
  /\ pc[h] = "unsubscribe" => routes[ID(h)][arg[h].filter] = NoRoute

ConnectionsInv ==
  /\ PlaceType /\ FieldType /\ ServerType
  /\ \A h \in Handler : Placed(h)
  /\ Registered
  /\ \A id \in Live : Stored(id)
  /\ \A h \in Handler : Owns(h) => Owning(h)
  /\ RoutesMatchSessions
  /\ SnapshotsLive

-----------------------------------------------------------------------------
\* Initially nothing is connected, stored or routed.
LEMMA InitInv == Init => ConnectionsInv
<1> SUFFICES ASSUME Init PROVE ConnectionsInv OBVIOUS
<1> USE ConnectionsAssumption DEF Init
<1>1. PlaceType /\ FieldType /\ ServerType
  <2>1. st \in [DOMAIN st -> State] /\ DOMAIN st = {} OBVIOUS
  <2>2. NoRoute \in RouteType BY DEF NoRoute, RouteType, NoSub
  <2> QED BY <2>1, <2>2
          DEF PlaceType, FieldType, ServerType, Places, Asking, Serving,
              Closing, NoTime
<1>2. \A h \in Handler : Placed(h)
  BY DEF Placed, Asking, Serving, Publishing, Closing
<1>3. Registered /\ \A h \in Handler : ~Owns(h) BY DEF Registered, Owns
<1>4. Live = {} BY DEF Live
<1>5. RoutesMatchSessions BY <1>4 DEF RoutesMatchSessions
<1>6. SnapshotsLive BY DEF SnapshotsLive
<1> QED BY <1>1, <1>2, <1>3, <1>4, <1>5, <1>6 DEF ConnectionsInv

\* A step without effect keeps the invariant, and so does the clock.
LEMMA TickInv ==
  ASSUME ConnectionsInv, UNCHANGED <<handlerVars, serverVars>>, now' \in Nat
  PROVE  ConnectionsInv'
<1> USE DEF ConnectionsInv, handlerVars, serverVars
<1>1. PlaceType' /\ FieldType' /\ ServerType'
  BY DEF PlaceType, FieldType, ServerType
<1>2. \A h \in Handler : Placed(h)' BY DEF Placed
<1>3. Registered' BY DEF Registered, Owns, ID
<1>4. (\A id \in Live : Stored(id))' BY DEF Live, Stored
<1>5. \A h \in Handler : (Owns(h) => Owning(h))' BY DEF Owns, Owning, ID
<1>6. RoutesMatchSessions' BY DEF RoutesMatchSessions, Live
<1>7. SnapshotsLive' BY DEF SnapshotsLive
<1> QED BY <1>1, <1>2, <1>3, <1>4, <1>5, <1>6, <1>7

-----------------------------------------------------------------------------
(* Steps of a handler that leave sessions, routes and Server.clients alone. *)

\* The handler h goes to l, and what it writes is its own.  It may mark the
\* connection of another handler as closing, and never unmarks one.
Advances(h, l) ==
  /\ pc' = [pc EXCEPT ![h] = l]
  /\ UNCHANGED <<sess, arg, serverVars, now>>
  /\ \A g \in Handler \ {h} :
       /\ req'[g] = req[g] /\ consumer'[g] = consumer[g] /\ graceful'[g] = graceful[g]
       /\ wills'[g] = wills[g] /\ snap'[g] = snap[g]
       /\ discAt[g] # NoTime => discAt'[g] # NoTime
  /\ pc[h] # "new" => req'[h] = req[h]
  /\ l # pc[h] => /\ pc[h] \notin {"exit", "subscribe", "route", "unsubscribe"}
                  /\ l \notin {"subscribe", "route", "unsubscribe"}
                  /\ l = "exit" => sess[h] = NoState
  /\ snap'[h] \subseteq snap[h] \cup Installed

\* What other handlers say of themselves is not changed by such a step.
LEMMA OthersPlaced ==
  ASSUME ConnectionsInv, NEW h \in Handler, NEW g \in Handler, g # h,
         pc'[g] = pc[g], sess'[g] = sess[g], arg'[g] = arg[g], req'[g] = req[g],
         consumer'[g] = consumer[g], graceful'[g] = graceful[g], wills'[g] = wills[g],
         snap'[g] = snap[g], discAt[g] # NoTime => discAt'[g] # NoTime
  PROVE  Placed(g)'
BY DEF ConnectionsInv, Placed

\* The routes that are installed lead to stored sessions.
LEMMA InstalledLive ==
  ASSUME RoutesMatchSessions, NEW sub \in Installed
  PROVE  data[sub.id] = sub.route.sess
BY SMT DEF RoutesMatchSessions, Installed

\* Such a step keeps the invariant, once the handler's own fields are right.
LEMMA MoveInv ==
  ASSUME ConnectionsInv, NEW h \in Handler, NEW l \in Places, Advances(h, l),
         FieldType', Placed(h)'
  PROVE  ConnectionsInv'
<1> USE ConnectionsAssumption DEF ConnectionsInv, serverVars
<1>1. \A g \in Handler : Placed(g)'
  <2> SUFFICES ASSUME NEW g \in Handler, g # h PROVE Placed(g)' OBVIOUS
  <2>1. pc'[g] = pc[g] BY DEF Advances, PlaceType
  <2> QED BY <2>1, OthersPlaced DEF Advances
<1>2. \A g \in Handler : /\ Owns(g)' <=> Owns(g)
                         /\ Owns(g) => req'[g] = req[g]
  <2>1. \A g \in Handler : g # h => pc'[g] = pc[g] /\ req'[g] = req[g]
    BY DEF Advances, PlaceType
  <2>2. /\ pc'[h] = l /\ sess' = sess
        /\ l # pc[h] /\ sess[h] # NoState => l # "exit" /\ pc[h] # "exit"
        /\ sess[h] # NoState => pc[h] # "new" /\ req'[h] = req[h]
    BY DEF Advances, PlaceType, Placed, Asking
  <2> QED BY <2>1, <2>2 DEF Owns
<1>3. \A g \in Handler : pc'[g] \in {"subscribe", "route", "unsubscribe"} \/
                         pc[g] \in {"subscribe", "route", "unsubscribe"} => pc'[g] = pc[g]
  BY Zenon DEF Advances, PlaceType
<1>4. UNCHANGED <<sess, arg, clients, st, data, routes, now>> BY DEF Advances
<1>5. Registered' BY <1>2, <1>4, SMT DEF Registered, ID
<1>6. Live' = Live BY <1>4 DEF Live
<1>7. ASSUME NEW id \in Live PROVE Stored(id)'
  <2>1. Stored(id) /\ clients[id] \in Handler \cup {Nobody}
    BY DEF Live, ServerType
  <2> QED BY <2>1, <1>3, <1>4 DEF Stored
<1>8. \A g \in Handler : (Owns(g) => Owning(g))'
  BY <1>2, <1>3, <1>4, SMT DEF Owning, ID
<1>9. RoutesMatchSessions' BY <1>3, <1>4, <1>6 DEF RoutesMatchSessions
<1>10. SnapshotsLive'
  <2> SUFFICES ASSUME NEW g \in Handler, NEW sub \in snap'[g]
               PROVE  data[sub.id] = sub.route.sess
    BY <1>4 DEF SnapshotsLive
  <2>1. sub \in snap[g] \/ sub \in Installed BY DEF Advances
  <2> QED BY <2>1, InstalledLive DEF SnapshotsLive
<1>11. ServerType' /\ PlaceType' BY <1>4 DEF ServerType, PlaceType, Advances
<1> QED BY <1>1, <1>11, <1>5, <1>6, <1>7, <1>8, <1>9, <1>10

\* The steps from CONNECT to the first packet keep the invariant.
LEMMA HandshakeInv ==
  ASSUME ConnectionsInv, NEW h \in Handler,
         \/ Connect(h) \/ GiveUp(h) \/ Evict(h) \/ Await(h) \/ Connack(h)
         \/ MarkReady(h)
  PROVE  ConnectionsInv'
<1> USE ConnectionsAssumption
    DEF Goto, serverVars, Places, Asking, Serving, Publishing, Closing
<1>0. PlaceType /\ FieldType /\ ServerType /\ Placed(h) BY DEF ConnectionsInv
<1>1. ASSUME Connect(h) PROVE ConnectionsInv'
  <2>1. FieldType' BY <1>0, <1>1 DEF Connect, FieldType
  <2>2. Placed(h)' BY <1>0, <1>1 DEF Connect, PlaceType, FieldType, Placed
  <2>3. CASE pc' = [pc EXCEPT ![h] = "acquire"]
    <3>1. Advances(h, "acquire")
      BY <1>0, <1>1, <2>3 DEF Connect, Advances, FieldType, Placed
    <3> QED BY <2>1, <2>2, <3>1, MoveInv
  <2>4. CASE pc' = [pc EXCEPT ![h] = "close"]
    <3>1. Advances(h, "close")
      BY <1>0, <1>1, <2>4 DEF Connect, Advances, FieldType, Placed
    <3> QED BY <2>1, <2>2, <3>1, MoveInv
  <2> QED BY <1>1, <2>3, <2>4 DEF Connect
<1>2. ASSUME GiveUp(h) PROVE ConnectionsInv'
  <2>1. Advances(h, "close")
    BY <1>0, <1>2 DEF GiveUp, Advances, PlaceType, FieldType, Placed
  <2>2. FieldType' BY <1>0, <1>2 DEF GiveUp, FieldType
  <2>3. Placed(h)' BY <1>0, <1>2 DEF GiveUp, PlaceType, FieldType, Placed
  <2> QED BY <2>1, <2>2, <2>3, MoveInv
<1>3. ASSUME Evict(h) PROVE ConnectionsInv'
  <2>1. Advances(h, "await")
    BY <1>0, <1>3 DEF Evict, Advances, PlaceType, FieldType, Placed
  <2>2. FieldType' BY <1>0, <1>3 DEF Evict, FieldType
  <2>3. Placed(h)' BY <1>0, <1>3 DEF Evict, PlaceType, FieldType, Placed
  <2> QED BY <2>1, <2>2, <2>3, MoveInv
<1>4. ASSUME Await(h) PROVE ConnectionsInv'
  <2>1. Advances(h, "acquire")
    BY <1>0, <1>4 DEF Await, Advances, PlaceType, FieldType, Placed
  <2>2. FieldType' BY <1>0, <1>4 DEF Await, FieldType
  <2>3. Placed(h)' BY <1>0, <1>4 DEF Await, PlaceType, FieldType, Placed
  <2> QED BY <2>1, <2>2, <2>3, MoveInv
<1>5. ASSUME Connack(h) PROVE ConnectionsInv'
  <2>1. FieldType' BY <1>0, <1>5 DEF Connack, FieldType
  <2>2. Placed(h)' BY <1>0, <1>5, ZenonT(30) DEF Connack, PlaceType, FieldType, Placed
  <2>3. CASE pc' = [pc EXCEPT ![h] = "ready"]
    <3>1. Advances(h, "ready")
      BY <1>0, <1>5, <2>3 DEF Connack, Advances, FieldType, Placed
    <3> QED BY <2>1, <2>2, <3>1, MoveInv
  <2>4. CASE pc' = [pc EXCEPT ![h] = "close"]
    <3>1. Advances(h, "close")
      BY <1>0, <1>5, <2>4 DEF Connack, Advances, FieldType, Placed
    <3> QED BY <2>1, <2>2, <3>1, MoveInv
  <2> QED BY <1>5, <2>3, <2>4 DEF Connack
<1>6. ASSUME MarkReady(h) PROVE ConnectionsInv'
  <2>1. Advances(h, "begin")
    BY <1>0, <1>6 DEF MarkReady, Advances, PlaceType, FieldType, Placed
  <2>2. FieldType' BY <1>0, <1>6 DEF MarkReady, FieldType
  <2>3. Placed(h)' BY <1>0, <1>6 DEF MarkReady, PlaceType, FieldType, Placed
  <2> QED BY <2>1, <2>2, <2>3, MoveInv
<1> QED BY <1>1, <1>2, <1>3, <1>4, <1>5, <1>6

\* So do the end of serve and the steps of a publish.
LEMMA PublishInv ==
  ASSUME ConnectionsInv, NEW h \in Handler,
         \/ Publish(h) \/ PublishWill(h) \/ EndPublish(h)
         \/ \E clean \in BOOLEAN : ServeReturns(h, clean)
         \/ \E sub \in snap[h] : Deliver(h, sub)
  PROVE  ConnectionsInv'
<1> USE ConnectionsAssumption
    DEF Goto, serverVars, Places, Asking, Serving, Publishing, Closing
<1>0. PlaceType /\ FieldType /\ ServerType /\ Placed(h) BY DEF ConnectionsInv
<1>1. ASSUME NEW clean \in BOOLEAN, ServeReturns(h, clean) PROVE ConnectionsInv'
  <2>1. Advances(h, "will")
    BY <1>0, <1>1 DEF ServeReturns, Advances, PlaceType, FieldType, Placed
  <2>2. FieldType' BY <1>0, <1>1 DEF ServeReturns, FieldType
  <2>3. Placed(h)' BY <1>0, <1>1 DEF ServeReturns, PlaceType, FieldType, Placed
  <2> QED BY <2>1, <2>2, <2>3, MoveInv
<1>2. ASSUME Publish(h) PROVE ConnectionsInv'
  <2>1. Advances(h, "publish")
    BY <1>0, <1>2 DEF Publish, BeginPublish, Advances, PlaceType, FieldType, Placed
  <2>2. FieldType' BY <1>0, <1>2 DEF Publish, BeginPublish, FieldType
  <2>3. Placed(h)'
    BY <1>0, <1>2 DEF Publish, BeginPublish, PlaceType, FieldType, Placed
  <2> QED BY <2>1, <2>2, <2>3, MoveInv
<1>3. ASSUME PublishWill(h) PROVE ConnectionsInv'
  <2>1. Advances(h, "willPublish")
    BY <1>0, <1>3
    DEF PublishWill, BeginPublish, Advances, PlaceType, FieldType, Placed
  <2>2. FieldType' BY <1>0, <1>3 DEF PublishWill, BeginPublish, FieldType
  <2>3. Placed(h)'
    BY <1>0, <1>3 DEF PublishWill, BeginPublish, PlaceType, FieldType, Placed
  <2> QED BY <2>1, <2>2, <2>3, MoveInv
<1>4. ASSUME NEW sub \in snap[h], Deliver(h, sub) PROVE ConnectionsInv'
  <2>1. Advances(h, pc[h])
    BY <1>0, <1>4 DEF Deliver, Advances, PlaceType, FieldType, Placed
  <2>2. FieldType' BY <1>0, <1>4 DEF Deliver, FieldType
  <2>3. Placed(h)' BY <1>0, <1>4 DEF Deliver, PlaceType, FieldType, Placed
  <2>4. pc[h] \in Places BY <1>0, <1>4 DEF PlaceType
  <2> QED BY <2>1, <2>2, <2>3, <2>4, MoveInv
<1>5. ASSUME EndPublish(h) PROVE ConnectionsInv'
  <2>1. CASE pc[h] = "publish"
    <3>1. UNCHANGED <<wills, consumer, graceful, discAt>>
      BY <1>5, <2>1 DEF EndPublish
    <3>2. FieldType' BY <1>0, <1>5, <3>1 DEF EndPublish, FieldType
    <3>3. PICK l \in {"serve", "will"} : pc' = [pc EXCEPT ![h] = l]
      BY <1>5, <2>1 DEF EndPublish
    <3>4. Placed(h)'
      BY <1>0, <1>5, <2>1, <3>1, <3>3 DEF EndPublish, PlaceType, Placed
    <3>5. Advances(h, l) BY <1>0, <1>5, <2>1, <3>1, <3>3 DEF EndPublish, Advances
    <3> QED BY <3>2, <3>4, <3>5, MoveInv
  <2>2. CASE pc[h] = "willPublish"
    <3>1. /\ pc' = [pc EXCEPT ![h] = "close"] /\ wills' = [wills EXCEPT ![h] = @ + 1]
          /\ UNCHANGED <<req, prev, sess, closed, consumer, ready, discAt, graceful,
                         arg, snap, serverVars, now>> /\ snap[h] = {}
      BY <1>5, <2>2 DEF EndPublish
    <3>2. wills[h] = 0 BY <1>0, <2>2 DEF Placed
    <3>3. wills' \in [Handler -> Nat] /\ wills'[h] = 1
          /\ \A g \in Handler \ {h} : wills'[g] = wills[g]
      BY <1>0, <3>1, <3>2, SMT DEF FieldType
    <3>4. FieldType' BY <1>0, <3>1, <3>3 DEF FieldType
    <3>5. Placed(h)' BY <1>0, <2>2, <3>1, <3>3 DEF PlaceType, Placed
    <3>6. Advances(h, "close") BY <1>0, <2>2, <3>1, <3>3 DEF Advances
    <3> QED BY <3>4, <3>5, <3>6, MoveInv
  <2> QED BY <1>5, <2>1, <2>2 DEF EndPublish
<1> QED BY <1>1, <1>2, <1>3, <1>4, <1>5

\* So do the failure of a client and the steps of the deferred cleanup.
LEMMA CleanupInv ==
  ASSUME ConnectionsInv, NEW h \in Handler,
         \/ Fail(h) \/ StopConsumer(h) \/ SkipWill(h) \/ BeginClose(h)
         \/ CloseClient(h) \/ Drain(h)
  PROVE  ConnectionsInv'
<1> USE ConnectionsAssumption
    DEF Goto, serverVars, Places, Asking, Serving, Publishing, Closing
<1>0. PlaceType /\ FieldType /\ ServerType /\ Placed(h) BY DEF ConnectionsInv
<1>1. ASSUME Fail(h) PROVE ConnectionsInv'
  <2>1. Advances(h, pc[h])
    BY <1>0, <1>1 DEF Fail, Advances, PlaceType, FieldType, Placed
  <2>2. FieldType' BY <1>0, <1>1 DEF Fail, FieldType
  <2>3. Placed(h)' BY <1>0, <1>1 DEF Fail, PlaceType, FieldType, Placed
  <2>4. pc[h] \in Places BY <1>0, <1>1 DEF PlaceType
  <2> QED BY <2>1, <2>2, <2>3, <2>4, MoveInv
<1>2. ASSUME StopConsumer(h) PROVE ConnectionsInv'
  <2>1. Advances(h, pc[h])
    BY <1>0, <1>2 DEF StopConsumer, Advances, PlaceType, FieldType, Placed
  <2>2. FieldType' BY <1>0, <1>2 DEF StopConsumer, FieldType
  <2>3. Placed(h)' BY <1>0, <1>2 DEF StopConsumer, PlaceType, FieldType, Placed
  <2>4. pc[h] \in Places BY <1>0, <1>2 DEF PlaceType
  <2> QED BY <2>1, <2>2, <2>3, <2>4, MoveInv
<1>3. ASSUME SkipWill(h) PROVE ConnectionsInv'
  <2>1. Advances(h, "close")
    BY <1>0, <1>3 DEF SkipWill, Advances, PlaceType, FieldType, Placed
  <2>2. FieldType' BY <1>0, <1>3 DEF SkipWill, FieldType
  <2>3. Placed(h)' BY <1>0, <1>3 DEF SkipWill, PlaceType, FieldType, Placed
  <2> QED BY <2>1, <2>2, <2>3, MoveInv
<1>4. ASSUME BeginClose(h) PROVE ConnectionsInv'
  <2>1. Advances(h, "closeClient")
    BY <1>0, <1>4
    DEF BeginClose, beginClosing, Advances, PlaceType, FieldType, Placed
  <2>2. FieldType'
    BY <1>0, <1>4, SMT DEF BeginClose, beginClosing, FieldType, ServerType
  <2>3. sess[h] # NoState => discAt'[h] # NoTime
    BY <1>0, <1>4, SMT
    DEF BeginClose, beginClosing, PlaceType, FieldType, ServerType, NoTime
  <2>4. Placed(h)'
    BY <1>0, <1>4, <2>3 DEF BeginClose, PlaceType, FieldType, Placed
  <2> QED BY <2>1, <2>2, <2>4, MoveInv
<1>5. ASSUME CloseClient(h) PROVE ConnectionsInv'
  <2>1. Advances(h, "drain")
    BY <1>0, <1>5 DEF CloseClient, Advances, PlaceType, FieldType, Placed
  <2>2. FieldType' BY <1>0, <1>5 DEF CloseClient, FieldType
  <2>3. Placed(h)' BY <1>0, <1>5 DEF CloseClient, PlaceType, FieldType, Placed
  <2> QED BY <2>1, <2>2, <2>3, MoveInv
<1>6. ASSUME Drain(h) PROVE ConnectionsInv'
  <2>1. FieldType' BY <1>0, <1>6 DEF Drain, FieldType
  <2>2. Placed(h)' BY <1>0, <1>6 DEF Drain, PlaceType, FieldType, Placed
  <2>3. CASE sess[h] # NoState
    <3>1. Advances(h, "release")
      BY <1>0, <1>6, <2>3 DEF Drain, Advances, FieldType, Placed
    <3> QED BY <2>1, <2>2, <3>1, MoveInv
  <2>4. CASE sess[h] = NoState
    <3>1. Advances(h, "exit")
      BY <1>0, <1>6, <2>4 DEF Drain, Advances, FieldType, Placed
    <3> QED BY <2>1, <2>2, <3>1, MoveInv
  <2> QED BY <2>3, <2>4
<1> QED BY <1>1, <1>2, <1>3, <1>4, <1>5, <1>6

\* acquireConnection that finds the ID of another identity, or taken: the
\* registered connection is marked closing and nothing else changes.
LEMMA AcquireWaitsInv ==
  ASSUME ConnectionsInv, NEW h \in Handler, pc[h] = "acquire",
         \/ Goto(h, "close") /\ UNCHANGED <<prev, discAt>>
         \/ /\ clients[ID(h)] # Nobody /\ beginClosing(clients[ID(h)])
            /\ prev' = [prev EXCEPT ![h] = clients[ID(h)]]
            /\ Goto(h, "evict"),
         UNCHANGED <<sess, serverVars, req, closed, consumer, ready, graceful, wills,
                     arg, snap, now>>
  PROVE  ConnectionsInv'
<1> USE ConnectionsAssumption
    DEF Goto, serverVars, Places, Asking, Serving, Publishing, Closing
<1>0. PlaceType /\ FieldType /\ ServerType /\ Placed(h) BY DEF ConnectionsInv
<1>1. ID(h) \in ClientID /\ clients[ID(h)] \in Handler \cup {Nobody}
  BY <1>0 DEF Placed, ServerType, ID, Requests
<1>2. /\ discAt' \in [Handler -> Nat \cup {NoTime}]
      /\ \A g \in Handler : discAt[g] # NoTime => discAt'[g] # NoTime
  <2>1. CASE UNCHANGED discAt BY <1>0, <2>1 DEF PlaceType, FieldType
  <2>2. CASE clients[ID(h)] \in Handler /\ beginClosing(clients[ID(h)])
    BY <1>0, <2>2 DEF PlaceType, FieldType, ServerType, beginClosing
  <2> QED BY <1>1, <2>1, <2>2
<1>3. prev' \in [Handler -> Handler \cup {Nobody}] BY <1>0, <1>1 DEF FieldType
<1>4. FieldType' BY <1>0, <1>2, <1>3 DEF FieldType
<1>5. Placed(h)' BY <1>0 DEF PlaceType, FieldType, Placed
<1>6. Advances(h, "close") \/ Advances(h, "evict")
  BY <1>0, <1>2 DEF Advances, PlaceType, FieldType
<1> QED BY <1>4, <1>5, <1>6, MoveInv

-----------------------------------------------------------------------------
(* Steps of a handler on its own session and on its own routes.            *)

\* An owner goes from l to a place where it still owns its session, whose
\* value becomes t; the routes of its ID agree with t but for one filter
\* that it is busy with.
Works(h, l, t) ==
  /\ pc' = [pc EXCEPT ![h] = l]
  /\ st' = [st EXCEPT ![sess[h]] = t]
  /\ t \in State /\ SameStanding(st[sess[h]], t)
  /\ t.paused => l \in {"subscribe", "route"}
  /\ UNCHANGED <<req, prev, sess, closed, ready, discAt, graceful, wills, snap,
                 clients, data, now>>
  /\ DOMAIN arg' = Handler /\ \A g \in Handler \ {h} : arg'[g] = arg[g]
  /\ \/ UNCHANGED consumer
     \/ consumer' = [consumer EXCEPT ![h] = "running"]
  /\ routes' \in [ClientID -> [Filter -> RouteType]]
  /\ \A id \in ClientID \ {ID(h)} : routes'[id] = routes[id]
  /\ \A f \in Filter :
       /\ routes'[ID(h)][f] # NoRoute => routes'[ID(h)][f].sess = sess[h]
       /\ \/ routes'[ID(h)][f].qos = t.subscriptions[f]
          \/ l \in {"route", "unsubscribe"} /\ arg'[h].filter = f
  /\ l = "route" => t.subscriptions[arg'[h].filter] = arg'[h].qos
  /\ l = "unsubscribe" => routes'[ID(h)][arg'[h].filter] = NoRoute

\* A stored session belongs to one client ID, and an owner's is stored.
LEMMA OwnerFacts ==
  ASSUME ConnectionsInv, NEW h \in Handler, Owns(h)
  PROVE  /\ ID(h) \in ClientID /\ ID(h) \in Live
         /\ clients[ID(h)] = h /\ data[ID(h)] = sess[h]
         /\ sess[h] \in DOMAIN st /\ st[sess[h]] \in State
         /\ st[sess[h]].connected = TRUE /\ st[sess[h]].deleted = FALSE
         /\ \A id \in ClientID : data[id] = sess[h] => id = ID(h)
<1> USE DEF ConnectionsInv
<1>1. pc[h] # "new" BY DEF Owns, Placed, Asking
<1>2. ID(h) \in ClientID /\ clients[ID(h)] = h
  BY <1>1 DEF Placed, ID, Requests, Registered
<1>3. data[ID(h)] = sess[h] /\ sess[h] # NoState BY DEF Owning, Owns
<1>4. ID(h) \in Live BY <1>2, <1>3 DEF Live
<1>5. sess[h] \in DOMAIN st /\ st[sess[h]] \in State
  BY <1>2, <1>3 DEF ServerType
<1>6. st[sess[h]].connected /\ ~st[sess[h]].deleted
  BY <1>3, <1>4 DEF Owning, Stored
<1>7. st[sess[h]].connected \in BOOLEAN /\ st[sess[h]].deleted \in BOOLEAN
  BY <1>5 DEF State
<1>8. \A id \in ClientID : data[id] = sess[h] => id = ID(h)
  BY <1>3, <1>4, SMT DEF Live, Stored
<1> QED BY <1>2, <1>3, <1>4, <1>5, <1>6, <1>7, <1>8

\* The heap stays well typed when one of its sessions is replaced.
LEMMA HeapType ==
  ASSUME ServerType, NEW s \in DOMAIN st, NEW t \in State,
         st' = [st EXCEPT ![s] = t]
  PROVE  DOMAIN st' = DOMAIN st /\ st' \in [DOMAIN st -> State]
BY DEF ServerType

\* Such a step keeps the invariant.
LEMMA WorkInv ==
  ASSUME ConnectionsInv, NEW h \in Handler, NEW l \in Places, NEW t, Owns(h),
         l # "exit", Works(h, l, t), Placed(h)'
  PROVE  ConnectionsInv'
<1> USE ConnectionsAssumption DEF ConnectionsInv
<1>0. /\ ID(h) \in ClientID /\ ID(h) \in Live
      /\ clients[ID(h)] = h /\ data[ID(h)] = sess[h]
      /\ sess[h] \in DOMAIN st /\ st[sess[h]].deleted = FALSE
      /\ \A id \in ClientID : data[id] = sess[h] => id = ID(h)
  BY OwnerFacts
<1>1. ASSUME NEW g \in Handler, g # h
      PROVE  pc'[g] = pc[g] /\ arg'[g] = arg[g] /\ consumer'[g] = consumer[g]
  BY <1>1 DEF Works, PlaceType, FieldType
<1>2. \A g \in Handler : Placed(g)'
  <2> SUFFICES ASSUME NEW g \in Handler, g # h PROVE Placed(g)' OBVIOUS
  <2> QED BY <1>1, OthersPlaced DEF Works
<1>3. UNCHANGED <<req, sess, clients, data, snap>> BY DEF Works
<1>4. pc'[h] = l /\ st'[sess[h]] = t
  BY <1>0 DEF Works, PlaceType, ServerType
<1>5. \A g \in Handler : Owns(g)' <=> Owns(g) BY <1>1, <1>3, <1>4 DEF Owns
<1>6. Registered' BY <1>3, <1>5 DEF Registered, ID
<1>7. Live' = Live BY <1>3 DEF Live
<1>8. ASSUME NEW id \in Live, id # ID(h)
      PROVE  /\ st'[data[id]] = st[data[id]]
             /\ clients[id] # h /\ clients[id] \in Handler \cup {Nobody}
  BY <1>0, <1>8, SMT DEF Live, Works, ServerType, Registered
<1>9. ASSUME NEW id \in Live PROVE Stored(id)'
  <2>1. CASE id = ID(h)
    BY <1>0, <1>3, <1>4, <2>1, SMT DEF Stored, Works, SameStanding
  <2>2. CASE id # ID(h)
    <3>1. clients[id] \in Handler => pc'[clients[id]] = pc[clients[id]]
      BY <1>1, <1>8, <2>2
    <3> QED BY <1>3, <1>8, <2>2, <3>1 DEF Stored
  <2> QED BY <2>1, <2>2
<1>10. ASSUME NEW g \in Handler, Owns(g) PROVE Owning(g)'
  <2>1. CASE g = h
    BY <1>0, <1>3, <1>4, <1>10, <2>1 DEF Owning, Works, SameStanding, ID
  <2>2. CASE g # h
    <3>1. /\ ID(g) \in Live /\ clients[ID(g)] = g /\ data[ID(g)] = sess[g]
      BY <1>10, OwnerFacts
    <3>2. ID(g) # ID(h) BY <1>0, <2>2, <3>1
    <3>3. st'[sess[g]] = st[sess[g]] BY <1>8, <3>1, <3>2
    <3>4. routes'[ID(g)] = routes[ID(g)] BY <3>1, <3>2 DEF Works, Live
    <3> QED BY <1>1, <1>3, <1>10, <2>2, <3>3, <3>4, SMT DEF Owning, ID
  <2> QED BY <2>1, <2>2
<1>11. RoutesMatchSessions'
  <2> SUFFICES ASSUME NEW id \in ClientID, NEW f \in Filter
               PROVE  /\ routes'[id][f] # NoRoute =>
                           id \in Live /\ routes'[id][f].sess = data[id]
                      /\ \/ id \notin Live
                         \/ routes'[id][f].qos = st'[data[id]].subscriptions[f]
                         \/ \E g \in Handler : /\ clients[id] = g
                                               /\ pc'[g] \in {"route", "unsubscribe"}
                                               /\ arg'[g].filter = f
    BY <1>3, <1>7, SMT DEF RoutesMatchSessions
  <2>1. CASE id = ID(h) BY <1>0, <1>4, <2>1, SMT DEF Works
  <2>2. CASE id # ID(h)
    <3>1. routes'[id] = routes[id] BY <2>2 DEF Works
    <3>2. \A g \in Handler : id \in Live /\ clients[id] = g =>
                               pc'[g] = pc[g] /\ arg'[g] = arg[g]
      BY <1>1, <1>8, <2>2
    <3> QED BY <1>8, <2>2, <3>1, <3>2, SMT DEF RoutesMatchSessions
  <2> QED BY <2>1, <2>2
<1>12. SnapshotsLive' BY <1>3 DEF SnapshotsLive
<1>13. ServerType'
  <2>1. DOMAIN st' = DOMAIN st /\ st' \in [DOMAIN st -> State]
    BY <1>0, HeapType DEF Works
  <2> QED BY <2>1 DEF Works, ServerType
<1>14. PlaceType' /\ FieldType'
  BY DEF Works, PlaceType, FieldType
<1> QED BY <1>13, <1>14, <1>2, <1>5, <1>6, <1>7, <1>9, <1>10, <1>11, <1>12

\* The routes of an owned client ID.
LEMMA OwnerRoutes ==
  ASSUME ConnectionsInv, NEW h \in Handler, Owns(h), NEW f \in Filter
  PROVE  /\ routes[ID(h)][f] # NoRoute => routes[ID(h)][f].sess = sess[h]
         /\ \/ routes[ID(h)][f].qos = st[sess[h]].subscriptions[f]
            \/ pc[h] \in {"route", "unsubscribe"} /\ arg[h].filter = f
<1>1. /\ ID(h) \in ClientID /\ ID(h) \in Live /\ clients[ID(h)] = h
      /\ data[ID(h)] = sess[h]
  BY OwnerFacts
<1> QED BY <1>1, SMT DEF ConnectionsInv, RoutesMatchSessions

\* Delivery is not paused outside handleSubscribe.
LEMMA OwnerPaused ==
  ASSUME ConnectionsInv, NEW h \in Handler, Owns(h), st[sess[h]].paused
  PROVE  pc[h] \in {"subscribe", "route"}
<1>1. ID(h) \in Live /\ clients[ID(h)] = h /\ data[ID(h)] = sess[h]
  BY OwnerFacts
<1> QED BY <1>1 DEF ConnectionsInv, Stored

\* What a handler that serves its connection knows of its session.
LEMMA WorkerFacts ==
  ASSUME ConnectionsInv, NEW h \in Handler, pc[h] \in Serving \cup {"begin"}
  PROVE  /\ Owns(h)
         /\ ID(h) \in ClientID /\ sess[h] \in DOMAIN st /\ st[sess[h]] \in State
         /\ sess[h] \in Handle
         /\ \A f \in Filter :
              /\ routes[ID(h)][f] # NoRoute => routes[ID(h)][f].sess = sess[h]
              /\ \/ routes[ID(h)][f].qos = st[sess[h]].subscriptions[f]
                 \/ pc[h] \in {"route", "unsubscribe"} /\ arg[h].filter = f
         /\ st[sess[h]].paused => pc[h] \in {"subscribe", "route"}
<1>1. Placed(h) /\ ServerType BY DEF ConnectionsInv
<1>2. Owns(h) BY <1>1 DEF Owns, Placed, Asking, Serving, Closing
<1>3. /\ ID(h) \in ClientID /\ sess[h] \in DOMAIN st /\ st[sess[h]] \in State
      /\ sess[h] \in Handle
  BY <1>1, <1>2, OwnerFacts DEF ServerType
<1> QED BY <1>2, <1>3, OwnerRoutes, OwnerPaused

\* The start of the consumer and the pauses of delivery keep the invariant.
LEMMA DeliveryInv ==
  ASSUME ConnectionsInv, NEW h \in Handler,
         \/ StartConsumer(h)
         \/ BeginSubscribe(h)
         \/ EndSubscribe(h)
  PROVE  ConnectionsInv'
<1> USE ConnectionsAssumption
    DEF Goto, SetState, Places, Asking, Serving, Publishing, Closing
<1> DEFINE s == st[sess[h]]
<1>0. PlaceType /\ FieldType /\ ServerType /\ Placed(h) BY DEF ConnectionsInv
<1>z. pc[h] \in Serving \cup {"begin"}
  BY DEF StartConsumer, BeginSubscribe, EndSubscribe
<1>a. Owns(h) BY <1>z, WorkerFacts
<1>b. /\ ID(h) \in ClientID /\ sess[h] \in DOMAIN st /\ st[sess[h]] \in State
      /\ sess[h] \in Handle
  BY <1>z, WorkerFacts
<1>c. /\ \A f \in Filter : routes[ID(h)][f] # NoRoute => routes[ID(h)][f].sess = sess[h]
      /\ \A f \in Filter : \/ routes[ID(h)][f].qos = s.subscriptions[f]
                           \/ pc[h] \in {"route", "unsubscribe"} /\ arg[h].filter = f
  BY <1>z, WorkerFacts
<1>d. s.paused => pc[h] \in {"subscribe", "route"} BY <1>z, WorkerFacts
<1>e. routes \in [ClientID -> [Filter -> RouteType]] BY <1>0 DEF ServerType
<1>1. ASSUME StartConsumer(h) PROVE ConnectionsInv'
  <2>1. /\ BeginDelivery(s) \in State /\ SameStanding(s, BeginDelivery(s))
        /\ BeginDelivery(s).paused = s.paused
        /\ BeginDelivery(s).subscriptions = s.subscriptions
    BY <1>b, MethodTypes, DeliveryFields
  <2>4. Placed(h)' BY <1>0, <1>1 DEF StartConsumer, PlaceType, FieldType, Placed
  <2>5. Works(h, "serve", BeginDelivery(s))
    BY <1>0, <1>1, <1>c, <1>d, <1>e, <2>1
    DEF StartConsumer, PlaceType, FieldType, Works
  <2> QED BY <1>a, <2>4, <2>5, WorkInv
<1>2. ASSUME BeginSubscribe(h) PROVE ConnectionsInv'
  <2>1. /\ PauseDelivery(s) \in State /\ SameStanding(s, PauseDelivery(s))
        /\ PauseDelivery(s).subscriptions = s.subscriptions
    BY <1>b, MethodTypes, DeliveryFields
  <2>4. Placed(h)'
    BY <1>0, <1>2 DEF BeginSubscribe, PlaceType, FieldType, Placed
  <2>5. Works(h, "subscribe", PauseDelivery(s))
    BY <1>0, <1>2, <1>c, <1>e, <2>1
    DEF BeginSubscribe, PlaceType, FieldType, Works
  <2> QED BY <1>a, <2>4, <2>5, WorkInv
<1>3. ASSUME EndSubscribe(h) PROVE ConnectionsInv'
  <2>1. /\ ResumeDelivery(s) \in State /\ SameStanding(s, ResumeDelivery(s))
        /\ ResumeDelivery(s).paused = FALSE
        /\ ResumeDelivery(s).subscriptions = s.subscriptions
    BY <1>b, MethodTypes, DeliveryFields
  <2>4. Placed(h)'
    BY <1>0, <1>3, SMT DEF EndSubscribe, Replied, PlaceType, FieldType, Placed
  <2>5. \/ Works(h, "serve", ResumeDelivery(s)) \/ Works(h, "will", ResumeDelivery(s))
    BY <1>0, <1>3, <1>c, <1>e, <2>1
    DEF EndSubscribe, Replied, PlaceType, FieldType, Works
  <2> QED BY <1>a, <2>4, <2>5, WorkInv
<1> QED BY <1>1, <1>2, <1>3

\* So do the two halves of a subscription,
LEMMA SubscribeInv ==
  ASSUME ConnectionsInv, NEW h \in Handler,
         \/ Route(h)
         \/ \E sub \in Subs : Subscribe(h, sub)
  PROVE  ConnectionsInv'
<1> USE ConnectionsAssumption
    DEF Goto, SetState, Places, Asking, Serving, Publishing, Closing
<1> DEFINE s == st[sess[h]]
<1>0. PlaceType /\ FieldType /\ ServerType /\ Placed(h) BY DEF ConnectionsInv
<1>z. pc[h] \in Serving \cup {"begin"}
  BY DEF Subscribe, Route
<1>a. Owns(h) BY <1>z, WorkerFacts
<1>b. /\ ID(h) \in ClientID /\ sess[h] \in DOMAIN st /\ st[sess[h]] \in State
      /\ sess[h] \in Handle
  BY <1>z, WorkerFacts
<1>c. /\ \A f \in Filter : routes[ID(h)][f] # NoRoute => routes[ID(h)][f].sess = sess[h]
      /\ \A f \in Filter : \/ routes[ID(h)][f].qos = s.subscriptions[f]
                           \/ pc[h] \in {"route", "unsubscribe"} /\ arg[h].filter = f
  BY <1>z, WorkerFacts
<1>d. s.paused => pc[h] \in {"subscribe", "route"} BY <1>z, WorkerFacts
<1>e. routes \in [ClientID -> [Filter -> RouteType]] BY <1>0 DEF ServerType
<1>1. ASSUME NEW sub \in Subs, Subscribe(h, sub) PROVE ConnectionsInv'
  <2> DEFINE t == SetSubscription(s, sub.filter, sub.qos)
  <2>1. sub.filter \in Filter /\ sub.qos \in QoS BY DEF Subs
  <2>2. /\ t \in State /\ SameStanding(s, t) /\ t.paused = s.paused
        /\ \A f \in Filter : t.subscriptions[f] =
                               IF f = sub.filter THEN sub.qos ELSE s.subscriptions[f]
    <3>1. s \in State BY <1>b
    <3> HIDE DEF s
    <3>2. ASSUME NEW f0 \in Filter, NEW q \in QoS
          PROVE  /\ SetSubscription(s, f0, q) \in State
                 /\ SameStanding(s, SetSubscription(s, f0, q))
                 /\ SetSubscription(s, f0, q).paused = s.paused
                 /\ \A f \in Filter : SetSubscription(s, f0, q).subscriptions[f] =
                                        IF f = f0 THEN q ELSE s.subscriptions[f]
      BY <3>1, SubscriptionTypes, SubscriptionFields, SMT
    <3> QED BY <2>1, <3>2
  <2>3. /\ st' = [st EXCEPT ![sess[h]] = t]
        /\ pc[h] = "subscribe" /\ pc' = [pc EXCEPT ![h] = "route"]
        /\ arg' = [arg EXCEPT ![h] = sub]
        /\ UNCHANGED <<req, prev, sess, closed, consumer, ready, discAt,
                       graceful, wills, snap, clients, data, routes, now>>
    BY <1>1 DEF Subscribe
  <2> HIDE DEF t
  <2>6. arg'[h] = sub BY <1>0, <2>3 DEF PlaceType, FieldType
  <2>7. Placed(h)' BY <1>0, <2>1, <2>3, <2>6 DEF PlaceType, FieldType, Placed
  <2>8. t.subscriptions[sub.filter] = sub.qos BY <2>1, <2>2
  <2>9. Works(h, "route", t)
    <3> HIDE DEF s
    <3>1. \A f \in Filter : \/ routes[ID(h)][f].qos = t.subscriptions[f]
                            \/ arg'[h].filter = f
      BY <1>c, <2>2, <2>3, <2>6
    <3>2. DOMAIN arg' = Handler /\ \A g \in Handler \ {h} : arg'[g] = arg[g]
      BY <1>0, <2>3 DEF PlaceType, FieldType
    <3>3. /\ routes' \in [ClientID -> [Filter -> RouteType]]
          /\ \A id \in ClientID \ {ID(h)} : routes'[id] = routes[id]
          /\ \A f \in Filter :
               /\ routes'[ID(h)][f] # NoRoute => routes'[ID(h)][f].sess = sess[h]
               /\ \/ routes'[ID(h)][f].qos = t.subscriptions[f]
                  \/ arg'[h].filter = f
      BY <1>c, <1>e, <2>3, <3>1
    <3> QED BY <2>2, <2>3, <2>6, <2>8, <3>2, <3>3 DEF Works, s
  <2> QED BY <1>a, <2>7, <2>9, WorkInv
<1>2. ASSUME Route(h) PROVE ConnectionsInv'
  <2> DEFINE f0 == arg[h].filter
             r == [sess |-> sess[h], qos |-> arg[h].qos]
  <2>1. f0 \in Filter /\ arg[h].qos \in QoS /\ pc[h] = "route"
    BY <1>0, <1>2 DEF Route, Placed
  <2>2. s.subscriptions[f0] = arg[h].qos
    BY <1>a, <2>1 DEF ConnectionsInv, Owning
  <2>3. r \in RouteType BY <1>b, <2>1 DEF RouteType
  <2>4. /\ routes' \in [ClientID -> [Filter -> RouteType]]
        /\ \A id \in ClientID \ {ID(h)} : routes'[id] = routes[id]
        /\ \A f \in Filter : routes'[ID(h)][f] = IF f = f0 THEN r ELSE routes[ID(h)][f]
    <3> HIDE DEF r, f0
    <3>1. routes' = [routes EXCEPT ![ID(h)][f0] = r] BY <1>2 DEF Route, r, f0
    <3> QED BY <1>b, <1>e, <2>1, <2>3, <3>1
  <2>5. /\ pc' = [pc EXCEPT ![h] = "subscribe"] /\ arg' = [arg EXCEPT ![h] = NoArg]
        /\ UNCHANGED <<req, prev, sess, closed, consumer, ready, discAt, graceful,
                       wills, snap, clients, st, data, now>>
    BY <1>2 DEF Route
  <2>7. Placed(h)' BY <1>0, <2>1, <2>5 DEF PlaceType, FieldType, Placed
  <2>8. st' = [st EXCEPT ![sess[h]] = s] BY <1>0, <1>b, <2>5 DEF ServerType
  <2>9. \A f \in Filter :
          /\ routes'[ID(h)][f] # NoRoute => routes'[ID(h)][f].sess = sess[h]
          /\ routes'[ID(h)][f].qos = s.subscriptions[f]
    <3>1. r.sess = sess[h] /\ r.qos = arg[h].qos OBVIOUS
    <3> HIDE DEF s, r
    <3> QED BY <1>c, <2>2, <2>4, <3>1, SMT
  <2>10. SameStanding(s, s) BY DEF SameStanding
  <2>11. DOMAIN arg' = Handler /\ \A g \in Handler \ {h} : arg'[g] = arg[g]
    BY <1>0, <2>5 DEF PlaceType, FieldType
  <2>12. Works(h, "subscribe", s)
    BY <1>b, <2>4, <2>5, <2>8, <2>9, <2>10, <2>11 DEF Works
  <2> QED BY <1>a, <2>7, <2>12, WorkInv
<1> QED BY <1>1, <1>2

\* and of an unsubscription.
LEMMA UnsubscribeInv ==
  ASSUME ConnectionsInv, NEW h \in Handler,
         \/ EndUnsubscribe(h)
         \/ \E f \in Filter : BeginUnsubscribe(h, f)
  PROVE  ConnectionsInv'
<1> USE ConnectionsAssumption
    DEF Goto, SetState, Places, Asking, Serving, Publishing, Closing
<1> DEFINE s == st[sess[h]]
<1>0. PlaceType /\ FieldType /\ ServerType /\ Placed(h) BY DEF ConnectionsInv
<1>z. pc[h] \in Serving \cup {"begin"}
  BY DEF BeginUnsubscribe, EndUnsubscribe
<1>a. Owns(h) BY <1>z, WorkerFacts
<1>b. /\ ID(h) \in ClientID /\ sess[h] \in DOMAIN st /\ st[sess[h]] \in State
      /\ sess[h] \in Handle
  BY <1>z, WorkerFacts
<1>c. /\ \A f \in Filter : routes[ID(h)][f] # NoRoute => routes[ID(h)][f].sess = sess[h]
      /\ \A f \in Filter : \/ routes[ID(h)][f].qos = s.subscriptions[f]
                           \/ pc[h] \in {"route", "unsubscribe"} /\ arg[h].filter = f
  BY <1>z, WorkerFacts
<1>d. s.paused => pc[h] \in {"subscribe", "route"} BY <1>z, WorkerFacts
<1>e. routes \in [ClientID -> [Filter -> RouteType]] BY <1>0 DEF ServerType
<1>1. ASSUME NEW f0 \in Filter, BeginUnsubscribe(h, f0) PROVE ConnectionsInv'
  <2>1. NoRoute \in RouteType BY DEF NoRoute, RouteType
  <2>2. /\ routes' \in [ClientID -> [Filter -> RouteType]]
        /\ \A id \in ClientID \ {ID(h)} : routes'[id] = routes[id]
        /\ \A f \in Filter : routes'[ID(h)][f] = IF f = f0 THEN NoRoute ELSE routes[ID(h)][f]
    <3>1. routes' = [routes EXCEPT ![ID(h)][f0] = NoRoute]
      BY <1>1 DEF BeginUnsubscribe
    <3> QED BY <1>b, <1>e, <2>1, <3>1
  <2>3. /\ pc[h] = "serve" /\ pc' = [pc EXCEPT ![h] = "unsubscribe"]
        /\ arg' = [arg EXCEPT ![h] = [filter |-> f0, qos |-> 0]]
        /\ UNCHANGED <<req, prev, sess, closed, consumer, ready, discAt, graceful,
                       wills, snap, clients, st, data, now>>
    BY <1>1 DEF BeginUnsubscribe
  <2>4. /\ arg'[h].filter = f0
        /\ DOMAIN arg' = Handler /\ \A g \in Handler \ {h} : arg'[g] = arg[g]
    BY <1>0, <2>3 DEF PlaceType, FieldType
  <2>6. Placed(h)' BY <1>0, <2>3, <2>4 DEF PlaceType, FieldType, Placed
  <2>7. st' = [st EXCEPT ![sess[h]] = s] BY <1>0, <1>b, <2>3 DEF ServerType
  <2>8. \A f \in Filter :
          /\ routes'[ID(h)][f] # NoRoute => routes'[ID(h)][f].sess = sess[h]
          /\ routes'[ID(h)][f].qos = s.subscriptions[f] \/ arg'[h].filter = f
    <3> HIDE DEF s
    <3> QED BY <1>c, <2>2, <2>3, <2>4
  <2>9. SameStanding(s, s) /\ ~s.paused BY <1>d, <2>3 DEF SameStanding
  <2>10. Works(h, "unsubscribe", s)
    BY <1>b, <2>2, <2>3, <2>4, <2>7, <2>8, <2>9 DEF Works
  <2> QED BY <1>a, <2>6, <2>10, WorkInv
<1>2. ASSUME EndUnsubscribe(h) PROVE ConnectionsInv'
  <2> DEFINE f0 == arg[h].filter
             t == DeleteSubscription(s, f0)
  <2>1. f0 \in Filter /\ pc[h] = "unsubscribe"
    BY <1>0, <1>2 DEF EndUnsubscribe, Placed
  <2>2. /\ t \in State /\ SameStanding(s, t) /\ t.paused = s.paused
        /\ \A f \in Filter : t.subscriptions[f] =
                               IF f = f0 THEN NoSub ELSE s.subscriptions[f]
    <3>1. s \in State /\ 0 \in QoS BY <1>b DEF QoS
    <3> HIDE DEF s, f0
    <3>2. t \in State BY <2>1, <3>1, SubscriptionTypes
    <3> QED BY <2>1, <3>1, <3>2, SubscriptionFields
  <2>3. /\ st' = [st EXCEPT ![sess[h]] = t]
        /\ pc' = [pc EXCEPT ![h] = "serve"] \/ pc' = [pc EXCEPT ![h] = "will"]
        /\ arg' = [arg EXCEPT ![h] = NoArg]
        /\ UNCHANGED <<req, prev, sess, closed, consumer, ready, discAt, graceful,
                       wills, snap, clients, data, routes, now>>
    BY <1>2 DEF EndUnsubscribe, Replied
  <2> HIDE DEF t
  <2>6. Placed(h)' BY <1>0, <2>1, <2>3, SMT DEF PlaceType, FieldType, Placed
  <2>8. routes[ID(h)][f0].qos = NoSub
    <3>1. Owning(h) BY <1>a DEF ConnectionsInv
    <3>2. routes[ID(h)][f0] = NoRoute BY <2>1, <3>1 DEF Owning
    <3> QED BY <3>2, SMT DEF NoRoute
  <2>9. \A f \in Filter : routes[ID(h)][f].qos = t.subscriptions[f]
    <3> HIDE DEF s
    <3> QED BY <1>c, <2>2, <2>8
  <2>10. DOMAIN arg' = Handler /\ \A g \in Handler \ {h} : arg'[g] = arg[g]
    BY <1>0, <2>3 DEF PlaceType, FieldType
  <2>11. ~t.paused BY <1>d, <2>1, <2>2
  <2>12. PICK l \in {"serve", "will"} : pc' = [pc EXCEPT ![h] = l] BY <2>3
  <2>13. Works(h, l, t)
    <3>1. /\ routes' \in [ClientID -> [Filter -> RouteType]]
          /\ \A id \in ClientID \ {ID(h)} : routes'[id] = routes[id]
          /\ \A f \in Filter :
               /\ routes'[ID(h)][f] # NoRoute => routes'[ID(h)][f].sess = sess[h]
               /\ routes'[ID(h)][f].qos = t.subscriptions[f]
      BY <1>c, <1>e, <2>3, <2>9
    <3>2. l # "route" /\ l # "unsubscribe" BY <2>12
    <3> QED BY <2>2, <2>3, <2>10, <2>11, <2>12, <3>1, <3>2 DEF Works
  <2> QED BY <1>a, <2>6, <2>12, <2>13, WorkInv
<1> QED BY <1>1, <1>2

(* Steps under the write lock of clientsMu.                                *)

\* No publisher is at work while clientsMu is write-locked.
LEMMA NoSnapshots ==
  ASSUME ConnectionsInv, Lockable
  PROVE  \A h \in Handler : snap[h] = {}
BY DEF ConnectionsInv, Placed, Lockable, Publishing

\* The handler h, whose ID nobody has, acquires it with the session s.
Registers(h, s) ==
  /\ pc' = [pc EXCEPT ![h] = "connack"]
  /\ sess' = [sess EXCEPT ![h] = s]
  /\ clients' = [clients EXCEPT ![ID(h)] = h]
  /\ data' = [data EXCEPT ![ID(h)] = s]
  /\ UNCHANGED <<req, prev, closed, consumer, ready, discAt, graceful, wills, arg,
                 snap, now>>
  /\ s \in DOMAIN st' /\ DOMAIN st' \subseteq Handle /\ st' \in [DOMAIN st' -> State]
  /\ \A id \in ClientID \ {ID(h)} :
       /\ data[id] \in DOMAIN st => data[id] \in DOMAIN st' /\ data[id] # s
       /\ id \in Live => st'[data[id]] = st[data[id]]
       /\ routes'[id] = routes[id]
  /\ routes' \in [ClientID -> [Filter -> RouteType]]
  /\ \A f \in Filter :
       /\ routes'[ID(h)][f] # NoRoute => routes'[ID(h)][f].sess = s
       /\ routes'[ID(h)][f].qos = st'[s].subscriptions[f]
  /\ st'[s].id = ID(h) /\ st'[s].owner = req[h].identity
  /\ st'[s].connected /\ ~st'[s].deleted /\ ~st'[s].paused

\* Such a step keeps the invariant.
LEMMA RegisterInv ==
  ASSUME ConnectionsInv, Lockable, NEW h \in Handler, pc[h] = "acquire",
         clients[ID(h)] = Nobody, NEW s \in Handle, Registers(h, s)
  PROVE  ConnectionsInv'
<1> USE ConnectionsAssumption
<1>0. PlaceType /\ FieldType /\ ServerType /\ Placed(h) /\ Registered
  BY DEF ConnectionsInv
<1>1. ID(h) \in ClientID /\ ID(h)' = ID(h) /\ ~Owns(h)
  BY <1>0 DEF Placed, ID, Requests, Owns, Asking, Registers
<1>2. /\ pc'[h] = "connack" /\ sess'[h] = s /\ clients'[ID(h)] = h
      /\ data'[ID(h)] = s /\ s # NoState
  BY <1>0, <1>1 DEF Registers, PlaceType, ServerType
<1>3. \A g \in Handler : g # h => pc'[g] = pc[g] /\ sess'[g] = sess[g]
  BY <1>0 DEF Registers, PlaceType
<1>4. \A id \in ClientID : id # ID(h) => clients'[id] = clients[id] /\ data'[id] = data[id]
  BY <1>0 DEF Registers, ServerType
<1>5. UNCHANGED <<req, arg, snap, now>> BY DEF Registers
<1>6. \A g \in Handler : Owns(g)' <=> Owns(g) \/ g = h
  BY <1>2, <1>3 DEF Owns
<1>7. \A id \in ClientID : id \in Live' <=> id \in Live \/ id = ID(h)
  BY <1>2, <1>4 DEF Live
<1>8. PlaceType' /\ FieldType' /\ ServerType'
  <2>1. PlaceType' BY <1>0 DEF PlaceType, Registers, Places
  <2>2. FieldType' BY <1>0 DEF FieldType, Registers
  <2>3. clients' \in [ClientID -> Handler \cup {Nobody}]
    BY <1>0 DEF ServerType, Registers
  <2>4. data' \in [ClientID -> DOMAIN st' \cup {NoState}]
    <3>1. data' = [data EXCEPT ![ID(h)] = s] /\ s \in DOMAIN st'
      BY DEF Registers
    <3>2. \A id \in ClientID : id # ID(h) => data[id] \in DOMAIN st' \cup {NoState}
      BY <1>0 DEF Registers, ServerType
    <3> QED BY <1>0, <3>1, <3>2 DEF ServerType
  <2> QED BY <1>0, <2>1, <2>2, <2>3, <2>4 DEF ServerType, Registers
<1>9. \A g \in Handler : Placed(g)'
  <2>1. Placed(h)'
    BY <1>0, <1>2 DEF Placed, Registers, Asking, Serving, Publishing, Closing
  <2>2. ASSUME NEW g \in Handler, g # h PROVE Placed(g)'
    <3>1. pc'[g] = pc[g] /\ sess'[g] = sess[g] BY <1>3, <2>2
    <3> QED BY <2>2, <3>1, OthersPlaced DEF Registers
  <2> QED BY <2>1, <2>2
<1>10. Registered'
  <2> SUFFICES ASSUME NEW g \in Handler, NEW id \in ClientID
               PROVE  clients'[id] = g <=> Owns(g)' /\ ID(g) = id
    BY <1>5 DEF Registered, ID
  <2>1. clients[id] = g <=> Owns(g) /\ ID(g) = id BY <1>0 DEF Registered
  <2> QED BY <1>1, <1>2, <1>4, <1>6, <2>1
<1>11. ASSUME NEW id \in Live' PROVE Stored(id)'
  <2>1. CASE id = ID(h)
    BY <1>2, <2>1, SMT DEF Stored, Registers
  <2>2. CASE id # ID(h)
    <3>1. id \in ClientID /\ id \in Live BY <1>7, <2>2 DEF Live
    <3>2. Stored(id) BY <3>1 DEF ConnectionsInv
    <3>3. st'[data'[id]] = st[data[id]] /\ clients'[id] = clients[id]
      BY <1>4, <2>2, <3>1, SMT DEF Registers
    <3>4. clients[id] # h BY <1>0, <1>1, <3>1 DEF Registered
    <3>5. clients[id] # Nobody => pc'[clients[id]] = pc[clients[id]]
      BY <1>0, <1>3, <3>1, <3>4 DEF ServerType
    <3> QED BY <3>2, <3>3, <3>5 DEF Stored
  <2> QED BY <2>1, <2>2
<1>12. ASSUME NEW g \in Handler, Owns(g)' PROVE Owning(g)'
  <2>1. CASE g = h
    BY <1>1, <1>2, <1>5, <2>1 DEF Owning, Registers
  <2>2. CASE g # h
    <3>1. Owns(g) BY <1>6, <1>12, <2>2
    <3>2. /\ ID(g) \in Live /\ ID(g) \in ClientID
          /\ clients[ID(g)] = g /\ data[ID(g)] = sess[g]
      BY <3>1, OwnerFacts
    <3>3. ID(g) # ID(h) BY <3>2
    <3>4. /\ st'[sess[g]] = st[sess[g]] /\ routes'[ID(g)] = routes[ID(g)]
          /\ data'[ID(g)] = data[ID(g)] /\ pc'[g] = pc[g] /\ sess'[g] = sess[g]
      BY <1>3, <1>4, <2>2, <3>2, <3>3, SMT DEF Registers
    <3>5. Owning(g) BY <3>1 DEF ConnectionsInv
    <3>6. ID(g)' = ID(g) BY <1>5 DEF ID
    <3> QED BY <1>5, <3>4, <3>5, <3>6 DEF Owning
  <2> QED BY <2>1, <2>2
<1>13. RoutesMatchSessions'
  <2> SUFFICES ASSUME NEW id \in ClientID, NEW f \in Filter
               PROVE  /\ routes'[id][f] # NoRoute =>
                           id \in Live' /\ routes'[id][f].sess = data'[id]
                      /\ \/ id \notin Live'
                         \/ routes'[id][f].qos = st'[data'[id]].subscriptions[f]
                         \/ \E g \in Handler : /\ clients'[id] = g
                                               /\ pc'[g] \in {"route", "unsubscribe"}
                                               /\ arg[g].filter = f
    BY <1>5, SMT DEF RoutesMatchSessions
  <2>1. CASE id = ID(h) BY <1>2, <1>7, <2>1, SMT DEF Registers
  <2>2. CASE id # ID(h)
    <3>1. /\ routes'[id] = routes[id] /\ clients'[id] = clients[id]
          /\ data'[id] = data[id] /\ (id \in Live' <=> id \in Live)
          /\ id \in Live => st'[data[id]] = st[data[id]]
      BY <1>4, <1>7, <2>2 DEF Registers
    <3>2. \A g \in Handler : clients[id] = g => pc'[g] = pc[g]
      BY <1>0, <1>1, <1>3 DEF Registered
    <3> QED BY <3>1, <3>2, SMT DEF ConnectionsInv, RoutesMatchSessions
  <2> QED BY <2>1, <2>2
<1>14. SnapshotsLive' BY <1>5, NoSnapshots DEF SnapshotsLive
<1> QED BY <1>8, <1>9, <1>10, <1>11, <1>12, <1>13, <1>14 DEF ConnectionsInv

\* The client IDs in gone are let go of: each loses its session and its
\* routes, or keeps both with the session marked offline.  Nobody holds them
\* afterwards; another handler at most gives up asking.
Settles(gone) ==
  /\ UNCHANGED <<req, prev, sess, closed, consumer, ready, discAt, graceful, wills,
                 arg, snap, now>>
  /\ \A id \in ClientID \ gone :
       /\ clients'[id] = clients[id] /\ data'[id] = data[id]
       /\ routes'[id] = routes[id]
       /\ id \in Live => st'[data[id]] = st[data[id]]
  /\ \A id \in gone :
       /\ clients'[id] = Nobody
       /\ \/ data'[id] = NoState /\ routes'[id] = NoRoutes
          \/ /\ id \in Live /\ data'[id] = data[id] /\ routes'[id] = routes[id]
             /\ st'[data[id]].id = id /\ ~st'[data[id]].deleted
             /\ ~st'[data[id]].connected /\ st'[data[id]].offlineSince # NoTime
             /\ ~st'[data[id]].paused
             /\ st'[data[id]].subscriptions = st[data[id]].subscriptions
             /\ \A g \in Handler :
                  clients[id] = g => pc[g] \notin {"route", "unsubscribe"}
  /\ \A g \in Handler :
       \/ pc'[g] = pc[g] /\ (Owns(g) => ID(g) \notin gone)
       \/ pc[g] = "acquire" /\ pc'[g] = "close"
       \/ Owns(g) /\ ID(g) \in gone /\ pc'[g] = "exit"

\* Such a step keeps the invariant.
LEMMA SettleInv ==
  ASSUME ConnectionsInv, Lockable, NEW gone \in SUBSET ClientID, Settles(gone),
         PlaceType', ServerType', \A g \in Handler : Placed(g)'
  PROVE  ConnectionsInv'
<1> USE ConnectionsAssumption
<1>0. /\ PlaceType /\ FieldType /\ ServerType /\ Registered /\ RoutesMatchSessions
      /\ \A g \in Handler : Placed(g)
  BY DEF ConnectionsInv
<1>1. UNCHANGED <<req, sess, arg, snap>> /\ \A g \in Handler : ID(g)' = ID(g)
  BY DEF Settles, ID
<1>2. \A g \in Handler : Owns(g)' <=> Owns(g) /\ ID(g) \notin gone
  <2> SUFFICES ASSUME NEW g \in Handler
               PROVE  Owns(g)' <=> Owns(g) /\ ID(g) \notin gone
    OBVIOUS
  <2>1. pc[g] = "acquire" => sess[g] = NoState BY <1>0 DEF Placed, Asking
  <2> QED BY <1>1, <2>1 DEF Owns, Settles
<1>3. \A g \in Handler : Owns(g)' => pc'[g] = pc[g]
  <2> SUFFICES ASSUME NEW g \in Handler, Owns(g)' PROVE pc'[g] = pc[g] OBVIOUS
  <2>1. pc[g] = "acquire" => sess[g] = NoState BY <1>0 DEF Placed, Asking
  <2> QED BY <1>1, <1>2, <2>1 DEF Owns, Settles
<1>4. Registered'
  <2> SUFFICES ASSUME NEW g \in Handler, NEW id \in ClientID
               PROVE  clients'[id] = g <=> Owns(g)' /\ ID(g) = id
    BY <1>1 DEF Registered
  <2>1. clients[id] = g <=> Owns(g) /\ ID(g) = id BY <1>0 DEF Registered
  <2> QED BY <1>2, <2>1, SMT DEF Settles
<1>5. \A id \in ClientID : id \notin gone =>
        /\ id \in Live' <=> id \in Live
        /\ \A g \in Handler : clients[id] = g => pc'[g] = pc[g]
  BY <1>0, <1>2, <1>3, SMT DEF Settles, Live, Registered
<1>6. ASSUME NEW id \in Live' PROVE Stored(id)'
  <2>0. id \in ClientID BY DEF Live
  <2>1. CASE id \in gone BY <2>0, <2>1 DEF Settles, Stored, Live
  <2>2. CASE id \notin gone
    <3>1. id \in Live /\ Stored(id) BY <1>5, <2>0, <2>2 DEF ConnectionsInv
    <3>2. st'[data'[id]] = st[data[id]] /\ clients'[id] = clients[id]
      BY <2>0, <2>2, <3>1, SMT DEF Settles
    <3>3. clients[id] # Nobody => pc'[clients[id]] = pc[clients[id]]
      BY <1>0, <1>5, <2>0, <2>2 DEF ServerType
    <3> QED BY <3>1, <3>2, <3>3 DEF Stored
  <2> QED BY <2>1, <2>2
<1>7. ASSUME NEW g \in Handler, Owns(g)' PROVE Owning(g)'
  <2>1. Owns(g) /\ ID(g) \notin gone /\ pc'[g] = pc[g] BY <1>2, <1>3, <1>7
  <2>2. ID(g) \in ClientID /\ ID(g) \in Live /\ data[ID(g)] = sess[g]
    BY <2>1, OwnerFacts
  <2>3. /\ data'[ID(g)] = data[ID(g)] /\ routes'[ID(g)] = routes[ID(g)]
        /\ st'[sess[g]] = st[sess[g]]
    BY <2>1, <2>2, SMT DEF Settles
  <2>4. Owning(g) BY <2>1 DEF ConnectionsInv
  <2> QED BY <1>1, <2>1, <2>3, <2>4 DEF Owning
<1>8. RoutesMatchSessions'
  <2> SUFFICES ASSUME NEW id \in ClientID, NEW f \in Filter
               PROVE  /\ routes'[id][f] # NoRoute =>
                           id \in Live' /\ routes'[id][f].sess = data'[id]
                      /\ \/ id \notin Live'
                         \/ routes'[id][f].qos = st'[data'[id]].subscriptions[f]
                         \/ \E g \in Handler : /\ clients'[id] = g
                                               /\ pc'[g] \in {"route", "unsubscribe"}
                                               /\ arg[g].filter = f
    BY <1>1, SMT DEF RoutesMatchSessions
  <2>1. /\ routes[id][f] # NoRoute => id \in Live /\ routes[id][f].sess = data[id]
        /\ \/ id \notin Live
           \/ routes[id][f].qos = st[data[id]].subscriptions[f]
           \/ \E g \in Handler : /\ clients[id] = g
                                 /\ pc[g] \in {"route", "unsubscribe"}
                                 /\ arg[g].filter = f
    BY <1>0 DEF RoutesMatchSessions
  <2>2. CASE id \notin gone
    <3>1. /\ clients'[id] = clients[id] /\ data'[id] = data[id]
          /\ routes'[id] = routes[id]
          /\ id \in Live => st'[data[id]] = st[data[id]]
      BY <2>2 DEF Settles
    <3> QED BY <1>5, <2>1, <2>2, <3>1
  <2>3. CASE id \in gone /\ data'[id] = NoState /\ routes'[id] = NoRoutes
    BY <2>3 DEF Live, NoRoutes
  <2>4. CASE /\ id \in Live /\ data'[id] = data[id] /\ routes'[id] = routes[id]
             /\ st'[data[id]].subscriptions = st[data[id]].subscriptions
             /\ \A g \in Handler :
                  clients[id] = g => pc[g] \notin {"route", "unsubscribe"}
    BY <2>1, <2>4 DEF Live
  <2> QED BY <2>2, <2>3, <2>4 DEF Settles
<1>9. SnapshotsLive' BY <1>1, NoSnapshots DEF SnapshotsLive
<1>10. FieldType' BY <1>0 DEF FieldType, Settles
<1> QED BY <1>4, <1>6, <1>7, <1>8, <1>9, <1>10 DEF ConnectionsInv

\* The stored session of an ID that nobody holds, and its routes.
LEMMA IdleFacts ==
  ASSUME ConnectionsInv, NEW id \in ClientID, clients[id] = Nobody
  PROVE  /\ data[id] = NoState => \A f \in Filter : routes[id][f] = NoRoute
         /\ data[id] # NoState =>
              /\ id \in Live /\ data[id] \in DOMAIN st /\ st[data[id]] \in State
              /\ st[data[id]].id = id /\ ~st[data[id]].deleted
              /\ ~st[data[id]].connected /\ ~st[data[id]].paused
              /\ \A i \in ClientID : data[i] = data[id] => i = id
              /\ \A f \in Filter :
                   /\ routes[id][f] # NoRoute => routes[id][f].sess = data[id]
                   /\ routes[id][f].qos = st[data[id]].subscriptions[f]
<1> USE ConnectionsAssumption DEF ConnectionsInv
<1>1. ASSUME data[id] = NoState PROVE \A f \in Filter : routes[id][f] = NoRoute
  BY <1>1 DEF RoutesMatchSessions, Live
<1>2. ASSUME data[id] # NoState
      PROVE  /\ id \in Live /\ data[id] \in DOMAIN st /\ st[data[id]] \in State
             /\ st[data[id]].id = id /\ ~st[data[id]].deleted
             /\ ~st[data[id]].connected /\ ~st[data[id]].paused
             /\ \A i \in ClientID : data[i] = data[id] => i = id
  <2>1. id \in Live /\ data[id] \in DOMAIN st /\ st[data[id]] \in State
    BY <1>2 DEF Live, ServerType
  <2>2. Stored(id) BY <2>1
  <2>3. \A i \in ClientID : data[i] = data[id] => i \in Live /\ Stored(i)
    BY <1>2 DEF Live
  <2> QED BY <2>1, <2>2, <2>3 DEF Stored
<1>3. ASSUME data[id] # NoState
      PROVE  \A f \in Filter :
               /\ routes[id][f] # NoRoute => routes[id][f].sess = data[id]
               /\ routes[id][f].qos = st[data[id]].subscriptions[f]
  BY <1>3 DEF RoutesMatchSessions, Live
<1> QED BY <1>1, <1>2, <1>3

\* openSession keeps the invariant: it resumes the stored session, or creates
\* one in the place of what it dropped, or is refused by MaxSessions.
LEMMA OpenInv ==
  ASSUME ConnectionsInv, Lockable, NEW h \in Handler, pc[h] = "acquire",
         clients[ID(h)] = Nobody, OpenSession(h),
         data[ID(h)] # NoState => st[data[ID(h)]].owner = req[h].identity,
         UNCHANGED <<req, prev, closed, consumer, ready, discAt, graceful, wills, arg,
                     snap, now>>
  PROVE  ConnectionsInv'
<1> USE ConnectionsAssumption
<1> DEFINE id == ID(h)
           old == data[id]
           dropped == (old # NoState /\ Expired(st[old], now)) \/ req[h].clean
           removed == dropped /\ old # NoState
           kept == IF removed THEN [st EXCEPT ![old] = Deleted(@)] ELSE st
           rest == IF dropped THEN [routes EXCEPT ![id] = NoRoutes] ELSE routes
           heap(s) == [x \in DOMAIN st \cup {s} |->
                         IF x = s THEN NewState(id, req[h].identity, now)
                                  ELSE kept[x]]
           Register(s, m) ==
             /\ st' = [m EXCEPT ![s] = MarkConnected(@)]
             /\ data' = [data EXCEPT ![id] = s]
             /\ routes' = [rest EXCEPT ![id] = [f \in Filter |->
                  IF f \in Subscribed(m[s])
                  THEN [sess |-> s, qos |-> m[s].subscriptions[f]]
                  ELSE rest[id][f]]]
             /\ sess' = [sess EXCEPT ![h] = s]
             /\ clients' = [clients EXCEPT ![id] = h]
             /\ pc' = [pc EXCEPT ![h] = "connack"]
<1>0. PlaceType /\ FieldType /\ ServerType /\ Placed(h) BY DEF ConnectionsInv
<1>1. id \in ClientID /\ req[h].identity \in Owner /\ now \in Nat
  BY <1>0 DEF Placed, ID, Requests, ServerType
<1>2. \/ old # NoState /\ ~removed /\ Register(old, st)
      \/ /\ old = NoState \/ removed
         /\ \E s \in Handle \ DOMAIN st : Register(s, heap(s))
      \/ /\ old = NoState \/ removed
         /\ st' = kept /\ data' = [data EXCEPT ![id] = NoState] /\ routes' = rest
         /\ pc' = [pc EXCEPT ![h] = "close"]
         /\ UNCHANGED <<sess, clients>>
  BY Zenon DEF OpenSession, Goto
<1>3. /\ old = NoState => \A f \in Filter : routes[id][f] = NoRoute
      /\ old # NoState =>
           /\ id \in Live /\ old \in DOMAIN st /\ st[old] \in State
           /\ st[old].id = id /\ ~st[old].deleted /\ ~st[old].paused
           /\ \A i \in ClientID : data[i] = old => i = id
           /\ \A f \in Filter :
                /\ routes[id][f] # NoRoute => routes[id][f].sess = old
                /\ routes[id][f].qos = st[old].subscriptions[f]
  BY <1>1, IdleFacts
<1>4. /\ DOMAIN kept = DOMAIN st /\ kept \in [DOMAIN st -> State]
      /\ \A i \in Live : i # id => kept[data[i]] = st[data[i]]
  <2>1. CASE removed
    <3>1. Deleted(st[old]) \in State BY <1>3, <2>1, DeletedType
    <3>2. kept = [st EXCEPT ![old] = Deleted(st[old])] BY <2>1
    <3>3. st \in [DOMAIN st -> State] /\ old \in DOMAIN st
      BY <1>0, <1>3, <2>1 DEF ServerType
    <3>4. \A i \in Live : i # id => data[i] # old BY <1>3, <2>1 DEF Live
    <3>5. \A i \in Live : data[i] \in DOMAIN st BY <1>0 DEF Live, ServerType
    <3> HIDE DEF kept, old
    <3> QED BY <3>1, <3>2, <3>3, <3>4, <3>5
  <2>2. CASE ~removed BY <1>0, <2>2 DEF ServerType
  <2> QED BY <2>1, <2>2
<1>5. /\ rest \in [ClientID -> [Filter -> RouteType]]
      /\ \A i \in ClientID : i # id => rest[i] = routes[i]
      /\ old = NoState \/ removed => rest[id] = NoRoutes
  <2>1. NoRoutes \in [Filter -> RouteType]
    BY DEF NoRoutes, NoRoute, RouteType
  <2>2. routes \in [ClientID -> [Filter -> RouteType]] BY <1>0 DEF ServerType
  <2>3. old = NoState => routes[id] = NoRoutes
    BY <1>1, <1>3, <2>2 DEF NoRoutes
  <2> HIDE DEF id, old
  <2> QED BY <1>1, <2>1, <2>2, <2>3
<1>6. \A i \in ClientID : data[i] \in DOMAIN st \cup {NoState}
  BY <1>0 DEF ServerType
<1>7. CASE old # NoState /\ ~removed /\ Register(old, st)
  <2> DEFINE t == MarkConnected(st[old])
  <2>1. rest = routes BY <1>7
  <2>2. /\ t \in State /\ t.id = id /\ t.owner = st[old].owner /\ t.deleted = FALSE
        /\ t.connected = TRUE /\ t.paused = st[old].paused
        /\ t.subscriptions = st[old].subscriptions
    BY <1>3, <1>7, MethodTypes, StatusFields
  <2>3. st' = [st EXCEPT ![old] = t] /\ old \in DOMAIN st /\ old \in Handle
    BY <1>0, <1>3, <1>7 DEF ServerType
  <2> HIDE DEF t
  <2>4. /\ DOMAIN st' = DOMAIN st /\ st' \in [DOMAIN st -> State] /\ st'[old] = t
        /\ \A i \in Live : i # id => st'[data[i]] = st[data[i]]
    BY <1>0, <1>3, <1>6, <1>7, <2>2, <2>3, SMT DEF ServerType, Live
  <2>5. \A i \in ClientID : i # id => data[i] # old BY <1>3, <1>7
  <2>6. /\ routes' \in [ClientID -> [Filter -> RouteType]]
        /\ \A i \in ClientID : i # id => routes'[i] = routes[i]
        /\ \A f \in Filter :
             /\ routes'[id][f] # NoRoute => routes'[id][f].sess = old
             /\ routes'[id][f].qos = t.subscriptions[f]
    <3> DEFINE new == [f \in Filter |->
                         IF f \in Subscribed(st[old])
                         THEN [sess |-> old, qos |-> st[old].subscriptions[f]]
                         ELSE routes[id][f]]
    <3>1. routes' = [routes EXCEPT ![id] = new] BY <1>7, <2>1
    <3>2. routes \in [ClientID -> [Filter -> RouteType]] BY <1>0 DEF ServerType
    <3>3. ASSUME NEW f \in Filter
          PROVE  /\ new[f] \in RouteType
                 /\ new[f] # NoRoute => new[f].sess = old
                 /\ new[f].qos = t.subscriptions[f]
      <4>1. st[old].subscriptions[f] \in QoS \cup {NoSub}
        BY <1>3, <1>7 DEF State
      <4>2. CASE f \in Subscribed(st[old])
        BY <2>2, <2>3, <4>1, <4>2 DEF RouteType
      <4>3. CASE f \notin Subscribed(st[old])
        BY <1>1, <1>3, <1>7, <2>2, <3>2, <4>3
      <4> QED BY <4>2, <4>3
    <3>4. new \in [Filter -> RouteType] BY <3>3
    <3> HIDE DEF new
    <3> QED BY <1>1, <3>1, <3>2, <3>3, <3>4
  <2>7. DOMAIN st \subseteq Handle BY <1>0 DEF ServerType
  <2>8. /\ data' = [data EXCEPT ![id] = old] /\ sess' = [sess EXCEPT ![h] = old]
        /\ clients' = [clients EXCEPT ![id] = h]
        /\ pc' = [pc EXCEPT ![h] = "connack"]
    BY <1>7
  <2>9. t.owner = req[h].identity /\ ~t.paused /\ t.connected /\ ~t.deleted
    BY <1>3, <1>7, <2>2
  <2> HIDE DEF Register, old
  <2>10. /\ \A i \in ClientID \ {id} :
              /\ data[i] \in DOMAIN st => data[i] \in DOMAIN st' /\ data[i] # old
              /\ i \in Live => st'[data[i]] = st[data[i]]
              /\ routes'[i] = routes[i]
    BY <2>4, <2>5, <2>6
  <2>11. Registers(h, old)
    BY <2>2, <2>3, <2>4, <2>6, <2>7, <2>8, <2>9, <2>10 DEF Registers
  <2> QED BY <2>3, <2>11, RegisterInv
<1>8. ASSUME old = NoState \/ removed,
             NEW s \in Handle \ DOMAIN st, Register(s, heap(s))
      PROVE  ConnectionsInv'
  <2> DEFINE n == NewState(id, req[h].identity, now)
             t == MarkConnected(n)
  <2>1. /\ n \in State /\ n.id = id /\ n.owner = req[h].identity
        /\ n.deleted = FALSE /\ n.paused = FALSE
        /\ n.subscriptions = [f \in Filter |-> NoSub]
    <3> HIDE DEF id
    <3>1. n \in State BY <1>1, NewStateType
    <3>2. /\ n.id = id /\ n.owner = req[h].identity
          /\ n.deleted = FALSE /\ n.paused = FALSE
      BY Zenon DEF NewState
    <3>3. n.subscriptions = [f \in Filter |-> NoSub] BY Zenon DEF NewState
    <3> QED BY <3>1, <3>2, <3>3
  <2>2. /\ t \in State /\ t.id = id /\ t.owner = req[h].identity /\ t.deleted = FALSE
        /\ t.connected = TRUE /\ t.paused = FALSE
        /\ t.subscriptions = [f \in Filter |-> NoSub]
    <3> HIDE DEF n
    <3> QED BY <2>1, MethodTypes, StatusFields
  <2>3. /\ heap(s)[s] = n /\ DOMAIN heap(s) = DOMAIN st \cup {s}
        /\ \A x \in DOMAIN st : heap(s)[x] = kept[x]
    BY <1>8
  <2>4. st' = [heap(s) EXCEPT ![s] = t] BY <1>8, <2>3
  <2>5. Subscribed(n) = {} BY <2>1 DEF Subscribed
  <2>6. routes' = [rest EXCEPT ![id] = [f \in Filter |-> rest[id][f]]]
    BY <1>8, <2>3, <2>5
  <2> HIDE DEF n, t, heap
  <2>7. /\ DOMAIN st' = DOMAIN st \cup {s} /\ st'[s] = t
        /\ \A x \in DOMAIN st : st'[x] = kept[x]
    BY <1>8, <2>3, <2>4
  <2>8. st' \in [DOMAIN st' -> State]
    <3>1. \A x \in DOMAIN st : kept[x] \in State BY <1>4
    <3>2. \A x \in DOMAIN st' : st'[x] \in State BY <2>2, <2>7, <3>1
    <3>3. st' = [x \in DOMAIN st' |-> st'[x]] BY <2>3, <2>4
    <3> QED BY <3>2, <3>3
  <2>9. \A i \in Live : i # id => st'[data[i]] = st[data[i]]
    BY <1>4, <1>6, <2>7 DEF Live
  <2>10. /\ routes' \in [ClientID -> [Filter -> RouteType]]
         /\ \A i \in ClientID : i # id => routes'[i] = routes[i]
         /\ \A f \in Filter : routes'[id][f] = NoRoute
    <3>1. rest[id] = NoRoutes BY <1>5, <1>8
    <3>2. [f \in Filter |-> rest[id][f]] = NoRoutes BY <3>1 DEF NoRoutes
    <3>3. \A f \in Filter : NoRoutes[f] = NoRoute BY DEF NoRoutes
    <3>4. NoRoutes \in [Filter -> RouteType] BY DEF NoRoutes, NoRoute, RouteType
    <3> HIDE DEF rest, id
    <3> QED BY <1>1, <1>5, <2>6, <3>2, <3>3, <3>4
  <2>11. \A f \in Filter : NoRoute.qos = t.subscriptions[f]
    BY <2>2 DEF NoRoute
  <2>12. \A i \in ClientID : data[i] \in DOMAIN st =>
            data[i] \in DOMAIN st' /\ data[i] # s
    BY <2>7
  <2>13. DOMAIN st' \subseteq Handle /\ s \in DOMAIN st' /\ s \in Handle
    BY <1>0, <2>7 DEF ServerType
  <2>14. /\ data' = [data EXCEPT ![id] = s] /\ sess' = [sess EXCEPT ![h] = s]
         /\ clients' = [clients EXCEPT ![id] = h]
         /\ pc' = [pc EXCEPT ![h] = "connack"]
    BY <1>8
  <2> HIDE DEF Register
  <2>15. Registers(h, s)
    BY <2>2, <2>7, <2>8, <2>9, <2>10, <2>11, <2>12, <2>13, <2>14
    DEF Registers
  <2> QED BY <2>13, <2>15, RegisterInv
<1>9. ASSUME old = NoState \/ removed, st' = kept,
             data' = [data EXCEPT ![id] = NoState], routes' = rest,
             pc' = [pc EXCEPT ![h] = "close"], UNCHANGED <<sess, clients>>
      PROVE  ConnectionsInv'
  <2>1. /\ data'[id] = NoState /\ routes'[id] = NoRoutes /\ clients'[id] = Nobody
        /\ \A i \in ClientID : i # id => data'[i] = data[i] /\ routes'[i] = routes[i]
    BY <1>0, <1>1, <1>5, <1>9 DEF ServerType
  <2>2. \A i \in Live : i # id => st'[data[i]] = st[data[i]] BY <1>4, <1>9
  <2>3. pc'[h] = "close" /\ \A g \in Handler : g # h => pc'[g] = pc[g]
    BY <1>0, <1>9 DEF PlaceType
  <2>4. \A g \in Handler : Owns(g) => ID(g) \notin {id}
    BY <1>1, SMT DEF ConnectionsInv, Registered
  <2>5. Settles({id})
    <3> HIDE DEF id, old, kept, rest, removed
    <3>1. \A i \in ClientID \ {id} : clients'[i] = clients[i] /\ i # id BY <1>9
    <3>2. \A g \in Handler : \/ pc'[g] = pc[g] /\ (Owns(g) => ID(g) \notin {id})
                             \/ pc[g] = "acquire" /\ pc'[g] = "close"
      BY <2>3, <2>4
    <3> QED BY <1>9, <2>1, <2>2, <3>1, <3>2 DEF Settles
  <2>6. PlaceType' BY <1>0, <1>9 DEF PlaceType, Places, Closing
  <2>7. ServerType'
    <3>1. data' \in [ClientID -> DOMAIN st \cup {NoState}]
      BY <1>0, <1>9 DEF ServerType
    <3> HIDE DEF kept, rest
    <3> QED BY <1>0, <1>4, <1>5, <1>9, <3>1 DEF ServerType
  <2>8. \A g \in Handler : Placed(g)'
    <3>1. Placed(h)'
      BY <1>0, <1>9, <2>3 DEF Placed, Asking, Serving, Publishing, Closing
    <3>2. ASSUME NEW g \in Handler, g # h PROVE Placed(g)'
      <4>1. pc'[g] = pc[g] /\ sess'[g] = sess[g] BY <1>9, <2>3, <3>2
      <4> QED BY <3>2, <4>1, OthersPlaced
    <3> QED BY <3>1, <3>2
  <2> QED BY <1>1, <2>5, <2>6, <2>7, <2>8, SettleInv
<1> QED BY <1>2, <1>7, <1>8, <1>9

\* acquireConnection keeps the invariant, whatever it finds.
LEMMA AcquireInv ==
  ASSUME ConnectionsInv, NEW h \in Handler, Acquire(h)
  PROVE  ConnectionsInv'
<1>1. /\ pc[h] = "acquire" /\ Lockable
      /\ UNCHANGED <<req, closed, consumer, ready, graceful, wills, arg, snap, now>>
  BY DEF Acquire
<1>2. CASE Goto(h, "close") /\ UNCHANGED <<prev, sess, discAt, serverVars>>
  BY <1>1, <1>2, AcquireWaitsInv
<1>3. CASE /\ clients[ID(h)] # Nobody /\ beginClosing(clients[ID(h)])
           /\ prev' = [prev EXCEPT ![h] = clients[ID(h)]]
           /\ Goto(h, "evict") /\ UNCHANGED <<sess, serverVars>>
  BY <1>1, <1>3, AcquireWaitsInv
<1>4. CASE /\ ~(data[ID(h)] # NoState /\ st[data[ID(h)]].owner # req[h].identity)
           /\ clients[ID(h)] = Nobody /\ OpenSession(h) /\ UNCHANGED <<prev, discAt>>
  BY <1>1, <1>4, OpenInv
<1> QED BY <1>2, <1>3, <1>4 DEF Acquire

\* closeSession keeps the invariant: it finds itself registered, and removes
\* its session with the routes, or leaves both and marks the session offline.
LEMMA CloseInv ==
  ASSUME ConnectionsInv, NEW h \in Handler, closeSession(h)
  PROVE  ConnectionsInv'
<1> USE ConnectionsAssumption
<1> DEFINE id == ID(h)
<1>0. PlaceType /\ FieldType /\ ServerType /\ Placed(h) BY DEF ConnectionsInv
<1>1. pc[h] = "release" /\ Lockable /\ pc' = [pc EXCEPT ![h] = "exit"]
      /\ UNCHANGED <<req, prev, sess, closed, consumer, ready, discAt, graceful, wills,
                     arg, snap, now>>
  BY DEF closeSession, Goto
<1>2. Owns(h) BY <1>0, <1>1 DEF Placed, Owns
<1>3. /\ id \in ClientID /\ id \in Live /\ clients[id] = h /\ data[id] = sess[h]
      /\ sess[h] \in DOMAIN st /\ st[sess[h]] \in State
      /\ st[sess[h]].connected = TRUE /\ st[sess[h]].deleted = FALSE
      /\ \A i \in ClientID : data[i] = sess[h] => i = id
  BY <1>2, OwnerFacts
<1>4. pc'[h] = "exit" /\ \A g \in Handler : g # h => pc'[g] = pc[g]
  BY <1>0, <1>1 DEF PlaceType
<1>5. \A g \in Handler : \/ pc'[g] = pc[g] /\ (Owns(g) => ID(g) \notin {id})
                         \/ Owns(g) /\ ID(g) \in {id} /\ pc'[g] = "exit"
  <2> SUFFICES ASSUME NEW g \in Handler, g # h PROVE Owns(g) => ID(g) \notin {id}
    BY <1>2, <1>4
  <2> QED BY <1>3 DEF ConnectionsInv, Registered
<1>6. clients' = [clients EXCEPT ![id] = Nobody] BY <1>3 DEF closeSession
<1>7. /\ clients'[id] = Nobody /\ clients' \in [ClientID -> Handler \cup {Nobody}]
      /\ \A i \in ClientID \ {id} : clients'[i] = clients[i]
  BY <1>0, <1>3, <1>6 DEF ServerType
<1>8. PlaceType' BY <1>0, <1>1 DEF PlaceType, Places, Closing
<1>9. \A g \in Handler : Placed(g)'
  <2>1. Placed(h)'
    BY <1>0, <1>1, <1>4 DEF Placed, Asking, Serving, Publishing, Closing
  <2>2. ASSUME NEW g \in Handler, g # h PROVE Placed(g)'
    <3>1. pc'[g] = pc[g] BY <1>4, <2>2
    <3> QED BY <1>1, <2>2, <3>1, OthersPlaced
  <2> QED BY <2>1, <2>2
<1>10. ASSUME NEW t \in State, st' = [st EXCEPT ![sess[h]] = t]
       PROVE  /\ DOMAIN st' = DOMAIN st /\ st' \in [DOMAIN st -> State]
              /\ st'[sess[h]] = t
              /\ \A i \in ClientID \ {id} : i \in Live => st'[data[i]] = st[data[i]]
  <2>1. \A i \in ClientID \ {id} : data[i] # sess[h] BY <1>3
  <2>2. \A i \in Live : data[i] \in DOMAIN st BY <1>0 DEF ServerType, Live
  <2> QED BY <1>0, <1>3, <1>10, <2>1, <2>2 DEF ServerType
<1>11. CASE req[h].clean
  <2> DEFINE t == Deleted(st[sess[h]])
  <2>1. t \in State BY <1>3, DeletedType
  <2>2. /\ st' = [st EXCEPT ![sess[h]] = t]
        /\ data' = [data EXCEPT ![id] = NoState]
        /\ routes' = [routes EXCEPT ![id] = NoRoutes]
    BY <1>3, <1>11 DEF closeSession, Live
  <2> HIDE DEF t
  <2>3. /\ data'[id] = NoState /\ routes'[id] = NoRoutes
        /\ \A i \in ClientID \ {id} : data'[i] = data[i] /\ routes'[i] = routes[i]
    BY <1>0, <1>3, <2>2 DEF ServerType
  <2>4. NoRoutes \in [Filter -> RouteType] BY DEF NoRoutes, NoRoute, RouteType
  <2>5. ServerType' BY <1>0, <1>1, <1>7, <1>10, <2>1, <2>2, <2>4 DEF ServerType
  <2>6. Settles({id})
    <3> HIDE DEF id
    <3> QED BY <1>1, <1>5, <1>7, <1>10, <2>1, <2>2, <2>3 DEF Settles
  <2> QED BY <1>1, <1>3, <1>8, <1>9, <2>5, <2>6, SettleInv
<1>12. CASE ~req[h].clean
  <2> DEFINE t == MarkDisconnectedAt(st[sess[h]], discAt[h])
  <2>1. discAt[h] \in Nat /\ discAt[h] # NoTime
    BY <1>0, <1>1, <1>2 DEF Placed, FieldType, Owns
  <2>2. /\ t \in State /\ t.id = st[sess[h]].id /\ t.deleted = FALSE
        /\ t.connected = FALSE /\ t.offlineSince = discAt[h]
        /\ t.paused = st[sess[h]].paused
        /\ t.subscriptions = st[sess[h]].subscriptions
    <3> DEFINE s == st[sess[h]]
    <3>1. s \in State /\ s.connected = TRUE /\ s.deleted = FALSE BY <1>3
    <3> HIDE DEF s
    <3>2. MarkDisconnectedAt(s, discAt[h]) \in State BY <2>1, <3>1, MethodTypes
    <3>3. /\ MarkDisconnectedAt(s, discAt[h]).id = s.id
          /\ MarkDisconnectedAt(s, discAt[h]).deleted = FALSE
          /\ MarkDisconnectedAt(s, discAt[h]).connected = FALSE
          /\ MarkDisconnectedAt(s, discAt[h]).offlineSince = discAt[h]
          /\ MarkDisconnectedAt(s, discAt[h]).paused = s.paused
          /\ MarkDisconnectedAt(s, discAt[h]).subscriptions = s.subscriptions
      BY <3>1 DEF MarkDisconnectedAt, State
    <3> QED BY <3>2, <3>3 DEF s
  <2>3. st' = [st EXCEPT ![sess[h]] = t] /\ UNCHANGED <<data, routes>>
    BY <1>3, <1>12 DEF closeSession, SetState
  <2>4. st[sess[h]].id = id /\ ~st[sess[h]].paused
    BY <1>1, <1>3, SMT DEF ConnectionsInv, Stored
  <2> HIDE DEF t
  <2>5. ServerType' BY <1>0, <1>1, <1>7, <1>10, <2>2, <2>3 DEF ServerType
  <2>6. \A g \in Handler : clients[id] = g => pc[g] \notin {"route", "unsubscribe"}
    BY <1>1, <1>3
  <2>7. Settles({id})
    <3> HIDE DEF id
    <3> QED
      BY <1>1, <1>3, <1>5, <1>7, <1>10, <2>1, <2>2, <2>3, <2>4, <2>6, SMT DEF Settles
  <2> QED BY <1>1, <1>3, <1>8, <1>9, <2>5, <2>7, SettleInv
<1> QED BY <1>11, <1>12

\* The expiry goroutine keeps the invariant: what has expired is owned by
\* nobody.
LEMMA ExpireInv ==
  ASSUME ConnectionsInv, NEW at \in Int, ExpireSessions(at)
  PROVE  ConnectionsInv'
<1> USE ConnectionsAssumption
<1> DEFINE gone == {id \in Live : Expired(st[data[id]], at)}
           states == {data[id] : id \in gone}
<1>0. PlaceType /\ FieldType /\ ServerType BY DEF ConnectionsInv
<1>1. /\ Lockable
      /\ st' = [s \in DOMAIN st |-> IF s \in states THEN Deleted(st[s]) ELSE st[s]]
      /\ data' = [id \in ClientID |-> IF id \in gone THEN NoState ELSE data[id]]
      /\ routes' = [id \in ClientID |-> IF id \in gone THEN NoRoutes ELSE routes[id]]
      /\ UNCHANGED <<handlerVars, clients, now>>
  BY DEF ExpireSessions
<1>2. gone \subseteq Live /\ gone \in SUBSET ClientID BY DEF Live
<1>3. \A id \in gone : /\ st[data[id]].connected # TRUE
                       /\ \A g \in Handler : Owns(g) => ID(g) # id
  <2> SUFFICES ASSUME NEW id \in gone
               PROVE  /\ st[data[id]].connected # TRUE
                      /\ \A g \in Handler : Owns(g) => ID(g) # id
    BY Zenon
  <2>1. ~st[data[id]].connected BY DEF Expired
  <2>2. \A g \in Handler : Owns(g) => st[data[ID(g)]].connected
    BY OwnerFacts
  <2> QED BY <2>1, <2>2
<1> HIDE DEF gone
<1>4. ASSUME NEW id \in gone PROVE clients[id] = Nobody
  <2>1. id \in ClientID /\ clients[id] \in Handler \cup {Nobody}
    BY <1>0, <1>2 DEF ServerType
  <2>2. \A g \in Handler : clients[id] = g => Owns(g) /\ ID(g) = id
    BY <2>1 DEF ConnectionsInv, Registered
  <2> QED BY <1>3, <2>1, <2>2
<1>5. \A id \in Live : id \notin gone => data[id] \in DOMAIN st /\ data[id] \notin states
  <2>1. \A i, j \in Live : data[i] = data[j] => i = j
    BY DEF ConnectionsInv, Stored
  <2>2. \A id \in Live : data[id] \in DOMAIN st BY <1>0 DEF Live, ServerType
  <2> QED BY <1>2, <2>1, <2>2
<1> HIDE DEF states
<1>6. \A s \in DOMAIN st : st[s] \in State /\ Deleted(st[s]) \in State
  BY <1>0, DeletedType DEF ServerType
<1>7. NoRoutes \in [Filter -> RouteType] BY DEF NoRoutes, NoRoute, RouteType
<1>8. ServerType'
  <2>1. DOMAIN st' = DOMAIN st /\ st' \in [DOMAIN st -> State] BY <1>1, <1>6
  <2>2. data' \in [ClientID -> DOMAIN st \cup {NoState}]
    BY <1>0, <1>1 DEF ServerType
  <2>3. routes' \in [ClientID -> [Filter -> RouteType]]
    BY <1>0, <1>1, <1>7 DEF ServerType
  <2> QED BY <1>0, <1>1, <2>1, <2>2, <2>3 DEF ServerType
<1>9. PlaceType' /\ \A g \in Handler : Placed(g)'
  <2>1. PlaceType' BY <1>0, <1>1 DEF PlaceType, handlerVars
  <2>2. ASSUME NEW g \in Handler PROVE Placed(g)'
    <3>1. Placed(g) BY DEF ConnectionsInv
    <3> QED BY <1>1, <3>1 DEF Placed, handlerVars
  <2> QED BY <2>1, <2>2
<1>10. Settles(gone)
  <2>1. UNCHANGED <<pc, req, prev, sess, closed, consumer, ready, discAt, graceful,
                    wills, arg, snap, now, clients>>
    BY <1>1 DEF handlerVars
  <2>2. \A id \in ClientID \ gone : data'[id] = data[id] /\ routes'[id] = routes[id]
    BY <1>1
  <2>3. \A id \in ClientID \ gone : id \in Live => st'[data[id]] = st[data[id]]
    BY <1>1, <1>5
  <2>4. \A id \in gone : data'[id] = NoState /\ routes'[id] = NoRoutes
    BY <1>1, <1>2
  <2>5. \A g \in Handler : Owns(g) => ID(g) \notin gone BY <1>3
  <2> QED BY <1>4, <2>1, <2>2, <2>3, <2>4, <2>5 DEF Settles
<1> QED BY <1>1, <1>2, <1>8, <1>9, <1>10, SettleInv

-----------------------------------------------------------------------------
(* Theorems.                                                               *)

\* Every step keeps the invariant.
LEMMA NextInv ==
  ASSUME ConnectionsInv, [Next]_vars
  PROVE  ConnectionsInv'
<1>0. now \in Nat BY DEF ConnectionsInv, ServerType
<1>1. ASSUME NEW h \in Handler, HandlerNext(h) PROVE ConnectionsInv'
  <2>1. CASE \/ Connect(h) \/ GiveUp(h) \/ Evict(h) \/ Await(h) \/ Connack(h)
             \/ MarkReady(h)
    BY <2>1, HandshakeInv
  <2>2. CASE \/ Publish(h) \/ PublishWill(h) \/ EndPublish(h)
             \/ \E clean \in BOOLEAN : ServeReturns(h, clean)
             \/ \E sub \in snap[h] : Deliver(h, sub)
    BY <2>2, PublishInv
  <2>3. CASE \/ Fail(h) \/ StopConsumer(h) \/ SkipWill(h) \/ BeginClose(h)
             \/ CloseClient(h) \/ Drain(h)
    BY <2>3, CleanupInv
  <2>4. CASE StartConsumer(h) \/ BeginSubscribe(h) \/ EndSubscribe(h)
    BY <2>4, DeliveryInv
  <2>5. CASE Route(h) \/ \E sub \in Subs : Subscribe(h, sub)
    BY <2>5, SubscribeInv
  <2>6. CASE EndUnsubscribe(h) \/ \E f \in Filter : BeginUnsubscribe(h, f)
    BY <2>6, UnsubscribeInv
  <2>7. CASE Acquire(h) BY <2>7, AcquireInv
  <2>8. CASE closeSession(h) BY <2>8, CloseInv
  <2> QED BY <1>1, <2>1, <2>2, <2>3, <2>4, <2>5, <2>6, <2>7, <2>8
          DEF HandlerNext, Progress, Serve
<1>2. ASSUME NEW at \in 0 .. now, ExpireSessions(at) PROVE ConnectionsInv'
  <2>1. at \in Int BY <1>0, SMT
  <2> QED BY <1>2, <2>1, ExpireInv
<1>3. CASE Tick
  <2>1. UNCHANGED <<handlerVars, serverVars>> /\ now' \in Nat
    BY <1>0, <1>3, SMT DEF Tick
  <2> QED BY <2>1, TickInv
<1>4. CASE UNCHANGED vars
  <2>1. UNCHANGED <<handlerVars, serverVars>> /\ now' \in Nat
    BY <1>0, <1>4 DEF vars
  <2> QED BY <2>1, TickInv
<1> QED BY <1>1, <1>2, <1>3, <1>4 DEF Next, Finished

\* The invariant holds in every state that the handlers, the expiry goroutine
\* and the clock can reach.
THEOREM ConnectionsInvariant == Safe => []ConnectionsInv
<1>1. Init => ConnectionsInv BY InitInv
<1>2. ConnectionsInv /\ [Next]_vars => ConnectionsInv' BY NextInv
<1> QED BY <1>1, <1>2, PTL DEF Safe

\* A client ID has one connection at a time, in Server.clients and as a
\* consumer of the session's messages, however many connections ask for it.
THEOREM OneConnectionCorrect == Safe => []OneConnection
<1>1. ConnectionsInv => OneConnection
  BY DEF ConnectionsInv, Registered, Placed, Owns, OneConnection
<1> QED BY <1>1, ConnectionsInvariant, PTL

\* A session is marked connected exactly while a connection of its own
\* identity owns it, and otherwise has a time to expire from.
THEOREM ConnectedCorrect == Safe => []ConnectedIffOwned
<1>1. ASSUME ConnectionsInv PROVE ConnectedIffOwned
  <2>1. ASSUME NEW h \in Handler, Owns(h)
        PROVE  /\ data[ID(h)] = sess[h]
               /\ st[sess[h]].connected /\ ~st[sess[h]].deleted
               /\ st[sess[h]].owner = req[h].identity
    <3>1. Owning(h) BY <1>1, <2>1 DEF ConnectionsInv
    <3>2. ~st[sess[h]].deleted BY <1>1, <2>1, OwnerFacts
    <3> QED BY <3>1, <3>2 DEF Owning
  <2>2. ASSUME NEW id \in Live, clients[id] = Nobody
        PROVE  ~st[data[id]].connected /\ st[data[id]].offlineSince # NoTime
    BY <1>1, <2>2 DEF ConnectionsInv, Stored
  <2> QED BY <2>1, <2>2 DEF ConnectedIffOwned
<1> QED BY <1>1, ConnectionsInvariant, PTL

\* Routing table and stored sessions agree, but for the one filter whose
\* subscription is being handled, across takeover, expiry and clean start.
THEOREM RoutesCorrect == Safe => []RoutesMatchSessions
<1>1. ConnectionsInv => RoutesMatchSessions BY DEF ConnectionsInv
<1> QED BY <1>1, ConnectionsInvariant, PTL

\* No session that a publisher is delivering to is replaced or removed.
THEOREM SnapshotsCorrect == Safe => []SnapshotsLive
<1>1. ConnectionsInv => SnapshotsLive BY DEF ConnectionsInv
<1> QED BY <1>1, ConnectionsInvariant, PTL

\* Delivery is paused only while the owner handles a SUBSCRIBE.
THEOREM PausedCorrect == Safe => []PausedWhileSubscribing
<1>1. ConnectionsInv => PausedWhileSubscribing
  BY DEF ConnectionsInv, Stored, PausedWhileSubscribing
<1> QED BY <1>1, ConnectionsInvariant, PTL

\* The will of a connection that was served is published exactly once unless
\* it disconnected cleanly, and before it lets go of its client ID.
THEOREM WillCorrect == Safe => []WillOnce
<1>1. ConnectionsInv => WillOnce
  BY DEF ConnectionsInv, Placed, Closing, WillOnce
<1> QED BY <1>1, ConnectionsInvariant, PTL

\* What a step can do to the sessions and to the time of closing: nothing,
\* begin the end of the own connection, work on the own session, or one of
\* the three sections that open, close and expire sessions.
LEMMA StepEffects ==
  ASSUME ConnectionsInv, [Next]_vars
  PROVE  \/ UNCHANGED <<sess, discAt, st>>
         \/ \E h \in Handler : BeginClose(h) /\ UNCHANGED <<sess, st>>
         \/ /\ UNCHANGED <<sess, discAt>>
            /\ \E h \in Handler, t \in State :
                 /\ st' = [st EXCEPT ![sess[h]] = t]
                 /\ t.deleted = st[sess[h]].deleted
         \/ \E h \in Handler : Acquire(h) \/ closeSession(h)
         \/ \E at \in 0 .. now : ExpireSessions(at)
<1>1. ASSUME NEW h \in Handler,
             \/ StartConsumer(h) \/ BeginSubscribe(h) \/ EndSubscribe(h)
             \/ EndUnsubscribe(h) \/ \E sub \in Subs : Subscribe(h, sub)
      PROVE  /\ UNCHANGED <<sess, discAt>>
             /\ \E t \in State : /\ st' = [st EXCEPT ![sess[h]] = t]
                                 /\ t.deleted = st[sess[h]].deleted
  <2> DEFINE s == st[sess[h]]
  <2>1. pc[h] \in Serving \cup {"begin"}
    BY <1>1 DEF StartConsumer, BeginSubscribe, EndSubscribe, EndUnsubscribe,
                Subscribe, Serving
  <2>2. s \in State BY <2>1, WorkerFacts
  <2>3. UNCHANGED <<sess, discAt>>
    BY <1>1
    DEF StartConsumer, BeginSubscribe, EndSubscribe, EndUnsubscribe, Subscribe
  <2> SUFFICES \E t \in State : /\ st' = [st EXCEPT ![sess[h]] = t]
                                /\ t.deleted = s.deleted
    BY <2>3
  <2>4. CASE StartConsumer(h) \/ BeginSubscribe(h) \/ EndSubscribe(h)
    <3> HIDE DEF s
    <3>1. \E t \in {BeginDelivery(s), PauseDelivery(s), ResumeDelivery(s)} :
            st' = [st EXCEPT ![sess[h]] = t]
      BY <2>4 DEF StartConsumer, BeginSubscribe, EndSubscribe, SetState, s
    <3>2. \A t \in {BeginDelivery(s), PauseDelivery(s), ResumeDelivery(s)} :
            t \in State /\ t.deleted = s.deleted
      BY <2>2, MethodTypes, DeliveryFields DEF SameStanding
    <3> QED BY <3>1, <3>2
  <2>5. ASSUME NEW sub \in Subs, Subscribe(h, sub)
        PROVE  \E t \in State : /\ st' = [st EXCEPT ![sess[h]] = t]
                                /\ t.deleted = s.deleted
    <3> HIDE DEF s
    <3> DEFINE t == SetSubscription(s, sub.filter, sub.qos)
    <3>1. sub.filter \in Filter /\ sub.qos \in QoS BY DEF Subs
    <3>2. t \in State /\ t.deleted = s.deleted
      BY <2>2, <3>1, SubscriptionTypes, SubscriptionFields, SMT DEF SameStanding
    <3>3. st' = [st EXCEPT ![sess[h]] = t] BY <2>5 DEF Subscribe, SetState, s
    <3> HIDE DEF t
    <3> QED BY <3>2, <3>3
  <2>6. CASE EndUnsubscribe(h)
    <3> HIDE DEF s
    <3> DEFINE t == DeleteSubscription(s, arg[h].filter)
    <3>1. arg[h].filter \in Filter
      BY <2>6 DEF EndUnsubscribe, ConnectionsInv, Placed
    <3>2. t \in State BY <2>2, <3>1, SubscriptionTypes
    <3>3. t.deleted = s.deleted BY <2>2 DEF DeleteSubscription, State
    <3>4. st' = [st EXCEPT ![sess[h]] = t]
      BY <2>6 DEF EndUnsubscribe, SetState, s
    <3> HIDE DEF t
    <3> QED BY <3>2, <3>3, <3>4
  <2> QED BY <1>1, <2>4, <2>5, <2>6
<1>2. ASSUME NEW h \in Handler,
             \/ Connect(h) \/ GiveUp(h) \/ Fail(h) \/ StopConsumer(h) \/ Evict(h)
             \/ Await(h) \/ Connack(h) \/ MarkReady(h) \/ Route(h) \/ PublishWill(h)
             \/ SkipWill(h) \/ EndPublish(h) \/ CloseClient(h) \/ Drain(h) \/ Publish(h)
             \/ \E sub \in snap[h] : Deliver(h, sub)
             \/ \E clean \in BOOLEAN : ServeReturns(h, clean)
             \/ \E f \in Filter : BeginUnsubscribe(h, f)
      PROVE  UNCHANGED <<sess, discAt, st>>
  BY <1>2
  DEF Connect, GiveUp, Fail, StopConsumer, Evict, Await, Connack, MarkReady,
              Route, PublishWill, SkipWill, EndPublish, CloseClient, Drain, Publish,
              BeginPublish, Deliver, ServeReturns, BeginUnsubscribe, serverVars
<1>3. ASSUME NEW h \in Handler, BeginClose(h) PROVE UNCHANGED <<sess, st>>
  BY <1>3 DEF BeginClose, serverVars
<1>4. CASE Tick \/ UNCHANGED vars
  BY <1>4 DEF Tick, vars, handlerVars, serverVars
<1>5. CASE \E h \in Handler : HandlerNext(h)
  <2> PICK h \in Handler : HandlerNext(h) BY <1>5
  <2> QED BY <1>1, <1>2, <1>3 DEF HandlerNext, Progress, Serve
<1> QED BY <1>4, <1>5 DEF Next, Finished

\* What openSession does to the sessions that exist: the one it finds is
\* dropped, or resumed if it has not expired and no clean one is asked for.
LEMMA OpenEffects ==
  ASSUME ConnectionsInv, NEW h \in Handler, pc[h] = "acquire",
         clients[ID(h)] = Nobody, OpenSession(h)
  PROVE  LET old == data[ID(h)]
         IN  /\ \A s \in DOMAIN st : s # old => st'[s] = st[s]
             /\ \A g \in Handler : g # h => sess'[g] = sess[g]
             /\ pc'[h] # pc[h]
             /\ \/ sess'[h] \notin DOMAIN st
                \/ /\ sess'[h] = old /\ old \in DOMAIN st /\ ~st'[old].deleted
                   /\ ~Expired(st[old], now) /\ ~req[h].clean
                   /\ st'[old].subscriptions = st[old].subscriptions
<1> USE ConnectionsAssumption
<1> DEFINE id == ID(h)
           old == data[id]
           dropped == (old # NoState /\ Expired(st[old], now)) \/ req[h].clean
           removed == dropped /\ old # NoState
           kept == IF removed THEN [st EXCEPT ![old] = Deleted(@)] ELSE st
           heap(s) == [x \in DOMAIN st \cup {s} |->
                         IF x = s THEN NewState(id, req[h].identity, now)
                                  ELSE kept[x]]
<1>0. PlaceType /\ FieldType /\ ServerType /\ Placed(h) BY DEF ConnectionsInv
<1>1. id \in ClientID /\ sess[h] = NoState
  BY <1>0 DEF Placed, ID, Requests, Asking
<1>2. NoState \notin DOMAIN st BY <1>0 DEF ServerType
<1>3. \/ /\ old # NoState /\ ~removed
         /\ st' = [st EXCEPT ![old] = MarkConnected(@)]
         /\ sess' = [sess EXCEPT ![h] = old] /\ pc' = [pc EXCEPT ![h] = "connack"]
      \/ /\ \E s \in Handle \ DOMAIN st :
              /\ st' = [heap(s) EXCEPT ![s] = MarkConnected(@)]
              /\ sess' = [sess EXCEPT ![h] = s]
         /\ pc' = [pc EXCEPT ![h] = "connack"]
      \/ st' = kept /\ pc' = [pc EXCEPT ![h] = "close"] /\ UNCHANGED sess
  BY Zenon DEF OpenSession, Goto
<1>4. pc'[h] # pc[h] /\ \A g \in Handler : g # h => sess'[g] = sess[g]
  BY <1>0, <1>3 DEF PlaceType
<1>5. \A s \in DOMAIN st : s # old => kept[s] = st[s] OBVIOUS
<1>6. CASE /\ old # NoState /\ ~removed
           /\ st' = [st EXCEPT ![old] = MarkConnected(@)]
           /\ sess' = [sess EXCEPT ![h] = old]
  <2>1. old \in DOMAIN st /\ st[old] \in State /\ ~st[old].deleted
    BY <1>1, <1>6, IdleFacts
  <2>2. /\ MarkConnected(st[old]).deleted = FALSE
        /\ MarkConnected(st[old]).subscriptions = st[old].subscriptions
    BY <2>1, StatusFields
  <2>3. /\ st'[old] = MarkConnected(st[old]) /\ sess'[h] = old
        /\ \A s \in DOMAIN st : s # old => st'[s] = st[s]
    BY <1>0, <1>6, <2>1 DEF PlaceType
  <2>4. ~Expired(st[old], now) /\ ~req[h].clean BY <1>6
  <2> HIDE DEF old
  <2>5. /\ \A s \in DOMAIN st : s # old => st'[s] = st[s]
        /\ sess'[h] = old /\ old \in DOMAIN st /\ ~st'[old].deleted
        /\ st'[old].subscriptions = st[old].subscriptions
    BY <2>1, <2>2, <2>3
  <2> QED BY <1>4, <2>4, <2>5 DEF old
<1>7. ASSUME NEW s \in Handle \ DOMAIN st,
             st' = [heap(s) EXCEPT ![s] = MarkConnected(@)],
             sess' = [sess EXCEPT ![h] = s]
      PROVE  sess'[h] \notin DOMAIN st /\ \A x \in DOMAIN st : x # old => st'[x] = st[x]
  <2>1. \A x \in DOMAIN st : heap(s)[x] = kept[x] BY <1>7
  <2>2. DOMAIN heap(s) = DOMAIN st \cup {s} OBVIOUS
  <2> HIDE DEF heap, kept, old
  <2> QED BY <1>0, <1>5, <1>7, <2>1, <2>2 DEF PlaceType
<1>8. CASE st' = kept /\ UNCHANGED sess
  BY <1>1, <1>2, <1>4, <1>5, <1>8
<1> QED BY <1>3, <1>4, <1>6, <1>7, <1>8

\* Only the identity that owns a session can make its connection close by
\* connecting, or make its session go away before it has expired.
THEOREM IsolationCorrect == Safe => IdentityIsolated
<1> USE ConnectionsAssumption
<1>1. ASSUME ConnectionsInv, [Next]_vars
      PROVE  /\ \A h \in Handler :
                  discAt'[h] # discAt[h] =>
                    \E g \in Handler : Acts(g) /\ req[g].identity = req[h].identity
             /\ \A s \in DOMAIN st :
                  st'[s].deleted /\ ~st[s].deleted =>
                    \/ Expired(st[s], now)
                    \/ \E g \in Handler : Acts(g) /\ req[g].identity = st[s].owner
  <2> USE <1>1
  <2>0. PlaceType /\ FieldType /\ ServerType BY DEF ConnectionsInv
  <2>1. CASE UNCHANGED <<sess, discAt, st>> BY <2>1
  <2>2. ASSUME NEW h \in Handler, BeginClose(h), UNCHANGED <<sess, st>>
        PROVE  /\ Acts(h) /\ UNCHANGED st
               /\ \A g \in Handler : discAt'[g] # discAt[g] => g = h
    BY <2>0, <2>2 DEF BeginClose, beginClosing, Goto, Acts, PlaceType, FieldType
  <2>3. CASE /\ UNCHANGED <<sess, discAt>>
             /\ \E h \in Handler, t \in State : /\ st' = [st EXCEPT ![sess[h]] = t]
                                                /\ t.deleted = st[sess[h]].deleted
    BY <2>3
  <2>4. ASSUME NEW h \in Handler, Acquire(h)
        PROVE  /\ \A g \in Handler :
                    discAt'[g] # discAt[g] =>
                      Acts(h) /\ req[h].identity = req[g].identity
               /\ \A s \in DOMAIN st :
                    st'[s].deleted /\ ~st[s].deleted =>
                      Acts(h) /\ req[h].identity = st[s].owner
    <3> DEFINE id == ID(h)
               foreign == data[id] # NoState /\ st[data[id]].owner # req[h].identity
    <3>1. pc[h] = "acquire" BY <2>4 DEF Acquire
    <3>2. id \in ClientID BY <3>1 DEF ConnectionsInv, Placed, ID, Requests
    <3>3. CASE UNCHANGED <<discAt, st>> BY <3>3
    <3>4. CASE ~foreign /\ clients[id] = Nobody /\ OpenSession(h) /\ UNCHANGED discAt
      <4>1. /\ \A s \in DOMAIN st : s # data[id] => st'[s] = st[s]
            /\ pc'[h] # pc[h]
        BY <3>1, <3>4, OpenEffects
      <4>2. NoState \notin DOMAIN st BY <2>0 DEF ServerType
      <4> QED BY <3>4, <4>1, <4>2 DEF Acts
    <3>5. CASE /\ ~foreign /\ clients[id] # Nobody /\ beginClosing(clients[id])
               /\ Goto(h, "evict") /\ UNCHANGED <<sess, serverVars>>
      <4> DEFINE g == clients[id]
      <4>1. g \in Handler BY <2>0, <3>2, <3>5 DEF ServerType
      <4>2. Owns(g) /\ ID(g) = id
        BY <3>2, <4>1 DEF ConnectionsInv, Registered
      <4>3. /\ Owning(g) /\ data[ID(g)] = sess[g] /\ data[ID(g)] # NoState
        BY <4>1, <4>2 DEF ConnectionsInv, Owning, Owns
      <4>4. st[data[id]].owner = req[g].identity /\ data[id] # NoState
        BY <4>2, <4>3 DEF Owning
      <4>5. req[h].identity = req[g].identity BY <3>5, <4>4
      <4>6. Acts(h) BY <2>0, <3>1, <3>5 DEF Goto, Acts, PlaceType
      <4>7. \A k \in Handler : discAt'[k] # discAt[k] => k = g
        BY <2>0, <3>5, <4>1 DEF beginClosing, FieldType
      <4> QED BY <3>5, <4>5, <4>6, <4>7 DEF serverVars
    <3> QED BY <2>4, <3>3, <3>4, <3>5 DEF Acquire, serverVars
  <2>5. ASSUME NEW h \in Handler, closeSession(h)
        PROVE  /\ UNCHANGED discAt
               /\ \A s \in DOMAIN st :
                    st'[s].deleted /\ ~st[s].deleted =>
                      Acts(h) /\ req[h].identity = st[s].owner
    <3>1. pc[h] = "release" /\ pc' = [pc EXCEPT ![h] = "exit"] /\ UNCHANGED discAt
      BY <2>5 DEF closeSession, Goto
    <3>2. Acts(h) BY <2>0, <3>1 DEF Acts, PlaceType
    <3>3. Owns(h) BY <3>1 DEF ConnectionsInv, Placed, Owns
    <3>4. /\ clients[ID(h)] = h /\ data[ID(h)] = sess[h]
      BY <3>3, OwnerFacts
    <3>5. st[sess[h]].owner = req[h].identity
      BY <3>3 DEF ConnectionsInv, Owning
    <3>6. \A s \in DOMAIN st : s # sess[h] => st'[s] = st[s]
      BY <2>5, <3>4 DEF closeSession, SetState
    <3> QED BY <3>1, <3>2, <3>5, <3>6
  <2>6. ASSUME NEW at \in 0 .. now, ExpireSessions(at)
        PROVE  /\ UNCHANGED discAt
               /\ \A s \in DOMAIN st :
                    st'[s].deleted /\ ~st[s].deleted => Expired(st[s], now)
    <3> DEFINE gone == {id \in Live : Expired(st[data[id]], at)}
               states == {data[id] : id \in gone}
    <3>1. /\ UNCHANGED discAt
          /\ st' = [s \in DOMAIN st |->
                      IF s \in states THEN Deleted(st[s]) ELSE st[s]]
      BY <2>6 DEF ExpireSessions, handlerVars
    <3>2. ASSUME NEW s \in DOMAIN st, s \in states PROVE Expired(st[s], now)
      <4>1. Expired(st[s], at) BY <3>2
      <4>2. st[s].offlineSince \in Int /\ OfflineTTL \in Nat /\ now \in Nat
        BY <2>0, SessionLimitsValid, SMT DEF ServerType, State, NoTime
      <4> QED BY <4>1, <4>2, SMT DEF Expired
    <3> HIDE DEF states
    <3> QED BY <3>1, <3>2
  <2> QED BY <2>1, <2>2, <2>3, <2>4, <2>5, <2>6, StepEffects
<1> QED BY <1>1, ConnectionsInvariant, PTL DEF Safe, IdentityIsolated

\* A connection does not resume a session that has expired, whether or not
\* the sweep has run, and what it resumes keeps its subscriptions.
THEOREM ResumeCorrect == Safe => ResumedInTime
<1> USE ConnectionsAssumption
<1>1. ASSUME ConnectionsInv, [Next]_vars
      PROVE  \A h \in Handler :
               sess[h] = NoState /\ sess'[h] \in DOMAIN st =>
                 /\ OfflineTTL # 0 => now - st[sess'[h]].offlineSince < OfflineTTL
                 /\ ~req[h].clean
                 /\ st'[sess'[h]].subscriptions = st[sess'[h]].subscriptions
  <2> USE <1>1
  <2> SUFFICES ASSUME NEW h \in Handler, sess[h] = NoState, sess'[h] \in DOMAIN st
               PROVE  /\ OfflineTTL # 0 =>
                           now - st[sess'[h]].offlineSince < OfflineTTL
                      /\ ~req[h].clean
                      /\ st'[sess'[h]].subscriptions = st[sess'[h]].subscriptions
    OBVIOUS
  <2>1. ServerType /\ NoState \notin DOMAIN st BY DEF ConnectionsInv, ServerType
  <2>2. sess'[h] # sess[h] BY <2>1
  <2>3. PICK g \in Handler : Acquire(g) \/ closeSession(g)
    BY <2>2, StepEffects DEF ExpireSessions, handlerVars
  <2>4. /\ Acquire(g) /\ clients[ID(g)] = Nobody /\ OpenSession(g)
        /\ pc[g] = "acquire"
    BY <2>2, <2>3 DEF Acquire, closeSession
  <2> DEFINE old == data[ID(g)]
  <2>5. g = h BY <2>2, <2>4, OpenEffects
  <2>6. /\ sess'[h] = old /\ ~Expired(st[old], now) /\ ~req[h].clean
        /\ st'[old].subscriptions = st[old].subscriptions
    BY <2>4, <2>5, OpenEffects
  <2>7. ID(g) \in ClientID BY <2>4 DEF ConnectionsInv, Placed, ID, Requests
  <2>8. ID(g) \in Live BY <2>1, <2>6, <2>7 DEF Live
  <2>9. ~st[old].connected /\ st[old].offlineSince # NoTime
    BY <2>4, <2>8 DEF ConnectionsInv, Stored
  <2>10. st[old].offlineSince \in Int /\ OfflineTTL \in Nat /\ now \in Nat
    BY <2>1, <2>6, SessionLimitsValid, SMT DEF ServerType, State, NoTime
  <2> QED BY <2>6, <2>9, <2>10, SMT DEF Expired
<1> QED BY <1>1, ConnectionsInvariant, PTL DEF Safe, ResumedInTime
=============================================================================
