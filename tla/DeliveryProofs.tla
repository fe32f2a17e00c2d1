--------------------------- MODULE DeliveryProofs ---------------------------
(***************************************************************************)
(* The way of a message to the wire, for every number of messages,         *)
(* connections and packets: replies come first, and what the peer receives *)
(* and answers is what AtLeastOnce promises.                               *)
(***************************************************************************)
EXTENDS Delivery, SessionStateProofs

\* First-order reasoning: Zenon, but for the leaves that cite SMT.
USE Zenon

(***************************************************************************)
(* The inductive invariant.                                                *)
(***************************************************************************)

Publishes == [kind : {"publish"}, msg : Nat \ {0}, pid : PacketIDs, dup : BOOLEAN]
Copies == [msg : Nat \ {0}, pid : PacketIDs, dup : BOOLEAN]
Copy(p) == [msg |-> p.msg, pid |-> p.pid, dup |-> p.dup]
Subacks == {Suback(n) : n \in Nat}
Packets == Publishes \cup Subacks \cup {Connack, QoS0}

\* The i-th accepted packet is a publish; one that the consumer was to send was
\* not accepted; all publishes of this connection.
IsPub(k) == k \in 1 .. Len(content) /\ content[k].kind = "publish"
Unsent == packet["consumer"] = 0 /\ carries["consumer"].kind = "publish"
Outgoing == {content[k] : k \in {i \in 1 .. Len(content) : content[i].kind = "publish"}}
              \cup {p \in {carries["consumer"]} : Unsent}

\* The client: the packets in the queue are the last ones accepted, and the
\* writer has dealt with all others but the one it is about to write.
Broken == {"fail", "close", "closeConn", "exited"}
Taken == accepted - Len(sendQ)
Written == IF writer = "write" THEN Taken - 1 ELSE Taken

ClientOrder ==
  /\ sendQ \in Seq(Nat) /\ accepted \in Nat /\ content \in Seq(Packets)
  /\ accepted = Len(content) /\ Len(sendQ) <= accepted
  /\ \A i \in 1 .. Len(sendQ) : sendQ[i] = Taken + i
  /\ writer \in {"select", "write", "report"} \cup Broken
  /\ writer = "write" => current = Taken /\ Taken > 0

\* The callers: where the handler, the consumer and the publisher wait for what.
\* A Send that has returned without success was accepted or turned away.
SendCall(c) ==
  \/ call[c] \in {"send", "wait", "late"}
  \/ call[c] = "idle" /\ (packet[c] # 0 \/ outcome[c] \in {"closed", "full"})

Calls ==
  /\ call \in [Caller -> {"idle", "enqueue", "send", "wait", "late", "closing"}]
  /\ packet \in [Caller -> Nat] /\ DOMAIN outcome = Caller
  /\ carries \in [Caller -> Packets]
  /\ \A c \in Caller : call[c] = "send" => packet[c] = 0
  /\ \A c \in Caller : call[c] \in {"wait", "late"} => packet[c] # 0
  /\ consumer = "send" => SendCall("consumer")
  /\ Unsent => consumer \in {"send", "exited"}
  /\ call["consumer"] \in {"enqueue", "send"} => call["consumer"] = "send" /\ Unsent
  /\ handler \in {"connackSent", "subackSent"} => SendCall("handler")
  /\ handler = "connackSent" => carries["handler"] = Connack
  /\ handler = "subackSent" => carries["handler"] = Suback(subscribes)
  /\ call["handler"] = "send" => handler \in {"connackSent", "subackSent"}
  /\ call["handler"] = "enqueue" => handler = "retained" /\ carries["handler"] = QoS0
  /\ call["publisher"] \in {"enqueue", "send"} =>
       publisher = "sending" /\ carries["publisher"] = QoS0

\* The session, and the epochs of its connections.
Sess ==
  /\ s \in State /\ ~s.deleted /\ admitted \in Nat /\ QueueInv(s, admitted)
  /\ conn \in Nat \ {0} /\ mark \in Int /\ subscribes \in Nat
  /\ IF consumer = "off" THEN s.epoch < conn
     ELSE epoch = s.epoch /\ s.epoch \in 1 .. conn
  /\ handler \in {"connack", "connackSent", "begin"} => consumer = "off"

\* The publishes of this connection and the queue.
Tracked(p) ==
  \E j \in 1 .. Len(s.entries) :
    /\ s.entries[j].msg = p.msg /\ s.entries[j].packetID = p.pid
    /\ s.entries[j].lastEpoch = s.epoch
Answered(m) == \E a \in acked : received[a].msg = m

Flow ==
  /\ \A k, l \in 1 .. Len(content) :
       k < l /\ IsPub(k) /\ IsPub(l) => content[k].msg < content[l].msg
  /\ Unsent => \A k \in 1 .. Len(content) :
                 IsPub(k) => content[k].msg < carries["consumer"].msg
  /\ consumer = "off" => Outgoing = {}
  /\ \A p \in Outgoing :
       /\ p.msg <= admitted /\ (p.dup => conn > 1)
       /\ Tracked(p) \/ Answered(p.msg)
       /\ \A x \in past : x.msg = p.msg => p.dup
  /\ consumer # "off" =>
       \A j \in 1 .. Len(s.entries) :
         IF s.entries[j].lastEpoch = s.epoch
         THEN \E p \in Outgoing : p.msg = s.entries[j].msg
         ELSE \A p \in Outgoing : p.msg < s.entries[j].msg

\* What the peer has.
Peer ==
  /\ received \in Seq(Copies) /\ acked \subseteq DOMAIN received /\ past \subseteq Copies
  /\ \A i \in DOMAIN received :
       \E k \in 1 .. Len(content) :
         IsPub(k) /\ received[i] = Copy(content[k]) /\ (writer \notin Broken => k <= Written)
  /\ writer \notin Broken =>
       \A k \in 1 .. Written :
         IsPub(k) => \E i \in DOMAIN received : received[i] = Copy(content[k])
  /\ \A i, l \in DOMAIN received : i < l => received[i].msg < received[l].msg

\* A message has kept the identifier the peer got it under.
History ==
  \A x \in Everything :
    /\ x.msg <= admitted
    /\ \A j \in 1 .. Len(s.entries) :
         s.entries[j].msg = x.msg => s.entries[j].packetID = x.pid

\* Before SUBACK is in the client's queue nothing newer than the subscription is
\* sent; afterwards it follows SUBACK.
AwaitsSuback ==
  handler = "subscribed" \/ (handler = "subackSent" /\ packet["handler"] = 0)

Reply ==
  /\ content # <<>> => content[1] = Connack
  /\ handler \in {"connack", "connackSent"} => ~ready
  /\ handler = "connack" => content = <<>>
  /\ handler = "connackSent" => (packet["handler"] = 0 <=> content = <<>>)
  /\ ready => content # <<>>
  /\ consumer # "off" \/ publisher = "sending" => ready
  /\ handler \in {"begin", "serve", "subscribed", "subackSent", "retained"} => ready
  /\ handler \in {"connack", "connackSent", "begin"} => mark = -1
  /\ mark # -1 /\ ~Leaving =>
       IF AwaitsSuback
       THEN s.paused /\ \A p \in Outgoing : p.msg <= mark
       ELSE \E j \in 1 .. Len(content) :
              /\ content[j] = Suback(subscribes)
              /\ \A k \in 1 .. j : IsPub(k) => content[k].msg <= mark

DeliveryInv == ClientOrder /\ Calls /\ Sess /\ Flow /\ Peer /\ History /\ Reply

(***************************************************************************)
(* The first connection.                                                   *)
(***************************************************************************)

\* Kinds of packets.
LEMMA PacketKinds ==
  /\ Connack.kind # "publish" /\ QoS0.kind # "publish"
  /\ \A n : Suback(n).kind # "publish"
  /\ {Connack, QoS0} \subseteq Packets /\ \A n \in Nat : Suback(n) \in Packets
  /\ \A p \in Packets : p.kind = "publish" => p \in Publishes
<1>1. Connack.kind = "connack" /\ QoS0.kind = "qos0" /\ \A n : Suback(n).kind = "suback"
  BY DEF Connack, Suback, QoS0
<1>2. "connack" # "publish" /\ "suback" # "publish" /\ "qos0" # "publish"
  OBVIOUS
<1> QED  BY <1>1, <1>2 DEF Packets, Subacks

LEMMA InitDelivery == Init => DeliveryInv
<1> SUFFICES ASSUME Init PROVE DeliveryInv
  OBVIOUS
<1>1. /\ sendQ = <<>> /\ writer = "select" /\ accepted = 0 /\ content = <<>>
      /\ call = [c \in Caller |-> "idle"] /\ packet = [c \in Caller |-> 0]
      /\ outcome = [c \in Caller |-> "none"] /\ carries = [c \in Caller |-> Connack]
  BY DEF Init, C!Init
<1>2. /\ s = MarkConnected(TheSession) /\ conn = 1 /\ handler = "connack"
      /\ consumer = "off" /\ publisher = "idle" /\ ready = FALSE
      /\ received = <<>> /\ acked = {} /\ past = {} /\ admitted = 0 /\ mark = -1
      /\ subscribes = 0
  BY DEF Init
<1>3. Len(content) = 0 /\ DOMAIN received = {} /\ Len(sendQ) = 0
      /\ \A i : i \notin 1 .. 0
  BY <1>1, <1>2, SMT
<1>4. "consumer" \in Caller /\ "handler" \in Caller /\ "publisher" \in Caller
  BY DEF Caller
<1>5. ~Unsent /\ Outgoing = {} /\ (\A k : ~IsPub(k)) /\ Everything = {}
  BY <1>1, <1>2, <1>3, <1>4, PacketKinds DEF Unsent, Outgoing, IsPub, Everything
<1>6. ClientOrder
  <2>1. Taken = 0 /\ 0 \in Nat /\ 0 <= 0
    <3>1. accepted = 0 /\ Len(sendQ) = 0
      BY <1>1, <1>3
    <3> QED  BY <3>1, SMT DEF Taken
  <2>2. sendQ \in Seq(Nat) /\ content \in Seq(Packets)
    BY <1>1, SMT
  <2> QED  BY <1>1, <1>3, <2>1, <2>2 DEF ClientOrder
<1>7. Calls
  <2>1. 0 \in Nat /\ Connack \in Packets
    BY PacketKinds, SMT
  <2> QED  BY <1>1, <1>2, <1>4, <1>5, <2>1 DEF Calls
<1>8. Sess
  <2>1. TheSession \in State /\ QueueInv(TheSession, 0)
    <3>1. (CHOOSE id \in ClientID : TRUE) \in ClientID /\ (CHOOSE o \in Owner : TRUE) \in Owner
      BY DeliveryAssumption
    <3>2. 0 \in Nat
      BY SMT
    <3> QED  BY <3>1, <3>2, NewStateType, NewStateQueue DEF TheSession
  <2>2. TheSession.deleted = FALSE /\ TheSession.epoch = 0
    BY DEF TheSession, NewState
  <2>3. s \in State /\ QueueInv(s, 0)
    <3>1. 0 \in Nat
      BY SMT
    <3> QED  BY <1>2, <2>1, <3>1, MethodTypes, QuietMethods
  <2>4. s.deleted = FALSE /\ s.epoch = 0
    BY <1>2, <2>1, <2>2 DEF MarkConnected, State
  <2>5. /\ 0 \in Nat /\ conn \in Nat \ {0} /\ mark \in Int /\ s.epoch < conn
        /\ subscribes \in Nat
    BY <1>2, <2>4, SMT
  <2> QED  BY <1>2, <2>3, <2>4, <2>5 DEF Sess
<1>9. Flow
  BY <1>2, <1>3, <1>5 DEF Flow
<1>10. Peer
  <2>1. Written = 0
    <3>1. accepted = 0 /\ Len(sendQ) = 0 /\ writer # "write"
      BY <1>1, <1>3
    <3> QED  BY <3>1, SMT DEF Written, Taken
  <2>2. received \in Seq(Copies)
    BY <1>2, SMT
  <2> QED  BY <1>2, <1>3, <2>1, <2>2 DEF Peer
<1>11. History
  BY <1>5 DEF History
<1>12. Reply
  BY <1>1, <1>2 DEF Reply
<1> QED  BY <1>6, <1>7, <1>8, <1>9, <1>10, <1>11, <1>12 DEF DeliveryInv

(***************************************************************************)
(* What stays: most steps concern one goroutine.                           *)
(***************************************************************************)

\* Steps that leave the accepted packets and the consumer's own alone leave the
\* publishes of the connection alone.
LEMMA SameOutgoing ==
  ASSUME content' = content, packet'["consumer"] = packet["consumer"],
         carries'["consumer"] = carries["consumer"]
  PROVE  /\ Outgoing' = Outgoing
         /\ Unsent' <=> Unsent
         /\ \A k : IsPub(k)' <=> IsPub(k)
BY DEF Outgoing, Unsent, IsPub

\* Steps that do not touch the client's queue and writer, the consumer's packet,
\* the session's queue and the peer.
Aside ==
  /\ UNCHANGED <<sendQ, accepted, content, writer, current, received, acked, past,
                 conn, admitted>>
  /\ packet'["consumer"] = packet["consumer"]
  /\ carries'["consumer"] = carries["consumer"]
  /\ s'.entries = s.entries /\ s'.epoch = s.epoch
  /\ consumer' = "off" <=> consumer = "off"

LEMMA AsideOutgoing ==
  ASSUME Aside
  PROVE  Outgoing' = Outgoing /\ \A k : IsPub(k)' <=> IsPub(k)
BY SameOutgoing DEF Aside

LEMMA AsideKeeps ==
  ASSUME DeliveryInv, Aside
  PROVE  ClientOrder' /\ Flow' /\ Peer' /\ History'
<1>1. /\ sendQ' = sendQ /\ accepted' = accepted /\ content' = content
      /\ writer' = writer /\ current' = current /\ received' = received
      /\ acked' = acked /\ past' = past /\ conn' = conn /\ admitted' = admitted
      /\ s'.entries = s.entries /\ s'.epoch = s.epoch
      /\ consumer' = "off" <=> consumer = "off"
      /\ carries'["consumer"] = carries["consumer"]
  BY DEF Aside
<1>2. /\ Outgoing' = Outgoing
      /\ Unsent' <=> Unsent
      /\ \A k : IsPub(k)' <=> IsPub(k)
  BY SameOutgoing DEF Aside
<1>3. Taken' = Taken /\ Written' = Written
  BY <1>1 DEF Taken, Written
<1>4. ClientOrder'
  BY <1>1, <1>3 DEF DeliveryInv, ClientOrder
<1>5. Flow'
  <2>1. \A p : Tracked(p)' <=> Tracked(p)
    BY <1>1 DEF Tracked
  <2>2. \A m : Answered(m)' <=> Answered(m)
    BY <1>1 DEF Answered
  <2> QED  BY <1>1, <1>2, <2>1, <2>2 DEF DeliveryInv, Flow
<1>6. Peer'
  BY <1>1, <1>2, <1>3 DEF DeliveryInv, Peer
<1>7. History'
  <2>1. Everything' = Everything
    BY <1>1 DEF Everything
  <2> QED  BY <1>1, <2>1 DEF DeliveryInv, History
<1> QED  BY <1>4, <1>5, <1>6, <1>7

\* What the methods other than Admit, Next, Ack and BeginDelivery do.
LEMMA QuietSession ==
  ASSUME Sess, NEW t,
         \/ t = s \/ t = PauseDelivery(s) \/ t = ResumeDelivery(s)
         \/ t = MarkConnected(s) \/ t = MarkDisconnectedAt(s, 0)
         \/ t = [s EXCEPT !.changed = FALSE]
  PROVE  /\ t \in State /\ ~t.deleted /\ QueueInv(t, admitted)
         /\ t.entries = s.entries /\ t.epoch = s.epoch
<1>1. s \in State /\ ~s.deleted /\ admitted \in Nat /\ QueueInv(s, admitted) /\ 0 \in Nat
  BY SMT DEF Sess
<1>2. t \in State
  BY <1>1, MethodTypes
<1>3. QueueInv(t, admitted)
  BY <1>1, QuietMethods
<1>4. ~t.deleted /\ t.entries = s.entries /\ t.epoch = s.epoch
  BY <1>1
  DEF PauseDelivery, ResumeDelivery, MarkConnected, MarkDisconnectedAt, notifyLocked,
      State
<1> QED  BY <1>2, <1>3, <1>4

LEMMA SessQuiet ==
  ASSUME Sess, UNCHANGED <<conn, epoch, admitted>>, mark' \in Int, subscribes' \in Nat,
         \/ s' = s \/ s' = PauseDelivery(s) \/ s' = ResumeDelivery(s)
         \/ s' = MarkConnected(s) \/ s' = MarkDisconnectedAt(s, 0)
         \/ s' = [s EXCEPT !.changed = FALSE],
         consumer' = "off" <=> consumer = "off",
         handler' \in {"connack", "connackSent", "begin"} => consumer' = "off"
  PROVE  Sess' /\ s'.entries = s.entries /\ s'.epoch = s.epoch
<1>1. /\ s' \in State /\ ~s'.deleted /\ QueueInv(s', admitted)
      /\ s'.entries = s.entries /\ s'.epoch = s.epoch
  BY QuietSession
<1>2. conn' = conn /\ epoch' = epoch /\ admitted' = admitted
  OBVIOUS
<1>3. QueueInv(s, admitted)' <=> QueueInv(s', admitted')
  OBVIOUS
<1> QED  BY <1>1, <1>2, <1>3 DEF Sess

\* Steps that only move the goroutines on, and none while it offers a packet.
LEMMA CallsMove ==
  ASSUME Calls, UNCHANGED <<call, packet, outcome, carries>>,
         consumer' = "send" => consumer = "send",
         Unsent => consumer' \in {"send", "exited"},
         handler' \in {"connackSent", "subackSent"} => handler' = handler,
         handler' = "subackSent" => subscribes' = subscribes,
         call["handler"] \in {"enqueue", "send"} => handler' = handler,
         call["publisher"] \in {"enqueue", "send"} => publisher' = publisher
  PROVE  Calls'
<1>1. call' = call /\ packet' = packet /\ outcome' = outcome /\ carries' = carries
  OBVIOUS
<1>2. (Unsent' <=> Unsent) /\ \A c : SendCall(c)' <=> SendCall(c)
  BY <1>1 DEF Unsent, SendCall
<1> QED  BY <1>1, <1>2 DEF Calls

(***************************************************************************)
(* Steps of one goroutine that send nothing.                               *)
(***************************************************************************)

\* The selects of the consumer.
LEMMA ConsumerMoves ==
  ASSUME DeliveryInv,
         \/ ConsumerLoop \/ ConsumerWait
         \/ ConsumerNext /\ ~HasNext(s, epoch)
         \/ ConsumerSent /\ Succeeded("consumer")
  PROVE  DeliveryInv'
<1> USE DEF DeliveryInv
<1>1. /\ consumer \in {"loop", "wait", "next", "send"}
      /\ consumer' \in {"loop", "wait", "next", "exited"}
      /\ consumer' = "send" => consumer = "send"
      /\ s' = s \/ s' = [s EXCEPT !.changed = FALSE]
  BY DEF ConsumerLoop, ConsumerWait, ConsumerNext, ConsumerSent, Failed, Succeeded
<1>2. UNCHANGED <<clientVars, conn, handler, epoch, publisher, ready, closing, content,
                  carries, peerVars, countVars, mark>>
  BY DEF ConsumerLoop, ConsumerWait, ConsumerNext, ConsumerSent, Failed, Succeeded
<1>3. ~Unsent
  <2>1. CASE consumer = "send"
    <3>1. call["consumer"] = "idle" /\ outcome["consumer"] = "ok"
      BY <2>1
      DEF ConsumerLoop, ConsumerWait, ConsumerNext, ConsumerSent, Succeeded, Returned
    <3> QED  BY <2>1, <3>1 DEF Calls, SendCall, Unsent
  <2>2. CASE consumer # "send"
    BY <1>1, <2>2 DEF Calls
  <2> QED  BY <2>1, <2>2
<1>4. /\ sendQ' = sendQ /\ accepted' = accepted /\ content' = content
      /\ writer' = writer /\ current' = current /\ received' = received
      /\ acked' = acked /\ past' = past /\ conn' = conn /\ admitted' = admitted
      /\ call' = call /\ packet' = packet /\ outcome' = outcome /\ carries' = carries
      /\ handler' = handler /\ publisher' = publisher /\ ready' = ready
      /\ mark' = mark /\ epoch' = epoch /\ subscribes' = subscribes
  BY <1>2 DEF clientVars, peerVars, countVars
<1>5. consumer # "off" /\ consumer' # "off"
  BY <1>1
<1>6. Sess' /\ s'.entries = s.entries /\ s'.epoch = s.epoch
  <2>1. mark' \in Int /\ subscribes' \in Nat
    BY <1>4 DEF Sess
  <2>2. handler' \in {"connack", "connackSent", "begin"} => consumer' = "off"
    BY <1>4, <1>5 DEF Sess
  <2> QED  BY <1>1, <1>4, <1>5, <2>1, <2>2, SessQuiet
<1>7. Calls'
  BY <1>1, <1>3, <1>4, CallsMove
<1>8. Aside
  BY <1>4, <1>5, <1>6 DEF Aside
<1>9. ClientOrder' /\ Flow' /\ Peer' /\ History'
  BY <1>8, AsideKeeps
<1>10. Reply'
  <2>1. Outgoing' = Outgoing /\ \A k : IsPub(k)' <=> IsPub(k)
    BY <1>4, SameOutgoing
  <2>2. s'.paused = s.paused
    BY <1>1 DEF Sess, State
  <2>3. (Leaving' <=> Leaving) /\ (AwaitsSuback' <=> AwaitsSuback)
    BY <1>4 DEF Leaving, AwaitsSuback
  <2> QED  BY <1>4, <1>5, <2>1, <2>2, <2>3 DEF Reply
<1> QED  BY <1>6, <1>7, <1>9, <1>10

\* The steps of the handler between its sends, and of the publisher.
LEMMA HandlerMoves ==
  ASSUME DeliveryInv,
         \/ MarkReady \/ HandleSubscribe \/ Resume \/ Disconnect \/ BeginClosing
         \/ Release \/ ClosedLive
         \/ EnqueuedLive /\ Succeeded("publisher")
         \/ CloseClient /\ done
  PROVE  DeliveryInv'
<1> USE DEF DeliveryInv
<1>1. UNCHANGED <<clientVars, conn, consumer, epoch, content, carries, peerVars, admitted>>
  BY DEF MarkReady, HandleSubscribe, Resume, Disconnect, BeginClosing, Release,
         ClosedLive, EnqueuedLive, CloseClient, CloseBy, Failed, Succeeded, countVars
<1>2. /\ sendQ' = sendQ /\ accepted' = accepted /\ content' = content
      /\ writer' = writer /\ current' = current /\ received' = received
      /\ acked' = acked /\ past' = past /\ conn' = conn /\ admitted' = admitted
      /\ call' = call /\ packet' = packet /\ outcome' = outcome /\ carries' = carries
      /\ consumer' = consumer /\ epoch' = epoch
  BY <1>1 DEF clientVars, peerVars
<1>3. \/ s' = s \/ s' = PauseDelivery(s) \/ s' = ResumeDelivery(s)
      \/ s' = MarkDisconnectedAt(s, 0)
  BY DEF MarkReady, HandleSubscribe, Resume, Disconnect, BeginClosing, Release,
         ClosedLive, EnqueuedLive, CloseClient
<1>4. mark' \in Int /\ subscribes' \in Nat
  <2>1. admitted \in Int
    BY SMT DEF Sess
  <2>2. mark' = mark \/ mark' = admitted
    BY DEF MarkReady, HandleSubscribe, Resume, Disconnect, BeginClosing, Release,
           ClosedLive, EnqueuedLive, CloseClient
  <2>3. subscribes \in Nat
    BY DEF Sess
  <2>4. subscribes' = subscribes \/ subscribes' = subscribes + 1
    BY DEF MarkReady, HandleSubscribe, Resume, Disconnect, BeginClosing, Release,
           ClosedLive, EnqueuedLive, CloseClient, countVars
  <2>5. subscribes' \in Nat
    BY <2>3, <2>4, SMT
  <2> QED  BY <2>1, <2>2, <2>5 DEF Sess
<1>5. /\ handler' = handler \/ handler' \in {"begin", "subscribed", "serve", "close",
                                             "closeClient", "drain", "offline"}
      /\ handler' = "begin" => handler = "connackSent" \/ handler' = handler
      /\ call["handler"] \in {"enqueue", "send"} => handler' = handler
      /\ call["publisher"] \in {"enqueue", "send"} => publisher' = publisher
      /\ handler' = "subackSent" => subscribes' = subscribes
  BY DEF MarkReady, HandleSubscribe, Resume, Disconnect, BeginClosing, Release,
         ClosedLive, EnqueuedLive, CloseClient, Succeeded, Failed, Returned, Calls,
         countVars
<1>6. Sess' /\ s'.entries = s.entries /\ s'.epoch = s.epoch
  <2>1. handler' \in {"connack", "connackSent", "begin"} => consumer' = "off"
    BY <1>2, <1>5 DEF Sess
  <2> QED  BY <1>2, <1>3, <1>4, <2>1, SessQuiet
<1>7. Calls'
  <2>1. handler' \in {"connackSent", "subackSent"} => handler' = handler
    BY <1>5
  <2>2. Unsent => consumer' \in {"send", "exited"}
    BY <1>2 DEF Calls
  <2> QED  BY <1>2, <1>5, <2>1, <2>2, CallsMove
<1>8. Aside
  BY <1>2, <1>6 DEF Aside
<1>9. ClientOrder' /\ Flow' /\ Peer' /\ History'
  BY <1>8, AsideKeeps
<1>10. Reply'
  <2>1. Outgoing' = Outgoing /\ \A k : IsPub(k)' <=> IsPub(k)
    BY <1>2, SameOutgoing
  <2>2. CASE MarkReady
    <3>1. /\ handler = "connackSent" /\ handler' = "begin" /\ ready' = TRUE
          /\ mark' = mark /\ subscribes' = subscribes /\ publisher' = publisher
      BY <2>2 DEF MarkReady, countVars
    <3>2. packet["handler"] # 0
      BY <2>2 DEF MarkReady, Succeeded, Returned, Calls, SendCall
    <3>3. content # <<>>
      BY <3>1, <3>2 DEF Reply
    <3> QED  BY <1>2, <3>1, <3>3 DEF Reply
  <2>3. CASE HandleSubscribe
    <3>1. /\ handler = "serve" /\ handler' = "subscribed" /\ ready' = ready
          /\ mark' = admitted /\ publisher' = publisher /\ s' = PauseDelivery(s)
      BY <2>3 DEF HandleSubscribe
    <3>2. s'.paused
      BY <3>1 DEF PauseDelivery, Sess, State
    <3>3. \A p \in Outgoing' : p.msg <= mark'
      BY <2>1, <3>1 DEF Flow
    <3>4. AwaitsSuback'
      BY <3>1 DEF AwaitsSuback
    <3> QED  BY <1>2, <3>1, <3>2, <3>3, <3>4 DEF Reply
  <2>4. CASE Resume
    <3>1. /\ handler \in {"retained", "subackSent"} /\ handler' \in {"serve", "close"}
          /\ handler' = "serve" => handler = "retained"
          /\ ready' = ready /\ mark' = mark
          /\ subscribes' = subscribes /\ publisher' = publisher
      BY <2>4 DEF Resume, countVars
    <3>2. ~Leaving /\ ~AwaitsSuback' /\ (~Leaving' => ~AwaitsSuback)
      BY <3>1 DEF Leaving, AwaitsSuback
    <3> QED  BY <1>2, <2>1, <3>1, <3>2 DEF Reply
  <2>5. CASE Disconnect \/ BeginClosing \/ Release \/ CloseClient
    <3>1. /\ handler' \in {"close", "closeClient", "drain", "offline"}
          /\ ready' = ready /\ mark' = mark
          /\ subscribes' = subscribes /\ publisher' = publisher
      BY <2>5 DEF Disconnect, BeginClosing, Release, CloseClient, countVars
    <3>2. Leaving'
      BY <3>1 DEF Leaving
    <3> QED  BY <1>2, <3>1, <3>2 DEF Reply
  <2>6. CASE ClosedLive \/ (EnqueuedLive /\ Succeeded("publisher"))
    <3>1. /\ handler' = handler /\ ready' = ready /\ mark' = mark
          /\ subscribes' = subscribes
          /\ publisher' = "idle" /\ s' = s
      BY <2>6 DEF ClosedLive, EnqueuedLive, Failed, Succeeded, countVars
    <3>2. (Leaving' <=> Leaving) /\ (AwaitsSuback' <=> AwaitsSuback)
      BY <1>2, <3>1 DEF Leaving, AwaitsSuback
    <3> QED  BY <1>2, <2>1, <3>1, <3>2 DEF Reply
  <2> QED  BY <2>2, <2>3, <2>4, <2>5, <2>6
<1> QED  BY <1>6, <1>7, <1>9, <1>10

(***************************************************************************)
(* Steps that begin a Send, an Enqueue or a Close.                         *)
(***************************************************************************)

\* What a goroutine's call does to the records of the calls.
LEMMA StartEffect ==
  ASSUME Calls, NEW c \in Caller, NEW kind \in {"enqueue", "send"}, NEW p \in Packets,
         Start(c, kind, p)
  PROVE  /\ call' \in [Caller -> {"idle", "enqueue", "send", "wait", "late", "closing"}]
         /\ packet' \in [Caller -> Nat] /\ DOMAIN outcome' = Caller
         /\ carries' \in [Caller -> Packets]
         /\ call[c] = "idle" /\ packet'[c] = 0 /\ carries'[c] = p
         /\ \/ call'[c] = "idle" /\ outcome'[c] = "closed"
            \/ call'[c] = kind
         /\ \A d \in Caller \ {c} :
              /\ call'[d] = call[d] /\ packet'[d] = packet[d]
              /\ outcome'[d] = outcome[d] /\ carries'[d] = carries[d]
         /\ UNCHANGED <<sendQ, accepted, writer, current>>
<1>1. /\ call[c] = "idle"
      /\ packet' = [packet EXCEPT ![c] = 0]
      /\ carries' = [carries EXCEPT ![c] = p]
      /\ UNCHANGED <<sendQ, accepted, writer, current>>
  BY DEF Start, C!Call, C!writerVars
<1>2. \/ /\ call' = [call EXCEPT ![c] = "idle"]
         /\ outcome' = [outcome EXCEPT ![c] = "closed"]
      \/ /\ call' = [call EXCEPT ![c] = kind]
         /\ outcome' = outcome
  BY DEF Start, C!Call, C!Return
<1>3. 0 \in Nat
  BY SMT
<1>4. /\ packet' \in [Caller -> Nat] /\ carries' \in [Caller -> Packets]
      /\ packet'[c] = 0 /\ carries'[c] = p
      /\ \A d \in Caller \ {c} : packet'[d] = packet[d] /\ carries'[d] = carries[d]
  BY <1>1, <1>3 DEF Calls
<1>5. /\ call' \in [Caller -> {"idle", "enqueue", "send", "wait", "late", "closing"}]
      /\ DOMAIN outcome' = Caller
      /\ \A d \in Caller \ {c} : call'[d] = call[d] /\ outcome'[d] = outcome[d]
  BY <1>2 DEF Calls
<1>6. \/ call'[c] = "idle" /\ outcome'[c] = "closed"
      \/ call'[c] = kind
  BY <1>2 DEF Calls
<1> QED  BY <1>1, <1>4, <1>5, <1>6

\* The beginning of a Close leaves everything else alone.
LEMMA CloseEffect ==
  ASSUME Calls, NEW c \in Caller, CloseBy(c)
  PROVE  /\ call' \in [Caller -> {"idle", "enqueue", "send", "wait", "late", "closing"}]
         /\ \A d \in Caller : call'[d] = call[d] \/ call'[d] = "closing"
         /\ \A d \in Caller \ {c} : call'[d] = call[d]
         /\ UNCHANGED <<sendQ, accepted, writer, current, packet, outcome>>
<1>1. CASE done
  <2>1. UNCHANGED clientVars
    BY <1>1 DEF CloseBy
  <2> QED  BY <2>1 DEF clientVars, Calls
<1>2. CASE ~done
  <2>1. /\ call' = [call EXCEPT ![c] = "closing"]
        /\ UNCHANGED <<sendQ, accepted, writer, current, packet, outcome>>
    BY <1>2 DEF CloseBy, C!Close, C!writerVars
  <2> QED  BY <2>1 DEF Calls
<1> QED  BY <1>1, <1>2

LEMMA Callers == "handler" \in Caller /\ "consumer" \in Caller /\ "publisher" \in Caller
  /\ \A c \in Caller : c \in {"handler", "consumer", "publisher"}
  /\ "handler" # "consumer" /\ "handler" # "publisher" /\ "consumer" # "publisher"
BY DEF Caller

\* A step of goroutine c keeps Calls when it keeps what Calls says of c.
LEMMA CallsBy ==
  ASSUME Calls, NEW c \in Caller,
         call' \in [Caller -> {"idle", "enqueue", "send", "wait", "late", "closing"}],
         packet' \in [Caller -> Nat], DOMAIN outcome' = Caller,
         carries' \in [Caller -> Packets],
         \A d \in Caller \ {c} :
           /\ call'[d] = call[d] /\ packet'[d] = packet[d]
           /\ outcome'[d] = outcome[d] /\ carries'[d] = carries[d],
         c # "consumer" => consumer' = consumer,
         c # "handler" => handler' = handler /\ subscribes' = subscribes,
         c # "publisher" => publisher' = publisher,
         call'[c] = "send" => packet'[c] = 0,
         call'[c] \in {"wait", "late"} => packet'[c] # 0,
         c = "consumer" =>
           /\ consumer' = "send" => SendCall("consumer")'
           /\ Unsent' => consumer' \in {"send", "exited"}
           /\ call'["consumer"] \in {"enqueue", "send"} =>
                call'["consumer"] = "send" /\ Unsent',
         c = "handler" =>
           /\ handler' \in {"connackSent", "subackSent"} => SendCall("handler")'
           /\ handler' = "connackSent" => carries'["handler"] = Connack
           /\ handler' = "subackSent" => carries'["handler"] = Suback(subscribes')
           /\ call'["handler"] = "send" => handler' \in {"connackSent", "subackSent"}
           /\ call'["handler"] = "enqueue" =>
                handler' = "retained" /\ carries'["handler"] = QoS0,
         c = "publisher" =>
           (call'["publisher"] \in {"enqueue", "send"} =>
              publisher' = "sending" /\ carries'["publisher"] = QoS0)
  PROVE  Calls'
<1>1. ASSUME NEW d \in Caller, d # c
      PROVE  /\ call'[d] = call[d] /\ packet'[d] = packet[d]
             /\ outcome'[d] = outcome[d] /\ carries'[d] = carries[d]
             /\ SendCall(d)' <=> SendCall(d)
  <2>1. /\ call'[d] = call[d] /\ packet'[d] = packet[d]
        /\ outcome'[d] = outcome[d] /\ carries'[d] = carries[d]
    BY <1>1
  <2> QED  BY <2>1 DEF SendCall
<1>2. /\ \A d \in Caller : call'[d] = "send" => packet'[d] = 0
      /\ \A d \in Caller : call'[d] \in {"wait", "late"} => packet'[d] # 0
  <2> SUFFICES ASSUME NEW d \in Caller
               PROVE  /\ call'[d] = "send" => packet'[d] = 0
                      /\ call'[d] \in {"wait", "late"} => packet'[d] # 0
    OBVIOUS
  <2>1. CASE d = c
    BY <2>1
  <2>2. CASE d # c
    BY <1>1, <2>2 DEF Calls
  <2> QED  BY <2>1, <2>2
<1>3. /\ consumer' = "send" => SendCall("consumer")'
      /\ Unsent' => consumer' \in {"send", "exited"}
      /\ call'["consumer"] \in {"enqueue", "send"} =>
           call'["consumer"] = "send" /\ Unsent'
  <2>1. CASE c = "consumer"
    BY <2>1
  <2>2. CASE c # "consumer"
    <3>1. /\ call'["consumer"] = call["consumer"]
          /\ packet'["consumer"] = packet["consumer"]
          /\ carries'["consumer"] = carries["consumer"]
          /\ SendCall("consumer")' <=> SendCall("consumer")
      BY <1>1, <2>2, Callers
    <3>2. Unsent' <=> Unsent
      BY <3>1 DEF Unsent
    <3> QED  BY <2>2, <3>1, <3>2 DEF Calls
  <2> QED  BY <2>1, <2>2
<1>4. /\ handler' \in {"connackSent", "subackSent"} => SendCall("handler")'
      /\ handler' = "connackSent" => carries'["handler"] = Connack
      /\ handler' = "subackSent" => carries'["handler"] = Suback(subscribes')
      /\ call'["handler"] = "send" => handler' \in {"connackSent", "subackSent"}
      /\ call'["handler"] = "enqueue" => handler' = "retained" /\ carries'["handler"] = QoS0
  <2>1. CASE c = "handler"
    BY <2>1
  <2>2. CASE c # "handler"
    BY <1>1, <2>2, Callers DEF Calls
  <2> QED  BY <2>1, <2>2
<1>5. call'["publisher"] \in {"enqueue", "send"} =>
        publisher' = "sending" /\ carries'["publisher"] = QoS0
  <2>1. CASE c = "publisher"
    BY <2>1
  <2>2. CASE c # "publisher"
    BY <1>1, <2>2, Callers DEF Calls
  <2> QED  BY <2>1, <2>2
<1> QED  BY <1>2, <1>3, <1>4, <1>5 DEF Calls

\* SendConnack, SendSuback and the Enqueue of a retained message.
LEMMA HandlerStarts ==
  ASSUME DeliveryInv,
         \/ SendConnack \/ SendSuback
         \/ SendRetained /\ Start("handler", "enqueue", QoS0) /\ UNCHANGED <<s, admitted>>
  PROVE  DeliveryInv'
<1> USE DEF DeliveryInv
<1>1. \E p \in {Connack, Suback(subscribes), QoS0}, kind \in {"enqueue", "send"} :
        /\ Start("handler", kind, p)
        /\ \/ /\ p = Connack /\ kind = "send"
              /\ handler = "connack" /\ handler' = "connackSent"
           \/ /\ p = Suback(subscribes) /\ kind = "send"
              /\ handler = "subscribed" /\ handler' = "subackSent"
           \/ /\ p = QoS0 /\ kind = "enqueue"
              /\ handler \in {"subackSent", "retained"} /\ handler' = "retained"
              /\ Succeeded("handler")
  BY DEF SendConnack, SendSuback, SendRetained, HandlerSends
<1>2. PICK p \in {Connack, Suback(subscribes), QoS0}, kind \in {"enqueue", "send"} :
        /\ Start("handler", kind, p)
        /\ \/ /\ p = Connack /\ kind = "send"
              /\ handler = "connack" /\ handler' = "connackSent"
           \/ /\ p = Suback(subscribes) /\ kind = "send"
              /\ handler = "subscribed" /\ handler' = "subackSent"
           \/ /\ p = QoS0 /\ kind = "enqueue"
              /\ handler \in {"subackSent", "retained"} /\ handler' = "retained"
              /\ Succeeded("handler")
  BY <1>1
<1>3. UNCHANGED <<s, conn, consumer, epoch, publisher, ready, content, peerVars,
                  admitted, subscribes, mark>>
  BY DEF SendConnack, SendSuback, SendRetained, countVars
<1>4. /\ call' \in [Caller -> {"idle", "enqueue", "send", "wait", "late", "closing"}]
      /\ packet' \in [Caller -> Nat] /\ DOMAIN outcome' = Caller
      /\ carries' \in [Caller -> Packets]
      /\ call["handler"] = "idle" /\ packet'["handler"] = 0 /\ carries'["handler"] = p
      /\ \/ call'["handler"] = "idle" /\ outcome'["handler"] = "closed"
         \/ call'["handler"] = kind
      /\ \A d \in Caller \ {"handler"} :
           /\ call'[d] = call[d] /\ packet'[d] = packet[d]
           /\ outcome'[d] = outcome[d] /\ carries'[d] = carries[d]
      /\ UNCHANGED <<sendQ, accepted, writer, current>>
  <2>1. p \in Packets
    <3>1. subscribes \in Nat
      BY DEF Sess
    <3> QED  BY <3>1, PacketKinds
  <2> QED  BY <1>2, <2>1, Callers, StartEffect
<1>5. \A d \in {"consumer", "publisher"} :
        /\ call'[d] = call[d] /\ packet'[d] = packet[d]
        /\ outcome'[d] = outcome[d] /\ carries'[d] = carries[d]
  <2>1. \A d \in {"consumer", "publisher"} : d \in Caller \ {"handler"}
    BY Callers
  <2>2. \A d \in Caller \ {"handler"} :
          /\ call'[d] = call[d] /\ packet'[d] = packet[d]
          /\ outcome'[d] = outcome[d] /\ carries'[d] = carries[d]
    BY <1>4
  <2> QED  BY <2>1, <2>2
<1>6. /\ content' = content /\ received' = received /\ acked' = acked /\ past' = past
      /\ conn' = conn /\ admitted' = admitted /\ s' = s /\ consumer' = consumer
      /\ epoch' = epoch /\ publisher' = publisher /\ ready' = ready /\ mark' = mark
      /\ subscribes' = subscribes
  BY <1>3 DEF peerVars
<1>7. Aside
  BY <1>4, <1>5, <1>6 DEF Aside
<1>8. ClientOrder' /\ Flow' /\ Peer' /\ History'
  BY <1>7, AsideKeeps
<1>9. Sess'
  <2>1. handler' \in {"connack", "connackSent", "begin"} => handler = "connack"
    BY <1>2
  <2>2. handler' \in {"connack", "connackSent", "begin"} => consumer' = "off"
    BY <1>6, <2>1 DEF Sess
  <2>3. mark' \in Int /\ subscribes' \in Nat
    BY <1>6 DEF Sess
  <2> QED  BY <1>6, <2>2, <2>3, SessQuiet
<1>10. Calls'
  <2>1. /\ handler' \in {"connackSent", "subackSent"} => SendCall("handler")'
        /\ handler' = "connackSent" => carries'["handler"] = Connack
        /\ handler' = "subackSent" => carries'["handler"] = Suback(subscribes')
        /\ call'["handler"] = "send" => handler' \in {"connackSent", "subackSent"}
        /\ call'["handler"] = "enqueue" => handler' = "retained" /\ carries'["handler"] = QoS0
    <3>1. call'["handler"] = "send" => kind = "send"
      BY <1>4
    <3>2. call'["handler"] = "enqueue" => kind = "enqueue"
      BY <1>4
    <3>3. kind = "send" => SendCall("handler")'
      BY <1>4 DEF SendCall
    <3> QED  BY <1>2, <1>4, <1>6, <3>1, <3>2, <3>3
  <2>2. call'["handler"] \notin {"wait", "late"}
    BY <1>4
  <2> QED  BY <1>4, <1>6, <2>1, <2>2, Callers, CallsBy
<1>11. Reply'
  <2>1. Outgoing' = Outgoing /\ \A k : IsPub(k)' <=> IsPub(k)
    BY <1>5, <1>6, SameOutgoing
  <2>2. CASE handler = "connack"
    <3>1. handler' = "connackSent"
      BY <1>2, <2>2
    <3>2. mark' = -1 /\ content' = <<>> /\ ~ready'
      BY <1>6, <2>2 DEF Reply
    <3> QED  BY <1>4, <1>6, <2>2, <3>1, <3>2 DEF Reply
  <2>3. CASE handler = "subscribed"
    <3>1. handler' = "subackSent"
      BY <1>2, <2>3
    <3>2. AwaitsSuback /\ AwaitsSuback' /\ ~Leaving
      BY <1>4, <2>3, <3>1 DEF AwaitsSuback, Leaving
    <3> QED  BY <1>6, <2>1, <2>3, <3>1, <3>2 DEF Reply
  <2>4. CASE handler = "subackSent"
    <3>1. handler' = "retained" /\ Succeeded("handler")
      BY <1>2, <2>4
    <3>2. packet["handler"] # 0
      BY <2>4, <3>1 DEF Succeeded, Returned, Calls, SendCall
    <3>3. ~AwaitsSuback /\ ~AwaitsSuback' /\ ~Leaving
      BY <2>4, <3>1, <3>2 DEF AwaitsSuback, Leaving
    <3> QED  BY <1>6, <2>1, <2>4, <3>1, <3>3 DEF Reply
  <2>5. CASE handler = "retained"
    <3>1. handler' = handler
      BY <1>2, <2>5
    <3>2. ~AwaitsSuback /\ ~AwaitsSuback' /\ ~Leaving
      BY <2>5, <3>1 DEF AwaitsSuback, Leaving
    <3> QED  BY <1>6, <2>1, <2>5, <3>1, <3>2 DEF Reply
  <2> QED  BY <1>2, <2>2, <2>3, <2>4, <2>5
<1> QED  BY <1>8, <1>9, <1>10, <1>11

\* The Enqueue of a live QoS 0 message.
LEMMA PublisherStarts ==
  ASSUME DeliveryInv, EnqueueLive
  PROVE  DeliveryInv'
<1> USE DEF DeliveryInv
<1>1. Start("publisher", "enqueue", QoS0) /\ publisher' = "sending" /\ ready
  BY DEF EnqueueLive
<1>2. /\ s' = s /\ conn' = conn /\ handler' = handler /\ consumer' = consumer
      /\ epoch' = epoch /\ ready' = ready /\ content' = content /\ received' = received
      /\ acked' = acked /\ past' = past /\ admitted' = admitted /\ mark' = mark
      /\ subscribes' = subscribes
  BY DEF EnqueueLive, peerVars
<1>3. /\ call' \in [Caller -> {"idle", "enqueue", "send", "wait", "late", "closing"}]
      /\ packet' \in [Caller -> Nat] /\ DOMAIN outcome' = Caller
      /\ carries' \in [Caller -> Packets]
      /\ packet'["publisher"] = 0 /\ carries'["publisher"] = QoS0
      /\ call'["publisher"] \in {"idle", "enqueue"}
      /\ \A d \in Caller \ {"publisher"} :
           /\ call'[d] = call[d] /\ packet'[d] = packet[d]
           /\ outcome'[d] = outcome[d] /\ carries'[d] = carries[d]
      /\ UNCHANGED <<sendQ, accepted, writer, current>>
  <2>1. QoS0 \in Packets
    BY PacketKinds
  <2> QED  BY <1>1, <2>1, Callers, StartEffect
<1>4. /\ packet'["consumer"] = packet["consumer"] /\ packet'["handler"] = packet["handler"]
      /\ carries'["consumer"] = carries["consumer"]
  BY <1>3, Callers
<1>5. Aside
  BY <1>2, <1>3, <1>4 DEF Aside
<1>6. ClientOrder' /\ Flow' /\ Peer' /\ History'
  BY <1>5, AsideKeeps
<1>7. Sess'
  <2>1. /\ mark' \in Int /\ subscribes' \in Nat
        /\ handler' \in {"connack", "connackSent", "begin"} => consumer' = "off"
    BY <1>2 DEF Sess
  <2> QED  BY <1>2, <2>1, SessQuiet
<1>8. Calls'
  <2>1. call'["publisher"] \notin {"send", "wait", "late"}
    BY <1>3
  <2> QED  BY <1>1, <1>2, <1>3, <2>1, Callers, CallsBy
<1>9. Reply'
  <2>1. Outgoing' = Outgoing /\ \A k : IsPub(k)' <=> IsPub(k)
    BY <1>2, <1>4, SameOutgoing
  <2>2. (Leaving' <=> Leaving) /\ (AwaitsSuback' <=> AwaitsSuback)
    BY <1>2, <1>4 DEF Leaving, AwaitsSuback
  <2> QED  BY <1>1, <1>2, <1>4, <2>1, <2>2 DEF Reply
<1> QED  BY <1>6, <1>7, <1>8, <1>9

\* client.Close by the consumer, the handler or the publisher.
LEMMA Closes ==
  ASSUME DeliveryInv,
         \/ ConsumerSent /\ ~Succeeded("consumer")
         \/ CloseClient
         \/ EnqueuedLive /\ ~Succeeded("publisher")
  PROVE  DeliveryInv'
<1> USE DEF DeliveryInv
<1>1. PICK c \in Caller :
        /\ CloseBy(c)
        /\ \/ /\ c = "consumer" /\ Failed(c) /\ consumer = "send" /\ consumer' = "exited"
              /\ handler' = handler /\ publisher' = publisher
           \/ /\ c = "handler" /\ handler = "closeClient" /\ handler' = "drain"
              /\ consumer' = consumer /\ publisher' = publisher
           \/ /\ c = "publisher" /\ Failed(c) /\ publisher' = "closing"
              /\ consumer' = consumer /\ handler' = handler
  <2>1. CASE ConsumerSent /\ ~Succeeded("consumer")
    BY <2>1, Callers DEF ConsumerSent
  <2>2. CASE CloseClient
    BY <2>2, Callers DEF CloseClient
  <2>3. CASE EnqueuedLive /\ ~Succeeded("publisher")
    BY <2>3, Callers DEF EnqueuedLive
  <2> QED  BY <2>1, <2>2, <2>3
<1>2. /\ s' = s /\ conn' = conn /\ epoch' = epoch /\ ready' = ready /\ content' = content
      /\ received' = received /\ acked' = acked /\ past' = past /\ admitted' = admitted
      /\ mark' = mark /\ subscribes' = subscribes /\ carries' = carries
  BY DEF ConsumerSent, CloseClient, EnqueuedLive, peerVars, countVars
<1>3. /\ call' \in [Caller -> {"idle", "enqueue", "send", "wait", "late", "closing"}]
      /\ \A d \in Caller : call'[d] = call[d] \/ call'[d] = "closing"
      /\ \A d \in Caller \ {c} : call'[d] = call[d]
      /\ UNCHANGED <<sendQ, accepted, writer, current, packet, outcome>>
  BY <1>1, CloseEffect
<1>4. packet' = packet /\ outcome' = outcome
  BY <1>3
<1>5. consumer' = "off" <=> consumer = "off"
  BY <1>1
<1>6. Aside
  BY <1>2, <1>3, <1>4, <1>5 DEF Aside
<1>7. ClientOrder' /\ Flow' /\ Peer' /\ History'
  BY <1>6, AsideKeeps
<1>8. Sess'
  <2>1. handler' \in {"connack", "connackSent", "begin"} => handler' = handler
    BY <1>1
  <2>2. /\ mark' \in Int /\ subscribes' \in Nat
        /\ handler' \in {"connack", "connackSent", "begin"} => consumer' = "off"
    BY <1>2, <1>5, <2>1 DEF Sess
  <2> QED  BY <1>2, <1>5, <2>2, SessQuiet
<1>9. Calls'
  <2>1. call'[c] \notin {"enqueue", "send"}
    <3>1. call[c] \notin {"enqueue", "send"}
      BY <1>1 DEF Failed, Returned, Calls
    <3> QED  BY <1>3, <3>1
  <2>2. call'[c] \in {"wait", "late"} => packet'[c] # 0
    BY <1>3, <1>4 DEF Calls
  <2>3. packet' \in [Caller -> Nat] /\ DOMAIN outcome' = Caller /\ carries' \in [Caller -> Packets]
    BY <1>2, <1>4 DEF Calls
  <2>4. c = "handler" => handler' \notin {"connackSent", "subackSent"}
    BY <1>1
  <2>5. c = "consumer" => consumer' = "exited"
    BY <1>1
  <2>6. /\ c # "consumer" => consumer' = consumer
        /\ c # "handler" => handler' = handler /\ subscribes' = subscribes
        /\ c # "publisher" => publisher' = publisher
    BY <1>1, <1>2
  <2>7. \A d \in Caller \ {c} :
           /\ call'[d] = call[d] /\ packet'[d] = packet[d]
           /\ outcome'[d] = outcome[d] /\ carries'[d] = carries[d]
    BY <1>2, <1>3, <1>4
  <2> QED  BY <1>3, <2>1, <2>2, <2>3, <2>4, <2>5, <2>6, <2>7, CallsBy
<1>10. Reply'
  <2>1. Outgoing' = Outgoing /\ \A k : IsPub(k)' <=> IsPub(k)
    BY <1>6, AsideOutgoing
  <2>2. handler' = handler \/ (Leaving' /\ Leaving)
    BY <1>1 DEF Leaving
  <2>3. handler' = handler => (Leaving' <=> Leaving) /\ (AwaitsSuback' <=> AwaitsSuback)
    BY <1>4 DEF Leaving, AwaitsSuback
  <2>4. handler' = handler \/ handler' = "drain"
    BY <1>1
  <2>5. publisher' = "sending" => publisher = "sending"
    BY <1>1
  <2> QED  BY <1>2, <1>4, <1>5, <2>1, <2>2, <2>3, <2>4, <2>5 DEF Reply
<1> QED  BY <1>7, <1>8, <1>9, <1>10

(***************************************************************************)
(* Steps within Send, Enqueue and Close.                                   *)
(***************************************************************************)

\* A step by which no packet is accepted.
LEMMA ProceedIdle ==
  ASSUME DeliveryInv, NEW c \in Caller, ClientStep(c), accepted' = accepted
  PROVE  DeliveryInv'
<1> USE DEF DeliveryInv
<1>1. /\ s' = s /\ conn' = conn /\ epoch' = epoch /\ ready' = ready /\ content' = content
      /\ received' = received /\ acked' = acked /\ past' = past /\ admitted' = admitted
      /\ mark' = mark
      /\ subscribes' = subscribes /\ carries' = carries /\ handler' = handler
      /\ consumer' = consumer /\ publisher' = publisher
  BY DEF ClientStep, peerVars, countVars
<1>2. accepted \in Nat /\ accepted + 1 # accepted
  <2>1. accepted \in Nat
    BY DEF ClientOrder
  <2> QED  BY <2>1, SMT
<1>3. /\ UNCHANGED <<sendQ, writer, current, packet>>
      /\ \/ /\ call[c] \in {"enqueue", "send"} /\ call' = [call EXCEPT ![c] = "idle"]
            /\ \/ outcome' = [outcome EXCEPT ![c] = "closed"]
               \/ outcome' = [outcome EXCEPT ![c] = "full"]
         \/ /\ call[c] \in {"wait", "late"} /\ call' = [call EXCEPT ![c] = "idle"]
            /\ \E v : outcome' = [outcome EXCEPT ![c] = v]
         \/ /\ call[c] = "wait" /\ call' = [call EXCEPT ![c] = "late"]
            /\ outcome' = outcome
         \/ /\ call[c] = "closing" /\ call' = [call EXCEPT ![c] = "idle"]
            /\ outcome' = outcome
  <2>1. C!Proceed(c)
    BY DEF ClientStep
  <2>2. CASE C!Offer(c)
    BY <1>2, <2>2 DEF C!Offer, C!Return, C!writerVars
  <2>3. CASE C!Await(c)
    BY <2>3 DEF C!Await, C!Return, C!writerVars
  <2>4. CASE C!LastLook(c)
    BY <2>4 DEF C!LastLook, C!Return, C!writerVars
  <2>5. CASE C!CloseConn(c)
    BY <2>5 DEF C!CloseConn, C!writerVars
  <2> QED  BY <2>1, <2>2, <2>3, <2>4, <2>5 DEF C!Proceed
<1>4. packet' = packet /\ sendQ' = sendQ /\ writer' = writer /\ current' = current
  BY <1>3
<1>5. /\ call' \in [Caller -> {"idle", "enqueue", "send", "wait", "late", "closing"}]
      /\ DOMAIN outcome' = Caller
      /\ \A d \in Caller \ {c} : call'[d] = call[d] /\ outcome'[d] = outcome[d]
  BY <1>3 DEF Calls
<1>6. /\ call'[c] \in {"idle", "late"}
      /\ call'[c] = "late" => call[c] = "wait"
  BY <1>3 DEF Calls
<1>7. SendCall(c) /\ call[c] # "enqueue" => SendCall(c)'
  <2> SUFFICES ASSUME SendCall(c) PROVE SendCall(c)'
    OBVIOUS
  <2>1. CASE call[c] \in {"enqueue", "send"}
    <3>1. call'[c] = "idle" /\ outcome'[c] \in {"closed", "full"}
      BY <1>3, <2>1 DEF Calls
    <3> QED  BY <3>1 DEF SendCall
  <2>2. CASE call[c] \in {"wait", "late"}
    <3>1. packet'[c] # 0
      BY <1>4, <2>2 DEF Calls
    <3> QED  BY <1>6, <3>1 DEF SendCall
  <2> QED  BY <1>3, <2>1, <2>2 DEF SendCall
<1>8. Aside
  BY <1>1, <1>4 DEF Aside
<1>9. ClientOrder' /\ Flow' /\ Peer' /\ History'
  BY <1>8, AsideKeeps
<1>10. Sess'
  <2>1. /\ mark' \in Int /\ subscribes' \in Nat
        /\ handler' \in {"connack", "connackSent", "begin"} => consumer' = "off"
    BY <1>1 DEF Sess
  <2> QED  BY <1>1, <2>1, SessQuiet
<1>11. Calls'
  <2>1. call'[c] \notin {"enqueue", "send", "wait"}
    BY <1>6
  <2>2. call'[c] \in {"wait", "late"} => packet'[c] # 0
    BY <1>4, <1>6 DEF Calls
  <2>3. packet' \in [Caller -> Nat] /\ carries' \in [Caller -> Packets]
    BY <1>1, <1>4 DEF Calls
  <2>4. \A d \in Caller \ {c} :
           /\ call'[d] = call[d] /\ packet'[d] = packet[d]
           /\ outcome'[d] = outcome[d] /\ carries'[d] = carries[d]
    BY <1>1, <1>4, <1>5
  <2>5. c = "consumer" =>
           /\ consumer' = "send" => SendCall("consumer")'
           /\ Unsent' => consumer' \in {"send", "exited"}
    <3>1. call["consumer"] # "enqueue"
      BY DEF Calls
    <3>2. Unsent' <=> Unsent
      BY <1>1, <1>4 DEF Unsent
    <3> QED  BY <1>1, <1>7, <3>1, <3>2 DEF Calls
  <2>6. c = "handler" =>
           /\ handler' \in {"connackSent", "subackSent"} => SendCall("handler")'
           /\ handler' = "connackSent" => carries'["handler"] = Connack
           /\ handler' = "subackSent" => carries'["handler"] = Suback(subscribes')
    <3>1. handler \in {"connackSent", "subackSent"} => call["handler"] # "enqueue"
      BY DEF Calls
    <3> QED  BY <1>1, <1>7, <3>1 DEF Calls
  <2> QED  BY <1>1, <1>5, <2>1, <2>2, <2>3, <2>4, <2>5, <2>6, CallsBy
<1>12. Reply'
  <2>1. Outgoing' = Outgoing /\ \A k : IsPub(k)' <=> IsPub(k)
    BY <1>8, AsideOutgoing
  <2>2. (Leaving' <=> Leaving) /\ (AwaitsSuback' <=> AwaitsSuback)
    BY <1>1, <1>4 DEF Leaving, AwaitsSuback
  <2> QED  BY <1>1, <1>4, <2>1, <2>2 DEF Reply
<1> QED  BY <1>9, <1>10, <1>11, <1>12

\* The queue takes one more packet.
LEMMA OfferOrder ==
  ASSUME ClientOrder, NEW p \in Packets, accepted' = accepted + 1,
         sendQ' = Append(sendQ, accepted'), content' = Append(content, p),
         writer' = writer, current' = current
  PROVE  ClientOrder' /\ Taken' = Taken /\ Written' = Written
<1>1. /\ sendQ \in Seq(Nat) /\ accepted \in Nat /\ content \in Seq(Packets)
      /\ accepted = Len(content) /\ Len(sendQ) <= accepted
      /\ \A i \in 1 .. Len(sendQ) : sendQ[i] = accepted - Len(sendQ) + i
  BY DEF ClientOrder, Taken
<1>2. accepted' \in Nat /\ Len(sendQ) \in Nat
  BY <1>1, SMT
<1>3. /\ sendQ' \in Seq(Nat) /\ Len(sendQ') = Len(sendQ) + 1
      /\ \A i \in 1 .. Len(sendQ) : sendQ'[i] = sendQ[i]
      /\ sendQ'[Len(sendQ) + 1] = accepted'
  BY <1>1, <1>2, Appended, SMT
<1>4. content' \in Seq(Packets) /\ Len(content') = Len(content) + 1
  BY <1>1, Appended
<1>5. Taken' = Taken /\ Len(sendQ') <= accepted' /\ accepted' = Len(content')
  BY <1>1, <1>2, <1>3, <1>4, SMT DEF Taken
<1>6. Written' = Written
  BY <1>5 DEF Written
<1>7. \A i \in 1 .. Len(sendQ') : sendQ'[i] = Taken' + i
  <2> SUFFICES ASSUME NEW i \in 1 .. Len(sendQ') PROVE sendQ'[i] = Taken + i
    BY <1>5
  <2>1. CASE i = Len(sendQ) + 1
    <3>1. Taken + i = accepted'
      BY <1>1, <1>2, <2>1, SMT DEF Taken
    <3> QED  BY <1>3, <2>1, <3>1
  <2>2. CASE i # Len(sendQ) + 1
    <3>1. i \in 1 .. Len(sendQ)
      BY <1>2, <1>3, <2>2, SMT
    <3> QED  BY <1>3, <3>1 DEF ClientOrder
  <2> QED  BY <2>1, <2>2
<1> QED  BY <1>2, <1>3, <1>4, <1>5, <1>6, <1>7 DEF ClientOrder

\* What accepting a packet means for the publishes: only the consumer's are some.
LEMMA OfferOutgoing ==
  ASSUME DeliveryInv, NEW c \in Caller, call[c] \in {"enqueue", "send"},
         content' = Append(content, carries[c]), carries' = carries,
         IF c = "consumer" THEN packet'[c] # 0
         ELSE packet'["consumer"] = packet["consumer"]
  PROVE  /\ Outgoing' = Outgoing
         /\ Len(content') = Len(content) + 1
         /\ \A k \in 1 .. Len(content) : content'[k] = content[k]
         /\ content'[Len(content) + 1] = carries[c]
         /\ \A k \in 1 .. Len(content) : IsPub(k)' <=> IsPub(k)
         /\ carries[c].kind = "publish" <=> c = "consumer"
         /\ c = "consumer" => Unsent /\ ~Unsent'
         /\ c # "consumer" => (Unsent' <=> Unsent)
         /\ \A k : IsPub(k)' => k \in 1 .. Len(content) \/ (k = Len(content) + 1 /\ c = "consumer")
<1>1. content \in Seq(Packets) /\ carries[c] \in Packets /\ Len(content) \in Nat
  BY SMT DEF DeliveryInv, ClientOrder, Calls
<1>2. /\ Len(content') = Len(content) + 1
      /\ \A k \in 1 .. Len(content) : content'[k] = content[k]
      /\ content'[Len(content) + 1] = carries[c]
  BY <1>1, Appended, SMT
<1>3. /\ carries[c].kind = "publish" <=> c = "consumer"
      /\ c = "consumer" => Unsent
  <2>1. CASE c = "consumer"
    BY <2>1 DEF DeliveryInv, Calls, Unsent
  <2>2. CASE c = "publisher"
    BY <2>2, PacketKinds DEF DeliveryInv, Calls
  <2>3. CASE c = "handler"
    BY <2>3, PacketKinds DEF DeliveryInv, Calls
  <2> QED  BY <2>1, <2>2, <2>3, Callers
<1>4. /\ c = "consumer" => ~Unsent'
      /\ c # "consumer" => (Unsent' <=> Unsent)
  BY DEF Unsent
<1>5. /\ \A k : k \in 1 .. Len(content') <=>
                 k \in 1 .. Len(content) \/ k = Len(content) + 1
      /\ Len(content) + 1 \notin 1 .. Len(content)
  BY <1>1, <1>2, SMT
<1>6. /\ \A k \in 1 .. Len(content) : IsPub(k)' <=> IsPub(k)
      /\ \A k : IsPub(k)' => k \in 1 .. Len(content) \/ (k = Len(content) + 1 /\ c = "consumer")
  BY <1>2, <1>3, <1>5 DEF IsPub
<1>7. Outgoing' = Outgoing
  <2>1. ASSUME NEW x \in Outgoing' PROVE x \in Outgoing
    <3>1. CASE Unsent' /\ x = carries["consumer"]
      BY <1>3, <1>4, <3>1 DEF Outgoing
    <3>2. CASE \E k \in 1 .. Len(content') : content'[k].kind = "publish" /\ x = content'[k]
      <4>1. PICK k \in 1 .. Len(content') : content'[k].kind = "publish" /\ x = content'[k]
        BY <3>2
      <4>2. CASE k \in 1 .. Len(content)
        BY <1>2, <4>1, <4>2 DEF Outgoing
      <4>3. CASE k = Len(content) + 1
        BY <1>2, <1>3, <4>1, <4>3 DEF Outgoing
      <4> QED  BY <1>5, <4>2, <4>3
    <3> QED  BY <2>1, <3>1, <3>2 DEF Outgoing
  <2>2. ASSUME NEW x \in Outgoing PROVE x \in Outgoing'
    <3>1. CASE Unsent /\ x = carries["consumer"]
      <4>1. CASE c = "consumer"
        <5>1. content'[Len(content) + 1] = x /\ x.kind = "publish"
          BY <1>2, <3>1, <4>1 DEF Unsent
        <5> QED  BY <1>5, <5>1 DEF Outgoing
      <4>2. CASE c # "consumer"
        BY <1>4, <3>1, <4>2 DEF Outgoing
      <4> QED  BY <4>1, <4>2
    <3>2. CASE \E k \in 1 .. Len(content) : content[k].kind = "publish" /\ x = content[k]
      BY <1>2, <1>5, <3>2 DEF Outgoing
    <3> QED  BY <2>2, <3>1, <3>2 DEF Outgoing
  <2> QED  BY <2>1, <2>2
<1> QED  BY <1>2, <1>3, <1>4, <1>6, <1>7

\* The step by which the packet of goroutine c is accepted.
LEMMA ProceedAccepts ==
  ASSUME DeliveryInv, NEW c \in Caller, ClientStep(c), accepted' # accepted
  PROVE  DeliveryInv'
<1>1. ClientOrder /\ Calls /\ Sess /\ Flow /\ Peer /\ History /\ Reply
  BY DEF DeliveryInv
<1>2. /\ s' = s /\ conn' = conn /\ epoch' = epoch /\ ready' = ready
      /\ received' = received /\ acked' = acked /\ past' = past /\ admitted' = admitted
      /\ mark' = mark
      /\ subscribes' = subscribes /\ carries' = carries /\ handler' = handler
      /\ consumer' = consumer /\ publisher' = publisher
      /\ content' = Append(content, carries[c])
  BY DEF ClientStep, peerVars, countVars
<1>3. C!Offer(c) /\ accepted' = accepted + 1
  BY DEF ClientStep, C!Proceed, C!Offer, C!Await, C!LastLook, C!CloseConn
<1>4. /\ call[c] \in {"enqueue", "send"} /\ sendQ' = Append(sendQ, accepted')
      /\ writer' = writer /\ current' = current
      /\ \/ /\ call[c] = "enqueue" /\ packet' = packet
            /\ call' = [call EXCEPT ![c] = "idle"]
            /\ outcome' = [outcome EXCEPT ![c] = "ok"]
         \/ /\ call[c] = "send" /\ packet' = [packet EXCEPT ![c] = accepted']
            /\ call' = [call EXCEPT ![c] = "wait"] /\ outcome' = outcome
  BY <1>3 DEF C!Offer, C!Return, C!writerVars
<1>5. accepted' \in Nat /\ accepted' # 0 /\ Len(content) \in Nat
  <2>1. accepted \in Nat /\ content \in Seq(Packets)
    BY <1>1 DEF ClientOrder
  <2> QED  BY <1>3, <2>1, SMT
<1>6. /\ call' \in [Caller -> {"idle", "enqueue", "send", "wait", "late", "closing"}]
      /\ packet' \in [Caller -> Nat] /\ DOMAIN outcome' = Caller
      /\ \A d \in Caller \ {c} :
           call'[d] = call[d] /\ packet'[d] = packet[d] /\ outcome'[d] = outcome[d]
      /\ call[c] = "send" => call'[c] = "wait" /\ packet'[c] # 0
      /\ call[c] = "enqueue" => call'[c] = "idle" /\ packet'[c] = packet[c]
  BY <1>1, <1>4, <1>5 DEF Calls
<1>7. c = "consumer" => call[c] = "send"
  BY <1>1, <1>4 DEF Calls
<1>8. /\ Outgoing' = Outgoing
      /\ Len(content') = Len(content) + 1
      /\ \A k \in 1 .. Len(content) : content'[k] = content[k]
      /\ content'[Len(content) + 1] = carries[c]
      /\ \A k \in 1 .. Len(content) : IsPub(k)' <=> IsPub(k)
      /\ carries[c].kind = "publish" <=> c = "consumer"
      /\ c = "consumer" => Unsent /\ ~Unsent'
      /\ c # "consumer" => (Unsent' <=> Unsent)
      /\ \A k : IsPub(k)' => k \in 1 .. Len(content) \/ (k = Len(content) + 1 /\ c = "consumer")
  <2>1. IF c = "consumer" THEN packet'[c] # 0 ELSE packet'["consumer"] = packet["consumer"]
    BY <1>6, <1>7, Callers
  <2> QED  BY <1>2, <1>4, <2>1, OfferOutgoing
<1>9. /\ \A k : k \in 1 .. Len(content') <=> k \in 1 .. Len(content) \/ k = Len(content) + 1
      /\ \A k \in 1 .. Len(content) : k < Len(content) + 1 /\ ~(Len(content) + 1 < k)
      /\ ~(Len(content) + 1 < Len(content) + 1)
  BY <1>5, <1>8, SMT
<1>10. ClientOrder' /\ Taken' = Taken /\ Written' = Written
  <2>1. carries[c] \in Packets
    BY <1>1 DEF Calls
  <2> QED  BY <1>1, <1>2, <1>3, <1>4, <2>1, OfferOrder
<1>11. Calls'
  <2>1. call'[c] \in {"idle", "wait"} /\ (call'[c] = "wait" => packet'[c] # 0)
    BY <1>4, <1>6
  <2>2. \A d \in Caller \ {c} :
           /\ call'[d] = call[d] /\ packet'[d] = packet[d]
           /\ outcome'[d] = outcome[d] /\ carries'[d] = carries[d]
    BY <1>2, <1>6
  <2>3. call'[c] = "wait" => SendCall(c)'
    BY DEF SendCall
  <2>4. c = "consumer" => SendCall("consumer")' /\ ~Unsent'
    BY <1>6, <1>7, <1>8, <2>3
  <2>5. c = "handler" =>
           /\ handler' \in {"connackSent", "subackSent"} => SendCall("handler")'
           /\ handler' = "connackSent" => carries'["handler"] = Connack
           /\ handler' = "subackSent" => carries'["handler"] = Suback(subscribes')
    <3>1. c = "handler" /\ handler \in {"connackSent", "subackSent"} => call[c] = "send"
      BY <1>1, <1>4 DEF Calls
    <3>2. /\ handler = "connackSent" => carries["handler"] = Connack
          /\ handler = "subackSent" => carries["handler"] = Suback(subscribes)
      BY <1>1 DEF Calls
    <3> QED  BY <1>2, <1>6, <2>3, <3>1, <3>2
  <2>6. carries' \in [Caller -> Packets]
    BY <1>1, <1>2 DEF Calls
  <2>7. call'[c] \notin {"enqueue", "send"} /\ (call'[c] \in {"wait", "late"} => packet'[c] # 0)
    BY <2>1
  <2> QED  BY <1>1, <1>2, <1>6, <2>2, <2>4, <2>5, <2>6, <2>7, CallsBy
<1>12. Sess'
  <2>1. /\ mark' \in Int /\ subscribes' \in Nat
        /\ handler' \in {"connack", "connackSent", "begin"} => consumer' = "off"
    BY <1>1, <1>2 DEF Sess
  <2> QED  BY <1>1, <1>2, <2>1, SessQuiet
<1>13. Flow'
  <2>1. ASSUME NEW k \in 1 .. Len(content'), NEW l \in 1 .. Len(content'),
               k < l, IsPub(k)', IsPub(l)'
        PROVE  content'[k].msg < content'[l].msg
    <3>1. CASE l \in 1 .. Len(content)
      <4>1. k \in 1 .. Len(content)
        BY <1>8, <1>9, <2>1, <3>1
      <4> QED  BY <1>1, <1>8, <2>1, <3>1, <4>1 DEF Flow
    <3>2. CASE l = Len(content) + 1 /\ c = "consumer"
      <4>1. k \in 1 .. Len(content)
        BY <1>8, <1>9, <2>1, <3>2
      <4>2. IsPub(k) /\ content'[k] = content[k] /\ content'[l] = carries["consumer"] /\ Unsent
        BY <1>8, <2>1, <3>2, <4>1
      <4> QED  BY <1>1, <4>1, <4>2 DEF Flow
    <3> QED  BY <1>8, <2>1, <3>1, <3>2
  <2>2. ASSUME Unsent', NEW k \in 1 .. Len(content'), IsPub(k)'
        PROVE  content'[k].msg < carries'["consumer"].msg
    <3>1. c # "consumer" /\ Unsent
      BY <1>8, <2>2
    <3>2. k \in 1 .. Len(content) /\ IsPub(k) /\ content'[k] = content[k]
      BY <1>8, <2>2, <3>1
    <3> QED  BY <1>1, <1>2, <3>1, <3>2 DEF Flow
  <2>3. \A p : Tracked(p)' <=> Tracked(p)
    BY <1>2 DEF Tracked
  <2>4. \A m : Answered(m)' <=> Answered(m)
    BY <1>2 DEF Answered
  <2>5. /\ consumer' = "off" => Outgoing' = {}
        /\ \A p \in Outgoing' :
             /\ p.msg <= admitted' /\ (p.dup => conn' > 1)
             /\ Tracked(p)' \/ Answered(p.msg)'
             /\ \A x \in past' : x.msg = p.msg => p.dup
    BY <1>1, <1>2, <1>8, <2>3, <2>4 DEF Flow
  <2>6. consumer' # "off" =>
           \A j \in 1 .. Len(s'.entries) :
             IF s'.entries[j].lastEpoch = s'.epoch
             THEN \E p \in Outgoing' : p.msg = s'.entries[j].msg
             ELSE \A p \in Outgoing' : p.msg < s'.entries[j].msg
    BY <1>1, <1>2, <1>8 DEF Flow
  <2> QED  BY <2>1, <2>2, <2>5, <2>6 DEF Flow
<1>14. Peer'
  <2>1. ASSUME NEW i \in DOMAIN received
        PROVE  \E k \in 1 .. Len(content') :
                 /\ IsPub(k)' /\ received[i] = Copy(content'[k])
                 /\ writer' \notin Broken => k <= Written'
    BY <1>1, <1>4, <1>8, <1>9, <1>10 DEF Peer
  <2>2. ASSUME NEW k \in 1 .. Written, IsPub(k)', writer \notin Broken
        PROVE  \E i \in DOMAIN received : received[i] = Copy(content'[k])
    <3>1. k \in 1 .. Len(content)
      <4>1. accepted = Len(content) /\ Len(sendQ) \in Nat
        <5>1. sendQ \in Seq(Nat) /\ accepted = Len(content)
          BY <1>1 DEF ClientOrder
        <5> QED  BY <5>1, SMT
      <4> QED  BY <1>5, <2>2, <4>1, SMT DEF Written, Taken
    <3> QED  BY <1>1, <1>8, <2>2, <3>1 DEF Peer
  <2> QED  BY <1>1, <1>2, <1>4, <1>10, <2>1, <2>2 DEF Peer
<1>15. History'
  <2>1. Everything' = Everything
    BY <1>2 DEF Everything
  <2> QED  BY <1>1, <1>2, <2>1 DEF History
<1>16. Reply'
  <2>1. ASSUME content # <<>> PROVE content'[1] = content[1] /\ content[1] = Connack
    <3>1. 1 \in 1 .. Len(content)
      <4>1. content \in Seq(Packets)
        BY <1>1 DEF ClientOrder
      <4> QED  BY <2>1, <4>1, HasFirst, SMT
    <3> QED  BY <1>1, <1>8, <2>1, <3>1 DEF Reply
  <2>2. ASSUME content = <<>>
        PROVE  content'[1] = Connack /\ c = "handler" /\ handler = "connackSent"
    <3>1. ~ready
      BY <1>1, <2>2 DEF Reply
    <3>2. c = "handler"
      <4>1. publisher # "sending" /\ consumer = "off"
        BY <1>1, <3>1 DEF Reply
      <4>2. c # "publisher"
        BY <1>1, <1>4, <4>1 DEF Calls
      <4>3. c # "consumer"
        BY <1>1, <1>8, <4>1 DEF Calls
      <4> QED  BY <4>2, <4>3, Callers
    <3>3. handler \in {"connackSent", "subackSent", "retained"}
      BY <1>1, <1>4, <3>2 DEF Calls
    <3>4. handler = "connackSent"
      BY <1>1, <3>1, <3>3 DEF Reply
    <3>5. carries["handler"] = Connack
      BY <1>1, <3>4 DEF Calls
    <3>6. Len(content) + 1 = 1
      BY <2>2, SMT
    <3> QED  BY <1>8, <3>2, <3>4, <3>5, <3>6
  <2>3. content' # <<>>
    <3>1. Len(content') # 0
      BY <1>5, <1>8, SMT
    <3> QED  BY <3>1, SMT
  <2>4. content'[1] = Connack
    BY <2>1, <2>2
  <2>5. handler # "connack"
    <3>1. handler = "connack" => content = <<>>
      BY <1>1 DEF Reply
    <3> QED  BY <2>2, <3>1
  <2>6. handler = "connackSent" => packet'["handler"] # 0
    <3> SUFFICES ASSUME handler = "connackSent" PROVE packet'["handler"] # 0
      OBVIOUS
    <3>1. CASE c = "handler"
      <4>1. call[c] = "send"
        BY <1>1, <1>4, <3>1 DEF Calls
      <4> QED  BY <1>6, <3>1, <4>1
    <3>2. CASE c # "handler"
      <4>1. content # <<>>
        BY <2>2, <3>2
      <4>2. packet["handler"] # 0
        BY <1>1, <4>1 DEF Reply
      <4> QED  BY <1>6, <3>2, <4>2, Callers
    <3> QED  BY <3>1, <3>2
  <2>7. ASSUME mark # -1, ~Leaving
        PROVE  IF AwaitsSuback'
               THEN s.paused /\ \A p \in Outgoing' : p.msg <= mark
               ELSE \E j \in 1 .. Len(content') :
                      /\ content'[j] = Suback(subscribes)
                      /\ \A k \in 1 .. j : IsPub(k)' => content'[k].msg <= mark
    <3>1. CASE AwaitsSuback /\ AwaitsSuback'
      BY <1>1, <1>8, <2>7, <3>1 DEF Reply
    <3>2. CASE ~AwaitsSuback
      <4>1. PICK j \in 1 .. Len(content) :
              /\ content[j] = Suback(subscribes)
              /\ \A k \in 1 .. j : IsPub(k) => content[k].msg <= mark
        BY <1>1, <2>7, <3>2 DEF Reply
      <4>2. \A k \in 1 .. j : k \in 1 .. Len(content)
        BY <1>5, SMT
      <4>3. ~AwaitsSuback'
        <5>1. CASE handler = "subackSent"
          <6>1. packet["handler"] # 0
            BY <3>2, <5>1 DEF AwaitsSuback
          <6>2. packet'["handler"] # 0
            <7>1. CASE c = "handler"
              BY <1>4, <1>6, <6>1, <7>1
            <7>2. CASE c # "handler"
              BY <1>6, <6>1, <7>2, Callers
            <7> QED  BY <7>1, <7>2
          <6> QED  BY <1>2, <5>1, <6>2 DEF AwaitsSuback
        <5>2. CASE handler # "subackSent"
          BY <1>2, <3>2, <5>2 DEF AwaitsSuback
        <5> QED  BY <5>1, <5>2
      <4> QED  BY <1>8, <1>9, <4>1, <4>2, <4>3
    <3>3. CASE AwaitsSuback /\ ~AwaitsSuback'
      <4>1. handler = "subackSent" /\ packet["handler"] = 0 /\ packet'["handler"] # 0
        BY <1>2, <3>3 DEF AwaitsSuback
      <4>2. c = "handler"
        BY <1>6, <4>1, Callers
      <4>3. carries["handler"] = Suback(subscribes)
        BY <1>1, <4>1 DEF Calls
      <4>4. \A p \in Outgoing : p.msg <= mark
        BY <1>1, <2>7, <3>3 DEF Reply
      <4>5. \A k \in 1 .. Len(content) : IsPub(k) => content[k] \in Outgoing
        BY DEF IsPub, Outgoing
      <4>6. \A k : IsPub(k)' => k \in 1 .. Len(content)
        BY <1>8, <4>2, Callers
      <4>7. \A k : IsPub(k)' => content'[k].msg <= mark
        BY <1>8, <4>4, <4>5, <4>6
      <4> QED  BY <1>8, <1>9, <3>3, <4>2, <4>3, <4>7
    <3> QED  BY <3>1, <3>2, <3>3
  <2>8. Leaving' <=> Leaving
    BY <1>2 DEF Leaving
  <2> QED  BY <1>1, <1>2, <2>3, <2>4, <2>5, <2>6, <2>7, <2>8 DEF Reply
<1> QED  BY <1>10, <1>11, <1>12, <1>13, <1>14, <1>15, <1>16 DEF DeliveryInv

(***************************************************************************)
(* Steps of the writer.                                                    *)
(***************************************************************************)

\* writeLoop writes the packet it holds, or else stays with what is written.
LEMMA WriterOrder ==
  ASSUME ClientOrder, C!writeLoop, content' = content
  PROVE  /\ ClientOrder'
         /\ UNCHANGED <<call, packet, outcome>>
         /\ \/ /\ writer = "write" /\ writer' = "report"
               /\ current \in 1 .. Len(content)
               /\ Written = current - 1 /\ Written' = current
            \/ /\ writer' # "report"
               /\ writer' \notin Broken => writer \notin Broken /\ Written' = Written
<1>1. /\ sendQ \in Seq(Nat) /\ accepted \in Nat /\ content \in Seq(Packets)
      /\ accepted = Len(content) /\ Len(sendQ) <= accepted /\ Len(sendQ) \in Nat
      /\ \A i \in 1 .. Len(sendQ) : sendQ[i] = accepted - Len(sendQ) + i
      /\ writer = "write" => current = accepted - Len(sendQ) /\ current > 0
  <2>1. sendQ \in Seq(Nat)
    BY DEF ClientOrder
  <2>2. Len(sendQ) \in Nat
    BY <2>1, SMT
  <2> QED  BY <2>2 DEF ClientOrder, Taken
<1>2. CASE C!Take
  <2>1. /\ writer = "select" /\ sendQ # <<>> /\ current' = Head(sendQ)
        /\ sendQ' = Tail(sendQ) /\ writer' = "write" /\ accepted' = accepted
        /\ UNCHANGED <<call, packet, outcome>>
    BY <1>2 DEF C!Take, C!callerVars
  <2>2. /\ sendQ' \in Seq(Nat) /\ Len(sendQ') = Len(sendQ) - 1 /\ Len(sendQ) > 0
        /\ \A i \in 1 .. Len(sendQ) - 1 : sendQ'[i] = sendQ[i + 1]
        /\ current' = sendQ[1]
    BY <1>1, <2>1, SMT
  <2>3. /\ Len(sendQ') <= accepted' /\ Taken' = Taken + 1 /\ current' = Taken' /\ Taken' > 0
    BY <1>1, <2>1, <2>2, SMT DEF Taken
  <2>4. \A i \in 1 .. Len(sendQ') : sendQ'[i] = Taken' + i
    BY <1>1, <2>1, <2>2, SMT DEF Taken
  <2>5. Written' = Written
    <3>1. Taken \in Int
      BY <1>1, SMT DEF Taken
    <3>2. Written' = Taken' - 1 /\ Written = Taken
      BY <2>1 DEF Written
    <3> QED  BY <2>3, <3>1, <3>2, SMT
  <2>6. ClientOrder'
    BY <1>1, <2>1, <2>2, <2>3, <2>4 DEF ClientOrder
  <2> QED  BY <2>1, <2>5, <2>6 DEF Broken
<1>3. CASE C!Quit \/ C!Report \/ C!CloseAfterFailure
  <2>1. /\ sendQ' = sendQ /\ accepted' = accepted
        /\ UNCHANGED <<call, packet, outcome>>
        /\ writer # "write"
        /\ \/ writer' \in Broken
           \/ writer = "report" /\ writer' = "select"
    BY <1>3 DEF C!Quit, C!Report, C!CloseAfterFailure, C!callerVars, Broken
  <2>2. writer' \notin {"write", "report"}
    BY <2>1 DEF Broken
  <2>3. Taken' = Taken /\ Written' = Written
    BY <2>1, <2>2 DEF Taken, Written
  <2>4. ClientOrder'
    BY <2>1, <2>2, <2>3 DEF ClientOrder
  <2> QED  BY <2>1, <2>2, <2>3, <2>4 DEF Broken
<1>4. CASE C!Write
  <2>1. /\ writer = "write" /\ sendQ' = sendQ /\ accepted' = accepted /\ current' = current
        /\ UNCHANGED <<call, packet, outcome>>
        /\ writer' = "report" \/ writer' = "fail"
    BY <1>4 DEF C!Write, C!callerVars
  <2>2. Taken' = Taken
    BY <2>1 DEF Taken
  <2>3. ClientOrder'
    BY <2>1, <2>2 DEF ClientOrder, Broken
  <2>4. current \in 1 .. Len(content) /\ Taken = current /\ Taken - 1 = current - 1
    BY <1>1, <2>1, SMT DEF Taken
  <2>5. Written = current - 1 /\ Written' = current
    BY <2>1, <2>2, <2>4 DEF Written
  <2> QED  BY <2>1, <2>3, <2>4, <2>5 DEF Broken
<1> QED  BY <1>2, <1>3, <1>4 DEF C!writeLoop

LEMMA CopyFields ==
  ASSUME NEW p PROVE Copy(p).msg = p.msg /\ Copy(p).pid = p.pid /\ Copy(p).dup = p.dup
BY DEF Copy

\* The publish about to be written is queued, was not written on this connection,
\* and follows all earlier ones.
LEMMA CarryFacts ==
  ASSUME DeliveryInv, writer = "write", Written = current - 1, IsPub(current)
  PROVE  /\ content[current] \in Outgoing /\ content[current] \in Publishes
         /\ Tracked(content[current])
         /\ \A i \in DOMAIN received : received[i].msg < content[current].msg
<1>1. content[current] \in Outgoing
  BY DEF IsPub, Outgoing
<1>2. content[current] \in Publishes
  <2>1. content \in Seq(Packets)
    BY DEF DeliveryInv, ClientOrder
  <2>2. content[current] \in Packets
    BY <2>1, ElementIn DEF IsPub
  <2> QED  BY <2>2, PacketKinds DEF IsPub
<1>3. ASSUME NEW i \in DOMAIN received
      PROVE  received[i].msg < content[current].msg
  <2>1. PICK k \in 1 .. Len(content) : IsPub(k) /\ received[i] = Copy(content[k]) /\ k <= Written
    BY DEF DeliveryInv, Peer, Broken
  <2>2. current \in 1 .. Len(content)
    BY DEF IsPub
  <2>3. k < current
    BY <2>1, <2>2, SMT
  <2>4. received[i].msg = content[k].msg
    BY <2>1, CopyFields
  <2> QED  BY <2>1, <2>2, <2>3, <2>4 DEF DeliveryInv, Flow
<1>4. ~Answered(content[current].msg)
  <2> SUFFICES ASSUME NEW a \in acked, received[a].msg = content[current].msg PROVE FALSE
    BY DEF Answered
  <2>1. received[a].msg < content[current].msg
    BY <1>3 DEF DeliveryInv, Peer
  <2>2. content[current].msg \in Nat
    BY <1>2, SMT DEF Publishes
  <2> QED  BY <2>1, <2>2, SMT
<1>5. Tracked(content[current])
  BY <1>1, <1>4 DEF DeliveryInv, Flow
<1> QED  BY <1>1, <1>2, <1>3, <1>5

\* A queued message has one place in the queue.
LEMMA SamePlace ==
  ASSUME Sess, NEW i \in 1 .. Len(s.entries), NEW j \in 1 .. Len(s.entries),
         s.entries[i].msg = s.entries[j].msg
  PROVE  i = j
<1>1. s \in State
  BY DEF Sess
<1>2. s.entries[i].msg \in Nat /\ s.entries[j].msg \in Nat
  BY <1>1, EntryType
<1>3. /\ i < j => s.entries[i].msg < s.entries[j].msg
      /\ j < i => s.entries[j].msg < s.entries[i].msg
  BY DEF Sess, QueueInv
<1> QED  BY <1>2, <1>3, SMT

\* A publish written whole.
LEMMA CarryKeeps ==
  ASSUME DeliveryInv, writer = "write", writer' = "report", Written = current - 1,
         Written' = current, IsPub(current), received' = Append(received, Copy(content[current])),
         UNCHANGED <<s, conn, consumer, content, packet, carries, acked, past, admitted>>
  PROVE  Flow' /\ Peer' /\ History'
<1> DEFINE p == content[current]
<1>1. /\ p \in Outgoing /\ p \in Publishes /\ Tracked(p)
      /\ \A i \in DOMAIN received : received[i].msg < p.msg
  BY CarryFacts
<1>2. p.msg \in Nat \ {0} /\ p.pid \in PacketIDs /\ p.dup \in BOOLEAN
  BY <1>1 DEF Publishes
<1>3. Copy(p) \in Copies
  BY <1>2 DEF Copy, Copies
<1>4. received \in Seq(Copies) /\ acked \subseteq DOMAIN received
  BY DEF DeliveryInv, Peer
<1>5. /\ received' \in Seq(Copies) /\ Len(received) \in Nat
      /\ \A i \in 1 .. Len(received) : received'[i] = received[i]
      /\ received'[Len(received) + 1] = Copy(p) /\ Len(received') = Len(received) + 1
  BY <1>3, <1>4, Appended, SMT
<1>6. /\ DOMAIN received = 1 .. Len(received) /\ DOMAIN received' = 1 .. Len(received')
      /\ \A i : i \in DOMAIN received' <=> i \in DOMAIN received \/ i = Len(received) + 1
      /\ Len(received) + 1 \in DOMAIN received'
  BY <1>4, <1>5, SMT
<1>7. \A i \in DOMAIN received : received'[i] = received[i]
  BY <1>5, <1>6
<1>8. /\ s' = s /\ conn' = conn /\ consumer' = consumer /\ content' = content
      /\ carries' = carries /\ packet' = packet /\ acked' = acked /\ past' = past
      /\ admitted' = admitted
  OBVIOUS
<1>9. Outgoing' = Outgoing /\ (Unsent' <=> Unsent) /\ \A k : IsPub(k)' <=> IsPub(k)
  BY <1>8, SameOutgoing
<1>10. Flow'
  <2>1. \A q : Tracked(q)' <=> Tracked(q)
    BY <1>8 DEF Tracked
  <2>2. \A m : Answered(m) => Answered(m)'
    BY <1>4, <1>7, <1>8 DEF Answered
  <2> QED  BY <1>8, <1>9, <2>1, <2>2 DEF DeliveryInv, Flow
<1>11. Peer'
  <2>1. writer \notin Broken /\ writer' \notin Broken
    BY DEF Broken
  <2>2. current \in 1 .. Len(content) /\ Len(content) \in Nat
    <3>1. content \in Seq(Packets)
      BY DEF DeliveryInv, ClientOrder
    <3>2. Len(content) \in Nat
      BY <3>1, SMT
    <3> QED  BY <3>2 DEF IsPub
  <2>3. ASSUME NEW i \in DOMAIN received'
        PROVE  \E k \in 1 .. Len(content) :
                 IsPub(k) /\ received'[i] = Copy(content[k]) /\ k <= current
    <3>1. CASE i \in DOMAIN received
      <4>1. PICK k \in 1 .. Len(content) :
              IsPub(k) /\ received[i] = Copy(content[k]) /\ k <= Written
        BY <2>1, <3>1 DEF DeliveryInv, Peer
      <4>2. k <= current
        BY <2>2, <4>1, SMT
      <4> QED  BY <1>7, <3>1, <4>1, <4>2
    <3>2. CASE i = Len(received) + 1
      <4>1. current <= current
        BY <2>2, SMT
      <4> QED  BY <1>5, <2>2, <3>2, <4>1
    <3> QED  BY <1>6, <3>1, <3>2
  <2>4. ASSUME NEW k \in 1 .. current, IsPub(k)
        PROVE  \E i \in DOMAIN received' : received'[i] = Copy(content[k])
    <3>1. CASE k = current
      BY <1>5, <1>6, <3>1
    <3>2. CASE k # current
      <4>1. k \in 1 .. Written
        BY <2>2, <3>2, SMT
      <4>2. PICK i \in DOMAIN received : received[i] = Copy(content[k])
        BY <2>1, <2>4, <4>1 DEF DeliveryInv, Peer
      <4> QED  BY <1>6, <1>7, <4>2
    <3> QED  BY <3>1, <3>2
  <2>5. ASSUME NEW i \in DOMAIN received', NEW l \in DOMAIN received', i < l
        PROVE  received'[i].msg < received'[l].msg
    <3>1. i \in DOMAIN received
      BY <1>5, <1>6, <2>5, SMT
    <3>2. CASE l \in DOMAIN received
      BY <1>7, <2>5, <3>1, <3>2 DEF DeliveryInv, Peer
    <3>3. CASE l = Len(received) + 1
      <4>1. received'[l].msg = p.msg
        BY <1>5, <3>3, CopyFields
      <4> QED  BY <1>1, <1>7, <3>1, <4>1
    <3> QED  BY <1>6, <3>2, <3>3
  <2>6. acked' \subseteq DOMAIN received' /\ past' \subseteq Copies
    BY <1>4, <1>6, <1>8 DEF DeliveryInv, Peer
  <2> HIDE DEF p
  <2> QED  BY <1>5, <1>8, <1>9, <2>3, <2>4, <2>5, <2>6 DEF Peer
<1>12. History'
  <2>1. \A x \in Everything' : x \in Everything \/ x = Copy(p)
    BY <1>5, <1>6, <1>7, <1>8 DEF Everything
  <2>2. ASSUME NEW x, x = Copy(p)
        PROVE  /\ x.msg <= admitted
               /\ \A j \in 1 .. Len(s.entries) :
                    s.entries[j].msg = x.msg => s.entries[j].packetID = x.pid
    <3>1. x.msg = p.msg /\ x.pid = p.pid
      BY <2>2, CopyFields
    <3>2. p.msg <= admitted
      BY <1>1 DEF DeliveryInv, Flow
    <3>3. PICK j \in 1 .. Len(s.entries) : s.entries[j].msg = p.msg /\ s.entries[j].packetID = p.pid
      BY <1>1 DEF Tracked
    <3>4. \A i \in 1 .. Len(s.entries) : s.entries[i].msg = p.msg => i = j
      BY <3>3, SamePlace DEF DeliveryInv
    <3> QED  BY <3>1, <3>2, <3>3, <3>4
  <2> HIDE DEF p
  <2> QED  BY <1>8, <2>1, <2>2 DEF DeliveryInv, History
<1> QED  BY <1>10, <1>11, <1>12

\* A step of the writer that carries no publish.
LEMMA WriterQuiet ==
  ASSUME Peer, ClientOrder, content' = content, UNCHANGED <<received, acked, past>>,
         \/ /\ writer = "write" /\ writer' = "report" /\ current \in 1 .. Len(content)
            /\ Written = current - 1 /\ Written' = current /\ ~IsPub(current)
         \/ writer' \notin Broken => writer \notin Broken /\ Written' = Written
  PROVE  Peer'
<1>1. /\ received' = received /\ acked' = acked /\ past' = past
      /\ \A k : IsPub(k)' <=> IsPub(k)
  BY DEF IsPub
<1>2. CASE writer' \notin Broken => writer \notin Broken /\ Written' = Written
  BY <1>1, <1>2 DEF Peer
<1>3. CASE /\ writer = "write" /\ writer' = "report" /\ current \in 1 .. Len(content)
           /\ Written = current - 1 /\ Written' = current /\ ~IsPub(current)
  <2>1. \A k \in 1 .. Len(content) : k <= Written => k <= Written'
    BY <1>3, SMT
  <2>2. \A k \in 1 .. Written' : k \in 1 .. Written \/ k = current
    BY <1>3, SMT
  <2>3. writer \notin Broken
    BY <1>3 DEF Broken
  <2> QED  BY <1>1, <1>3, <2>1, <2>2, <2>3 DEF Peer
<1> QED  BY <1>2, <1>3

\* What does not concern the writer.
Unmoved ==
  UNCHANGED <<call, packet, outcome, carries, s, conn, handler, consumer, epoch,
              publisher, ready, content, acked, past, admitted, subscribes, mark>>

LEMMA Bystanders ==
  ASSUME Calls, Sess, Reply, Flow, History, Unmoved
  PROVE  /\ Calls' /\ Sess' /\ Reply'
         /\ received' = received => Flow' /\ History'
<1>1. /\ call' = call /\ packet' = packet /\ outcome' = outcome /\ carries' = carries
      /\ s' = s /\ conn' = conn /\ handler' = handler /\ consumer' = consumer
      /\ epoch' = epoch /\ publisher' = publisher /\ ready' = ready /\ content' = content
      /\ acked' = acked /\ past' = past /\ admitted' = admitted /\ mark' = mark
      /\ subscribes' = subscribes
  BY DEF Unmoved
<1>2. Outgoing' = Outgoing /\ (Unsent' <=> Unsent) /\ \A k : IsPub(k)' <=> IsPub(k)
  BY <1>1, SameOutgoing
<1>3. Calls'
  <2>1. Unsent => consumer' \in {"send", "exited"}
    BY <1>1 DEF Calls
  <2> QED  BY <1>1, <2>1, CallsMove
<1>4. Sess'
  <2>1. /\ mark' \in Int /\ subscribes' \in Nat
        /\ handler' \in {"connack", "connackSent", "begin"} => consumer' = "off"
    BY <1>1 DEF Sess
  <2> QED  BY <1>1, <2>1, SessQuiet
<1>5. Reply'
  <2>1. (Leaving' <=> Leaving) /\ (AwaitsSuback' <=> AwaitsSuback)
    BY <1>1 DEF Leaving, AwaitsSuback
  <2> QED  BY <1>1, <1>2, <2>1 DEF Reply
<1>6. ASSUME received' = received PROVE Flow' /\ History'
  <2>1. (\A p : Tracked(p)' <=> Tracked(p)) /\ \A m : Answered(m)' <=> Answered(m)
    BY <1>1, <1>6 DEF Tracked, Answered
  <2>2. Everything' = Everything
    BY <1>1, <1>6 DEF Everything
  <2>3. Flow'
    BY <1>1, <1>2, <2>1 DEF Flow
  <2>4. History'
    BY <1>1, <2>2 DEF History
  <2> QED  BY <2>3, <2>4
<1> QED  BY <1>3, <1>4, <1>5, <1>6

LEMMA WriterKeeps ==
  ASSUME DeliveryInv, WriterStep
  PROVE  DeliveryInv'
<1>1. ClientOrder /\ Calls /\ Sess /\ Flow /\ Peer /\ History /\ Reply
  BY DEF DeliveryInv
<1>2. /\ C!writeLoop
      /\ UNCHANGED <<s, conn, handler, consumer, epoch, publisher, ready, content,
                     carries, acked, past, admitted, subscribes, mark>>
      /\ received' = IF writer' = "report" /\ content[current].kind = "publish"
                     THEN Append(received, Copy(content[current])) ELSE received
  BY DEF WriterStep, countVars, Copy
<1>3. content' = content
  BY <1>2
<1>4. /\ ClientOrder'
      /\ UNCHANGED <<call, packet, outcome>>
      /\ \/ /\ writer = "write" /\ writer' = "report"
            /\ current \in 1 .. Len(content)
            /\ Written = current - 1 /\ Written' = current
         \/ /\ writer' # "report"
            /\ writer' \notin Broken => writer \notin Broken /\ Written' = Written
  BY <1>1, <1>2, <1>3, WriterOrder
<1>5. Calls' /\ Sess' /\ Reply' /\ (received' = received => Flow' /\ History')
  <2>1. Unmoved
    BY <1>2, <1>4 DEF Unmoved
  <2> QED  BY <1>1, <2>1, Bystanders
<1>6. CASE writer' = "report" /\ IsPub(current)
  <2>1. received' = Append(received, Copy(content[current]))
    BY <1>2, <1>6 DEF IsPub
  <2>2. Flow' /\ Peer' /\ History'
    BY <1>2, <1>4, <1>6, <2>1, CarryKeeps
  <2> QED  BY <1>4, <1>5, <2>2 DEF DeliveryInv
<1>7. CASE ~(writer' = "report" /\ IsPub(current))
  <2>1. received' = received
    BY <1>2, <1>4, <1>7 DEF IsPub
  <2>2. Peer'
    BY <1>1, <1>2, <1>4, <1>7, <2>1, WriterQuiet
  <2> QED  BY <1>4, <1>5, <2>1, <2>2 DEF DeliveryInv
<1> QED  BY <1>6, <1>7

(***************************************************************************)
(* Steps that change the session's queue.                                  *)
(***************************************************************************)

\* Types of the publishes.
LEMMA OutgoingType ==
  ASSUME DeliveryInv
  PROVE  Outgoing \subseteq Publishes
<1> SUFFICES ASSUME NEW p \in Outgoing PROVE p \in Packets /\ p.kind = "publish"
  BY PacketKinds
<1>1. CASE Unsent /\ p = carries["consumer"]
  BY <1>1, Callers DEF Unsent, DeliveryInv, Calls
<1>2. CASE \E k \in 1 .. Len(content) : p = content[k] /\ content[k].kind = "publish"
  <2>1. content \in Seq(Packets)
    BY DEF DeliveryInv, ClientOrder
  <2> QED  BY <1>2, <2>1, ElementIn
<1> QED  BY <1>1, <1>2 DEF Outgoing

LEMMA EverythingType ==
  ASSUME Peer
  PROVE  Everything \subseteq Copies
<1>1. received \in Seq(Copies) /\ past \subseteq Copies
  BY DEF Peer
<1>2. \A i \in DOMAIN received : received[i] \in Copies
  BY <1>1, SMT
<1> QED  BY <1>1, <1>2 DEF Everything

\* A new connection: its client is empty, and all it knows is what was received.
LEMMA ReconnectKeeps ==
  ASSUME DeliveryInv, Reconnect
  PROVE  DeliveryInv'
<1>1. ClientOrder /\ Calls /\ Sess /\ Flow /\ Peer /\ History /\ Reply
  BY DEF DeliveryInv
<1>2. /\ sendQ' = <<>> /\ writer' = "select" /\ accepted' = 0 /\ content' = <<>>
      /\ call' = [c \in Caller |-> "idle"] /\ packet' = [c \in Caller |-> 0]
      /\ outcome' = [c \in Caller |-> "none"] /\ carries' = [c \in Caller |-> Connack]
  BY DEF Reconnect, C!New
<1>3. /\ s' = MarkConnected(s) /\ conn' = conn + 1 /\ handler' = "connack"
      /\ consumer' = "off" /\ publisher' = publisher /\ publisher = "idle"
      /\ ready' = FALSE /\ received' = <<>> /\ acked' = {} /\ past' = Everything
      /\ admitted' = admitted /\ mark' = -1
  BY DEF Reconnect, Lockable, countVars
<1>4. /\ Len(content') = 0 /\ DOMAIN received' = {} /\ Len(sendQ') = 0
      /\ received' \in Seq(Copies) /\ sendQ' \in Seq(Nat) /\ content' \in Seq(Packets)
      /\ \A i : i \notin 1 .. 0
  BY <1>2, <1>3, SMT
<1>5. ~Unsent' /\ Outgoing' = {} /\ (\A k : ~IsPub(k)') /\ Everything' = Everything
  BY <1>2, <1>3, <1>4, Callers, PacketKinds DEF Unsent, Outgoing, IsPub, Everything
<1>6. ClientOrder'
  <2>1. Taken' = 0 /\ 0 \in Nat /\ 0 <= 0
    <3>1. accepted' = 0 /\ Len(sendQ') = 0
      BY <1>2, <1>4
    <3> QED  BY <3>1, SMT DEF Taken
  <2> QED  BY <1>2, <1>4, <2>1 DEF ClientOrder
<1>7. Calls'
  <2>1. 0 \in Nat /\ Connack \in Packets
    BY PacketKinds, SMT
  <2> QED  BY <1>2, <1>3, <1>5, <2>1, Callers DEF Calls
<1>8. s' \in State /\ ~s'.deleted /\ QueueInv(s', admitted)
      /\ s'.entries = s.entries /\ s'.epoch = s.epoch
  BY <1>1, <1>3, QuietSession
<1>9. Sess'
  <2>1. conn' \in Nat \ {0} /\ s'.epoch < conn'
    <3>1. conn \in Nat \ {0} /\ s.epoch \in Nat
      BY <1>1 DEF Sess, State
    <3>2. s.epoch < conn \/ s.epoch \in 1 .. conn
      BY <1>1 DEF Sess
    <3> QED  BY <1>3, <1>8, <3>1, <3>2, SMT
  <2>2. mark' \in Int
    BY <1>3, SMT
  <2>3. subscribes' \in Nat
    BY <1>1 DEF Reconnect, countVars, Sess
  <2> QED  BY <1>1, <1>3, <1>8, <2>1, <2>2, <2>3 DEF Sess
<1>10. Flow'
  BY <1>3, <1>4, <1>5 DEF Flow
<1>11. Peer'
  <2>1. Written' = 0
    <3>1. accepted' = 0 /\ Len(sendQ') = 0 /\ writer' # "write"
      BY <1>2, <1>4
    <3> QED  BY <3>1, SMT DEF Written, Taken
  <2>2. Everything \subseteq Copies
    BY <1>1, EverythingType
  <2> QED  BY <1>3, <1>4, <2>1, <2>2 DEF Peer
<1>12. History'
  BY <1>1, <1>3, <1>5, <1>8 DEF History
<1>13. Reply'
  BY <1>2, <1>3 DEF Reply
<1> QED  BY <1>6, <1>7, <1>9, <1>10, <1>11, <1>12, <1>13 DEF DeliveryInv

\* The client and what reached the peer stay.
ClientStill ==
  UNCHANGED <<sendQ, accepted, content, writer, current, received, past>>

LEMMA ClientStays ==
  ASSUME ClientOrder, Peer, ClientStill, acked' \subseteq DOMAIN received
  PROVE  ClientOrder' /\ Peer'
<1>1. /\ sendQ' = sendQ /\ accepted' = accepted /\ content' = content
      /\ writer' = writer /\ current' = current /\ received' = received /\ past' = past
  BY DEF ClientStill
<1>2. Taken' = Taken /\ Written' = Written /\ \A k : IsPub(k)' <=> IsPub(k)
  BY <1>1 DEF Taken, Written, IsPub
<1>3. ClientOrder'
  BY <1>1, <1>2 DEF ClientOrder
<1>4. Peer'
  BY <1>1, <1>2 DEF Peer
<1> QED  BY <1>3, <1>4

\* BeginDelivery: the queue is all to be tried on this connection.
LEMMA StartConsumerKeeps ==
  ASSUME DeliveryInv, StartConsumer
  PROVE  DeliveryInv'
<1>1. ClientOrder /\ Calls /\ Sess /\ Flow /\ Peer /\ History /\ Reply
  BY DEF DeliveryInv
<1>2. /\ handler = "begin" /\ handler' = "serve" /\ consumer' = "loop"
      /\ s' = BeginDelivery(s) /\ epoch' = s'.epoch
  BY DEF StartConsumer
<1>3. /\ sendQ' = sendQ /\ accepted' = accepted /\ content' = content
      /\ writer' = writer /\ current' = current /\ received' = received
      /\ acked' = acked /\ past' = past /\ conn' = conn /\ admitted' = admitted
      /\ call' = call /\ packet' = packet /\ outcome' = outcome /\ carries' = carries
      /\ publisher' = publisher /\ ready' = ready /\ mark' = mark
      /\ subscribes' = subscribes
  BY DEF StartConsumer, clientVars, peerVars, countVars
<1>4. consumer = "off" /\ Outgoing = {} /\ ~Unsent
  BY <1>1, <1>2 DEF Sess, Flow, Calls
<1>5. s \in State /\ ~s.deleted /\ admitted \in Nat /\ QueueInv(s, admitted) /\ s.epoch \in Nat
  BY <1>1 DEF Sess, State
<1>6. s'.entries = s.entries /\ s'.epoch = s.epoch + 1 /\ ~s'.deleted
  BY <1>2, <1>5 DEF BeginDelivery, notifyLocked, State
<1>7. Sess'
  <2>1. s' \in State /\ QueueInv(s', admitted)
    BY <1>2, <1>5, MethodTypes, BeginDeliveryQueue
  <2>2. s'.epoch \in 1 .. conn
    <3>1. conn \in Nat /\ s.epoch < conn
      BY <1>1, <1>4 DEF Sess
    <3> QED  BY <1>5, <1>6, <3>1, SMT
  <2> QED  BY <1>1, <1>2, <1>3, <1>6, <2>1, <2>2 DEF Sess
<1>8. Outgoing' = Outgoing /\ (Unsent' <=> Unsent) /\ \A k : IsPub(k)' <=> IsPub(k)
  BY <1>3, SameOutgoing
<1>9. Flow'
  <2>1. \A j \in 1 .. Len(s.entries) : s.entries[j].lastEpoch # s'.epoch
    <3> SUFFICES ASSUME NEW j \in 1 .. Len(s.entries) PROVE s.entries[j].lastEpoch # s'.epoch
      OBVIOUS
    <3>1. s.entries[j].lastEpoch \in Nat /\ s.entries[j].lastEpoch <= s.epoch
      BY <1>5, EntryType DEF QueueInv
    <3> QED  BY <1>5, <1>6, <3>1, SMT
  <2> QED  BY <1>1, <1>3, <1>4, <1>6, <1>8, <2>1 DEF Flow
<1>10. ClientOrder' /\ Peer'
  <2>1. ClientStill
    BY <1>3 DEF ClientStill
  <2>2. acked' \subseteq DOMAIN received
    BY <1>1, <1>3 DEF Peer
  <2> QED  BY <1>1, <2>1, <2>2, ClientStays
<1>11. History'
  <2>1. Everything' = Everything
    BY <1>3 DEF Everything
  <2> QED  BY <1>1, <1>3, <1>6, <2>1 DEF History
<1>12. Calls'
  <2>1. call["handler"] \notin {"enqueue", "send"}
    BY <1>1, <1>2 DEF Calls
  <2> QED  BY <1>1, <1>2, <1>3, <1>4, <2>1, CallsMove
<1>13. Reply'
  <2>1. ready /\ mark = -1
    BY <1>1, <1>2 DEF Reply
  <2> QED  BY <1>1, <1>2, <1>3, <2>1 DEF Reply
<1> QED  BY <1>7, <1>9, <1>10, <1>11, <1>12, <1>13 DEF DeliveryInv

\* What Admit does to the queue.
LEMMA AdmitEntries ==
  ASSUME Sess, NEW t, t = Admit(s, admitted + 1, 1)
  PROVE  /\ t \in State /\ ~t.deleted /\ QueueInv(t, admitted + 1)
         /\ t.epoch = s.epoch /\ t.paused = s.paused
         /\ Len(t.entries) = Len(s.entries) + 1 /\ Len(s.entries) \in Nat
         /\ \A j \in 1 .. Len(s.entries) : t.entries[j] = s.entries[j]
         /\ t.entries[Len(s.entries) + 1].msg = admitted + 1
         /\ t.entries[Len(s.entries) + 1].lastEpoch = 0
         /\ admitted + 1 \in Nat \ {0}
<1> DEFINE e == [msg |-> admitted + 1, size |-> 1, packetID |-> 0, lastEpoch |-> 0]
<1>1. s \in State /\ ~s.deleted /\ admitted \in Nat /\ QueueInv(s, admitted)
  BY DEF Sess
<1>2. admitted + 1 \in Nat \ {0} /\ 1 \in Nat
  BY <1>1, SMT
<1>3. t \in State /\ QueueInv(t, admitted + 1)
  BY <1>1, <1>2, AdmitType, AdmitQueue
<1>4. /\ t.epoch = s.epoch /\ t.paused = s.paused /\ t.deleted = s.deleted
      /\ t.entries = Append(s.entries, e)
  BY <1>1 DEF Admit, notifyLocked, State
<1>5. e \in Entry /\ s.entries \in Seq(Entry)
  <2>1. e \in Entry
    BY <1>2, SessionLimitsValid, SMT DEF Entry
  <2> QED  BY <1>1, <2>1 DEF State
<1>6. /\ Len(t.entries) = Len(s.entries) + 1 /\ Len(s.entries) \in Nat
      /\ \A j \in 1 .. Len(s.entries) : t.entries[j] = s.entries[j]
      /\ t.entries[Len(s.entries) + 1] = e
  <2> HIDE DEF e
  <2> QED  BY <1>4, <1>5, Appended, SMT
<1>7. e.msg = admitted + 1 /\ e.lastEpoch = 0
  OBVIOUS
<1> HIDE DEF e
<1> QED  BY <1>1, <1>2, <1>3, <1>4, <1>6, <1>7

\* A message is admitted, whatever the handler does meanwhile.
AdmitFrame ==
  /\ admitted' = admitted + 1 /\ s' = Admit(s, admitted', 1)
  /\ UNCHANGED <<sendQ, accepted, content, writer, current, received, past, acked,
                 packet, carries, conn, consumer, epoch, subscribes, mark>>

LEMMA AdmitKeeps ==
  ASSUME DeliveryInv, AdmitFrame,
         handler' \in {"connack", "connackSent", "begin"} => handler' = handler
  PROVE  ClientOrder' /\ Sess' /\ Flow' /\ Peer' /\ History' /\ s'.paused = s.paused
<1>1. ClientOrder /\ Sess /\ Flow /\ Peer /\ History
  BY DEF DeliveryInv
<1>2. /\ sendQ' = sendQ /\ accepted' = accepted /\ content' = content
      /\ writer' = writer /\ current' = current /\ received' = received
      /\ acked' = acked /\ past' = past /\ conn' = conn /\ packet' = packet
      /\ carries' = carries /\ consumer' = consumer /\ epoch' = epoch /\ mark' = mark
      /\ subscribes' = subscribes
      /\ admitted' = admitted + 1
  BY DEF AdmitFrame
<1>3. /\ s' \in State /\ ~s'.deleted /\ QueueInv(s', admitted + 1)
      /\ s'.epoch = s.epoch /\ s'.paused = s.paused
      /\ Len(s'.entries) = Len(s.entries) + 1 /\ Len(s.entries) \in Nat
      /\ \A j \in 1 .. Len(s.entries) : s'.entries[j] = s.entries[j]
      /\ s'.entries[Len(s.entries) + 1].msg = admitted + 1
      /\ s'.entries[Len(s.entries) + 1].lastEpoch = 0
      /\ admitted + 1 \in Nat \ {0}
  BY <1>1, AdmitEntries DEF AdmitFrame
<1>4. ClientOrder' /\ Peer'
  <2>1. ClientStill
    BY <1>2 DEF ClientStill
  <2>2. acked' \subseteq DOMAIN received
    BY <1>1, <1>2 DEF Peer
  <2> QED  BY <1>1, <2>1, <2>2, ClientStays
<1>5. Sess'
  BY <1>1, <1>2, <1>3 DEF Sess
<1>6. /\ \A j : j \in 1 .. Len(s'.entries) <=> j \in 1 .. Len(s.entries) \/ j = Len(s.entries) + 1
      /\ \A j \in 1 .. Len(s.entries) : j \in 1 .. Len(s'.entries)
  BY <1>3, SMT
<1>7. \A n \in Nat : n <= admitted => n < admitted + 1 /\ n <= admitted + 1 /\ n # admitted + 1
  <2>1. admitted \in Nat
    BY <1>1 DEF Sess
  <2> QED  BY <2>1, SMT
<1>8. Outgoing' = Outgoing /\ (Unsent' <=> Unsent) /\ \A k : IsPub(k)' <=> IsPub(k)
  BY <1>2, SameOutgoing
<1>9. Outgoing \subseteq Publishes
  BY OutgoingType
<1>10. \A p \in Outgoing : p.msg \in Nat /\ p.msg <= admitted
  BY <1>1, <1>9 DEF Publishes, Flow
<1>11. Flow'
  <2>1. \A p : Tracked(p) => Tracked(p)'
    BY <1>3, <1>6 DEF Tracked
  <2>2. \A m : Answered(m)' <=> Answered(m)
    BY <1>2 DEF Answered
  <2>3. ASSUME NEW j \in 1 .. Len(s'.entries), consumer # "off"
        PROVE  IF s'.entries[j].lastEpoch = s'.epoch
               THEN \E p \in Outgoing : p.msg = s'.entries[j].msg
               ELSE \A p \in Outgoing : p.msg < s'.entries[j].msg
    <3>1. CASE j \in 1 .. Len(s.entries)
      BY <1>1, <1>3, <2>3, <3>1 DEF Flow
    <3>2. CASE j = Len(s.entries) + 1
      <4>1. s.epoch \in 1 .. conn
        BY <1>1, <2>3 DEF Sess
      <4>2. s'.epoch # 0
        BY <1>3, <4>1, SMT
      <4> QED  BY <1>3, <1>7, <1>10, <3>2, <4>2
    <3> QED  BY <1>6, <3>1, <3>2
  <2>4. \A p \in Outgoing :
           /\ p.msg <= admitted' /\ (p.dup => conn' > 1)
           /\ Tracked(p)' \/ Answered(p.msg)'
           /\ \A x \in past' : x.msg = p.msg => p.dup
    BY <1>1, <1>2, <1>7, <1>10, <2>1, <2>2 DEF Flow
  <2> QED  BY <1>1, <1>2, <1>8, <2>3, <2>4 DEF Flow
<1>12. History'
  <2>1. Everything' = Everything
    BY <1>2 DEF Everything
  <2>2. ASSUME NEW x \in Everything
        PROVE  /\ x.msg <= admitted + 1
               /\ \A j \in 1 .. Len(s'.entries) :
                    s'.entries[j].msg = x.msg => s'.entries[j].packetID = x.pid
    <3>1. x.msg \in Nat
      BY <1>1, EverythingType DEF Copies
    <3>2. x.msg <= admitted
      BY <1>1 DEF History
    <3>3. x.msg <= admitted + 1 /\ x.msg # admitted + 1
      BY <1>7, <3>1, <3>2
    <3>4. ASSUME NEW j \in 1 .. Len(s'.entries), s'.entries[j].msg = x.msg
          PROVE  s'.entries[j].packetID = x.pid
      <4>1. j \in 1 .. Len(s.entries)
        BY <1>3, <1>6, <3>3, <3>4
      <4>2. s'.entries[j] = s.entries[j]
        BY <1>3, <4>1
      <4> QED  BY <1>1, <3>4, <4>1, <4>2 DEF History
    <3> QED  BY <3>3, <3>4
  <2> QED  BY <1>2, <2>1, <2>2 DEF History
<1> QED  BY <1>3, <1>4, <1>5, <1>11, <1>12

LEMMA AdmitSteps ==
  ASSUME DeliveryInv,
         \/ AdmitLive
         \/ SendRetained /\ s' = Admit(s, admitted', 1) /\ admitted' = admitted + 1
              /\ UNCHANGED <<clientVars, carries>>
  PROVE  DeliveryInv' /\ AdmitFrame
<1>1. Calls /\ Reply
  BY DEF DeliveryInv
<1>2. AdmitFrame
  BY DEF AdmitLive, SendRetained, AdmitFrame, clientVars, peerVars
<1>3. /\ UNCHANGED <<call, packet, outcome, carries>> /\ content' = content
      /\ publisher' = publisher /\ ready' = ready /\ mark' = mark
      /\ subscribes' = subscribes
      /\ consumer' = consumer /\ packet' = packet /\ carries' = carries
  BY DEF AdmitLive, SendRetained, clientVars
<1>4. \/ handler' = handler
      \/ handler = "subackSent" /\ Succeeded("handler") /\ handler' = "retained"
  BY DEF AdmitLive, SendRetained
<1>5. ClientOrder' /\ Sess' /\ Flow' /\ Peer' /\ History' /\ s'.paused = s.paused
  <2>1. handler' \in {"connack", "connackSent", "begin"} => handler' = handler
    BY <1>4
  <2> QED  BY <1>2, <2>1, AdmitKeeps
<1>6. Calls'
  <2>1. /\ handler' \in {"connackSent", "subackSent"} => handler' = handler
        /\ call["handler"] \in {"enqueue", "send"} => handler' = handler
    BY <1>4 DEF Succeeded, Returned
  <2>2. Unsent => consumer' \in {"send", "exited"}
    BY <1>1, <1>3 DEF Calls
  <2> QED  BY <1>1, <1>3, <2>1, <2>2, CallsMove
<1>7. Reply'
  <2>1. Outgoing' = Outgoing /\ \A k : IsPub(k)' <=> IsPub(k)
    BY <1>3, SameOutgoing
  <2>2. CASE handler' = handler
    <3>1. (Leaving' <=> Leaving) /\ (AwaitsSuback' <=> AwaitsSuback)
      BY <1>3, <2>2 DEF Leaving, AwaitsSuback
    <3> QED  BY <1>1, <1>3, <1>5, <2>1, <2>2, <3>1 DEF Reply
  <2>3. CASE handler = "subackSent" /\ Succeeded("handler") /\ handler' = "retained"
    <3>1. packet["handler"] # 0
      BY <1>1, <2>3 DEF Succeeded, Returned, Calls, SendCall
    <3>2. ~AwaitsSuback /\ ~AwaitsSuback' /\ ~Leaving
      BY <2>3, <3>1 DEF AwaitsSuback, Leaving
    <3> QED  BY <1>1, <1>3, <2>1, <2>3, <3>2 DEF Reply
  <2> QED  BY <1>4, <2>2, <2>3
<1> QED  BY <1>2, <1>5, <1>6, <1>7 DEF DeliveryInv

\* SendRetained without a message to queue or to send.
LEMMA NothingRetained ==
  ASSUME DeliveryInv, SendRetained, UNCHANGED <<clientVars, carries, s, admitted>>
  PROVE  DeliveryInv'
<1>1. ClientOrder /\ Calls /\ Sess /\ Flow /\ Peer /\ History /\ Reply
  BY DEF DeliveryInv
<1>2. /\ UNCHANGED <<call, packet, outcome, carries>> /\ content' = content /\ s' = s
      /\ publisher' = publisher /\ ready' = ready /\ mark' = mark
      /\ subscribes' = subscribes /\ conn' = conn
      /\ consumer' = consumer /\ packet' = packet /\ carries' = carries /\ epoch' = epoch
      /\ admitted' = admitted
  BY DEF SendRetained, clientVars
<1>3. /\ handler \in {"subackSent", "retained"} /\ Succeeded("handler")
      /\ handler' = "retained"
  BY DEF SendRetained
<1>4. Aside
  BY <1>2 DEF Aside, SendRetained, clientVars, peerVars
<1>5. ClientOrder' /\ Flow' /\ Peer' /\ History'
  BY <1>4, AsideKeeps
<1>6. Sess'
  <2>1. /\ mark' \in Int /\ subscribes' \in Nat
        /\ handler' \in {"connack", "connackSent", "begin"} => consumer' = "off"
    BY <1>1, <1>2, <1>3 DEF Sess
  <2> QED  BY <1>1, <1>2, <2>1, SessQuiet
<1>7. Calls'
  <2>1. /\ handler' \in {"connackSent", "subackSent"} => handler' = handler
        /\ call["handler"] \in {"enqueue", "send"} => handler' = handler
    BY <1>3 DEF Succeeded, Returned
  <2>2. Unsent => consumer' \in {"send", "exited"}
    BY <1>1, <1>2 DEF Calls
  <2> QED  BY <1>1, <1>2, <2>1, <2>2, CallsMove
<1>8. Reply'
  <2>1. handler = "subackSent" => packet["handler"] # 0
    BY <1>1, <1>3 DEF Succeeded, Returned, Calls, SendCall
  <2>2. ~AwaitsSuback /\ ~AwaitsSuback' /\ ~Leaving
    BY <1>3, <2>1 DEF AwaitsSuback, Leaving
  <2>3. Outgoing' = Outgoing /\ \A k : IsPub(k)' <=> IsPub(k)
    BY <1>4, AsideOutgoing
  <2> QED  BY <1>1, <1>2, <1>3, <2>2, <2>3 DEF Reply
<1> QED  BY <1>5, <1>6, <1>7, <1>8 DEF DeliveryInv

\* What Next does to entry i, on a replay and on a first attempt.
Tries(i, pid, dup) ==
  /\ s' \in State /\ ~s'.deleted /\ QueueInv(s', admitted)
  /\ s'.epoch = s.epoch /\ Len(s'.entries) = Len(s.entries)
  /\ \A j \in 1 .. Len(s.entries) \ {i} : s'.entries[j] = s.entries[j]
  /\ s'.entries[i].msg = s.entries[i].msg
  /\ s'.entries[i].packetID = pid /\ s'.entries[i].lastEpoch = s.epoch
  /\ s.entries[i].lastEpoch # s.epoch
  /\ \A j \in 1 .. i - 1 : s.entries[j].lastEpoch = s.epoch
  /\ IF Attempted(s, i) THEN pid = s.entries[i].packetID /\ dup ELSE ~dup

LEMMA NextTries ==
  ASSUME Sess, ConsumerNext, HasNext(s, epoch)
  PROVE  /\ ~s.paused /\ s.epoch \in 1 .. conn
         /\ \E i \in 1 .. Len(s.entries), pid \in PacketIDs, dup \in BOOLEAN :
              /\ Tries(i, pid, dup)
              /\ Start("consumer", "send", Pub(s.entries[i].msg, pid, dup))
<1>1. /\ s \in State /\ admitted \in Nat /\ QueueInv(s, admitted) /\ consumer = "next"
      /\ epoch = s.epoch /\ s.epoch \in 1 .. conn /\ MayDeliver(s, epoch) /\ s.entries \in Seq(Entry)
  BY DEF Sess, ConsumerNext, HasNext, State
<1>2. epoch \in Nat \ {0} /\ Len(s.entries) \in Nat
  <2>1. s.epoch \in 1 .. conn /\ s.epoch \in Nat
    BY <1>1 DEF State
  <2> QED  BY <1>1, <2>1, SMT
<1>3. PICK i \in 1 .. Len(s.entries) :
        /\ FirstUntried(s, epoch, i)
        /\ IF Attempted(s, i)
           THEN /\ s' = Replay(s, epoch, i)
                /\ Start("consumer", "send",
                         Pub(s.entries[i].msg, s.entries[i].packetID, TRUE))
           ELSE \E pid \in PacketIDs :
                  /\ FirstFree(s, pid)
                  /\ s' = FirstAttempt(s, epoch, i, pid)
                  /\ Start("consumer", "send", Pub(s.entries[i].msg, pid, FALSE))
  BY DEF ConsumerNext
<1>4. /\ s.entries[i] \in Entry /\ s.entries[i].packetID \in 0 .. MaxPacketID
  BY <1>1, EntryType
<1>5. s.entries[i].lastEpoch # s.epoch /\ \A j \in 1 .. i - 1 : s.entries[j].lastEpoch = s.epoch
  BY <1>1, <1>3 DEF FirstUntried
<1>6. ~s.paused /\ ~s.deleted
  BY <1>1 DEF MayDeliver
<1>7. CASE Attempted(s, i)
  <2> DEFINE e == [s.entries[i] EXCEPT !.lastEpoch = epoch]
             pid == s.entries[i].packetID
  <2>1. s' = Replay(s, epoch, i) /\ Start("consumer", "send", Pub(s.entries[i].msg, pid, TRUE))
    BY <1>3, <1>7
  <2>2. s' \in State /\ QueueInv(s', admitted)
    BY <1>1, <1>2, <1>3, <1>7, <2>1, NextTypes, ReplayQueue
  <2>3. /\ s'.entries = [s.entries EXCEPT ![i] = e] /\ s'.epoch = s.epoch
        /\ s'.deleted = s.deleted
    BY <1>1, <2>1 DEF Replay, State
  <2>4. e.msg = s.entries[i].msg /\ e.packetID = pid /\ e.lastEpoch = epoch
    BY <1>4 DEF Entry
  <2>5. pid \in PacketIDs
    BY <1>4, <1>7, SMT DEF Attempted, PacketIDs
  <2>6. /\ Len(s'.entries) = Len(s.entries) /\ s'.entries[i] = e
        /\ \A j \in 1 .. Len(s.entries) \ {i} : s'.entries[j] = s.entries[j]
    <3> HIDE DEF e, pid
    <3> QED  BY <1>1, <2>3, SMT
  <2> HIDE DEF e
  <2>7. Tries(i, pid, TRUE)
    BY <1>1, <1>5, <1>6, <1>7, <2>2, <2>3, <2>4, <2>6 DEF Tries
  <2> QED  BY <1>1, <1>6, <2>1, <2>5, <2>7
<1>8. CASE ~Attempted(s, i)
  <2>1. PICK pid \in PacketIDs :
          /\ FirstFree(s, pid) /\ s' = FirstAttempt(s, epoch, i, pid)
          /\ Start("consumer", "send", Pub(s.entries[i].msg, pid, FALSE))
    BY <1>3, <1>8
  <2> DEFINE e == [s.entries[i] EXCEPT !.packetID = pid, !.lastEpoch = epoch]
  <2>2. s' \in State /\ QueueInv(s', admitted)
    BY <1>1, <1>2, <1>3, <1>8, <2>1, NextTypes, FirstAttemptQueue
  <2>3. /\ s'.entries = [s.entries EXCEPT ![i] = e] /\ s'.epoch = s.epoch
        /\ s'.deleted = s.deleted
    BY <1>1, <2>1 DEF FirstAttempt, State
  <2>4. e.msg = s.entries[i].msg /\ e.packetID = pid /\ e.lastEpoch = epoch
    BY <1>4 DEF Entry
  <2>5. /\ Len(s'.entries) = Len(s.entries) /\ s'.entries[i] = e
        /\ \A j \in 1 .. Len(s.entries) \ {i} : s'.entries[j] = s.entries[j]
    <3> HIDE DEF e
    <3> QED  BY <1>1, <2>3, SMT
  <2> HIDE DEF e
  <2>6. Tries(i, pid, FALSE)
    BY <1>1, <1>5, <1>6, <1>8, <2>2, <2>3, <2>4, <2>5 DEF Tries
  <2> QED  BY <1>1, <1>6, <2>1, <2>6
<1> QED  BY <1>7, <1>8

LEMMA PubFields ==
  ASSUME NEW m, NEW pid, NEW dup
  PROVE  /\ Pub(m, pid, dup).msg = m /\ Pub(m, pid, dup).pid = pid
         /\ Pub(m, pid, dup).dup = dup /\ Pub(m, pid, dup).kind = "publish"
BY DEF Pub

\* The publish Next returns is newer than all of this connection, and it is a DUP
\* exactly when an earlier connection may have carried it.
LEMMA TriesFlow ==
  ASSUME DeliveryInv, NEW i \in 1 .. Len(s.entries), NEW pid \in PacketIDs,
         NEW dup \in BOOLEAN, NEW p, p = Pub(s.entries[i].msg, pid, dup),
         Tries(i, pid, dup), ~Unsent, Unsent', carries'["consumer"] = p,
         content' = content, consumer # "off", consumer' # "off",
         UNCHANGED <<received, acked, past, conn, admitted>>, s.epoch \in 1 .. conn
  PROVE  Flow' /\ History'
<1>1. /\ Calls /\ Sess /\ Flow /\ Peer /\ History
      /\ received' = received /\ acked' = acked /\ past' = past /\ conn' = conn
      /\ admitted' = admitted
  BY DEF DeliveryInv
<1>2. /\ s'.epoch = s.epoch /\ Len(s'.entries) = Len(s.entries)
      /\ \A j \in 1 .. Len(s.entries) \ {i} : s'.entries[j] = s.entries[j]
      /\ s'.entries[i].msg = s.entries[i].msg
      /\ s'.entries[i].packetID = pid /\ s'.entries[i].lastEpoch = s.epoch
      /\ s.entries[i].lastEpoch # s.epoch
      /\ \A j \in 1 .. i - 1 : s.entries[j].lastEpoch = s.epoch
      /\ IF Attempted(s, i) THEN pid = s.entries[i].packetID /\ dup ELSE ~dup
  BY DEF Tries
<1>3. p.msg = s.entries[i].msg /\ p.pid = pid /\ p.dup = dup /\ p.kind = "publish"
  BY SMT DEF Pub
<1>4. \A k : IsPub(k)' <=> IsPub(k)
  BY DEF IsPub
<1>5. \A q : q \in Outgoing' <=> q \in Outgoing \/ q = p
  BY DEF Outgoing
<1>6. \A q \in Outgoing : q.msg < p.msg
  BY <1>1, <1>2, <1>3 DEF Flow
<1>7. \A k \in 1 .. Len(content) : IsPub(k) => content[k] \in Outgoing
  BY DEF IsPub, Outgoing
<1>8. s \in State /\ QueueInv(s, admitted) /\ s.epoch \in Nat /\ conn \in Nat
  BY <1>1 DEF Sess, State
<1>9. \A x \in Everything : x.msg = p.msg => Attempted(s, i) /\ x.pid = pid
  <2> SUFFICES ASSUME NEW x \in Everything, x.msg = p.msg PROVE Attempted(s, i) /\ x.pid = pid
    OBVIOUS
  <2>1. s.entries[i].packetID = x.pid
    BY <1>1, <1>3 DEF History
  <2>2. x.pid \in PacketIDs
    BY <1>1, EverythingType DEF Copies
  <2>3. x.pid # 0
    BY <2>2, SMT DEF PacketIDs
  <2> QED  BY <1>2, <2>1, <2>3 DEF Attempted
<1>10. p.msg <= admitted /\ (p.dup => conn > 1)
  <2>1. /\ s.entries[i].msg <= admitted /\ s.entries[i].lastEpoch <= s.epoch
        /\ Attempted(s, i) => s.entries[i].lastEpoch # 0
    BY <1>8 DEF QueueInv
  <2>2. s.entries[i].lastEpoch \in Nat
    BY <1>8, EntryType
  <2>3. s.entries[i].lastEpoch # 0 => conn > 1
    BY <1>2, <1>8, <2>1, <2>2, SMT
  <2> QED  BY <1>2, <1>3, <2>1, <2>3
<1>11. \A j \in 1 .. Len(s.entries) \ {i} :
         s.entries[j].lastEpoch # s.epoch => p.msg < s.entries[j].msg
  <2> SUFFICES ASSUME NEW j \in 1 .. Len(s.entries) \ {i}, s.entries[j].lastEpoch # s.epoch
               PROVE  s.entries[i].msg < s.entries[j].msg
    BY <1>3
  <2>1. j \notin 1 .. i - 1
    BY <1>2
  <2>2. i < j
    BY <2>1, SMT
  <2> QED  BY <1>8, <2>2 DEF QueueInv
<1>12. \A j \in 1 .. Len(s.entries) :
         /\ s'.entries[j].msg = s.entries[j].msg
         /\ s.entries[j].lastEpoch = s.epoch => s'.entries[j] = s.entries[j]
  BY <1>2
<1>13. Flow'
  <2>1. ASSUME NEW q, Tracked(q) PROVE Tracked(q)'
    <3>1. PICK j \in 1 .. Len(s.entries) :
            /\ s.entries[j].msg = q.msg /\ s.entries[j].packetID = q.pid
            /\ s.entries[j].lastEpoch = s.epoch
      BY <2>1 DEF Tracked
    <3>2. s'.entries[j] = s.entries[j] /\ j \in 1 .. Len(s'.entries) /\ s'.epoch = s.epoch
      BY <1>2, <1>12, <3>1
    <3> QED  BY <3>1, <3>2 DEF Tracked
  <2>2. \A m : Answered(m)' <=> Answered(m)
    BY <1>1 DEF Answered
  <2>3. Tracked(p)'
    BY <1>2, <1>3 DEF Tracked
  <2>4. ASSUME NEW q \in Outgoing'
        PROVE  /\ q.msg <= admitted' /\ (q.dup => conn' > 1)
               /\ Tracked(q)' \/ Answered(q.msg)'
               /\ \A x \in past' : x.msg = q.msg => q.dup
    <3>1. CASE q \in Outgoing
      BY <1>1, <2>1, <2>2, <3>1 DEF Flow
    <3>2. CASE q = p
      <4>1. \A x \in past : x.msg = p.msg => p.dup
        BY <1>2, <1>3, <1>9 DEF Everything
      <4> QED  BY <1>1, <1>10, <2>3, <3>2, <4>1
    <3> QED  BY <1>5, <3>1, <3>2
  <2>5. ASSUME NEW j \in 1 .. Len(s'.entries)
        PROVE  IF s'.entries[j].lastEpoch = s'.epoch
               THEN \E q \in Outgoing' : q.msg = s'.entries[j].msg
               ELSE \A q \in Outgoing' : q.msg < s'.entries[j].msg
    <3>1. CASE j = i
      BY <1>2, <1>3, <1>5, <3>1
    <3>2. CASE j # i
      <4>1. j \in 1 .. Len(s.entries) \ {i} /\ s'.entries[j] = s.entries[j]
        BY <1>2, <3>2
      <4>2. IF s.entries[j].lastEpoch = s.epoch
            THEN \E q \in Outgoing : q.msg = s.entries[j].msg
            ELSE \A q \in Outgoing : q.msg < s.entries[j].msg
        BY <1>1, <4>1 DEF Flow
      <4> QED  BY <1>2, <1>5, <1>11, <4>1, <4>2
    <3> QED  BY <3>1, <3>2
  <2>6. \A k \in 1 .. Len(content) : IsPub(k) => content[k].msg < carries'["consumer"].msg
    BY <1>6, <1>7
  <2> QED  BY <1>1, <1>4, <2>4, <2>5, <2>6 DEF Flow
<1>14. History'
  <2>1. Everything' = Everything
    BY <1>1 DEF Everything
  <2>2. ASSUME NEW x \in Everything, NEW j \in 1 .. Len(s.entries), s'.entries[j].msg = x.msg
        PROVE  s'.entries[j].packetID = x.pid
    <3>1. CASE j = i
      BY <1>2, <1>3, <1>9, <2>2, <3>1
    <3>2. CASE j # i
      <4>1. s'.entries[j] = s.entries[j]
        BY <1>2, <3>2
      <4> QED  BY <1>1, <2>2, <4>1 DEF History
    <3> QED  BY <3>1, <3>2
  <2> QED  BY <1>1, <1>2, <2>1, <2>2 DEF History
<1> QED  BY <1>13, <1>14

LEMMA DeliverKeeps ==
  ASSUME DeliveryInv, ConsumerNext, HasNext(s, epoch)
  PROVE  DeliveryInv'
<1>1. ClientOrder /\ Calls /\ Sess /\ Flow /\ Peer /\ History /\ Reply
  BY DEF DeliveryInv
<1>2. ~s.paused /\ s.epoch \in 1 .. conn
  BY <1>1, NextTries
<1>3. PICK i \in 1 .. Len(s.entries), pid \in PacketIDs, dup \in BOOLEAN :
        /\ Tries(i, pid, dup)
        /\ Start("consumer", "send", Pub(s.entries[i].msg, pid, dup))
  BY <1>1, NextTries
<1> DEFINE p == Pub(s.entries[i].msg, pid, dup)
<1>4. consumer = "next" /\ consumer' = "send"
  BY DEF ConsumerNext
<1>5. /\ content' = content /\ received' = received /\ acked' = acked /\ past' = past
      /\ conn' = conn /\ admitted' = admitted /\ handler' = handler /\ epoch' = epoch
      /\ publisher' = publisher /\ ready' = ready /\ mark' = mark
      /\ subscribes' = subscribes
  BY DEF ConsumerNext, peerVars, countVars
<1>6. p \in Packets /\ p.kind = "publish"
  <2>1. s.entries[i].msg \in Nat \ {0}
    BY <1>1, EntryType DEF Sess
  <2> QED  BY <2>1, PubFields DEF Pub, Publishes, Packets
<1>7. /\ call' \in [Caller -> {"idle", "enqueue", "send", "wait", "late", "closing"}]
      /\ packet' \in [Caller -> Nat] /\ DOMAIN outcome' = Caller
      /\ carries' \in [Caller -> Packets]
      /\ packet'["consumer"] = 0 /\ carries'["consumer"] = p
      /\ \/ call'["consumer"] = "idle" /\ outcome'["consumer"] = "closed"
         \/ call'["consumer"] = "send"
      /\ \A d \in Caller \ {"consumer"} :
           /\ call'[d] = call[d] /\ packet'[d] = packet[d]
           /\ outcome'[d] = outcome[d] /\ carries'[d] = carries[d]
      /\ UNCHANGED <<sendQ, accepted, writer, current>>
  <2> HIDE DEF p
  <2>1. Start("consumer", "send", p)
    BY <1>3 DEF p
  <2> QED  BY <1>1, <1>6, <2>1, Callers, StartEffect
<1>8. ~Unsent /\ Unsent'
  BY <1>1, <1>4, <1>6, <1>7 DEF Calls, Unsent
<1>9. consumer # "off" /\ consumer' # "off"
  BY <1>4
<1>10. Flow' /\ History'
  <2>1. p = Pub(s.entries[i].msg, pid, dup) /\ carries'["consumer"] = p
    BY <1>7
  <2> HIDE DEF p
  <2> QED  BY <1>2, <1>3, <1>5, <1>8, <1>9, <2>1, TriesFlow
<1> HIDE DEF p
<1>11. ClientOrder' /\ Peer'
  <2>1. ClientStill
    BY <1>5, <1>7 DEF ClientStill
  <2>2. acked' \subseteq DOMAIN received
    BY <1>1, <1>5 DEF Peer
  <2> QED  BY <1>1, <2>1, <2>2, ClientStays
<1>12. Sess'
  <2>1. s' \in State /\ ~s'.deleted /\ QueueInv(s', admitted) /\ s'.epoch = s.epoch
    BY <1>3 DEF Tries
  <2>2. epoch = s.epoch /\ (handler \notin {"connack", "connackSent", "begin"})
    BY <1>1, <1>9 DEF Sess
  <2> QED  BY <1>1, <1>2, <1>5, <1>9, <2>1, <2>2 DEF Sess
<1>13. Calls'
  <2>1. SendCall("consumer")'
    BY <1>7 DEF SendCall
  <2>2. call'["consumer"] \notin {"wait", "late", "enqueue"}
    BY <1>7
  <2> QED  BY <1>1, <1>4, <1>5, <1>7, <1>8, <2>1, <2>2, Callers, CallsBy
<1>14. Reply'
  <2>1. packet'["handler"] = packet["handler"]
    BY <1>7, Callers
  <2>2. (Leaving' <=> Leaving) /\ (AwaitsSuback' <=> AwaitsSuback)
    BY <1>5, <2>1 DEF Leaving, AwaitsSuback
  <2>3. \A k : IsPub(k)' <=> IsPub(k)
    BY <1>5 DEF IsPub
  <2>4. mark # -1 /\ ~Leaving => ~AwaitsSuback
    BY <1>1, <1>2 DEF Reply
  <2> QED  BY <1>1, <1>5, <1>9, <2>1, <2>2, <2>3, <2>4 DEF Reply
<1> QED  BY <1>10, <1>11, <1>12, <1>13, <1>14 DEF DeliveryInv

\* The publish the peer answers is queued: Ack removes just that message.
LEMMA AckFacts ==
  ASSUME DeliveryInv, NEW i \in DOMAIN received, PubAck(i)
  PROVE  \E j \in 1 .. Len(s.entries) :
           /\ s.entries[j].msg = received[i].msg
           /\ received[i].pid \in PacketIDs /\ s.inflight[received[i].pid] # Nil
           /\ s.inflight[received[i].pid] = s.entries[j].msg
           /\ s' = Ack(s, received[i].pid, j)
<1> DEFINE pid == received[i].pid
           m == received[i].msg
<1>1. i \notin acked
  BY DEF PubAck
<1>2. PICK k \in 1 .. Len(content) : IsPub(k) /\ received[i] = Copy(content[k])
  BY DEF DeliveryInv, Peer
<1>3. content[k].msg = m /\ content[k].pid = pid
  BY <1>2, CopyFields
<1>4. content[k] \in Outgoing
  BY <1>2 DEF IsPub, Outgoing
<1>5. m \in Nat \ {0} /\ pid \in PacketIDs
  <2>1. received \in Seq(Copies)
    BY DEF DeliveryInv, Peer
  <2>2. received[i] \in Copies
    BY <2>1, SMT
  <2> QED  BY <2>2 DEF Copies
<1>6. ~Answered(m)
  <2> SUFFICES ASSUME NEW a \in acked, received[a].msg = m PROVE FALSE
    BY DEF Answered
  <2>1. a \in DOMAIN received /\ a # i
    BY <1>1 DEF DeliveryInv, Peer
  <2>2. /\ a < i => received[a].msg < m
        /\ i < a => m < received[a].msg
    BY <2>1 DEF DeliveryInv, Peer
  <2>3. a \in Int /\ i \in Int
    <3>1. received \in Seq(Copies)
      BY DEF DeliveryInv, Peer
    <3> QED  BY <2>1, <3>1, SMT
  <2> HIDE DEF m, pid
  <2> QED  BY <1>5, <2>1, <2>2, <2>3, SMT
<1>7. PICK j \in 1 .. Len(s.entries) :
        s.entries[j].msg = m /\ s.entries[j].packetID = pid
  <2>1. Tracked(content[k])
    BY <1>3, <1>4, <1>6 DEF DeliveryInv, Flow
  <2> QED  BY <1>3, <2>1 DEF Tracked
<1>8. s.inflight[pid] = m /\ s.inflight[pid] # Nil
  <2>1. pid # 0 /\ m # 0
    <3> HIDE DEF pid, m
    <3> QED  BY <1>5, SMT DEF PacketIDs
  <2>2. Attempted(s, j)
    BY <1>7, <2>1 DEF Attempted
  <2>3. InflightAgrees(s)
    BY DEF DeliveryInv, Sess, QueueInv
  <2> QED  BY <1>7, <2>1, <2>2, <2>3 DEF InflightAgrees, Nil
<1>9. (CHOOSE l \in 1 .. Len(s.entries) : s.entries[l].msg = s.inflight[pid]) = j
  <2>1. Sess
    BY DEF DeliveryInv
  <2>2. \A l \in 1 .. Len(s.entries) : s.entries[l].msg = s.inflight[pid] => l = j
    BY <1>7, <1>8, <2>1, SamePlace
  <2> QED  BY <1>7, <1>8, <2>2
<1>10. s' = Ack(s, pid, j)
  BY <1>8, <1>9 DEF PubAck
<1> QED  BY <1>5, <1>7, <1>8, <1>10

\* The queue of t is that of s without its j-th message.
Shorter(t, j) ==
  /\ t \in State /\ ~t.deleted /\ QueueInv(t, admitted)
  /\ t.epoch = s.epoch /\ t.paused = s.paused
  /\ \A l \in 1 .. Len(t.entries) :
       \E k \in 1 .. Len(s.entries) : k # j /\ t.entries[l] = s.entries[k]
  /\ \A k \in 1 .. Len(s.entries) :
       k # j => \E l \in 1 .. Len(t.entries) : t.entries[l] = s.entries[k]

LEMMA AckEntries ==
  ASSUME Sess, NEW j \in 1 .. Len(s.entries), NEW pid \in PacketIDs,
         s.inflight[pid] # Nil, s.inflight[pid] = s.entries[j].msg
  PROVE  Shorter(Ack(s, pid, j), j)
<1> DEFINE t == Ack(s, pid, j)
<1>1. /\ s \in State /\ ~s.deleted /\ admitted \in Nat /\ QueueInv(s, admitted)
      /\ s.entries \in Seq(Entry)
  BY DEF Sess, State
<1>2. t \in State /\ QueueInv(t, admitted)
  BY <1>1, AckType, AckQueue
<1>3. /\ t.epoch = s.epoch /\ t.paused = s.paused /\ t.deleted = s.deleted
      /\ t.entries = Removed(s.entries, j)
  BY <1>1 DEF Ack, notifyLocked, State
<1>4. /\ Len(t.entries) = Len(s.entries) - 1 /\ Len(s.entries) \in Nat
      /\ \A l \in 1 .. Len(s.entries) - 1 :
           t.entries[l] = IF l < j THEN s.entries[l] ELSE s.entries[l + 1]
  <2>1. Len(s.entries) \in Nat
    BY <1>1, SMT
  <2> QED  BY <1>1, <1>3, <2>1, RemovedProperties
<1>5. ASSUME NEW l \in 1 .. Len(t.entries)
      PROVE  \E k \in 1 .. Len(s.entries) : k # j /\ t.entries[l] = s.entries[k]
  <2>1. CASE l < j
    <3>1. l \in 1 .. Len(s.entries) /\ l # j /\ l \in 1 .. Len(s.entries) - 1
      BY <1>4, <2>1, SMT
    <3> QED  BY <1>4, <2>1, <3>1
  <2>2. CASE ~(l < j)
    <3>1. l + 1 \in 1 .. Len(s.entries) /\ l + 1 # j /\ l \in 1 .. Len(s.entries) - 1
      BY <1>4, <2>2, SMT
    <3> QED  BY <1>4, <2>2, <3>1
  <2> QED  BY <2>1, <2>2
<1>6. ASSUME NEW k \in 1 .. Len(s.entries), k # j
      PROVE  \E l \in 1 .. Len(t.entries) : t.entries[l] = s.entries[k]
  <2>1. CASE k < j
    <3>1. k \in 1 .. Len(t.entries) /\ k \in 1 .. Len(s.entries) - 1
      BY <1>4, <2>1, SMT
    <3> QED  BY <1>4, <2>1, <3>1
  <2>2. CASE ~(k < j)
    <3>1. /\ k - 1 \in 1 .. Len(t.entries) /\ k - 1 \in 1 .. Len(s.entries) - 1
          /\ ~(k - 1 < j) /\ k - 1 + 1 = k
      BY <1>4, <1>6, <2>2, SMT
    <3> QED  BY <1>4, <3>1
  <2> QED  BY <2>1, <2>2
<1> HIDE DEF t
<1>7. Shorter(t, j)
  BY <1>1, <1>2, <1>3, <1>5, <1>6 DEF Shorter
<1> QED  BY <1>7 DEF t

LEMMA AckKeeps ==
  ASSUME DeliveryInv, NEW i \in DOMAIN received, PubAck(i)
  PROVE  DeliveryInv'
<1>1. ClientOrder /\ Calls /\ Sess /\ Flow /\ Peer /\ History /\ Reply
  BY DEF DeliveryInv
<1>2. /\ content' = content /\ received' = received /\ past' = past /\ mark' = mark
      /\ subscribes' = subscribes
      /\ conn' = conn /\ admitted' = admitted /\ handler' = handler /\ epoch' = epoch
      /\ consumer' = consumer /\ publisher' = publisher /\ ready' = ready
      /\ carries' = carries /\ packet' = packet /\ call' = call /\ outcome' = outcome
      /\ sendQ' = sendQ /\ accepted' = accepted /\ writer' = writer /\ current' = current
      /\ acked' = acked \cup {i}
  BY DEF PubAck, clientVars, countVars
<1>3. PICK j \in 1 .. Len(s.entries) :
        /\ s.entries[j].msg = received[i].msg
        /\ received[i].pid \in PacketIDs /\ s.inflight[received[i].pid] # Nil
        /\ s.inflight[received[i].pid] = s.entries[j].msg
        /\ s' = Ack(s, received[i].pid, j)
  BY AckFacts
<1>4. /\ s' \in State /\ ~s'.deleted /\ QueueInv(s', admitted)
      /\ s'.epoch = s.epoch /\ s'.paused = s.paused
      /\ \A l \in 1 .. Len(s'.entries) :
           \E k \in 1 .. Len(s.entries) : k # j /\ s'.entries[l] = s.entries[k]
      /\ \A k \in 1 .. Len(s.entries) :
           k # j => \E l \in 1 .. Len(s'.entries) : s'.entries[l] = s.entries[k]
  <2>1. Shorter(Ack(s, received[i].pid, j), j)
    BY <1>1, <1>3, AckEntries
  <2>2. Shorter(s', j)
    BY <1>3, <2>1
  <2> QED  BY <2>2 DEF Shorter
<1>5. Outgoing' = Outgoing /\ (Unsent' <=> Unsent) /\ \A k : IsPub(k)' <=> IsPub(k)
  BY <1>2, SameOutgoing
<1>6. Flow'
  <2>1. \A m : Answered(m) => Answered(m)'
    BY <1>2 DEF Answered
  <2>3. ASSUME NEW p, Tracked(p) PROVE Tracked(p)' \/ Answered(p.msg)'
    <3>1. PICK k \in 1 .. Len(s.entries) :
            /\ s.entries[k].msg = p.msg /\ s.entries[k].packetID = p.pid
            /\ s.entries[k].lastEpoch = s.epoch
      BY <2>3 DEF Tracked
    <3>2. CASE k = j
      BY <1>2, <1>3, <3>1, <3>2 DEF Answered
    <3>3. CASE k # j
      BY <1>4, <3>1, <3>3 DEF Tracked
    <3> QED  BY <3>2, <3>3
  <2>4. \A p \in Outgoing : Tracked(p)' \/ Answered(p.msg)'
    BY <1>1, <2>1, <2>3 DEF Flow
  <2>5. consumer # "off" =>
           \A l \in 1 .. Len(s'.entries) :
             IF s'.entries[l].lastEpoch = s'.epoch
             THEN \E p \in Outgoing : p.msg = s'.entries[l].msg
             ELSE \A p \in Outgoing : p.msg < s'.entries[l].msg
    <3> SUFFICES ASSUME consumer # "off", NEW l \in 1 .. Len(s'.entries)
                 PROVE  IF s'.entries[l].lastEpoch = s'.epoch
                        THEN \E p \in Outgoing : p.msg = s'.entries[l].msg
                        ELSE \A p \in Outgoing : p.msg < s'.entries[l].msg
      OBVIOUS
    <3>1. PICK k \in 1 .. Len(s.entries) : s'.entries[l] = s.entries[k]
      BY <1>4
    <3>2. IF s.entries[k].lastEpoch = s.epoch
          THEN \E p \in Outgoing : p.msg = s.entries[k].msg
          ELSE \A p \in Outgoing : p.msg < s.entries[k].msg
      BY <1>1 DEF Flow
    <3> QED  BY <1>4, <3>1, <3>2
  <2> QED  BY <1>1, <1>2, <1>5, <2>4, <2>5 DEF Flow
<1>7. ClientOrder' /\ Peer'
  <2>1. ClientStill
    BY <1>2 DEF ClientStill
  <2>2. acked' \subseteq DOMAIN received
    BY <1>1, <1>2 DEF Peer
  <2> QED  BY <1>1, <2>1, <2>2, ClientStays
<1>8. History'
  <2>1. Everything' = Everything
    BY <1>2 DEF Everything
  <2>2. ASSUME NEW x \in Everything
        PROVE  /\ x.msg <= admitted
               /\ \A l \in 1 .. Len(s'.entries) :
                    s'.entries[l].msg = x.msg => s'.entries[l].packetID = x.pid
    <3>1. /\ x.msg <= admitted
          /\ \A k \in 1 .. Len(s.entries) :
               s.entries[k].msg = x.msg => s.entries[k].packetID = x.pid
      BY <1>1 DEF History
    <3> QED  BY <1>4, <3>1
  <2> QED  BY <1>2, <2>1, <2>2 DEF History
<1>9. Sess'
  BY <1>1, <1>2, <1>4 DEF Sess
<1>10. Calls'
  <2>1. Unsent => consumer' \in {"send", "exited"}
    BY <1>1, <1>2 DEF Calls
  <2> QED  BY <1>1, <1>2, <2>1, CallsMove
<1>11. Reply'
  <2>1. (Leaving' <=> Leaving) /\ (AwaitsSuback' <=> AwaitsSuback)
    BY <1>2 DEF Leaving, AwaitsSuback
  <2> QED  BY <1>1, <1>2, <1>4, <1>5, <2>1 DEF Reply
<1> QED  BY <1>6, <1>7, <1>8, <1>9, <1>10, <1>11 DEF DeliveryInv

(***************************************************************************)
(* Every step.                                                             *)
(***************************************************************************)

LEMMA DeliverySteps ==
  ASSUME DeliveryInv, [Next]_vars
  PROVE  DeliveryInv'
<1>1. CASE \E c \in Caller : ClientStep(c)
  BY <1>1, ProceedIdle, ProceedAccepts
<1>2. CASE WriterStep
  BY <1>2, WriterKeeps
<1>3. CASE Consumer
  <2>1. CASE ConsumerLoop \/ ConsumerWait
    BY <2>1, ConsumerMoves
  <2>2. CASE ConsumerNext
    BY <2>2, ConsumerMoves, DeliverKeeps
  <2>3. CASE ConsumerSent
    BY <2>3, ConsumerMoves, Closes
  <2> QED  BY <1>3, <2>1, <2>2, <2>3 DEF Consumer
<1>4. CASE Handle
  <2>1. CASE SendConnack \/ SendSuback
    BY <2>1, HandlerStarts
  <2>2. CASE MarkReady \/ Resume \/ BeginClosing \/ Release
    BY <2>2, HandlerMoves
  <2>3. CASE StartConsumer
    BY <2>3, StartConsumerKeeps
  <2>4. CASE SendRetained
    <3>1. \/ /\ admitted' = admitted + 1 /\ s' = Admit(s, admitted', 1)
             /\ UNCHANGED <<clientVars, carries>>
          \/ Start("handler", "enqueue", QoS0) /\ UNCHANGED <<s, admitted>>
          \/ UNCHANGED <<clientVars, carries, s, admitted>>
      BY <2>4 DEF SendRetained
    <3> QED  BY <2>4, <3>1, AdmitSteps, HandlerStarts, NothingRetained
  <2>5. CASE CloseClient
    BY <2>5, Closes
  <2> QED  BY <1>4, <2>1, <2>2, <2>3, <2>4, <2>5 DEF Handle
<1>5. CASE Replies
  BY <1>5, AckKeeps DEF Replies
<1>6. CASE HandleSubscribe \/ Disconnect
  BY <1>6, HandlerMoves
<1>7. CASE Reconnect
  BY <1>7, ReconnectKeeps
<1>8. CASE AdmitLive
  BY <1>8, AdmitSteps
<1>9. CASE EnqueueLive
  BY <1>9, PublisherStarts
<1>10. CASE Publish
  <2>1. CASE ClosedLive
    BY <2>1, HandlerMoves
  <2>2. CASE EnqueuedLive
    BY <2>2, HandlerMoves, Closes
  <2> QED  BY <1>10, <2>1, <2>2 DEF Publish
<1>11. CASE UNCHANGED vars
  <2>1. Unmoved /\ ClientStill /\ received' = received /\ acked' = acked
    BY <1>11 DEF vars, clientVars, peerVars, countVars, Unmoved, ClientStill
  <2>2. acked' \subseteq DOMAIN received
    BY <2>1 DEF DeliveryInv, Peer
  <2> QED  BY <2>1, <2>2, Bystanders, ClientStays DEF DeliveryInv
<1> QED  BY <1>1, <1>2, <1>3, <1>4, <1>5, <1>6, <1>7, <1>8, <1>9, <1>10, <1>11
         DEF Next, Finished

LEMMA DeliveryInductive == Spec => []DeliveryInv
<1>1. Init => DeliveryInv
  BY InitDelivery
<1>2. DeliveryInv /\ [Next]_vars => DeliveryInv'
  BY DeliverySteps
<1> QED  BY <1>1, <1>2, PTL DEF Spec, Safe

\* For every number of messages, connections and packets: CONNACK is the first
\* packet of every connection, and no QoS 1 message accepted since a SUBSCRIBE took
\* effect overtakes its SUBACK on the way through the client's queue.
THEOREM RepliesCorrect == Spec => []RepliesFirst
<1>1. DeliveryInv => RepliesFirst
  <2> SUFFICES ASSUME DeliveryInv PROVE RepliesFirst
    OBVIOUS
  <2>1. content # <<>> => content[1] = Connack
    BY DEF DeliveryInv, Reply
  <2>2. ASSUME NEW i \in 1 .. Len(content), mark # -1, ~Leaving,
               content[i].kind = "publish", content[i].msg > mark
        PROVE  \E j \in 1 .. i - 1 : content[j] = Suback(subscribes)
    <3>1. content[i] \in Outgoing /\ IsPub(i)
      BY <2>2 DEF Outgoing, IsPub
    <3>2. content[i].msg \in Nat /\ mark \in Int
      BY <3>1, OutgoingType DEF Publishes, DeliveryInv, Sess
    <3>3. ~(content[i].msg <= mark)
      BY <2>2, <3>2, SMT
    <3>4. ~AwaitsSuback
      BY <2>2, <3>1, <3>3 DEF DeliveryInv, Reply
    <3>5. PICK j \in 1 .. Len(content) :
            /\ content[j] = Suback(subscribes)
            /\ \A k \in 1 .. j : IsPub(k) => content[k].msg <= mark
      BY <2>2, <3>4 DEF DeliveryInv, Reply
    <3>6. i \notin 1 .. j
      BY <3>1, <3>3, <3>5
    <3>7. j \in 1 .. i - 1
      BY <3>6, SMT
    <3> QED  BY <3>5, <3>7
  <2> QED  BY <2>1, <2>2 DEF RepliesFirst
<1> QED  BY <1>1, DeliveryInductive, PTL

(***************************************************************************)
(* The delivery path implements AtLeastOnce.                               *)
(***************************************************************************)

AckedMsgs == (1 .. admitted) \ Pending(s)
SentMsgs == {[msg |-> p.msg, pid |-> p.pid] : p \in Everything}

\* Nothing that AtLeastOnce speaks of changes.
Quiet ==
  /\ admitted' = admitted /\ conn' = conn /\ received' = received /\ past' = past
  /\ Pending(s') = Pending(s)

LEMMA QuietStutters ==
  ASSUME Quiet
  PROVE  UNCHANGED <<admitted, AckedMsgs, conn, received, SentMsgs>>
<1>1. /\ admitted' = admitted /\ conn' = conn /\ received' = received /\ past' = past
      /\ Pending(s') = Pending(s)
  BY DEF Quiet
<1>2. AckedMsgs' = AckedMsgs
  BY <1>1 DEF AckedMsgs
<1>3. Everything' = Everything
  BY <1>1 DEF Everything
<1>4. SentMsgs' = SentMsgs
  BY <1>3 DEF SentMsgs
<1> QED  BY <1>1, <1>2, <1>4

\* Next attempts a message and leaves it in the queue.
LEMMA TriesQuiet ==
  ASSUME NEW i \in 1 .. Len(s.entries), NEW pid, NEW dup, Tries(i, pid, dup)
  PROVE  Pending(s') = Pending(s)
<1>1. /\ Len(s'.entries) = Len(s.entries)
      /\ \A j \in 1 .. Len(s.entries) \ {i} : s'.entries[j] = s.entries[j]
      /\ s'.entries[i].msg = s.entries[i].msg
  BY DEF Tries
<1>2. \A j \in 1 .. Len(s.entries) : s'.entries[j].msg = s.entries[j].msg
  BY <1>1
<1> QED  BY <1>1, <1>2 DEF Pending

\* The steps no subscriber can tell.
LEMMA GoroutinesQuiet ==
  ASSUME Sess, Consumer
  PROVE  Quiet
<1>1. /\ admitted' = admitted /\ conn' = conn /\ received' = received /\ past' = past
  BY DEF Consumer, ConsumerLoop, ConsumerNext, ConsumerSent, ConsumerWait, peerVars,
         countVars
<1>2. CASE ConsumerNext /\ HasNext(s, epoch)
  BY <1>1, <1>2, NextTries, TriesQuiet DEF Quiet
<1>3. CASE ~(ConsumerNext /\ HasNext(s, epoch))
  <2>1. s' = s \/ s' = [s EXCEPT !.changed = FALSE]
    BY <1>3 DEF Consumer, ConsumerLoop, ConsumerNext, ConsumerSent, ConsumerWait
  <2>2. s'.entries = s.entries
    BY <2>1, QuietSession
  <2> QED  BY <1>1, <2>2 DEF Quiet, Pending
<1> QED  BY <1>2, <1>3

LEMMA OthersQuiet ==
  ASSUME Sess,
         \/ \E c \in Caller : ClientStep(c)
         \/ SendConnack \/ MarkReady \/ StartConsumer \/ SendSuback \/ Resume
         \/ SendRetained /\ UNCHANGED <<s, admitted>>
         \/ BeginClosing \/ CloseClient \/ Release
         \/ HandleSubscribe \/ Disconnect \/ EnqueueLive \/ EnqueuedLive \/ ClosedLive
  PROVE  Quiet
<1>1. /\ admitted' = admitted /\ conn' = conn /\ received' = received /\ past' = past
      /\ \/ s' = s \/ s' = PauseDelivery(s) \/ s' = ResumeDelivery(s)
         \/ s' = MarkDisconnectedAt(s, 0) \/ s' = BeginDelivery(s)
  <2>1. CASE \E c \in Caller : ClientStep(c)
    BY <2>1 DEF ClientStep, peerVars, countVars
  <2>2. CASE SendConnack \/ MarkReady \/ StartConsumer \/ SendSuback \/ Resume
    BY <2>2 DEF SendConnack, MarkReady, StartConsumer, SendSuback, Resume, peerVars,
                countVars
  <2>3. CASE (SendRetained /\ UNCHANGED <<s, admitted>>) \/ BeginClosing \/ CloseClient
              \/ Release
    BY <2>3 DEF SendRetained, BeginClosing, CloseClient, Release, peerVars, countVars
  <2>4. CASE HandleSubscribe \/ Disconnect \/ EnqueueLive \/ EnqueuedLive \/ ClosedLive
    BY <2>4 DEF HandleSubscribe, Disconnect, EnqueueLive, EnqueuedLive, ClosedLive,
                peerVars, countVars
  <2> QED  BY <2>1, <2>2, <2>3, <2>4
<1>2. CASE s' = BeginDelivery(s)
  <2>1. s'.entries = s.entries
    BY <1>2 DEF Sess, State, BeginDelivery, notifyLocked
  <2> QED  BY <1>1, <2>1 DEF Quiet, Pending
<1>3. CASE s' # BeginDelivery(s)
  <2>1. s'.entries = s.entries
    BY <1>1, <1>3, QuietSession
  <2> QED  BY <1>1, <2>1 DEF Quiet, Pending
<1> QED  BY <1>2, <1>3

LEMMA AdmitImplements ==
  ASSUME DeliveryInv, AdmitFrame
  PROVE  Abstract!Admit
<1>1. /\ admitted' = admitted + 1 /\ s' = Admit(s, admitted + 1, 1)
      /\ conn' = conn /\ received' = received /\ past' = past
  BY DEF AdmitFrame
<1>2. /\ Len(s'.entries) = Len(s.entries) + 1 /\ Len(s.entries) \in Nat
      /\ \A j \in 1 .. Len(s.entries) : s'.entries[j] = s.entries[j]
      /\ s'.entries[Len(s.entries) + 1].msg = admitted + 1
  BY <1>1, AdmitEntries DEF DeliveryInv
<1>3. \A j : j \in 1 .. Len(s'.entries) <=>
               j \in 1 .. Len(s.entries) \/ j = Len(s.entries) + 1
  BY <1>2, SMT
<1>4. Pending(s') = Pending(s) \cup {admitted + 1}
  BY <1>2, <1>3 DEF Pending
<1>5. (1 .. admitted') \ {admitted + 1} = 1 .. admitted
  <2>1. admitted \in Nat
    BY DEF DeliveryInv, Sess
  <2> QED  BY <1>1, <2>1, SMT
<1>6. AckedMsgs' = AckedMsgs
  BY <1>4, <1>5 DEF AckedMsgs
<1>7. Everything' = Everything
  BY <1>1 DEF Everything
<1>8. SentMsgs' = SentMsgs
  BY <1>7 DEF SentMsgs
<1> QED  BY <1>1, <1>6, <1>8 DEF Abstract!Admit, AckedMsgs, SentMsgs

LEMMA ReconnectImplements ==
  ASSUME DeliveryInv, Reconnect
  PROVE  Abstract!Reconnect
<1>1. /\ s' = MarkConnected(s) /\ conn' = conn + 1 /\ received' = <<>>
      /\ past' = Everything /\ admitted' = admitted
  BY DEF Reconnect, countVars
<1>2. s'.entries = s.entries
  BY <1>1, QuietSession DEF DeliveryInv
<1>3. AckedMsgs' = AckedMsgs
  BY <1>1, <1>2 DEF AckedMsgs, Pending
<1>4. Everything' = Everything
  <2>1. DOMAIN received' = {}
    BY <1>1, SMT
  <2> QED  BY <1>1, <2>1 DEF Everything
<1>5. SentMsgs' = SentMsgs
  BY <1>4 DEF SentMsgs
<1> QED  BY <1>1, <1>3, <1>5 DEF Abstract!Reconnect, AckedMsgs, SentMsgs

LEMMA AckImplements ==
  ASSUME DeliveryInv, NEW i \in DOMAIN received, PubAck(i)
  PROVE  received[i].msg \in 1 .. admitted /\ Abstract!Acknowledge(received[i].msg)
<1> DEFINE m == received[i].msg
<1>1. /\ admitted' = admitted /\ conn' = conn /\ received' = received /\ past' = past
  BY DEF PubAck, countVars
<1>2. PICK j \in 1 .. Len(s.entries) :
        /\ s.entries[j].msg = m
        /\ received[i].pid \in PacketIDs /\ s.inflight[received[i].pid] # Nil
        /\ s.inflight[received[i].pid] = s.entries[j].msg
        /\ s' = Ack(s, received[i].pid, j)
  BY AckFacts
<1>3. Sess
  BY DEF DeliveryInv
<1>4. Shorter(s', j)
  BY <1>2, <1>3, AckEntries
<1>5. Pending(s') = Pending(s) \ {m}
  <2>1. \A k \in 1 .. Len(s.entries) : s.entries[k].msg = m => k = j
    BY <1>2, <1>3, SamePlace
  <2>2. \A x \in Pending(s') : x \in Pending(s) /\ x # m
    <3> SUFFICES ASSUME NEW l \in 1 .. Len(s'.entries)
                 PROVE  s'.entries[l].msg \in Pending(s) /\ s'.entries[l].msg # m
      BY DEF Pending
    <3>1. PICK k \in 1 .. Len(s.entries) : k # j /\ s'.entries[l] = s.entries[k]
      BY <1>4 DEF Shorter
    <3> HIDE DEF m
    <3> QED  BY <2>1, <3>1 DEF Pending
  <2>3. \A x \in Pending(s) : x # m => x \in Pending(s')
    <3> SUFFICES ASSUME NEW k \in 1 .. Len(s.entries), s.entries[k].msg # m
                 PROVE  s.entries[k].msg \in Pending(s')
      BY DEF Pending
    <3>1. PICK l \in 1 .. Len(s'.entries) : s'.entries[l] = s.entries[k]
      BY <1>2, <1>4 DEF Shorter
    <3> QED  BY <3>1 DEF Pending
  <2> HIDE DEF m
  <2> QED  BY <2>2, <2>3
<1>6. m \in 1 .. admitted
  <2>1. /\ s.entries[j].msg <= admitted /\ s.entries[j].msg \in Nat \ {0}
        /\ admitted \in Nat
    BY <1>3, EntryType DEF Sess, QueueInv
  <2> HIDE DEF m
  <2> QED  BY <1>2, <2>1, SMT
<1>7. AckedMsgs' = AckedMsgs \cup {m}
  <2> HIDE DEF m
  <2> QED  BY <1>1, <1>5, <1>6 DEF AckedMsgs
<1>8. Everything' = Everything
  BY <1>1 DEF Everything
<1>9. SentMsgs' = SentMsgs
  BY <1>8 DEF SentMsgs
<1>10. i \in 1 .. Len(received)
  <2>1. received \in Seq(Copies)
    BY DEF DeliveryInv, Peer
  <2> QED  BY <2>1, SMT
<1>11. Abstract!Carried(m)
  BY <1>10 DEF Abstract!Carried
<1>12. Abstract!Acknowledge(m)
  <2> HIDE DEF m
  <2> QED  BY <1>1, <1>7, <1>9, <1>11 DEF Abstract!Acknowledge, AckedMsgs, SentMsgs
<1> QED  BY <1>6, <1>12

\* Whatever was queued before a message of this connection has been attempted on
\* it, too.
LEMMA EarlierTried ==
  ASSUME Sess, NEW j \in 1 .. Len(s.entries), s.entries[j].packetID # 0,
         s.entries[j].lastEpoch = s.epoch,
         NEW l \in 1 .. Len(s.entries), s.entries[l].msg < s.entries[j].msg
  PROVE  s.entries[l].lastEpoch = s.epoch
<1>1. s \in State /\ ~s.deleted /\ QueueInv(s, admitted)
  BY DEF Sess
<1>2. s.entries[l].msg \in Nat /\ s.entries[j].msg \in Nat
  BY <1>1, EntryType
<1>3. /\ s.activeInflight \in 0 .. Len(s.entries)
      /\ \A k \in 1 .. Len(s.entries) :
           k <= s.activeInflight <=> Attempted(s, k) /\ s.entries[k].lastEpoch = s.epoch
      /\ \A k, n \in 1 .. Len(s.entries) : k < n => s.entries[k].msg < s.entries[n].msg
  BY <1>1 DEF QueueInv
<1>4. ~(j < l) /\ j # l
  <2>1. j < l => s.entries[j].msg < s.entries[l].msg
    BY <1>3
  <2> QED  BY <1>2, <2>1, SMT
<1>5. j <= s.activeInflight
  BY <1>3 DEF Attempted
<1>6. l <= s.activeInflight
  BY <1>3, <1>4, <1>5, SMT
<1> QED  BY <1>3, <1>6

\* A publish is written after all those of this connection that are older.
LEMMA NoGaps ==
  ASSUME DeliveryInv, writer = "write", Written = current - 1, IsPub(current),
         NEW k \in Pending(s), k < content[current].msg
  PROVE  \E i \in DOMAIN received : received[i].msg = k
<1> DEFINE p == content[current]
<1>1. p \in Outgoing /\ p \in Publishes /\ Tracked(p)
  BY CarryFacts
<1>2. Sess /\ Flow /\ Peer
  BY DEF DeliveryInv
<1>3. p.msg \in Nat \ {0} /\ p.pid \in PacketIDs
  BY <1>1 DEF Publishes
<1>4. PICK j \in 1 .. Len(s.entries) :
        /\ s.entries[j].msg = p.msg /\ s.entries[j].packetID = p.pid
        /\ s.entries[j].lastEpoch = s.epoch
  BY <1>1 DEF Tracked
<1>5. PICK l \in 1 .. Len(s.entries) : s.entries[l].msg = k
  BY DEF Pending
<1>6. k \in Nat
  BY <1>2, <1>5, EntryType DEF Sess
<1>7. s.entries[l].lastEpoch = s.epoch
  <2>1. s.entries[j].packetID # 0
    <3> HIDE DEF p
    <3> QED  BY <1>3, <1>4, SMT DEF PacketIDs
  <2>2. s.entries[l].msg < s.entries[j].msg
    BY <1>4, <1>5
  <2> QED  BY <1>2, <1>4, <2>1, <2>2, EarlierTried
<1>8. consumer # "off"
  BY <1>1, <1>2 DEF Flow
<1>9. PICK q \in Outgoing : q.msg = k
  BY <1>2, <1>5, <1>7, <1>8 DEF Flow
<1>10. current \in 1 .. Len(content)
  BY DEF IsPub
<1>11. ~(Unsent /\ q = carries["consumer"])
  <2> SUFFICES ASSUME Unsent, q = carries["consumer"] PROVE FALSE
    OBVIOUS
  <2>1. p.msg < q.msg
    BY <1>2, <1>10 DEF Flow
  <2> HIDE DEF p
  <2>2. k < p.msg
    BY DEF p
  <2> QED  BY <1>3, <1>6, <1>9, <2>1, <2>2, SMT
<1>12. PICK n \in 1 .. Len(content) : IsPub(n) /\ content[n].msg = k
  BY <1>9, <1>11 DEF Outgoing, IsPub
<1>13. n \in 1 .. Written
  <2>1. ~(current < n) /\ n # current
    <3>1. current < n => p.msg < content[n].msg
      BY <1>2, <1>10, <1>12 DEF Flow
    <3>2. k < p.msg
      BY DEF p
    <3>3. n = current => k = p.msg
      BY <1>12
    <3> HIDE DEF p
    <3> QED  BY <1>3, <1>6, <1>12, <3>1, <3>2, <3>3, SMT
  <2> QED  BY <1>10, <2>1, SMT
<1>14. PICK i \in DOMAIN received : received[i] = Copy(content[n])
  BY <1>2, <1>12, <1>13 DEF Peer, Broken
<1> QED  BY <1>12, <1>14, CopyFields

\* What the peer got before is a copy under the same identifier, and no other
\* unacknowledged message has that identifier.
LEMMA SameIdentifier ==
  ASSUME DeliveryInv, writer = "write", Written = current - 1, IsPub(current),
         NEW x \in Everything
  PROVE  /\ x.msg = content[current].msg =>
              x.pid = content[current].pid /\ content[current].dup
         /\ x.pid = content[current].pid =>
              x.msg = content[current].msg \/ x.msg \in AckedMsgs
<1> DEFINE p == content[current]
<1>1. /\ p \in Outgoing /\ p \in Publishes /\ Tracked(p)
      /\ \A i \in DOMAIN received : received[i].msg < p.msg
  BY CarryFacts
<1>2. Sess /\ Flow /\ Peer /\ History
  BY DEF DeliveryInv
<1>3. p.msg \in Nat \ {0} /\ p.pid \in PacketIDs
  BY <1>1 DEF Publishes
<1>4. PICK j \in 1 .. Len(s.entries) :
        s.entries[j].msg = p.msg /\ s.entries[j].packetID = p.pid
  BY <1>1 DEF Tracked
<1>5. /\ x.msg <= admitted
      /\ \A l \in 1 .. Len(s.entries) :
           s.entries[l].msg = x.msg => s.entries[l].packetID = x.pid
  BY <1>2 DEF History
<1>6. ASSUME x.msg = p.msg PROVE x.pid = p.pid /\ p.dup
  <2>1. x.pid = p.pid
    BY <1>4, <1>5, <1>6
  <2>2. \A i \in DOMAIN received : x # received[i]
    <3> SUFFICES ASSUME NEW i \in DOMAIN received, x = received[i] PROVE FALSE
      OBVIOUS
    <3>1. x.msg < p.msg
      BY <1>1
    <3> HIDE DEF p
    <3> QED  BY <1>3, <1>6, <3>1, SMT
  <2>3. x \in past
    BY <2>2 DEF Everything
  <2> QED  BY <1>1, <1>2, <1>6, <2>1, <2>3 DEF Flow
<1>7. ASSUME x.pid = p.pid, x.msg \in Pending(s) PROVE x.msg = p.msg
  <2>1. PICK l \in 1 .. Len(s.entries) : s.entries[l].msg = x.msg
    BY <1>7 DEF Pending
  <2>2. s.entries[l].packetID = p.pid
    BY <1>5, <1>7, <2>1
  <2>3. p.pid # 0
    <3> HIDE DEF p
    <3> QED  BY <1>3, SMT DEF PacketIDs
  <2>4. Attempted(s, l) /\ Attempted(s, j)
    BY <1>4, <2>2, <2>3 DEF Attempted
  <2>5. InflightAgrees(s)
    BY <1>2 DEF Sess, QueueInv
  <2>6. s.inflight[p.pid] = s.entries[l].msg /\ s.inflight[p.pid] = s.entries[j].msg
    BY <1>4, <2>2, <2>4, <2>5 DEF InflightAgrees
  <2> QED  BY <1>4, <2>1, <2>6
<1>8. x.msg \in 1 .. admitted
  <2>1. x \in Copies /\ admitted \in Nat
    BY <1>2, EverythingType DEF Sess
  <2>2. x.msg \in Nat \ {0}
    BY <2>1 DEF Copies
  <2> QED  BY <1>5, <2>1, <2>2, SMT
<1> QED  BY <1>6, <1>7, <1>8 DEF AckedMsgs

LEMMA CarryImplements ==
  ASSUME DeliveryInv, WriterStep, received' # received
  PROVE  \E m \in 1 .. admitted, pid \in PacketIDs, dup \in BOOLEAN :
           Abstract!Carry(m, pid, dup)
<1> DEFINE p == content[current]
<1>1. ClientOrder /\ Sess /\ Flow /\ Peer
  BY DEF DeliveryInv
<1>2. /\ C!writeLoop
      /\ s' = s /\ conn' = conn /\ content' = content /\ past' = past
      /\ admitted' = admitted
      /\ received' = IF writer' = "report" /\ p.kind = "publish"
                     THEN Append(received, Copy(p)) ELSE received
  BY DEF WriterStep, countVars, Copy
<1>3. writer' = "report" /\ p.kind = "publish" /\ received' = Append(received, Copy(p))
  BY <1>2
<1>4. writer = "write" /\ Written = current - 1 /\ IsPub(current)
  <2>1. /\ writer = "write" /\ current \in 1 .. Len(content)
        /\ Written = current - 1
    BY <1>1, <1>2, <1>3, WriterOrder
  <2> QED  BY <1>3, <2>1 DEF IsPub
<1>5. /\ p \in Outgoing /\ p \in Publishes /\ Tracked(p)
      /\ \A i \in DOMAIN received : received[i].msg < p.msg
  BY <1>4, CarryFacts
<1>6. p.msg \in Nat \ {0} /\ p.pid \in PacketIDs /\ p.dup \in BOOLEAN
  BY <1>5 DEF Publishes
<1>7. p.msg <= admitted /\ (p.dup => conn > 1)
  BY <1>1, <1>5 DEF Flow
<1>8. admitted \in Nat /\ received \in Seq(Copies)
  BY <1>1 DEF Sess, Peer
<1>9. DOMAIN received = 1 .. Len(received) /\ Len(received) \in Nat
  BY <1>8, SMT
<1>10. p.msg \in 1 .. admitted
  <2> HIDE DEF p
  <2> QED  BY <1>6, <1>7, <1>8, SMT
<1>11. p.msg \notin AckedMsgs
  BY <1>5 DEF Tracked, AckedMsgs, Pending
<1>12. ~Abstract!Carried(p.msg)
  <2> SUFFICES ASSUME NEW i \in DOMAIN received, received[i].msg = p.msg PROVE FALSE
    BY <1>9 DEF Abstract!Carried
  <2>1. received[i].msg < p.msg
    BY <1>5
  <2> HIDE DEF p
  <2> QED  BY <1>6, <2>1, SMT
<1>13. ASSUME NEW k \in 1 .. p.msg - 1 PROVE k \in AckedMsgs \/ Abstract!Carried(k)
  <2>1. k \in 1 .. admitted /\ k < p.msg
    <3> HIDE DEF p
    <3> QED  BY <1>6, <1>7, <1>8, SMT
  <2>2. CASE k \in Pending(s)
    BY <1>4, <1>9, <2>1, <2>2, NoGaps DEF Abstract!Carried
  <2>3. CASE k \notin Pending(s)
    BY <2>1, <2>3 DEF AckedMsgs
  <2> QED  BY <2>2, <2>3
<1>14. \A x \in SentMsgs : /\ x.msg = p.msg => x.pid = p.pid /\ p.dup
                           /\ x.pid = p.pid => x.msg = p.msg \/ x.msg \in AckedMsgs
  <2>1. \A y \in Everything : /\ y.msg = p.msg => y.pid = p.pid /\ p.dup
                              /\ y.pid = p.pid => y.msg = p.msg \/ y.msg \in AckedMsgs
    BY <1>4, SameIdentifier
  <2>2. \A x \in SentMsgs : \E y \in Everything : x.msg = y.msg /\ x.pid = y.pid
    BY SMT DEF SentMsgs
  <2> HIDE DEF p
  <2> QED  BY <2>1, <2>2
<1>15. Everything' = Everything \cup {Copy(p)}
  <2>1. /\ DOMAIN received' = DOMAIN received \cup {Len(received) + 1}
        /\ \A i \in DOMAIN received : received'[i] = received[i]
        /\ received'[Len(received) + 1] = Copy(p)
    <3>1. Copy(p) \in Copies
      BY <1>6 DEF Copy, Copies
    <3> HIDE DEF p
    <3> QED  BY <1>3, <1>8, <3>1, SMT
  <2>2. past' = past
    BY <1>2
  <2> HIDE DEF p
  <2>3. \A x : x \in Everything' <=> x \in Everything \/ x = Copy(p)
    BY <2>1, <2>2 DEF Everything
  <2> QED  BY <2>3
<1>16. SentMsgs' = SentMsgs \cup {[msg |-> p.msg, pid |-> p.pid]}
  <2>1. Copy(p).msg = p.msg /\ Copy(p).pid = p.pid
    BY CopyFields
  <2> HIDE DEF p
  <2> QED  BY <1>15, <2>1 DEF SentMsgs
<1>17. AckedMsgs' = AckedMsgs
  BY <1>2 DEF AckedMsgs
<1>18. received' = Append(received, [msg |-> p.msg, pid |-> p.pid, dup |-> p.dup])
  BY <1>3 DEF Copy
<1> HIDE DEF p
<1>19. PICK q : q = p
  OBVIOUS
<1>20. q.msg \in 1 .. admitted /\ q.pid \in PacketIDs /\ q.dup \in BOOLEAN
  BY <1>6, <1>10, <1>19
<1>21. Abstract!Carry(q.msg, q.pid, q.dup)
  <2>1. /\ q.msg \notin AckedMsgs /\ ~Abstract!Carried(q.msg)
        /\ \A k \in 1 .. q.msg - 1 : k \in AckedMsgs \/ Abstract!Carried(k)
    BY <1>11, <1>12, <1>13, <1>19
  <2>2. \A x \in SentMsgs : /\ x.msg = q.msg => x.pid = q.pid /\ q.dup
                            /\ x.pid = q.pid => x.msg = q.msg \/ x.msg \in AckedMsgs
    BY <1>14, <1>19
  <2>3. /\ q.dup => conn > 1
        /\ received' = Append(received, [msg |-> q.msg, pid |-> q.pid, dup |-> q.dup])
        /\ SentMsgs' = SentMsgs \cup {[msg |-> q.msg, pid |-> q.pid]}
    BY <1>7, <1>16, <1>18, <1>19
  <2>4. admitted' = admitted /\ conn' = conn
    BY <1>2
  <2> QED  BY <1>17, <2>1, <2>2, <2>3, <2>4 DEF Abstract!Carry, AckedMsgs, SentMsgs
<1> QED  BY <1>20, <1>21

LEMMA DeliveryStepsImplement ==
  ASSUME DeliveryInv, [Next]_vars
  PROVE  [Abstract!Next]_<<admitted, AckedMsgs, conn, received, SentMsgs>>
<1>1. Sess
  BY DEF DeliveryInv
<1>2. CASE WriterStep
  <2>1. CASE received' = received
    <3>1. Quiet
      BY <1>2, <2>1 DEF WriterStep, Quiet, countVars
    <3> QED  BY <3>1, QuietStutters
  <2>2. CASE received' # received
    BY <1>2, <2>2, CarryImplements DEF Abstract!Next
  <2> QED  BY <2>1, <2>2
<1>3. CASE Replies
  BY <1>3, AckImplements DEF Replies, Abstract!Next
<1>4. CASE Reconnect
  BY <1>4, ReconnectImplements DEF Abstract!Next
<1>5. CASE AdmitFrame
  BY <1>5, AdmitImplements DEF Abstract!Next
<1>6. CASE AdmitLive
  BY <1>5, <1>6, AdmitSteps
<1>7. CASE Quiet
  BY <1>7, QuietStutters
<1>8. CASE SendRetained
  <2>1. \/ /\ admitted' = admitted + 1 /\ s' = Admit(s, admitted', 1)
           /\ UNCHANGED <<clientVars, carries>>
        \/ UNCHANGED <<s, admitted>>
    BY <1>8 DEF SendRetained
  <2> QED  BY <1>1, <1>5, <1>7, <1>8, <2>1, AdmitSteps, OthersQuiet
<1>9. CASE Consumer
  BY <1>1, <1>7, <1>9, GoroutinesQuiet
<1>10. CASE UNCHANGED vars
  <2>1. Quiet
    BY <1>10 DEF vars, peerVars, countVars, Quiet
  <2> QED  BY <1>7, <2>1
<1>11. CASE \/ \E c \in Caller : ClientStep(c)
            \/ SendConnack \/ MarkReady \/ StartConsumer \/ SendSuback \/ Resume
            \/ BeginClosing \/ CloseClient \/ Release
            \/ HandleSubscribe \/ Disconnect \/ EnqueueLive \/ EnqueuedLive
            \/ ClosedLive
  BY <1>1, <1>7, <1>11, OthersQuiet
<1> QED  BY <1>2, <1>3, <1>4, <1>6, <1>8, <1>9, <1>10, <1>11
         DEF Next, Handle, Publish, Finished

\* For any number of messages, connections, packets and publishers, and for every
\* size of the window, of the queue and of the client's send queue: what the peer
\* gets and what the session forgets are steps of AtLeastOnce.
THEOREM DeliveryImplements == Spec => ImplementsAtLeastOnce
<1>1. Init => Abstract!Init
  <2> SUFFICES ASSUME Init PROVE Abstract!Init
    OBVIOUS
  <2>1. admitted = 0 /\ conn = 1 /\ received = <<>> /\ past = {}
    BY DEF Init
  <2>2. AckedMsgs = {}
    <3>1. 1 .. 0 = {}
      BY SMT
    <3> QED  BY <2>1, <3>1 DEF AckedMsgs
  <2>3. SentMsgs = {}
    <3>1. DOMAIN received = {}
      BY <2>1, SMT
    <3> QED  BY <2>1, <3>1 DEF SentMsgs, Everything
  <2> QED  BY <2>1, <2>2, <2>3 DEF Abstract!Init, AckedMsgs, SentMsgs
<1>2. DeliveryInv /\ [Next]_vars => [Abstract!Next]_(Abstract!vars)
  BY DeliveryStepsImplement DEF Abstract!vars, AckedMsgs, SentMsgs
<1> QED
  BY <1>1, <1>2, DeliveryInductive, PTL
  DEF Spec, Safe, ImplementsAtLeastOnce, Abstract!Spec
=============================================================================
