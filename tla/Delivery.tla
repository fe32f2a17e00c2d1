------------------------------ MODULE Delivery ------------------------------
(***************************************************************************)
(* The way of a message from publishMessage to the wire: one session, the  *)
(* successive connections of its client, and on each of them the handler,  *)
(* the consumeDeliveries goroutine, a publisher of QoS 0 messages and the  *)
(* writer of the connection's Client, with the peer that sends PUBACK.     *)
(*                                                                         *)
(* Composes SessionState (the session) with Client (the connection).  That *)
(* connections of one session follow each other, each after the cleanup of *)
(* the one before, is what Connections shows.                              *)
(***************************************************************************)
EXTENDS SessionState

CONSTANTS
  QueueSize,       \* capacity of a client's send queue
  MaxPackets,      \* packets accepted per connection
  MaxConnections,  \* connections; the last one does not fail
  MaxMessages,     \* QoS 1 messages admitted
  MaxQoS0,         \* QoS 0 messages sent, live or retained
  MaxSubscribes    \* SUBSCRIBE packets handled

ASSUME DeliveryAssumption ==
  /\ ClientID # {} /\ Owner # {}
  /\ MaxConnections \in Nat \ {0}
  /\ MaxMessages \in Nat /\ MaxQoS0 \in Nat /\ MaxSubscribes \in Nat

VARIABLES
  \* Client, for the present connection
  sendQ, done, connClosed, writer, current, wire, result, wants, call, packet,
  outcome, accepted,
  s,          \* the session
  conn,       \* number of the present connection
  handler,    \* where handleConn is
  consumer,   \* where consumeDeliveries is
  epoch,      \* the epoch it was started with
  publisher,  \* where the QoS 0 publisher is; it holds clientsMu for reading
  ready,      \* owner.ready
  closing,    \* owner.closing
  content,    \* contents of the packets accepted by the client
  carries,    \* the packet each goroutine is sending
  received,   \* publishes the peer has received on this connection
  acked,      \* the ones it has answered
  past,       \* publishes it received on earlier connections
  admitted, published, subscribes,   \* how much happened, for the bounds
  mark        \* messages admitted before the last SUBSCRIBE; -1 without one

clientVars == <<sendQ, done, connClosed, writer, current, wire, result, wants,
                call, packet, outcome, accepted>>
peerVars == <<received, acked, past>>
countVars == <<admitted, published, subscribes>>
vars == <<clientVars, s, conn, handler, consumer, epoch, publisher, ready,
          closing, content, carries, peerVars, countVars, mark>>

Caller == {"handler", "consumer", "publisher"}
C == INSTANCE Client

Connack == [kind |-> "connack"]
Suback(n) == [kind |-> "suback", packetID |-> n]
QoS0 == [kind |-> "qos0"]

\* Mutant: DUP is never set.
PubNoDup(msg, pid, dup) ==
  [kind |-> "publish", msg |-> msg, pid |-> pid, dup |-> FALSE]

Pub(msg, pid, dup) ==
  [kind |-> "publish", msg |-> msg, pid |-> pid, dup |-> dup]

TheSession == NewState(CHOOSE id \in ClientID : TRUE, CHOOSE o \in Owner : TRUE, 0)

Init ==
  /\ C!Init
  /\ s = MarkConnected(TheSession)
  /\ conn = 1
  /\ handler = "connack"
  /\ consumer = "off"
  /\ epoch = 0
  /\ publisher = "idle"
  /\ ready = FALSE
  /\ closing = FALSE
  /\ content = <<>>
  /\ carries = [c \in Caller |-> Connack]
  /\ received = <<>> /\ acked = {} /\ past = {}
  /\ admitted = 0 /\ published = 0 /\ subscribes = 0
  /\ mark = -1

\* clientsMu can be write-locked.
Lockable == publisher = "idle"

\* Send or Enqueue of packet p by goroutine c.
Start(c, kind, p) ==
  /\ C!Call(c, kind)
  /\ carries' = [carries EXCEPT ![c] = p]

Returned(c) == call[c] = "idle"
Succeeded(c) == Returned(c) /\ outcome[c] = "ok"
Failed(c) == Returned(c) /\ outcome[c] # "ok"

\* client.Close() by c, when it is the first to close.
CloseBy(c) == IF done THEN UNCHANGED clientVars ELSE C!Close(c)

-----------------------------------------------------------------------------
(* The client's own steps; the last connection works.                      *)

Stable == conn = MaxConnections

ClientStep(c) ==
  /\ C!Proceed(c)
  /\ content' = IF accepted' # accepted THEN Append(content, carries[c])
                                        ELSE content
  /\ UNCHANGED <<s, conn, handler, consumer, epoch, publisher, ready, closing,
                 carries, peerVars, countVars, mark>>

\* A packet written whole reaches the peer.
WriterStep ==
  LET p == content[current]
  IN  /\ C!writeLoop
      /\ Stable /\ ~connClosed => writer' # "fail"
      /\ received' = IF writer' = "report" /\ p.kind = "publish"
                     THEN Append(received, [msg |-> p.msg, pid |-> p.pid, dup |-> p.dup])
                     ELSE received
      /\ UNCHANGED <<s, conn, handler, consumer, epoch, publisher, ready, closing,
                     content, carries, acked, past, countVars, mark>>

-----------------------------------------------------------------------------
(* consumeDeliveries.                                                      *)

\* The first select of its loop.
ConsumerLoop ==
  /\ consumer = "loop"
  /\ consumer' = IF done THEN "exited" ELSE "next"
  /\ UNCHANGED <<clientVars, s, conn, handler, epoch, publisher, ready,
                 closing, content, carries, peerVars, countVars, mark>>

\* Next and the start of Send, or on to the second select.
ConsumerNext ==
  /\ consumer = "next"
  /\ IF HasNext(s, epoch)
     THEN \E i \in 1 .. Len(s.entries) :
            /\ FirstUntried(s, epoch, i)
            /\ IF Attempted(s, i)
               THEN /\ s' = Replay(s, epoch, i)
                    /\ Start("consumer", "send",
                             Pub(s.entries[i].msg, s.entries[i].packetID, TRUE))
               ELSE \E pid \in PacketIDs :
                      /\ FirstFree(s, pid)
                      /\ s' = FirstAttempt(s, epoch, i, pid)
                      /\ Start("consumer", "send",
                               Pub(s.entries[i].msg, pid, FALSE))
            /\ consumer' = "send"
     ELSE /\ consumer' = "wait"
          /\ UNCHANGED <<clientVars, s, carries>>
  /\ UNCHANGED <<conn, handler, epoch, publisher, ready, closing, content,
                 peerVars, countVars, mark>>

\* Send returned; a failed one closes the client.
ConsumerSent ==
  /\ consumer = "send"
  /\ \/ /\ Succeeded("consumer")
        /\ consumer' = "loop"
        /\ UNCHANGED clientVars
     \/ /\ Failed("consumer")
        /\ consumer' = "exited"
        /\ CloseBy("consumer")
  /\ UNCHANGED <<s, conn, handler, epoch, publisher, ready, closing, content,
                 carries, peerVars, countVars, mark>>

\* The second select of its loop.
ConsumerWait ==
  /\ consumer = "wait"
  /\ \/ /\ done
        /\ consumer' = "exited"
        /\ UNCHANGED s
     \/ /\ s.changed
        /\ consumer' = "loop"
        /\ s' = [s EXCEPT !.changed = FALSE]
  /\ UNCHANGED <<clientVars, conn, handler, epoch, publisher, ready, closing,
                 content, carries, peerVars, countVars, mark>>

ConsumerGone == consumer \in {"off", "exited"} /\ Returned("consumer")

-----------------------------------------------------------------------------
(* handleConn.                                                             *)

\* Send a packet and go to l, where its return is awaited.
HandlerSends(p, l) ==
  /\ Start("handler", "send", p)
  /\ handler' = l

SendConnack ==
  /\ handler = "connack"
  /\ HandlerSends(Connack, "connackSent")
  /\ UNCHANGED <<s, conn, consumer, epoch, publisher, ready, closing, content,
                 peerVars, countVars, mark>>

\* CONNACK is written: owner.ready, under the write lock.
MarkReady ==
  /\ handler = "connackSent"
  /\ Succeeded("handler")
  /\ Lockable
  /\ ready' = TRUE
  /\ handler' = "begin"
  /\ UNCHANGED <<clientVars, s, conn, consumer, epoch, publisher, closing,
                 content, carries, peerVars, countVars, mark>>

StartConsumer ==
  /\ handler = "begin"
  /\ s' = BeginDelivery(s)
  /\ epoch' = s'.epoch
  /\ consumer' = "loop"
  /\ handler' = "serve"
  /\ UNCHANGED <<clientVars, conn, publisher, ready, closing, content, carries,
                 peerVars, countVars, mark>>

\* handlePubAck for the i-th publish the peer has received.
PubAck(i) ==
  LET pid == received[i].pid
  IN  /\ handler = "serve"
      /\ i \in DOMAIN received \ acked
      /\ acked' = acked \cup {i}
      /\ s' = IF s.inflight[pid] = Nil THEN s
              ELSE Ack(s, pid, CHOOSE j \in 1 .. Len(s.entries) :
                                 s.entries[j].msg = s.inflight[pid])
      /\ UNCHANGED <<clientVars, conn, handler, consumer, epoch, publisher, ready,
                     closing, content, carries, received, past, countVars, mark>>

\* handleSubscribe: delivery is paused, then the subscription takes effect;
\* the number of the SUBSCRIBE stands for its Packet Identifier,
HandleSubscribe ==
  /\ handler = "serve"
  /\ subscribes < MaxSubscribes
  /\ subscribes' = subscribes + 1
  /\ s' = PauseDelivery(s)
  /\ mark' = admitted
  /\ handler' = "subscribed"
  /\ UNCHANGED <<clientVars, conn, consumer, epoch, publisher, ready, closing,
                 content, carries, peerVars, admitted, published>>

\* then SUBACK is sent and awaited,
SendSuback ==
  /\ handler = "subscribed"
  /\ HandlerSends(Suback(subscribes), "subackSent")
  /\ UNCHANGED <<s, conn, consumer, epoch, publisher, ready, closing, content,
                 peerVars, countVars, mark>>

\* then the retained messages are queued or, with QoS 0, sent one by one,
SendRetained ==
  /\ handler \in {"subackSent", "retained"}
  /\ Succeeded("handler")
  /\ handler' = "retained"
  /\ \/ /\ ~SessionSaturated(s, 1)
        /\ admitted < MaxMessages
        /\ admitted' = admitted + 1
        /\ s' = Admit(s, admitted', 1)
        /\ UNCHANGED <<clientVars, carries, published>>
     \/ /\ published < MaxQoS0
        /\ published' = published + 1
        /\ Start("handler", "enqueue", QoS0)
        /\ UNCHANGED <<s, admitted>>
     \/ UNCHANGED <<clientVars, carries, s, admitted, published>>
  /\ UNCHANGED <<conn, consumer, epoch, publisher, ready, closing, content,
                 peerVars, subscribes, mark>>

\* and delivery resumes, also when a packet was not encoded or not sent and
\* the connection ends.
Resume ==
  /\ \/ handler = "retained" /\ Succeeded("handler") /\ handler' = "serve"
     \/ /\ handler = "retained" /\ Succeeded("handler") /\ ~Stable
        /\ handler' = "close"
     \/ /\ handler \in {"subackSent", "retained"} /\ Failed("handler")
        /\ handler' = "close"
  /\ s' = ResumeDelivery(s)
  /\ UNCHANGED <<clientVars, conn, consumer, epoch, publisher, ready, closing,
                 content, carries, peerVars, countVars, mark>>

\* CONNACK was not sent, or the peer disconnects.
Disconnect ==
  /\ \/ handler = "connackSent" /\ Failed("handler")
     \/ handler = "serve" /\ ~Stable
     \/ handler = "serve" /\ done
  /\ handler' = "close"
  /\ UNCHANGED <<clientVars, s, conn, consumer, epoch, publisher, ready,
                 closing, content, carries, peerVars, countVars, mark>>

\* beginClosing under the write lock,
BeginClosing ==
  /\ handler = "close"
  /\ Lockable
  /\ closing' = TRUE
  /\ handler' = "closeClient"
  /\ UNCHANGED <<clientVars, s, conn, consumer, epoch, publisher, ready,
                 content, carries, peerVars, countVars, mark>>

\* client.Close,
CloseClient ==
  /\ handler = "closeClient"
  /\ CloseBy("handler")
  /\ handler' = "drain"
  /\ UNCHANGED <<s, conn, consumer, epoch, publisher, ready, closing, content,
                 carries, peerVars, countVars, mark>>

\* the ends of the consumer and of the writer, and closeSession.
Release ==
  /\ handler = "drain"
  /\ Returned("handler")
  /\ ConsumerGone
  /\ writer = "exited"
  /\ Lockable
  /\ s' = MarkDisconnectedAt(s, 0)
  /\ handler' = "offline"
  /\ UNCHANGED <<clientVars, conn, consumer, epoch, publisher, ready, closing,
                 content, carries, peerVars, countVars, mark>>

\* What the peer has received, over all connections.
Everything == past \cup {received[i] : i \in DOMAIN received}

\* The client connects again and acquireConnection resumes its session.
Reconnect ==
  /\ handler = "offline"
  /\ conn < MaxConnections
  /\ Lockable
  /\ conn' = conn + 1
  /\ past' = Everything
  /\ C!New
  /\ s' = MarkConnected(s)
  /\ handler' = "connack"
  /\ consumer' = "off"
  /\ epoch' = 0
  /\ ready' = FALSE
  /\ closing' = FALSE
  /\ content' = <<>>
  /\ carries' = [c \in Caller |-> Connack]
  /\ received' = <<>> /\ acked' = {}
  /\ mark' = -1
  /\ UNCHANGED <<publisher, countVars>>

-----------------------------------------------------------------------------
(* Publishers.                                                             *)

\* deliverPublishToSubscriber, QoS 1.
AdmitLive ==
  /\ admitted < MaxMessages
  /\ ~SessionSaturated(s, 1)
  /\ admitted' = admitted + 1
  /\ s' = Admit(s, admitted', 1)
  /\ UNCHANGED <<clientVars, conn, handler, consumer, epoch, publisher, ready,
                 closing, content, carries, peerVars, published, subscribes,
                 mark>>

\* deliverPublishToSubscriber, QoS 0, under the read lock: Enqueue to the
\* owner, if there is one that takes part,
EnqueueLive ==
  /\ publisher = "idle"
  /\ published < MaxQoS0
  /\ handler # "offline" /\ ~closing /\ ready
  /\ published' = published + 1
  /\ publisher' = "sending"
  /\ Start("publisher", "enqueue", QoS0)
  /\ UNCHANGED <<s, conn, handler, consumer, epoch, ready, closing, content,
                 peerVars, admitted, subscribes, mark>>

\* and Close if that fails.
EnqueuedLive ==
  /\ publisher = "sending"
  /\ \/ /\ Succeeded("publisher")
        /\ publisher' = "idle"
        /\ UNCHANGED clientVars
     \/ /\ Failed("publisher")
        /\ publisher' = "closing"
        /\ CloseBy("publisher")
  /\ UNCHANGED <<s, conn, handler, consumer, epoch, ready, closing, content,
                 carries, peerVars, countVars, mark>>

ClosedLive ==
  /\ publisher = "closing"
  /\ Returned("publisher")
  /\ publisher' = "idle"
  /\ UNCHANGED <<clientVars, s, conn, handler, consumer, epoch, ready, closing,
                 content, carries, peerVars, countVars, mark>>

-----------------------------------------------------------------------------

Consumer == ConsumerLoop \/ ConsumerNext \/ ConsumerSent \/ ConsumerWait
Replies == \E i \in DOMAIN received : PubAck(i)
Handle == \/ SendConnack \/ MarkReady \/ StartConsumer
          \/ SendSuback \/ SendRetained \/ Resume
          \/ BeginClosing \/ CloseClient \/ Release
Publish == EnqueuedLive \/ ClosedLive

\* Nothing is left to do, or the last connection was closed by its publisher.
Finished ==
  /\ \/ handler = "offline" /\ Stable
     \/ handler = "serve" /\ consumer = "wait"
  /\ UNCHANGED vars

Next ==
  \/ \E c \in Caller : ClientStep(c)
  \/ WriterStep
  \/ Consumer
  \/ Handle
  \/ Replies
  \/ HandleSubscribe
  \/ Disconnect
  \/ Reconnect
  \/ AdmitLive
  \/ EnqueueLive
  \/ Publish
  \/ Finished

Safe == Init /\ [][Next]_vars

\* Goroutines run, the write deadline ends every write, the client comes back
\* after a failure and answers what it receives.
Spec ==
  /\ Safe
  /\ WF_vars(WriterStep)
  /\ \A c \in Caller : WF_vars(ClientStep(c))
  /\ WF_vars(Consumer)
  /\ WF_vars(Handle)
  /\ WF_vars(Publish)
  /\ WF_vars(Replies)
  /\ WF_vars(done /\ Disconnect)
  /\ WF_vars(Reconnect)

-----------------------------------------------------------------------------
(* Properties.                                                             *)

Leaving == handler \in {"close", "closeClient", "drain", "offline"}

\* Replies come first although publishers, the consumer and the handler send
\* through the same client.  CONNACK is the first packet of every connection;
\* no QoS 1 message accepted since a SUBSCRIBE took effect overtakes the
\* SUBACK that answers it, whether retained or live, except on a connection
\* that could not send SUBACK and is being closed.
RepliesFirst ==
  /\ content # <<>> => content[1] = Connack
  /\ \A i \in 1 .. Len(content) :
       /\ mark # -1 /\ ~Leaving
       /\ content[i].kind = "publish"
       /\ content[i].msg > mark
       => \E j \in 1 .. i - 1 : content[j] = Suback(subscribes)

\* Every message admitted is received and acknowledged in the end, through
\* lost connections and whatever the order of the wakeups.
AllAcknowledged ==
  \A m \in 1 .. MaxMessages :
    m <= admitted ~> m \in 1 .. admitted /\ m \notin Pending(s)

-----------------------------------------------------------------------------
(* The whole path implements what the session promises: see AtLeastOnce.   *)

Abstract == INSTANCE AtLeastOnce WITH
  acked <- (1 .. admitted) \ Pending(s),
  wire  <- received,
  sent  <- {[msg |-> p.msg, pid |-> p.pid] : p \in Everything}

\* Through failed writes, lost connections and replays, what the subscriber
\* sees on the wire and what the session forgets are steps of AtLeastOnce:
\* nothing is skipped, reordered, sent twice on one connection, repeated
\* under another Packet Identifier or without DUP, or dropped unanswered.
ImplementsAtLeastOnce == Abstract!Spec
=============================================================================
