------------------------------- MODULE Client -------------------------------
(***************************************************************************)
(* internal/client: one Client, the bounded send queue in front of a       *)
(* connection, the writeLoop goroutine that drains it, and the goroutines  *)
(* that call Enqueue, Send and Close.  A packet is named by the number of  *)
(* its acceptance into the queue.  Deadlines and the peer show up as a     *)
(* write that fails, possibly after part of the packet is on the wire.     *)
(***************************************************************************)
EXTENDS Integers, Sequences, FiniteSets

CONSTANTS
  Caller,        \* goroutines that send through the client
  QueueSize,     \* capacity of sendQ; 1024 in the code
  MaxPackets     \* bound of the model: packets accepted in all

ASSUME ClientAssumption ==
  QueueSize \in Nat \ {0} /\ MaxPackets \in Nat /\ IsFiniteSet(Caller)

VARIABLES
  sendQ,      \* the channel, oldest packet first
  done,       \* the channel done is closed
  connClosed, \* the connection is closed
  writer,     \* where writeLoop is
  current,    \* the packet writeLoop holds; 0 when none
  wire,       \* packets written, in order, each whole or cut short
  result,     \* per packet, what its result channel was sent
  wants,      \* packets somebody waits for (result # nil)
  call,       \* where each caller is
  packet,     \* the packet the caller's last Send got into the queue, or 0
  outcome,    \* what the caller's last call returned
  accepted    \* packets ever accepted into sendQ
vars == <<sendQ, done, connClosed, writer, current, wire, result, wants, call,
          packet, outcome, accepted>>

Init ==
  /\ sendQ = <<>>
  /\ done = FALSE
  /\ connClosed = FALSE
  /\ writer = "select"
  /\ current = 0
  /\ wire = <<>>
  /\ result = [n \in 1 .. MaxPackets |-> "empty"]
  /\ wants = {}
  /\ call = [c \in Caller |-> "idle"]
  /\ packet = [c \in Caller |-> 0]
  /\ outcome = [c \in Caller |-> "none"]
  /\ accepted = 0

\* New, for the goroutines' next connection.
New ==
  /\ sendQ' = <<>> /\ current' = 0 /\ wire' = <<>> /\ accepted' = 0
  /\ done' = FALSE /\ connClosed' = FALSE
  /\ writer' = "select"
  /\ result' = [n \in 1 .. MaxPackets |-> "empty"]
  /\ wants' = {}
  /\ call' = [c \in Caller |-> "idle"]
  /\ packet' = [c \in Caller |-> 0]
  /\ outcome' = [c \in Caller |-> "none"]

writerVars == <<writer, current, wire, result>>
callerVars == <<wants, call, packet, outcome, accepted>>

Return(c, value) ==
  /\ call' = [call EXCEPT ![c] = "idle"]
  /\ outcome' = [outcome EXCEPT ![c] = value]

-----------------------------------------------------------------------------
(* Callers.                                                                *)

\* enqueue, the first select: a closed client refuses at once.
Call(c, kind) ==
  /\ call[c] = "idle"
  /\ packet' = [packet EXCEPT ![c] = 0]
  /\ IF done
     THEN Return(c, "closed")
     ELSE call' = [call EXCEPT ![c] = kind] /\ UNCHANGED outcome
  /\ UNCHANGED <<sendQ, done, connClosed, writerVars, wants, accepted>>

\* enqueue, the second select: both channel cases may be ready, and then
\* either is taken; the default only when neither is.
Offer(c) ==
  /\ call[c] \in {"enqueue", "send"}
  /\ \/ /\ done
        /\ Return(c, "closed")
        /\ UNCHANGED <<sendQ, wants, packet, accepted>>
     \/ /\ Len(sendQ) < QueueSize
        /\ accepted' = accepted + 1
        /\ sendQ' = Append(sendQ, accepted')
        /\ IF call[c] = "enqueue"
           THEN Return(c, "ok") /\ UNCHANGED <<wants, packet>>
           ELSE /\ wants' = wants \cup {accepted'}
                /\ call' = [call EXCEPT ![c] = "wait"]
                /\ packet' = [packet EXCEPT ![c] = accepted']
                /\ UNCHANGED outcome
     \/ /\ ~done
        /\ Len(sendQ) = QueueSize
        /\ Return(c, "full")
        /\ UNCHANGED <<sendQ, wants, packet, accepted>>
  /\ UNCHANGED <<done, connClosed, writerVars>>

\* SendWithDeadline, its select: the result, or done and then a last look.
Await(c) ==
  /\ call[c] = "wait"
  /\ \/ /\ result[packet[c]] # "empty"
        /\ Return(c, result[packet[c]])
     \/ /\ done
        /\ call' = [call EXCEPT ![c] = "late"]
        /\ UNCHANGED outcome
  /\ UNCHANGED <<sendQ, done, connClosed, writerVars, wants, packet, accepted>>

\* Mutant: done is taken for the answer.
LastLookSkipped(c) ==
  /\ call[c] = "late"
  /\ Return(c, "closed")
  /\ UNCHANGED <<sendQ, done, connClosed, writerVars, wants, packet, accepted>>

LastLook(c) ==
  /\ call[c] = "late"
  /\ Return(c, IF result[packet[c]] # "empty" THEN result[packet[c]]
                                              ELSE "closed")
  /\ UNCHANGED <<sendQ, done, connClosed, writerVars, wants, packet, accepted>>

\* Close: closeOnce admits one goroutine; the others return when it is done.
Close(c) ==
  /\ call[c] = "idle"
  /\ ~done
  /\ done' = TRUE
  /\ call' = [call EXCEPT ![c] = "closing"]
  /\ UNCHANGED <<sendQ, connClosed, writerVars, wants, packet, outcome,
                 accepted>>

CloseConn(c) ==
  /\ call[c] = "closing"
  /\ connClosed' = TRUE
  /\ call' = [call EXCEPT ![c] = "idle"]
  /\ UNCHANGED <<sendQ, done, writerVars, wants, packet, outcome, accepted>>

\* The server closes every connection at shutdown without telling the client.
CloseFromOutside ==
  /\ ~connClosed
  /\ connClosed' = TRUE
  /\ UNCHANGED <<sendQ, done, writerVars, callerVars>>

-----------------------------------------------------------------------------
(* writeLoop.                                                              *)

\* Its select: a queued packet and done may both be ready.
Take ==
  /\ writer = "select"
  /\ sendQ # <<>>
  /\ current' = Head(sendQ)
  /\ sendQ' = Tail(sendQ)
  /\ writer' = "write"
  /\ UNCHANGED <<done, connClosed, wire, result, callerVars>>

Quit ==
  /\ writer = "select"
  /\ done
  /\ writer' = "exited"
  /\ UNCHANGED <<sendQ, done, connClosed, current, wire, result, callerVars>>

\* Mutant: n is not compared with the length, and the loop goes on after a
\* short write.
WriteShortOK ==
  /\ writer = "write"
  /\ \/ /\ ~connClosed
        /\ \E whole \in BOOLEAN :
             wire' = Append(wire, [id |-> current, whole |-> whole])
        /\ writer' = "report"
     \/ /\ writer' = "fail"
        /\ UNCHANGED wire
  /\ UNCHANGED <<sendQ, done, connClosed, current, result, callerVars>>

\* SetWriteDeadline and Write: the packet, part of it or nothing gets out.
Write ==
  /\ writer = "write"
  /\ \/ /\ ~connClosed
        /\ wire' = Append(wire, [id |-> current, whole |-> TRUE])
        /\ writer' = "report"
     \/ /\ ~connClosed
        /\ wire' = Append(wire, [id |-> current, whole |-> FALSE])
        /\ writer' = "fail"
     \/ /\ writer' = "fail"
        /\ UNCHANGED wire
  /\ UNCHANGED <<sendQ, done, connClosed, current, result, callerVars>>

\* The result channel has room for the one value it is ever sent.
Report ==
  /\ writer \in {"report", "fail"}
  /\ result' = IF current \in wants
               THEN [result EXCEPT ![current] =
                       IF writer = "report" THEN "ok" ELSE "failed"]
               ELSE result
  /\ current' = 0
  /\ writer' = IF writer = "report" THEN "select" ELSE "close"
  /\ UNCHANGED <<sendQ, done, connClosed, wire, callerVars>>

\* Mutant: writeLoop returns without closing the client.
ExitAfterFailure ==
  /\ writer = "close"
  /\ writer' = "exited"
  /\ UNCHANGED <<sendQ, done, connClosed, current, wire, result, callerVars>>

\* Close after a failed write: writeLoop closes the connection itself, or
\* waits in closeOnce for the goroutine that does.
CloseAfterFailure ==
  /\ \/ /\ writer = "close"
        /\ ~done
        /\ done' = TRUE
        /\ writer' = "closeConn"
        /\ UNCHANGED connClosed
     \/ /\ writer = "close"
        /\ done
        /\ \A c \in Caller : call[c] # "closing"
        /\ writer' = "exited"
        /\ UNCHANGED <<done, connClosed>>
     \/ /\ writer = "closeConn"
        /\ connClosed' = TRUE
        /\ writer' = "exited"
        /\ UNCHANGED done
  /\ UNCHANGED <<sendQ, current, wire, result, callerVars>>

-----------------------------------------------------------------------------

Offering == {c \in Caller : call[c] \in {"enqueue", "send"}}

writeLoop == Take \/ Quit \/ Write \/ Report \/ CloseAfterFailure

\* The steps a caller takes once it has entered a method.
Proceed(c) == Offer(c) \/ Await(c) \/ LastLook(c) \/ CloseConn(c)

Next ==
  \/ \E c \in Caller :
       \/ /\ done \/ accepted + Cardinality(Offering) < MaxPackets
          /\ \E kind \in {"enqueue", "send"} : Call(c, kind)
       \/ Proceed(c)
       \/ Close(c)
  \/ CloseFromOutside
  \/ writeLoop

Safe == Init /\ [][Next]_vars

\* Goroutines that can run do run, and the write deadline ends every write.
Spec == Safe /\ WF_vars(writeLoop) /\ \A c \in Caller : WF_vars(Proceed(c))

-----------------------------------------------------------------------------
(* Properties.                                                             *)

Whole(n) == \E i \in 1 .. Len(wire) : wire[i] = [id |-> n, whole |-> TRUE]

Truthful(c) ==
  call[c] = "idle" /\ packet[c] # 0 =>
    /\ outcome[c] = "ok" => Whole(packet[c])
    /\ outcome[c] = "failed" => /\ ~Whole(packet[c])
                                /\ writer \in {"close", "closeConn", "exited"}
    /\ outcome[c] = "closed" => done

\* What Send returns is true: nil only once the whole packet is on the wire,
\* a write error only when it is not and never will be, ErrClosed only of a
\* closed client and only of a packet whose result is not there yet: when the
\* result and done are both ready, whichever came first, the result is returned.
SendTruthful ==
  /\ [](\A c \in Caller : Truthful(c))
  /\ [][\A c \in Caller :
          /\ call[c] \in {"wait", "late"} /\ call'[c] = "idle"
          /\ outcome'[c] = "closed"
          => result[packet[c]] = "empty"]_vars

\* Nobody is left waiting.  Every Send returns, with the result or because the
\* client was closed, also when the writer stops with packets still queued;
\* and once the client is closed its writer exits, so that Wait returns and
\* the handler can release the session.
NobodyWaits ==
  /\ \A c \in Caller : call[c] = "wait" ~> call[c] = "idle"
  /\ done ~> writer = "exited"

-----------------------------------------------------------------------------
(* What the Client promises, whatever its callers do: see Outbound.        *)

Abstract == INSTANCE Outbound WITH
  accepted <- accepted,
  wire     <- wire,
  broken   <- writer \in {"fail", "close", "closeConn", "exited"}

\* Whatever the callers, the writer and Close do, the packets accepted reach
\* the wire in order, once and without gaps until the first failed write.
ImplementsOutbound == Abstract!Spec
=============================================================================
