----------------------------- MODULE Lifecycle -----------------------------
(***************************************************************************)
(* The life of a server (internal/server/server.go: Start,                 *)
(* acceptConnections, connectionGroup, startSessionExpiry).  Four kinds of *)
(* goroutine run: the one that called Start, the function AfterFunc runs   *)
(* once the context is cancelled, one handler per connection, and the      *)
(* session expiry loop.  What a handler does in between is the subject of  *)
(* Connections and Delivery: here it runs, may complete its handshake, and *)
(* returns, which it must do once its connection is closed.                *)
(***************************************************************************)
EXTENDS Integers, FiniteSets

CONSTANTS
  Conn,            \* the connections that clients may open, each once
  NoConn,
  MaxConnections, MaxHandshakes   \* ConnectionLimits

\* ConnectionLimits.Validate.
ASSUME LifecycleAssumption ==
  /\ MaxConnections \in Nat \ {0}
  /\ MaxHandshakes \in Nat \ {0}
  /\ NoConn \notin Conn

VARIABLES
  ctx,         \* the context of the caller is cancelled
  runCtx,      \* the context derived from it is cancelled
  main,        \* where Start is
  accepted,    \* the connection Accept returned and start has not dealt with
  lnClosed,    \* the listener is closed
  closer,      \* where the AfterFunc is
  closing,     \* the connections closeAll has still to close
  table,       \* connectionGroup.connections: absent, TRUE (handshake) or FALSE
  handshakes,  \* stats.Handshakes
  rejections,  \* stats.ConnectionRejections and stats.HandshakeRejections
  handler,     \* per connection: none, running, returned, exited
  connClosed,  \* the connections closed on this side
  expiry       \* the expiry loop: waiting, sweeping, done

vars == <<ctx, runCtx, main, accepted, lnClosed, closer, closing, table,
          handshakes, rejections, handler, connClosed, expiry>>

Absent == "absent"
Handshaking == "handshaking"
Established == "established"
Registered == {c \in Conn : table[c] # Absent}

Init ==
  /\ ctx = FALSE /\ runCtx = FALSE
  /\ main = "listen"
  /\ accepted = NoConn
  /\ lnClosed = TRUE
  /\ closer = "off"
  /\ closing = {}
  /\ table = [c \in Conn |-> Absent]
  /\ handshakes = 0
  /\ rejections = [connection |-> 0, handshake |-> 0]
  /\ handler = [c \in Conn |-> "none"]
  /\ connClosed = {}
  /\ expiry = "done"

-----------------------------------------------------------------------------
(* The caller of Start, and its context.                                   *)

Cancel ==
  /\ ~ctx
  /\ ctx' = TRUE
  /\ UNCHANGED <<runCtx, main, accepted, lnClosed, closer, closing, table,
                 handshakes, handler, connClosed, expiry, rejections>>

\* Cancelling a context cancels those derived from it, and AfterFunc starts
\* its function in a goroutine of its own.
Propagate ==
  /\ ctx /\ ~runCtx
  /\ main \notin {"listen", "failed"}
  /\ runCtx' = TRUE
  /\ closer' = IF closer = "off" THEN "listener" ELSE closer
  /\ UNCHANGED <<ctx, main, accepted, lnClosed, closing, table, handshakes,
                 handler, connClosed, expiry, rejections>>

\* Start: invalid settings or a failed listen return an error at once.
ListenFails ==
  /\ main = "listen"
  /\ main' = "failed"
  /\ UNCHANGED <<ctx, runCtx, accepted, lnClosed, closer, closing, table,
                 handshakes, handler, connClosed, expiry, rejections>>

\* The expiry loop is only started for a positive OfflineTTL.
Listen(ttl) ==
  /\ main = "listen"
  /\ lnClosed' = FALSE
  /\ expiry' = IF ttl = 0 THEN "done" ELSE "waiting"
  /\ main' = "accept"
  /\ UNCHANGED <<ctx, runCtx, accepted, closer, closing, table, handshakes,
                 handler, connClosed, rejections>>

-----------------------------------------------------------------------------
(* acceptConnections.                                                      *)

Accept(c) ==
  /\ main = "accept" /\ ~lnClosed
  /\ handler[c] = "none" /\ c \notin connClosed
  /\ accepted' = c
  /\ main' = "start"
  /\ UNCHANGED <<ctx, runCtx, lnClosed, closer, closing, table, handshakes,
                 handler, connClosed, expiry, rejections>>

\* Accept returns an error that is not temporary: because the listener was
\* closed, or on its own account.  A temporary error changes nothing.
AcceptFails ==
  /\ main = "accept"
  /\ main' = "cancel"
  /\ UNCHANGED <<ctx, runCtx, accepted, lnClosed, closer, closing, table,
                 handshakes, handler, connClosed, expiry, rejections>>

Full ==
  Cardinality(Registered) >= MaxConnections \/ handshakes >= MaxHandshakes

\* connectionGroup.start, one critical section.
StartCancelled ==
  /\ main = "start" /\ ctx
  /\ connClosed' = connClosed \cup {accepted}
  /\ accepted' = NoConn
  /\ main' = "cancel"
  /\ UNCHANGED <<ctx, runCtx, lnClosed, closer, closing, table, handshakes,
                 handler, expiry, rejections>>

StartRefused ==
  /\ main = "start" /\ ~ctx /\ Full
  /\ rejections' = IF Cardinality(Registered) >= MaxConnections
                   THEN [rejections EXCEPT !.connection = @ + 1]
                   ELSE [rejections EXCEPT !.handshake = @ + 1]
  /\ connClosed' = connClosed \cup {accepted}
  /\ accepted' = NoConn
  /\ main' = "accept"
  /\ UNCHANGED <<ctx, runCtx, lnClosed, closer, closing, table, handshakes,
                 handler, expiry>>

\* Mutant: the limit test and the cancellation test are made before the lock
\* is taken; a context cancelled in between is not seen.
StartHandlerUnchecked ==
  /\ main = "start" /\ ~Full
  /\ table' = [table EXCEPT ![accepted] = Handshaking]
  /\ handshakes' = handshakes + 1
  /\ handler' = [handler EXCEPT ![accepted] = "running"]
  /\ accepted' = NoConn
  /\ main' = "accept"
  /\ UNCHANGED <<ctx, runCtx, lnClosed, closer, closing, connClosed, expiry, rejections>>

StartHandler ==
  /\ main = "start" /\ ~ctx /\ ~Full
  /\ table' = [table EXCEPT ![accepted] = Handshaking]
  /\ handshakes' = handshakes + 1
  /\ handler' = [handler EXCEPT ![accepted] = "running"]
  /\ accepted' = NoConn
  /\ main' = "accept"
  /\ UNCHANGED <<ctx, runCtx, lnClosed, closer, closing, connClosed, expiry, rejections>>

-----------------------------------------------------------------------------
(* The deferred function of Start: cancel, then three waits.               *)

CancelRun ==
  /\ main = "cancel"
  /\ runCtx' = TRUE
  /\ closer' = IF closer = "off" THEN "listener" ELSE closer
  /\ main' = "waitShutdown"
  /\ UNCHANGED <<ctx, accepted, lnClosed, closing, table, handshakes, handler,
                 connClosed, expiry, rejections>>

WaitShutdown ==
  /\ main = "waitShutdown" /\ closer = "done"
  /\ main' = "waitExpiry"
  /\ UNCHANGED <<ctx, runCtx, accepted, lnClosed, closer, closing, table,
                 handshakes, handler, connClosed, expiry, rejections>>

WaitExpiry ==
  /\ main = "waitExpiry" /\ expiry = "done"
  /\ main' = "waitHandlers"
  /\ UNCHANGED <<ctx, runCtx, accepted, lnClosed, closer, closing, table,
                 handshakes, handler, connClosed, expiry, rejections>>

\* Mutant: a handler counts as finished once it has returned from handleConn.
WaitHandlersEarly ==
  /\ main = "waitHandlers"
  /\ \A c \in Conn : handler[c] # "running"
  /\ main' = "returned"
  /\ UNCHANGED <<ctx, runCtx, accepted, lnClosed, closer, closing, table,
                 handshakes, handler, connClosed, expiry, rejections>>

\* connectionGroup.wait: Done is deferred first, so it runs last.
WaitHandlers ==
  /\ main = "waitHandlers"
  /\ \A c \in Conn : handler[c] \in {"none", "exited"}
  /\ main' = "returned"
  /\ UNCHANGED <<ctx, runCtx, accepted, lnClosed, closer, closing, table,
                 handshakes, handler, connClosed, expiry, rejections>>

-----------------------------------------------------------------------------
(* The AfterFunc: close the listener, then closeAll.                       *)

CloseListener ==
  /\ closer = "listener"
  /\ lnClosed' = TRUE
  /\ closer' = "copy"
  /\ UNCHANGED <<ctx, runCtx, main, accepted, closing, table, handshakes,
                 handler, connClosed, expiry, rejections>>

\* closeAll copies the table under the lock,
CopyTable ==
  /\ closer = "copy"
  /\ closing' = Registered
  /\ closer' = "close"
  /\ UNCHANGED <<ctx, runCtx, main, accepted, lnClosed, table, handshakes,
                 handler, connClosed, expiry, rejections>>

\* Mutant: only connections past their handshake are closed.
CloseEstablished ==
  /\ closer = "close"
  /\ \E c \in closing :
       /\ connClosed' = connClosed \cup (IF table[c] = Handshaking THEN {} ELSE {c})
       /\ closing' = closing \ {c}
  /\ UNCHANGED <<ctx, runCtx, main, accepted, lnClosed, closer, table,
                 handshakes, handler, expiry, rejections>>

\* and closes them one by one without it.
CloseOne ==
  /\ closer = "close"
  /\ \E c \in closing :
       /\ connClosed' = connClosed \cup {c}
       /\ closing' = closing \ {c}
  /\ UNCHANGED <<ctx, runCtx, main, accepted, lnClosed, closer, table,
                 handshakes, handler, expiry, rejections>>

CloserDone ==
  /\ closer = "close" /\ closing = {}
  /\ closer' = "done"
  /\ UNCHANGED <<ctx, runCtx, main, accepted, lnClosed, closing, table,
                 handshakes, handler, connClosed, expiry, rejections>>

-----------------------------------------------------------------------------
(* Handlers.                                                               *)

completeHandshake(c) ==
  /\ handler[c] = "running"
  /\ table[c] = Handshaking
  /\ table' = [table EXCEPT ![c] = Established]
  /\ handshakes' = handshakes - 1
  /\ UNCHANGED <<ctx, runCtx, main, accepted, lnClosed, closer, closing,
                 handler, connClosed, expiry, rejections>>

\* handleConn returns at any moment and has closed its connection by then.
HandlerReturns(c) ==
  /\ handler[c] = "running"
  /\ handler' = [handler EXCEPT ![c] = "returned"]
  /\ connClosed' = connClosed \cup {c}
  /\ UNCHANGED <<ctx, runCtx, main, accepted, lnClosed, closer, closing, table,
                 handshakes, expiry, rejections>>

\* Mutant: a connection that ends during its handshake keeps its slot.
DeregisterLeaks(c) ==
  /\ handler[c] = "returned" /\ table[c] # Absent
  /\ table' = [table EXCEPT ![c] = Absent]
  /\ UNCHANGED <<ctx, runCtx, main, accepted, lnClosed, closer, closing,
                 handshakes, handler, connClosed, expiry, rejections>>

\* The deferred functions of the handler's goroutine.
Deregister(c) ==
  /\ handler[c] = "returned" /\ table[c] # Absent
  /\ handshakes' = IF table[c] = Handshaking THEN handshakes - 1 ELSE handshakes
  /\ table' = [table EXCEPT ![c] = Absent]
  /\ UNCHANGED <<ctx, runCtx, main, accepted, lnClosed, closer, closing,
                 handler, connClosed, expiry, rejections>>

HandlerDone(c) ==
  /\ handler[c] = "returned" /\ table[c] = Absent
  /\ handler' = [handler EXCEPT ![c] = "exited"]
  /\ UNCHANGED <<ctx, runCtx, main, accepted, lnClosed, closer, closing, table,
                 handshakes, connClosed, expiry, rejections>>

-----------------------------------------------------------------------------
(* The loop of startSessionExpiry.                                         *)

Sweep ==
  /\ expiry = "waiting"
  /\ expiry' = "sweeping"
  /\ UNCHANGED <<ctx, runCtx, main, accepted, lnClosed, closer, closing, table,
                 handshakes, handler, connClosed, rejections>>

Swept ==
  /\ expiry = "sweeping"
  /\ expiry' = "waiting"
  /\ UNCHANGED <<ctx, runCtx, main, accepted, lnClosed, closer, closing, table,
                 handshakes, handler, connClosed, rejections>>

ExpiryStops ==
  /\ expiry = "waiting" /\ runCtx
  /\ expiry' = "done"
  /\ UNCHANGED <<ctx, runCtx, main, accepted, lnClosed, closer, closing, table,
                 handshakes, handler, connClosed, rejections>>

-----------------------------------------------------------------------------
Finished == main \in {"returned", "failed"} /\ UNCHANGED vars

StartStep ==
  \/ ListenFails
  \/ \E ttl \in {0, 1} : Listen(ttl)
  \/ \E c \in Conn : Accept(c)
  \/ AcceptFails \/ StartCancelled \/ StartRefused \/ StartHandler
  \/ CancelRun \/ WaitShutdown \/ WaitExpiry \/ WaitHandlers

CloserStep == CloseListener \/ CopyTable \/ CloseOne \/ CloserDone

Leave(c) == Deregister(c) \/ HandlerDone(c)

Next ==
  \/ Cancel \/ Propagate \/ StartStep \/ CloserStep
  \/ \E c \in Conn : completeHandshake(c) \/ HandlerReturns(c) \/ Leave(c)
  \/ Sweep \/ Swept \/ ExpiryStops
  \/ Finished

\* Goroutines that can run do run.  Accept is only bound to return once the
\* listener is closed, a handler once its connection is closed; the select of
\* the expiry loop picks either ready case, so a cancelled context is chosen
\* eventually (strong fairness, since a sweep may be ready each time).
Fairness ==
  /\ WF_vars(Propagate)
  /\ WF_vars(StartStep /\ (main = "accept" => lnClosed))
  /\ WF_vars(CloserStep)
  /\ \A c \in Conn :
       /\ WF_vars(c \in connClosed /\ HandlerReturns(c))
       /\ WF_vars(Leave(c))
  /\ WF_vars(Swept)
  /\ SF_vars(ExpiryStops)

Safe == Init /\ [][Next]_vars
Spec == Safe /\ Fairness

-----------------------------------------------------------------------------

\* The handshake counter is the number of connections in the table that are
\* still marked, whichever of completeHandshake and the deferred removal comes
\* first, and neither limit is exceeded: no slot leaks and none is given twice.
\* While the server accepts, the connections closed without a handler are the
\* ones counted as rejected.
SlotsExact ==
  /\ handshakes = Cardinality({c \in Conn : table[c] = Handshaking})
  /\ handshakes <= MaxHandshakes
  /\ Cardinality(Registered) <= MaxConnections
  /\ main \in {"accept", "start"} =>
       rejections.connection + rejections.handshake
         = Cardinality({c \in connClosed : handler[c] = "none"})

\* Once the shutdown function has finished, every connection that is in the
\* table has been closed: start cannot register one behind closeAll's back,
\* because it looks at the caller's context under the same lock.
NoOrphan ==
  closer = "done" => Registered \subseteq connClosed

\* When Start returns, every connection it accepted is closed and out of the
\* table, every handler goroutine has exited, and the expiry loop has stopped.
StartWaits ==
  main = "returned" =>
    /\ lnClosed /\ expiry = "done"
    /\ Registered = {} /\ handshakes = 0
    /\ \A c \in Conn :
         /\ handler[c] \in {"none", "exited"}
         /\ handler[c] = "exited" => c \in connClosed
    /\ accepted = NoConn

\* A server whose context is cancelled stops: Start returns, however the
\* cancellation falls between Accept, start and the handlers.
ServerStops == ctx ~> main \in {"returned", "failed"}
=============================================================================
