-------------------------- MODULE LifecycleProofs --------------------------
(***************************************************************************)
(* Proofs about Lifecycle, for any set of connections and every limit.     *)
(***************************************************************************)
EXTENDS Lifecycle, TLAPS, FiniteSetTheorems

\* First-order reasoning: Zenon, but for the leaves that cite SMT.
USE Zenon

(***************************************************************************)
(* The inductive invariant.                                                *)
(***************************************************************************)

Marked == {c \in Conn : table[c] = Handshaking}
Turned == {c \in connClosed : handler[c] = "none"}
Waiting == {"waitShutdown", "waitExpiry", "waitHandlers", "returned"}

LifecycleType ==
  /\ ctx \in BOOLEAN /\ lnClosed \in BOOLEAN
  /\ main \in {"listen", "failed", "accept", "start", "cancel"} \cup Waiting
  /\ closer \in {"off", "listener", "copy", "close", "done"}
  /\ table \in [Conn -> {Absent, Handshaking, Established}]
  /\ rejections \in [connection : Nat, handshake : Nat]
  /\ handler \in [Conn -> {"none", "running", "returned", "exited"}]
  /\ connClosed \subseteq Conn
  /\ closing \subseteq Conn

\* A connection is in the table from start until its handler deregisters it,
\* and a handler that has returned has closed it.
HandlersOrdered ==
  \A c \in Conn :
    /\ table[c] # Absent => handler[c] \in {"running", "returned"}
    /\ handler[c] = "running" => table[c] # Absent
    /\ handler[c] \in {"returned", "exited"} => c \in connClosed

\* Start holds one fresh connection between Accept and start.
AcceptedFresh ==
  IF main = "start"
  THEN accepted \in Conn /\ handler[accepted] = "none" /\ accepted \notin connClosed
  ELSE accepted = NoConn

\* SlotsExact, with what it takes to count, from before the first Accept.
Opening == {"listen", "accept", "start"}
Counted ==
  /\ IsFiniteSet(Registered) /\ IsFiniteSet(Turned)
  /\ handshakes = Cardinality(Marked)
  /\ handshakes <= MaxHandshakes
  /\ Cardinality(Registered) <= MaxConnections
  /\ main \in Opening =>
       rejections.connection + rejections.handshake = Cardinality(Turned)

\* The shutdown function runs only when start can no longer register: under a
\* cancelled context, or after the accept loop.
CloserFollows ==
  /\ closer # "off" => ctx \/ main \in Waiting
  /\ main \in {"listen", "failed"} => closer = "off"
  /\ main \in Waiting \ {"waitShutdown"} => closer = "done"
  /\ closer \in {"copy", "close", "done"} => lnClosed
  /\ \A c \in closing : handler[c] # "none"
  /\ closer = "close" => Registered \subseteq connClosed \cup closing
  /\ NoOrphan

StartOrdered ==
  /\ main \in {"waitHandlers", "returned"} => expiry = "done"
  /\ main = "returned" => \A c \in Conn : handler[c] \in {"none", "exited"}

LifecycleInv ==
  /\ LifecycleType /\ HandlersOrdered /\ AcceptedFresh /\ Counted
  /\ CloserFollows /\ StartOrdered

(***************************************************************************)
(* Counting.                                                               *)
(***************************************************************************)

\* A finite set gains one element,
LEMMA OneMore ==
  ASSUME NEW S, IsFiniteSet(S), NEW x, x \notin S
  PROVE  /\ IsFiniteSet(S \cup {x})
         /\ Cardinality(S) \in Nat
         /\ Cardinality(S \cup {x}) = Cardinality(S) + 1
BY FS_AddElement, FS_CardinalityType

\* or loses one.
LEMMA OneLess ==
  ASSUME NEW S, IsFiniteSet(S), NEW x \in S
  PROVE  /\ IsFiniteSet(S \ {x})
         /\ Cardinality(S) \in Nat
         /\ Cardinality(S \ {x}) = Cardinality(S) - 1
BY FS_RemoveElement, FS_CardinalityType

\* The connections still in their handshake are among the registered ones.
LEMMA MarkedFinite ==
  ASSUME IsFiniteSet(Registered)
  PROVE  IsFiniteSet(Marked) /\ Cardinality(Marked) \in Nat
<1>1. Marked \subseteq Registered
  BY DEF Marked, Registered, Handshaking, Absent
<1> QED  BY <1>1, FS_Subset, FS_CardinalityType

\* A step that touches no connection counts none.
LEMMA CountedKept ==
  ASSUME Counted, UNCHANGED <<table, handler, connClosed, handshakes, rejections>>,
         main' \in Opening => main \in Opening
  PROVE  Counted'
<1>1. UNCHANGED <<Registered, Marked, Turned>>
  BY DEF Registered, Marked, Turned
<1> QED  BY <1>1 DEF Counted

(***************************************************************************)
(* Steps that touch no connection.                                         *)
(***************************************************************************)

StartQuiet ==
  \/ ListenFails \/ (\E ttl \in {0, 1} : Listen(ttl)) \/ (\E c \in Conn : Accept(c))
  \/ AcceptFails \/ CancelRun \/ WaitShutdown \/ WaitExpiry \/ WaitHandlers

\* The steps of Start that concern no handler keep the invariant.
LEMMA StartQuietInv ==
  ASSUME LifecycleInv, StartQuiet
  PROVE  LifecycleInv'
<1> USE DEF LifecycleInv
<1>1. UNCHANGED <<ctx, closing, table, handshakes, rejections, handler, connClosed>>
  BY
  DEF StartQuiet, ListenFails, Listen, Accept, AcceptFails, CancelRun,
      WaitShutdown,
         WaitExpiry, WaitHandlers
<1>2. UNCHANGED Registered
  BY <1>1 DEF Registered
<1>3. LifecycleType'
  BY <1>1
  DEF LifecycleType, Waiting, StartQuiet, ListenFails, Listen, Accept,
      AcceptFails,
              CancelRun, WaitShutdown, WaitExpiry, WaitHandlers
<1>4. HandlersOrdered'
  BY <1>1 DEF HandlersOrdered
<1>5. AcceptedFresh'
  BY <1>1
  DEF AcceptedFresh, StartQuiet, ListenFails, Listen, Accept, AcceptFails,
              CancelRun, WaitShutdown, WaitExpiry, WaitHandlers
<1>6. Counted'
  <2>1. main' \in Opening => main \in Opening
    BY
    DEF Opening, StartQuiet, ListenFails, Listen, Accept, AcceptFails,
        CancelRun,
           WaitShutdown, WaitExpiry, WaitHandlers
  <2> QED  BY <1>1, <2>1, CountedKept
<1>7. CloserFollows'
  BY <1>1, <1>2 DEF CloserFollows, NoOrphan, Waiting, LifecycleType, StartQuiet,
     ListenFails, Listen, Accept, AcceptFails, CancelRun, WaitShutdown, WaitExpiry,
     WaitHandlers
<1>8. StartOrdered'
  BY <1>1
  DEF StartOrdered, LifecycleType, StartQuiet, ListenFails, Listen, Accept,
     AcceptFails, CancelRun, WaitShutdown, WaitExpiry, WaitHandlers
<1> QED  BY <1>3, <1>4, <1>5, <1>6, <1>7, <1>8

OtherQuiet ==
  \/ Cancel \/ Propagate \/ CloseListener \/ CopyTable \/ CloserDone
  \/ Sweep \/ Swept \/ ExpiryStops \/ UNCHANGED vars

\* So do the shutdown and the expiry goroutine where they close nothing.
LEMMA OtherQuietInv ==
  ASSUME LifecycleInv, OtherQuiet
  PROVE  LifecycleInv'
<1> USE DEF LifecycleInv
<1>1. UNCHANGED <<main, accepted, table, handshakes, rejections, handler, connClosed>>
  BY
  DEF OtherQuiet, Cancel, Propagate, CloseListener, CopyTable, CloserDone,
      Sweep,
         Swept, ExpiryStops, vars
<1>2. UNCHANGED Registered
  BY <1>1 DEF Registered
<1>3. LifecycleType'
  BY <1>1
  DEF LifecycleType, OtherQuiet, Cancel, Propagate, CloseListener, CopyTable,
              CloserDone, Sweep, Swept, ExpiryStops, vars, Registered
<1>4. HandlersOrdered' /\ AcceptedFresh'
  BY <1>1 DEF HandlersOrdered, AcceptedFresh
<1>5. Counted'
  BY <1>1, CountedKept
<1>6. CloserFollows'
  <2>1. CopyTable => \A c \in closing' : handler[c] # "none"
    BY DEF CopyTable, Registered, HandlersOrdered
  <2> QED
    BY <1>1, <1>2, <2>1
    DEF CloserFollows, NoOrphan, LifecycleType, OtherQuiet, Cancel,
       Propagate, CloseListener, CopyTable, CloserDone, Sweep, Swept, ExpiryStops, vars,
       Waiting
<1>7. StartOrdered'
  BY <1>1
  DEF StartOrdered, OtherQuiet, Cancel, Propagate, CloseListener, CopyTable,
     CloserDone, Sweep, Swept, ExpiryStops, vars
<1> QED  BY <1>3, <1>4, <1>5, <1>6, <1>7

(***************************************************************************)
(* connectionGroup.start.                                                  *)
(***************************************************************************)

\* A connection closed without a handler is one more of those turned away.
LEMMA TurnAway ==
  ASSUME LifecycleInv, StartCancelled \/ StartRefused
  PROVE  /\ IsFiniteSet(Turned)' /\ Cardinality(Turned) \in Nat
         /\ Cardinality(Turned)' = Cardinality(Turned) + 1
<1>1. /\ handler' = handler /\ connClosed' = connClosed \cup {accepted}
      /\ handler[accepted] = "none" /\ accepted \notin connClosed
  BY DEF StartCancelled, StartRefused, LifecycleInv, AcceptedFresh
<1>2. Turned' = Turned \cup {accepted} /\ accepted \notin Turned
  BY <1>1 DEF Turned
<1> QED  BY <1>2, OneMore DEF LifecycleInv, Counted

\* So does turning a connection away.
LEMMA TurnAwayInv ==
  ASSUME LifecycleInv, StartCancelled \/ StartRefused
  PROVE  LifecycleInv'
<1> USE DEF LifecycleInv
<1>1. /\ UNCHANGED <<ctx, closer, closing, lnClosed, table, handshakes, handler, expiry>>
      /\ main = "start" /\ accepted \in Conn
      /\ connClosed' = connClosed \cup {accepted} /\ accepted' = NoConn
      /\ main' \in {"accept", "cancel"}
      /\ main' = "accept" => StartRefused
  BY DEF StartCancelled, StartRefused, AcceptedFresh
<1>2. UNCHANGED <<Registered, Marked>>
  BY <1>1 DEF Registered, Marked
<1>3. LifecycleType'
  BY <1>1, SMT DEF LifecycleType, StartCancelled, StartRefused
<1>4. HandlersOrdered' /\ AcceptedFresh' /\ StartOrdered'
  BY <1>1 DEF HandlersOrdered, AcceptedFresh, StartOrdered
<1>5. Counted'
  <2>1. ASSUME StartRefused
        PROVE  rejections'.connection + rejections'.handshake
                 = rejections.connection + rejections.handshake + 1
    BY <2>1, SMT DEF LifecycleType, StartRefused
  <2>2. StartRefused =>
          rejections.connection + rejections.handshake = Cardinality(Turned)
    BY <1>1 DEF Counted, Opening
  <2> QED  BY <1>1, <1>2, <2>1, <2>2, TurnAway DEF Counted, Opening
<1>6. CloserFollows'
  BY <1>1, <1>2 DEF CloserFollows, NoOrphan, Waiting
<1> QED  BY <1>3, <1>4, <1>5, <1>6

\* So does starting a handler, which takes both slots.
LEMMA StartHandlerInv ==
  ASSUME LifecycleInv, StartHandler
  PROVE  LifecycleInv'
<1> USE DEF LifecycleInv
<1>1. /\ UNCHANGED <<ctx, closer, closing, lnClosed, connClosed, expiry, rejections>>
      /\ main = "start" /\ main' = "accept" /\ accepted \in Conn /\ accepted' = NoConn
      /\ ~ctx /\ closer = "off"
      /\ handler[accepted] = "none" /\ accepted \notin connClosed
      /\ table[accepted] = Absent
  BY DEF StartHandler, AcceptedFresh, CloserFollows, HandlersOrdered, Waiting
<1>2. /\ table' = [table EXCEPT ![accepted] = Handshaking]
      /\ handler' = [handler EXCEPT ![accepted] = "running"]
      /\ table \in [Conn -> {Absent, Handshaking, Established}]
      /\ handler \in [Conn -> {"none", "running", "returned", "exited"}]
      /\ connClosed \subseteq Conn /\ closing \subseteq Conn
  BY DEF StartHandler, LifecycleType
<1>3. LifecycleType'
  BY <1>1, <1>2 DEF LifecycleType
<1>4. HandlersOrdered'
  BY <1>1, <1>2 DEF HandlersOrdered, Absent, Handshaking
<1>5. AcceptedFresh' /\ StartOrdered'
  BY <1>1 DEF AcceptedFresh, StartOrdered
<1>6. Counted'
  <2>1. /\ Registered' = Registered \cup {accepted} /\ accepted \notin Registered
        /\ Marked' = Marked \cup {accepted} /\ accepted \notin Marked
        /\ Turned' = Turned
    BY <1>1, <1>2 DEF Registered, Marked, Turned, Absent, Handshaking
  <2>2. /\ IsFiniteSet(Registered') /\ Cardinality(Registered) \in Nat
        /\ Cardinality(Registered') = Cardinality(Registered) + 1
        /\ Cardinality(Marked) \in Nat
        /\ Cardinality(Marked') = Cardinality(Marked) + 1
    BY <2>1, OneMore, MarkedFinite DEF Counted
  <2>3. /\ handshakes = Cardinality(Marked) /\ handshakes' = handshakes + 1
        /\ Cardinality(Registered) < MaxConnections /\ handshakes < MaxHandshakes
    BY <2>2, LifecycleAssumption, SMT DEF StartHandler, Full, Counted
  <2> QED  BY <1>1, <2>1, <2>2, <2>3, LifecycleAssumption, SMT DEF Counted, Opening
<1>7. CloserFollows'
  BY <1>1, <1>2 DEF CloserFollows, NoOrphan, Waiting
<1> QED  BY <1>3, <1>4, <1>5, <1>6, <1>7

(***************************************************************************)
(* closeAll and the handlers.                                              *)
(***************************************************************************)

\* So does the shutdown closing one connection.
LEMMA CloseOneInv ==
  ASSUME LifecycleInv, CloseOne
  PROVE  LifecycleInv'
<1> USE DEF LifecycleInv
<1>1. PICK c \in closing : connClosed' = connClosed \cup {c} /\ closing' = closing \ {c}
  BY DEF CloseOne
<1>2. /\ UNCHANGED <<ctx, main, accepted, lnClosed, closer, table, handshakes, handler,
                     expiry, rejections>>
      /\ closer = "close" /\ handler[c] # "none" /\ c \in Conn
  BY DEF CloseOne, CloserFollows, LifecycleType
<1>3. UNCHANGED <<Registered, Marked, Turned>>
  BY <1>1, <1>2 DEF Registered, Marked, Turned
<1>4. LifecycleType' /\ HandlersOrdered' /\ AcceptedFresh' /\ StartOrdered'
  BY <1>1, <1>2 DEF LifecycleType, HandlersOrdered, AcceptedFresh, StartOrdered
<1>5. Counted'
  BY <1>2, <1>3 DEF Counted
<1>6. CloserFollows'
  BY <1>1, <1>2, <1>3 DEF CloserFollows, NoOrphan
<1> QED  BY <1>4, <1>5, <1>6

\* So does completeHandshake, which gives one slot back.
LEMMA HandshakeInv ==
  ASSUME LifecycleInv, NEW c \in Conn, completeHandshake(c)
  PROVE  LifecycleInv'
<1> USE DEF LifecycleInv
<1>1. /\ UNCHANGED <<ctx, main, accepted, lnClosed, closer, closing, handler,
                     connClosed, expiry, rejections>>
      /\ table[c] = Handshaking /\ table' = [table EXCEPT ![c] = Established]
      /\ handshakes' = handshakes - 1
      /\ table \in [Conn -> {Absent, Handshaking, Established}]
  BY DEF completeHandshake, LifecycleType
<1>2. /\ Registered' = Registered /\ Turned' = Turned
      /\ Marked' = Marked \ {c} /\ c \in Marked
  BY <1>1 DEF Registered, Turned, Marked, Absent, Handshaking, Established
<1>3. LifecycleType' /\ HandlersOrdered' /\ AcceptedFresh' /\ StartOrdered'
  BY <1>1
  DEF LifecycleType, HandlersOrdered, AcceptedFresh, StartOrdered, Absent,
              Handshaking, Established
<1>4. Counted'
  <2>1. Cardinality(Marked) \in Nat /\ Cardinality(Marked') = Cardinality(Marked) - 1
    BY <1>2, OneLess, MarkedFinite DEF Counted
  <2> QED  BY <1>1, <1>2, <2>1, LifecycleAssumption, SMT DEF Counted
<1>5. CloserFollows'
  BY <1>1, <1>2 DEF CloserFollows, NoOrphan
<1> QED  BY <1>3, <1>4, <1>5

\* So does a handler that returns.
LEMMA ReturnInv ==
  ASSUME LifecycleInv, NEW c \in Conn, HandlerReturns(c) \/ HandlerDone(c)
  PROVE  LifecycleInv'
<1> USE DEF LifecycleInv
<1>1. /\ UNCHANGED <<ctx, main, accepted, lnClosed, closer, closing, table, handshakes,
                     expiry, rejections>>
      /\ handler[c] \in {"running", "returned"}
      /\ handler' = [handler EXCEPT ![c] = IF handler[c] = "running" THEN "returned"
                                                                     ELSE "exited"]
      /\ handler[c] = "returned" => table[c] = Absent /\ c \in connClosed
      /\ connClosed' = connClosed \cup {c}
      /\ handler \in [Conn -> {"none", "running", "returned", "exited"}]
  BY DEF HandlerReturns, HandlerDone, LifecycleType, HandlersOrdered
<1>2. UNCHANGED <<Registered, Marked, Turned>>
  BY <1>1 DEF Registered, Marked, Turned, LifecycleType
<1>3. LifecycleType' /\ HandlersOrdered' /\ AcceptedFresh' /\ StartOrdered'
  BY <1>1 DEF LifecycleType, HandlersOrdered, AcceptedFresh, StartOrdered
<1>4. Counted'
  BY <1>1, <1>2 DEF Counted
<1>5. CloserFollows'
  BY <1>1, <1>2 DEF CloserFollows, NoOrphan, LifecycleType
<1> QED  BY <1>3, <1>4, <1>5

\* So does deregister, which gives back the slots the handler still holds.
LEMMA DeregisterInv ==
  ASSUME LifecycleInv, NEW c \in Conn, Deregister(c)
  PROVE  LifecycleInv'
<1> USE DEF LifecycleInv
<1>1. /\ UNCHANGED <<ctx, main, accepted, lnClosed, closer, closing, handler, connClosed,
                     expiry, rejections>>
      /\ handler[c] = "returned" /\ table[c] # Absent
      /\ table' = [table EXCEPT ![c] = Absent]
      /\ handshakes' = IF table[c] = Handshaking THEN handshakes - 1 ELSE handshakes
      /\ table \in [Conn -> {Absent, Handshaking, Established}]
  BY DEF Deregister, LifecycleType
<1>2. /\ Registered' = Registered \ {c} /\ c \in Registered
      /\ Marked' = Marked \ {c} /\ (c \in Marked <=> table[c] = Handshaking)
      /\ Turned' = Turned
  BY <1>1 DEF Registered, Marked, Turned, Absent, Handshaking
<1>3. LifecycleType' /\ HandlersOrdered' /\ AcceptedFresh' /\ StartOrdered'
  BY <1>1 DEF LifecycleType, HandlersOrdered, AcceptedFresh, StartOrdered
<1>4. Counted'
  <2>1. /\ IsFiniteSet(Registered') /\ Cardinality(Registered) \in Nat
        /\ Cardinality(Registered') = Cardinality(Registered) - 1
    BY <1>2, OneLess DEF Counted
  <2>2. /\ Cardinality(Marked) \in Nat
        /\ Cardinality(Marked') = IF table[c] = Handshaking THEN Cardinality(Marked) - 1
                                                            ELSE Cardinality(Marked)
    BY <1>2, FS_RemoveElement, MarkedFinite DEF Counted
  <2> QED  BY <1>1, <1>2, <2>1, <2>2, LifecycleAssumption, SMT DEF Counted
<1>5. CloserFollows'
  BY <1>1, <1>2 DEF CloserFollows, NoOrphan
<1> QED  BY <1>3, <1>4, <1>5

(***************************************************************************)
(* The invariant holds, and what follows from it.                          *)
(***************************************************************************)

\* Initially no connection is registered.
LEMMA InitInv == Init => LifecycleInv
<1> SUFFICES ASSUME Init PROVE LifecycleInv
  OBVIOUS
<1>1. LifecycleType /\ HandlersOrdered /\ AcceptedFresh /\ StartOrdered
  BY
  DEF Init, LifecycleType, HandlersOrdered, AcceptedFresh, StartOrdered, Waiting
<1>2. Registered = {} /\ Marked = {} /\ Turned = {}
  BY DEF Init, Registered, Marked, Turned, Absent, Handshaking
<1>3. Counted
  BY <1>2, FS_EmptySet, LifecycleAssumption, SMT DEF Init, Counted
<1>4. CloserFollows
  BY <1>2 DEF Init, CloserFollows, NoOrphan, Waiting
<1> QED  BY <1>1, <1>3, <1>4 DEF LifecycleInv

\* Every step of the server keeps the invariant.
LEMMA NextInv == LifecycleInv /\ [Next]_vars => LifecycleInv'
<1> SUFFICES ASSUME LifecycleInv, [Next]_vars PROVE LifecycleInv'
  OBVIOUS
<1>1. ASSUME OtherQuiet \/ Finished PROVE LifecycleInv'
  BY <1>1, OtherQuietInv DEF OtherQuiet, Finished
<1>2. CASE StartStep
  BY <1>2, StartQuietInv, TurnAwayInv, StartHandlerInv DEF StartStep, StartQuiet
<1>3. CASE CloserStep
  BY <1>1, <1>3, CloseOneInv DEF CloserStep, OtherQuiet
<1>4. ASSUME NEW c \in Conn, completeHandshake(c) \/ HandlerReturns(c) \/ Leave(c)
      PROVE  LifecycleInv'
  BY <1>4, HandshakeInv, ReturnInv, DeregisterInv DEF Leave
<1> QED  BY <1>1, <1>2, <1>3, <1>4 DEF Next, OtherQuiet

\* The invariant holds in every state of a server, its goroutines and its
\* handlers.
THEOREM LifecycleInvariant == Spec => []LifecycleInv
<1> QED  BY InitInv, NextInv, PTL DEF Spec, Safe

\* The limits hold and the counters are exact whatever the order of handshakes,
\* refusals and closes, for any number of connections (SlotsExact).
THEOREM SlotsCorrect == Spec => []SlotsExact
<1>1. LifecycleInv => SlotsExact
  BY DEF LifecycleInv, Counted, Opening, SlotsExact, Marked, Turned
<1> QED  BY <1>1, LifecycleInvariant, PTL

\* No connection escapes closeAll, however many are being accepted, served and
\* closed when the context is cancelled (NoOrphan).
THEOREM NoOrphanCorrect == Spec => []NoOrphan
<1>1. LifecycleInv => NoOrphan
  BY DEF LifecycleInv, CloserFollows
<1> QED  BY <1>1, LifecycleInvariant, PTL

\* Start returns only when nothing it started is left, for any number of
\* connections (StartWaits).
THEOREM StartWaitsCorrect == Spec => []StartWaits
<1>1. ASSUME LifecycleInv PROVE StartWaits
  <2> SUFFICES ASSUME main = "returned" PROVE StartWaits
    BY DEF StartWaits
  <2>1. lnClosed /\ expiry = "done" /\ accepted = NoConn
    BY <1>1
    DEF LifecycleInv, CloserFollows, StartOrdered, AcceptedFresh, Waiting
  <2>2. \A c \in Conn : /\ handler[c] \in {"none", "exited"}
                        /\ handler[c] = "exited" => c \in connClosed
    BY <1>1 DEF LifecycleInv, StartOrdered, HandlersOrdered
  <2>3. Registered = {} /\ Marked = {}
    BY <1>1, <2>2
    DEF LifecycleInv, HandlersOrdered, Registered, Marked, Absent, Handshaking
  <2>4. handshakes = 0
    BY <1>1, <2>3, FS_EmptySet DEF LifecycleInv, Counted
  <2> QED  BY <2>1, <2>2, <2>3, <2>4 DEF StartWaits
<1> QED  BY <1>1, LifecycleInvariant, PTL
=============================================================================
