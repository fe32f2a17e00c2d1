---------------------------- MODULE ClientProofs ----------------------------
(***************************************************************************)
(* Proofs about Client, for any number of callers and packets and every    *)
(* capacity of the queue.                                                  *)
(***************************************************************************)
EXTENDS Client, TLAPS, FiniteSetTheorems, SequenceTheorems

\* First-order reasoning: Zenon, but for the leaves that cite SMT.
USE Zenon

(***************************************************************************)
(* The inductive invariant.                                                *)
(***************************************************************************)

Failing == {"close", "closeConn", "exited"}
Broken == Failing \cup {"fail"}

ClientType ==
  /\ sendQ \in Seq(Nat)
  /\ done \in BOOLEAN /\ connClosed \in BOOLEAN
  /\ writer \in {"select", "write", "report"} \cup Broken
  /\ current \in Nat
  /\ wire \in Seq([id : Nat, whole : BOOLEAN])
  /\ result \in [1 .. MaxPackets -> {"empty", "ok", "failed"}]
  /\ call \in [Caller -> {"idle", "enqueue", "send", "wait", "late", "closing"}]
  /\ packet \in [Caller -> Nat]
  /\ outcome \in [Caller -> {"none", "ok", "failed", "closed", "full"}]
  /\ accepted \in Nat

\* The packets in the queue are the last ones accepted.  The writer has written
\* all others, except the one it holds.
Taken == accepted - Len(sendQ)

QueueOrdered ==
  /\ Len(sendQ) <= accepted
  /\ \A i \in 1 .. Len(sendQ) : sendQ[i] = Taken + i
  /\ writer = "select" => Len(wire) = Taken
  /\ writer = "write"  => Len(wire) = Taken - 1 /\ current = Taken
  /\ writer = "report" => Len(wire) = Taken /\ current = Taken
  /\ writer = "fail"   => Len(wire) <= Taken /\ current = Taken /\ ~Whole(Taken)
  /\ writer \in {"write", "report", "fail"} => Taken > 0

WireOrdered ==
  \A i \in 1 .. Len(wire) :
    wire[i].id = i /\ (wire[i].whole \/ writer \in Broken)

\* The bound of the model leaves room for the callers inside enqueue.
RoomLeft == accepted + Cardinality(Offering) <= MaxPackets

ResultTrue(n) ==
  /\ result[n] = "ok" => Whole(n)
  /\ result[n] = "failed" => ~Whole(n) /\ writer \in Failing

OutcomeTrue(c) ==
  /\ outcome[c] = "ok" => Whole(packet[c])
  /\ outcome[c] = "failed" => ~Whole(packet[c]) /\ writer \in Failing
  /\ outcome[c] = "closed" => done

CallTrue(c) ==
  /\ call[c] \in {"enqueue", "send"} => packet[c] = 0
  /\ call[c] \in {"wait", "late"} => packet[c] \in 1 .. accepted
  /\ call[c] = "late" => done
  /\ call[c] \in {"idle", "closing"} /\ packet[c] # 0 => OutcomeTrue(c)

ClientInv ==
  /\ ClientType /\ QueueOrdered /\ WireOrdered /\ RoomLeft
  /\ \A n \in 1 .. MaxPackets : ResultTrue(n)
  /\ \A c \in Caller : CallTrue(c)

(***************************************************************************)
(* Lemmas.                                                                 *)
(***************************************************************************)

\* Appending to the wire keeps what is on it.
LEMMA WireGrows ==
  ASSUME NEW x, wire \in Seq([id : Nat, whole : BOOLEAN]),
         x \in [id : Nat, whole : BOOLEAN], wire' = Append(wire, x)
  PROVE  /\ wire' \in Seq([id : Nat, whole : BOOLEAN])
         /\ Len(wire') = Len(wire) + 1
         /\ \A i \in 1 .. Len(wire) : wire'[i] = wire[i]
         /\ wire'[Len(wire) + 1] = x
         /\ \A n : Whole(n) => Whole(n)'
<1>1. /\ wire' \in Seq([id : Nat, whole : BOOLEAN])
      /\ Len(wire') = Len(wire) + 1
      /\ \A i \in 1 .. Len(wire) : wire'[i] = wire[i]
      /\ wire'[Len(wire) + 1] = x
  BY AppendProperties, SMT
<1>2. ASSUME NEW n, Whole(n) PROVE Whole(n)'
  <2>1. PICK i \in 1 .. Len(wire) : wire[i] = [id |-> n, whole |-> TRUE]
    BY <1>2 DEF Whole
  <2>2. i \in 1 .. Len(wire') /\ wire'[i] = [id |-> n, whole |-> TRUE]
    BY <1>1, <2>1, SMT
  <2> QED  BY <2>2 DEF Whole
<1> QED  BY <1>1, <1>2

\* A packet of an ordered wire is whole exactly when its own entry is.
LEMMA WholeAt ==
  ASSUME ClientType, WireOrdered, NEW n \in Nat
  PROVE  Whole(n) <=> n \in 1 .. Len(wire) /\ wire[n].whole
<1>1. ASSUME Whole(n) PROVE n \in 1 .. Len(wire) /\ wire[n].whole
  <2>1. PICK i \in 1 .. Len(wire) : wire[i] = [id |-> n, whole |-> TRUE]
    BY <1>1 DEF Whole
  <2> QED  BY <2>1, SMT DEF WireOrdered
<1>2. ASSUME n \in 1 .. Len(wire), wire[n].whole PROVE Whole(n)
  <2>1. wire[n] \in [id : Nat, whole : BOOLEAN]
    BY <1>2, ElementOfSeq DEF ClientType
  <2>2. wire[n].id = n
    BY <1>2 DEF WireOrdered
  <2>3. wire[n] = [id |-> n, whole |-> TRUE]
    BY <1>2, <2>1, <2>2
  <2> QED  BY <1>2, <2>3 DEF Whole
<1> QED  BY <1>1, <1>2

\* Leaving enqueue makes room, entering it takes some.
LEMMA OfferingCounts ==
  ASSUME ClientType, NEW c \in Caller, NEW l,
         call' = [call EXCEPT ![c] = l]
  PROVE  /\ Cardinality(Offering) \in Nat /\ Cardinality(Offering)' \in Nat
         /\ l \in {"enqueue", "send"} =>
              Cardinality(Offering)' <= Cardinality(Offering) + 1
         /\ l \notin {"enqueue", "send"} =>
              Cardinality(Offering)' =
                IF call[c] \in {"enqueue", "send"} THEN Cardinality(Offering) - 1
                                                   ELSE Cardinality(Offering)
<1>1. IsFiniteSet(Offering)
  <2>1. Offering \in SUBSET Caller
    BY DEF Offering
  <2> QED  BY <2>1, FS_Subset, ClientAssumption
<1>2. Cardinality(Offering) \in Nat
  BY <1>1, FS_CardinalityType
<1>3. CASE l \in {"enqueue", "send"}
  <2>1. Offering' = Offering \cup {c}
    BY <1>3 DEF Offering, ClientType
  <2>2. /\ IsFiniteSet(Offering \cup {c})
        /\ Cardinality(Offering \cup {c}) =
             IF c \in Offering THEN Cardinality(Offering) ELSE Cardinality(Offering) + 1
    BY <1>1, FS_AddElement
  <2> QED  BY <1>2, <1>3, <2>1, <2>2, SMT
<1>4. CASE l \notin {"enqueue", "send"}
  <2>1. Offering' = Offering \ {c}
    BY <1>4 DEF Offering, ClientType
  <2>2. /\ IsFiniteSet(Offering \ {c})
        /\ Cardinality(Offering \ {c}) =
             IF c \in Offering THEN Cardinality(Offering) - 1 ELSE Cardinality(Offering)
    BY <1>1, FS_RemoveElement
  <2>3. c \in Offering <=> call[c] \in {"enqueue", "send"}
    BY DEF Offering
  <2>4. Cardinality(Offering \ {c}) \in Nat
    BY <2>2, FS_CardinalityType
  <2> QED  BY <1>2, <1>4, <2>1, <2>2, <2>3, <2>4
<1> QED  BY <1>3, <1>4

\* A caller that leaves enqueue may have one more packet accepted.
LEMMA RoomKept ==
  ASSUME ClientType, RoomLeft, NEW c \in Caller, NEW l,
         l \notin {"enqueue", "send"}, call' = [call EXCEPT ![c] = l],
         \/ accepted' = accepted
         \/ accepted' = accepted + 1 /\ call[c] \in {"enqueue", "send"}
  PROVE  RoomLeft'
<1> DEFINE n == Cardinality(Offering)
<1>1. n \in Nat /\ n' = IF call[c] \in {"enqueue", "send"} THEN n - 1 ELSE n
  BY OfferingCounts
<1>2. accepted \in Nat /\ MaxPackets \in Nat /\ accepted + n <= MaxPackets
  BY ClientAssumption DEF ClientType, RoomLeft
<1>3. accepted' + n' <= MaxPackets
  <2> HIDE DEF n
  <2> QED  BY <1>1, <1>2, SMT
<1> QED  BY <1>3 DEF RoomLeft

\* The bound of Next leaves room for one more.
LEMMA RoomEntered ==
  ASSUME ClientType, NEW c \in Caller, NEW l \in {"enqueue", "send"},
         call' = [call EXCEPT ![c] = l], accepted' = accepted,
         accepted + Cardinality(Offering) < MaxPackets
  PROVE  RoomLeft'
<1> DEFINE n == Cardinality(Offering)
<1>1. n \in Nat /\ n' \in Nat /\ n' <= n + 1
  BY OfferingCounts
<1>2. accepted \in Nat /\ MaxPackets \in Nat /\ accepted + n < MaxPackets
  BY ClientAssumption DEF ClientType
<1>3. \A a, m, x, y \in Nat : a + x < m /\ y <= x + 1 => a + y <= m
  BY SMT
<1>4. accepted + n' <= MaxPackets
  <2> HIDE DEF n
  <2> QED  BY <1>1, <1>2, <1>3
<1> QED  BY <1>4 DEF RoomLeft

(***************************************************************************)
(* Callers.                                                                *)
(***************************************************************************)

\* What the writer is about does not depend on the callers.
LEMMA WriterUntouched ==
  ASSUME ClientInv, UNCHANGED <<sendQ, writerVars, accepted>>
  PROVE  /\ QueueOrdered' /\ WireOrdered'
         /\ \A n \in 1 .. MaxPackets : ResultTrue(n)'
         /\ \A n : Whole(n)' <=> Whole(n)
BY
DEF ClientInv, QueueOrdered, WireOrdered, ResultTrue, Whole, Taken, writerVars

\* A call that changes nothing but its own caller's part keeps the invariant.
LEMMA OneCaller ==
  ASSUME ClientInv, ClientType', UNCHANGED <<sendQ, writerVars, accepted>>,
         done => done',
         NEW c \in Caller, CallTrue(c)',
         \A d \in Caller \ {c} : /\ call'[d] = call[d]
                                  /\ packet'[d] = packet[d]
                                  /\ outcome'[d] = outcome[d],
         RoomLeft'
  PROVE  ClientInv'
<1>1. ASSUME NEW d \in Caller \ {c} PROVE CallTrue(d)'
  BY <1>1, WriterUntouched DEF ClientInv, CallTrue, OutcomeTrue, writerVars
<1>2. \A d \in Caller : CallTrue(d)'
  BY <1>1
<1> QED  BY <1>2, WriterUntouched DEF ClientInv

\* Starting Enqueue or SendAndWait keeps the invariant.
LEMMA CallInv ==
  ASSUME ClientInv, NEW c \in Caller, NEW kind \in {"enqueue", "send"},
         done \/ accepted + Cardinality(Offering) < MaxPackets, Call(c, kind)
  PROVE  ClientInv'
<1>1. ClientType'
  BY DEF ClientInv, ClientType, Call, Return, writerVars
<1>2. CallTrue(c)'
  BY DEF ClientInv, ClientType, Call, Return, CallTrue
<1>3. RoomLeft'
  <2>1. CASE done
    <3>1. call' = [call EXCEPT ![c] = "idle"] /\ accepted' = accepted
      BY <2>1 DEF Call, Return
    <3> QED  BY <3>1, RoomKept DEF ClientInv
  <2>2. CASE ~done
    <3>1. call' = [call EXCEPT ![c] = kind] /\ accepted' = accepted
      BY <2>2 DEF Call
    <3>2. accepted + Cardinality(Offering) < MaxPackets
      BY <2>2
    <3> QED  BY <3>1, <3>2, RoomEntered DEF ClientInv
  <2> QED  BY <2>1, <2>2
<1>4. \A d \in Caller \ {c} : /\ call'[d] = call[d]
                               /\ packet'[d] = packet[d]
                               /\ outcome'[d] = outcome[d]
  BY DEF ClientInv, ClientType, Call, Return
<1> QED  BY <1>1, <1>2, <1>3, <1>4, OneCaller DEF Call

\* So does an answer that SendAndWait receives or finds on its last look.
LEMMA AwaitInv ==
  ASSUME ClientInv, NEW c \in Caller, Await(c) \/ LastLook(c)
  PROVE  ClientInv'
<1>1. packet[c] \in 1 .. MaxPackets /\ packet[c] \in 1 .. accepted
  <2>1. packet[c] \in 1 .. accepted
    BY DEF ClientInv, CallTrue, Await, LastLook
  <2>2. Cardinality(Offering) \in Nat
    BY OfferingCounts DEF ClientInv, Await, LastLook, Return
  <2> QED  BY <2>1, <2>2, ClientAssumption, SMT DEF ClientInv, ClientType, RoomLeft
<1>2. result[packet[c]] \in {"empty", "ok", "failed"} /\ ResultTrue(packet[c])
  BY <1>1 DEF ClientInv, ClientType
<1>3. ClientType'
  BY <1>2 DEF ClientInv, ClientType, Await, LastLook, Return, writerVars
<1>4. CallTrue(c)'
  <2>1. CASE call' = [call EXCEPT ![c] = "late"] /\ done
    BY <1>1, <2>1 DEF ClientInv, ClientType, CallTrue, Await, LastLook, Return
  <2>2. CASE Return(c, result[packet[c]]) /\ result[packet[c]] # "empty"
    BY <1>1, <1>2, <2>2, WriterUntouched
    DEF ClientInv, ClientType, CallTrue, OutcomeTrue, ResultTrue, Await,
        LastLook, Return, writerVars
  <2>3. CASE Return(c, "closed") /\ done
    BY <1>1, <2>3
    DEF ClientInv, ClientType, CallTrue, OutcomeTrue, Await, LastLook, Return
  <2> QED  BY <2>1, <2>2, <2>3 DEF Await, LastLook, ClientInv, CallTrue
<1>5. RoomLeft'
  <2>1. PICK l \in {"idle", "late"} : call' = [call EXCEPT ![c] = l]
    BY DEF Await, LastLook, Return
  <2> QED  BY <2>1, RoomKept DEF ClientInv, Await, LastLook
<1>6. \A d \in Caller \ {c} : /\ call'[d] = call[d]
                               /\ packet'[d] = packet[d]
                               /\ outcome'[d] = outcome[d]
  BY DEF ClientInv, ClientType, Await, LastLook, Return
<1> QED  BY <1>3, <1>4, <1>5, <1>6, OneCaller, SMT DEF Await, LastLook

\* So does Close, called by a user of the client,
LEMMA CloseInv ==
  ASSUME ClientInv, NEW c \in Caller, Close(c) \/ CloseConn(c)
  PROVE  ClientInv'
<1>1. ClientType'
  BY DEF ClientInv, ClientType, Close, CloseConn, writerVars
<1>2. CallTrue(c)'
  BY WriterUntouched
  DEF ClientInv, ClientType, CallTrue, OutcomeTrue, Close, CloseConn, writerVars
<1>3. RoomLeft'
  <2>1. PICK l \in {"idle", "closing"} : call' = [call EXCEPT ![c] = l]
    BY DEF Close, CloseConn
  <2> QED  BY <2>1, RoomKept DEF ClientInv, Close, CloseConn
<1>4. \A d \in Caller \ {c} : /\ call'[d] = call[d]
                               /\ packet'[d] = packet[d]
                               /\ outcome'[d] = outcome[d]
  BY DEF ClientInv, ClientType, Close, CloseConn
<1> QED  BY <1>1, <1>2, <1>3, <1>4, OneCaller, SMT DEF Close, CloseConn

\* or by the server.
LEMMA CloseFromOutsideInv ==
  ASSUME ClientInv, CloseFromOutside
  PROVE  ClientInv'
<1>1. ClientType'
  BY DEF ClientInv, ClientType, CloseFromOutside, writerVars, callerVars
<1>2. RoomLeft' /\ \A c \in Caller : CallTrue(c)'
  BY WriterUntouched DEF ClientInv, RoomLeft, Offering, CallTrue, OutcomeTrue,
                         CloseFromOutside, writerVars, callerVars
<1> QED 
  BY <1>1, <1>2, WriterUntouched DEF ClientInv, CloseFromOutside, callerVars

\* A refused offer changes the caller only.  An accepted packet goes to the end
\* of the queue under the next number.
LEMMA OfferInv ==
  ASSUME ClientInv, NEW c \in Caller, Offer(c)
  PROVE  ClientInv'
<1>0. packet[c] = 0 /\ call[c] \in {"enqueue", "send"}
  BY DEF Offer, ClientInv, CallTrue
<1>1. CASE UNCHANGED <<sendQ, wants, packet, accepted>>
  <2>1. ClientType'
    BY <1>1 DEF ClientInv, ClientType, Offer, Return, writerVars
  <2>2. CallTrue(c)'
    BY <1>0, <1>1, SMT DEF ClientInv, ClientType, CallTrue, Offer, Return
  <2>3. call' = [call EXCEPT ![c] = "idle"]
    BY <1>1, SMT DEF Offer, Return, ClientInv, ClientType
  <2>4. RoomLeft'
    BY <1>1, <2>3, RoomKept DEF ClientInv
  <2>5. \A d \in Caller \ {c} : /\ call'[d] = call[d]
                                 /\ packet'[d] = packet[d]
                                 /\ outcome'[d] = outcome[d]
    BY <1>1 DEF ClientInv, ClientType, Offer, Return
  <2> QED  BY <1>1, <2>1, <2>2, <2>4, <2>5, OneCaller DEF Offer
<1>2. CASE /\ accepted' = accepted + 1
           /\ sendQ' = Append(sendQ, accepted')
           /\ IF call[c] = "enqueue"
              THEN Return(c, "ok") /\ UNCHANGED <<wants, packet>>
              ELSE /\ wants' = wants \cup {accepted'}
                   /\ call' = [call EXCEPT ![c] = "wait"]
                   /\ packet' = [packet EXCEPT ![c] = accepted']
                   /\ UNCHANGED outcome
  <2>1. /\ sendQ' \in Seq(Nat)
        /\ Len(sendQ') = Len(sendQ) + 1
        /\ \A i \in 1 .. Len(sendQ) : sendQ'[i] = sendQ[i]
        /\ sendQ'[Len(sendQ) + 1] = accepted + 1
    BY <1>2, AppendProperties, SMT DEF ClientInv, ClientType
  <2>2. UNCHANGED <<done, connClosed, writer, current, wire, result>>
    BY DEF Offer, writerVars
  <2>3. ClientType'
    <3>1. accepted' \in Nat
      BY <1>2, SMT DEF ClientInv, ClientType
    <3>2. /\ call' \in [Caller -> {"idle", "enqueue", "send", "wait", "late", "closing"}]
          /\ packet' \in [Caller -> Nat]
          /\ outcome' \in [Caller -> {"none", "ok", "failed", "closed", "full"}]
      BY <1>2, <3>1 DEF ClientInv, ClientType, Return
    <3> QED  BY <2>1, <2>2, <3>1, <3>2 DEF ClientInv, ClientType
  <2>4. Taken' = Taken
    BY <1>2, <2>1, SMT DEF ClientInv, ClientType, Taken
  <2>5. \A n : Whole(n)' <=> Whole(n)
    BY <2>2 DEF Whole
  <2>6. QueueOrdered'
    <3>1. ASSUME NEW i \in 1 .. Len(sendQ') PROVE sendQ'[i] = Taken + i
      <4>1. Len(sendQ) \in Nat /\ accepted \in Nat
        BY LenProperties DEF ClientInv, ClientType
      <4>2. CASE i \in 1 .. Len(sendQ)
        BY <2>1, <4>2 DEF ClientInv, QueueOrdered
      <4>3. CASE i = Len(sendQ) + 1
        BY <2>1, <4>1, <4>3, SMT DEF Taken
      <4> QED  BY <2>1, <4>1, <4>2, <4>3, SMT
    <3>2. Len(sendQ') <= accepted'
      BY <1>2, <2>1, SMT DEF ClientInv, ClientType, QueueOrdered
    <3> QED  BY <2>2, <2>4, <2>5, <3>1, <3>2 DEF ClientInv, QueueOrdered
  <2>7. WireOrdered' /\ \A n \in 1 .. MaxPackets : ResultTrue(n)'
    BY <2>2, <2>5 DEF ClientInv, WireOrdered, ResultTrue
  <2>8. RoomLeft'
    <3>1. PICK l \in {"idle", "wait"} : call' = [call EXCEPT ![c] = l]
      BY <1>2 DEF Return
    <3> QED  BY <1>0, <1>2, <3>1, RoomKept DEF ClientInv
  <2>9. ASSUME NEW d \in Caller PROVE CallTrue(d)'
    <3>1. CASE d = c
      BY <1>0, <1>2, <3>1, SMT DEF ClientInv, ClientType, CallTrue, Return
    <3>2. CASE d # c
      <4>1. call'[d] = call[d] /\ packet'[d] = packet[d] /\ outcome'[d] = outcome[d]
        BY <1>2, <3>2 DEF ClientInv, ClientType, Return
      <4> QED 
        BY <1>2, <2>2, <2>5, <4>1, SMT
        DEF ClientInv, ClientType, CallTrue, OutcomeTrue
    <3> QED  BY <3>1, <3>2
  <2> QED  BY <2>3, <2>6, <2>7, <2>8, <2>9 DEF ClientInv
<1> QED  BY <1>1, <1>2 DEF Offer

(***************************************************************************)
(* writeLoop.                                                              *)
(***************************************************************************)

\* The callers keep what they know while the writer moves.
LEMMA CallersUntouched ==
  ASSUME ClientInv, UNCHANGED callerVars, done => done',
         \A n \in Nat : Whole(n) => Whole(n)',
         writer \in Failing => wire' = wire /\ writer' \in Failing
  PROVE  RoomLeft' /\ \A c \in Caller : CallTrue(c)'
<1>1. RoomLeft'
  BY DEF ClientInv, RoomLeft, Offering, callerVars
<1>2. ASSUME NEW c \in Caller PROVE CallTrue(c)'
  <2>1. UNCHANGED <<call, packet, outcome, accepted>> /\ packet[c] \in Nat
    BY DEF callerVars, ClientInv, ClientType
  <2>2. CallTrue(c)
    BY DEF ClientInv
  <2>3. OutcomeTrue(c) => OutcomeTrue(c)'
    BY <2>1 DEF OutcomeTrue, Whole
  <2> QED  BY <2>1, <2>2, <2>3 DEF CallTrue
<1> QED  BY <1>1, <1>2

\* The writer taking the next packet from the queue keeps the invariant.
LEMMA TakeInv ==
  ASSUME ClientInv, Take
  PROVE  ClientInv'
<1>1. /\ Head(sendQ) \in Nat /\ Head(sendQ) = sendQ[1]
      /\ sendQ' \in Seq(Nat)
      /\ Len(sendQ') = Len(sendQ) - 1
      /\ \A i \in 1 .. Len(sendQ') : sendQ'[i] = sendQ[i + 1]
      /\ Len(sendQ) \in Nat \ {0}
  BY HeadTailProperties, EmptySeq, LenProperties, SMT DEF ClientInv, ClientType, Take
<1>2. UNCHANGED <<done, connClosed, wire, result, wants, call, packet, outcome, accepted>>
  BY DEF Take, callerVars
<1>3. ClientType'
  BY <1>1, <1>2 DEF ClientInv, ClientType, Take
<1>4. \A n : Whole(n)' <=> Whole(n)
  BY <1>2 DEF Whole
<1>5. accepted \in Nat /\ Taken' = Taken + 1 /\ Taken \in Int /\ Taken' \in Int
  <2>1. accepted \in Nat /\ accepted' = accepted /\ Len(sendQ') \in Int
    BY <1>1, <1>2, LenProperties, SMT DEF ClientInv, ClientType
  <2> QED  BY <1>1, <2>1, SMT DEF Taken
<1>6. QueueOrdered'
  <2>1. Len(sendQ') <= accepted' /\ Len(sendQ) <= accepted /\ Len(wire) = Taken /\ Taken >= 0
    BY <1>1, <1>2, <1>5, SMT DEF ClientInv, QueueOrdered, Take, Taken
  <2>2. \A i \in 1 .. Len(sendQ) : sendQ[i] = Taken + i
    BY DEF ClientInv, QueueOrdered
  <2>3. \A i \in 1 .. Len(sendQ') : sendQ'[i] = Taken' + i
    BY <1>1, <1>5, <2>2, SMT
  <2>4. current' = Taken' /\ Len(wire') = Taken' - 1 /\ Taken' > 0
    BY <1>1, <1>2, <1>5, <2>1, <2>2, SMT DEF Take
  <2> QED  BY <2>1, <2>3, <2>4 DEF QueueOrdered, Take
<1>7. WireOrdered' /\ \A n \in 1 .. MaxPackets : ResultTrue(n)'
  BY <1>2, <1>4 DEF ClientInv, WireOrdered, ResultTrue, Take, Broken, Failing
<1>8. RoomLeft' /\ \A c \in Caller : CallTrue(c)'
  BY <1>2, <1>4, CallersUntouched, SMT DEF Take, Failing
<1> QED  BY <1>3, <1>6, <1>7, <1>8 DEF ClientInv

\* Leaving for good, and closing, write nothing.
LEMMA EndInv ==
  ASSUME ClientInv, Quit \/ CloseAfterFailure
  PROVE  ClientInv'
<1>1. /\ UNCHANGED <<sendQ, current, wire, result, wants, call, packet, outcome, accepted>>
      /\ writer' \in Failing /\ writer \in Failing \cup {"select"}
      /\ done => done'
      /\ done' \in BOOLEAN /\ connClosed' \in BOOLEAN
  BY DEF Quit, CloseAfterFailure, callerVars, Failing, ClientInv, ClientType
<1>2. ClientType'
  BY <1>1 DEF ClientInv, ClientType, Broken
<1>3. \A n : Whole(n)' <=> Whole(n)
  BY <1>1 DEF Whole
<1>4. QueueOrdered' /\ WireOrdered' /\ \A n \in 1 .. MaxPackets : ResultTrue(n)'
  BY <1>1, <1>3
  DEF ClientInv, QueueOrdered, WireOrdered, ResultTrue, Taken, Broken, Failing
<1>5. RoomLeft' /\ \A c \in Caller : CallTrue(c)'
  BY <1>1, <1>3, CallersUntouched DEF callerVars
<1> QED  BY <1>2, <1>4, <1>5 DEF ClientInv

\* So does a write, whole or cut short,
LEMMA WriteInv ==
  ASSUME ClientInv, Write
  PROVE  ClientInv'
<1>1. /\ UNCHANGED <<sendQ, done, connClosed, current, result, wants, call, packet,
                     outcome, accepted>>
      /\ writer = "write" /\ writer' \in {"report", "fail"}
  BY DEF Write, callerVars
<1>2. /\ Taken' = Taken /\ Taken \in Int /\ Taken > 0
      /\ Len(wire) = Taken - 1 /\ current = Taken /\ Len(wire) \in Nat
      /\ wire \in Seq([id : Nat, whole : BOOLEAN])
  BY <1>1, LenProperties, SMT DEF ClientInv, ClientType, QueueOrdered, Taken
<1>3. ASSUME NEW w \in BOOLEAN, wire' = Append(wire, [id |-> current, whole |-> w]),
             writer' = IF w THEN "report" ELSE "fail"
      PROVE  /\ wire' \in Seq([id : Nat, whole : BOOLEAN])
             /\ WireOrdered' /\ Len(wire') = Taken
             /\ \A n : Whole(n) => Whole(n)'
             /\ ~w => ~Whole(Taken)'
  <2>1. [id |-> current, whole |-> w] \in [id : Nat, whole : BOOLEAN]
    BY DEF ClientInv, ClientType
  <2>2. /\ wire' \in Seq([id : Nat, whole : BOOLEAN])
        /\ Len(wire') = Len(wire) + 1
        /\ \A i \in 1 .. Len(wire) : wire'[i] = wire[i]
        /\ wire'[Len(wire) + 1] = [id |-> current, whole |-> w]
        /\ \A n : Whole(n) => Whole(n)'
    BY <1>2, <1>3, <2>1, WireGrows
  <2>3. \A i \in 1 .. Len(wire) : wire[i].id = i /\ wire[i].whole
    BY <1>1 DEF ClientInv, WireOrdered, Broken, Failing
  <2>4. ASSUME NEW i \in 1 .. Len(wire')
        PROVE  wire'[i].id = i /\ (wire'[i].whole \/ writer' \in Broken)
    <3>1. CASE i \in 1 .. Len(wire)
      BY <2>2, <2>3, <3>1
    <3>2. CASE i = Len(wire) + 1
      BY <1>2, <1>3, <2>2, <3>2, SMT DEF Broken
    <3> QED  BY <1>2, <2>2, <3>1, <3>2, SMT
  <2>5. ASSUME ~w PROVE ~Whole(Taken)'
    <3>1. \A i \in 1 .. Len(wire') : wire'[i] # [id |-> Taken, whole |-> TRUE]
      <4>1. wire'[Taken].whole = FALSE
        BY <1>2, <2>2, <2>5, SMT
      <4>2. \A i \in 1 .. Len(wire') : wire'[i].id = i
        BY <2>4
      <4> QED  BY <4>1, <4>2, SMT
    <3> QED  BY <1>2, <3>1 DEF Whole
  <2> QED  BY <1>2, <2>2, <2>4, <2>5, SMT DEF WireOrdered
<1>4. ASSUME wire' = wire, writer' = "fail"
      PROVE  /\ WireOrdered' /\ \A n : Whole(n) <=> Whole(n)'
             /\ ~Whole(Taken)'
  <2>1. ~Whole(Taken)
    BY <1>2, WholeAt, SMT DEF ClientInv
  <2>2. \A n : Whole(n) <=> Whole(n)'
    BY <1>4 DEF Whole
  <2> QED  BY <1>2, <1>4, <2>1, <2>2 DEF ClientInv, WireOrdered, Broken
<1>5. PICK w \in BOOLEAN :
        \/ /\ wire' = Append(wire, [id |-> current, whole |-> w])
           /\ writer' = IF w THEN "report" ELSE "fail"
        \/ wire' = wire /\ writer' = "fail"
  BY DEF Write
<1>6. /\ ClientType' /\ WireOrdered' /\ \A n : Whole(n) => Whole(n)'
      /\ writer' = "report" => Len(wire') = Taken
      /\ writer' = "fail" => Len(wire') <= Taken /\ ~Whole(Taken)'
  BY <1>1, <1>2, <1>3, <1>4, <1>5, SMT DEF ClientInv, ClientType, Broken
<1>7. QueueOrdered'
  BY <1>1, <1>2, <1>6 DEF ClientInv, QueueOrdered, Whole
<1>8. \A n \in 1 .. MaxPackets : ResultTrue(n)'
  BY <1>1, <1>6 DEF ClientInv, ResultTrue, Failing
<1>9. RoomLeft' /\ \A c \in Caller : CallTrue(c)'
  BY <1>1, <1>6, CallersUntouched DEF callerVars, Failing
<1> QED  BY <1>6, <1>7, <1>8, <1>9 DEF ClientInv

\* and the report of its result.
LEMMA ReportInv ==
  ASSUME ClientInv, Report
  PROVE  ClientInv'
<1>1. /\ UNCHANGED <<sendQ, done, connClosed, wire, wants, call, packet, outcome, accepted>>
      /\ writer \in {"report", "fail"}
      /\ writer' = IF writer = "report" THEN "select" ELSE "close"
      /\ current' = 0
  BY DEF Report, callerVars
<1>2. \A n : Whole(n)' <=> Whole(n)
  BY <1>1 DEF Whole
<1>3. Taken' = Taken /\ Taken \in Nat /\ current = Taken
  BY <1>1 DEF ClientInv, ClientType, QueueOrdered, Taken
<1>4. ClientType'
  <2>1. result' \in [1 .. MaxPackets -> {"empty", "ok", "failed"}]
    BY DEF ClientInv, ClientType, Report
  <2> QED  BY <1>1, <2>1 DEF ClientInv, ClientType, Broken, Failing
<1>5. QueueOrdered' /\ WireOrdered'
  BY <1>1, <1>2, <1>3 DEF ClientInv, QueueOrdered, WireOrdered, Broken, Failing
<1>6. writer = "report" => Whole(current)
  <2>1. ASSUME writer = "report" PROVE Whole(current)
    <3>1. current \in 1 .. Len(wire)
      BY <1>3, <2>1, SMT DEF ClientInv, QueueOrdered
    <3>2. wire[current].whole
      BY <2>1, <3>1 DEF ClientInv, WireOrdered, Broken, Failing
    <3> QED  BY <1>3, <3>1, <3>2, WholeAt DEF ClientInv
  <2> QED  BY <2>1
<1>7. writer = "fail" => ~Whole(current)
  BY <1>3 DEF ClientInv, QueueOrdered
<1>8. ASSUME NEW n \in 1 .. MaxPackets PROVE ResultTrue(n)'
  <2>1. ResultTrue(n) /\ (result[n] = "failed" => writer \in Failing)
    BY DEF ClientInv, ResultTrue
  <2>2. CASE result'[n] = result[n]
    BY <1>1, <1>2, <2>1, <2>2 DEF ResultTrue, Failing
  <2>3. CASE result'[n] # result[n]
    <3>1. n = current /\ result'[n] = IF writer = "report" THEN "ok" ELSE "failed"
      BY <2>3 DEF Report, ClientInv, ClientType
    <3> QED  BY <1>1, <1>2, <1>6, <1>7, <3>1 DEF ResultTrue, Failing
  <2> QED  BY <2>2, <2>3
<1>9. RoomLeft' /\ \A c \in Caller : CallTrue(c)'
  BY <1>1, <1>2, CallersUntouched DEF callerVars, Failing
<1> QED  BY <1>4, <1>5, <1>8, <1>9 DEF ClientInv

(***************************************************************************)
(* The invariant holds, and what follows from it.                          *)
(***************************************************************************)

\* Initially nothing is queued, written or waited for.
LEMMA InitInv == Init => ClientInv
<1> SUFFICES ASSUME Init PROVE ClientInv
  OBVIOUS
<1>1. Len(sendQ) = 0 /\ Len(wire) = 0 /\ accepted = 0 /\ writer = "select"
  BY EmptySeq DEF Init
<1>2. ClientType
  BY EmptySeq DEF Init, ClientType, Broken, Failing
<1>3. QueueOrdered /\ WireOrdered
  BY <1>1, SMT DEF QueueOrdered, WireOrdered, Taken
<1>4. RoomLeft
  <2>1. Offering = {}
    BY DEF Init, Offering
  <2>2. Cardinality(Offering) = 0
    BY <2>1, FS_EmptySet
  <2> QED  BY <1>1, <2>2, ClientAssumption, SMT DEF RoomLeft
<1>5. \A n \in 1 .. MaxPackets : ResultTrue(n)
  BY DEF Init, ResultTrue
<1>6. \A c \in Caller : CallTrue(c)
  BY DEF Init, CallTrue
<1> QED  BY <1>2, <1>3, <1>4, <1>5, <1>6 DEF ClientInv

\* Every step of the writer or of a caller keeps the invariant.
LEMMA NextInv == ClientInv /\ [Next]_vars => ClientInv'
<1> SUFFICES ASSUME ClientInv, [Next]_vars PROVE ClientInv'
  OBVIOUS
<1>1. CASE UNCHANGED vars
  BY <1>1 DEF vars, ClientInv, ClientType, QueueOrdered, WireOrdered, RoomLeft,
              ResultTrue, CallTrue, OutcomeTrue, Taken, Offering, Whole
<1>2. ASSUME NEW c \in Caller, NEW kind \in {"enqueue", "send"},
             done \/ accepted + Cardinality(Offering) < MaxPackets, Call(c, kind)
      PROVE  ClientInv'
  BY <1>2, CallInv
<1>3. ASSUME NEW c \in Caller, Proceed(c) \/ Close(c) PROVE ClientInv'
  BY <1>3, OfferInv, AwaitInv, CloseInv DEF Proceed
<1>4. CASE CloseFromOutside
  BY <1>4, CloseFromOutsideInv
<1>5. CASE writeLoop
  BY <1>5, TakeInv, EndInv, WriteInv, ReportInv DEF writeLoop
<1> QED  BY <1>1, <1>2, <1>3, <1>4, <1>5 DEF Next

\* The invariant holds in every state of a client, its writer and its callers.
THEOREM ClientInvariant == Spec => []ClientInv
<1> QED  BY InitInv, NextInv, PTL DEF Spec, Safe

\* A caller that waited for its packet is told that the client is closed only
\* while the packet has no result.
LEMMA ClosedUnreported ==
  ASSUME ClientInv, [Next]_vars, NEW c \in Caller,
         call[c] \in {"wait", "late"}, call'[c] = "idle", outcome'[c] = "closed"
  PROVE  result[packet[c]] = "empty"
<1>1. /\ call \in [Caller -> {"idle", "enqueue", "send", "wait", "late", "closing"}]
      /\ outcome \in [Caller -> {"none", "ok", "failed", "closed", "full"}]
      /\ result \in [1 .. MaxPackets -> {"empty", "ok", "failed"}]
  BY DEF ClientInv, ClientType
<1>2. packet[c] \in 1 .. MaxPackets
  <2>1. packet[c] \in 1 .. accepted /\ accepted \in Nat /\ RoomLeft
    BY DEF ClientInv, CallTrue, ClientType
  <2>2. Cardinality(Offering) \in Nat
    <3>1. Offering \in SUBSET Caller
      BY DEF Offering
    <3> QED  BY <3>1, FS_Subset, FS_CardinalityType, ClientAssumption
  <2> QED  BY <2>1, <2>2, ClientAssumption, SMT DEF RoomLeft
<1>3. result[packet[c]] # "closed"
  <2>1. result[packet[c]] \in {"empty", "ok", "failed"}
    BY <1>1, <1>2
  <2> QED  BY <2>1
<1>4. call'[c] # call[c]
  OBVIOUS
<1>5. Await(c) \/ LastLook(c)
  <2>1. ~UNCHANGED vars /\ ~CloseFromOutside /\ ~writeLoop
    BY <1>4
    DEF vars, CloseFromOutside, writeLoop, Take, Quit, Write, Report,
        CloseAfterFailure, callerVars
  <2>2. ASSUME NEW d \in Caller,
               \/ \E kind \in {"enqueue", "send"} : Call(d, kind)
               \/ Proceed(d)
               \/ Close(d)
        PROVE  d = c
    BY <1>1, <1>4, <2>2
    DEF Call, Proceed, Offer, Await, LastLook, CloseConn, Close, Return
  <2>3. PICK d \in Caller : \/ \E kind \in {"enqueue", "send"} : Call(d, kind)
                            \/ Proceed(d)
                            \/ Close(d)
    BY <2>1 DEF Next
  <2>4. d = c
    BY <2>2, <2>3
  <2> QED  BY <2>3, <2>4 DEF Call, Proceed, Offer, CloseConn, Close
<1>6. CASE Await(c)
  <2>1. result[packet[c]] # "empty" /\ Return(c, result[packet[c]])
    BY <1>1, <1>6 DEF Await
  <2> QED  BY <1>1, <1>3, <2>1 DEF Return
<1>7. CASE LastLook(c)
  BY <1>1, <1>3, <1>7 DEF LastLook, Return
<1> QED  BY <1>5, <1>6, <1>7

\* What Send returns is true, for any number of callers, any capacity of the
\* queue and any number of packets (SendTruthful of Client).
THEOREM SendCorrect == Spec => SendTruthful
<1>1. ClientInv => \A c \in Caller : Truthful(c)
  BY DEF ClientInv, CallTrue, OutcomeTrue, Failing, Truthful
<1>2. ClientInv /\ [Next]_vars =>
        [\A c \in Caller :
           /\ call[c] \in {"wait", "late"} /\ call'[c] = "idle"
           /\ outcome'[c] = "closed"
           => result[packet[c]] = "empty"]_vars
  BY ClosedUnreported
<1> QED  BY <1>1, <1>2, ClientInvariant, PTL DEF Spec, Safe, SendTruthful

\* Every step of a Client is a step of Outbound, or none.
LEMMA StepsImplement ==
  ASSUME ClientInv, [Next]_vars
  PROVE  [Abstract!Next]_<<accepted, wire, writer \in {"fail", "close", "closeConn", "exited"}>>
<1> DEFINE broken == writer \in {"fail", "close", "closeConn", "exited"}
<1>1. CASE UNCHANGED <<accepted, wire, writer>>
  BY <1>1
<1>2. ASSUME NEW c \in Caller, Offer(c), ~UNCHANGED <<accepted, wire, writer>>
      PROVE  Abstract!Accept
  BY <1>2 DEF Offer, Return, writerVars, Abstract!Accept
<1>3. ASSUME Take \/ Report PROVE UNCHANGED <<accepted, wire, broken>>
  BY <1>3, SMT DEF Take, Report, callerVars
<1>4. ASSUME Quit PROVE Abstract!Break
  BY <1>4 DEF Quit, callerVars, Abstract!Break
<1>5. ASSUME CloseAfterFailure PROVE UNCHANGED <<accepted, wire, broken>>
  BY <1>5, SMT DEF CloseAfterFailure, callerVars
<1>6. ASSUME Write PROVE Abstract!Break \/ \E whole \in BOOLEAN : Abstract!Deliver(whole)
  <2>1. writer = "write" /\ accepted' = accepted
    BY <1>6 DEF Write, callerVars
  <2>2. Len(wire) < accepted /\ current = Len(wire) + 1
    <3>1. Len(wire) = Taken - 1 /\ current = Taken /\ Taken > 0 /\ Len(sendQ) \in Nat
          /\ accepted \in Nat
      BY <2>1, LenProperties DEF ClientInv, ClientType, QueueOrdered
    <3> QED  BY <3>1, SMT DEF Taken
  <2>3. ASSUME NEW w \in BOOLEAN,
               wire' = Append(wire, [id |-> current, whole |-> w]),
               writer' = IF w THEN "report" ELSE "fail"
        PROVE  Abstract!Deliver(w)
    BY <2>1, <2>2, <2>3, SMT DEF Abstract!Deliver
  <2>4. ASSUME wire' = wire, writer' = "fail" PROVE Abstract!Break
    BY <2>1, <2>4 DEF Abstract!Break
  <2>5. \/ \E w \in BOOLEAN : /\ wire' = Append(wire, [id |-> current, whole |-> w])
                               /\ writer' = IF w THEN "report" ELSE "fail"
        \/ wire' = wire /\ writer' = "fail"
    BY <1>6 DEF Write
  <2> QED  BY <2>3, <2>4, <2>5
<1>7. ASSUME NEW c \in Caller,
             (\E kind \in {"enqueue", "send"} : Call(c, kind)) \/ Await(c)
               \/ LastLook(c) \/ CloseConn(c) \/ Close(c) \/ CloseFromOutside
      PROVE  UNCHANGED <<accepted, wire, writer>>
  BY <1>7
  DEF Call, Await, LastLook, CloseConn, Close, CloseFromOutside, writerVars,
              callerVars
<1>8. CASE UNCHANGED vars
  BY <1>8 DEF vars
<1>9. CASE Next
  <2>1. CASE CloseFromOutside
    BY <2>1 DEF CloseFromOutside, writerVars, callerVars
  <2>2. CASE writeLoop
    BY <2>2, <1>3, <1>4, <1>5, <1>6 DEF writeLoop, Abstract!Next
  <2>3. ASSUME NEW c \in Caller,
               (\E kind \in {"enqueue", "send"} : Call(c, kind)) \/ Proceed(c) \/ Close(c)
        PROVE  [Abstract!Next]_<<accepted, wire, broken>>
    BY <2>3, <1>1, <1>2, <1>7 DEF Proceed, Abstract!Next
  <2> QED  BY <1>9, <2>1, <2>2, <2>3 DEF Next
<1> QED  BY <1>8, <1>9

\* For any number of callers, any capacity of the queue and any number of
\* packets, a Client puts the packets it accepts on the wire in order, once and
\* without gaps, until the first write that fails (ImplementsOutbound).
THEOREM ImplementsCorrect == Spec => ImplementsOutbound
<1>1. Init => Abstract!Init
  BY SMT DEF Init, Abstract!Init
<1> QED
  BY <1>1, StepsImplement, ClientInvariant, PTL
  DEF Spec, Safe, ImplementsOutbound, Abstract!Spec
=============================================================================
