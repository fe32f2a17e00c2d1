------------------------- MODULE SessionStoreProofs -------------------------
(***************************************************************************)
(* Proofs about SessionStore, for every value of the limits and any number *)
(* of clients, sessions and messages: every queue stays consistent, what a *)
(* step may do to a session, and the capacity totals.                      *)
(***************************************************************************)
EXTENDS SessionStore, SessionStateProofs, FiniteSetTheorems, SequenceTheorems

\* First-order reasoning: Zenon, but for the leaves that cite SMT.
USE Zenon

(***************************************************************************)
(* What the invariant of a queue implies.                                  *)
(***************************************************************************)

\* A consistent queue is in admission order.
LEMMA QueueInOrder ==
  ASSUME NEW s \in State, NEW m \in Nat, QueueInv(s, m)
  PROVE  InOrder(s)
<1> SUFFICES ASSUME NEW i \in 1 .. Len(s.entries),
                    NEW j \in 1 .. Len(s.entries), i < j
             PROVE  /\ s.entries[i].msg < s.entries[j].msg
                    /\ Attempted(s, j) => Attempted(s, i)
                    /\ Attempted(s, j) /\ s.entries[j].lastEpoch = s.epoch
                         => s.entries[i].lastEpoch = s.epoch
  BY DEF InOrder
<1>1. ~s.deleted
  BY SMT DEF QueueInv
<1>2. ASSUME Attempted(s, j), s.entries[j].lastEpoch = s.epoch
      PROVE  s.entries[i].lastEpoch = s.epoch
  <2>1. j <= s.activeInflight /\ s.activeInflight \in 0 .. Len(s.entries)
    BY <1>1, <1>2 DEF QueueInv
  <2>2. i <= s.activeInflight
    BY <2>1, SMT DEF State
  <2> QED  BY <2>2, <1>1 DEF QueueInv
<1> QED  BY <1>2 DEF QueueInv

\* An identifier in flight names the position of its message in the queue.
LEMMA InflightPositions ==
  ASSUME NEW s \in State, NEW m \in Nat, QueueInv(s, m),
         NEW k \in Nat,
         \A i \in 1 .. Len(s.entries) : Attempted(s, i) => i <= k
  PROVE  Cardinality(InflightIDs(s)) <= k
<1> DEFINE At(p) == CHOOSE i \in 1 .. Len(s.entries) :
                      s.entries[i].packetID = p
           f == [p \in InflightIDs(s) |-> At(p)]
<1>1. ASSUME NEW p \in InflightIDs(s)
      PROVE  /\ At(p) \in 1 .. Len(s.entries)
             /\ s.entries[At(p)].packetID = p
             /\ At(p) \in 1 .. k
  <2>1. \E i \in 1 .. Len(s.entries) : s.entries[i].packetID = p
    BY DEF QueueInv, InflightAgrees
  <2>2. At(p) \in 1 .. Len(s.entries) /\ s.entries[At(p)].packetID = p
    BY <2>1
  <2>3. Attempted(s, At(p))
    BY <2>2, SessionLimitsValid, SMT DEF Attempted, InflightIDs, PacketIDs
  <2> HIDE DEF At
  <2>4. At(p) \in 1 .. k
    BY <2>2, <2>3, SMT DEF State
  <2> QED  BY <2>2, <2>4
<1> HIDE DEF At
<1>2. f \in Injection(InflightIDs(s), 1 .. k)
  <2>1. f \in [InflightIDs(s) -> 1 .. k]
    BY <1>1
  <2>2. \A p, q \in InflightIDs(s) : f[p] = f[q] => p = q
    BY <1>1
  <2> QED  BY <2>1, <2>2 DEF Injection, IsInjective
<1> HIDE DEF f
<1>3. IsFiniteSet(1 .. k) /\ Cardinality(1 .. k) = k
  BY FS_Interval, SMT
<1> QED  BY <1>2, <1>3, FS_Injection, SMT

\* A consistent queue has at most MaxInflight entries in the window.
LEMMA QueueInWindow ==
  ASSUME NEW s \in State, NEW m \in Nat, QueueInv(s, m)
  PROVE  InWindow(s)
<1>1. Cardinality(InflightIDs(s)) <= MaxInflight
  <2>1. /\ MaxInflight \in Nat
        /\ \A i \in 1 .. Len(s.entries) : Attempted(s, i) => i <= MaxInflight
    BY SessionLimitsValid, SMT DEF QueueInv
  <2> QED  BY <2>1, InflightPositions
<1>2. ASSUME ~s.deleted
      PROVE  s.activeInflight = Cardinality({i \in 1 .. Len(s.entries) :
               Attempted(s, i) /\ s.entries[i].lastEpoch = s.epoch})
  <2> DEFINE W == {i \in 1 .. Len(s.entries) :
                     Attempted(s, i) /\ s.entries[i].lastEpoch = s.epoch}
  <2>1. Len(s.entries) \in Nat /\ s.activeInflight \in 0 .. Len(s.entries)
    BY <1>2, SMT DEF QueueInv, State
  <2>2. W = 1 .. s.activeInflight
    <3>1. \A i \in 1 .. Len(s.entries) : i \in W <=> i <= s.activeInflight
      BY <1>2 DEF QueueInv
    <3>2. W \subseteq 1 .. Len(s.entries)
      OBVIOUS
    <3>3. s.activeInflight \in Nat /\ s.activeInflight <= Len(s.entries)
      BY <2>1, SMT
    <3> HIDE DEF W
    <3>4. \A i : i \in W => i \in 1 .. s.activeInflight
      BY <3>1, <3>2, <3>3, SMT
    <3>5. \A i : i \in 1 .. s.activeInflight => i \in W
      BY <3>1, <3>3, <2>1, SMT
    <3> QED  BY <3>4, <3>5
  <2>3. Cardinality(1 .. s.activeInflight) = s.activeInflight
    <3>1. 1 \in Int /\ s.activeInflight \in Nat
      BY <2>1, SMT
    <3> HIDE DEF W
    <3> QED  BY <3>1, FS_Interval, SMT
  <2> QED  BY <2>2, <2>3
<1> QED  BY <1>1, <1>2 DEF InWindow

\* A consistent queue leaves a Packet ID free whenever the window is open.
LEMMA QueueFindsPacketID ==
  ASSUME NEW s \in State, NEW m \in Nat, QueueInv(s, m)
  PROVE  FindsPacketID(s)
<1> SUFFICES ASSUME NEW i \in 1 .. Len(s.entries), MayDeliver(s, s.epoch),
                    FirstUntried(s, s.epoch, i), ~Attempted(s, i),
                    \A p \in PacketIDs : s.inflight[p] # Nil
             PROVE  FALSE
  BY DEF FindsPacketID
<1>1. InflightIDs(s) = PacketIDs
  BY DEF InflightIDs
<1>2. i <= MaxInflight /\ i \in Nat \ {0}
  <2>1. s.epoch # 0
    BY DEF FirstUntried, QueueInv
  <2>2. s.epoch \in Nat \ {0}
    BY <2>1 DEF State
  <2> QED  BY <2>2, NextPosition, SMTT(30) DEF State
<1>3. \A j \in 1 .. Len(s.entries) : Attempted(s, j) => j <= i - 1
  BY <1>2, SMTT(30) DEF QueueInv, State
<1>4. Cardinality(PacketIDs) <= i - 1
  BY <1>1, <1>2, <1>3, InflightPositions, SMT
<1>5. Cardinality(PacketIDs) = MaxPacketID
  BY SessionLimitsValid, FS_Interval, SMTT(30) DEF PacketIDs
<1> QED  BY <1>2, <1>4, <1>5, SessionLimitsValid, SMT

(***************************************************************************)
(* What a method may do: wake the consumer, and keep what is not answered. *)
(***************************************************************************)

\* The calls after which the consumer is notified.
Notifies(s, t) ==
  \/ t = Deleted(s) \/ t = BeginDelivery(s) \/ t = ResumeDelivery(s)
  \/ \E m, size : t = Admit(s, m, size)

Delivers(s, t) ==
  \E epoch \in Nat, i \in 1 .. Len(s.entries) :
    /\ MayDeliver(s, epoch) /\ FirstUntried(s, epoch, i)
    /\ \/ Attempted(s, i) /\ t = Replay(s, epoch, i)
       \/ /\ ~Attempted(s, i)
          /\ \E pid \in PacketIDs : t = FirstAttempt(s, epoch, i, pid)

Acknowledges(s, t) ==
  \E pid \in PacketIDs, i \in 1 .. Len(s.entries) :
    /\ ~s.deleted /\ s.inflight[pid] # Nil
    /\ s.entries[i].msg = s.inflight[pid] /\ t = Ack(s, pid, i)

\* The calls that leave the queue alone.
Passes(s, t) ==
  \/ t = s \/ t = PauseDelivery(s) \/ t = MarkConnected(s)
  \/ \E at : t = MarkDisconnectedAt(s, at)
  \/ \E f, qos : t = SetSubscription(s, f, qos) \/ t = DeleteSubscription(s, f)
  \/ t = [s EXCEPT !.changed = FALSE]

Moves(s, t) == Notifies(s, t) \/ Delivers(s, t) \/ Acknowledges(s, t) \/ Passes(s, t)

\* A call that leaves the queue alone gives Next nothing new to return.
LEMMA PassesFrame ==
  ASSUME NEW s \in State, NEW t, Passes(s, t)
  PROVE  /\ t.entries = s.entries /\ t.inflight = s.inflight /\ t.epoch = s.epoch
         /\ t.deleted = s.deleted /\ t.activeInflight = s.activeInflight
         /\ t.paused = s.paused \/ t.paused
BY Zenon
DEF Passes, PauseDelivery, MarkConnected, MarkDisconnectedAt, SetSubscription,
             DeleteSubscription, State

\* A call that makes a message deliverable leaves a wakeup.
LEMMA MovesWake ==
  ASSUME NEW s \in State, NEW t, Moves(s, t)
  PROVE  Wakes(s, t)
<1>1. CASE Notifies(s, t)
  <2>1. t.changed
    BY <1>1 DEF Notifies, Deleted, BeginDelivery, ResumeDelivery, Admit,
                       notifyLocked, State
  <2> QED  BY <2>1 DEF Wakes
<1>2. CASE Delivers(s, t)
  BY <1>2 DEF Delivers, Wakes, HasNext, MayDeliver
<1>3. CASE Acknowledges(s, t)
  <2>1. t.changed
    BY <1>3 DEF Acknowledges, Ack, notifyLocked, State
  <2> QED  BY <2>1 DEF Wakes
<1>4. CASE Passes(s, t)
  BY <1>4, PassesFrame, SMT DEF Wakes, HasNext, MayDeliver, FirstUntried
<1> QED  BY <1>1, <1>2, <1>3, <1>4 DEF Moves

\* Entries that stay where they are, with their message and identifier.
Stays(s, t) ==
  /\ Len(t.entries) >= Len(s.entries)
  /\ \A i \in 1 .. Len(s.entries) :
       /\ t.entries[i].msg = s.entries[i].msg
       /\ Attempted(s, i) => t.entries[i].packetID = s.entries[i].packetID

\* A queue that stays in place keeps its messages.
LEMMA StaysKept ==
  ASSUME NEW s \in State, NEW t, Len(t.entries) \in Nat, Stays(s, t)
  PROVE  KeptUntilAcked(s, t)
<1>1. Len(s.entries) \in Nat /\ Len(t.entries) \in Nat
  BY SMT DEF State
<1>2. ASSUME NEW i \in 1 .. Len(s.entries)
      PROVE  /\ i \in 1 .. i /\ i <= Len(t.entries)
             /\ t.entries[i].msg = s.entries[i].msg
             /\ Attempted(s, i) => t.entries[i].packetID = s.entries[i].packetID
  BY <1>1, SMT DEF Stays
<1> QED  BY <1>2 DEF KeptUntilAcked

\* Next keeps every message of the queue.
LEMMA DeliversKept ==
  ASSUME NEW s \in State, NEW t, Delivers(s, t)
  PROVE  KeptUntilAcked(s, t)
<1>1. PICK i \in 1 .. Len(s.entries), e \in Entry :
        /\ t.entries = [s.entries EXCEPT ![i] = e]
        /\ e.msg = s.entries[i].msg
        /\ Attempted(s, i) => e.packetID = s.entries[i].packetID
  <2>1. PICK epoch \in Nat, i \in 1 .. Len(s.entries) :
          \/ Attempted(s, i) /\ t = Replay(s, epoch, i)
          \/ /\ ~Attempted(s, i)
             /\ \E pid \in PacketIDs : t = FirstAttempt(s, epoch, i, pid)
    BY DEF Delivers
  <2>2. s.entries[i] \in Entry
    BY EntryType
  <2>3. CASE Attempted(s, i) /\ t = Replay(s, epoch, i)
    <3> DEFINE e == [s.entries[i] EXCEPT !.lastEpoch = epoch]
    <3>1. e \in Entry /\ e.msg = s.entries[i].msg /\ e.packetID = s.entries[i].packetID
      BY <2>2 DEF Entry
    <3>2. t.entries = [s.entries EXCEPT ![i] = e]
      BY <2>3 DEF Replay, State
    <3> QED  BY <3>1, <3>2
  <2>4. CASE ~Attempted(s, i) /\ \E pid \in PacketIDs : t = FirstAttempt(s, epoch, i, pid)
    <3>1. PICK pid \in PacketIDs : t = FirstAttempt(s, epoch, i, pid)
      BY <2>4
    <3> DEFINE e == [s.entries[i] EXCEPT !.packetID = pid, !.lastEpoch = epoch]
    <3>2. pid \in 0 .. MaxPacketID
      BY SessionLimitsValid, SMT DEF PacketIDs
    <3>3. e \in Entry /\ e.msg = s.entries[i].msg
      BY <2>2, <3>2 DEF Entry
    <3>4. t.entries = [s.entries EXCEPT ![i] = e]
      BY <3>1 DEF FirstAttempt, State
    <3> QED  BY <2>4, <3>3, <3>4
  <2> QED  BY <2>1, <2>3, <2>4
<1>2. /\ s.entries \in Seq(Entry) /\ t.entries \in Seq(Entry)
      /\ Len(t.entries) = Len(s.entries) /\ Len(s.entries) \in Nat
      /\ \A j \in 1 .. Len(s.entries) :
           t.entries[j] = IF j = i THEN e ELSE s.entries[j]
  BY <1>1, ExceptSeq, SMT DEF State
<1>3. Stays(s, t)
  BY <1>1, <1>2, SMT DEF Stays
<1> QED  BY <1>2, <1>3, StaysKept

\* Ack removes the acknowledged message and keeps the others in order.
LEMMA AcknowledgesKept ==
  ASSUME NEW s \in State, NEW m \in Nat, QueueInv(s, m), NEW t, Acknowledges(s, t)
  PROVE  KeptUntilAcked(s, t)
<1> DEFINE n == Len(s.entries)
<1>1. PICK pid \in PacketIDs, i \in 1 .. n :
        /\ s.inflight[pid] # Nil /\ s.entries[i].msg = s.inflight[pid]
        /\ t = Ack(s, pid, i)
  BY DEF Acknowledges
<1>2. /\ t.inflight = [s.inflight EXCEPT ![pid] = Nil]
      /\ t.entries = Removed(s.entries, i)
  BY <1>1 DEF Ack, notifyLocked, State
<1>3. /\ n \in Nat /\ Len(t.entries) = n - 1
      /\ \A j \in 1 .. n - 1 :
           t.entries[j] = IF j < i THEN s.entries[j] ELSE s.entries[j + 1]
  BY <1>2, RemovedProperties, SMT DEF State
<1>4. Attempted(s, i) /\ s.entries[i].packetID = pid
  <2>1. PICK k \in 1 .. n : s.entries[k].packetID = pid /\ s.entries[k].msg = s.inflight[pid]
    BY <1>1 DEF QueueInv, InflightAgrees, InflightIDs
  <2>2. k = i
    <3>1. s.entries[k].msg \in Nat /\ s.entries[i].msg \in Nat
      BY EntryType
    <3>2. ~(k < i) /\ ~(i < k)
      BY <1>1, <2>1, <3>1, SMT DEF QueueInv
    <3> QED  BY <3>2, <1>3, SMT
  <2> QED  BY <2>1, <2>2, SessionLimitsValid, SMT DEF Attempted, PacketIDs
<1>5. ASSUME NEW k \in 1 .. n, k # i
      PROVE  \E j \in 1 .. k : /\ j <= Len(t.entries) /\ t.entries[j] = s.entries[k]
  <2>1. CASE k < i
    <3>1. k \in 1 .. k /\ k <= Len(t.entries) /\ t.entries[k] = s.entries[k]
      BY <1>3, <2>1, SMT
    <3> QED  BY <3>1
  <2>2. CASE i < k
    <3>1. k - 1 \in 1 .. k /\ k - 1 <= Len(t.entries) /\ t.entries[k - 1] = s.entries[k]
      BY <1>3, <2>2, SMT
    <3> QED  BY <3>1
  <2> QED  BY <1>3, <1>5, <2>1, <2>2, SMT
<1> QED  BY <1>2, <1>4, <1>5 DEF KeptUntilAcked

\* Every call keeps the messages that are not acknowledged.
LEMMA MovesKeep ==
  ASSUME NEW s \in State, NEW m \in Nat, QueueInv(s, m), NEW t, Moves(s, t)
  PROVE  KeptUntilAcked(s, t)
<1>1. CASE t = Deleted(s)
  <2>1. t.deleted
    BY <1>1 DEF Deleted, notifyLocked, State
  <2> QED  BY <2>1 DEF KeptUntilAcked
<1>2. CASE \E k, size : t = Admit(s, k, size)
  <2>1. PICK k, size : t = Admit(s, k, size)
    BY <1>2
  <2> DEFINE e == [msg |-> k, size |-> size, packetID |-> 0, lastEpoch |-> 0]
  <2>2. t.entries = Append(s.entries, e)
    BY <2>1 DEF Admit, notifyLocked, State
  <2>3. /\ Len(s.entries) \in Nat /\ Len(t.entries) = Len(s.entries) + 1
        /\ \A i \in 1 .. Len(s.entries) : t.entries[i] = s.entries[i]
    <3> HIDE DEF e
    <3> QED  BY <2>2, SMT DEF State
  <2>4. Stays(s, t) /\ Len(t.entries) \in Nat
    BY <2>3, SMT DEF Stays
  <2> QED  BY <2>4, StaysKept
<1>3. ASSUME t.entries = s.entries PROVE KeptUntilAcked(s, t)
  BY <1>3, StaysKept, SMTT(30) DEF Stays, State
<1>4. CASE t = BeginDelivery(s) \/ t = ResumeDelivery(s)
  <2>1. t.entries = s.entries
    BY <1>4 DEF BeginDelivery, ResumeDelivery, notifyLocked, State
  <2> QED  BY <1>3, <2>1
<1>5. CASE Passes(s, t)
  BY <1>3, <1>5, PassesFrame
<1> QED
  BY <1>1, <1>2, <1>4, <1>5, DeliversKept, AcknowledgesKept DEF Moves, Notifies

(***************************************************************************)
(* What one session holds, and what each method adds to it or takes away.  *)
(***************************************************************************)

\* Every message and every byte a session holds is one of an entry's.
LEMMA PendingMember ==
  ASSUME NEW s, NEW m
  PROVE  m \in Pending(s) <=> \E i \in 1 .. Len(s.entries) : m = s.entries[i].msg
BY DEF Pending

LEMMA BufferedMember ==
  ASSUME NEW s, NEW b
  PROVE  b \in Buffered(s) <=>
           \E i \in 1 .. Len(s.entries) :
             b \in {s.entries[i].msg} \X (1 .. s.entries[i].size)
BY DEF Buffered

\* A session holds finitely much.
LEMMA HoldingsFinite ==
  ASSUME NEW s \in State
  PROVE  /\ IsFiniteSet(Pending(s)) /\ IsFiniteSet(Buffered(s))
         /\ IsFiniteSet(InflightIDs(s)) /\ IsFiniteSet(Subscribed(s))
<1> DEFINE I == 1 .. Len(s.entries)
<1>1. IsFiniteSet(I)
  <2>1. 1 \in Int /\ Len(s.entries) \in Int BY SMT DEF State
  <2> QED BY <2>1, FS_Interval
<1>2. IsFiniteSet(Pending(s))
  <2> DEFINE f == [i \in I |-> s.entries[i].msg]
  <2>1. f \in Surjection(I, Pending(s)) BY DEF Surjection, Pending
  <2> HIDE DEF f, I
  <2> QED BY <1>1, <2>1, FS_Surjection
<1>3. IsFiniteSet(Buffered(s))
  <2> DEFINE f == [i \in I |-> {s.entries[i].msg} \X (1 .. s.entries[i].size)]
             T == {{s.entries[i].msg} \X (1 .. s.entries[i].size) : i \in I}
  <2>1. f \in Surjection(I, T) BY DEF Surjection
  <2>2. IsFiniteSet(T)
    <3> HIDE DEF f, T, I
    <3> QED BY <1>1, <2>1, FS_Surjection
  <2>3. ASSUME NEW i \in I
        PROVE  IsFiniteSet({s.entries[i].msg} \X (1 .. s.entries[i].size))
    <3>1. s.entries[i].size \in Int /\ 1 \in Int
      <4>1. s.entries[i].size \in Nat BY EntryType
      <4> QED BY <4>1, SMT
    <3>2. IsFiniteSet(1 .. s.entries[i].size) BY <3>1, FS_Interval
    <3>3. IsFiniteSet({s.entries[i].msg}) BY FS_Singleton
    <3> QED BY <3>2, <3>3, FS_Product
  <2>4. \A S \in T : IsFiniteSet(S) BY <2>3
  <2> HIDE DEF T
  <2>5. IsFiniteSet(UNION T) BY <2>2, <2>4, FS_UNION
  <2> QED BY <2>5 DEF Buffered, T
<1>4. IsFiniteSet(InflightIDs(s))
  <2>1. IsFiniteSet(PacketIDs)
    BY SessionLimitsValid, FS_Interval, SMT DEF PacketIDs
  <2>2. InflightIDs(s) \in SUBSET PacketIDs BY DEF InflightIDs
  <2> QED BY <2>1, <2>2, FS_Subset
<1>5. IsFiniteSet(Subscribed(s))
  <2>1. IsFiniteSet(Filter) /\ Subscribed(s) \in SUBSET Filter
    BY SessionLimitsValid DEF Subscribed
  <2> QED BY <2>1, FS_Subset
<1> QED BY <1>2, <1>3, <1>4, <1>5

\* A queue with the same messages of the same sizes holds the same.
LEMMA SameHoldings ==
  ASSUME NEW s, NEW t, Len(t.entries) = Len(s.entries),
         \A i \in 1 .. Len(s.entries) : /\ t.entries[i].msg = s.entries[i].msg
                                        /\ t.entries[i].size = s.entries[i].size
  PROVE  Pending(t) = Pending(s) /\ Buffered(t) = Buffered(s)
<1>1. 1 .. Len(t.entries) = 1 .. Len(s.entries) OBVIOUS
<1>2. Pending(t) = Pending(s) BY <1>1 DEF Pending
<1>3. \A b : b \in Buffered(t) <=> b \in Buffered(s) BY <1>1, BufferedMember
<1> QED BY <1>2, <1>3 DEF Buffered

\* The bytes of one message are as many as its size says.
LEMMA MessageBytes ==
  ASSUME NEW m, NEW n \in Nat
  PROVE  /\ IsFiniteSet({m} \X (1 .. n)) /\ Cardinality({m} \X (1 .. n)) = n
<1>1. IsFiniteSet({m}) /\ Cardinality({m}) = 1 BY FS_Singleton
<1>2. IsFiniteSet(1 .. n) /\ Cardinality(1 .. n) = n
  <2>1. 1 \in Int /\ n \in Int BY SMT
  <2>2. IsFiniteSet(1 .. n) /\ Cardinality(1 .. n) = IF 1 > n THEN 0 ELSE n - 1 + 1
    BY <2>1, FS_Interval
  <2> QED BY <2>2, SMT
<1>3. /\ IsFiniteSet({m} \X (1 .. n))
      /\ Cardinality({m} \X (1 .. n)) = Cardinality({m}) * Cardinality(1 .. n)
  BY <1>1, <1>2, FS_Product
<1> QED BY <1>1, <1>2, <1>3, SMT

\* Admit adds one message and its bytes, which no other entry has.
LEMMA AdmitHoldings ==
  ASSUME NEW s \in State, NEW m \in Nat, NEW n \in Nat, QueueInv(s, m)
  PROVE  LET t == Admit(s, m + 1, n)
         IN  /\ Cardinality(Pending(t)) = Cardinality(Pending(s)) + 1
             /\ Cardinality(Buffered(t)) = Cardinality(Buffered(s)) + n
<1> DEFINE t == Admit(s, m + 1, n)
           e == [msg |-> m + 1, size |-> n, packetID |-> 0, lastEpoch |-> 0]
           B == {m + 1} \X (1 .. n)
<1>1. t.entries = Append(s.entries, e) BY DEF Admit, notifyLocked, State
<1>2. e.msg = m + 1 /\ e.size = n OBVIOUS
<1> HIDE DEF t, e
<1>3. /\ Len(s.entries) \in Nat /\ Len(t.entries) = Len(s.entries) + 1
      /\ \A i \in 1 .. Len(s.entries) : t.entries[i] = s.entries[i]
      /\ t.entries[Len(s.entries) + 1] = e
  BY <1>1, AppendProperties, SMT DEF State
<1>4. \A i : i \in 1 .. Len(t.entries) <=>
               i \in 1 .. Len(s.entries) \/ i = Len(s.entries) + 1
  BY <1>3, SMT
<1>5. \A i \in 1 .. Len(s.entries) : s.entries[i].msg # m + 1
  <2>1. ASSUME NEW i \in 1 .. Len(s.entries) PROVE s.entries[i].msg # m + 1
    <3>1. s.entries[i].msg \in Nat /\ s.entries[i].msg <= m
      BY EntryType DEF QueueInv
    <3> QED BY <3>1, SMT
  <2> QED BY <2>1
<1>6. Cardinality(Pending(t)) = Cardinality(Pending(s)) + 1
  <2>1. Pending(t) = Pending(s) \cup {m + 1}
    BY <1>2, <1>3, <1>4 DEF Pending
  <2>2. m + 1 \notin Pending(s) BY <1>5, PendingMember
  <2> QED BY <2>1, <2>2, HoldingsFinite, FS_AddElement
<1>7. Cardinality(Buffered(t)) = Cardinality(Buffered(s)) + n
  <2>1. \A b : b \in Buffered(t) <=> b \in Buffered(s) \/ b \in B
    <3> DEFINE Of(q) == {q.msg} \X (1 .. q.size)
    <3>1. Of(e) = B BY <1>2
    <3>2. \A b, x : b \in Buffered(x) <=>
                      \E i \in 1 .. Len(x.entries) : b \in Of(x.entries[i])
      BY BufferedMember
    <3> HIDE DEF Of, B
    <3> QED BY <1>3, <1>4, <3>1, <3>2
  <2>2. Buffered(t) = Buffered(s) \cup B BY <2>1 DEF Buffered
  <2>3. Buffered(s) \cap B = {}
    <3>1. \A i \in 1 .. Len(s.entries) :
            \A b \in {s.entries[i].msg} \X (1 .. s.entries[i].size) : b \notin B
      BY <1>5, SMT
    <3> HIDE DEF B
    <3> QED BY <3>1, BufferedMember
  <2>4. IsFiniteSet(B) /\ Cardinality(B) = n BY MessageBytes
  <2>5. IsFiniteSet(Buffered(s)) BY HoldingsFinite
  <2> HIDE DEF B
  <2>6. Cardinality(Buffered(s) \cup B) =
          Cardinality(Buffered(s)) + Cardinality(B) - Cardinality(Buffered(s) \cap B)
    BY <2>4, <2>5, FS_Union
  <2>7. Cardinality(Buffered(s)) \in Nat BY <2>5, FS_CardinalityType
  <2>8. Cardinality(Buffered(s) \cap B) = 0 BY <2>3, FS_EmptySet
  <2>9. Cardinality(Buffered(s) \cup B) = Cardinality(Buffered(s)) + n
    BY <2>4, <2>6, <2>7, <2>8, SMT
  <2> QED BY <2>2, <2>9
<1> QED BY <1>6, <1>7 DEF t

\* Next leaves the messages and their sizes alone; a replay takes no Packet
\* ID, and a first attempt takes one that was free.
LEMMA NextHoldings ==
  ASSUME NEW s \in State, NEW epoch \in Nat, NEW i \in 1 .. Len(s.entries)
  PROVE  /\ Pending(Replay(s, epoch, i)) = Pending(s)
         /\ Buffered(Replay(s, epoch, i)) = Buffered(s)
         /\ InflightIDs(Replay(s, epoch, i)) = InflightIDs(s)
         /\ \A pid \in PacketIDs :
              LET t == FirstAttempt(s, epoch, i, pid)
              IN  /\ Pending(t) = Pending(s) /\ Buffered(t) = Buffered(s)
                  /\ s.inflight[pid] = Nil =>
                       Cardinality(InflightIDs(t)) = Cardinality(InflightIDs(s)) + 1
<1>1. s.entries \in Seq(Entry) /\ s.entries[i] \in Entry BY EntryType DEF State
<1>2. ASSUME NEW t, NEW e \in Entry, t.entries = [s.entries EXCEPT ![i] = e],
             e.msg = s.entries[i].msg, e.size = s.entries[i].size
      PROVE  Pending(t) = Pending(s) /\ Buffered(t) = Buffered(s)
  <2>1. /\ Len(t.entries) = Len(s.entries) /\ t.entries[i] = e
        /\ \A j \in 1 .. Len(s.entries) : j # i => t.entries[j] = s.entries[j]
    BY <1>1, <1>2, ExceptSeq, SMT
  <2>2. \A j \in 1 .. Len(s.entries) : /\ t.entries[j].msg = s.entries[j].msg
                                       /\ t.entries[j].size = s.entries[j].size
    BY <1>2, <2>1
  <2> QED BY <2>1, <2>2, SameHoldings
<1>3. LET t == Replay(s, epoch, i)
      IN  /\ Pending(t) = Pending(s) /\ Buffered(t) = Buffered(s)
          /\ InflightIDs(t) = InflightIDs(s)
  <2> DEFINE t == Replay(s, epoch, i)
             e == [s.entries[i] EXCEPT !.lastEpoch = epoch]
  <2>1. t.entries = [s.entries EXCEPT ![i] = e] /\ t.inflight = s.inflight
    BY DEF Replay, State
  <2>2. e \in Entry /\ e.msg = s.entries[i].msg /\ e.size = s.entries[i].size
    BY <1>1 DEF Entry
  <2> HIDE DEF t, e
  <2>3. Pending(t) = Pending(s) /\ Buffered(t) = Buffered(s)
    BY <1>2, <2>1, <2>2
  <2>4. InflightIDs(t) = InflightIDs(s) BY <2>1 DEF InflightIDs
  <2> QED BY <2>3, <2>4 DEF t
<1>4. ASSUME NEW pid \in PacketIDs
      PROVE  LET t == FirstAttempt(s, epoch, i, pid)
             IN  /\ Pending(t) = Pending(s) /\ Buffered(t) = Buffered(s)
                 /\ s.inflight[pid] = Nil =>
                      Cardinality(InflightIDs(t)) = Cardinality(InflightIDs(s)) + 1
  <2> DEFINE t == FirstAttempt(s, epoch, i, pid)
             e == [s.entries[i] EXCEPT !.packetID = pid, !.lastEpoch = epoch]
  <2>1. /\ t.entries = [s.entries EXCEPT ![i] = e]
        /\ t.inflight = [s.inflight EXCEPT ![pid] = e.msg]
    BY DEF FirstAttempt, State
  <2>2. /\ e \in Entry /\ e.msg = s.entries[i].msg /\ e.size = s.entries[i].size
        /\ e.msg # Nil
    <3>1. pid \in 0 .. MaxPacketID BY SessionLimitsValid, SMT DEF PacketIDs
    <3>2. s.entries[i].msg # Nil BY EntryType DEF Nil
    <3> QED BY <1>1, <3>1, <3>2 DEF Entry
  <2> HIDE DEF t, e
  <2>3. Pending(t) = Pending(s) /\ Buffered(t) = Buffered(s)
    BY <1>2, <2>1, <2>2
  <2>4. ASSUME s.inflight[pid] = Nil
        PROVE  Cardinality(InflightIDs(t)) = Cardinality(InflightIDs(s)) + 1
    <3>1. s.inflight \in [PacketIDs -> Nat] BY DEF State
    <3>2. InflightIDs(t) = InflightIDs(s) \cup {pid}
      BY <2>1, <2>2, <3>1 DEF InflightIDs
    <3>3. pid \notin InflightIDs(s) BY <2>4 DEF InflightIDs
    <3> QED BY <3>2, <3>3, HoldingsFinite, FS_AddElement
  <2> QED BY <2>3, <2>4 DEF t
<1> QED BY <1>3, <1>4

\* Ack returns exactly the message it completes, its bytes and its Packet ID.
LEMMA AckHoldings ==
  ASSUME NEW s \in State, NEW m \in Nat, QueueInv(s, m), NEW pid \in PacketIDs,
         s.inflight[pid] # Nil,
         NEW i \in 1 .. Len(s.entries), s.entries[i].msg = s.inflight[pid]
  PROVE  LET t == Ack(s, pid, i)
         IN  /\ Cardinality(Pending(t)) = Cardinality(Pending(s)) - 1
             /\ Cardinality(Buffered(t)) =
                  Cardinality(Buffered(s)) - s.entries[i].size
             /\ Cardinality(InflightIDs(t)) = Cardinality(InflightIDs(s)) - 1
<1> DEFINE t == Ack(s, pid, i)
           n == Len(s.entries)
           Of(q) == {q.msg} \X (1 .. q.size)
           B == Of(s.entries[i])
<1>1. /\ t.entries = Removed(s.entries, i)
      /\ t.inflight = [s.inflight EXCEPT ![pid] = Nil]
  BY DEF Ack, notifyLocked, State
<1> HIDE DEF t
<1>2. /\ n \in Nat /\ Len(t.entries) = n - 1
      /\ \A j \in 1 .. n - 1 :
           t.entries[j] = IF j < i THEN s.entries[j] ELSE s.entries[j + 1]
  <2>1. s.entries \in Seq(Entry) BY DEF State
  <2>2. n \in Nat BY <2>1, SMT
  <2>3. /\ Len(Removed(s.entries, i)) = n - 1
        /\ \A j \in 1 .. n - 1 :
             Removed(s.entries, i)[j] = IF j < i THEN s.entries[j] ELSE s.entries[j + 1]
    BY <2>1, RemovedProperties
  <2> QED BY <1>1, <2>2, <2>3
<1>3. \A j \in 1 .. Len(t.entries) : \E k \in 1 .. n : k # i /\ t.entries[j] = s.entries[k]
  <2>1. ASSUME NEW j \in 1 .. Len(t.entries)
        PROVE  \E k \in 1 .. n : k # i /\ t.entries[j] = s.entries[k]
    <3>1. CASE j < i
      <4>1. j \in 1 .. n /\ j # i /\ t.entries[j] = s.entries[j]
        BY <1>2, <3>1, SMT
      <4> QED BY <4>1
    <3>2. CASE ~(j < i)
      <4>1. j + 1 \in 1 .. n /\ j + 1 # i /\ t.entries[j] = s.entries[j + 1]
        BY <1>2, <3>2, SMT
      <4> QED BY <4>1
    <3> QED BY <3>1, <3>2
  <2> QED BY <2>1
<1>4. \A k \in 1 .. n : k # i => \E j \in 1 .. Len(t.entries) : t.entries[j] = s.entries[k]
  <2>1. ASSUME NEW k \in 1 .. n, k # i
        PROVE  \E j \in 1 .. Len(t.entries) : t.entries[j] = s.entries[k]
    <3>1. CASE k < i
      <4>1. k \in 1 .. Len(t.entries) /\ t.entries[k] = s.entries[k]
        BY <1>2, <3>1, SMT
      <4> QED BY <4>1
    <3>2. CASE ~(k < i)
      <4>1. k - 1 \in 1 .. Len(t.entries) /\ t.entries[k - 1] = s.entries[k]
        BY <1>2, <2>1, <3>2, SMT
      <4> QED BY <4>1
    <3> QED BY <3>1, <3>2
  <2> QED BY <2>1
<1>5. \A k \in 1 .. n : k # i => s.entries[k].msg # s.entries[i].msg
  <2>1. ASSUME NEW k \in 1 .. n, k # i PROVE s.entries[k].msg # s.entries[i].msg
    <3>1. s.entries[k].msg \in Nat /\ s.entries[i].msg \in Nat BY EntryType
    <3>2. k < i \/ i < k BY <1>2, <2>1, SMT
    <3>3. s.entries[k].msg < s.entries[i].msg \/ s.entries[i].msg < s.entries[k].msg
      BY <3>2 DEF QueueInv
    <3> QED BY <3>1, <3>3, SMT
  <2> QED BY <2>1
<1>6. Cardinality(Pending(t)) = Cardinality(Pending(s)) - 1
  <2> DEFINE v == s.entries[i].msg
  <2>1. ASSUME NEW x \in Pending(t) PROVE x \in Pending(s) /\ x # v
    <3>1. PICK j \in 1 .. Len(t.entries) : x = t.entries[j].msg
      BY <2>1, PendingMember
    <3>2. PICK k \in 1 .. n : k # i /\ t.entries[j] = s.entries[k] BY <1>3
    <3> QED BY <1>5, <3>1, <3>2, PendingMember
  <2>2. ASSUME NEW x \in Pending(s), x # v PROVE x \in Pending(t)
    <3>1. PICK k \in 1 .. n : x = s.entries[k].msg BY PendingMember
    <3>2. PICK j \in 1 .. Len(t.entries) : t.entries[j] = s.entries[k]
      BY <1>4, <2>2, <3>1
    <3> QED BY <3>1, <3>2, PendingMember
  <2>3. v \in Pending(s) BY PendingMember
  <2> HIDE DEF v
  <2>4. Pending(t) = Pending(s) \ {v} BY <2>1, <2>2
  <2> QED BY <2>3, <2>4, HoldingsFinite, FS_RemoveElement
<1>7. Cardinality(Buffered(t)) = Cardinality(Buffered(s)) - s.entries[i].size
  <2>1. \A b, x : b \in Buffered(x) <=>
                    \E j \in 1 .. Len(x.entries) : b \in Of(x.entries[j])
    BY BufferedMember
  <2>2. \A k \in 1 .. n : k # i => \A b \in Of(s.entries[k]) : b \notin B
    BY <1>5, SMT
  <2>3. s.entries[i].size \in Nat BY EntryType
  <2>4. IsFiniteSet(B) /\ Cardinality(B) = s.entries[i].size
    BY <2>3, MessageBytes
  <2> HIDE DEF Of
  <2>5. ASSUME NEW b \in Buffered(t) PROVE b \in Buffered(s) /\ b \notin B
    <3>1. PICK j \in 1 .. Len(t.entries) : b \in Of(t.entries[j]) BY <2>1
    <3>2. PICK k \in 1 .. n : k # i /\ t.entries[j] = s.entries[k] BY <1>3
    <3> QED BY <2>1, <2>2, <3>1, <3>2
  <2>a. ASSUME NEW b \in Buffered(s), b \notin B PROVE b \in Buffered(t)
    <3>1. PICK k \in 1 .. n : b \in Of(s.entries[k]) BY <2>1
    <3>2. PICK j \in 1 .. Len(t.entries) : t.entries[j] = s.entries[k]
      BY <1>4, <2>a, <3>1
    <3> QED BY <2>1, <3>1, <3>2
  <2>6. Buffered(t) = Buffered(s) \ B BY <2>5, <2>a
  <2>7. Buffered(s) \cap B = B BY <2>1
  <2>8. IsFiniteSet(Buffered(s)) BY HoldingsFinite
  <2> HIDE DEF B
  <2>9. Cardinality(Buffered(s) \ B) =
          Cardinality(Buffered(s)) - Cardinality(Buffered(s) \cap B)
    BY <2>8, FS_Difference
  <2> QED BY <2>4, <2>6, <2>7, <2>9
<1>8. Cardinality(InflightIDs(t)) = Cardinality(InflightIDs(s)) - 1
  <2>1. s.inflight \in [PacketIDs -> Nat] BY DEF State
  <2>2. InflightIDs(t) = InflightIDs(s) \ {pid} BY <1>1, <2>1 DEF InflightIDs
  <2>3. pid \in InflightIDs(s) BY DEF InflightIDs
  <2> QED BY <2>2, <2>3, HoldingsFinite, FS_RemoveElement
<1> QED BY <1>6, <1>7, <1>8 DEF t

(***************************************************************************)
(* The invariant of the store.                                             *)
(***************************************************************************)

IInv == TypeOK /\ QueuesConsistent

\* A step that replaces one session by another one with a consistent queue.
LEMMA HeapUpdate ==
  ASSUME IInv, NEW h \in DOMAIN st, NEW x \in State, Update(h, x),
         admitted' \in Nat, admitted <= admitted', QueueInv(x, admitted')
  PROVE  /\ DOMAIN st' = DOMAIN st
         /\ st' \in [DOMAIN st' -> State]
         /\ QueuesConsistent'
<1>1. st \in [DOMAIN st -> State] /\ admitted \in Nat
  BY DEF IInv, TypeOK
<1>2. DOMAIN st' = DOMAIN st /\ st' \in [DOMAIN st' -> State]
  BY <1>1 DEF Update
<1>3. ASSUME NEW g \in DOMAIN st
      PROVE  QueueInv(st'[g], admitted')
  <2>1. CASE g = h
    BY <1>1, <2>1 DEF Update
  <2>2. CASE g # h
    <3>1. st'[g] = st[g] /\ st[g] \in State
      BY <1>1, <2>2 DEF Update
    <3>2. QueueInv(st[g], admitted)
      BY DEF IInv, QueuesConsistent
    <3> QED  BY <3>1, <3>2, <1>1, QueueFrame
  <2> QED  BY <2>1, <2>2
<1> QED  BY <1>2, <1>3 DEF QueuesConsistent

\* A step that leaves the sessions alone.
LEMMA HeapUnchanged ==
  ASSUME IInv, st' = st, admitted' = admitted
  PROVE  /\ DOMAIN st' = DOMAIN st
         /\ st' \in [DOMAIN st' -> State]
         /\ QueuesConsistent'
BY DEF IInv, TypeOK, QueuesConsistent

\* What the inductive invariant says of one session struct.
LEMMA SessionFacts ==
  ASSUME IInv, NEW h \in DOMAIN st
  PROVE  st[h] \in State /\ QueueInv(st[h], admitted) /\ admitted \in Nat
BY DEF IInv, TypeOK, QueuesConsistent

\* The inductive invariant holds in the empty store.
LEMMA InitInv == Init => IInv
<1> SUFFICES ASSUME Init PROVE IInv
  OBVIOUS
<1>1. st = [h \in {} |-> NoState] /\ DOMAIN st = {}
  BY DEF Init
<1>2. TypeOK
  BY <1>1, SMT DEF Init, TypeOK, Live
<1>3. QueuesConsistent
  BY <1>1 DEF QueuesConsistent
<1> QED  BY <1>2, <1>3 DEF IInv

\* A refused call only counts the refusal.
LEMMA RefuseInv ==
  ASSUME IInv, NEW r \in Refusals, Refuse(r)
  PROVE  IInv'
<1>1. /\ st' = st /\ data' = data /\ totals' = totals /\ expired' = expired
      /\ admitted' = admitted /\ sweep' = sweep /\ sweepAt' = sweepAt
      /\ now' = now
      /\ refused' = [refused EXCEPT ![r] = @ + 1]
  BY DEF Refuse
<1>2. refused' \in [Refusals -> Nat]
  BY <1>1, SMT DEF IInv, TypeOK
<1> QED  BY <1>1, <1>2, HeapUnchanged DEF IInv, TypeOK, Live

\* GetOrCreateOwned preserves the inductive invariant.
LEMMA CreateInv ==
  ASSUME IInv, NEW id \in ClientID, NEW o \in Owner, GetOrCreateOwned(id, o)
  PROVE  IInv'
<1>1. CASE Cardinality(Live) >= MaxSessions
  BY <1>1, RefuseInv DEF GetOrCreateOwned, Refusals
<1>2. CASE ~(Cardinality(Live) >= MaxSessions)
  <2>1. PICK h \in Handle \ DOMAIN st :
          /\ st' = [x \in DOMAIN st \cup {h} |->
                      IF x = h THEN NewState(id, o, now) ELSE st[x]]
          /\ data' = [data EXCEPT ![id] = h]
          /\ UNCHANGED <<totals, expired, refused, admitted, sweep, sweepAt,
                         now>>
    BY <1>2 DEF GetOrCreateOwned
  <2>2. /\ DOMAIN st \subseteq Handle /\ st \in [DOMAIN st -> State]
        /\ data \in [ClientID -> DOMAIN st \cup {NoState}]
        /\ now \in Nat /\ admitted \in Nat
    BY DEF IInv, TypeOK
  <2>3. NewState(id, o, now) \in State
    BY <2>2, NewStateType
  <2>4. DOMAIN st' = DOMAIN st \cup {h} /\ st' \in [DOMAIN st' -> State]
    BY <2>1, <2>2, <2>3
  <2>5. data' \in [ClientID -> DOMAIN st' \cup {NoState}]
    BY <2>1, <2>2, <2>4
  <2>6. sweep' = {}
    BY <2>1 DEF GetOrCreateOwned, Unlocked
  <2>7. TypeOK'
    BY <2>1, <2>2, <2>4, <2>5, <2>6 DEF IInv, TypeOK
  <2>8. ASSUME NEW g \in DOMAIN st'
        PROVE  QueueInv(st'[g], admitted')
    <3>1. CASE g = h
      <4>1. st'[g] = NewState(id, o, now)
        BY <3>1, <2>1
      <4> QED  BY <4>1, <2>1, <2>2, NewStateQueue, SMT
    <3>2. CASE g # h
      <4>1. g \in DOMAIN st /\ st'[g] = st[g]
        BY <3>2, <2>1, <2>4
      <4> QED  BY <4>1, <2>1, SessionFacts
    <3> QED  BY <3>1, <3>2
  <2> QED  BY <2>7, <2>8 DEF IInv, QueuesConsistent
<1> QED  BY <1>1, <1>2

\* What deleteLocked does to the variables TypeOK and the queues depend on.
LEMMA DeleteLockedEffect ==
  ASSUME IInv, NEW id \in ClientID, data[id] # NoState, deleteLocked(id),
         admitted' = admitted
  PROVE  /\ DOMAIN st' = DOMAIN st
         /\ st' \in [DOMAIN st' -> State]
         /\ QueuesConsistent'
         /\ data' \in [ClientID -> DOMAIN st' \cup {NoState}]
         /\ Live' = Live \ {id}
         /\ totals' \in [messages : Int, bytes : Int, inflight : Int,
                         subscriptions : Int]
<1>1. /\ data \in [ClientID -> DOMAIN st \cup {NoState}]
      /\ totals \in [messages : Int, bytes : Int, inflight : Int,
                     subscriptions : Int]
  BY DEF IInv, TypeOK
<1> DEFINE h == data[id]
           s == st[h]
<1>2. h \in DOMAIN st
  BY <1>1
<1>3. s \in State /\ admitted \in Nat
  BY <1>2, SessionFacts
<1>4. /\ Update(h, Deleted(s))
      /\ data' = [data EXCEPT ![id] = NoState]
      /\ totals' = [totals EXCEPT
                      !.messages = @ - s.pendingMessages,
                      !.bytes = @ - s.pendingBytes,
                      !.inflight = @ - Cardinality(InflightIDs(s)),
                      !.subscriptions = @ - Cardinality(Subscribed(s))]
  BY DEF deleteLocked
<1>5. Deleted(s) \in State /\ QueueInv(Deleted(s), admitted')
  BY <1>3, DeletedType, DeletedQueue
<1>6. /\ DOMAIN st' = DOMAIN st
      /\ st' \in [DOMAIN st' -> State]
      /\ QueuesConsistent'
  BY <1>2, <1>3, <1>4, <1>5, HeapUpdate, SMT
<1>7. /\ data' \in [ClientID -> DOMAIN st' \cup {NoState}]
      /\ Live' = Live \ {id}
  BY <1>1, <1>4, <1>6 DEF Live
<1>8. Cardinality(InflightIDs(s)) \in Nat
  <2>1. IsFiniteSet(PacketIDs)
    BY SessionLimitsValid, FS_Interval, SMT DEF PacketIDs
  <2>2. InflightIDs(s) \in SUBSET PacketIDs BY DEF InflightIDs
  <2> QED  BY <2>1, <2>2, FS_Subset, FS_CardinalityType
<1>9. Cardinality(Subscribed(s)) \in Nat
  <2>1. IsFiniteSet(Filter) /\ Subscribed(s) \in SUBSET Filter
    BY SessionLimitsValid DEF Subscribed
  <2> QED  BY <2>1, FS_Subset, FS_CardinalityType
<1>10. s.pendingMessages \in Int /\ s.pendingBytes \in Int
  BY <1>3 DEF State
<1>11. totals' \in [messages : Int, bytes : Int, inflight : Int,
                    subscriptions : Int]
  <2>1. /\ totals.messages - s.pendingMessages \in Int
        /\ totals.bytes - s.pendingBytes \in Int
        /\ totals.inflight - Cardinality(InflightIDs(s)) \in Int
        /\ totals.subscriptions - Cardinality(Subscribed(s)) \in Int
    BY <1>1, <1>8, <1>9, <1>10, SMT
  <2> QED  BY <1>1, <1>4, <2>1
<1> QED  BY <1>6, <1>7, <1>11

\* Delete preserves the inductive invariant.
LEMMA DeleteInv ==
  ASSUME IInv, NEW id \in ClientID, Delete(id)
  PROVE  IInv'
<1>1. /\ data[id] # NoState /\ deleteLocked(id) /\ sweep = {}
      /\ UNCHANGED <<expired, refused, admitted, sweep, sweepAt, now>>
  BY DEF Delete, Unlocked
<1> QED  BY <1>1, DeleteLockedEffect DEF IInv, TypeOK

\* ExpireSession preserves the inductive invariant.
LEMMA ExpireSessionInv ==
  ASSUME IInv, NEW id \in ClientID, NEW at \in Nat, ExpireSession(id, at)
  PROVE  IInv'
<1>1. /\ data[id] # NoState /\ sweep = {} /\ expireLocked(id, at)
      /\ UNCHANGED <<refused, admitted, sweep, sweepAt, now>>
  BY DEF ExpireSession, Unlocked
<1>2. CASE Expired(st[data[id]], at)
  <2>1. deleteLocked(id) /\ expired' = expired + 1
    BY <1>1, <1>2 DEF expireLocked
  <2> QED  BY <1>1, <2>1, DeleteLockedEffect, SMT DEF IInv, TypeOK
<1>3. CASE ~Expired(st[data[id]], at)
  <2>1. UNCHANGED <<st, data, totals, expired>>
    BY <1>1, <1>3 DEF expireLocked
  <2> QED  BY <1>1, <2>1, HeapUnchanged DEF IInv, TypeOK
<1> QED  BY <1>2, <1>3

\* The start of Expire preserves the inductive invariant.
LEMMA ExpireInv ==
  ASSUME IInv, NEW at \in Nat, Expire(at)
  PROVE  IInv'
BY HeapUnchanged DEF Expire, IInv, TypeOK, Live

\* One iteration of the loop in Expire preserves the inductive invariant.
LEMMA ExpireNextInv ==
  ASSUME IInv, NEW id \in ClientID, ExpireNext(id)
  PROVE  IInv'
<1>1. /\ id \in sweep /\ sweep' = sweep \ {id}
      /\ expireLocked(id, sweepAt)
      /\ sweepAt' = IF sweep' = {} THEN 0 ELSE sweepAt
      /\ UNCHANGED <<refused, admitted, now>>
  BY DEF ExpireNext
<1>2. data[id] # NoState /\ sweep \subseteq Live
  BY <1>1 DEF IInv, TypeOK, Live
<1>3. CASE Expired(st[data[id]], sweepAt)
  <2>1. deleteLocked(id) /\ expired' = expired + 1
    BY <1>1, <1>3 DEF expireLocked
  <2> QED  BY <1>1, <1>2, <2>1, DeleteLockedEffect, SMT DEF IInv, TypeOK
<1>4. CASE ~Expired(st[data[id]], sweepAt)
  <2>1. UNCHANGED <<st, data, totals, expired>>
    BY <1>1, <1>4 DEF expireLocked
  <2>2. Live' = Live
    BY <2>1 DEF Live
  <2> QED  BY <1>1, <2>1, <2>2, HeapUnchanged DEF IInv, TypeOK
<1> QED  BY <1>3, <1>4

\* Steps that replace the session of h and may move the totals.
LEMMA StepInv ==
  ASSUME IInv, NEW h \in DOMAIN st, NEW x \in State, Update(h, x),
         QueueInv(x, admitted'), admitted' \in Nat, admitted <= admitted',
         totals' \in [messages : Int, bytes : Int, inflight : Int,
                      subscriptions : Int],
         UNCHANGED <<data, expired, refused, sweep, sweepAt, now>>
  PROVE  IInv'
<1>1. /\ DOMAIN st' = DOMAIN st
      /\ st' \in [DOMAIN st' -> State]
      /\ QueuesConsistent'
  BY HeapUpdate
<1>2. Live' = Live
  BY DEF Live
<1> QED  BY <1>1, <1>2 DEF IInv, TypeOK

\* The counters of the store are well typed.
LEMMA TotalsType ==
  ASSUME IInv
  PROVE  /\ totals.messages \in Int /\ totals.bytes \in Int
         /\ totals.inflight \in Int /\ totals.subscriptions \in Int
         /\ totals \in [messages : Int, bytes : Int, inflight : Int,
                        subscriptions : Int]
BY DEF IInv, TypeOK

\* SetSubscription preserves the inductive invariant.
LEMMA SetSubscriptionInv ==
  ASSUME IInv, NEW h \in DOMAIN st, NEW f \in Filter, NEW qos \in QoS,
         SetSubscriptionStep(h, f, qos)
  PROVE  IInv'
<1> DEFINE s == st[h]
           x == SetSubscription(s, f, qos)
<1>1. CASE Refuse("filter") \/ Refuse("subscription")
  BY <1>1, RefuseInv DEF Refusals
<1>2. CASE /\ Update(h, x)
           /\ totals' = [totals EXCEPT !.subscriptions =
                           IF s.subscriptions[f] = NoSub THEN @ + 1 ELSE @]
           /\ UNCHANGED <<data, expired, refused, admitted, sweep, sweepAt,
                          now>>
  <2>1. s \in State /\ QueueInv(s, admitted) /\ admitted \in Nat
    BY SessionFacts
  <2>2. x \in State
    BY <2>1, SubscriptionTypes
  <2>3. /\ x.deleted = s.deleted /\ x.entries = s.entries
        /\ x.inflight = s.inflight /\ x.epoch = s.epoch
        /\ x.activeInflight = s.activeInflight
    BY <2>1 DEF SetSubscription, State
  <2>4. QueueInv(x, admitted)
    <3> HIDE DEF s, x
    <3> QED  BY <2>1, <2>2, <2>3, QueueFrame, SMT
  <2>5. totals' \in [messages : Int, bytes : Int, inflight : Int,
                     subscriptions : Int]
    <3> HIDE DEF s, x
    <3> QED  BY <1>2, TotalsType, SMT
  <2> HIDE DEF s, x
  <2> QED  BY <1>2, <2>1, <2>2, <2>4, <2>5, StepInv, SMT
<1> QED  BY <1>1, <1>2 DEF SetSubscriptionStep

\* DeleteSubscription preserves the inductive invariant.
LEMMA DeleteSubscriptionInv ==
  ASSUME IInv, NEW h \in DOMAIN st, NEW f \in Filter,
         DeleteSubscriptionStep(h, f)
  PROVE  IInv'
<1> DEFINE s == st[h]
           x == DeleteSubscription(s, f)
<1>1. /\ Update(h, x)
      /\ totals' = [totals EXCEPT !.subscriptions = @ - 1]
      /\ UNCHANGED <<data, expired, refused, admitted, sweep, sweepAt, now>>
  BY DEF DeleteSubscriptionStep
<1>2. s \in State /\ QueueInv(s, admitted) /\ admitted \in Nat
  BY SessionFacts
<1>3. x \in State
  BY <1>2, SubscriptionTypes
<1>4. /\ x.deleted = s.deleted /\ x.entries = s.entries
      /\ x.inflight = s.inflight /\ x.epoch = s.epoch
      /\ x.activeInflight = s.activeInflight
  BY <1>2 DEF DeleteSubscription, State
<1> HIDE DEF s, x
<1>5. QueueInv(x, admitted)
  BY <1>2, <1>3, <1>4, QueueFrame, SMT
<1>6. totals' \in [messages : Int, bytes : Int, inflight : Int,
                   subscriptions : Int]
  BY <1>1, TotalsType, SMT
<1> QED  BY <1>1, <1>2, <1>3, <1>5, <1>6, StepInv, SMT

\* Admit, accepted or refused, preserves the inductive invariant.
LEMMA AdmitInv ==
  ASSUME IInv, NEW h \in DOMAIN st, NEW size \in Sizes, AdmitStep(h, size)
  PROVE  IInv'
<1> DEFINE s == st[h]
           x == Admit(s, admitted + 1, size)
<1>1. CASE Refuse("sessionDrop") \/ Refuse("globalDrop")
  BY <1>1, RefuseInv DEF Refusals
<1>2. CASE /\ ~s.deleted
           /\ admitted' = admitted + 1
           /\ Update(h, x)
           /\ totals' = [totals EXCEPT !.messages = @ + 1, !.bytes = @ + size]
           /\ UNCHANGED <<data, expired, refused, sweep, sweepAt, now>>
  <2>1. /\ s \in State /\ QueueInv(s, admitted) /\ admitted \in Nat
        /\ size \in Nat
    BY SessionFacts, StoreLimitsValid
  <2>2. x \in State /\ QueueInv(x, admitted')
    <3>1. admitted + 1 \in Nat \ {0}
      BY <2>1, SMT
    <3> QED  BY <1>2, <2>1, <3>1, AdmitType, AdmitQueue
  <2>3. totals' \in [messages : Int, bytes : Int, inflight : Int,
                     subscriptions : Int]
    <3>1. totals.messages + 1 \in Int /\ totals.bytes + size \in Int
      BY <2>1, TotalsType, SMT
    <3> QED  BY <1>2, <3>1, TotalsType
  <2> HIDE DEF s, x
  <2>4. admitted' \in Nat /\ admitted <= admitted'
    BY <1>2, <2>1, SMT
  <2> QED  BY <1>2, <2>2, <2>3, <2>4, StepInv
<1> QED  BY <1>1, <1>2 DEF AdmitStep

\* Next preserves the inductive invariant.
LEMMA NextStepInv ==
  ASSUME IInv, NEW h \in DOMAIN st, NEW epoch \in 1 .. st[h].epoch,
         NextStep(h, epoch)
  PROVE  IInv'
<1> DEFINE s == st[h]
<1>1. s \in State /\ QueueInv(s, admitted) /\ admitted \in Nat
  BY SessionFacts
<1>2. epoch \in Nat \ {0}
  BY <1>1, SMT DEF State
<1>3. PICK i \in 1 .. Len(s.entries) :
        /\ MayDeliver(s, epoch)
        /\ FirstUntried(s, epoch, i)
        /\ \/ /\ Attempted(s, i)
              /\ Update(h, Replay(s, epoch, i))
              /\ UNCHANGED totals
           \/ /\ ~Attempted(s, i)
              /\ \E pid \in PacketIDs :
                   /\ FirstFree(s, pid)
                   /\ Update(h, FirstAttempt(s, epoch, i, pid))
              /\ totals' = [totals EXCEPT !.inflight = @ + 1]
        /\ UNCHANGED <<data, expired, refused, admitted, sweep, sweepAt, now>>
  BY DEF NextStep
<1> HIDE DEF s
<1>4. CASE Attempted(s, i) /\ Update(h, Replay(s, epoch, i)) /\ UNCHANGED totals
  <2>1. Replay(s, epoch, i) \in State /\ QueueInv(Replay(s, epoch, i), admitted)
    BY <1>1, <1>2, <1>3, <1>4, NextTypes, ReplayQueue
  <2> QED  BY <1>1, <1>3, <1>4, <2>1, TotalsType, StepInv, SMT
<1>5. CASE /\ ~Attempted(s, i)
           /\ \E pid \in PacketIDs :
                /\ FirstFree(s, pid)
                /\ Update(h, FirstAttempt(s, epoch, i, pid))
           /\ totals' = [totals EXCEPT !.inflight = @ + 1]
  <2>1. PICK pid \in PacketIDs :
               FirstFree(s, pid) /\ Update(h, FirstAttempt(s, epoch, i, pid))
    BY <1>5
  <2> DEFINE x == FirstAttempt(s, epoch, i, pid)
  <2>2. x \in State /\ QueueInv(x, admitted)
    BY <1>1, <1>2, <1>3, <1>5, <2>1, NextTypes, FirstAttemptQueue
  <2>3. totals' \in [messages : Int, bytes : Int, inflight : Int,
                     subscriptions : Int]
    BY <1>5, TotalsType, SMT
  <2> HIDE DEF x
  <2> QED  BY <1>1, <1>3, <2>1, <2>2, <2>3, StepInv, SMT DEF x
<1> QED  BY <1>3, <1>4, <1>5

\* Ack preserves the inductive invariant.
LEMMA AckInv ==
  ASSUME IInv, NEW h \in DOMAIN st, NEW pid \in PacketIDs, AckStep(h, pid)
  PROVE  IInv'
<1> DEFINE s == st[h]
<1>1. s \in State /\ QueueInv(s, admitted) /\ admitted \in Nat
  BY SessionFacts
<1>2. PICK i \in 1 .. Len(s.entries) :
        /\ ~s.deleted
        /\ s.inflight[pid] # Nil
        /\ s.entries[i].msg = s.inflight[pid]
        /\ Update(h, Ack(s, pid, i))
        /\ totals' = [totals EXCEPT !.messages = @ - 1,
                                    !.bytes = @ - s.entries[i].size,
                                    !.inflight = @ - 1]
        /\ UNCHANGED <<data, expired, refused, admitted, sweep, sweepAt, now>>
  BY DEF AckStep
<1> DEFINE x == Ack(s, pid, i)
<1> HIDE DEF s
<1>3. x \in State /\ QueueInv(x, admitted)
  BY <1>1, <1>2, AckType, AckQueue
<1>4. totals' \in [messages : Int, bytes : Int, inflight : Int,
                   subscriptions : Int]
  <2>1. /\ totals.messages - 1 \in Int /\ totals.inflight - 1 \in Int
        /\ totals.bytes - s.entries[i].size \in Int
    BY <1>1, EntryType, TotalsType, SMT
  <2> QED  BY <1>2, <2>1, TotalsType
<1> QED  BY <1>1, <1>2, <1>3, <1>4, StepInv, SMT

\* The methods that change neither the queue nor the totals.
LEMMA MethodInv ==
  ASSUME IInv, NEW h \in DOMAIN st, NEW x \in State, Update(h, x),
         QueueInv(x, admitted),
         UNCHANGED <<data, totals, expired, refused, admitted, sweep, sweepAt,
                     now>>
  PROVE  IInv'
<1>1. admitted \in Nat
  BY SessionFacts
<1> QED  BY <1>1, TotalsType, StepInv, SMT

\* Every step of the store preserves the inductive invariant.
LEMMA NextInv == IInv /\ [Next]_vars => IInv'
<1> SUFFICES ASSUME IInv, [Next]_vars PROVE IInv'
  OBVIOUS
<1>1. ASSUME NEW id \in ClientID, NEW o \in Owner, GetOrCreateOwned(id, o)
      PROVE  IInv'
  BY <1>1, CreateInv
<1>2. ASSUME NEW id \in ClientID, Delete(id)
      PROVE  IInv'
  BY <1>2, DeleteInv
<1>3. ASSUME NEW id \in ClientID, NEW at \in 0 .. now, ExpireSession(id, at)
      PROVE  IInv'
  <2>1. at \in Nat
    BY SMT DEF IInv, TypeOK
  <2> QED  BY <1>3, <2>1, ExpireSessionInv
<1>4. ASSUME NEW id \in ClientID, ExpireNext(id)
      PROVE  IInv'
  BY <1>4, ExpireNextInv
<1>5. ASSUME NEW at \in 0 .. now, Expire(at)
      PROVE  IInv'
  <2>1. at \in Nat
    BY SMT DEF IInv, TypeOK
  <2> QED  BY <1>5, <2>1, ExpireInv
<1>6. ASSUME NEW h \in DOMAIN st, NEW f \in Filter, NEW qos \in QoS,
             SetSubscriptionStep(h, f, qos)
      PROVE  IInv'
  BY <1>6, SetSubscriptionInv
<1>7. ASSUME NEW h \in DOMAIN st, NEW f \in Filter,
             DeleteSubscriptionStep(h, f)
      PROVE  IInv'
  BY <1>7, DeleteSubscriptionInv
<1>8. ASSUME NEW h \in DOMAIN st, NEW size \in Sizes, AdmitStep(h, size)
      PROVE  IInv'
  BY <1>8, AdmitInv
<1>9. ASSUME NEW h \in DOMAIN st, NEW epoch \in 1 .. st[h].epoch,
             NextStep(h, epoch)
      PROVE  IInv'
  BY <1>9, NextStepInv
<1>10. ASSUME NEW h \in DOMAIN st, NEW pid \in PacketIDs, AckStep(h, pid)
       PROVE  IInv'
  BY <1>10, AckInv
<1>11. ASSUME NEW h \in DOMAIN st,
              \/ BeginDeliveryStep(h) \/ PauseDeliveryStep(h)
              \/ ResumeDeliveryStep(h) \/ MarkConnectedStep(h)
              \/ ReceiveChanged(h)
              \/ \E at \in 0 .. now : MarkDisconnectedStep(h, at)
       PROVE  IInv'
  <2>1. st[h] \in State /\ QueueInv(st[h], admitted) /\ admitted \in Nat
    BY SessionFacts
  <2>2. CASE BeginDeliveryStep(h)
    BY <2>1, <2>2, MethodTypes, BeginDeliveryQueue, MethodInv
    DEF BeginDeliveryStep, Method
  <2>3. CASE PauseDeliveryStep(h) \/ ResumeDeliveryStep(h)
    BY <2>1, <2>3, MethodTypes, QuietMethods, MethodInv
    DEF PauseDeliveryStep, ResumeDeliveryStep, Method
  <2>4. CASE MarkConnectedStep(h) \/ ReceiveChanged(h)
    BY <2>1, <2>4, MethodTypes, QuietMethods, MethodInv
    DEF MarkConnectedStep, ReceiveChanged, Method
  <2>5. CASE \E at \in 0 .. now : MarkDisconnectedStep(h, at)
    <3>1. PICK at \in 0 .. now : MarkDisconnectedStep(h, at)
      BY <2>5
    <3>2. at \in Nat
      BY SMT DEF IInv, TypeOK
    <3> QED  BY <2>1, <3>1, <3>2, MethodTypes, QuietMethods, MethodInv
             DEF MarkDisconnectedStep, Method
  <2> QED  BY <1>11, <2>2, <2>3, <2>4, <2>5
<1>12. CASE Tick
  BY <1>12, HeapUnchanged, SMT DEF Tick, IInv, TypeOK, Live
<1>13. CASE UNCHANGED vars
  BY <1>13, HeapUnchanged DEF vars, IInv, TypeOK, Live
<1> QED
  BY <1>1, <1>2, <1>3, <1>4, <1>5, <1>6, <1>7, <1>8, <1>9, <1>10, <1>11,
     <1>12, <1>13 DEF Next

\* The store's variables keep their types, whatever is called on it.
THEOREM TypeCorrect == Spec => []TypeOK
<1>1. IInv => TypeOK
  BY DEF IInv
<1> QED  BY InitInv, NextInv, <1>1, PTL DEF Spec

\* Every session's queue, its inflight map and its window stay consistent.
THEOREM QueueCorrect == Spec => []QueuesConsistent
<1>1. IInv => QueuesConsistent
  BY DEF IInv
<1> QED  BY InitInv, NextInv, <1>1, PTL DEF Spec

\* On every connection of a session, messages attempted before go out first
\* and all of them in the order in which they were admitted.
THEOREM OrderCorrect == Spec => []DeliveryOrder
<1>1. IInv => DeliveryOrder
  BY SessionFacts, QueueInOrder DEF DeliveryOrder
<1> QED  BY InitInv, NextInv, <1>1, PTL DEF Spec

\* The inflight map and the packet identifiers in the queue always agree.
THEOREM InflightCorrect == Spec => []InflightMatchesQueue
<1>1. IInv => InflightMatchesQueue
  BY DEF IInv, QueuesConsistent, QueueInv, InflightMatchesQueue
<1> QED  BY InitInv, NextInv, <1>1, PTL DEF Spec

\* No more messages than the window allows await a PUBACK, over all the
\* connections a session has had.
THEOREM WindowCorrect == Spec => []WindowRespected
<1>1. IInv => WindowRespected
  BY SessionFacts, QueueInWindow DEF WindowRespected
<1> QED  BY InitInv, NextInv, <1>1, PTL DEF Spec

\* The search for a packet identifier in Next terminates: it is entered only
\* when an identifier is free, so it never spins while holding the mutex.
THEOREM PacketIDCorrect == Spec => []PacketIDAvailable
<1>1. IInv => PacketIDAvailable
  BY SessionFacts, QueueFindsPacketID DEF PacketIDAvailable
<1> QED  BY InitInv, NextInv, <1>1, PTL DEF Spec

(***************************************************************************)
(* What a step may do to a session.                                        *)
(***************************************************************************)

\* A step that updates one session moves that one and leaves the others.
LEMMA UpdateMoves ==
  ASSUME IInv, NEW g, NEW x, Update(g, x), g \in DOMAIN st => Moves(st[g], x)
  PROVE  \A h \in DOMAIN st : Moves(st[h], st'[h])
BY DEF Update, Moves, Passes

\* deleteLocked moves the session it removes.
LEMMA DeleteMoves ==
  ASSUME IInv, NEW id, deleteLocked(id)
  PROVE  \A h \in DOMAIN st : Moves(st[h], st'[h])
<1>1. Update(data[id], Deleted(st[data[id]]))
  BY DEF deleteLocked
<1> QED  BY <1>1, UpdateMoves DEF Moves, Notifies

\* Every step moves each session by one of its methods, or not at all.
LEMMA StepMoves ==
  ASSUME IInv, [Next]_vars
  PROVE  \A h \in DOMAIN st : Moves(st[h], st'[h])
<1>1. CASE st' = st
  BY <1>1 DEF Moves, Passes
<1>2. ASSUME NEW id, NEW o, GetOrCreateOwned(id, o)
      PROVE  \A h \in DOMAIN st : st'[h] = st[h]
  BY <1>2 DEF GetOrCreateOwned, Refuse
<1>3. ASSUME NEW id, NEW at, Delete(id) \/ ExpireSession(id, at) \/ ExpireNext(id)
      PROVE  \A h \in DOMAIN st : Moves(st[h], st'[h])
  BY <1>1, <1>3, DeleteMoves DEF Delete, ExpireSession, ExpireNext, expireLocked
<1>4. ASSUME NEW h \in DOMAIN st, NEW f, NEW qos,
             SetSubscriptionStep(h, f, qos) \/ DeleteSubscriptionStep(h, f)
      PROVE  \A g \in DOMAIN st : Moves(st[g], st'[g])
  <2>1. \/ st' = st \/ Update(h, SetSubscription(st[h], f, qos))
        \/ Update(h, DeleteSubscription(st[h], f))
    BY <1>4 DEF SetSubscriptionStep, DeleteSubscriptionStep, Refuse
  <2> QED  BY <1>1, <2>1, UpdateMoves DEF Moves, Passes
<1>5. ASSUME NEW h \in DOMAIN st, NEW size, AdmitStep(h, size)
      PROVE  \A g \in DOMAIN st : Moves(st[g], st'[g])
  <2>1. st' = st \/ Update(h, Admit(st[h], admitted + 1, size))
    BY <1>5 DEF AdmitStep, Refuse
  <2> QED  BY <1>1, <2>1, UpdateMoves DEF Moves, Notifies
<1>6. ASSUME NEW h \in DOMAIN st, NEW epoch \in 1 .. st[h].epoch, NextStep(h, epoch)
      PROVE  \A g \in DOMAIN st : Moves(st[g], st'[g])
  <2>1. epoch \in Nat
    <3>1. st[h].epoch \in Nat
      BY SessionFacts DEF State
    <3> QED  BY <3>1, SMT
  <2>2. PICK x : Update(h, x) /\ Delivers(st[h], x)
    BY <1>6, <2>1 DEF NextStep, Delivers
  <2> QED  BY <2>2, UpdateMoves DEF Moves
<1>7. ASSUME NEW h \in DOMAIN st, NEW pid \in PacketIDs, AckStep(h, pid)
      PROVE  \A g \in DOMAIN st : Moves(st[g], st'[g])
  <2>1. PICK x : Update(h, x) /\ Acknowledges(st[h], x)
    BY <1>7 DEF AckStep, Acknowledges
  <2> QED  BY <2>1, UpdateMoves DEF Moves
<1>8. ASSUME NEW h \in DOMAIN st, BeginDeliveryStep(h) \/ ResumeDeliveryStep(h)
      PROVE  \A g \in DOMAIN st : Moves(st[g], st'[g])
  BY <1>8, UpdateMoves
  DEF BeginDeliveryStep, ResumeDeliveryStep, Method, Moves, Notifies
<1>9. ASSUME NEW h \in DOMAIN st, NEW at,
             \/ PauseDeliveryStep(h) \/ MarkConnectedStep(h) \/ ReceiveChanged(h)
             \/ MarkDisconnectedStep(h, at)
      PROVE  \A g \in DOMAIN st : Moves(st[g], st'[g])
  BY <1>9, UpdateMoves DEF PauseDeliveryStep, MarkConnectedStep, ReceiveChanged,
     MarkDisconnectedStep, Method, Moves, Passes
<1>10. ASSUME (\E at \in 0 .. now : Expire(at)) \/ Tick \/ UNCHANGED vars
       PROVE  st' = st
  BY <1>10 DEF Expire, Tick, vars
<1> QED
  BY <1>1, <1>2, <1>3, <1>4, <1>5, <1>6, <1>7, <1>8, <1>9, <1>10
  DEF Next, Moves, Passes

\* Whoever makes a message deliverable wakes the consumer: for every session,
\* limit and history, a step after which Next has something to return, and
\* before which it had not, leaves a token in the channel (NoLostWakeup).
THEOREM WakeupCorrect == Spec => NoLostWakeup
<1>1. ASSUME IInv, [Next]_vars PROVE \A h \in DOMAIN st : Wakes(st[h], st'[h])
  BY <1>1, StepMoves, SessionFacts, MovesWake
<1>2. IInv /\ [Next]_vars => [\A h \in DOMAIN st : Wakes(st[h], st'[h])]_vars
  BY <1>1
<1> QED  BY <1>2, InitInv, NextInv, PTL DEF Spec, NoLostWakeup

\* A queued message keeps its identifier and leaves the queue only by its own
\* PUBACK or with its session, for every session, limit and history
\* (MessagesKept).
THEOREM KeptCorrect == Spec => MessagesKept
<1>1. ASSUME IInv, [Next]_vars PROVE \A h \in DOMAIN st : KeptUntilAcked(st[h], st'[h])
  BY <1>1, StepMoves, SessionFacts, MovesKeep
<1>2. IInv /\ [Next]_vars => [\A h \in DOMAIN st : KeptUntilAcked(st[h], st'[h])]_vars
  BY <1>1
<1> QED  BY <1>2, InitInv, NextInv, PTL DEF Spec, MessagesKept

\* A sweep is given a time that has passed, and keeps it.
SweepPast == sweepAt <= now

\* Every step keeps that.
LEMMA SweepPastKept == IInv /\ SweepPast /\ [Next]_vars => SweepPast'
<1> SUFFICES ASSUME IInv, SweepPast, [Next]_vars PROVE SweepPast'
  OBVIOUS
<1>1. sweepAt \in Nat /\ now \in Nat
  BY DEF IInv, TypeOK
<1>2. ASSUME NEW id, ExpireNext(id) PROVE SweepPast'
  BY <1>1, <1>2, SMT DEF ExpireNext, SweepPast
<1>3. ASSUME NEW at \in 0 .. now, Expire(at) PROVE SweepPast'
  BY <1>1, <1>3, SMT DEF Expire, SweepPast
<1>4. CASE Tick
  BY <1>1, <1>4, SMT DEF Tick, SweepPast
<1>5. ASSUME UNCHANGED <<sweepAt, now>> PROVE SweepPast'
  BY <1>5 DEF SweepPast
<1>6. ASSUME NEW id, NEW o, NEW at,
             GetOrCreateOwned(id, o) \/ Delete(id) \/ ExpireSession(id, at)
      PROVE  UNCHANGED <<sweepAt, now>>
  BY <1>6 DEF GetOrCreateOwned, Refuse, Delete, ExpireSession
<1>7. ASSUME NEW h, NEW f, NEW qos, NEW size,
             \/ SetSubscriptionStep(h, f, qos) \/ DeleteSubscriptionStep(h, f)
             \/ AdmitStep(h, size)
      PROVE  UNCHANGED <<sweepAt, now>>
  BY <1>7 DEF SetSubscriptionStep, DeleteSubscriptionStep, AdmitStep, Refuse
<1>8. ASSUME NEW h, NEW epoch, NEW pid, NextStep(h, epoch) \/ AckStep(h, pid)
      PROVE  UNCHANGED <<sweepAt, now>>
  BY <1>8 DEF NextStep, AckStep
<1>9. ASSUME NEW h, NEW at,
             \/ BeginDeliveryStep(h) \/ PauseDeliveryStep(h) \/ ResumeDeliveryStep(h)
             \/ MarkConnectedStep(h) \/ MarkDisconnectedStep(h, at) \/ ReceiveChanged(h)
      PROVE  UNCHANGED <<sweepAt, now>>
  BY <1>9
  DEF BeginDeliveryStep, PauseDeliveryStep, ResumeDeliveryStep,
      MarkConnectedStep,
              MarkDisconnectedStep, ReceiveChanged, Method
<1> QED
  BY <1>2, <1>3, <1>4, <1>5, <1>6, <1>7, <1>8, <1>9 DEF Next, vars

\* expireLocked, given a time that has passed, removes only what ExpiryStep
\* allows.
LEMMA ExpireAllowed ==
  ASSUME IInv, NEW id \in Live, NEW at \in Nat, at <= now, expireLocked(id, at),
         expired' # expired
  PROVE  /\ data' = [data EXCEPT ![id] = NoState]
         /\ ~st[data[id]].connected
         /\ now - st[data[id]].offlineSince >= OfflineTTL
<1>1. Expired(st[data[id]], at) /\ deleteLocked(id)
  BY DEF expireLocked
<1>2. data[id] \in DOMAIN st
  BY DEF IInv, TypeOK, Live
<1>3. st[data[id]].offlineSince \in Int /\ now \in Nat /\ OfflineTTL \in Nat
  <2>1. st[data[id]] \in State
    BY <1>2, SessionFacts
  <2>2. st[data[id]].offlineSince \in Nat \cup {NoTime}
    BY <2>1 DEF State
  <2> QED  BY <2>2, SessionLimitsValid, SMT DEF NoTime, IInv, TypeOK
<1>4. ~st[data[id]].connected /\ at - st[data[id]].offlineSince >= OfflineTTL
  BY <1>1 DEF Expired
<1>5. now - st[data[id]].offlineSince >= OfflineTTL
  BY <1>3, <1>4, SMT
<1> QED  BY <1>1, <1>4, <1>5 DEF deleteLocked

\* Expiry removes only sessions that have been offline for a whole TTL, for
\* every TTL and however old the time is that the sweep was given (ExpiryStep).
THEOREM ExpiryCorrect == Spec => ExpiryStep
<1> DEFINE Allowed ==
      expired' # expired =>
        \E id \in Live :
          /\ data' = [data EXCEPT ![id] = NoState]
          /\ ~st[data[id]].connected
          /\ now - st[data[id]].offlineSince >= OfflineTTL
<1>1. ASSUME IInv, SweepPast, [Next]_vars, expired' # expired PROVE Allowed
  <2>1. sweepAt \in Nat /\ now \in Nat /\ sweep \subseteq Live
    BY <1>1 DEF IInv, TypeOK
  <2>2. ASSUME NEW id \in ClientID, NEW at \in 0 .. now, ExpireSession(id, at)
        PROVE  Allowed
    <3>1. id \in Live /\ at \in Nat /\ at <= now /\ expireLocked(id, at)
      BY <2>1, <2>2, SMT DEF ExpireSession, Live
    <3> QED  BY <1>1, <3>1, ExpireAllowed
  <2>3. ASSUME NEW id \in ClientID, ExpireNext(id) PROVE Allowed
    <3>1. id \in Live /\ expireLocked(id, sweepAt) /\ sweepAt <= now
      BY <1>1, <2>1, <2>3 DEF ExpireNext, SweepPast
    <3> QED  BY <1>1, <2>1, <3>1, ExpireAllowed
  <2>4. ASSUME NEW id, NEW o, NEW at,
               GetOrCreateOwned(id, o) \/ Delete(id) \/ Expire(at) \/ Tick \/ UNCHANGED vars
        PROVE  expired' = expired
    BY <2>4 DEF GetOrCreateOwned, Refuse, Delete, Expire, Tick, vars
  <2>5. ASSUME NEW h, NEW f, NEW qos, NEW size,
               \/ SetSubscriptionStep(h, f, qos) \/ DeleteSubscriptionStep(h, f)
               \/ AdmitStep(h, size)
        PROVE  expired' = expired
    BY <2>5 DEF SetSubscriptionStep, DeleteSubscriptionStep, AdmitStep, Refuse
  <2>6. ASSUME NEW h, NEW epoch, NEW pid, NextStep(h, epoch) \/ AckStep(h, pid)
        PROVE  expired' = expired
    BY <2>6 DEF NextStep, AckStep
  <2>7. ASSUME NEW h, NEW at,
               \/ BeginDeliveryStep(h) \/ PauseDeliveryStep(h) \/ ResumeDeliveryStep(h)
               \/ MarkConnectedStep(h) \/ MarkDisconnectedStep(h, at) \/ ReceiveChanged(h)
        PROVE  expired' = expired
    BY <2>7 DEF BeginDeliveryStep, PauseDeliveryStep, ResumeDeliveryStep,
                MarkConnectedStep, MarkDisconnectedStep, ReceiveChanged, Method
  <2> HIDE DEF Allowed
  <2> QED
    BY <1>1, <2>2, <2>3, <2>4, <2>5, <2>6, <2>7 DEF Next
<1>2. IInv /\ SweepPast /\ [Next]_vars => [Allowed]_vars
  BY <1>1
<1>3. Init => SweepPast
  BY SMT DEF Init, SweepPast
<1> QED 
  BY <1>2, <1>3, InitInv, NextInv, SweepPastKept, PTL DEF Spec, ExpiryStep

(***************************************************************************)
(* Counting what sessions hold.                                            *)
(***************************************************************************)

\* What finitely many sessions hold is finite if what each of them holds is.
LEMMA HeldFinite ==
  ASSUME NEW k, IsFiniteSet(DOMAIN k), \A h \in DOMAIN k : IsFiniteSet(k[h])
  PROVE  IsFiniteSet(Held(k))
<1> DEFINE f == [h \in DOMAIN k |-> {h} \X k[h]]
           T == {{h} \X k[h] : h \in DOMAIN k}
<1>1. f \in Surjection(DOMAIN k, T) BY DEF Surjection
<1>2. IsFiniteSet(T)
  <2> HIDE DEF f, T
  <2> QED BY <1>1, FS_Surjection
<1>3. ASSUME NEW h \in DOMAIN k PROVE IsFiniteSet({h} \X k[h])
  <2>1. IsFiniteSet({h}) /\ IsFiniteSet(k[h]) BY FS_Singleton
  <2> QED BY <2>1, FS_Product
<1>4. \A S \in T : IsFiniteSet(S) BY <1>3
<1> HIDE DEF T
<1>5. IsFiniteSet(UNION T) BY <1>2, <1>4, FS_UNION
<1> QED BY <1>5 DEF Held, T

\* Replacing what one session holds moves the total by the difference.
LEMMA HeldUpdate ==
  ASSUME NEW k, IsFiniteSet(DOMAIN k), \A g \in DOMAIN k : IsFiniteSet(k[g]),
         NEW h \in DOMAIN k, NEW new, IsFiniteSet(new)
  PROVE  LET l == [g \in DOMAIN k |-> IF g = h THEN new ELSE k[g]]
         IN  /\ Cardinality(Held(l)) =
                  Cardinality(Held(k)) - Cardinality(k[h]) + Cardinality(new)
             /\ Cardinality(Held(k)) \in Nat
             /\ Cardinality(k[h]) \in Nat /\ Cardinality(new) \in Nat
<1> DEFINE l == [g \in DOMAIN k |-> IF g = h THEN new ELSE k[g]]
           rest == [g \in DOMAIN k \ {h} |-> k[g]]
           R == Held(rest)
<1>1. /\ Held(k) = R \cup ({h} \X k[h])
      /\ Held(l) = R \cup ({h} \X new)
  BY DEF Held
<1>2. R \cap ({h} \X k[h]) = {} /\ R \cap ({h} \X new) = {}
  <2>1. \A x \in R : x[1] # h
    <3>1. \A g \in DOMAIN k \ {h} : \A x \in {g} \X k[g] : x[1] # h BY SMT
    <3> QED BY <3>1 DEF Held
  <2>2. ASSUME NEW S PROVE \A x \in {h} \X S : x[1] = h BY SMT
  <2> HIDE DEF R
  <2> QED BY <2>1, <2>2
<1>3. IsFiniteSet(R)
  <2>1. DOMAIN rest \in SUBSET DOMAIN k OBVIOUS
  <2>2. IsFiniteSet(DOMAIN rest) BY <2>1, FS_Subset
  <2>3. \A g \in DOMAIN rest : IsFiniteSet(rest[g]) OBVIOUS
  <2> HIDE DEF rest
  <2> QED BY <2>2, <2>3, HeldFinite
<1>4. ASSUME NEW S, IsFiniteSet(S)
      PROVE  /\ Cardinality(S) \in Nat /\ IsFiniteSet({h} \X S)
             /\ Cardinality({h} \X S) = Cardinality(S)
  <2>1. IsFiniteSet({h}) /\ Cardinality({h}) = 1 BY FS_Singleton
  <2>2. Cardinality({h} \X S) = Cardinality({h}) * Cardinality(S)
        /\ IsFiniteSet({h} \X S)
    BY <1>4, <2>1, FS_Product
  <2>3. Cardinality(S) \in Nat BY <1>4, FS_CardinalityType
  <2> QED BY <2>1, <2>2, <2>3, SMT
<1>5. ASSUME NEW S, IsFiniteSet(S), R \cap ({h} \X S) = {}
      PROVE  Cardinality(R \cup ({h} \X S)) = Cardinality(R) + Cardinality(S)
  <2> HIDE DEF R
  <2> DEFINE U == {h} \X S
  <2>1. IsFiniteSet(U) /\ Cardinality(U) = Cardinality(S) /\ Cardinality(S) \in Nat
    BY <1>4, <1>5
  <2>2. R \cap U = {} BY <1>5
  <2> HIDE DEF U
  <2>3. Cardinality(R \cup U) =
          Cardinality(R) + Cardinality(U) - Cardinality(R \cap U)
    BY <1>3, <2>1, FS_Union
  <2>4. Cardinality(R) \in Nat BY <1>3, FS_CardinalityType
  <2>5. Cardinality(R \cap U) = 0 BY <2>2, FS_EmptySet
  <2>6. Cardinality(R \cup U) = Cardinality(R) + Cardinality(S)
    BY <2>1, <2>3, <2>4, <2>5, SMT
  <2> QED BY <2>6 DEF U
<1>6. IsFiniteSet(k[h]) OBVIOUS
<1> HIDE DEF R, l
<1>7. /\ Cardinality(Held(k)) = Cardinality(R) + Cardinality(k[h])
      /\ Cardinality(Held(l)) = Cardinality(R) + Cardinality(new)
  BY <1>1, <1>2, <1>5, <1>6
<1>8. Cardinality(R) \in Nat /\ Cardinality(k[h]) \in Nat /\ Cardinality(new) \in Nat
  BY <1>3, <1>6, FS_CardinalityType
<1>9. Cardinality(Held(l)) =
        Cardinality(Held(k)) - Cardinality(k[h]) + Cardinality(new)
      /\ Cardinality(Held(k)) \in Nat
  BY <1>7, <1>8, SMT
<1> QED BY <1>8, <1>9 DEF l

(***************************************************************************)
(* The invariant of the totals, and how a step on one session keeps it.    *)
(***************************************************************************)

\* The counters of a session are what it holds.
Balanced(s) ==
  /\ s.pendingMessages = Len(s.entries)
  /\ s.pendingMessages = Cardinality(Pending(s))
  /\ s.pendingBytes = Cardinality(Buffered(s))

\* A session is within its own limits.
Bounded(s) ==
  /\ s.pendingMessages \in 0 .. MaxPendingMessages
  /\ s.pendingBytes \in 0 .. MaxPendingBytes
  /\ Cardinality(Subscribed(s)) <= MaxSubscriptions

CapacityInv ==
  /\ Accounting /\ WithinLimits
  /\ \A h \in DOMAIN st : Balanced(st[h]) /\ Bounded(st[h])

\* The totals move by the difference between what a session held and holds.
Charged(s, t) ==
  /\ totals'.messages =
       totals.messages - Cardinality(Pending(s)) + Cardinality(Pending(t))
  /\ totals'.bytes =
       totals.bytes - Cardinality(Buffered(s)) + Cardinality(Buffered(t))
  /\ totals'.inflight =
       totals.inflight - Cardinality(InflightIDs(s)) + Cardinality(InflightIDs(t))
  /\ totals'.subscriptions =
       totals.subscriptions - Cardinality(Subscribed(s)) + Cardinality(Subscribed(t))

\* The totals leave room for what the steps of one session take.
Room ==
  /\ totals.messages <= MaxMessagesGlobal
  /\ totals.bytes <= MaxBytesGlobal
  /\ totals.subscriptions <= MaxSubscriptionsGlobal
  /\ Cardinality(Live) <= MaxSessions

\* What one resource comes to when the session of h changes.
LEMMA HeldStep ==
  ASSUME IInv, NEW h \in DOMAIN st, NEW k, DOMAIN k = DOMAIN st,
         \A g \in DOMAIN st : IsFiniteSet(k[g]), NEW l, DOMAIN l = DOMAIN st,
         l = [g \in DOMAIN l |-> l[g]], IsFiniteSet(l[h]),
         \A g \in DOMAIN st : g # h => l[g] = k[g]
  PROVE  Cardinality(Held(l)) =
           Cardinality(Held(k)) - Cardinality(k[h]) + Cardinality(l[h])
<1>1. IsFiniteSet(DOMAIN k)
  <2>1. DOMAIN st \in SUBSET Handle /\ IsFiniteSet(Handle)
    BY StoreLimitsValid DEF IInv, TypeOK
  <2> QED BY <2>1, FS_Subset
<1> DEFINE new == l[h]
           u == [g \in DOMAIN k |-> IF g = h THEN new ELSE k[g]]
<1>2. l = u OBVIOUS
<1>3. IsFiniteSet(new) /\ h \in DOMAIN k /\ \A g \in DOMAIN k : IsFiniteSet(k[g])
  OBVIOUS
<1>4. Cardinality(Held(u)) =
        Cardinality(Held(k)) - Cardinality(k[h]) + Cardinality(new)
  <2> HIDE DEF new
  <2> QED BY <1>1, <1>3, HeldUpdate
<1> HIDE DEF u
<1> QED BY <1>2, <1>4

\* What all sessions hold is a natural number of things.
LEMMA HeldNat ==
  ASSUME IInv, NEW k, DOMAIN k = DOMAIN st, \A g \in DOMAIN st : IsFiniteSet(k[g])
  PROVE  Cardinality(Held(k)) \in Nat
<1>1. DOMAIN st \in SUBSET Handle /\ IsFiniteSet(Handle)
  BY StoreLimitsValid DEF IInv, TypeOK
<1>2. IsFiniteSet(DOMAIN k) BY <1>1, FS_Subset
<1> QED BY <1>2, HeldFinite, FS_CardinalityType

\* Accounting puts the totals in Nat.
LEMMA TotalsNat ==
  ASSUME IInv, Accounting
  PROVE  /\ totals.messages \in Nat /\ totals.bytes \in Nat
         /\ totals.inflight \in Nat /\ totals.subscriptions \in Nat
<1>1. \A g \in DOMAIN st :
        /\ IsFiniteSet(Pending(st[g])) /\ IsFiniteSet(Buffered(st[g]))
        /\ IsFiniteSet(InflightIDs(st[g])) /\ IsFiniteSet(Subscribed(st[g]))
  BY SessionFacts, HoldingsFinite
<1>2. Cardinality(Held([h \in DOMAIN st |-> Pending(st[h])])) \in Nat
  BY <1>1, HeldNat
<1>3. Cardinality(Held([h \in DOMAIN st |-> Buffered(st[h])])) \in Nat
  BY <1>1, HeldNat
<1>4. Cardinality(Held([h \in DOMAIN st |-> InflightIDs(st[h])])) \in Nat
  BY <1>1, HeldNat
<1>5. Cardinality(Held([h \in DOMAIN st |-> Subscribed(st[h])])) \in Nat
  BY <1>1, HeldNat
<1> QED BY <1>2, <1>3, <1>4, <1>5 DEF Accounting

\* A step on one session that charges the totals for what it does keeps the
\* invariant, when the session and the totals stay within the limits.
LEMMA StepCapacity ==
  ASSUME IInv, CapacityInv, NEW h \in DOMAIN st, NEW x \in State,
         Update(h, x), Charged(st[h], x), Balanced(x), Bounded(x), Room'
  PROVE  CapacityInv'
<1>1. /\ DOMAIN st' = DOMAIN st /\ st'[h] = x
      /\ \A g \in DOMAIN st : g # h => st'[g] = st[g]
  BY DEF Update
<1>2. \A g \in DOMAIN st :
        /\ IsFiniteSet(Pending(st[g])) /\ IsFiniteSet(Buffered(st[g]))
        /\ IsFiniteSet(InflightIDs(st[g])) /\ IsFiniteSet(Subscribed(st[g]))
  BY SessionFacts, HoldingsFinite
<1>3. /\ IsFiniteSet(Pending(x)) /\ IsFiniteSet(Buffered(x))
      /\ IsFiniteSet(InflightIDs(x)) /\ IsFiniteSet(Subscribed(x))
  BY HoldingsFinite
<1>4. totals'.messages = Cardinality(Held([g \in DOMAIN st' |-> Pending(st'[g])]))
  <2> DEFINE k == [g \in DOMAIN st |-> Pending(st[g])]
             l == [g \in DOMAIN st' |-> Pending(st'[g])]
  <2>1. Cardinality(Held(l)) =
          Cardinality(Held(k)) - Cardinality(k[h]) + Cardinality(l[h])
    <3>1. /\ DOMAIN k = DOMAIN st /\ \A g \in DOMAIN st : IsFiniteSet(k[g])
          /\ DOMAIN l = DOMAIN st /\ l = [g \in DOMAIN l |-> l[g]]
          /\ IsFiniteSet(l[h]) /\ \A g \in DOMAIN st : g # h => l[g] = k[g]
      BY <1>1, <1>2, <1>3
    <3> HIDE DEF k, l
    <3> QED BY <3>1, HeldStep
  <2>2. k[h] = Pending(st[h]) /\ l[h] = Pending(x) BY <1>1
  <2> QED BY <2>1, <2>2 DEF CapacityInv, Accounting, Charged
<1>5. totals'.bytes = Cardinality(Held([g \in DOMAIN st' |-> Buffered(st'[g])]))
  <2> DEFINE k == [g \in DOMAIN st |-> Buffered(st[g])]
             l == [g \in DOMAIN st' |-> Buffered(st'[g])]
  <2>1. Cardinality(Held(l)) =
          Cardinality(Held(k)) - Cardinality(k[h]) + Cardinality(l[h])
    <3>1. /\ DOMAIN k = DOMAIN st /\ \A g \in DOMAIN st : IsFiniteSet(k[g])
          /\ DOMAIN l = DOMAIN st /\ l = [g \in DOMAIN l |-> l[g]]
          /\ IsFiniteSet(l[h]) /\ \A g \in DOMAIN st : g # h => l[g] = k[g]
      BY <1>1, <1>2, <1>3
    <3> HIDE DEF k, l
    <3> QED BY <3>1, HeldStep
  <2>2. k[h] = Buffered(st[h]) /\ l[h] = Buffered(x) BY <1>1
  <2> QED BY <2>1, <2>2 DEF CapacityInv, Accounting, Charged
<1>6. totals'.inflight = Cardinality(Held([g \in DOMAIN st' |-> InflightIDs(st'[g])]))
  <2> DEFINE k == [g \in DOMAIN st |-> InflightIDs(st[g])]
             l == [g \in DOMAIN st' |-> InflightIDs(st'[g])]
  <2>1. Cardinality(Held(l)) =
          Cardinality(Held(k)) - Cardinality(k[h]) + Cardinality(l[h])
    <3>1. /\ DOMAIN k = DOMAIN st /\ \A g \in DOMAIN st : IsFiniteSet(k[g])
          /\ DOMAIN l = DOMAIN st /\ l = [g \in DOMAIN l |-> l[g]]
          /\ IsFiniteSet(l[h]) /\ \A g \in DOMAIN st : g # h => l[g] = k[g]
      BY <1>1, <1>2, <1>3
    <3> HIDE DEF k, l
    <3> QED BY <3>1, HeldStep
  <2>2. k[h] = InflightIDs(st[h]) /\ l[h] = InflightIDs(x) BY <1>1
  <2> QED BY <2>1, <2>2 DEF CapacityInv, Accounting, Charged
<1>7. totals'.subscriptions =
        Cardinality(Held([g \in DOMAIN st' |-> Subscribed(st'[g])]))
  <2> DEFINE k == [g \in DOMAIN st |-> Subscribed(st[g])]
             l == [g \in DOMAIN st' |-> Subscribed(st'[g])]
  <2>1. Cardinality(Held(l)) =
          Cardinality(Held(k)) - Cardinality(k[h]) + Cardinality(l[h])
    <3>1. /\ DOMAIN k = DOMAIN st /\ \A g \in DOMAIN st : IsFiniteSet(k[g])
          /\ DOMAIN l = DOMAIN st /\ l = [g \in DOMAIN l |-> l[g]]
          /\ IsFiniteSet(l[h]) /\ \A g \in DOMAIN st : g # h => l[g] = k[g]
      BY <1>1, <1>2, <1>3
    <3> HIDE DEF k, l
    <3> QED BY <3>1, HeldStep
  <2>2. k[h] = Subscribed(st[h]) /\ l[h] = Subscribed(x) BY <1>1
  <2> QED BY <2>1, <2>2 DEF CapacityInv, Accounting, Charged
<1>8. \A g \in DOMAIN st' : Balanced(st'[g]) /\ Bounded(st'[g])
  BY <1>1 DEF CapacityInv
<1>9. Accounting' BY <1>4, <1>5, <1>6, <1>7, <1>8 DEF Accounting, Balanced
<1>10. WithinLimits'
  <2>1. /\ totals'.messages \in Nat /\ totals'.bytes \in Nat
        /\ totals'.subscriptions \in Nat
    <3>1. \A g \in DOMAIN st : /\ IsFiniteSet(Pending(st'[g]))
                               /\ IsFiniteSet(Buffered(st'[g]))
                               /\ IsFiniteSet(Subscribed(st'[g]))
      BY <1>1, <1>2, <1>3
    <3>2. Cardinality(Held([g \in DOMAIN st' |-> Pending(st'[g])])) \in Nat
      BY <1>1, <3>1, HeldNat
    <3>3. Cardinality(Held([g \in DOMAIN st' |-> Buffered(st'[g])])) \in Nat
      BY <1>1, <3>1, HeldNat
    <3>4. Cardinality(Held([g \in DOMAIN st' |-> Subscribed(st'[g])])) \in Nat
      BY <1>1, <3>1, HeldNat
    <3> QED BY <1>4, <1>5, <1>7, <3>2, <3>3, <3>4
  <2>2. /\ MaxMessagesGlobal \in Nat /\ MaxBytesGlobal \in Nat
        /\ MaxSubscriptionsGlobal \in Nat
    BY StoreLimitsValid
  <2>3. /\ totals'.messages \in 0 .. MaxMessagesGlobal
        /\ totals'.bytes \in 0 .. MaxBytesGlobal
        /\ totals'.subscriptions \in 0 .. MaxSubscriptionsGlobal
        /\ Cardinality(Live') <= MaxSessions
    BY <2>1, <2>2, SMT DEF Room
  <2> QED BY <1>8, <2>3 DEF WithinLimits, Bounded
<1> QED BY <1>8, <1>9, <1>10 DEF CapacityInv

\* A total a and a session's share c that stay, rise and fall by d together.
LEMMA Same == ASSUME NEW a \in Nat, NEW c \in Nat PROVE a = a - c + c
BY SMT

LEMMA Rise ==
  ASSUME NEW a \in Nat, NEW c \in Nat, NEW d \in Nat PROVE a + d = a - c + (c + d)
BY SMT

LEMMA Fall ==
  ASSUME NEW a \in Nat, NEW c \in Nat, NEW d \in Nat PROVE a - d = a - c + (c - d)
BY SMT

\* What falls stays below the limit m.
LEMMA Lower ==
  ASSUME NEW a \in Nat, NEW d \in Nat, NEW m \in Nat, a <= m
  PROVE  a - d <= m /\ (a - d \in Nat => a - d \in 0 .. m)
BY SMT

\* The sizes of what a session holds, and the totals, are numbers.
LEMMA Numbers ==
  ASSUME IInv, CapacityInv, NEW h \in DOMAIN st
  PROVE  /\ Cardinality(Pending(st[h])) \in Nat
         /\ Cardinality(Buffered(st[h])) \in Nat
         /\ Cardinality(InflightIDs(st[h])) \in Nat
         /\ Cardinality(Subscribed(st[h])) \in Nat
         /\ totals.messages \in Nat /\ totals.bytes \in Nat
         /\ totals.inflight \in Nat /\ totals.subscriptions \in Nat
         /\ Room /\ Balanced(st[h]) /\ Bounded(st[h]) /\ st[h] \in State
<1>1. st[h] \in State BY SessionFacts
<1>2. /\ Cardinality(Pending(st[h])) \in Nat
      /\ Cardinality(Buffered(st[h])) \in Nat
      /\ Cardinality(InflightIDs(st[h])) \in Nat
      /\ Cardinality(Subscribed(st[h])) \in Nat
  BY <1>1, HoldingsFinite, FS_CardinalityType
<1>3. /\ totals.messages \in Nat /\ totals.bytes \in Nat
      /\ totals.inflight \in Nat /\ totals.subscriptions \in Nat
  BY TotalsNat DEF CapacityInv
<1>4. Room
  <2>1. /\ totals.messages \in 0 .. MaxMessagesGlobal
        /\ totals.bytes \in 0 .. MaxBytesGlobal
        /\ totals.subscriptions \in 0 .. MaxSubscriptionsGlobal
        /\ Cardinality(Live) <= MaxSessions
    BY DEF CapacityInv, WithinLimits
  <2> QED BY <2>1, <1>3, StoreLimitsValid, SMT DEF Room
<1> QED BY <1>1, <1>2, <1>3, <1>4 DEF CapacityInv

\* Steps that change no session and no total.
LEMMA NothingHeld ==
  ASSUME CapacityInv, UNCHANGED <<st, totals, data>>
  PROVE  CapacityInv'
BY DEF CapacityInv, Accounting, WithinLimits, Live

\* Methods that leave what the session holds alone, and the totals.
LEMMA FrameCapacity ==
  ASSUME IInv, CapacityInv, NEW h \in DOMAIN st, NEW x \in State, Update(h, x),
         x.entries = st[h].entries, x.inflight = st[h].inflight,
         x.subscriptions = st[h].subscriptions,
         x.pendingMessages = st[h].pendingMessages,
         x.pendingBytes = st[h].pendingBytes, UNCHANGED <<totals, data>>
  PROVE  CapacityInv'
<1>1. /\ Pending(x) = Pending(st[h]) /\ Buffered(x) = Buffered(st[h])
      /\ InflightIDs(x) = InflightIDs(st[h]) /\ Subscribed(x) = Subscribed(st[h])
  BY DEF Pending, Buffered, InflightIDs, Subscribed
<1>2. Charged(st[h], x) BY <1>1, Numbers, SMT DEF Charged
<1>3. Balanced(x) /\ Bounded(x) BY <1>1, Numbers DEF Balanced, Bounded
<1>4. Room' BY Numbers DEF Room, Live
<1> QED BY <1>2, <1>3, <1>4, StepCapacity

\* A new session holds nothing.
LEMMA CreateCapacity ==
  ASSUME IInv, CapacityInv, NEW id \in ClientID, NEW o \in Owner,
         GetOrCreateOwned(id, o)
  PROVE  CapacityInv'
<1>1. CASE UNCHANGED <<st, totals, data>> BY <1>1, NothingHeld
<1>2. CASE /\ ~(Cardinality(Live) >= MaxSessions)
           /\ \E h \in Handle \ DOMAIN st :
                /\ st' = [x \in DOMAIN st \cup {h} |->
                            IF x = h THEN NewState(id, o, now) ELSE st[x]]
                /\ data' = [data EXCEPT ![id] = h] /\ totals' = totals
  <2> DEFINE n == NewState(id, o, now)
  <2>1. PICK h \in Handle \ DOMAIN st :
          /\ st' = [x \in DOMAIN st \cup {h} |-> IF x = h THEN n ELSE st[x]]
          /\ data' = [data EXCEPT ![id] = h] /\ totals' = totals
    BY <1>2
  <2>2. /\ n.entries = <<>> /\ n.pendingMessages = 0 /\ n.pendingBytes = 0
        /\ n.inflight = [p \in PacketIDs |-> Nil]
        /\ n.subscriptions = [f \in Filter |-> NoSub]
    BY DEF NewState
  <2> HIDE DEF n
  <2>3. Len(n.entries) = 0 /\ 1 .. Len(n.entries) = {} BY <2>2, SMT
  <2>4. /\ Pending(n) = {} /\ Buffered(n) = {}
        /\ InflightIDs(n) = {} /\ Subscribed(n) = {}
    BY <2>2, <2>3 DEF Pending, Buffered, InflightIDs, Subscribed
  <2>5. Balanced(n) /\ Bounded(n)
    <3>1. Cardinality({}) = 0 BY FS_EmptySet
    <3>2. 0 \in 0 .. MaxPendingMessages /\ 0 \in 0 .. MaxPendingBytes
          /\ 0 <= MaxSubscriptions
      BY SessionLimitsValid, SMT
    <3> QED BY <2>2, <2>3, <2>4, <3>1, <3>2 DEF Balanced, Bounded
  <2>6. /\ DOMAIN st' = DOMAIN st \cup {h} /\ st'[h] = n
        /\ \A g \in DOMAIN st : st'[g] = st[g]
    BY <2>1
  <2>7. ASSUME NEW k, DOMAIN k = DOMAIN st, NEW l, DOMAIN l = DOMAIN st',
               \A g \in DOMAIN st : l[g] = k[g], l[h] = {}
        PROVE  Held(l) = Held(k)
    <3>1. \A g \in DOMAIN st : {g} \X l[g] = {g} \X k[g] BY <2>7
    <3>2. \A b : b \notin {h} \X l[h]
      <4>1. {h} \X l[h] = {h} \X {} BY <2>7
      <4>2. {h} \X {} = {} BY SMT
      <4> QED BY <4>1, <4>2
    <3>3. \A b : b \in Held(l) <=> \E g \in DOMAIN st : b \in {g} \X l[g]
      BY <2>6, <2>7, <3>2 DEF Held
    <3>4. \A b : b \in Held(k) <=> \E g \in DOMAIN st : b \in {g} \X k[g]
      BY <2>7 DEF Held
    <3> QED BY <3>1, <3>3, <3>4 DEF Held
  <2>8. /\ Held([g \in DOMAIN st' |-> Pending(st'[g])]) =
             Held([g \in DOMAIN st |-> Pending(st[g])])
        /\ Held([g \in DOMAIN st' |-> Buffered(st'[g])]) =
             Held([g \in DOMAIN st |-> Buffered(st[g])])
        /\ Held([g \in DOMAIN st' |-> InflightIDs(st'[g])]) =
             Held([g \in DOMAIN st |-> InflightIDs(st[g])])
        /\ Held([g \in DOMAIN st' |-> Subscribed(st'[g])]) =
             Held([g \in DOMAIN st |-> Subscribed(st[g])])
    BY <2>4, <2>6, <2>7
  <2>9. \A g \in DOMAIN st' : Balanced(st'[g]) /\ Bounded(st'[g])
    BY <2>5, <2>6 DEF CapacityInv
  <2>10. Accounting' BY <2>1, <2>8, <2>9 DEF CapacityInv, Accounting, Balanced
  <2>11. Cardinality(Live') <= MaxSessions
    <3>1. data \in [ClientID -> DOMAIN st \cup {NoState}] /\ h # NoState
      BY StoreLimitsValid DEF IInv, TypeOK
    <3>2. Live' = Live \cup {id} BY <2>1, <3>1 DEF Live
    <3>3. id \notin Live BY DEF GetOrCreateOwned, Live
    <3>4. IsFiniteSet(Live)
      <4>1. Live \in SUBSET ClientID /\ IsFiniteSet(ClientID)
        BY StoreLimitsValid DEF Live
      <4> QED BY <4>1, FS_Subset
    <3>5. Cardinality(Live') = Cardinality(Live) + 1
      BY <3>2, <3>3, <3>4, FS_AddElement
    <3>6. Cardinality(Live) \in Nat BY <3>4, FS_CardinalityType
    <3> QED BY <1>2, <3>5, <3>6, StoreLimitsValid, SMT
  <2> QED BY <2>1, <2>9, <2>10, <2>11 DEF CapacityInv, WithinLimits, Bounded
<1> QED BY <1>1, <1>2 DEF GetOrCreateOwned, Refuse

\* deleteLocked returns all that the session holds.
LEMMA DeleteCapacity ==
  ASSUME IInv, CapacityInv, NEW id \in ClientID, data[id] # NoState,
         deleteLocked(id)
  PROVE  CapacityInv'
<1> DEFINE h == data[id]
           s == st[h]
           x == Deleted(s)
<1>1. h \in DOMAIN st BY DEF IInv, TypeOK
<1>2. /\ Update(h, x) /\ data' = [data EXCEPT ![id] = NoState]
      /\ totals' = [totals EXCEPT
                      !.messages = @ - s.pendingMessages,
                      !.bytes = @ - s.pendingBytes,
                      !.inflight = @ - Cardinality(InflightIDs(s)),
                      !.subscriptions = @ - Cardinality(Subscribed(s))]
  BY DEF deleteLocked
<1>3. /\ Cardinality(Pending(s)) \in Nat /\ Cardinality(Buffered(s)) \in Nat
      /\ Cardinality(InflightIDs(s)) \in Nat /\ Cardinality(Subscribed(s)) \in Nat
      /\ totals.messages \in Nat /\ totals.bytes \in Nat
      /\ totals.inflight \in Nat /\ totals.subscriptions \in Nat
      /\ Room /\ Balanced(s) /\ Bounded(s) /\ s \in State
  BY <1>1, Numbers
<1>4. /\ x.entries = <<>> /\ x.pendingMessages = 0 /\ x.pendingBytes = 0
      /\ x.inflight = [p \in PacketIDs |-> Nil]
      /\ x.subscriptions = [f \in Filter |-> NoSub]
  BY <1>3 DEF Deleted, notifyLocked, State
<1>5. x \in State BY <1>3, DeletedType
<1>6. /\ totals'.messages = totals.messages - s.pendingMessages
      /\ totals'.bytes = totals.bytes - s.pendingBytes
      /\ totals'.inflight = totals.inflight - Cardinality(InflightIDs(s))
      /\ totals'.subscriptions = totals.subscriptions - Cardinality(Subscribed(s))
  BY <1>2 DEF IInv, TypeOK
<1> HIDE DEF h, s, x
<1>7. Len(x.entries) = 0 /\ 1 .. Len(x.entries) = {} BY <1>4, SMT
<1>8. /\ Pending(x) = {} /\ Buffered(x) = {}
      /\ InflightIDs(x) = {} /\ Subscribed(x) = {} /\ Cardinality({}) = 0
  BY <1>4, <1>7, FS_EmptySet DEF Pending, Buffered, InflightIDs, Subscribed
<1>9. Balanced(x) /\ Bounded(x)
  <2>1. 0 \in 0 .. MaxPendingMessages /\ 0 \in 0 .. MaxPendingBytes
        /\ 0 <= MaxSubscriptions
    BY SessionLimitsValid, SMT
  <2> QED BY <1>4, <1>7, <1>8, <2>1 DEF Balanced, Bounded
<1>10. /\ s.pendingMessages = Cardinality(Pending(s))
       /\ s.pendingBytes = Cardinality(Buffered(s))
  BY <1>3 DEF Balanced
<1>11. Charged(s, x) BY <1>3, <1>6, <1>8, <1>10, SMT DEF Charged
<1>12. Room'
  <2>1. Cardinality(Live') <= MaxSessions
    <3>1. Live' \in SUBSET Live BY <1>2 DEF Live, IInv, TypeOK
    <3>2. Live \in SUBSET ClientID /\ IsFiniteSet(ClientID)
      BY StoreLimitsValid DEF Live
    <3>3. IsFiniteSet(Live) BY <3>2, FS_Subset
    <3>4. Cardinality(Live') <= Cardinality(Live) /\ IsFiniteSet(Live')
      BY <3>1, <3>3, FS_Subset
    <3>5. Cardinality(Live') \in Nat /\ Cardinality(Live) \in Nat
      BY <3>3, <3>4, FS_CardinalityType
    <3> QED BY <1>3, <3>4, <3>5, StoreLimitsValid, SMT DEF Room
  <2> QED BY <1>3, <1>6, <1>10, <2>1, StoreLimitsValid, SMT DEF Room
<1> QED BY <1>1, <1>2, <1>5, <1>9, <1>11, <1>12, StepCapacity DEF s

\* SetSubscription takes a subscription only when both limits leave room.
LEMMA SetSubscriptionCapacity ==
  ASSUME IInv, CapacityInv, NEW h \in DOMAIN st, NEW f \in Filter, NEW qos \in QoS,
         SetSubscriptionStep(h, f, qos)
  PROVE  CapacityInv'
<1> DEFINE s == st[h]
           x == SetSubscription(s, f, qos)
<1>1. CASE UNCHANGED <<st, totals, data>> BY <1>1, NothingHeld
<1>2. CASE /\ ~(/\ s.subscriptions[f] = NoSub
                /\ \/ Cardinality(Subscribed(s)) >= MaxSubscriptions
                   \/ totals.subscriptions >= MaxSubscriptionsGlobal)
           /\ Update(h, x) /\ data' = data
           /\ totals' = [totals EXCEPT !.subscriptions =
                           IF s.subscriptions[f] = NoSub THEN @ + 1 ELSE @]
  <2>1. /\ Cardinality(Pending(s)) \in Nat /\ Cardinality(Buffered(s)) \in Nat
        /\ Cardinality(InflightIDs(s)) \in Nat /\ Cardinality(Subscribed(s)) \in Nat
        /\ totals.messages \in Nat /\ totals.bytes \in Nat
        /\ totals.inflight \in Nat /\ totals.subscriptions \in Nat
        /\ Room /\ Balanced(s) /\ Bounded(s) /\ s \in State
    BY Numbers
  <2>2. /\ x.entries = s.entries /\ x.inflight = s.inflight
        /\ x.pendingMessages = s.pendingMessages /\ x.pendingBytes = s.pendingBytes
        /\ x.subscriptions = [s.subscriptions EXCEPT ![f] = qos]
    BY <2>1 DEF SetSubscription, State
  <2>3. x \in State BY <2>1, SubscriptionTypes
  <2>4. /\ totals'.messages = totals.messages /\ totals'.bytes = totals.bytes
        /\ totals'.inflight = totals.inflight
        /\ totals'.subscriptions = IF s.subscriptions[f] = NoSub
                                   THEN totals.subscriptions + 1
                                   ELSE totals.subscriptions
    BY <1>2 DEF IInv, TypeOK
  <2> HIDE DEF s, x
  <2>5. /\ Pending(x) = Pending(s) /\ Buffered(x) = Buffered(s)
        /\ InflightIDs(x) = InflightIDs(s)
    BY <2>2, ZenonT(30) DEF Pending, Buffered, InflightIDs
  <2>6. Cardinality(Subscribed(x)) = IF s.subscriptions[f] = NoSub
                                     THEN Cardinality(Subscribed(s)) + 1
                                     ELSE Cardinality(Subscribed(s))
    <3>1. s.subscriptions \in [Filter -> QoS \cup {NoSub}] /\ qos # NoSub
      BY <2>1, SMT DEF State, QoS, NoSub
    <3>2. Subscribed(x) = Subscribed(s) \cup {f} BY <2>2, <3>1 DEF Subscribed
    <3>3. f \in Subscribed(s) <=> s.subscriptions[f] # NoSub BY DEF Subscribed
    <3> QED BY <2>1, <3>2, <3>3, HoldingsFinite, FS_AddElement
  <2>7. Charged(s, x) BY <2>1, <2>4, <2>5, <2>6, SMT DEF Charged
  <2>8. Balanced(x) BY <2>1, <2>2, <2>5 DEF Balanced
  <2>9. Cardinality(Subscribed(x)) <= MaxSubscriptions
    BY <1>2, <2>1, <2>6, SessionLimitsValid, SMT DEF Bounded
  <2>10. Bounded(x) BY <2>1, <2>2, <2>9 DEF Bounded
  <2>11. Room'
    <3>1. Live' = Live BY <1>2 DEF Live
    <3> QED BY <1>2, <2>1, <2>4, <3>1, StoreLimitsValid, SMT DEF Room
  <2> QED BY <1>2, <2>3, <2>7, <2>8, <2>10, <2>11, StepCapacity DEF s
<1> QED BY <1>1, <1>2 DEF SetSubscriptionStep, Refuse

\* DeleteSubscription returns the subscription it removes.
LEMMA DeleteSubscriptionCapacity ==
  ASSUME IInv, CapacityInv, NEW h \in DOMAIN st, NEW f \in Filter,
         DeleteSubscriptionStep(h, f)
  PROVE  CapacityInv'
<1> DEFINE s == st[h]
           x == DeleteSubscription(s, f)
<1>1. /\ s.subscriptions[f] # NoSub /\ Update(h, x) /\ data' = data
      /\ totals' = [totals EXCEPT !.subscriptions = @ - 1]
  BY DEF DeleteSubscriptionStep
<1>2. /\ Cardinality(Pending(s)) \in Nat /\ Cardinality(Buffered(s)) \in Nat
      /\ Cardinality(InflightIDs(s)) \in Nat /\ Cardinality(Subscribed(s)) \in Nat
      /\ totals.messages \in Nat /\ totals.bytes \in Nat
      /\ totals.inflight \in Nat /\ totals.subscriptions \in Nat
      /\ Room /\ Balanced(s) /\ Bounded(s) /\ s \in State
  BY Numbers
<1>3. /\ x.entries = s.entries /\ x.inflight = s.inflight
      /\ x.pendingMessages = s.pendingMessages /\ x.pendingBytes = s.pendingBytes
      /\ x.subscriptions = [s.subscriptions EXCEPT ![f] = NoSub]
  BY <1>2 DEF DeleteSubscription, State
<1>4. x \in State BY <1>2, SubscriptionTypes
<1>5. /\ totals'.messages = totals.messages /\ totals'.bytes = totals.bytes
      /\ totals'.inflight = totals.inflight
      /\ totals'.subscriptions = totals.subscriptions - 1
  BY <1>1 DEF IInv, TypeOK
<1> HIDE DEF s, x
<1>6. /\ Pending(x) = Pending(s) /\ Buffered(x) = Buffered(s)
      /\ InflightIDs(x) = InflightIDs(s)
  BY <1>3, ZenonT(30) DEF Pending, Buffered, InflightIDs
<1>7. Cardinality(Subscribed(x)) = Cardinality(Subscribed(s)) - 1
  <2>1. s.subscriptions \in [Filter -> QoS \cup {NoSub}] BY <1>2 DEF State
  <2>2. Subscribed(x) = Subscribed(s) \ {f} BY <1>3, <2>1 DEF Subscribed
  <2>3. f \in Subscribed(s) BY <1>1 DEF Subscribed
  <2> QED BY <1>2, <2>2, <2>3, HoldingsFinite, FS_RemoveElement
<1>8. Charged(s, x) BY <1>2, <1>5, <1>6, <1>7, SMT DEF Charged
<1>9. Balanced(x) BY <1>2, <1>3, <1>6 DEF Balanced
<1>10. Cardinality(Subscribed(x)) <= MaxSubscriptions
  BY <1>2, <1>7, SessionLimitsValid, SMT DEF Bounded
<1>11. Bounded(x) BY <1>2, <1>3, <1>10 DEF Bounded
<1>12. Room'
  <2>1. Live' = Live BY <1>1 DEF Live
  <2> QED BY <1>2, <1>5, <2>1, StoreLimitsValid, SMT DEF Room
<1> QED BY <1>1, <1>4, <1>8, <1>9, <1>11, <1>12, StepCapacity DEF s

\* Admit takes a message and its bytes only when all four limits leave room.
LEMMA AdmitCapacity ==
  ASSUME IInv, CapacityInv, NEW h \in DOMAIN st, NEW size \in Sizes,
         AdmitStep(h, size)
  PROVE  CapacityInv'
<1> DEFINE s == st[h]
           x == Admit(s, admitted + 1, size)
<1>1. CASE UNCHANGED <<st, totals, data>> BY <1>1, NothingHeld
<1>2. CASE /\ ~SessionSaturated(s, size)
           /\ ~(\/ totals.messages >= MaxMessagesGlobal
                \/ size > MaxBytesGlobal - totals.bytes)
           /\ Update(h, x) /\ data' = data
           /\ totals' = [totals EXCEPT !.messages = @ + 1, !.bytes = @ + size]
  <2>1. /\ Cardinality(Pending(s)) \in Nat /\ Cardinality(Buffered(s)) \in Nat
        /\ Cardinality(InflightIDs(s)) \in Nat /\ Cardinality(Subscribed(s)) \in Nat
        /\ totals.messages \in Nat /\ totals.bytes \in Nat
        /\ totals.inflight \in Nat /\ totals.subscriptions \in Nat
        /\ Room /\ Balanced(s) /\ Bounded(s) /\ s \in State
    BY Numbers
  <2>2. QueueInv(s, admitted) /\ admitted \in Nat /\ size \in Nat
    BY SessionFacts, StoreLimitsValid
  <2>3. /\ x.inflight = s.inflight /\ x.subscriptions = s.subscriptions
        /\ x.pendingMessages = s.pendingMessages + 1
        /\ x.pendingBytes = s.pendingBytes + size
    BY <2>1 DEF Admit, notifyLocked, State
  <2>4. Len(x.entries) = Len(s.entries) + 1
    <3> DEFINE e == [msg |-> admitted + 1, size |-> size, packetID |-> 0,
                     lastEpoch |-> 0]
    <3>1. x.entries = Append(s.entries, e) BY <2>1 DEF Admit, notifyLocked, State
    <3> HIDE DEF e, x, s
    <3> QED BY <2>1, <3>1, SMT DEF State
  <2>5. x \in State
    <3>1. admitted + 1 \in Nat \ {0} BY <2>2, SMT
    <3> QED BY <2>1, <2>2, <3>1, AdmitType
  <2>6. /\ totals'.messages = totals.messages + 1
        /\ totals'.bytes = totals.bytes + size
        /\ totals'.inflight = totals.inflight
        /\ totals'.subscriptions = totals.subscriptions
    BY <1>2 DEF IInv, TypeOK
  <2>7. /\ Cardinality(Pending(x)) = Cardinality(Pending(s)) + 1
        /\ Cardinality(Buffered(x)) = Cardinality(Buffered(s)) + size
    BY <2>1, <2>2, AdmitHoldings
  <2> HIDE DEF s, x
  <2>8. InflightIDs(x) = InflightIDs(s) /\ Subscribed(x) = Subscribed(s)
    BY <2>3 DEF InflightIDs, Subscribed
  <2>9. Charged(s, x) BY <2>1, <2>2, <2>6, <2>7, <2>8, SMT DEF Charged
  <2>10. Balanced(x) BY <2>1, <2>3, <2>4, <2>7 DEF Balanced
  <2>11. Bounded(x)
    <3>1. /\ x.pendingMessages \in 0 .. MaxPendingMessages
          /\ x.pendingBytes \in 0 .. MaxPendingBytes
      BY <1>2, <2>1, <2>2, <2>3, SessionLimitsValid, SMT
      DEF Bounded, SessionSaturated
    <3> QED BY <2>1, <2>8, <3>1 DEF Bounded
  <2>12. Room'
    <3>1. Live' = Live BY <1>2 DEF Live
    <3> QED BY <1>2, <2>1, <2>2, <2>6, <3>1, StoreLimitsValid, SMT DEF Room
  <2> QED BY <1>2, <2>5, <2>9, <2>10, <2>11, <2>12, StepCapacity DEF s
<1> QED BY <1>1, <1>2 DEF AdmitStep, Refuse

\* Next takes a Packet ID for a first attempt and nothing else.
LEMMA NextStepCapacity ==
  ASSUME IInv, CapacityInv, NEW h \in DOMAIN st, NEW epoch \in 1 .. st[h].epoch,
         NextStep(h, epoch)
  PROVE  CapacityInv'
<1> DEFINE s == st[h]
<1>1. /\ Cardinality(Pending(s)) \in Nat /\ Cardinality(Buffered(s)) \in Nat
      /\ Cardinality(InflightIDs(s)) \in Nat /\ Cardinality(Subscribed(s)) \in Nat
      /\ totals.messages \in Nat /\ totals.bytes \in Nat
      /\ totals.inflight \in Nat /\ totals.subscriptions \in Nat
      /\ Room /\ Balanced(s) /\ Bounded(s) /\ s \in State
  BY Numbers
<1>2. epoch \in Nat BY <1>1, SMT DEF State
<1>3. PICK i \in 1 .. Len(s.entries) :
        /\ \/ /\ Update(h, Replay(s, epoch, i))
              /\ UNCHANGED totals
           \/ /\ \E pid \in PacketIDs :
                   /\ FirstFree(s, pid)
                   /\ Update(h, FirstAttempt(s, epoch, i, pid))
              /\ totals' = [totals EXCEPT !.inflight = @ + 1]
        /\ data' = data
  BY DEF NextStep
<1>4. Live' = Live BY <1>3 DEF Live
<1> HIDE DEF s
<1>5. ASSUME NEW x \in State, Update(h, x), Charged(s, x), Pending(x) = Pending(s),
             Buffered(x) = Buffered(s), x.subscriptions = s.subscriptions,
             x.pendingMessages = s.pendingMessages,
             x.pendingBytes = s.pendingBytes, Len(x.entries) = Len(s.entries),
             totals'.messages = totals.messages, totals'.bytes = totals.bytes,
             totals'.subscriptions = totals.subscriptions
      PROVE  CapacityInv'
  <2>1. Balanced(x) BY <1>1, <1>5 DEF Balanced
  <2>2. Bounded(x) BY <1>1, <1>5 DEF Bounded, Subscribed
  <2>3. Room' BY <1>1, <1>4, <1>5 DEF Room
  <2> QED BY <1>5, <2>1, <2>2, <2>3, StepCapacity DEF s
<1>6. s.entries \in Seq(Entry) BY <1>1 DEF State
<1>7. CASE Update(h, Replay(s, epoch, i)) /\ UNCHANGED totals
  <2> DEFINE x == Replay(s, epoch, i)
             e == [s.entries[i] EXCEPT !.lastEpoch = epoch]
  <2>1. /\ x.subscriptions = s.subscriptions
        /\ x.pendingMessages = s.pendingMessages
        /\ x.pendingBytes = s.pendingBytes
        /\ x.entries = [s.entries EXCEPT ![i] = e]
    BY <1>1 DEF Replay, State
  <2>2. x \in State BY <1>1, <1>2, NextTypes
  <2>3. /\ Pending(x) = Pending(s) /\ Buffered(x) = Buffered(s)
        /\ InflightIDs(x) = InflightIDs(s)
    BY <1>1, <1>2, NextHoldings
  <2>4. Len(x.entries) = Len(s.entries)
    <3> HIDE DEF e, x
    <3> QED BY <1>6, <2>1, SMT
  <2>5. Charged(s, x)
    <3>1. Subscribed(x) = Subscribed(s) BY <2>1 DEF Subscribed
    <3> HIDE DEF x
    <3> QED BY <1>1, <1>7, <2>3, <3>1, SMTT(30) DEF Charged
  <2> HIDE DEF x
  <2> QED BY <1>5, <1>7, <2>1, <2>2, <2>3, <2>4, <2>5 DEF x
<1>8. ASSUME NEW pid \in PacketIDs, FirstFree(s, pid),
             Update(h, FirstAttempt(s, epoch, i, pid)),
             totals' = [totals EXCEPT !.inflight = @ + 1]
      PROVE  CapacityInv'
  <2> DEFINE x == FirstAttempt(s, epoch, i, pid)
             e == [s.entries[i] EXCEPT !.packetID = pid, !.lastEpoch = epoch]
  <2>1. /\ x.subscriptions = s.subscriptions
        /\ x.pendingMessages = s.pendingMessages
        /\ x.pendingBytes = s.pendingBytes
        /\ x.entries = [s.entries EXCEPT ![i] = e]
    BY <1>1 DEF FirstAttempt, State
  <2>2. x \in State BY <1>1, <1>2, NextTypes
  <2>3. s.inflight[pid] = Nil BY <1>8 DEF FirstFree
  <2>4. /\ Pending(x) = Pending(s) /\ Buffered(x) = Buffered(s)
        /\ Cardinality(InflightIDs(x)) = Cardinality(InflightIDs(s)) + 1
    BY <1>1, <1>2, <2>3, NextHoldings, ZenonT(30)
  <2>5. Len(x.entries) = Len(s.entries)
    <3> HIDE DEF e, x
    <3> QED BY <1>6, <2>1, SMT
  <2>6. /\ totals'.messages = totals.messages /\ totals'.bytes = totals.bytes
        /\ totals'.inflight = totals.inflight + 1
        /\ totals'.subscriptions = totals.subscriptions
    BY <1>8 DEF IInv, TypeOK
  <2>7. Charged(s, x)
    <3>1. Subscribed(x) = Subscribed(s) BY <2>1 DEF Subscribed
    <3>2. /\ Cardinality(Pending(x)) = Cardinality(Pending(s))
          /\ Cardinality(Buffered(x)) = Cardinality(Buffered(s))
          /\ Cardinality(Subscribed(x)) = Cardinality(Subscribed(s))
      BY <2>4, <3>1
    <3>3. Cardinality(InflightIDs(x)) = Cardinality(InflightIDs(s)) + 1 BY <2>4
    <3>4. 1 \in Nat BY SMT
    <3> HIDE DEF x, e
    <3>5. totals'.inflight =
            totals.inflight - Cardinality(InflightIDs(s)) + Cardinality(InflightIDs(x))
      <4>1. totals.inflight \in Nat /\ Cardinality(InflightIDs(s)) \in Nat BY <1>1
      <4>2. totals.inflight + 1 = totals.inflight - Cardinality(InflightIDs(s))
                                  + (Cardinality(InflightIDs(s)) + 1)
        BY <3>4, <4>1, Rise
      <4> QED BY <2>6, <3>3, <4>2
    <3>6. totals'.messages =
            totals.messages - Cardinality(Pending(s)) + Cardinality(Pending(x))
      <4>1. totals.messages \in Nat /\ Cardinality(Pending(s)) \in Nat BY <1>1
      <4> QED BY <2>6, <3>2, <4>1, Same
    <3>7. totals'.bytes =
            totals.bytes - Cardinality(Buffered(s)) + Cardinality(Buffered(x))
      <4>1. totals.bytes \in Nat /\ Cardinality(Buffered(s)) \in Nat BY <1>1
      <4> QED BY <2>6, <3>2, <4>1, Same
    <3>8. totals'.subscriptions = totals.subscriptions
            - Cardinality(Subscribed(s)) + Cardinality(Subscribed(x))
      <4>1. totals.subscriptions \in Nat /\ Cardinality(Subscribed(s)) \in Nat BY <1>1
      <4> QED BY <2>6, <3>2, <4>1, Same
    <3> QED BY <3>5, <3>6, <3>7, <3>8 DEF Charged
  <2> HIDE DEF x
  <2> QED BY <1>5, <1>8, <2>1, <2>2, <2>4, <2>5, <2>6, <2>7 DEF x
<1> QED BY <1>3, <1>7, <1>8

\* A PUBACK returns the message it completes, its bytes and its Packet ID.
LEMMA AckCapacity ==
  ASSUME IInv, CapacityInv, NEW h \in DOMAIN st, NEW pid \in PacketIDs,
         AckStep(h, pid)
  PROVE  CapacityInv'
<1> DEFINE s == st[h]
<1>1. /\ Cardinality(Pending(s)) \in Nat /\ Cardinality(Buffered(s)) \in Nat
      /\ Cardinality(InflightIDs(s)) \in Nat /\ Cardinality(Subscribed(s)) \in Nat
      /\ totals.messages \in Nat /\ totals.bytes \in Nat
      /\ totals.inflight \in Nat /\ totals.subscriptions \in Nat
      /\ Room /\ Balanced(s) /\ Bounded(s) /\ s \in State
  BY Numbers
<1>2. QueueInv(s, admitted) /\ admitted \in Nat BY SessionFacts
<1>3. PICK i \in 1 .. Len(s.entries) :
        /\ s.inflight[pid] # Nil /\ s.entries[i].msg = s.inflight[pid]
        /\ Update(h, Ack(s, pid, i))
        /\ totals' = [totals EXCEPT !.messages = @ - 1,
                                    !.bytes = @ - s.entries[i].size,
                                    !.inflight = @ - 1]
        /\ data' = data
  BY DEF AckStep
<1> DEFINE x == Ack(s, pid, i)
           size == s.entries[i].size
<1>4. /\ x.subscriptions = s.subscriptions
      /\ x.pendingMessages = s.pendingMessages - 1
      /\ x.pendingBytes = s.pendingBytes - size
      /\ x.entries = Removed(s.entries, i)
  BY <1>1 DEF Ack, notifyLocked, State, size
<1>5. x \in State BY <1>1, AckType
<1>6. /\ totals'.messages = totals.messages - 1
      /\ totals'.bytes = totals.bytes - size
      /\ totals'.inflight = totals.inflight - 1
      /\ totals'.subscriptions = totals.subscriptions
  BY <1>3 DEF IInv, TypeOK, size
<1> HIDE DEF s, size
<1>7. /\ Cardinality(Pending(x)) = Cardinality(Pending(s)) - 1
      /\ Cardinality(Buffered(x)) = Cardinality(Buffered(s)) - size
      /\ Cardinality(InflightIDs(x)) = Cardinality(InflightIDs(s)) - 1
  BY <1>1, <1>2, <1>3, AckHoldings DEF size
<1>8. size \in Nat BY <1>1, EntryType DEF size
<1>9. Len(x.entries) = Len(s.entries) - 1
  BY <1>1, <1>4, RemovedProperties DEF State
<1> HIDE DEF x
<1>10. Cardinality(Subscribed(x)) = Cardinality(Subscribed(s))
  BY <1>4 DEF Subscribed
<1>11. Charged(s, x)
  <2>1. 1 \in Nat BY SMT
  <2>2. totals'.messages =
          totals.messages - Cardinality(Pending(s)) + Cardinality(Pending(x))
    <3>1. totals.messages \in Nat /\ Cardinality(Pending(s)) \in Nat BY <1>1
    <3>2. totals.messages - 1 = totals.messages - Cardinality(Pending(s))
                               + (Cardinality(Pending(s)) - 1)
      BY <2>1, <3>1, Fall
    <3> QED BY <1>6, <1>7, <3>2
  <2>3. totals'.bytes =
          totals.bytes - Cardinality(Buffered(s)) + Cardinality(Buffered(x))
    <3>1. totals.bytes \in Nat /\ Cardinality(Buffered(s)) \in Nat BY <1>1
    <3>2. totals.bytes - size = totals.bytes - Cardinality(Buffered(s))
                               + (Cardinality(Buffered(s)) - size)
      BY <1>8, <3>1, Fall
    <3> QED BY <1>6, <1>7, <3>2
  <2>4. totals'.inflight =
          totals.inflight - Cardinality(InflightIDs(s)) + Cardinality(InflightIDs(x))
    <3>1. totals.inflight \in Nat /\ Cardinality(InflightIDs(s)) \in Nat BY <1>1
    <3>2. totals.inflight - 1 = totals.inflight - Cardinality(InflightIDs(s))
                               + (Cardinality(InflightIDs(s)) - 1)
      BY <2>1, <3>1, Fall
    <3> QED BY <1>6, <1>7, <3>2
  <2>5. totals'.subscriptions = totals.subscriptions
          - Cardinality(Subscribed(s)) + Cardinality(Subscribed(x))
    <3>1. totals.subscriptions \in Nat /\ Cardinality(Subscribed(s)) \in Nat BY <1>1
    <3> QED BY <1>6, <1>10, <3>1, Same
  <2> QED BY <2>2, <2>3, <2>4, <2>5 DEF Charged
<1>12. Balanced(x) BY <1>1, <1>4, <1>7, <1>9 DEF Balanced
<1>13. Bounded(x)
  <2>1. x.pendingMessages \in Nat /\ x.pendingBytes \in Nat
    <3>1. Cardinality(Pending(x)) \in Nat /\ Cardinality(Buffered(x)) \in Nat
      BY <1>5, HoldingsFinite, FS_CardinalityType
    <3> QED BY <1>12, <3>1 DEF Balanced
  <2>2. /\ x.pendingMessages \in 0 .. MaxPendingMessages
        /\ x.pendingBytes \in 0 .. MaxPendingBytes
    <3>1. s.pendingMessages \in Nat /\ s.pendingBytes \in Nat
      BY <1>1 DEF Balanced
    <3>2. 1 \in Nat /\ MaxPendingMessages \in Nat /\ MaxPendingBytes \in Nat
      BY SessionLimitsValid, SMT
    <3>3. s.pendingMessages <= MaxPendingMessages /\ s.pendingBytes <= MaxPendingBytes
      BY <1>1, <3>1, <3>2, SMT DEF Bounded
    <3> QED BY <1>4, <1>8, <2>1, <3>1, <3>2, <3>3, Lower
  <2> QED BY <1>1, <1>10, <2>2 DEF Bounded
<1>14. Room'
  <2>1. Live' = Live BY <1>3 DEF Live
  <2>2. 1 \in Nat BY SMT
  <2>3. totals.messages - 1 <= MaxMessagesGlobal /\ totals.bytes - size <= MaxBytesGlobal
    BY <1>1, <1>8, <2>2, StoreLimitsValid, Lower DEF Room
  <2> QED BY <1>1, <1>6, <2>1, <2>3 DEF Room
<1> QED BY <1>3, <1>5, <1>11, <1>12, <1>13, <1>14, StepCapacity DEF s, x

\* What expireLocked removes, or leaves alone, stays accounted for.
LEMMA ExpireLockedCapacity ==
  ASSUME IInv, CapacityInv, NEW id \in ClientID, data[id] # NoState, NEW at,
         expireLocked(id, at)
  PROVE  CapacityInv'
<1>1. CASE Expired(st[data[id]], at)
  <2>1. deleteLocked(id) BY <1>1 DEF expireLocked
  <2> QED BY <2>1, DeleteCapacity
<1>2. CASE ~Expired(st[data[id]], at)
  BY <1>2, NothingHeld DEF expireLocked
<1> QED BY <1>1, <1>2

\* The methods that set a flag or a counter hold nothing and return nothing.
LEMMA MethodCapacity ==
  ASSUME IInv, CapacityInv, NEW h \in DOMAIN st,
         \/ BeginDeliveryStep(h) \/ PauseDeliveryStep(h)
         \/ ResumeDeliveryStep(h) \/ MarkConnectedStep(h)
         \/ ReceiveChanged(h)
         \/ \E at \in 0 .. now : MarkDisconnectedStep(h, at)
  PROVE  CapacityInv'
<1> DEFINE s == st[h]
           Holds(x) == /\ x.entries = s.entries /\ x.inflight = s.inflight
                       /\ x.subscriptions = s.subscriptions
                       /\ x.pendingMessages = s.pendingMessages
                       /\ x.pendingBytes = s.pendingBytes
<1>1. s \in State BY SessionFacts
<1>2. ASSUME NEW x \in State, Holds(x), Update(h, x), UNCHANGED <<data, totals>>
      PROVE  CapacityInv'
  BY <1>2, FrameCapacity
<1>3. Holds(BeginDelivery(s)) /\ Holds(PauseDelivery(s)) /\ Holds(ResumeDelivery(s))
  BY <1>1 DEF BeginDelivery, PauseDelivery, ResumeDelivery, notifyLocked, State
<1>4. Holds(MarkConnected(s)) /\ \A at \in Nat : Holds(MarkDisconnectedAt(s, at))
  BY <1>1 DEF MarkConnected, MarkDisconnectedAt, State
<1>5. Holds([s EXCEPT !.changed = FALSE]) BY <1>1 DEF State
<1> HIDE DEF Holds
<1>6. CASE BeginDeliveryStep(h) \/ PauseDeliveryStep(h) \/ ResumeDeliveryStep(h)
  BY <1>1, <1>2, <1>3, <1>6, MethodTypes
  DEF BeginDeliveryStep, PauseDeliveryStep, ResumeDeliveryStep, Method
<1>7. CASE MarkConnectedStep(h) \/ ReceiveChanged(h)
  BY <1>1, <1>2, <1>4, <1>5, <1>7, MethodTypes
  DEF MarkConnectedStep, ReceiveChanged, Method
<1>8. CASE \E at \in 0 .. now : MarkDisconnectedStep(h, at)
  <2>1. PICK at \in 0 .. now : MarkDisconnectedStep(h, at) BY <1>8
  <2>2. at \in Nat BY SMT DEF IInv, TypeOK
  <2> QED BY <1>1, <1>2, <1>4, <2>1, <2>2, MethodTypes
          DEF MarkDisconnectedStep, Method
<1> QED BY <1>6, <1>7, <1>8

(***************************************************************************)
(* The totals are exact, and no limit is exceeded.                         *)
(***************************************************************************)

\* The empty store holds nothing.
LEMMA InitCapacity == Init => CapacityInv
<1> SUFFICES ASSUME Init PROVE CapacityInv
  OBVIOUS
<1>1. DOMAIN st = {} /\ Live = {} BY DEF Init, Live
<1>2. \A k : DOMAIN k = {} => Held(k) = {} BY DEF Held
<1>3. Cardinality({}) = 0 BY FS_EmptySet
<1>4. Accounting
  <2>1. /\ totals.messages = 0 /\ totals.bytes = 0 /\ totals.inflight = 0
        /\ totals.subscriptions = 0
    BY DEF Init
  <2> QED BY <1>1, <1>2, <1>3, <2>1 DEF Accounting
<1>5. WithinLimits
  <2>1. /\ totals.messages = 0 /\ totals.bytes = 0 /\ totals.subscriptions = 0
    BY DEF Init
  <2>2. /\ 0 \in 0 .. MaxMessagesGlobal /\ 0 \in 0 .. MaxBytesGlobal
        /\ 0 \in 0 .. MaxSubscriptionsGlobal /\ 0 <= MaxSessions
    BY StoreLimitsValid, SMT
  <2> QED BY <1>1, <1>3, <2>1, <2>2 DEF WithinLimits
<1> QED BY <1>1, <1>4, <1>5 DEF CapacityInv

\* Every step of the store keeps the totals equal to what the sessions hold.
LEMMA NextCapacity == IInv /\ CapacityInv /\ [Next]_vars => CapacityInv'
<1> SUFFICES ASSUME IInv, CapacityInv, [Next]_vars PROVE CapacityInv'
  OBVIOUS
<1>1. ASSUME NEW id \in ClientID, NEW o \in Owner, GetOrCreateOwned(id, o)
      PROVE  CapacityInv'
  BY <1>1, CreateCapacity
<1>2. ASSUME NEW id \in ClientID, Delete(id)
      PROVE  CapacityInv'
  BY <1>2, DeleteCapacity DEF Delete
<1>3. ASSUME NEW id \in ClientID, NEW at \in 0 .. now, ExpireSession(id, at)
      PROVE  CapacityInv'
  BY <1>3, ExpireLockedCapacity DEF ExpireSession
<1>4. ASSUME NEW id \in ClientID, ExpireNext(id)
      PROVE  CapacityInv'
  <2>1. data[id] # NoState BY <1>4 DEF ExpireNext, IInv, TypeOK, Live
  <2> QED BY <1>4, <2>1, ExpireLockedCapacity DEF ExpireNext
<1>5. ASSUME NEW at \in 0 .. now, Expire(at)
      PROVE  CapacityInv'
  BY <1>5, NothingHeld DEF Expire
<1>6. ASSUME NEW h \in DOMAIN st, NEW f \in Filter, NEW qos \in QoS,
             SetSubscriptionStep(h, f, qos)
      PROVE  CapacityInv'
  BY <1>6, SetSubscriptionCapacity
<1>7. ASSUME NEW h \in DOMAIN st, NEW f \in Filter,
             DeleteSubscriptionStep(h, f)
      PROVE  CapacityInv'
  BY <1>7, DeleteSubscriptionCapacity
<1>8. ASSUME NEW h \in DOMAIN st, NEW size \in Sizes, AdmitStep(h, size)
      PROVE  CapacityInv'
  BY <1>8, AdmitCapacity
<1>9. ASSUME NEW h \in DOMAIN st, NEW epoch \in 1 .. st[h].epoch,
             NextStep(h, epoch)
      PROVE  CapacityInv'
  BY <1>9, NextStepCapacity
<1>10. ASSUME NEW h \in DOMAIN st, NEW pid \in PacketIDs, AckStep(h, pid)
       PROVE  CapacityInv'
  BY <1>10, AckCapacity
<1>11. ASSUME NEW h \in DOMAIN st,
              \/ BeginDeliveryStep(h) \/ PauseDeliveryStep(h)
              \/ ResumeDeliveryStep(h) \/ MarkConnectedStep(h)
              \/ ReceiveChanged(h)
              \/ \E at \in 0 .. now : MarkDisconnectedStep(h, at)
       PROVE  CapacityInv'
  BY <1>11, MethodCapacity
<1>12. CASE Tick BY <1>12, NothingHeld DEF Tick
<1>13. CASE UNCHANGED vars BY <1>13, NothingHeld DEF vars
<1> QED
  BY <1>1, <1>2, <1>3, <1>4, <1>5, <1>6, <1>7, <1>8, <1>9, <1>10, <1>11,
     <1>12, <1>13 DEF Next

\* Messages, bytes, identifiers and subscriptions are charged to the store's
\* totals exactly while some session, deleted or not, holds them, whatever the
\* order of admissions, acknowledgements, deletions and expiries.
THEOREM AccountingCorrect == Spec => []Accounting
<1>1. CapacityInv => Accounting BY DEF CapacityInv
<1> QED BY InitInv, NextInv, InitCapacity, NextCapacity, <1>1, PTL DEF Spec

\* No limit of a session or of the store is ever exceeded.
THEOREM LimitsCorrect == Spec => []WithinLimits
<1>1. CapacityInv => WithinLimits BY DEF CapacityInv
<1> QED BY InitInv, NextInv, InitCapacity, NextCapacity, <1>1, PTL DEF Spec
=============================================================================
