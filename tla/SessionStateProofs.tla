------------------------- MODULE SessionStateProofs -------------------------
(***************************************************************************)
(* One session, for every value of the limits: what its methods return is  *)
(* well typed, which fields they leave alone, that they keep the queue     *)
(* consistent.                                                             *)
(***************************************************************************)
EXTENDS SessionState, TLAPS

(***************************************************************************)
(* Sequences.                                                              *)
(***************************************************************************)

\* A part of a sequence is a sequence of the same elements.
LEMMA PartOf ==
  ASSUME NEW S, NEW q \in Seq(S), NEW i \in 1 .. Len(q) + 1, NEW j \in i - 1 .. Len(q)
  PROVE  /\ SubSeq(q, i, j) \in Seq(S)
         /\ Len(SubSeq(q, i, j)) = j - i + 1
         /\ \A k \in 1 .. j - i + 1 : SubSeq(q, i, j)[k] = q[i + k - 1]
BY SMT

\* The elements of one sequence followed by another one.
LEMMA Joined ==
  ASSUME NEW S, NEW p \in Seq(S), NEW q \in Seq(S)
  PROVE  /\ p \o q \in Seq(S)
         /\ Len(p \o q) = Len(p) + Len(q)
         /\ \A k \in 1 .. Len(p) + Len(q) :
              (p \o q)[k] = IF k <= Len(p) THEN p[k] ELSE q[k - Len(p)]
BY SMT

\* An element added at the end.
LEMMA Appended ==
  ASSUME NEW S, NEW q \in Seq(S), NEW e \in S
  PROVE  /\ Append(q, e) \in Seq(S)
         /\ Len(Append(q, e)) = Len(q) + 1
         /\ \A k \in 1 .. Len(q) : Append(q, e)[k] = q[k]
         /\ Append(q, e)[Len(q) + 1] = e
BY SMT

\* An element replaced.
LEMMA Overwritten ==
  ASSUME NEW S, NEW q \in Seq(S), NEW i \in 1 .. Len(q), NEW e \in S
  PROVE  /\ [q EXCEPT ![i] = e] \in Seq(S)
         /\ Len([q EXCEPT ![i] = e]) = Len(q)
         /\ \A k \in 1 .. Len(q) : [q EXCEPT ![i] = e][k] = IF k = i THEN e ELSE q[k]
BY SMT

\* An element is of the elements' type.
LEMMA ElementIn ==
  ASSUME NEW S, NEW q \in Seq(S), NEW i \in 1 .. Len(q)
  PROVE  q[i] \in S
BY SMT

\* A sequence with elements has a first one.
LEMMA HasFirst ==
  ASSUME NEW S, NEW q \in Seq(S), q # <<>>
  PROVE  Len(q) \in Nat /\ 1 \in 1 .. Len(q)
BY SMT

(***************************************************************************)
(* Types.                                                                  *)
(***************************************************************************)

\* A session created by GetOrCreateOwned is well typed.
LEMMA NewStateType ==
  ASSUME NEW id \in ClientID, NEW o \in Owner, NEW t \in Nat
  PROVE  NewState(id, o, t) \in State
BY SessionLimitsValid DEF NewState, State, PacketIDs, QoS, Nil, NoSub, Entry

\* The methods that set a flag or a counter return a well-typed session.
LEMMA MethodTypes ==
  ASSUME NEW s \in State
  PROVE  /\ BeginDelivery(s) \in State
         /\ PauseDelivery(s) \in State
         /\ ResumeDelivery(s) \in State
         /\ MarkConnected(s) \in State
         /\ \A at \in Nat : MarkDisconnectedAt(s, at) \in State
         /\ [s EXCEPT !.changed = FALSE] \in State
<1>1. BeginDelivery(s) \in State
  <2>1. s.epoch + 1 \in Nat /\ 0 \in Int
    BY DEF State
  <2> QED  BY <2>1, Zenon DEF BeginDelivery, notifyLocked, State
<1>2. PauseDelivery(s) \in State /\ ResumeDelivery(s) \in State
  BY Zenon DEF PauseDelivery, ResumeDelivery, notifyLocked, State
<1>3. MarkConnected(s) \in State
  BY Zenon DEF MarkConnected, State, NoTime
<1>4. \A at \in Nat : MarkDisconnectedAt(s, at) \in State
  BY Zenon DEF MarkDisconnectedAt, State
<1>5. [s EXCEPT !.changed = FALSE] \in State
  BY Zenon DEF State
<1> QED  BY <1>1, <1>2, <1>3, <1>4, <1>5

\* SetSubscription and DeleteSubscription return a well-typed session.
LEMMA SubscriptionTypes ==
  ASSUME NEW s \in State, NEW f \in Filter
  PROVE  /\ \A q \in QoS : SetSubscription(s, f, q) \in State
         /\ DeleteSubscription(s, f) \in State
BY Zenon DEF SetSubscription, DeleteSubscription, State

\* What deleteLocked leaves of a session is well typed.
LEMMA DeletedType ==
  ASSUME NEW s \in State
  PROVE  Deleted(s) \in State
<1>1. /\ <<>> \in Seq(Entry)
      /\ [p \in PacketIDs |-> Nil] \in [PacketIDs -> Nat]
      /\ [f \in Filter |-> NoSub] \in [Filter -> QoS \cup {NoSub}]
      /\ 0 \in Int
  BY DEF Nil
<1> QED  BY <1>1, Zenon DEF Deleted, notifyLocked, State

(***************************************************************************)
(* Fields.                                                                 *)
(***************************************************************************)

\* Two values of a session that agree on whose it is and whether it is live.
SameStanding(s, t) ==
  /\ t.id = s.id /\ t.owner = s.owner /\ t.deleted = s.deleted
  /\ t.connected = s.connected /\ t.offlineSince = s.offlineSince

\* The methods for delivery change the pause at most.
LEMMA DeliveryFields ==
  ASSUME NEW s \in State
  PROVE  /\ SameStanding(s, BeginDelivery(s))
         /\ SameStanding(s, PauseDelivery(s))
         /\ SameStanding(s, ResumeDelivery(s))
         /\ BeginDelivery(s).paused = s.paused
         /\ ResumeDelivery(s).paused = FALSE
         /\ BeginDelivery(s).subscriptions = s.subscriptions
         /\ PauseDelivery(s).subscriptions = s.subscriptions
         /\ ResumeDelivery(s).subscriptions = s.subscriptions
BY Zenon
DEF BeginDelivery, PauseDelivery, ResumeDelivery, notifyLocked, SameStanding,
    State

\* SetSubscription and DeleteSubscription change one subscription.
LEMMA SubscriptionFields ==
  ASSUME NEW s \in State, NEW f \in Filter, NEW q \in QoS
  PROVE  /\ SameStanding(s, SetSubscription(s, f, q))
         /\ SameStanding(s, DeleteSubscription(s, f))
         /\ SetSubscription(s, f, q).paused = s.paused
         /\ DeleteSubscription(s, f).paused = s.paused
         /\ \A g \in Filter : SetSubscription(s, f, q).subscriptions[g] =
                                IF g = f THEN q ELSE s.subscriptions[g]
         /\ \A g \in Filter : DeleteSubscription(s, f).subscriptions[g] =
                                IF g = f THEN NoSub ELSE s.subscriptions[g]
<1>1. /\ SameStanding(s, SetSubscription(s, f, q))
      /\ SameStanding(s, DeleteSubscription(s, f))
      /\ SetSubscription(s, f, q).paused = s.paused
      /\ DeleteSubscription(s, f).paused = s.paused
  BY Zenon DEF SetSubscription, DeleteSubscription, SameStanding, State
<1>2. /\ SetSubscription(s, f, q).subscriptions = [s.subscriptions EXCEPT ![f] = q]
      /\ DeleteSubscription(s, f).subscriptions = [s.subscriptions EXCEPT ![f] = NoSub]
  BY Zenon DEF SetSubscription, DeleteSubscription, State
<1>3. s.subscriptions \in [Filter -> QoS \cup {NoSub}] BY DEF State
<1>4. ASSUME NEW g \in Filter, NEW v
      PROVE  [s.subscriptions EXCEPT ![f] = v][g] = IF g = f THEN v ELSE s.subscriptions[g]
  BY <1>3
<1> QED BY <1>1, <1>2, <1>4

\* MarkConnected and MarkDisconnectedAt change the connection status.
LEMMA StatusFields ==
  ASSUME NEW s \in State, NEW t, ~s.deleted
  PROVE  /\ MarkConnected(s).id = s.id /\ MarkConnected(s).owner = s.owner
         /\ MarkConnected(s).deleted = FALSE /\ MarkConnected(s).connected = TRUE
         /\ MarkConnected(s).paused = s.paused
         /\ MarkConnected(s).subscriptions = s.subscriptions
         /\ MarkConnected(s).entries = s.entries
         /\ s.connected =>
              /\ MarkDisconnectedAt(s, t).id = s.id
              /\ MarkDisconnectedAt(s, t).deleted = FALSE
              /\ MarkDisconnectedAt(s, t).connected = FALSE
              /\ MarkDisconnectedAt(s, t).offlineSince = t
              /\ MarkDisconnectedAt(s, t).paused = s.paused
              /\ MarkDisconnectedAt(s, t).subscriptions = s.subscriptions
<1>1. s.deleted = FALSE BY DEF State
<1> QED BY <1>1, Zenon DEF MarkConnected, MarkDisconnectedAt, State

\* First-order reasoning from here on: Zenon, but for the leaves that cite SMT.
USE Zenon

(***************************************************************************)
(* The queue as a sequence.                                                *)
(***************************************************************************)

\* Removing the i-th element shifts the later ones down by one, which is
\* what Ack does with copy on the slice of entries.
LEMMA RemovedProperties ==
  ASSUME NEW S, NEW q \in Seq(S), NEW i \in 1 .. Len(q)
  PROVE  /\ Removed(q, i) \in Seq(S)
         /\ Len(Removed(q, i)) = Len(q) - 1
         /\ \A j \in 1 .. Len(q) - 1 :
              Removed(q, i)[j] = IF j < i THEN q[j] ELSE q[j + 1]
<1> DEFINE a == SubSeq(q, 1, i - 1)
           b == SubSeq(q, i + 1, Len(q))
<1>1. /\ a \in Seq(S)
      /\ Len(a) = i - 1
      /\ \A j \in 1 .. i - 1 : a[j] = q[j]
  BY PartOf, SMT
<1>2. /\ b \in Seq(S)
      /\ Len(b) = Len(q) - i
      /\ \A j \in 1 .. Len(q) - i : b[j] = q[i + j]
  BY PartOf, SMT
<1>3. /\ a \o b \in Seq(S)
      /\ Len(a \o b) = Len(q) - 1
      /\ \A j \in 1 .. Len(q) - 1 :
           (a \o b)[j] = IF j <= i - 1 THEN a[j] ELSE b[j - (i - 1)]
  <2> HIDE DEF a, b
  <2>1. /\ a \o b \in Seq(S)
        /\ Len(a \o b) = Len(a) + Len(b)
        /\ \A j \in 1 .. Len(a) + Len(b) :
             (a \o b)[j] = IF j <= Len(a) THEN a[j] ELSE b[j - Len(a)]
    BY <1>1, <1>2, Joined
  <2> QED  BY <1>1, <1>2, <2>1, SMT
<1>4. ASSUME NEW j \in 1 .. Len(q) - 1
      PROVE  (a \o b)[j] = IF j < i THEN q[j] ELSE q[j + 1]
  <2> HIDE DEF a, b
  <2>1. CASE j < i
    BY <2>1, <1>1, <1>3, SMT
  <2>2. CASE ~(j < i)
    <3>1. j - (i - 1) \in 1 .. Len(q) - i
      BY <2>2, SMT
    <3> QED  BY <2>2, <3>1, <1>2, <1>3, SMT
  <2> QED  BY <2>1, <2>2
<1> QED  BY <1>3, <1>4 DEF Removed

\* Admit returns a well-typed session.
LEMMA AdmitType ==
  ASSUME NEW s \in State, NEW m \in Nat \ {0}, NEW n \in Nat
  PROVE  Admit(s, m, n) \in State
<1> DEFINE e == [msg |-> m, size |-> n, packetID |-> 0, lastEpoch |-> 0]
<1>1. e \in Entry
  BY SessionLimitsValid, SMT DEF Entry
<1>2. Append(s.entries, e) \in Seq(Entry)
  BY <1>1, Appended DEF State
<1>3. s.pendingMessages + 1 \in Int /\ s.pendingBytes + n \in Int
  BY SMT DEF State
<1> QED  BY <1>2, <1>3 DEF Admit, notifyLocked, State

\* Every entry of a well-typed queue is well typed, field by field.
LEMMA EntryType ==
  ASSUME NEW s \in State, NEW i \in 1 .. Len(s.entries)
  PROVE  /\ s.entries[i] \in Entry
         /\ s.entries[i].msg \in Nat \ {0}
         /\ s.entries[i].size \in Nat
         /\ s.entries[i].packetID \in 0 .. MaxPacketID
         /\ s.entries[i].lastEpoch \in Nat
<1>1. s.entries[i] \in Entry
  BY ElementIn DEF State
<1> QED  BY <1>1 DEF Entry

\* Next, on a replay and on a first attempt, returns a well-typed session.
LEMMA NextTypes ==
  ASSUME NEW s \in State, NEW i \in 1 .. Len(s.entries), NEW epoch \in Nat
  PROVE  /\ Replay(s, epoch, i) \in State
         /\ \A pid \in PacketIDs : FirstAttempt(s, epoch, i, pid) \in State
<1>1. s.entries[i] \in Entry /\ s.entries[i].msg \in Nat
  BY EntryType
<1>2. s.activeInflight + 1 \in Int
  BY SMT DEF State
<1>3. Replay(s, epoch, i) \in State
  <2> DEFINE e == [s.entries[i] EXCEPT !.lastEpoch = epoch]
  <2>1. e \in Entry
    BY <1>1 DEF Entry
  <2>2. [s.entries EXCEPT ![i] = e] \in Seq(Entry)
    BY <2>1, Overwritten DEF State
  <2> QED  BY <1>2, <2>2 DEF Replay, State
<1>4. ASSUME NEW pid \in PacketIDs
      PROVE  FirstAttempt(s, epoch, i, pid) \in State
  <2> DEFINE e == [s.entries[i] EXCEPT !.packetID = pid, !.lastEpoch = epoch]
  <2>1. pid \in 0 .. MaxPacketID
    BY SessionLimitsValid, SMT DEF PacketIDs
  <2>2. e \in Entry
    BY <1>1, <2>1 DEF Entry
  <2>3. [s.entries EXCEPT ![i] = e] \in Seq(Entry)
    BY <2>2, Overwritten DEF State
  <2>4. [s.inflight EXCEPT ![pid] = e.msg] \in [PacketIDs -> Nat]
    <3>1. e.msg \in Nat
      BY <2>2 DEF Entry
    <3> QED  BY <3>1 DEF State
  <2> QED  BY <1>2, <2>1, <2>3, <2>4 DEF FirstAttempt, State
<1> QED  BY <1>3, <1>4

\* Ack returns a well-typed session.
LEMMA AckType ==
  ASSUME NEW s \in State, NEW i \in 1 .. Len(s.entries), NEW pid \in PacketIDs
  PROVE  Ack(s, pid, i) \in State
<1>1. /\ s.pendingMessages - 1 \in Int
      /\ s.pendingBytes - s.entries[i].size \in Int
      /\ s.activeInflight - 1 \in Int
  <2>1. s.entries[i].size \in Nat
    BY EntryType DEF Entry
  <2>2. s.pendingMessages \in Int /\ s.pendingBytes \in Int
        /\ s.activeInflight \in Int
    BY Zenon DEF State
  <2> QED  BY <2>1, <2>2, SMT
<1>2. Removed(s.entries, i) \in Seq(Entry)
  BY RemovedProperties DEF State
<1>3. [s.inflight EXCEPT ![pid] = Nil] \in [PacketIDs -> Nat]
  BY DEF State, Nil
<1> QED  BY <1>1, <1>2, <1>3 DEF Ack, notifyLocked, State

(***************************************************************************)
(* Every method keeps the queue consistent.                                *)
(***************************************************************************)

\* A change that leaves the queue and the window of a session alone keeps
\* its queue consistent, also when more messages are admitted elsewhere.
LEMMA QueueFrame ==
  ASSUME NEW s \in State, NEW t \in State, NEW m \in Nat, NEW n \in Nat,
         m <= n, QueueInv(s, m),
         t.deleted = s.deleted, t.entries = s.entries,
         t.inflight = s.inflight, t.epoch = s.epoch,
         t.activeInflight = s.activeInflight
  PROVE  QueueInv(t, n)
<1>1. \A i \in 1 .. Len(s.entries) : s.entries[i].msg \in Nat
  BY EntryType
<1> QED  BY <1>1, SMTT(30)
         DEF QueueInv, InflightAgrees, InflightIDs, Attempted

\* The queue of a new session is consistent.
LEMMA NewStateQueue ==
  ASSUME NEW id \in ClientID, NEW o \in Owner, NEW t \in Nat, NEW m \in Nat
  PROVE  QueueInv(NewState(id, o, t), m)
<1> DEFINE s == NewState(id, o, t)
<1>1. /\ s.entries = <<>> /\ s.inflight = [p \in PacketIDs |-> Nil]
      /\ s.activeInflight = 0
  BY Zenon DEF NewState
<1> HIDE DEF s
<1>2. Len(s.entries) = 0
  BY <1>1
<1>9. QueueInv(s, m)
  BY <1>1, <1>2, SMT DEF QueueInv, InflightAgrees, InflightIDs, Attempted
<1> QED  BY <1>9 DEF s

\* The empty queue deleteLocked leaves is consistent.
LEMMA DeletedQueue ==
  ASSUME NEW s \in State, NEW m \in Nat
  PROVE  QueueInv(Deleted(s), m)
<1> DEFINE t == Deleted(s)
<1>1. /\ t.deleted = TRUE /\ t.entries = <<>>
      /\ t.inflight = [p \in PacketIDs |-> Nil]
  BY Zenon DEF Deleted, notifyLocked, State
<1> HIDE DEF t
<1>2. Len(t.entries) = 0
  BY <1>1, SMT
<1>9. QueueInv(t, m)
  BY <1>1, <1>2, SMT DEF QueueInv, InflightAgrees, InflightIDs, Attempted
<1> QED  BY <1>9 DEF t

\* Admit appends a message newer than all others: the queue stays consistent.
LEMMA AdmitQueue ==
  ASSUME NEW s \in State, NEW m \in Nat, NEW n \in Nat, QueueInv(s, m),
         ~s.deleted
  PROVE  QueueInv(Admit(s, m + 1, n), m + 1)
<1> DEFINE t == Admit(s, m + 1, n)
           e == [msg |-> m + 1, size |-> n, packetID |-> 0, lastEpoch |-> 0]
<1>1. /\ t.deleted = s.deleted /\ t.entries = Append(s.entries, e)
      /\ t.inflight = s.inflight /\ t.epoch = s.epoch
      /\ t.activeInflight = s.activeInflight
  BY Zenon DEF Admit, notifyLocked, State
<1>2. /\ e \in Entry
      /\ e.msg = m + 1 /\ e.packetID = 0 /\ e.lastEpoch = 0
  BY SessionLimitsValid, SMT DEF Entry
<1> HIDE DEF t, e
<1>3. s.entries \in Seq(Entry) /\ s.epoch \in Nat
  BY DEF State
<1>4. /\ Len(t.entries) = Len(s.entries) + 1
      /\ \A i \in 1 .. Len(s.entries) : t.entries[i] = s.entries[i]
      /\ t.entries[Len(s.entries) + 1] = e
  BY <1>1, <1>2, <1>3, Appended, SMT
<1>5. \A i \in 1 .. Len(s.entries) :
        s.entries[i].msg \in Nat /\ s.entries[i].lastEpoch \in Nat
  BY EntryType
<1>6. Len(s.entries) \in Nat
  BY <1>3, SMT
<1>7. InflightAgrees(t)
  BY <1>1, <1>2, <1>4, <1>6, SMT
  DEF QueueInv, InflightAgrees, InflightIDs, Attempted
<1>9. QueueInv(t, m + 1)
  BY <1>1, <1>2, <1>3, <1>4, <1>5, <1>6, <1>7, SMTT(30)
  DEF QueueInv, Attempted
<1> QED  BY <1>9 DEF t

\* BeginDelivery opens a new epoch in which nothing has been tried yet.
LEMMA BeginDeliveryQueue ==
  ASSUME NEW s \in State, NEW m \in Nat, QueueInv(s, m)
  PROVE  QueueInv(BeginDelivery(s), m)
<1> DEFINE t == BeginDelivery(s)
<1>1. /\ t.deleted = s.deleted /\ t.entries = s.entries
      /\ t.inflight = s.inflight /\ t.epoch = s.epoch + 1
      /\ t.activeInflight = 0
  BY Zenon DEF BeginDelivery, notifyLocked, State
<1> HIDE DEF t
<1>2. s.epoch \in Nat /\ Len(s.entries) \in Nat
  BY SMT DEF State
<1>3. \A i \in 1 .. Len(s.entries) : s.entries[i].lastEpoch \in Nat
  BY EntryType
<1>9. QueueInv(t, m)
  BY <1>1, <1>2, <1>3, SMT DEF QueueInv, InflightAgrees, InflightIDs, Attempted
<1> QED  BY <1>9 DEF t

\* PauseDelivery, ResumeDelivery, MarkConnected, MarkDisconnectedAt and a
\* receive from Changed keep the queue consistent.
LEMMA QuietMethods ==
  ASSUME NEW s \in State, NEW m \in Nat, QueueInv(s, m)
  PROVE  /\ QueueInv(PauseDelivery(s), m)
         /\ QueueInv(ResumeDelivery(s), m)
         /\ QueueInv(MarkConnected(s), m)
         /\ \A at \in Nat : QueueInv(MarkDisconnectedAt(s, at), m)
         /\ QueueInv([s EXCEPT !.changed = FALSE], m)
<1> DEFINE Same(t) == /\ t.deleted = s.deleted /\ t.entries = s.entries
                      /\ t.inflight = s.inflight /\ t.epoch = s.epoch
                      /\ t.activeInflight = s.activeInflight
<1>1. ASSUME NEW t \in State, Same(t)
      PROVE  QueueInv(t, m)
  BY <1>1, QueueFrame, SMT
<1>2. Same(PauseDelivery(s)) /\ Same(ResumeDelivery(s))
  BY Zenon DEF PauseDelivery, ResumeDelivery, notifyLocked, State
<1>3. Same(MarkConnected(s)) /\ \A at \in Nat : Same(MarkDisconnectedAt(s, at))
  BY Zenon DEF MarkConnected, MarkDisconnectedAt, State
<1>4. Same([s EXCEPT !.changed = FALSE])
  BY Zenon DEF State
<1> HIDE DEF Same
<1> QED  BY <1>1, <1>2, <1>3, <1>4, MethodTypes

\* Next continues right after the entries this connection has attempted.
LEMMA NextPosition ==
  ASSUME NEW s \in State, NEW m \in Nat, QueueInv(s, m),
         NEW epoch \in Nat \ {0}, MayDeliver(s, epoch),
         NEW i \in 1 .. Len(s.entries), FirstUntried(s, epoch, i)
  PROVE  /\ i = s.activeInflight + 1
         /\ i <= MaxInflight
         /\ epoch = s.epoch
         /\ ~s.deleted
         /\ \A j \in 1 .. i - 1 : Attempted(s, j)
<1>1. /\ ~s.deleted /\ epoch = s.epoch /\ s.activeInflight < MaxInflight
      /\ s.activeInflight \in 0 .. Len(s.entries)
  BY DEF MayDeliver, QueueInv
<1>2. Len(s.entries) \in Nat /\ MaxInflight \in Nat
  BY SessionLimitsValid, SMT DEF State
<1>3. ~(i <= s.activeInflight)
  BY <1>1 DEF QueueInv, FirstUntried
<1>4. \A j \in 1 .. i - 1 : Attempted(s, j) /\ j <= s.activeInflight
  BY <1>1, <1>2, SMT DEF QueueInv, FirstUntried
<1>5. i = s.activeInflight + 1
  BY <1>1, <1>2, <1>3, <1>4, SMT
<1> QED  BY <1>1, <1>2, <1>4, <1>5, SMT

\* Next on an entry sent to an earlier connection keeps the queue consistent.
LEMMA ReplayQueue ==
  ASSUME NEW s \in State, NEW m \in Nat, QueueInv(s, m),
         NEW epoch \in Nat \ {0}, MayDeliver(s, epoch),
         NEW i \in 1 .. Len(s.entries), FirstUntried(s, epoch, i),
         Attempted(s, i)
  PROVE  QueueInv(Replay(s, epoch, i), m)
<1> DEFINE t == Replay(s, epoch, i)
           e == [s.entries[i] EXCEPT !.lastEpoch = epoch]
<1>1. /\ t.deleted = s.deleted /\ t.entries = [s.entries EXCEPT ![i] = e]
      /\ t.inflight = s.inflight /\ t.epoch = s.epoch
      /\ t.activeInflight = s.activeInflight + 1
  BY Zenon DEF Replay, State
<1>2. /\ e \in Entry /\ e.msg = s.entries[i].msg
      /\ e.packetID = s.entries[i].packetID /\ e.lastEpoch = epoch
  BY EntryType DEF Entry
<1> HIDE DEF t, e
<1>3. s.entries \in Seq(Entry) /\ Len(s.entries) \in Nat /\ s.epoch \in Nat
  BY SMT DEF State
<1>4. /\ Len(t.entries) = Len(s.entries)
      /\ t.entries[i] = e
      /\ \A j \in 1 .. Len(s.entries) : j # i => t.entries[j] = s.entries[j]
  BY <1>1, <1>2, <1>3, Overwritten, SMT
<1>5. \A j \in 1 .. Len(s.entries) :
        /\ t.entries[j].msg = s.entries[j].msg
        /\ t.entries[j].packetID = s.entries[j].packetID
  BY <1>2, <1>4
<1>6. /\ i = s.activeInflight + 1 /\ i <= MaxInflight
      /\ epoch = s.epoch /\ ~s.deleted
  BY NextPosition
<1>7. InflightAgrees(t)
  BY <1>1, <1>4, <1>5, SMTT(30)
  DEF QueueInv, InflightAgrees, InflightIDs, Attempted
<1>8. \A j \in 1 .. Len(s.entries) : s.entries[j].lastEpoch \in Nat
  BY EntryType
<1>9. QueueInv(t, m)
  <2>1. \A j \in 1 .. Len(t.entries) :
          /\ t.entries[j].msg <= m
          /\ t.entries[j].lastEpoch <= t.epoch
          /\ Attempted(t, j) <=> t.entries[j].lastEpoch # 0
          /\ Attempted(t, j) => j <= MaxInflight
    <3> SUFFICES ASSUME NEW j \in 1 .. Len(s.entries)
                 PROVE  /\ t.entries[j].msg <= m
                        /\ t.entries[j].lastEpoch <= t.epoch
                        /\ Attempted(t, j) <=> t.entries[j].lastEpoch # 0
                        /\ Attempted(t, j) => j <= MaxInflight
      BY <1>4
    <3>1. CASE j = i
      BY <1>1, <1>2, <1>3, <1>4, <1>5, <1>6, <1>8, <3>1, SMT DEF QueueInv, Attempted
    <3>2. CASE j # i
      BY <1>1, <1>3, <1>4, <1>5, <1>8, <3>2, SMT DEF QueueInv, Attempted
    <3> QED BY <3>1, <3>2
  <2>2. \A j, k \in 1 .. Len(t.entries) :
          j < k => /\ t.entries[j].msg < t.entries[k].msg
                   /\ Attempted(t, k) => Attempted(t, j)
    BY <1>2, <1>3, <1>4, <1>5, <1>6 DEF QueueInv, Attempted
  <2>3. /\ t.activeInflight \in 0 .. Len(t.entries)
        /\ \A j \in 1 .. Len(t.entries) :
             j <= t.activeInflight <=>
               Attempted(t, j) /\ t.entries[j].lastEpoch = t.epoch
    BY <1>1, <1>2, <1>3, <1>4, <1>5, <1>6, <1>8, SMT DEF QueueInv, Attempted
  <2> QED  BY <1>1, <1>6, <1>7, <2>1, <2>2, <2>3 DEF QueueInv
<1> QED  BY <1>9 DEF t

\* Next on an entry never sent before, with the Packet ID the loop found,
\* keeps the queue consistent.
LEMMA FirstAttemptQueue ==
  ASSUME NEW s \in State, NEW m \in Nat, QueueInv(s, m),
         NEW epoch \in Nat \ {0}, MayDeliver(s, epoch),
         NEW i \in 1 .. Len(s.entries), FirstUntried(s, epoch, i),
         ~Attempted(s, i), NEW pid \in PacketIDs, FirstFree(s, pid)
  PROVE  QueueInv(FirstAttempt(s, epoch, i, pid), m)
<1> DEFINE t == FirstAttempt(s, epoch, i, pid)
           e == [s.entries[i] EXCEPT !.packetID = pid, !.lastEpoch = epoch]
<1>1. /\ t.deleted = s.deleted /\ t.entries = [s.entries EXCEPT ![i] = e]
      /\ t.inflight = [s.inflight EXCEPT ![pid] = e.msg]
      /\ t.epoch = s.epoch /\ t.activeInflight = s.activeInflight + 1
  BY Zenon DEF FirstAttempt, State
<1>2. /\ e \in Entry /\ e.msg = s.entries[i].msg
      /\ e.packetID = pid /\ e.lastEpoch = epoch
  <2>1. pid \in 0 .. MaxPacketID
    BY SessionLimitsValid, SMT DEF PacketIDs
  <2> QED  BY <2>1, EntryType DEF Entry
<1>3. pid # 0 /\ s.inflight[pid] = Nil
  BY SessionLimitsValid, SMT DEF PacketIDs, FirstFree
<1> HIDE DEF t, e
<1>4. /\ s.entries \in Seq(Entry) /\ Len(s.entries) \in Nat
      /\ s.epoch \in Nat /\ s.inflight \in [PacketIDs -> Nat]
  BY SMT DEF State
<1>5. /\ Len(t.entries) = Len(s.entries)
      /\ t.entries[i] = e
      /\ \A j \in 1 .. Len(s.entries) : j # i => t.entries[j] = s.entries[j]
  BY <1>1, <1>2, <1>4, Overwritten, SMT
<1>6. /\ i = s.activeInflight + 1 /\ i <= MaxInflight
      /\ epoch = s.epoch /\ ~s.deleted
      /\ \A j \in 1 .. i - 1 : Attempted(s, j)
  BY NextPosition
<1>7. \A j \in 1 .. Len(s.entries) :
        /\ s.entries[j].lastEpoch \in Nat
        /\ s.entries[j].msg \in Nat \ {0}
        /\ s.entries[j].packetID \in Nat
        /\ s.entries[j].packetID # 0 => s.entries[j].packetID \in PacketIDs
  BY EntryType, SessionLimitsValid, SMT DEF PacketIDs
<1>8. InflightAgrees(t)
  <2>1. ASSUME NEW p \in PacketIDs, t.inflight[p] # Nil
        PROVE  \E j \in 1 .. Len(t.entries) :
                 t.entries[j].packetID = p /\ t.entries[j].msg = t.inflight[p]
    <3>1. CASE p = pid
      BY <3>1, <1>1, <1>2, <1>4, <1>5
    <3>2. CASE p # pid
      <4>1. t.inflight[p] = s.inflight[p]
        BY <3>2, <1>1, <1>4
      <4>2. PICK j \in 1 .. Len(s.entries) :
              s.entries[j].packetID = p /\ s.entries[j].msg = s.inflight[p]
        BY <2>1, <4>1 DEF QueueInv, InflightAgrees, InflightIDs
      <4>3. j # i
        BY <4>2, <1>3, SMT DEF Attempted, PacketIDs
      <4> QED  BY <4>1, <4>2, <4>3, <1>5
    <3> QED  BY <3>1, <3>2
  <2>2. ASSUME NEW j \in 1 .. Len(t.entries), t.entries[j].packetID # 0
        PROVE  t.inflight[t.entries[j].packetID] = t.entries[j].msg
    <3>1. CASE j = i
      BY <3>1, <1>1, <1>2, <1>4, <1>5
    <3>2. CASE j # i
      <4>1. /\ t.entries[j] = s.entries[j]
            /\ s.inflight[s.entries[j].packetID] = s.entries[j].msg
        BY <3>2, <2>2, <1>5 DEF QueueInv, InflightAgrees, Attempted
      <4>2. s.entries[j].packetID # pid
        BY <4>1, <1>3, <1>5, <1>7 DEF Nil
      <4> QED  BY <4>1, <4>2, <2>2, <1>1, <1>4, <1>5, <1>7, SMT
    <3> QED  BY <3>1, <3>2
  <2> QED  BY <2>1, <2>2 DEF InflightAgrees, InflightIDs, Attempted
<1>9. QueueInv(t, m)
  <2>1. \A j \in 1 .. Len(t.entries) :
          /\ t.entries[j].msg <= m
          /\ t.entries[j].lastEpoch <= t.epoch
          /\ Attempted(t, j) <=> t.entries[j].lastEpoch # 0
          /\ Attempted(t, j) => j <= MaxInflight
    BY <1>1, <1>2, <1>3, <1>4, <1>5, <1>6, <1>7, SMTT(30)
    DEF QueueInv, Attempted
  <2>2. \A j, k \in 1 .. Len(t.entries) :
          j < k => /\ t.entries[j].msg < t.entries[k].msg
                   /\ Attempted(t, k) => Attempted(t, j)
    <3> SUFFICES ASSUME NEW j \in 1 .. Len(s.entries),
                        NEW k \in 1 .. Len(s.entries), j < k
                 PROVE  /\ t.entries[j].msg < t.entries[k].msg
                        /\ Attempted(t, k) => Attempted(t, j)
      BY <1>5
    <3>1. \A l \in 1 .. Len(s.entries) : t.entries[l].msg = s.entries[l].msg
      BY <1>2, <1>5
    <3>2. t.entries[j].msg < t.entries[k].msg
      BY <3>1 DEF QueueInv
    <3>3. CASE k = i
      <4>1. j \in 1 .. i - 1 /\ j # i
        BY <3>3, SMT
      <4> QED  BY <4>1, <3>2, <1>5, <1>6 DEF Attempted
    <3>4. CASE k # i /\ Attempted(t, k)
      <4>1. Attempted(s, k)
        BY <3>4, <1>5 DEF Attempted
      <4>2. Attempted(s, j)
        BY <4>1 DEF QueueInv
      <4>3. j # i
        BY <4>2
      <4> QED  BY <4>2, <4>3, <3>2, <1>5 DEF Attempted
    <3> QED  BY <3>2, <3>3, <3>4
  <2>3. /\ t.activeInflight \in 0 .. Len(t.entries)
        /\ \A j \in 1 .. Len(t.entries) :
             j <= t.activeInflight <=>
               Attempted(t, j) /\ t.entries[j].lastEpoch = t.epoch
    BY <1>1, <1>2, <1>3, <1>4, <1>5, <1>6, <1>7, SMTT(30)
    DEF QueueInv, Attempted
  <2> QED  BY <1>1, <1>6, <1>8, <2>1, <2>2, <2>3 DEF QueueInv
<1> QED  BY <1>9 DEF t

\* Ack removes one attempted entry and its Packet ID and keeps the queue
\* consistent.
LEMMA AckQueue ==
  ASSUME NEW s \in State, NEW m \in Nat, QueueInv(s, m), ~s.deleted,
         NEW pid \in PacketIDs, s.inflight[pid] # Nil,
         NEW i \in 1 .. Len(s.entries), s.entries[i].msg = s.inflight[pid]
  PROVE  QueueInv(Ack(s, pid, i), m)
<1> DEFINE t == Ack(s, pid, i)
           n == Len(s.entries)
<1>1. /\ t.deleted = s.deleted /\ t.entries = Removed(s.entries, i)
      /\ t.inflight = [s.inflight EXCEPT ![pid] = Nil]
      /\ t.epoch = s.epoch
      /\ t.activeInflight = IF s.entries[i].lastEpoch = s.epoch
                            THEN s.activeInflight - 1 ELSE s.activeInflight
  BY Zenon DEF Ack, notifyLocked, State
<1> HIDE DEF t
<1>2. /\ s.entries \in Seq(Entry) /\ n \in Nat
      /\ s.epoch \in Nat /\ s.inflight \in [PacketIDs -> Nat]
  BY SMT DEF State
<1>3. /\ Len(t.entries) = n - 1
      /\ \A j \in 1 .. n - 1 :
           t.entries[j] = IF j < i THEN s.entries[j] ELSE s.entries[j + 1]
  <2>1. /\ Len(Removed(s.entries, i)) = n - 1
        /\ \A j \in 1 .. n - 1 : Removed(s.entries, i)[j] =
             IF j < i THEN s.entries[j] ELSE s.entries[j + 1]
    BY <1>2, RemovedProperties
  <2> QED  BY <2>1, <1>1
<1>4. \A j \in 1 .. n :
        /\ s.entries[j].lastEpoch \in Nat
        /\ s.entries[j].msg \in Nat \ {0}
        /\ s.entries[j].packetID # 0 => s.entries[j].packetID \in PacketIDs
  BY EntryType, SessionLimitsValid, SMT DEF PacketIDs
<1>5. \A j \in 1 .. n : s.entries[j].msg = s.entries[i].msg => j = i
  BY <1>2, <1>4, SMTT(30) DEF QueueInv
<1>6. s.entries[i].packetID = pid /\ Attempted(s, i)
  <2>1. PICK j \in 1 .. n :
          s.entries[j].packetID = pid /\ s.entries[j].msg = s.inflight[pid]
    BY DEF QueueInv, InflightAgrees, InflightIDs
  <2> QED  BY <2>1, <1>5, SessionLimitsValid, SMT DEF Attempted, PacketIDs
\* The entry at position j of the new queue was at Old(j).
<1> DEFINE Old(j) == IF j < i THEN j ELSE j + 1
<1>7. \A j \in 1 .. n - 1 :
        /\ Old(j) \in 1 .. n /\ Old(j) # i
        /\ t.entries[j] = s.entries[Old(j)]
  <2> TAKE j \in 1 .. n - 1
  <2>1. Old(j) \in 1 .. n /\ Old(j) # i
    BY <1>2, SMT
  <2>2. t.entries[j] = s.entries[Old(j)]
    BY <1>3
  <2> QED  BY <2>1, <2>2
<1>8. \A j, k \in 1 .. n - 1 : j < k => Old(j) < Old(k)
  BY <1>2, SMT
<1>9. \A j \in 1 .. n : j # i => \E k \in 1 .. n - 1 : Old(k) = j
  <2> SUFFICES ASSUME NEW j \in 1 .. n, j # i
               PROVE  \E k \in 1 .. n - 1 : Old(k) = j
    OBVIOUS
  <2>1. CASE j < i
    <3>1. j \in 1 .. n - 1 /\ Old(j) = j
      BY <2>1, <1>2, SMT
    <3> QED  BY <3>1
  <2>2. CASE j > i
    <3>1. j - 1 \in 1 .. n - 1 /\ Old(j - 1) = j
      BY <2>2, <1>2, SMT
    <3> QED  BY <3>1
  <2>3. j < i \/ j > i
    BY <1>2, SMT
  <2> QED  BY <2>1, <2>2, <2>3
<1>10. InflightAgrees(t)
  <2> HIDE DEF Old
  <2>1. ASSUME NEW p \in PacketIDs, t.inflight[p] # Nil
        PROVE  \E j \in 1 .. Len(t.entries) :
                 t.entries[j].packetID = p /\ t.entries[j].msg = t.inflight[p]
    <3>1. p # pid /\ t.inflight[p] = s.inflight[p]
      BY <2>1, <1>1, <1>2
    <3>2. PICK j \in 1 .. n :
            s.entries[j].packetID = p /\ s.entries[j].msg = s.inflight[p]
      BY <2>1, <3>1 DEF QueueInv, InflightAgrees, InflightIDs
    <3>3. j # i
      BY <3>1, <3>2, <1>6
    <3>4. PICK k \in 1 .. n - 1 : Old(k) = j
      BY <3>3, <1>9
    <3> QED  BY <3>1, <3>2, <3>4, <1>3, <1>7
  <2>2. ASSUME NEW j \in 1 .. Len(t.entries), t.entries[j].packetID # 0
        PROVE  t.inflight[t.entries[j].packetID] = t.entries[j].msg
    <3>1. /\ Old(j) \in 1 .. n /\ Old(j) # i
          /\ t.entries[j] = s.entries[Old(j)]
      BY <1>3, <1>7
    <3>2. /\ s.inflight[s.entries[Old(j)].packetID] = s.entries[Old(j)].msg
          /\ s.entries[Old(j)].packetID \in PacketIDs
      BY <2>2, <3>1, <1>4 DEF QueueInv, InflightAgrees, Attempted
    <3>3. s.entries[Old(j)].packetID # pid
      BY <3>1, <3>2, <1>5
    <3> QED  BY <3>1, <3>2, <3>3, <1>1, <1>2
  <2> QED  BY <2>1, <2>2 DEF InflightAgrees, InflightIDs, Attempted
<1>11. QueueInv(t, m)
  <2>1. \A j \in 1 .. n - 1 :
          /\ t.entries[j].msg <= m
          /\ t.entries[j].lastEpoch <= t.epoch
          /\ Attempted(t, j) <=> t.entries[j].lastEpoch # 0
          /\ Attempted(t, j) => j <= MaxInflight
    <3> SUFFICES ASSUME NEW j \in 1 .. n - 1
                 PROVE  /\ t.entries[j].msg <= m
                        /\ t.entries[j].lastEpoch <= t.epoch
                        /\ Attempted(t, j) <=> t.entries[j].lastEpoch # 0
                        /\ Attempted(t, j) => j <= MaxInflight
      OBVIOUS
    <3>1. Old(j) \in 1 .. n /\ t.entries[j] = s.entries[Old(j)] /\ j <= Old(j)
      BY <1>2, <1>7, SMT
    <3> HIDE DEF Old
    <3> QED  BY <3>1, <1>1, <1>2, SessionLimitsValid, SMT DEF QueueInv, Attempted
  <2>2. \A j, k \in 1 .. n - 1 :
          j < k => /\ t.entries[j].msg < t.entries[k].msg
                   /\ Attempted(t, k) => Attempted(t, j)
    <3> HIDE DEF Old
    <3> QED  BY <1>7, <1>8 DEF QueueInv, Attempted
  <2>3. s.entries[i].lastEpoch = s.epoch <=> i <= s.activeInflight
    BY <1>6 DEF QueueInv
  <2>4. s.activeInflight \in 0 .. n
    BY DEF QueueInv
  <2>5. t.activeInflight \in 0 .. n - 1
    BY <2>3, <2>4, <1>1, <1>2, SMT
  <2>6. ASSUME NEW j \in 1 .. n - 1
        PROVE  j <= t.activeInflight <=>
                 Attempted(t, j) /\ t.entries[j].lastEpoch = t.epoch
    <3>1. j <= t.activeInflight <=> Old(j) <= s.activeInflight
      BY <2>3, <2>4, <1>1, <1>2, SMT
    <3>2. Old(j) \in 1 .. n /\ t.entries[j] = s.entries[Old(j)]
      BY <1>7
    <3> HIDE DEF Old
    <3> QED  BY <3>1, <3>2, <1>1 DEF QueueInv, Attempted
  <2> QED
    BY <1>1, <1>3, <1>10, <2>1, <2>2, <2>5, <2>6 DEF QueueInv
<1> QED  BY <1>11 DEF t

=============================================================================
