---------------------------- MODULE SessionState ----------------------------
(***************************************************************************)
(* One MQTT session as internal/session keeps it: the fields of State and  *)
(* what each of its methods does to them.  Every method runs under the     *)
(* store's mutex, so each one is a function from a session record to a     *)
(* session record; the modules that use this one decide who calls it when. *)
(*                                                                         *)
(* An *entry is identified by the number of the admission that allocated   *)
(* it (field msg); its encoded bytes are abstracted to their length (field *)
(* size).  The Go maps are total functions whose absent keys hold Nil, the *)
(* value a lookup of an absent key returns.                                *)
(***************************************************************************)
EXTENDS Integers, Sequences, FiniteSets

CONSTANTS
  ClientID,             \* keys of Store.data
  Owner,                \* authenticated identities
  Filter,               \* subscription filters clients ask for
  OversizedFilter,      \* the filters over MaxFilterBytes or MaxFilterLevels
  MaxPacketID,          \* largest packet identifier; 65535 in the code
  MaxInflight,          \* Limits.MaxInflightMessagesPerSession
  MaxPendingMessages,   \* Limits.MaxPendingMessagesPerSession
  MaxPendingBytes,      \* Limits.MaxPendingBytesPerSession
  MaxSubscriptions,     \* Limits.MaxSubscriptionsPerSession
  OfflineTTL            \* Limits.OfflineTTL; 0 disables expiry

\* Limits.Validate, the part that concerns one session.
ASSUME SessionLimitsValid ==
  /\ MaxPacketID \in Nat \ {0}
  /\ MaxInflight \in 1 .. MaxPacketID
  /\ MaxPendingMessages \in Nat \ {0}
  /\ MaxInflight <= MaxPendingMessages
  /\ MaxPendingBytes \in Nat \ {0}
  /\ MaxSubscriptions \in Nat \ {0}
  /\ OfflineTTL \in Nat
  /\ OversizedFilter \subseteq Filter
  /\ IsFiniteSet(Filter)

Nil == 0
NoTime == -1                        \* the zero time.Time
PacketIDs == 1 .. MaxPacketID
QoS == {0, 1}
NoSub == -1

Entry == [msg : Nat \ {0}, size : Nat, packetID : 0 .. MaxPacketID,
          lastEpoch : Nat]

State == [id : ClientID, owner : Owner, deleted : BOOLEAN,
          subscriptions : [Filter -> QoS \cup {NoSub}],
          entries : Seq(Entry), inflight : [PacketIDs -> Nat],
          nextPacketID : 0 .. MaxPacketID, epoch : Nat,
          activeInflight : Int, paused : BOOLEAN, changed : BOOLEAN,
          pendingMessages : Int, pendingBytes : Int,
          connected : BOOLEAN, offlineSince : Nat \cup {NoTime}]

NewState(id, owner, now) ==
  [id |-> id, owner |-> owner, deleted |-> FALSE,
   subscriptions |-> [f \in Filter |-> NoSub],
   entries |-> <<>>, inflight |-> [p \in PacketIDs |-> Nil],
   nextPacketID |-> 0, epoch |-> 0,
   activeInflight |-> 0, paused |-> FALSE, changed |-> FALSE,
   pendingMessages |-> 0, pendingBytes |-> 0,
   connected |-> FALSE, offlineSince |-> now]

-----------------------------------------------------------------------------
(* What the record says: the values the Go code reads off its fields.      *)

Subscribed(s) == {f \in Filter : s.subscriptions[f] # NoSub}
InflightIDs(s) == {p \in PacketIDs : s.inflight[p] # Nil}
Attempted(s, i) == s.entries[i].packetID # 0
Pending(s) == {s.entries[i].msg : i \in 1 .. Len(s.entries)}

\* The buffered channel "changed" holds at most one token.
notifyLocked(s) == [s EXCEPT !.changed = TRUE]

-----------------------------------------------------------------------------
(* The QoS 1 queue.                                                        *)

\* Mutant: the limits are tested with > instead of >=.
SessionSaturatedLate(s, size) ==
  \/ s.pendingMessages > MaxPendingMessages
  \/ size > MaxPendingBytes - s.pendingBytes

\* Admit: the first limit it tests, which wins over the global one.
SessionSaturated(s, size) ==
  \/ s.pendingMessages >= MaxPendingMessages
  \/ size > MaxPendingBytes - s.pendingBytes

\* Admit, once no limit refuses the message.
Admit(s, msg, size) ==
  notifyLocked(
    [s EXCEPT !.entries = Append(@, [msg |-> msg, size |-> size,
                                     packetID |-> 0, lastEpoch |-> 0]),
              !.pendingMessages = @ + 1,
              !.pendingBytes = @ + size])

\* Mutant: a new connection inherits the old one's window usage.
BeginDeliveryNoReset(s) == notifyLocked([s EXCEPT !.epoch = @ + 1])

BeginDelivery(s) ==
  notifyLocked([s EXCEPT !.epoch = @ + 1, !.activeInflight = 0])

\* Mutant: pausing has no effect.
PauseDeliveryNoop(s) == s

PauseDelivery(s) == [s EXCEPT !.paused = TRUE]

\* Mutant: resuming does not wake the consumer.
ResumeDeliverySilent(s) == [s EXCEPT !.paused = FALSE]

ResumeDelivery(s) == notifyLocked([s EXCEPT !.paused = FALSE])

\* Mutant: the window admits one message too many.
MayDeliverOneMore(s, epoch) ==
  ~s.deleted /\ ~s.paused /\ epoch = s.epoch /\ s.activeInflight <= MaxInflight

\* Next: the early returns.
MayDeliver(s, epoch) ==
  /\ ~s.deleted
  /\ ~s.paused
  /\ epoch = s.epoch
  /\ s.activeInflight < MaxInflight

\* Next: entry i is the first one this epoch has not attempted yet.
FirstUntried(s, epoch, i) ==
  /\ i \in 1 .. Len(s.entries)
  /\ s.entries[i].lastEpoch # epoch
  /\ \A j \in 1 .. i - 1 : s.entries[j].lastEpoch = epoch

\* Next returns a delivery to a caller of this epoch.
HasNext(s, epoch) ==
  /\ MayDeliver(s, epoch)
  /\ \E i \in 1 .. Len(s.entries) : FirstUntried(s, epoch, i)

\* Next, the inner loop: from nextPacketID upwards, wrapping past 0, pid is
\* the first identifier with no entry in flight.
FirstFree(s, pid) ==
  LET n == s.nextPacketID
      skipped == IF n < pid THEN n + 1 .. pid - 1
                            ELSE (n + 1 .. MaxPacketID) \cup (1 .. pid - 1)
  IN  /\ pid \in PacketIDs
      /\ s.inflight[pid] = Nil
      /\ \A p \in skipped : s.inflight[p] # Nil

\* Next on entry i, attempted by an earlier connection: same identifier, DUP.
Replay(s, epoch, i) ==
  LET message == [s.entries[i] EXCEPT !.lastEpoch = epoch]
  IN  [s EXCEPT !.entries = [@ EXCEPT ![i] = message],
                !.activeInflight = @ + 1]

\* Next on entry i, never attempted: it gets identifier pid.
FirstAttempt(s, epoch, i, pid) ==
  LET message == [s.entries[i] EXCEPT !.packetID = pid, !.lastEpoch = epoch]
  IN  [s EXCEPT !.entries = [@ EXCEPT ![i] = message],
                !.inflight = [@ EXCEPT ![pid] = message.msg],
                !.nextPacketID = pid,
                !.activeInflight = @ + 1]

\* The queue q without its i-th message: the later ones move up by one.
Removed(q, i) == SubSeq(q, 1, i - 1) \o SubSeq(q, i + 1, Len(q))

\* Mutant: a PUBACK completes the oldest message, whichever it names.
AckOldest(s, pid, i) ==
  notifyLocked(
    [s EXCEPT !.inflight = [@ EXCEPT ![pid] = Nil],
              !.activeInflight =
                 IF s.entries[1].lastEpoch = s.epoch THEN @ - 1 ELSE @,
              !.entries = Tail(@),
              !.pendingMessages = @ - 1,
              !.pendingBytes = @ - s.entries[1].size])

\* Ack of the identifier pid, whose entry is the i-th.
Ack(s, pid, i) ==
  notifyLocked(
    [s EXCEPT !.inflight = [@ EXCEPT ![pid] = Nil],
              !.activeInflight =
                 IF s.entries[i].lastEpoch = s.epoch THEN @ - 1 ELSE @,
              !.entries = Removed(@, i),
              !.pendingMessages = @ - 1,
              !.pendingBytes = @ - s.entries[i].size])

-----------------------------------------------------------------------------
(* Subscriptions, connection status and removal.                           *)

SetSubscription(s, f, qos) ==
  [s EXCEPT !.subscriptions = [@ EXCEPT ![f] = qos]]

DeleteSubscription(s, f) ==
  [s EXCEPT !.subscriptions = [@ EXCEPT ![f] = NoSub]]

MarkConnected(s) ==
  IF s.deleted THEN s
  ELSE [s EXCEPT !.connected = TRUE, !.offlineSince = NoTime]

MarkDisconnectedAt(s, at) ==
  IF s.deleted \/ ~s.connected THEN s
  ELSE [s EXCEPT !.connected = FALSE, !.offlineSince = at]

\* Mutant: the time offline is tested against the start of the TTL.
ExpiredEarly(s, now) ==
  OfflineTTL # 0 /\ ~s.connected /\ s.offlineSince # NoTime
  /\ now - s.offlineSince >= OfflineTTL - 1

\* Mutant: the session survives its deadline by one instant.
ExpiredLate(s, now) ==
  OfflineTTL # 0 /\ ~s.connected /\ s.offlineSince # NoTime
  /\ now - s.offlineSince > OfflineTTL

\* Mutant: connected sessions expire like the others.
ExpiredConnected(s, now) ==
  OfflineTTL # 0 /\ now - s.offlineSince >= OfflineTTL

\* expireLocked: the conditions under which it deletes the session.
Expired(s, now) ==
  /\ OfflineTTL # 0
  /\ ~s.connected
  /\ s.offlineSince # NoTime
  /\ now - s.offlineSince >= OfflineTTL

\* deleteLocked: what it does to the session itself.
Deleted(s) ==
  notifyLocked(
    [s EXCEPT !.deleted = TRUE,
              !.entries = <<>>,
              !.inflight = [p \in PacketIDs |-> Nil],
              !.subscriptions = [f \in Filter |-> NoSub],
              !.pendingMessages = 0,
              !.pendingBytes = 0])

-----------------------------------------------------------------------------
(* What is to hold of one session, and of one step of it.                  *)

\* The queue is in the order of admission, attempted messages come before
\* untried ones, and those attempted on this connection come first.
InOrder(s) ==
  \A i, j \in 1 .. Len(s.entries) :
    i < j =>
      /\ s.entries[i].msg < s.entries[j].msg
      /\ Attempted(s, j) => Attempted(s, i)
      /\ Attempted(s, j) /\ s.entries[j].lastEpoch = s.epoch
           => s.entries[i].lastEpoch = s.epoch

\* Identifier p is taken by message m exactly when m is queued with it.
InflightAgrees(s) ==
  /\ \A p \in InflightIDs(s) :
       \E i \in 1 .. Len(s.entries) :
         s.entries[i].packetID = p /\ s.entries[i].msg = s.inflight[p]
  /\ \A i \in 1 .. Len(s.entries) :
       Attempted(s, i) => s.inflight[s.entries[i].packetID] = s.entries[i].msg

\* What the counter counts, and the bound on the messages awaiting a PUBACK.
InWindow(s) ==
  /\ ~s.deleted =>
       s.activeInflight = Cardinality({i \in 1 .. Len(s.entries) :
         Attempted(s, i) /\ s.entries[i].lastEpoch = s.epoch})
  /\ Cardinality(InflightIDs(s)) <= MaxInflight

\* When Next looks for an identifier, there is a free one.
FindsPacketID(s) ==
  \A i \in 1 .. Len(s.entries) :
    /\ MayDeliver(s, s.epoch)
    /\ FirstUntried(s, s.epoch, i)
    /\ ~Attempted(s, i)
    => \E p \in PacketIDs : s.inflight[p] = Nil

\* The inductive form of the four properties above, for a session whose
\* messages are all numbered up to m.  Because attempts of the present epoch
\* are exactly the first activeInflight entries, Next continues right after
\* them, and an identifier is taken only when no older one is still untried.
QueueInv(s, m) ==
  LET n == Len(s.entries)
  IN  /\ s.deleted => n = 0
      /\ \A i \in 1 .. n :
           /\ s.entries[i].msg <= m
           /\ s.entries[i].lastEpoch <= s.epoch
           /\ Attempted(s, i) <=> s.entries[i].lastEpoch # 0
           /\ Attempted(s, i) => i <= MaxInflight
      /\ \A i, j \in 1 .. n :
           i < j => /\ s.entries[i].msg < s.entries[j].msg
                    /\ Attempted(s, j) => Attempted(s, i)
      /\ ~s.deleted =>
           /\ s.activeInflight \in 0 .. n
           /\ \A i \in 1 .. n :
                i <= s.activeInflight <=>
                  Attempted(s, i) /\ s.entries[i].lastEpoch = s.epoch
      /\ InflightAgrees(s)

\* The bytes a session buffers, each named by its message and its place there.
Buffered(s) ==
  UNION {{s.entries[i].msg} \X (1 .. s.entries[i].size) : i \in 1 .. Len(s.entries)}

\* If there is now something to deliver, and was not, the consumer is woken.
Wakes(s, t) == HasNext(t, t.epoch) /\ ~HasNext(s, s.epoch) => t.changed

\* A queued message stays, with its identifier, unless its PUBACK freed that.
KeptUntilAcked(s, t) ==
  \A i \in 1 .. Len(s.entries) :
    \/ t.deleted
    \/ \E j \in 1 .. i :
         /\ j <= Len(t.entries)
         /\ t.entries[j].msg = s.entries[i].msg
         /\ Attempted(s, i) => t.entries[j].packetID = s.entries[i].packetID
    \/ /\ Attempted(s, i)
       /\ t.inflight = [s.inflight EXCEPT ![s.entries[i].packetID] = Nil]
=============================================================================
