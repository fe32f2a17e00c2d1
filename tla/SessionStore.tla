---------------------------- MODULE SessionStore ----------------------------
(***************************************************************************)
(* internal/session: the Store, every State it ever allocated, and the     *)
(* capacity totals shared by all sessions.  Callers keep pointers to a     *)
(* State after the store has deleted it, so sessions live in a heap        *)
(* indexed by handles (the pointers) and any method may be called on any   *)
(* handle ever returned.  Each method is one critical section of the       *)
(* store's mutex and one action here.  Expire holds the mutex over a loop; *)
(* the loop is modelled step by step, with the mutex.                      *)
(*                                                                         *)
(* Calls that return an error or an existing session without changing      *)
(* anything are stuttering steps and have no action.                       *)
(***************************************************************************)
EXTENDS SessionState, FiniteSetsExt

CONSTANTS
  Handle,                   \* pointers to the State structs ever allocated
  NoState,                  \* the nil *State
  Sizes,                    \* lengths of the encoded publishes offered
  MaxSessions,              \* Limits.MaxSessions
  MaxSubscriptionsGlobal,   \* Limits.MaxSubscriptionsGlobal
  MaxMessagesGlobal,        \* Limits.MaxPendingMessagesGlobal
  MaxBytesGlobal,           \* Limits.MaxPendingBytesGlobal
  \* Bounds of the model, not of the code:
  MaxAdmits,                \* messages ever admitted
  MaxEpoch,                 \* BeginDelivery calls per session
  MaxTime,                  \* clock ticks
  MaxRejections             \* refusals counted in totals

\* Limits.Validate, the part that relates one session to the whole store.
ASSUME StoreLimitsValid ==
  /\ NoState \notin Handle
  /\ IsFiniteSet(Handle) /\ IsFiniteSet(ClientID)
  /\ Sizes \subseteq Nat \ {0}
  /\ MaxSessions \in Nat \ {0}
  /\ MaxSubscriptionsGlobal \in Nat /\ MaxSubscriptions <= MaxSubscriptionsGlobal
  /\ MaxMessagesGlobal \in Nat /\ MaxPendingMessages <= MaxMessagesGlobal
  /\ MaxBytesGlobal \in Nat /\ MaxPendingBytes <= MaxBytesGlobal

VARIABLES
  st,         \* the State structs, by handle
  data,       \* Store.data
  totals,     \* Store.totals, the gauges
  expired,    \* Store.totals.ExpiredSessions
  refused,    \* Store.totals, the rejection and drop counters
  admitted,   \* messages ever admitted; names the next one
  sweep,      \* IDs the running Expire call has yet to visit; it holds mu
  sweepAt,    \* the time that call was given
  now         \* the clock
vars == <<st, data, totals, expired, refused, admitted, sweep, sweepAt, now>>

Live == {id \in ClientID : data[id] # NoState}
Refusals == {"session", "subscription", "filter", "sessionDrop", "globalDrop"}

Init ==
  /\ st = [h \in {} |-> NoState]
  /\ data = [id \in ClientID |-> NoState]
  /\ totals = [messages |-> 0, bytes |-> 0, inflight |-> 0,
               subscriptions |-> 0]
  /\ expired = 0
  /\ refused = [r \in Refusals |-> 0]
  /\ admitted = 0
  /\ sweep = {}
  /\ sweepAt = 0
  /\ now = 0

Unlocked == sweep = {}

Update(h, s) == st' = [st EXCEPT ![h] = s]

\* totals.X++ for a refused call; callers see an error or a drop reason.
Refuse(r) ==
  /\ MapThenSumSet(LAMBDA q : refused[q], Refusals) < MaxRejections
  /\ refused' = [refused EXCEPT ![r] = @ + 1]
  /\ UNCHANGED <<st, data, totals, expired, admitted, sweep, sweepAt, now>>

-----------------------------------------------------------------------------
(* Sessions.                                                               *)

\* Mutant: the session limit is tested with > instead of >=.
GetOrCreateOwnedLate(id, owner) ==
  /\ Unlocked
  /\ data[id] = NoState
  /\ Cardinality(Live) <= MaxSessions
  /\ \E h \in Handle \ DOMAIN st :
       /\ st' = [x \in DOMAIN st \cup {h} |->
                   IF x = h THEN NewState(id, owner, now) ELSE st[x]]
       /\ data' = [data EXCEPT ![id] = h]
       /\ UNCHANGED <<totals, expired, refused, admitted, sweep, sweepAt, now>>

GetOrCreateOwned(id, owner) ==
  /\ Unlocked
  /\ data[id] = NoState
  /\ IF Cardinality(Live) >= MaxSessions
     THEN Refuse("session")
     ELSE \E h \in Handle \ DOMAIN st :
            /\ st' = [x \in DOMAIN st \cup {h} |->
                        IF x = h THEN NewState(id, owner, now) ELSE st[x]]
            /\ data' = [data EXCEPT ![id] = h]
            /\ UNCHANGED <<totals, expired, refused, admitted, sweep, sweepAt,
                           now>>

\* Mutant: the identifiers in flight are not returned to the totals.
deleteLockedLeaksInflight(id) ==
  LET h == data[id]
      s == st[h]
  IN  /\ Update(h, Deleted(s))
      /\ totals' = [totals EXCEPT
                      !.messages = @ - s.pendingMessages,
                      !.bytes = @ - s.pendingBytes,
                      !.subscriptions = @ - Cardinality(Subscribed(s))]
      /\ data' = [data EXCEPT ![id] = NoState]

\* deleteLocked of a present session: its capacity returns to the totals.
deleteLocked(id) ==
  LET h == data[id]
      s == st[h]
  IN  /\ Update(h, Deleted(s))
      /\ totals' = [totals EXCEPT
                      !.messages = @ - s.pendingMessages,
                      !.bytes = @ - s.pendingBytes,
                      !.inflight = @ - Cardinality(InflightIDs(s)),
                      !.subscriptions = @ - Cardinality(Subscribed(s))]
      /\ data' = [data EXCEPT ![id] = NoState]

\* expireLocked of a present session, given the time of the sweep.
expireLocked(id, at) ==
  IF Expired(st[data[id]], at)
  THEN deleteLocked(id) /\ expired' = expired + 1
  ELSE UNCHANGED <<st, data, totals, expired>>

Delete(id) ==
  /\ Unlocked
  /\ data[id] # NoState
  /\ deleteLocked(id)
  /\ UNCHANGED <<expired, refused, admitted, sweep, sweepAt, now>>

ExpireSession(id, at) ==
  /\ Unlocked
  /\ data[id] # NoState
  /\ expireLocked(id, at)
  /\ UNCHANGED <<refused, admitted, sweep, sweepAt, now>>

\* Expire takes the mutex and starts to range over the sessions.
Expire(at) ==
  /\ Unlocked
  /\ OfflineTTL # 0
  /\ Live # {}
  /\ sweep' = Live
  /\ sweepAt' = at
  /\ UNCHANGED <<st, data, totals, expired, refused, admitted, now>>

\* One iteration of that loop; after the last one the mutex is free again.
ExpireNext(id) ==
  /\ id \in sweep
  /\ sweep' = sweep \ {id}
  /\ expireLocked(id, sweepAt)
  /\ sweepAt' = IF sweep' = {} THEN 0 ELSE sweepAt
  /\ UNCHANGED <<refused, admitted, now>>

-----------------------------------------------------------------------------
(* Methods of a State, called through a handle that may be stale.          *)

SetSubscriptionStep(h, f, qos) ==
  LET s == st[h]
      new == s.subscriptions[f] = NoSub
  IN  /\ Unlocked
      /\ ~s.deleted
      /\ IF f \in OversizedFilter
         THEN Refuse("filter")
         ELSE IF new /\ \/ Cardinality(Subscribed(s)) >= MaxSubscriptions
                        \/ totals.subscriptions >= MaxSubscriptionsGlobal
         THEN Refuse("subscription")
         ELSE /\ Update(h, SetSubscription(s, f, qos))
              /\ totals' = [totals EXCEPT !.subscriptions =
                              IF new THEN @ + 1 ELSE @]
              /\ UNCHANGED <<data, expired, refused, admitted, sweep,
                             sweepAt, now>>

DeleteSubscriptionStep(h, f) ==
  /\ Unlocked
  /\ st[h].subscriptions[f] # NoSub
  /\ Update(h, DeleteSubscription(st[h], f))
  /\ totals' = [totals EXCEPT !.subscriptions = @ - 1]
  /\ UNCHANGED <<data, expired, refused, admitted, sweep, sweepAt, now>>

AdmitStep(h, size) ==
  LET s == st[h]
  IN  /\ Unlocked
      /\ ~s.deleted
      /\ IF SessionSaturated(s, size)
         THEN Refuse("sessionDrop")
         ELSE IF \/ totals.messages >= MaxMessagesGlobal
                 \/ size > MaxBytesGlobal - totals.bytes
         THEN Refuse("globalDrop")
         ELSE /\ admitted < MaxAdmits
              /\ admitted' = admitted + 1
              /\ Update(h, Admit(s, admitted + 1, size))
              /\ totals' = [totals EXCEPT !.messages = @ + 1,
                                          !.bytes = @ + size]
              /\ UNCHANGED <<data, expired, refused, sweep, sweepAt, now>>

\* Next, called by a consumer whose epoch may be out of date.
NextStep(h, epoch) ==
  LET s == st[h]
  IN  /\ Unlocked
      /\ MayDeliver(s, epoch)
      /\ \E i \in 1 .. Len(s.entries) :
           /\ FirstUntried(s, epoch, i)
           /\ \/ /\ Attempted(s, i)
                 /\ Update(h, Replay(s, epoch, i))
                 /\ UNCHANGED totals
              \/ /\ ~Attempted(s, i)
                 /\ \E pid \in PacketIDs :
                      /\ FirstFree(s, pid)
                      /\ Update(h, FirstAttempt(s, epoch, i, pid))
                 /\ totals' = [totals EXCEPT !.inflight = @ + 1]
      /\ UNCHANGED <<data, expired, refused, admitted, sweep, sweepAt, now>>

AckStep(h, pid) ==
  LET s == st[h]
  IN  /\ Unlocked
      /\ ~s.deleted
      /\ s.inflight[pid] # Nil
      /\ \E i \in 1 .. Len(s.entries) :
           /\ s.entries[i].msg = s.inflight[pid]
           /\ Update(h, Ack(s, pid, i))
           /\ totals' = [totals EXCEPT !.messages = @ - 1,
                                       !.bytes = @ - s.entries[i].size,
                                       !.inflight = @ - 1]
      /\ UNCHANGED <<data, expired, refused, admitted, sweep, sweepAt, now>>

\* The methods that only touch their own State.
Method(h, s) ==
  /\ Unlocked
  /\ Update(h, s)
  /\ UNCHANGED <<data, totals, expired, refused, admitted, sweep, sweepAt,
                 now>>

BeginDeliveryStep(h) ==
  st[h].epoch < MaxEpoch /\ Method(h, BeginDelivery(st[h]))
PauseDeliveryStep(h) == Method(h, PauseDelivery(st[h]))
ResumeDeliveryStep(h) == Method(h, ResumeDelivery(st[h]))
MarkConnectedStep(h) == Method(h, MarkConnected(st[h]))
MarkDisconnectedStep(h, at) == Method(h, MarkDisconnectedAt(st[h], at))

\* A consumer receives from Changed(); channel operations need no mutex.
ReceiveChanged(h) ==
  /\ st[h].changed
  /\ Update(h, [st[h] EXCEPT !.changed = FALSE])
  /\ UNCHANGED <<data, totals, expired, refused, admitted, sweep, sweepAt,
                 now>>

Tick ==
  /\ now < MaxTime
  /\ now' = now + 1
  /\ UNCHANGED <<st, data, totals, expired, refused, admitted, sweep,
                 sweepAt>>

Next ==
  \/ \E id \in ClientID :
       \/ \E owner \in Owner : GetOrCreateOwned(id, owner)
       \/ Delete(id)
       \/ \E at \in 0 .. now : ExpireSession(id, at)
       \/ ExpireNext(id)
  \/ \E at \in 0 .. now : Expire(at)
  \/ \E h \in DOMAIN st :
       \/ \E f \in Filter :
            \/ \E qos \in QoS : SetSubscriptionStep(h, f, qos)
            \/ DeleteSubscriptionStep(h, f)
       \/ \E size \in Sizes : AdmitStep(h, size)
       \/ \E epoch \in 1 .. st[h].epoch : NextStep(h, epoch)
       \/ \E pid \in PacketIDs : AckStep(h, pid)
       \/ BeginDeliveryStep(h)
       \/ PauseDeliveryStep(h)
       \/ ResumeDeliveryStep(h)
       \/ MarkConnectedStep(h)
       \/ \E at \in 0 .. now : MarkDisconnectedStep(h, at)
       \/ ReceiveChanged(h)
  \/ Tick

Spec == Init /\ [][Next]_vars

-----------------------------------------------------------------------------
(* Properties.                                                             *)

\* Every variable holds a value of its type.
TypeOK ==
  /\ DOMAIN st \subseteq Handle
  /\ st \in [DOMAIN st -> State]
  /\ data \in [ClientID -> DOMAIN st \cup {NoState}]
  /\ totals \in [messages : Int, bytes : Int, inflight : Int,
                 subscriptions : Int]
  /\ expired \in Nat
  /\ refused \in [Refusals -> Nat]
  /\ admitted \in Nat
  /\ sweep \subseteq Live
  /\ sweepAt \in Nat
  /\ now \in Nat

\* Replays come before unsent messages and both in admission order: the
\* entries ever attempted are a prefix of the queue, those attempted on the
\* present connection are a prefix of it, and the queue is sorted by age.
DeliveryOrder == \A h \in DOMAIN st : InOrder(st[h])

\* The inflight map and the queue agree: identifier p is taken by message m
\* exactly when m is queued with identifier p, so no two queued messages
\* share an identifier and a PUBACK finds the entry it completes.
InflightMatchesQueue == \A h \in DOMAIN st : InflightAgrees(st[h])

\* activeInflight counts the messages attempted on the present connection,
\* and the receive window bounds the messages awaiting a PUBACK across all
\* connections of the session, although BeginDelivery resets the counter.
WindowRespected == \A h \in DOMAIN st : InWindow(st[h])

\* The loop in Next that looks for an identifier always finds one: it runs
\* under the store's mutex, so without a free one the whole broker hangs.
PacketIDAvailable == \A h \in DOMAIN st : FindsPacketID(st[h])

\* Every queue satisfies the invariant that implies the four properties above.
QueuesConsistent == \A h \in DOMAIN st : QueueInv(st[h], admitted)

\* What all sessions together hold of a resource: k[h] is what session h holds.
Held(k) == UNION {{h} \X k[h] : h \in DOMAIN k}

\* The totals are what all sessions hold, the deleted ones that callers may
\* still use included: capacity is taken once and released once, whether by
\* PUBACK, unsubscribe, deletion or expiry, and a deleted session takes none.
Accounting ==
  /\ totals.messages = Cardinality(Held([h \in DOMAIN st |-> Pending(st[h])]))
  /\ totals.bytes = Cardinality(Held([h \in DOMAIN st |-> Buffered(st[h])]))
  /\ totals.inflight = Cardinality(Held([h \in DOMAIN st |-> InflightIDs(st[h])]))
  /\ totals.subscriptions =
       Cardinality(Held([h \in DOMAIN st |-> Subscribed(st[h])]))
  /\ \A h \in DOMAIN st :
       /\ st[h].pendingMessages = Len(st[h].entries)
       /\ st[h].pendingBytes = Cardinality(Buffered(st[h]))

\* No capacity limit is ever exceeded, by one session or by all together.
WithinLimits ==
  /\ totals.messages \in 0 .. MaxMessagesGlobal
  /\ totals.bytes \in 0 .. MaxBytesGlobal
  /\ totals.subscriptions \in 0 .. MaxSubscriptionsGlobal
  /\ Cardinality(Live) <= MaxSessions
  /\ \A h \in DOMAIN st :
       /\ st[h].pendingMessages \in 0 .. MaxPendingMessages
       /\ st[h].pendingBytes \in 0 .. MaxPendingBytes
       /\ Cardinality(Subscribed(st[h])) <= MaxSubscriptions

\* A step after which Next has something to return, and before which it had
\* not, leaves a token in the changed channel for the waiting consumer.
NoLostWakeup == [][\A h \in DOMAIN st : Wakes(st[h], st'[h])]_vars

\* A queued message keeps its identifier for as long as it is queued, and it
\* leaves the queue only with its session or when its identifier is freed by
\* the PUBACK that names it; a refused or later message never displaces it.
MessagesKept == [][\A h \in DOMAIN st : KeptUntilAcked(st[h], st'[h])]_vars

\* Expiry, by the sweep or on reconnection, removes one session at a time, and
\* only one that is disconnected and whose last disconnection lies a whole TTL
\* back, even when the sweep was given its time before that disconnection.
ExpiryStep ==
  [][expired' # expired =>
       \E id \in Live :
         /\ data' = [data EXCEPT ![id] = NoState]
         /\ ~st[data[id]].connected
         /\ now - st[data[id]].offlineSince >= OfflineTTL]_vars
=============================================================================
