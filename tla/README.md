# A TLA+ model of OrbMQ

OrbMQ is an MQTT 3.1.1 broker in Go: QoS 0 and 1, persistent sessions, retained
messages, wills, authentication with access rules, and bounded resources
everywhere. All of its state lives in memory, so the hard part is not recovery
but concurrency. Each connection has a reader, a writer and a delivery
goroutine. They share sessions, the broker's routing table and the registry of
connected clients with every other connection, with the expiry loop and with
shutdown.

This directory models those parts in TLA+, checks them with TLC on small
instances, and proves most of the safety properties with TLAPS: for any number
of clients, connections, callers and messages and every value of the limits.

## 1. The system

### Parts, state and operations

| Part | Source (`src/`) | State | Operations | Model |
|---|---|---|---|---|
| Session | `internal/session/queue.go` | queue of entries, inflight map, next Packet ID, epoch, paused, changed channel, counters | Admit, BeginDelivery, PauseDelivery, ResumeDelivery, Next, Ack | `SessionState` |
| Session store | `internal/session/store.go` | sessions by client ID, totals, limits | GetOrCreateOwned, Delete, Expire, ExpireSession, SetSubscription, DeleteSubscription, MarkConnected, MarkDisconnectedAt | `SessionStore` |
| Client writer | `internal/client/client.go` | send queue, done channel, connection, result channels | Enqueue, Send, Close, Wait, writeLoop | `Client`, promise in `Outbound` |
| Connection handlers | `internal/server/server.go` | registry of owners, client per handler, sessions, routes | handleConn: acquire, takeover, serve, subscribe, unsubscribe, publish, will, cleanup; expiry sweep | `Connections` |
| Delivery path | `server.go`, `queue.go`, `client.go` | session, client and wire together | CONNACK, consumer loop, SUBSCRIBE, retained, PUBACK, QoS 0 fan-out, reconnect | `Delivery`, promise in `AtLeastOnce` |
| Server lifecycle | `internal/server/server.go` | context, listener, connection table, handshake counter | Start, accept, start, completeHandshake, closeAll, wait | `Lifecycle` |
| Broker | `internal/broker/broker.go` | routing tree, retained map, budgets | Subscribe, Unsubscribe, UnsubscribeAll, Publish, RetainedMatching | `Broker` |
| Topic tree | `internal/topic/tree.go` | nodes | Subscribe, Match, Unsubscribe, UnsubscribeAll | `TopicTree` |
| Topic filters | `internal/topic/parse.go`, `internal/protocol/wire.go` | none | MatchFilter, CoversFilter, validity of names and filters | `Topic`, `Filters` |
| Codec | `internal/protocol`, templates in `server.go` | the reader's bytes | decode and encode every packet, complete a queued PUBLISH | `Framing`, `Packet`, `Codec` |
| Access | `internal/auth/local.go`, `internal/server/security.go` | policy, derivation slots, rejection counters | Authenticate, CanUseClientID, CanPublish, CanSubscribe, rejectConnection | `Policy`, `Access` |
| Startup | `internal/config`, `cmd/orbmq` | configuration | validation, Prepare, run | `Policy`, `Access` |
| Observation, password command | `internal/observation`, `cmd/orbmq-password` | none the broker sees | | not modelled |

### How the parts interact

- A handler acquires the client ID under `clientsMu`. It evicts the connection
  that holds it, waits for that connection's cleanup, and only then opens the
  session.
- A publisher takes `clientsMu` for reading over its whole fan-out. The broker
  hands it the subscriptions of one immutable tree.
- A QoS 1 message goes into the session's queue; the consumer goroutine of the
  connection takes it out and sends it through the client. A QoS 0 message goes
  straight to the client's queue.
- The expiry loop deletes due sessions and their routes under `clientsMu`.
- The handshake runs under one deadline from the TLS handshake to CONNACK. It
  asks the policy for a verdict, which costs a password derivation in one of a
  few slots, before it acquires the client ID.
- Cancellation closes the listener, then every registered connection. `Start`
  returns after the expiry loop and all handlers have.

### What is hard here

`PROJECT.json` lists each hazard with its line. The main groups are:

- Packet IDs wrap and outlive connections.
- A capacity-one wakeup channel can hide a change.
- State pointers stay in use after deletion.
- Totals are changed along five paths.
- Takeovers cross each other.
- Cleanup crosses delivery, and expiry crosses reconnection.
- Copy-on-write loses updates if two writers load the same tree.
- A retained publish can cross a SUBSCRIBE.
- Shutdown can cross an accept.
- A deadline can pass while a password is being derived.
- A decoder that stops short of its packet's end misreads all that follow.
- A queued PUBLISH is patched at an offset computed apart from the encoder.

## 2. Modules

### `SessionState`, `SessionStore`

`SessionState` holds one session as a record, with an operator per method.
`SessionStore` adds the map, the totals and the clock. It has one action per
exported method, since each holds the store's mutex throughout.

- `st` maps pointers (`Handle`) to states and keeps deleted ones. `data` maps
  client IDs to pointers. A caller can therefore use a session that was deleted
  or replaced, as in the code.
- A payload is its admission number and its size. A Packet ID is a number up to
  `MaxPacketID` (65535 in the code, small in the runs so that it wraps).
- A sweep fixes its time when it begins, and deletes session by session.

### `Client`, `Outbound`

`Client` has two kinds of process: callers of `Enqueue`, `Send` and `Close`, and
the writer. Each channel operation, each `select` and each write is one step. A
deadline appears as a write that may fail, whole or cut. `Outbound` says what
the rest of the server relies on: accepted packets reach the wire in order, each
whole, until the first that breaks, and nothing afterwards. `Client` implements
`Outbound` under a mapping of its queue and its current packet.

### `Connections`

One process per run of `handleConn`, from CONNECT to the last deferred call.
`clientsMu` sections are single actions. A publisher's read lock spans several,
and keeps writers out through `Lockable`. Sessions are those of `SessionState`
and routes are a function of client and filter. Message queues are left to the
other modules: here Admit changes nothing, and that a session keeps its messages
while nobody has it is shown in `SessionStore` (`MessagesKept`) and `Delivery`.
Authentication is a free choice of
identity or rejection; `Access` makes the choice. A consumer that leaves because
the server's context ended is covered by a connection that fails, as shutdown
closes the connection too.

### `Delivery`, `AtLeastOnce`

Composes `SessionState` with an instance of `Client`. It adds the handler's
CONNACK and SUBSCRIBE sequences, the consumer loop, a live QoS 0 publisher and
the peer's PUBACKs, over `MaxConnections` successive connections. That
connections of a session follow one another is what `Connections` shows.

- A SUBSCRIBE is identified by its number, as by its Packet Identifier, so a
  SUBACK is known as the answer to one of them. The retained messages are a loop:
  each is queued, or sent at once with QoS 0, or dropped by the session's budget;
  a packet that cannot be encoded or sent ends the loop and the connection.
- The peer answers each publish of the present connection at most once. A PUBACK
  that is repeated, or left over from an earlier connection, is in `SessionStore`,
  where any identifier may be acknowledged at any time.

`AtLeastOnce` is what a subscriber may rely on, with no queue, window or
goroutine in it: on each connection the messages not yet answered come once, in
order and without gaps; a message keeps its Packet ID and comes again with DUP;
no two unanswered messages share an identifier; a message goes only when the
client has answered it. `Delivery` implements it under a mapping that takes the
wire from what the peer has received and the acknowledged messages from what is
no longer queued.

### `Lifecycle`

`Start`, the accept loop, the function that runs on cancellation, the expiry
loop, and a handler per connection that registers, may complete its handshake,
and leaves.

### `Policy`, `Access`

`Policy` has what the program may be given, configurations and CONNECT packets,
and the checks that decide whether it starts and with which policy. `Access` is
the start of the program with some configuration, and handlers from the accepted
connection to the end of `serve`. Each handler has one CONNECT request, reaches
its verdict through `Authenticate`, and may then subscribe. A derivation is two
steps, with the deadline, a shutdown and other handlers between them. How a
handler gets the client ID from another connection is left to `Connections`:
here it waits until nobody has it, or gives up. A PUBLISH appears only when it is
refused, since a permitted one touches none of this state.

### `Broker`

Clients with one request at a time and messages each published by a goroutine.
The copy and the store of the tree are two steps, as are the retained update,
the load of the tree and each delivery. A tree is the set of its subscriptions;
`TopicTree` justifies this. Sizes count topic name and payload. An offer fails
when the packet cannot be encoded or queued. A message dropped by a session's
budget is not a failure: `Admit` returns no error then.

### `Topic`, `TopicTree`, `Filters`

`Topic` holds the string algorithms as operators over names that are sequences of
characters, and the MQTT matching rule `Matches`. `TopicTree` has the tree's
recursive walks, drives them, and keeps beside the tree a plain table of
subscriptions, the reference. `Filters` enumerates pairs of filters and compares
`MatchFilter` with that rule, and `CoversFilter`
with inclusion of the matched names.

### `Framing`, `Packet`, `Codec`

All are operators on byte sequences, with a reader that has a limit like
`io.LimitedReader`. `Framing` holds the remaining length, `EncodePublish` and the
templates of queued messages: what the server encodes once, what `Admit` asks of
it and what `Next` writes into a copy. The loops over the four bytes of a length
are written out there, which keeps the module free of recursive operators and so
within reach of the proofs. `Packet` holds the other decoders and encoders, and
next to them the form of each packet as the standard defines it. `Codec` is a connection on which a
client sends two packets, some bytes of which may be changed, lost or doubled,
and a broker that encodes packets and completes templates. Bytes are modelled
because the properties are about them: framing, lengths and offsets.

`MC*` modules give symmetry sets and constant values that a `.cfg` cannot
express. Operators whose comment begins with "Mutant" are used by no
specification. Each is a plausible bug, and putting it in place of the
definition that follows it makes TLC report the property named in
`PROJECT.json`.

## 3. Runs

State counts are distinct states. Times are for two workers.

| Run (cfg) | Question | Properties | States | Time |
|---|---|---|---|---|
| `queue` (MCQueue) | two clients, one session slot: four messages, three Packet IDs, three connections, stale pointers | PacketIDAvailable, QueuesConsistent, WithinLimits, NoLostWakeup, MessagesKept | 736 thousand | 90 s |
| `store` (MCStore) | two sessions under shared budgets, with expiry and stale pointers | Accounting, WithinLimits, ExpiryStep | 3.2 million | 150 s |
| `client` (MCClient) | two callers, queue of two, four packets | SendTruthful, NobodyWaits, ImplementsOutbound | 156 thousand | 20 s |
| `takeover` (MCTakeover) | three connections, two identities, one ID | OneConnection, PausedWhileSubscribing, WillOnce, IdentityIsolated | 527 thousand | 20 s |
| `routes` (MCRoutes) | two connections, two IDs, expiry | ConnectedIffOwned, RoutesMatchSessions, SnapshotsLive, ResumedInTime | 765 thousand | 20 s |
| `takeover_live` (MCTakeoverLive) | does every acquisition end? | AcquireEnds | 71 thousand | 60 s |
| `handshake` (MCHandshake) | CONNACK and the SUBACKs of two SUBSCRIBEs against everything else that sends | RepliesFirst | 3.0 million | 60 s |
| `delivery` (MCDelivery) | three messages and a SUBSCRIBE over two connections: as `AtLeastOnce` promises, and acknowledged in the end? | ImplementsAtLeastOnce, AllAcknowledged | 106 thousand | 30 s |
| `lifecycle` (MCLifecycle) | three connections, limits two and one; does a cancelled server stop? Beside it: six configurations, two connections, one derivation at a time | SlotsExact, NoOrphan, StartWaits, ServerStops; VerdictTruthful, ChecksAccounted, SubscriptionsPermitted, HandshakeEnds | 77 thousand | 20 s |
| `broker` (MCBroker) | two clients, two messages, one topic | NoLostUpdate, RetainedReachesAll, FanOutComplete | 2.1 million | 55 s |
| `retained` (MCRetained) | three messages, three topics, both budgets reached | RetainedBudget, RejectedInvisible | 1.7 million | 75 s |
| `algorithms` (MCAlgorithms) | all tree operations on five overlapping filters; all pairs of filters of up to three levels; packets in and out | TreeExact, FiltersCorrect, DecodeExact, EncodeExact | 451 thousand | 130 s |

All pass, and no disagreement between code and documentation was found.

### Bounds

- `queue`: three Packet IDs, four admissions and three epochs let identifiers
  wrap while older ones are still in use, with a full window at a reconnect.
  Two clients and one slot make the limit on sessions bind; the other limits are
  left to `store`.
- `store`: a session's limits on messages and on bytes and the limits on bytes and
  on subscriptions of all sessions each refuse something that no other limit
  refuses. The limit on messages of all sessions and the one on subscriptions of a
  session do not: two sessions cannot reach the first, and one filter that fits not
  the second. `LimitsCorrect` covers both for all values. A time to live of one
  tick allows a sweep that began before a disconnection and ends after it.
- `client`: one packet being written, two queued, and one refused.
- `takeover`: three connections are the fewest where one evicts while a third
  waits for the same connection.
- `delivery`: the session's pending limit of two with three messages reuses
  Packet IDs, and the second connection replays what the first left. A replay
  of a replay is in `queue`. No QoS 0 messages are sent in this run, so that
  liveness stays affordable; they are in `handshake`.
- `handshake`: two SUBSCRIBEs, so that the SUBACK of the first is on the wire when
  the second is handled.
- `lifecycle`: `Lifecycle` and `Access` share no variable, so `MCLifecycle`
  explores them side by side and not as a product. One slot and two connections
  make the slots run out. The requests lead to every return code; the
  configurations cover both modes, a public address without a policy, a file
  that lists a client ID twice, and none.
- `algorithms`: the tree, the filters and the codec share no variable either.
  Topics that begin with `$` meet the tree's wildcards; filters that begin with it
  are among the pairs `FiltersCorrect` compares.
  Packets of every type, with and without each optional field, are followed by
  another packet. Two damaged bytes can change a length and what it counts. The
  size limit lies between two of the packets. Outgoing sizes lie around the
  boundaries of one, two and three length bytes, lengths around all four.
- `MaxPackets`, `MaxMessages`, `MaxQoS0`, `MaxSubscribes`, `MaxRequests`,
  `MaxTime`, `MaxEpoch`, `MaxAdmits`, `MaxRejections`, `MaxRefused` and
  `MaxDamage` bound counters that the
  code leaves unbounded. `MaxMessages` and `MaxConnections` also name real
  limits, in `Broker` and `Lifecycle`.
- `broker` and `retained` do not check deadlock, since clients stop after their
  requests and messages are published once. The other modules say explicitly
  where they may stop (`Finished`).

### Fairness

- `Client`: the writer and the callers inside a call are scheduled (weak). A
  write ends because `writeLoop` sets a deadline.
- `Connections`: strong for steps that take `clientsMu`, since Go's `RWMutex`
  keeps new readers out while a writer waits. Strong for the end of a SUBSCRIBE
  and for leaving `serve` once the client is closed, since a packet and the
  reader's buffer are finite. Nothing obliges a client to send or to leave.
- `Delivery`: all goroutines weak. The peer reconnects and answers, and the last
  connection does not fail; without that no broker can deliver.
- `Lifecycle`: goroutines weak. `Accept` must return only once the listener is
  closed, and a handler only once its connection is. Strong for the expiry
  loop's exit, because `select` chooses at random among ready cases.

- `Access`: handlers weak, and time passes. At the deadline, or when the server
  is cancelled, every read, write and wait of the handshake returns, since it
  runs under the connection's deadline and `handshakeCtx`; a derivation takes
  bounded time. Nothing obliges a client to send anything.

## 4. Proofs

Every theorem below holds for any sets of clients, connections, pointers,
filters, topics and messages (finite where something is counted), and for all
limits that satisfy the assumption of its module. These are what
`Limits.Validate` and the configuration check, and for a session also that
MaxInflight is at most MaxPacketID.

| Module | Theorem | Property |
|---|---|---|
| `SessionStoreProofs` | TypeCorrect | `TypeOK` |
| | QueueCorrect | `QueuesConsistent` |
| | OrderCorrect | `DeliveryOrder`: queues are in admission order, attempts form a prefix |
| | InflightCorrect | `InflightMatchesQueue`: the map and the queue agree, no Packet ID twice |
| | WindowCorrect | `WindowRespected`: the receive window bounds unacknowledged messages |
| | PacketIDCorrect | `PacketIDAvailable`: the search for a Packet ID terminates |
| | WakeupCorrect, KeptCorrect, ExpiryCorrect | `NoLostWakeup`, `MessagesKept`, `ExpiryStep` |
| | AccountingCorrect, LimitsCorrect | `Accounting`, `WithinLimits`: the totals are exact and no limit is exceeded |
| `ClientProofs` | SendCorrect | `SendTruthful` |
| | ImplementsCorrect | `ImplementsOutbound`, the refinement |
| `ConnectionsProofs` | OneConnectionCorrect, ConnectedCorrect, RoutesCorrect, SnapshotsCorrect, PausedCorrect, WillCorrect | `OneConnection`, `ConnectedIffOwned`, `RoutesMatchSessions`, `SnapshotsLive`, `PausedWhileSubscribing`, `WillOnce` |
| | IsolationCorrect, ResumeCorrect | `IdentityIsolated`, `ResumedInTime` |
| `LifecycleProofs` | SlotsCorrect, NoOrphanCorrect, StartWaitsCorrect | `SlotsExact`, `NoOrphan`, `StartWaits` |
| `BrokerProofs` | NoLostUpdateCorrect, RetainedReachesCorrect, FanOutCorrect, RejectedCorrect | `NoLostUpdate`, `RetainedReachesAll`, `FanOutComplete`, `RejectedInvisible` |
| | BudgetCorrect | `RetainedBudget`: the byte counter is exact, both limits hold |
| | LengthsExact, TemplateExact, PublishFramed | `Framing`: what is written as a length is read as it, completed templates are what `EncodePublish` writes, a PUBLISH says how long it is |
| `DeliveryProofs` | RepliesCorrect | `RepliesFirst` |
| | DeliveryImplements | `ImplementsAtLeastOnce`, the refinement |
| `AccessProofs` | CoversSound, CoversExact, MatchExact | what `CoversFilter` grants, that it decides inclusion, and what `MatchFilter` decides, for all strings |
| | ChecksCorrect, SubscriptionsCorrect, VerdictCorrect | `ChecksAccounted`, `SubscriptionsPermitted`, `VerdictTruthful` |

Each proof has the same plan: an inductive invariant, a lemma per operation or
per kind of step that keeps it, and theorems that follow from it. What the
invariant adds to the properties is the reason why the code is right.

**Sessions.** The order, map and window properties and `PacketIDAvailable` are
not inductive. The window, for one, counts only attempts of the present
connection, while identifiers stay taken across connections: after a reconnect
the counter is zero and the map may be full. What saves the code is that `Next`
always takes the first untried entry. `QueueInv` says so: entries attempted on
this connection are exactly the first `activeInflight` ones, entries ever
attempted are a prefix of length at most `MaxInflight`, and the map is the
inverse of the queue's identifiers. So a new identifier is taken only when all
older ones have been tried again on this connection, and then fewer than
`MaxInflight` are in use. The invariant `IInv` is `TypeOK` with `QueueInv` of
every session. `SessionStateProofs` has the facts about single methods, which the
proofs of `Connections` and `Delivery` share. `SessionStoreProofs` lifts them to
the store. It sorts the steps into those that notify, deliver, acknowledge or pass,
and reads the action properties off that.

The totals are stated as the cardinality of the set of all things held: pairs of
a session and a message, an identifier or a filter, and triples that name each
byte. So a step that adds or removes some of one session's things changes a total
by the size of a disjoint part, which is a fact about finite sets and needs no
induction over a sum. `CapacityInv` adds to `Accounting` and `WithinLimits` that
each session's own counters are exact (`Balanced`) and within its limits
(`Bounded`). This is what the subtraction in `deleteLocked` relies on.

**Client.** `ClientInv` numbers the packets: those in the queue are the last
accepted, the wire holds all earlier ones in order but for the one the writer
holds, and a cut packet is the last the writer touched. With it, each step is a
step of `Outbound` or a stutter under the mapping. A result is true when it is
sent, and stays true, because nothing is written after a failed write. That the
client is closed is reported only of a packet the writer has not reported on: the
result is looked at once more after the close is seen, and a writer's report may
come later but not earlier than that look (`ClosedUnreported`).

**Connections.** `ConnectionsInv` ties a handler's place in `handleConn` to its
own fields (`Placed`), the registry to the handlers (`Registered`), a stored
session to its owner or to nobody (`Stored`, `Owning`), and the routes to the
sessions. The lemmas split the steps in three. Some move a handler
and leave sessions, routes and registry alone (`MoveInv`). Some work on the handler's own session and routes
(`WorkInv`), and cannot disturb others, since a client ID has one owner. The rest
hold `clientsMu` for writing: a handler opens a session, or closes one, or
expiry removes one (`RegisterInv`, `SettleInv`). Only these replace or remove a
session, and no publisher holds a snapshot then.

**Delivery.** The two properties of `Delivery` rest on one invariant, `DeliveryInv`, in
seven parts. `ClientOrder` numbers the packets of the client's queue and writer, as
`ClientInv` does. `Calls` says what each goroutine that waits in `Send` has offered
and whether it was accepted. `Sess` is `QueueInv` with the epochs: the consumer's
epoch is the session's, and below the number of a connection that has not begun
delivery. `Flow` compares the queue with the publishes of this connection, those
accepted and the one the consumer is about to offer: they are in admission order;
each is tried on this connection and still queued, or answered; an entry tried on
this connection is among them, and an untried one is newer than all of them. `Peer`
says that the peer has exactly the publishes written so far, as long as no write
has failed. `History` says that a message in the queue has the identifier of every
earlier copy of it. `Reply` has the places of CONNACK and of the last SUBSCRIBE's
SUBACK; it needs that delivery is paused from the subscription until that SUBACK is
accepted. Most steps touch
one part only (`Aside`). The steps that matter are admission, `Next`, the acceptance
of a packet, a write, an acknowledgement and a reconnect.

For the refinement, only admission, a whole write of a publish, an acknowledgement
and a reconnect change what `AtLeastOnce` sees; all other steps stutter. A write is
a `Carry` because of `Flow` and `Peer` (nothing older is unanswered and not yet on
the wire, `NoGaps`), `History` (the identifier is the earlier one) and `QueueInv` (no
other message that is not answered has it, `SameIdentifier`).

**Lifecycle.** `LifecycleInv` orders the goroutines. A handshake is counted exactly
while its connection is in the table and marked. The shutdown function runs only
when `start` can no longer register, under a cancelled context or after the
accept loop, so what it copies from the table is all there will be. `Start`
goes on only when what it waits for is done.

**Broker.** `BrokerInv` says that a clone is one of the tree now stored, since
only the holder of `topicsMu` has one; and, for each client and message, that
the message was tried, is still to be tried, or will be found by the client's
own read of the retained map. Storing before loading in `Publish`, and
subscribing before reading in `handleSubscribe`, keep that true. The byte budget
is again a cardinality, of the set of bytes that topics and payloads occupy
(`Measured`); replacing a message exchanges one topic's part of it.

**Framing.** These three theorems are about bytes, not about steps, and hold for
every length, topic, payload and identifier. `LengthsExact` goes through the four
forms of a length; in each, what the decoder adds up is the quotients and
remainders the encoder took. `TemplateExact` compares two packets: what comes before the
identifier differs in the first byte at most (`Preambles`), its length is what
`publishPacketIDOffset` says because `encodedLengthSize` is right (`LengthsExact`),
and so what `Next` overwrites, the first byte and the two at the offset, is all that
differs (`Patched`). `PublishFramed` follows from `LengthsExact` once the packet is
regrouped as header and rest. The assumptions are that the topic is valid and
shorter than 65536 bytes, as its length is a uint16 when it arrives, that all
of it fits in `MaxRemainingLength`, which `EncodePublish` checks, and that the
identifier is not 0, which `Next` skips.

**Topics.** The proofs work on the levels of a string. `Split` is defined by where
levels start, and the lemmas show that it is a sequence of the strings between
separators, that its first level begins as the string does, and that a wildcard
character of a valid filter is a level of its own, `#` the last. Then `MatchExact`
compares the loop with the rule level by level. `CoversSound` goes through the
position at which the loop over the allowed filter stops. The one hard case is
`#` requested: it also matches its parent level, so the code reads `#` and `/#`
as if one more level were required, and every valid topic has that level.
`CoversExact` adds the converse. If a rule matches all topics of a filter then it
matches two: the filter with another character in place of each wildcard, and, when
the filter ends in `#`, the same without that level. If the character does not occur
in the rule, then the rule has `+` where the filter has it, and a rule that matches
topics of both lengths has a `#` no later than the filter. The theorem assumes that
such a character exists. UTF-8 has more characters than a filter has bytes, so
the code's strings leave one.

**Access.** `AccessInv` ties a handler's place to its return code, its request and
its session (`Sound`), the policy to the file the server was started with
(`Started`), one served connection to a client ID (`Sole`), and a session to an
identity that may use its client ID and may subscribe to each of its filters
(`Owned`). The file's users and the policy's entries are in bijection and no client
ID is listed for two users (`PolicyUsers`, from the checks in `New`), so an
accepted connection never meets a session of another identity: the owner check in
`acquireConnection` cannot fail, which is part of `VerdictCorrect`.
`SubscriptionsCorrect` then follows from `CoversSound`. The assumption on the
constants is that connections are finitely many, that names and wills are valid
topics, which the decoder checks, and that filters are strings.

### Only model-checked

- Liveness: `NobodyWaits`, `AcquireEnds`, `AllAcknowledged`, `ServerStops`,
  `HandshakeEnds`. Fairness is out of the prover's reach.
- `TreeExact` and `DecodeExact`: the tree's walks and the decoders are recursive
  operators, and what those compute for every input needs induction.
- `EncodeExact` as the run states it, for packets of every type and small sizes.
  Of a PUBLISH with QoS 1, the one that is completed from a template,
  `TemplateExact` and `PublishFramed` say it for all sizes.
- `FiltersCorrect` as the run states it, over the strings it enumerates.
  `MatchExact` and `CoversExact` are its two parts for all strings.

## 5. Not modelled

- Text beyond ASCII: a byte from 128 on makes a string invalid here.
- Deriving and parsing password hashes, and TLS itself: library code. A password
  verifies when it is the one that was hashed, and a TLS handshake succeeds or
  fails. Of a user name the policy file may hold, only that it is not empty is
  checked: its length, encoding and characters are not modelled.
- Reading YAML and resolving paths; the single numeric checks of a
  configuration, which are one flag.
- The observer, which reads counters and logs differences, the password command,
  and logging.
- The slice pool of `Match` and the buffer pool of the encoder, which recycle
  memory. `EncodeRetained`, which only a test calls.
- In `Connections`, `Delivery` and `Broker`, the content of packets beyond kind,
  message, Packet ID and DUP. This includes the session-present flag of CONNACK.
- The error of `encodeRemainingLength` for a length out of range: every encoder
  checks the length before.

Behaviour the models show and no document excludes:

- A live QoS 0 message may precede a SUBACK.
- A publisher that loaded the tree before an UNSUBSCRIBE may deliver after its
  UNSUBACK.
- A QoS 1 message that a session's budget drops is still acknowledged to its
  publisher.
- The decoder accepts a remaining length in more bytes than it needs, a will
  with QoS 3, a PUBLISH with QoS 2, and an empty client ID with a clean session.
- With a policy that `New` accepts, `ErrSessionOwner` never occurs: a client ID
  belongs to one user.

## 6. Plan

Done: the session core, the client and its refinement, handlers, delivery and its
refinement, lifecycle, access, broker, topics and codec; proofs of the safety of
all of them but the topic tree and the decoders, and of both refinements.

Next: the tree's walks and the decoders as recursive functions, should the prover
learn to instantiate an induction theorem.
