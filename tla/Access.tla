------------------------------- MODULE Access -------------------------------
(***************************************************************************)
(* Who may connect: the start of the program (cmd/orbmq, internal/config), *)
(* the policy of internal/auth, and the handshake of handleConn up to the  *)
(* session.  Handlers run concurrently; they share the slots for password  *)
(* derivations, the rejection counters and the sessions.                   *)
(*                                                                         *)
(* A password verifies when it equals the one the hash was made from.      *)
(***************************************************************************)
EXTENDS Policy

CONSTANT MaxRefused  \* bound of the model: PUBLISH and SUBSCRIBE packets refused

VARIABLES
  config,     \* the configuration; Missing before it is read
  server,     \* starting, listening or failed
  policy,     \* Server.auth
  cancelled,  \* the server's context is cancelled
  late,       \* connections whose handshake deadline has passed
  stage,      \* where each handleConn is
  req,        \* its CONNECT packet
  code,       \* the return code decided for its CONNACK
  slots,      \* len(Local.slots)
  stats,      \* AuthenticationRejections and AuthorizationRejections
  refused,    \* PUBLISH packets and filters of SUBSCRIBE refused so far
  owner,      \* the identity each session belongs to; Missing without one
  subs        \* the filters each session is subscribed to

serverVars == <<config, server, policy>>
sessionVars == <<owner, subs>>
accessVars == <<serverVars, cancelled, late, stage, req, code, slots, stats, refused,
          sessionVars>>

ID == {r.id : r \in Requests}

AccessInit ==
  /\ config = Missing
  /\ server = "starting" /\ policy = NoPolicy
  /\ cancelled = FALSE /\ late = {}
  /\ stage = [c \in Client |-> "connect"]
  /\ req = [c \in Client |-> Missing]
  /\ code = [c \in Client |-> "none"]
  /\ slots = 0
  /\ stats = [authentication |-> 0, authorization |-> 0] /\ refused = 0
  /\ owner = [id \in ID |-> Missing]
  /\ subs = [id \in ID |-> {}]

-----------------------------------------------------------------------------
(* The policy.                                                             *)

\* The comparison at the end of Authenticate; an absent field is read as "".
verify(r) ==
  LET Given(x) == IF x = Missing THEN "" ELSE x
  IN  /\ Given(r.username) \in DOMAIN policy
      /\ policy[Given(r.username)].password = Given(r.password)

CanUseClientID(identity, id) == id \in Range(policy[identity].clientIDs)

CanPublish(identity, name) ==
  ValidTopic(name) /\ \E f \in policy[identity].publish : MatchFilter(f, name)

\* Mutant: the filter is looked up as if it were a topic.
CanSubscribeMatch(identity, filter) ==
  ValidFilter(filter) /\ \E f \in policy[identity].subscribe : MatchFilter(f, filter)

CanSubscribe(identity, filter) ==
  ValidFilter(filter) /\ \E f \in policy[identity].subscribe : CoversFilter(f, filter)

-----------------------------------------------------------------------------
(* run: Load, Prepare, New and Start.                                      *)

Run ==
  /\ server = "starting"
  /\ \E c \in Configs :
       /\ config' = c
       /\ server' = IF Startable(c) THEN "listening" ELSE "failed"
       /\ policy' = IF Startable(c) /\ c.mode = "secure" THEN New(c.users)
                                                       ELSE NoPolicy
  /\ UNCHANGED <<cancelled, late, stage, req, code, slots, stats, refused, sessionVars>>

-----------------------------------------------------------------------------
(* handleConn.                                                             *)

Goto(c, l) == stage' = [stage EXCEPT ![c] = l]

\* Mutant: the deadline is not set.
OverCancelled(c) == cancelled

\* handshakeCtx.Err() # nil, and the connection's own deadline
Over(c) == cancelled \/ c \in late

Shutdown ==
  /\ server = "listening" /\ ~cancelled
  /\ cancelled' = TRUE
  /\ UNCHANGED <<serverVars, late, stage, req, code, slots, stats, refused, sessionVars>>

InHandshake(c) ==
  stage[c] \in {"connect", "authenticate", "verify", "acquire", "reject"}

\* The handshake deadline passes.
Deadline(c) ==
  /\ server = "listening"
  /\ InHandshake(c) /\ c \notin late
  /\ late' = late \cup {c}
  /\ UNCHANGED <<serverVars, cancelled, stage, req, code, slots, stats, refused, sessionVars>>

\* handshake: a CONNECT packet arrives.
Connect(c) ==
  /\ server = "listening"
  /\ stage[c] = "connect" /\ ~Over(c)
  /\ \E r \in Requests : req' = [req EXCEPT ![c] = r]
  /\ Goto(c, "authenticate")
  /\ UNCHANGED <<serverVars, cancelled, late, code, slots, stats, refused, sessionVars>>

Decide(c, v) ==
  /\ code' = [code EXCEPT ![c] = v]
  /\ Goto(c, IF v = "accepted" THEN "acquire" ELSE "reject")

\* Authenticate up to the derivation: a slot, or ErrBusy.
Authenticate(c) ==
  /\ stage[c] = "authenticate"
  /\ \/ /\ policy = NoPolicy
        /\ Decide(c, "accepted")
        /\ UNCHANGED slots
     \/ /\ policy # NoPolicy
        /\ Over(c) \/ slots = MaxSlots
        /\ Decide(c, "unavailable")
        /\ UNCHANGED slots
     \/ /\ policy # NoPolicy
        /\ ~Over(c) /\ slots < MaxSlots
        /\ slots' = slots + 1
        /\ Goto(c, "verify")
        /\ UNCHANGED code
  /\ UNCHANGED <<serverVars, cancelled, late, req, stats, refused, sessionVars>>

\* The rest of authenticateConnect.
Verdict(c) ==
  LET r == req[c]
  IN  IF Over(c) THEN "unavailable"
      ELSE IF ~verify(r) \/ Missing \in {r.username, r.password} THEN "badCredentials"
      ELSE IF ~CanUseClientID(r.username, r.id) THEN "notAuthorized"
      ELSE IF r.will # Missing /\ ~CanPublish(r.username, r.will) THEN "notAuthorized"
      ELSE "accepted"

\* Mutant: a derivation that ends too late keeps its slot.
VerifiedLeak(c) ==
  /\ stage[c] = "verify"
  /\ slots' = IF Over(c) THEN slots ELSE slots - 1
  /\ Decide(c, Verdict(c))
  /\ UNCHANGED <<serverVars, cancelled, late, req, stats, refused, sessionVars>>

\* The derivation ends; the deferred function gives the slot back.
Verified(c) ==
  /\ stage[c] = "verify"
  /\ slots' = slots - 1
  /\ Decide(c, Verdict(c))
  /\ UNCHANGED <<serverVars, cancelled, late, req, stats, refused, sessionVars>>

\* rejectConnection; its CONNACK may or may not be sent.
Reject(c) ==
  /\ stage[c] = "reject"
  /\ stats' = IF code[c] = "notAuthorized"
              THEN [stats EXCEPT !.authorization = @ + 1]
              ELSE [stats EXCEPT !.authentication = @ + 1]
  /\ Goto(c, "returned")
  /\ req' = [req EXCEPT ![c] = Missing]
  /\ UNCHANGED <<serverVars, cancelled, late, code, slots, refused, sessionVars>>

Identity(c) == IF policy = NoPolicy THEN "" ELSE req[c].username

\* acquireConnection, once no other connection has the client ID; how it gets
\* there, and CONNACK, are in Connections.
Acquire(c) ==
  LET id == req[c].id
  IN  /\ stage[c] = "acquire"
      /\ ~Over(c)
      /\ IF owner[id] \notin {Missing, Identity(c)}
         THEN Decide(c, "notAuthorized") /\ UNCHANGED sessionVars
         ELSE /\ \A d \in Client : stage[d] = "serve" => req[d].id # id
              /\ owner' = [owner EXCEPT ![id] = Identity(c)]
              /\ subs' = IF req[c].clean THEN [subs EXCEPT ![id] = {}] ELSE subs
              /\ Goto(c, "serve")
              /\ UNCHANGED code
      /\ UNCHANGED <<serverVars, cancelled, late, req, slots, stats, refused>>

\* Anything else ends the handshake: TLS, the CONNECT packet, the wait for the
\* session, the session limit or CONNACK fails, at the deadline at the latest.
Abandon(c) ==
  /\ server = "listening"
  /\ stage[c] \in {"connect", "acquire"}
  /\ Goto(c, "returned")
  /\ req' = [req EXCEPT ![c] = Missing]
  /\ UNCHANGED <<serverVars, cancelled, late, code, slots, stats, refused, sessionVars>>

Delete(id) ==
  /\ owner' = [owner EXCEPT ![id] = Missing]
  /\ subs' = [subs EXCEPT ![id] = {}]

\* handleConn returns; a clean session goes, a persistent one stays.
Return(c) ==
  /\ Goto(c, "returned")
  /\ IF req[c].clean THEN Delete(req[c].id) ELSE UNCHANGED sessionVars
  /\ req' = [req EXCEPT ![c] = Missing]
  /\ UNCHANGED <<serverVars, cancelled, late, code, slots>>

Disconnect(c) == stage[c] = "serve" /\ Return(c) /\ UNCHANGED <<stats, refused>>

recordAuthorizationRejection ==
  /\ refused < MaxRefused
  /\ refused' = refused + 1
  /\ stats' = [stats EXCEPT !.authorization = @ + 1]

\* handlePacket with a PUBLISH that canPublish refuses: the connection ends.
PublishRefused(c) ==
  /\ stage[c] = "serve" /\ policy # NoPolicy
  /\ \E name \in Names : ~CanPublish(owner[req[c].id], name)
  /\ recordAuthorizationRejection
  /\ Return(c)

\* One filter of a SUBSCRIBE packet: granted, or answered with 0x80.
Subscribe(c, filter) ==
  LET id == req[c].id
      canSubscribe == policy = NoPolicy \/ CanSubscribe(owner[id], filter)
  IN  /\ stage[c] = "serve"
      /\ IF canSubscribe
         THEN subs' = [subs EXCEPT ![id] = @ \cup {filter}] /\ UNCHANGED <<stats, refused>>
         ELSE recordAuthorizationRejection /\ UNCHANGED subs
      /\ UNCHANGED <<serverVars, cancelled, late, stage, req, code, slots, owner>>

Unsubscribe(c, filter) ==
  /\ stage[c] = "serve"
  /\ subs' = [subs EXCEPT ![req[c].id] = @ \ {filter}]
  /\ UNCHANGED <<serverVars, cancelled, late, stage, req, code, slots, stats, refused, owner>>

\* A session without a connection expires.
Expire(id) ==
  /\ owner[id] # Missing
  /\ \A c \in Client : stage[c] = "serve" => req[c].id # id
  /\ Delete(id)
  /\ UNCHANGED <<serverVars, cancelled, late, stage, req, code, slots, stats, refused>>

AccessFinished ==
  /\ server = "failed" \/ \A c \in Client : stage[c] = "returned"
  /\ UNCHANGED accessVars

Advance(c) ==
  \/ Authenticate(c) \/ Verified(c) \/ Reject(c)
  \/ Over(c) /\ Abandon(c)

AccessNext ==
  \/ Run \/ Shutdown
  \/ \E c \in Client :
       \/ Deadline(c) \/ Connect(c) \/ Advance(c)
       \/ Acquire(c) \/ Abandon(c) \/ Disconnect(c) \/ PublishRefused(c)
       \/ \E f \in Filters : Subscribe(c, f) \/ Unsubscribe(c, f)
  \/ \E id \in ID : Expire(id)
  \/ AccessFinished

\* Handlers run, time passes, and at the deadline every read, write and wait
\* of the handshake returns; a derivation takes bounded time.
AccessFairness == \A c \in Client : WF_accessVars(Advance(c)) /\ WF_accessVars(Deadline(c))

AccessSpec == AccessInit /\ [][AccessNext]_accessVars /\ AccessFairness

-----------------------------------------------------------------------------
(* Properties.                                                             *)

Valid(r) ==
  /\ Missing \notin {r.username, r.password}
  /\ \E u \in Range(config.users) :
       u.username = r.username /\ u.password = r.password
Permitted(r) ==
  \E u \in Range(config.users) :
    /\ u.username = r.username
    /\ r.id \in Range(u.clientIDs)
    /\ r.will # Missing => \E f \in u.publish : MatchFilter(f, r.will)

\* The return code tells the truth about the request, however the deadline, a
\* shutdown and other handlers interleave: a request is accepted only with
\* credentials and permissions from the file, or without any on a loopback
\* address; bad credentials and missing permissions are reported as such; a
\* valid request is refused only for lack of time or of a free slot, and never
\* because a session of its client ID belongs to another identity.
VerdictTruthful ==
  [][\A c \in Client :
       code'[c] # code[c] =>
         CASE code'[c] = "accepted" ->
                IF config.mode = "secure"
                THEN config.tls /\ Valid(req[c]) /\ Permitted(req[c])
                ELSE config.loopback
           [] code'[c] = "badCredentials" -> ~Valid(req[c])
           [] code'[c] = "notAuthorized" -> Valid(req[c]) /\ ~Permitted(req[c])
           [] code'[c] = "unavailable" ->
                \/ Over(c)
                \/ MaxSlots = Cardinality({d \in Client : stage[d] = "verify"})
    ]_accessVars

\* A derivation has a slot for exactly as long as it runs, also when the
\* handshake ends meanwhile; and every refusal, of a CONNECT or of a later
\* packet, is counted once, for its reason.
ChecksAccounted ==
  LET Refused(codes) ==
        Cardinality({c \in Client : stage[c] = "returned" /\ code[c] \in codes})
  IN  /\ slots = Cardinality({c \in Client : stage[c] = "verify"})
      /\ slots <= MaxSlots
      /\ stats.authentication = Refused({"unavailable", "badCredentials"})
      /\ stats.authorization = Refused({"notAuthorized"}) + refused

\* A session has one identity from the file, the one its client ID is listed
\* for, through all connections, takeovers and expiries; and whatever topic its
\* subscriptions match is one that a rule of this identity matches.  Without a
\* policy no session has an identity.
SubscriptionsPermitted ==
  \A id \in ID : owner[id] # Missing =>
    IF policy = NoPolicy THEN owner[id] = ""
    ELSE \E u \in Range(config.users) :
           /\ u.username = owner[id] /\ id \in Range(u.clientIDs)
           /\ \A f \in subs[id], name \in Names :
                MatchFilter(f, name) => \E g \in u.subscribe : MatchFilter(g, name)

\* A handshake ends, whatever the client does or fails to do, so a silent
\* client does not hold a handshake slot of the server for ever.
HandshakeEnds ==
  \A c \in Client :
    server = "listening" /\ InHandshake(c) ~> stage[c] \in {"serve", "returned"}
=============================================================================
