------------------------------- MODULE Policy -------------------------------
(***************************************************************************)
(* What the program may be started with and be asked: configurations and   *)
(* CONNECT packets, which configurations are accepted (internal/config),   *)
(* and the policy made from a credentials file (internal/auth).            *)
(*                                                                         *)
(* A configuration says whether its numbers are in range, whether the      *)
(* address is a literal loopback address, which users its credentials file *)
(* lists and whether it names a certificate and key that load.             *)
(***************************************************************************)
EXTENDS Topic, Functions

CONSTANTS
  Client,     \* connections
  Configs,    \* configuration files the program may be started with
  Requests,   \* CONNECT packets: username, password, id, will, clean
  Filters,    \* filters of SUBSCRIBE packets
  Names,      \* topics of PUBLISH packets
  NoPolicy,   \* the nil *auth.Local, and no credentials file
  Missing,    \* an absent field of a CONNECT packet
  MaxSlots    \* GOMAXPROCS

\* Mutant: two users may list the same client ID.
ValidUsersSharedIDs(users) ==
  /\ users # <<>>
  /\ \A i \in DOMAIN users :
       /\ users[i].username # "" /\ users[i].clientIDs # <<>>
       /\ \A j \in 1 .. i - 1 : users[j].username # users[i].username
       /\ \A f \in users[i].publish \cup users[i].subscribe : ValidFilter(f)

\* The checks of New: no two entries share a username, and no client ID is
\* listed twice, by one user or by two.
ValidUsers(users) ==
  LET Listed(i) == users[i].clientIDs
  IN  /\ users # <<>>
      /\ \A i \in DOMAIN users :
           /\ users[i].username # "" /\ Listed(i) # <<>>
           /\ \A j \in 1 .. i - 1 : users[j].username # users[i].username
           /\ \A id \in Range(Listed(i)) :
                /\ ValidTopic(id)
                /\ \A j \in 1 .. i - 1 : id \notin Range(Listed(j))
           /\ IsInjective(Listed(i))
           /\ \A f \in users[i].publish \cup users[i].subscribe : ValidFilter(f)

New(users) ==
  [u \in {users[i].username : i \in DOMAIN users} |->
     CHOOSE entry \in Range(users) : entry.username = u]

\* Security.validate.
validate(c) ==
  \/ c.mode = "development" /\ c.loopback /\ c.users = NoPolicy /\ ~c.tls
  \/ c.mode = "secure" /\ c.users # NoPolicy /\ c.tls

\* Config.Validate.
Validate(c) == c.inRange /\ validate(c)

\* Prepare and loadCredentials fail with an invalid user.
Startable(c) == Validate(c) /\ (c.mode = "secure" => ValidUsers(c.users))

-----------------------------------------------------------------------------
\* Connections are finitely many and a request has all its fields.  Names and
\* filters are text; the decoder lets through valid topics only, also in a
\* will.  New returns no nil policy.
ASSUME PolicyAssumption ==
  /\ IsFiniteSet(Client)
  /\ MaxSlots \in Nat
  /\ Names \cup Filters \subseteq Seq(STRING)
  /\ \A name \in Names : ValidTopic(name)
  /\ \A r \in Requests : r.will # Missing => ValidTopic(r.will)
  /\ \A c \in Configs : Startable(c) /\ c.mode = "secure" =>
       /\ New(c.users) # NoPolicy
       /\ c.users \in Seq(Range(c.users))
       /\ \A u \in Range(c.users) : u.publish \cup u.subscribe \subseteq Seq(STRING)
=============================================================================
