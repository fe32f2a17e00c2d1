---------------------------- MODULE AtLeastOnce -----------------------------
(***************************************************************************)
(* What a persistent session promises its subscriber about QoS 1 messages, *)
(* numbered in the order they were admitted.  A connection carries each    *)
(* message that is not acknowledged at most once, in order and without     *)
(* gaps; a message is sent again under the Packet Identifier it had, with  *)
(* DUP set, and no two unacknowledged messages share one; a message leaves *)
(* only when the client answers it.                                        *)
(***************************************************************************)
EXTENDS Integers, Sequences

CONSTANT PacketIDs

VARIABLES
  admitted,  \* how many messages were admitted
  acked,     \* the ones the client has answered
  conn,      \* number of the present connection
  wire,      \* the publishes it has carried
  sent       \* messages ever carried, with their Packet Identifiers
vars == <<admitted, acked, conn, wire, sent>>

Init ==
  /\ admitted = 0 /\ acked = {}
  /\ conn = 1 /\ wire = <<>> /\ sent = {}

Carried(m) == \E i \in 1 .. Len(wire) : wire[i].msg = m

Admit ==
  /\ admitted' = admitted + 1
  /\ UNCHANGED <<acked, conn, wire, sent>>

\* An attempt that never reached the wire also makes the next one a DUP.
Carry(m, pid, dup) ==
  /\ m \notin acked /\ ~Carried(m)
  /\ \A k \in 1 .. m - 1 : k \in acked \/ Carried(k)
  /\ \A x \in sent : /\ x.msg = m => x.pid = pid /\ dup
                     /\ x.pid = pid => x.msg = m \/ x.msg \in acked
  /\ dup => conn > 1
  /\ wire' = Append(wire, [msg |-> m, pid |-> pid, dup |-> dup])
  /\ sent' = sent \cup {[msg |-> m, pid |-> pid]}
  /\ UNCHANGED <<admitted, acked, conn>>

Acknowledge(m) ==
  /\ Carried(m)
  /\ acked' = acked \cup {m}
  /\ UNCHANGED <<admitted, conn, wire, sent>>

Reconnect ==
  /\ conn' = conn + 1
  /\ wire' = <<>>
  /\ UNCHANGED <<admitted, acked, sent>>

Next ==
  \/ Admit
  \/ \E m \in 1 .. admitted :
       \/ Acknowledge(m)
       \/ \E pid \in PacketIDs, dup \in BOOLEAN : Carry(m, pid, dup)
  \/ Reconnect

Spec == Init /\ [][Next]_vars
=============================================================================
