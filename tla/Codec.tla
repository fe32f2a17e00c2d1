------------------------------- MODULE Codec --------------------------------
(***************************************************************************)
(* The codec of Packet at work: a connection whose client sends packets,   *)
(* read by the broker one after the other, and the packets the broker      *)
(* encodes.                                                                *)
(***************************************************************************)
EXTENDS Packet

CONSTANTS
  Packets, Followers,  \* packets a client sends, and what it may send next
  DamagedBytes,        \* what a damaged byte turns into
  MaxDamage,           \* bound of the model: how many bytes are damaged
  Limit,               \* Server.maxPacketSize
  Outgoing,            \* packets the broker sends
  PacketIDs,           \* Packet Identifiers that Next assigns
  Lengths              \* remaining lengths

VARIABLES
  stream,   \* the bytes in a connection's reader
  pending,  \* the packets its client has sent, while the bytes are intact
  damaged,  \* how many of them are not
  out,      \* a packet the broker encodes
  length    \* a remaining length it encodes
vars == <<stream, pending, damaged, out, length>>

-----------------------------------------------------------------------------
(* A client sends two packets, of which bytes may get changed, lost or     *)
(* doubled, and the broker reads them; the broker encodes packets.         *)

Init ==
  /\ stream = <<>> /\ pending = <<>> /\ damaged = 0
  /\ out = PingRespPacket
  /\ length = 0

Send(p, q) ==
  /\ pending' = <<p, q>>
  /\ stream' = Form(p) \o Form(q)
  /\ UNCHANGED <<damaged, out, length>>

Damage(i) ==
  /\ damaged < MaxDamage /\ Len(pending) = 2
  /\ damaged' = damaged + 1
  /\ \/ stream' = RemoveAt(stream, i)
     \/ stream' = InsertAt(stream, i, stream[i])
     \/ \E b \in DamagedBytes : stream' = ReplaceAt(stream, i, b)
  /\ UNCHANGED <<pending, out, length>>

\* serve reads one packet; an error ends the connection.
Receive ==
  /\ damaged = 0 /\ pending # <<>>
  /\ \E d \in {DecodeWithLimit(stream, Limit)} :
       /\ stream' = d.in
       /\ pending' = IF d.ok THEN Tail(pending) ELSE <<>>
  /\ UNCHANGED <<damaged, out, length>>

Produce(p) == out' = p /\ UNCHANGED <<stream, pending, damaged, length>>
SetLength(n) == length' = n /\ UNCHANGED <<stream, pending, damaged, out>>

\* The connection ends, or the packet is sent.
Finish ==
  /\ stream' = <<>> /\ pending' = <<>> /\ damaged' = 0
  /\ out' = PingRespPacket /\ length' = 0

Next ==
  \/ Finish
  \/ Init /\ \E p \in Packets, q \in Followers : Send(p, q)
  \/ \E i \in DOMAIN stream : Damage(i)
  \/ Receive
  \/ Init /\ \E p \in Outgoing : Produce(p)
  \/ Init /\ \E n \in Lengths : SetLength(n)

Spec == Init /\ [][Next]_vars

-----------------------------------------------------------------------------
(* Properties.                                                             *)

\* The number that the bytes of a remaining length stand for.
Announced(size) ==
  LET Digit(b, high) == (b % 128) + 128 * high
  IN  FoldRight(Digit, size, 0)

\* What the reader makes of the stream, d, is what stands at its front.
AtFront(d) ==
  LET used == SubSeq(stream, 1, Len(stream) - Len(d.in))
  IN  /\ d.ok =>
           /\ Len(used) <= Limit
           /\ \E k \in 2 .. 5 :
                LET size == SubSeq(used, 2, k)
                IN  /\ used = <<Header(d.v)>> \o size \o Body(d.v)
                    /\ Announced(size) = Len(Body(d.v))
      /\ pending # <<>> /\ damaged = 0 =>
           IF Len(Form(Head(pending))) <= Limit
           THEN d.ok /\ d.v = Head(pending) /\ stream = used \o d.in
                /\ d.in = FlattenSeq([i \in 1 .. Len(pending) - 1 |-> Form(pending[i + 1])])
           ELSE ~d.ok

\* The reader stays in step with the client.  An intact packet within the
\* limit is decoded to what was sent and the next one begins where it ends;
\* and whatever bytes come, what is accepted is the form of the packet that
\* is returned, as long as it announces and within the limit: no byte is
\* skipped, or taken from the packet that follows.
DecodeExact == AtFront(DecodeWithLimit(stream, Limit))

Reader(bytes) == [ok |-> TRUE, v |-> 0, in |-> bytes, n |-> Len(bytes)]

\* What the broker sends is what it means to send.  Remaining lengths survive
\* the way through their one to four bytes, at every boundary, with nothing
\* read beyond them; the size the server computes for them is theirs; and every
\* packet announces its own length.  A queued template with another Packet
\* Identifier and DUP patched into it is the packet that EncodePublish gives
\* for them, whatever the sizes of topic and payload: the patch falls on the
\* identifier and on nothing else.
EncodeExact ==
  LET bytes == encodeRemainingLength(length)
      d == decodeRemainingLength(Reader(bytes \o <<200>>))
      sent == IF out.type = "publish" THEN EncodePublish(out) ELSE Encode(out)
      body == decodeRemainingLength(Reader(Tail(sent.v)))
      p == newOutboundPublish(out, 1)
      t == newPublishTemplate(p)
  IN  /\ d.ok /\ d.v = length /\ d.in = <<200>>
      /\ Len(bytes) = encodedLengthSize(length)
      /\ sent.ok /\ body.ok /\ body.v = Len(body.in)
      /\ out.type = "publish" /\ out.qos = 1 =>
           /\ Admissible(t)
           /\ \A pid \in PacketIDs, dup \in BOOLEAN :
                Attempt(t, pid, dup) = EncodePublish([p EXCEPT !.pid = pid, !.dup = dup]).v
=============================================================================
