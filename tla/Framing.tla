------------------------------ MODULE Framing -------------------------------
(***************************************************************************)
(* How the bytes of a packet are framed (internal/protocol): the remaining *)
(* length of one to four bytes, the form of a PUBLISH, and the templates   *)
(* that the server encodes once per message (internal/server) and that the *)
(* session queue completes for every attempt (internal/session).           *)
(*                                                                         *)
(* A stream is a sequence of numbers below 256, and text is kept as bytes; *)
(* it is ASCII here, so a byte from 128 on is not valid UTF-8.  A function *)
(* that returns an error returns Fail.  The loops over the bytes of a      *)
(* length are written out, since they take at most four passes.            *)
(***************************************************************************)
EXTENDS Topic, TLC

PublishPacket(topic, payload, retain, dup, qos, pid) ==
  [type |-> "publish", topic |-> topic, payload |-> payload, retain |-> retain,
   dup |-> dup, qos |-> qos, pid |-> pid]

\* The bit of b that a mask selects, and the two bits from there on.
Bit(b, mask) == (b \div mask) % 2 = 1
TwoBits(b, mask) == (b \div mask) % 4

\* The characters of Topic; it gives no other byte a meaning.
Text(bytes) ==
  [i \in DOMAIN bytes |-> CASE bytes[i] = 35 -> "#"
                            [] bytes[i] = 43 -> "+"
                            [] bytes[i] = 47 -> "/"
                            [] OTHER -> ToString(bytes[i])]
validateTopicName(bytes) == ValidTopic(Text(bytes))
ValidateTopicFilter(bytes) == ValidFilter(Text(bytes))

-----------------------------------------------------------------------------
(* Reading.  A reader has the bytes to come, the number it may still read  *)
(* (io.LimitedReader.N), and the value it read last.                       *)

Fail == [ok |-> FALSE, v |-> 0, in |-> <<>>, n |-> 0]
Value(r, v) == [ok |-> r.ok, v |-> v, in |-> r.in, n |-> r.n]

\* io.ReadFull of k bytes.
Take(r, k) ==
  IF r.ok /\ k <= r.n /\ k <= Len(r.in)
  THEN [ok |-> TRUE, v |-> SubSeq(r.in, 1, k),
        in |-> SubSeq(r.in, k + 1, Len(r.in)), n |-> r.n - k]
  ELSE Fail

\* An error ends the reading.
Then(r, v) == IF r.ok THEN Value(r, v) ELSE Fail

readByte(r) == LET Byte(t) == Then(t, t.v[1]) IN Byte(Take(r, 1))

\* decodeRemainingLength: seven bits a byte, lowest first, at most four bytes.
decodeRemainingLength(r) ==
  LET a == readByte(r)
      b == readByte(a)
      c == readByte(b)
      d == readByte(c)
      Ends(t) == ~t.ok \/ t.v < 128
      Low(t) == t.v % 128
  IN  IF Ends(a) THEN a
      ELSE IF Ends(b) THEN Then(b, Low(a) + 128 * b.v)
      ELSE IF Ends(c) THEN Then(c, Low(a) + 128 * (Low(b) + 128 * c.v))
      ELSE IF Ends(d) THEN Then(d, Low(a) + 128 * (Low(b) + 128 * (Low(c) + 128 * d.v)))
      ELSE Fail

-----------------------------------------------------------------------------
(* Writing.                                                                *)

Uint16(n) == <<n \div 256, n % 256>>
Flag(condition, b) == IF condition THEN b ELSE 0
Written(bytes) == [ok |-> TRUE, v |-> bytes]

MaxRemainingLength == 268435455

\* Called with lengths up to MaxRemainingLength.
encodeRemainingLength(n) ==
  LET m == n \div 128
      k == m \div 128
      j == k \div 128
      More(x) == 128 + (x % 128)
  IN  IF m = 0 THEN <<n>>
      ELSE <<More(n)>> \o (IF k = 0 THEN <<m>>
                           ELSE <<More(m)>> \o (IF j = 0 THEN <<k>>
                                                ELSE <<More(k)>> \o <<j>>))

EncodePublish(p) ==
  LET remaining == 2 + Len(p.topic) + Flag(p.qos > 0, 2) + Len(p.payload)
  IN  IF \/ p.qos > 1 \/ (p.qos > 0 /\ p.pid = 0) \/ (p.qos = 0 /\ p.dup)
         \/ ~validateTopicName(p.topic) \/ remaining > MaxRemainingLength
      THEN Fail
      ELSE Written(<<48 + Flag(p.dup, 8) + 2 * p.qos + Flag(p.retain, 1)>>
                   \o encodeRemainingLength(remaining)
                   \o Uint16(Len(p.topic)) \o p.topic
                   \o (IF p.qos > 0 THEN Uint16(p.pid) ELSE <<>>)
                   \o p.payload)

\* newOutboundPublish: DUP and the identifier are the broker's own.
newOutboundPublish(p, qos) ==
  PublishPacket(p.topic, p.payload, p.retain, FALSE, qos, 0)

-----------------------------------------------------------------------------
(* The templates.                                                          *)

\* The server's own count of the bytes of a length: a pass for each.
encodedLengthSize(n) ==
  LET m == n \div 128
      k == m \div 128
      j == k \div 128
  IN  1 + Flag(m > 0, 1) + Flag(k > 0, 1) + Flag(j > 0, 1)

\* Mutant: the remaining length is taken for one byte.
publishPacketIDOffsetShort(topic, payloadLen) == 1 + 1 + 2 + Len(topic)

publishPacketIDOffset(topic, payloadLen) ==
  1 + encodedLengthSize(2 + Len(topic) + 2 + payloadLen) + 2 + Len(topic)

newPublishTemplate(p) ==
  [raw |-> EncodePublish([p EXCEPT !.pid = 1]).v,
   offset |-> publishPacketIDOffset(p.topic, Len(p.payload))]

\* What Admit asks of a template; offsets count from 0.
Admissible(t) ==
  /\ t.raw[1] \div 16 = 3 /\ TwoBits(t.raw[1], 2) = 1
  /\ t.offset \in 2 .. Len(t.raw) - 2

\* Next completes a copy of it.
Attempt(t, pid, replay) ==
  [t.raw EXCEPT ![1] = @ - Flag(Bit(@, 8), 8) + Flag(replay, 8),
                ![t.offset + 1] = pid \div 256,
                ![t.offset + 2] = pid % 256]
=============================================================================
