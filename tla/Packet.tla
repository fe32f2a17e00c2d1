------------------------------- MODULE Packet -------------------------------
(***************************************************************************)
(* The packets (internal/protocol): how each of them is decoded from bytes *)
(* and encoded to them.  Framing has their lengths and the PUBLISH that    *)
(* the broker sends.                                                       *)
(***************************************************************************)
EXTENDS Framing, SequencesExt

CONSTANT Missing   \* a field that is absent

-----------------------------------------------------------------------------
(* The packets.                                                            *)

WillMessage(topic, payload, qos, retain) ==
  [topic |-> topic, payload |-> payload, qos |-> qos, retain |-> retain]
ConnectPacket(clean, keepAlive, id, will, username, password) ==
  [type |-> "connect", clean |-> clean, keepAlive |-> keepAlive, id |-> id,
   will |-> will, username |-> username, password |-> password]
SubscribePacket(pid, subs) == [type |-> "subscribe", pid |-> pid, subs |-> subs]
UnsubscribePacket(pid, topics) == [type |-> "unsubscribe", pid |-> pid, subs |-> topics]
PubAckPacket(pid) == [type |-> "puback", pid |-> pid]
PingReqPacket == [type |-> "pingreq"]
DisconnectPacket == [type |-> "disconnect"]
ConnAckPacket(present, code) ==
  [type |-> "connack", present |-> present, code |-> code]
SubAckPacket(pid, codes) == [type |-> "suback", pid |-> pid, codes |-> codes]
UnsubAckPacket(pid) == [type |-> "unsuback", pid |-> pid]
PingRespPacket == [type |-> "pingresp"]

-----------------------------------------------------------------------------
(* Reading.                                                                *)

readUint16(r) == LET Number(t) == Then(t, 256 * t.v[1] + t.v[2]) IN Number(Take(r, 2))
readBinaryData(r) == LET Bytes(t) == Take(t, t.v) IN Bytes(readUint16(r))
readUTF8String(r) ==
  LET Valid(t) == IF t.ok /\ Range(t.v) \subseteq 1 .. 127 THEN t ELSE Fail
  IN  Valid(readBinaryData(r))
Optional(present, r, next) == IF present THEN next ELSE Value(r, Missing)

decodeConnectFlags(b) ==
  [clean |-> Bit(b, 2), will |-> Bit(b, 4), qos |-> TwoBits(b, 8),
   retain |-> Bit(b, 32), password |-> Bit(b, 64), username |-> Bit(b, 128),
   valid |-> /\ ~Bit(b, 1)
             /\ ~Bit(b, 4) => TwoBits(b, 8) = 0 /\ ~Bit(b, 32)
             /\ Bit(b, 64) => Bit(b, 128)]

decodeWill(r, qos, retain) ==
  LET topic == readUTF8String(r)
      payload == readBinaryData(topic)
  IN  IF payload.ok /\ validateTopicName(topic.v)
      THEN Value(payload, WillMessage(topic.v, payload.v, qos, retain))
      ELSE Fail

\* Mutant: bytes after the last field are not looked at.
decodeConnectLoose(r) ==
  LET name == readUTF8String(r)
      level == readByte(name)
      b == readByte(level)
      f == decodeConnectFlags(b.v)
      keepAlive == readUint16(b)
      id == readUTF8String(keepAlive)
      will == Optional(f.will, id, decodeWill(id, f.qos, f.retain))
      username == Optional(f.username, will, readUTF8String(will))
      password == Optional(f.password, username, readBinaryData(username))
  IN  IF /\ password.ok
         /\ name.v = <<77, 81, 84, 84>> /\ level.v = 4 /\ f.valid
         /\ id.v = <<>> => f.clean
      THEN Value(password, ConnectPacket(f.clean, keepAlive.v, id.v, will.v,
                                         username.v, password.v))
      ELSE Fail

decodeConnect(r) ==
  LET name == readUTF8String(r)
      level == readByte(name)
      b == readByte(level)
      f == decodeConnectFlags(b.v)
      keepAlive == readUint16(b)
      id == readUTF8String(keepAlive)
      will == Optional(f.will, id, decodeWill(id, f.qos, f.retain))
      username == Optional(f.username, will, readUTF8String(will))
      password == Optional(f.password, username, readBinaryData(username))
  IN  IF /\ password.ok /\ password.n = 0
         /\ name.v = <<77, 81, 84, 84>> /\ level.v = 4 /\ f.valid
         /\ id.v = <<>> => f.clean
      THEN Value(password, ConnectPacket(f.clean, keepAlive.v, id.v, will.v,
                                         username.v, password.v))
      ELSE Fail

\* The loops of decodeSubscribe and decodeUnsubscribe: entries until the body
\* is read, each a filter, for SUBSCRIBE with a QoS.
RECURSIVE entriesFrom(_, _)
entriesFrom(r, withQoS) ==
  LET topic == readUTF8String(r)
      entry == Optional(withQoS, topic, readByte(topic))
      rest == entriesFrom(entry, withQoS)
  IN  IF r.ok /\ r.n = 0 THEN Value(r, <<>>)
      ELSE IF /\ r.ok /\ entry.ok
              /\ ValidateTopicFilter(topic.v)
              /\ withQoS => entry.v <= 2
              /\ rest.ok
      THEN Value(rest, <<[topic |-> topic.v, qos |-> entry.v]>> \o rest.v)
      ELSE Fail

decodeEntries(r, withQoS) ==
  LET pid == readUint16(r)
      subs == entriesFrom(pid, withQoS)
  IN  IF subs.ok /\ pid.v # 0 /\ subs.v # <<>>
      THEN Value(subs, IF withQoS THEN SubscribePacket(pid.v, subs.v)
                                  ELSE UnsubscribePacket(pid.v, subs.v))
      ELSE Fail
decodeSubscribe(r) == decodeEntries(r, TRUE)
decodeUnsubscribe(r) == decodeEntries(r, FALSE)

decodePublish(r, qos, dup, retain) ==
  LET topic == readUTF8String(r)
      pid == IF qos > 0 THEN readUint16(topic) ELSE Value(topic, 0)
      payload == Take(pid, pid.n)
  IN  IF /\ payload.ok
         /\ validateTopicName(topic.v)
         /\ qos > 0 => pid.v # 0
      THEN Value(payload, PublishPacket(topic.v, payload.v, retain, dup, qos, pid.v))
      ELSE Fail

decodePubAck(r) ==
  LET pid == readUint16(r)
  IN  IF r.n = 2 /\ pid.ok /\ pid.v # 0 THEN Value(pid, PubAckPacket(pid.v)) ELSE Fail

\* The whole header is read, and the size checked, before the body.
DecodeWithLimit(bytes, max) ==
  LET first == readByte([ok |-> TRUE, v |-> 0, in |-> bytes, n |-> Len(bytes)])
      len == decodeRemainingLength(first)
      flags == first.v % 16
      qos == TwoBits(flags, 2)
      dup == Bit(flags, 8)
      Is(type, f) == first.v \div 16 = type /\ flags = f
      isPublish == first.v \div 16 = 3 /\ qos # 3 /\ (dup => qos # 0)
      body == [len EXCEPT !.n = len.v]
  IN  IF ~len.ok \/ Len(bytes) - Len(len.in) + len.v > max THEN Fail
      ELSE CASE Is(1, 0)  -> decodeConnect(body)
             [] isPublish -> decodePublish(body, qos, dup, Bit(flags, 1))
             [] Is(4, 0)  -> decodePubAck(body)
             [] Is(8, 2)  -> decodeSubscribe(body)
             [] Is(10, 2) -> decodeUnsubscribe(body)
             [] Is(12, 0) /\ len.v = 0 -> Value(body, PingReqPacket)
             [] Is(14, 0) /\ len.v = 0 -> Value(body, DisconnectPacket)
             [] OTHER -> Fail

-----------------------------------------------------------------------------
(* Writing.                                                                *)

\* Encode: a PUBACK without an identifier or a SUBACK that is too long is an
\* error.
Encode(p) ==
  LET raw == CASE p.type = "connack"  -> <<32, 2, Flag(p.present, 1), p.code>>
               [] p.type = "pingresp" -> <<208, 0>>
               [] p.type = "puback"   -> <<64, 2>> \o Uint16(p.pid)
               [] p.type = "unsuback" -> <<176, 2>> \o Uint16(p.pid)
               [] p.type = "suback"   -> <<144>> \o encodeRemainingLength(2 + Len(p.codes))
                                         \o Uint16(p.pid) \o p.codes
  IN  IF \/ p.type = "puback" /\ p.pid = 0
         \/ p.type = "suback" /\ Len(p.codes) > MaxRemainingLength - 2
      THEN Fail ELSE Written(raw)

-----------------------------------------------------------------------------
(* The forms of the packets a client sends, as the standard defines them.  *)

Field(bytes) == Uint16(Len(bytes)) \o bytes
Given(x, bytes) == IF x = Missing THEN <<>> ELSE bytes
WillFlags(w) == IF w = Missing THEN 0 ELSE 4 + 8 * w.qos + Flag(w.retain, 32)

Header(p) ==
  CASE p.type = "connect"     -> 16
    [] p.type = "publish"     -> 48 + Flag(p.dup, 8) + 2 * p.qos + Flag(p.retain, 1)
    [] p.type = "puback"      -> 64
    [] p.type = "subscribe"   -> 130
    [] p.type = "unsubscribe" -> 162
    [] p.type = "pingreq"     -> 192
    [] p.type = "disconnect"  -> 224

Body(p) ==
  CASE p.type = "connect" ->
         Field(<<77, 81, 84, 84>>)
         \o <<4, Flag(p.clean, 2) + WillFlags(p.will) + Flag(p.password # Missing, 64)
                 + Flag(p.username # Missing, 128)>>
         \o Uint16(p.keepAlive) \o Field(p.id)
         \o Given(p.will, Field(p.will.topic) \o Field(p.will.payload))
         \o Given(p.username, Field(p.username)) \o Given(p.password, Field(p.password))
    [] p.type = "publish" ->
         Field(p.topic) \o (IF p.qos > 0 THEN Uint16(p.pid) ELSE <<>>) \o p.payload
    [] p.type = "puback" -> Uint16(p.pid)
    [] p.type \in {"subscribe", "unsubscribe"} ->
         Uint16(p.pid) \o FlattenSeq([i \in DOMAIN p.subs |->
           Field(p.subs[i].topic) \o Given(p.subs[i].qos, <<p.subs[i].qos>>)])
    [] p.type \in {"pingreq", "disconnect"} -> <<>>

Form(p) == <<Header(p)>> \o encodeRemainingLength(Len(Body(p))) \o Body(p)
=============================================================================
