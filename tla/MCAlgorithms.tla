---------------------------- MODULE MCAlgorithms ----------------------------
(***************************************************************************)
(* Small instances of TopicTree, Filters and Codec for TLC.  The three     *)
(* share no variable, so their states are explored side by side and not as *)
(* a product: each moves only while the others are in their initial state. *)
(***************************************************************************)
EXTENDS TopicTree, Packet, SequencesExt

CONSTANTS
  AllFilters, AllNames,
  Packets, Followers, DamagedBytes, MaxDamage, Limit, Outgoing, PacketIDs,
  Lengths

VARIABLES allowed, requested, stream, pending, damaged, out, length

filterVars == <<allowed, requested>>
codecVars == <<stream, pending, damaged, out, length>>

F == INSTANCE Filters
K == INSTANCE Codec

MCInit == Init /\ F!Init /\ K!Init

MCNext ==
  \/ F!Init /\ K!Init /\ Next /\ UNCHANGED <<filterVars, codecVars>>
  \/ Init /\ K!Init /\ F!Next /\ UNCHANGED <<vars, codecVars>>
  \/ Init /\ F!Init /\ K!Next /\ UNCHANGED <<vars, filterVars>>

MCSpec == MCInit /\ [][MCNext]_<<vars, filterVars, codecVars>>

\* After any sequence of calls the tree is what the subscriptions in force make
\* it (Exact of TopicTree).  Like those below, it is evaluated only where its
\* own machine may have moved.
TreeExact == F!Init /\ K!Init => Exact

\* The decisions on filters follow the MQTT rule (see Filters).
FiltersCorrect == Init /\ K!Init => F!FiltersCorrect

\* The reader stays in step with the client (see Codec).
DecodeExact == Init /\ F!Init => K!DecodeExact

\* Packets, lengths and patched templates are exact (see Codec).
EncodeExact == Init /\ F!Init => K!EncodeExact

-----------------------------------------------------------------------------
(* Topics.                                                                 *)

\* Overlapping filters: nested, with empty levels, wildcards at both ends.
MCFilter ==
  {<<"a">>, <<"a", "/">>, <<"+", "/", "+">>, <<"a", "/", "#">>, <<"#">>}

\* Every topic name of at most three characters with "$" only in front; "aa" is
\* a level no filter spells out.
MCName ==
  {s \in UNION {[1..n -> {"a", "/", "$"}] : n \in 1..3} :
     ValidTopic(s) /\ \A i \in DOMAIN s : s[i] = "$" => i = 1}

Join(levels) == Tail(FlattenSeq([i \in DOMAIN levels |-> <<"/">> \o levels[i]]))
Strings(S, max) == {Join(ls) : ls \in UNION {[1..n -> S] : n \in 1..max}}

\* Up to three levels: empty, plain, of the system, and the wildcards.
MCAllFilters ==
  {s \in Strings({<<>>, <<"a">>, <<"$">>, Plus, Hash}, 3) : ValidFilter(s)}

\* Up to four levels: the same without wildcards, and one no filter spells out.
MCAllNames ==
  {s \in Strings({<<>>, <<"a">>, <<"b">>, <<"$">>}, 4) : ValidTopic(s)}

Symmetry == Permutations(ID)

-----------------------------------------------------------------------------
(* Packets.  Bytes 97, 47, 43 and 35 are "a", "/", "+" and "#".            *)

a == <<97>>
Zeros(n) == [i \in 1..n |-> 0]
Entry(topic, qos) == [topic |-> topic, qos |-> qos]

\* With and without each optional field, the flags in every combination that
\* is allowed, one and two entries, and a PUBLISH at and above the size limit.
MCPackets ==
  {ConnectPacket(TRUE, 60, id, will, login[1], login[2]) :
     id \in {<<>>, a},
     will \in {Missing, WillMessage(a, <<0>>, 1, TRUE)},
     login \in {<<Missing, Missing>>, <<a, Missing>>, <<a, <<1, 2>>>>}}
  \cup {ConnectPacket(FALSE, 0, a, Missing, a, <<>>)}
  \cup {PublishPacket(a, payload, TRUE, x[1], x[2], x[3]) :
          payload \in {<<>>, <<4>>},
          x \in {<<FALSE, 0, 0>>, <<FALSE, 1, 7>>, <<TRUE, 1, 256>>, <<TRUE, 2, 1>>}}
  \cup {PublishPacket(a, Zeros(n), FALSE, FALSE, 0, 0) : n \in {30, 31}}
  \cup {SubscribePacket(1, <<Entry(<<43>>, 2)>>),
        SubscribePacket(1, <<Entry(a, 0), Entry(<<97, 47, 35>>, 1)>>),
        UnsubscribePacket(2, <<Entry(a, Missing)>>),
        UnsubscribePacket(2, <<Entry(<<35>>, Missing), Entry(a, Missing)>>),
        PubAckPacket(1), PubAckPacket(256), PingReqPacket, DisconnectPacket}

MCFollowers == {PubAckPacket(3)}

\* Short lengths, a continuation byte, a wildcard, and a header.
MCDamagedBytes == {0, 1, 2, 3, 35, 128, 194}

\* Sizes around the boundaries of one, two and three length bytes.
MCOutgoing ==
  {PublishPacket(topic, Zeros(n), retain, FALSE, qos, qos) :
     topic \in {a, <<97, 47, 97>>}, retain \in BOOLEAN, qos \in {0, 1},
     n \in 118..124 \cup {0}}
  \cup {PublishPacket(topic, Zeros(n), FALSE, FALSE, 1, 1) :
          topic \in {a, <<97, 47, 97>>}, n \in 16376..16379}
  \cup {SubAckPacket(1, Zeros(n)) : n \in {1, 125, 126, 253, 254}}
  \cup {ConnAckPacket(present, code) : present \in BOOLEAN, code \in {0, 3, 4, 5}}
  \cup {UnsubAckPacket(9), PubAckPacket(300)}

MCPacketIDs == {1, 255, 256, 65535}
MCLengths ==
  {0, 268435455} \cup UNION {{128^k - 1, 128^k, 128^k + 1} : k \in 1..3}
=============================================================================
