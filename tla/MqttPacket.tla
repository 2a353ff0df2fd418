----------------------------- MODULE MqttPacket -----------------------------
(***************************************************************************)
(* The bytes of MQTT packets: mqtt/mqtt_message_create.c builds them, the  *)
(* parsers of mqtt/mqtt_client.c take them apart, recv_mqtt_packet_tls     *)
(* cuts them out of the byte stream.                                       *)
(*                                                                         *)
(* Base is 128 in the code, and a byte has twice as many values: the low   *)
(* Base of them end a variable byte integer, the others continue it.  The  *)
(* first byte of a packet keeps the code's value.                          *)
(***************************************************************************)
EXTENDS Integers, Sequences

CONSTANTS
    Base,       \* 128
    MaxPacket,  \* MQTT_MAX_PACKET_SIZE
    BufSize,    \* MQTT_TLS_BUF_SIZE
    TopicSize,  \* sizeof(mqtt_message_t.topic)
    Inputs      \* what the broker sends, each one of Packet

ASSUME BaseAssumption == Base \in Nat /\ Base > 2

\* Both buffers hold more than a header, and less than three bytes of length say.
ASSUME SizeAssumption ==
    /\ MaxPacket \in 5..Base * Base * Base
    /\ BufSize \in 5..Base * Base * Base
    /\ TopicSize \in Nat \ {0}

VARIABLES
    in,         \* the packet on its way, one of Inputs
    wire,       \* bytes not read yet: the rest of it, and of the next packet
    buf,        \* bytes read by recv_mqtt_packet_tls
    at,         \* "header", "length", "body", "done" or "error"
    remaining   \* the remaining length read so far

vars == <<in, wire, buf, at, remaining>>

-----------------------------------------------------------------------------
(* mqtt_message_create.c *)

\* The quotients of v by the powers of Base, down to the fourth digit.
Quotients(v) ==
    LET q1 == v \div Base
        q2 == q1 \div Base IN
    <<v, q1, q2, q2 \div Base>>

\* Seven bits at a time, the least significant first, a continuation bit in all
\* bytes but the last.  No value here needs a fifth byte.
encode_variable_byte_integer(v) ==
    LET q == Quotients(v)
        more(i) == Base + (q[i] % Base) IN
    CASE q[2] = 0 -> <<v>>
      [] q[2] > 0 /\ q[3] = 0 -> <<more(1), q[2]>>
      [] q[3] > 0 /\ q[4] = 0 -> <<more(1), more(2), q[3]>>
      [] OTHER -> <<more(1), more(2), more(3), q[4]>>

\* The high byte and the low byte of a uint16_t.
TwoBytes(n) == <<(n \div (2 * Base)) % (2 * Base), n % (2 * Base)>>

\* A fixed header byte, the length of the body, and the body.
Framed(header, body) == <<header>> \o encode_variable_byte_integer(Len(body)) \o body

\* What becomes of a builder that makes no packet: it returns -1, or it writes past
\* the end of its array body[MQTT_MAX_PACKET_SIZE], and then anything may happen.
Refused == <<>>
Overrun == <<-1>>
Fits(packet) == IF Len(packet) > MaxPacket THEN Refused ELSE packet

\* id is copied into the body, and the size is compared only afterwards.
mqtt_connect_message(id, keepAlive, cleanStart) ==
    LET body == TwoBytes(4) \o <<77, 81, 84, 84>> \o <<5, IF cleanStart THEN 2 ELSE 0>>
                \o TwoBytes(keepAlive) \o <<0>> \o TwoBytes(Len(id)) \o id IN
    CASE id = <<>> -> Refused
      [] id # <<>> /\ Len(body) > MaxPacket -> Overrun
      [] OTHER -> Fits(Framed(16, body))

ClampQos(q) == IF q < 0 \/ q > 2 THEN 0 ELSE q
PacketId(id) == TwoBytes(IF id = 0 THEN 1 ELSE id)

\* Faulty variant: the fixed header is not counted.
mqtt_publish_message_bodyOnly(topic, payload, qos, retain, id) ==
    LET q == ClampQos(qos)
        named == TwoBytes(Len(topic)) \o topic
        begun == named \o (IF q > 0 THEN PacketId(id) ELSE <<>>) \o <<0>>
        body == begun \o payload IN
    CASE Len(named) > MaxPacket -> Refused
      [] Len(named) <= MaxPacket /\ Len(begun) > MaxPacket -> Overrun
      [] Len(begun) <= MaxPacket /\ Len(body) > MaxPacket -> Refused
      [] OTHER -> Framed(48 + 2 * q + retain, body)

\* The size is compared before the topic is copied, before the payload is, and
\* with the fixed header: not before the packet identifier and the length of the
\* properties are written between topic and payload.
mqtt_publish_message(topic, payload, qos, retain, id) ==
    LET q == ClampQos(qos)
        named == TwoBytes(Len(topic)) \o topic
        begun == named \o (IF q > 0 THEN PacketId(id) ELSE <<>>) \o <<0>>
        body == begun \o payload IN
    CASE Len(named) > MaxPacket -> Refused
      [] Len(named) <= MaxPacket /\ Len(begun) > MaxPacket -> Overrun
      [] Len(begun) <= MaxPacket /\ Len(body) > MaxPacket -> Refused
      [] OTHER -> Fits(Framed(48 + 2 * q + retain, body))

mqtt_subscribe_message(topic, qos, id) ==
    LET body == PacketId(id) \o <<0>> \o TwoBytes(Len(topic)) \o topic \o <<ClampQos(qos)>> IN
    IF Len(body) > MaxPacket THEN Refused ELSE Fits(Framed(130, body))

mqtt_disconnect_message == <<224, 2, 0, 0>>

-----------------------------------------------------------------------------
(* The broker's side: the MQTT 5 encoding of a packet with properties. *)

Properties(p) == encode_variable_byte_integer(Len(p.props)) \o p.props

FirstByte(p) ==
    CASE p.type = "CONNACK" -> 32
      [] p.type = "SUBACK" -> 144
      [] p.type = "PUBLISH" -> 48 + 2 * p.qos
      [] OTHER -> 208

Body(p) ==
    CASE p.type = "CONNACK" -> <<p.session, p.reason>> \o Properties(p)
      [] p.type = "SUBACK" -> TwoBytes(p.id) \o Properties(p) \o <<p.reason>>
      [] p.type = "PUBLISH" ->
            TwoBytes(Len(p.topic)) \o p.topic
            \o (IF p.qos > 0 THEN TwoBytes(p.id) ELSE <<>>)
            \o Properties(p) \o p.payload
      [] OTHER -> <<>>

Encoding(p) == Framed(FirstByte(p), Body(p))

\* What a broker can send: two bytes hold an identifier and the length of a
\* topic, four bytes the length of a body.
Id == 0..4 * Base * Base - 1

Packet ==
    [type : {"CONNACK"}, session : {0, 1}, reason : Nat, props : Seq(Nat)]
    \cup [type : {"SUBACK"}, id : Id, reason : Nat, props : Seq(Nat)]
    \cup [type : {"PUBLISH"}, qos : 0..2, id : Id, topic : Seq(Nat), props : Seq(Nat),
          payload : Seq(Nat)]
    \cup [type : {"PINGRESP"}]

ASSUME InputAssumption ==
    \A p \in Inputs :
        /\ p \in Packet
        /\ Len(Body(p)) < Base * Base * Base * Base
        /\ p.type = "PUBLISH" => Len(p.topic) \in Id

\* The first byte of the packet behind.
Next1 == 208

-----------------------------------------------------------------------------
(* The parsers of mqtt_client.c; data is indexed from 1. *)

NoValue == [ok |-> FALSE, val |-> 0, next |-> 0]

\* At most three bytes: the fourth makes multiplier exceed 128 ^ 3.
decode_variable_byte_integer(data, offset) ==
    LET byte(i) == data[offset + i - 1]
        more(i) == offset + i - 1 <= Len(data) /\ byte(i) >= Base
        last(i) == offset + i - 1 <= Len(data) /\ byte(i) < Base
        digit(i) == byte(i) % Base IN
    CASE last(1) -> [ok |-> TRUE, val |-> byte(1), next |-> offset + 1]
      [] more(1) /\ last(2) ->
            [ok |-> TRUE, val |-> digit(1) + byte(2) * Base, next |-> offset + 2]
      [] more(1) /\ more(2) /\ last(3) ->
            [ok |-> TRUE, val |-> digit(1) + digit(2) * Base + byte(3) * (Base * Base),
             next |-> offset + 3]
      [] OTHER -> NoValue

Number(data, i) == data[i] * 2 * Base + data[i + 1]
Failed == [ok |-> FALSE]

mqtt_parse_connack(data) ==
    LET r == decode_variable_byte_integer(data, 2) IN
    IF Len(data) < 4 \/ data[1] # 32 \/ ~r.ok \/ r.next - 1 + r.val > Len(data) THEN Failed
    ELSE [ok |-> TRUE, session |-> data[r.next] % 2, reason |-> data[r.next + 1]]

mqtt_parse_suback(data) ==
    LET r == decode_variable_byte_integer(data, 2)
        p == decode_variable_byte_integer(data, r.next + 2) IN
    IF \/ Len(data) < 5 \/ data[1] # 144 \/ ~r.ok \/ r.next - 1 + r.val > Len(data)
       \/ ~p.ok \/ p.next + p.val > Len(data) THEN Failed
    ELSE [ok |-> TRUE, id |-> Number(data, r.next), reason |-> data[p.next + p.val]]

\* How much of a topic msg->topic holds.
Kept(n) == IF n < TopicSize THEN n ELSE TopicSize - 1

\* Faulty variant: the packet identifier is taken for part of the properties.
mqtt_parse_publish_noId(data) ==
    LET r == decode_variable_byte_integer(data, 2)
        topicLen == Number(data, r.next)
        topic == r.next + 2
        p == decode_variable_byte_integer(data, topic + topicLen)
        end == r.next + r.val IN
    IF \/ Len(data) < 3 \/ data[1] \div 16 # 3 \/ ~r.ok \/ end - 1 > Len(data)
       \/ topic > end \/ topic + topicLen > end \/ ~p.ok \/ p.next + p.val > end THEN Failed
    ELSE [ok |-> TRUE, qos |-> (data[1] \div 2) % 4, id |-> 0,
          topic |-> SubSeq(data, topic, topic - 1 + Kept(topicLen)),
          payload |-> SubSeq(data, p.next + p.val, end - 1)]

\* The topic is cut to what msg->topic holds; the payload is what is left after
\* the properties.
mqtt_parse_publish(data) ==
    LET r == decode_variable_byte_integer(data, 2)
        end == r.next + r.val
        qos == (data[1] \div 2) % 4
        topicLen == Number(data, r.next)
        topic == r.next + 2
        id == topic + topicLen
        p == decode_variable_byte_integer(data, IF qos > 0 THEN id + 2 ELSE id) IN
    IF \/ Len(data) < 3 \/ data[1] \div 16 # 3 \/ ~r.ok \/ end - 1 > Len(data)
       \/ topic > end \/ id > end \/ (qos > 0 /\ id + 2 > end)
       \/ ~p.ok \/ p.next + p.val > end THEN Failed
    ELSE [ok |-> TRUE, qos |-> qos, id |-> IF qos > 0 THEN Number(data, id) ELSE 0,
          topic |-> SubSeq(data, topic, topic + Kept(topicLen) - 1),
          payload |-> SubSeq(data, p.next + p.val, end - 1)]

-----------------------------------------------------------------------------
(* recv_mqtt_packet_tls *)

Init ==
    /\ in \in Inputs
    /\ wire = Encoding(in) \o <<Next1>>
    /\ buf = <<>> /\ at = "header" /\ remaining = 0

ReadHeader ==
    /\ at = "header" /\ at' = "length"
    /\ buf' = <<Head(wire)>> /\ wire' = Tail(wire)
    /\ UNCHANGED <<in, remaining>>

\* Faulty variant: the buffer's end is not respected.
Sized_unchecked(pos, n) == IF n = 0 THEN "done" ELSE "body"

\* Where the reader goes when the remaining length is n and pos bytes are in.
Sized(pos, n) ==
    CASE n = 0 -> "done"
      [] n > 0 /\ pos + n > BufSize -> "error"
      [] OTHER -> "body"

\* Faulty variant: the multiplier is not advanced.
ReadLength_sameWeight ==
    /\ at = "length" /\ Len(buf) <= 4
    /\ LET b == Head(wire)
           n == remaining + (b % Base) IN
       /\ remaining' = n /\ buf' = Append(buf, b) /\ wire' = Tail(wire)
       /\ at' = IF b < Base \/ Len(buf) = 4 THEN Sized(Len(buf) + 1, n) ELSE "length"
    /\ UNCHANGED in

multiplier == <<1, Base, Base * Base, Base * Base * Base>>

\* One byte of the remaining length, of at most four.
ReadLength ==
    /\ at = "length" /\ Len(buf) <= 4
    /\ LET b == Head(wire)
           n == remaining + (b % Base) * multiplier[Len(buf)] IN
       /\ remaining' = n /\ buf' = Append(buf, b) /\ wire' = Tail(wire)
       /\ at' = IF b < Base \/ Len(buf) = 4 THEN Sized(Len(buf) + 1, n) ELSE "length"
    /\ UNCHANGED in

ReadBody ==
    /\ at = "body" /\ at' = "done"
    /\ buf' = buf \o SubSeq(wire, 1, remaining)
    /\ wire' = SubSeq(wire, remaining + 1, Len(wire))
    /\ UNCHANGED <<in, remaining>>

Next == ReadHeader \/ ReadLength \/ ReadBody

Spec == Init /\ [][Next]_vars

-----------------------------------------------------------------------------
\* Type invariant.
TypeOK ==
    /\ at \in {"header", "length", "body", "done", "error"}
    /\ remaining \in Nat /\ Len(buf) \in 0..BufSize
    /\ Len(wire) \in 0..Len(Encoding(in)) + 1

\* recv_mqtt_packet_tls cuts exactly one packet out of the stream, and refuses
\* exactly those that its buffer cannot hold.
ExactFraming ==
    /\ at = "done" => buf = Encoding(in) /\ wire = <<Next1>>
    /\ at = "error" => Len(Encoding(in)) > BufSize

\* What the broker put into a packet the client finds there, whatever the
\* lengths of topic, properties and payload; only a long topic is cut.
ParsedAsSent ==
    at = "done" =>
        CASE in.type = "CONNACK" ->
                mqtt_parse_connack(buf) = [ok |-> TRUE, session |-> in.session, reason |-> in.reason]
          [] in.type = "SUBACK" ->
                mqtt_parse_suback(buf) = [ok |-> TRUE, id |-> in.id, reason |-> in.reason]
          [] in.type = "PUBLISH" ->
                mqtt_parse_publish(buf) =
                    [ok |-> TRUE, qos |-> in.qos, id |-> IF in.qos > 0 THEN in.id ELSE 0,
                     topic |-> SubSeq(in.topic, 1, Kept(Len(in.topic))),
                     payload |-> in.payload]
          [] OTHER -> ~mqtt_parse_connack(buf).ok /\ ~mqtt_parse_suback(buf).ok

\* A packet built here says its own length.
Whole(packet) ==
    LET r == decode_variable_byte_integer(packet, 2) IN
    packet \notin {Refused, Overrun} =>
        r.ok /\ r.next - 1 + r.val = Len(packet) /\ Len(packet) <= MaxPacket

\* The bytes between topic and payload of a PUBLISH without properties.
Between(qos) == IF qos > 0 THEN 3 ELSE 1

\* A message that the client publishes is refused exactly if it does not fit, and
\* else is the encoding of the same message, so that a subscriber with this code
\* reads back what was published.  The exception is a topic that fills the body up
\* to its last bytes: exactly then, mqtt_publish_message writes past the end of it
\* (mqtt_message_create.c:149-154); mqtt_connect_message does so with every client
\* id that its body cannot hold (:88).  What is built is one whole packet.
BuiltAsGiven ==
    (in.type = "PUBLISH" /\ in.props = <<>>) =>
        LET built == mqtt_publish_message(in.topic, in.payload, in.qos, 0, in.id)
            parsed == mqtt_parse_publish(built)
            connect == mqtt_connect_message(in.payload, 60, TRUE)
            room == MaxPacket - 2 - Len(in.topic) IN
        /\ built = Overrun <=> room >= 0 /\ room < Between(in.qos)
        /\ built = Refused <=> built # Overrun /\ Len(Encoding(in)) > MaxPacket
        /\ built \notin {Refused, Overrun} =>
               /\ parsed.ok /\ parsed.payload = in.payload /\ parsed.qos = in.qos
               /\ parsed.topic = SubSeq(in.topic, 1, Kept(Len(in.topic)))
        /\ connect = Overrun <=> in.payload # <<>> /\ Len(in.payload) + 13 > MaxPacket
        /\ Whole(connect) /\ Whole(mqtt_subscribe_message(in.payload, in.qos, in.id))
        /\ Whole(mqtt_disconnect_message)
=============================================================================
