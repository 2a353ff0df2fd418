----------------------------- MODULE MqttClient -----------------------------
(***************************************************************************)
(* mqtt/mqtt_client.c, the session API: mqtt_connection, mqtt_data_send,   *)
(* mqtt_subscribe, mqtt_recv_message and mqtt_disconnect over one TLS      *)
(* session, with the broker at its other end.                              *)
(*                                                                         *)
(* The TLS session is a channel: tls_recv_exact hands out, in order, a     *)
(* prefix of what the broker sent (TlsSession shows that), or times out,   *)
(* or fails.  A packet travels as units that can be read separately: the   *)
(* first byte of the fixed header, the remaining length, and one or two    *)
(* units of body.  A time-out in the middle of a packet leaves the rest of *)
(* it in the channel, and the next call takes a body unit for a header.    *)
(*                                                                         *)
(* A call of the API that waits for an answer is a step that sends and     *)
(* steps that read, one per unit.  What the caller does is in MqttPrograms.*)
(***************************************************************************)
EXTENDS Integers, Sequences, FiniteSets

CONSTANTS
    Qos,        \* the values callers pass as qos
    Faults,     \* what may go wrong, a subset of FaultKinds
    MaxPublish  \* bound: messages the broker publishes to the client

\* "alloc": pen_malloc returns NULL.  "send": a packet is too long or tls_send
\* fails.  "break": the TLS session dies.  "quit": the broker ends it.
\* "huge": a PUBLISH of more than MQTT_TLS_BUF_SIZE bytes.  "refuse": a
\* negative CONNACK or SUBACK.  "chat": the broker never falls silent.
FaultKinds == {"alloc", "send", "break", "quit", "huge", "refuse", "chat"}

ASSUME QosAssumption == Qos \subseteq Int
ASSUME FaultsAssumption == Faults \subseteq FaultKinds
ASSUME MaxPublishAssumption == MaxPublish \in Nat

VARIABLES
    call,   \* the API call that is waiting for a packet, "none" between calls
    rx,     \* recv_mqtt_packet_tls: the packet it has begun to read
    ret,    \* what the last call returned
    open,   \* session->tls is connected
    heap,   \* heap blocks held: "buf", the receive buffer, and "msg", a message
    out,    \* *out_msg of the last mqtt_recv_message: a message number
    link,   \* the connection: "none", "up", "fin" (broker closed), "down", "closed"
    b2c,    \* units on their way to the client, or in its receive buffer
    c2b,    \* packets on their way to the broker
    sent,   \* history: packets handed to tls_send, in order
    sure,   \* history: PUBLISHes, by number, that mqtt_data_send reported done
    broker  \* [phase, sub, owes, pub, held, taken]

sessVars == <<call, rx, ret, open, heap, out, sent, sure>>
netVars == <<link, b2c, c2b>>
mqttVars == <<sessVars, netVars, broker>>

Calls == {"connection", "data_send", "subscribe", "recv_message"}

\* Broker to client.  A PUBLISH carries its number, the other packets whether
\* they say yes.  No message of the broker has number 0.
ServerTypes == {"CONNACK", "SUBACK", "PUBACK", "PUBREC", "PUBLISH", "HUGE", "PINGRESP",
                "DISCONNECT"}
Packet(t, v) == [type |-> t, val |-> v]
Yes == 1
No == 0

Size(p) == CASE p.type \in {"PUBLISH", "HUGE"} -> 4
             [] p.type \in {"PINGRESP", "DISCONNECT"} -> 2
             [] OTHER -> 3
MaxSize == 4
Cut(p) == [i \in 1..Size(p) |-> [pkt |-> p, at |-> i]]

NoRx == [pkt |-> Packet("none", 0), have |-> 0, need |-> 0]

\* Client to broker.  mqtt_publish_message clamps the qos; mqtt_data_send
\* passes packet_id 0, which becomes 1 in every PUBLISH that has one.
Clamp(q) == IF q < 0 \/ q > 2 THEN 0 ELSE q
ClientPacket(t, q, k) == [type |-> t, qos |-> q, num |-> k]
Sent(t) == {i \in DOMAIN sent : sent[i].type = t}

NoBroker == [phase |-> "none", sub |-> FALSE, owes |-> "nothing", pub |-> 0,
             held |-> FALSE, taken |-> {}]

MqttInit ==
    /\ call = "none" /\ rx = NoRx /\ ret = 0
    /\ open = FALSE /\ heap = {} /\ out = 0
    /\ link = "none" /\ b2c = <<>> /\ c2b = <<>>
    /\ sent = <<>> /\ sure = {} /\ broker = NoBroker

-----------------------------------------------------------------------------
(* What the calls share. *)

\* tls_send succeeded: what is sent on a broken connection is lost.
TlsSend(p) ==
    /\ sent' = Append(sent, p)
    /\ c2b' = IF link \in {"none", "up"} THEN Append(c2b, p) ELSE c2b

\* The packet is too long, or tls_send fails.
MaySendFail == "send" \in Faults \/ link \in {"fin", "down"}

NothingSent == UNCHANGED <<sent, c2b>>

\* tls_close: the broker's unread packets are dropped.
tls_close == open' = FALSE /\ link' = "closed" /\ b2c' = <<>>
StaysOpen == UNCHANGED <<open, link, b2c>>

\* The call returns r, its receive buffer freed.
Return(r) == call' = "none" /\ ret' = r /\ rx' = NoRx /\ heap' = heap \ {"buf"}

\* The call has its receive buffer and waits for a packet.
Await(op) == call' = op /\ heap' = heap \cup {"buf"} /\ rx' = NoRx /\ UNCHANGED ret

-----------------------------------------------------------------------------
(* The calls, up to the point where they wait. *)

\* mqtt_connection: tls_connect, then CONNECT.  Any failure closes the session.
mqtt_connection ==
    /\ call = "none" /\ ~open /\ link = "none"
    /\ \/ Return(-1) /\ NothingSent /\ StaysOpen /\ UNCHANGED broker
       \/ /\ link' = "up" /\ open' = TRUE /\ UNCHANGED b2c
          /\ broker' = [NoBroker EXCEPT !.phase = "idle"]
          /\ TlsSend(ClientPacket("CONNECT", 0, 0)) /\ Await("connection")
       \/ /\ "alloc" \in Faults
          /\ tls_close /\ TlsSend(ClientPacket("CONNECT", 0, 0)) /\ Return(-1)
          /\ broker' = [NoBroker EXCEPT !.phase = "idle"]
       \/ /\ "send" \in Faults
          /\ tls_close /\ NothingSent /\ Return(-1)
          /\ broker' = [NoBroker EXCEPT !.phase = "idle"]
    /\ UNCHANGED <<out, sure>>

\* mqtt_data_send.  It waits for an acknowledgement when the caller's qos is
\* positive, also when mqtt_publish_message clamped it to 0.
mqtt_data_send(q) ==
    LET p == ClientPacket("PUBLISH", Clamp(q), Cardinality(Sent("PUBLISH")) + 1) IN
    /\ call = "none"
    /\ \/ ~open /\ Return(-1) /\ NothingSent
       \/ open /\ MaySendFail /\ Return(-1) /\ NothingSent
       \/ open /\ q <= 0 /\ TlsSend(p) /\ Return(0)
       \/ open /\ q > 0 /\ TlsSend(p) /\ Await("data_send")
       \/ open /\ q > 0 /\ "alloc" \in Faults /\ TlsSend(p) /\ Return(-1)
    /\ StaysOpen /\ UNCHANGED <<out, broker, sure>>

mqtt_subscribe ==
    /\ call = "none"
    /\ \/ ~open /\ Return(-1) /\ NothingSent
       \/ open /\ MaySendFail /\ Return(-1) /\ NothingSent
       \/ open /\ TlsSend(ClientPacket("SUBSCRIBE", 0, 0)) /\ Await("subscribe")
       \/ /\ open /\ "alloc" \in Faults
          /\ TlsSend(ClientPacket("SUBSCRIBE", 0, 0)) /\ Return(-1)
    /\ StaysOpen /\ UNCHANGED <<out, broker, sure>>

mqtt_recv_message ==
    /\ call = "none"
    /\ \/ ~open /\ Return(-1) /\ UNCHANGED out
       \/ open /\ "alloc" \in Faults /\ Return(-1) /\ out' = 0
       \/ open /\ Await("recv_message") /\ out' = 0
    /\ NothingSent /\ StaysOpen /\ UNCHANGED <<broker, sure>>

\* mqtt_disconnect, and what it does when there is no session: nothing.  Its
\* tls_send may fail; the session is closed all the same.
mqtt_disconnect ==
    /\ call = "none"
    /\ \/ ~open /\ UNCHANGED <<sessVars, netVars>>
       \/ /\ open /\ tls_close
          /\ TlsSend(ClientPacket("DISCONNECT", 0, 0)) \/ (MaySendFail /\ NothingSent)
          /\ UNCHANGED <<call, rx, ret, heap, out, sure>>
    /\ UNCHANGED broker

\* mqtt_message_free
mqtt_message_free ==
    /\ heap' = heap \ {"msg"} /\ out' = 0
    /\ UNCHANGED <<call, rx, ret, open, sent, sure, netVars, broker>>

-----------------------------------------------------------------------------
(* The calls, from the packet they waited for. *)

Reading == call # "none"

\* Faulty variant: any CONNACK will do.
ConnackRead_anyReason(p) ==
    /\ Return(IF p.type = "CONNACK" THEN 0 ELSE -1)
    /\ IF p.type = "CONNACK" THEN UNCHANGED <<open, link>> /\ b2c' = Tail(b2c) ELSE tls_close
    /\ UNCHANGED <<out, sure>>

\* mqtt_connection has read p: mqtt_parse_connack, then the reason code.
ConnackRead(p) ==
    LET accepted == p.type = "CONNACK" /\ p.val = Yes IN
    /\ Return(IF accepted THEN 0 ELSE -1)
    /\ IF accepted THEN UNCHANGED <<open, link>> /\ b2c' = Tail(b2c) ELSE tls_close
    /\ UNCHANGED <<out, sure>>

ChannelRead == b2c' = Tail(b2c) /\ UNCHANGED <<open, link>>

\* mqtt_data_send has read p: it does not look at it.
AckRead(p) ==
    /\ Return(0) /\ sure' = sure \cup {Cardinality(Sent("PUBLISH"))}
    /\ ChannelRead /\ UNCHANGED out

\* Faulty variant: what is not a SUBACK is skipped.
SubackRead_skips(p) ==
    /\ IF p.type = "SUBACK" THEN Return(0) ELSE rx' = NoRx /\ UNCHANGED <<call, ret, heap>>
    /\ ChannelRead /\ UNCHANGED <<out, sure>>

\* Faulty variant: the packet type is not checked.
SubackRead_anyType(p) == Return(0) /\ ChannelRead /\ UNCHANGED <<out, sure>>

\* mqtt_subscribe has read p: mqtt_parse_suback; the reason code is not checked.
SubackRead(p) ==
    /\ Return(IF p.type = "SUBACK" THEN 0 ELSE -1)
    /\ ChannelRead /\ UNCHANGED <<out, sure>>

\* mqtt_recv_message has read p.  A PUBLISH is parsed into a new message, which
\* may fail: no memory, or (Garbage) not a PUBLISH at all.
MessageRead(p) ==
    /\ \/ p.type = "PUBLISH" /\ out' = p.val /\ call' = "none" /\ ret' = 0
           /\ rx' = NoRx /\ heap' = (heap \ {"buf"}) \cup {"msg"}
       \/ /\ p.type = "PUBLISH" /\ ("alloc" \in Faults \/ p.val = 0)
          /\ Return(-1) /\ UNCHANGED out
       \/ p.type # "PUBLISH" /\ rx' = NoRx /\ UNCHANGED <<call, ret, heap, out>>
    /\ ChannelRead /\ UNCHANGED sure

\* What a body unit can be taken for: any packet, of any length.
Garbage == {Packet(t, v) : t \in ServerTypes, v \in {0}}

StillReading == NothingSent /\ UNCHANGED <<call, ret, heap, out, sure, broker>>

\* The first byte of the fixed header.
ReadHeader ==
    /\ Reading /\ rx.have = 0 /\ b2c # <<>>
    /\ LET u == Head(b2c) IN
       IF u.at = 1 THEN rx' = [pkt |-> u.pkt, have |-> 1, need |-> Size(u.pkt)]
       ELSE \E g \in Garbage, n \in 2..MaxSize : rx' = [pkt |-> g, have |-> 1, need |-> n]
    /\ ChannelRead /\ StillReading

\* Faulty variant: the remaining length is not respected.
ReadOn_pastEnd ==
    /\ Reading /\ rx.have > 0 /\ b2c # <<>>
    /\ rx.pkt.type # "HUGE"
    /\ rx' = [rx EXCEPT !.have = @ + 1]
    /\ ChannelRead /\ StillReading

\* The remaining length, or part of the body.
ReadOn ==
    /\ Reading /\ rx.have > 0 /\ rx.have + 1 < rx.need /\ b2c # <<>>
    /\ rx.pkt.type # "HUGE"
    /\ rx' = [rx EXCEPT !.have = @ + 1]
    /\ ChannelRead /\ StillReading

\* The last unit of the packet.
ReadPacket ==
    /\ Reading /\ rx.have > 0 /\ rx.have + 1 = rx.need /\ b2c # <<>>
    /\ rx.pkt.type # "HUGE"
    /\ \/ call = "connection" /\ ConnackRead(rx.pkt)
       \/ call = "data_send" /\ AckRead(rx.pkt)
       \/ call = "subscribe" /\ SubackRead(rx.pkt)
       \/ call = "recv_message" /\ MessageRead(rx.pkt)
    /\ NothingSent /\ UNCHANGED broker

\* Faulty variant: the receive buffer is not freed on this path.
GiveUp_leaks(r, rest) ==
    /\ call' = "none" /\ ret' = r /\ rx' = NoRx
    /\ IF call = "connection" THEN tls_close ELSE b2c' = rest /\ UNCHANGED <<open, link>>
    /\ NothingSent /\ UNCHANGED <<heap, out, sure, broker>>

\* The call gives up with r, rest left in the channel: only mqtt_connection
\* closes the session.
GiveUp(r, rest) ==
    /\ Return(r)
    /\ IF call = "connection" THEN tls_close ELSE b2c' = rest /\ UNCHANGED <<open, link>>
    /\ NothingSent /\ UNCHANGED <<out, sure, broker>>

\* The remaining length exceeds the buffer: the body stays in the channel.
ReadTooLong ==
    /\ Reading /\ rx.have = 1 /\ rx.pkt.type = "HUGE" /\ b2c # <<>>
    /\ GiveUp(-1, Tail(b2c))

\* tls_recv_exact times out, wherever the packet is cut.
ReadTimesOut ==
    /\ Reading /\ link # "down"
    /\ GiveUp(IF call = "recv_message" THEN 1 ELSE -1, b2c)

\* The session is dead, or closed by the broker and read to its end.
ReadFails ==
    /\ Reading /\ (link = "down" \/ (link = "fin" /\ b2c = <<>>))
    /\ GiveUp(-1, b2c)

Read == ReadHeader \/ ReadOn \/ ReadPacket \/ ReadTooLong \/ ReadTimesOut \/ ReadFails

-----------------------------------------------------------------------------
(* The broker and the network, from what mqtt_client.c expects of them. *)

SessionKeeps == UNCHANGED sessVars

\* The broker sends p, in vain when the client has closed or the link is down.
Reply(p) == b2c' = IF link = "up" THEN b2c \o Cut(p) ELSE b2c

Serves(t) ==
    /\ link \in {"up", "closed"} /\ c2b # <<>> /\ Head(c2b).type = t
    /\ c2b' = Tail(c2b) /\ SessionKeeps

BrokerConnect(v) ==
    /\ Serves("CONNECT") /\ broker.phase = "idle"
    /\ v = Yes \/ "refuse" \in Faults
    /\ Reply(Packet("CONNACK", v))
    /\ broker' = [broker EXCEPT !.phase = IF v = Yes THEN "up" ELSE "refused"]
    /\ link' = IF v = No /\ link = "up" THEN "fin" ELSE link

\* A PUBLISH of QoS 2 whose packet identifier awaits a PUBREL is the same
\* message again: acknowledged, not taken.
BrokerPublish ==
    /\ Serves("PUBLISH") /\ broker.phase = "up"
    /\ LET p == Head(c2b) IN
       /\ CASE p.qos = 0 -> UNCHANGED b2c
            [] p.qos = 1 -> Reply(Packet("PUBACK", Yes))
            [] p.qos = 2 -> Reply(Packet("PUBREC", Yes))
       /\ broker' = [broker EXCEPT !.held = @ \/ p.qos = 2,
             !.taken = IF p.qos = 2 /\ broker.held THEN @ ELSE @ \cup {p.num}]
    /\ UNCHANGED link

\* The subscription holds before its SUBACK is sent.
BrokerSubscribe(v) ==
    /\ Serves("SUBSCRIBE") /\ broker.phase = "up" /\ broker.owes = "nothing"
    /\ v = Yes \/ "refuse" \in Faults
    /\ broker' = [broker EXCEPT !.sub = v = Yes, !.owes = IF v = Yes THEN "yes" ELSE "no"]
    /\ UNCHANGED <<b2c, link>>

BrokerSuback ==
    /\ link \in {"up", "closed"} /\ broker.phase = "up" /\ broker.owes # "nothing"
    /\ Reply(Packet("SUBACK", IF broker.owes = "yes" THEN Yes ELSE No))
    /\ broker' = [broker EXCEPT !.owes = "nothing"]
    /\ SessionKeeps /\ UNCHANGED <<link, c2b>>

BrokerMessage(t) ==
    /\ link = "up" /\ broker.phase = "up" /\ broker.sub /\ broker.pub < MaxPublish
    /\ t = "PUBLISH" \/ "huge" \in Faults
    /\ Reply(Packet(t, broker.pub + 1))
    /\ broker' = [broker EXCEPT !.pub = @ + 1]
    /\ SessionKeeps /\ UNCHANGED <<link, c2b>>

\* A packet that nobody waits for, for ever if the broker likes: the next one
\* comes when the client has read the one before.
BrokerChats ==
    /\ "chat" \in Faults /\ link = "up" /\ broker.phase = "up" /\ b2c = <<>>
    /\ Reply(Packet("PINGRESP", 0))
    /\ SessionKeeps /\ UNCHANGED <<link, c2b, broker>>

\* DISCONNECT of the client.
BrokerBye ==
    /\ Serves("DISCONNECT") /\ broker' = [broker EXCEPT !.phase = "off"]
    /\ UNCHANGED <<b2c, link>>

\* The broker ends the connection, keep-alive exceeded for instance.
BrokerQuits ==
    /\ "quit" \in Faults /\ link = "up" /\ broker.phase = "up"
    /\ Reply(Packet("DISCONNECT", 0)) /\ link' = "fin"
    /\ broker' = [broker EXCEPT !.phase = "off"]
    /\ SessionKeeps /\ UNCHANGED c2b

\* The TLS session is lost: a reset, or tls_recv that fails.
LinkBreaks ==
    /\ "break" \in Faults /\ link \in {"up", "fin"}
    /\ link' = "down" /\ b2c' = <<>> /\ c2b' = <<>>
    /\ SessionKeeps /\ UNCHANGED broker

Environment ==
    \/ \E v \in {Yes, No} : BrokerConnect(v) \/ BrokerSubscribe(v)
    \/ \E t \in {"PUBLISH", "HUGE"} : BrokerMessage(t)
    \/ BrokerPublish \/ BrokerSuback \/ BrokerChats \/ BrokerBye \/ BrokerQuits \/ LinkBreaks

-----------------------------------------------------------------------------
(* What holds between the client, the connection and the broker. *)

\* Type invariant.
MqttTypeOK ==
    /\ call \in Calls \cup {"none"} /\ ret \in {-1, 0, 1}
    /\ rx.have \in 0..rx.need /\ rx.need \in 0..MaxSize
    /\ open \in BOOLEAN /\ heap \subseteq {"buf", "msg"} /\ out \in 0..MaxPublish
    /\ link \in {"none", "up", "fin", "down", "closed"}
    /\ \A i \in DOMAIN b2c : b2c[i].at \in 1..Size(b2c[i].pkt)
    /\ sure \subseteq 1..Cardinality(Sent("PUBLISH"))
    /\ broker.phase \in {"none", "idle", "refused", "up", "off"} /\ broker.sub \in BOOLEAN
    /\ broker.owes \in {"nothing", "yes", "no"} /\ broker.pub \in 0..MaxPublish

\* The client opens the conversation with exactly one CONNECT, says nothing
\* more until the broker has accepted it, and nothing at all after DISCONNECT:
\* every early return of the calls has to respect that.
ClientProtocol ==
    /\ \A i \in DOMAIN sent : (sent[i].type = "CONNECT") <=> (i = 1)
    /\ \A i \in Sent("DISCONNECT") : i = Len(sent)
    /\ (Len(sent) > 1) => broker.phase \in {"up", "off"}

\* Between calls no receive buffer is held, and while a call reads there is
\* one and a session; a session is open exactly as long as its connection.
NothingHeld ==
    /\ Reading <=> ("buf" \in heap)
    /\ Reading => open
    /\ open <=> link \in {"up", "fin", "down"}

\* mqtt_client.c:368 "QoS 1/2: PUBACK / PUBREC を受信する": a PUBLISH of QoS 1
\* or 2 for which mqtt_data_send returns 0 is one the broker has taken.
SureIsTaken == \A i \in Sent("PUBLISH") :
    (sent[i].qos > 0 /\ sent[i].num \in sure) => sent[i].num \in broker.taken
=============================================================================
