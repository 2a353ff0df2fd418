----------------------------- MODULE MqttProof -----------------------------
(***************************************************************************)
(* Proofs about MqttClient and the programs that run on it, for every set  *)
(* of qos values and of faults, every number of messages and of calls: who *)
(* holds the session and the heap blocks at every return of every call,    *)
(* the types of the state, the order of the packets the client sends, and  *)
(* what publisher and subscriber make of the packets of the broker.        *)
(* They hold for the programs because each of their steps is a call of the *)
(* session API, a step of a call that reads, or no step of the session.    *)
(***************************************************************************)
EXTENDS MqttPrograms, TLAPS, FiniteSetTheorems

\* The caller of its own is never where the built-in programs are.
CallerPlaces == prog = "caller" => at \in {"start", "any", "asked", "subscribed"}

\* Only a message just received is held, and it is still to be shown.
MessageInHand ==
    /\ heap \subseteq {"buf", "msg"}
    /\ (prog # "caller" /\ "msg" \in heap) => (at = "receiving" /\ call = "none" /\ ret = 0)
    /\ (prog # "caller" /\ call = "recv_message") => at = "receiving"

\* A connection that failed has closed its session.
FailureClosed == at = "connecting" =>
    /\ call \in {"none", "connection"}
    /\ (call = "none" /\ ret # 0) => ~open

Ended == at = "done" => (~open /\ call = "none")

IInv == NothingHeld /\ CallerPlaces /\ MessageInHand /\ FailureClosed /\ Ended

\* Nothing is held at the start.
LEMMA InitIInv == Init => IInv
  BY ProgramsAssumption
  DEF Init, MqttInit, IInv, NothingHeld, CallerPlaces, MessageInHand, FailureClosed, Ended, Reading

-----------------------------------------------------------------------------
(* One lemma per call of the session API: what it does to who holds what. *)

\* The part of IInv that is about the session alone.
SessionHeld == NothingHeld /\ heap \subseteq {"buf", "msg"}

\* A call that begins: it returns at once or waits, and takes no message.
LEMMA CallBegins ==
  ASSUME SessionHeld, NEW q,
         mqtt_connection \/ mqtt_data_send(q) \/ mqtt_subscribe \/ mqtt_recv_message
  PROVE  SessionHeld' /\ (("msg" \in heap') <=> ("msg" \in heap))
<1> USE DEF SessionHeld, NothingHeld, Reading, Return, Await, TlsSend, NothingSent, StaysOpen,
            tls_close
<1>1. CASE mqtt_connection
  BY <1>1 DEF mqtt_connection
<1>2. CASE mqtt_data_send(q)
  BY <1>2 DEF mqtt_data_send
<1>3. CASE mqtt_subscribe
  BY <1>3 DEF mqtt_subscribe
<1>4. CASE mqtt_recv_message
  BY <1>4 DEF mqtt_recv_message
<1> QED
  BY <1>1, <1>2, <1>3, <1>4

\* No other call waits as mqtt_recv_message does.
LEMMA OnlyReceiveReceives ==
  ASSUME NEW q, mqtt_data_send(q) \/ mqtt_subscribe
  PROVE  call' # "recv_message"
  BY DEF mqtt_data_send, mqtt_subscribe, Return, Await

\* A disconnected session is closed, with or without its DISCONNECT sent.
LEMMA DisconnectCloses ==
  ASSUME SessionHeld, mqtt_disconnect
  PROVE  SessionHeld' /\ ~open' /\ call' = "none" /\ heap' = heap
<1> USE DEF SessionHeld, NothingHeld, Reading
<1>1. CASE ~open
  <2>1. call = "none" /\ UNCHANGED <<call, heap, open, link>>
    BY <1>1 DEF mqtt_disconnect, sessVars, netVars
  <2> QED
    BY <1>1, <2>1
<1>2. CASE open
  BY <1>2 DEF mqtt_disconnect, tls_close
<1> QED
  BY <1>1, <1>2

\* mqtt_message_free leaves no message.
LEMMA FreeForgets ==
  ASSUME SessionHeld, mqtt_message_free
  PROVE  SessionHeld' /\ "msg" \notin heap' /\ call' = call /\ ret' = ret /\ open' = open
  BY DEF SessionHeld, NothingHeld, Reading, mqtt_message_free, netVars

\* A step of a call that reads: the call goes on, or it returns without its
\* buffer; a message comes only from mqtt_recv_message that returns 0.
LEMMA ReadHolds ==
  ASSUME SessionHeld, Read
  PROVE  /\ SessionHeld'
         /\ Reading
         /\ call' \in {call, "none"}
         /\ call' = call => heap' = heap
         /\ ("msg" \in heap' /\ "msg" \notin heap) => (call = "recv_message" /\ call' = "none" /\ ret' = 0)
         /\ (call = "connection" /\ call' = "none" /\ ret' # 0) => ~open'
<1> USE DEF SessionHeld, NothingHeld, Reading, Return, NothingSent, ChannelRead, StillReading,
            tls_close
<1>1. CASE ReadHeader
  BY <1>1 DEF ReadHeader
<1>2. CASE ReadOn
  BY <1>2 DEF ReadOn
<1>3. CASE ReadPacket
  <2>1. CASE call = "connection" /\ ConnackRead(rx.pkt)
    BY <1>3, <2>1 DEF ReadPacket, ConnackRead
  <2>2. CASE call = "data_send" /\ AckRead(rx.pkt)
    BY <1>3, <2>2 DEF ReadPacket, AckRead
  <2>3. CASE call = "subscribe" /\ SubackRead(rx.pkt)
    BY <1>3, <2>3 DEF ReadPacket, SubackRead
  <2>4. CASE call = "recv_message" /\ MessageRead(rx.pkt)
    BY <1>3, <2>4 DEF ReadPacket, MessageRead
  <2> QED
    BY <1>3, <2>1, <2>2, <2>3, <2>4 DEF ReadPacket
<1>4. CASE ReadTooLong
  BY <1>4 DEF ReadTooLong, GiveUp
<1>5. CASE ReadTimesOut
  BY <1>5 DEF ReadTimesOut, GiveUp
<1>6. CASE ReadFails
  BY <1>6 DEF ReadFails, GiveUp
<1> QED
  BY <1>1, <1>2, <1>3, <1>4, <1>5, <1>6 DEF Read

\* The broker and the network touch the connection, never what the client
\* holds; a link they break or close is still the client's to close.
LEMMA EnvironmentHolds ==
  ASSUME SessionHeld, Environment
  PROVE  SessionHeld' /\ UNCHANGED sessVars
<1> USE DEF SessionHeld, NothingHeld, Reading, SessionKeeps, Serves, sessVars
<1>1. ASSUME NEW v \in {Yes, No}, BrokerConnect(v) \/ BrokerSubscribe(v)
      PROVE  SessionHeld' /\ UNCHANGED sessVars
  BY <1>1 DEF BrokerConnect, BrokerSubscribe
<1>2. ASSUME NEW t \in {"PUBLISH", "HUGE"}, BrokerMessage(t)
      PROVE  SessionHeld' /\ UNCHANGED sessVars
  BY <1>2 DEF BrokerMessage
<1>3. CASE BrokerPublish
  BY <1>3 DEF BrokerPublish
<1>4. CASE BrokerSuback \/ BrokerChats \/ BrokerBye
  BY <1>4 DEF BrokerSuback, BrokerChats, BrokerBye
<1>5. CASE BrokerQuits \/ LinkBreaks
  BY <1>5 DEF BrokerQuits, LinkBreaks
<1> QED
  BY <1>1, <1>2, <1>3, <1>4, <1>5 DEF Environment
-----------------------------------------------------------------------------
(* The programs. *)

\* The caller's calls come in any order; nothing but SessionHeld is at stake.
LEMMA CallerPreserves == IInv /\ Caller => IInv'
<1> SUFFICES ASSUME IInv, Caller PROVE IInv'
  OBVIOUS
<1> USE DEF IInv, SessionHeld, CallerPlaces, MessageInHand, FailureClosed, Ended
<1>1. ASSUME NEW q \in Qos, CallerSends(q) PROVE IInv'
  BY <1>1, CallBegins DEF CallerSends, Calling, Standing
<1>2. CASE CallerConnects
  BY <1>2, CallBegins DEF CallerConnects, From, Goes
<1>3. CASE CallerSubscribes
  BY <1>3, CallBegins DEF CallerSubscribes, Calling
<1>4. CASE CallerReceives
  BY <1>4, CallBegins DEF CallerReceives, Calling
<1>5. CASE CallerFrees
  BY <1>5, FreeForgets DEF CallerFrees, From
<1>6. CASE CallerDisconnects
  BY <1>6, DisconnectCloses DEF CallerDisconnects, Calling, Standing
<1> QED
  BY <1>1, <1>2, <1>3, <1>4, <1>5, <1>6 DEF Caller

\* Every way out of a program goes through mqtt_disconnect, or follows a
\* connection that has closed its session itself.
LEMMA ClientPreserves == IInv /\ Client => IInv'
<1> SUFFICES ASSUME IInv, Client PROVE IInv'
  OBVIOUS
<1> USE DEF IInv, SessionHeld, CallerPlaces, MessageInHand, FailureClosed, Ended
<1>1. CASE Read /\ UNCHANGED progVars
  <2>1. prog' = prog /\ at' = at
    BY <1>1 DEF progVars
  <2> QED
    BY <1>1, <2>1, ReadHolds DEF Reading
<1>2. CASE Start
  <2>1. mqtt_connection /\ prog' = prog /\ at' = "connecting" /\ prog # "caller" /\ at = "start"
    BY <1>2 DEF Start, From, Goes, Builtin
  <2>2. call' \in {"none", "connection"} /\ ((call' = "none" /\ ret' # 0) => ~open')
    BY <2>1 DEF mqtt_connection, Return, Await, StaysOpen, tls_close
  <2> QED
    BY <2>1, <2>2, CallBegins
<1>3. CASE NotConnected
  BY <1>3 DEF NotConnected, From, Builtin, mqttVars, sessVars, netVars, NothingHeld, Reading
<1>4. ASSUME NEW q \in Qos, Publish(q) PROVE IInv'
  BY <1>4, CallBegins, OnlyReceiveReceives DEF Publish, From, Goes
<1>5. CASE PublisherLeaves
  BY <1>5, DisconnectCloses DEF PublisherLeaves, From, Leaves
<1>6. CASE Subscribe
  BY <1>6, CallBegins, OnlyReceiveReceives DEF Subscribe, From, Goes, Subscribers
<1>7. CASE NotSubscribed
  BY <1>7, DisconnectCloses DEF NotSubscribed, From, Leaves, Subscribers
<1>8. CASE Receive
  BY <1>8, CallBegins DEF Receive, From, Goes, Subscribers
<1>9. CASE Shows
  BY <1>9, FreeForgets DEF Shows, From, Subscribers
<1>10. CASE ReceiveAgain
  BY <1>10, CallBegins DEF ReceiveAgain, From, Goes
<1>11. CASE OneShown
  BY <1>11, DisconnectCloses DEF OneShown, From, Leaves
<1>12. CASE NoMessage
  BY <1>12, DisconnectCloses DEF NoMessage, From, Leaves, Subscribers
<1> QED
  BY <1>1, <1>2, <1>3, <1>4, <1>5, <1>6, <1>7, <1>8, <1>9, <1>10, <1>11, <1>12 DEF Client

\* Every step keeps the invariant.
LEMMA NextPreserves == IInv /\ [Next]_vars => IInv'
<1> SUFFICES ASSUME IInv, [Next]_vars PROVE IInv'
  OBVIOUS
<1>1. CASE Client
  BY <1>1, ClientPreserves
<1>2. CASE Caller
  BY <1>2, CallerPreserves
<1>3. CASE Environment /\ UNCHANGED progVars
  BY <1>3, EnvironmentHolds
  DEF IInv, SessionHeld, CallerPlaces, MessageInHand, FailureClosed, Ended, sessVars, progVars
<1>4. CASE UNCHANGED vars
  BY <1>4 DEF IInv, CallerPlaces, MessageInHand, FailureClosed, Ended, NothingHeld, Reading,
              vars, mqttVars, sessVars, netVars, progVars
<1> QED
  BY <1>1, <1>2, <1>3, <1>4 DEF Next

\* So it holds throughout.
LEMMA Invariance == Spec => []IInv
<1>1. Init => IInv
  BY InitIInv
<1>2. IInv /\ [Next]_vars => IInv'
  BY NextPreserves
<1> QED
  BY <1>1, <1>2, PTL DEF Spec

-----------------------------------------------------------------------------
\* Between calls no receive buffer is held, while a call reads there is one and
\* a session, and the session is open exactly as long as its connection:
\* whatever the callers pass, and whichever of the calls fails
\* (mqtt_connection to mqtt_recv_message of mqtt_client.c).
THEOREM BuffersFreed == Spec => []NothingHeld
<1>1. IInv => NothingHeld
  BY DEF IInv
<1> QED
  BY <1>1, Invariance, PTL

\* mqtt_publisher and mqtt_subscriber leave no session, buffer or message
\* behind on any of their returns.
THEOREM ProgramsLeaveNothing == Spec => []CleanExit
<1>1. IInv => CleanExit
  BY DEF IInv, CleanExit, Ended, CallerPlaces, MessageInHand, NothingHeld, Reading
<1> QED
  BY <1>1, Invariance, PTL

-----------------------------------------------------------------------------
(* What travels, and the types of the state. *)

ClientPackets == [type : {"CONNECT", "PUBLISH", "SUBSCRIBE", "DISCONNECT"}, qos : 0..2, num : Nat]

\* A packet of the broker, or what a torn packet is taken for.
Packets == {p \in [type : ServerTypes \cup {"none"}, val : Nat] :
                p.type = "PUBLISH" => p.val <= MaxPublish}
Units == {u \in [pkt : Packets, at : Nat] : u.at \in 1..Size(u.pkt)}

BrokerStates ==
    [phase : {"none", "idle", "refused", "up", "off"}, sub : BOOLEAN,
     owes : {"nothing", "yes", "no"}, pub : 0..MaxPublish, held : BOOLEAN, taken : SUBSET Nat]

PacketsTyped == sent \in Seq(ClientPackets) /\ c2b \in Seq(ClientPackets)

ReaderTyped ==
    /\ call \in Calls \cup {"none"} /\ ret \in {-1, 0, 1} /\ out \in 0..MaxPublish
    /\ rx \in [pkt : Packets, have : Nat, need : 0..MaxSize] /\ rx.have <= rx.need
    /\ b2c \in Seq(Units)

ConnectionTyped ==
    /\ open \in BOOLEAN /\ heap \subseteq {"buf", "msg"}
    /\ link \in {"none", "up", "fin", "down", "closed"} /\ broker \in BrokerStates

\* mqtt_data_send waits only for the answer to a PUBLISH.
SureTyped ==
    /\ sure \subseteq 1..Cardinality(Sent("PUBLISH"))
    /\ call = "data_send" => Sent("PUBLISH") # {}

Types == PacketsTyped /\ ReaderTyped /\ ConnectionTyped /\ SureTyped

LEMMA TypesImply == Types => MqttTypeOK
<1> SUFFICES ASSUME Types PROVE MqttTypeOK
  OBVIOUS
<1>1. \A i \in DOMAIN b2c : b2c[i].at \in 1..Size(b2c[i].pkt)
  <2>1. \A i \in DOMAIN b2c : b2c[i] \in Units
    BY DEF Types, ReaderTyped
  <2> QED
    BY <2>1 DEF Units
<1> QED
  BY <1>1 DEF Types, ReaderTyped, ConnectionTyped, SureTyped, BrokerStates, MqttTypeOK

-----------------------------------------------------------------------------
(* Sizes, units and the packets already sent. *)

LEMMA SizeType == ASSUME NEW p PROVE Size(p) \in 2..MaxSize
  BY DEF Size, MaxSize

LEMMA CutType == ASSUME NEW p \in Packets PROVE Cut(p) \in Seq(Units)
<1>1. Size(p) \in Nat
  BY SizeType DEF MaxSize
<1>2. \A i \in 1..Size(p) : [pkt |-> p, at |-> i] \in Units
  BY <1>1 DEF Units
<1> QED
  BY <1>1, <1>2 DEF Cut

LEMMA NoUnits == <<>> \in Seq(Units)
  OBVIOUS

LEMMA NoRxType == NoRx \in [pkt : Packets, have : Nat, need : 0..MaxSize] /\ NoRx.have <= NoRx.need
  BY DEF NoRx, Packet, Packets, MaxSize

LEMMA PacketType ==
  ASSUME NEW t \in ServerTypes, NEW v \in Nat, t = "PUBLISH" => v <= MaxPublish
  PROVE  Packet(t, v) \in Packets
  BY DEF Packet, Packets

LEMMA SentFinite ==
  ASSUME PacketsTyped
  PROVE  IsFiniteSet(Sent("PUBLISH")) /\ Cardinality(Sent("PUBLISH")) \in Nat
<1>1. IsFiniteSet(1..Len(sent))
  BY FS_Interval DEF PacketsTyped
<1>2. Sent("PUBLISH") \subseteq 1..Len(sent)
  BY DEF Sent, PacketsTyped
<1> QED
  BY <1>1, <1>2, FS_Subset, FS_CardinalityType

LEMMA SentFiniteNext ==
  ASSUME PacketsTyped'
  PROVE  IsFiniteSet(Sent("PUBLISH")') /\ Cardinality(Sent("PUBLISH")') \in Nat
<1>1. IsFiniteSet(1..Len(sent'))
  BY FS_Interval DEF PacketsTyped
<1>2. Sent("PUBLISH")' \subseteq 1..Len(sent')
  BY DEF Sent, PacketsTyped
<1> QED
  BY <1>1, <1>2, FS_Subset, FS_CardinalityType

\* What is sent stays sent: the number of PUBLISHes never falls.
LEMMA SentGrows ==
  ASSUME PacketsTyped, NEW p \in ClientPackets, sent' = Append(sent, p), PacketsTyped'
  PROVE  /\ Sent("PUBLISH") \subseteq Sent("PUBLISH")'
         /\ Cardinality(Sent("PUBLISH")) <= Cardinality(Sent("PUBLISH"))'
         /\ p.type = "PUBLISH" => Sent("PUBLISH")' # {}
<1>1. /\ Len(sent') = Len(sent) + 1 /\ sent'[Len(sent) + 1] = p
      /\ \A i \in 1..Len(sent) : sent'[i] = sent[i]
  BY DEF PacketsTyped
<1>2. Sent("PUBLISH") \subseteq Sent("PUBLISH")'
  BY <1>1 DEF Sent, PacketsTyped
<1>3. IsFiniteSet(Sent("PUBLISH")')
  BY SentFiniteNext
<1>4. Cardinality(Sent("PUBLISH")) <= Cardinality(Sent("PUBLISH")')
  BY <1>2, <1>3, FS_Subset
<1>5. Len(sent) + 1 \in DOMAIN sent'
  BY DEF PacketsTyped
<1>6. p.type = "PUBLISH" => Sent("PUBLISH")' # {}
  BY <1>1, <1>5 DEF Sent
<1> QED
  BY <1>2, <1>4, <1>6

LEMMA NoBrokerType ==
  NoBroker \in BrokerStates /\ [NoBroker EXCEPT !.phase = "idle"] \in BrokerStates
<1>1. 0 \in 0..MaxPublish /\ {} \in SUBSET Nat
  BY MaxPublishAssumption
<1>2. NoBroker \in BrokerStates
  BY <1>1 DEF NoBroker, BrokerStates
<1> QED
  BY <1>2 DEF BrokerStates

LEMMA InitTypes == MqttInit => Types
<1> SUFFICES ASSUME MqttInit PROVE Types
  OBVIOUS
<1>1. PacketsTyped /\ SureTyped
  BY DEF MqttInit, PacketsTyped, SureTyped
<1>2. ReaderTyped
  BY NoRxType, MaxPublishAssumption DEF MqttInit, ReaderTyped
<1>3. ConnectionTyped
  BY NoBrokerType DEF MqttInit, ConnectionTyped
<1> QED
  BY <1>1, <1>2, <1>3 DEF Types
-----------------------------------------------------------------------------
(* The calls, up to the point where they wait. *)

\* Sending p keeps the types; so does sending nothing.
LEMMA SendTypes ==
  ASSUME PacketsTyped, SureTyped, NEW p \in ClientPackets,
         TlsSend(p) \/ NothingSent, UNCHANGED sure,
         call' = "data_send" => (call = "data_send" \/ (~NothingSent /\ p.type = "PUBLISH"))
  PROVE  PacketsTyped' /\ SureTyped'
<1>1. CASE TlsSend(p)
  <2>1. PacketsTyped' /\ sent' = Append(sent, p)
    BY <1>1 DEF TlsSend, PacketsTyped
  <2>2. /\ Sent("PUBLISH") \subseteq Sent("PUBLISH")'
        /\ Cardinality(Sent("PUBLISH")) <= Cardinality(Sent("PUBLISH")')
        /\ p.type = "PUBLISH" => Sent("PUBLISH")' # {}
    BY <2>1, SentGrows
  <2>3. Cardinality(Sent("PUBLISH")) \in Nat /\ Cardinality(Sent("PUBLISH")') \in Nat
    BY <2>1, SentFinite, SentFiniteNext
  <2>4. 1..Cardinality(Sent("PUBLISH")) \subseteq 1..Cardinality(Sent("PUBLISH")')
    BY <2>2, <2>3
  <2> QED
    BY <2>1, <2>2, <2>4 DEF SureTyped
<1>2. CASE NothingSent
  BY <1>2 DEF NothingSent, PacketsTyped, SureTyped, Sent
<1> QED
  BY <1>1, <1>2

LEMMA ClientPacketType ==
  ASSUME NEW t \in {"CONNECT", "SUBSCRIBE", "DISCONNECT"}
  PROVE  ClientPacket(t, 0, 0) \in ClientPackets
  BY DEF ClientPacket, ClientPackets

LEMMA ConnectionTypes ==
  ASSUME Types, mqtt_connection
  PROVE  Types'
<1> DEFINE p == ClientPacket("CONNECT", 0, 0)
<1>1. /\ TlsSend(p) \/ NothingSent
      /\ UNCHANGED <<sure, out>> /\ call' \in {"none", "connection"}
  BY DEF mqtt_connection, Return, Await
<1>2. PacketsTyped' /\ SureTyped'
  <2>1. p \in ClientPackets
    BY ClientPacketType
  <2> HIDE DEF p
  <2> QED
    BY <1>1, <2>1, SendTypes DEF Types
<1>3. ReaderTyped'
  <2>1. ret' \in {-1, 0, 1} /\ rx' = NoRx /\ b2c' \in {b2c, <<>>}
    BY DEF Types, ReaderTyped, mqtt_connection, Return, Await, StaysOpen, tls_close
  <2> QED
    BY <1>1, <2>1, NoRxType, NoUnits DEF Types, ReaderTyped, Calls
<1>4. ConnectionTyped'
  <2>1. broker' \in BrokerStates
    BY NoBrokerType DEF Types, ConnectionTyped, mqtt_connection
  <2>2. /\ open' \in BOOLEAN /\ heap' \subseteq {"buf", "msg"}
        /\ link' \in {"none", "up", "fin", "down", "closed"}
    BY DEF Types, ConnectionTyped, mqtt_connection, Return, Await, StaysOpen, tls_close
  <2> QED
    BY <2>1, <2>2 DEF ConnectionTyped
<1> QED
  BY <1>2, <1>3, <1>4 DEF Types

\* The calls on an open session leave the connection and the broker alone.
LEMMA OpenCallTypes ==
  ASSUME Types, NEW q \in Int, mqtt_data_send(q) \/ mqtt_subscribe \/ mqtt_recv_message
  PROVE  Types'
<1> DEFINE k == Cardinality(Sent("PUBLISH")) + 1
           pub == ClientPacket("PUBLISH", Clamp(q), k)
           subs == ClientPacket("SUBSCRIBE", 0, 0)
<1>1. pub \in ClientPackets /\ pub.type = "PUBLISH"
  <2>1. k \in Nat
    BY SentFinite DEF Types
  <2>2. Clamp(q) \in 0..2
    BY DEF Clamp
  <2> QED
    BY <2>1, <2>2 DEF ClientPacket, ClientPackets
<1>2. subs \in ClientPackets
  BY ClientPacketType
<1>3. /\ UNCHANGED <<sure, open, link, b2c, broker>>
      /\ out' \in {out, 0}
      /\ \/ TlsSend(pub) /\ call' \in {"none", "data_send"}
         \/ TlsSend(subs) /\ call' \in {"none", "subscribe"}
         \/ NothingSent /\ call' \in {"none", "recv_message"}
  BY DEF mqtt_data_send, mqtt_subscribe, mqtt_recv_message, Return, Await, StaysOpen
<1>4. PacketsTyped' /\ SureTyped'
  <2> HIDE DEF pub, subs
  <2>1. CASE TlsSend(pub) /\ call' \in {"none", "data_send"}
    <3>1. ~NothingSent
      BY <2>1 DEF Types, PacketsTyped, TlsSend, NothingSent
    <3> QED
      BY <1>1, <1>3, <2>1, <3>1, SendTypes DEF Types
  <2>2. CASE TlsSend(subs) /\ call' \in {"none", "subscribe"}
    BY <1>2, <1>3, <2>2, SendTypes DEF Types
  <2>3. CASE NothingSent /\ call' \in {"none", "recv_message"}
    BY <1>2, <1>3, <2>3, SendTypes DEF Types
  <2> QED
    BY <1>3, <2>1, <2>2, <2>3
<1>5. /\ ret' \in {ret, -1, 0} /\ rx' = NoRx /\ heap' \in {heap \cup {"buf"}, heap \ {"buf"}}
  BY DEF mqtt_data_send, mqtt_subscribe, mqtt_recv_message, Return, Await
<1>6. ReaderTyped'
  <2>1. out' \in 0..MaxPublish
    BY <1>3, MaxPublishAssumption DEF Types, ReaderTyped
  <2>2. call' \in Calls \cup {"none"}
    BY <1>3 DEF Calls
  <2> QED
    BY <1>3, <1>5, <2>1, <2>2, NoRxType DEF Types, ReaderTyped
<1>7. ConnectionTyped'
  BY <1>3, <1>5 DEF Types, ConnectionTyped
<1> QED
  BY <1>4, <1>6, <1>7 DEF Types

LEMMA CloseTypes ==
  ASSUME Types, mqtt_disconnect \/ mqtt_message_free
  PROVE  Types'
<1> DEFINE p == ClientPacket("DISCONNECT", 0, 0)
<1>1. /\ UNCHANGED <<call, rx, ret, sure, broker>>
      /\ TlsSend(p) \/ NothingSent
  <2>1. CASE mqtt_message_free
    BY <2>1 DEF mqtt_message_free, netVars, NothingSent
  <2>2. CASE mqtt_disconnect /\ ~open
    BY <2>2 DEF mqtt_disconnect, sessVars, netVars, NothingSent
  <2>3. CASE mqtt_disconnect /\ open
    BY <2>3 DEF mqtt_disconnect
  <2> QED
    BY <2>1, <2>2, <2>3
<1>2. /\ heap' \subseteq heap /\ out' \in {out, 0} /\ open' \in {open, FALSE}
      /\ b2c' \in {b2c, <<>>} /\ link' \in {link, "closed"}
  <2>1. CASE mqtt_message_free
    BY <2>1 DEF mqtt_message_free, netVars
  <2>2. CASE mqtt_disconnect /\ ~open
    BY <2>2 DEF mqtt_disconnect, sessVars, netVars
  <2>3. CASE mqtt_disconnect /\ open
    BY <2>3 DEF mqtt_disconnect, tls_close
  <2> QED
    BY <2>1, <2>2, <2>3
<1>3. PacketsTyped' /\ SureTyped'
  <2>1. p \in ClientPackets
    BY ClientPacketType
  <2> HIDE DEF p
  <2> QED
    BY <1>1, <2>1, SendTypes DEF Types
<1>4. ReaderTyped'
  <2>1. out' \in 0..MaxPublish
    BY <1>2, MaxPublishAssumption DEF Types, ReaderTyped
  <2>2. b2c' \in Seq(Units)
    BY <1>2, NoUnits DEF Types, ReaderTyped
  <2>3. UNCHANGED <<call, rx, ret>>
    BY <1>1
  <2> QED
    BY <2>1, <2>2, <2>3 DEF Types, ReaderTyped
<1>5. ConnectionTyped'
  BY <1>1, <1>2 DEF Types, ConnectionTyped
<1> QED
  BY <1>3, <1>4, <1>5 DEF Types
-----------------------------------------------------------------------------
(* The calls, from the packet they waited for. *)

\* What is left of the channel after a unit is taken from it.
LEMMA ChannelTypes ==
  ASSUME b2c \in Seq(Units), b2c # <<>>
  PROVE  /\ Head(b2c) \in Units /\ Tail(b2c) \in Seq(Units)
         /\ Head(b2c).pkt \in Packets
<1>1. Head(b2c) \in Units /\ Tail(b2c) \in Seq(Units)
  OBVIOUS
<1> QED
  BY <1>1 DEF Units

LEMMA GarbageType == Garbage \subseteq Packets
<1> SUFFICES ASSUME NEW t \in ServerTypes PROVE Packet(t, 0) \in Packets
  BY DEF Garbage
<1> QED
  BY PacketType, MaxPublishAssumption

LEMMA GiveUpTypes ==
  ASSUME ReaderTyped, ConnectionTyped, NEW r \in {-1, 1}, NEW rest \in Seq(Units), GiveUp(r, rest)
  PROVE  ReaderTyped' /\ ConnectionTyped' /\ NothingSent /\ UNCHANGED sure /\ call' = "none"
<1>1. /\ call' = "none" /\ ret' = r /\ rx' = NoRx /\ heap' \subseteq heap
      /\ UNCHANGED <<out, sure, broker>> /\ NothingSent
      /\ open' \in {open, FALSE} /\ link' \in {link, "closed"} /\ b2c' \in {<<>>, rest}
  BY DEF GiveUp, Return, tls_close
<1>2. b2c' \in Seq(Units)
  BY <1>1, NoUnits
<1>3. ReaderTyped'
  BY <1>1, <1>2, NoRxType DEF ReaderTyped
<1> QED
  BY <1>1, <1>3 DEF ConnectionTyped

\* Every packet a call has waited for ends the call or, in mqtt_recv_message,
\* is passed over.
LEMMA ReadPacketTypes ==
  ASSUME Types, ReadPacket
  PROVE  /\ ReaderTyped' /\ ConnectionTyped' /\ NothingSent /\ call' \in {call, "none"}
         /\ UNCHANGED sure \/ (call = "data_send" /\ sure' = sure \cup {Cardinality(Sent("PUBLISH"))})
<1>1. /\ NothingSent /\ UNCHANGED broker /\ b2c # <<>> /\ b2c \in Seq(Units)
      /\ Tail(b2c) \in Seq(Units) /\ rx.pkt \in Packets
  BY ChannelTypes DEF ReadPacket, Types, ReaderTyped
<1>2. /\ call' \in {call, "none"} /\ ret' \in {ret, 0, -1} /\ rx' = NoRx
      /\ b2c' \in {Tail(b2c), <<>>}
      /\ open' \in {open, FALSE} /\ link' \in {link, "closed"}
      /\ heap' \subseteq heap \cup {"msg"}
      /\ out' = out \/ (rx.pkt.type = "PUBLISH" /\ out' = rx.pkt.val)
      /\ UNCHANGED sure \/ (call = "data_send" /\ sure' = sure \cup {Cardinality(Sent("PUBLISH"))})
  <2>1. CASE call = "connection" /\ ConnackRead(rx.pkt)
    BY <2>1 DEF ConnackRead, Return, tls_close
  <2>2. CASE call = "data_send" /\ AckRead(rx.pkt)
    BY <2>2 DEF AckRead, Return, ChannelRead
  <2>3. CASE call = "subscribe" /\ SubackRead(rx.pkt)
    BY <2>3 DEF SubackRead, Return, ChannelRead
  <2>4. CASE call = "recv_message" /\ MessageRead(rx.pkt)
    BY <2>4 DEF MessageRead, Return, ChannelRead
  <2> QED
    BY <2>1, <2>2, <2>3, <2>4 DEF ReadPacket
<1>3. out' \in 0..MaxPublish
  BY <1>1, <1>2, MaxPublishAssumption DEF Types, ReaderTyped, Packets
<1>4. b2c' \in Seq(Units)
  BY <1>1, <1>2, NoUnits
<1>5. ReaderTyped'
  BY <1>2, <1>3, <1>4, NoRxType DEF Types, ReaderTyped
<1>6. ConnectionTyped'
  BY <1>1, <1>2 DEF Types, ConnectionTyped
<1> QED
  BY <1>1, <1>2, <1>5, <1>6

\* The first units of a packet: only rx and the channel move.
LEMMA ReadPartTypes ==
  ASSUME Types, ReadHeader \/ ReadOn
  PROVE  ReaderTyped' /\ ConnectionTyped' /\ NothingSent /\ UNCHANGED <<sure, call>>
<1>1. /\ NothingSent /\ UNCHANGED <<call, ret, heap, out, sure, broker, open, link>>
      /\ b2c # <<>> /\ b2c' = Tail(b2c)
  BY DEF ReadHeader, ReadOn, StillReading, ChannelRead
<1>2. b2c' \in Seq(Units) /\ Head(b2c).pkt \in Packets
  BY <1>1, ChannelTypes DEF Types, ReaderTyped
<1>3. rx' \in [pkt : Packets, have : Nat, need : 0..MaxSize] /\ rx'.have <= rx'.need
  <2>1. CASE ReadHeader /\ Head(b2c).at = 1
    <3>1. rx' = [pkt |-> Head(b2c).pkt, have |-> 1, need |-> Size(Head(b2c).pkt)]
      BY <2>1 DEF ReadHeader
    <3> QED
      BY <1>2, <3>1, SizeType DEF MaxSize
  <2>2. CASE ReadHeader /\ Head(b2c).at # 1
    <3>1. PICK g \in Garbage, n \in 2..MaxSize : rx' = [pkt |-> g, have |-> 1, need |-> n]
      BY <2>2 DEF ReadHeader
    <3> QED
      BY <3>1, GarbageType DEF MaxSize
  <2>3. CASE ReadOn
    BY <2>3 DEF ReadOn, Types, ReaderTyped, MaxSize
  <2> QED
    BY <2>1, <2>2, <2>3
<1>4. ReaderTyped'
  BY <1>1, <1>2, <1>3 DEF Types, ReaderTyped
<1>5. ConnectionTyped'
  BY <1>1 DEF Types, ConnectionTyped
<1> QED
  BY <1>1, <1>4, <1>5

LEMMA ReadTypes ==
  ASSUME Types, Read
  PROVE  Types'
<1>1. /\ ReaderTyped' /\ ConnectionTyped' /\ NothingSent /\ call' \in {call, "none"}
      /\ UNCHANGED sure \/ (call = "data_send" /\ sure' = sure \cup {Cardinality(Sent("PUBLISH"))})
  <2>1. CASE ReadHeader \/ ReadOn
    BY <2>1, ReadPartTypes
  <2>2. CASE ReadPacket
    BY <2>2, ReadPacketTypes
  <2>3. CASE ReadTooLong
    <3>1. Tail(b2c) \in Seq(Units)
      BY <2>3, ChannelTypes DEF ReadTooLong, Types, ReaderTyped
    <3> QED
      BY <2>3, <3>1, GiveUpTypes DEF ReadTooLong, Types
  <2>4. CASE ReadTimesOut
    BY <2>4, GiveUpTypes DEF ReadTimesOut, Types, ReaderTyped
  <2>5. CASE ReadFails
    BY <2>5, GiveUpTypes DEF ReadFails, Types, ReaderTyped
  <2> QED
    BY <2>1, <2>2, <2>3, <2>4, <2>5 DEF Read
<1>2. PacketsTyped' /\ Sent("PUBLISH")' = Sent("PUBLISH")
  BY <1>1 DEF Types, PacketsTyped, NothingSent, Sent
<1>3. SureTyped'
  <2>1. CASE UNCHANGED sure
    BY <1>1, <1>2, <2>1 DEF Types, SureTyped
  <2>2. CASE call = "data_send" /\ sure' = sure \cup {Cardinality(Sent("PUBLISH"))}
    <3>1. Cardinality(Sent("PUBLISH")) \in 1..Cardinality(Sent("PUBLISH"))
      <4>1. Sent("PUBLISH") # {}
        BY <2>2 DEF Types, SureTyped
      <4> QED
        BY <4>1, SentFinite, FS_EmptySet DEF Types
    <3> QED
      BY <1>1, <1>2, <2>2, <3>1 DEF Types, SureTyped
  <2> QED
    BY <1>1, <2>1, <2>2
<1> QED
  BY <1>1, <1>2, <1>3 DEF Types
-----------------------------------------------------------------------------
(* The broker and the network. *)

LEMMA ReplyTypes ==
  ASSUME b2c \in Seq(Units), NEW p \in Packets, Reply(p)
  PROVE  b2c' \in Seq(Units)
<1>1. Cut(p) \in Seq(Units)
  BY CutType
<1>2. b2c \o Cut(p) \in Seq(Units)
  BY <1>1
<1> QED
  BY <1>2 DEF Reply

LEMMA AnswerType ==
  ASSUME NEW t \in ServerTypes \ {"PUBLISH"}, NEW v \in {Yes, No}
  PROVE  Packet(t, v) \in Packets
  BY PacketType DEF Yes, No

LEMMA ServesTypes ==
  ASSUME PacketsTyped, NEW t, Serves(t)
  PROVE  c2b' \in Seq(ClientPackets) /\ Head(c2b) \in ClientPackets
  BY DEF PacketsTyped, Serves

\* What the client has not touched keeps its type.
LEMMA EnvironmentTypes ==
  ASSUME Types, Environment
  PROVE  Types' /\ UNCHANGED sessVars
<1> DEFINE Keeps == /\ b2c' \in Seq(Units) /\ c2b' \in Seq(ClientPackets)
                    /\ link' \in {link, "fin", "down"} /\ broker' \in BrokerStates
<1>1. UNCHANGED sessVars
  BY DEF Environment, BrokerConnect, BrokerSubscribe, BrokerMessage, BrokerPublish,
         BrokerSuback, BrokerChats, BrokerBye, BrokerQuits, LinkBreaks, Serves, SessionKeeps
<1>2. /\ b2c \in Seq(Units) /\ c2b \in Seq(ClientPackets) /\ PacketsTyped
      /\ broker \in BrokerStates
  BY DEF Types, ConnectionTyped, ReaderTyped, PacketsTyped
<1>3. Keeps
  <2>1. ASSUME NEW v \in {Yes, No}, BrokerConnect(v) PROVE Keeps
    <3>1. Reply(Packet("CONNACK", v)) /\ Serves("CONNECT") /\ link' \in {link, "fin"}
      BY <2>1 DEF BrokerConnect
    <3>2. Packet("CONNACK", v) \in Packets
      BY AnswerType DEF ServerTypes
    <3>3. broker' \in BrokerStates
      BY <1>2, <2>1 DEF BrokerConnect, BrokerStates
    <3> QED
      BY <1>2, <3>1, <3>2, <3>3, ReplyTypes, ServesTypes
  <2>2. ASSUME NEW v \in {Yes, No}, BrokerSubscribe(v) PROVE Keeps
    <3>1. broker' \in BrokerStates
      BY <1>2, <2>2 DEF BrokerSubscribe, BrokerStates
    <3> QED
      BY <1>2, <2>2, <3>1, ServesTypes DEF BrokerSubscribe
  <2>3. ASSUME NEW t \in {"PUBLISH", "HUGE"}, BrokerMessage(t) PROVE Keeps
    <3>1. broker.pub + 1 \in 0..MaxPublish
      BY <1>2, <2>3, MaxPublishAssumption DEF BrokerMessage, BrokerStates
    <3>2. Packet(t, broker.pub + 1) \in Packets
      BY <3>1, PacketType, MaxPublishAssumption DEF ServerTypes
    <3>3. broker' \in BrokerStates
      BY <1>2, <2>3, <3>1 DEF BrokerMessage, BrokerStates
    <3>4. b2c' \in Seq(Units)
      BY <1>2, <2>3, <3>2, ReplyTypes DEF BrokerMessage
    <3> QED
      BY <1>2, <2>3, <3>3, <3>4 DEF BrokerMessage
  <2>4. CASE BrokerPublish
    <3>1. c2b' \in Seq(ClientPackets) /\ Head(c2b) \in ClientPackets
      BY <1>2, <2>4, ServesTypes DEF BrokerPublish
    <3>2. b2c' \in Seq(Units)
      <4>1. Packet("PUBACK", Yes) \in Packets /\ Packet("PUBREC", Yes) \in Packets
        BY AnswerType DEF ServerTypes
      <4>2. Head(c2b).qos \in {0, 1, 2}
        BY <3>1 DEF ClientPackets
      <4>3. \/ UNCHANGED b2c \/ Reply(Packet("PUBACK", Yes)) \/ Reply(Packet("PUBREC", Yes))
        BY <2>4, <4>2 DEF BrokerPublish
      <4> QED
        BY <1>2, <4>1, <4>3, ReplyTypes
    <3>3. broker' \in BrokerStates
      <4>1. Head(c2b).num \in Nat
        BY <3>1 DEF ClientPackets
      <4>2. broker.taken \cup {Head(c2b).num} \in SUBSET Nat
        BY <1>2, <4>1 DEF BrokerStates
      <4>3. PICK h \in BOOLEAN, k \in SUBSET Nat :
                broker' = [broker EXCEPT !.held = h, !.taken = k]
        BY <1>2, <2>4, <4>2 DEF BrokerPublish, BrokerStates
      <4> QED
        BY <1>2, <4>3 DEF BrokerStates
    <3> QED
      BY <2>4, <3>1, <3>2, <3>3 DEF BrokerPublish
  <2>5. CASE BrokerSuback
    <3>1. PICK v \in {Yes, No} : Reply(Packet("SUBACK", v))
      BY <2>5 DEF BrokerSuback
    <3>2. Packet("SUBACK", v) \in Packets
      BY AnswerType DEF ServerTypes
    <3>3. broker' \in BrokerStates
      BY <1>2, <2>5 DEF BrokerSuback, BrokerStates
    <3>4. b2c' \in Seq(Units)
      BY <1>2, <3>1, <3>2, ReplyTypes
    <3> QED
      BY <1>2, <2>5, <3>3, <3>4 DEF BrokerSuback
  <2>6. CASE BrokerBye
    <3>1. broker' \in BrokerStates
      BY <1>2, <2>6 DEF BrokerBye, BrokerStates
    <3> QED
      BY <1>2, <2>6, <3>1, ServesTypes DEF BrokerBye
  <2>7. CASE BrokerQuits
    <3>1. broker' \in BrokerStates
      BY <1>2, <2>7 DEF BrokerQuits, BrokerStates
    <3>2. Packet("DISCONNECT", 0) \in Packets
      BY AnswerType DEF ServerTypes, No
    <3>3. b2c' \in Seq(Units)
      BY <1>2, <2>7, <3>2, ReplyTypes DEF BrokerQuits
    <3> QED
      BY <1>2, <2>7, <3>1, <3>3 DEF BrokerQuits
  <2>8. CASE LinkBreaks
    BY <1>2, <2>8, NoUnits DEF LinkBreaks
  <2>9. CASE BrokerChats
    <3>1. Packet("PINGRESP", 0) \in Packets
      BY AnswerType DEF ServerTypes, No
    <3>2. b2c' \in Seq(Units)
      BY <1>2, <2>9, <3>1, ReplyTypes DEF BrokerChats
    <3> QED
      BY <1>2, <2>9, <3>2 DEF BrokerChats
  <2> QED
    BY <2>1, <2>2, <2>3, <2>4, <2>5, <2>6, <2>7, <2>8, <2>9 DEF Environment
<1> QED
  BY <1>1, <1>3 DEF Types, ConnectionTyped, PacketsTyped, ReaderTyped, SureTyped, Sent, sessVars

-----------------------------------------------------------------------------
(* Every step of a program, seen from the session. *)

SessionCall ==
    \/ mqtt_connection \/ mqtt_subscribe \/ mqtt_recv_message
    \/ \E q \in Qos : mqtt_data_send(q)
    \/ mqtt_disconnect \/ mqtt_message_free

LEMMA SessionSteps ==
  ASSUME [Next]_vars
  PROVE  SessionCall \/ Read \/ Environment \/ UNCHANGED mqttVars
<1>1. CASE Client
  BY <1>1 DEF Client, Start, NotConnected, Publish, PublisherLeaves, Subscribe, NotSubscribed,
     Receive, Shows, ReceiveAgain, OneShown, NoMessage, Leaves, SessionCall
<1>2. CASE Caller
  BY <1>2 DEF Caller, CallerSends, CallerConnects, CallerSubscribes, CallerReceives,
     CallerFrees, CallerDisconnects, SessionCall
<1> QED
  BY <1>1, <1>2 DEF Next, vars

LEMMA NextTypes ==
  ASSUME Types, [Next]_vars
  PROVE  Types'
<1>1. CASE SessionCall
  <2>1. CASE mqtt_connection
    BY <2>1, ConnectionTypes
  <2>2. ASSUME NEW q \in Qos, mqtt_data_send(q) PROVE Types'
    BY <2>2, OpenCallTypes, QosAssumption
  <2>3. CASE mqtt_subscribe \/ mqtt_recv_message
    BY <2>3, OpenCallTypes
  <2>4. CASE mqtt_disconnect \/ mqtt_message_free
    BY <2>4, CloseTypes
  <2> QED
    BY <1>1, <2>1, <2>2, <2>3, <2>4 DEF SessionCall
<1>2. CASE UNCHANGED mqttVars
  <2>1. UNCHANGED <<call, rx, ret, open, heap, out, sent, sure, link, b2c, c2b, broker>>
    BY <1>2 DEF mqttVars, sessVars, netVars
  <2> QED
    BY <2>1 DEF Types, ConnectionTyped, PacketsTyped, ReaderTyped, SureTyped, Sent
<1> QED
  BY <1>1, <1>2, SessionSteps, ReadTypes, EnvironmentTypes
-----------------------------------------------------------------------------
(* The types of the programs' own state. *)

ProgramTyped ==
    /\ prog \in Programs /\ exit \in {-1, 0, 1} /\ calls \in 0..MaxCalls
    /\ at \in {"start", "connecting", "sending", "subscribing", "receiving", "shown",
               "any", "asked", "subscribed", "done"}
    /\ shown \in Seq(0..MaxPublish)

LEMMA SeqElements ==
  ASSUME NEW S, NEW s \in Seq(S)
  PROVE  \A i \in DOMAIN s : s[i] \in S
  OBVIOUS

LEMMA ProgramSteps ==
  ASSUME Types, ProgramTyped, [Next]_vars
  PROVE  ProgramTyped'
<1> USE DEF ProgramTyped
<1>1. ret \in {-1, 0, 1} /\ out \in 0..MaxPublish
  BY DEF Types, ReaderTyped
<1>2. CASE UNCHANGED progVars
  BY <1>2 DEF progVars
<1>3. CASE Shows \/ CallerFrees
  <2>1. shown' = Append(shown, out) /\ UNCHANGED <<prog, exit, calls>>
    BY <1>3 DEF Shows, CallerFrees
  <2>2. at' \in {at, "shown"}
    BY <1>3 DEF Shows, CallerFrees
  <2> QED
    BY <1>1, <2>1, <2>2
<1>4. CASE NotConnected \/ PublisherLeaves \/ NotSubscribed \/ OneShown \/ NoMessage
  <2>1. at' = "done" /\ exit' \in {-1, 0, ret} /\ UNCHANGED <<prog, shown, calls>>
    BY <1>4 DEF NotConnected, PublisherLeaves, NotSubscribed, OneShown, NoMessage, Leaves
  <2> QED
    BY <1>1, <2>1
<1>5. CASE Start \/ Subscribe \/ Receive \/ ReceiveAgain \/ CallerConnects
  BY <1>5 DEF Start, Subscribe, Receive, ReceiveAgain, CallerConnects, Goes
<1>6. ASSUME NEW q, Publish(q) PROVE ProgramTyped'
  BY <1>6 DEF Publish, Goes
<1>7. ASSUME NEW q, CallerSends(q) \/ CallerSubscribes \/ CallerReceives \/ CallerDisconnects
      PROVE  ProgramTyped'
  <2>1. Calling /\ at' \in {Standing, "asked", "subscribed"}
    BY <1>7 DEF CallerSends, CallerSubscribes, CallerReceives, CallerDisconnects
  <2>2. Standing \in {at, "any", "subscribed"}
    BY DEF Standing
  <2> QED
    BY <2>1, <2>2, ProgramsAssumption DEF Calling
<1> QED
  BY <1>2, <1>3, <1>4, <1>5, <1>6, <1>7 DEF Next, Client, Caller, vars

\* The state of the session, the connection and the broker, and of the programs
\* that use it, keeps its type.
THEOREM TypeCorrect == Spec => []TypeOK
<1>1. Init => Types /\ ProgramTyped
  <2> SUFFICES ASSUME Init PROVE Types /\ ProgramTyped
    OBVIOUS
  <2>1. Types
    BY InitTypes DEF Init
  <2>2. 0 \in 0..MaxCalls /\ <<>> \in Seq(0..MaxPublish)
    BY ProgramsAssumption
  <2> QED
    BY <2>1, <2>2 DEF Init, ProgramTyped
<1>2. Types /\ ProgramTyped /\ [Next]_vars => (Types /\ ProgramTyped)'
  BY NextTypes, ProgramSteps
<1>3. Types /\ ProgramTyped => TypeOK
  <2> SUFFICES ASSUME Types, ProgramTyped PROVE TypeOK
    OBVIOUS
  <2>1. \A i \in DOMAIN shown : shown[i] \in 0..MaxPublish
    BY SeqElements DEF ProgramTyped
  <2> QED
    BY <2>1, TypesImply DEF ProgramTyped, TypeOK
<1> QED
  BY <1>1, <1>2, <1>3, PTL DEF Spec
-----------------------------------------------------------------------------
(* The order of the client's packets. *)

\* What the broker has accepted it does not take back on this connection.
Accepted == broker.phase \in {"up", "off"}
SaysYes(p) == p.type = "CONNACK" /\ p.val = Yes

\* The first packet is the CONNECT, sent once the connection is there; the
\* last is a DISCONNECT, after which the connection is closed.
FirstAndLast ==
    /\ \A i \in DOMAIN sent : (sent[i].type = "CONNECT") <=> (i = 1)
    /\ \A i \in DOMAIN sent : sent[i].type = "DISCONNECT" => (i = Len(sent) /\ link = "closed")
    /\ link = "none" => (sent = <<>> /\ b2c = <<>> /\ rx = NoRx)
    /\ open => sent # <<>>

\* A positive CONNACK on its way, or read, says that the broker has accepted;
\* the session is open to other calls only after it.
AcceptedFirst ==
    /\ Len(sent) > 1 => Accepted
    /\ (open /\ call # "connection") => Accepted
    /\ \A i \in DOMAIN b2c : SaysYes(b2c[i].pkt) => Accepted
    /\ SaysYes(rx.pkt) => Accepted

PInv == Types /\ NothingHeld /\ FirstAndLast /\ AcceptedFirst

LEMMA PInvImplies == PInv => ClientProtocol
  BY DEF PInv, Types, PacketsTyped, FirstAndLast, AcceptedFirst, Accepted, ClientProtocol, Sent

LEMMA NoRxSaysNothing == ~SaysYes(NoRx.pkt)
  BY DEF SaysYes, NoRx, Packet

LEMMA InitPInv == MqttInit => PInv
<1> SUFFICES ASSUME MqttInit PROVE PInv
  OBVIOUS
<1>1. NothingHeld /\ FirstAndLast
  BY DEF MqttInit, NothingHeld, Reading, FirstAndLast
<1>2. AcceptedFirst
  BY NoRxSaysNothing DEF MqttInit, AcceptedFirst
<1> QED
  BY <1>1, <1>2, InitTypes DEF PInv

LEMMA ConnectionKeepsOrder ==
  ASSUME PInv, Types', NothingHeld', mqtt_connection
  PROVE  PInv'
<1> DEFINE p == ClientPacket("CONNECT", 0, 0)
<1>1. /\ sent = <<>> /\ b2c = <<>> /\ b2c' = <<>> /\ rx' = NoRx
      /\ link = "none" /\ ~open
  BY DEF PInv, FirstAndLast, mqtt_connection, Return, Await, StaysOpen, tls_close
<1>2. \/ UNCHANGED <<open, link, sent>> /\ call' = "none"
      \/ /\ link' \in {"up", "closed"} /\ (open' => call' = "connection")
         /\ sent' \in {<<>>, <<p>>} /\ (open' => sent' = <<p>>)
  BY <1>1 DEF mqtt_connection, Return, Await, StaysOpen, tls_close, TlsSend, NothingSent
<1>3. p.type = "CONNECT"
  BY DEF ClientPacket
<1> HIDE DEF p
<1>4. FirstAndLast'
  BY <1>1, <1>2, <1>3 DEF FirstAndLast
<1>5. AcceptedFirst'
  <2>1. Len(sent') <= 1 /\ (open' => call' = "connection")
    BY <1>1, <1>2
  <2>2. DOMAIN b2c' = {} /\ ~SaysYes(rx'.pkt)
    BY <1>1, NoRxSaysNothing
  <2> QED
    BY <2>1, <2>2 DEF AcceptedFirst
<1> QED
  BY <1>4, <1>5 DEF PInv

\* A PUBLISH or SUBSCRIBE goes out on an open session only.
LEMMA OpenCallKeepsOrder ==
  ASSUME PInv, Types', NothingHeld', NEW q \in Int,
         mqtt_data_send(q) \/ mqtt_subscribe \/ mqtt_recv_message
  PROVE  PInv'
<1>1. /\ call = "none" /\ UNCHANGED <<open, link, b2c, broker>> /\ rx' = NoRx
      /\ call' # "connection"
      /\ \/ UNCHANGED sent
         \/ open /\ \E p : p.type \in {"PUBLISH", "SUBSCRIBE"} /\ sent' = Append(sent, p)
  <2>1. /\ call = "none" /\ UNCHANGED <<open, link, b2c, broker>> /\ rx' = NoRx
        /\ call' # "connection"
        /\ \/ UNCHANGED sent
           \/ open /\ TlsSend(ClientPacket("PUBLISH", Clamp(q), Cardinality(Sent("PUBLISH")) + 1))
           \/ open /\ TlsSend(ClientPacket("SUBSCRIBE", 0, 0))
    BY DEF mqtt_data_send, mqtt_subscribe, mqtt_recv_message, Return, Await, StaysOpen,
           NothingSent
  <2>2. \A a, b : /\ ClientPacket("PUBLISH", a, b).type = "PUBLISH"
                 /\ ClientPacket("SUBSCRIBE", a, b).type = "SUBSCRIBE"
    BY DEF ClientPacket
  <2> QED
    BY <2>1, <2>2 DEF TlsSend
<1>2. Accepted' <=> Accepted
  BY <1>1 DEF Accepted
<1>3. sent \in Seq(ClientPackets)
  BY DEF PInv, Types, PacketsTyped
<1>4. FirstAndLast' /\ (Len(sent') > 1 => Accepted')
  <2>1. CASE UNCHANGED sent
    BY <1>1, <1>2, <2>1 DEF PInv, FirstAndLast, AcceptedFirst
  <2>2. CASE open /\ \E p : p.type \in {"PUBLISH", "SUBSCRIBE"} /\ sent' = Append(sent, p)
    <3>1. PICK p : p.type \in {"PUBLISH", "SUBSCRIBE"} /\ sent' = Append(sent, p)
      BY <2>2
    <3>2. /\ Len(sent') = Len(sent) + 1 /\ sent'[Len(sent) + 1] = p /\ Len(sent) > 0
          /\ DOMAIN sent' = 1..(Len(sent) + 1) /\ DOMAIN sent = 1..Len(sent)
          /\ \A i \in 1..Len(sent) : sent'[i] = sent[i]
      BY <1>3, <2>2, <3>1 DEF PInv, FirstAndLast
    <3>3. Accepted /\ link \in {"up", "fin", "down"}
      BY <1>1, <2>2 DEF PInv, AcceptedFirst, NothingHeld
    <3>4. \A i \in DOMAIN sent : sent[i].type # "DISCONNECT"
      BY <3>3 DEF PInv, FirstAndLast
    <3>5. \A i \in DOMAIN sent' : /\ (sent'[i].type = "CONNECT") <=> (i = 1)
                                  /\ sent'[i].type # "DISCONNECT"
      BY <3>1, <3>2, <3>4 DEF PInv, FirstAndLast
    <3> QED
      BY <1>1, <1>2, <3>2, <3>3, <3>5 DEF FirstAndLast
  <2> QED
    BY <1>1, <2>1, <2>2
<1>5. AcceptedFirst'
  BY <1>1, <1>2, <1>4, NoRxSaysNothing DEF PInv, AcceptedFirst
<1> QED
  BY <1>4, <1>5 DEF PInv

LEMMA CloseKeepsOrder ==
  ASSUME PInv, Types', NothingHeld', mqtt_disconnect \/ mqtt_message_free
  PROVE  PInv'
<1>1. CASE mqtt_message_free \/ (mqtt_disconnect /\ ~open)
  <2>1. UNCHANGED <<call, rx, open, sent, link, b2c, broker>>
    <3>1. CASE mqtt_message_free
      BY <3>1 DEF mqtt_message_free, netVars
    <3>2. CASE mqtt_disconnect /\ ~open
      BY <3>2 DEF mqtt_disconnect, sessVars, netVars
    <3> QED
      BY <1>1, <3>1, <3>2
  <2> QED
    BY <2>1 DEF PInv, FirstAndLast, AcceptedFirst, Accepted
<1>2. CASE mqtt_disconnect /\ open
  <2> DEFINE p == ClientPacket("DISCONNECT", 0, 0)
  <2>1. /\ open' = FALSE /\ link' = "closed" /\ b2c' = <<>>
        /\ sent' = Append(sent, p) \/ UNCHANGED sent
        /\ UNCHANGED <<call, rx, broker>> /\ call = "none"
    BY <1>2 DEF mqtt_disconnect, tls_close, TlsSend, NothingSent
  <2>2. p.type = "DISCONNECT"
    BY DEF ClientPacket
  <2> HIDE DEF p
  <2>3. sent \in Seq(ClientPackets) /\ sent # <<>> /\ Accepted /\ link \in {"up", "fin", "down"}
    BY <1>2, <2>1 DEF PInv, Types, PacketsTyped, FirstAndLast, AcceptedFirst, NothingHeld
  <2>4. FirstAndLast'
    <3>1. \A i \in DOMAIN sent : sent[i].type # "DISCONNECT"
      BY <2>3 DEF PInv, FirstAndLast
    <3>2. CASE UNCHANGED sent
      BY <2>1, <3>1, <3>2 DEF PInv, FirstAndLast
    <3>3. CASE sent' = Append(sent, p)
      <4>1. /\ Len(sent') = Len(sent) + 1 /\ sent'[Len(sent) + 1] = p /\ Len(sent) > 0
            /\ DOMAIN sent' = 1..(Len(sent) + 1) /\ DOMAIN sent = 1..Len(sent)
            /\ \A i \in 1..Len(sent) : sent'[i] = sent[i]
        BY <2>3, <3>3
      <4> QED
        BY <2>1, <2>2, <3>1, <4>1 DEF PInv, FirstAndLast
    <3> QED
      BY <2>1, <3>2, <3>3
  <2>5. AcceptedFirst'
    BY <2>1, <2>3 DEF PInv, AcceptedFirst, Accepted
  <2> QED
    BY <2>4, <2>5 DEF PInv
<1> QED
  BY <1>1, <1>2

\* A unit says yes only if the broker said it: the rest of a torn packet may be
\* taken for any packet, but not for the one that lets the client speak, which
\* the client reads first of all.
LEMMA ReadKeepsOrder ==
  ASSUME PInv, Types', NothingHeld', Read
  PROVE  PInv'
<1>1. NothingSent /\ UNCHANGED broker
  BY DEF Read, ReadHeader, ReadOn, ReadPacket, ReadTooLong, ReadTimesOut, ReadFails, GiveUp,
         StillReading
<1>2. b2c \in Seq(Units) /\ open /\ link \in {"up", "fin", "down"}
  BY DEF PInv, Types, ReaderTyped, NothingHeld, Read, ReadHeader, ReadOn, ReadPacket,
         ReadTooLong, ReadTimesOut, ReadFails
<1>3. /\ link' \in {link, "closed"} /\ open' \in {open, FALSE}
      /\ b2c' \in {b2c, <<>>} \/ (b2c # <<>> /\ b2c' = Tail(b2c))
      /\ rx' = NoRx \/ rx'.pkt = rx.pkt \/ (b2c # <<>> /\ rx'.pkt = Head(b2c).pkt)
           \/ rx'.pkt \in Garbage
      /\ \/ call' = call \/ ~open' \/ (call # "connection" /\ call' = "none")
         \/ SaysYes(rx.pkt)
  <2>1. CASE ReadHeader
    BY <2>1 DEF ReadHeader, ChannelRead, StillReading
  <2>2. CASE ReadOn
    BY <2>2 DEF ReadOn, ChannelRead, StillReading, PInv, Types, ReaderTyped
  <2>3. CASE ReadPacket
    <3>1. CASE call = "connection" /\ ConnackRead(rx.pkt)
      BY <2>3, <3>1 DEF ReadPacket, ConnackRead, Return, tls_close, SaysYes
    <3>2. CASE call = "data_send" /\ AckRead(rx.pkt)
      BY <2>3, <3>2 DEF ReadPacket, AckRead, Return, ChannelRead
    <3>3. CASE call = "subscribe" /\ SubackRead(rx.pkt)
      BY <2>3, <3>3 DEF ReadPacket, SubackRead, Return, ChannelRead
    <3>4. CASE call = "recv_message" /\ MessageRead(rx.pkt)
      BY <2>3, <3>4 DEF ReadPacket, MessageRead, Return, ChannelRead
    <3> QED
      BY <2>3, <3>1, <3>2, <3>3, <3>4 DEF ReadPacket
  <2>4. CASE ReadTooLong
    BY <2>4 DEF ReadTooLong, GiveUp, Return, tls_close
  <2>5. CASE ReadTimesOut
    BY <2>5 DEF ReadTimesOut, GiveUp, Return, tls_close
  <2>6. CASE ReadFails
    BY <2>6 DEF ReadFails, GiveUp, Return, tls_close
  <2> QED
    BY <2>1, <2>2, <2>3, <2>4, <2>5, <2>6 DEF Read
<1>4. sent' = sent /\ (Accepted' <=> Accepted)
  BY <1>1 DEF NothingSent, Accepted
<1>5. FirstAndLast'
  BY <1>2, <1>3, <1>4 DEF PInv, FirstAndLast
<1>6. \A i \in DOMAIN b2c' : SaysYes(b2c'[i].pkt) => Accepted
  <2>1. CASE b2c' \in {b2c, <<>>}
    BY <2>1 DEF PInv, AcceptedFirst
  <2>2. CASE b2c # <<>> /\ b2c' = Tail(b2c)
    BY <1>2, <2>2 DEF PInv, AcceptedFirst
  <2> QED
    BY <1>3, <2>1, <2>2
<1>7. SaysYes(rx'.pkt) => Accepted
  <2>1. CASE rx' = NoRx
    BY <2>1, NoRxSaysNothing
  <2>2. CASE rx'.pkt = rx.pkt
    BY <2>2 DEF PInv, AcceptedFirst
  <2>3. CASE b2c # <<>> /\ rx'.pkt = Head(b2c).pkt
    <3>1. 1 \in DOMAIN b2c /\ Head(b2c) = b2c[1]
      BY <1>2, <2>3
    <3> QED
      BY <2>3, <3>1 DEF PInv, AcceptedFirst
  <2>4. CASE rx'.pkt \in Garbage
    BY <2>4 DEF Garbage, Packet, SaysYes, Yes
  <2> QED
    BY <1>3, <2>1, <2>2, <2>3, <2>4
<1>8. AcceptedFirst'
  <2>1. (open' /\ call' # "connection") => Accepted
    BY <1>2, <1>3 DEF PInv, AcceptedFirst
  <2>2. Len(sent) > 1 => Accepted
    BY DEF PInv, AcceptedFirst
  <2> QED
    BY <1>4, <1>6, <1>7, <2>1, <2>2 DEF AcceptedFirst
<1> QED
  BY <1>5, <1>8 DEF PInv

\* The broker says yes only once it has accepted, and then for good.
LEMMA EnvironmentKeepsOrder ==
  ASSUME PInv, Types', NothingHeld', Environment
  PROVE  PInv'
<1>1. UNCHANGED <<sent, open, call, rx>>
  BY EnvironmentTypes DEF PInv, sessVars
<1>2. b2c \in Seq(Units) /\ broker \in BrokerStates
  BY DEF PInv, Types, ReaderTyped, ConnectionTyped
<1>3. Accepted => Accepted'
  BY <1>2 DEF BrokerStates, Accepted, Environment, BrokerConnect, BrokerSubscribe, BrokerMessage,
     BrokerPublish, BrokerSuback, BrokerChats, BrokerBye, BrokerQuits, LinkBreaks
<1>4. /\ link # "none" /\ link' # "none"
      /\ link = "closed" => link' = "closed"
  BY DEF Environment, BrokerConnect, BrokerSubscribe, BrokerMessage,
     BrokerPublish, BrokerSuback, BrokerChats, BrokerBye, BrokerQuits, LinkBreaks, Serves
<1>5. FirstAndLast'
  BY <1>1, <1>4 DEF PInv, FirstAndLast
<1>6. \A p \in Packets : Reply(p) /\ (SaysYes(p) => Accepted') => AcceptedFirst'
  <2> SUFFICES ASSUME NEW p \in Packets, Reply(p), SaysYes(p) => Accepted'
               PROVE  AcceptedFirst'
    OBVIOUS
  <2>1. Cut(p) \in Seq(Units) /\ \A i \in DOMAIN Cut(p) : Cut(p)[i].pkt = p
    BY CutType DEF Cut
  <2>2. \A i \in DOMAIN b2c' : SaysYes(b2c'[i].pkt) => Accepted'
    <3>1. CASE b2c' = b2c
      BY <1>3, <3>1 DEF PInv, AcceptedFirst
    <3>2. CASE b2c' = b2c \o Cut(p)
      <4> SUFFICES ASSUME NEW i \in DOMAIN b2c', SaysYes(b2c'[i].pkt) PROVE Accepted'
        OBVIOUS
      <4>1. \/ i \in DOMAIN b2c /\ b2c'[i] = b2c[i]
            \/ i - Len(b2c) \in DOMAIN Cut(p) /\ b2c'[i] = Cut(p)[i - Len(b2c)]
        BY <1>2, <2>1, <3>2
      <4> QED
        BY <1>3, <2>1, <4>1 DEF PInv, AcceptedFirst
    <3> QED
      BY <3>1, <3>2 DEF Reply
  <2> QED
    BY <1>1, <1>3, <2>2 DEF PInv, AcceptedFirst
<1>7. b2c' \in {b2c, <<>>} => AcceptedFirst'
  BY <1>1, <1>3 DEF PInv, AcceptedFirst
<1>8. AcceptedFirst'
  <2>1. ASSUME NEW v \in {Yes, No}, BrokerConnect(v) PROVE AcceptedFirst'
    <3>1. Reply(Packet("CONNACK", v)) /\ Packet("CONNACK", v) \in Packets
      BY <2>1, AnswerType DEF BrokerConnect, ServerTypes
    <3>2. SaysYes(Packet("CONNACK", v)) => Accepted'
      BY <1>2, <2>1 DEF SaysYes, Packet, BrokerConnect, Accepted, BrokerStates
    <3> QED
      BY <1>6, <3>1, <3>2
  <2>2. ASSUME NEW t \in {"PUBLISH", "HUGE"}, BrokerMessage(t) PROVE AcceptedFirst'
    <3>1. broker.pub + 1 \in 0..MaxPublish
      BY <1>2, <2>2, MaxPublishAssumption DEF BrokerMessage, BrokerStates
    <3>2. Packet(t, broker.pub + 1) \in Packets
      BY <3>1, PacketType, MaxPublishAssumption DEF ServerTypes
    <3>3. Reply(Packet(t, broker.pub + 1)) /\ ~SaysYes(Packet(t, broker.pub + 1))
      BY <2>2 DEF BrokerMessage, SaysYes, Packet
    <3> QED
      BY <1>6, <3>2, <3>3
  <2>3. ASSUME NEW t \in {"PUBACK", "PUBREC", "SUBACK", "PINGRESP", "DISCONNECT"},
               NEW v \in {Yes, No},
               Reply(Packet(t, v))
        PROVE  AcceptedFirst'
    <3>1. Packet(t, v) \in Packets /\ ~SaysYes(Packet(t, v))
      BY AnswerType DEF ServerTypes, SaysYes, Packet
    <3> QED
      BY <1>6, <2>3, <3>1
  <2>4. CASE BrokerPublish
    <3>1. Head(c2b).qos \in {0, 1, 2}
      BY <2>4, ServesTypes DEF BrokerPublish, PInv, Types, ClientPackets
    <3>2. UNCHANGED b2c \/ Reply(Packet("PUBACK", Yes)) \/ Reply(Packet("PUBREC", Yes))
      BY <2>4, <3>1 DEF BrokerPublish
    <3> QED
      BY <1>7, <2>3, <3>2
  <2>5. CASE BrokerSuback
    BY <2>3, <2>5 DEF BrokerSuback
  <2>6. CASE BrokerQuits
    BY <2>3, <2>6 DEF BrokerQuits, No
  <2>7. ASSUME NEW v, BrokerSubscribe(v) \/ BrokerBye \/ LinkBreaks PROVE AcceptedFirst'
    BY <1>7, <2>7 DEF BrokerSubscribe, BrokerBye, LinkBreaks
  <2>8. CASE BrokerChats
    BY <2>3, <2>8 DEF BrokerChats, No
  <2> QED
    BY <2>1, <2>2, <2>4, <2>5, <2>6, <2>7, <2>8 DEF Environment
<1> QED
  BY <1>5, <1>8 DEF PInv

LEMMA NextKeepsOrder ==
  ASSUME PInv, NothingHeld', [Next]_vars
  PROVE  PInv'
<1>1. Types'
  BY NextTypes DEF PInv
<1>2. CASE SessionCall
  <2>1. CASE mqtt_connection
    BY <1>1, <2>1, ConnectionKeepsOrder
  <2>2. ASSUME NEW q \in Qos, mqtt_data_send(q) PROVE PInv'
    BY <1>1, <2>2, OpenCallKeepsOrder, QosAssumption
  <2>3. CASE mqtt_subscribe \/ mqtt_recv_message
    BY <1>1, <2>3, OpenCallKeepsOrder
  <2>4. CASE mqtt_disconnect \/ mqtt_message_free
    BY <1>1, <2>4, CloseKeepsOrder
  <2> QED
    BY <1>2, <2>1, <2>2, <2>3, <2>4 DEF SessionCall
<1>3. CASE UNCHANGED mqttVars
  <2>1. UNCHANGED <<call, rx, open, sent, link, b2c, broker>>
    BY <1>3 DEF mqttVars, sessVars, netVars
  <2> QED
    BY <1>1, <2>1 DEF PInv, FirstAndLast, AcceptedFirst, Accepted
<1> QED
  BY <1>1, <1>2, <1>3, SessionSteps, ReadKeepsOrder, EnvironmentKeepsOrder

\* The client sends one CONNECT and sends it first, says nothing more until the
\* broker has accepted it, and nothing after its DISCONNECT: for every order of
\* the calls of mqtt_client.h, and whatever fails in them.
THEOREM SpeaksInOrder == Spec => []ClientProtocol
<1>1. Init => PInv
  BY InitPInv DEF Init
<1>2. PInv /\ IInv' /\ [Next]_vars => PInv'
  BY NextKeepsOrder DEF IInv
<1>3. PInv => ClientProtocol
  BY PInvImplies
<1>4. Spec => []IInv
  BY Invariance
<1> QED
  BY <1>1, <1>2, <1>3, <1>4, PTL DEF Spec

-----------------------------------------------------------------------------
(* The programs and the packets of the broker, for every number of         *)
(* messages and every set of faults: they stay in step with the packets,   *)
(* the subscriber prints every message in order, and returns 0 only with   *)
(* its SUBSCRIBE answered.                                                 *)
(*                                                                         *)
(* The argument follows a packet: the broker sends whole packets, with     *)
(* rising numbers, into a channel; a program that goes on reading has read *)
(* whole packets only, so what is first in the channel is what it reads    *)
(* next.  A packet is never garbled for it, hence a SUBACK it reads is one *)
(* the broker sent, and a message it reads is the next number.             *)

(* Where the programs stand, and the channel they read. *)

\* While a call of a program waits, the program is where it made that call;
\* before its first call and between two messages all has gone well.
InPlace == prog # "caller" =>
    /\ at \in {"start", "connecting", "sending", "subscribing", "receiving", "shown", "done"}
    /\ Reading => \/ at = "connecting" /\ call = "connection"
                  \/ at = "sending" /\ call = "data_send"
                  \/ at = "subscribing" /\ call = "subscribe"
                  \/ at = "receiving" /\ call = "recv_message"
    /\ at \in {"start", "shown"} => ret = 0
    /\ at = "sending" => prog = "publisher"

\* Between calls no packet is half read.
NoneBegun == call = "none" => rx = NoRx

\* The program is waiting, or its last call went well: it may read on.
GoesOn == prog # "caller" /\ (Reading \/ ret = 0)

Follows(u, v) == \/ v.pkt = u.pkt /\ v.at = u.at + 1
                 \/ u.at = Size(u.pkt) /\ v.at = 1

\* Packets are sent whole: only the first of them can have lost its front.
WholePackets(b) ==
    /\ \A i \in 1..Len(b) - 1 : Follows(b[i], b[i + 1])
    /\ b # <<>> => b[Len(b)].at = Size(b[Len(b)].pkt)

\* What is next in the channel is what recv_mqtt_packet_tls reads next.
InStep == GoesOn =>
    /\ rx.have > 0 => (rx.need = Size(rx.pkt) /\ rx.have < rx.need)
    /\ b2c # <<>> => (b2c[1].at = rx.have + 1 /\ (rx.have > 0 => b2c[1].pkt = rx.pkt))
    /\ (b2c = <<>> /\ link = "up") => rx.have = 0

LEMMA ProgramStays == [Next]_vars => prog' = prog
<1> SUFFICES ASSUME [Next]_vars PROVE prog' = prog
  OBVIOUS
<1>1. CASE Client
  BY <1>1 DEF Client, Start, NotConnected, Publish, PublisherLeaves, Subscribe, NotSubscribed,
     Receive, Shows, ReceiveAgain, OneShown, NoMessage, Leaves, Goes, progVars
<1>2. CASE Caller
  BY <1>2 DEF Caller, CallerSends, CallerConnects, CallerSubscribes, CallerReceives,
     CallerFrees, CallerDisconnects, Calling, Goes
<1> QED
  BY <1>1, <1>2 DEF Next, vars, progVars

\* What a step of a built-in program is.
LEMMA BuiltinSteps ==
  ASSUME IInv, InPlace, prog # "caller", [Next]_vars
  PROVE  \/ Client
         \/ Environment /\ UNCHANGED progVars
         \/ UNCHANGED vars
  BY DEF Next, Caller, CallerSends, CallerConnects, CallerSubscribes, CallerReceives,
     CallerFrees, CallerDisconnects, Calling, From

\* mqtt_disconnect between two calls, and the return of the program.
LEMMA LeavesKeeps ==
  ASSUME NEW r, Leaves(r)
  PROVE  /\ at' = "done" /\ exit' = r /\ call = "none"
         /\ UNCHANGED <<call, rx, ret, out, broker, prog, shown>>
         /\ \/ UNCHANGED <<sent, b2c, c2b, link>>
            \/ b2c' = <<>> /\ link' = "closed"
               /\ (NothingSent \/ TlsSend(ClientPacket("DISCONNECT", 0, 0)))
<1>1. CASE ~open
  BY <1>1 DEF Leaves, mqtt_disconnect, sessVars, netVars
<1>2. CASE open
  BY <1>2 DEF Leaves, mqtt_disconnect, tls_close
<1> QED
  BY <1>1, <1>2

\* A read that gives up.
LEMMA GivenUp ==
  ASSUME ReadTooLong \/ ReadTimesOut \/ ReadFails
  PROVE  /\ Reading /\ call' = "none" /\ ret' # 0 /\ rx' = NoRx
         /\ UNCHANGED <<out, sure, broker, sent, c2b>>
         /\ \/ b2c' = b2c \/ b2c' = <<>> \/ (b2c # <<>> /\ b2c' = Tail(b2c))
         /\ link' \in {link, "closed"}
<1>1. ASSUME NEW r, NEW rest, GiveUp(r, rest)
      PROVE  /\ call' = "none" /\ ret' = r /\ rx' = NoRx
             /\ UNCHANGED <<out, sure, broker, sent, c2b>>
             /\ b2c' = rest \/ b2c' = <<>>
             /\ link' \in {link, "closed"}
  BY <1>1 DEF GiveUp, Return, tls_close, NothingSent
<1>2. CASE ReadTooLong
  <2> DEFINE rest == Tail(b2c)
  <2>1. Reading /\ b2c # <<>> /\ GiveUp(-1, rest)
    BY <1>2 DEF ReadTooLong
  <2> HIDE DEF rest
  <2>2. /\ call' = "none" /\ ret' = -1 /\ rx' = NoRx
        /\ UNCHANGED <<out, sure, broker, sent, c2b>>
        /\ b2c' = rest \/ b2c' = <<>>
        /\ link' \in {link, "closed"}
    BY <1>1, <2>1
  <2> QED
    BY <2>1, <2>2 DEF rest
<1>3. CASE ReadTimesOut
  <2>1. PICK r \in {-1, 1} : Reading /\ GiveUp(r, b2c)
    BY <1>3 DEF ReadTimesOut
  <2> QED
    BY <1>1, <2>1
<1>4. CASE ReadFails
  <2>1. Reading /\ GiveUp(-1, b2c)
    BY <1>4 DEF ReadFails
  <2> QED
    BY <1>1, <2>1
<1> QED
  BY <1>2, <1>3, <1>4

LEMMA PlaceKept ==
  ASSUME IInv, InPlace, [Next]_vars
  PROVE  InPlace'
<1> SUFFICES ASSUME prog # "caller" PROVE InPlace'
  BY ProgramStays DEF InPlace
<1>0. prog' = prog
  BY ProgramStays
<1>1. CASE Read /\ UNCHANGED progVars
  <2>1. Reading /\ call' \in {call, "none"} /\ at' = at
    BY <1>1, ReadHolds DEF IInv, SessionHeld, MessageInHand, progVars
  <2> QED
    BY <1>0, <2>1 DEF InPlace, Reading
<1>2. CASE Start
  <2>1. at' = "connecting" /\ call' \in {"none", "connection"}
    BY <1>2 DEF Start, Goes, mqtt_connection, Return, Await
  <2> QED
    BY <1>0, <2>1 DEF InPlace, Reading
<1>3. ASSUME NEW q \in Qos, Publish(q) PROVE InPlace'
  <2>1. at' = "sending" /\ prog = "publisher" /\ call' \in {"none", "data_send"}
    BY <1>3 DEF Publish, From, Goes, mqtt_data_send, Return, Await
  <2> QED
    BY <1>0, <2>1 DEF InPlace, Reading
<1>4. CASE Subscribe
  <2>1. at' = "subscribing" /\ call' \in {"none", "subscribe"}
    BY <1>4 DEF Subscribe, Goes, mqtt_subscribe, Return, Await
  <2> QED
    BY <1>0, <2>1 DEF InPlace, Reading
<1>5. CASE Receive \/ ReceiveAgain
  <2>1. at' = "receiving" /\ call' \in {"none", "recv_message"}
    BY <1>5 DEF Receive, ReceiveAgain, Goes, mqtt_recv_message, Return, Await
  <2> QED
    BY <1>0, <2>1 DEF InPlace, Reading
<1>6. CASE Shows
  <2>1. at' = "shown" /\ call' = "none" /\ ret' = 0
    BY <1>6 DEF Shows, From, mqtt_message_free
  <2> QED
    BY <1>0, <2>1 DEF InPlace, Reading
<1>7. CASE NotConnected
  <2>1. at' = "done" /\ call' = "none"
    BY <1>7 DEF NotConnected, From, mqttVars, sessVars
  <2> QED
    BY <1>0, <2>1 DEF InPlace, Reading
<1>8. ASSUME NEW r, Leaves(r) PROVE InPlace'
  <2>1. at' = "done" /\ call' = "none"
    BY <1>8, LeavesKeeps
  <2> QED
    BY <1>0, <2>1 DEF InPlace, Reading
<1>9. CASE Environment /\ UNCHANGED progVars
  BY <1>9, EnvironmentHolds DEF IInv, SessionHeld, MessageInHand, InPlace, Reading, sessVars, progVars
<1>10. CASE UNCHANGED vars
  BY <1>10 DEF InPlace, Reading, vars, mqttVars, sessVars, progVars
<1> QED
  BY <1>1, <1>2, <1>3, <1>4, <1>5, <1>6, <1>7, <1>8, <1>9, <1>10, BuiltinSteps
  DEF Client, PublisherLeaves, NotSubscribed, OneShown, NoMessage

LEMMA NoneBegunKept ==
  ASSUME NoneBegun, [Next]_vars
  PROVE  NoneBegun'
<1>1. CASE SessionCall
  <2>1. CASE mqtt_connection \/ mqtt_subscribe \/ mqtt_recv_message
    BY <2>1 DEF mqtt_connection, mqtt_subscribe, mqtt_recv_message, Return, Await, NoneBegun
  <2>2. ASSUME NEW q \in Qos, mqtt_data_send(q) PROVE NoneBegun'
    BY <2>2 DEF mqtt_data_send, Return, Await, NoneBegun
  <2>3. CASE mqtt_disconnect \/ mqtt_message_free
    <3>1. UNCHANGED <<call, rx>>
      BY <2>3 DEF mqtt_disconnect, mqtt_message_free, sessVars
    <3> QED
      BY <3>1 DEF NoneBegun
  <2> QED
    BY <1>1, <2>1, <2>2, <2>3 DEF SessionCall
<1>2. CASE Read
  <2>1. CASE ReadHeader \/ ReadOn
    BY <2>1 DEF ReadHeader, ReadOn, StillReading, Reading, NoneBegun
  <2>2. CASE ReadPacket
    BY <2>2 DEF ReadPacket, ConnackRead, AckRead, SubackRead, MessageRead, Return, NoneBegun
  <2>3. CASE ReadTooLong \/ ReadTimesOut \/ ReadFails
    BY <2>3, GivenUp DEF NoneBegun
  <2> QED
    BY <1>2, <2>1, <2>2, <2>3 DEF Read
<1>3. CASE Environment
  <2>1. UNCHANGED sessVars
    BY <1>3 DEF Environment, BrokerConnect, BrokerSubscribe, BrokerMessage, BrokerPublish,
         BrokerSuback, BrokerChats, BrokerBye, BrokerQuits, LinkBreaks, Serves, SessionKeeps
  <2> QED
    BY <2>1 DEF sessVars, NoneBegun
<1>4. CASE UNCHANGED mqttVars
  BY <1>4 DEF mqttVars, sessVars, NoneBegun
<1> QED
  BY <1>1, <1>2, <1>3, <1>4, SessionSteps

\* How a channel of whole packets changes.
LEMMA TailWhole ==
  ASSUME NEW b \in Seq(Units), b # <<>>, WholePackets(b)
  PROVE  /\ WholePackets(Tail(b)) /\ Tail(b) \in Seq(Units) /\ Len(Tail(b)) = Len(b) - 1
         /\ \A i \in DOMAIN Tail(b) : i + 1 \in DOMAIN b /\ Tail(b)[i] = b[i + 1]
         /\ Tail(b) # <<>> => Follows(b[1], Tail(b)[1])
         /\ Tail(b) = <<>> => b[1].at = Size(b[1].pkt)
<1> DEFINE t == Tail(b)
<1>1. /\ t \in Seq(Units) /\ Len(t) = Len(b) - 1 /\ Len(b) \in Nat /\ Len(b) > 0
      /\ \A i \in 1..Len(t) : t[i] = b[i + 1]
  OBVIOUS
<1>2. \A i \in 1..Len(t) - 1 : Follows(t[i], t[i + 1])
  <2> SUFFICES ASSUME NEW i \in 1..Len(t) - 1 PROVE Follows(t[i], t[i + 1])
    OBVIOUS
  <2>1. t[i] = b[i + 1] /\ t[i + 1] = b[i + 2] /\ i + 1 \in 1..Len(b) - 1
    BY <1>1
  <2>2. Follows(b[i + 1], b[i + 1 + 1])
    BY <2>1 DEF WholePackets
  <2> QED
    BY <2>1, <2>2
<1>3. t # <<>> => t[Len(t)].at = Size(t[Len(t)].pkt)
  BY <1>1 DEF WholePackets
<1>4. t # <<>> => Follows(b[1], t[1])
  BY <1>1 DEF WholePackets
<1>5. t = <<>> => b[1].at = Size(b[1].pkt)
  <2>1. t = <<>> => Len(b) = 1
    BY <1>1
  <2>2. b[Len(b)].at = Size(b[Len(b)].pkt)
    BY DEF WholePackets
  <2> HIDE DEF t
  <2> QED
    BY <2>1, <2>2
<1> QED
  BY <1>1, <1>2, <1>3, <1>4, <1>5 DEF WholePackets

\* One sequence behind another.
LEMMA Joined ==
  ASSUME NEW S, NEW s \in Seq(S), NEW t \in Seq(S)
  PROVE  /\ Len(s) \in Nat /\ s \o t \in Seq(S) /\ Len(s \o t) = Len(s) + Len(t)
         /\ \A i \in 1..Len(s) : (s \o t)[i] = s[i]
         /\ \A i \in 1..Len(t) : (s \o t)[Len(s) + i] = t[i]
  OBVIOUS

LEMMA AppendWhole ==
  ASSUME NEW b \in Seq(Units), WholePackets(b), NEW p \in Packets
  PROVE  /\ WholePackets(b \o Cut(p)) /\ b \o Cut(p) # <<>>
         /\ (b \o Cut(p))[1] = IF b = <<>> THEN [pkt |-> p, at |-> 1] ELSE b[1]
<1> DEFINE c == b \o Cut(p)
<1>1. PICK n \in Nat : n = Size(p) /\ n >= 2
  BY SizeType DEF MaxSize
<1>2. /\ Cut(p) \in Seq(Units) /\ Len(Cut(p)) = n
      /\ \A i \in 1..n : Cut(p)[i] = [pkt |-> p, at |-> i]
  BY <1>1, CutType DEF Cut
<1>3. /\ Len(b) \in Nat /\ c \in Seq(Units) /\ Len(c) = Len(b) + n
      /\ \A i \in 1..Len(b) : c[i] = b[i]
      /\ \A i \in 1..n : c[Len(b) + i] = [pkt |-> p, at |-> i]
  <2> DEFINE d == Cut(p)
  <2> HIDE DEF d
  <2>1. /\ d \in Seq(Units) /\ Len(d) = n /\ \A i \in 1..n : d[i] = [pkt |-> p, at |-> i]
    BY <1>2 DEF d
  <2>2. /\ b \o d \in Seq(Units) /\ Len(b \o d) = Len(b) + n /\ Len(b) \in Nat
        /\ \A i \in 1..Len(b) : (b \o d)[i] = b[i]
        /\ \A i \in 1..n : (b \o d)[Len(b) + i] = d[i]
    BY <2>1
  <2> QED
    BY <2>1, <2>2 DEF d
<1> HIDE DEF c
<1>4. \A i \in 1..Len(c) - 1 : Follows(c[i], c[i + 1])
  <2> SUFFICES ASSUME NEW i \in 1..Len(c) - 1 PROVE Follows(c[i], c[i + 1])
    OBVIOUS
  <2>1. CASE i < Len(b)
    BY <1>3, <2>1 DEF WholePackets
  <2>2. CASE i = Len(b)
    <3>1. c[i] = b[i] /\ c[i + 1] = [pkt |-> p, at |-> 1] /\ b # <<>>
      <4>1. 1 \in 1..n /\ i \in 1..Len(b) /\ i + 1 = Len(b) + 1 /\ b # <<>>
        BY <1>1, <1>3, <2>2
      <4> QED
        BY <1>3, <4>1
    <3> QED
      BY <2>2, <3>1 DEF WholePackets, Follows
  <2>3. CASE i > Len(b)
    <3> DEFINE j == i - Len(b)
    <3>1. j \in 1..n - 1 /\ i = Len(b) + j
      BY <1>1, <1>3, <2>3
    <3> HIDE DEF j
    <3>2. c[i] = [pkt |-> p, at |-> j] /\ c[i + 1] = [pkt |-> p, at |-> j + 1]
      <4>1. j \in 1..n /\ j + 1 \in 1..n /\ i + 1 = Len(b) + (j + 1)
        BY <1>1, <1>3, <3>1
      <4> QED
        BY <1>3, <3>1, <4>1
    <3> QED
      BY <3>2 DEF Follows
  <2> QED
    BY <1>3, <2>1, <2>2, <2>3
<1>5. c # <<>> /\ c[Len(c)].at = Size(c[Len(c)].pkt)
  <2>1. c[Len(b) + n] = [pkt |-> p, at |-> n] /\ Len(c) > 0
    BY <1>1, <1>3
  <2> QED
    BY <1>1, <1>3, <2>1
<1>6. c[1] = IF b = <<>> THEN [pkt |-> p, at |-> 1] ELSE b[1]
  <2>1. CASE b = <<>>
    BY <1>1, <1>3, <2>1
  <2>2. CASE b # <<>>
    BY <1>3, <2>2
  <2> QED
    BY <2>1, <2>2
<1> QED
  BY <1>4, <1>5, <1>6 DEF WholePackets, c

LEMMA EmptyWhole == WholePackets(<<>>)
  BY DEF WholePackets

\* What the broker sends is a packet, on a connection that is up: a message of
\* its own has the next number, a SUBACK answers a SUBSCRIBE.
BrokerSends(p) ==
    /\ link = "up" /\ b2c' = b2c \o Cut(p)
    /\ IF p.type \in {"PUBLISH", "HUGE"}
       THEN p.val = broker.pub + 1 /\ broker'.pub = broker.pub + 1
       ELSE broker'.pub = broker.pub
    /\ p.type = "SUBACK" => BrokerSuback

LEMMA BrokerSpeaks ==
  ASSUME Types, Environment
  PROVE  /\ \/ UNCHANGED b2c /\ broker'.pub = broker.pub
            \/ b2c' = <<>> /\ link' = "down" /\ broker'.pub = broker.pub
            \/ \E p \in Packets : BrokerSends(p)
         /\ link' = link \/ link' # "up"
<1>0. broker \in BrokerStates /\ PacketsTyped
  BY DEF Types, ConnectionTyped
<1> DEFINE Speaks == \/ UNCHANGED b2c /\ broker'.pub = broker.pub
                     \/ \E p \in Packets : BrokerSends(p)
<1>1. ASSUME NEW t \in {"CONNACK", "PUBACK", "PUBREC", "PINGRESP", "DISCONNECT"},
             NEW v \in {Yes, No}, Reply(Packet(t, v)), broker'.pub = broker.pub
      PROVE  Speaks
  <2> DEFINE p == Packet(t, v)
  <2>1. p \in Packets /\ p.type = t
    BY AnswerType DEF ServerTypes, Packet
  <2> HIDE DEF p
  <2>2. Reply(p)
    BY <1>1 DEF p
  <2> QED
    BY <1>1, <2>1, <2>2 DEF Reply, BrokerSends
<1> HIDE DEF Speaks
<1>2. ASSUME NEW v \in {Yes, No}, BrokerConnect(v) PROVE Speaks
  <2>1. Reply(Packet("CONNACK", v)) /\ broker'.pub = broker.pub
    BY <1>0, <1>2 DEF BrokerConnect, BrokerStates
  <2> QED
    BY <1>1, <2>1
<1>3. ASSUME NEW t \in {"PUBLISH", "HUGE"}, BrokerMessage(t) PROVE Speaks
  <2>1. broker.pub + 1 \in 0..MaxPublish /\ broker'.pub = broker.pub + 1
    BY <1>0, <1>3, MaxPublishAssumption DEF BrokerMessage, BrokerStates
  <2> DEFINE p == Packet(t, broker.pub + 1)
  <2>2. Reply(p) /\ p \in Packets /\ p.type = t /\ p.val = broker.pub + 1
    <3>1. Reply(p) /\ p \in Packets
      BY <1>3, <2>1, PacketType, MaxPublishAssumption DEF BrokerMessage, ServerTypes
    <3> QED
      BY <3>1 DEF Packet
  <2> HIDE DEF p
  <2>3. link = "up"
    BY <1>3 DEF BrokerMessage
  <2> QED
    BY <2>1, <2>2, <2>3 DEF Reply, BrokerSends, Speaks
<1>4. ASSUME BrokerSuback PROVE Speaks
  <2>1. PICK v \in {Yes, No} : Reply(Packet("SUBACK", v))
    BY <1>4 DEF BrokerSuback
  <2>2. broker'.pub = broker.pub
    BY <1>0, <1>4 DEF BrokerSuback, BrokerStates
  <2> DEFINE p == Packet("SUBACK", v)
  <2>3. p \in Packets /\ p.type = "SUBACK" /\ Reply(p)
    <3>1. p \in Packets
      BY AnswerType DEF ServerTypes
    <3> QED
      BY <2>1, <3>1 DEF Packet
  <2> HIDE DEF p
  <2> QED
    BY <1>4, <2>2, <2>3 DEF Reply, BrokerSends, Speaks
<1>5. ASSUME BrokerPublish PROVE Speaks
  <2>1. Head(c2b).qos \in {0, 1, 2}
    BY <1>0, <1>5, ServesTypes DEF BrokerPublish, ClientPackets
  <2>2. UNCHANGED b2c \/ Reply(Packet("PUBACK", Yes)) \/ Reply(Packet("PUBREC", Yes))
    BY <1>5, <2>1 DEF BrokerPublish
  <2>3. broker'.pub = broker.pub
    <3>1. PICK h, k : broker' = [broker EXCEPT !.held = h, !.taken = k]
      BY <1>5 DEF BrokerPublish
    <3> QED
      BY <1>0, <3>1 DEF BrokerStates
  <2>4. CASE UNCHANGED b2c
    BY <2>3, <2>4 DEF Speaks
  <2> QED
    BY <1>1, <2>2, <2>3, <2>4
<1>6. ASSUME BrokerQuits PROVE Speaks
  <2>1. Reply(Packet("DISCONNECT", No)) /\ broker'.pub = broker.pub
    BY <1>0, <1>6 DEF BrokerQuits, No, BrokerStates
  <2> QED
    BY <1>1, <2>1
<1>7. ASSUME NEW v, BrokerSubscribe(v) \/ BrokerBye \/ LinkBreaks
      PROVE  /\ UNCHANGED b2c \/ (b2c' = <<>> /\ link' = "down")
             /\ broker'.pub = broker.pub
  BY <1>0, <1>7 DEF BrokerSubscribe, BrokerBye, LinkBreaks, BrokerStates
<1>8. link' = link \/ link' # "up"
  BY DEF Environment, BrokerConnect, BrokerSubscribe, BrokerMessage, BrokerPublish,
     BrokerSuback, BrokerChats, BrokerBye, BrokerQuits, LinkBreaks
<1>9. ASSUME BrokerChats PROVE Speaks
  <2>1. Reply(Packet("PINGRESP", No)) /\ broker'.pub = broker.pub
    BY <1>9 DEF BrokerChats, No
  <2> QED
    BY <1>1, <2>1
<1> QED
  BY <1>2, <1>3, <1>4, <1>5, <1>6, <1>7, <1>8, <1>9 DEF Environment, Speaks

\* What a read does to the channel.
LEMMA ReadTakes ==
  ASSUME Read
  PROVE  b2c' = b2c \/ b2c' = <<>> \/ (b2c # <<>> /\ b2c' = Tail(b2c))
<1>1. CASE ReadHeader \/ ReadOn
  BY <1>1 DEF ReadHeader, ReadOn, ChannelRead
<1>2. CASE ReadPacket
  BY <1>2 DEF ReadPacket, ConnackRead, AckRead, SubackRead, MessageRead, ChannelRead, tls_close
<1>3. CASE ReadTooLong \/ ReadTimesOut \/ ReadFails
  BY <1>3, GivenUp
<1> QED
  BY <1>1, <1>2, <1>3 DEF Read

LEMMA WholeKept ==
  ASSUME Types, WholePackets(b2c), [Next]_vars
  PROVE  WholePackets(b2c')
<1>1. b2c \in Seq(Units)
  BY DEF Types, ReaderTyped
<1>2. CASE SessionCall
  <2>1. b2c' = b2c \/ b2c' = <<>>
    BY <1>2 DEF SessionCall, mqtt_connection, mqtt_subscribe, mqtt_recv_message, mqtt_data_send,
       mqtt_disconnect, mqtt_message_free, StaysOpen, tls_close, netVars
  <2> QED
    BY <2>1, EmptyWhole
<1>3. CASE Read
  BY <1>1, <1>3, ReadTakes, TailWhole, EmptyWhole
<1>4. CASE Environment
  BY <1>1, <1>4, BrokerSpeaks, AppendWhole, EmptyWhole DEF BrokerSends
<1>5. CASE UNCHANGED mqttVars
  BY <1>5 DEF mqttVars, netVars
<1> QED
  BY <1>2, <1>3, <1>4, <1>5, SessionSteps

\* The first units of a packet, read in step.
LEMMA PartInStep ==
  ASSUME Types, InStep, GoesOn, ReadHeader \/ ReadOn
  PROVE  /\ b2c # <<>> /\ b2c' = Tail(b2c) /\ b2c[1].at = rx.have + 1
         /\ b2c[1].at < Size(b2c[1].pkt) /\ b2c[1].pkt \in Packets
         /\ rx' = [pkt |-> b2c[1].pkt, have |-> rx.have + 1, need |-> Size(b2c[1].pkt)]
         /\ Reading /\ UNCHANGED <<call, ret, out, link, broker, sent, c2b>>
         /\ rx.have > 0 => b2c[1].pkt = rx.pkt
<1>1. /\ b2c # <<>> /\ b2c' = Tail(b2c) /\ Reading
      /\ UNCHANGED <<call, ret, out, link, broker, sent, c2b>>
  BY DEF ReadHeader, ReadOn, ChannelRead, StillReading, NothingSent
<1>2. /\ b2c \in Seq(Units) /\ rx \in [pkt : Packets, have : Nat, need : 0..MaxSize]
      /\ Head(b2c) = b2c[1] /\ b2c[1] \in Units
  BY <1>1 DEF Types, ReaderTyped
<1>3. b2c[1].at = rx.have + 1 /\ (rx.have > 0 => b2c[1].pkt = rx.pkt) /\ b2c[1].pkt \in Packets
  BY <1>1, <1>2 DEF InStep, Units
<1>4. Size(b2c[1].pkt) \in Nat /\ Size(b2c[1].pkt) >= 2
  BY SizeType DEF MaxSize
<1>5. CASE ReadHeader
  BY <1>1, <1>2, <1>3, <1>4, <1>5 DEF ReadHeader
<1>6. CASE ReadOn
  <2>1. rx.have > 0 /\ rx.have + 1 < rx.need /\ rx' = [rx EXCEPT !.have = @ + 1]
    BY <1>6 DEF ReadOn
  <2>2. rx.need = Size(b2c[1].pkt) /\ b2c[1].pkt = rx.pkt
    BY <1>3, <2>1 DEF InStep
  <2>3. rx' = [pkt |-> b2c[1].pkt, have |-> rx.have + 1, need |-> Size(b2c[1].pkt)]
    BY <1>2, <2>1, <2>2
  <2> QED
    BY <1>1, <1>3, <1>4, <2>1, <2>2, <2>3
<1> QED
  BY <1>5, <1>6

\* The last unit of a packet, read in step.
LEMMA PacketInStep ==
  ASSUME Types, InStep, GoesOn, ReadPacket
  PROVE  /\ b2c # <<>> /\ b2c' \in {Tail(b2c), <<>>} /\ rx' = NoRx
         /\ b2c[1].at = Size(b2c[1].pkt) /\ b2c[1].pkt = rx.pkt /\ b2c[1].at >= 2
         /\ rx.have > 0 /\ Reading /\ link' \in {link, "closed"}
         /\ UNCHANGED <<broker, sent, c2b>>
<1>1. /\ Reading /\ rx.have > 0 /\ rx.have + 1 = rx.need /\ b2c # <<>>
      /\ NothingSent /\ UNCHANGED broker
  BY DEF ReadPacket
<1>2. rx' = NoRx /\ b2c' \in {Tail(b2c), <<>>} /\ link' \in {link, "closed"}
  <2>1. CASE call = "connection" /\ ConnackRead(rx.pkt)
    BY <2>1 DEF ConnackRead, Return, tls_close
  <2>2. CASE call = "data_send" /\ AckRead(rx.pkt)
    BY <2>2 DEF AckRead, Return, ChannelRead
  <2>3. CASE call = "subscribe" /\ SubackRead(rx.pkt)
    BY <2>3 DEF SubackRead, Return, ChannelRead
  <2>4. CASE call = "recv_message" /\ MessageRead(rx.pkt)
    BY <2>4 DEF MessageRead, Return, ChannelRead
  <2> QED
    BY <2>1, <2>2, <2>3, <2>4 DEF ReadPacket
<1>3. /\ rx.need = Size(rx.pkt) /\ b2c[1].at = rx.have + 1 /\ b2c[1].pkt = rx.pkt
  BY <1>1 DEF InStep
<1>4. Size(b2c[1].pkt) \in Nat /\ Size(b2c[1].pkt) >= 2
  BY SizeType DEF MaxSize
<1> QED
  BY <1>1, <1>2, <1>3, <1>4 DEF NothingSent

\* Between calls nothing is half read.
LEMMA BetweenCalls ==
  ASSUME ~Reading, NoneBegun
  PROVE  rx = NoRx /\ rx.have = 0
  BY DEF Reading, NoneBegun, NoRx

\* A call of a program that begins.
LEMMA CallInStep ==
  ASSUME PInv, NoneBegun, InStep, prog # "caller", prog' = prog, ~Reading, ret = 0, NEW q,
         mqtt_connection \/ mqtt_data_send(q) \/ mqtt_subscribe \/ mqtt_recv_message
  PROVE  InStep'
<1>1. GoesOn /\ rx.have = 0
  BY BetweenCalls DEF GoesOn
<1>2. rx' = NoRx /\ NoRx.have = 0
  BY DEF mqtt_connection, mqtt_data_send, mqtt_subscribe, mqtt_recv_message, Return, Await, NoRx
<1>3. b2c' = b2c \/ b2c' = <<>>
  BY DEF mqtt_connection, mqtt_data_send, mqtt_subscribe, mqtt_recv_message, StaysOpen, tls_close
<1> QED
  BY <1>1, <1>2, <1>3 DEF InStep

LEMMA InStepKept ==
  ASSUME IInv, PInv, InPlace, NoneBegun, WholePackets(b2c), InStep, [Next]_vars
  PROVE  InStep'
<1> SUFFICES ASSUME prog # "caller" PROVE InStep'
  BY ProgramStays DEF InStep, GoesOn
<1>0. /\ prog' = prog /\ Types /\ b2c \in Seq(Units) /\ rx.have \in Nat
  BY ProgramStays DEF PInv, Types, ReaderTyped
<1>1. CASE Read
  <2>0. GoesOn /\ Reading
    BY <1>1 DEF GoesOn, Read, ReadHeader, ReadOn, ReadPacket, ReadTooLong, ReadTimesOut, ReadFails
  <2>1. CASE ReadHeader \/ ReadOn
    <3>1. /\ b2c # <<>> /\ b2c' = Tail(b2c) /\ b2c[1].at = rx.have + 1
          /\ b2c[1].at < Size(b2c[1].pkt)
          /\ rx' = [pkt |-> b2c[1].pkt, have |-> rx.have + 1, need |-> Size(b2c[1].pkt)]
      BY <1>0, <2>0, <2>1, PartInStep
    <3>2. Size(b2c[1].pkt) \in Nat
      BY SizeType DEF MaxSize
    <3>3. b2c' # <<>> /\ Follows(b2c[1], b2c'[1])
      BY <1>0, <3>1, <3>2, TailWhole
    <3>4. b2c'[1].pkt = b2c[1].pkt /\ b2c'[1].at = rx.have + 2
      BY <1>0, <3>1, <3>2, <3>3 DEF Follows
    <3> QED
      BY <1>0, <3>1, <3>2, <3>3, <3>4 DEF InStep
  <2>2. CASE ReadPacket
    <3>1. /\ b2c # <<>> /\ b2c' \in {Tail(b2c), <<>>} /\ rx' = NoRx
          /\ b2c[1].at = Size(b2c[1].pkt) /\ NoRx.have = 0
      BY <1>0, <2>0, <2>2, PacketInStep DEF NoRx
    <3>2. b2c' # <<>> => b2c'[1].at = 1
      <4> SUFFICES ASSUME b2c' # <<>> PROVE b2c'[1].at = 1
        OBVIOUS
      <4>1. b2c' = Tail(b2c)
        BY <3>1
      <4>2. Follows(b2c[1], b2c'[1]) /\ b2c'[1] \in Units
        BY <1>0, <3>1, <4>1, TailWhole
      <4>3. b2c'[1].at <= Size(b2c'[1].pkt) /\ Size(b2c[1].pkt) \in Nat
        BY <4>2, SizeType DEF Units, MaxSize
      <4> QED
        BY <3>1, <4>2, <4>3 DEF Follows
    <3> QED
      BY <3>1, <3>2 DEF InStep
  <2>3. CASE ReadTooLong \/ ReadTimesOut \/ ReadFails
    BY <2>3, GivenUp DEF InStep, GoesOn, Reading
  <2> QED
    BY <1>1, <2>1, <2>2, <2>3 DEF Read
<1>2. CASE Start \/ Subscribe \/ Receive \/ ReceiveAgain
  <2>1. /\ ~Reading /\ ret = 0
        /\ mqtt_connection \/ mqtt_subscribe \/ mqtt_recv_message
    BY <1>2 DEF Start, Subscribe, Receive, ReceiveAgain, From, InPlace, Reading
  <2> QED
    BY <1>0, <2>1, CallInStep
<1>3. ASSUME NEW q \in Qos, Publish(q) PROVE InStep'
  <2>1. ~Reading /\ ret = 0 /\ mqtt_data_send(q)
    BY <1>3 DEF Publish, From, Reading
  <2> QED
    BY <1>0, <2>1, CallInStep
<1>4. CASE Shows \/ NotConnected
  <2>1. UNCHANGED <<call, ret, rx, b2c, link>>
    BY <1>4 DEF Shows, NotConnected, mqtt_message_free, mqttVars, sessVars, netVars
  <2> QED
    BY <1>0, <2>1 DEF InStep, GoesOn, Reading
<1>5. ASSUME NEW r, Leaves(r) PROVE InStep'
  <2>1. /\ UNCHANGED <<call, ret, rx>> /\ ~Reading
        /\ UNCHANGED <<b2c, link>> \/ (b2c' = <<>> /\ link' = "closed")
    BY <1>5, LeavesKeeps DEF Reading
  <2> QED
    BY <1>0, <2>1, BetweenCalls DEF InStep, GoesOn, Reading
<1>6. CASE Environment
  <2>1. UNCHANGED <<call, ret, rx>>
    BY <1>0, <1>6, EnvironmentTypes DEF sessVars
  <2>2. link' = link \/ link' # "up"
    BY <1>0, <1>6, BrokerSpeaks
  <2>3. CASE UNCHANGED b2c \/ (b2c' = <<>> /\ link' = "down")
    BY <1>0, <2>1, <2>2, <2>3 DEF InStep, GoesOn, Reading
  <2>4. ASSUME NEW p \in Packets, link = "up", b2c' = b2c \o Cut(p) PROVE InStep'
    <3>1. b2c' # <<>> /\ b2c'[1] = IF b2c = <<>> THEN [pkt |-> p, at |-> 1] ELSE b2c[1]
      BY <1>0, <2>4, AppendWhole
    <3>2. GoesOn' => GoesOn
      BY <1>0, <2>1 DEF GoesOn, Reading
    <3>3. CASE b2c = <<>>
      BY <2>1, <2>4, <3>1, <3>2, <3>3 DEF InStep
    <3>4. CASE b2c # <<>>
      BY <2>1, <3>1, <3>2, <3>4 DEF InStep
    <3> QED
      BY <3>3, <3>4
  <2> QED
    BY <1>0, <1>6, <2>3, <2>4, BrokerSpeaks DEF BrokerSends
<1>7. CASE UNCHANGED vars
  BY <1>7 DEF InStep, GoesOn, Reading, vars, mqttVars, sessVars, netVars, progVars
<1> QED
  BY <1>1, <1>2, <1>3, <1>4, <1>5, <1>6, <1>7, BuiltinSteps
  DEF Client, PublisherLeaves, NotSubscribed, OneShown, NoMessage

-----------------------------------------------------------------------------
(* The messages of the broker, in the order of their numbers. *)

Message(p) == p.type \in {"PUBLISH", "HUGE"}

\* The places in a channel where a message of the broker begins.
Heads(b) == {i \in DOMAIN b : b[i].at = 1 /\ Message(b[i].pkt)}

\* The messages in b have numbers behind n and up to m, rising by one.
NumberedFrom(b, n, m) ==
    /\ \A i \in Heads(b) : b[i].pkt.val \in n + 1..m
    /\ \A i \in Heads(b) : \/ b[i].pkt.val = n + 1
                          \/ \E j \in Heads(b) : j < i /\ b[j].pkt.val + 1 = b[i].pkt.val
    /\ \A i, j \in Heads(b) : i < j => b[i].pkt.val < b[j].pkt.val

\* They go up to m: none is missing at the end.
CompleteTo(b, n, m) == n = m \/ \E j \in Heads(b) : b[j].pkt.val = m

\* The subscriber has a message that it has not shown: it is reading one, or
\* mqtt_recv_message has just returned one.
InHand == IF Reading THEN rx.have > 0 /\ Message(rx.pkt) ELSE at = "receiving"

Passed == IF InHand THEN Len(shown) + 1 ELSE Len(shown)

Numbered == (GoesOn /\ prog \in Subscribers) =>
    /\ Passed <= broker.pub
    /\ NumberedFrom(b2c, Passed, broker.pub)
    /\ link = "up" => CompleteTo(b2c, Passed, broker.pub)
    /\ (Reading /\ InHand) => rx.pkt.val = Len(shown) + 1
    /\ (~Reading /\ at = "receiving") => out = Len(shown) + 1

ShownSoFar == prog # "caller" =>
    /\ Len(shown) <= broker.pub
    /\ \A i \in DOMAIN shown : shown[i] = i
    /\ at \notin {"receiving", "shown", "done"} => shown = <<>>

LEMMA NoneNumbered == \A n, m : NumberedFrom(<<>>, n, m)
  BY DEF NumberedFrom, Heads

\* A unit of something else is read.
LEMMA TailOfOther ==
  ASSUME NEW b \in Seq(Units), b # <<>>, WholePackets(b), 1 \notin Heads(b),
         NEW n \in Nat, NEW m \in Nat, NumberedFrom(b, n, m)
  PROVE  /\ NumberedFrom(Tail(b), n, m)
         /\ CompleteTo(b, n, m) => CompleteTo(Tail(b), n, m)
<1> DEFINE t == Tail(b)
<1>1. /\ t \in Seq(Units) /\ Len(t) = Len(b) - 1
      /\ \A i \in DOMAIN t : i + 1 \in DOMAIN b /\ t[i] = b[i + 1]
  BY TailWhole
<1>2. \A i \in Heads(t) : i + 1 \in Heads(b) /\ t[i] = b[i + 1] /\ i \in Nat
  BY <1>1 DEF Heads
<1>3. \A j \in Heads(b) : j \in Nat /\ j - 1 \in Heads(t) /\ t[j - 1] = b[j]
  <2> SUFFICES ASSUME NEW j \in Heads(b)
               PROVE  j \in Nat /\ j - 1 \in Heads(t) /\ t[j - 1] = b[j]
    OBVIOUS
  <2>1. j \in 1..Len(b) /\ j # 1 /\ Len(b) \in Nat
    BY DEF Heads
  <2>2. j - 1 \in DOMAIN t /\ j - 1 + 1 = j
    BY <1>1, <2>1
  <2>3. t[j - 1] = b[j]
    BY <1>1, <2>2
  <2> QED
    BY <2>1, <2>2, <2>3 DEF Heads
<1> HIDE DEF t
<1>4. \A i \in Heads(t) : t[i].pkt.val \in n + 1..m
  BY <1>2 DEF NumberedFrom
<1>5. \A i \in Heads(t) : \/ t[i].pkt.val = n + 1
                         \/ \E j \in Heads(t) : j < i /\ t[j].pkt.val + 1 = t[i].pkt.val
  <2> SUFFICES ASSUME NEW i \in Heads(t), t[i].pkt.val # n + 1
               PROVE  \E j \in Heads(t) : j < i /\ t[j].pkt.val + 1 = t[i].pkt.val
    OBVIOUS
  <2>1. PICK j \in Heads(b) : j < i + 1 /\ b[j].pkt.val + 1 = b[i + 1].pkt.val
    BY <1>2 DEF NumberedFrom
  <2>2. j - 1 \in Heads(t) /\ t[j - 1] = b[j] /\ j - 1 < i /\ t[i] = b[i + 1]
    BY <1>2, <1>3, <2>1
  <2> QED
    BY <2>1, <2>2
<1>6. \A i, j \in Heads(t) : i < j => t[i].pkt.val < t[j].pkt.val
  <2> SUFFICES ASSUME NEW i \in Heads(t), NEW j \in Heads(t), i < j
               PROVE  t[i].pkt.val < t[j].pkt.val
    OBVIOUS
  <2>1. i + 1 \in Heads(b) /\ j + 1 \in Heads(b) /\ i + 1 < j + 1 /\ t[i] = b[i + 1] /\ t[j] = b[j + 1]
    BY <1>2
  <2> QED
    BY <2>1 DEF NumberedFrom
<1>7. CompleteTo(b, n, m) => CompleteTo(t, n, m)
  BY <1>3 DEF CompleteTo
<1> QED
  BY <1>4, <1>5, <1>6, <1>7 DEF NumberedFrom, t

\* The front of the next message is read: it is the next number.
LEMMA TailOfMessage ==
  ASSUME NEW b \in Seq(Units), b # <<>>, WholePackets(b), 1 \in Heads(b),
         NEW n \in Nat, NEW m \in Nat, NumberedFrom(b, n, m)
  PROVE  /\ b[1].pkt.val = n + 1 /\ n + 1 <= m
         /\ NumberedFrom(Tail(b), n + 1, m)
         /\ CompleteTo(b, n, m) => CompleteTo(Tail(b), n + 1, m)
<1> DEFINE t == Tail(b)
<1>0. \A j \in Heads(b) : j \in Nat /\ j >= 1
  BY DEF Heads
<1>1. b[1].pkt.val = n + 1 /\ n + 1 <= m
  BY <1>0 DEF NumberedFrom
<1>2. /\ t \in Seq(Units) /\ Len(t) = Len(b) - 1
      /\ \A i \in DOMAIN t : i + 1 \in DOMAIN b /\ t[i] = b[i + 1]
  BY TailWhole
<1>3. \A i \in Heads(t) : i + 1 \in Heads(b) /\ t[i] = b[i + 1] /\ i \in Nat /\ i >= 1
  BY <1>2 DEF Heads
<1>4. \A j \in Heads(b) : j # 1 => (j - 1 \in Heads(t) /\ t[j - 1] = b[j])
  <2> SUFFICES ASSUME NEW j \in Heads(b), j # 1
               PROVE  j - 1 \in Heads(t) /\ t[j - 1] = b[j]
    OBVIOUS
  <2>1. j \in 1..Len(b) /\ Len(b) \in Nat
    BY DEF Heads
  <2>2. j - 1 \in DOMAIN t /\ j - 1 + 1 = j
    BY <1>2, <2>1
  <2>3. t[j - 1] = b[j]
    BY <1>2, <2>2
  <2> QED
    BY <2>1, <2>2, <2>3 DEF Heads
<1> HIDE DEF t
<1>5. \A i \in Heads(t) : t[i].pkt.val \in n + 2..m
  <2> SUFFICES ASSUME NEW i \in Heads(t) PROVE t[i].pkt.val \in n + 2..m
    OBVIOUS
  <2>1. /\ i + 1 \in Heads(b) /\ 1 < i + 1 /\ t[i] = b[i + 1]
    BY <1>3
  <2>2. b[1].pkt.val < b[i + 1].pkt.val /\ b[i + 1].pkt.val \in n + 1..m
    BY <2>1 DEF NumberedFrom
  <2> QED
    BY <1>1, <2>1, <2>2
<1>6. \A i \in Heads(t) : \/ t[i].pkt.val = n + 1 + 1
                         \/ \E j \in Heads(t) : j < i /\ t[j].pkt.val + 1 = t[i].pkt.val
  <2> SUFFICES ASSUME NEW i \in Heads(t), t[i].pkt.val # n + 1 + 1
               PROVE  \E j \in Heads(t) : j < i /\ t[j].pkt.val + 1 = t[i].pkt.val
    OBVIOUS
  <2>1. i + 1 \in Heads(b) /\ t[i] = b[i + 1] /\ b[i + 1].pkt.val # n + 1
    <3>1. i + 1 \in Heads(b) /\ t[i] = b[i + 1]
      BY <1>3
    <3>2. t[i].pkt.val \in n + 2..m
      BY <1>5
    <3> QED
      BY <3>1, <3>2
  <2>2. PICK j \in Heads(b) : j < i + 1 /\ b[j].pkt.val + 1 = b[i + 1].pkt.val
    BY <2>1 DEF NumberedFrom
  <2>3. j # 1
    BY <1>1, <2>1, <2>2
  <2>4. j - 1 \in Heads(t) /\ t[j - 1] = b[j]
    BY <1>4, <2>3
  <2>5. j - 1 < i
    BY <1>0, <1>3, <2>2
  <2> QED
    BY <2>1, <2>2, <2>4, <2>5
<1>7. \A i, j \in Heads(t) : i < j => t[i].pkt.val < t[j].pkt.val
  <2> SUFFICES ASSUME NEW i \in Heads(t), NEW j \in Heads(t), i < j
               PROVE  t[i].pkt.val < t[j].pkt.val
    OBVIOUS
  <2>1. i + 1 \in Heads(b) /\ j + 1 \in Heads(b) /\ i + 1 < j + 1 /\ t[i] = b[i + 1] /\ t[j] = b[j + 1]
    BY <1>3
  <2> QED
    BY <2>1 DEF NumberedFrom
<1>8. CompleteTo(b, n, m) => CompleteTo(t, n + 1, m)
  BY <1>1, <1>4 DEF CompleteTo
<1>9. \A i \in Heads(t) : t[i].pkt.val \in n + 1 + 1..m
  BY <1>5
<1> QED
  BY <1>1, <1>6, <1>7, <1>8, <1>9 DEF NumberedFrom, t

\* Where the messages begin once p has been sent.
LEMMA HeadsOfAppend ==
  ASSUME NEW b \in Seq(Units), NEW p \in Packets
  PROVE  /\ Len(b) \in Nat
         /\ \A i \in Heads(b) : i \in Nat /\ i <= Len(b) /\ (b \o Cut(p))[i] = b[i]
         /\ (b \o Cut(p))[Len(b) + 1].pkt = p
         /\ Message(p) => Heads(b \o Cut(p)) = Heads(b) \cup {Len(b) + 1}
         /\ ~Message(p) => Heads(b \o Cut(p)) = Heads(b)
<1>0. PICK c : c = b \o Cut(p)
  OBVIOUS
<1> DEFINE d == Cut(p)
<1>1. PICK k \in Nat : k = Size(p) /\ k >= 2
  BY SizeType DEF MaxSize
<1>2. /\ d \in Seq(Units) /\ Len(d) = k /\ \A i \in 1..k : d[i] = [pkt |-> p, at |-> i]
  BY <1>1, CutType DEF Cut
<1> HIDE DEF d
<1>3. /\ Len(b) \in Nat /\ c \in Seq(Units) /\ Len(c) = Len(b) + k
      /\ \A i \in 1..Len(b) : c[i] = b[i]
      /\ \A i \in 1..k : c[Len(b) + i] = [pkt |-> p, at |-> i]
  <2>1. c = b \o d
    BY <1>0 DEF d
  <2>2. d \in Seq(Units)
    BY <1>2
  <2>3. /\ Len(b) \in Nat /\ b \o d \in Seq(Units) /\ Len(b \o d) = Len(b) + Len(d)
        /\ \A i \in 1..Len(b) : (b \o d)[i] = b[i]
        /\ \A i \in 1..Len(d) : (b \o d)[Len(b) + i] = d[i]
    BY <2>2, Joined
  <2> QED
    BY <1>2, <2>1, <2>3
<1>4. \A i \in Heads(b) : i \in Nat /\ i <= Len(b) /\ c[i] = b[i]
  BY <1>3 DEF Heads
<1>5. c[Len(b) + 1] = [pkt |-> p, at |-> 1] /\ Len(b) + 1 \in DOMAIN c
  BY <1>1, <1>3
<1>6. Heads(b) \subseteq Heads(c) /\ (Message(p) => Len(b) + 1 \in Heads(c))
  <2>1. \A i \in Heads(b) : i \in DOMAIN c /\ c[i] = b[i]
    BY <1>3 DEF Heads
  <2> QED
    BY <1>5, <2>1 DEF Heads
<1>7. ASSUME NEW i \in Heads(c) PROVE i \in Heads(b) \/ (i = Len(b) + 1 /\ Message(p))
  <2>1. i \in 1..Len(b) + k /\ c[i].at = 1 /\ Message(c[i].pkt)
    BY <1>3, <1>7 DEF Heads
  <2>2. CASE i <= Len(b)
    BY <1>3, <2>1, <2>2 DEF Heads
  <2>3. CASE i > Len(b)
    <3> DEFINE j == i - Len(b)
    <3>1. j \in 1..k /\ i = Len(b) + j
      BY <1>3, <2>1, <2>3
    <3> HIDE DEF j
    <3>2. c[i] = [pkt |-> p, at |-> j]
      BY <1>3, <3>1
    <3> QED
      BY <2>1, <3>1, <3>2
  <2> QED
    BY <1>3, <2>1, <2>2, <2>3
<1>8. c[Len(b) + 1].pkt = p
  BY <1>5
<1>9. Len(b) \in Nat
  BY <1>3
<1> QED
  BY <1>0, <1>4, <1>6, <1>7, <1>8, <1>9

LEMMA AppendOther ==
  ASSUME NEW b \in Seq(Units), NEW p \in Packets, ~Message(p), NEW n \in Nat, NEW m \in Nat
  PROVE  /\ NumberedFrom(b, n, m) => NumberedFrom(b \o Cut(p), n, m)
         /\ CompleteTo(b, n, m) => CompleteTo(b \o Cut(p), n, m)
<1> DEFINE c == b \o Cut(p)
<1>1. Heads(c) = Heads(b) /\ \A i \in Heads(b) : c[i] = b[i]
  BY HeadsOfAppend
<1> HIDE DEF c
<1> QED
  BY <1>1 DEF NumberedFrom, CompleteTo, c

LEMMA AppendMessage ==
  ASSUME NEW b \in Seq(Units), NEW p \in Packets, Message(p), NEW n \in Nat, NEW m \in Nat,
         n <= m, p.val = m + 1, NumberedFrom(b, n, m), CompleteTo(b, n, m)
  PROVE  NumberedFrom(b \o Cut(p), n, m + 1) /\ CompleteTo(b \o Cut(p), n, m + 1)
<1> DEFINE c == b \o Cut(p)
           k == Len(b) + 1
<1>0. /\ Len(b) \in Nat
      /\ \A i \in Heads(b) : i \in Nat /\ i <= Len(b) /\ c[i] = b[i]
      /\ c[k].pkt = p /\ Heads(c) = Heads(b) \cup {k}
  BY HeadsOfAppend
<1> HIDE DEF c
<1>1. /\ Heads(c) = Heads(b) \cup {k} /\ k \in Nat /\ c[k].pkt.val = m + 1
      /\ \A i \in Heads(b) : i \in Nat /\ i < k /\ c[i] = b[i]
  BY <1>0
<1> HIDE DEF k
<1>2. \A i \in Heads(c) : c[i].pkt.val \in n + 1..m + 1
  BY <1>1 DEF NumberedFrom
<1>3. \A i \in Heads(c) : \/ c[i].pkt.val = n + 1
                         \/ \E j \in Heads(c) : j < i /\ c[j].pkt.val + 1 = c[i].pkt.val
  <2>1. ASSUME NEW i \in Heads(b), c[i].pkt.val # n + 1
        PROVE  \E j \in Heads(c) : j < i /\ c[j].pkt.val + 1 = c[i].pkt.val
    BY <1>1, <2>1 DEF NumberedFrom
  <2>2. ASSUME c[k].pkt.val # n + 1
        PROVE  \E j \in Heads(c) : j < k /\ c[j].pkt.val + 1 = c[k].pkt.val
    <3>1. n # m
      BY <1>1, <2>2
    <3>2. PICK j \in Heads(b) : b[j].pkt.val = m
      BY <3>1 DEF CompleteTo
    <3> QED
      BY <1>1, <3>2
  <2> QED
    BY <1>1, <2>1, <2>2
<1>4. \A i, j \in Heads(c) : i < j => c[i].pkt.val < c[j].pkt.val
  <2>1. \A i \in Heads(b) : c[i].pkt.val \in n + 1..m
    BY <1>1 DEF NumberedFrom
  <2>2. \A i, j \in Heads(b) : i < j => c[i].pkt.val < c[j].pkt.val
    BY <1>1 DEF NumberedFrom
  <2>3. \A i \in Heads(b) : i < k /\ ~(k < i) /\ c[i].pkt.val < c[k].pkt.val
    BY <1>1, <2>1
  <2> QED
    BY <1>1, <2>2, <2>3
<1> QED
  BY <1>1, <1>2, <1>3, <1>4 DEF NumberedFrom, CompleteTo, c

\* The broker's next message finds the others numbered up to the last.
LEMMA BrokerKeepsNumbers ==
  ASSUME Types, Numbered, shown \in Seq(0..MaxPublish), Environment, UNCHANGED progVars
  PROVE  Numbered' /\ broker.pub <= broker'.pub
<1>0. /\ UNCHANGED <<call, ret, rx, out, prog, at, shown>>
      /\ b2c \in Seq(Units) /\ Len(shown) \in Nat /\ broker.pub \in Nat
  BY EnvironmentTypes, MaxPublishAssumption
  DEF sessVars, progVars, Types, ReaderTyped, ConnectionTyped, BrokerStates
<1>1. (GoesOn' <=> GoesOn) /\ (InHand' <=> InHand) /\ Passed' = Passed /\ Passed \in Nat
  BY <1>0 DEF GoesOn, Reading, InHand, Passed
<1>2. broker.pub <= broker'.pub
  BY <1>0, BrokerSpeaks DEF BrokerSends
<1> SUFFICES ASSUME GoesOn, prog \in Subscribers
             PROVE  /\ Passed <= broker'.pub
                    /\ NumberedFrom(b2c', Passed, broker'.pub)
                    /\ link' = "up" => CompleteTo(b2c', Passed, broker'.pub)
  BY <1>0, <1>1, <1>2 DEF Numbered, Reading
<1>3. /\ Passed <= broker.pub /\ NumberedFrom(b2c, Passed, broker.pub)
      /\ link = "up" => CompleteTo(b2c, Passed, broker.pub)
  BY DEF Numbered
<1>4. ASSUME NEW p \in Packets, BrokerSends(p)
      PROVE  /\ Passed <= broker'.pub
             /\ NumberedFrom(b2c', Passed, broker'.pub)
             /\ CompleteTo(b2c', Passed, broker'.pub)
  <2>1. link = "up" /\ b2c' = b2c \o Cut(p)
    BY <1>4 DEF BrokerSends
  <2>2. CASE Message(p)
    <3>1. p.val = broker.pub + 1 /\ broker'.pub = broker.pub + 1
      BY <1>4, <2>2 DEF BrokerSends, Message
    <3>2. /\ NumberedFrom(b2c \o Cut(p), Passed, broker.pub + 1)
          /\ CompleteTo(b2c \o Cut(p), Passed, broker.pub + 1)
      BY <1>0, <1>1, <1>3, <2>1, <2>2, <3>1, AppendMessage
    <3> QED
      BY <1>0, <1>1, <1>3, <2>1, <3>1, <3>2
  <2>3. CASE ~Message(p)
    <3>1. broker'.pub = broker.pub
      BY <1>4, <2>3 DEF BrokerSends, Message
    <3>2. /\ NumberedFrom(b2c \o Cut(p), Passed, broker.pub)
          /\ CompleteTo(b2c \o Cut(p), Passed, broker.pub)
      BY <1>0, <1>1, <1>3, <2>1, <2>3, AppendOther
    <3> QED
      BY <1>3, <2>1, <3>1, <3>2
  <2> QED
    BY <2>2, <2>3
<1>5. CASE UNCHANGED b2c /\ broker'.pub = broker.pub
  BY <1>3, <1>5, BrokerSpeaks
<1>6. CASE b2c' = <<>> /\ link' = "down" /\ broker'.pub = broker.pub
  BY <1>3, <1>6, NoneNumbered
<1> QED
  BY <1>4, <1>5, <1>6, BrokerSpeaks

\* A read takes the next number in hand, or none; what it gives up on, the
\* program does not come back to.
LEMMA ReadKeepsNumbers ==
  ASSUME IInv, Types, InPlace, WholePackets(b2c), InStep, Numbered, shown \in Seq(0..MaxPublish),
         Read, UNCHANGED progVars
  PROVE  Numbered' /\ broker' = broker
<1>0. /\ UNCHANGED <<prog, at, shown>>
      /\ b2c \in Seq(Units) /\ Len(shown) \in Nat /\ broker.pub \in Nat /\ rx.have \in Nat
  BY MaxPublishAssumption DEF progVars, Types, ReaderTyped, ConnectionTyped, BrokerStates
<1>1. Reading /\ broker' = broker
  BY DEF Read, ReadHeader, ReadOn, ReadPacket, ReadTooLong, ReadTimesOut, ReadFails, StillReading,
     GiveUp
<1> SUFFICES ASSUME prog \in Subscribers, prog # "caller", GoesOn
             PROVE  Numbered'
  BY <1>0, <1>1 DEF Numbered, GoesOn, Subscribers
<1>2. /\ Passed <= broker.pub /\ NumberedFrom(b2c, Passed, broker.pub) /\ Passed \in Nat
      /\ link = "up" => CompleteTo(b2c, Passed, broker.pub)
      /\ InHand => (rx.pkt.val = Len(shown) + 1 /\ rx.have > 0 /\ Message(rx.pkt))
      /\ (rx.have > 0 /\ Message(rx.pkt)) => InHand
  BY <1>0, <1>1 DEF Numbered, Passed, InHand
<1>3. CASE ReadHeader \/ ReadOn
  <2>1. /\ b2c # <<>> /\ b2c' = Tail(b2c) /\ b2c[1].at = rx.have + 1
        /\ rx' = [pkt |-> b2c[1].pkt, have |-> rx.have + 1, need |-> Size(b2c[1].pkt)]
        /\ Reading' /\ UNCHANGED link
        /\ rx.have > 0 => b2c[1].pkt = rx.pkt
    BY <1>3, PartInStep DEF Reading
  <2>2. InHand' <=> Message(b2c[1].pkt)
    BY <1>0, <2>1 DEF InHand
  <2>3. rx'.pkt = b2c[1].pkt /\ 1 \in DOMAIN b2c
    BY <1>0, <2>1
  <2>4. CASE 1 \in Heads(b2c)
    <3>1. ~InHand /\ InHand' /\ Passed = Len(shown) /\ Passed' = Passed + 1
      BY <1>0, <1>2, <2>1, <2>2, <2>4 DEF Heads, Passed
    <3>2. /\ b2c[1].pkt.val = Passed + 1 /\ Passed + 1 <= broker.pub
          /\ NumberedFrom(Tail(b2c), Passed + 1, broker.pub)
          /\ CompleteTo(b2c, Passed, broker.pub) => CompleteTo(Tail(b2c), Passed + 1, broker.pub)
      BY <1>0, <1>2, <2>1, <2>4, TailOfMessage
    <3> QED
      BY <1>0, <1>1, <1>2, <2>1, <2>3, <3>1, <3>2 DEF Numbered
  <2>5. CASE 1 \notin Heads(b2c)
    <3>1. InHand' <=> InHand
      BY <1>0, <1>2, <2>1, <2>2, <2>3, <2>5 DEF Heads
    <3>2. Passed' = Passed
      BY <1>0, <3>1 DEF Passed
    <3>3. /\ NumberedFrom(Tail(b2c), Passed, broker.pub)
          /\ CompleteTo(b2c, Passed, broker.pub) => CompleteTo(Tail(b2c), Passed, broker.pub)
      BY <1>0, <1>2, <2>1, <2>5, TailOfOther
    <3>4. InHand => rx'.pkt.val = Len(shown) + 1
      BY <1>0, <1>2, <2>1, <2>3
    <3> QED
      BY <1>0, <1>1, <1>2, <2>1, <3>1, <3>2, <3>3, <3>4 DEF Numbered
  <2> QED
    BY <2>4, <2>5
<1>4. CASE ReadPacket
  <2>1. /\ b2c # <<>> /\ b2c' \in {Tail(b2c), <<>>} /\ rx' = NoRx
        /\ b2c[1].at >= 2 /\ link' \in {link, "closed"} /\ rx.have > 0 /\ NoRx.have = 0
    BY <1>4, PacketInStep DEF NoRx
  <2>2. NumberedFrom(b2c', Passed, broker.pub)
        /\ (b2c' = Tail(b2c) /\ link = "up" => CompleteTo(b2c', Passed, broker.pub))
    <3>1. 1 \notin Heads(b2c)
      BY <2>1 DEF Heads
    <3> QED
      BY <1>0, <1>2, <2>1, <3>1, TailOfOther, NoneNumbered
  <2>3. GoesOn' => /\ InHand' <=> InHand
                   /\ b2c' = Tail(b2c)
                   /\ ~Reading' /\ at = "receiving" => out' = Len(shown) + 1
    <3>1. CASE call = "connection" /\ ConnackRead(rx.pkt)
      <4>1. /\ call' = "none" /\ at = "connecting"
            /\ ret' = 0 => (rx.pkt.type = "CONNACK" /\ b2c' = Tail(b2c))
        BY <1>1, <3>1 DEF ConnackRead, Return, tls_close, InPlace
      <4> QED
        BY <1>0, <1>1, <4>1 DEF GoesOn, Reading, InHand, Message
    <3>2. CASE call = "data_send" /\ AckRead(rx.pkt)
      BY <1>1, <3>2 DEF InPlace, Subscribers
    <3>3. CASE call = "subscribe" /\ SubackRead(rx.pkt)
      <4>1. /\ call' = "none" /\ at = "subscribing" /\ b2c' = Tail(b2c)
            /\ ret' = 0 => rx.pkt.type = "SUBACK"
        BY <1>1, <3>3 DEF SubackRead, Return, ChannelRead, InPlace
      <4> QED
        BY <1>0, <1>1, <4>1 DEF GoesOn, Reading, InHand, Message
    <3>4. CASE call = "recv_message" /\ MessageRead(rx.pkt)
      <4>1. at = "receiving" /\ b2c' = Tail(b2c) /\ rx.pkt.type # "HUGE"
        BY <1>1, <1>4, <3>4 DEF MessageRead, ChannelRead, InPlace, ReadPacket
      <4>2. CASE rx.pkt.type = "PUBLISH"
        <5>1. InHand /\ call' = "none" /\ (ret' = 0 => out' = rx.pkt.val)
          BY <1>1, <1>2, <2>1, <3>4, <4>2 DEF MessageRead, Return, Message
        <5> QED
          BY <1>0, <1>2, <4>1, <5>1 DEF GoesOn, Reading, InHand
      <4>3. CASE rx.pkt.type # "PUBLISH"
        <5>1. ~InHand /\ call' = call
          BY <1>2, <3>4, <4>1, <4>3 DEF MessageRead, Message
        <5> QED
          BY <1>1, <2>1, <4>1, <5>1 DEF Reading, InHand
      <4> QED
        BY <4>2, <4>3
    <3> QED
      BY <1>4, <3>1, <3>2, <3>3, <3>4 DEF ReadPacket
  <2>4. GoesOn' => Passed' = Passed
    BY <1>0, <2>3 DEF Passed
  <2>5. ~(Reading' /\ InHand')
    BY <2>1 DEF InHand
  <2> QED
    BY <1>0, <1>1, <1>2, <2>1, <2>2, <2>3, <2>4, <2>5 DEF Numbered
<1>5. CASE ReadTooLong \/ ReadTimesOut \/ ReadFails
  BY <1>5, GivenUp DEF Numbered, GoesOn, Reading
<1> QED
  BY <1>3, <1>4, <1>5 DEF Read

\* A call of a subscriber that begins has nothing in hand, and takes nothing.
LEMMA CallKeepsNumbers ==
  ASSUME Types, NoneBegun, Numbered, shown \in Seq(0..MaxPublish), prog \in Subscribers,
         call = "none", ret = 0, at # "receiving", UNCHANGED <<prog, shown>>,
         mqtt_subscribe \/ mqtt_recv_message
  PROVE  Numbered'
<1>0. ~Reading /\ GoesOn /\ ~InHand /\ Passed = Len(shown) /\ NoRx.have = 0
  BY DEF Reading, GoesOn, Subscribers, InHand, Passed, NoRx
<1>1. /\ UNCHANGED <<b2c, link, broker>> /\ rx' = NoRx
      /\ ~Reading' => ret' # 0
  BY DEF mqtt_subscribe, mqtt_recv_message, StaysOpen, Return, Await, Reading
<1>2. GoesOn' => (Reading' /\ ~InHand' /\ Passed' = Passed)
  <2>1. GoesOn' => Reading'
    BY <1>1 DEF GoesOn
  <2>2. Reading' => ~InHand'
    BY <1>0, <1>1 DEF InHand
  <2>3. ~InHand' => Passed' = Passed
    BY <1>0 DEF Passed
  <2> QED
    BY <2>1, <2>2, <2>3
<1> QED
  BY <1>0, <1>1, <1>2 DEF Numbered

\* The connection starts with nothing sent and nothing shown.
LEMMA StartKeepsNumbers ==
  ASSUME Types, FirstAndLast, Numbered, ShownSoFar, prog \in Subscribers, Start
  PROVE  Numbered'
<1>1. /\ at = "start" /\ link = "none" /\ b2c = <<>> /\ shown = <<>>
      /\ UNCHANGED <<prog, shown>> /\ rx' = NoRx /\ NoRx.have = 0
  BY DEF Start, From, Goes, mqtt_connection, Return, Await, FirstAndLast, ShownSoFar, Subscribers,
         NoRx
<1>2. GoesOn' => (Reading' /\ b2c' = <<>> /\ broker'.pub = 0)
  <2>1. CASE ret' = -1 /\ call' = "none"
    BY <2>1 DEF GoesOn, Reading
  <2>2. CASE UNCHANGED b2c /\ broker' = [NoBroker EXCEPT !.phase = "idle"] /\ call' = "connection"
    BY <1>1, <2>2 DEF NoBroker, Reading
  <2> QED
    BY <2>1, <2>2 DEF Start, mqtt_connection, Return, Await
<1>3. GoesOn' => (~InHand' /\ Passed' = 0)
  BY <1>1, <1>2 DEF InHand, Passed
<1> QED
  BY <1>2, <1>3, NoneNumbered DEF Numbered, CompleteTo

LEMMA NumberedKept ==
  ASSUME IInv, PInv, ProgramTyped, InPlace, NoneBegun, WholePackets(b2c), InStep, Numbered,
         ShownSoFar, [Next]_vars
  PROVE  Numbered'
<1>0. /\ prog' = prog /\ Types /\ FirstAndLast /\ shown \in Seq(0..MaxPublish)
  BY ProgramStays DEF PInv, ProgramTyped
<1> SUFFICES ASSUME prog \in Subscribers PROVE Numbered'
  BY <1>0 DEF Numbered
<1>1. prog # "caller"
  BY DEF Subscribers
<1>2. CASE Read /\ UNCHANGED progVars
  BY <1>0, <1>2, ReadKeepsNumbers
<1>3. CASE Environment /\ UNCHANGED progVars
  BY <1>0, <1>3, BrokerKeepsNumbers
<1>4. CASE Start
  BY <1>0, <1>4, StartKeepsNumbers
<1>5. CASE Subscribe \/ Receive \/ ReceiveAgain
  <2>1. /\ call = "none" /\ ret = 0 /\ at # "receiving" /\ UNCHANGED <<prog, shown>>
        /\ mqtt_subscribe \/ mqtt_recv_message
    BY <1>1, <1>5 DEF Subscribe, Receive, ReceiveAgain, From, Goes, InPlace
  <2> QED
    BY <1>0, <2>1, CallKeepsNumbers
<1>6. CASE Shows
  <2>1. /\ call = "none" /\ ret = 0 /\ at = "receiving" /\ at' = "shown" /\ shown' = Append(shown, out)
        /\ UNCHANGED <<call, ret, rx, b2c, link, broker>>
    BY <1>6 DEF Shows, From, mqtt_message_free, netVars
  <2>2. GoesOn /\ InHand /\ ~InHand' /\ ~Reading'
    BY <1>1, <2>1 DEF GoesOn, Reading, InHand
  <2>3. Passed = Len(shown) + 1 /\ Passed' = Len(shown) + 1
    BY <1>0, <2>1, <2>2 DEF Passed
  <2> QED
    BY <1>0, <2>1, <2>2, <2>3 DEF Numbered
<1>7. CASE OneShown
  <2>1. /\ ~Reading /\ ~Reading' /\ GoesOn /\ at = "shown" /\ at' = "done"
        /\ UNCHANGED <<broker, shown, out>>
        /\ UNCHANGED <<b2c, link>> \/ (b2c' = <<>> /\ link' = "closed")
    BY <1>1, <1>7, LeavesKeeps DEF OneShown, From, InPlace, GoesOn, Reading
  <2>2. Passed = Len(shown) /\ Passed' = Len(shown) /\ ~InHand'
    BY <2>1 DEF Passed, InHand
  <2> QED
    BY <2>1, <2>2, NoneNumbered DEF Numbered
<1>8. CASE NotConnected \/ NotSubscribed \/ NoMessage
  <2>1. ret # 0 /\ call = "none" /\ UNCHANGED <<call, ret>>
    BY <1>8, LeavesKeeps DEF NotConnected, NotSubscribed, NoMessage, From, mqttVars, sessVars
  <2> QED
    BY <2>1 DEF Numbered, GoesOn, Reading
<1>9. CASE PublisherLeaves \/ \E q \in Qos : Publish(q)
  BY <1>9 DEF PublisherLeaves, Publish, From, Subscribers
<1>10. CASE UNCHANGED vars
  <2>1. UNCHANGED <<call, rx, ret, out, link, b2c, broker, prog, at, shown>>
    BY <1>10 DEF vars, mqttVars, sessVars, netVars, progVars
  <2> QED
    BY <2>1 DEF Numbered, GoesOn, Reading, InHand, Passed
<1> QED
  BY <1>1, <1>2, <1>3, <1>4, <1>5, <1>6, <1>7, <1>8, <1>9, <1>10, BuiltinSteps DEF Client

LEMMA ShownKept ==
  ASSUME IInv, PInv, ProgramTyped, InPlace, WholePackets(b2c), InStep, Numbered, ShownSoFar,
         [Next]_vars
  PROVE  ShownSoFar'
<1>0. /\ prog' = prog /\ Types /\ shown \in Seq(0..MaxPublish) /\ Len(shown) \in Nat
      /\ broker.pub \in Nat /\ broker'.pub \in Nat
  <2>1. Types /\ Types'
    BY NextTypes DEF PInv
  <2> QED
    BY <2>1, ProgramStays, MaxPublishAssumption DEF ProgramTyped, Types, ConnectionTyped, BrokerStates
<1> SUFFICES ASSUME prog # "caller" PROVE ShownSoFar'
  BY <1>0 DEF ShownSoFar
<1>1. CASE Shows
  <2>1. /\ prog \in Subscribers /\ ~Reading /\ ret = 0 /\ at = "receiving" /\ at' = "shown"
        /\ shown' = Append(shown, out) /\ UNCHANGED broker
    BY <1>1 DEF Shows, From, mqtt_message_free, Reading
  <2>2. out = Len(shown) + 1 /\ Len(shown) + 1 <= broker.pub
    BY <2>1 DEF Numbered, GoesOn, Passed, InHand
  <2>3. /\ Len(shown') = Len(shown) + 1 /\ shown'[Len(shown) + 1] = out
        /\ DOMAIN shown' = 1..(Len(shown) + 1) /\ DOMAIN shown = 1..Len(shown)
        /\ \A i \in 1..Len(shown) : shown'[i] = shown[i]
    BY <1>0, <2>1
  <2> QED
    BY <1>0, <2>1, <2>2, <2>3 DEF ShownSoFar
<1>2. ASSUME UNCHANGED shown, broker.pub <= broker'.pub,
             at' \in {at, "receiving", "done"} \/ at \in {"start", "connecting"}
      PROVE  ShownSoFar'
  BY <1>0, <1>2 DEF ShownSoFar
<1>3. CASE Start
  <2>1. shown = <<>> /\ UNCHANGED shown /\ broker'.pub \in {broker.pub, 0}
    BY <1>3 DEF Start, From, Goes, ShownSoFar, mqtt_connection, NoBroker
  <2> QED
    BY <1>0, <2>1 DEF ShownSoFar
<1>4. CASE Subscribe \/ Receive \/ ReceiveAgain \/ NotConnected \/ \E q \in Qos : Publish(q)
  <2>1. /\ UNCHANGED <<shown, broker>>
        /\ at' \in {"receiving", "done"} \/ at \in {"start", "connecting"}
    BY <1>4 DEF Subscribe, Receive, ReceiveAgain, NotConnected, Publish, From, Goes, mqttVars,
       mqtt_subscribe, mqtt_recv_message, mqtt_data_send
  <2> QED
    BY <1>0, <1>2, <2>1
<1>5. ASSUME NEW r, Leaves(r) PROVE ShownSoFar'
  BY <1>0, <1>2, <1>5, LeavesKeeps
<1>6. CASE Environment /\ UNCHANGED progVars
  <2>1. broker.pub <= broker'.pub
    BY <1>0, <1>6, BrokerSpeaks DEF BrokerSends
  <2> QED
    BY <1>2, <1>6, <2>1 DEF progVars
<1>7. CASE Read /\ UNCHANGED progVars
  <2>1. UNCHANGED broker
    BY <1>7 DEF Read, ReadHeader, ReadOn, ReadPacket, ReadTooLong, ReadTimesOut, ReadFails, GiveUp,
         StillReading
  <2> QED
    BY <1>0, <1>2, <1>7, <2>1 DEF progVars
<1>8. CASE UNCHANGED vars
  BY <1>0, <1>2, <1>8 DEF vars, mqttVars, progVars
<1> QED
  BY <1>1, <1>3, <1>4, <1>5, <1>6, <1>7, <1>8, BuiltinSteps
  DEF Client, PublisherLeaves, NotSubscribed, OneShown, NoMessage

-----------------------------------------------------------------------------
(* The SUBSCRIBE and its SUBACK. *)

Asks(s) == {i \in DOMAIN s : s[i].type = "SUBSCRIBE"}
Once(s) == \A i, j \in Asks(s) : i = j

\* A SUBACK is being read, or on its way.
SubackComes == \/ rx.pkt.type = "SUBACK"
               \/ \E i \in DOMAIN b2c : b2c[i].pkt.type = "SUBACK"

\* The client has asked, and the broker has said all it has to say about it.
Answered == Asks(sent) # {} /\ Asks(c2b) = {} /\ broker.owes = "nothing"

\* The SUBSCRIBE is on its way, then owed an answer, then answered.
AskedOnce ==
    /\ Once(sent) /\ Once(c2b)
    /\ Asks(c2b) # {} => broker.owes = "nothing"
    /\ (Asks(c2b) # {} \/ broker.owes # "nothing") => Asks(sent) # {}
    /\ SubackComes => Answered

\* What the program knows of it, from where it stands.
Told ==
    /\ at \in {"start", "connecting"} => Asks(sent) = {}
    /\ (at = "subscribing" /\ ~Reading /\ ret = 0) => Answered
    /\ at \in {"receiving", "shown"} => Answered
    /\ (prog \in Subscribers /\ at = "done" /\ exit = 0) => Answered

Request == prog # "caller" => (AskedOnce /\ Told)

LEMMA AsksAppend ==
  ASSUME NEW s \in Seq(ClientPackets), NEW p \in ClientPackets
  PROVE  Asks(Append(s, p)) = IF p.type = "SUBSCRIBE" THEN Asks(s) \cup {Len(s) + 1} ELSE Asks(s)
<1>1. /\ DOMAIN Append(s, p) = DOMAIN s \cup {Len(s) + 1} /\ Len(s) + 1 \notin DOMAIN s
      /\ Append(s, p)[Len(s) + 1] = p /\ \A i \in DOMAIN s : Append(s, p)[i] = s[i]
  OBVIOUS
<1> QED
  BY <1>1 DEF Asks

LEMMA AsksTail ==
  ASSUME NEW s \in Seq(ClientPackets), s # <<>>, Once(s)
  PROVE  /\ Once(Tail(s))
         /\ Head(s).type # "SUBSCRIBE" => (Asks(Tail(s)) = {} <=> Asks(s) = {})
         /\ Head(s).type = "SUBSCRIBE" => (Asks(s) # {} /\ Asks(Tail(s)) = {})
<1> DEFINE t == Tail(s)
<1>1. /\ Head(s) = s[1] /\ 1 \in DOMAIN s
      /\ \A i \in DOMAIN t : i \in Nat /\ i >= 1 /\ i + 1 \in DOMAIN s /\ t[i] = s[i + 1]
      /\ \A i \in DOMAIN s : i # 1 => (i - 1 \in DOMAIN t /\ t[i - 1] = s[i])
  <2>1. /\ t \in Seq(ClientPackets) /\ Len(t) = Len(s) - 1 /\ Len(s) \in Nat /\ Len(s) >= 1
        /\ \A i \in 1..Len(t) : t[i] = s[i + 1]
    OBVIOUS
  <2>2. Head(s) = s[1]
    OBVIOUS
  <2>3. DOMAIN t = 1..Len(s) - 1 /\ DOMAIN s = 1..Len(s)
    BY <2>1
  <2> HIDE DEF t
  <2>4. \A i \in DOMAIN s : i # 1 => (i - 1 \in DOMAIN t /\ t[i - 1] = s[i])
    <3> SUFFICES ASSUME NEW i \in 1..Len(s), i # 1 PROVE i - 1 \in DOMAIN t /\ t[i - 1] = s[i]
      BY <2>3
    <3>1. i - 1 \in 1..Len(t) /\ i - 1 + 1 = i
      BY <2>1
    <3> QED
      BY <2>1, <2>3, <3>1
  <2> QED
    BY <2>1, <2>2, <2>3, <2>4
<1> HIDE DEF t
<1>2. \A i \in Asks(t) : i \in Nat /\ i >= 1 /\ i + 1 \in Asks(s)
  BY <1>1 DEF Asks
<1>3. \A i \in Asks(s) : i # 1 => i - 1 \in Asks(t)
  BY <1>1 DEF Asks
<1>4. Once(t)
  <2> SUFFICES ASSUME NEW i \in Asks(t), NEW j \in Asks(t) PROVE i = j
    BY DEF Once
  <2>1. i + 1 = j + 1 /\ i \in Nat /\ j \in Nat
    BY <1>2 DEF Once
  <2> QED
    BY <2>1
<1>5. 1 \in Asks(s) <=> Head(s).type = "SUBSCRIBE"
  BY <1>1 DEF Asks
<1>6. 1 \in Asks(s) => Asks(t) = {}
  <2> SUFFICES ASSUME 1 \in Asks(s), NEW i \in Asks(t) PROVE FALSE
    OBVIOUS
  <2>1. i + 1 = 1 /\ i \in Nat /\ i >= 1
    BY <1>2 DEF Once
  <2> QED
    BY <2>1
<1>7. 1 \notin Asks(s) => (Asks(t) = {} <=> Asks(s) = {})
  BY <1>2, <1>3
<1> QED
  BY <1>4, <1>5, <1>6, <1>7 DEF t

\* Anything but a SUBSCRIBE is sent, or nothing.
LEMMA OtherSent ==
  ASSUME PacketsTyped, NEW p \in ClientPackets, p.type # "SUBSCRIBE", TlsSend(p) \/ NothingSent
  PROVE  Asks(sent') = Asks(sent) /\ Asks(c2b') = Asks(c2b)
<1>1. sent' \in {sent, Append(sent, p)} /\ c2b' \in {c2b, Append(c2b, p)}
  BY DEF TlsSend, NothingSent
<1> QED
  BY <1>1, AsksAppend DEF PacketsTyped

\* As long as nobody asks or answers, what has been asked stays so.
LEMMA NobodyAsks ==
  ASSUME Request, prog # "caller", prog' = prog, Asks(sent') = Asks(sent), Asks(c2b') = Asks(c2b),
         broker'.owes = broker.owes, SubackComes' => SubackComes, Told'
  PROVE  Request'
  BY DEF Request, AskedOnce, Once, Answered

LEMMA NoRxNoSuback == NoRx.pkt.type # "SUBACK"
  BY DEF NoRx, Packet

\* What is left of the channel, or one packet more in it.
LEMMA FewerSubacks ==
  ASSUME b2c \in Seq(Units),
         b2c' = b2c \/ b2c' = <<>> \/ (b2c # <<>> /\ b2c' = Tail(b2c)),
         rx' = NoRx \/ rx'.pkt = rx.pkt \/ (b2c # <<>> /\ rx'.pkt = b2c[1].pkt)
  PROVE  SubackComes' => SubackComes
<1>1. rx'.pkt.type = "SUBACK" => SubackComes
  <2>1. CASE rx' = NoRx
    BY <2>1, NoRxNoSuback
  <2>2. CASE b2c # <<>> /\ rx'.pkt = b2c[1].pkt
    <3>1. 1 \in DOMAIN b2c
      BY <2>2
    <3> QED
      BY <2>2, <3>1 DEF SubackComes
  <2> QED
    BY <2>1, <2>2 DEF SubackComes
<1>2. \A i \in DOMAIN b2c' : b2c'[i].pkt.type = "SUBACK" => SubackComes
  <2>1. CASE b2c' = b2c \/ b2c' = <<>>
    BY <2>1 DEF SubackComes
  <2>2. CASE b2c # <<>> /\ b2c' = Tail(b2c)
    <3>1. \A i \in DOMAIN b2c' : i + 1 \in DOMAIN b2c /\ b2c'[i] = b2c[i + 1]
      BY <2>2
    <3> QED
      BY <3>1 DEF SubackComes
  <2> QED
    BY <2>1, <2>2
<1> QED
  BY <1>1, <1>2 DEF SubackComes

LEMMA OtherReply ==
  ASSUME b2c \in Seq(Units), NEW p \in Packets, p.type # "SUBACK", b2c' = b2c \o Cut(p), rx' = rx
  PROVE  SubackComes' => SubackComes
<1>1. Cut(p) \in Seq(Units) /\ \A i \in DOMAIN Cut(p) : Cut(p)[i].pkt = p
  BY CutType DEF Cut
<1>2. \A i \in DOMAIN b2c' : \/ i \in DOMAIN b2c /\ b2c'[i] = b2c[i]
                            \/ b2c'[i].pkt = p
  <2> SUFFICES ASSUME NEW i \in DOMAIN b2c'
               PROVE  (i \in DOMAIN b2c /\ b2c'[i] = b2c[i]) \/ b2c'[i].pkt = p
    OBVIOUS
  <2>1. \/ i \in DOMAIN b2c /\ b2c'[i] = b2c[i]
        \/ i - Len(b2c) \in DOMAIN Cut(p) /\ b2c'[i] = Cut(p)[i - Len(b2c)]
    BY <1>1
  <2> QED
    BY <1>1, <2>1
<1> QED
  BY <1>2 DEF SubackComes

\* A read takes what is there; the SUBACK that ends mqtt_subscribe well is one
\* the broker has sent.
LEMMA ReadKeepsRequest ==
  ASSUME IInv, PInv, InPlace, InStep, Request, prog # "caller", Read, UNCHANGED progVars
  PROVE  Request'
<1>0. /\ UNCHANGED <<prog, at, exit>> /\ Types /\ b2c \in Seq(Units) /\ Reading /\ GoesOn
  BY DEF progVars, PInv, Types, ReaderTyped, Read, ReadHeader, ReadOn, ReadPacket, ReadTooLong,
     ReadTimesOut, ReadFails, GoesOn
<1>1. UNCHANGED <<sent, c2b, broker>>
  BY DEF Read, ReadHeader, ReadOn, ReadPacket, ReadTooLong, ReadTimesOut, ReadFails, StillReading,
     GiveUp, NothingSent
<1>2. /\ SubackComes' => SubackComes
      /\ (~Reading' /\ ret' = 0 /\ at = "subscribing") => SubackComes
  <2>1. CASE ReadHeader \/ ReadOn
    <3>1. b2c # <<>> /\ b2c' = Tail(b2c) /\ rx'.pkt = b2c[1].pkt /\ Reading'
      BY <1>0, <2>1, PartInStep DEF Reading
    <3> QED
      BY <1>0, <3>1, FewerSubacks
  <2>2. CASE ReadPacket
    <3>1. b2c # <<>> /\ b2c' \in {Tail(b2c), <<>>} /\ rx' = NoRx
      BY <1>0, <2>2, PacketInStep
    <3>2. at = "subscribing" => call = "subscribe"
      BY <1>0 DEF InPlace
    <3>3. (ret' = 0 /\ at = "subscribing") => rx.pkt.type = "SUBACK"
      BY <2>2, <3>2 DEF ReadPacket, SubackRead, Return
    <3> QED
      BY <1>0, <3>1, <3>3, FewerSubacks DEF SubackComes
  <2>3. CASE ReadTooLong \/ ReadTimesOut \/ ReadFails
    BY <1>0, <2>3, GivenUp, FewerSubacks
  <2> QED
    BY <2>1, <2>2, <2>3 DEF Read
<1>3. Answered' <=> Answered
  BY <1>1 DEF Answered
<1>4. Told'
  BY <1>0, <1>1, <1>2, <1>3 DEF Request, AskedOnce, Told
<1> QED
  BY <1>0, <1>1, <1>2, <1>4, NobodyAsks

\* The broker answers what it has read, and has read what was sent.
LEMMA BrokerKeepsRequest ==
  ASSUME Types, Request, prog # "caller", Environment, UNCHANGED progVars
  PROVE  Request'
<1>0. /\ UNCHANGED <<prog, at, exit, call, rx, ret, sent>> /\ b2c \in Seq(Units)
      /\ c2b \in Seq(ClientPackets) /\ broker \in BrokerStates /\ PacketsTyped
      /\ AskedOnce /\ Told /\ (Reading' <=> Reading)
  BY EnvironmentTypes DEF sessVars, progVars, Types, ReaderTyped, ConnectionTyped, PacketsTyped,
     Request, Reading
<1>1. ASSUME NEW t, Serves(t)
      PROVE  /\ Once(c2b')
             /\ t # "SUBSCRIBE" => (Asks(c2b') = {} <=> Asks(c2b) = {})
             /\ t = "SUBSCRIBE" => (Asks(c2b) # {} /\ Asks(c2b') = {})
  BY <1>0, <1>1, AsksTail DEF Serves, AskedOnce
<1>2. ASSUME Once(c2b'), Asks(c2b') = {} <=> Asks(c2b) = {}, broker'.owes = broker.owes,
             SubackComes' => SubackComes
      PROVE  Request'
  <2>1. Answered' <=> Answered
    BY <1>0, <1>2 DEF Answered
  <2>2. AskedOnce'
    BY <1>0, <1>2, <2>1 DEF AskedOnce
  <2>3. Told'
    BY <1>0, <2>1 DEF Told
  <2> QED
    BY <2>2, <2>3 DEF Request
<1>3. ASSUME NEW p \in Packets, BrokerSends(p), p.type # "SUBACK" PROVE SubackComes' => SubackComes
  BY <1>0, <1>3, OtherReply DEF BrokerSends
<1>4. ASSUME NEW v, BrokerSubscribe(v) PROVE Request'
  <2>1. /\ Asks(c2b) # {} /\ Asks(c2b') = {} /\ Once(c2b') /\ UNCHANGED b2c
    BY <1>1, <1>4 DEF BrokerSubscribe
  <2>2. ~Answered /\ ~SubackComes /\ Asks(sent) # {}
    BY <1>0, <2>1 DEF Answered, AskedOnce
  <2>3. AskedOnce'
    BY <1>0, <2>1, <2>2 DEF AskedOnce, SubackComes
  <2>4. Told'
    BY <1>0, <2>2 DEF Told
  <2> QED
    BY <2>3, <2>4 DEF Request
<1>5. CASE BrokerSuback
  <2>1. broker'.owes = "nothing" /\ broker.owes # "nothing" /\ UNCHANGED c2b
    BY <1>0, <1>5 DEF BrokerSuback, BrokerStates
  <2>2. Answered' /\ Asks(c2b') = {}
    BY <1>0, <2>1 DEF AskedOnce, Answered
  <2>3. AskedOnce' /\ Told'
    BY <1>0, <2>1, <2>2 DEF AskedOnce, Told
  <2> QED
    BY <2>3 DEF Request
<1>6. ASSUME NEW v \in {Yes, No}, BrokerConnect(v) PROVE Request'
  <2>1. Serves("CONNECT") /\ Reply(Packet("CONNACK", v)) /\ broker'.owes = broker.owes
    BY <1>0, <1>6 DEF BrokerConnect, BrokerStates
  <2>2. SubackComes' => SubackComes
    <3>1. Packet("CONNACK", v) \in Packets /\ Packet("CONNACK", v).type # "SUBACK"
      BY AnswerType DEF ServerTypes, Packet
    <3> QED
      BY <1>0, <2>1, <3>1, OtherReply DEF Reply, SubackComes
  <2> QED
    BY <1>1, <1>2, <2>1, <2>2
<1>7. ASSUME NEW t \in {"PUBLISH", "HUGE"}, BrokerMessage(t) PROVE Request'
  <2>1. UNCHANGED c2b /\ broker'.owes = broker.owes /\ Reply(Packet(t, broker.pub + 1))
    BY <1>0, <1>7 DEF BrokerMessage, BrokerStates
  <2>2. SubackComes' => SubackComes
    <3>1. broker.pub + 1 \in 0..MaxPublish
      BY <1>0, <1>7, MaxPublishAssumption DEF BrokerMessage, BrokerStates
    <3>2. Packet(t, broker.pub + 1) \in Packets /\ Packet(t, broker.pub + 1).type # "SUBACK"
      BY <3>1, PacketType, MaxPublishAssumption DEF ServerTypes, Packet
    <3> QED
      BY <1>0, <2>1, <3>2, OtherReply DEF Reply, SubackComes
  <2> QED
    BY <1>0, <1>2, <2>1, <2>2 DEF AskedOnce
<1>8. CASE BrokerPublish
  <2>1. Serves("PUBLISH") /\ Head(c2b).qos \in {0, 1, 2}
    BY <1>0, <1>8, ServesTypes DEF BrokerPublish, ClientPackets
  <2>2. broker'.owes = broker.owes
    <3>1. PICK h, k : broker' = [broker EXCEPT !.held = h, !.taken = k]
      BY <1>8 DEF BrokerPublish
    <3> QED
      BY <1>0, <3>1 DEF BrokerStates
  <2>3. SubackComes' => SubackComes
    <3>1. ASSUME NEW t \in {"PUBACK", "PUBREC"}, Reply(Packet(t, Yes)) PROVE SubackComes' => SubackComes
      <4>1. Packet(t, Yes) \in Packets /\ Packet(t, Yes).type # "SUBACK"
        BY AnswerType DEF ServerTypes, Packet
      <4> QED
        BY <1>0, <3>1, <4>1, OtherReply DEF Reply, SubackComes
    <3>2. UNCHANGED b2c \/ Reply(Packet("PUBACK", Yes)) \/ Reply(Packet("PUBREC", Yes))
      BY <1>8, <2>1 DEF BrokerPublish
    <3>3. CASE UNCHANGED b2c
      BY <1>0, <3>3 DEF SubackComes
    <3> QED
      BY <3>1, <3>2, <3>3
  <2> QED
    BY <1>1, <1>2, <2>1, <2>2, <2>3
<1>9. CASE BrokerBye
  <2>1. Serves("DISCONNECT") /\ broker'.owes = broker.owes /\ (SubackComes' => SubackComes)
    BY <1>0, <1>9 DEF BrokerBye, BrokerStates, SubackComes
  <2> QED
    BY <1>1, <1>2, <2>1
<1>10. CASE BrokerQuits
  <2>1. UNCHANGED c2b /\ broker'.owes = broker.owes /\ Reply(Packet("DISCONNECT", No))
    BY <1>0, <1>10 DEF BrokerQuits, BrokerStates, No
  <2>2. SubackComes' => SubackComes
    <3>1. Packet("DISCONNECT", No) \in Packets /\ Packet("DISCONNECT", No).type # "SUBACK"
      BY AnswerType DEF ServerTypes, Packet
    <3> QED
      BY <1>0, <2>1, <3>1, OtherReply DEF Reply, SubackComes
  <2> QED
    BY <1>0, <1>2, <2>1, <2>2 DEF AskedOnce
<1>11. CASE LinkBreaks
  <2>1. b2c' = <<>> /\ c2b' = <<>> /\ UNCHANGED broker
    BY <1>11 DEF LinkBreaks
  <2>2. Asks(c2b') = {} /\ Once(c2b') /\ (Answered => Answered') /\ (SubackComes' => SubackComes)
    BY <1>0, <2>1 DEF Asks, Once, Answered, SubackComes
  <2>3. AskedOnce' /\ Told'
    BY <1>0, <2>1, <2>2 DEF AskedOnce, Told
  <2> QED
    BY <2>3 DEF Request
<1>12. CASE BrokerChats
  <2>1. UNCHANGED c2b /\ broker'.owes = broker.owes /\ Reply(Packet("PINGRESP", No))
    BY <1>12 DEF BrokerChats, No
  <2>2. SubackComes' => SubackComes
    <3>1. Packet("PINGRESP", No) \in Packets /\ Packet("PINGRESP", No).type # "SUBACK"
      BY AnswerType DEF ServerTypes, Packet
    <3> QED
      BY <1>0, <2>1, <3>1, OtherReply DEF Reply, SubackComes
  <2> QED
    BY <1>0, <1>2, <2>1, <2>2 DEF AskedOnce
<1> QED
  BY <1>4, <1>5, <1>6, <1>7, <1>8, <1>9, <1>10, <1>11, <1>12 DEF Environment

\* The SUBSCRIBE: nobody has asked before.
LEMMA SubscribeKeepsRequest ==
  ASSUME PInv, Request, prog # "caller", Subscribe
  PROVE  Request'
<1> DEFINE p == ClientPacket("SUBSCRIBE", 0, 0)
<1>1. /\ at = "connecting" /\ at' = "subscribing" /\ prog' = prog /\ UNCHANGED <<b2c, broker>>
      /\ rx' = NoRx
      /\ TlsSend(p) \/ NothingSent
      /\ ~Reading' => ret' # 0
  BY DEF Subscribe, From, Goes, mqtt_subscribe, Return, Await, StaysOpen, Reading
<1>2. p \in ClientPackets /\ p.type = "SUBSCRIBE"
  <2>1. p \in ClientPackets
    BY ClientPacketType
  <2> QED
    BY <2>1 DEF ClientPacket
<1> HIDE DEF p
<1>3. /\ Asks(sent) = {} /\ Asks(c2b) = {} /\ broker.owes = "nothing" /\ ~SubackComes
  BY <1>1 DEF Request, Told, AskedOnce, Answered
<1>4. \/ NothingSent
      \/ /\ Asks(sent') = {Len(sent) + 1}
         /\ Asks(c2b') = {} \/ Asks(c2b') = {Len(c2b) + 1}
  <2>1. CASE TlsSend(p)
    <3>1. sent' = Append(sent, p) /\ c2b' \in {c2b, Append(c2b, p)}
      BY <2>1 DEF TlsSend
    <3>2. sent \in Seq(ClientPackets) /\ c2b \in Seq(ClientPackets)
      BY DEF PInv, Types, PacketsTyped
    <3> QED
      BY <1>2, <1>3, <3>1, <3>2, AsksAppend
  <2> QED
    BY <1>1, <2>1
<1>5. ~SubackComes'
  BY <1>1, <1>3, NoRxNoSuback DEF SubackComes
<1>6. AskedOnce'
  <2>1. CASE NothingSent
    BY <1>1, <1>3, <1>5, <2>1 DEF NothingSent, AskedOnce, Once
  <2> QED
    BY <1>1, <1>3, <1>4, <1>5, <2>1 DEF AskedOnce, Once
<1>7. Told'
  BY <1>1 DEF Told
<1> QED
  BY <1>6, <1>7 DEF Request

\* The connection is new: nothing has been asked, on it or before it.
LEMMA StartKeepsRequest ==
  ASSUME PInv, Request, prog # "caller", Start
  PROVE  Request'
<1> DEFINE p == ClientPacket("CONNECT", 0, 0)
<1>1. /\ at = "start" /\ at' = "connecting" /\ prog' = prog /\ b2c' \in {b2c, <<>>}
      /\ rx' = NoRx
      /\ TlsSend(p) \/ NothingSent
      /\ broker' \in {broker, [NoBroker EXCEPT !.phase = "idle"]}
  BY DEF Start, From, Goes, mqtt_connection, Return, Await, StaysOpen, tls_close
<1>2. p \in ClientPackets /\ p.type = "CONNECT"
  <2>1. p \in ClientPackets
    BY ClientPacketType
  <2> QED
    BY <2>1 DEF ClientPacket
<1> HIDE DEF p
<1>3. /\ Asks(sent) = {} /\ Asks(c2b) = {} /\ broker.owes = "nothing" /\ ~SubackComes
  BY <1>1 DEF Request, Told, AskedOnce, Answered
<1>4. Asks(sent') = {} /\ Asks(c2b') = {}
  BY <1>1, <1>2, <1>3, OtherSent DEF PInv, Types
<1>5. broker'.owes = "nothing"
  BY <1>1, <1>3 DEF NoBroker
<1>6. ~SubackComes'
  BY <1>1, <1>3, NoRxNoSuback DEF SubackComes
<1> QED
  BY <1>1, <1>4, <1>5, <1>6 DEF Request, AskedOnce, Told, Once

\* The program returns 0 only from where it has been told.
LEMMA LeavingKeepsRequest ==
  ASSUME PInv, Request, prog # "caller", NEW r, Leaves(r),
         (prog \in Subscribers /\ r = 0) => Answered
  PROVE  Request'
<1> DEFINE p == ClientPacket("DISCONNECT", 0, 0)
<1>1. /\ at' = "done" /\ exit' = r /\ UNCHANGED <<rx, broker, prog>> /\ b2c' \in {b2c, <<>>}
      /\ UNCHANGED <<sent, c2b>> \/ NothingSent \/ TlsSend(p)
  BY LeavesKeeps
<1>2. p \in ClientPackets /\ p.type # "SUBSCRIBE"
  <2>1. p \in ClientPackets
    BY ClientPacketType
  <2> QED
    BY <2>1 DEF ClientPacket
<1> HIDE DEF p
<1>3. Asks(sent') = Asks(sent) /\ Asks(c2b') = Asks(c2b)
  BY <1>1, <1>2, OtherSent DEF PInv, Types, NothingSent
<1>4. SubackComes' => SubackComes
  BY <1>1 DEF SubackComes
<1>5. Told'
  BY <1>1, <1>3 DEF Told, Answered
<1> QED
  BY <1>1, <1>3, <1>4, <1>5, NobodyAsks

LEMMA RequestKept ==
  ASSUME IInv, PInv, InPlace, InStep, Request, [Next]_vars
  PROVE  Request'
<1> SUFFICES ASSUME prog # "caller" PROVE Request'
  BY ProgramStays DEF Request
<1>0. prog' = prog /\ Types /\ PacketsTyped /\ Told
  BY ProgramStays DEF PInv, Types, Request
<1>1. CASE Read /\ UNCHANGED progVars
  BY <1>1, ReadKeepsRequest
<1>2. CASE Environment /\ UNCHANGED progVars
  BY <1>0, <1>2, BrokerKeepsRequest
<1>3. CASE Start
  BY <1>3, StartKeepsRequest
<1>4. CASE Subscribe
  BY <1>4, SubscribeKeepsRequest
<1>5. ASSUME NEW q \in Qos, Publish(q) PROVE Request'
  <2> DEFINE p == ClientPacket("PUBLISH", Clamp(q), Cardinality(Sent("PUBLISH")) + 1)
  <2>1. /\ at' = "sending" /\ UNCHANGED <<b2c, broker>> /\ rx' = NoRx
        /\ TlsSend(p) \/ NothingSent
    BY <1>5 DEF Publish, Goes, mqtt_data_send, Return, Await, StaysOpen
  <2>2. p \in ClientPackets /\ p.type # "SUBSCRIBE"
    <3>1. Cardinality(Sent("PUBLISH")) \in Nat /\ Clamp(q) \in 0..2
      BY <1>0, SentFinite, QosAssumption DEF Clamp
    <3> QED
      BY <3>1 DEF ClientPacket, ClientPackets
  <2> HIDE DEF p
  <2>3. Asks(sent') = Asks(sent) /\ Asks(c2b') = Asks(c2b)
    BY <1>0, <2>1, <2>2, OtherSent
  <2>4. (SubackComes' => SubackComes) /\ Told'
    BY <2>1, NoRxNoSuback DEF SubackComes, Told
  <2> QED
    BY <1>0, <2>1, <2>3, <2>4, NobodyAsks
<1>6. CASE Receive \/ ReceiveAgain
  <2>1. /\ at' = "receiving" /\ UNCHANGED <<b2c, broker, sent, c2b>> /\ rx' = NoRx
        /\ Answered
    BY <1>0, <1>6 DEF Receive, ReceiveAgain, From, Goes, mqtt_recv_message, Return, Await, StaysOpen,
       NothingSent, Told, Reading
  <2>2. (SubackComes' => SubackComes) /\ Told'
    BY <2>1, NoRxNoSuback DEF SubackComes, Told, Answered
  <2> QED
    BY <1>0, <2>1, <2>2, NobodyAsks
<1>7. CASE Shows
  <2>1. at' = "shown" /\ UNCHANGED <<b2c, broker, sent, c2b, rx>> /\ Answered
    BY <1>0, <1>7 DEF Shows, From, mqtt_message_free, netVars, Told
  <2>2. (SubackComes' => SubackComes) /\ Told'
    BY <2>1 DEF SubackComes, Told, Answered
  <2> QED
    BY <1>0, <2>1, <2>2, NobodyAsks
<1>8. CASE NotConnected
  <2>1. at' = "done" /\ exit' = -1 /\ UNCHANGED <<b2c, broker, sent, c2b, rx>>
    BY <1>8 DEF NotConnected, mqttVars, sessVars, netVars
  <2>2. (SubackComes' => SubackComes) /\ Told'
    BY <2>1 DEF SubackComes, Told
  <2> QED
    BY <1>0, <2>1, <2>2, NobodyAsks
<1>9. CASE PublisherLeaves
  BY <1>9, LeavingKeepsRequest DEF PublisherLeaves, From, Subscribers
<1>10. CASE NotSubscribed
  BY <1>10, LeavingKeepsRequest DEF NotSubscribed
<1>11. CASE OneShown \/ NoMessage
  <2>1. Answered
    BY <1>0, <1>11 DEF OneShown, NoMessage, From, Told
  <2> QED
    BY <1>11, <2>1, LeavingKeepsRequest DEF OneShown, NoMessage
<1>12. CASE UNCHANGED vars
  <2>1. UNCHANGED <<call, rx, ret, sent, b2c, c2b, broker, prog, at, exit>>
    BY <1>12 DEF vars, mqttVars, sessVars, netVars, progVars
  <2> QED
    BY <2>1 DEF Request, AskedOnce, Told, Answered, SubackComes, Once, Reading
<1> QED
  BY <1>1, <1>2, <1>3, <1>4, <1>5, <1>6, <1>7, <1>8, <1>9, <1>10, <1>11, <1>12, BuiltinSteps DEF Client

-----------------------------------------------------------------------------
(* What the programs do for their user. *)

ProgramInv ==
    /\ IInv /\ PInv /\ ProgramTyped
    /\ InPlace /\ NoneBegun /\ WholePackets(b2c) /\ InStep
    /\ Numbered /\ ShownSoFar /\ Request

LEMMA InitProgramInv == Init => ProgramInv
<1> SUFFICES ASSUME Init PROVE ProgramInv
  OBVIOUS
<1> USE DEF Init, MqttInit
<1>1. IInv /\ PInv
  BY InitIInv, InitPInv
<1>2. ProgramTyped
  <2>1. 0 \in 0..MaxCalls /\ <<>> \in Seq(0..MaxPublish)
    BY ProgramsAssumption
  <2> QED
    BY <2>1 DEF ProgramTyped
<1>3. ~Reading /\ rx.have = 0
  BY DEF Reading, NoRx
<1>4. InPlace /\ NoneBegun /\ WholePackets(b2c) /\ InStep
  BY <1>3, EmptyWhole DEF InPlace, NoneBegun, InStep
<1>5. broker.pub = 0 /\ broker.owes = "nothing" /\ Len(shown) = 0
  BY DEF NoBroker
<1>6. Numbered
  <2>1. ~InHand /\ Passed = 0
    BY <1>3, <1>5 DEF InHand, Passed
  <2> QED
    BY <1>3, <1>5, <2>1, NoneNumbered DEF Numbered, CompleteTo
<1>7. ShownSoFar
  BY <1>5 DEF ShownSoFar
<1>8. Request
  <2>1. Asks(sent) = {} /\ Asks(c2b) = {} /\ ~SubackComes
    BY NoRxNoSuback DEF Asks, SubackComes
  <2> QED
    BY <1>5, <2>1 DEF Request, AskedOnce, Told, Once
<1> QED
  BY <1>1, <1>2, <1>4, <1>6, <1>7, <1>8 DEF ProgramInv

LEMMA NextProgramInv == ProgramInv /\ [Next]_vars => ProgramInv'
<1> SUFFICES ASSUME ProgramInv, [Next]_vars PROVE ProgramInv'
  OBVIOUS
<1>0. /\ IInv /\ PInv /\ Types /\ ProgramTyped /\ InPlace /\ NoneBegun /\ WholePackets(b2c)
      /\ InStep /\ Numbered /\ ShownSoFar /\ Request
  BY DEF ProgramInv, PInv
<1>1. IInv' /\ NothingHeld'
  BY <1>0, NextPreserves DEF IInv
<1>2. PInv'
  BY <1>0, <1>1, NextKeepsOrder
<1>3. ProgramTyped'
  BY <1>0, ProgramSteps
<1>4. InPlace' /\ NoneBegun'
  BY <1>0, PlaceKept, NoneBegunKept
<1>5. WholePackets(b2c)'
  BY <1>0, WholeKept
<1>6. InStep'
  BY <1>0, InStepKept
<1>7. Numbered' /\ ShownSoFar'
  BY <1>0, NumberedKept, ShownKept
<1>8. Request'
  BY <1>0, RequestKept
<1> QED
  BY <1>1, <1>2, <1>3, <1>4, <1>5, <1>6, <1>7, <1>8 DEF ProgramInv

LEMMA ProgramInvariance == Spec => []ProgramInv
  BY InitProgramInv, NextProgramInv, PTL DEF Spec

\* mqtt_publisher and mqtt_subscriber never read the rest of a packet that
\* recv_mqtt_packet_tls gave up on: each of their failed reads is their last.
THEOREM ProgramsStayAligned == Spec => []Aligned
<1>1. ProgramInv => Aligned
  <2> SUFFICES ASSUME ProgramInv, prog # "caller", Reading, b2c # <<>>
               PROVE  Head(b2c).at = rx.have + 1
    BY DEF Aligned
  <2>1. b2c \in Seq(Units) /\ InStep
    BY DEF ProgramInv, PInv, Types, ReaderTyped
  <2> QED
    BY <2>1 DEF InStep, GoesOn
<1> QED
  BY <1>1, ProgramInvariance, PTL

\* What mqtt_subscriber prints is what the broker published from its SUBSCRIBE
\* on, in order and with no gap, whatever else arrives and whatever fails.
THEOREM MessagesInOrder == Spec => []ShownInOrder
<1>1. ProgramInv => ShownInOrder
  BY DEF ProgramInv, ShownSoFar, ShownInOrder
<1> QED
  BY <1>1, ProgramInvariance, PTL

\* mqtt_subscriber returns 0 only when the broker has taken its one SUBSCRIBE
\* and answered it.
THEOREM SuccessMeansSuback == Spec => []SuccessIsSubscribed
<1>1. ProgramInv => SuccessIsSubscribed
  <2> SUFFICES ASSUME ProgramInv, prog \in Subscribers, at = "done", exit = 0
               PROVE  /\ Cardinality(Sent("SUBSCRIBE")) = 1 /\ broker.phase \in {"up", "off"}
                      /\ broker.owes = "nothing"
                      /\ ~\E i \in DOMAIN c2b : c2b[i].type = "SUBSCRIBE"
    BY DEF SuccessIsSubscribed
  <2>1. prog # "caller" /\ Request /\ PInv
    BY DEF ProgramInv, Subscribers
  <2>2. Answered /\ Once(sent)
    BY <2>1 DEF Request, Told, AskedOnce
  <2>3. PICK i : i \in Asks(sent)
    BY <2>2 DEF Answered
  <2>4. Sent("SUBSCRIBE") = {i}
    BY <2>2, <2>3 DEF Sent, Asks, Once
  <2>5. Cardinality(Sent("SUBSCRIBE")) = 1
    BY <2>4, FS_Singleton
  <2>6. Len(sent) > 1
    <3>1. i \in 1..Len(sent) /\ Len(sent) \in Nat /\ i # 1
      BY <2>1, <2>3 DEF PInv, Types, PacketsTyped, FirstAndLast, Asks
    <3> QED
      BY <3>1
  <2>7. broker.phase \in {"up", "off"}
    BY <2>1, <2>6 DEF PInv, AcceptedFirst, Accepted
  <2> QED
    BY <2>2, <2>5, <2>7 DEF Answered, Asks
<1> QED
  BY <1>1, ProgramInvariance, PTL
=============================================================================
