---------------------------- MODULE MqttPrograms ----------------------------
(***************************************************************************)
(* What runs on the session API: mqtt_publisher and mqtt_subscriber of     *)
(* mqtt/mqtt_client.c as main.c runs them, one per process, and a caller   *)
(* of its own who uses the API as mqtt_client.h says.                      *)
(***************************************************************************)
EXTENDS MqttClient

CONSTANTS
    Programs,  \* which of them the process may be, a subset of ProgramNames
    MaxCalls   \* bound: calls that the caller of its own makes

ProgramNames == {"publisher", "subscriber", "subscriber_once", "caller"}

ASSUME ProgramsAssumption == Programs \subseteq ProgramNames /\ MaxCalls \in Nat

VARIABLES
    prog,   \* the program
    at,     \* where it stands: the call it made last, or "done"
    exit,   \* what it returned
    shown,  \* history: the messages printed or handed to main, in order
    calls   \* history: calls the caller of its own has made

progVars == <<prog, at, exit, shown, calls>>
vars == <<mqttVars, progVars>>

Init ==
    /\ MqttInit
    /\ prog \in Programs /\ at = "start" /\ exit = 0 /\ shown = <<>> /\ calls = 0

\* The process goes on only when its call has returned.
From(p, a) == prog \in p /\ at = a /\ call = "none"
Goes(a) == at' = a /\ UNCHANGED <<prog, exit, shown, calls>>
\* mqtt_disconnect, and the program returns r.
Leaves(r) == mqtt_disconnect /\ at' = "done" /\ exit' = r /\ UNCHANGED <<prog, shown, calls>>

Builtin == {"publisher", "subscriber", "subscriber_once"}
Subscribers == {"subscriber", "subscriber_once"}

Start == From(Builtin, "start") /\ mqtt_connection /\ Goes("connecting")

\* mqtt_connection failed: the session is closed already.
NotConnected ==
    /\ From(Builtin, "connecting") /\ ret # 0
    /\ at' = "done" /\ exit' = -1
    /\ UNCHANGED <<mqttVars, prog, shown, calls>>

-----------------------------------------------------------------------------
(* mqtt_publisher *)

Publish(q) ==
    /\ From({"publisher"}, "connecting") /\ ret = 0
    /\ mqtt_data_send(q) /\ Goes("sending")

PublisherLeaves == From({"publisher"}, "sending") /\ Leaves(ret)

-----------------------------------------------------------------------------
(* mqtt_subscriber, loop = 1 ("subscriber") and loop = 0 *)

Subscribe ==
    /\ From(Subscribers, "connecting") /\ ret = 0
    /\ mqtt_subscribe /\ Goes("subscribing")

\* Faulty variant: an early return forgets the session.
NotSubscribed_returns ==
    /\ From(Subscribers, "subscribing") /\ ret # 0
    /\ at' = "done" /\ exit' = -1 /\ UNCHANGED <<mqttVars, prog, shown, calls>>

NotSubscribed == From(Subscribers, "subscribing") /\ ret # 0 /\ Leaves(-1)

Receive ==
    /\ From(Subscribers, "subscribing") /\ ret = 0
    /\ mqtt_recv_message /\ Goes("receiving")

\* A message: printed and freed by the loop, or by main after it.
Shows ==
    /\ From(Subscribers, "receiving") /\ ret = 0
    /\ mqtt_message_free /\ shown' = Append(shown, out)
    /\ at' = "shown" /\ UNCHANGED <<prog, exit, calls>>

ReceiveAgain == From({"subscriber"}, "shown") /\ mqtt_recv_message /\ Goes("receiving")

OneShown == From({"subscriber_once"}, "shown") /\ Leaves(0)

\* Faulty variant: the loop goes on after a time-out.
NoMessage_again ==
    /\ From(Subscribers, "receiving") /\ ret # 0
    /\ IF ret = 1 THEN mqtt_recv_message /\ Goes("receiving") ELSE Leaves(-1)

\* A time-out ends the program well, an error badly.
NoMessage ==
    /\ From(Subscribers, "receiving") /\ ret # 0
    /\ Leaves(IF ret = 1 THEN 0 ELSE -1)

-----------------------------------------------------------------------------
(* A caller of its own: connects once, then any call in any order, a message *)
(* asked for only after a subscription that worked, and freed before the next. *)

\* What the caller knows: "any" call may come, or "subscribed" as well.
Standing == IF at = "asked" THEN (IF ret = 0 THEN "subscribed" ELSE "any") ELSE at

Calling ==
    /\ prog = "caller" /\ at \in {"any", "asked", "subscribed"} /\ call = "none"
    /\ calls < MaxCalls /\ calls' = calls + 1 /\ UNCHANGED <<prog, exit, shown>>

CallerConnects ==
    /\ From({"caller"}, "start") /\ mqtt_connection /\ Goes("any")
CallerSends(q) == Calling /\ mqtt_data_send(q) /\ at' = Standing
\* mqtt_client.h:161 "初回1回だけ呼ぶ"
CallerSubscribes ==
    Calling /\ Sent("SUBSCRIBE") = {} /\ mqtt_subscribe /\ at' = "asked"
CallerReceives ==
    /\ Calling /\ Standing = "subscribed" /\ "msg" \notin heap
    /\ mqtt_recv_message /\ at' = "subscribed"
CallerFrees ==
    /\ From({"caller"}, "subscribed") /\ "msg" \in heap
    /\ mqtt_message_free /\ shown' = Append(shown, out)
    /\ UNCHANGED <<prog, at, exit, calls>>
CallerDisconnects == Calling /\ mqtt_disconnect /\ at' = Standing

-----------------------------------------------------------------------------
Client ==
    \/ Read /\ UNCHANGED progVars
    \/ Start \/ NotConnected
    \/ \E q \in Qos : Publish(q)
    \/ PublisherLeaves
    \/ Subscribe \/ NotSubscribed \/ Receive \/ Shows \/ ReceiveAgain \/ OneShown \/ NoMessage

Caller ==
    \/ \E q \in Qos : CallerSends(q)
    \/ CallerConnects \/ CallerSubscribes \/ CallerReceives \/ CallerFrees \/ CallerDisconnects

Next ==
    \/ Client
    \/ Caller
    \/ Environment /\ UNCHANGED progVars

Spec == Init /\ [][Next]_vars

\* The process is scheduled, and a poll that waits for the broker ends: the
\* broker and the network owe it nothing.
FairSpec == Spec /\ WF_vars(Client)

-----------------------------------------------------------------------------
\* Type invariant.
TypeOK ==
    /\ MqttTypeOK
    /\ prog \in Programs /\ exit \in {-1, 0, 1} /\ calls \in 0..MaxCalls
    /\ at \in {"start", "connecting", "sending", "subscribing", "receiving", "shown",
               "any", "asked", "subscribed", "done"}
    /\ \A i \in DOMAIN shown : shown[i] \in 0..MaxPublish

\* A program that has ended holds nothing: no session, no buffer, no message,
\* whichever of its calls failed and why.
CleanExit == at = "done" => ~open /\ heap = {} /\ call = "none"

\* What the subscriber prints is what the broker published, in order and from
\* the first message on: nothing is skipped while it waits for the SUBACK,
\* after a packet that is not a PUBLISH, or behind a packet it gave up on.
ShownInOrder == prog # "caller" =>
    /\ Len(shown) <= broker.pub
    /\ \A i \in DOMAIN shown : shown[i] = i

\* A program never reads the rest of a packet it gave up on as a new packet.
Aligned == (prog # "caller" /\ Reading /\ b2c # <<>>) => Head(b2c).at = rx.have + 1

\* mqtt_subscriber returns 0 only when the broker has answered its SUBSCRIBE.
SuccessIsSubscribed ==
    (prog \in Subscribers /\ at = "done" /\ exit = 0) =>
        /\ Cardinality(Sent("SUBSCRIBE")) = 1 /\ broker.phase \in {"up", "off"}
        /\ broker.owes = "nothing"
        /\ ~\E i \in DOMAIN c2b : c2b[i].type = "SUBSCRIBE"

\* From some point on no packet of the broker arrives.
BrokerFallsSilent == <>[][Len(b2c') <= Len(b2c)]_b2c

\* Each program ends once the broker has fallen silent, whatever the broker and the
\* network do before that and whatever they leave undone: no call waits twice for
\* what does not come.  A broker that never falls silent keeps the subscriber's
\* loop, or one call of mqtt_recv_message that skips packets, going for ever.
Terminates == BrokerFallsSilent => ((prog # "caller") ~> (at = "done"))

\* mqtt_client.h:180 "SUBSCRIBE済みのセッションに対して繰り返し呼び出す": what
\* repeated calls of mqtt_recv_message hand out are messages of the broker.
ReceivedIsPublished == \A i \in DOMAIN shown : shown[i] \in 1..broker.pub

\* mqtt_client.h:150-151 "QoSレベル 0/1/2", "@return 0=成功": a message for which
\* mqtt_data_send returned 0 and whose PUBLISH the broker has processed is one
\* the broker has taken as a message of its own.
EachIsTaken == broker.phase = "up" =>
    \A i \in Sent("PUBLISH") :
        sent[i].num \in sure =>
            \/ sent[i].num \in broker.taken
            \/ \E j \in DOMAIN c2b : c2b[j] = sent[i]

\* mqtt_client.h:167 "@return 0=成功, 負=エラー": a subscriber whose program
\* succeeded had a subscription.
SuccessIsGranted ==
    (prog \in Subscribers /\ at = "done" /\ exit = 0) => broker.sub
=============================================================================
