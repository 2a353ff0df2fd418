---------------------------- MODULE MCMqttPacket ----------------------------
(* MqttPacket for TLC: a byte has 8 values, 4 of them end a length, so that  *)
(* bodies of 4 and of 16 bytes cross the boundaries that 128 and 16384 do.   *)
EXTENDS MqttPacket

Filled(n, b) == [i \in 1..n |-> b]
Texts(n) == {Filled(k, b) : k \in 0..n, b \in {0, 7}}

\* Topics about as long as MaxPacket, the size of the array they are copied into.
LongTopics == {Filled(k, 7) : k \in MaxPacket - 6..MaxPacket + 1}

Packets ==
    [type : {"CONNACK"}, session : {0, 1}, reason : {0, 7}, props : Texts(6)]
    \cup [type : {"SUBACK"}, id : {1, 63}, reason : {0, 7}, props : Texts(6)]
    \cup [type : {"PUBLISH"}, qos : 0..2, id : {1, 9}, topic : Texts(4), props : Texts(5),
          payload : Texts(20)]
    \cup [type : {"PUBLISH"}, qos : 0..2, id : {1, 9}, topic : LongTopics, props : {<<>>},
          payload : Texts(2)]
    \cup [type : {"PINGRESP"}]
=============================================================================
