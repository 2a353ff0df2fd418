------------------------------- MODULE MCMqtt -------------------------------
(* MqttPrograms for TLC. *)
EXTENDS MqttPrograms

\* What an int qos can be: each level, and a value out of range on either side.
AnyQos == -1..3
AllFaults == FaultKinds
=============================================================================
