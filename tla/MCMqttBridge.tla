---------------------------- MODULE MCMqttBridge ----------------------------
(* One commandable point and one that is not, over two connections. *)
EXTENDS MqttBridge

MCPoints == {"setpoint", "command"}
MCCommandable == {"command"}

=============================================================================
