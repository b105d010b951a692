---------------------------- MODULE MCMqttClient ----------------------------
(* Two networks, the server moves, one round fails. *)
EXTENDS MqttClient
Rarely == {[networks |-> 2, moves |-> 1, rotations |-> 0, drops |-> 0, voice |-> 0,
            unbinds |-> 0, faults |-> 1]}
=============================================================================
