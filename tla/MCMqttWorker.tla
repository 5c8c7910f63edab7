----------------------------- MODULE MCMqttWorker -----------------------------
(* Model checking of MqttWorker.                                            *)
EXTENDS MqttWorker

=============================================================================
