---------------------------- MODULE MCDaemonEvents ----------------------------
(* Model checking of DaemonEvents: two sources, two subscriptions.          *)
EXTENDS DaemonEvents

=============================================================================
