-------------------------- MODULE MCEventBroadcaster --------------------------
(* Instances of EventBroadcaster for TLC.                                  *)
EXTENDS EventBroadcaster

CONSTANTS p1, p2, d1, d2

=============================================================================
