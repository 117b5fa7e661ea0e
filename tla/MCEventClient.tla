--------------------------- MODULE MCEventClient ---------------------------
(* Instances of EventClient for TLC.                                       *)
EXTENDS EventClient, TLC

=============================================================================
