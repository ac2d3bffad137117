---------------------------- MODULE MCEventOutbox ----------------------------
(* The instance of EventOutbox that TLC checks. *)
EXTENDS EventOutbox
=============================================================================
