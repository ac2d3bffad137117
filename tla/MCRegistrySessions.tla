------------------------- MODULE MCRegistrySessions -------------------------
(* The instances of RegistrySessions that TLC checks. *)
EXTENDS RegistrySessions
=============================================================================
