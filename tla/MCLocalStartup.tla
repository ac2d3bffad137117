--------------------------- MODULE MCLocalStartup ---------------------------
(* TLC instance of LocalStartup. *)
EXTENDS LocalStartup
=============================================================================
