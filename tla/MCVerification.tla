--------------------------- MODULE MCVerification ---------------------------
(* The instances of Verification that TLC checks. *)
EXTENDS Verification, TLC

(* Transfers, objects and workers are interchangeable: the specification compares
   them only for equality.  Used by the runs without liveness properties.        *)
Symmetry == Permutations(Transfers) \cup Permutations(Objects) \cup Permutations(Workers)
=============================================================================
