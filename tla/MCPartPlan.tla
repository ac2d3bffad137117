----------------------------- MODULE MCPartPlan -----------------------------
(* PartPlan on scaled-down limits: a target of 16 MiB between a minimum of 5 MiB and a
   maximum of 64 MiB becomes 3 between 2 and 7; with 6 parts instead of 10 000, a file of
   more than 18 units needs parts above the target.                                     *)
EXTENDS PartPlan

SmallLimits  == [target |-> 3, minimum |-> 2, maximum |-> 7, parts |-> 6]
SmallTargets == 1..8
=============================================================================
