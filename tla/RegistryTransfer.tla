-------------------------- MODULE RegistryTransfer --------------------------
(***************************************************************************)
(* What the Data Registry promises about the status of one transfer: the   *)
(* only way through its life.  A transfer is registered, given its         *)
(* manifest, finalized once, verified as often as it takes, and settled;   *)
(* an administrator alone takes back a verdict, by a retry of a failure or *)
(* by deletion.  Verification keeps this promise with one worker, and      *)
(* TransferLifecycle relies on it.                                         *)
(***************************************************************************)

VARIABLE status

Init == status \in {"none", "ready"}

Register == status \in {"none", "deleted"} /\ status' = "draft"
Describe == status = "draft" /\ status' = "ready"
Finalize == status = "ready" /\ status' = "finalizing"
Claim    == status = "finalizing" /\ status' = "verifying"
Requeue  == status = "verifying" /\ status' = "finalizing"
Verdict  == status = "verifying" /\ status' \in {"complete", "failed"}
Retry    == status = "failed" /\ status' = "finalizing"
Delete   == status # "none" /\ status' = "deleted"

Next ==
    \/ Register \/ Describe \/ Finalize \/ Claim
    \/ Requeue \/ Verdict \/ Retry \/ Delete

Spec == Init /\ [][Next]_status
=============================================================================
