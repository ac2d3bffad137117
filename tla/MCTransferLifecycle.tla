------------------------ MODULE MCTransferLifecycle ------------------------
(* The instances of TransferLifecycle that TLC checks. *)
EXTENDS TransferLifecycle
=============================================================================
