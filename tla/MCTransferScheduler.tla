------------------------ MODULE MCTransferScheduler ------------------------
(* Instances of TransferScheduler for TLC.                                 *)
EXTENDS TransferScheduler

AnyKind == {"Copy", "Move"}
OnlyCopy == {"Copy"}
=============================================================================
