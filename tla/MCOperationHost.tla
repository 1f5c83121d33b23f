-------------------------- MODULE MCOperationHost ---------------------------
(* Instances of OperationHost for TLC.                                     *)
EXTENDS OperationHost

CONSTANTS c1, c2
=============================================================================
