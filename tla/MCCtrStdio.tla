------------------------------ MODULE MCCtrStdio ------------------------------
(* Instances of CtrStdio for TLC. *)
EXTENDS CtrStdio, TLC
=============================================================================
