------------------------------ MODULE MCTransfer ------------------------------
(* Constants of the runs of Transfer.                                      *)
EXTENDS Transfer

CONSTANTS A, B
=============================================================================
