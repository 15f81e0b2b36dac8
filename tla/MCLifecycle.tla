------------------------------ MODULE MCLifecycle ------------------------------
(* Constants of the runs of Lifecycle.                                     *)
EXTENDS Lifecycle

CONSTANTS n1, n2
=============================================================================
