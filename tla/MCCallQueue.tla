----------------------------- MODULE MCCallQueue ------------------------------
(***************************************************************************)
(* Instances of CallQueue for TLC.                                         *)
(***************************************************************************)
EXTENDS CallQueue

CONSTANTS t1, t2, s1, s2, c1, r1, r2

=============================================================================
