------------------------------ MODULE MCLogSync -------------------------------
(***************************************************************************)
(* Instances of LogSync for TLC.                                           *)
(***************************************************************************)
EXTENDS LogSync

CONSTANTS a, b

=============================================================================
