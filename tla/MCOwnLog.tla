------------------------------- MODULE MCOwnLog -------------------------------
(***************************************************************************)
(* OwnLog for TLC: two or three goroutines of one host.                    *)
(***************************************************************************)
EXTENDS OwnLog, TLC

\* Goroutines are interchangeable.
WriterSymmetry == Permutations(Writers)

=============================================================================
