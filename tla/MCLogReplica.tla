----------------------------- MODULE MCLogReplica -----------------------------
(***************************************************************************)
(* LogReplica for TLC: two or three goroutines, a log of a few records.    *)
(***************************************************************************)
EXTENDS LogReplica, TLC

\* Goroutines are interchangeable.
PutterSymmetry == Permutations(Putters)

=============================================================================
