------------------------------ MODULE MCPullLoop ------------------------------
(***************************************************************************)
(* Instances of PullLoop for TLC.                                          *)
(***************************************************************************)
EXTENDS PullLoop

CONSTANTS t1, t2, p1, p2

\* Each thread is shared with a peer of its own.
SharedWith == [t \in Threads |-> IF t = t1 THEN {p1} ELSE {p2}]

=============================================================================
