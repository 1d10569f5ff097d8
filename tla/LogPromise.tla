------------------------------ MODULE LogPromise ------------------------------
(***************************************************************************)
(* What a replica of a single-writer log promises to the thread: its head  *)
(* follows the writer's log one record at a time and counts the records,   *)
(* and the application sees the records in log order, none of them twice.  *)
(* Records that are never handed to the application are possible: the code *)
(* moves the head first.  This is the abstract specification that          *)
(* LogReplica, the interleaved putRecords calls, implements.               *)
(***************************************************************************)
EXTENDS Naturals, Sequences

VARIABLES
  written,  \* number of records in the writer's log
  head,     \* the replica's head: position and counter
  applied   \* the records handed to the application so far

vars == <<written, head, applied>>

Init ==
  /\ written = 0
  /\ head = [id |-> 0, counter |-> 0]
  /\ applied = <<>>

\* The writer appends a record.
Append1 ==
  /\ written' = written + 1
  /\ UNCHANGED <<head, applied>>

\* The replica takes the record after its head.
Advance ==
  /\ head.id < written
  /\ head' = [id |-> head.id + 1, counter |-> head.id + 1]
  /\ UNCHANGED <<written, applied>>

\* The application handles the record at the head, which it has not seen,
\* and neither has it seen a later one.
Apply ==
  /\ \A i \in 1 .. Len(applied) : applied[i] < head.id
  /\ applied' = Append(applied, head.id)
  /\ UNCHANGED <<written, head>>

Next == Append1 \/ Advance \/ Apply

Spec == Init /\ [][Next]_vars

=============================================================================
