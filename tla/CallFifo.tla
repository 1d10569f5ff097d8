------------------------------- MODULE CallFifo -------------------------------
(***************************************************************************)
(* What a peerQueue promises (net/queue/ff.go): the calls waiting for one  *)
(* peer, first in first out, at most one per thread.                       *)
(***************************************************************************)
EXTENDS Naturals, Sequences

LOCAL INSTANCE SequencesExt

CONSTANTS
  Threads,     \* thread ids
  Priorities   \* the priorities callers use

ASSUME CallFifoAssumption == Priorities \subseteq Nat

VARIABLE queue   \* the waiting entries, oldest first

\* An entry carries a call, identified with the priority it was scheduled
\* with, and the priority that later calls are compared to.
Entry == [tid : Threads, call : Priorities, priority : Priorities]

tids(q) == {q[i].tid : i \in 1 .. Len(q)}

position(q, t) == CHOOSE i \in 1 .. Len(q) : q[i].tid = t

\* Add appends a new entry, or replaces the call of the waiting one; the
\* entry keeps its place and the priority it was made with.
addTo(q, t, p) ==
  IF t \notin tids(q)
  THEN Append(q, [tid |-> t, call |-> p, priority |-> p])
  ELSE LET i == position(q, t)
       IN  IF q[i].priority < p THEN [q EXCEPT ![i].call = p] ELSE q

removeFrom(q, t) ==
  IF t \in tids(q) THEN RemoveAt(q, position(q, t)) ELSE q

FifoInit == queue = <<>>

FifoAdd(t, p) == queue' = addTo(queue, t, p)
FifoPop == queue # <<>> /\ queue' = Tail(queue)
FifoRemove(t) == queue' = removeFrom(queue, t)

FifoNext ==
  \/ \E t \in Threads, p \in Priorities : FifoAdd(t, p)
  \/ FifoPop
  \/ \E t \in Threads : FifoRemove(t)

FifoSpec == FifoInit /\ [][FifoNext]_queue

=============================================================================
