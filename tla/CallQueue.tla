------------------------------- MODULE CallQueue ------------------------------
(***************************************************************************)
(* The ffQueue of net/queue/ff.go for one peer: calls to the peer are      *)
(* scheduled per thread, spawned by a polling goroutine, or made directly. *)
(* Two mutexes protect it, and no operation holds both: mx the set of      *)
(* threads with a call in flight and the table of queues, pq the queue.    *)
(***************************************************************************)
EXTENDS CallFifo, FiniteSets

CONSTANTS
  Schedulers,   \* goroutines that call Schedule
  Callers,      \* goroutines that call Call
  Runners,      \* goroutines that can be spawned by pollQueue
  Nothing       \* the thread of a goroutine that is not working

ASSUME CallQueueAssumption ==
  /\ Nothing \notin Threads
  /\ Schedulers \cap Callers = {}
  /\ Schedulers \cap Runners = {}
  /\ Callers \cap Runners = {}

VARIABLES
  polled,     \* does the queue exist, with its polling goroutine
  overdue,    \* threads whose entry was created before the deadline bound
  inflight,   \* threads with a call in flight
  pc, tid,    \* per goroutine: its position and the thread it works for
  prt,        \* per scheduler: the priority of its call
  closed      \* has the polling goroutine returned

vars == <<queue, polled, overdue, inflight, pc, tid, prt, closed>>

Procs == Schedulers \cup Callers \cup Runners

TypeOK ==
  /\ queue \in Seq(Entry)
  /\ polled \in BOOLEAN
  /\ overdue \subseteq tids(queue)
  /\ inflight \subseteq Threads
  /\ pc \in [Procs -> {"idle", "add", "remove", "spawned", "call"}]
  /\ tid \in [Procs -> Threads \cup {Nothing}]
  /\ prt \in [Schedulers -> Priorities \cup {0}]
  /\ closed \in BOOLEAN

Init ==
  /\ FifoInit
  /\ polled = FALSE
  /\ overdue = {}
  /\ inflight = {}
  /\ pc = [g \in Procs |-> "idle"]
  /\ tid = [g \in Procs |-> Nothing]
  /\ prt = [g \in Schedulers |-> 0]
  /\ closed = FALSE

goto(g, step, t) ==
  /\ pc' = [pc EXCEPT ![g] = step]
  /\ tid' = [tid EXCEPT ![g] = t]

-----------------------------------------------------------------------------
(***************************************************************************)
(* Schedule.                                                               *)
(***************************************************************************)

\* Under mx: nothing to do while a call is in flight; otherwise the queue of
\* the peer is made if it has none.
scheduleSkip(g, t) ==
  /\ pc[g] = "idle"
  /\ t \in inflight
  /\ UNCHANGED vars

scheduleUnpolled(g, t, p) ==
  /\ pc[g] = "idle"
  /\ t \notin inflight
  /\ goto(g, "add", t)
  /\ prt' = [prt EXCEPT ![g] = p]
  /\ UNCHANGED <<queue, polled, overdue, inflight, closed>>

scheduleCheck(g, t, p) ==
  /\ pc[g] = "idle"
  /\ t \notin inflight
  /\ polled' = TRUE
  /\ goto(g, "add", t)
  /\ prt' = [prt EXCEPT ![g] = p]
  /\ UNCHANGED <<queue, overdue, inflight, closed>>

\* Under pq.
scheduleAppend(g) ==
  /\ pc[g] = "add"
  /\ queue' = Append(queue, [tid |-> tid[g], call |-> prt[g], priority |-> prt[g]])
  /\ goto(g, "idle", Nothing)
  /\ prt' = [prt EXCEPT ![g] = 0]
  /\ UNCHANGED <<polled, overdue, inflight, closed>>

scheduleAdd(g) ==
  /\ pc[g] = "add"
  /\ FifoAdd(tid[g], prt[g])
  /\ goto(g, "idle", Nothing)
  /\ prt' = [prt EXCEPT ![g] = 0]
  /\ UNCHANGED <<polled, overdue, inflight, closed>>

-----------------------------------------------------------------------------
(***************************************************************************)
(* Call.                                                                   *)
(***************************************************************************)

\* Under mx: mark the thread, and see whether the peer has a queue.
callMark(g, t) ==
  /\ pc[g] = "idle"
  /\ inflight' = inflight \cup {t}
  /\ goto(g, IF polled THEN "remove" ELSE "call", t)
  /\ UNCHANGED <<queue, polled, overdue, prt, closed>>

\* Under pq: the waiting call, if any, is superseded.
callRemove(g) ==
  /\ pc[g] = "remove"
  /\ FifoRemove(tid[g])
  /\ overdue' = overdue \ {tid[g]}
  /\ goto(g, "call", tid[g])
  /\ UNCHANGED <<polled, inflight, prt, closed>>

\* The call has returned, with or without an error: under mx, unmark.
returnKeepsMark(g) ==
  /\ pc[g] = "call"
  /\ goto(g, "idle", Nothing)
  /\ UNCHANGED <<queue, polled, overdue, inflight, prt, closed>>

return(g) ==
  /\ pc[g] = "call"
  /\ inflight' = inflight \ {tid[g]}
  /\ goto(g, "idle", Nothing)
  /\ UNCHANGED <<queue, polled, overdue, prt, closed>>

-----------------------------------------------------------------------------
(***************************************************************************)
(* pollQueue.                                                              *)
(***************************************************************************)

\* An entry gets older than the deadline.  The oldest entries do so first.
Age ==
  /\ \E i \in 1 .. Len(queue) :
       /\ overdue = {queue[k].tid : k \in 1 .. i - 1}
       /\ overdue' = overdue \cup {queue[i].tid}
  /\ UNCHANGED <<queue, polled, inflight, pc, tid, prt, closed>>

\* The loop pops and spawns at least one entry, and goes on after an overdue
\* one; after any other it may stop, at random.
popsOne(n) == n = 1

pops(n) == queue[n].tid \notin overdue \/ n = Len(queue)

\* A tick, under pq: n entries are popped, each with a goroutine of its own.
poll ==
  /\ polled /\ ~closed
  /\ \E n \in 1 .. Len(queue), gs \in SUBSET {g \in Runners : pc[g] = "idle"} :
       /\ pops(n)
       /\ Cardinality(gs) = n
       /\ \E f \in [gs -> {queue[i].tid : i \in 1 .. n}] :
            /\ \A a, b \in gs : f[a] = f[b] => a = b
            /\ pc' = [g \in Procs |-> IF g \in gs THEN "spawned" ELSE pc[g]]
            /\ tid' = [g \in Procs |-> IF g \in gs THEN f[g] ELSE tid[g]]
       /\ queue' = SubSeq(queue, n + 1, Len(queue))
       /\ overdue' = overdue \cap tids(queue')
  /\ UNCHANGED <<polled, inflight, prt, closed>>

\* The spawned goroutine marks the thread, under mx, and makes the call.
spawned(g) ==
  /\ pc[g] = "spawned"
  /\ inflight' = inflight \cup {tid[g]}
  /\ goto(g, "call", tid[g])
  /\ UNCHANGED <<queue, polled, overdue, prt, closed>>

\* The context is done and pollQueue's select has seen it: pollQueue returns.
Close ==
  /\ ~closed
  /\ closed' = TRUE
  /\ UNCHANGED <<queue, polled, overdue, inflight, pc, tid, prt>>

Next ==
  \/ \E g \in Schedulers :
       \/ \E t \in Threads : scheduleSkip(g, t)
       \/ \E t \in Threads, p \in Priorities : scheduleCheck(g, t, p)
       \/ scheduleAdd(g)
  \/ \E g \in Callers : (\E t \in Threads : callMark(g, t)) \/ callRemove(g)
  \/ \E g \in Runners : spawned(g)
  \/ \E g \in Callers \cup Runners : return(g)
  \/ Age
  \/ poll
  \/ Close

Spec == Init /\ [][Next]_vars

\* The ticker ticks, goroutines run and calls return: they dial with a timeout.
FairSpec ==
  /\ Spec
  /\ WF_vars(poll)
  /\ \A g \in Callers : WF_vars(callRemove(g)) /\ WF_vars(return(g))
  /\ \A g \in Runners : WF_vars(spawned(g)) /\ WF_vars(return(g))

-----------------------------------------------------------------------------
(***************************************************************************)
(* Properties.                                                             *)
(***************************************************************************)

working(t) == {g \in Callers \cup Runners : tid[g] = t}

\* NewFFQueue: at every moment only one call for the peer and thread is in the
\* queue, although Schedule decides under one mutex and adds under the other.
OnePerThread ==
  \A i, j \in 1 .. Len(queue) : queue[i].tid = queue[j].tid => i = j

\* A thread is marked in flight only while a goroutine works for it, so it is
\* never kept from being scheduled by a call that is over.  Several goroutines
\* may work for it, and the first one to return unmarks it for all.
MarkHasWorker ==
  \A t \in inflight : working(t) # {}

\* pollQueue: every call that is overdue at a tick is spawned by that tick, so
\* no random break of its loop leaves one waiting.
OverdueSpawned ==
  [][(\E g \in Runners : pc[g] = "idle" /\ pc'[g] = "spawned") => overdue' = {}]_vars

\* A call that Schedule queued is made, unless pollQueue has returned: it is spawned, or a
\* direct call for its thread takes its place.
WaitingCallIsMade ==
  \A t \in Threads : t \in tids(queue) ~> (closed \/ \E g \in working(t) : pc[g] = "call")

=============================================================================
