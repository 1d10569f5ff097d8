------------------------------ MODULE LogReplica ------------------------------
(***************************************************************************)
(* One host's replica of one log of a thread, and the goroutines that run  *)
(* net.putRecords on it concurrently (net/net.go).                         *)
(*                                                                         *)
(* The writer of the log appends records 1, 2, 3, ...; record r links to   *)
(* record r - 1, and 0 stands for cid.Undef.  A record is replicated in    *)
(* two pieces: its envelope, kept in `blocks` (what isKnown tests), and    *)
(* its event, header and body, kept in `internals`.                        *)
(*                                                                         *)
(* putRecords loads the chain of missing records without any lock, then    *)
(* takes the thread's semaphore, looks at the head again, and processes    *)
(* the chain record by record.  Every store operation is a step of its     *)
(* own, because readers of the head do not take the semaphore and a crash  *)
(* can fall between any two of them.                                       *)
(***************************************************************************)
EXTENDS Naturals, Sequences

CONSTANTS
  Putters,       \* goroutines that may run putRecords on this log
  Nobody,        \* the value of the semaphore when it is free
  MaxRec,        \* bound on the number of records the writer creates
  AppConnected,  \* is an application connected to the thread (getConnector)
  CanRead,       \* does the host have the thread's read key
  LegacyPeers,   \* do some puts come without a counter (thread.CounterUndef)
  Faults         \* which failures may happen

FaultKinds ==
  {"read", "reject", "sethead", "handler", "add", "bus", "crash", "short"}

ASSUME ReplicaAssumption ==
  /\ MaxRec \in Nat
  /\ Nobody \notin Putters
  /\ AppConnected \in BOOLEAN
  /\ CanRead \in BOOLEAN
  /\ LegacyPeers \in BOOLEAN
  /\ Faults \subseteq FaultKinds

CounterUndef == 0

Record == 1 .. MaxRec

LogHead == [id : 0 .. MaxRec, counter : Nat]

HeadUndef == [id |-> 0, counter |-> CounterUndef]

VARIABLES
  written,      \* number of records the writer has created so far
  head,         \* the log's head in the logstore
  blocks,       \* records whose envelope is in the local blockstore
  internals,    \* records whose event, header and body are in the blockstore
  sema,         \* holder of the thread's update semaphore, or Nobody
  pc,           \* where each goroutine is in putRecords
  job,          \* the local variables of each goroutine's putRecords
  applied,      \* history: records the application has handled, in order
  sent,         \* history: records broadcast on the event bus, in order
  interrupted   \* history: records whose processing stopped after SetHead

vars == <<written, head, blocks, internals, sema, pc, job, applied, sent,
          interrupted>>

(***************************************************************************)
(* The local state of a putRecords call: the head loadRecords saw, the     *)
(* part next .. last of the chain still to be processed, and               *)
(* updatedCounter.                                                         *)
(***************************************************************************)
Job == [head : LogHead, next : 0 .. MaxRec + 1, last : 0 .. MaxRec, counter : Nat]

NoJob == [head |-> HeadUndef, next |-> 0, last |-> 0, counter |-> 0]

\* The positions in putRecords at which a goroutine holds the semaphore.
Before == {"validate", "sethead"}
After  == {"handle", "add", "send"}
Inside == Before \cup After

TypeOK ==
  /\ written \in 0 .. MaxRec
  /\ head \in LogHead
  /\ blocks \subseteq Record
  /\ internals \subseteq Record
  /\ sema \in Putters \cup {Nobody}
  /\ pc \in [Putters -> {"idle", "acquire"} \cup Inside]
  /\ job \in [Putters -> Job]
  /\ applied \in Seq(Record)
  /\ sent \in Seq(Record)
  /\ interrupted \subseteq Record

Init ==
  /\ written = 0
  /\ head = HeadUndef
  /\ blocks = {}
  /\ internals = {}
  /\ sema = Nobody
  /\ pc = [p \in Putters |-> "idle"]
  /\ job = [p \in Putters |-> NoJob]
  /\ applied = <<>>
  /\ sent = <<>>
  /\ interrupted = {}

-----------------------------------------------------------------------------
(***************************************************************************)
(* The environment: the writer, and the DAG service.                       *)
(***************************************************************************)

\* The writer, on its own host, appends a record.
Write ==
  /\ written < MaxRec
  /\ written' = written + 1
  /\ UNCHANGED <<head, blocks, internals, sema, pc, job, applied, sent,
                 interrupted>>

\* A GetRecord call (net API, or the bridging loop of a load that fails
\* later) reads an envelope through the DAG service.  When the block is not
\* local the exchange fetches it, which puts it into the local blockstore.
getRecord(r) ==
  /\ r \in 1 .. written
  /\ r \notin blocks
  /\ blocks' = blocks \cup {r}
  /\ UNCHANGED <<written, head, internals, sema, pc, job, applied, sent,
                 interrupted>>

-----------------------------------------------------------------------------
(***************************************************************************)
(* putRecords.                                                             *)
(*                                                                         *)
(* A call receives the consecutive records first .. last and a counter:    *)
(*  - PushRecord, and publishing over pubsub: one record with its own      *)
(*    position as counter;                                                 *)
(*  - a GetRecords reply: the counter is the sender's head counter, read   *)
(*    before the records were collected, so it is at most `last`, unless   *)
(*    the sender could not read one of its records and cut the reply short *)
(*    (the "short" fault);                                                 *)
(*  - AddRecord and peers of an older version: CounterUndef.               *)
(***************************************************************************)
Request ==
  {q \in [first : 1 .. written, last : 1 .. written, counter : 0 .. written] :
     /\ q.first <= q.last
     /\ q.counter <= q.last \/ "short" \in Faults
     /\ q.counter = CounterUndef => LegacyPeers}

\* loadRecords does not return early: the last record is not known yet
\* (no counter), or the counter is ahead of the local head.
isNewsAlways(q) == q.counter = CounterUndef \/ q.counter > head.counter

isNews(q) ==
  IF q.counter = CounterUndef
  THEN q.last \notin blocks
  ELSE q.counter > head.counter

\* First record of the chain: walking back from `last`, the chain stops at
\* the current head, or at the start of the log when the head is not met.
chainStart(q) == IF head.id <= q.last THEN head.id + 1 ELSE 1

\* Load the missing records: those provided, and those that bridge the gap
\* between the first one provided and the head, which come through the DAG
\* service.  The internal blocks of the whole chain are stored; envelopes
\* are left to the processing loop, save for the bridged ones, which the
\* exchange has stored.
loadRecords(p, q) ==
  /\ pc[p] = "idle"
  /\ isNews(q)
  /\ chainStart(q) <= q.last
  /\ blocks' = blocks \cup (chainStart(q) .. q.first - 1)
  /\ internals' = internals \cup (chainStart(q) .. q.last)
  /\ job' = [job EXCEPT ![p] = [head |-> head, next |-> chainStart(q),
                                last |-> q.last, counter |-> 0]]
  /\ pc' = [pc EXCEPT ![p] = "acquire"]
  /\ UNCHANGED <<written, head, sema, applied, sent, interrupted>>

\* Reading or storing the internal blocks fails after a part of the chain.
loadError(p, q) ==
  /\ pc[p] = "idle"
  /\ "read" \in Faults
  /\ isNews(q)
  /\ blocks' = blocks \cup (chainStart(q) .. q.first - 1)
  /\ \E m \in chainStart(q) .. q.last :
       internals' = internals \cup (chainStart(q) .. m - 1)
  /\ UNCHANGED <<written, head, sema, pc, job, applied, sent, interrupted>>

\* Nothing to do: the records are known, or the chain is empty because its
\* last record is the head.
ignoreRecords(p, q) ==
  /\ pc[p] = "idle"
  /\ ~isNews(q) \/ chainStart(q) > q.last
  /\ UNCHANGED vars

\* Where the processing of a record starts: the application's verdict is
\* only asked for when one is connected and the body can be read.
firstStep == IF AppConnected /\ CanRead THEN "validate" ELSE "sethead"

\* Acquire the semaphore and go on with the chain at `next`, counting from
\* `base`, or return, which releases the semaphore at once.
recheckWith(p, next, base, quit) ==
  /\ pc[p] = "acquire"
  /\ sema = Nobody
  /\ IF quit
     THEN /\ pc' = [pc EXCEPT ![p] = "idle"]
          /\ job' = [job EXCEPT ![p] = NoJob]
          /\ UNCHANGED sema
     ELSE /\ pc' = [pc EXCEPT ![p] = firstStep]
          /\ job' = [job EXCEPT ![p].next = next, ![p].counter = base]
          /\ sema' = p
  /\ UNCHANGED <<written, head, blocks, internals, applied, sent, interrupted>>

\* What the check of the head could get wrong.
recheckNothing(p) ==
  recheckWith(p, job[p].next, job[p].head.counter, FALSE)

recheckStaleCounter(p) ==
  LET j == job[p]  moved == head.id # j.head.id IN
  recheckWith(p, IF moved THEN head.id + 1 ELSE j.next, j.head.counter,
              moved /\ head.id \notin j.next .. j.last - 1)

recheckKeepsHead(p) ==
  LET j == job[p]  moved == head.id # j.head.id IN
  recheckWith(p, IF moved THEN head.id ELSE j.next,
              IF moved THEN head.counter ELSE j.head.counter,
              moved /\ head.id \notin j.next .. j.last)

\* Check the head again.  If another goroutine has moved it, fast-forward the
\* chain past it; if it is not in the chain, or nothing is left, return.
recheckHead(p) ==
  LET j     == job[p]
      moved == head.id # j.head.id
      next  == IF moved THEN head.id + 1 ELSE j.next
      base  == IF moved THEN head.counter ELSE j.head.counter
      quit  == moved /\ head.id \notin j.next .. j.last - 1
  IN recheckWith(p, next, base, quit)

\* putRecords returns: the deferred Release runs.
return(p) ==
  /\ sema' = Nobody
  /\ pc' = [pc EXCEPT ![p] = "idle"]
  /\ job' = [job EXCEPT ![p] = NoJob]

\* Reading the head, a key or a block fails under the semaphore, before the
\* head is moved: the call returns an error.
readError(p) ==
  /\ pc[p] = "validate" \/ (pc[p] = "acquire" /\ sema = Nobody)
  /\ "read" \in Faults
  /\ return(p)
  /\ UNCHANGED <<written, head, blocks, internals, applied, sent, interrupted>>

\* ValidateNetRecordBody accepts the record's body.
validateOK(p) ==
  /\ pc[p] = "validate"
  /\ pc' = [pc EXCEPT ![p] = "sethead"]
  /\ UNCHANGED <<written, head, blocks, internals, sema, job, applied, sent,
                 interrupted>>

\* ValidateNetRecordBody rejects it: the internal blocks that loadRecords
\* stored are removed again and the call fails.
validateSkips(p) ==
  /\ pc[p] = "validate"
  /\ "reject" \in Faults
  /\ internals' = internals \ {job[p].next}
  /\ IF job[p].next < job[p].last
     THEN job' = [job EXCEPT ![p].next = @ + 1] /\ UNCHANGED <<sema, pc>>
     ELSE return(p)
  /\ UNCHANGED <<written, head, blocks, applied, sent, interrupted>>

validateReject(p) ==
  /\ pc[p] = "validate"
  /\ "reject" \in Faults
  /\ internals' = internals \ {job[p].next}
  /\ return(p)
  /\ UNCHANGED <<written, head, blocks, applied, sent, interrupted>>

\* The head moves to the record, before the record is handled or stored.
setHead(p) ==
  LET c == job[p].counter + 1 IN
  /\ pc[p] = "sethead"
  /\ head' = [id |-> job[p].next, counter |-> c]
  /\ job' = [job EXCEPT ![p].counter = c]
  /\ pc' = [pc EXCEPT ![p] = IF AppConnected THEN "handle" ELSE "add"]
  /\ UNCHANGED <<written, blocks, internals, sema, applied, sent, interrupted>>

\* The logstore refuses the new head and the call fails.
setHeadErrorKeepsSema(p) ==
  /\ pc[p] = "sethead"
  /\ "sethead" \in Faults
  /\ pc' = [pc EXCEPT ![p] = "idle"]
  /\ job' = [job EXCEPT ![p] = NoJob]
  /\ UNCHANGED <<written, head, blocks, internals, sema, applied, sent,
                 interrupted>>

setHeadError(p) ==
  /\ pc[p] = "sethead"
  /\ "sethead" \in Faults
  /\ return(p)
  /\ UNCHANGED <<written, head, blocks, internals, applied, sent, interrupted>>

\* The application handles the record.
handleNetRecord(p) ==
  /\ pc[p] = "handle"
  /\ applied' = Append(applied, job[p].next)
  /\ pc' = [pc EXCEPT ![p] = "add"]
  /\ UNCHANGED <<written, head, blocks, internals, sema, job, sent,
                 interrupted>>

\* Handling fails, or the blockstore refuses the envelope: the call fails
\* and the log head remains moved.
interrupt(p, at, fault) ==
  /\ pc[p] = at
  /\ fault \in Faults
  /\ interrupted' = interrupted \cup {job[p].next}
  /\ return(p)
  /\ UNCHANGED <<written, head, blocks, internals, applied, sent>>

handleError(p) == interrupt(p, "handle", "handler")

addError(p) == interrupt(p, "add", "add")

\* The record's envelope is added to the blockstore.
addEnvelopeReleases(p) ==
  /\ pc[p] = "add"
  /\ blocks' = blocks \cup {job[p].next}
  /\ pc' = [pc EXCEPT ![p] = "send"]
  /\ sema' = IF job[p].next = job[p].last THEN Nobody ELSE sema
  /\ UNCHANGED <<written, head, internals, job, applied, sent, interrupted>>

addEnvelope(p) ==
  /\ pc[p] = "add"
  /\ blocks' = blocks \cup {job[p].next}
  /\ pc' = [pc EXCEPT ![p] = "send"]
  /\ UNCHANGED <<written, head, internals, sema, job, applied, sent,
                 interrupted>>

\* The record is broadcast; go on with the next one or return.
sendPastLast(p) ==
  /\ pc[p] = "send"
  /\ sent' = Append(sent, job[p].next)
  /\ IF job[p].next <= job[p].last
     THEN /\ pc' = [pc EXCEPT ![p] = firstStep]
          /\ job' = [job EXCEPT ![p].next = @ + 1]
          /\ UNCHANGED sema
     ELSE return(p)
  /\ UNCHANGED <<written, head, blocks, internals, applied, interrupted>>

sendToBus(p) ==
  /\ pc[p] = "send"
  /\ sent' = Append(sent, job[p].next)
  /\ IF job[p].next < job[p].last
     THEN /\ pc' = [pc EXCEPT ![p] = firstStep]
          /\ job' = [job EXCEPT ![p].next = @ + 1]
          /\ UNCHANGED sema
     ELSE return(p)
  /\ UNCHANGED <<written, head, blocks, internals, applied, interrupted>>

\* A listener does not take the record within notifyTimeout: the call fails
\* with the rest of the chain unprocessed.
sendTimeout(p) ==
  /\ pc[p] = "send"
  /\ "bus" \in Faults
  /\ return(p)
  /\ UNCHANGED <<written, head, blocks, internals, applied, sent, interrupted>>

\* The process stops and is started again on the same datastores.  A record
\* caught between SetHead and the end of its processing is not resumed.
Crash ==
  /\ "crash" \in Faults
  /\ \E p \in Putters : pc[p] # "idle"
  /\ interrupted' = interrupted \cup
       {job[p].next : p \in {x \in Putters : pc[x] \in {"handle", "add"}}}
  /\ sema' = Nobody
  /\ pc' = [p \in Putters |-> "idle"]
  /\ job' = [p \in Putters |-> NoJob]
  /\ UNCHANGED <<written, head, blocks, internals, applied, sent>>

-----------------------------------------------------------------------------
\* A step of the processing loop of putRecords.
process(p) ==
  \/ readError(p)
  \/ validateOK(p)
  \/ validateReject(p)
  \/ setHead(p)
  \/ setHeadError(p)
  \/ handleNetRecord(p)
  \/ handleError(p)
  \/ addEnvelope(p)
  \/ addError(p)
  \/ sendToBus(p)
  \/ sendTimeout(p)

Next ==
  \/ Write
  \/ \E r \in Record : getRecord(r)
  \/ \E p \in Putters : \E q \in Request : loadRecords(p, q)
  \/ \E p \in Putters : \E q \in Request : loadError(p, q)
  \/ \E p \in Putters : \E q \in Request : ignoreRecords(p, q)
  \/ \E p \in Putters : recheckHead(p)
  \/ \E p \in Putters : process(p)
  \/ Crash

Spec == Init /\ [][Next]_vars

\* Calls that are running make progress.  Every store and application call of
\* the loop returns or fails; the semaphore is a channel of capacity one, and
\* blocked senders of a Go channel are served in FIFO order, so a goroutine
\* that waits for it gets it although others keep coming.
FairSpec ==
  /\ Spec
  /\ \A p \in Putters : SF_vars(recheckHead(p)) /\ WF_vars(process(p))

-----------------------------------------------------------------------------
(***************************************************************************)
(* Properties.                                                             *)
(*                                                                         *)
(* A put without a counter is judged by the presence of its last record in *)
(* the blockstore.  That test is only right while no record has had its    *)
(* processing interrupted, so the properties below are stated for the      *)
(* states in which legacy puts and interrupted records do not meet, and    *)
(* for senders whose replies are not cut short.                            *)
(***************************************************************************)
Trusted == (LegacyPeers => interrupted = {}) /\ "short" \notin Faults

\* The record a goroutine has moved the head to but not finished with.
InProgress(r) ==
  \E p \in Putters : pc[p] \in {"handle", "add"} /\ job[p].next = r

Increasing(s) == \A i, j \in 1 .. Len(s) : i < j => s[i] < s[j]

Occurs(r, s) == \E i \in 1 .. Len(s) : s[i] = r

\* The head's counter is the position of the head's record in the log,
\* whatever interleaving of puts produced it (updatedCounter in putRecords,
\* after the fast-forward of the chain).  Everything that compares counters,
\* loadRecords and getLocalRecords, rests on this.
CounterExact == Trusted => head.counter = head.id

\* The head only ever moves to the record that follows it: concurrent,
\* repeated and stale puts neither move it back nor make it jump.
HeadMovesByOne == [][Trusted' => head'.id = head.id + 1]_head

\* The application is handed the records of the log in log order and each
\* at most once, although several goroutines load overlapping chains.
AppliedInOrder == Trusted => Increasing(applied)

\* "ensure consistent order seen by the listeners" (putRecords): records go
\* out on the event bus in log order, each at most once.
BroadcastInOrder == Trusted => Increasing(sent)

\* No record below the head has been passed over: it was applied and its
\* envelope stored, unless its own processing failed after SetHead.
NothingSkipped ==
  Trusted => \A r \in 1 .. head.id :
    \/ r \in interrupted
    \/ InProgress(r)
    \/ r \in blocks /\ (AppConnected => Occurs(r, applied))

\* Every call of putRecords returns: no error path keeps the semaphore.
PutReturns == \A p \in Putters : (pc[p] # "idle") ~> (pc[p] = "idle")

\* With counters on every put, the interleaved calls together implement the
\* replica of LogPromise: no step moves the head, or hands a record to the
\* application, in a way that an atomic, one record at a time, replica would
\* not.
Promise == INSTANCE LogPromise

ImplementsPromise == Promise!Spec

-----------------------------------------------------------------------------
(***************************************************************************)
(* What comments say of the code, and the code does not keep.              *)
(***************************************************************************)

\* "Important invariant: heads are always in blockstore" (getLocalRecords),
\* asked for here only of the moments when nobody is putting records.
HeadInBlockstore == sema = Nobody /\ head.id # 0 => head.id \in blocks

\* "Safe since putRecords will change head when fully-available" (GetLogs):
\* once the head is on a record its event, header and body are available.
HeadFullyAvailable == sema = Nobody /\ head.id # 0 => head.id \in internals

\* "Head represents the log head (including the number of records in the
\* log and the id of the head)" (core/thread/head.go), of every put.
HeadCountsRecords == head.counter = head.id

=============================================================================
