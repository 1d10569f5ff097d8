-------------------------------- MODULE OwnLog --------------------------------
(***************************************************************************)
(* The writing side of a log: goroutines of one host that call             *)
(* net.CreateRecord for one identity and one thread (net/net.go), and the  *)
(* database transaction that does so when it commits (db/collection.go).   *)
(*                                                                         *)
(* CreateRecord takes no lock.  Callers that come through the database     *)
(* hold its transaction lock for the whole call (Serialized); callers of   *)
(* the network API do not.                                                 *)
(***************************************************************************)
EXTENDS Naturals, Sequences, FiniteSets

CONSTANTS
  Writers,       \* goroutines that create records
  Nobody,        \* the value of the transaction lock when it is free
  Serialized,    \* are the calls made under the database's transaction lock
  HostIdentity,  \* is the identity the host's own
  MaxRec,        \* bound on the number of records created
  MaxLogs,       \* bound on the number of logs created
  Faults         \* which failures may happen

ASSUME OwnLogAssumption ==
  /\ Nobody \notin Writers
  /\ Serialized \in BOOLEAN
  /\ HostIdentity \in BOOLEAN
  /\ MaxRec \in Nat
  /\ MaxLogs \in Nat
  /\ Faults \subseteq {"invalid", "store", "bus", "push", "dispatch", "crash"}

NoLog == 0

VARIABLES
  txnlock,   \* holder of the transaction lock
  index,     \* metadata: the log of the identity, or NoLog
  logs,      \* number of logs created so far; log ids are 1 .. logs
  head,      \* per log: id and counter of its head
  records,   \* every record made: its log and the record it links to
  pc, info, rec,   \* per goroutine: position, LogInfo it works with, its record
  published, \* history: records that have been a head
  pushed,    \* records pushed to the peers, with their counter
  state,     \* history: records the database has dispatched, in order
  interrupted \* history: records whose call failed or was cut off after SetHead

vars == <<txnlock, index, logs, head, records, pc, info, rec, published, pushed,
          state, interrupted>>

HeadUndef == [id |-> 0, counter |-> 0]

LogIds == 1 .. MaxLogs

NoInfo == [log |-> NoLog, head |-> HeadUndef]

Steps == {"index", "getlog", "addlog", "putindex", "new", "sethead", "bus",
          "push", "dispatch"}

LogHead == [id : 0 .. MaxRec, counter : Nat]

TypeOK ==
  /\ txnlock \in Writers \cup {Nobody}
  /\ index \in {NoLog} \cup LogIds
  /\ logs \in 0 .. MaxLogs
  /\ head \in [LogIds -> LogHead]
  /\ records \in Seq([log : LogIds, prev : 0 .. MaxRec])
  /\ Len(records) <= MaxRec
  /\ pc \in [Writers -> {"idle"} \cup Steps]
  /\ info \in [Writers -> [log : {NoLog} \cup LogIds, head : LogHead]]
  /\ rec \in [Writers -> 0 .. MaxRec]
  /\ published \subseteq 1 .. MaxRec
  /\ pushed \subseteq [rec : 1 .. MaxRec, counter : Nat]
  /\ state \in Seq(1 .. MaxRec)
  /\ interrupted \subseteq 1 .. MaxRec

Init ==
  /\ txnlock = Nobody
  /\ index = NoLog
  /\ logs = 0
  /\ head = [l \in LogIds |-> HeadUndef]
  /\ records = <<>>
  /\ pc = [w \in Writers |-> "idle"]
  /\ info = [w \in Writers |-> NoInfo]
  /\ rec = [w \in Writers |-> 0]
  /\ published = {}
  /\ pushed = {}
  /\ state = <<>>
  /\ interrupted = {}

-----------------------------------------------------------------------------
\* The call returns, and with it the transaction, which unlocks.
done(w) ==
  /\ pc' = [pc EXCEPT ![w] = "idle"]
  /\ info' = [info EXCEPT ![w] = NoInfo]
  /\ rec' = [rec EXCEPT ![w] = 0]
  /\ txnlock' = IF Serialized THEN Nobody ELSE txnlock

goto(w, step) == pc' = [pc EXCEPT ![w] = step]

\* The records of the goroutines in ws that are heads already.
inHand(ws) == {rec[w] : w \in ws} \cap published

\* The step of w at which the call may fail, leaving the stores as they are.
fail(w, at, fault) ==
  /\ pc[w] = at
  /\ fault \in Faults
  /\ interrupted' = interrupted \cup inHand({w})
  /\ done(w)
  /\ UNCHANGED <<index, logs, head, records, published, pushed, state>>

\* writeTxn locks; Commit calls CreateRecord, which validates the body.
beginUnlocked(w) ==
  /\ pc[w] = "idle"
  /\ Len(records) < MaxRec
  /\ txnlock' = w
  /\ goto(w, "index")
  /\ UNCHANGED <<index, logs, head, records, info, rec, published, pushed, state, interrupted>>

begin(w) ==
  /\ pc[w] = "idle"
  /\ Len(records) < MaxRec
  /\ Serialized => txnlock = Nobody
  /\ txnlock' = IF Serialized THEN w ELSE txnlock
  /\ goto(w, "index")
  /\ UNCHANGED <<index, logs, head, records, info, rec, published, pushed, state, interrupted>>

\* The application refuses the body.
invalid(w) == fail(w, "index", "invalid")

\* getOrCreateLog: the log of the identity, or an own log that has not been
\* indexed, or a new one.  The logs of other identities are not here: without an
\* index the code takes the first log it has a private key of.
lookupIndexOnly(w) ==
  /\ pc[w] = "index"
  /\ \/ /\ index # NoLog
        /\ info' = [info EXCEPT ![w].log = index]
        /\ goto(w, "getlog")
     \/ /\ index = NoLog
        /\ goto(w, "addlog")
        /\ UNCHANGED info
  /\ UNCHANGED <<txnlock, index, logs, head, records, rec, published,
                 pushed, state, interrupted>>

lookup(w) ==
  /\ pc[w] = "index"
  /\ \/ /\ index # NoLog
        /\ info' = [info EXCEPT ![w].log = index]
        /\ goto(w, "getlog")
     \/ /\ index = NoLog /\ HostIdentity
        /\ \E l \in 1 .. logs :
             info' = [info EXCEPT ![w] = [log |-> l, head |-> head[l]]]
        /\ goto(w, "new")
     \/ /\ index = NoLog /\ (HostIdentity => logs = 0)
        /\ goto(w, "addlog")
        /\ UNCHANGED info
  /\ UNCHANGED <<txnlock, index, logs, head, records, rec, published, pushed, state, interrupted>>

getLog(w) ==
  /\ pc[w] = "getlog"
  /\ info' = [info EXCEPT ![w].head = head[info[w].log]]
  /\ goto(w, "new")
  /\ UNCHANGED <<txnlock, index, logs, head, records, rec, published, pushed, state, interrupted>>

\* createLog stores a log with fresh keys, then indexes it.
addLog(w) ==
  /\ pc[w] = "addlog"
  /\ logs < MaxLogs
  /\ logs' = logs + 1
  /\ info' = [info EXCEPT ![w] = [log |-> logs + 1, head |-> HeadUndef]]
  /\ goto(w, "putindex")
  /\ UNCHANGED <<txnlock, index, head, records, rec, published, pushed, state, interrupted>>

putIndex(w) ==
  /\ pc[w] = "putindex"
  /\ index' = info[w].log
  /\ goto(w, "new")
  /\ UNCHANGED <<txnlock, logs, head, records, info, rec, published, pushed, state, interrupted>>

\* newRecord makes the record's blocks, linked to the head in hand.
newRecord(w) ==
  /\ pc[w] = "new"
  /\ Len(records) < MaxRec
  /\ records' = Append(records, [log |-> info[w].log, prev |-> info[w].head.id])
  /\ rec' = [rec EXCEPT ![w] = Len(records) + 1]
  /\ goto(w, "sethead")
  /\ UNCHANGED <<txnlock, index, logs, head, info, published, pushed, state, interrupted>>

\* SetHead, unconditionally.
setHeadStale(w) ==
  /\ pc[w] = "sethead"
  /\ head' = [head EXCEPT ![info[w].log] =
                [id |-> rec[w], counter |-> info[w].head.counter]]
  /\ published' = published \cup {rec[w]}
  /\ goto(w, "bus")
  /\ UNCHANGED <<txnlock, index, logs, records, info, rec, pushed, state, interrupted>>

setHead(w) ==
  /\ pc[w] = "sethead"
  /\ head' = [head EXCEPT ![info[w].log] =
                [id |-> rec[w], counter |-> info[w].head.counter + 1]]
  /\ published' = published \cup {rec[w]}
  /\ goto(w, "bus")
  /\ UNCHANGED <<txnlock, index, logs, records, info, rec, pushed, state, interrupted>>

\* The store, or the encoding of a record, fails in any step up to SetHead.
storeError(w) ==
  \E at \in {"index", "getlog", "addlog", "putindex", "new", "sethead"} :
    fail(w, at, "store")

\* The event bus; after notifyTimeout the call fails although the head moved.
sendToBus(w) ==
  /\ pc[w] = "bus"
  /\ goto(w, "push")
  /\ UNCHANGED <<txnlock, index, logs, head, records, info, rec, published, pushed,
                 state, interrupted>>

sendTimeout(w) == fail(w, "bus", "bus")

\* pushRecord sends the record with the counter computed before SetHead.
\* The network API returns the record; a transaction goes on.
pushUnlocks(w) ==
  /\ pc[w] = "push"
  /\ pushed' = pushed \cup {[rec |-> rec[w], counter |-> info[w].head.counter + 1]}
  /\ txnlock' = Nobody
  /\ goto(w, "dispatch")
  /\ UNCHANGED <<index, logs, head, records, info, rec, published, state, interrupted>>

pushReturns(w) ==
  /\ pc[w] = "push"
  /\ pushed' = pushed \cup {[rec |-> rec[w], counter |-> info[w].head.counter + 1]}
  /\ done(w)
  /\ UNCHANGED <<index, logs, head, records, published, state, interrupted>>

pushRecord(w) ==
  /\ pc[w] = "push"
  /\ pushed' = pushed \cup {[rec |-> rec[w], counter |-> info[w].head.counter + 1]}
  /\ IF Serialized
     THEN goto(w, "dispatch") /\ UNCHANGED <<txnlock, info, rec>>
     ELSE done(w)
  /\ UNCHANGED <<index, logs, head, records, published, state, interrupted>>

\* The thread, or a block of the record, cannot be read.
pushError(w) == fail(w, "push", "push")

\* Commit dispatches the events of the record to the local reducers.
dispatch(w) ==
  /\ pc[w] = "dispatch"
  /\ state' = Append(state, rec[w])
  /\ done(w)
  /\ UNCHANGED <<index, logs, head, records, published, pushed, interrupted>>

dispatchError(w) == fail(w, "dispatch", "dispatch")

\* The process stops and restarts on the same stores.
Crash ==
  /\ "crash" \in Faults
  /\ \E w \in Writers : pc[w] # "idle"
  /\ interrupted' = interrupted \cup inHand(Writers)
  /\ txnlock' = Nobody
  /\ pc' = [w \in Writers |-> "idle"]
  /\ info' = [w \in Writers |-> NoInfo]
  /\ rec' = [w \in Writers |-> 0]
  /\ UNCHANGED <<index, logs, head, records, published, pushed, state>>

step(w) ==
  \/ begin(w) \/ invalid(w) \/ lookup(w) \/ getLog(w) \/ addLog(w) \/ putIndex(w)
  \/ newRecord(w) \/ setHead(w) \/ storeError(w) \/ sendToBus(w)
  \/ sendTimeout(w) \/ pushRecord(w) \/ pushError(w) \/ dispatch(w)
  \/ dispatchError(w)

Next == (\E w \in Writers : step(w)) \/ Crash

Spec == Init /\ [][Next]_vars

-----------------------------------------------------------------------------
(***************************************************************************)
(* Properties.                                                             *)
(***************************************************************************)

\* A set of records (0 stands for the start of a log) that holds, with a record
\* in it, the one it links to.
closed(recs, S) == \A r \in S \ {0} : recs[r].prev \in S

\* The log that ends with record h: what every closed set with h in it holds.
logOf(recs, h) ==
  {r \in 1 .. Len(recs) :
     \A S \in SUBSET (0 .. Len(recs)) : h \in S /\ closed(recs, S) => r \in S}

Increasing(s) == \A i, j \in 1 .. Len(s) : i < j => s[i] < s[j]

\* The log is append-only: a new head links to the head it replaces.  Callers
\* that hold the transaction lock never fork the log or drop a record of it.
AppendOnly ==
  [][\A l \in LogIds : head'[l] # head[l] =>
       records'[head'[l].id].prev = head[l].id]_vars

\* All the records an identity has published in the thread are in one log.  The
\* host's own identity has no second log either: when a crash or an error comes
\* between the creation of a log and its indexing, that log is found and used.
OneLog ==
  /\ \A r, s \in published : records[r].log = records[s].log
  /\ HostIdentity => logs <= 1

\* A head's counter is the number of records of the log it heads.
CounterIsLength ==
  \A l \in LogIds : head[l].counter = Cardinality(logOf(records, head[l].id))

\* Peers are sent each record with its position in the log as counter, and the
\* record is in the log, then and ever after.
PushedAtItsPlace ==
  \A m \in pushed :
    /\ m.rec \in logOf(records, head[records[m.rec].log].id)
    /\ m.counter = Cardinality(logOf(records, m.rec))

\* A record that became the head of the log is dispatched, or still in the hands
\* of its transaction, or its Commit failed or was cut off by a crash: no log
\* entry that a transaction was told is there is missing from the database.
LoggedIsDispatched ==
  Serialized =>
    \A r \in published :
      \/ \E i \in 1 .. Len(state) : state[i] = r
      \/ r \in interrupted
      \/ \E w \in Writers : rec[w] = r /\ pc[w] \in {"bus", "push", "dispatch"}

\* The database applies its own records in the order of the log, and only
\* records that are in the log.
DispatchedInLogOrder ==
  /\ Increasing(state)
  /\ \A i \in 1 .. Len(state) :
       state[i] \in logOf(records, head[records[state[i]].log].id)

=============================================================================
