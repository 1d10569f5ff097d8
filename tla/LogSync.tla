-------------------------------- MODULE LogSync -------------------------------
(***************************************************************************)
(* How the logs of one thread spread between hosts (net/net.go,            *)
(* net/server.go, net/client.go): records are pushed when they are         *)
(* created, hosts exchange edges, pull records and learn of each other's   *)
(* logs.                                                                   *)
(*                                                                         *)
(* Every host writes to a log of its own, which carries the host's name    *)
(* here and the host's address as its only address.  Of a host's copy of a *)
(* log there is the counter of its head.  What is behind a head, and that  *)
(* a put may fail after it has set one, is in LogReplica.                  *)
(***************************************************************************)
EXTENDS Naturals, FiniteSets, FiniteSetsExt, Functions

CONSTANTS
  Hosts,
  Creator,        \* the host that creates the thread
  Writers,        \* the hosts that create records
  MaxRec,         \* bound on the records of all the logs
  MaxExchanges,   \* bound on the edge exchanges under way
  MaxPulls,       \* bound on the pulls under way
  MaxWaiting,     \* bound on the calls waiting when an exchange starts
  MaxFailures,    \* bound on the failures that are counted: they end at some time
  PullingLimit,   \* conf.NetPullingLimit
  Faults,         \* what may fail
  Quitters        \* the hosts whose pulling cycle may end

ASSUME LogSyncAssumption ==
  /\ IsFiniteSet(Hosts)
  /\ Creator \in Hosts
  /\ Writers \subseteq Hosts
  /\ MaxRec \in Nat
  /\ MaxExchanges \in Nat
  /\ MaxPulls \in Nat
  /\ MaxWaiting \in Nat
  /\ MaxFailures \in Nat
  /\ PullingLimit \in Nat \ {0}
  /\ Faults \subseteq {"push", "exchange", "repeat", "put", "request", "crash"}
  /\ Quitters \subseteq Hosts

VARIABLES
  known,       \* per host: the logs it has the key and address of
  has,         \* per host and log: the counter of the head
  joining,     \* pairs: a host in AddThread, and the host it joins from
  queueLogs, queueRecords,  \* pairs: calls scheduled by a host to a peer
  pulling,     \* the hosts whose startPulling has not returned
  pulls,       \* replies to GetRecords that a host is putting: the peers that
               \* have its call in flight, and if it waits for all of them
  net,         \* messages on their way
  failures     \* number of failures so far

vars == <<known, has, joining, queueLogs, queueRecords, pulling, pulls, net, failures>>

Heads == [Hosts -> 0 .. MaxRec]

Message ==
  [type : {"record"}, from : Hosts, to : Hosts, pos : 1 .. MaxRec, direct : BOOLEAN]
    \cup [type : {"log"}, from : Hosts, to : Hosts]
    \cup [type : {"edges", "reply"}, from : Hosts, to : Hosts,
          addrs : SUBSET Hosts, heads : Heads]

TypeOK ==
  /\ known \in [Hosts -> SUBSET Hosts]
  /\ has \in [Hosts -> Heads]
  /\ joining \subseteq Hosts \X Hosts
  /\ queueLogs \subseteq Hosts \X Hosts
  /\ queueRecords \subseteq Hosts \X Hosts
  /\ pulling \subseteq Hosts
  /\ pulls \subseteq [by : Hosts, calls : SUBSET Hosts, all : BOOLEAN, heads : Heads]
  /\ net \subseteq Message
  /\ failures \in 0 .. MaxFailures

NoHeads == [l \in Hosts |-> 0]

\* CreateThread has made the thread, with a log of its own, at one host.
Init ==
  /\ known = [h \in Hosts |-> IF h = Creator THEN {h} ELSE {}]
  /\ has = [h \in Hosts |-> NoHeads]
  /\ joining = {}
  /\ queueLogs = {}
  /\ queueRecords = {}
  /\ pulling = Hosts
  /\ pulls = {}
  /\ net = {}
  /\ failures = 0

\* uniquePeers of all the addresses: every known log's host, but not itself.
peers(h) == known[h] \ {h}

hasThread(h) == known[h] # {}

\* Bound: a host makes one pull at a time (LogReplica has them overlap).
mayPull(h) == Cardinality(pulls) < MaxPulls /\ \A r \in pulls : r.by # h

\* A pull by h from p is in flight.
inflight(h, p) == \E r \in pulls : r.by = h /\ p \in r.calls

\* What Schedule does to the queue of records: nothing while in flight.
scheduled(q, h, p) == IF inflight(h, p) THEN q ELSE q \cup {<<h, p>>}

\* A step counts as a failure if bad holds.
count(bad) ==
  IF bad THEN failures < MaxFailures /\ failures' = failures + 1
  ELSE UNCHANGED failures

-----------------------------------------------------------------------------
(***************************************************************************)
(* Joining and writing.                                                    *)
(***************************************************************************)

\* AddThread: the thread and an own log are stored first ...
AddThread(h, p) ==
  /\ ~hasThread(h)
  /\ hasThread(p)
  /\ known' = [known EXCEPT ![h] = {h}]
  /\ joining' = joining \cup {<<h, p>>}
  /\ UNCHANGED <<has, queueLogs, queueRecords, pulling, pulls, net, failures>>

\* ... then the logs are fetched from the given peer, once.
addThreadLogs(h, p) ==
  /\ <<h, p>> \in joining
  /\ joining' = joining \ {<<h, p>>}
  /\ known' = [known EXCEPT ![h] = @ \cup known[p]]
  /\ UNCHANGED <<has, queueLogs, queueRecords, pulling, pulls, net, failures>>

addThreadError(h, p) ==
  /\ "request" \in Faults
  /\ <<h, p>> \in joining
  /\ joining' = joining \ {<<h, p>>}
  /\ count(TRUE)
  /\ UNCHANGED <<known, has, queueLogs, queueRecords, pulling, pulls, net>>

\* CreateRecord sets the head of the own log and pushes the record to the
\* known peers, and over pubsub to every host that has the thread's topic.
CreateRecord(h) ==
  /\ h \in Writers
  /\ hasThread(h)
  /\ MapThenSumSet(LAMBDA l : has[l][l], Hosts) < MaxRec
  /\ has' = [has EXCEPT ![h][h] = @ + 1]
  /\ net' = net \cup
       {[type |-> "record", from |-> h, to |-> p, pos |-> has[h][h] + 1,
         direct |-> p \in known[h]] : p \in {q \in Hosts \ {h} : hasThread(q)}}
  /\ UNCHANGED <<known, joining, queueLogs, queueRecords, pulling, pulls, failures>>

-----------------------------------------------------------------------------
(***************************************************************************)
(* Putting records.                                                        *)
(***************************************************************************)

\* The heads that putRecords may leave when the chain up to pos arrives: pos,
\* if it is ahead, or one on the way there when a step fails.  The step that fails
\* may be one after SetHead: the head stays and its record is not there.
putUnchecked(h, l, pos) == {pos}

putRecords(h, l, pos) ==
  IF pos <= has[h][l] THEN {has[h][l]}
  ELSE {pos} \cup (IF "put" \in Faults THEN has[h][l] .. pos ELSE {})

\* PushRecord at its receiver, where the log is known.
PushRecord(m) ==
  /\ m \in net /\ m.type = "record"
  /\ m.from \in known[m.to]
  /\ \E k \in putRecords(m.to, m.from, m.pos) :
       /\ has' = [has EXCEPT ![m.to][m.from] = k]
       /\ \/ net' = net \ {m} /\ count(k < m.pos)
          \/ "repeat" \in Faults /\ net' = net /\ count(TRUE)
  /\ UNCHANGED <<known, joining, queueLogs, queueRecords, pulling, pulls>>

\* Where it is not, the sender of a direct push answers with the log.
PushRecordNotFound(m) ==
  /\ m \in net /\ m.type = "record"
  /\ m.from \notin known[m.to]
  /\ net' = (net \ {m}) \cup
       (IF m.direct THEN {[type |-> "log", from |-> m.from, to |-> m.to]} ELSE {})
  /\ UNCHANGED <<known, has, joining, queueLogs, queueRecords, pulling, pulls, failures>>

\* PushLog stores the log without its head, and schedules a pull.
PushLog(m) ==
  /\ m \in net /\ m.type = "log"
  /\ known' = [known EXCEPT ![m.to] = @ \cup {m.from}]
  /\ queueRecords' = scheduled(queueRecords, m.to, m.from)
  /\ net' = net \ {m}
  /\ UNCHANGED <<has, joining, queueLogs, pulling, pulls, failures>>

-----------------------------------------------------------------------------
(***************************************************************************)
(* Pulling.                                                                *)
(***************************************************************************)

\* GetRecords at p for the offsets of h: the logs in which p is ahead.
logRecordLimit(p) == PullingLimit \div Cardinality(known[p])

GetRecordsOneMore(h, p) ==
  [l \in Hosts |->
     IF l \in known[p] /\ has[p][l] > has[h][l] /\ logRecordLimit(p) > 0
     THEN has[p][l] + 1 ELSE 0]

GetRecords(h, p) ==
  [l \in Hosts |->
     IF l \in known[p] /\ has[p][l] > has[h][l] /\ logRecordLimit(p) > 0
     THEN has[p][l] ELSE 0]

logsOf(heads) == {l \in Hosts : heads[l] > 0}

\* updateRecordsFromPeer, spawned by the queue: the request is answered and the
\* keys and addresses of the logs in the reply are stored.
updateRecordsFromPeer(h, p) ==
  /\ <<h, p>> \in queueRecords
  /\ mayPull(h)
  /\ queueRecords' = queueRecords \ {<<h, p>>}
  /\ LET reply == GetRecords(h, p) IN
     /\ known' = [known EXCEPT ![h] = @ \cup logsOf(reply)]
     /\ pulls' = pulls \cup {[by |-> h, calls |-> {p}, all |-> FALSE, heads |-> reply]}
  /\ UNCHANGED <<has, joining, queueLogs, pulling, net, failures>>

updateRecordsError(h, p) ==
  /\ "request" \in Faults
  /\ <<h, p>> \in queueRecords
  /\ queueRecords' = queueRecords \ {<<h, p>>}
  /\ count(TRUE)
  /\ UNCHANGED <<known, has, joining, queueLogs, pulling, pulls, net>>

\* PullThread calls every known peer directly, which deschedules the calls
\* waiting, and merges the replies of those that answer.
PullThread(h, answer) ==
  /\ answer # {} /\ answer \subseteq peers(h)
  /\ answer # peers(h) => "request" \in Faults
  /\ count(answer # peers(h))
  /\ mayPull(h)
  /\ queueRecords' = queueRecords \ ({h} \X peers(h))
  /\ LET reply == [l \in Hosts |-> Max({GetRecords(h, p)[l] : p \in answer})] IN
     /\ known' = [known EXCEPT ![h] = @ \cup logsOf(reply)]
     /\ pulls' = pulls \cup {[by |-> h, calls |-> peers(h), all |-> TRUE, heads |-> reply]}
  /\ UNCHANGED <<has, joining, queueLogs, pulling, net>>

\* All the calls of PullThread have returned.
pullCollected(r) ==
  /\ r \in pulls /\ r.all
  /\ pulls' = (pulls \ {r}) \cup {[r EXCEPT !.all = FALSE, !.calls = {}]}
  /\ UNCHANGED <<known, has, joining, queueLogs, queueRecords, pulling, net, failures>>

\* The reply is put log by log ...
putReply(r, l) ==
  /\ r \in pulls /\ ~r.all
  /\ r.heads[l] > 0
  /\ \E k \in putRecords(r.by, l, r.heads[l]) :
       /\ has' = [has EXCEPT ![r.by][l] = k]
       /\ count(k < r.heads[l])
       /\ pulls' = (pulls \ {r}) \cup
            (IF k >= r.heads[l] THEN {[r EXCEPT !.heads[l] = 0]} ELSE {})
  /\ UNCHANGED <<known, joining, queueLogs, queueRecords, pulling, net>>

\* ... until there is nothing left of it.
pullReturns(r) ==
  /\ r \in pulls /\ ~r.all
  /\ r.heads = NoHeads
  /\ pulls' = pulls \ {r}
  /\ UNCHANGED <<known, has, joining, queueLogs, queueRecords, pulling, net, failures>>

\* updateLogsFromPeer: GetLogs, then the missing logs are stored.
updateLogsFromPeer(h, p) ==
  /\ <<h, p>> \in queueLogs
  /\ queueLogs' = queueLogs \ {<<h, p>>}
  /\ known' = [known EXCEPT ![h] = @ \cup known[p]]
  /\ UNCHANGED <<has, joining, queueRecords, pulling, pulls, net, failures>>

updateLogsError(h, p) ==
  /\ "request" \in Faults
  /\ <<h, p>> \in queueLogs
  /\ queueLogs' = queueLogs \ {<<h, p>>}
  /\ count(TRUE)
  /\ UNCHANGED <<known, has, joining, queueRecords, pulling, pulls, net>>

-----------------------------------------------------------------------------
(***************************************************************************)
(* Exchanging edges.  An edge is a hash of the logs and heads of a thread; *)
(* it is the logs and heads here: hashes do not collide.                   *)
(***************************************************************************)

\* The pulling cycle of h, while it runs, exchanges edges with a known peer.
exchangeEdges(h, p) ==
  /\ h \in pulling
  /\ p \in peers(h)
  /\ Cardinality({m \in net : m.type \in {"edges", "reply"}}) < MaxExchanges
  /\ Cardinality(queueLogs) + Cardinality(queueRecords) <= MaxWaiting
  /\ net' = net \cup {[type |-> "edges", from |-> h, to |-> p,
                       addrs |-> known[h], heads |-> has[h]]}
  /\ UNCHANGED <<known, has, joining, queueLogs, queueRecords, pulling, pulls, failures>>

\* What both sides schedule when the other side's edges are m's.
compareIgnoresHeads(m) ==
  LET h == m.to IN
  /\ queueLogs' = IF m.addrs # {} /\ m.addrs # known[h]
                  THEN queueLogs \cup {<<h, m.from>>} ELSE queueLogs
  /\ UNCHANGED queueRecords

compare(m) ==
  LET h == m.to IN
  /\ queueLogs' = IF m.addrs # {} /\ m.addrs # known[h]
                  THEN queueLogs \cup {<<h, m.from>>} ELSE queueLogs
  /\ queueRecords' = IF m.heads # NoHeads /\ m.heads # has[h]
                     THEN scheduled(queueRecords, h, m.from) ELSE queueRecords

ExchangeEdges(m) ==
  /\ m \in net /\ m.type = "edges"
  /\ compare(m)
  /\ net' = (net \ {m}) \cup {[type |-> "reply", from |-> m.to, to |-> m.from,
                               addrs |-> known[m.to], heads |-> has[m.to]]}
  /\ UNCHANGED <<known, has, joining, pulling, pulls, failures>>

exchangeReply(m) ==
  /\ m \in net /\ m.type = "reply"
  /\ compare(m)
  /\ net' = net \ {m}
  /\ UNCHANGED <<known, has, joining, pulling, pulls, failures>>

-----------------------------------------------------------------------------
\* A push is lost, or an exchange fails: the receiver is not reachable in time.
Lose(m) ==
  /\ m \in net
  /\ (IF m.type \in {"record", "log"} THEN "push" ELSE "exchange") \in Faults
  /\ net' = net \ {m}
  /\ count(TRUE)
  /\ UNCHANGED <<known, has, joining, queueLogs, queueRecords, pulling, pulls>>

\* startPulling of h returns for good, after an error of the store or at a thread
\* that cannot be read.  It may do so at any time, and is not counted.
startPullingReturns(h) ==
  /\ h \in Quitters \cap pulling
  /\ pulling' = pulling \ {h}
  /\ UNCHANGED <<known, has, joining, queueLogs, queueRecords, pulls, net, failures>>

\* A host stops and restarts: what it stored stays, and it pulls again.
Crash(h) ==
  /\ "crash" \in Faults
  /\ joining' = {j \in joining : j[1] # h}
  /\ queueLogs' = {q \in queueLogs : q[1] # h}
  /\ queueRecords' = {q \in queueRecords : q[1] # h}
  /\ pulling' = pulling \cup {h}
  /\ pulls' = {r \in pulls : r.by # h}
  /\ net' = {m \in net : m.from # h /\ m.to # h}
  /\ count(TRUE)
  /\ UNCHANGED <<known, has>>

receive(m) ==
  PushRecord(m) \/ PushRecordNotFound(m) \/ PushLog(m) \/ ExchangeEdges(m)
    \/ exchangeReply(m)

pullStep(h) ==
  \E r \in {x \in pulls : x.by = h} :
    pullCollected(r) \/ pullReturns(r) \/ \E l \in Hosts : putReply(r, l)

Next ==
  \/ \E h \in Hosts : CreateRecord(h) \/ pullStep(h) \/ startPullingReturns(h) \/ Crash(h)
  \/ \E h, p \in Hosts :
       \/ AddThread(h, p) \/ addThreadLogs(h, p) \/ addThreadError(h, p)
       \/ updateRecordsFromPeer(h, p) \/ updateRecordsError(h, p)
       \/ updateLogsFromPeer(h, p) \/ updateLogsError(h, p)
       \/ exchangeEdges(h, p)
  \/ \E h \in Hosts, answer \in SUBSET Hosts : PullThread(h, answer)
  \/ \E m \in net : receive(m) \/ Lose(m)

Spec == Init /\ [][Next]_vars

\* As long as the pulling cycle of one of two hosts runs and that host knows the
\* other, the two exchange edges again and again: the cycle comes back to every
\* thread (PullLoop, PulledWhileRunning).  Nothing is assumed of a host whose
\* startPulling has returned.  A request is served and its reply read; a host
\* polls a queue of its own per peer, and its pull makes progress.  Strong
\* fairness is for what the bounds and other pulls disable for a while.  Pushes
\* need not arrive.
FairSpec ==
  /\ Spec
  /\ \A q \in kSubset(2, Hosts) :
       SF_vars(\E h, p \in q : exchangeEdges(h, p))
  /\ \A h \in Hosts : \A p \in Hosts \ {h} :
       /\ WF_vars(\E m \in net : m.from = h /\ m.to = p /\ ExchangeEdges(m))
       /\ WF_vars(\E m \in net : m.from = h /\ m.to = p /\ exchangeReply(m))
       /\ SF_vars(updateRecordsFromPeer(h, p))
       /\ WF_vars(updateLogsFromPeer(h, p))
  /\ \A h \in Hosts : WF_vars(pullStep(h))

-----------------------------------------------------------------------------
(***************************************************************************)
(* Properties.                                                             *)
(***************************************************************************)

\* No host has a head in a log past the records that CreateRecord has made at its
\* writer, nor in a log whose key it does not have: replies store keys first.
NothingInvented ==
  \A h, l \in Hosts :
    /\ has[h][l] <= has[l][l]
    /\ has[h][l] > 0 => l \in known[h]

\* No host ever goes back in a log or forgets one, however late, repeated or
\* out of order pushes and replies reach putRecords, and whoever restarts.
NothingForgotten ==
  [][\A h, l \in Hosts : has'[h][l] >= has[h][l] /\ known[h] \subseteq known'[h]]_vars

\* Once writing stops and the counted failures end, a host whose pulling cycle
\* goes on has the same heads as every host it knows: pushes and exchanges lost,
\* requests and puts that failed and restarts do not keep them apart, nor does a
\* cycle that has ended at the other host.  It is the heads that agree: a record
\* whose put failed after SetHead is not asked for again, as heads are compared.
Converges ==
  <>[](\A h \in pulling : \A p \in known[h] : has[h] = has[p])

=============================================================================
