------------------------------- MODULE PullLoop -------------------------------
(***************************************************************************)
(* The pulling cycle of a host: startPulling and startExchange             *)
(* (net/net.go) with the threadPacker between them (net/queue/tp.go).      *)
(* Threads come and go in the store while the cycle runs, and a pull       *)
(* stores what it learns of a new log in two steps (net/client.go).        *)
(***************************************************************************)
EXTENDS Naturals, Sequences, FiniteSets, SequencesExt, Functions

CONSTANTS
  Threads,
  Peers,
  PeersOf,       \* the peers in the addresses of a thread's logs
  Volatile,      \* the threads that are deleted, added and get new logs
  NoPack,        \* no exchange is running
  MaxPackSize,   \* MaxThreadsExchanged
  InBufSize, OutBufSize,
  Events         \* what else happens: "delete", "log", "error" or "close"

ASSUME PullLoopAssumption ==
  /\ IsFiniteSet(Threads)
  /\ PeersOf \in [Threads -> SUBSET Peers]
  /\ Volatile \subseteq Threads
  /\ MaxPackSize \in Nat \ {0}
  /\ InBufSize \in Nat \ {0}
  /\ OutBufSize \in Nat \ {0}
  /\ Events \subseteq {"delete", "log", "error", "close"}

VARIABLES
  store,      \* the threads with a service key
  addrs,      \* threads that have the addresses of a log learned from a peer
  keys,       \* threads that have the key of that log
  puller,     \* startPulling: "start", "list", "tick", "add" or "stopped"
  ts,         \* the threads of this cycle that are still to be pulled
  todo,       \* the peers to whom the current thread is still to be added
  input,      \* the packer's channel of requests
  packer,     \* Run's goroutine: "none", "run", "drain", "close" or "stopped"
  packs,      \* the packer's requests per peer
  stale,      \* peers whose oldest request is older than the timeout
  draining,   \* peers whose requests are being drained
  sink,       \* the packer's channel of packs
  exchange,   \* the pack of the exchange started last, while its request runs
  closed      \* is the context done

threads == <<store, addrs, keys>>
pulling == <<puller, ts, todo>>
packing == <<packer, packs, stale, draining>>
vars == <<threads, pulling, input, packing, sink, exchange, closed>>

Pack == [peer : Peers, threads : Seq(Threads)]

TypeOK ==
  /\ store \subseteq Threads
  /\ addrs \subseteq Threads /\ keys \subseteq Threads
  /\ puller \in {"start", "list", "tick", "add", "stopped"}
  /\ ts \in Seq(Threads)
  /\ todo \subseteq Peers
  /\ Len(input) <= InBufSize /\ input \in Seq([peer : Peers, tid : Threads])
  /\ packer \in {"none", "run", "drain", "close", "stopped"}
  /\ packs \in [Peers -> Seq(Threads)]
  /\ stale \subseteq Peers
  /\ draining \subseteq Peers
  /\ Len(sink) <= OutBufSize /\ sink \in Seq(Pack)
  /\ exchange \in Pack \cup {NoPack}
  /\ closed \in BOOLEAN

Init ==
  /\ store = Threads
  /\ addrs = {} /\ keys = {}
  /\ puller = "start"
  /\ ts = <<>>
  /\ todo = {}
  /\ input = <<>>
  /\ packer = "none"
  /\ packs = [p \in Peers |-> <<>>]
  /\ stale = {}
  /\ draining = {}
  /\ sink = <<>>
  /\ exchange = NoPack
  /\ closed = FALSE

-----------------------------------------------------------------------------
(***************************************************************************)
(* startPulling.                                                           *)
(***************************************************************************)

\* store.Threads: whatever has a key or an address is listed.
Listed == store \cup addrs \cup keys

\* threadOffsets reads a thread and all its logs, each of which needs its key.
readable(t) == t \in store /\ (t \in addrs => t \in keys)

\* After NetPullingStartAfter the packer is made and run.
start ==
  /\ puller = "start"
  /\ puller' = "list"
  /\ packer' = "run"
  /\ UNCHANGED <<threads, ts, todo, input, packs, stale, draining, sink, exchange, closed>>

\* A cycle starts with the threads of the store; with none it waits.
list ==
  /\ puller = "list"
  /\ Listed # {}
  /\ ts' \in SetToSeqs(Listed)
  /\ puller' = "tick"
  /\ UNCHANGED <<threads, todo, input, packing, sink, exchange, closed>>

listError ==
  /\ puller = "list"
  /\ "error" \in Events
  /\ puller' = "stopped"
  /\ UNCHANGED <<threads, ts, todo, input, packing, sink, exchange, closed>>

\* A tick reads the next thread and its peers. The select may take the
\* tick although the context is done.
tick ==
  /\ puller = "tick"
  /\ readable(ts[1])
  /\ todo' = PeersOf[ts[1]]
  /\ puller' = "add"
  /\ UNCHANGED <<threads, ts, input, packing, sink, exchange, closed>>

\* When the thread cannot be read, startPulling returns.
tickError ==
  /\ puller = "tick"
  /\ ~readable(ts[1]) \/ "error" \in Events
  /\ puller' = "stopped"
  /\ UNCHANGED <<threads, ts, todo, input, packing, sink, exchange, closed>>

\* compressor.Add, which blocks while the channel is full.
addUnbuffered ==
  /\ puller = "add"
  /\ \E p \in todo :
       /\ input' = Append(input, [peer |-> p, tid |-> ts[1]])
       /\ todo' = todo \ {p}
  /\ UNCHANGED <<threads, puller, ts, packing, sink, exchange, closed>>

add ==
  /\ puller = "add"
  /\ Len(input) < InBufSize
  /\ \E p \in todo :
       /\ input' = Append(input, [peer |-> p, tid |-> ts[1]])
       /\ todo' = todo \ {p}
  /\ UNCHANGED <<threads, puller, ts, packing, sink, exchange, closed>>

\* The next thread, or the next cycle.
addedSkipsLast ==
  /\ puller = "add"
  /\ todo = {}
  /\ ts' = Tail(ts)
  /\ puller' = IF Len(ts') <= 1 THEN "list" ELSE "tick"
  /\ UNCHANGED <<threads, todo, input, packing, sink, exchange, closed>>

added ==
  /\ puller = "add"
  /\ todo = {}
  /\ ts' = Tail(ts)
  /\ puller' = IF ts' = <<>> THEN "list" ELSE "tick"
  /\ UNCHANGED <<threads, todo, input, packing, sink, exchange, closed>>

\* The context is looked at only where startPulling waits.
pullerDone ==
  /\ closed
  /\ puller \in {"start", "tick"} \/ (puller = "list" /\ Listed = {})
  /\ puller' = "stopped"
  /\ UNCHANGED <<threads, ts, todo, input, packing, sink, exchange, closed>>

-----------------------------------------------------------------------------
(***************************************************************************)
(* The packer: a select over the context, the ticker and the requests.     *)
(***************************************************************************)

drain(ps, next) == draining' = ps /\ packer' = next

\* A request joins its peer's pack, which is drained when it is full, or when
\* the request came a timeout after the oldest one. A request may have waited
\* in the channel since before the oldest one became stale.
request ==
  /\ packer = "run"
  /\ input # <<>>
  /\ LET p == input[1].peer
         pq == Append(packs[p], input[1].tid)
     IN  /\ packs' = [packs EXCEPT ![p] = pq]
         /\ \/ /\ Len(pq) >= MaxPackSize \/ p \in stale
               /\ drain({p}, "drain")
            \/ /\ Len(pq) < MaxPackSize
               /\ UNCHANGED <<draining, packer>>
  /\ input' = Tail(input)
  /\ UNCHANGED <<threads, pulling, stale, sink, exchange, closed>>

\* Time passes.
Age(p) ==
  /\ packs[p] # <<>> /\ p \notin stale
  /\ stale' = stale \cup {p}
  /\ UNCHANGED <<threads, pulling, input, packer, packs, draining, sink, exchange, closed>>

\* The ticker: packs with an entry that is overdue are drained.
timeout ==
  /\ packer = "run"
  /\ stale # {}
  /\ drain(stale, "drain")
  /\ UNCHANGED <<threads, pulling, input, packs, stale, sink, exchange, closed>>

\* The context is done: everything is drained.
packerDone ==
  /\ packer = "run" /\ closed
  /\ drain({p \in Peers : packs[p] # <<>>}, "close")
  /\ UNCHANGED <<threads, pulling, input, packs, stale, sink, exchange, closed>>

\* drainPeerQueue sends the threads of a peer, each once, in order of arrival.
uniqueNot(s) == s

unique(s) ==
  FoldLeft(LAMBDA seen, t : IF Contains(seen, t) THEN seen ELSE Append(seen, t), <<>>, s)

drainIfRoom(p) ==
  /\ p \in draining
  /\ sink' = IF Len(sink) < OutBufSize
             THEN Append(sink, [peer |-> p, threads |-> unique(packs[p])]) ELSE sink
  /\ packs' = [packs EXCEPT ![p] = <<>>]
  /\ stale' = stale \ {p}
  /\ draining' = draining \ {p}
  /\ UNCHANGED <<threads, pulling, input, packer, exchange, closed>>

drainPeerQueue(p) ==
  /\ p \in draining
  /\ Len(sink) < OutBufSize
  /\ sink' = Append(sink, [peer |-> p, threads |-> unique(packs[p])])
  /\ packs' = [packs EXCEPT ![p] = <<>>]
  /\ stale' = stale \ {p}
  /\ draining' = draining \ {p}
  /\ UNCHANGED <<threads, pulling, input, packer, exchange, closed>>

\* Everything is drained: back to the select, or close the sink and return.
drained ==
  /\ packer \in {"drain", "close"}
  /\ draining = {}
  /\ packer' = IF packer = "drain" THEN "run" ELSE "stopped"
  /\ UNCHANGED <<threads, pulling, input, packs, stale, draining, sink, exchange, closed>>

-----------------------------------------------------------------------------
\* startExchange calls exchangeEdges for every pack and waits for none.  A
\* thread without edges is asked for too: the peer may know more of it.
takePack ==
  /\ sink # <<>>
  /\ ~closed
  /\ exchange' = sink[1]
  /\ sink' = Tail(sink)
  /\ UNCHANGED <<threads, pulling, input, packing, closed>>

\* The request has the context of the host: once that is done it fails before it
\* is sent, and so does the pack that the packer flushes at the end.
takePackDone ==
  /\ sink # <<>>
  /\ closed
  /\ sink' = Tail(sink)
  /\ UNCHANGED <<threads, pulling, input, packing, exchange, closed>>

\* exchangeEdges returns: the peer has answered, or it was out of reach, had no
\* answer in time or none for the request, or the context is done.  Nothing here
\* depends on which; what an answer leads to is in LogSync.
exchangeEdges ==
  /\ exchange # NoPack
  /\ exchange' = NoPack
  /\ UNCHANGED <<threads, pulling, input, packing, sink, closed>>

rest == <<pulling, input, packing, sink, exchange, closed>>

\* A thread is deleted with all of its logs, or added again.
DeleteThread(t) ==
  /\ "delete" \in Events
  /\ t \in store
  /\ store' = store \ {t}
  /\ addrs' = addrs \ {t}
  /\ keys' = keys \ {t}
  /\ UNCHANGED rest

AddThread(t) ==
  /\ "delete" \in Events
  /\ t \notin store
  /\ store' = store \cup {t}
  /\ UNCHANGED <<addrs, keys, rest>>

\* getRecordsFromPeer: a reply names a new log, whose addresses are added, then
\* its key. Any number of pulls are under way, so that the thread may have been
\* deleted since its reply was asked for.
addAddrs(t) ==
  /\ "log" \in Events
  /\ t \notin addrs
  /\ addrs' = addrs \cup {t}
  /\ UNCHANGED <<store, keys, rest>>

addPubKey(t) ==
  /\ t \in addrs \ keys
  /\ keys' = keys \cup {t}
  /\ UNCHANGED <<store, addrs, rest>>

Close ==
  /\ "close" \in Events
  /\ ~closed
  /\ closed' = TRUE
  /\ UNCHANGED <<threads, pulling, input, packing, sink, exchange>>

startPulling ==
  start \/ list \/ listError \/ tick \/ tickError \/ add \/ added \/ pullerDone

runPacker ==
  request \/ timeout \/ packerDone \/ drained \/ \E p \in Peers : drainPeerQueue(p)

Next ==
  \/ startPulling
  \/ runPacker
  \/ takePack \/ takePackDone
  \/ exchangeEdges
  \/ \E p \in Peers : Age(p)
  \/ \E t \in Volatile : DeleteThread(t) \/ AddThread(t) \/ addAddrs(t) \/ addPubKey(t)
  \/ Close

Spec == Init /\ [][Next]_vars

\* The goroutines run, exchanges end (they have a timeout) and time passes for
\* every pack.
\* A select chooses at random between the channels that are ready, so that one
\* that is ready again and again is chosen.
FairSpec ==
  /\ Spec
  /\ WF_vars(startPulling)
  /\ WF_vars(takePack \/ takePackDone)
  /\ WF_vars(exchangeEdges)
  /\ \A p \in Peers : WF_vars(Age(p))
  /\ SF_vars(request)
  /\ SF_vars(timeout)
  /\ WF_vars(packerDone \/ drained \/ \E p \in Peers : drainPeerQueue(p))

-----------------------------------------------------------------------------
(***************************************************************************)
(* Properties.                                                             *)
(***************************************************************************)

exchanges(p, t) ==
  /\ exchange # NoPack
  /\ exchange.peer = p
  /\ Contains(exchange.threads, t)

\* However requests, timeouts and the end of the context interleave, Run keeps
\* at most maxPackSize requests for a peer, repeated ones included, and
\* sends packs that are not empty, name a thread once and only threads that the
\* peer takes part in.
PackFits ==
  /\ \A p \in Peers : Len(packs[p]) <= MaxPackSize
  /\ \A i \in 1 .. Len(sink) :
       LET pack == sink[i]
       IN  /\ pack.threads # <<>>
           /\ IsInjective(pack.threads)
           /\ \A t \in Range(pack.threads) : pack.peer \in PeersOf[t]

\* While the host is open, an exchange is started for every thread that Run has
\* taken from its input, with the peer it was added for: also when its pack never
\* fills, when startPulling has returned, and when the exchanges started before
\* have not been taken yet.
AcceptedIsExchanged ==
  \A t \in Threads : \A p \in PeersOf[t] :
    Contains(packs[p], t) ~> (exchanges(p, t) \/ closed)

\* As long as startPulling has not returned, an exchange is started for a thread
\* that stays in the store with each of its peers again and again, whatever
\* happens to other threads.
PulledWhileRunning ==
  \A t \in Threads : \A p \in PeersOf[t] :
    <>[](t \in store /\ puller # "stopped" /\ ~closed) => []<>exchanges(p, t)

\* startPulling: while the host is open, an exchange is started for a thread that
\* stays in the store with each of its peers again and again.
PulledAgain ==
  \A t \in Threads : \A p \in PeersOf[t] :
    <>[](t \in store /\ ~closed) => []<>exchanges(p, t)

=============================================================================
