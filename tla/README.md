# Verification of go-threads: the network layer

TLA+ models of how go-threads stores, orders and spreads the records of a
thread. TLC checks them on small instances. TLAPS proves the central theorems
for every value of the constants.

## The system

A *thread* is a set of *logs*, one per writer. A log is a chain of records, each
linked to the one before, with a *head* (record id and counter). A host
keeps logs in a logstore and records in a blockstore.

| Component | State | Operations | What is hard |
|---|---|---|---|
| Record replication (`net/net.go`) | head per log, blocks, a semaphore per thread | `loadRecords`, `putRecords` | goroutines load overlapping chains before they hold the semaphore; any store, application or bus step can fail |
| Record creation (`net/net.go`, `db/`) | own log, its index under the identity | `CreateRecord`, `createLog`, `Commit` | `CreateRecord` takes no lock; a crash can separate creating a log from indexing it |
| Call queue (`net/queue/ff.go`) | linked list per peer, calls in flight | `Schedule`, `Call`, `pollQueue` | two mutexes, never held together; the poll stops at random |
| Thread packer, pulling cycle (`net/queue/tp.go`, `net/net.go`) | packs per peer, two bounded channels | `startPulling`, `Add`, `Run`, `startExchange` | threads disappear during a cycle; blocking sends; shutdown |
| Synchronisation (`net/server.go`, `net/client.go`) | known logs and heads of each host, messages | push, edge exchange, pull, `AddThread` | lost, repeated and reordered messages; restarts; calls skipped while one is in flight |
| Logstore and books (`logstore/`) | keys, addresses, heads, cached edges | add, set, clear, edges | cached edges and their invalidation |
| Database (`db/`) | collections, transactions, listeners | transactions, reduce, dispatch | lock order, partial commits |
| Manager, subscriptions, API | databases, listeners | create, delete, subscribe | closing while in use |

What makes each of them correct:

- Replication: the head moves one record at a time and its counter is its
  position; the application and the listeners see each record once, in log
  order; no record is passed over; every put returns.
- Creation: a log is one chain that only grows, an identity has one log, a
  record is pushed and dispatched at its place in the log, and a record in the
  log is dispatched unless its transaction fails.
- Call queue: one waiting call per thread, first in first out; a thread is
  marked in flight only while a call for it runs; a scheduled call is made.
- Packer and cycle: packs fit; an exchange is started for a thread taken in, and
  for every thread that stays again and again, whatever happens to others.
- Synchronisation: no host has a head that was not made or goes back, and a
  host that goes on pulling ends up with the heads of the hosts it knows.
- Logstore: a cached edge equals the one recomputed from the book. Database: a
  transaction's effects reach readers and listeners whole and in order. Manager
  and subscriptions: closing loses nothing already delivered and leaves nobody
  waiting. These have no module yet.

The pulling cycle feeds the packer. The packer's packs start edge exchanges.
Exchanges that differ schedule calls in the call queue. A call pulls records,
and a pull ends in `putRecords`. A database writes through `CreateRecord`,
which pushes the record to the other hosts.

`PROJECT.json` lists every component, modelled or not, the hazards at their
source lines, and the source lines of every definition.

## Modules

| Module | Models | State and actions |
|---|---|---|
| `LogPromise` | what a replica promises | a head that advances by one record; records applied in order |
| `LogReplica` | `loadRecords` and `putRecords` of concurrent goroutines on one log | `pc`, `job` per goroutine; one action per step between two points where others can interfere, and one per error path |
| `OwnLog` | `CreateRecord` under a database transaction, or without one | `Serialized` says whether the transaction lock is held |
| `CallFifo` | what the queue of one peer promises | a sequence of entries, one per thread |
| `PeerQueue` | the linked list behind it | pointers, index, both ends |
| `CallQueue` | `ffQueue` for one peer, over `CallFifo` | one action per critical section |
| `PullLoop` | `startPulling`, `threadPacker`, `startExchange` | the three goroutines and the channels between them |
| `LogSync` | the hosts of one thread | known logs, heads, queued calls, pulls and messages |

`LogReplicaProofs`, `OwnLogProofs` and `OwnLogPlaces` hold the theorems. The `MC*` modules only
give constants their values. Operators such as `recheckNothing` or
`setHeadStale`, placed before the definition they vary, are faulty variants
that no specification uses: they show that a property can fail.

Abstractions worth knowing:

- A record is its position in the log. Encoding and encryption are left out.
- `LogSync` keeps, for each log, the counter of the head a host has. It says
  nothing of the records behind the head: a put that fails after `SetHead`
  leaves a head without its record, and heads that agree are not exchanged
  again (`replica_head_block`). It assumes peers that send counters and replies
  that are not cut short.
- In `OwnLog` there is one identity. Without an index the code takes the first
  log of the thread that it has a private key of, which with several identities
  on one host may be another one's.
- In `PullLoop` an exchange is the call of `exchangeEdges`. Whether the peer
  answers changes nothing there; what an answer leads to is in `LogSync`. Once
  the context of the host is done the request fails before it is sent, so that
  the packs flushed on closing are not exchanged.
- An edge is the set of logs or heads it is a hash of: hashes do not collide.
- In `CallQueue`, age is a set of overdue threads and the random decision of the
  poll is a free choice.
- In `PullLoop`, any number of pulls may be under way, so that a reply can be
  stored after its thread was deleted.

## Runs

| Run | Checks | Instance |
|---|---|---|
| `replica` | `TypeOK`, `CounterExact`, `AppliedInOrder`, `BroadcastInOrder`, `NothingSkipped`, `HeadMovesByOne`, `ImplementsPromise`, `PutReturns` | 2 goroutines, 3 records, every fault |
| `replica_legacy` | `CounterExact`, `AppliedInOrder`, `NothingSkipped`, `HeadMovesByOne` | puts with and without counter, 4 records, no fault that interrupts a record |
| `own_log` | `AppendOnly`, `OneLog`, `CounterIsLength`, `PushedAtItsPlace`, `LoggedIsDispatched`, `DispatchedInLogOrder` | 3 writers, 4 records, every fault, identity of the host (the theorems cover the other case) |
| `peer_queue` | `TypeOK`, `Consistent`, `ImplementsFifo` | 4 threads, the 2 priorities of `net.go` |
| `call_queue` | `OnePerThread`, `MarkHasWorker`, `OverdueSpawned`, `WaitingCallIsMade` | 2 schedulers, 1 caller, 2 spawned goroutines, 2 threads |
| `sync` | `TypeOK`, `NothingInvented`, `NothingForgotten`, `Converges` | 2 writing hosts, 2 records, 1 failure of any kind; the pulling cycle of either host may end at any time |
| `pull_loop` | `TypeOK`, `PackFits`, `AcceptedIsExchanged`, `PulledWhileRunning` | 2 threads, one of them volatile, 2 peers |

Five runs show where the code and its comments or documentation disagree. In each
of them TLC finds a behaviour of the code that violates the statement.

| Run | Statement | What happens |
|---|---|---|
| `replica_head_block` | "heads are always in blockstore" (`net.go:1333`) | the head is set before the envelope is stored |
| `replica_head_full` | "putRecords will change head when fully-available" (`server.go:102`) | a rejecting goroutine removes blocks that another one relies on |
| `replica_short_reply` | the head includes the number of records (`core/thread/head.go:5`) | a reply cut short sends a replica back to the start with an inflated counter |
| `own_log_net_api` | "append-only event logs" (`README.md:440`) | two `CreateRecord` calls without a transaction fork the log |
| `pull_loop_stops` | "periodically pulls on all threads" (`net.go:1364`) | a thread deleted during a cycle, or a log of it known without its key, ends the loop for all |

### Bounds

- Two goroutines suffice for the races of `putRecords`: one loads, another
  moves the head. The theorems cover any number.
- Three records allow a chain that overlaps at its start, middle and end.
- Three threads are enough for `Remove` in the middle of a list; with four, a
  neighbour of the removed operation is itself in the middle.
- `LogSync` has named bounds on records of all logs (`MaxRec`), exchanges and
  pulls under way, calls waiting when an exchange starts, and failures. In
  `sync` an exchange starts only when no other is under way and at most one
  call waits, and one pull runs at a time. The end of a pulling cycle is not
  counted as a failure. Other combinations that passed, outside the runs: both
  hosts pulling at once (7 minutes); and, with cycles that do not end, two
  failures with no call waiting, and two exchanges at once with one record. With three hosts, one writer, one record and one
  failure only the safety properties were checked: the fairness of every pair
  makes the liveness check too large.
- `PullLoop` limits packs to 2 requests, so that a repeated request fills one,
  and its channels to one element. Only `Volatile` threads change. In
  `pull_loop` the two threads have different peers and never meet in a pack; an
  instance in which they share a peer passes as well, but takes 17 minutes.
- `CallQueue` runs with one priority; replacing calls is `PeerQueue`'s subject.
  With both priorities it passes too, in over 4 minutes.

### Fairness

- `LogReplica`: a goroutine inside the loop goes on (weak fairness), and one that
  waits for the semaphore gets it although others keep coming (strong fairness):
  blocked senders of a Go channel are served in order. Starting a call and
  crashing have no fairness.
- `CallQueue`: the ticker ticks, spawned goroutines run, calls return (their
  requests have timeouts).
- `PullLoop`: goroutines run, exchanges end, time passes for each pack. Requests
  and the ticker get strong fairness, because a Go `select` chooses at random
  among ready channels. Fairness on "some pack gets old" would be too weak: a
  pack of one peer could then stay young for ever.
- `LogSync`: two hosts exchange edges again and again as long as one of them
  knows the other and its `startPulling` has not returned, which
  `PulledWhileRunning` shows of the cycle; nothing is assumed of a host whose
  cycle has ended (`pull_loop_stops` shows that it may). Requests and
  replies of an exchange are handled, each host spawns its call to each peer,
  and its pull goes on. The fairness is per pair, because every host polls a
  queue of its own for each peer; fairness of "some host spawns a call" would
  let one host starve, and `Converges` fails under it. Strong fairness is used
  where a bound or another pull disables a step for a while. Pushes have no
  fairness: convergence does not depend on them. Failures are finite in number,
  and a silent peer counts as one; convergence is claimed for the time after
  the last.

Deadlock checking is off where the system may stop: `own_log` (all records
made), `sync` (a host that failed to join knows nobody) and `pull_loop` (the
host is closed; `startPulling` may also stay blocked in `Add`, because the
packer has returned).

## Proofs

`LogReplicaProofs`, for any goroutines, log length and faults:

- `TypeCorrect`. `TypeOK` is not inductive: that `SetHead` stays inside the log
  needs `Chain` (a goroutine's chain is within the log), and that only one
  goroutine moves the head needs `Lock` (the semaphore's holder is the one
  goroutine in the loop).
- `CounterIsExact`, `AppliesInOrder`, `BroadcastsInOrder`, `SkipsNothing` and
  `HeadNeverJumps` follow from `IInv`, which adds `OrderInv`: where the
  holder's next record is relative to the head, and that what was applied
  and sent lies at or below the head, and every record up to the head was
  processed, is in progress or was interrupted. A waiting goroutine's chain may be out of
  date; it is rechecked on entry, which is why the invariant speaks of waiting
  and holding goroutines separately.
- `ReplicaImplementsPromise`, assuming counters in every put and no reply cut
  short: each step is a step of `LogPromise` or leaves it unchanged.

The properties say nothing of states in which legacy puts meet interrupted
records, or of replies cut short (`Trusted`): there they do not hold. For
replies the run `replica_short_reply` shows it. For legacy puts TLC shows it
when `HeadCountsRecords` is asked of the instance of `replica_legacy` with
failures of the application's handler.

`OwnLogProofs`, for any writers, records and logs:

- `TypeCorrect`, with or without the lock. What follows assumes `Serialized`.
- `OwnLogIsAppendOnly` and `OwnLogIsOne`. The
  invariant adds `Mutex` (who is at work holds the lock), `Fresh` (the head in
  hand is still the head) and `Home` (all published records are in one log).
  Without the lock `Fresh` fails, which is the run `own_log_net_api`.
- `HeadsAreDispatched`: the goroutine that set a head holds its record until it
  dispatches it, and failing or crashing marks it interrupted.

`OwnLogPlaces` goes on from there:

- `OwnCounterIsLength`, `PushesHavePlaces` and `DispatchesInLogOrder`. A log is
  what every set of records closed under links has to hold, so that no
  induction is needed: a record adds exactly itself to the log it links to
  (`LogOfRecord`), and a record that is only made changes no log
  (`LogOfAppend`). The invariant `PInv` adds to `IInv` that records link
  backward and that a goroutine past `SetHead` holds the head, which is newer than
  all that was dispatched. The counting rests on the library's theorems about
  finite sets.

Only model-checked: every liveness property (`PutReturns`, `WaitingCallIsMade`,
`Converges`, `AcceptedIsExchanged`, `PulledWhileRunning`), since the prover
handles neither fairness nor ENABLED; what the recursive functions `chain` and
`forward` compute, which takes induction over data; and so far all of
`PeerQueue`, `CallQueue`, `PullLoop` and `LogSync`.

## Plan

In this order:

1. `RecordCollector`: merging fragments from several peers (`net/record.go`).
2. `ThreadLifecycle`: `deleteThread` against running puts.
3. `EdgeCache`: edges of the head and address books.
4. `Replicator`: `AddReplicator` and its partial failures.
5. Broadcast and subscriptions; database transactions and locks; the manager;
   the hybrid logstore.
6. Proofs: `MarkHasWorker` and `OnePerThread` of `CallQueue`;
   `NothingInvented` and `NothingForgotten` of `LogSync`; `PackFits` of
   `PullLoop`.

Not planned: queries and indexes, encoding and cryptography, and the API
services, which hold no protocol of their own.
