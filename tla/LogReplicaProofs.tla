--------------------------- MODULE LogReplicaProofs ---------------------------
(***************************************************************************)
(* Proofs about LogReplica, for any number of goroutines, any length of    *)
(* log and any set of faults.                                              *)
(***************************************************************************)
EXTENDS LogReplica, TLAPS

-----------------------------------------------------------------------------
(***************************************************************************)
(* Typing.  TypeOK is not inductive by itself: that SetHead moves the head *)
(* to a record of the log needs the chain to be within the log.            *)
(***************************************************************************)
Chain ==
  \A p \in Putters : pc[p] # "idle" =>
    /\ job[p].next \in 1 .. job[p].last
    /\ job[p].last <= written

\* The semaphore: its holder is the one goroutine inside the loop.
Lock == \A p \in Putters : pc[p] \in Inside <=> sema = p

TypeInv == TypeOK /\ Chain /\ Lock

LEMMA InitTypeInv == Init => TypeInv
BY ReplicaAssumption DEF Init, TypeInv, TypeOK, Chain, Lock, LogHead, HeadUndef,
   CounterUndef, Job, NoJob, Inside, Before, After

\* What a request of putRecords looks like.
LEMMA RequestType ==
  ASSUME NEW q \in Request, written \in 0 .. MaxRec
  PROVE  /\ q.first \in 1 .. written /\ q.last \in 1 .. written
         /\ q.counter \in 0 .. written
         /\ q.first <= q.last
         /\ q.counter <= q.last \/ "short" \in Faults
         /\ q.counter = CounterUndef => LegacyPeers
BY ReplicaAssumption DEF Request

\* A goroutine that returns leaves the semaphore free and no chain behind.
LEMMA ReturnTypeInv ==
  ASSUME TypeInv, NEW p \in Putters, return(p), sema \in {p, Nobody},
         UNCHANGED written
  PROVE  /\ pc' \in [Putters -> {"idle", "acquire"} \cup Inside]
         /\ job' \in [Putters -> Job]
         /\ sema' \in Putters \cup {Nobody}
         /\ Chain'
         /\ Lock'
<1> USE ReplicaAssumption DEF TypeInv, TypeOK
<1>1. NoJob \in Job
  BY DEF NoJob, Job, LogHead, HeadUndef, CounterUndef
<1>2. job' \in [Putters -> Job]
  BY <1>1 DEF return
<1>3. pc' \in [Putters -> {"idle", "acquire"} \cup Inside]
  BY DEF return
<1>4. Chain'
  BY DEF return, Chain
<1>5. Lock'
  BY DEF return, Lock, Inside, Before, After
<1> QED BY <1>2, <1>3, <1>4, <1>5 DEF return

\* Inside the loop p holds the semaphore, and its record is one of the log.
LEMMA InsideType ==
  ASSUME TypeInv, NEW p \in Putters, pc[p] \in Inside
  PROVE  /\ sema = p
         /\ job[p].next \in Record
         /\ job[p].last \in Record
         /\ job[p].next <= job[p].last
         /\ job[p].last <= written
         /\ job[p].counter \in Nat
<1>1. job[p] \in Job /\ written \in 0 .. MaxRec
  BY DEF TypeInv, TypeOK
<1>2. pc[p] # "idle"
  BY DEF Inside, Before, After
<1>3. job[p].next \in 1 .. job[p].last /\ job[p].last <= written
  BY <1>2 DEF TypeInv, Chain
<1>4. job[p].last \in 0 .. MaxRec /\ job[p].counter \in Nat
  BY <1>1 DEF Job
<1>5. sema = p
  BY DEF TypeInv, Lock
<1> QED BY <1>1, <1>3, <1>4, <1>5, ReplicaAssumption DEF Record

LEMMA NextTypeInv == TypeInv /\ [Next]_vars => TypeInv'
<1> SUFFICES ASSUME TypeInv, [Next]_vars PROVE TypeInv'
  OBVIOUS
<1> USE ReplicaAssumption
<1>1. CASE Write
  BY <1>1 DEF Write, TypeInv, TypeOK, Chain, Lock, Job
<1>2. ASSUME NEW r \in Record, getRecord(r) PROVE TypeInv'
  BY <1>2 DEF getRecord, TypeInv, TypeOK, Chain, Lock
<1>3. ASSUME NEW p \in Putters, NEW q \in Request, loadRecords(p, q)
      PROVE TypeInv'
  <2>1. /\ q.first \in 1 .. MaxRec /\ q.last \in 1 .. MaxRec
        /\ q.last <= written /\ chainStart(q) \in 1 .. q.last
    BY <1>3, RequestType DEF loadRecords, chainStart, TypeInv, TypeOK, LogHead
  <2>2. job' = [job EXCEPT ![p] = [head |-> head, next |-> chainStart(q),
                                   last |-> q.last, counter |-> 0]]
    BY <1>3 DEF loadRecords
  <2>3. [head |-> head, next |-> chainStart(q), last |-> q.last, counter |-> 0]
          \in Job
    BY <2>1 DEF Job, TypeInv, TypeOK
  <2>4. job' \in [Putters -> Job]
    BY <2>2, <2>3 DEF TypeInv, TypeOK
  <2>5. blocks' \subseteq Record /\ internals' \subseteq Record
    <3>1. /\ chainStart(q) .. q.first - 1 \subseteq Record
          /\ chainStart(q) .. q.last \subseteq Record
      BY <2>1 DEF Record
    <3> QED BY <1>3, <3>1 DEF loadRecords, TypeInv, TypeOK
  <2>6. TypeOK'
    BY <1>3, <2>4, <2>5 DEF loadRecords, TypeInv, TypeOK
  <2>7. Chain'
    <3>1. job'[p].next = chainStart(q) /\ job'[p].last = q.last
      BY <2>2 DEF TypeInv, TypeOK
    <3>2. \A r \in Putters \ {p} : job'[r] = job[r] /\ pc'[r] = pc[r]
      BY <1>3, <2>2 DEF loadRecords, TypeInv, TypeOK
    <3> QED BY <1>3, <2>1, <3>1, <3>2 DEF loadRecords, TypeInv, Chain
  <2>8. Lock'
    BY <1>3 DEF loadRecords, TypeInv, TypeOK, Lock, Inside, Before, After
  <2> QED BY <2>6, <2>7, <2>8 DEF TypeInv
<1>4. ASSUME NEW p \in Putters, NEW q \in Request, loadError(p, q)
      PROVE TypeInv'
  <2>1. /\ q.last \in 1 .. MaxRec /\ chainStart(q) \in Nat \ {0}
        /\ q.first \in 1 .. q.last
    BY <1>4, RequestType DEF chainStart, TypeInv, TypeOK, LogHead
  <2>2. blocks' \subseteq Record
    <3>1. chainStart(q) .. q.first - 1 \subseteq Record
      BY <2>1 DEF Record
    <3> QED BY <1>4, <3>1 DEF loadError, TypeInv, TypeOK
  <2>3. internals' \subseteq Record
    <3>1. PICK m \in chainStart(q) .. q.last :
            internals' = internals \cup (chainStart(q) .. m - 1)
      BY <1>4 DEF loadError
    <3>2. chainStart(q) .. m - 1 \subseteq Record
      BY <2>1, <3>1 DEF Record
    <3> QED BY <3>1, <3>2 DEF TypeInv, TypeOK
  <2> QED BY <1>4, <2>2, <2>3 DEF loadError, TypeInv, TypeOK, Chain, Lock
<1>5. ASSUME NEW p \in Putters, NEW q \in Request, ignoreRecords(p, q)
      PROVE TypeInv'
  BY <1>5 DEF ignoreRecords, vars, TypeInv, TypeOK, Chain, Lock
<1>6. ASSUME NEW p \in Putters, recheckHead(p) PROVE TypeInv'
  <2> DEFINE j == job[p]
             moved == head.id # j.head.id
             next == IF moved THEN head.id + 1 ELSE j.next
             base == IF moved THEN head.counter ELSE j.head.counter
             quit == moved /\ head.id \notin j.next .. j.last - 1
  <2>1. recheckWith(p, next, base, quit)
    BY <1>6 DEF recheckHead
  <2>2. /\ j \in Job /\ j.next \in 1 .. j.last /\ j.last <= written
        /\ head \in LogHead
    BY <2>1 DEF recheckWith, TypeInv, TypeOK, Chain
  <2>3. CASE quit
    <3>1. return(p) /\ sema = Nobody /\ UNCHANGED written
      BY <2>1, <2>3 DEF recheckWith, return
    <3> QED BY <2>1, <3>1, ReturnTypeInv DEF recheckWith, TypeInv, TypeOK
  <2>4. CASE ~quit
    <3>1. next \in 1 .. j.last /\ base \in Nat
      BY <2>2, <2>4 DEF Job, LogHead
    <3>2. job' = [job EXCEPT ![p].next = next, ![p].counter = base]
      BY <2>1, <2>4 DEF recheckWith
    <3>3. job'[p] \in Job /\ job'[p].next = next /\ job'[p].last = j.last
      <4>1. next \in 0 .. MaxRec + 1
        BY <2>2, <3>1 DEF Job
      <4>2. job'[p] = [j EXCEPT !.next = next, !.counter = base]
        BY <3>2 DEF TypeInv, TypeOK
      <4> HIDE DEF j, next, base
      <4> QED BY <2>2, <3>1, <4>1, <4>2 DEF Job
    <3>4. job' \in [Putters -> Job]
      BY <3>2, <3>3 DEF TypeInv, TypeOK
    <3>5. pc' = [pc EXCEPT ![p] = firstStep] /\ firstStep \in Inside /\ sema' = p
      BY <2>1, <2>4 DEF recheckWith, firstStep, Inside, Before
    <3>6. TypeOK'
      BY <2>1, <3>4, <3>5 DEF recheckWith, TypeInv, TypeOK
    <3>7. Chain'
      BY <2>1, <2>2, <3>1, <3>2, <3>3 DEF recheckWith, TypeInv, TypeOK, Chain
    <3>8. Lock'
      BY <2>1, <3>5 DEF recheckWith, TypeInv, TypeOK, Lock
    <3> QED BY <3>6, <3>7, <3>8 DEF TypeInv
  <2> QED BY <2>3, <2>4
<1>7. ASSUME NEW p \in Putters, process(p) PROVE TypeInv'
  <2>0. ASSUME pc[p] \in Inside
        PROVE  sema = p /\ job[p].next \in Record /\ job[p].last \in Record
               /\ job[p].next <= job[p].last /\ job[p].last <= written
               /\ job[p].counter \in Nat
    BY <2>0, InsideType
  <2>1. CASE readError(p)
    <3>1. return(p) /\ UNCHANGED written /\ sema \in {p, Nobody}
      BY <2>0, <2>1 DEF readError, Inside, Before
    <3> QED BY <2>1, <3>1, ReturnTypeInv DEF readError, TypeInv, TypeOK
  <2>2. CASE validateOK(p)
    BY <2>0, <2>2 DEF validateOK, TypeInv, TypeOK, Chain, Lock, Inside, Before, After
  <2>3. CASE validateReject(p)
    <3>1. return(p) /\ UNCHANGED written /\ sema \in {p, Nobody}
      BY <2>0, <2>3 DEF validateReject, Inside, Before
    <3> QED BY <2>3, <3>1, ReturnTypeInv DEF validateReject, TypeInv, TypeOK
  <2>4. CASE setHead(p)
    <3>1. pc[p] \in Inside
      BY <2>4 DEF setHead, Inside, Before
    <3>2. head' \in LogHead
      BY <2>0, <2>4, <3>1 DEF setHead, LogHead, Record
    <3>3. job' \in [Putters -> Job]
      <4>1. job' = [job EXCEPT ![p] = [job[p] EXCEPT !.counter = job[p].counter + 1]]
        BY <2>4 DEF setHead, TypeInv, TypeOK
      <4>2. job[p] \in Job
        BY DEF TypeInv, TypeOK
      <4>3. [job[p] EXCEPT !.counter = job[p].counter + 1] \in Job
        BY <4>2 DEF Job
      <4> QED BY <4>1, <4>3 DEF TypeInv, TypeOK
    <3>4. pc' \in [Putters -> {"idle", "acquire"} \cup Inside]
      BY <2>4 DEF setHead, TypeInv, TypeOK, Inside, After
    <3>5. TypeOK'
      BY <2>4, <3>2, <3>3, <3>4 DEF setHead, TypeInv, TypeOK
    <3>6. Chain'
      BY <2>0, <2>4, <3>1 DEF setHead, TypeInv, TypeOK, Chain, Job
    <3>7. Lock'
      BY <2>4, <3>1 DEF setHead, TypeInv, TypeOK, Lock, Inside, After
    <3> QED BY <3>5, <3>6, <3>7 DEF TypeInv
  <2>5. CASE setHeadError(p)
    <3>1. return(p) /\ UNCHANGED written /\ sema \in {p, Nobody}
      BY <2>0, <2>5 DEF setHeadError, Inside, Before
    <3> QED BY <2>5, <3>1, ReturnTypeInv DEF setHeadError, TypeInv, TypeOK
  <2>6. CASE handleNetRecord(p)
    <3>1. pc[p] \in Inside
      BY <2>6 DEF handleNetRecord, Inside, After
    <3>2. applied' \in Seq(Record)
      BY <2>0, <2>6, <3>1 DEF handleNetRecord, TypeInv, TypeOK
    <3> QED BY <2>6, <3>1, <3>2
            DEF handleNetRecord, TypeInv, TypeOK, Chain, Lock, Inside, After
  <2>7. ASSUME NEW at \in {"handle", "add"}, NEW fault, interrupt(p, at, fault)
        PROVE  TypeInv'
    <3>1. pc[p] \in Inside
      BY <2>7 DEF interrupt, Inside, After
    <3>2. return(p) /\ UNCHANGED written /\ sema \in {p, Nobody}
      BY <2>0, <2>7, <3>1 DEF interrupt
    <3> QED BY <2>0, <2>7, <3>1, <3>2, ReturnTypeInv DEF interrupt, TypeInv, TypeOK
  <2>8. CASE addEnvelope(p)
    <3>1. pc[p] \in Inside
      BY <2>8 DEF addEnvelope, Inside, After
    <3> QED BY <2>0, <2>8, <3>1
            DEF addEnvelope, TypeInv, TypeOK, Chain, Lock, Inside, After
  <2>9. CASE sendToBus(p)
    <3>1. pc[p] \in Inside
      BY <2>9 DEF sendToBus, Inside, After
    <3>2. sent' \in Seq(Record)
      BY <2>0, <2>9, <3>1 DEF sendToBus, TypeInv, TypeOK
    <3>3. CASE job[p].next < job[p].last
      <4>1. /\ pc' = [pc EXCEPT ![p] = firstStep]
            /\ job' = [job EXCEPT ![p].next = @ + 1]
            /\ UNCHANGED sema
        BY <2>9, <3>3 DEF sendToBus
      <4>2. firstStep \in Inside
        BY DEF firstStep, Inside, Before
      <4>3. job'[p] \in Job /\ job'[p].next = job[p].next + 1
            /\ job'[p].last = job[p].last
        <5>1. job'[p] = [job[p] EXCEPT !.next = job[p].next + 1]
          BY <4>1 DEF TypeInv, TypeOK
        <5>2. job[p] \in Job /\ job[p].next + 1 \in 0 .. MaxRec + 1
          BY <2>0, <3>1 DEF TypeInv, TypeOK, Record
        <5> QED BY <5>1, <5>2 DEF Job
      <4>4. TypeOK'
        BY <2>9, <3>2, <4>1, <4>2, <4>3 DEF sendToBus, TypeInv, TypeOK
      <4>5. Chain'
        BY <2>0, <2>9, <3>1, <3>3, <4>1, <4>3
           DEF sendToBus, TypeInv, TypeOK, Chain, Record
      <4>6. Lock'
        BY <2>9, <3>1, <4>1, <4>2 DEF sendToBus, TypeInv, TypeOK, Lock
      <4> QED BY <4>4, <4>5, <4>6 DEF TypeInv
    <3>4. CASE ~(job[p].next < job[p].last)
      <4>1. return(p) /\ UNCHANGED written /\ sema \in {p, Nobody}
        BY <2>0, <2>9, <3>1, <3>4 DEF sendToBus
      <4> QED BY <2>9, <3>2, <4>1, ReturnTypeInv DEF sendToBus, TypeInv, TypeOK
    <3> QED BY <3>3, <3>4
  <2>10. CASE sendTimeout(p)
    <3>1. return(p) /\ UNCHANGED written /\ sema \in {p, Nobody}
      BY <2>0, <2>10 DEF sendTimeout, Inside, After
    <3> QED BY <2>10, <3>1, ReturnTypeInv DEF sendTimeout, TypeInv, TypeOK
  <2> QED BY <1>7, <2>1, <2>2, <2>3, <2>4, <2>5, <2>6, <2>7, <2>8, <2>9, <2>10
          DEF process, handleError, addError
<1>8. CASE Crash
  <2>1. job' \in [Putters -> Job]
    BY <1>8 DEF Crash, NoJob, Job, LogHead, HeadUndef, CounterUndef
  <2>2. interrupted' \subseteq Record
    <3>1. ASSUME NEW p \in Putters, pc[p] \in {"handle", "add"}
          PROVE  job[p].next \in Record
      BY <3>1, InsideType DEF Inside, After
    <3> QED BY <1>8, <3>1 DEF Crash, TypeInv, TypeOK
  <2>3. pc' = [p \in Putters |-> "idle"] /\ sema' = Nobody
    BY <1>8 DEF Crash
  <2>4. TypeOK'
    BY <1>8, <2>1, <2>2, <2>3 DEF Crash, TypeInv, TypeOK
  <2>5. Chain' /\ Lock'
    BY <2>3 DEF Chain, Lock, Inside, Before, After
  <2> QED BY <2>4, <2>5 DEF TypeInv
<1>9. CASE UNCHANGED vars
  BY <1>9 DEF vars, TypeInv, TypeOK, Chain, Lock
<1> QED BY <1>1, <1>2, <1>3, <1>4, <1>5, <1>6, <1>7, <1>8, <1>9 DEF Next

\* TypeOK is an invariant: every head and chain that putRecords computes
\* stays within the records of the log.
THEOREM TypeCorrect == Spec => []TypeOK
<1>1. TypeInv => TypeOK
  BY DEF TypeInv
<1> QED BY InitTypeInv, NextTypeInv, <1>1, PTL DEF Spec

-----------------------------------------------------------------------------
(***************************************************************************)
(* The order of the log.  The inductive invariant says what the semaphore, *)
(* the chain and the head have to do with each other:                      *)
(*  - a chain that waits for the semaphore starts right after the head it  *)
(*    was loaded for, whose counter it remembers (Waiting);                *)
(*  - under the semaphore the next record is the one after the head before *)
(*    SetHead, and the head itself after it (Holding);                     *)
(*  - nothing beyond the head has been applied or sent, nor, while the     *)
(*    head's record waits for it, the head's record itself.                *)
(***************************************************************************)
Waiting(p) ==
  pc[p] = "acquire" =>
    /\ job[p].next = job[p].head.id + 1
    /\ job[p].head.counter = job[p].head.id

Holding(p) ==
  /\ pc[p] \in Before => job[p].next = head.id + 1 /\ job[p].counter = head.id
  /\ pc[p] \in After  => job[p].next = head.id /\ job[p].counter = head.id

Positions ==
  /\ head.counter = head.id
  /\ \A p \in Putters : Waiting(p) /\ Holding(p)

AppliedUpToHead ==
  /\ Increasing(applied)
  /\ \A i \in 1 .. Len(applied) : applied[i] <= head.id
  /\ \A p \in Putters : pc[p] = "handle" =>
       \A i \in 1 .. Len(applied) : applied[i] < head.id

SentUpToHead ==
  /\ Increasing(sent)
  /\ \A i \in 1 .. Len(sent) : sent[i] <= head.id
  /\ \A p \in Putters : pc[p] \in After =>
       \A i \in 1 .. Len(sent) : sent[i] < head.id

Processed(r) ==
  \/ r \in interrupted
  \/ InProgress(r)
  \/ r \in blocks /\ (AppConnected => Occurs(r, applied))

NoneSkipped ==
  /\ \A r \in 1 .. head.id : Processed(r)
  /\ \A p \in Putters : pc[p] = "add" /\ AppConnected => Occurs(job[p].next, applied)

OrderInv ==
  Trusted => Positions /\ AppliedUpToHead /\ SentUpToHead /\ NoneSkipped

IInv == TypeInv /\ OrderInv

\* The head is a position and a number.
LEMMA HeadType == TypeInv => head.id \in 0 .. MaxRec /\ head.counter \in Nat
BY DEF TypeInv, TypeOK, LogHead

\* Nobody else is inside the loop.
LEMMA Alone ==
  ASSUME TypeInv, NEW p \in Putters, pc[p] \in Inside, NEW r \in Putters, r # p
  PROVE  pc[r] \notin Inside
BY DEF TypeInv, Lock

LEMMA IncreasingAppend ==
  ASSUME NEW s \in Seq(Record), NEW r \in Record, Increasing(s),
         \A i \in 1 .. Len(s) : s[i] < r
  PROVE  /\ Increasing(Append(s, r))
         /\ \A i \in 1 .. Len(Append(s, r)) : Append(s, r)[i] <= r
         /\ Occurs(r, Append(s, r))
         /\ \A x : Occurs(x, s) => Occurs(x, Append(s, r))
<1> DEFINE t == Append(s, r)
<1>1. /\ Len(s) \in Nat /\ Len(t) = Len(s) + 1
      /\ \A i \in 1 .. Len(s) : t[i] = s[i] /\ s[i] \in Nat
      /\ t[Len(s) + 1] = r /\ r \in Nat
  BY ReplicaAssumption DEF Record
<1> HIDE DEF t
<1>2. Increasing(t)
  BY <1>1 DEF Increasing
<1>3. \A i \in 1 .. Len(t) : t[i] <= r
  BY <1>1
<1>4. Occurs(r, t)
  BY <1>1 DEF Occurs
<1>5. \A x : Occurs(x, s) => Occurs(x, t)
  BY <1>1 DEF Occurs
<1> QED BY <1>2, <1>3, <1>4, <1>5 DEF t

\* A request that loadRecords takes for news is beyond the head: a counted
\* one because the head's counter is exact, one without counter because every
\* record up to the head is in the blockstore or in progress.
LEMMA NewsBeyondHead ==
  ASSUME TypeInv, Trusted, Positions, NoneSkipped, NEW q \in Request, isNews(q),
         chainStart(q) <= q.last
  PROVE  chainStart(q) = head.id + 1
<1> SUFFICES ASSUME ~(head.id <= q.last) PROVE FALSE
  BY DEF chainStart
<1>1. /\ q.last \in 1 .. written /\ q.counter \in 0 .. written /\ written \in Nat
      /\ q.counter <= q.last
      /\ q.counter = CounterUndef => LegacyPeers
  BY RequestType, ReplicaAssumption DEF TypeInv, TypeOK, Trusted
<1>2. head.id \in Nat /\ head.counter = head.id /\ q.last \in 1 .. head.id
  BY <1>1, HeadType DEF Positions
<1>3. CASE q.counter # CounterUndef
  BY <1>1, <1>2, <1>3 DEF isNews
<1>4. CASE q.counter = CounterUndef
  <2>1. q.last \notin blocks /\ interrupted = {}
    BY <1>1, <1>4 DEF isNews, Trusted
  <2>2. InProgress(q.last)
    BY <1>2, <2>1 DEF NoneSkipped, Processed
  <2>3. PICK p \in Putters : pc[p] \in {"handle", "add"} /\ job[p].next = q.last
    BY <2>2 DEF InProgress
  <2>4. job[p].next = head.id
    BY <2>3 DEF Positions, Holding, After
  <2> QED BY <1>1, <1>2, <2>3, <2>4
<1> QED BY <1>3, <1>4

\* Records are interrupted for good, so a trusted state has only trusted
\* predecessors.
LEMMA TrustedBefore == [Next]_vars /\ Trusted' => Trusted
<1> SUFFICES ASSUME [Next]_vars PROVE interrupted \subseteq interrupted'
  BY DEF Trusted
<1>1. ASSUME NEW p \in Putters, process(p) PROVE interrupted \subseteq interrupted'
  BY <1>1 DEF process, readError, validateOK, validateReject, setHead, setHeadError,
     handleNetRecord, handleError, addEnvelope, addError, interrupt, sendToBus,
     sendTimeout
<1> QED BY <1>1 DEF Next, Write, getRecord, loadRecords, loadError, ignoreRecords,
        recheckHead, recheckWith, Crash, vars

Order == Positions /\ AppliedUpToHead /\ SentUpToHead /\ NoneSkipped

\* Steps that at most add blocks.
LEMMA StoreOrder ==
  ASSUME Order, blocks \subseteq blocks',
         UNCHANGED <<head, pc, job, applied, sent, interrupted>>
  PROVE  Order'
<1>1. Positions'
  BY DEF Order, Positions, Waiting, Holding
<1>2. AppliedUpToHead' /\ SentUpToHead'
  BY DEF Order, AppliedUpToHead, SentUpToHead, Increasing
<1>3. NoneSkipped'
  BY DEF Order, NoneSkipped, Processed, InProgress, Occurs
<1> QED BY <1>1, <1>2, <1>3 DEF Order

\* Steps by which some goroutines return, or wait for nothing any more.
LEMMA LeaveOrder ==
  ASSUME TypeInv, Order, UNCHANGED <<head, blocks, applied, sent>>,
         pc' \in [Putters -> {"idle", "acquire"} \cup Inside],
         \A r \in Putters : pc'[r] # "idle" => pc'[r] = pc[r] /\ job'[r] = job[r],
         interrupted \subseteq interrupted',
         \A r \in Putters : pc[r] \in {"handle", "add"} /\ pc'[r] = "idle" =>
           job[r].next \in interrupted'
  PROVE  Order'
<1>1. Positions'
  BY DEF Order, Positions, Waiting, Holding, Before, After
<1>2. AppliedUpToHead'
  BY DEF Order, AppliedUpToHead, Increasing
<1>3. SentUpToHead'
  BY DEF Order, SentUpToHead, Increasing, After
<1>4. ASSUME NEW r, Processed(r) PROVE Processed(r)'
  BY <1>4 DEF Processed, InProgress, Occurs
<1>5. NoneSkipped'
  BY <1>4 DEF Order, NoneSkipped, Occurs
<1> QED BY <1>1, <1>2, <1>3, <1>5 DEF Order

LEMMA ReturnOrder ==
  ASSUME TypeInv, Order, NEW p \in Putters, return(p),
         UNCHANGED <<head, blocks, applied, sent>>,
         interrupted \subseteq interrupted',
         pc[p] \in {"handle", "add"} => job[p].next \in interrupted'
  PROVE  Order'
<1>1. pc' \in [Putters -> {"idle", "acquire"} \cup Inside]
  BY DEF return, TypeInv, TypeOK
<1>2. \A r \in Putters : pc'[r] # "idle" => pc'[r] = pc[r] /\ job'[r] = job[r]
  BY DEF return, TypeInv, TypeOK
<1>3. \A r \in Putters : pc[r] \in {"handle", "add"} /\ pc'[r] = "idle" => r = p
  BY DEF return, TypeInv, TypeOK
<1> QED BY <1>1, <1>2, <1>3, LeaveOrder

\* loadRecords: the chain starts right after the head it saw.
LEMMA LoadOrder ==
  ASSUME TypeInv, Trusted, Order, NEW p \in Putters, NEW q \in Request,
         loadRecords(p, q)
  PROVE  Order'
<1>1. chainStart(q) = head.id + 1
  BY NewsBeyondHead DEF Order, loadRecords
<1>2. /\ pc[p] = "idle" /\ pc'[p] = "acquire"
      /\ job'[p].next = head.id + 1 /\ job'[p].head = head
  BY <1>1 DEF loadRecords, TypeInv, TypeOK
<1>3. \A r \in Putters \ {p} : pc'[r] = pc[r] /\ job'[r] = job[r]
  BY DEF loadRecords, TypeInv, TypeOK
<1>4. UNCHANGED <<head, applied, sent, interrupted>> /\ blocks \subseteq blocks'
  BY DEF loadRecords
<1>5. Positions'
  BY <1>2, <1>3, <1>4 DEF Order, Positions, Waiting, Holding, Before, After
<1>6. AppliedUpToHead'
  BY <1>2, <1>3, <1>4 DEF Order, AppliedUpToHead, Increasing
<1>7. SentUpToHead'
  BY <1>2, <1>3, <1>4 DEF Order, SentUpToHead, Increasing, After
<1>8. ASSUME NEW r, Processed(r) PROVE Processed(r)'
  BY <1>2, <1>3, <1>4, <1>8 DEF Processed, InProgress, Occurs
<1>9. NoneSkipped'
  BY <1>2, <1>3, <1>4, <1>8 DEF Order, NoneSkipped, Occurs
<1> QED BY <1>5, <1>6, <1>7, <1>9 DEF Order

\* A goroutine enters the loop, or goes on with it, before SetHead.
LEMMA EnterOrder ==
  ASSUME TypeInv, Order, NEW p \in Putters,
         pc[p] \in {"acquire", "validate"}, pc'[p] \in Before,
         job'[p].next = head.id + 1, job'[p].counter = head.id,
         \A r \in Putters \ {p} : pc'[r] = pc[r] /\ job'[r] = job[r],
         UNCHANGED <<head, blocks, applied, sent, interrupted>>
  PROVE  Order'
<1>1. Positions'
  BY DEF Order, Positions, Waiting, Holding, Before, After
<1>2. AppliedUpToHead'
  BY DEF Order, AppliedUpToHead, Increasing, Before
<1>3. SentUpToHead'
  BY DEF Order, SentUpToHead, Increasing, Before, After
<1>4. ASSUME NEW r, Processed(r) PROVE Processed(r)'
  BY <1>4 DEF Processed, InProgress, Occurs
<1>5. NoneSkipped'
  BY <1>4 DEF Order, NoneSkipped, Occurs, Before
<1> QED BY <1>1, <1>2, <1>3, <1>5 DEF Order

\* The check of the head under the semaphore.
LEMMA RecheckOrder ==
  ASSUME TypeInv, Order, NEW p \in Putters, recheckHead(p)
  PROVE  Order'
<1> DEFINE j == job[p]
           moved == head.id # j.head.id
           next == IF moved THEN head.id + 1 ELSE j.next
           base == IF moved THEN head.counter ELSE j.head.counter
           quit == moved /\ head.id \notin j.next .. j.last - 1
<1>1. recheckWith(p, next, base, quit)
  BY DEF recheckHead
<1>2. CASE quit
  <2>1. return(p) /\ UNCHANGED <<head, blocks, applied, sent, interrupted>>
        /\ pc[p] = "acquire"
    BY <1>1, <1>2 DEF recheckWith, return
  <2> QED BY <2>1, ReturnOrder
<1>3. CASE ~quit
  <2>1. next = head.id + 1 /\ base = head.id
    BY <1>1 DEF recheckWith, Order, Positions, Waiting
  <2> HIDE DEF next, base
  <2>2. job' = [job EXCEPT ![p].next = next, ![p].counter = base]
    BY <1>1, <1>3 DEF recheckWith
  <2>3. job[p] \in Job
    BY DEF TypeInv, TypeOK
  <2>4. job'[p] = [job[p] EXCEPT !.next = next, !.counter = base]
    BY <2>2 DEF TypeInv, TypeOK
  <2>5. job'[p].next = next /\ job'[p].counter = base
    BY <2>3, <2>4 DEF Job
  <2>6. pc[p] = "acquire" /\ pc'[p] \in Before
    BY <1>1, <1>3 DEF recheckWith, firstStep, Before, TypeInv, TypeOK
  <2>7. \A r \in Putters \ {p} : pc'[r] = pc[r] /\ job'[r] = job[r]
    BY <1>1, <1>3 DEF recheckWith, TypeInv, TypeOK
  <2>8. UNCHANGED <<head, blocks, applied, sent, interrupted>>
    BY <1>1 DEF recheckWith
  <2> QED BY <2>1, <2>5, <2>6, <2>7, <2>8, EnterOrder
<1> QED BY <1>2, <1>3

\* SetHead: the head moves by one, to a record in progress.
LEMMA SetHeadOrder ==
  ASSUME TypeInv, Order, NEW p \in Putters, setHead(p)
  PROVE  Order' /\ head'.id = head.id + 1 /\ head'.counter = head.id + 1
<1>1. /\ pc[p] = "sethead" /\ pc[p] \in Inside
      /\ job[p].next = head.id + 1 /\ job[p].counter = head.id
  BY DEF setHead, Order, Positions, Holding, Inside, Before
<1>2. head' = [id |-> head.id + 1, counter |-> head.id + 1]
  BY <1>1 DEF setHead
<1>3. job'[p].next = head.id + 1 /\ job'[p].counter = head.id + 1
  <2>1. job'[p] = [job[p] EXCEPT !.counter = head.id + 1]
    BY <1>1 DEF setHead, TypeInv, TypeOK
  <2>2. job[p] \in Job
    BY DEF TypeInv, TypeOK
  <2> QED BY <1>1, <2>1, <2>2 DEF Job
<1>4. pc'[p] = IF AppConnected THEN "handle" ELSE "add"
  BY DEF setHead, TypeInv, TypeOK
<1>5. \A r \in Putters \ {p} :
        pc'[r] = pc[r] /\ job'[r] = job[r] /\ pc[r] \notin Inside
  BY <1>1, Alone DEF setHead, TypeInv, TypeOK
<1>6. UNCHANGED <<blocks, applied, sent, interrupted>>
  BY DEF setHead
<1>7. head.id \in Nat
  BY HeadType
<1>8. Positions'
  BY <1>2, <1>3, <1>4, <1>5 DEF Order, Positions, Waiting, Holding, Inside, Before, After
<1>9. AppliedUpToHead'
  <2>1. \A i \in 1 .. Len(applied) : applied[i] < head.id + 1 /\ applied[i] <= head.id + 1
    <3>1. \A i \in 1 .. Len(applied) : applied[i] \in Nat
      BY ReplicaAssumption DEF TypeInv, TypeOK, Record
    <3> QED BY <1>7, <3>1 DEF Order, AppliedUpToHead
  <2>2. head'.id = head.id + 1 /\ applied' = applied
    BY <1>2, <1>6
  <2> QED BY <2>1, <2>2 DEF Order, AppliedUpToHead, Increasing
<1>10. SentUpToHead'
  <2>1. \A i \in 1 .. Len(sent) : sent[i] < head.id + 1 /\ sent[i] <= head.id + 1
    <3>1. \A i \in 1 .. Len(sent) : sent[i] \in Nat
      BY ReplicaAssumption DEF TypeInv, TypeOK, Record
    <3> QED BY <1>7, <3>1 DEF Order, SentUpToHead
  <2>2. head'.id = head.id + 1 /\ sent' = sent
    BY <1>2, <1>6
  <2> QED BY <2>1, <2>2 DEF Order, SentUpToHead, Increasing
<1>11. ASSUME NEW r, Processed(r) PROVE Processed(r)'
  <2>1. ~InProgress(r)
    BY <1>1, <1>5 DEF InProgress, Inside, After
  <2> QED BY <1>6, <1>11, <2>1 DEF Processed, Occurs
<1>12. pc'[p] \in {"handle", "add"} /\ job'[p].next = head.id + 1
  BY <1>3, <1>4
<1>13. \A r \in 1 .. head'.id : Processed(r)'
  <2>1. \A r \in 1 .. head'.id : r \in 1 .. head.id \/ r = head.id + 1
    BY <1>2, <1>7
  <2>2. ASSUME NEW r, r = head.id + 1 PROVE Processed(r)'
    BY <1>12, <2>2 DEF Processed, InProgress
  <2> QED BY <1>11, <2>1, <2>2 DEF Order, NoneSkipped
<1>14. NoneSkipped'
  BY <1>4, <1>5, <1>13 DEF NoneSkipped, Inside, After
<1> QED BY <1>2, <1>8, <1>9, <1>10, <1>14 DEF Order

\* HandleNetRecord: the record at the head is appended to what was applied.
LEMMA HandleOrder ==
  ASSUME TypeInv, Order, NEW p \in Putters, handleNetRecord(p)
  PROVE  Order'
<1>1. /\ pc[p] = "handle" /\ pc[p] \in Inside /\ pc'[p] = "add"
      /\ job[p].next = head.id /\ job[p].next \in Record
  BY InsideType
     DEF handleNetRecord, Order, Positions, Holding, Inside, After, TypeInv, TypeOK
<1>2. \A r \in Putters \ {p} : pc'[r] = pc[r] /\ pc[r] \notin Inside
  BY <1>1, Alone DEF handleNetRecord, TypeInv, TypeOK
<1>3. UNCHANGED <<head, job, blocks, sent, interrupted>>
      /\ applied' = Append(applied, head.id)
  BY <1>1 DEF handleNetRecord
<1>4. /\ applied \in Seq(Record) /\ Increasing(applied)
      /\ \A i \in 1 .. Len(applied) : applied[i] < head.id
  BY <1>1 DEF TypeInv, TypeOK, Order, AppliedUpToHead
<1>5. /\ Increasing(applied') /\ Occurs(head.id, applied')
      /\ \A i \in 1 .. Len(applied') : applied'[i] <= head.id
      /\ \A x : Occurs(x, applied) => Occurs(x, applied')
  BY <1>1, <1>3, <1>4, IncreasingAppend
<1>6. Positions'
  BY <1>1, <1>2, <1>3 DEF Order, Positions, Waiting, Holding, Before, After
<1>7. AppliedUpToHead'
  <2>1. \A r \in Putters : pc'[r] # "handle"
    BY <1>1, <1>2 DEF Inside, After
  <2>2. Increasing(applied)' /\ head'.id = head.id
    BY <1>3, <1>5 DEF Increasing
  <2> QED BY <1>5, <2>1, <2>2 DEF AppliedUpToHead
<1>8. SentUpToHead'
  BY <1>1, <1>2, <1>3 DEF Order, SentUpToHead, Increasing, After
<1>9. ASSUME NEW r, Processed(r) PROVE Processed(r)'
  <2>1. InProgress(r) => InProgress(r)'
    BY <1>1, <1>2, <1>3 DEF InProgress
  <2>2. Occurs(r, applied) => Occurs(r, applied)'
    BY <1>5 DEF Occurs
  <2> QED BY <1>3, <1>9, <2>1, <2>2 DEF Processed
<1>10. NoneSkipped'
  <2>1. Occurs(job[p].next, applied)'
    BY <1>1, <1>3, <1>5 DEF Occurs
  <2>2. \A r \in Putters \ {p} : pc'[r] # "add"
    BY <1>2 DEF Inside, After
  <2> QED BY <1>3, <1>9, <2>1, <2>2 DEF Order, NoneSkipped
<1> QED BY <1>6, <1>7, <1>8, <1>10 DEF Order

\* The envelope is stored: the record at the head is processed.
LEMMA AddOrder ==
  ASSUME TypeInv, Order, NEW p \in Putters, addEnvelope(p)
  PROVE  Order'
<1>1. /\ pc[p] = "add" /\ pc[p] \in Inside /\ pc'[p] = "send"
      /\ job[p].next = head.id
  BY DEF addEnvelope, Order, Positions, Holding, Inside, After, TypeInv, TypeOK
<1>2. \A r \in Putters \ {p} : pc'[r] = pc[r] /\ pc[r] \notin Inside
  BY <1>1, Alone DEF addEnvelope, TypeInv, TypeOK
<1>3. UNCHANGED <<head, job, applied, sent, interrupted>>
      /\ blocks' = blocks \cup {head.id}
  BY <1>1 DEF addEnvelope
<1>4. Positions'
  BY <1>1, <1>2, <1>3 DEF Order, Positions, Waiting, Holding, Before, After
<1>5. AppliedUpToHead'
  BY <1>1, <1>2, <1>3 DEF Order, AppliedUpToHead, Increasing
<1>6. SentUpToHead'
  BY <1>1, <1>2, <1>3 DEF Order, SentUpToHead, Increasing, After
<1>7. ASSUME NEW r, Processed(r) PROVE Processed(r)'
  <2>1. InProgress(r) => r = head.id
    BY <1>1, <1>2 DEF InProgress, Inside, After
  <2>2. AppConnected => Occurs(head.id, applied)
    BY <1>1 DEF Order, NoneSkipped
  <2>3. Occurs(r, applied) => Occurs(r, applied)'
    BY <1>3 DEF Occurs
  <2> QED BY <1>3, <1>7, <2>1, <2>2, <2>3 DEF Processed
<1>8. NoneSkipped'
  <2>1. \A r \in Putters : pc'[r] # "add"
    BY <1>1, <1>2 DEF Inside, After
  <2> QED BY <1>3, <1>7, <2>1 DEF Order, NoneSkipped
<1> QED BY <1>4, <1>5, <1>6, <1>8 DEF Order

\* The broadcast: the record at the head is appended to what was sent.
LEMMA SendOrder ==
  ASSUME TypeInv, Order, NEW p \in Putters, sendToBus(p)
  PROVE  Order'
<1>1. /\ pc[p] = "send" /\ pc[p] \in Inside
      /\ job[p].next = head.id /\ job[p].counter = head.id /\ job[p].next \in Record
  BY InsideType DEF sendToBus, Order, Positions, Holding, Inside, After
<1>2. \A r \in Putters \ {p} :
        pc'[r] = pc[r] /\ job'[r] = job[r] /\ pc[r] \notin Inside
  BY <1>1, Alone DEF sendToBus, return, TypeInv, TypeOK
<1>3. UNCHANGED <<head, blocks, applied, interrupted>>
      /\ sent' = Append(sent, head.id)
  BY <1>1 DEF sendToBus
<1>4. \/ pc'[p] = "idle"
      \/ /\ pc'[p] \in Before
         /\ job'[p].next = head.id + 1 /\ job'[p].counter = head.id
  <2>1. CASE job[p].next < job[p].last
    <3>1. job'[p] = [job[p] EXCEPT !.next = head.id + 1]
      BY <1>1, <2>1 DEF sendToBus, TypeInv, TypeOK
    <3>2. job[p] \in Job
      BY DEF TypeInv, TypeOK
    <3>3. job'[p].next = head.id + 1 /\ job'[p].counter = head.id
      BY <1>1, <3>1, <3>2 DEF Job
    <3>4. pc'[p] \in Before
      BY <2>1 DEF sendToBus, firstStep, Before, TypeInv, TypeOK
    <3> QED BY <3>3, <3>4
  <2>2. CASE ~(job[p].next < job[p].last)
    BY <2>2 DEF sendToBus, return, TypeInv, TypeOK
  <2> QED BY <2>1, <2>2
<1>5. /\ sent \in Seq(Record) /\ Increasing(sent)
      /\ \A i \in 1 .. Len(sent) : sent[i] < head.id
  BY <1>1 DEF TypeInv, TypeOK, Order, SentUpToHead, After
<1>6. /\ Increasing(sent')
      /\ \A i \in 1 .. Len(sent') : sent'[i] <= head.id
  BY <1>1, <1>3, <1>5, IncreasingAppend
<1>7. Positions'
  BY <1>2, <1>3, <1>4 DEF Order, Positions, Waiting, Holding, Inside, Before, After
<1>8. AppliedUpToHead'
  BY <1>2, <1>3, <1>4 DEF Order, AppliedUpToHead, Increasing, Before
<1>9. SentUpToHead'
  <2>1. \A r \in Putters : pc'[r] \notin After
    BY <1>2, <1>4 DEF Inside, Before, After
  <2>2. Increasing(sent)' /\ head'.id = head.id
    BY <1>3, <1>6 DEF Increasing
  <2> QED BY <1>6, <2>1, <2>2 DEF SentUpToHead
<1>10. ASSUME NEW r, Processed(r) PROVE Processed(r)'
  <2>1. ~InProgress(r)
    BY <1>1, <1>2 DEF InProgress, Inside, After
  <2> QED BY <1>3, <1>10, <2>1 DEF Processed, Occurs
<1>11. NoneSkipped'
  <2>1. \A r \in Putters : pc'[r] # "add"
    BY <1>2, <1>4 DEF Inside, Before, After
  <2> QED BY <1>3, <1>10, <2>1 DEF Order, NoneSkipped
<1> QED BY <1>7, <1>8, <1>9, <1>11 DEF Order

-----------------------------------------------------------------------------
(***************************************************************************)
(* The inductive invariant, and what follows from it.                      *)
(***************************************************************************)
LEMMA NextOrder ==
  ASSUME TypeInv, Trusted, Order, [Next]_vars
  PROVE  Order'
<1>1. CASE Write
  BY <1>1, StoreOrder DEF Write
<1>2. ASSUME NEW r \in Record, getRecord(r) PROVE Order'
  BY <1>2, StoreOrder DEF getRecord
<1>3. ASSUME NEW p \in Putters, NEW q \in Request, loadRecords(p, q) PROVE Order'
  BY <1>3, LoadOrder
<1>4. ASSUME NEW p \in Putters, NEW q \in Request, loadError(p, q) PROVE Order'
  BY <1>4, StoreOrder DEF loadError
<1>5. ASSUME NEW p \in Putters, NEW q \in Request, ignoreRecords(p, q) PROVE Order'
  BY <1>5, StoreOrder DEF ignoreRecords, vars
<1>6. ASSUME NEW p \in Putters, recheckHead(p) PROVE Order'
  BY <1>6, RecheckOrder
<1>7. ASSUME NEW p \in Putters, process(p) PROVE Order'
  <2>1. CASE readError(p)
    BY <2>1, ReturnOrder DEF readError
  <2>2. CASE validateOK(p)
    <3>1. /\ pc[p] = "validate" /\ pc'[p] = "sethead"
          /\ \A r \in Putters \ {p} : pc'[r] = pc[r]
          /\ UNCHANGED <<head, job, blocks, applied, sent, interrupted>>
      BY <2>2 DEF validateOK, TypeInv, TypeOK
    <3>2. job'[p].next = head.id + 1 /\ job'[p].counter = head.id
      BY <3>1 DEF Order, Positions, Holding, Before
    <3> QED BY <3>1, <3>2, EnterOrder DEF Before
  <2>3. CASE validateReject(p)
    BY <2>3, ReturnOrder DEF validateReject
  <2>4. CASE setHead(p)
    BY <2>4, SetHeadOrder
  <2>5. CASE setHeadError(p)
    BY <2>5, ReturnOrder DEF setHeadError
  <2>6. CASE handleNetRecord(p)
    BY <2>6, HandleOrder
  <2>7. CASE handleError(p) \/ addError(p)
    BY <2>7, ReturnOrder DEF handleError, addError, interrupt
  <2>8. CASE addEnvelope(p)
    BY <2>8, AddOrder
  <2>9. CASE sendToBus(p)
    BY <2>9, SendOrder
  <2>10. CASE sendTimeout(p)
    BY <2>10, ReturnOrder DEF sendTimeout
  <2> QED BY <1>7, <2>1, <2>2, <2>3, <2>4, <2>5, <2>6, <2>7, <2>8, <2>9, <2>10
          DEF process
<1>8. CASE Crash
  <2>1. pc' = [p \in Putters |-> "idle"]
    BY <1>8 DEF Crash
  <2>2. interrupted \subseteq interrupted'
    BY <1>8 DEF Crash
  <2>3. \A r \in Putters : pc[r] \in {"handle", "add"} => job[r].next \in interrupted'
    BY <1>8 DEF Crash
  <2> QED BY <1>8, <2>1, <2>2, <2>3, LeaveOrder DEF Crash
<1>9. CASE UNCHANGED vars
  BY <1>9, StoreOrder DEF vars
<1> QED BY <1>1, <1>2, <1>3, <1>4, <1>5, <1>6, <1>7, <1>8, <1>9 DEF Next

LEMMA InitIInv == Init => IInv
<1> SUFFICES ASSUME Init PROVE OrderInv
  BY InitTypeInv DEF IInv
<1> USE DEF Init, HeadUndef, CounterUndef
<1>1. Positions
  BY DEF Positions, Waiting, Holding, Before, After
<1>2. AppliedUpToHead /\ SentUpToHead
  BY DEF AppliedUpToHead, SentUpToHead, Increasing, After
<1>3. NoneSkipped
  BY DEF NoneSkipped
<1> QED BY <1>1, <1>2, <1>3 DEF OrderInv

LEMMA NextIInv == IInv /\ [Next]_vars => IInv'
<1> SUFFICES ASSUME IInv, [Next]_vars PROVE IInv'
  OBVIOUS
<1>1. TypeInv'
  BY NextTypeInv DEF IInv
<1>2. ASSUME Trusted' PROVE Order'
  <2>1. Trusted
    BY <1>2, TrustedBefore
  <2> QED BY <2>1, NextOrder DEF IInv, OrderInv, Order
<1>3. OrderInv'
  BY <1>2 DEF OrderInv, Order
<1> QED BY <1>1, <1>3 DEF IInv

LEMMA IInvInvariant == Spec => []IInv
BY InitIInv, NextIInv, PTL DEF Spec

\* The head's counter is the position of the head's record in the log,
\* whatever interleaving of putRecords calls produced it.
THEOREM CounterIsExact == Spec => []CounterExact
<1>1. IInv => CounterExact
  BY DEF IInv, OrderInv, Positions, CounterExact
<1> QED BY IInvInvariant, <1>1, PTL

\* HandleNetRecord is called with the records of the log in log order, and
\* with none of them twice.
THEOREM AppliesInOrder == Spec => []AppliedInOrder
<1>1. IInv => AppliedInOrder
  BY DEF IInv, OrderInv, AppliedUpToHead, AppliedInOrder
<1> QED BY IInvInvariant, <1>1, PTL

\* Listeners of the event bus see the records in log order, none twice.
THEOREM BroadcastsInOrder == Spec => []BroadcastInOrder
<1>1. IInv => BroadcastInOrder
  BY DEF IInv, OrderInv, SentUpToHead, BroadcastInOrder
<1> QED BY IInvInvariant, <1>1, PTL

\* Every record up to the head was handled and stored, is being processed,
\* or is one whose own processing failed after SetHead.
THEOREM SkipsNothing == Spec => []NothingSkipped
<1>1. IInv => NothingSkipped
  BY DEF IInv, OrderInv, NoneSkipped, Processed, NothingSkipped
<1> QED BY IInvInvariant, <1>1, PTL

\* Only SetHead changes the head.
LEMMA HeadChange ==
  ASSUME [Next]_vars, head' # head
  PROVE  \E p \in Putters : setHead(p)
<1>1. ASSUME NEW p \in Putters, process(p) PROVE setHead(p)
  BY <1>1 DEF process, readError, validateOK, validateReject, setHeadError,
     handleNetRecord, handleError, addEnvelope, addError, interrupt, sendToBus,
     sendTimeout
<1> QED BY <1>1 DEF Next, Write, getRecord, loadRecords, loadError, ignoreRecords,
        recheckHead, recheckWith, Crash, vars

\* SetHead never moves the head back or past a record.
THEOREM HeadNeverJumps == Spec => HeadMovesByOne
<1>1. IInv /\ [Next]_vars => [Trusted' => head'.id = head.id + 1]_head
  <2> SUFFICES ASSUME IInv, [Next]_vars, head' # head, Trusted'
               PROVE  head'.id = head.id + 1
    OBVIOUS
  <2>1. TypeInv /\ Order
    BY TrustedBefore DEF IInv, OrderInv, Order
  <2> QED BY <2>1, HeadChange, SetHeadOrder
<1> QED BY IInvInvariant, <1>1, PTL DEF Spec, HeadMovesByOne

-----------------------------------------------------------------------------
(***************************************************************************)
(* The calls implement the abstract replica.                               *)
(***************************************************************************)

\* Only HandleNetRecord changes what was applied, only Write the log.
LEMMA AppliedChange ==
  ASSUME [Next]_vars
  PROVE  /\ applied' # applied => \E p \in Putters : handleNetRecord(p)
         /\ written' # written => Write
<1>1. ASSUME NEW p \in Putters, process(p)
      PROVE  (applied' = applied \/ handleNetRecord(p)) /\ written' = written
  BY <1>1 DEF process, readError, validateOK, validateReject, setHead, setHeadError,
     handleNetRecord, handleError, addEnvelope, addError, interrupt, sendToBus,
     sendTimeout
<1> QED BY <1>1 DEF Next, Write, getRecord, loadRecords, loadError, ignoreRecords,
        recheckHead, recheckWith, Crash, vars

\* With counters on every put, and replies that are not cut short, the
\* concurrent putRecords calls implement the atomic replica of LogPromise.
THEOREM ReplicaImplementsPromise ==
  ASSUME ~LegacyPeers, "short" \notin Faults
  PROVE  Spec => ImplementsPromise
<1>1. Init => Promise!Init
  BY DEF Init, Promise!Init, HeadUndef, CounterUndef
<1>2. IInv /\ [Next]_vars => [Promise!Next]_(Promise!vars)
  <2> SUFFICES ASSUME IInv, [Next]_vars PROVE [Promise!Next]_(Promise!vars)
    OBVIOUS
  <2>1. TypeInv /\ Order
    BY DEF IInv, OrderInv, Order, Trusted
  <2>2. CASE head' # head
    <3>1. PICK p \in Putters : setHead(p)
      BY <2>2, HeadChange
    <3>2. /\ pc[p] \in Inside /\ job[p].next = head.id + 1
          /\ job[p].counter = head.id
      BY <2>1, <3>1 DEF setHead, Order, Positions, Holding, Inside, Before
    <3>3. head.id < written
      <4>1. /\ job[p].next <= job[p].last /\ job[p].last <= written
            /\ job[p].last \in Record
        BY <2>1, <3>2, InsideType
      <4>2. head.id \in Nat /\ written \in Nat /\ job[p].last \in Nat
        BY <2>1, <4>1, HeadType, ReplicaAssumption DEF Record, TypeInv, TypeOK
      <4> QED BY <3>2, <4>1, <4>2
    <3>4. head' = [id |-> head.id + 1, counter |-> head.id + 1]
          /\ UNCHANGED <<written, applied>>
      BY <3>1, <3>2 DEF setHead
    <3> QED BY <3>3, <3>4 DEF Promise!Next, Promise!Advance
  <2>3. CASE applied' # applied
    <3>1. PICK p \in Putters : handleNetRecord(p)
      BY <2>3, AppliedChange
    <3>2. /\ pc[p] = "handle" /\ job[p].next = head.id
          /\ \A i \in 1 .. Len(applied) : applied[i] < head.id
      BY <2>1, <3>1 DEF handleNetRecord, Order, Positions, Holding, After,
         AppliedUpToHead
    <3> QED BY <3>1, <3>2 DEF handleNetRecord, Promise!Next, Promise!Apply
  <2>4. CASE written' # written
    BY <2>4, AppliedChange DEF Write, Promise!Next, Promise!Append1
  <2>5. CASE UNCHANGED <<written, head, applied>>
    BY <2>5 DEF Promise!vars
  <2> QED BY <2>2, <2>3, <2>4, <2>5
<1> QED BY IInvInvariant, <1>1, <1>2, PTL DEF Spec, ImplementsPromise, Promise!Spec

=============================================================================
