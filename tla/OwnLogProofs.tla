----------------------------- MODULE OwnLogProofs -----------------------------
(***************************************************************************)
(* Proofs about OwnLog, for any number of goroutines, records and logs:    *)
(* what the database's transaction lock buys, and where a record stands in *)
(* its log.                                                                *)
(***************************************************************************)
EXTENDS OwnLog, TLAPS

Info == [log : {NoLog} \cup LogIds, head : LogHead]

\* A goroutine past the lookup works on a log that exists; past newRecord its
\* record is one that was made, in that log and linked to the head in hand.
Linked(w) ==
  /\ pc[w] \in {"getlog", "putindex", "new", "sethead", "bus", "push", "dispatch"} =>
       info[w].log \in 1 .. logs
  /\ pc[w] \in {"sethead", "bus", "push", "dispatch"} =>
       /\ rec[w] \in 1 .. Len(records)
       /\ records[rec[w]] = [log |-> info[w].log, prev |-> info[w].head.id]

TypeInv ==
  /\ TypeOK
  /\ index \in 0 .. logs
  /\ \A w \in Writers : Linked(w)
  /\ \A r \in published : r <= Len(records)

LEMMA InitTypeInv == Init => TypeInv
BY OwnLogAssumption DEF Init, TypeInv, TypeOK, Linked, LogHead, HeadUndef, NoInfo,
   LogIds, Steps, NoLog

\* What TypeInv says about the values a goroutine has in hand.
LEMMA InHand ==
  ASSUME TypeInv
  PROVE  /\ Len(records) \in 0 .. MaxRec
         /\ \A l \in 1 .. logs : l \in LogIds
         /\ \A r \in 1 .. Len(records) : r \in 1 .. MaxRec
         /\ \A w \in Writers :
              /\ info[w] \in Info
              /\ info[w].head \in LogHead
              /\ info[w].head.id \in 0 .. MaxRec
              /\ info[w].head.counter \in Nat
<1>1. Len(records) \in Nat /\ Len(records) <= MaxRec /\ logs \in Nat /\ logs <= MaxLogs
  BY OwnLogAssumption DEF TypeInv, TypeOK
<1>2. \A w \in Writers : info[w] \in Info
  BY DEF TypeInv, TypeOK, Info
<1>3. \A w \in Writers : info[w].head \in LogHead
  BY <1>2 DEF Info
<1> QED BY <1>1, <1>2, <1>3, OwnLogAssumption DEF LogIds, LogHead

\* A goroutine that returns leaves no trace of itself.
LEMMA DoneType ==
  ASSUME TypeInv, NEW w \in Writers, done(w),
         UNCHANGED <<index, logs, head, records, published, pushed>>,
         state' \in Seq(1 .. MaxRec), interrupted' \subseteq 1 .. MaxRec
  PROVE  TypeInv'
<1> USE OwnLogAssumption DEF TypeInv, TypeOK
<1>1. /\ pc' \in [Writers -> {"idle"} \cup Steps]
      /\ info' \in [Writers -> Info]
      /\ rec' \in [Writers -> 0 .. MaxRec]
      /\ txnlock' \in Writers \cup {Nobody}
  BY DEF done, Info, NoInfo, HeadUndef, LogHead, NoLog
<1>2. TypeOK'
  BY <1>1, Zenon DEF Info
<1>3. \A v \in Writers : Linked(v)'
  BY DEF done, Linked
<1> QED BY <1>2, <1>3, Zenon

LEMMA NextTypeInv == TypeInv /\ [Next]_vars => TypeInv'
<1> SUFFICES ASSUME TypeInv, [Next]_vars PROVE TypeInv'
  OBVIOUS
<1> USE OwnLogAssumption
<1>1. ASSUME NEW w \in Writers, begin(w) PROVE TypeInv'
  <2>1. \A v \in Writers : Linked(v)'
    BY <1>1 DEF begin, goto, TypeInv, TypeOK, Linked
  <2> QED BY <1>1, <2>1 DEF begin, goto, TypeInv, TypeOK, Steps
<1>2. ASSUME NEW w \in Writers, NEW at, NEW fault, fail(w, at, fault) PROVE TypeInv'
  BY <1>2, DoneType DEF fail, inHand, TypeInv, TypeOK
<1>3. ASSUME NEW w \in Writers, lookup(w) PROVE TypeInv'
  <2>1. info' \in [Writers -> Info] /\ pc' \in [Writers -> {"idle"} \cup Steps]
    <3>1. CASE UNCHANGED info
      BY <1>3, <3>1, Zenon DEF lookup, goto, TypeInv, TypeOK, Info, Steps
    <3>2. CASE index # NoLog /\ info' = [info EXCEPT ![w].log = index]
      <4>1. info' = [info EXCEPT ![w] = [info[w] EXCEPT !.log = index]]
        BY <3>2 DEF TypeInv, TypeOK
      <4>2. [info[w] EXCEPT !.log = index] \in Info
        BY InHand, Zenon DEF TypeInv, TypeOK, Info
      <4> QED BY <1>3, <4>1, <4>2, Zenon DEF lookup, goto, TypeInv, TypeOK, Info, Steps
    <3>3. ASSUME NEW l \in 1 .. logs,
                 info' = [info EXCEPT ![w] = [log |-> l, head |-> head[l]]]
          PROVE  info' \in [Writers -> Info] /\ pc' \in [Writers -> {"idle"} \cup Steps]
      <4>1. [log |-> l, head |-> head[l]] \in Info
        BY InHand DEF TypeInv, TypeOK, Info
      <4> QED BY <1>3, <3>3, <4>1, Zenon DEF lookup, goto, TypeInv, TypeOK, Info, Steps
    <3> QED BY <1>3, <3>1, <3>2, <3>3 DEF lookup
  <2>2. ASSUME NEW v \in Writers PROVE Linked(v)'
    <3>1. CASE v # w
      BY <1>3, <3>1 DEF lookup, goto, TypeInv, TypeOK, Linked
    <3>2. CASE v = w
      <4>1. CASE index # NoLog /\ info' = [info EXCEPT ![w].log = index]
                 /\ goto(w, "getlog")
        <5>1. info'[w] = [info[w] EXCEPT !.log = index] /\ info[w] \in Info
          BY <4>1 DEF TypeInv, TypeOK, Info
        <5>2. info'[w].log = index /\ index \in 1 .. logs
          BY <4>1, <5>1 DEF TypeInv, TypeOK, Info, NoLog
        <5> QED BY <1>3, <3>2, <4>1, <5>2 DEF lookup, goto, TypeInv, TypeOK, Linked
      <4>2. ASSUME NEW l \in 1 .. logs, goto(w, "new"),
                   info' = [info EXCEPT ![w] = [log |-> l, head |-> head[l]]]
            PROVE  Linked(v)'
        BY <1>3, <3>2, <4>2 DEF lookup, goto, TypeInv, TypeOK, Linked
      <4>3. CASE goto(w, "addlog")
        BY <1>3, <3>2, <4>3 DEF lookup, goto, TypeInv, TypeOK, Linked
      <4> QED BY <1>3, <4>1, <4>2, <4>3 DEF lookup
    <3> QED BY <3>1, <3>2
  <2> QED BY <1>3, <2>1, <2>2 DEF lookup, TypeInv, TypeOK, Info
<1>4. ASSUME NEW w \in Writers, getLog(w) PROVE TypeInv'
  <2>1. info[w] \in Info /\ info[w].log \in LogIds
    BY <1>4, InHand, Zenon DEF getLog, TypeInv, Linked
  <2>2. info' = [info EXCEPT ![w] = [info[w] EXCEPT !.head = head[info[w].log]]]
    BY <1>4 DEF getLog, TypeInv, TypeOK
  <2>3. /\ [info[w] EXCEPT !.head = head[info[w].log]] \in Info
        /\ [info[w] EXCEPT !.head = head[info[w].log]].log = info[w].log
    BY <2>1, Zenon DEF Info, TypeInv, TypeOK
  <2>4. info' \in [Writers -> Info] /\ info'[w].log = info[w].log
    BY <2>2, <2>3 DEF TypeInv, TypeOK, Info
  <2>5. \A v \in Writers : Linked(v)'
    BY <1>4, <2>2, <2>4 DEF getLog, goto, TypeInv, TypeOK, Linked
  <2> QED BY <1>4, <2>4, <2>5 DEF getLog, goto, TypeInv, TypeOK, Info, Steps
<1>5. ASSUME NEW w \in Writers, addLog(w) PROVE TypeInv'
  <2>1. info' \in [Writers -> Info] /\ info'[w].log = logs + 1
    BY <1>5 DEF addLog, TypeInv, TypeOK, Info, LogIds, LogHead, HeadUndef
  <2>2. \A v \in Writers : Linked(v)'
    BY <1>5, <2>1 DEF addLog, goto, TypeInv, TypeOK, Linked
  <2> QED BY <1>5, <2>1, <2>2 DEF addLog, goto, TypeInv, TypeOK, Info, Steps
<1>6. ASSUME NEW w \in Writers, putIndex(w) PROVE TypeInv'
  <2>1. index' \in 1 .. logs /\ index' \in LogIds
    BY <1>6, InHand, Zenon DEF putIndex, TypeInv, Linked
  <2>2. \A v \in Writers : Linked(v)'
    BY <1>6 DEF putIndex, goto, TypeInv, TypeOK, Linked
  <2> QED BY <1>6, <2>1, <2>2 DEF putIndex, goto, TypeInv, TypeOK, Steps
<1>7. ASSUME NEW w \in Writers, newRecord(w) PROVE TypeInv'
  <2> DEFINE r == [log |-> info[w].log, prev |-> info[w].head.id]
  <2>1. info[w] \in Info /\ info[w].log \in 1 .. logs
    BY <1>7 DEF newRecord, TypeInv, TypeOK, Linked, Info
  <2>2. r \in [log : LogIds, prev : 0 .. MaxRec]
    BY <2>1, InHand
  <2>3. records' = Append(records, r) /\ rec' = [rec EXCEPT ![w] = Len(records) + 1]
    BY <1>7 DEF newRecord
  <2> HIDE DEF r
  <2>4. /\ records' \in Seq([log : LogIds, prev : 0 .. MaxRec])
        /\ Len(records') = Len(records) + 1 /\ Len(records') \in 0 .. MaxRec
        /\ Len(records) \in Nat
        /\ records'[Len(records) + 1] = r
        /\ \A i \in 1 .. Len(records) : records'[i] = records[i]
    BY <1>7, <2>2, <2>3 DEF newRecord, TypeInv, TypeOK
  <2>5. rec' \in [Writers -> 0 .. MaxRec] /\ rec'[w] = Len(records) + 1
    BY <2>3, <2>4 DEF TypeInv, TypeOK
  <2>6. ASSUME NEW v \in Writers PROVE Linked(v)'
    <3>1. CASE v # w
      BY <1>7, <2>3, <2>4, <3>1 DEF newRecord, goto, TypeInv, TypeOK, Linked
    <3>2. CASE v = w
      BY <1>7, <2>1, <2>4, <2>5, <3>2
         DEF newRecord, goto, TypeInv, TypeOK, Linked, r
    <3> QED BY <3>1, <3>2
  <2>7. \A x \in published' : x <= Len(records')
    BY <1>7, <2>4 DEF newRecord, TypeInv, TypeOK
  <2> QED BY <1>7, <2>4, <2>5, <2>6, <2>7 DEF newRecord, goto, TypeInv, TypeOK, Steps
<1>8. ASSUME NEW w \in Writers, setHead(w) PROVE TypeInv'
  <2>1. /\ info[w] \in Info /\ info[w].log \in LogIds
        /\ rec[w] \in 1 .. Len(records) /\ Len(records) <= MaxRec
    BY <1>8, InHand, Zenon DEF setHead, TypeInv, TypeOK, Linked
  <2>2. [id |-> rec[w], counter |-> info[w].head.counter + 1] \in LogHead
    BY <2>1, InHand DEF LogHead
  <2>3. head' \in [LogIds -> LogHead]
    BY <1>8, <2>1, <2>2 DEF setHead, TypeInv, TypeOK
  <2>4. /\ published' \subseteq 1 .. MaxRec
        /\ \A x \in published' : x <= Len(records)
    <3>1. rec[w] \in 1 .. MaxRec /\ rec[w] <= Len(records)
      BY <2>1, InHand
    <3>2. published' = published \cup {rec[w]}
      BY <1>8 DEF setHead
    <3> QED BY <3>1, <3>2, Zenon DEF TypeInv, TypeOK
  <2>5. \A v \in Writers : Linked(v)'
    BY <1>8 DEF setHead, goto, TypeInv, TypeOK, Linked
  <2>6. pc' \in [Writers -> {"idle"} \cup Steps]
    BY <1>8 DEF setHead, goto, TypeInv, TypeOK, Steps
  <2> QED BY <1>8, <2>3, <2>4, <2>5, <2>6, Zenon DEF setHead, TypeInv, TypeOK
<1>9. ASSUME NEW w \in Writers, sendToBus(w) PROVE TypeInv'
  <2>1. \A v \in Writers : Linked(v)'
    BY <1>9 DEF sendToBus, goto, TypeInv, TypeOK, Linked
  <2> QED BY <1>9, <2>1 DEF sendToBus, goto, TypeInv, TypeOK, Steps
<1>10. ASSUME NEW w \in Writers, pushRecord(w) PROVE TypeInv'
  <2>1. info[w] \in Info /\ rec[w] \in 1 .. Len(records) /\ Len(records) <= MaxRec
    BY <1>10, Zenon DEF pushRecord, TypeInv, TypeOK, Linked, Info
  <2>2. pushed' \subseteq [rec : 1 .. MaxRec, counter : Nat]
    <3>1. [rec |-> rec[w], counter |-> info[w].head.counter + 1]
            \in [rec : 1 .. MaxRec, counter : Nat]
      BY <2>1, InHand
    <3> QED BY <1>10, <3>1 DEF pushRecord, TypeInv, TypeOK
  <2>3. CASE Serialized
    <3>1. \A v \in Writers : Linked(v)'
      BY <1>10, <2>3 DEF pushRecord, goto, TypeInv, TypeOK, Linked
    <3> QED BY <1>10, <2>2, <2>3, <3>1, Zenon DEF pushRecord, goto, TypeInv, TypeOK, Steps
  <2>4. CASE ~Serialized
    <3> NoInfo \in Info
      BY DEF Info, NoInfo, HeadUndef, LogHead, NoLog
    <3> done(w) /\ UNCHANGED <<index, logs, head, records, published, state,
                               interrupted>>
      BY <1>10, <2>4 DEF pushRecord
    <3>1. /\ pc' \in [Writers -> {"idle"} \cup Steps]
          /\ info' \in [Writers -> Info]
          /\ rec' \in [Writers -> 0 .. MaxRec]
          /\ UNCHANGED txnlock
      BY <2>4 DEF done, Info, TypeInv, TypeOK
    <3>2. \A v \in Writers : Linked(v)'
      BY DEF done, TypeInv, TypeOK, Linked
    <3> QED BY <1>10, <2>2, <3>1, <3>2 DEF pushRecord, TypeInv, TypeOK, Info
  <2> QED BY <2>3, <2>4
<1>11. ASSUME NEW w \in Writers, dispatch(w) PROVE TypeInv'
  <2>1. rec[w] \in 1 .. MaxRec
    BY <1>11, InHand, Zenon DEF dispatch, TypeInv, Linked
  <2>2. state' \in Seq(1 .. MaxRec)
    BY <1>11, <2>1 DEF dispatch, TypeInv, TypeOK
  <2> QED BY <1>11, <2>2, DoneType, Zenon DEF dispatch, TypeInv, TypeOK
<1>12. CASE Crash
  <2>1. /\ pc' \in [Writers -> {"idle"} \cup Steps] /\ info' \in [Writers -> Info]
        /\ rec' \in [Writers -> 0 .. MaxRec]
    BY <1>12 DEF Crash, Info, NoInfo, HeadUndef, LogHead, NoLog
  <2>2. \A v \in Writers : Linked(v)'
    BY <1>12 DEF Crash, Linked
  <2>3. interrupted' \subseteq 1 .. MaxRec
    BY <1>12 DEF Crash, inHand, TypeInv, TypeOK
  <2> QED BY <1>12, <2>1, <2>2, <2>3 DEF Crash, TypeInv, TypeOK, Info
<1>13. CASE UNCHANGED vars
  BY <1>13 DEF vars, TypeInv, TypeOK, Linked
<1> QED BY <1>1, <1>2, <1>3, <1>4, <1>5, <1>6, <1>7, <1>8, <1>9, <1>10, <1>11, <1>12,
          <1>13 DEF Next, step, invalid, storeError, sendTimeout, pushError,
          dispatchError

\* Every value that CreateRecord computes and stores has its type: heads are
\* records that were made, in logs that exist.
THEOREM TypeCorrect == Spec => []TypeOK
<1>1. TypeInv => TypeOK
  BY DEF TypeInv
<1> QED BY InitTypeInv, NextTypeInv, <1>1, PTL DEF Spec

-----------------------------------------------------------------------------
(***************************************************************************)
(* What follows is about callers that hold the transaction lock.           *)
(***************************************************************************)

\* Only the holder of the lock is inside CreateRecord.
Mutex == \A w \in Writers : pc[w] # "idle" => txnlock = w

\* The head in hand is still the head of the log, until SetHead replaces it.
Fresh ==
  /\ \A w \in Writers :
       pc[w] \in {"putindex", "new", "sethead"} => info[w].head = head[info[w].log]
  /\ \A l \in LogIds : l > logs => head[l] = HeadUndef

\* The identity has one log: the indexed one, or the host's only one.
Home ==
  /\ \A w \in Writers : pc[w] \in {"addlog", "putindex"} => index = NoLog
  /\ \A r \in published : records[r].log \in 1 .. logs
  /\ HostIdentity =>
       /\ logs <= 1
       /\ \A w \in Writers : pc[w] = "addlog" => logs = 0
  /\ ~HostIdentity =>
       /\ \A w \in Writers :
            pc[w] \in {"getlog", "new", "sethead", "bus", "push", "dispatch"} =>
              index # NoLog /\ info[w].log = index
       /\ \A r \in published : index # NoLog /\ records[r].log = index

IInv == TypeInv /\ Mutex /\ Fresh /\ Home

LEMMA InitIInv == Init => IInv
<1> SUFFICES ASSUME Init PROVE IInv
  OBVIOUS
<1>1. Mutex /\ Fresh /\ Home
  BY DEF Init, Mutex, Fresh, Home
<1> QED BY <1>1, InitTypeInv DEF IInv

LEMMA NextMutex ==
  ASSUME Serialized, TypeInv, Mutex, [Next]_vars PROVE Mutex'
<1> USE OwnLogAssumption
<1>1. ASSUME NEW w \in Writers, begin(w) PROVE Mutex'
  BY <1>1 DEF begin, goto, Mutex, TypeInv, TypeOK
<1>2. ASSUME NEW w \in Writers, NEW at, at # "idle", pc[w] = at, done(w) PROVE Mutex'
  BY <1>2 DEF done, Mutex, TypeInv, TypeOK
<1>3. ASSUME NEW w \in Writers, NEW at, pc[w] # "idle", goto(w, at), UNCHANGED txnlock
      PROVE  Mutex'
  BY <1>3 DEF goto, Mutex, TypeInv, TypeOK
<1>4. CASE Crash
  BY <1>4 DEF Crash, Mutex
<1>5. CASE UNCHANGED vars
  BY <1>5 DEF vars, Mutex
<1>6. ASSUME NEW w \in Writers, step(w) PROVE Mutex'
  <2>1. CASE invalid(w) \/ storeError(w) \/ sendTimeout(w) \/ pushError(w)
             \/ dispatchError(w) \/ dispatch(w)
    BY <2>1, <1>2 DEF invalid, storeError, sendTimeout, pushError, dispatchError,
       dispatch, fail
  <2>2. CASE lookup(w) \/ getLog(w) \/ addLog(w) \/ putIndex(w) \/ newRecord(w)
             \/ setHead(w) \/ sendToBus(w) \/ pushRecord(w)
    BY <2>2, <1>3 DEF lookup, getLog, addLog, putIndex, newRecord, setHead,
       sendToBus, pushRecord
  <2> QED BY <1>1, <1>6, <2>1, <2>2 DEF step
<1> QED BY <1>4, <1>5, <1>6 DEF Next

\* A goroutine that returns, and one that only moves on, disturb neither the
\* heads nor the home of the records.
LEMMA NextFresh ==
  ASSUME Serialized, TypeInv, Mutex, Fresh, [Next]_vars PROVE Fresh'
<1> USE OwnLogAssumption
<1>1. ASSUME NEW w \in Writers, done(w), UNCHANGED <<head, logs>> PROVE Fresh'
  BY <1>1 DEF done, Fresh, TypeInv, TypeOK
<1>2. ASSUME NEW w \in Writers, NEW at,
             at \notin {"putindex", "new", "sethead"}, goto(w, at),
             UNCHANGED <<head, logs>>, \A v \in Writers \ {w} : info'[v] = info[v]
      PROVE  Fresh'
  BY <1>2 DEF goto, Fresh, TypeInv, TypeOK
<1>3. ASSUME NEW w \in Writers, lookup(w) PROVE Fresh'
  <2>1. CASE goto(w, "getlog") \/ goto(w, "addlog")
    BY <1>2, <1>3, <2>1, Zenon DEF lookup, TypeInv, TypeOK
  <2>2. ASSUME NEW l \in 1 .. logs, goto(w, "new"),
               info' = [info EXCEPT ![w] = [log |-> l, head |-> head[l]]]
        PROVE  Fresh'
    BY <1>3, <2>2 DEF lookup, goto, Fresh, TypeInv, TypeOK
  <2> QED BY <1>3, <2>1, <2>2 DEF lookup
<1>4. ASSUME NEW w \in Writers, getLog(w) PROVE Fresh'
  <2>1. info[w] \in Info
    BY InHand
  <2>2. info'[w] = [info[w] EXCEPT !.head = head[info[w].log]]
    BY <1>4 DEF getLog, TypeInv, TypeOK
  <2>3. info'[w].head = head[info'[w].log]
    BY <2>1, <2>2 DEF Info
  <2> QED BY <1>4, <2>3 DEF getLog, goto, Fresh, TypeInv, TypeOK
<1>5. ASSUME NEW w \in Writers, addLog(w) PROVE Fresh'
  <2>1. head[logs + 1] = HeadUndef
    BY <1>5 DEF addLog, Fresh, TypeInv, TypeOK, LogIds
  <2>2. info'[w] = [log |-> logs + 1, head |-> HeadUndef]
    BY <1>5 DEF addLog, TypeInv, TypeOK
  <2>3. \A v \in Writers : pc'[v] \in {"putindex", "new", "sethead"} =>
          info'[v].head = head'[info'[v].log]
    BY <1>5, <2>1, <2>2 DEF addLog, goto, Fresh, TypeInv, TypeOK
  <2>4. \A l \in LogIds : l > logs' => head'[l] = HeadUndef
    BY <1>5 DEF addLog, Fresh, TypeInv, TypeOK, LogIds
  <2> QED BY <2>3, <2>4 DEF Fresh
<1>6. ASSUME NEW w \in Writers, putIndex(w) \/ newRecord(w) PROVE Fresh'
  BY <1>6, Zenon DEF putIndex, newRecord, goto, Fresh, TypeInv, TypeOK
<1>7. ASSUME NEW w \in Writers, setHead(w) PROVE Fresh'
  <2>1. \A v \in Writers : pc'[v] \notin {"putindex", "new", "sethead"}
    BY <1>7, Zenon DEF setHead, goto, Mutex, TypeInv, TypeOK
  <2>2. info[w].log \in 1 .. logs
    BY <1>7, Zenon DEF setHead, TypeInv, Linked
  <2>3. \A l \in LogIds : l > logs => head'[l] = head[l]
    BY <1>7, <2>2 DEF setHead, TypeInv, TypeOK, LogIds
  <2> QED BY <1>7, <2>1, <2>3 DEF setHead, Fresh
<1>8. CASE Crash
  BY <1>8 DEF Crash, Fresh
<1>9. CASE UNCHANGED vars
  BY <1>9 DEF vars, Fresh
<1>10. ASSUME NEW w \in Writers, step(w) PROVE Fresh'
  <2>1. CASE invalid(w) \/ storeError(w) \/ sendTimeout(w) \/ pushError(w)
             \/ dispatchError(w) \/ dispatch(w)
    BY <2>1, <1>1 DEF invalid, storeError, sendTimeout, pushError, dispatchError,
       dispatch, fail
  <2>2. CASE begin(w) \/ sendToBus(w) \/ pushRecord(w)
    BY <2>2, <1>2 DEF begin, sendToBus, pushRecord
  <2> QED BY <1>10, <1>3, <1>4, <1>5, <1>6, <1>7, <2>1, <2>2 DEF step
<1> QED BY <1>8, <1>9, <1>10 DEF Next


LEMMA NextHome ==
  ASSUME Serialized, TypeInv, Mutex, Home, [Next]_vars PROVE Home'
<1> USE OwnLogAssumption
<1>1. ASSUME NEW w \in Writers, done(w), UNCHANGED <<index, logs, records, published>>
      PROVE  Home'
  BY <1>1 DEF done, Home, TypeInv, TypeOK
<1>2. ASSUME NEW w \in Writers, begin(w) PROVE Home'
  BY <1>2 DEF begin, goto, Home, TypeInv, TypeOK
<1>3. ASSUME NEW w \in Writers, lookup(w) PROVE Home'
  <2>1. CASE index # NoLog /\ goto(w, "getlog")
             /\ info' = [info EXCEPT ![w].log = index]
    <3>1. info'[w].log = index
      BY <2>1, InHand DEF TypeInv, TypeOK, Info
    <3>2. \A v \in Writers \ {w} : info'[v] = info[v]
      BY <2>1 DEF TypeInv, TypeOK
    <3> QED BY <1>3, <2>1, <3>1, <3>2 DEF lookup, goto, Home, TypeInv, TypeOK
  <2>2. CASE index = NoLog /\ HostIdentity /\ goto(w, "new")
    BY <1>3, <2>2 DEF lookup, goto, Home, TypeInv, TypeOK
  <2>3. CASE index = NoLog /\ (HostIdentity => logs = 0) /\ goto(w, "addlog")
             /\ UNCHANGED info
    BY <1>3, <2>3 DEF lookup, goto, Home, TypeInv, TypeOK
  <2> QED BY <1>3, <2>1, <2>2, <2>3 DEF lookup
<1>4. ASSUME NEW w \in Writers, getLog(w) PROVE Home'
  <2>1. \A v \in Writers : info'[v].log = info[v].log
    BY <1>4, InHand DEF getLog, TypeInv, TypeOK, Info
  <2> QED BY <1>4, <2>1 DEF getLog, goto, Home, TypeInv, TypeOK
<1>5. ASSUME NEW w \in Writers, addLog(w) PROVE Home'
  <2>1. \A v \in Writers \ {w} : pc[v] = "idle"
    BY <1>5 DEF addLog, Mutex, TypeInv, TypeOK
  <2>2. \A r \in published : records[r].log \in 1 .. logs'
    BY <1>5 DEF addLog, Home, TypeInv, TypeOK
  <2>3. HostIdentity => logs' <= 1
    BY <1>5 DEF addLog, Home
  <2> QED BY <1>5, <2>1, <2>2, <2>3 DEF addLog, goto, Home, TypeInv, TypeOK
<1>6. ASSUME NEW w \in Writers, putIndex(w) PROVE Home'
  <2>1. \A v \in Writers \ {w} : pc[v] = "idle"
    BY <1>6 DEF putIndex, Mutex, TypeInv, TypeOK
  <2>2. info[w].log \in 1 .. logs /\ index = NoLog
    BY <1>6, Zenon DEF putIndex, TypeInv, Linked, Home
  <2>3. index' # NoLog
    BY <1>6, <2>2 DEF putIndex, NoLog, TypeInv, TypeOK
  <2>4. ~HostIdentity => published = {}
    BY <2>2 DEF Home
  <2> QED BY <1>6, <2>1, <2>3, <2>4 DEF putIndex, goto, Home, TypeInv, TypeOK
<1>7. ASSUME NEW w \in Writers, newRecord(w) PROVE Home'
  <2>1. \A r \in published : records'[r] = records[r]
    <3>1. \A r \in published : r \in 1 .. Len(records)
      BY InHand DEF TypeInv, TypeOK
    <3> DEFINE new == [log |-> info[w].log, prev |-> info[w].head.id]
    <3>2. new \in [log : LogIds, prev : 0 .. MaxRec]
      BY <1>7, InHand DEF newRecord, TypeInv, Linked
    <3>3. records' = Append(records, new)
      BY <1>7 DEF newRecord
    <3> HIDE DEF new
    <3>4. \A i \in 1 .. Len(records) : records'[i] = records[i]
      BY <3>2, <3>3 DEF TypeInv, TypeOK
    <3> QED BY <3>1, <3>4, Zenon
  <2> QED BY <1>7, <2>1 DEF newRecord, goto, Home, TypeInv, TypeOK
<1>8. ASSUME NEW w \in Writers, setHead(w) PROVE Home'
  <2>1. /\ records[rec[w]] = [log |-> info[w].log, prev |-> info[w].head.id]
        /\ info[w].log \in 1 .. logs
    BY <1>8 DEF setHead, TypeInv, Linked
  <2> QED BY <1>8, <2>1 DEF setHead, goto, Home, TypeInv, TypeOK
<1>9. ASSUME NEW w \in Writers, sendToBus(w) \/ pushRecord(w) PROVE Home'
  BY <1>9, Zenon DEF sendToBus, pushRecord, goto, Home, TypeInv, TypeOK
<1>10. CASE Crash
  BY <1>10 DEF Crash, Home
<1>11. CASE UNCHANGED vars
  BY <1>11 DEF vars, Home
<1>12. ASSUME NEW w \in Writers, step(w) PROVE Home'
  <2>1. CASE invalid(w) \/ storeError(w) \/ sendTimeout(w) \/ pushError(w)
             \/ dispatchError(w) \/ dispatch(w)
    BY <2>1, <1>1 DEF invalid, storeError, sendTimeout, pushError, dispatchError,
       dispatch, fail
  <2> QED BY <1>12, <1>2, <1>3, <1>4, <1>5, <1>6, <1>7, <1>8, <1>9, <2>1 DEF step
<1> QED BY <1>10, <1>11, <1>12 DEF Next

LEMMA NextIInv == ASSUME Serialized PROVE IInv /\ [Next]_vars => IInv'
BY NextTypeInv, NextMutex, NextFresh, NextHome DEF IInv

\* A head moves only by SetHead, to a record linked to the head it replaces.
LEMMA StepAppends ==
  ASSUME IInv, [Next]_vars, NEW l \in LogIds, head'[l] # head[l]
  PROVE  records'[head'[l].id].prev = head[l].id
<1>1. ASSUME NEW w \in Writers, setHead(w)
      PROVE  records'[head'[l].id].prev = head[l].id
  <2>1. l = info[w].log
    BY <1>1 DEF setHead, IInv, TypeInv, TypeOK
  <2>2. head'[l].id = rec[w] /\ UNCHANGED records
    BY <1>1, <2>1 DEF setHead, IInv, TypeInv, TypeOK
  <2>3. /\ records[rec[w]] = [log |-> info[w].log, prev |-> info[w].head.id]
        /\ info[w].head = head[l]
    BY <1>1, <2>1 DEF setHead, IInv, TypeInv, Linked, Fresh
  <2> QED BY <2>2, <2>3
<1>2. ASSUME ~ \E w \in Writers : setHead(w) PROVE UNCHANGED head
  BY <1>2, Zenon DEF Next, vars, step, begin, invalid, lookup, getLog, addLog, putIndex,
     newRecord, storeError, sendToBus, sendTimeout, pushRecord, pushError, dispatch,
     dispatchError, fail, Crash
<1> QED BY <1>1, <1>2

\* Under the database's transaction lock CreateRecord is append-only: however
\* many goroutines commit, fail or crash, a new head links to the old one.
THEOREM OwnLogIsAppendOnly ==
  ASSUME Serialized PROVE Spec => AppendOnly
<1>1. IInv /\ [Next]_vars => [\A l \in LogIds : head'[l] # head[l] =>
                                records'[head'[l].id].prev = head[l].id]_vars
  BY StepAppends
<1> QED BY InitIInv, NextIInv, <1>1, PTL DEF Spec, AppendOnly

\* Under the lock an identity publishes into one log only, although the log and
\* its index are stored in two steps that a crash may separate.
THEOREM OwnLogIsOne ==
  ASSUME Serialized PROVE Spec => []OneLog
<1>1. IInv => OneLog
  <2> SUFFICES ASSUME IInv, NEW r \in published, NEW s \in published
               PROVE  records[r].log = records[s].log
    BY DEF OneLog, IInv, Home
  <2>1. CASE HostIdentity
    <3>1. records[r].log \in 1 .. logs /\ records[s].log \in 1 .. logs
          /\ logs <= 1 /\ logs \in Nat
      BY <2>1, OwnLogAssumption DEF IInv, Home, TypeInv, TypeOK
    <3> QED BY <3>1
  <2>2. CASE ~HostIdentity
    BY <2>2 DEF IInv, Home
  <2> QED BY <2>1, <2>2
<1> QED BY InitIInv, NextIInv, <1>1, PTL DEF Spec

\* A head is dispatched unless its call fails: the goroutine that set it holds
\* its record until then, and failing or crashing it leaves it interrupted.
LEMMA NextLogged ==
  ASSUME Serialized, TypeInv, LoggedIsDispatched, [Next]_vars
  PROVE  LoggedIsDispatched'
<1> DEFINE held(v) == pc[v] \in {"bus", "push", "dispatch"}
           there(r) == \/ \E i \in 1 .. Len(state) : state[i] = r
                       \/ r \in interrupted
                       \/ \E v \in Writers : rec[v] = r /\ held(v)
<1>0. /\ \A r \in published : there(r)
      /\ (\A r \in published' : there(r)') => LoggedIsDispatched'
  BY DEF LoggedIsDispatched
<1>1. ASSUME NEW w \in Writers,
             \A v \in Writers \ {w} : pc'[v] = pc[v] /\ rec'[v] = rec[v],
             UNCHANGED <<published, state>>, interrupted \subseteq interrupted',
             held(w) /\ rec[w] \in published => rec[w] \in interrupted'
      PROVE  LoggedIsDispatched'
  <2>1. ASSUME NEW r \in published PROVE there(r)'
    <3>1. CASE \E v \in Writers : rec[v] = r /\ held(v)
      <4>1. PICK v \in Writers : rec[v] = r /\ held(v)
        BY <3>1
      <4>2. CASE v = w
        BY <1>1, <4>1, <4>2, Zenon
      <4>3. CASE v # w
        BY <1>1, <4>1, <4>3, Zenon
      <4> QED BY <4>2, <4>3
    <3>2. CASE ~\E v \in Writers : rec[v] = r /\ held(v)
      BY <1>0, <1>1, <3>2, Zenon
    <3> QED BY <3>1, <3>2
  <2> QED BY <1>0, <1>1, <2>1
<1>2. ASSUME NEW w \in Writers, done(w) PROVE
        /\ pc'[w] = "idle"
        /\ \A v \in Writers \ {w} : pc'[v] = pc[v] /\ rec'[v] = rec[v]
  BY <1>2 DEF done, TypeInv, TypeOK
<1>3. ASSUME NEW w \in Writers, NEW at, goto(w, at) PROVE
        pc'[w] = at /\ \A v \in Writers \ {w} : pc'[v] = pc[v]
  BY <1>3 DEF goto, TypeInv, TypeOK
<1>4. ASSUME NEW w \in Writers, NEW at, NEW fault, fail(w, at, fault)
      PROVE  LoggedIsDispatched'
  <2>1. rec[w] \in published => rec[w] \in interrupted'
    BY <1>4 DEF fail, inHand
  <2>2. interrupted \subseteq interrupted' /\ UNCHANGED <<published, state>>
    BY <1>4 DEF fail
  <2> QED BY <1>1, <1>2, <1>4, <2>1, <2>2, Zenon DEF fail
<1>5. ASSUME NEW w \in Writers,
             begin(w) \/ lookup(w) \/ getLog(w) \/ addLog(w) \/ putIndex(w)
      PROVE  LoggedIsDispatched'
  <2>1. pc[w] \in {"idle", "index", "getlog", "addlog", "putindex"}
        /\ UNCHANGED <<rec, published, state, interrupted>>
    BY <1>5 DEF begin, lookup, getLog, addLog, putIndex
  <2>2. PICK at : goto(w, at)
    BY <1>5, Zenon DEF begin, lookup, getLog, addLog, putIndex
  <2>3. ~held(w)
    BY <2>1
  <2> QED BY <1>1, <1>3, <2>1, <2>2, <2>3
<1>6. ASSUME NEW w \in Writers, newRecord(w) PROVE LoggedIsDispatched'
  <2>1. ~held(w) /\ goto(w, "sethead") /\ UNCHANGED <<published, state, interrupted>>
    BY <1>6 DEF newRecord
  <2>2. \A v \in Writers \ {w} : rec'[v] = rec[v]
    BY <1>6 DEF newRecord, TypeInv, TypeOK
  <2> QED BY <1>1, <1>3, <2>1, <2>2
<1>7. ASSUME NEW w \in Writers, NEW at, goto(w, at), at \in {"bus", "push", "dispatch"},
             published' \subseteq published \cup {rec[w]},
             UNCHANGED <<rec, state, interrupted>>
      PROVE  LoggedIsDispatched'
  <2>1. \A v \in Writers : v = w \/ held(v) => pc'[v] \in {"bus", "push", "dispatch"}
    BY <1>3, <1>7
  <2> QED BY <1>7, <2>1, Zenon DEF LoggedIsDispatched
<1>8. ASSUME NEW w \in Writers, setHead(w) \/ sendToBus(w) \/ pushRecord(w)
      PROVE  LoggedIsDispatched'
  <2>1. CASE setHead(w)
    BY <1>7, <2>1 DEF setHead
  <2>2. CASE sendToBus(w) \/ pushRecord(w)
    BY <1>7, <2>2 DEF sendToBus, pushRecord
  <2> QED BY <1>8, <2>1, <2>2
<1>9. ASSUME NEW w \in Writers, dispatch(w) PROVE LoggedIsDispatched'
  <2>1. /\ Len(state') = Len(state) + 1 /\ Len(state) \in Nat
        /\ state'[Len(state) + 1] = rec[w]
        /\ \A i \in 1 .. Len(state) : state'[i] = state[i]
    <3>1. rec[w] \in 1 .. MaxRec
      BY <1>9, InHand, Zenon DEF dispatch, TypeInv, Linked
    <3> QED BY <1>9, <3>1 DEF dispatch, TypeInv, TypeOK
  <2>2. \E i \in 1 .. Len(state') : state'[i] = rec[w]
    BY <2>1
  <2>3. \A r : (\E i \in 1 .. Len(state) : state[i] = r) =>
                 \E i \in 1 .. Len(state') : state'[i] = r
    BY <2>1
  <2>4. UNCHANGED <<published, interrupted>> /\ done(w)
    BY <1>9 DEF dispatch
  <2>5. ASSUME NEW r \in published PROVE there(r)'
    <3>1. CASE \E v \in Writers : rec[v] = r /\ held(v)
      <4>1. PICK v \in Writers : rec[v] = r /\ held(v)
        BY <3>1
      <4>2. CASE v = w
        BY <2>2, <4>1, <4>2, Zenon
      <4>3. CASE v # w
        BY <1>2, <2>4, <4>1, <4>3, Zenon
      <4> QED BY <4>2, <4>3
    <3>2. CASE ~\E v \in Writers : rec[v] = r /\ held(v)
      BY <1>0, <2>3, <2>4, <3>2, Zenon
    <3> QED BY <3>1, <3>2
  <2> QED BY <1>0, <2>4, <2>5
<1>10. CASE Crash
  <2>1. \A w \in Writers : rec[w] \in published => rec[w] \in interrupted'
    BY <1>10 DEF Crash, inHand
  <2>2. interrupted \subseteq interrupted' /\ UNCHANGED <<published, state>>
    BY <1>10 DEF Crash
  <2> QED BY <2>1, <2>2, Zenon DEF LoggedIsDispatched
<1>11. CASE UNCHANGED vars
  BY <1>11, Zenon DEF vars, LoggedIsDispatched
<1>12. ASSUME NEW w \in Writers, step(w) PROVE LoggedIsDispatched'
  <2>1. CASE invalid(w) \/ storeError(w) \/ sendTimeout(w) \/ pushError(w)
             \/ dispatchError(w)
    BY <2>1, <1>4 DEF invalid, storeError, sendTimeout, pushError, dispatchError
  <2> QED BY <1>12, <1>5, <1>6, <1>8, <1>9, <2>1 DEF step
<1> QED BY <1>10, <1>11, <1>12 DEF Next

\* A record that a transaction made the head of its log reaches the database's
\* state, unless its Commit fails or a crash cuts it off.
THEOREM HeadsAreDispatched ==
  ASSUME Serialized PROVE Spec => []LoggedIsDispatched
<1>1. Init => LoggedIsDispatched
  BY DEF Init, LoggedIsDispatched
<1>2. TypeInv /\ LoggedIsDispatched /\ [Next]_vars => LoggedIsDispatched'
  BY NextLogged
<1> QED BY InitTypeInv, NextTypeInv, <1>1, <1>2, PTL DEF Spec

=============================================================================
