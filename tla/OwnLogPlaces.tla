----------------------------- MODULE OwnLogPlaces -----------------------------
(***************************************************************************)
(* Proofs about where a record stands in its log.  Under the transaction   *)
(* lock counters are positions, and the database dispatches its            *)
(* transactions in the order of the log.                                   *)
(*                                                                         *)
(* A record links to one that was made before it, so that a log grows by   *)
(* exactly the record a new head adds.                                     *)
(***************************************************************************)
EXTENDS OwnLogProofs

\* Every record links to an earlier one, or to the start of its log.
Backward(recs) ==
  /\ Len(recs) \in Nat
  /\ \A r \in 1 .. Len(recs) : recs[r].prev \in 0 .. r - 1

LEMMA InitialIsClosed ==
  ASSUME NEW recs, Backward(recs), NEW h \in 0 .. Len(recs)
  PROVE  0 .. h \in SUBSET (0 .. Len(recs)) /\ closed(recs, 0 .. h)
BY DEF Backward, closed

LEMMA LogOfStart ==
  ASSUME NEW recs, Backward(recs) PROVE logOf(recs, 0) = {}
<1>1. 0 \in 0 .. Len(recs)
  BY DEF Backward
<1>2. 0 .. 0 \in SUBSET (0 .. Len(recs)) /\ closed(recs, 0 .. 0)
  BY <1>1, InitialIsClosed, Zenon
<1> QED BY <1>2 DEF logOf, Backward

LEMMA LogOfHasRecord ==
  ASSUME NEW recs, NEW r \in 1 .. Len(recs) PROVE r \in logOf(recs, r)
BY DEF logOf

\* A record adds itself to the log of the record it links to.
LEMMA LogOfRecord ==
  ASSUME NEW recs, Backward(recs), NEW r \in 1 .. Len(recs)
  PROVE  /\ logOf(recs, r) = logOf(recs, recs[r].prev) \cup {r}
         /\ r \notin logOf(recs, recs[r].prev)
<1> DEFINE p == recs[r].prev
<1>1. p \in 0 .. r - 1 /\ r \in Nat /\ p \in 0 .. Len(recs)
  BY DEF Backward
<1>2. r \notin logOf(recs, p)
  <2>1. 0 .. p \in SUBSET (0 .. Len(recs)) /\ closed(recs, 0 .. p)
    BY <1>1, InitialIsClosed
  <2>2. p \in 0 .. p /\ r \notin 0 .. p
    BY <1>1
  <2> QED BY <2>1, <2>2 DEF logOf
<1>3. ASSUME NEW x \in logOf(recs, p) PROVE x \in logOf(recs, r)
  <2> SUFFICES ASSUME NEW S \in SUBSET (0 .. Len(recs)), r \in S, closed(recs, S)
               PROVE  x \in S
    BY DEF logOf
  <2>1. p \in S
    BY DEF closed
  <2> QED BY <2>1 DEF logOf
<1>4. r \in logOf(recs, r)
  BY LogOfHasRecord
<1>5. ASSUME NEW x \in logOf(recs, r), x # r PROVE x \in logOf(recs, p)
  <2> SUFFICES ASSUME NEW S \in SUBSET (0 .. Len(recs)), p \in S, closed(recs, S)
               PROVE  x \in S
    BY DEF logOf
  <2>1. S \cup {r} \in SUBSET (0 .. Len(recs))
    BY <1>1 DEF Backward
  <2>2. closed(recs, S \cup {r})
    BY DEF closed
  <2> QED BY <1>5, <2>1, <2>2 DEF logOf
<1> QED BY <1>2, <1>3, <1>4, <1>5

\* What the count of a log rests on.  It is proved of finite sets at the end.
Counting ==
  /\ Cardinality({}) = 0
  /\ \A n \in Nat : \A S \in SUBSET (1 .. n) : IsFiniteSet(S) /\ Cardinality(S) \in Nat
  /\ \A S : \A x : IsFiniteSet(S) /\ x \notin S =>
       Cardinality(S \cup {x}) = Cardinality(S) + 1

LEMMA LogOfIsFinite ==
  ASSUME Counting, NEW recs, Backward(recs), NEW h
  PROVE  IsFiniteSet(logOf(recs, h)) /\ Cardinality(logOf(recs, h)) \in Nat
<1>1. logOf(recs, h) \subseteq 1 .. Len(recs)
  BY DEF logOf
<1>2. Len(recs) \in Nat
  BY DEF Backward
<1> QED BY <1>1, <1>2, Zenon DEF Counting

LEMMA LogOfCount ==
  ASSUME Counting, NEW recs, Backward(recs), NEW r \in 1 .. Len(recs)
  PROVE  Cardinality(logOf(recs, r)) = Cardinality(logOf(recs, recs[r].prev)) + 1
<1>1. IsFiniteSet(logOf(recs, recs[r].prev))
  BY LogOfIsFinite
<1>2. Cardinality(logOf(recs, recs[r].prev) \cup {r}) =
        Cardinality(logOf(recs, recs[r].prev)) + 1
  BY <1>1, LogOfRecord, Zenon DEF Counting
<1> QED BY <1>2, LogOfRecord, Zenon

\* A record that is made changes no log that is there.
LEMMA LogOfAppend ==
  ASSUME NEW recs, NEW recs2, Backward(recs), Backward(recs2),
         Len(recs2) = Len(recs) + 1,
         \A i \in 1 .. Len(recs) : recs2[i] = recs[i],
         NEW h \in 0 .. Len(recs)
  PROVE  logOf(recs2, h) = logOf(recs, h)
<1>1. ASSUME NEW x \in logOf(recs2, h) PROVE x \in logOf(recs, h)
  <2>1. ASSUME NEW S \in SUBSET (0 .. Len(recs)), h \in S, closed(recs, S)
        PROVE  x \in S
    <3>1. S \in SUBSET (0 .. Len(recs2))
      BY DEF Backward
    <3>2. closed(recs2, S)
      BY <2>1 DEF closed, Backward
    <3> QED BY <2>1, <3>1, <3>2 DEF logOf
  <2>2. x \in 0 .. Len(recs)
    <3>1. Len(recs) \in 0 .. Len(recs)
      BY DEF Backward
    <3>2. closed(recs, 0 .. Len(recs))
      BY <3>1, InitialIsClosed
    <3> QED BY <2>1, <3>2
  <2>3. x \in 1 .. Len(recs)
    BY <2>2 DEF logOf, Backward
  <2> QED BY <2>1, <2>3 DEF logOf
<1>2. ASSUME NEW x \in logOf(recs, h) PROVE x \in logOf(recs2, h)
  <2>1. ASSUME NEW S \in SUBSET (0 .. Len(recs2)), h \in S, closed(recs2, S)
        PROVE  x \in S
    <3> DEFINE T == S \cap (0 .. Len(recs))
    <3>1. T \in SUBSET (0 .. Len(recs)) /\ h \in T
      BY <2>1
    <3>2. closed(recs, T)
      <4> SUFFICES ASSUME NEW i \in T \ {0} PROVE recs[i].prev \in T
        BY DEF closed
      <4>1. i \in 1 .. Len(recs) /\ recs2[i] = recs[i] /\ i \in S \ {0}
        BY DEF Backward
      <4>2. recs[i].prev \in S
        BY <2>1, <4>1 DEF closed
      <4>3. recs[i].prev \in 0 .. Len(recs)
        BY <4>1 DEF Backward
      <4> QED BY <4>2, <4>3
    <3> QED BY <3>1, <3>2 DEF logOf
  <2>2. x \in 1 .. Len(recs2)
    BY DEF logOf, Backward
  <2> QED BY <2>1, <2>2 DEF logOf
<1> QED BY <1>1, <1>2, Zenon

-----------------------------------------------------------------------------
(***************************************************************************)
(* Positions in the log: counters of heads and of pushed records, and the  *)
(* order in which transactions are dispatched.                             *)
(***************************************************************************)

\* The stored logs, what was pushed and what was dispatched.
Logs ==
  /\ Backward(records)
  /\ \A l \in LogIds : head[l].id \in 0 .. Len(records)
  /\ \A m \in pushed : m.rec \in 1 .. Len(records)
  /\ \A i \in 1 .. Len(state) : state[i] \in 1 .. Len(records)
  /\ CounterIsLength
  /\ PushedAtItsPlace
  /\ DispatchedInLogOrder

\* A goroutine that has set the head has set it to its record, which is newer
\* than every record dispatched so far.
Hand(w) ==
  /\ info[w].head.id \in 0 .. Len(records)
  /\ pc[w] \in {"bus", "push", "dispatch"} =>
       head[info[w].log] = [id |-> rec[w], counter |-> info[w].head.counter + 1]
  /\ pc[w] \in {"sethead", "bus", "push", "dispatch"} =>
       \A i \in 1 .. Len(state) : state[i] < rec[w]

PInv == IInv /\ Logs /\ \A w \in Writers : Hand(w)

LEMMA InitPInv == Counting /\ Init => PInv
<1> SUFFICES ASSUME Counting, Init PROVE PInv
  OBVIOUS
<1>1. Backward(records)
  BY DEF Init, Backward
<1>2. \A l \in LogIds : head[l].id = 0 /\ head[l].counter = 0
  BY DEF Init, HeadUndef
<1>3. Cardinality(logOf(records, 0)) = 0
  BY <1>1, LogOfStart DEF Counting
<1>4. CounterIsLength
  BY <1>2, <1>3 DEF CounterIsLength
<1>5. Logs
  BY <1>1, <1>2, <1>4 DEF Init, Logs, PushedAtItsPlace, DispatchedInLogOrder, Increasing
<1>6. \A w \in Writers : Hand(w)
  BY DEF Init, Hand, NoInfo, HeadUndef
<1> QED BY <1>5, <1>6, InitIInv DEF PInv

\* What PInv says about the goroutine that moves.
LEMMA AtHand ==
  ASSUME PInv, Serialized, NEW w \in Writers, pc[w] # "idle"
  PROVE  /\ \A v \in Writers \ {w} : pc[v] = "idle"
         /\ Len(records) \in Nat
         /\ info[w] \in Info
         /\ info[w].head.counter \in Nat
BY InHand, OwnLogAssumption DEF PInv, IInv, Mutex, TypeInv, TypeOK

\* Every record made is in some log.
LEMMA RecordHasLog ==
  ASSUME TypeInv PROVE \A r \in 1 .. Len(records) : records[r].log \in LogIds
<1> DEFINE R == [log : LogIds, prev : 0 .. MaxRec]
<1>1. records \in Seq(R)
  BY DEF TypeInv, TypeOK
<1>2. \A r \in R : r.log \in LogIds
  OBVIOUS
<1> HIDE DEF R
<1>3. \A r \in 1 .. Len(records) : records[r] \in R
  BY <1>1
<1> QED BY <1>2, <1>3

\* Steps that touch neither logs, pushes nor the database's state.
LEMMA QuietLogs ==
  ASSUME Logs, UNCHANGED <<head, records, pushed, state>> PROVE Logs'
BY DEF Logs, CounterIsLength, PushedAtItsPlace, DispatchedInLogOrder

\* A new record belongs to no log until it becomes a head.
LEMMA NewRecordPInv ==
  ASSUME PInv, Serialized, NEW w \in Writers, newRecord(w)
  PROVE  Logs' /\ \A v \in Writers : Hand(v)'
<1> DEFINE r == [log |-> info[w].log, prev |-> info[w].head.id]
<1>1. info[w] \in Info /\ info[w].log \in LogIds /\ info[w].head.id \in 0 .. Len(records)
      /\ Len(records) \in Nat /\ \A v \in Writers \ {w} : pc[v] = "idle"
  BY AtHand, InHand, Zenon DEF newRecord, PInv, IInv, TypeInv, Linked, Hand
<1>2. r \in [log : LogIds, prev : 0 .. MaxRec]
  BY <1>1, InHand DEF PInv, IInv
<1>3. records' = Append(records, r)
  BY DEF newRecord
<1> HIDE DEF r
<1>4. /\ Len(records') = Len(records) + 1
      /\ records'[Len(records) + 1] = r
      /\ \A i \in 1 .. Len(records) : records'[i] = records[i]
  BY <1>2, <1>3 DEF PInv, IInv, TypeInv, TypeOK
<1>5. Backward(records) /\ Backward(records')
  <2>1. r.prev \in 0 .. Len(records)
    BY <1>1 DEF r
  <2>2. Backward(records)
    BY DEF PInv, Logs
  <2>3. ASSUME NEW i \in 1 .. Len(records') PROVE records'[i].prev \in 0 .. i - 1
    <3>1. CASE i = Len(records) + 1
      BY <1>1, <1>4, <2>1, <3>1
    <3>2. CASE i \in 1 .. Len(records)
      BY <1>4, <2>2, <3>2 DEF Backward
    <3> QED BY <1>1, <1>4, <3>1, <3>2
  <2> QED BY <1>1, <1>4, <2>2, <2>3 DEF Backward
<1>6. \A h \in 0 .. Len(records) : logOf(records', h) = logOf(records, h)
  BY <1>4, <1>5, LogOfAppend
<1>7. UNCHANGED <<head, pushed, state, info>>
  BY DEF newRecord
<1>8. /\ \A l \in LogIds : head[l].id \in 0 .. Len(records)
      /\ \A m \in pushed : /\ m.rec \in 1 .. Len(records)
                            /\ records[m.rec].log \in LogIds
      /\ \A i \in 1 .. Len(state) : /\ state[i] \in 1 .. Len(records)
                                     /\ records[state[i]].log \in LogIds
  BY RecordHasLog DEF PInv, IInv, Logs
<1>9. CounterIsLength'
  BY <1>6, <1>7, <1>8 DEF PInv, Logs, CounterIsLength
<1>10. PushedAtItsPlace'
  BY <1>1, <1>4, <1>6, <1>7, <1>8 DEF PInv, Logs, PushedAtItsPlace
<1>11. DispatchedInLogOrder'
  BY <1>4, <1>6, <1>7, <1>8 DEF PInv, Logs, DispatchedInLogOrder
<1>12. Logs'
  BY <1>1, <1>4, <1>5, <1>7, <1>8, <1>9, <1>10, <1>11 DEF Logs
<1>13. rec'[w] = Len(records) + 1 /\ pc'[w] = "sethead"
       /\ \A v \in Writers \ {w} : pc'[v] = "idle"
  BY <1>1 DEF newRecord, goto, PInv, IInv, TypeInv, TypeOK
<1>14. \A v \in Writers : info[v].head.id \in 0 .. Len(records')
  <2>1. \A v \in Writers : info[v].head.id \in 0 .. Len(records)
    BY Zenon DEF PInv, Hand
  <2> QED BY <1>1, <1>4, <2>1
<1>15. \A i \in 1 .. Len(state) : state[i] < Len(records) + 1
  BY <1>1, <1>8
<1> QED BY <1>7, <1>12, <1>13, <1>14, <1>15 DEF Hand

\* The new head adds its record to the log, and nothing leaves any log.
LEMMA SetHeadPInv ==
  ASSUME Counting, PInv, Serialized, NEW w \in Writers, setHead(w)
  PROVE  Logs' /\ \A v \in Writers : Hand(v)'
<1> DEFINE l == info[w].log
           h == [id |-> rec[w], counter |-> info[w].head.counter + 1]
<1>1. /\ l \in LogIds /\ rec[w] \in 1 .. Len(records)
      /\ records[rec[w]].prev = head[l].id /\ info[w].head = head[l]
      /\ \A v \in Writers \ {w} : pc[v] = "idle"
      /\ Len(records) \in Nat /\ Backward(records)
  <2>1. pc[w] = "sethead" /\ TypeInv /\ Linked(w) /\ Fresh
    BY Zenon DEF setHead, PInv, IInv, TypeInv
  <2>2. l \in LogIds /\ rec[w] \in 1 .. Len(records) /\ info[w].head = head[l]
    BY <2>1, InHand DEF Linked, Fresh
  <2>3. records[rec[w]].prev = head[l].id
    BY <2>1, <2>2 DEF Linked
  <2> QED BY <2>1, <2>2, <2>3, AtHand, Zenon DEF PInv, Logs
<1>2. head' = [head EXCEPT ![l] = h] /\ UNCHANGED <<records, pushed, state, info, rec>>
  BY DEF setHead
<1>3. head'[l] = h /\ \A k \in LogIds \ {l} : head'[k] = head[k]
  BY <1>1, <1>2 DEF PInv, IInv, TypeInv, TypeOK
<1>4. h.id = rec[w] /\ h.counter = head[l].counter + 1
  BY <1>1
<1> HIDE DEF h
<1>5. /\ logOf(records, rec[w]) = logOf(records, head[l].id) \cup {rec[w]}
      /\ Cardinality(logOf(records, rec[w])) = Cardinality(logOf(records, head[l].id)) + 1
  BY <1>1, LogOfRecord, LogOfCount
<1>6. \A k \in LogIds : logOf(records, head[k].id) \subseteq logOf(records, head'[k].id)
  BY <1>3, <1>4, <1>5
<1>7. CounterIsLength'
  BY <1>2, <1>3, <1>4, <1>5, Zenon DEF PInv, Logs, CounterIsLength
<1>8. \A m \in pushed : records[m.rec].log \in LogIds
  BY RecordHasLog DEF PInv, IInv, Logs
<1>9. PushedAtItsPlace'
  BY <1>2, <1>6, <1>8, Zenon DEF PInv, Logs, PushedAtItsPlace
<1>10. \A i \in 1 .. Len(state) : records[state[i]].log \in LogIds
  BY RecordHasLog DEF PInv, IInv, Logs
<1>11. DispatchedInLogOrder'
  BY <1>2, <1>6, <1>10, Zenon DEF PInv, Logs, DispatchedInLogOrder
<1>12. Logs'
  BY <1>1, <1>2, <1>3, <1>4, <1>7, <1>9, <1>11 DEF PInv, Logs
<1>13. pc'[w] = "bus" /\ pc[w] = "sethead" /\ \A v \in Writers \ {w} : pc'[v] = "idle"
  BY <1>1 DEF setHead, goto, PInv, IInv, TypeInv, TypeOK
<1> QED BY <1>2, <1>3, <1>12, <1>13 DEF PInv, Hand, h

\* What is pushed is the head, with the head's counter.
LEMMA PushPInv ==
  ASSUME PInv, Serialized, NEW w \in Writers, pushRecord(w)
  PROVE  Logs' /\ \A v \in Writers : Hand(v)'
<1> DEFINE l == info[w].log
           m == [rec |-> rec[w], counter |-> info[w].head.counter + 1]
<1>1. pc[w] = "push" /\ TypeInv /\ Linked(w) /\ Hand(w)
  BY DEF pushRecord, PInv, IInv, TypeInv
<1>2. /\ l \in LogIds /\ rec[w] \in 1 .. Len(records) /\ records[rec[w]].log = l
      /\ head[l].id = rec[w] /\ head[l].counter = info[w].head.counter + 1
      /\ \A v \in Writers \ {w} : pc[v] = "idle"
  <2>1. /\ l \in LogIds /\ rec[w] \in 1 .. Len(records)
        /\ records[rec[w]] = [log |-> l, prev |-> info[w].head.id]
    BY <1>1, InHand DEF Linked
  <2>2. head[l] = [id |-> rec[w], counter |-> info[w].head.counter + 1]
    BY <1>1 DEF Hand
  <2>3. \A v \in Writers \ {w} : pc[v] = "idle"
    BY <1>1, AtHand
  <2> QED BY <2>1, <2>2, <2>3
<1>3. /\ pushed' = pushed \cup {m} /\ pc' = [pc EXCEPT ![w] = "dispatch"]
      /\ UNCHANGED <<head, records, state, info, rec>>
  BY DEF pushRecord, goto
<1>4. rec[w] \in logOf(records, rec[w])
  BY <1>2, LogOfHasRecord
<1>5. head[l].counter = Cardinality(logOf(records, rec[w]))
  BY <1>2 DEF PInv, Logs, CounterIsLength
<1>6. m.rec = rec[w] /\ m.counter = head[l].counter
  BY <1>2
<1> HIDE DEF m
<1>7. PushedAtItsPlace'
  BY <1>2, <1>3, <1>4, <1>5, <1>6 DEF PInv, Logs, PushedAtItsPlace
<1>8. Logs'
  BY <1>2, <1>3, <1>6, <1>7 DEF PInv, Logs, CounterIsLength, DispatchedInLogOrder
<1>9. \A v \in Writers : Hand(v)'
  BY <1>1, <1>3 DEF PInv, IInv, TypeInv, TypeOK, Hand
<1> QED BY <1>8, <1>9

\* What is dispatched is the head, which is newer than what was dispatched.
LEMMA DispatchPInv ==
  ASSUME PInv, Serialized, NEW w \in Writers, dispatch(w)
  PROVE  Logs' /\ \A v \in Writers : Hand(v)'
<1> DEFINE l == info[w].log
<1>1. pc[w] = "dispatch" /\ TypeInv /\ Linked(w) /\ Hand(w)
  BY DEF dispatch, PInv, IInv, TypeInv
<1>2. /\ l \in LogIds /\ rec[w] \in 1 .. Len(records) /\ records[rec[w]].log = l
      /\ head[l].id = rec[w]
      /\ \A v \in Writers \ {w} : pc[v] = "idle"
      /\ \A i \in 1 .. Len(state) : state[i] < rec[w]
  <2>1. /\ l \in LogIds /\ rec[w] \in 1 .. Len(records)
        /\ records[rec[w]] = [log |-> l, prev |-> info[w].head.id]
    BY <1>1, InHand DEF Linked
  <2>2. head[l] = [id |-> rec[w], counter |-> info[w].head.counter + 1]
    BY <1>1 DEF Hand
  <2>3. \A i \in 1 .. Len(state) : state[i] < rec[w]
    BY <1>1 DEF Hand
  <2>4. \A v \in Writers \ {w} : pc[v] = "idle"
    BY <1>1, AtHand
  <2> QED BY <2>1, <2>2, <2>3, <2>4
<1>3. /\ state' = Append(state, rec[w]) /\ done(w)
      /\ UNCHANGED <<head, records, pushed>>
  BY DEF dispatch
<1>4. /\ Len(state') = Len(state) + 1 /\ Len(state) \in Nat
      /\ state'[Len(state) + 1] = rec[w]
      /\ \A i \in 1 .. Len(state) : state'[i] = state[i]
  BY <1>1, <1>3 DEF TypeInv, TypeOK
<1>5. rec[w] \in logOf(records, rec[w])
  BY <1>2, LogOfHasRecord
<1>6. ASSUME NEW i \in 1 .. Len(state')
      PROVE  /\ state'[i] \in 1 .. Len(records)
             /\ state'[i] \in logOf(records, head[records[state'[i]].log].id)
  <2>1. CASE i = Len(state) + 1
    BY <1>2, <1>4, <1>5, <2>1
  <2>2. CASE i \in 1 .. Len(state)
    BY <1>4, <2>2 DEF PInv, Logs, DispatchedInLogOrder
  <2> QED BY <1>4, <2>1, <2>2
<1>7. Increasing(state')
  <2> SUFFICES ASSUME NEW i \in 1 .. Len(state'), NEW j \in 1 .. Len(state'), i < j
               PROVE  state'[i] < state'[j]
    BY DEF Increasing
  <2>1. i \in 1 .. Len(state)
    BY <1>4
  <2>2. CASE j = Len(state) + 1
    BY <1>2, <1>4, <2>1, <2>2
  <2>3. CASE j \in 1 .. Len(state)
    BY <1>4, <2>1, <2>3 DEF PInv, Logs, DispatchedInLogOrder, Increasing
  <2> QED BY <1>4, <2>2, <2>3
<1>8. Logs'
  BY <1>3, <1>6, <1>7 DEF PInv, Logs, CounterIsLength, PushedAtItsPlace,
     DispatchedInLogOrder
<1>9. \A v \in Writers : pc'[v] = "idle" /\ info'[v].head.id \in 0 .. Len(records)
  <2>1. NoInfo.head.id = 0 /\ Len(records) \in Nat
    BY <1>1, AtHand, Zenon DEF NoInfo, HeadUndef
  <2>2. /\ pc' = [pc EXCEPT ![w] = "idle"] /\ pc \in [Writers -> {"idle"} \cup Steps]
        /\ info' = [info EXCEPT ![w] = NoInfo] /\ info \in [Writers -> Info]
    BY <1>1, <1>3 DEF done, TypeInv, TypeOK, Info
  <2>3. \A v \in Writers : info[v].head.id \in 0 .. Len(records)
    BY Zenon DEF PInv, Hand
  <2> QED BY <1>2, <2>1, <2>2, <2>3
<1> QED BY <1>3, <1>8, <1>9, Zenon DEF Hand

LEMMA NextPInv == ASSUME Counting, Serialized PROVE PInv /\ [Next]_vars => PInv'
<1> SUFFICES ASSUME PInv, [Next]_vars PROVE PInv'
  OBVIOUS
<1>1. IInv' /\ TypeInv /\ TypeInv' /\ Len(records) \in Nat
      /\ NoInfo.head.id = 0
  <2>1. IInv /\ IInv'
    BY NextIInv DEF PInv
  <2>2. NoInfo.head.id = 0
    BY DEF NoInfo, HeadUndef
  <2> QED BY <2>1, <2>2, InHand DEF IInv
<1>2. ASSUME NEW w \in Writers, done(w), UNCHANGED <<head, records, pushed, state>>
      PROVE  PInv'
  <2>1. /\ pc' = [pc EXCEPT ![w] = "idle"] /\ pc \in [Writers -> {"idle"} \cup Steps]
        /\ info' = [info EXCEPT ![w] = NoInfo] /\ info \in [Writers -> Info]
        /\ rec' = [rec EXCEPT ![w] = 0] /\ rec \in [Writers -> 0 .. MaxRec]
    BY <1>1, <1>2 DEF done, TypeInv, TypeOK, Info
  <2>2. ASSUME NEW v \in Writers PROVE Hand(v)'
    <3>1. CASE v = w
      <4>1. pc'[v] = "idle" /\ info'[v] = NoInfo /\ rec'[v] = 0
        BY <2>1, <3>1
      <4> QED BY <1>1, <1>2, <4>1 DEF Hand
    <3>2. CASE v # w
      <4>1. pc'[v] = pc[v] /\ info'[v] = info[v] /\ rec'[v] = rec[v]
        BY <2>1, <3>2
      <4> QED BY <1>2, <4>1 DEF PInv, Hand
    <3> QED BY <3>1, <3>2
  <2> QED BY <1>1, <1>2, <2>2, QuietLogs DEF PInv
<1>3. ASSUME NEW w \in Writers, NEW at, goto(w, at),
             at \in {"index", "getlog", "addlog", "putindex", "new"},
             UNCHANGED <<head, records, pushed, state, rec>>,
             \A v \in Writers \ {w} : info'[v] = info[v],
             info'[w].head.id \in 0 .. Len(records)
      PROVE  PInv'
  <2>1. pc' = [pc EXCEPT ![w] = at] /\ pc \in [Writers -> {"idle"} \cup Steps]
    BY <1>1, <1>3 DEF goto, TypeInv, TypeOK
  <2>2. ASSUME NEW v \in Writers PROVE Hand(v)'
    <3>1. CASE v = w
      BY <1>3, <2>1, <3>1 DEF Hand
    <3>2. CASE v # w
      BY <1>3, <2>1, <3>2 DEF PInv, Hand
    <3> QED BY <3>1, <3>2
  <2> QED BY <1>1, <1>3, <2>2, QuietLogs DEF PInv
<1>4. /\ \A v \in Writers : info[v] \in Info /\ info[v].head.id \in 0 .. Len(records)
      /\ \A l \in LogIds : head[l].id \in 0 .. Len(records)
  BY <1>1, InHand, Zenon DEF PInv, Hand, Logs
<1>5. ASSUME NEW w \in Writers, lookup(w) PROVE PInv'
  <2>1. CASE index # NoLog /\ info' = [info EXCEPT ![w].log = index]
             /\ goto(w, "getlog")
    <3>1. info' = [info EXCEPT ![w] = [info[w] EXCEPT !.log = index]]
      BY <1>1, <2>1 DEF TypeInv, TypeOK
    <3>2. [info[w] EXCEPT !.log = index].head = info[w].head
      BY <1>4 DEF Info
    <3>3. /\ info'[w].head = info[w].head
          /\ \A v \in Writers \ {w} : info'[v] = info[v]
      BY <1>1, <3>1, <3>2 DEF TypeInv, TypeOK
    <3> QED BY <1>3, <1>4, <1>5, <2>1, <3>3 DEF lookup
  <2>2. ASSUME NEW l \in 1 .. logs, goto(w, "new"),
               info' = [info EXCEPT ![w] = [log |-> l, head |-> head[l]]]
        PROVE  PInv'
    <3>1. /\ info'[w].head = head[l] /\ l \in LogIds
          /\ \A v \in Writers \ {w} : info'[v] = info[v]
      BY <1>1, <2>2, InHand, Zenon DEF TypeInv, TypeOK
    <3> QED BY <1>3, <1>4, <1>5, <2>2, <3>1 DEF lookup
  <2>3. CASE goto(w, "addlog") /\ UNCHANGED info
    BY <1>3, <1>4, <1>5, <2>3 DEF lookup
  <2> QED BY <1>5, <2>1, <2>2, <2>3 DEF lookup
<1>6. ASSUME NEW w \in Writers, getLog(w) PROVE PInv'
  <2>1. info[w].log \in LogIds
    BY <1>1, <1>6, InHand, Zenon DEF getLog, TypeInv, Linked
  <2>2. info' = [info EXCEPT ![w] = [info[w] EXCEPT !.head = head[info[w].log]]]
    BY <1>1, <1>6 DEF getLog, TypeInv, TypeOK
  <2>3. [info[w] EXCEPT !.head = head[info[w].log]].head = head[info[w].log]
    BY <1>4 DEF Info
  <2>4. /\ info'[w].head = head[info[w].log]
        /\ \A v \in Writers \ {w} : info'[v] = info[v]
    BY <1>1, <2>2, <2>3 DEF TypeInv, TypeOK
  <2> QED BY <1>3, <1>4, <1>6, <2>1, <2>4 DEF getLog
<1>7. ASSUME NEW w \in Writers, addLog(w) PROVE PInv'
  <2>1. /\ info'[w].head.id = 0 /\ \A v \in Writers \ {w} : info'[v] = info[v]
    BY <1>1, <1>7, Zenon DEF addLog, HeadUndef, TypeInv, TypeOK
  <2>2. info'[w].head.id \in 0 .. Len(records)
    BY <1>1, <2>1
  <2>3. goto(w, "putindex") /\ UNCHANGED <<head, records, pushed, state, rec>>
    BY <1>7 DEF addLog
  <2> QED BY <1>3, <2>1, <2>2, <2>3
<1>8. ASSUME NEW w \in Writers, begin(w) \/ putIndex(w) PROVE PInv'
  BY <1>3, <1>4, <1>8, Zenon DEF begin, putIndex
<1>9. ASSUME NEW w \in Writers, sendToBus(w) PROVE PInv'
  <2>1. \A v \in Writers : Hand(v)'
    BY <1>1, <1>9 DEF sendToBus, goto, PInv, Hand, TypeInv, TypeOK
  <2> QED BY <1>1, <1>9, <2>1, QuietLogs, Zenon DEF sendToBus, PInv
<1>10. CASE Crash
  <2>1. /\ \A v \in Writers : pc'[v] = "idle" /\ info'[v] = NoInfo
        /\ records' = records
    BY <1>10 DEF Crash
  <2>2. 0 \in 0 .. Len(records)
    BY <1>1
  <2>3. \A v \in Writers : Hand(v)'
    BY <1>1, <2>1, <2>2, Zenon DEF Hand
  <2> QED BY <1>1, <1>10, <2>3, QuietLogs DEF Crash, PInv
<1>11. CASE UNCHANGED vars
  <2>1. \A v \in Writers : Hand(v)'
    BY <1>11, Zenon DEF vars, PInv, Hand
  <2> QED BY <1>1, <1>11, <2>1, QuietLogs, Zenon DEF vars, PInv
<1>12. ASSUME NEW w \in Writers, step(w) PROVE PInv'
  <2>1. CASE invalid(w) \/ storeError(w) \/ sendTimeout(w) \/ pushError(w)
             \/ dispatchError(w)
    BY <2>1, <1>2 DEF invalid, storeError, sendTimeout, pushError, dispatchError, fail
  <2>2. CASE newRecord(w) \/ setHead(w) \/ pushRecord(w) \/ dispatch(w)
    BY <1>1, <2>2, NewRecordPInv, SetHeadPInv, PushPInv, DispatchPInv DEF PInv
  <2> QED BY <1>12, <1>5, <1>6, <1>7, <1>8, <1>9, <2>1, <2>2 DEF step
<1> QED BY <1>10, <1>11, <1>12 DEF Next

-----------------------------------------------------------------------------
(***************************************************************************)
(* The results.                                                            *)
(***************************************************************************)
\* The counting facts are theorems of FiniteSetTheorems. Its INSTANCE, kept out
\* of the lemmas above, brings its own copy of Cardinality and IsFiniteSet: both
\* copies are spelled out, and are the same.
size(S) == Cardinality(S)

finite(S) == IsFiniteSet(S)

countdown(S) ==
  LET CS[T \in SUBSET S] == IF T = {} THEN 0 ELSE 1 + CS[T \ {CHOOSE x : x \in T}]
  IN  CS[S]

listed(S) == \E seq \in Seq(S) : \A s \in S : \E n \in 1 .. Len(seq) : seq[n] = s

LEMMA SizeIs == \A S : size(S) = countdown(S)
BY Zenon DEF size, Cardinality, countdown

LEMMA FiniteIs == \A S : finite(S) <=> listed(S)
BY Zenon DEF finite, IsFiniteSet, listed

LEMMA CountingIs ==
  ASSUME size({}) = 0,
         \A n \in Nat : \A S \in SUBSET (1 .. n) : finite(S) /\ size(S) \in Nat,
         \A S, x : finite(S) /\ x \notin S => size(S \cup {x}) = size(S) + 1
  PROVE  Counting
BY Zenon DEF Counting, size, finite

LOCAL INSTANCE FiniteSetTheorems

LEMMA SameSize == \A S : size(S) = Cardinality(S)
<1>1. \A S : Cardinality(S) = countdown(S)
  BY Zenon DEF Cardinality, countdown
<1> QED BY <1>1, SizeIs, Zenon

LEMMA SameFinite == \A S : finite(S) <=> IsFiniteSet(S)
<1>1. \A S : IsFiniteSet(S) <=> listed(S)
  BY Zenon DEF IsFiniteSet, listed
<1> QED BY <1>1, FiniteIs, Zenon

LEMMA Counts == Counting
<1>1. size({}) = 0
  BY FS_EmptySet, SameSize, Zenon
<1>2. ASSUME NEW n \in Nat, NEW S \in SUBSET (1 .. n)
      PROVE  finite(S) /\ size(S) \in Nat
  <2>1. IsFiniteSet(1 .. n)
    BY FS_Interval
  <2>2. IsFiniteSet(S)
    BY <2>1, FS_Subset, Zenon
  <2>3. Cardinality(S) \in Nat
    BY <2>2, FS_CardinalityType, Zenon
  <2> QED BY <2>2, <2>3, SameSize, SameFinite, Zenon
<1>3. ASSUME NEW S, NEW x, finite(S), x \notin S
      PROVE  size(S \cup {x}) = size(S) + 1
  <2>1. Cardinality(S \cup {x}) = Cardinality(S) + 1
    BY <1>3, FS_AddElement, SameFinite, Zenon
  <2> QED BY <2>1, SameSize, Zenon
<1> QED BY <1>1, <1>2, <1>3, CountingIs, Zenon

LEMMA AlwaysPInv == ASSUME Serialized PROVE Spec => []PInv
<1>1. Init => PInv
  BY InitPInv, Counts
<1>2. PInv /\ [Next]_vars => PInv'
  BY NextPInv, Counts
<1> QED BY <1>1, <1>2, PTL DEF Spec

\* Under the transaction lock the counter of a head is the number of records of
\* its log, after any failures and crashes of CreateRecord.
THEOREM OwnCounterIsLength ==
  ASSUME Serialized PROVE Spec => []CounterIsLength
<1>1. PInv => CounterIsLength
  BY DEF PInv, Logs
<1> QED BY AlwaysPInv, <1>1, PTL

\* Under the transaction lock a record is pushed with its position in the log,
\* and never leaves the log afterwards.
THEOREM PushesHavePlaces ==
  ASSUME Serialized PROVE Spec => []PushedAtItsPlace
<1>1. PInv => PushedAtItsPlace
  BY DEF PInv, Logs
<1> QED BY AlwaysPInv, <1>1, PTL

\* Under the transaction lock the database dispatches its own records in the
\* order of the log, and only records that stay in it.
THEOREM DispatchesInLogOrder ==
  ASSUME Serialized PROVE Spec => []DispatchedInLogOrder
<1>1. PInv => DispatchedInLogOrder
  BY DEF PInv, Logs
<1> QED BY AlwaysPInv, <1>1, PTL

=============================================================================
