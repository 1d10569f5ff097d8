------------------------------ MODULE PeerQueue -------------------------------
(***************************************************************************)
(* The peerQueue of net/queue/ff.go: a doubly linked list of operations    *)
(* with an index by thread, whose Add, Pop and Remove take constant time.  *)
(* Its callers hold the queue's mutex, so every operation is one step.     *)
(***************************************************************************)
EXTENDS Naturals, Sequences, FiniteSets, Functions

CONSTANTS
  Threads,
  Priorities,
  Nil          \* the nil pointer, and the missing index entry

\* Pointers to linkedOperation, as many as can be in the list at a time.
Ops == 1 .. Cardinality(Threads)

ASSUME PeerQueueAssumption ==
  /\ Priorities \subseteq Nat
  /\ IsFiniteSet(Threads)
  /\ Nil \notin Ops

VARIABLES
  ops,         \* the memory: one linkedOperation per pointer
  index,       \* per thread: its operation, or Nil
  first, last  \* the ends of the list

vars == <<ops, index, first, last>>

Pointer == Ops \cup {Nil}

Operation == [prev : Pointer, next : Pointer, tid : Threads,
              call : Priorities, priority : Priorities]

TypeOK ==
  /\ ops \in [Ops -> Operation \cup {Nil}]
  /\ index \in [Threads -> {o \in Ops : ops[o] # Nil} \cup {Nil}]
  /\ first \in Pointer
  /\ last \in Pointer

Init ==
  /\ ops = [o \in Ops |-> Nil]
  /\ index = [t \in Threads |-> Nil]
  /\ first = Nil
  /\ last = Nil

Live == Range(index) \ {Nil}

\* The next operation to be allocated, and the memory without one that left
\* the list: it is garbage, and its place is free.
Fresh == CHOOSE o \in Ops \ Live : \A x \in Ops \ Live : o <= x
Without(mem, o) == [mem EXCEPT ![o] = Nil]

-----------------------------------------------------------------------------
\* A new entry at the end.
addNew(t, p) ==
  /\ index[t] = Nil
  /\ LET op == [prev |-> last, next |-> Nil, tid |-> t, call |-> p, priority |-> p]
     IN  IF last = Nil
         THEN /\ ops' = [ops EXCEPT ![Fresh] = op]
              /\ first' = Fresh
         ELSE /\ ops' = [ops EXCEPT ![Fresh] = op, ![last].next = Fresh]
              /\ UNCHANGED first
  /\ last' = Fresh
  /\ index' = [index EXCEPT ![t] = Fresh]

addExistingEqual(t, p) ==
  /\ index[t] # Nil
  /\ ops' = IF ops[index[t]].priority <= p
            THEN [ops EXCEPT ![index[t]].call = p]
            ELSE ops
  /\ UNCHANGED <<index, first, last>>

\* The call is replaced; the priority of the entry is not.
addExisting(t, p) ==
  /\ index[t] # Nil
  /\ ops' = IF ops[index[t]].priority < p
            THEN [ops EXCEPT ![index[t]].call = p]
            ELSE ops
  /\ UNCHANGED <<index, first, last>>

Add(t, p) == addNew(t, p) \/ addExisting(t, p)

PopKeepsIndex ==
  /\ first # Nil
  /\ LET op == ops[first]
         rest == IF op.next # Nil THEN [ops EXCEPT ![op.next].prev = Nil] ELSE ops
     IN  /\ first' = op.next
         /\ last' = IF op.next # Nil THEN last ELSE Nil
         /\ ops' = Without(rest, first)
         /\ UNCHANGED index

Pop ==
  /\ first # Nil
  /\ LET op == ops[first]
         rest == IF op.next # Nil THEN [ops EXCEPT ![op.next].prev = Nil] ELSE ops
     IN  /\ first' = op.next
         /\ last' = IF op.next # Nil THEN last ELSE Nil
         /\ ops' = Without(rest, first)
         /\ index' = [index EXCEPT ![op.tid] = Nil]

\* The four cases of Remove: the only operation, the first one, the last one,
\* and one in between.
removeOnly(o) ==
  /\ last = o /\ first = o
  /\ first' = Nil
  /\ last' = Nil
  /\ ops' = Without(ops, o)

removeFirst(o) ==
  /\ first = o /\ last # o
  /\ ops' = Without([ops EXCEPT ![ops[o].next].prev = Nil], o)
  /\ first' = ops[o].next
  /\ UNCHANGED last

removeLast(o) ==
  /\ last = o /\ first # o
  /\ ops' = Without([ops EXCEPT ![ops[o].prev].next = Nil], o)
  /\ last' = ops[o].prev
  /\ UNCHANGED first

removeMiddleOneWay(o) ==
  /\ first # o /\ last # o
  /\ ops' = Without([ops EXCEPT ![ops[o].prev].next = ops[o].next], o)
  /\ UNCHANGED <<first, last>>

removeMiddle(o) ==
  /\ first # o /\ last # o
  /\ ops' = Without([ops EXCEPT ![ops[o].prev].next = ops[o].next,
                                ![ops[o].next].prev = ops[o].prev], o)
  /\ UNCHANGED <<first, last>>

Remove(t) ==
  /\ index[t] # Nil
  /\ LET o == index[t]
     IN  removeOnly(o) \/ removeFirst(o) \/ removeLast(o) \/ removeMiddle(o)
  /\ index' = [index EXCEPT ![t] = Nil]

Next ==
  \/ \E t \in Threads, p \in Priorities : Add(t, p)
  \/ Pop
  \/ \E t \in Threads : Remove(t)

Spec == Init /\ [][Next]_vars

-----------------------------------------------------------------------------
(***************************************************************************)
(* Properties.                                                             *)
(***************************************************************************)

\* The list read forward from first: the operations met after n links.
forward[n \in 0 .. Cardinality(Ops)] ==
  IF n = 0 THEN first
  ELSE IF forward[n - 1] = Nil THEN Nil ELSE ops[forward[n - 1]].next

size == Cardinality({n \in 0 .. Cardinality(Ops) - 1 : forward[n] # Nil})

\* The list, the index and the backward links agree: what is listed is what is
\* indexed, under its own thread, and prev undoes next.  No link leads to
\* an operation that left the queue.
Consistent ==
  /\ {forward[n] : n \in 0 .. size} \ {Nil} = Live
  /\ \A t \in Threads : index[t] # Nil => ops[index[t]].tid = t
  /\ \A o \in Live : /\ ops[o].prev \in Live \cup {Nil}
                     /\ ops[o].next \in Live \cup {Nil}
                     /\ ops[o].next # Nil => ops[ops[o].next].prev = o
                     /\ (ops[o].prev = Nil) <=> (o = first)
                     /\ (ops[o].next = Nil) <=> (o = last)
  /\ (first = Nil) <=> (last = Nil)

\* The list implements the first-in-first-out queue of CallFifo.
listed == [n \in 1 .. size |->
             [tid |-> ops[forward[n - 1]].tid, call |-> ops[forward[n - 1]].call,
              priority |-> ops[forward[n - 1]].priority]]

Fifo == INSTANCE CallFifo WITH queue <- listed

ImplementsFifo == Fifo!FifoSpec

=============================================================================
