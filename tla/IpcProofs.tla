----------------------------- MODULE IpcProofs -----------------------------
(***************************************************************************)
(* For any number of processes and any length of the queues: the rings     *)
(* stay typed and their counts bound what they hold.                       *)
(***************************************************************************)
EXTENDS Ipc, FiniteSetTheorems, TLAPS

\* LiveCounted of one queue
Counted(q) == Cardinality(Live(q)) <= q.count /\ q.count <= Cap

IInv == TypeOK /\ LiveCounted

\* The slots of a queue, and those in use, are finitely many.
LEMMA LiveFinite ==
  ASSUME NEW q
  PROVE  IsFiniteSet(Live(q)) /\ Cardinality(Live(q)) \in Nat
<1>1. IsFiniteSet(Slots)
  BY IpcAssumption, FS_Interval DEF Slots
<1>2. Live(q) \subseteq Slots
  BY DEF Live
<1> QED
  BY <1>1, <1>2, FS_Subset, FS_CardinalityType

\* A position in the ring plus any offset is a position in the ring.
LEMMA WrapSlot ==
  ASSUME NEW n \in Nat
  PROVE  n % Cap \in Slots
BY IpcAssumption DEF Slots

\* An unallocated or flushed queue is typed and holds nothing.
LEMMA NewQueueCounted == NewQueue \in Queues /\ Counted(NewQueue)
<1>1. NewQueue \in Queues
  BY IpcAssumption DEF NewQueue, Queues, Slots, Messages, Empty, Senders, Idle
<1>2. Live(NewQueue) = {}
  BY DEF NewQueue, Live, Empty
<1>3. Cardinality(Live(NewQueue)) = 0
  BY <1>2, FS_EmptySet
<1> QED
  BY <1>1, <1>3, IpcAssumption DEF Counted, NewQueue

\* Sending uses up one slot at most and counts it.
LEMMA SentCounted ==
  ASSUME NEW q \in Queues, Counted(q), NEW s \in Senders, NEW m \in Nat
  PROVE  Sent(q, s, m) \in Queues /\ Counted(Sent(q, s, m))
<1>1. CASE q.count >= Cap
  BY <1>1 DEF Sent
<1>2. CASE ~ (q.count >= Cap)
  <2> DEFINE x == IF s = Idle THEN Empty ELSE [from |-> s, id |-> m]
             f == [q.msgs EXCEPT ![q.head] = x]
             h == (q.head + 1) % Cap
             r == [msgs |-> f, head |-> h, tail |-> q.tail, count |-> q.count + 1]
  <2>1. Sent(q, s, m) = r
    BY <1>2 DEF Sent
  <2>2. x \in Messages
    BY DEF Messages, Empty, Senders, Idle
  <2>3. /\ q.head \in Slots /\ q.tail \in Slots /\ q.count \in Nat
        /\ q.msgs \in [Slots -> Messages]
    BY DEF Queues
  <2>4. h \in Slots
    <3>1. q.head + 1 \in Nat
      BY <2>3 DEF Slots
    <3> QED
      BY <3>1, WrapSlot
  <2> HIDE DEF x, h
  <2>5. r \in Queues /\ r.msgs = [q.msgs EXCEPT ![q.head] = x] /\ r.count = q.count + 1
    BY <2>2, <2>3, <2>4 DEF Queues
  <2> HIDE DEF r
  <2>6. Live(r) \subseteq Live(q) \cup {q.head}
    BY <2>3, <2>5 DEF Live
  <2>7. /\ IsFiniteSet(Live(q) \cup {q.head})
        /\ Cardinality(Live(q) \cup {q.head}) <= Cardinality(Live(q)) + 1
    BY LiveFinite, FS_AddElement
  <2>8. Cardinality(Live(r)) <= Cardinality(Live(q) \cup {q.head})
    BY <2>6, <2>7, FS_Subset
  <2>9. Cardinality(Live(r)) <= Cardinality(Live(q)) + 1
    BY <2>7, <2>8, LiveFinite, FS_CardinalityType
  <2>10. Counted(r)
    BY <1>2, <2>3, <2>5, <2>9, LiveFinite, IpcAssumption DEF Counted
  <2> QED
    BY <2>1, <2>5, <2>10
<1> QED
  BY <1>1, <1>2

\* Receiving frees the slot it takes and counts it off.
LEMMA TakenCounted ==
  ASSUME NEW q \in Queues, Counted(q), q.count # 0, NEW k \in Live(q)
  PROVE  Taken(q, k) \in Queues /\ Counted(Taken(q, k))
<1> DEFINE f == [q.msgs EXCEPT ![k] = Empty]
           l == (k + 1) % Cap
           r == [msgs |-> f, head |-> q.head, tail |-> l, count |-> q.count - 1]
<1>1. Taken(q, k) = r
  BY DEF Taken
<1>2. /\ q.head \in Slots /\ q.count \in Nat /\ q.count - 1 \in Nat
      /\ q.msgs \in [Slots -> Messages] /\ k \in Slots /\ k + 1 \in Nat
  BY DEF Queues, Live, Slots
<1>3. l \in Slots
  BY <1>2, WrapSlot
<1>4. Empty \in Messages /\ Empty.from = 0
  BY DEF Messages, Empty, Senders, Idle
<1> HIDE DEF l
<1>5. r \in Queues /\ r.msgs = [q.msgs EXCEPT ![k] = Empty] /\ r.count = q.count - 1
  BY <1>2, <1>3, <1>4 DEF Queues
<1> HIDE DEF r
<1>6. Live(r) = Live(q) \ {k}
  BY <1>2, <1>4, <1>5 DEF Live
<1>7. Cardinality(Live(r)) = Cardinality(Live(q)) - 1
  BY <1>6, LiveFinite, FS_RemoveElement
<1>8. Counted(r)
  BY <1>2, <1>5, <1>7, LiveFinite, IpcAssumption DEF Counted
<1> QED
  BY <1>1, <1>5, <1>8

\* The search of ipc_receive keeps the queues typed and counted.
LEMMA TakeKeeps ==
  ASSUME IInv, NEW p \in Pids, NEW src, queue[p].count # 0, take(p, src)
  PROVE  /\ queue' \in [Pids -> Queues]
         /\ \A d \in Pids : Counted(queue'[d])
         /\ got' \in [Pids -> SUBSET Nat]
<1>0. /\ queue \in [Pids -> Queues] /\ got \in [Pids -> SUBSET Nat]
      /\ \A d \in Pids : Counted(queue[d])
  BY DEF IInv, TypeOK, LiveCounted, Counted
<1>1. CASE UNCHANGED <<queue, got>>
  BY <1>0, <1>1
<1>2. ASSUME NEW i \in Slots, Matches(queue[p], src, i),
             queue' = [queue EXCEPT ![p] = Taken(@, At(@, i))],
             got' = [got EXCEPT ![p] = @ \cup {queue[p].msgs[At(queue[p], i)].id}]
      PROVE  /\ queue' \in [Pids -> Queues]
             /\ \A d \in Pids : Counted(queue'[d])
             /\ got' \in [Pids -> SUBSET Nat]
  <2> DEFINE k == At(queue[p], i)
  <2>1. queue[p] \in Queues /\ Counted(queue[p])
    BY <1>0
  <2>2. k \in Slots
    <3>1. queue[p].tail + i \in Nat
      BY <2>1 DEF Queues, Slots
    <3> QED
      BY <3>1, WrapSlot DEF At
  <2>3. k \in Live(queue[p])
    BY <1>2, <2>2 DEF Matches, Live
  <2>4. Taken(queue[p], k) \in Queues /\ Counted(Taken(queue[p], k))
    BY <2>1, <2>3, TakenCounted
  <2>5. queue[p].msgs[k].id \in Nat
    BY <2>1, <2>2 DEF Queues, Messages
  <2> HIDE DEF k
  <2>6. queue' = [queue EXCEPT ![p] = Taken(queue[p], k)]
    BY <1>0, <1>2 DEF k
  <2>7. got' = [got EXCEPT ![p] = got[p] \cup {queue[p].msgs[k].id}]
    BY <1>0, <1>2 DEF k
  <2> QED
    BY <1>0, <2>4, <2>5, <2>6, <2>7
<1> QED
  BY <1>1, <1>2 DEF take

\* The initial state: every queue is new.
LEMMA InitIInv == Init => IInv
<1> SUFFICES ASSUME Init PROVE IInv
  OBVIOUS
<1>1. TypeOK
  BY NewQueueCounted DEF Init, TypeOK
<1>2. LiveCounted
  BY NewQueueCounted DEF Init, LiveCounted, Counted
<1> QED
  BY <1>1, <1>2 DEF IInv

\* Every step keeps the invariant.
LEMMA NextIInv == IInv /\ [Next]_vars => IInv'
<1> SUFFICES ASSUME IInv, [Next]_vars PROVE IInv'
  OBVIOUS
<1>0. /\ queue \in [Pids -> Queues] /\ waiting \in [Pids -> Filters \cup {NotWaiting}]
      /\ sent \in Nat /\ got \in [Pids -> SUBSET Nat]
      /\ \A d \in Pids : Counted(queue[d])
  BY DEF IInv, TypeOK, LiveCounted, Counted
<1> SUFFICES /\ queue' \in [Pids -> Queues] /\ waiting' \in [Pids -> Filters \cup {NotWaiting}]
             /\ sent' \in Nat /\ got' \in [Pids -> SUBSET Nat]
             /\ \A d \in Pids : Counted(queue'[d])
  BY DEF IInv, TypeOK, LiveCounted, Counted
<1>1. ASSUME NEW s \in Senders, NEW d \in Pids
      PROVE  Sent(queue[d], s, sent + 1) \in Queues /\ Counted(Sent(queue[d], s, sent + 1))
  BY <1>0, SentCounted
<1>2. CASE \E s \in Senders, d \in Pids : ipc_send(s, d)
  BY <1>0, <1>1, <1>2 DEF ipc_send
<1>3. CASE \E s \in Senders : ipc_broadcast(s)
  BY <1>0, <1>1, <1>3 DEF ipc_broadcast
<1>4. ASSUME NEW p \in Pids, NEW src \in Filters, ipc_receive(p, src)
      PROVE  /\ queue' \in [Pids -> Queues] /\ waiting' \in [Pids -> Filters \cup {NotWaiting}]
             /\ sent' \in Nat /\ got' \in [Pids -> SUBSET Nat]
             /\ \A d \in Pids : Counted(queue'[d])
  <2>1. CASE queue[p].count = 0
    BY <1>0, <1>4, <2>1 DEF ipc_receive
  <2>2. CASE queue[p].count # 0
    BY <1>0, <1>4, <2>2, TakeKeeps DEF ipc_receive
  <2> QED
    BY <2>1, <2>2
<1>5. ASSUME NEW p \in Pids, receive_resume(p)
      PROVE  /\ queue' \in [Pids -> Queues] /\ waiting' \in [Pids -> Filters \cup {NotWaiting}]
             /\ sent' \in Nat /\ got' \in [Pids -> SUBSET Nat]
             /\ \A d \in Pids : Counted(queue'[d])
  <2>1. CASE queue[p].count = 0
    BY <1>0, <1>5, <2>1 DEF receive_resume
  <2>2. CASE queue[p].count # 0
    BY <1>0, <1>5, <2>2, TakeKeeps DEF receive_resume
  <2> QED
    BY <2>1, <2>2
<1>6. CASE \E p \in Pids : ipc_flush_queue(p)
  BY <1>0, <1>6, NewQueueCounted DEF ipc_flush_queue
<1>7. CASE UNCHANGED vars
  BY <1>0, <1>7 DEF vars
<1> QED
  BY <1>2, <1>3, <1>4, <1>5, <1>6, <1>7 DEF Next

(* Type correctness of the message queues: head and tail stay in the ring. *)
THEOREM TypeCorrect == Spec => []TypeOK
<1>1. IInv => TypeOK
  BY DEF IInv
<1> QED
  BY <1>1, InitIInv, NextIInv, PTL DEF Spec

(* However receives with and without a filter, overwriting sends, idle's   *)
(* messages and flushes are mixed, the count of a queue (ipc_queue_t)      *)
(* bounds the messages in it and is bounded by its slots.                  *)
THEOREM LiveCountedAlways == Spec => []LiveCounted
<1>1. IInv => LiveCounted
  BY DEF IInv
<1> QED
  BY <1>1, InitIInv, NextIInv, PTL DEF Spec
=============================================================================
