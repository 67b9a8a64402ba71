-------------------------------- MODULE Ipc --------------------------------
(***************************************************************************)
(* The message queues of ipc/ipc.c: one ring of slots per process, filled  *)
(* by ipc_send and ipc_broadcast, searched by ipc_receive, which may ask   *)
(* for one sender, and emptied by ipc_flush_queue.                         *)
(*                                                                         *)
(* A slot is free when its sender_pid is 0, and 0 is also the pid of idle: *)
(* what idle sends takes up a slot and is never seen.  Messages are told   *)
(* apart by a number, in the order they are sent; got records what each    *)
(* process has received.  A queue that has not been allocated yet is an    *)
(* empty one.  Calls are atomic but for the proc_yield in ipc_receive,     *)
(* where other processes run; a call that fails changes nothing.  Idle     *)
(* sends, and nothing in the kernel sends to it.                           *)
(***************************************************************************)
EXTENDS Integers, FiniteSets

CONSTANTS Pids,       \* processes other than idle
          Cap,        \* IPC_MSG_MAX_QUEUE
          MaxMsgs,    \* bound on the messages sent
          Filters     \* values of src_pid handed to ipc_receive

ASSUME IpcAssumption ==
  /\ Pids \subseteq Nat \ {0}
  /\ Cap \in Nat \ {0}
  /\ MaxMsgs \in Nat
  /\ Filters \subseteq Nat

Idle == 0
Senders == Pids \cup {Idle}
AnyPid == 0
NotWaiting == -1

Slots == 0 .. Cap-1
Messages == [from : Senders, id : Nat]
Empty == [from |-> 0, id |-> 0]
Queues == [msgs : [Slots -> Messages], head : Slots, tail : Slots, count : Nat]

VARIABLES queue,    \* queue[p]: the ring of process p
          waiting,  \* waiting[p]: src_pid of the receive in which p has yielded
          sent,     \* number of messages sent so far
          got       \* got[p]: messages that p has received

vars == <<queue, waiting, sent, got>>

\* The type of every variable.
TypeOK ==
  /\ queue \in [Pids -> Queues]
  /\ waiting \in [Pids -> Filters \cup {NotWaiting}]
  /\ sent \in Nat
  /\ got \in [Pids -> SUBSET Nat]

NewQueue == [msgs |-> [i \in Slots |-> Empty], head |-> 0, tail |-> 0, count |-> 0]

Live(q) == {i \in Slots : q.msgs[i].from # 0}
-----------------------------------------------------------------------------
\* The ring q after s has sent message m to it, unless it is full
Sent(q, s, m) ==
  IF q.count >= Cap
  THEN q
  ELSE [msgs |-> [q.msgs EXCEPT ![q.head] = IF s = Idle THEN Empty ELSE [from |-> s, id |-> m]],
        head |-> (q.head + 1) % Cap,
        tail |-> q.tail,
        count |-> q.count + 1]

MayRun(s) == s \in Pids => waiting[s] = NotWaiting

ipc_send(s, d) ==
  /\ MayRun(s)
  /\ sent < MaxMsgs
  /\ sent' = sent + 1
  /\ queue' = [queue EXCEPT ![d] = Sent(@, s, sent + 1)]
  /\ UNCHANGED <<waiting, got>>

ipc_broadcast(s) ==
  /\ MayRun(s)
  /\ sent < MaxMsgs
  /\ sent' = sent + 1
  /\ queue' = [d \in Pids |-> Sent(queue[d], s, sent + 1)]
  /\ UNCHANGED <<waiting, got>>
-----------------------------------------------------------------------------
\* The i-th slot from the tail on
At(q, i) == (q.tail + i) % Cap

Matches(q, src, i) ==
  LET m == q.msgs[At(q, i)] IN m.from # 0 /\ src \in {AnyPid, m.from}

\* Faulty variant: the slot is not marked free
Taken_kept(q, k) ==
  [msgs |-> q.msgs, head |-> q.head, tail |-> (k + 1) % Cap, count |-> q.count - 1]

\* The ring q after the message in slot k has been received
Taken(q, k) ==
  [msgs |-> [q.msgs EXCEPT ![k] = Empty],
   head |-> q.head,
   tail |-> (k + 1) % Cap,
   count |-> q.count - 1]

\* Faulty variant: any slot that matches is taken
take_any(p, src) ==
  \/ /\ \A i \in Slots : ~ Matches(queue[p], src, i)
     /\ UNCHANGED <<queue, got>>
  \/ \E i \in Slots :
       /\ Matches(queue[p], src, i)
       /\ queue' = [queue EXCEPT ![p] = Taken(@, At(@, i))]
       /\ got' = [got EXCEPT ![p] = @ \cup {queue[p].msgs[At(queue[p], i)].id}]

\* The search of ipc_receive: take the first slot from the tail on that matches
take(p, src) ==
  \/ /\ \A i \in Slots : ~ Matches(queue[p], src, i)
     /\ UNCHANGED <<queue, got>>
  \/ \E i \in Slots :
       /\ Matches(queue[p], src, i)
       /\ \A j \in 0 .. i-1 : ~ Matches(queue[p], src, j)
       /\ queue' = [queue EXCEPT ![p] = Taken(@, At(@, i))]
       /\ got' = [got EXCEPT ![p] = @ \cup {queue[p].msgs[At(queue[p], i)].id}]

\* ipc_receive up to its proc_yield, or to its end when there is a message
ipc_receive(p, src) ==
  /\ waiting[p] = NotWaiting
  /\ IF queue[p].count = 0
     THEN waiting' = [waiting EXCEPT ![p] = src] /\ UNCHANGED <<queue, got>>
     ELSE take(p, src) /\ UNCHANGED waiting
  /\ UNCHANGED sent

\* The rest of ipc_receive once the process runs again: it waits no second time
receive_resume(p) ==
  /\ waiting[p] # NotWaiting
  /\ waiting' = [waiting EXCEPT ![p] = NotWaiting]
  /\ IF queue[p].count = 0 THEN UNCHANGED <<queue, got>> ELSE take(p, waiting[p])
  /\ UNCHANGED sent

ipc_flush_queue(p) ==
  /\ queue' = [queue EXCEPT ![p] = NewQueue]
  /\ UNCHANGED <<waiting, sent, got>>
-----------------------------------------------------------------------------
Init ==
  /\ queue = [p \in Pids |-> NewQueue]
  /\ waiting = [p \in Pids |-> NotWaiting]
  /\ sent = 0
  /\ got = [p \in Pids |-> {}]

Next ==
  \/ \E s \in Senders, d \in Pids : ipc_send(s, d)
  \/ \E s \in Senders : ipc_broadcast(s)
  \/ \E p \in Pids, src \in Filters : ipc_receive(p, src)
  \/ \E p \in Pids : receive_resume(p)
  \/ \E p \in Pids : ipc_flush_queue(p)

Spec == Init /\ [][Next]_vars
-----------------------------------------------------------------------------
(* A queue counts at least the messages it holds, and never more than it   *)
(* has slots.  Filtered receives leave holes and messages behind the tail, *)
(* later sends overwrite them and idle's messages are counted but never    *)
(* seen; still each successful receive finds a count to take one from, and *)
(* the unsigned count never wraps.                                         *)
LiveCounted ==
  \A p \in Pids : Cardinality(Live(queue[p])) <= queue[p].count /\ queue[p].count <= Cap

(* No message is received twice, by way of a slot that was received,       *)
(* flushed or overwritten before.                                          *)
DeliveredOnce ==
  \A p \in Pids : \A i \in Live(queue[p]) :
    /\ queue[p].msgs[i].id \notin got[p]
    /\ \A j \in Live(queue[p]) : queue[p].msgs[i].id = queue[p].msgs[j].id => i = j

\* The messages of p are the slots from its tail on, oldest first, as many as
\* it counts, and head is the slot after them
InOrder(p) ==
  LET q == queue[p]
  IN  /\ q.head = (q.tail + q.count) % Cap
      /\ Live(q) = {At(q, i) : i \in 0 .. q.count-1}
      /\ \A i, j \in 0 .. q.count-1 : i < j => q.msgs[At(q, i)].id < q.msgs[At(q, j)].id

(* First in, first out: only a receive that asks for one sender, or a      *)
(* message from idle, can upset the order of a queue.  Short of these no   *)
(* message is lost or overtaken, and what is received is the oldest.       *)
OrderKept ==
  \A p \in Pids : InOrder(p) =>
    \/ ipc_send(Idle, p) \/ ipc_broadcast(Idle)
    \/ \E src \in Filters \ {AnyPid} :
         ipc_receive(p, src) \/ (waiting[p] = src /\ receive_resume(p))
    \/ /\ InOrder(p)'
       /\ \A m \in got'[p] \ got[p] :
            \A i \in Live(queue[p]) : m <= queue[p].msgs[i].id

(* No message ipc_send has put in a queue is received twice, and           *)
(* ipc_receive takes them in the order they were sent, outside the cases   *)
(* excepted above.                                                         *)
MessagesKept == [][DeliveredOnce' /\ OrderKept]_vars
=============================================================================
