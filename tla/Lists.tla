------------------------------- MODULE Lists --------------------------------
(***************************************************************************)
(* The intrusive ring of include/gOS/list.h, with one list head, the queue *)
(* of lib/queue.c, whose nodes come from kmalloc, and the byte ring of     *)
(* include/gOS/ring_buffer.h.                                              *)
(***************************************************************************)
EXTENDS Integers, Sequences, SequencesExt

CONSTANTS
  ListNodes,   \* the nodes 1 .. ListNodes that may be put on the list
  QueueNodes,  \* the queue nodes kmalloc can give out
  QueueData    \* what is enqueued

VARIABLES
  lnext, lprev,   \* the links of the list head and of every node
  order,          \* what the list holds, as its callers see it
  stale,          \* nodes that were replaced and still carry their old links
  torn,           \* such a node was removed once more
  queue,          \* queue_t: head, tail and count
  qnode,          \* the queue nodes: data and next
  queued          \* what was enqueued and not dequeued since

listVars == <<lnext, lprev, order, stale, torn>>
queueVars == <<queue, qnode, queued>>

HEAD == 0
Loose == (1 .. ListNodes) \ ToSet(order)

\* list_insert_after; list_prepend inserts after the head
list_insert_after(pos, n) ==
  /\ lnext' = [lnext EXCEPT ![n] = lnext[pos], ![pos] = n]
  /\ lprev' = [lprev EXCEPT ![n] = pos, ![lnext[pos]] = n]
  /\ order' = InsertAt(order, 1 + SelectInSeq(order, LAMBDA x : x = pos), n)
  /\ stale' = stale \ {n} /\ UNCHANGED torn

\* A faulty variant: the node that was last keeps the head as its successor
list_insert_before_no_next(pos, n) ==
  /\ lnext' = [lnext EXCEPT ![n] = pos]
  /\ lprev' = [lprev EXCEPT ![n] = lprev[pos], ![pos] = n]
  /\ order' = IF pos = HEAD THEN Append(order, n)
              ELSE InsertAt(order, SelectInSeq(order, LAMBDA x : x = pos), n)
  /\ stale' = stale \ {n} /\ UNCHANGED torn

\* list_insert_before; list_append inserts before the head
list_insert_before(pos, n) ==
  /\ lnext' = [lnext EXCEPT ![n] = pos, ![lprev[pos]] = n]
  /\ lprev' = [lprev EXCEPT ![n] = lprev[pos], ![pos] = n]
  /\ order' = IF pos = HEAD THEN Append(order, n)
              ELSE InsertAt(order, SelectInSeq(order, LAMBDA x : x = pos), n)
  /\ stale' = stale \ {n} /\ UNCHANGED torn

\* list_remove, of a member or again of a node that is not on the list
list_remove(n) ==
  LET around == [lnext EXCEPT ![lprev[n]] = lnext[n]]
      back == [lprev EXCEPT ![around[n]] = lprev[n]]
  IN /\ lnext' = [around EXCEPT ![n] = n]
     /\ lprev' = [back EXCEPT ![n] = n]
     /\ order' = SelectSeq(order, LAMBDA x : x # n)
     /\ stale' = stale \ {n} /\ torn' = (n \in stale)

\* list_replace leaves the links of the old node as they are
list_replace(old, n) ==
  /\ lnext' = [lnext EXCEPT ![n] = lnext[old], ![lprev[old]] = n]
  /\ lprev' = [lprev EXCEPT ![n] = lprev[old], ![lnext[old]] = n]
  /\ order' = ReplaceAll(order, old, n)
  /\ stale' = (stale \ {n}) \cup {old} /\ UNCHANGED torn

\* list_init, of a node that is not on the list
list_init(n) ==
  /\ lnext' = [lnext EXCEPT ![n] = n] /\ lprev' = [lprev EXCEPT ![n] = n]
  /\ stale' = stale \ {n} /\ UNCHANGED <<order, torn>>

ListInit ==
  /\ lnext = [n \in HEAD .. ListNodes |-> n] /\ lprev = lnext
  /\ order = <<>> /\ stale = {} /\ torn = FALSE

\* A torn ring is not followed any further
ListNext ==
  /\ ~torn
  /\ \/ \E n \in Loose, pos \in ToSet(order) \cup {HEAD} :
          list_insert_after(pos, n) \/ list_insert_before(pos, n)
     \/ \E n \in 1 .. ListNodes : list_remove(n)
     \/ \E n \in Loose : \E old \in ToSet(order) : list_replace(old, n)
     \/ \E n \in Loose : list_init(n)
-----------------------------------------------------------------------------
\* queue_enqueue: kmalloc gives node n; without memory nothing changes
queue_enqueue(n, d) ==
  /\ qnode[n].data = 0
  /\ qnode' = LET new == [qnode EXCEPT ![n] = [data |-> d, next |-> 0]]
              IN IF queue.tail # 0 THEN [new EXCEPT ![queue.tail].next = n] ELSE new
  /\ queue' = [head |-> IF queue.tail # 0 THEN queue.head ELSE n,
               tail |-> n, count |-> queue.count + 1]
  /\ queued' = Append(queued, d)

\* A faulty variant: the tail keeps pointing at the node that was freed
Dequeued_keeps_tail(q, nodes) == [q EXCEPT !.head = nodes[q.head].next, !.count = @ - 1]

Dequeued(q, nodes) ==
  LET h == nodes[q.head].next
  IN [head |-> h, tail |-> IF h = 0 THEN 0 ELSE q.tail, count |-> q.count - 1]

\* queue_dequeue returns the data and frees the node; NULL when there is none
queue_dequeue ==
  \/ queue.head = 0 /\ UNCHANGED queueVars
  \/ /\ queue.head # 0
     /\ queue' = Dequeued(queue, qnode)
     /\ qnode' = [qnode EXCEPT ![queue.head].data = 0]
     /\ queued' = Tail(queued)

\* queue_clear dequeues until the count is 0
RECURSIVE Cleared(_, _)
Cleared(q, nodes) ==
  IF q.count = 0 THEN [q |-> q, nodes |-> nodes]
  ELSE Cleared(Dequeued(q, nodes), [nodes EXCEPT ![q.head].data = 0])
queue_clear ==
  LET c == Cleared(queue, qnode)
  IN queue' = c.q /\ qnode' = c.nodes /\ queued' = <<>>

QueueInit ==
  /\ queue = [head |-> 0, tail |-> 0, count |-> 0]
  /\ qnode = [n \in 1 .. QueueNodes |-> [data |-> 0, next |-> 0]]
  /\ queued = <<>>

QueueNext ==
  \/ \E n \in 1 .. QueueNodes, d \in QueueData : queue_enqueue(n, d)
  \/ queue_dequeue
  \/ queue_clear
-----------------------------------------------------------------------------
\* The first n + 1 nodes met from the head along the links f
Around(f, n) ==
  LET w[i \in 0 .. n + 1] == IF i = 0 THEN HEAD ELSE f[w[i - 1]] IN [i \in 1 .. n + 1 |-> w[i]]

(* Followed in either direction the ring holds what the callers put on the *)
(* list, after every order of calls, removing a node twice included: only  *)
(* list_remove of a node that list_replace took off the list, and whose    *)
(* links are stale, can tear it.                                           *)
ListRing ==
  \/ torn
  \/ /\ Around(lnext, Len(order)) = Append(order, HEAD)
     /\ Around(lprev, Len(order)) = Append(Reverse(order), HEAD)

\* The data of the queue nodes met from node n on, at most k of them
RECURSIVE Chain(_, _)
Chain(n, k) ==
  IF n = 0 \/ k = 0 THEN <<>> ELSE <<qnode[n].data>> \o Chain(qnode[n].next, k - 1)

(* The queue holds exactly what was enqueued and not dequeued, in order,   *)
(* its tail is its last node and its count its length, whichever nodes     *)
(* kfree and kmalloc recycle.                                              *)
QueueFifo ==
  /\ Chain(queue.head, QueueNodes + 1) = queued
  /\ queue.count = Len(queued)
  /\ IF queued = <<>> THEN queue.tail = 0
     ELSE queue.tail # 0 /\ qnode[queue.tail].next = 0 /\ qnode[queue.tail].data = Last(queued)
-----------------------------------------------------------------------------
(* The byte ring of include/gOS/ring_buffer.h, shared by one producer and  *)
(* one consumer without a lock.  head and tail are volatile: every use is  *)
(* a memory access of its own, and the two may interleave between any two  *)
(* statements.  Bytes are numbered in the order they are pushed.           *)

CONSTANTS
  capacity,
  MaxPushes     \* how many bytes are offered

VARIABLES
  ring,         \* buffer, head and tail
  pusher,       \* where the producer is, and its byte
  popper,       \* where the consumer is, and the byte it has read
  inside,       \* what was pushed and is neither popped nor cleared
  popped,       \* what the consumer got
  overlap       \* a clear ran while a push was under way

ringVars == <<ring, pusher, popper, inside, popped, overlap>>

ring_buffer_empty == ring.head = ring.tail
ring_buffer_full == (ring.head + 1) % capacity = ring.tail
ring_buffer_size ==
  IF ring.head >= ring.tail THEN ring.head - ring.tail ELSE capacity - ring.tail + ring.head

\* ring_buffer_push: the test, the store and the new head, one after the other
push_test ==
  /\ pusher.at = "out" /\ pusher.byte < MaxPushes
  /\ pusher' = [at |-> IF ring_buffer_full THEN "out" ELSE "store", byte |-> pusher.byte + 1]
  /\ overlap' = (overlap \/ (popper.at = "clear" /\ ~ring_buffer_full))
  /\ UNCHANGED <<ring, popper, inside, popped>>
\* A faulty variant: the head moves before the byte is in its place
push_store_late ==
  /\ pusher.at = "store"
  /\ ring' = [ring EXCEPT !.head = (@ + 1) % capacity]
  /\ pusher' = [pusher EXCEPT !.at = "advance"]
  /\ inside' = Append(inside, pusher.byte)
  /\ UNCHANGED <<popper, popped, overlap>>

push_store ==
  /\ pusher.at = "store"
  /\ ring' = [ring EXCEPT !.buffer[ring.head] = pusher.byte]
  /\ pusher' = [pusher EXCEPT !.at = "advance"]
  /\ UNCHANGED <<popper, inside, popped, overlap>>
push_advance ==
  /\ pusher.at = "advance"
  /\ ring' = [ring EXCEPT !.head = (@ + 1) % capacity]
  /\ pusher' = [pusher EXCEPT !.at = "out"]
  /\ inside' = Append(inside, pusher.byte)
  /\ UNCHANGED <<popper, popped, overlap>>

\* ring_buffer_pop
pop_test ==
  /\ popper.at = "out" /\ ~ring_buffer_empty
  /\ popper' = [popper EXCEPT !.at = "load"]
  /\ UNCHANGED <<ring, pusher, inside, popped, overlap>>
pop_load ==
  /\ popper.at = "load"
  /\ popper' = [at |-> "advance", byte |-> ring.buffer[ring.tail]]
  /\ UNCHANGED <<ring, pusher, inside, popped, overlap>>
pop_advance ==
  /\ popper.at = "advance"
  /\ ring' = [ring EXCEPT !.tail = (@ + 1) % capacity]
  /\ popper' = [popper EXCEPT !.at = "out"]
  /\ popped' = Append(popped, popper.byte)
  /\ inside' = IF inside = <<>> THEN inside ELSE Tail(inside)
  /\ UNCHANGED <<pusher, overlap>>

\* ring_buffer_clear, called by the consumer: first the head, then the tail
clear_head ==
  /\ popper.at = "out"
  /\ ring' = [ring EXCEPT !.head = 0]
  /\ popper' = [popper EXCEPT !.at = "clear"]
  /\ overlap' = (overlap \/ pusher.at # "out")
  /\ UNCHANGED <<pusher, inside, popped>>
clear_tail ==
  /\ popper.at = "clear"
  /\ ring' = [ring EXCEPT !.tail = 0]
  /\ popper' = [popper EXCEPT !.at = "out"]
  /\ inside' = <<>>
  /\ UNCHANGED <<pusher, popped, overlap>>

\* ring_buffer_init
RingInit ==
  /\ ring = [buffer |-> [i \in 0 .. capacity - 1 |-> 0], head |-> 0, tail |-> 0]
  /\ pusher = [at |-> "out", byte |-> 0] /\ popper = pusher
  /\ inside = <<>> /\ popped = <<>> /\ overlap = FALSE

\* After an overlap the bytes inside are no longer known
RingNext ==
  /\ ~overlap
  /\ \/ push_test \/ push_store \/ push_advance
     \/ pop_test \/ pop_load \/ pop_advance
     \/ clear_head \/ clear_tail
-----------------------------------------------------------------------------
(* Without a lock, whatever the interleaving of ring_buffer_push with      *)
(* ring_buffer_pop, the consumer gets bytes in the order they were pushed, *)
(* none twice and none before it was stored, and the ring holds exactly    *)
(* what was pushed and not taken; only ring_buffer_clear while a push is   *)
(* under way breaks this.                                                  *)
RingFifo ==
  overlap \/
  /\ \A i \in 1 .. Len(popped) - 1 : popped[i] < popped[i + 1]
  /\ popper.at # "clear" =>
       /\ ring_buffer_size = Len(inside)
       /\ \A i \in 1 .. Len(inside) : ring.buffer[(ring.tail + i - 1) % capacity] = inside[i]

(* The links of list.h and of queue.c hold exactly what callers put in and *)
(* did not take out, in order.                                             *)
ListsSound == ListRing /\ QueueFifo
=============================================================================
