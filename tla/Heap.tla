-------------------------------- MODULE Heap --------------------------------
(***************************************************************************)
(* The kernel heap (mm/heap/heap.c): blocks with in-band headers and a     *)
(* free list, grown page by page from the physical memory manager.         *)
(*                                                                         *)
(* Addresses and sizes are in units of HEAP_BLOCK_ALIGN (16 bytes), from   *)
(* g_heap_start on.  The heap is the record mem: its header words hdr, the *)
(* head `list' of the free list and its end.  The header of a block that is *)
(* merged into another is blanked: nothing reads what C leaves there.      *)
(* live[a] is what the caller of the block at a asked for, 0 when nobody   *)
(* holds it: the callers free and resize what they hold, and write nowhere *)
(* else.                                                                   *)
(***************************************************************************)
EXTENDS Integers, Sequences, SequencesExt, FiniteSets

CONSTANTS Page,       \* PAGE_SIZE
          Header,     \* sizeof(heap_block_t)
          Initial,    \* HEAP_INITIAL_SIZE, in pages
          MaxPages,   \* HEAP_MAX_SIZE, in pages
          Requests    \* the sizes asked for, rounded up to whole units

ASSUME HeapAssumption ==
  /\ Page \in Nat \ {0} /\ Header \in Nat \ {0}
  /\ Initial \in Nat \ {0} /\ MaxPages \in Nat
  /\ Header < Initial * Page /\ Initial <= MaxPages
  /\ Requests \subseteq Nat \ {0}

NULL == -1
Blank == [magic |-> "none", size |-> 0, next |-> NULL, prev |-> NULL]
Units == 0 .. MaxPages * Page - 1

VARIABLES mem, live

heapVars == <<mem, live>>

-----------------------------------------------------------------------------
(* p->next = q and p->prev = q, where a null p writes nothing *)
SetNext(h, p, q) == IF p = NULL THEN h ELSE [h EXCEPT ![p].next = q]
SetPrev(h, p, q) == IF p = NULL THEN h ELSE [h EXCEPT ![p].prev = q]

\* The blocks met from block p along next, cut off after as many as there are units
Along(h, p) ==
  LET node[k \in 0 .. MaxPages * Page] ==
        IF k = 0 THEN p
        ELSE LET q == node[k-1] IN IF q = NULL THEN NULL ELSE h[q].next
  IN  SelectSeq([k \in 1 .. MaxPages * Page + 1 |-> node[k-1]], LAMBDA a : a # NULL)

FreeList == Along(mem.hdr, mem.list)

\* Faulty variant: the block is not charged for the header of the rest
take_no_header(m, b, n) ==
  LET o == m.hdr[b]
      r == b + Header + n
      rest == [magic |-> "FREE", size |-> o.size - n, next |-> o.next, prev |-> o.prev]
      split == o.size >= n + Header + 1
      by == IF split THEN r ELSE o.next
      h1 == IF split THEN [m.hdr EXCEPT ![r] = rest] ELSE m.hdr
      h2 == SetPrev(SetNext(h1, o.prev, by), o.next, IF split THEN r ELSE o.prev)
  IN  [m EXCEPT !.hdr = [h2 EXCEPT ![b] = [magic |-> "USED", size |-> IF split THEN n ELSE o.size,
                                           next |-> NULL, prev |-> NULL]],
                !.list = IF o.prev = NULL THEN by ELSE m.list]

\* Faulty variant: the successor of a split block keeps its link back
take_stale_prev(m, b, n) ==
  LET o == m.hdr[b]
      r == b + Header + n
      rest == [magic |-> "FREE", size |-> o.size - Header - n, next |-> o.next, prev |-> o.prev]
      split == o.size >= n + Header + 1
      by == IF split THEN r ELSE o.next
      h1 == IF split THEN [m.hdr EXCEPT ![r] = rest] ELSE m.hdr
      h2 == SetNext(h1, o.prev, by)
  IN  [m EXCEPT !.hdr = [h2 EXCEPT ![b] = [magic |-> "USED", size |-> IF split THEN n ELSE o.size,
                                           next |-> NULL, prev |-> NULL]],
                !.list = IF o.prev = NULL THEN by ELSE m.list]

\* kmalloc once it has found block b: split off what is not needed, when
\* that leaves room for a block, and take b off the free list
take(m, b, n) ==
  LET o == m.hdr[b]
      r == b + Header + n
      rest == [magic |-> "FREE", size |-> o.size - Header - n, next |-> o.next, prev |-> o.prev]
      split == o.size >= n + Header + 1
      by == IF split THEN r ELSE o.next
      h1 == IF split THEN [m.hdr EXCEPT ![r] = rest] ELSE m.hdr
      h2 == SetPrev(SetNext(h1, o.prev, by), o.next, IF split THEN r ELSE o.prev)
  IN  [m EXCEPT !.hdr = [h2 EXCEPT ![b] = [magic |-> "USED", size |-> IF split THEN n ELSE o.size,
                                           next |-> NULL, prev |-> NULL]],
                !.list = IF o.prev = NULL THEN by ELSE m.list]

\* Put block b, with its size set, at the head of the free list
push(m, b, size) ==
  LET h == [m.hdr EXCEPT ![b] = [magic |-> "FREE", size |-> size, next |-> m.list, prev |-> NULL]]
  IN  [m EXCEPT !.hdr = SetPrev(h, m.list, b), !.list = b]

\* The first block of the free list that holds n units; NULL if there is none,
\* or if a block before it has lost its magic
find(m, n) ==
  LET p == Along(m.hdr, m.list)
      stop == SelectInSeq(p, LAMBDA b : m.hdr[b].magic # "FREE" \/ m.hdr[b].size >= n)
  IN  IF stop = 0 THEN NULL
      ELSE IF m.hdr[p[stop]].magic = "FREE" THEN p[stop] ELSE NULL

\* Pages that kmalloc adds to satisfy a request of n units
PagesFor(n) == (n + Header + Page - 1) \div Page

\* heap_extend and the free block made of the new pages
extend(m, pages) ==
  push([m EXCEPT !.end = @ + pages * Page], m.end, pages * Page - Header)

\* kmalloc(n) on heap m: the heap it leaves and the block it returns.  ok says
\* whether the physical memory manager has the pages an extension needs
kmalloc_on(m, n, ok) ==
  LET b == find(m, n)
      grow == ok /\ m.end + PagesFor(n) * Page <= MaxPages * Page
      m2 == extend(m, PagesFor(n))
  IN  IF b # NULL THEN [mem |-> take(m, b, n), block |-> b]
      ELSE IF grow THEN [mem |-> take(m2, m2.list, n), block |-> m2.list]
      ELSE [mem |-> m, block |-> NULL]

\* Merge b with the next block of the list, and into the one before it, when
\* they are neighbours in memory
heap_coalesce(m, b) ==
  LET nx == m.hdr[b].next
      m1 == IF nx # NULL /\ b + Header + m.hdr[b].size = nx
            THEN [m EXCEPT !.hdr = SetPrev([@ EXCEPT ![b].size = @ + Header + m.hdr[nx].size,
                                                     ![b].next = m.hdr[nx].next,
                                                     ![nx] = Blank],
                                           m.hdr[nx].next, b)]
            ELSE m
      pv == m1.hdr[b].prev
  IN  IF pv # NULL /\ pv + Header + m1.hdr[pv].size = b
      THEN [m1 EXCEPT !.hdr = SetPrev([@ EXCEPT ![pv].size = @ + Header + m1.hdr[b].size,
                                                ![pv].next = m1.hdr[b].next,
                                                ![b] = Blank],
                                      m1.hdr[b].next, pv)]
      ELSE m1

\* kfree of block b on heap m
kfree_on(m, b) ==
  IF m.hdr[b].magic # "USED" THEN m ELSE heap_coalesce(push(m, b, m.hdr[b].size), b)
-----------------------------------------------------------------------------
kmalloc(n, ok) ==
  LET r == kmalloc_on(mem, n, ok)
  IN  /\ mem' = r.mem
      /\ live' = IF r.block = NULL THEN live ELSE [live EXCEPT ![r.block] = n]

\* A block the caller holds, or one it has just freed and frees again while
\* its header is still that of a free block
kfree(b) ==
  /\ live[b] # 0 \/ (mem.hdr[b].magic = "FREE" /\ b = mem.list)
  /\ mem' = kfree_on(mem, b)
  /\ live' = [live EXCEPT ![b] = 0]

\* Faulty variant: the old block is freed before the new one is found
krealloc_frees_first(b, n, ok) ==
  LET r == kmalloc_on(kfree_on(mem, b), n, ok)
  IN  /\ live[b] # 0
      /\ IF mem.hdr[b].size >= n
         THEN live' = [live EXCEPT ![b] = n] /\ UNCHANGED mem
         ELSE /\ mem' = r.mem
              /\ live' = IF r.block = NULL THEN live
                         ELSE [live EXCEPT ![b] = 0, ![r.block] = n]

krealloc(b, n, ok) ==
  LET r == kmalloc_on(mem, n, ok)
  IN  /\ live[b] # 0
      /\ IF mem.hdr[b].size >= n
         THEN live' = [live EXCEPT ![b] = n] /\ UNCHANGED mem
         ELSE IF r.block = NULL
         THEN mem' = r.mem /\ UNCHANGED live
         ELSE /\ mem' = kfree_on(r.mem, b)
              /\ live' = [live EXCEPT ![b] = 0, ![r.block] = n]

\* heap_init: one free block in the initial pages
HeapInit ==
  /\ mem = [hdr |-> [a \in Units |->
                       IF a = 0
                       THEN [magic |-> "FREE", size |-> Initial * Page - Header, next |-> NULL, prev |-> NULL]
                       ELSE Blank],
            list |-> 0,
            end |-> Initial * Page]
  /\ live = [a \in Units |-> 0]

HeapNext ==
  \/ \E n \in Requests, ok \in BOOLEAN : kmalloc(n, ok)
  \/ \E b \in Units : kfree(b)
  \/ \E b \in Units, n \in Requests, ok \in BOOLEAN : krealloc(b, n, ok)

HeapSpec == HeapInit /\ [][HeapNext]_heapVars
-----------------------------------------------------------------------------
Held == {a \in Units : live[a] # 0}
Extent(b) == b .. b + Header + mem.hdr[b].size - 1

(* Every unit of the heap belongs to exactly one block, held or free:      *)
(* kmalloc never hands out memory twice and neither splitting, merging,    *)
(* growing nor krealloc loses any.                                         *)
Tiled ==
  \A u \in 0 .. mem.end - 1 :
    Cardinality({b \in Held \cup ToSet(FreeList) : u \in Extent(b)}) = 1

(* The free list is doubly linked, holds each of its blocks once, all of   *)
(* them marked free, and no block that a caller holds.                     *)
FreeListSound ==
  /\ IsInjective(FreeList)
  /\ \A i \in 1 .. Len(FreeList) :
       /\ mem.hdr[FreeList[i]].magic = "FREE"
       /\ mem.hdr[FreeList[i]].prev = IF i = 1 THEN NULL ELSE FreeList[i-1]
       /\ FreeList[i] \notin Held

(* A held block keeps its magic and at least the size asked for, whatever  *)
(* is allocated, resized or freed around it: ksize(p) >= size, and a later *)
(* kfree accepts it.                                                       *)
HeldIntact ==
  \A b \in Held : mem.hdr[b].magic = "USED" /\ mem.hdr[b].size >= live[b]

(* kmalloc, kfree and krealloc in any order neither lose memory nor hand   *)
(* it out twice: the blocks tile the heap, the free list is sound in both  *)
(* directions, and what callers hold stays as it was.                      *)
HeapSound == Tiled /\ FreeListSound /\ HeldIntact
=============================================================================
