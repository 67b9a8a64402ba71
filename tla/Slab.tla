-------------------------------- MODULE Slab --------------------------------
(***************************************************************************)
(* A cache of the slab allocator (lib/slab.c): slabs of one page, each with *)
(* a list of its free objects, on three lists of the cache linked through  *)
(* slab->next.                                                             *)
(*                                                                         *)
(* Slabs are numbered in the order they are created; object <<s, i>> is the *)
(* i-th of slab s.  free_list is the chain through the free objects, the   *)
(* first one first.  users has the objects that callers hold; they free    *)
(* what they hold, once.  A cache that has been destroyed is 0 objects     *)
(* wide; the pages of its slabs are not given back, so numbers are not     *)
(* used again.                                                             *)
(***************************************************************************)
EXTENDS Integers, Sequences, SequencesExt, FiniteSetsExt

CONSTANTS ObjCounts,  \* objects per page: avail / obj_size, one value per cache
          MaxSlabs    \* pages the physical memory manager gives to slabs

NoSlab == 0
SlabIds == 1 .. MaxSlabs

VARIABLES slab,        \* slab[s]: next, free_list and used of slab s
          cache,       \* heads of the three lists, and obj_count of the slabs
          created,     \* slabs created so far
          users

slabVars == <<slab, cache, created, users>>

\* Faulty variant: the last object of the page is not linked
NewSlab_short(count) == [next |-> NoSlab, free_list |-> [i \in 1 .. count - 1 |-> i], used |-> 0]

NewSlab(count) == [next |-> NoSlab, free_list |-> [i \in 1 .. count |-> i], used |-> 0]

\* slab_cache_create; without a page for its first slab there is no cache
slab_cache_create(count) ==
  /\ cache.count = -1
  /\ created < MaxSlabs
  /\ slab' = [slab EXCEPT ![created + 1] = NewSlab(count)]
  /\ cache' = [full |-> NoSlab, partial |-> NoSlab, free |-> created + 1, count |-> count]
  /\ created' = created + 1
  /\ UNCHANGED users

slab_cache_destroy ==
  /\ cache.count # -1
  /\ cache' = [cache EXCEPT !.count = -1]
  /\ users' = {}
  /\ UNCHANGED <<slab, created>>

\* slab_alloc has found slab s of the partial list, in table t and cache c
take_object(t, c, s) ==
  LET obj == Head(t[s].free_list)
      t2 == [t EXCEPT ![s].free_list = Tail(@), ![s].used = @ + 1]
  IN  IF t[s].free_list = <<>>
      THEN slab' = t /\ cache' = c /\ UNCHANGED users
      ELSE /\ users' = users \cup {<<s, obj>>}
           /\ IF t2[s].used >= c.count
              THEN /\ cache' = [c EXCEPT !.partial = t2[s].next, !.full = s]
                   /\ slab' = [t2 EXCEPT ![s].next = c.full]
              ELSE slab' = t2 /\ cache' = c

slab_alloc ==
  /\ cache.count # -1
  /\ IF cache.partial # NoSlab
     THEN take_object(slab, cache, cache.partial) /\ UNCHANGED created
     ELSE LET s == IF cache.free # NoSlab THEN cache.free ELSE created + 1
              t == IF s > created THEN [slab EXCEPT ![s] = NewSlab(cache.count)] ELSE slab
          IN  IF s > MaxSlabs
              THEN UNCHANGED slabVars
              ELSE /\ created' = IF s > created THEN s ELSE created
                   /\ take_object([t EXCEPT ![s].next = NoSlab],
                                  [cache EXCEPT !.partial = s, !.free = t[s].next], s)

\* The slabs of a list, from its head s on
Chain(s) ==
  LET node[k \in 0 .. MaxSlabs] == IF k = 0 \/ node[k-1] = NoSlab THEN (IF k = 0 THEN s ELSE NoSlab)
                                   ELSE slab[node[k-1]].next
  IN  SelectSeq([k \in 1 .. MaxSlabs + 1 |-> node[k-1]], LAMBDA x : x # NoSlab)

\* Faulty variant: the slab is taken off the head of the full list
slab_free_head(obj) ==
  LET s == obj[1]
      t == [slab EXCEPT ![s].free_list = <<obj[2]>> \o @, ![s].used = @ - 1]
      moved == t[s].used = cache.count - 1
  IN  /\ obj \in users
      /\ users' = users \ {obj}
      /\ slab' = IF moved THEN [t EXCEPT ![s].next = cache.partial] ELSE t
      /\ cache' = IF moved THEN [cache EXCEPT !.full = slab[s].next, !.partial = s] ELSE cache
      /\ UNCHANGED created

\* slab_free finds the slab, and the one before it, on the partial list or
\* else on the full one; it unlinks a slab that was full
slab_free(obj) ==
  LET s == obj[1]
      list == IF Contains(Chain(cache.partial), s) THEN Chain(cache.partial) ELSE Chain(cache.full)
      at == SelectInSeq(list, LAMBDA x : x = s)
      t == [slab EXCEPT ![s].free_list = <<obj[2]>> \o @, ![s].used = @ - 1]
      t2 == IF at > 1 THEN [t EXCEPT ![list[at - 1]].next = t[s].next] ELSE t
  IN  /\ obj \in users
      /\ UNCHANGED created
      /\ IF at = 0
         THEN UNCHANGED <<slab, cache, users>>
         ELSE /\ users' = users \ {obj}
              /\ IF t[s].used = cache.count - 1
                 THEN /\ slab' = [t2 EXCEPT ![s].next = cache.partial]
                      /\ cache' = [cache EXCEPT !.full = IF at > 1 THEN @ ELSE t[s].next, !.partial = s]
                 ELSE slab' = t /\ UNCHANGED cache

SlabInit ==
  /\ slab = [s \in SlabIds |-> NewSlab(0)]
  /\ cache = [full |-> NoSlab, partial |-> NoSlab, free |-> NoSlab, count |-> -1]
  /\ created = 0
  /\ users = {}

SlabNext ==
  \/ \E n \in ObjCounts : slab_cache_create(n)
  \/ slab_cache_destroy
  \/ slab_alloc
  \/ \E obj \in users : slab_free(obj)
-----------------------------------------------------------------------------
OfCache == ToSet(Chain(cache.full)) \cup ToSet(Chain(cache.partial)) \cup ToSet(Chain(cache.free))

(* Each object of the cache is either with one caller or on its slab's     *)
(* free list, once, and used counts those with callers.                    *)
SlabObjects ==
  cache.count # -1 =>
    /\ \A obj \in users : obj[1] \in OfCache
    /\ \A s \in OfCache :
         /\ slab[s].used = Cardinality({obj \in users : obj[1] = s})
         /\ IsInjective(slab[s].free_list)
         /\ ToSet(slab[s].free_list) = {i \in 1 .. cache.count : <<s, i>> \notin users}

(* The three lists are disjoint and in order: a slab is on the full list   *)
(* exactly when it has no free object, so that slab_free finds every slab  *)
(* that has a user.                                                        *)
SlabLists ==
  cache.count > 0 =>
    LET lists == Chain(cache.full) \o Chain(cache.partial) \o Chain(cache.free)
    IN  /\ IsInjective(lists)
        /\ \A s \in ToSet(lists) : s \in ToSet(Chain(cache.full)) <=> slab[s].used = cache.count
        /\ \A s \in ToSet(Chain(cache.free)) : slab[s].used = 0

(* slab_alloc and slab_free lose and duplicate no object, and each slab is *)
(* on the list its use calls for.                                          *)
SlabSound == SlabObjects /\ SlabLists
=============================================================================
