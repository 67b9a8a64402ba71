---------------------------- MODULE SharedMemory ----------------------------
(***************************************************************************)
(* Named shared regions (ipc/sharedmem.c).  shm_create takes a run of pages *)
(* from the physical memory manager and maps it at an address fixed by the *)
(* region's index, Window pages from that of the next index.               *)
(*                                                                         *)
(* Names are numbers; the stored name is cut off at SHM_NAME_MAX - 1       *)
(* characters, which leaves n - 1 of a name n that is too long.  Pages are *)
(* numbered as pmm_alloc_pages hands them out: none ever returns, so a     *)
(* fresh run starts at frames.  handles[n, i] counts the callers that were *)
(* given region i under name n; a caller closes a name it has.             *)
(***************************************************************************)
EXTENDS Integers, FiniteSetsExt

CONSTANTS SHM_MAX_REGIONS,
          Window,          \* pages between the addresses of two regions (256)
          Names, Long,     \* names, and those that do not fit
          Sizes,           \* sizes asked for, in pages
          MaxFrames,       \* pages the physical memory manager has
          MaxRefs          \* bound on a reference count

ASSUME ShmAssumption == Names \subseteq Nat /\ Long \subseteq Names

Regions == 0 .. SHM_MAX_REGIONS - 1

Truncated(name) == IF name \in Long THEN name - 1 ELSE name

VARIABLES g_shm_regions, mapped, frames, handles

shmVars == <<g_shm_regions, mapped, frames, handles>>

ShmInit ==
  /\ g_shm_regions = [i \in Regions |->
                        [name |-> 0, first |-> 0, size |-> 0, refcount |-> 0, valid |-> FALSE]]
  /\ mapped = <<>>
  /\ frames = 1
  /\ handles = [h \in Names \X Regions |-> 0]

\* The regions that the loops of create, open and close stop at
Found(name) == {i \in Regions : g_shm_regions[i].valid /\ g_shm_regions[i].name = name}
Vacant == {i \in Regions : ~ g_shm_regions[i].valid}

\* Faulty variant: the region starts at the page after its address
vmm_map_region_late(i, phys, pages) ==
  LET virt == i * Window + 1 .. i * Window + pages
  IN  [v \in DOMAIN mapped \cup virt |-> IF v \in virt THEN phys + v - i * Window ELSE mapped[v]]

\* vmm_map_range at the address of region i: new mappings replace old ones
vmm_map_region(i, phys, pages) ==
  LET virt == i * Window .. i * Window + pages - 1
  IN  [v \in DOMAIN mapped \cup virt |-> IF v \in virt THEN phys + v - i * Window ELSE mapped[v]]

shm_open(name) ==
  LET i == Min(Found(name))
  IN  /\ Found(name) # {}
      /\ g_shm_regions[i].refcount < MaxRefs
      /\ g_shm_regions' = [g_shm_regions EXCEPT ![i].refcount = @ + 1]
      /\ handles' = [handles EXCEPT ![name, i] = @ + 1]
      /\ UNCHANGED <<mapped, frames>>

shm_create(name, pages) ==
  \/ shm_open(name)
  \/ LET i == Min(Vacant)
     IN  /\ Found(name) = {} /\ Vacant # {}
         /\ frames + pages <= MaxFrames
         /\ mapped' = vmm_map_region(i, frames, pages)
         /\ frames' = frames + pages
         /\ g_shm_regions' = [g_shm_regions EXCEPT ![i] =
              [name |-> Truncated(name), first |-> frames, size |-> pages, refcount |-> 1, valid |-> TRUE]]
         /\ handles' = [handles EXCEPT ![name, i] = @ + 1]
  \/ /\ Found(name) = {}
     /\ Vacant = {} \/ frames + pages > MaxFrames
     /\ UNCHANGED shmVars


\* shm_close by a caller that was given region h: the name decides
shm_close(name, h) ==
  LET i == Min(Found(name))
  IN  /\ handles[name, h] > 0
      /\ Found(name) # {}
      /\ g_shm_regions' = [g_shm_regions EXCEPT ![i].refcount = @ - 1,
                                               ![i].valid = g_shm_regions[i].refcount > 1]
      /\ handles' = [handles EXCEPT ![name, h] = @ - 1]
      /\ UNCHANGED <<mapped, frames>>

ShmNext ==
  \/ \E name \in Names, pages \in Sizes : shm_create(name, pages)
  \/ \E name \in Names : shm_open(name)
  \/ \E name \in Names, h \in Regions : shm_close(name, h)
-----------------------------------------------------------------------------
CutOff == \E i \in Regions, n \in Long :
            g_shm_regions[i].valid /\ g_shm_regions[i].name = Truncated(n)

TooLong == \E i \in Regions : g_shm_regions[i].valid /\ g_shm_regions[i].size > Window

HoldersCounted ==
  \A i \in Regions :
    SumFunction([n \in Names |-> handles[n, i]]) =
      IF g_shm_regions[i].valid THEN g_shm_regions[i].refcount ELSE 0

ShowsOwnPages ==
  \A i \in Regions : g_shm_regions[i].valid =>
    \A k \in 0 .. g_shm_regions[i].size - 1 :
      i * Window + k \in DOMAIN mapped /\ mapped[i * Window + k] = g_shm_regions[i].first + k

(* A region lives exactly as long as somebody has it.  Only a name that    *)
(* was cut off upsets this: its region cannot be closed under that name,   *)
(* and another caller's close may find it.                                 *)
ShmHeld == [][HoldersCounted => HoldersCounted' \/ CutOff']_shmVars

(* The addresses of a region show the region's own pages.  Only a region   *)
(* longer than its window upsets this: it and its neighbour are mapped     *)
(* over each other.                                                        *)
ShmBacked == [][ShowsOwnPages => ShowsOwnPages' \/ TooLong']_shmVars

=============================================================================
