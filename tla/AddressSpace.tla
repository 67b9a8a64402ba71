---------------------------- MODULE AddressSpace ----------------------------
(***************************************************************************)
(* The kernel's page tables (mm/vmm/vmm.c, mm/vmm/vmm_map.c) and the CPU's *)
(* translation cache.                                                      *)
(*                                                                         *)
(* Addresses are page numbers.  A table is an array of PT_ENTRIES entries  *)
(* in a frame of its own, taken from the physical memory manager, which    *)
(* finds the first free one; tables are never given back.  The code has    *)
(* four levels, written out one by one.  The operations on ranges are one  *)
(* step per page (todo): the timer may interrupt between pages.  cached is *)
(* the translation cache (external): the CPU may fill it from the tables   *)
(* at any time once cr3 points to them, and forgets entries at invlpg and  *)
(* when cr3 is written.  Flags are "R" and "W" of the low 12 bits, and "X" *)
(* for PAGE_NX, which is not among them.                                   *)
(***************************************************************************)
EXTENDS Integers, FiniteSetsExt

CONSTANTS Levels, PT_ENTRIES,
          Frames,        \* page frames; the first is taken by the PML4
          PhysPages,     \* physical pages that callers map
          Targets,       \* virtual pages at which callers start
          NewFlags,      \* flags that callers ask for
          MaxRange,      \* longest range mapped in one call
          EarlyPages     \* pages that vmm_init maps from address 0 on

ASSUME VmmAssumption ==
  /\ Levels \in Nat \ {0} /\ PT_ENTRIES \in Nat \ {0}
  /\ Frames \subseteq Nat /\ Frames # {} /\ PhysPages \subseteq Nat

VirtPages == 0 .. PT_ENTRIES ^ Levels - 1
VBase == PT_ENTRIES ^ Levels \div 2      \* KERNEL_VBASE
None == -1
pml4 == Min(Frames)
KernelFlags == {"R", "W"}

VARIABLES table,      \* table[f][i]: entry i of the table in frame f
          freeFrames, \* frames the physical memory manager has left
          cr3,        \* whether the CPU uses these tables
          cached,
          todo,       \* pages that the call under way has still to do
          halted      \* the kernel has stopped for want of a page table

vmmVars == <<table, freeFrames, cr3, cached, todo, halted>>

NotPresent == [phys |-> None, flags |-> "none"]
EmptyTable == [i \in 0 .. PT_ENTRIES - 1 |-> NotPresent]

vmm_virt_to_index(v, level) == (v \div PT_ENTRIES ^ level) % PT_ENTRIES

\* The frames of the tables on the way to v, from the PML4 at Levels - 1 down;
\* None below an entry that is not present
Walk(t, v) ==
  LET at[l \in 0 .. Levels - 1] ==
        IF l = Levels - 1 THEN pml4
        ELSE IF at[l+1] = None THEN None ELSE t[at[l+1]][vmm_virt_to_index(v, l+1)].phys
  IN  at

\* *vmm_get_pte(v)
Pte(t, v) ==
  LET pt == Walk(t, v)[0]
  IN  IF pt = None THEN NotPresent ELSE t[pt][vmm_virt_to_index(v, 0)]

\* Levels whose table is missing on the way to v
Missing(t, v) == {l \in 0 .. Levels - 2 : Walk(t, v)[l] = None}

\* The k-th free frame, counting from 0
Nth(S, k) == CHOOSE f \in S : Cardinality({g \in S : g < f}) = k

\* vmm_get_or_create_table down to the page table: the frame at each level
WalkCreating(t, free, v) ==
  [l \in 0 .. Levels - 1 |->
     IF l \in Missing(t, v) THEN Nth(free, Max(Missing(t, v)) - l) ELSE Walk(t, v)[l]]

Tables(t, free, v) ==
  LET at == WalkCreating(t, free, v)
  IN  [f \in DOMAIN t \cup {at[l] : l \in Missing(t, v)} |->
         LET old == IF f \in DOMAIN t THEN t[f] ELSE EmptyTable
             below == {l \in Missing(t, v) : at[l+1] = f}
         IN  IF below = {} THEN old
             ELSE [old EXCEPT ![vmm_virt_to_index(v, Max(below) + 1)] =
                                [phys |-> at[Max(below)], flags |-> "W"]]]

\* flags & 0xFFF
Stored(flags) == IF flags = "X" THEN "R" ELSE flags

invlpg(v) == cached' = [cached EXCEPT ![v] = NotPresent]

\* Faulty variant: the translation that was there before stays cached
vmm_map_page_no_invlpg(v, phys, flags) ==
  LET at == WalkCreating(table, freeFrames, v)
  IN  IF Cardinality(Missing(table, v)) > Cardinality(freeFrames)
      THEN halted' = TRUE /\ UNCHANGED <<table, freeFrames, cached>>
      ELSE /\ table' = [Tables(table, freeFrames, v) EXCEPT
                          ![at[0]][vmm_virt_to_index(v, 0)] = [phys |-> phys, flags |-> Stored(flags)]]
           /\ freeFrames' = freeFrames \ {at[l] : l \in Missing(table, v)}
           /\ UNCHANGED <<cached, halted>>

\* Faulty variant: the frames of new tables are still free
vmm_map_page_unmarked(v, phys, flags) ==
  LET at == WalkCreating(table, freeFrames, v)
  IN  /\ table' = [Tables(table, freeFrames, v) EXCEPT
                      ![at[0]][vmm_virt_to_index(v, 0)] = [phys |-> phys, flags |-> Stored(flags)]]
      /\ invlpg(v)
      /\ UNCHANGED <<freeFrames, halted>>

\* Without a frame for a table the kernel stops; what was done till then is lost
vmm_map_page(v, phys, flags) ==
  LET at == WalkCreating(table, freeFrames, v)
  IN  IF Cardinality(Missing(table, v)) > Cardinality(freeFrames)
      THEN halted' = TRUE /\ UNCHANGED <<table, freeFrames, cached>>
      ELSE /\ table' = [Tables(table, freeFrames, v) EXCEPT
                          ![at[0]][vmm_virt_to_index(v, 0)] = [phys |-> phys, flags |-> Stored(flags)]]
           /\ freeFrames' = freeFrames \ {at[l] : l \in Missing(table, v)}
           /\ invlpg(v)
           /\ UNCHANGED halted

vmm_unmap_page(v) ==
  /\ IF Pte(table, v) = NotPresent
     THEN UNCHANGED <<table, cached>>
     ELSE /\ table' = [table EXCEPT ![Walk(table, v)[0]][vmm_virt_to_index(v, 0)] = NotPresent]
          /\ invlpg(v)
  /\ UNCHANGED <<freeFrames, halted>>
-----------------------------------------------------------------------------
Ready == ~ halted /\ todo.count = 0

Begin(op, v, phys, count, flags) ==
  /\ Ready /\ cr3
  /\ todo' = [op |-> op, virt |-> v, phys |-> phys, count |-> count, flags |-> flags]
  /\ UNCHANGED <<table, freeFrames, cr3, cached, halted>>

vmm_map_range(v, phys, count, flags) == Begin("map", v, phys, count, flags)
vmm_unmap_range(v, count) == Begin("unmap", v, 0, count, "R")
vmm_map_identity(v, count, flags) == Begin("map", v, v, count, flags)

\* One turn of the loop of the call under way
range_step ==
  /\ ~ halted /\ todo.count > 0
  /\ IF todo.op = "map" THEN vmm_map_page(todo.virt, todo.phys, todo.flags) ELSE vmm_unmap_page(todo.virt)
  /\ todo' = [todo EXCEPT !.virt = @ + 1, !.phys = @ + 1, !.count = @ - 1]
  /\ UNCHANGED cr3

\* vmm_get_phys of a page's first byte is 0 when it is not mapped, and also
\* when it is mapped to physical page 0
vmm_get_phys(v) == IF Pte(table, v) = NotPresent THEN 0 ELSE Pte(table, v).phys

\* Faulty variant: a page that is not mapped is mapped to physical page 0
vmm_protect_page_unmapped(v, flags) ==
  /\ Ready /\ cr3
  /\ vmm_map_page(v, vmm_get_phys(v), flags)
  /\ UNCHANGED <<cr3, todo>>

\* Unmapping and mapping again leave what mapping alone would
vmm_protect_page(v, flags) ==
  /\ Ready /\ cr3
  /\ vmm_get_phys(v) # 0
  /\ vmm_map_page(v, vmm_get_phys(v), flags)
  /\ UNCHANGED <<cr3, todo>>

\* vmm_init goes on with the higher half
vmm_init_higher ==
  /\ Ready /\ ~ cr3 /\ todo.virt = EarlyPages
  /\ todo' = [todo EXCEPT !.virt = VBase, !.phys = 0, !.count = EarlyPages]
  /\ UNCHANGED <<table, freeFrames, cr3, cached, halted>>

\* The end of vmm_init; vmm_invalidate_all also writes cr3
vmm_switch_pml4 ==
  /\ Ready
  /\ cr3 \/ todo.virt = VBase + EarlyPages
  /\ todo' = [todo EXCEPT !.virt = 0, !.phys = 0]
  /\ cr3' = TRUE
  /\ cached' = [v \in VirtPages |-> NotPresent]
  /\ UNCHANGED <<table, freeFrames, halted>>

\* The CPU remembers a translation that it has used
cpu_caches(v) ==
  /\ cr3 /\ ~ halted
  /\ Pte(table, v) # NotPresent
  /\ cached' = [cached EXCEPT ![v] = Pte(table, v)]
  /\ UNCHANGED <<table, freeFrames, cr3, todo, halted>>

\* vmm_init up to its first loop
VmmInit ==
  /\ table = [f \in {pml4} |-> EmptyTable]
  /\ freeFrames = Frames \ {pml4}
  /\ cr3 = FALSE
  /\ cached = [v \in VirtPages |-> NotPresent]
  /\ todo = [op |-> "map", virt |-> 0, phys |-> 0, count |-> EarlyPages, flags |-> "W"]
  /\ halted = FALSE

Fit(v, count) == v + count - 1 \in VirtPages

VmmNext ==
  \/ \E v \in Targets, p \in PhysPages, n \in 1 .. MaxRange, fl \in NewFlags :
       Fit(v, n) /\ p + n - 1 \in PhysPages /\ vmm_map_range(v, p, n, fl)
  \/ \E v \in Targets, n \in 1 .. MaxRange : Fit(v, n) /\ vmm_unmap_range(v, n)
  \/ \E v \in 0 .. EarlyPages - 1 : vmm_map_identity(v, 1, "W")
  \/ range_step
  \/ \E v \in VirtPages, fl \in NewFlags : vmm_protect_page(v, fl)
  \/ vmm_init_higher
  \/ vmm_switch_pml4
  \/ \E v \in VirtPages : cpu_caches(v)
-----------------------------------------------------------------------------
Map == INSTANCE AddressMap WITH
         Virt <- VirtPages, Flags <- KernelFlags,
         map <- [v \in VirtPages |-> Pte(table, v)],
         call <- [todo EXCEPT !.flags = Stored(@)],
         stopped <- halted

(* Four levels of tables, made on the way, are one map from pages to pages: *)
(* a call on a range maps each page of it to its own physical page and     *)
(* changes the translation of no other, and vmm_protect_page changes the   *)
(* flags of a mapped page and not where it lies.                           *)
RefinesAddressMap == Map!MapSpec

(* The CPU never uses a translation that is not in the tables: each change *)
(* of an entry is followed by an invlpg of its page.                       *)
CacheCoherent == \A v \in VirtPages : cached[v] \in {NotPresent, Pte(table, v)}

(* The tables form a tree: each but the PML4 is pointed to by one entry,   *)
(* and none lies in a frame that can still be handed out.                  *)
TablesATree ==
  LET inner == {Walk(table, v)[l] : v \in VirtPages, l \in 1 .. Levels - 1} \ {None}
      pointers(f) == {<<g, i>> \in inner \X (0 .. PT_ENTRIES - 1) : table[g][i].phys = f}
  IN  /\ DOMAIN table \cap freeFrames = {}
      /\ \A f \in DOMAIN table \ {pml4} : Cardinality(pointers(f)) = 1

(* The tables vmm_map_page makes on the way form a tree of frames that     *)
(* nobody else is given, and the CPU uses no translation that is not in    *)
(* them.                                                                   *)
TablesSound == TablesATree /\ CacheCoherent
=============================================================================
