------------------------------- MODULE Memory -------------------------------
(***************************************************************************)
(* The physical memory manager and the users of its pages: the heap, a     *)
(* slab cache and the page tables.  Each user takes the manager at what    *)
(* Pmm promises and shares no variable with the others, so a behaviour     *)
(* exercises one layer, chosen at the start.                               *)
(***************************************************************************)
EXTENDS Pmm, Heap, Slab, AddressSpace

VARIABLE layer

memoryVars == <<pmmVars, heapVars, slabVars, vmmVars, layer>>

MemoryInit ==
  /\ layer \in {"pages", "heap", "slab", "tables"}
  /\ PmmInit /\ HeapInit /\ SlabInit /\ VmmInit

MemoryNext ==
  /\ UNCHANGED layer
  /\ \/ layer = "pages" /\ PmmNext /\ UNCHANGED <<heapVars, slabVars, vmmVars>>
     \/ layer = "heap" /\ HeapNext /\ UNCHANGED <<pmmVars, slabVars, vmmVars>>
     \/ layer = "slab" /\ SlabNext /\ UNCHANGED <<pmmVars, heapVars, vmmVars>>
     \/ layer = "tables" /\ VmmNext /\ UNCHANGED <<pmmVars, heapVars, slabVars>>

MemorySpec == MemoryInit /\ [][MemoryNext]_memoryVars
=============================================================================
