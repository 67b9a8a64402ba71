----------------------------- MODULE AddressMap -----------------------------
(***************************************************************************)
(* What the virtual memory manager promises: a partial map from virtual    *)
(* pages to physical pages with flags.  A call maps or unmaps a range, one *)
(* page after another; between calls only the flags of pages that are      *)
(* mapped change.  The kernel may stop for want of memory.                 *)
(***************************************************************************)
EXTENDS Integers

CONSTANTS Virt, Flags

VARIABLES map,
          call,      \* what the call under way has still to do
          stopped

mapVars == <<map, call, stopped>>

Calls == [op : {"map", "unmap"}, virt : Nat, phys : Nat, count : Nat, flags : Flags]
Unmapped == [phys |-> -1, flags |-> "none"]

MapInit ==
  /\ map = [v \in Virt |-> Unmapped]
  /\ call \in Calls
  /\ stopped = FALSE

Call ==
  /\ call.count = 0 /\ call' \in Calls
  /\ UNCHANGED <<map, stopped>>

Advance ==
  /\ call.count > 0
  /\ call' = [call EXCEPT !.virt = @ + 1, !.phys = @ + 1, !.count = @ - 1]

NextPage ==
  /\ Advance
  /\ map' = [map EXCEPT ![call.virt] =
               IF call.op = "map" THEN [phys |-> call.phys, flags |-> call.flags] ELSE Unmapped]
  /\ UNCHANGED stopped

Protect(v, flags) ==
  /\ call.count = 0 /\ map[v] # Unmapped
  /\ map' = [map EXCEPT ![v].flags = flags]
  /\ UNCHANGED <<call, stopped>>

Stop ==
  /\ Advance
  /\ stopped' = TRUE
  /\ UNCHANGED map

MapNext == ~ stopped /\ (Call \/ NextPage \/ Stop \/ \E v \in Virt, fl \in Flags : Protect(v, fl))

MapSpec == MapInit /\ [][MapNext]_mapVars
=============================================================================
