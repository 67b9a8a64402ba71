-------------------------------- MODULE Pmm --------------------------------
(***************************************************************************)
(* The physical memory manager (mm/pmm/pmm.c): a bitmap of page frames, a  *)
(* counter of used pages and a hint from which searches start.             *)
(*                                                                         *)
(* Pages are frame numbers.  The managed region is Base .. End-1 (1 MiB to *)
(* 256 MiB in pmm_init).  The bitmap is the set `free' of frames whose bit *)
(* is clear.  held and reserved record what the callers own, so that the   *)
(* properties can speak of it: held is what allocations returned and was   *)
(* not freed since, reserved is what pmm_mark_used took.  Callers free     *)
(* what they hold, or free again a page that is free.                      *)
(***************************************************************************)
EXTENDS Integers, FiniteSets

CONSTANTS Base,       \* first managed frame
          End,        \* first frame past the managed region
          Kernel,     \* frames of the kernel image, at the start of the region
          Counts      \* page counts asked of pmm_alloc_pages and its inverses

ASSUME PmmAssumption ==
  /\ Base \in Nat \ {0}
  /\ End \in Nat
  /\ Kernel \in Nat
  /\ Base + Kernel <= End
  /\ Counts \subseteq Nat \ {0}

Region == Base .. End-1

\* g_pmm_total_pages: the number of managed pages, used below as the frame
\* number at which searches end
TotalPages == End - Base

VARIABLES free, used, hint, held, reserved

pmmVars == <<free, used, hint, held, reserved>>

\* The type of every variable.
PmmTypeOK ==
  /\ free \subseteq Region
  /\ used \in Nat
  /\ hint \in Nat
  /\ held \subseteq Region
  /\ reserved \subseteq Region

Run(p, n) == p .. p+n-1

\* Reserve a range that no caller holds; pages already used are not counted twice
pmm_mark_used(p, n) ==
  /\ Run(p, n) \subseteq Region \ held
  /\ free' = free \ Run(p, n)
  /\ used' = used + Cardinality(Run(p, n) \cap free)
  /\ reserved' = reserved \cup Run(p, n)
  /\ UNCHANGED <<hint, held>>

\* The hint after the frames of S have been freed
HintAfter(S) ==
  LET below == {x \in S : x < hint}
  IN  IF below = {} THEN hint ELSE CHOOSE x \in below : \A y \in below : x <= y

\* Give a reserved range back
pmm_mark_free(p, n) ==
  /\ Run(p, n) \subseteq Region \ held
  /\ free' = free \cup Run(p, n)
  /\ used' = used - Cardinality(Run(p, n) \ free)
  /\ hint' = HintAfter(Run(p, n) \ free)
  /\ reserved' = reserved \ Run(p, n)
  /\ UNCHANGED held


\* n frames from p on are free and end where searches end
Fits(p, n) == Run(p, n) \subseteq free /\ p + n <= TotalPages

\* Faulty variant: the search accepts a run that is only free at its two ends
FirstFit_ends(p, n) ==
  hint <= p /\ p \in free /\ p+n-1 \in free /\ p + n <= TotalPages

\* The first place at or above the hint that a search from the hint accepts
FirstFit(p, n) ==
  /\ hint <= p
  /\ Fits(p, n)
  /\ \A q \in hint .. p-1 : ~ Fits(q, n)

\* pmm_alloc_pages(n), and pmm_alloc_page() for n = 1
pmm_alloc_pages(n) ==
  \E p \in Region :
    /\ FirstFit(p, n)
    /\ free' = free \ Run(p, n)
    /\ used' = used + n
    /\ hint' = p + n
    /\ held' = held \cup Run(p, n)
    /\ UNCHANGED reserved

\* pmm_free_pages(p, n), which is pmm_free_page on each frame in turn
pmm_free_pages(p, n) ==
  /\ Run(p, n) \subseteq held \cup free
  /\ free' = free \cup Run(p, n)
  /\ used' = used - Cardinality(Run(p, n) \ free)
  /\ hint' = HintAfter(Run(p, n) \ free)
  /\ held' = held \ Run(p, n)
  /\ UNCHANGED reserved

\* pmm_init
PmmInit ==
  /\ free = Region \ Run(Base, Kernel)
  /\ used = Kernel
  /\ hint = Base
  /\ held = {}
  /\ reserved = Run(Base, Kernel)

PmmNext ==
  \/ \E n \in Counts : pmm_alloc_pages(n)
  \/ \E p \in Region, n \in Counts : pmm_free_pages(p, n)
  \/ \E p \in Region, n \in Counts : pmm_mark_used(p, n)
  \/ \E p \in Region, n \in Counts : pmm_mark_free(p, n)

PmmSpec == PmmInit /\ [][PmmNext]_pmmVars
-----------------------------------------------------------------------------
(* Nothing that belongs to a caller or is reserved is marked free, and no  *)
(* page is owned twice: what the next allocation returns is nobody's.      *)
Exclusive == /\ held \cap free = {}
             /\ reserved \cap free = {}
             /\ held \cap reserved = {}

(* pmm_get_free_memory is exact: total minus used is the number of clear   *)
(* bits, so it neither underflows nor exceeds the total however pages are  *)
(* allocated, freed twice, reserved and released.                          *)
Accounting == TotalPages - used = Cardinality(free)

(* An allocation never takes a page that somebody owns.                    *)
AllocatesFresh ==
  [][\A n \in Counts : pmm_alloc_pages(n) => (held' \ held) \cap (held \cup reserved) = {}
                                             /\ Cardinality(held') = Cardinality(held) + n]_pmmVars

\* Every free page is at or above the hint, so pmm_alloc_page fails only when
\* no page below the search limit is free
HintSound == \A p \in free : hint <= p

(* Once no free page is below the hint, only a run of several pages makes  *)
(* it skip one: single pages, releases, double frees and reservations in   *)
(* any order leave nothing behind that pmm_alloc_page cannot find again.   *)
HintKept ==
  [][HintSound /\ ~ (\E n \in Counts \ {1} : pmm_alloc_pages(n)) => HintSound']_pmmVars

=============================================================================
