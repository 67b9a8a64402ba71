----------------------------- MODULE PmmProofs -----------------------------
(***************************************************************************)
(* For every region, kernel size and set of request sizes: what callers    *)
(* hold is never marked free, the count of free pages the manager reports  *)
(* is exact, and, when pages are taken one at a time, the hint skips none. *)
(***************************************************************************)
EXTENDS Pmm, FiniteSetTheorems, NatSets, TLAPS

IInv == PmmTypeOK /\ Exclusive /\ Accounting

\* The managed region is finite and TotalPages counts it.
LEMMA RegionSize ==
  /\ IsFiniteSet(Region)
  /\ Cardinality(Region) = TotalPages
  /\ TotalPages \in Nat
<1> USE PmmAssumption
<1>1. Base \in Int /\ End-1 \in Int /\ End - Base \in Nat
  OBVIOUS
<1>2. IsFiniteSet(Base .. End-1) /\ Cardinality(Base .. End-1) = IF Base > End-1 THEN 0 ELSE End-1-Base+1
  BY <1>1, FS_Interval
<1> QED BY <1>1, <1>2 DEF Region, TotalPages

\* A run of n frames has n elements.
LEMMA RunSize ==
  ASSUME NEW p \in Nat, NEW n \in Nat
  PROVE  IsFiniteSet(Run(p, n)) /\ Cardinality(Run(p, n)) = n
<1>1. p \in Int /\ p+n-1 \in Int
  OBVIOUS
<1>2. IsFiniteSet(p .. p+n-1) /\ Cardinality(p .. p+n-1) = IF p > p+n-1 THEN 0 ELSE p+n-1-p+1
  BY <1>1, FS_Interval
<1> QED BY <1>2 DEF Run

\* Taking a set of pages out of the free ones changes their number by the
\* pages that were free.
LEMMA TakePages ==
  ASSUME PmmTypeOK, NEW S
  PROVE  /\ Cardinality(free \ S) = Cardinality(free) - Cardinality(S \cap free)
         /\ Cardinality(S \cap free) \in Nat
         /\ Cardinality(free) \in Nat
<1>1. IsFiniteSet(free)
  BY RegionSize, FS_Subset DEF PmmTypeOK
<1>2. S \cap free = free \cap S /\ IsFiniteSet(free \cap S)
  BY <1>1, FS_Intersection
<1>3. Cardinality(free \ S) = Cardinality(free) - Cardinality(free \cap S)
  BY <1>1, FS_Difference
<1>4. Cardinality(free \cap S) \in Nat /\ Cardinality(free) \in Nat
  BY <1>1, <1>2, FS_CardinalityType
<1> QED BY <1>2, <1>3, <1>4

\* Giving pages back changes the number of free ones by those that were not.
LEMMA GivePages ==
  ASSUME PmmTypeOK, NEW S \in SUBSET Region
  PROVE  /\ Cardinality(free \cup S) = Cardinality(free) + Cardinality(S \ free)
         /\ Cardinality(S \ free) \in Nat
         /\ Cardinality(free) \in Nat
         /\ Cardinality(free \cup S) <= TotalPages
<1>1. IsFiniteSet(free) /\ IsFiniteSet(S) /\ IsFiniteSet(S \ free)
  BY RegionSize, FS_Subset DEF PmmTypeOK
<1>2. Cardinality(free) \in Nat /\ Cardinality(S \ free) \in Nat
  BY <1>1, FS_CardinalityType
<1>3. free \cap (S \ free) = {} /\ free \cup S = free \cup (S \ free)
  OBVIOUS
<1>4. Cardinality(free \cap (S \ free)) = 0
  BY <1>3, FS_EmptySet
<1>5. Cardinality(free \cup (S \ free)) = Cardinality(free) + Cardinality(S \ free) - Cardinality(free \cap (S \ free))
  BY <1>1, FS_Union
<1>6. free \cup S \in SUBSET Region
  BY DEF PmmTypeOK
<1>7. Cardinality(free \cup S) <= TotalPages
  BY <1>6, RegionSize, FS_Subset
<1> QED BY <1>2, <1>3, <1>4, <1>5, <1>7

\* The hint after a release is a frame number, not above the old hint nor
\* above any page released.
LEMMA HintAfterBound ==
  ASSUME hint \in Nat, NEW S \in SUBSET Nat
  PROVE  /\ HintAfter(S) \in Nat
         /\ HintAfter(S) <= hint
         /\ \A x \in S : HintAfter(S) <= x
<1> DEFINE below == {x \in S : x < hint}
<1>1. CASE below = {}
  BY <1>1 DEF HintAfter
<1>2. CASE below # {}
  <2>1. \E x \in below : \A y \in below : x <= y
    BY <1>2, SmallestExists
  <2>2. HintAfter(S) \in below /\ \A y \in below : HintAfter(S) <= y
    BY <1>2, <2>1 DEF HintAfter
  <2>3. HintAfter(S) \in Nat /\ HintAfter(S) < hint
    BY <2>2
  <2>4. ASSUME NEW x \in S PROVE HintAfter(S) <= x
    <3>1. x \in below \/ hint <= x
      OBVIOUS
    <3> QED BY <2>2, <2>3, <3>1
  <2> QED BY <2>3, <2>4
<1> QED BY <1>1, <1>2

\* The state pmm_init leaves.
LEMMA InitIInv == PmmInit => IInv
<1> SUFFICES ASSUME PmmInit PROVE IInv
  OBVIOUS
<1> USE PmmAssumption
<1>1. Run(Base, Kernel) \subseteq Region
  BY DEF Run, Region
<1>2. PmmTypeOK /\ Exclusive
  BY <1>1 DEF PmmInit, PmmTypeOK, Exclusive
<1>3. Cardinality(Region \ Run(Base, Kernel)) = Cardinality(Region) - Cardinality(Region \cap Run(Base, Kernel))
  BY RegionSize, FS_Difference
<1>4. Region \cap Run(Base, Kernel) = Run(Base, Kernel)
  BY <1>1
<1>5. Cardinality(Run(Base, Kernel)) = Kernel
  BY RunSize
<1>6. Accounting
  BY <1>3, <1>4, <1>5, RegionSize DEF PmmInit, Accounting
<1> QED BY <1>2, <1>6 DEF IInv

\* A frame is a natural number.
LEMMA RegionNat == Region \subseteq Nat
BY PmmAssumption DEF Region

\* Releasing a set S of pages that are owned by nobody after the step, with
\* the counter and the hint adjusted for those that were not free already.
LEMMA ReleaseKeeps ==
  ASSUME IInv, NEW S \in SUBSET Region,
         free' = free \cup S,
         used' = used - Cardinality(S \ free),
         hint' = HintAfter(S \ free),
         held' \subseteq held, reserved' \subseteq reserved,
         held' \cap S = {}, reserved' \cap S = {}
  PROVE  IInv'
<1>1. S \ free \in SUBSET Nat
  BY RegionNat
<1>2. hint' \in Nat
  BY <1>1, HintAfterBound DEF IInv, PmmTypeOK
<1>3. /\ Cardinality(free') = Cardinality(free) + Cardinality(S \ free)
      /\ Cardinality(S \ free) \in Nat /\ Cardinality(free) \in Nat
      /\ Cardinality(free') <= TotalPages
  BY GivePages DEF IInv
<1>4. used' \in Nat /\ TotalPages - used' = Cardinality(free')
  BY <1>3, RegionSize DEF IInv, PmmTypeOK, Accounting
<1>5. PmmTypeOK' /\ Exclusive'
  BY <1>2, <1>4 DEF IInv, PmmTypeOK, Exclusive
<1> QED BY <1>4, <1>5 DEF IInv, Accounting, TotalPages

\* Taking a set S of pages, with the counter adjusted for the free ones.
LEMMA TakeKeeps ==
  ASSUME IInv, NEW S \in SUBSET Region,
         free' = free \ S,
         used' = used + Cardinality(S \cap free),
         hint' \in Nat,
         \/ held' = held \cup S /\ reserved' = reserved /\ S \subseteq free
         \/ held' = held /\ reserved' = reserved \cup S /\ S \cap held = {}
  PROVE  IInv'
<1>1. /\ Cardinality(free') = Cardinality(free) - Cardinality(S \cap free)
      /\ Cardinality(S \cap free) \in Nat /\ Cardinality(free) \in Nat
  BY TakePages DEF IInv
<1>2. used' \in Nat /\ TotalPages - used' = Cardinality(free')
  BY <1>1, RegionSize DEF IInv, PmmTypeOK, Accounting
<1>3. PmmTypeOK' /\ Exclusive'
  BY <1>2 DEF IInv, PmmTypeOK, Exclusive
<1> QED BY <1>2, <1>3 DEF IInv, Accounting, TotalPages

\* Every operation keeps the inductive invariant.
LEMMA NextIInv == IInv /\ [PmmNext]_pmmVars => IInv'
<1> SUFFICES ASSUME IInv, [PmmNext]_pmmVars PROVE IInv'
  OBVIOUS
<1>1. ASSUME NEW n \in Counts, pmm_alloc_pages(n) PROVE IInv'
  <2>1. PICK p \in Region : /\ FirstFit(p, n)
                            /\ free' = free \ Run(p, n)
                            /\ used' = used + n
                            /\ hint' = p + n
                            /\ held' = held \cup Run(p, n)
                            /\ UNCHANGED reserved
    BY <1>1 DEF pmm_alloc_pages
  <2>2. n \in Nat /\ p \in Nat
    BY RegionNat, PmmAssumption
  <2>3. Run(p, n) \subseteq free /\ Run(p, n) \cap free = Run(p, n)
    BY <2>1 DEF FirstFit, Fits
  <2>4. Cardinality(Run(p, n) \cap free) = n
    BY <2>2, <2>3, RunSize
  <2>5. hint' \in Nat
    BY <2>1, <2>2
  <2>6. Run(p, n) \in SUBSET Region
    BY <2>3 DEF IInv, PmmTypeOK
  <2> QED BY <2>1, <2>3, <2>4, <2>5, <2>6, TakeKeeps
<1>2. ASSUME NEW p \in Region, NEW n \in Counts, pmm_free_pages(p, n) PROVE IInv'
  <2>1. Run(p, n) \in SUBSET Region /\ Run(p, n) \subseteq held \cup free
    BY <1>2 DEF pmm_free_pages, IInv, PmmTypeOK
  <2>2. reserved' \cap Run(p, n) = {}
    BY <1>2, <2>1 DEF pmm_free_pages, IInv, Exclusive
  <2> QED BY <1>2, <2>1, <2>2, ReleaseKeeps DEF pmm_free_pages
<1>3. ASSUME NEW p \in Region, NEW n \in Counts, pmm_mark_used(p, n) PROVE IInv'
  BY <1>3, TakeKeeps DEF pmm_mark_used, IInv, PmmTypeOK
<1>4. ASSUME NEW p \in Region, NEW n \in Counts, pmm_mark_free(p, n) PROVE IInv'
  BY <1>4, ReleaseKeeps DEF pmm_mark_free
<1>5. CASE UNCHANGED pmmVars
  BY <1>5 DEF pmmVars, IInv, PmmTypeOK, Exclusive, Accounting
<1> QED BY <1>1, <1>2, <1>3, <1>4, <1>5 DEF PmmNext

(* Every variable has its type; in particular the counter of used pages    *)
(* never goes below zero.                                                  *)
THEOREM TypeCorrect == PmmSpec => []PmmTypeOK
<1>1. IInv => PmmTypeOK
  BY DEF IInv
<1> QED BY InitIInv, NextIInv, <1>1, PTL DEF PmmSpec

(* What callers hold or have reserved is never marked free.                *)
THEOREM ExclusiveAlways == PmmSpec => []Exclusive
<1>1. IInv => Exclusive
  BY DEF IInv
<1> QED BY InitIInv, NextIInv, <1>1, PTL DEF PmmSpec

(* The number of free pages reported is the number of clear bits.          *)
THEOREM AccountingAlways == PmmSpec => []Accounting
<1>1. IInv => Accounting
  BY DEF IInv
<1> QED BY InitIInv, NextIInv, <1>1, PTL DEF PmmSpec

(* An allocation of n pages adds n pages to what callers hold, none of     *)
(* which anybody held or had reserved.                                     *)
THEOREM AllocatesFreshAlways == PmmSpec => AllocatesFresh
<1>1. ASSUME IInv, NEW n \in Counts, pmm_alloc_pages(n)
      PROVE  /\ (held' \ held) \cap (held \cup reserved) = {}
             /\ Cardinality(held') = Cardinality(held) + n
  <2>1. PICK p \in Region : FirstFit(p, n) /\ held' = held \cup Run(p, n)
    BY <1>1 DEF pmm_alloc_pages
  <2>2. n \in Nat /\ p \in Nat
    BY RegionNat, PmmAssumption
  <2>3. Run(p, n) \subseteq free
    BY <2>1 DEF FirstFit, Fits
  <2>4. held \cap Run(p, n) = {} /\ reserved \cap Run(p, n) = {}
    BY <1>1, <2>3 DEF IInv, Exclusive
  <2>5. IsFiniteSet(held)
    BY <1>1, RegionSize, FS_Subset DEF IInv, PmmTypeOK
  <2>6. Cardinality(Run(p, n)) = n /\ IsFiniteSet(Run(p, n))
    BY <2>2, RunSize
  <2>7. Cardinality(held \cup Run(p, n)) = Cardinality(held) + n - Cardinality(held \cap Run(p, n))
    BY <2>5, <2>6, FS_Union
  <2>8. Cardinality(held \cap Run(p, n)) = 0 /\ Cardinality(held) \in Nat
    BY <2>4, <2>5, FS_EmptySet, FS_CardinalityType
  <2>9. Cardinality(held') = Cardinality(held) + n
    BY <2>1, <2>2, <2>7, <2>8
  <2> QED BY <2>1, <2>4, <2>9
<1>2. IInv /\ [PmmNext]_pmmVars =>
        [\A n \in Counts : pmm_alloc_pages(n) =>
           (held' \ held) \cap (held \cup reserved) = {}
           /\ Cardinality(held') = Cardinality(held) + n]_pmmVars
  BY <1>1
<1> QED BY InitIInv, NextIInv, <1>2, PTL DEF PmmSpec, AllocatesFresh

(* Only a run of several pages makes the hint skip free pages              *)
(* (pmm_alloc_pages); pmm_alloc_page and every release keep it sound.      *)
THEOREM HintKeptAlways == PmmSpec => HintKept
<1> DEFINE Several == \E n \in Counts \ {1} : pmm_alloc_pages(n)
<1>2. ASSUME IInv, HintSound, PmmNext, ~ Several PROVE HintSound'
  <2>0. hint \in Nat /\ free \subseteq Region /\ free \subseteq Nat
    BY <1>2, RegionNat DEF IInv, PmmTypeOK
  <2>1. CASE \E n \in Counts : pmm_alloc_pages(n)
    <3>0. pmm_alloc_pages(1)
      BY <1>2, <2>1
    <3>1. PICK p \in Region : FirstFit(p, 1) /\ free' = free \ Run(p, 1) /\ hint' = p + 1
      BY <3>0 DEF pmm_alloc_pages
    <3>2. p \in Nat /\ Run(p, 1) = {p}
      BY RegionNat DEF Run
    <3>3. p + 1 <= TotalPages /\ \A q \in hint .. p-1 : ~ Fits(q, 1)
      BY <3>1 DEF FirstFit, Fits
    <3>4. ASSUME NEW q \in free, q < p PROVE FALSE
      <4>1. q \in Nat /\ hint <= q /\ q \in hint .. p-1
        BY <1>2, <2>0, <3>2, <3>4 DEF HintSound
      <4>2. Run(q, 1) = {q}
        BY <4>1 DEF Run
      <4>3. q + 1 <= TotalPages
        BY <3>2, <3>3, <3>4, <4>1, RegionSize
      <4>4. Fits(q, 1)
        BY <4>2, <4>3 DEF Fits
      <4> QED BY <3>3, <4>1, <4>4
    <3>5. ASSUME NEW q \in free' PROVE hint' <= q
      BY <2>0, <3>1, <3>2, <3>4
    <3> QED BY <3>5 DEF HintSound
  <2>2. ASSUME NEW S \in SUBSET Region, free' = free \cup S, hint' = HintAfter(S \ free)
        PROVE  HintSound'
    <3>1. S \ free \in SUBSET Nat
      BY RegionNat
    <3>2. hint' \in Nat /\ hint' <= hint /\ \A x \in S \ free : hint' <= x
      BY <2>0, <2>2, <3>1, HintAfterBound
    <3>3. ASSUME NEW q \in free' PROVE hint' <= q
      <4>1. CASE q \in free
        <5>1. q \in Nat /\ hint <= q
          BY <1>2, <2>0, <4>1 DEF HintSound
        <5> QED BY <2>0, <3>2, <5>1
      <4>2. CASE q \in S \ free
        BY <3>2, <4>2
      <4> QED BY <2>2, <4>1, <4>2
    <3> QED BY <3>3 DEF HintSound
  <2>3. ASSUME NEW p \in Region, NEW n \in Counts, pmm_free_pages(p, n) PROVE HintSound'
    BY <1>2, <2>2, <2>3 DEF pmm_free_pages, IInv, PmmTypeOK
  <2>4. ASSUME NEW p \in Region, NEW n \in Counts, pmm_mark_free(p, n) PROVE HintSound'
    BY <2>2, <2>4 DEF pmm_mark_free
  <2>5. ASSUME NEW p \in Region, NEW n \in Counts, pmm_mark_used(p, n) PROVE HintSound'
    BY <1>2, <2>5 DEF pmm_mark_used, HintSound
  <2> QED BY <1>2, <2>1, <2>3, <2>4, <2>5 DEF PmmNext
<1>3. IInv /\ [PmmNext]_pmmVars => [HintSound /\ ~ Several => HintSound']_pmmVars
  BY <1>2
<1> QED BY <1>3, InitIInv, NextIInv, PTL DEF PmmSpec, HintKept
=============================================================================
