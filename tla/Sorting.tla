------------------------------ MODULE Sorting -------------------------------
(***************************************************************************)
(* lib/sort.c: qsort with its recursion, heapsort and bsearch.  Elements   *)
(* are numbers and the comparison is that of numbers; arrays start at 0.   *)
(* qsort is run call by call on an explicit stack, because its recursion   *)
(* need not end: the stack the kernel gives it holds MaxDepth calls.       *)
(***************************************************************************)
EXTENDS Integers, Sequences, FiniteSets, Functions

CONSTANTS
  MaxDepth,   \* calls of qsort that fit on the kernel stack
  Values,     \* elements of the arrays
  MaxLen      \* length of the arrays

VARIABLES
  input,      \* the array a caller hands in
  arr,        \* the array while qsort runs
  calls,      \* the calls of qsort under way: where they start, how long, what is left
  sorter      \* "run", "done", "overflow" (out of stack) or "wild" (outside the array)

sortVars == <<input, arr, calls, sorter>>

Arrays == UNION {[0 .. n - 1 -> Values] : n \in 0 .. MaxLen}
TestArray == [i \in 0 .. 5 |-> <<5, 2, 8, 1, 9, 3>>[i + 1]]
Size(a) == Cardinality(DOMAIN a)

\* A faulty variant: the element that is overwritten is not saved
swap_unsaved(a, i, j) == [a EXCEPT ![i] = a[j]]

swap(a, i, j) == [a EXCEPT ![i] = a[j], ![j] = a[i]]

\* The loop of partition on the n elements from b on; i and j count from b.
\* -1 instead of an index: the loop has left the whole array
RECURSIVE partition(_, _, _, _, _)
partition(a, b, n, i, j) ==
  LET pivot == a[b + n \div 2]
      Up == {k \in i .. Size(a) - 1 - b : a[b + k] >= pivot}
      Down == {k \in -b .. j : a[b + k] <= pivot}
      up == IF Up = {} THEN -1 ELSE CHOOSE k \in Up : \A m \in Up : k <= m
      down == IF Down = {} THEN -1 ELSE CHOOSE k \in Down : \A m \in Down : k >= m
  IN IF i > j THEN [arr |-> a, at |-> i]
     ELSE IF Up = {} \/ Down = {} \/ down < 0 THEN [arr |-> a, at |-> -1]
     ELSE IF up > down THEN [arr |-> a, at |-> up]
     ELSE partition(swap(a, b + up, b + down), b, n, up + 1, IF down > 0 THEN down - 1 ELSE 0)

\* The call on top goes on at pc, after a call of qsort on n elements from b on if n > 0
Continue(c, pc, b, n) ==
  LET rest == <<[c EXCEPT !.pc = pc]>> \o Tail(calls)
  IN IF n > 0 /\ Len(calls) = MaxDepth THEN sorter' = "overflow" /\ UNCHANGED calls
     ELSE /\ calls' = IF n = 0 THEN rest
                      ELSE <<[base |-> b, n |-> n, at |-> 0, pc |-> "enter"]>> \o rest
          /\ UNCHANGED sorter

\* One step of the call on top: partition and the left part, the right part, the return
qsort ==
  LET c == Head(calls)
      p == partition(arr, c.base, c.n, 0, c.n - 1)
  IN /\ sorter = "run" /\ calls # <<>> /\ UNCHANGED input
     /\ \/ /\ c.pc = "enter" /\ c.n > 1 /\ arr' = p.arr
           /\ IF p.at = -1 THEN sorter' = "wild" /\ UNCHANGED calls
              ELSE Continue([c EXCEPT !.at = p.at], "right", c.base, IF p.at > 1 THEN p.at ELSE 0)
        \/ /\ c.pc = "right" /\ UNCHANGED arr
           /\ Continue(c, "leave", c.base + c.at, IF c.at < c.n - 1 THEN c.n - c.at ELSE 0)
        \/ /\ c.pc = "leave" \/ c.n <= 1
           /\ calls' = Tail(calls) /\ UNCHANGED <<arr, sorter>>

\* The first call has returned to its caller
qsort_returns ==
  /\ sorter = "run" /\ calls = <<>>
  /\ sorter' = "done" /\ UNCHANGED <<input, arr, calls>>

RECURSIVE sift_down(_, _, _)
sift_down(a, root, end) ==
  LET child == root * 2 + 1
      left == IF a[root] < a[child] THEN child ELSE root
      most == IF child + 1 <= end /\ a[left] < a[child + 1] THEN child + 1 ELSE left
  IN IF child > end \/ most = root THEN a ELSE sift_down(swap(a, root, most), most, end)

\* The second loop of heapsort
RECURSIVE Drain(_, _)
Drain(a, end) == IF end = 0 THEN a ELSE Drain(sift_down(swap(a, 0, end), 0, end - 1), end - 1)

\* The first loop of heapsort makes a heap, from the last parent down
RECURSIVE Heapify(_, _)
Heapify(a, start) == IF start < 0 THEN a ELSE Heapify(sift_down(a, start, Size(a) - 1), start - 1)

\* A faulty variant: the last parent is taken for a leaf
heapsort_short(a) ==
  IF Size(a) <= 1 THEN a ELSE Drain(Heapify(a, (Size(a) - 2) \div 2 - 1), Size(a) - 1)

heapsort(a) ==
  IF Size(a) <= 1 THEN a ELSE Drain(Heapify(a, (Size(a) - 2) \div 2), Size(a) - 1)

\* The loop of bsearch; -1 when the key is not there
RECURSIVE bsearch(_, _, _, _)
bsearch(key, a, lo, hi) ==
  LET mid == lo + (hi - lo) \div 2
  IN IF lo >= hi THEN -1
     ELSE IF a[mid] = key THEN mid
     ELSE IF key < a[mid] THEN bsearch(key, a, lo, mid) ELSE bsearch(key, a, mid + 1, hi)

SortInit(inputs) ==
  /\ input \in inputs /\ arr = input
  /\ calls = <<[base |-> 0, n |-> Size(input), at |-> 0, pc |-> "enter"]>>
  /\ sorter = "run"

SortNext == qsort \/ qsort_returns
TestSpec == SortInit({TestArray}) /\ [][SortNext]_sortVars /\ WF_sortVars(SortNext)
-----------------------------------------------------------------------------
Sorted(a) == \A i, j \in DOMAIN a : i < j => a[i] <= a[j]
Occurrences(a, x) == Cardinality({i \in DOMAIN a : a[i] = x})
SameElements(a, b) == \A x \in Range(a) \cup Range(b) : Occurrences(a, x) = Occurrences(b, x)

(* Whatever qsort does, it keeps every element of the array and its        *)
(* partition loops stay inside it: the pivot is an index, and the element  *)
(* at it, which stops the loops, changes while they run.                   *)
QsortKeeps == sorter # "wild" /\ SameElements(input, arr)

(* heapsort returns the elements it was given in order; bsearch finds a    *)
(* key in a sorted array exactly when it is there.                         *)
HeapsortSorts ==
  sorter = "run" /\ arr = input =>
    LET h == heapsort(input)
    IN /\ Sorted(h) /\ SameElements(input, h)
       /\ \A key \in Values : LET i == bsearch(key, h, 0, Size(h))
                              IN IF i = -1 THEN key \notin Range(h) ELSE h[i] = key

(* test_qsort sorts {5, 2, 8, 1, 9, 3} and looks at the result: qsort      *)
(* returns from that array, and it is sorted.                              *)
QsortSorts == <>(sorter = "done" /\ Sorted(arr))

(* qsort only exchanges elements, and heapsort sorts them.                 *)
SortingSound == QsortKeeps /\ HeapsortSorts
=============================================================================
