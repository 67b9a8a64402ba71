------------------------------- MODULE RbTree -------------------------------
(***************************************************************************)
(* The red-black tree of lib/rbtree.c.  Nodes are inserted in the order    *)
(* 1, 2, ...; the comparison function orders them by the key each is given *)
(* when it is inserted, and keys may repeat.  rb_remove is a stub in the   *)
(* code: it only counts down.                                              *)
(***************************************************************************)
EXTENDS Integers, Sequences

CONSTANTS
  RbSize,      \* how many nodes are inserted at most
  RbKeys,      \* the keys
  RbRemoves,   \* how often rb_remove is called at most
  SizeMod      \* size_t counts modulo this

VARIABLES
  rb,          \* the tree: root, count, and the fields of every node
  rbKey        \* the keys of the inserted nodes, in the order of insertion

rbVars == <<rb, rbKey>>

NIL == 0
Sides == {"left", "right"}
Other(s) == IF s = "left" THEN "right" ELSE "left"
RbNodes == 1 .. RbSize

\* rb_is_red: the null node is not red
rb_is_red(t, n) == n # NIL /\ t.color[n] = "red"

\* A faulty variant: the subtree that changes sides keeps its old parent
Adopt_never(t, b, x) == t

\* x becomes the parent of the subtree that changes sides, if there is one
Adopt(t, b, x) == IF b = NIL THEN t ELSE [t EXCEPT !.parent[b] = x]

\* rb_rotate_left (s = "left") and rb_rotate_right (s = "right") around x
Rotate(t, x, s) ==
  LET o == Other(s)
      y == t.child[o][x]
      b == t.child[s][y]
      p == t.parent[x]
      q == IF p # NIL /\ x = t.child[s][p] THEN s ELSE o
      linked == [t EXCEPT !.child[o][x] = b, !.child[s][y] = x,
                          !.parent = [@ EXCEPT ![x] = y, ![y] = p]]
      owned == Adopt(linked, b, x)
  IN IF p = NIL THEN [owned EXCEPT !.root = y] ELSE [owned EXCEPT !.child[q][p] = y]

\* The loop of rb_insert that restores the colours, both of its mirrored halves
RECURSIVE Fix(_, _)
Fix(t, n) ==
  LET p == t.parent[n] IN
  IF n = t.root \/ ~rb_is_red(t, p) THEN [t EXCEPT !.color[t.root] = "black"]
  ELSE LET g == t.parent[p]
           s == IF p = t.child["left"][g] THEN "left" ELSE "right"
           u == t.child[Other(s)][g]
           inner == n = t.child[Other(s)][p]
           m == IF inner THEN p ELSE n
           t1 == IF inner THEN Rotate(t, p, s) ELSE t
           q == t1.parent[m]
           h == t1.parent[q]
       IN IF rb_is_red(t, u)
          THEN Fix([t EXCEPT !.color = [@ EXCEPT ![p] = "black", ![u] = "black",
                                                 ![g] = "red"]], g)
          ELSE Fix(Rotate([t1 EXCEPT !.color = [@ EXCEPT ![q] = "black", ![h] = "red"]],
                          h, Other(s)), m)

\* A faulty variant of the descent sends equal keys left
Side_left(k, x) == IF k <= rbKey[x] THEN "left" ELSE "right"

\* Where the descent of rb_insert goes from x with key k: equal keys go right
Side(k, x) == IF k < rbKey[x] THEN "left" ELSE "right"
RECURSIVE Descend(_, _, _)
Descend(t, k, x) ==
  IF t.child[Side(k, x)][x] = NIL THEN x ELSE Descend(t, k, t.child[Side(k, x)][x])

\* A faulty variant: the new node is black
Leaf_black(t, n) == [t EXCEPT !.count = (@ + 1) % SizeMod, !.color[n] = "black"]

\* The tree with node n made ready: no children, red and counted
Leaf(t, n) == [t EXCEPT !.count = (@ + 1) % SizeMod, !.color[n] = "red"]

rb_insert(k) ==
  LET n == Len(rbKey) + 1
      y == Descend(rb, k, rb.root)
      leaf == Leaf(rb, n)
  IN /\ n \in RbNodes
     /\ rb' = IF rb.root = NIL THEN Fix([leaf EXCEPT !.root = n], n)
              ELSE Fix([leaf EXCEPT !.parent[n] = y, !.child[Side(k, y)][y] = n], n)
     /\ rbKey' = Append(rbKey, k)

rb_remove ==
  /\ (Len(rbKey) - rb.count) % SizeMod < RbRemoves
  /\ rb' = [rb EXCEPT !.count = (@ - 1) % SizeMod]
  /\ UNCHANGED rbKey

RECURSIVE rb_search(_, _)
rb_search(k, x) ==
  IF x = NIL \/ rbKey[x] = k THEN x
  ELSE rb_search(k, rb.child[IF k < rbKey[x] THEN "left" ELSE "right"][x])

\* The last node reached from x by following one side: rb_min and rb_max from the root
RECURSIVE Outermost(_, _)
Outermost(x, s) ==
  IF x = NIL \/ rb.child[s][x] = NIL THEN x ELSE Outermost(rb.child[s][x], s)

\* The first ancestor that x does not lie on side s of
RECURSIVE Above(_, _)
Above(x, s) ==
  LET y == rb.parent[x] IN IF y = NIL \/ x # rb.child[s][y] THEN y ELSE Above(y, s)

\* rb_next (s = "right") and rb_prev (s = "left")
Neighbour(x, s) ==
  IF rb.child[s][x] # NIL THEN Outermost(rb.child[s][x], Other(s)) ELSE Above(x, s)

RbInit ==
  /\ rb = [root |-> NIL, count |-> 0,
           child |-> [s \in Sides |-> [n \in RbNodes |-> NIL]],
           parent |-> [n \in RbNodes |-> NIL], color |-> [n \in RbNodes |-> "black"]]
  /\ rbKey = <<>>

RbNext == (\E k \in RbKeys : rb_insert(k)) \/ rb_remove
-----------------------------------------------------------------------------
\* The number of black nodes on the way down, or -1 if paths disagree
RECURSIVE BlackHeight(_)
BlackHeight(x) ==
  IF x = NIL THEN 0
  ELSE LET l == BlackHeight(rb.child["left"][x])
           r == BlackHeight(rb.child["right"][x])
       IN IF l # r \/ l = -1 THEN -1 ELSE l + (IF rb.color[x] = "black" THEN 1 ELSE 0)

(* However nodes are inserted, recolouring and rotations of rb_insert      *)
(* leave a red-black tree: a black root, no red node with a red child and  *)
(* the same number of black nodes on every path, which bounds every search *)
(* by twice the logarithm of the size.                                     *)
RbBalanced ==
  /\ ~rb_is_red(rb, rb.root)
  /\ BlackHeight(rb.root) # -1
  /\ \A x \in 1 .. Len(rbKey), s \in Sides :
       rb_is_red(rb, x) => ~rb_is_red(rb, rb.child[s][x])

\* The nodes met from x on with rb_next or rb_prev, at most n of them
RECURSIVE WalkFrom(_, _, _)
WalkFrom(x, s, n) ==
  IF x = NIL \/ n = 0 THEN <<>> ELSE <<x>> \o WalkFrom(Neighbour(x, s), s, n - 1)

(* rb_next from rb_min lists every node once, by key and, among equal      *)
(* keys, by insertion; rb_prev from rb_max lists them backwards; rb_search *)
(* finds exactly the inserted keys.  rb_remove changes none of this.       *)
RbOrdered ==
  LET n == Len(rbKey)
      up == WalkFrom(Outermost(rb.root, "left"), "right", n + 1)
      down == WalkFrom(Outermost(rb.root, "right"), "left", n + 1)
      Before(x, y) == rbKey[x] < rbKey[y] \/ (rbKey[x] = rbKey[y] /\ x < y)
  IN /\ Len(up) = n /\ Len(down) = n
     /\ \A i \in 1 .. n : up[i] = down[n + 1 - i] /\ (i < n => Before(up[i], up[i + 1]))
     /\ \A k \in RbKeys : LET x == rb_search(k, rb.root)
                          IN IF x = NIL THEN \A i \in 1 .. n : rbKey[i] # k
                             ELSE rbKey[x] = k

(* rb_insert keeps a red-black search tree in which rb_search, rb_next and *)
(* rb_prev find what was inserted.                                         *)
RbSound == RbBalanced /\ RbOrdered
=============================================================================
