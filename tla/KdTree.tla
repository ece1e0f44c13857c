------------------------------- MODULE KdTree -------------------------------
(***************************************************************************)
(* iris_tree_t and iris_overlap_t of src/src/iris/iris_tree.h: a kd-tree   *)
(* whose nodes are boxes and are linked in place.  Boxes have one          *)
(* dimension here, so a node splits by its lower (index 0) or by its upper *)
(* bound (index 1).  The caller serialises everything.                     *)
(***************************************************************************)
EXTENDS Naturals, Sequences, FiniteSets, SequencesExt

CONSTANTS
    TreeNodes, \* numbers, not 0
    Coords     \* bounds of boxes

Boxes == {b \in Coords \X Coords : b[1] <= b[2]}
None == 0   \* the null pointer

VARIABLES
    key,       \* node -> box
    tree,      \* [left, right, parent, index], each a function of the nodes
    root       \* what the caller keeps as the root

treeVars == <<key, tree, root>>

\* Nodes with equal roles differ by name only: their keys are given in order.
\* The caller chose their indices: 0, the constructor's default, or by turns.
TreeInit ==
    /\ key \in {k \in [TreeNodes -> Boxes] : \A m, n \in TreeNodes : m < n =>
                    \/ k[m][1] < k[n][1] \/ (k[m][1] = k[n][1] /\ k[m][2] <= k[n][2])}
    /\ \E i \in {[n \in TreeNodes |-> 0], [n \in TreeNodes |-> n % 2]} :
         tree = [left |-> [n \in TreeNodes |-> None], right |-> [n \in TreeNodes |-> None],
                 parent |-> [n \in TreeNodes |-> None], index |-> i]
    /\ root = None

\* iris_overlap_t, on boxes
get(b, i) == b[i + 1]
compare(l, r, i) == get(r, i) < get(l, i)
overlap_left(l, r, i) == i = 0 \/ get(l, i) >= get(r, 0)
overlap_right(l, r, i) == i = 1 \/ get(r, 1) >= get(l, i)
next_index(i) == (i + 1) % 2

\* merge(): down to a free place, equal keys to the right
RECURSIVE MergeAt(_, _, _)
MergeAt(T, at, n) ==
    LET left == compare(key[at], key[n], T.index[at])
        child == IF left THEN T.left[at] ELSE T.right[at]
    IN IF child # None THEN MergeAt(T, child, n)
       ELSE IF left THEN [T EXCEPT !.left[at] = n, !.parent[n] = at]
       ELSE [T EXCEPT !.right[at] = n, !.parent[n] = at]

\* Mutant: find_minimal() never looks to the right.
RECURSIVE FindMinimalLeft(_, _, _)
FindMinimalLeft(T, n, i) ==
    LET l == IF T.left[n] = None THEN n ELSE FindMinimalLeft(T, T.left[n], i)
    IN IF compare(key[n], key[l], i) THEN l ELSE n

\* find_minimal(), find_maximal(): by index i over the subtree of n
RECURSIVE FindMinimal(_, _, _)
FindMinimal(T, n, i) ==
    LET l == IF T.left[n] = None THEN n ELSE FindMinimal(T, T.left[n], i)
        p == IF compare(key[n], key[l], i) THEN l ELSE n
        r == IF i = T.index[n] \/ T.right[n] = None THEN p ELSE FindMinimal(T, T.right[n], i)
    IN IF compare(key[p], key[r], i) THEN r ELSE p

RECURSIVE FindMaximal(_, _, _)
FindMaximal(T, n, i) ==
    LET l == IF i = T.index[n] \/ T.left[n] = None THEN n ELSE FindMaximal(T, T.left[n], i)
        p == IF compare(key[n], key[l], i) THEN n ELSE l
        r == IF T.right[n] = None THEN p ELSE FindMaximal(T, T.right[n], i)
    IN IF compare(key[p], key[r], i) THEN p ELSE r

\* the child that was n becomes m
Relink(T, n, m) ==
    LET at == T.parent[n] IN
    IF at = None THEN T
    ELSE IF T.left[at] = n THEN [T EXCEPT !.left[at] = m] ELSE [T EXCEPT !.right[at] = m]

SetParent(T, n, at) == IF n = None THEN T ELSE [T EXCEPT !.parent[n] = at]

\* Mutant: the child that moves up keeps n as its parent.
LightDetachKeeps(T, n) ==
    LET child == IF T.left[n] # None THEN T.left[n] ELSE T.right[n]
        U == Relink(T, n, child)
    IN [tree |-> [U EXCEPT !.left[n] = None, !.right[n] = None, !.parent[n] = None],
        root |-> IF T.parent[n] = None THEN child ELSE None]

\* light_detach(): at most one child, which takes the place of n
LightDetach(T, n) ==
    LET child == IF T.left[n] # None THEN T.left[n] ELSE T.right[n]
        U == SetParent(Relink(T, n, child), child, T.parent[n])
    IN [tree |-> [U EXCEPT !.left[n] = None, !.right[n] = None, !.parent[n] = None],
        root |-> IF T.parent[n] = None THEN child ELSE None]

(***************************************************************************)
(* detach(): with two children, the least node of the right or the greatest *)
(* of the left, as the selector says, is detached itself and then swaps    *)
(* its links and its index with n.  The result has the new root when n was *)
(* the root.                                                               *)
(***************************************************************************)
RECURSIVE DetachNode(_, _, _)
DetachNode(T, n, right) ==
    IF T.left[n] = None \/ T.right[n] = None THEN LightDetach(T, n)
    ELSE LET p == IF right THEN FindMinimal(T, T.right[n], T.index[n])
                  ELSE FindMaximal(T, T.left[n], T.index[n])
             U == DetachNode(T, p, right).tree
             V == SetParent(SetParent(Relink(U, n, p), U.left[n], p), U.right[n], p)
         IN [tree |-> [left   |-> [V.left   EXCEPT ![n] = V.left[p],   ![p] = V.left[n]],
                       right  |-> [V.right  EXCEPT ![n] = V.right[p],  ![p] = V.right[n]],
                       parent |-> [V.parent EXCEPT ![n] = V.parent[p], ![p] = V.parent[n]],
                       index  |-> [V.index  EXCEPT ![n] = V.index[p],  ![p] = V.index[n]]],
             root |-> IF T.parent[n] = None THEN p ELSE None]

\* The nodes of a subtree.
RECURSIVE Subtree(_, _)
Subtree(T, n) == IF n = None THEN {} ELSE {n} \cup Subtree(T, T.left[n]) \cup Subtree(T, T.right[n])
InTree == Subtree(tree, root)

\* build(): the middle first, then each half, with the next index
RECURSIVE Build(_, _, _, _)
Build(T, r, order, i) ==
    IF order = <<>> THEN T
    ELSE LET m == Len(order) \div 2 + 1
             U == MergeAt([T EXCEPT !.index[order[m]] = i], r, order[m])
         IN Build(Build(U, r, SubSeq(order, 1, m - 1), next_index(i)),
                  r, SubSeq(order, m + 1, Len(order)), next_index(i))

-----------------------------------------------------------------------------
Attach(n) ==
    /\ n \notin InTree
    /\ IF root = None THEN root' = n /\ UNCHANGED tree
       ELSE tree' = MergeAt(tree, root, n) /\ UNCHANGED root
    /\ UNCHANGED key

Detach(n, right) ==
    LET d == DetachNode(tree, n, right) IN
    /\ n \in InTree /\ tree' = d.tree
    /\ root' = IF n = root THEN d.root ELSE root
    /\ UNCHANGED key

\* encode(): the bits of the bounds are interleaved, so that a box with both
\* bounds smaller has a smaller code; which of two other boxes is first
\* depends on the box around all of them and is left open
Before(a, b) == a # b /\ a[1] <= b[1] /\ a[2] <= b[2]
SortedByCode(order) == \A i, j \in DOMAIN order : i < j => ~Before(key[order[j]], key[order[i]])

\* optimize() and rebuild(): links are cleared and the nodes attached again,
\* in the order of their codes
Optimize ==
    LET bare == [tree EXCEPT !.left = [n \in TreeNodes |-> None],
                             !.right = [n \in TreeNodes |-> None],
                             !.parent = [n \in TreeNodes |-> None]] IN
    /\ root # None
    /\ \E order \in {s \in SetToSeqs(InTree) : SortedByCode(s)} :
         LET m == Len(order) \div 2 + 1
             U == [bare EXCEPT !.index[order[m]] = 0] IN
         /\ root' = order[m]
         /\ tree' = Build(Build(U, order[m], SubSeq(order, 1, m - 1), 1),
                          order[m], SubSeq(order, m + 1, Len(order)), 1)
    /\ UNCHANGED key

TreeNext == Optimize \/ \E n \in TreeNodes : Attach(n) \/ \E right \in BOOLEAN : Detach(n, right)

TreeSpec == TreeInit /\ [][TreeNext]_treeVars

-----------------------------------------------------------------------------
\* The nodes that query() hands to the caller: a side is entered or followed
\* when the box can overlap it (which of the two, right_skew says).
RECURSIVE Query(_, _)
Query(n, box) ==
    IF n = None THEN {}
    ELSE LET i == tree.index[n]
             l == overlap_left(key[n], box, i)
             r == overlap_right(key[n], box, i)
         IN {n} \cup (IF l THEN Query(tree.left[n], box) ELSE {})
                \cup (IF r THEN Query(tree.right[n], box) ELSE {})

Overlap(a, b) == a[1] <= b[2] /\ b[1] <= a[2]

\* split_push(): what is known of the bounds on the side that is entered
SplitPush(bounds, reference, i, right_skew) ==
    IF (i = 0) # right_skew THEN [bounds EXCEPT ![i + 1] = get(reference, i)] ELSE bounds

\* query() with a culler, here the overlap with a box, on the bounds of a
\* subtree: the ones of the side that is followed stay as they are
RECURSIVE QueryCulled(_, _, _, _)
QueryCulled(n, bounds, box, right_skew) ==
    IF n = None \/ ~Overlap(bounds, box) THEN {}
    ELSE LET other == SplitPush(bounds, key[n], tree.index[n], right_skew)
             enter == IF right_skew THEN tree.left[n] ELSE tree.right[n]
             follow == IF right_skew THEN tree.right[n] ELSE tree.left[n]
         IN {m \in {n} : Overlap(key[n], box)}
            \cup QueryCulled(enter, other, box, right_skew)
            \cup QueryCulled(follow, bounds, box, right_skew)

(***************************************************************************)
(* A query meets every node of the tree that overlaps its box, with and    *)
(* without culling, after any sequence of attach(), detach() and           *)
(* optimize(): also with equal bounds, and when detach() moved a node and  *)
(* its index up the tree.                                                  *)
(***************************************************************************)
QueryComplete ==
    LET inTree == InTree
        all == <<CHOOSE c \in Coords : \A d \in Coords : c <= d,
                 CHOOSE c \in Coords : \A d \in Coords : c >= d>> IN
    \A box \in Boxes :
        LET hit == {n \in inTree : Overlap(key[n], box)} IN
        /\ hit \subseteq Query(root, box)
        /\ \A skew \in BOOLEAN : hit = QueryCulled(root, all, box, skew)

\* The links agree: a child knows its parent, a node is in one place of the
\* tree, and a node outside of it is linked to nothing.
LinksAgree ==
    LET inTree == InTree IN
    /\ root # None => tree.parent[root] = None
    /\ \A n \in inTree : \A c \in {tree.left[n], tree.right[n]} \ {None} : tree.parent[c] = n
    /\ \A n \in inTree : tree.left[n] # None => tree.left[n] # tree.right[n]
    /\ \A n \in TreeNodes \ inTree :
         tree.left[n] = None /\ tree.right[n] = None /\ tree.parent[n] = None

(***************************************************************************)
(* After any sequence of attach(), detach() and optimize() the links of    *)
(* the tree agree and a query, culled or not, meets exactly what it must.  *)
(***************************************************************************)
TreeRight == QueryComplete /\ LinksAgree
=============================================================================
