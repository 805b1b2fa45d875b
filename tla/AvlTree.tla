------------------------------ MODULE AvlTree ------------------------------
(***************************************************************************)
(* The AVL tree of lib/common/avl.c, the container behind every ordered   *)
(* collection of the packetbb library: consumers, TLVs, messages and      *)
(* addresses.  A tree is a heap of linked structures: the elements are    *)
(* threaded on a ring in key order (the list of list.h), and the first    *)
(* element of each key, its "leader", is also a node of the balanced      *)
(* search tree.                                                           *)
(*                                                                         *)
(* An operation is one action; rotations and rebalancing are functions    *)
(* from tree to tree, one for each function of the code.  The fields of   *)
(* an element outside the tree are NULL: avl_insert() overwrites them     *)
(* before anybody reads them.                                             *)
(***************************************************************************)
EXTENDS Integers, FiniteSets, Sequences, SequencesExt

CONSTANTS Nodes,  \* the elements that may be inserted
          Key,    \* Key[n]: the key of an element
          Probes, \* the keys looked up
          NULL,
          ListHead

VARIABLES tree, allow_dups

vars == <<tree, allow_dups>>

Ring == Nodes \cup {ListHead}

(* avl_init(); the tree's count is derived in code and model alike from     *)
(* the insertions.                                                          *)
EmptyTree ==
  [root    |-> NULL,
   count   |-> 0,
   next    |-> [n \in Ring |-> IF n = ListHead THEN ListHead ELSE NULL],
   prev    |-> [n \in Ring |-> IF n = ListHead THEN ListHead ELSE NULL],
   parent  |-> [n \in Nodes |-> NULL],
   left    |-> [n \in Nodes |-> NULL],
   right   |-> [n \in Nodes |-> NULL],
   balance |-> [n \in Nodes |-> 0],
   leader  |-> [n \in Nodes |-> FALSE]]

Init == tree = EmptyTree /\ allow_dups \in BOOLEAN

InTree(n) == tree.next[n] # NULL

-----------------------------------------------------------------------------
(* The ring.                                                                *)

list_add(t, prev, next, new) ==
  [t EXCEPT !.next[new] = next, !.prev[new] = prev,
            !.prev[next] = new, !.next[prev] = new, !.count = @ + 1]

avl_insert_before(t, pos, n) == list_add(t, t.prev[pos], pos, n)

avl_insert_after(t, pos, n) == list_add(t, pos, t.next[pos], n)

(* Mutant: the count is not maintained. *)
list_remove_uncounted(t, n) ==
  [t EXCEPT !.next[t.prev[n]] = t.next[n], !.prev[t.next[n]] = t.prev[n],
            !.next[n] = NULL, !.prev[n] = NULL]

list_remove(t, n) ==
  [t EXCEPT !.next[t.prev[n]] = t.next[n], !.prev[t.next[n]] = t.prev[n],
            !.next[n] = NULL, !.prev[n] = NULL, !.count = @ - 1]

-----------------------------------------------------------------------------
(* Lookup.                                                                  *)

avl_comp(k1, k2) == IF k1 > k2 THEN 1 ELSE IF k2 > k1 THEN -1 ELSE 0

RECURSIVE avl_find_rec(_, _, _)

(* The node with key k, or the one below which it would be inserted, and    *)
(* the result of the last comparison.                                       *)
avl_find_rec(t, n, k) ==
  LET diff  == avl_comp(k, Key[n])
      child == IF diff < 0 THEN t.left[n] ELSE IF diff > 0 THEN t.right[n] ELSE NULL
  IN IF child = NULL THEN [node |-> n, diff |-> diff] ELSE avl_find_rec(t, child, k)

avl_find(t, k) ==
  IF t.root = NULL THEN NULL
  ELSE LET found == avl_find_rec(t, t.root, k)
       IN IF found.diff = 0 THEN found.node ELSE NULL

(* k is not on the wrong side of n: not smaller for dir = 1, not larger     *)
(* for dir = -1.                                                            *)
Reaches(n, k, dir) == dir * avl_comp(k, Key[n]) >= 0

RECURSIVE FirstReached(_, _, _, _)

(* Follows the ring from n until k reaches an element; NULL at its end.     *)
FirstReached(step, n, k, dir) ==
  IF n = ListHead THEN NULL
  ELSE IF Reaches(n, k, dir) THEN n
  ELSE FirstReached(step, step[n], k, dir)

RECURSIVE LastReached(_, _, _, _)

(* Follows the ring from n while k reaches the next element.                *)
LastReached(step, n, k, dir) ==
  IF step[n] = ListHead THEN n
  ELSE IF ~Reaches(step[n], k, dir) THEN n
  ELSE LastReached(step, step[n], k, dir)

(* Mutant: stops at the element that the descent has led to. *)
avl_find_lessequal_not_last(t, k) ==
  IF t.root = NULL THEN NULL
  ELSE FirstReached(t.prev, avl_find_rec(t, t.root, k).node, k, 1)

avl_find_lessequal(t, k) ==
  IF t.root = NULL THEN NULL
  ELSE LET n == FirstReached(t.prev, avl_find_rec(t, t.root, k).node, k, 1)
       IN IF n = NULL THEN NULL ELSE LastReached(t.next, n, k, 1)

avl_find_greaterequal(t, k) ==
  IF t.root = NULL THEN NULL
  ELSE LET n == FirstReached(t.next, avl_find_rec(t, t.root, k).node, k, -1)
       IN IF n = NULL THEN NULL ELSE LastReached(t.prev, n, k, -1)

-----------------------------------------------------------------------------
(* Rotations.                                                               *)

(* child takes the place of n below parent, or at the root.                 *)
ReplaceChild(t, parent, n, child) ==
  IF parent = NULL THEN [t EXCEPT !.root = child]
  ELSE IF t.left[parent] = n THEN [t EXCEPT !.left[parent] = child]
  ELSE [t EXCEPT !.right[parent] = child]

SetParent(t, n, parent) ==
  IF n = NULL THEN t ELSE [t EXCEPT !.parent[n] = parent]

avl_rotate_right(t, n) ==
  LET l == t.left[n]
      p == t.parent[n]
      linked == ReplaceChild([t EXCEPT !.parent[l] = p, !.parent[n] = l], p, n, l)
      moved  == SetParent([linked EXCEPT !.left[n] = t.right[l], !.right[l] = n],
                          t.right[l], n)
      nb == t.balance[n] + 1 - (IF t.balance[l] < 0 THEN t.balance[l] ELSE 0)
      lb == t.balance[l] + 1 + (IF nb > 0 THEN nb ELSE 0)
  IN [moved EXCEPT !.balance[n] = nb, !.balance[l] = lb]

avl_rotate_left(t, n) ==
  LET r == t.right[n]
      p == t.parent[n]
      linked == ReplaceChild([t EXCEPT !.parent[r] = p, !.parent[n] = r], p, n, r)
      moved  == SetParent([linked EXCEPT !.right[n] = t.left[r], !.left[r] = n],
                          t.left[r], n)
      nb == t.balance[n] - 1 - (IF t.balance[r] > 0 THEN t.balance[r] ELSE 0)
      rb == t.balance[r] - 1 + (IF nb < 0 THEN nb ELSE 0)
  IN [moved EXCEPT !.balance[n] = nb, !.balance[r] = rb]

-----------------------------------------------------------------------------
(* Insertion.                                                               *)

RECURSIVE post_insert(_, _)

(* The subtree below n has become higher.                                   *)
post_insert(t, n) ==
  LET p == t.parent[n]
      isLeft == t.left[p] = n
      grown  == [t EXCEPT !.balance[p] = @ + (IF isLeft THEN -1 ELSE 1)]
      b == grown.balance[p]
  IN IF p = NULL \/ b = 0 THEN (IF p = NULL THEN t ELSE grown)
     ELSE IF b \in {-1, 1} THEN post_insert(grown, p)
     ELSE IF isLeft
          THEN IF t.balance[n] = -1 THEN avl_rotate_right(grown, p)
               ELSE LET turned == avl_rotate_left(grown, n)
                    IN avl_rotate_right(turned, turned.parent[turned.parent[n]])
          ELSE IF t.balance[n] = 1 THEN avl_rotate_left(grown, p)
               ELSE LET turned == avl_rotate_right(grown, n)
                    IN avl_rotate_left(turned, turned.parent[turned.parent[n]])

RECURSIVE LastOfKey(_, _)

(* The last element of the series that n leads.                             *)
LastOfKey(t, n) ==
  LET next == t.next[n]
  IN IF next = ListHead THEN n
     ELSE IF t.leader[next] THEN n ELSE LastOfKey(t, next)

(* new becomes the left or right child of n, whose balance becomes b.       *)
AddChild(t, n, new, side, b) ==
  [t EXCEPT !.parent[new] = n, !.balance[n] = b, !.leader[new] = TRUE,
            !.left[n]  = IF side = "left" THEN new ELSE @,
            !.right[n] = IF side = "right" THEN new ELSE @]

(* The tree after avl_insert(new); the same tree when the key is refused.   *)
InsertInto(t, dups, new) ==
  IF t.root = NULL
  THEN [list_add(t, ListHead, t.next[ListHead], new)
          EXCEPT !.root = new, !.count = 1, !.leader[new] = TRUE]
  ELSE
    LET n    == avl_find_rec(t, t.root, Key[new]).node
        last == LastOfKey(t, n)
        diff == avl_comp(Key[new], Key[n])
    IN CASE diff = 0 -> IF dups THEN avl_insert_after(t, last, new) ELSE t
         [] diff # 0 /\ t.balance[n] = 1 ->
              AddChild(avl_insert_before(t, n, new), n, new, "left", 0)
         [] diff # 0 /\ t.balance[n] = -1 ->
              AddChild(avl_insert_after(t, last, new), n, new, "right", 0)
         [] diff < 0 /\ t.balance[n] = 0 ->
              post_insert(AddChild(avl_insert_before(t, n, new), n, new, "left", -1), n)
         [] diff > 0 /\ t.balance[n] = 0 ->
              post_insert(AddChild(avl_insert_after(t, last, new), n, new, "right", 1), n)

(* Mutant: a duplicate is added to a tree that does not allow it. *)
avl_insert_duplicate(n) ==
  /\ ~InTree(n)
  /\ tree' = InsertInto(tree, TRUE, n)
  /\ UNCHANGED allow_dups

avl_insert(n) ==
  /\ ~InTree(n)
  /\ tree' = InsertInto(tree, allow_dups, n)
  /\ UNCHANGED allow_dups

-----------------------------------------------------------------------------
(* Removal.                                                                 *)

RECURSIVE avl_post_remove(_, _), LeftShrunk(_, _), RightShrunk(_, _)

(* The left (right) subtree of p has become lower.                          *)
LeftShrunk(t, p) ==
  LET lower == [t EXCEPT !.balance[p] = @ + 1]
      r == t.right[p]
      Up(u) == avl_post_remove(u, u.parent[p])
  IN CASE lower.balance[p] = 0 -> avl_post_remove(lower, p)
       [] lower.balance[p] = 1 -> lower
       [] lower.balance[p] > 1 ->
            CASE t.balance[r] = 0 -> avl_rotate_left(lower, p)
              [] t.balance[r] = 1 -> Up(avl_rotate_left(lower, p))
              [] OTHER -> Up(avl_rotate_left(avl_rotate_right(lower, r), p))

RightShrunk(t, p) ==
  LET lower == [t EXCEPT !.balance[p] = @ - 1]
      l == t.left[p]
      Up(u) == avl_post_remove(u, u.parent[p])
  IN CASE lower.balance[p] = 0 -> avl_post_remove(lower, p)
       [] lower.balance[p] = -1 -> lower
       [] lower.balance[p] < -1 ->
            CASE t.balance[l] = 0 -> avl_rotate_right(lower, p)
              [] t.balance[l] = -1 -> Up(avl_rotate_right(lower, p))
              [] OTHER -> Up(avl_rotate_right(avl_rotate_left(lower, l), p))

(* The subtree below n has become lower.                                    *)
avl_post_remove(t, n) ==
  LET p == t.parent[n]
  IN IF p = NULL THEN t
     ELSE IF t.left[p] = n THEN LeftShrunk(t, p) ELSE RightShrunk(t, p)

RECURSIVE avl_local_min(_, _)

avl_local_min(t, n) == IF t.left[n] = NULL THEN n ELSE avl_local_min(t, t.left[n])

(* n, a node without children, leaves the tree.                             *)
RemoveLeaf(t, n) ==
  LET p == t.parent[n]
  IN IF p = NULL THEN [t EXCEPT !.root = NULL]
     ELSE IF t.left[p] = n THEN LeftShrunk([t EXCEPT !.left[p] = NULL], p)
     ELSE RightShrunk([t EXCEPT !.right[p] = NULL], p)

(* n's only child takes its place.                                          *)
RemoveWithOneChild(t, n, child) ==
  LET p == t.parent[n]
      replaced == ReplaceChild([t EXCEPT !.parent[child] = p], p, n, child)
  IN IF p = NULL THEN replaced ELSE avl_post_remove(replaced, child)

(* Mutant: m keeps the balance it had elsewhere. *)
TakePlace_keeps_balance(t, n, m) ==
  LET p == t.parent[n]
      placed == [t EXCEPT !.parent[m] = p, !.leader[m] = TRUE,
                          !.left[m] = t.left[n], !.right[m] = t.right[n]]
  IN ReplaceChild(SetParent(SetParent(placed, t.left[n], m), t.right[n], m), p, n, m)

(* m takes the place that n has in the tree.                                *)
TakePlace(t, n, m) ==
  LET p == t.parent[n]
      placed == [t EXCEPT !.balance[m] = t.balance[n], !.parent[m] = p,
                          !.left[m] = t.left[n], !.right[m] = t.right[n],
                          !.leader[m] = TRUE]
  IN ReplaceChild(SetParent(SetParent(placed, t.left[n], m), t.right[n], m), p, n, m)

avl_remove_worker(t, n) ==
  CASE t.left[n] = NULL /\ t.right[n] = NULL -> RemoveLeaf(t, n)
    [] t.left[n] = NULL /\ t.right[n] # NULL -> RemoveWithOneChild(t, n, t.right[n])
    [] t.left[n] # NULL /\ t.right[n] = NULL -> RemoveWithOneChild(t, n, t.left[n])
    [] OTHER -> LET min == avl_local_min(t, t.right[n])
                    without == IF t.right[min] = NULL THEN RemoveLeaf(t, min)
                               ELSE RemoveWithOneChild(t, min, t.right[min])
                IN TakePlace(without, n, min)

(* The fields of an element that has left the tree are not looked at.       *)
Forget(t, n) == [t EXCEPT !.parent[n] = NULL, !.left[n] = NULL, !.right[n] = NULL,
                          !.balance[n] = 0, !.leader[n] = FALSE]

RemoveFrom(t, n) ==
  LET next == t.next[n]
      followed == next # ListHead /\ ~t.leader[next]
      unlinked == CASE ~t.leader[n] -> t
                    [] t.leader[n] /\ allow_dups /\ followed -> TakePlace(t, n, next)
                    [] OTHER -> avl_remove_worker(t, n)
  IN Forget(list_remove(unlinked, n), n)

avl_remove(n) ==
  /\ InTree(n)
  /\ tree' = RemoveFrom(tree, n)
  /\ UNCHANGED allow_dups

(* The loop that hands every element to its body, which frees it.           *)
avl_remove_all_elements ==
  /\ tree.count > 0
  /\ tree' = EmptyTree
  /\ UNCHANGED allow_dups

Next ==
  \/ avl_remove_all_elements
  \/ \E n \in Nodes : avl_insert(n) \/ avl_remove(n)

Spec == Init /\ [][Next]_vars

-----------------------------------------------------------------------------
RECURSIVE WalkFrom(_, _, _)

(* The ring from n to its end, along step, at most max elements of it.      *)
WalkFrom(step, n, max) ==
  IF n \in {ListHead, NULL} \/ max = 0 THEN << >>
  ELSE <<n>> \o WalkFrom(step, step[n], max - 1)

Walk(step) == WalkFrom(step, step[ListHead], Cardinality(Nodes))

elements == Walk(tree.next)

(* Every field holds what its declaration allows, balance only the three    *)
(* values of avl.h, and the ring and the tree have as many members as the   *)
(* count says.                                                              *)
TypeOK ==
  /\ tree.root \in Nodes \cup {NULL}
  /\ tree.count = Len(elements)
  /\ tree.next \in [Ring -> Ring \cup {NULL}] /\ tree.prev \in [Ring -> Ring \cup {NULL}]
  /\ \A f \in {tree.parent, tree.left, tree.right} : f \in [Nodes -> Nodes \cup {NULL}]
  /\ tree.balance \in [Nodes -> -1..1]
  /\ tree.leader \in [Nodes -> BOOLEAN]
  /\ allow_dups \in BOOLEAN

RECURSIVE Subtree(_, _)

(* The in-order traversal below n and its height, followed to at most       *)
(* depth levels.                                                            *)
Subtree(n, depth) ==
  IF n = NULL \/ depth = 0 THEN [order |-> << >>, height |-> 0]
  ELSE LET l == Subtree(tree.left[n], depth - 1)
           r == Subtree(tree.right[n], depth - 1)
       IN [order  |-> l.order \o <<n>> \o r.order,
           height |-> 1 + (IF l.height > r.height THEN l.height ELSE r.height)]

(* After any sequence of insertions and removals the tree below the root    *)
(* holds exactly the first element of each key, in the ring's order, every  *)
(* child knows its parent, and every balance is the difference of the       *)
(* heights of the two subtrees (so that lookups stay logarithmic): what     *)
(* the rotations of post_insert() and avl_post_remove() must restore.       *)
BalancedSearchTree ==
  LET N == Cardinality(Nodes)
      InOrder == Subtree(tree.root, N).order
      ring == elements
  IN /\ InOrder = SelectSeq(ring, LAMBDA n : tree.leader[n])
     /\ \A i \in 1..Len(ring) :
          tree.leader[ring[i]] <=> (i = 1 \/ Key[ring[i - 1]] # Key[ring[i]])
     /\ \A n \in Range(InOrder) :
          /\ tree.balance[n] = Subtree(tree.right[n], N).height
                                 - Subtree(tree.left[n], N).height
          /\ \A c \in {tree.left[n], tree.right[n]} : c # NULL => tree.parent[c] = n
          /\ tree.parent[n] = NULL <=> n = tree.root

(* Whatever the shape of the tree, avl_find() returns the first element of  *)
(* the key, avl_find_lessequal() the last element that is not larger and    *)
(* avl_find_greaterequal() the first one that is not smaller, and NULL if   *)
(* there is none.                                                           *)
FindsExact ==
  LET ring == elements
      First(Test(_)) == LET s == SelectSeq(ring, Test)
                        IN IF s = << >> THEN NULL ELSE s[1]
      LastOf(Test(_)) == LET s == SelectSeq(ring, Test)
                         IN IF s = << >> THEN NULL ELSE s[Len(s)]
  IN \A k \in Probes :
       /\ avl_find(tree, k) = First(LAMBDA n : Key[n] = k)
       /\ avl_find_lessequal(tree, k) = LastOf(LAMBDA n : Key[n] <= k)
       /\ avl_find_greaterequal(tree, k) = First(LAMBDA n : Key[n] >= k)

(* Read along the ring, in either direction, the tree is the sorted list:   *)
(* an element comes to lie behind the elements that are not larger, or is   *)
(* refused when its key is there and duplicates are not allowed, and a      *)
(* removal takes out that element and no other.                             *)
Sorted == INSTANCE SortedList WITH list <- elements

ImplementsSortedList == Sorted!Spec /\ [](elements = Reverse(Walk(tree.prev)))
=============================================================================
