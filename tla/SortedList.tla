----------------------------- MODULE SortedList -----------------------------
(***************************************************************************)
(* What an avl_tree of lib/common promises its users, without the tree:   *)
(* a sequence of elements sorted by key, in which elements of one key     *)
(* stay in the order of their insertion.                                  *)
(***************************************************************************)
EXTENDS Integers, Sequences, SequencesExt

CONSTANTS Nodes,  \* the elements that may be inserted
          Key     \* Key[n]: the key of an element

VARIABLES list,       \* the elements, in iteration order
          allow_dups  \* whether elements may share a key

vars == <<list, allow_dups>>

(* The number of elements of l that come before an element with key k.     *)
Position(l, k) == Len(SelectSeq(l, LAMBDA n : Key[n] <= k))

(* l with n behind the elements that are not larger.                        *)
Insertion(l, n) == InsertAt(l, Position(l, Key[n]) + 1, n)

Init == list = << >> /\ allow_dups \in BOOLEAN

Insert(n) ==
  LET present == Range(list)
  IN /\ n \notin present
     /\ allow_dups \/ \A m \in present : Key[m] # Key[n]
     /\ list' = Insertion(list, n)
     /\ UNCHANGED allow_dups

Delete(n) ==
  /\ Contains(list, n)
  /\ list' = SelectSeq(list, LAMBDA m : m # n)
  /\ UNCHANGED allow_dups

Clear ==
  /\ list # << >>
  /\ list' = << >>
  /\ UNCHANGED allow_dups

Next == Clear \/ \E n \in Nodes : Insert(n) \/ Delete(n)

Spec == Init /\ [][Next]_vars
=============================================================================
