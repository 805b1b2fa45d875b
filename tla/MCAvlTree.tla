----------------------------- MODULE MCAvlTree -----------------------------
(* An instance of AvlTree for TLC: one key occurs twice, one three times.   *)
EXTENDS AvlTree

CONSTANTS Size  \* the number of elements

MCNodes == 1..Size

(* Elements 1 and 2 have the smallest key, 5 to 7 one in the middle.        *)
MCKey == [n \in MCNodes |-> CASE n = 1 -> 2 [] n \in 5..7 -> 6 [] OTHER -> n]

(* All keys, and one beyond each end.                                       *)
MCProbes == 1..(Size + 1)
=============================================================================
