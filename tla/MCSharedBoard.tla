--------------------------- MODULE MCSharedBoard ---------------------------
(* Instances of SharedBoard for TLC. *)
EXTENDS SharedBoard, TLC

CONSTANTS p1, p2, p3

One == {p1}
Two == {p1, p2}
Three == {p1, p2, p3}
None == {}

Symmetry == Permutations(Procs)

WithTest == Moves \cup {"test"}
OnlyTest == {"test"}

(* In assignment 2 `up' is another name of `left' (fifteen.c:57-73).       *)
NotUp == Moves \ {"up"}

(* What the stack of ./reset may have held: nothing that looks like the    *)
(* blank, or perhaps a blank in the word behind the first row.             *)
Quiet == [w \in Struct \ Cells |-> {0}]
BlankBehind == [w \in Struct \ Cells |-> IF w = Cols THEN {0, Blank} ELSE {0}]

=============================================================================
