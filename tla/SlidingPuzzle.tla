--------------------------- MODULE SlidingPuzzle ---------------------------
(***************************************************************************)
(* The fifteen puzzle as a user of it understands it: Rows x Cols squares, *)
(* all but one of them holding a tile.  A step slides a tile into the      *)
(* blank square next to it, or starts a new game.  It is the abstract      *)
(* specification that the board kept in memory by the message-queue server *)
(* (PuzzleServer) and by the shared-memory programs (SharedBoard) is shown *)
(* to implement.                                                           *)
(***************************************************************************)
EXTENDS Integers, FiniteSets

CONSTANTS Rows,  \* BOARD_ROWS: 4 in the code
          Cols   \* BOARD_COLS: 4 in the code

VARIABLE squares

Blank == -1

Pos == (0 .. Rows - 1) \X (0 .. Cols - 1)

Tiles == 1 .. (Rows * Cols - 1)

Home == <<Rows - 1, Cols - 1>>

(* The board of a new game: the tiles in reading order, the blank last. *)
Solved == [p \in Pos |-> IF p = Home THEN Blank ELSE p[1] * Cols + p[2] + 1]

Adjacent(p, q) == \/ p[1] = q[1] /\ (p[2] = q[2] + 1 \/ q[2] = p[2] + 1)
                  \/ p[2] = q[2] /\ (p[1] = q[1] + 1 \/ q[1] = p[1] + 1)

Swap(sq, p, q) == [sq EXCEPT ![p] = sq[q], ![q] = sq[p]]

-----------------------------------------------------------------------------

Init == squares = Solved

Slide(p, q) == /\ squares[q] = Blank
               /\ Adjacent(p, q)
               /\ squares' = Swap(squares, p, q)

NewGame == squares' = Solved

Next == (\E p, q \in Pos : Slide(p, q)) \/ NewGame

Spec == Init /\ [][Next]_squares

-----------------------------------------------------------------------------

(* Every square of a board holds one of the tiles or the blank, none of    *)
(* them is on the board twice and none is missing.                         *)
IsPermutation(sq) == /\ \A p \in Pos : sq[p] \in Tiles \cup {Blank}
                     /\ \A p, q \in Pos : sq[p] = sq[q] => p = q
                     /\ \A t \in Tiles \cup {Blank} : \E p \in Pos : sq[p] = t

(* The parity that every slide keeps: the number of inversions of the      *)
(* board (the blank counting as the largest tile) plus the distance of the *)
(* blank from its home square is even.  A board that lost this parity can  *)
(* never be brought back to the solved one by legal moves.                 *)
Solvable(sq) ==
  LET Index(p) == p[1] * Cols + p[2]
      Rank(p) == IF sq[p] = Blank THEN Rows * Cols ELSE sq[p]
      inversions == {pq \in Pos \X Pos : /\ Index(pq[1]) < Index(pq[2])
                                         /\ Rank(pq[1]) > Rank(pq[2])}
      hole == CHOOSE p \in Pos : sq[p] = Blank
  IN (Cardinality(inversions) + (Home[1] - hole[1]) + (Home[2] - hole[2])) % 2 = 0

=============================================================================
