---------------------------- MODULE FifteenBoard ----------------------------
(***************************************************************************)
(* The Board of common.h as C lays it out, and the scan that every move    *)
(* command of server.c and fifteen.c makes over it.                        *)
(*                                                                         *)
(* `int board[5][5]' is a flat array of words: word Addr(i, j) is          *)
(* board[i][j], and only the Rows x Cols squares of it are ever            *)
(* initialised.  The commands index it with i - 1, i + 1, j - 1 and j + 1  *)
(* without testing the border, so they also read the row and the column of *)
(* padding and the words in front of the array: board[i][-1] is            *)
(* board[i - 1][Cols], and board[-1][j] lies in front of the array.  Words *)
(* is every word they can reach.                                           *)
(***************************************************************************)
EXTENDS Integers

CONSTANTS Rows, Cols

ASSUME BoardSize == Rows \in Nat \ {0} /\ Cols \in Nat \ {0}

Blank == -1

(* One more than the width: the second dimension of the array. *)
Stride == Cols + 1

Addr(i, j) == i * Stride + j

Cells == {Addr(i, j) : i \in 0 .. Rows - 1, j \in 0 .. Cols - 1}

Words == (-Stride) .. ((Rows + 1) * Stride - 1)

(* The board of a new game in the squares, pad in every other word.  The   *)
(* number that the nested loops store in a square is one more than the     *)
(* number of squares before it: its word less one padding word per row.    *)
NewBoard(pad) == [w \in Words |-> IF w = Addr(Rows - 1, Cols - 1) THEN Blank
                                  ELSE IF w \in Cells THEN w - (w \div Stride) + 1
                                  ELSE pad]

Moves == {"up", "down", "left", "right"}

(* Mutants of Offset: up and down mixed up, and a wrong column.            *)
OffsetUpsideDown(move) == CASE move = "up" -> Stride    [] move = "down"  -> -Stride
                            [] move = "left" -> -1      [] move = "right" -> 1

OffsetDiagonal(move) == CASE move = "up" -> 1 - Stride [] move = "down"  -> Stride
                          [] move = "left" -> -1        [] move = "right" -> 1

(* Where a command looks for the blank, relative to the square it visits. *)
Offset(move) == CASE move = "up"    -> -Stride
                  [] move = "down"  -> Stride
                  [] move = "left"  -> -1
                  [] move = "right" -> 1

(* Mutant of Hits: the loops run beyond the last row and column.           *)
HitsBeyond(m, d) == {a \in Words : a + d \in Words /\ m[a + d] = Blank}

(* The squares whose neighbour at offset d is blank, and the one of them   *)
(* that the row-by-row scan meets first and stops at.                      *)
Hits(m, d) == {a \in Cells : m[a + d] = Blank}

FirstHit(m, d) == CHOOSE a \in Hits(m, d) : \A b \in Hits(m, d) : a <= b

(* The squares hold every tile and the blank once, and no other word that  *)
(* a scan can read looks like the blank.                                   *)
Permuted(m) ==
  /\ \A a \in Cells : m[a] \in 1 .. (Rows * Cols - 1) \cup {Blank}
  /\ \A a, b \in Cells : m[a] = m[b] => a = b
  /\ \A t \in 1 .. (Rows * Cols - 1) \cup {Blank} : \E a \in Cells : m[a] = t
  /\ \A w \in Words \ Cells : m[w] # Blank

(* The board as the rows and columns a user sees. *)
View(m) == [p \in (0 .. Rows - 1) \X (0 .. Cols - 1) |-> m[Addr(p[1], p[2])]]

=============================================================================
