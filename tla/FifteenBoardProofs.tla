-------------------------- MODULE FifteenBoardProofs --------------------------
(***************************************************************************)
(* Lemmas about the memory layout of the board, about the scans and moves  *)
(* as memory and user see them, and about the parity of the puzzle, for    *)
(* every size of the board.  The arithmetic is not linear (a word is       *)
(* i * Stride + j), so the order of the rows is proved once, here.         *)
(***************************************************************************)
EXTENDS FifteenBoard, FiniteSets, FiniteSetTheorems, WellFoundedInduction, TLAPS

LEMMA StrideNat == Stride \in Nat /\ Stride >= 2 /\ Rows \in Nat \ {0} /\ Cols \in Nat \ {0}
BY BoardSize DEF Stride

(* Rows of n words lie one after the other. *)
LEMMA RowMajorOrder ==
  ASSUME NEW n \in Nat \ {0}, NEW i \in Int, NEW k \in Int, i < k,
         NEW j \in 0 .. n - 1, NEW l \in 0 .. n - 1
  PROVE  i * n + j < k * n + l
<1>1. (k - i - 1) * n >= 0
  OBVIOUS
<1>2. (k - i - 1) * n = k * n - i * n - n
  OBVIOUS
<1>3. i * n \in Int /\ k * n \in Int
  OBVIOUS
<1> QED BY <1>1, <1>2, <1>3

LEMMA RowMajorInjective ==
  ASSUME NEW n \in Nat \ {0}, NEW i \in Int, NEW k \in Int,
         NEW j \in 0 .. n - 1, NEW l \in 0 .. n - 1,
         i * n + j = k * n + l
  PROVE  i = k /\ j = l
<1>1. i * n \in Int /\ k * n \in Int
  OBVIOUS
<1>2. ~(i < k) /\ ~(k < i)
  BY <1>1, RowMajorOrder
<1>3. i = k
  BY <1>2
<1> QED BY <1>1, <1>3

(* The last row begins n words before the end of m rows. *)
LEMMA RowMajorRange ==
  ASSUME NEW m \in Nat, NEW n \in Nat \ {0}, NEW i \in 0 .. m - 1, NEW j \in 0 .. n - 1
  PROVE  /\ i * n + j \in 0 .. m * n - 1
         /\ i * n + j <= m * n - n + j
         /\ m * n \in Int
<1>1. i * n >= 0 /\ i * n \in Int /\ m * n \in Int
  OBVIOUS
<1>2. (m - 1 - i) * n >= 0
  OBVIOUS
<1>3. (m - 1 - i) * n = m * n - n - i * n
  OBVIOUS
<1> QED BY <1>1, <1>2, <1>3

(* Every number below m * n is in a row and a column. *)
LEMMA RowMajorOnto ==
  ASSUME NEW m \in Nat, NEW n \in Nat \ {0}, NEW t \in 0 .. m * n - 1
  PROVE  \E i \in 0 .. m - 1, j \in 0 .. n - 1 : t = i * n + j
<1> DEFINE i == t \div n
           j == t % n
<1>1. m * n \in Int /\ t \in Nat
  OBVIOUS
<1>2. t = n * i + j /\ i \in Nat /\ j \in 0 .. n - 1
  BY <1>1
<1>3. t = i * n + j
  BY <1>2
<1>4. i < m
  <2>1. SUFFICES ASSUME i >= m PROVE FALSE
    BY <1>2
  <2>2. (i - m) * n >= 0
    BY <1>2, <2>1
  <2>3. (i - m) * n = i * n - m * n
    BY <1>2
  <2> HIDE DEF i, j
  <2> QED BY <1>1, <1>2, <1>3, <2>2, <2>3
<1>5. i \in 0 .. m - 1
  BY <1>2, <1>4
<1> HIDE DEF i, j
<1> QED BY <1>2, <1>3, <1>5

(* A word is one square of one row: board[i][j] is never board[k][l]. *)
LEMMA AddrInjective ==
  ASSUME NEW i \in Int, NEW k \in Int,
         NEW j \in 0 .. Stride - 1, NEW l \in 0 .. Stride - 1,
         Addr(i, j) = Addr(k, l)
  PROVE  i = k /\ j = l
BY StrideNat, RowMajorInjective DEF Addr

LEMMA CellAddr ==
  ASSUME NEW a \in Cells
  PROVE  \E i \in 0 .. Rows - 1, j \in 0 .. Cols - 1 : a = Addr(i, j)
BY DEF Cells

LEMMA AddrRange ==
  ASSUME NEW i \in 0 .. Rows - 1, NEW j \in 0 .. Cols - 1
  PROVE  /\ Addr(i, j) \in Nat
         /\ Addr(i, j) <= Rows * Stride - 2
<1>1. Stride \in Nat \ {0} /\ j \in 0 .. Stride - 1 /\ j <= Stride - 2
  BY StrideNat DEF Stride
<1>2. /\ i * Stride + j \in 0 .. Rows * Stride - 1
      /\ i * Stride + j <= Rows * Stride - Stride + j
      /\ Rows * Stride \in Int
  BY <1>1, StrideNat, RowMajorRange
<1> QED BY <1>1, <1>2 DEF Addr

LEMMA CellRange == \A a \in Cells : a \in Nat /\ a <= Rows * Stride - 2
BY AddrRange, CellAddr

LEMMA OffsetInt == \A m \in Moves : Offset(m) \in {-Stride, Stride, -1, 1}
BY DEF Moves, Offset

(* The commands read only the words of the model. *)
LEMMA ReachesWords ==
  /\ Cells \subseteq Words
  /\ \A a \in Cells, m \in Moves : a + Offset(m) \in Words
<1>1. Rows * Stride \in Int /\ (Rows + 1) * Stride = Rows * Stride + Stride
  BY StrideNat
<1> QED BY <1>1, CellRange, OffsetInt, StrideNat DEF Words

(* A non-empty set of natural numbers has a least member. *)
LEMMA NatMinimum ==
  ASSUME NEW T, T \subseteq Nat, T # {}
  PROVE  \E x \in T : \A y \in T : x <= y
<1>1. \E R : IsWellFoundedOn(R, Nat) /\ \A x, y \in Nat : x < y => <<x, y>> \in R
  <2>1. \A x, y \in Nat : x < y => <<x, y>> \in OpToRel(<, Nat)
    BY Zenon DEF OpToRel
  <2> QED BY <2>1, NatLessThanWellFounded, Zenon
<1>2. PICK R : IsWellFoundedOn(R, Nat) /\ \A x, y \in Nat : x < y => <<x, y>> \in R
  BY <1>1
<1>3. PICK x \in T : \A y \in T : ~(<<y, x>> \in R)
  <2>1. IsWellFoundedOn(R, Nat) /\ T \subseteq Nat /\ T # {}
    BY <1>2
  <2> QED BY <2>1, WFMin
<1>4. \A y \in T : ~(y < x)
  BY <1>2, <1>3, Zenon
<1>5. \A y \in T : x <= y
  BY <1>4
<1> QED BY <1>5

(* The scan stops at a square that has the blank as its neighbour. *)
LEMMA FirstHitIsHit ==
  ASSUME NEW m, NEW d, Hits(m, d) # {}
  PROVE  FirstHit(m, d) \in Hits(m, d)
<1>1. Hits(m, d) \subseteq Nat
  BY CellRange DEF Hits
<1>2. \E a \in Hits(m, d) : \A b \in Hits(m, d) : a <= b
  BY <1>1, NatMinimum
<1> QED BY <1>2 DEF FirstHit

LEMMA FirstHitIsCell ==
  ASSUME NEW m, NEW d, Hits(m, d) # {}
  PROVE  FirstHit(m, d) \in Cells /\ m[FirstHit(m, d) + d] = Blank
BY FirstHitIsHit DEF Hits

-----------------------------------------------------------------------------
(* The board of a new game *)

LEMMA AddrDiv ==
  ASSUME NEW i \in 0 .. Rows - 1, NEW j \in 0 .. Cols - 1
  PROVE  Addr(i, j) - (Addr(i, j) \div Stride) = i * Cols + j
<1>1. /\ Stride \in Nat \ {0} /\ j \in 0 .. Stride - 1 /\ i \in Nat
  BY StrideNat DEF Stride
<1>2. (i * Stride + j) \div Stride = i
  BY <1>1
<1>3. i * Stride = i * Cols + i /\ i * Cols \in Int
  BY <1>1, StrideNat DEF Stride
<1>4. Addr(i, j) \div Stride = i /\ Addr(i, j) = i * Stride + j
  BY <1>2 DEF Addr
<1>5. (i * Stride + j) - i = i * Cols + j
  <2> DEFINE x == i * Stride
             y == i * Cols
  <2>1. x = y + i /\ y \in Int /\ i \in Int /\ j \in Int
    BY <1>1, <1>3
  <2> HIDE DEF x, y
  <2>2. (x + j) - i = y + j
    BY <2>1
  <2> QED BY <2>2 DEF x, y
<1> QED BY <1>4, <1>5

LEMMA NewBoardCells ==
  ASSUME NEW pad, NEW i \in 0 .. Rows - 1, NEW j \in 0 .. Cols - 1
  PROVE  NewBoard(pad)[Addr(i, j)] =
           IF i = Rows - 1 /\ j = Cols - 1 THEN Blank ELSE i * Cols + j + 1
<1>1. Addr(i, j) \in Cells /\ Addr(i, j) \in Words
  BY ReachesWords DEF Cells
<1>2. Rows - 1 \in 0 .. Rows - 1 /\ Cols - 1 \in 0 .. Stride - 1 /\ j \in 0 .. Stride - 1
  BY StrideNat DEF Stride
<1>3. Addr(i, j) = Addr(Rows - 1, Cols - 1) <=> i = Rows - 1 /\ j = Cols - 1
  BY <1>2, AddrInjective
<1>4. Addr(i, j) - (Addr(i, j) \div Stride) + 1 = i * Cols + j + 1
  BY AddrDiv
<1> QED BY <1>1, <1>3, <1>4 DEF NewBoard

LEMMA NewBoardType ==
  ASSUME NEW pad \in Int
  PROVE  NewBoard(pad) \in [Words -> Int]
<1>1. \A w \in Words : w \in Int
  BY StrideNat DEF Words
<1>2. \A w \in Words : w - (w \div Stride) + 1 \in Int
  BY <1>1, StrideNat
<1> QED BY <1>2 DEF NewBoard, Blank

(* A new game shows every tile once, if the padding is not the blank. *)
LEMMA NewBoardPermuted ==
  ASSUME NEW pad \in Int, pad # Blank
  PROVE  Permuted(NewBoard(pad))
<1> DEFINE M == NewBoard(pad)
           Size == Rows * Cols
<1>0. /\ Rows \in Nat \ {0} /\ Cols \in Nat \ {0} /\ Size \in Nat \ {0}
      /\ Rows - 1 \in 0 .. Rows - 1 /\ Cols - 1 \in 0 .. Cols - 1
      /\ (Rows - 1) * Cols + Cols - 1 = Size - 1
  BY StrideNat
<1>1. ASSUME NEW i \in 0 .. Rows - 1, NEW j \in 0 .. Cols - 1
      PROVE  /\ i * Cols + j \in 0 .. Size - 1
             /\ i * Cols + j = Size - 1 <=> i = Rows - 1 /\ j = Cols - 1
  <2>1. i * Cols + j \in 0 .. Size - 1
    BY <1>0, RowMajorRange
  <2>2. i * Cols + j = Size - 1 => i = Rows - 1 /\ j = Cols - 1
    <3>1. (Rows - 1) * Cols + (Cols - 1) = Size - 1
      BY <1>0
    <3> QED BY <3>1, <1>0, RowMajorInjective
  <2>3. i = Rows - 1 /\ j = Cols - 1 => i * Cols + j = Size - 1
    BY <1>0
  <2> QED BY <2>1, <2>2, <2>3
<1>2. ASSUME NEW i \in 0 .. Rows - 1, NEW j \in 0 .. Cols - 1
      PROVE  M[Addr(i, j)] = IF i * Cols + j = Size - 1 THEN Blank ELSE i * Cols + j + 1
  BY <1>1, NewBoardCells
<1> HIDE DEF M, Size
<1>3. ASSUME NEW a \in Cells
      PROVE  M[a] \in 1 .. (Size - 1) \cup {Blank}
  <2>1. PICK i \in 0 .. Rows - 1, j \in 0 .. Cols - 1 : a = Addr(i, j)
    BY CellAddr
  <2>2. i * Cols + j \in 0 .. Size - 1
    BY <1>1
  <2>3. M[a] = IF i * Cols + j = Size - 1 THEN Blank ELSE i * Cols + j + 1
    BY <2>1, <1>2
  <2> QED BY <2>2, <2>3, <1>0
<1>4. ASSUME NEW a \in Cells, NEW b \in Cells, M[a] = M[b]
      PROVE  a = b
  <2>1. PICK i \in 0 .. Rows - 1, j \in 0 .. Cols - 1 : a = Addr(i, j)
    BY CellAddr
  <2>2. PICK k \in 0 .. Rows - 1, l \in 0 .. Cols - 1 : b = Addr(k, l)
    BY CellAddr
  <2>3. i * Cols + j = k * Cols + l
    <3>1. /\ M[a] = IF i * Cols + j = Size - 1 THEN -1 ELSE i * Cols + j + 1
          /\ M[b] = IF k * Cols + l = Size - 1 THEN -1 ELSE k * Cols + l + 1
      BY <2>1, <2>2, <1>2 DEF Blank
    <3>2. i * Cols + j \in 0 .. Size - 1 /\ k * Cols + l \in 0 .. Size - 1
      BY <1>1
    <3> QED BY <3>1, <3>2, <1>4, <1>0
  <2>4. i = k /\ j = l
    BY <2>3, <1>0, RowMajorInjective
  <2> QED BY <2>1, <2>2, <2>4
<1>5. ASSUME NEW t \in 1 .. (Size - 1) \cup {Blank}
      PROVE  \E a \in Cells : M[a] = t
  <2> DEFINE n == IF t = Blank THEN Size - 1 ELSE t - 1
  <2>1. n \in 0 .. Rows * Cols - 1 /\ t = IF n = Size - 1 THEN Blank ELSE n + 1
    BY <1>0 DEF Blank, Size
  <2>2. PICK i \in 0 .. Rows - 1, j \in 0 .. Cols - 1 : n = i * Cols + j
    BY <2>1, <1>0, RowMajorOnto
  <2> QED BY <2>1, <2>2, <1>2 DEF Cells
<1>6. ASSUME NEW w \in Words \ Cells
      PROVE  M[w] # Blank
  <2>1. Addr(Rows - 1, Cols - 1) \in Cells
    BY <1>0 DEF Cells
  <2> QED BY <2>1 DEF M, NewBoard
<1> QED BY <1>3, <1>4, <1>5, <1>6 DEF Permuted, M, Size

-----------------------------------------------------------------------------
(* A move *)

(* What the two stores of a move make of the board. *)
Moved(m, a, b) == [[m EXCEPT ![b] = m[a]] EXCEPT ![a] = Blank]

(* A hit on a board with its tiles in order: the blank is in a square. *)
LEMMA HitIsInside ==
  ASSUME NEW m \in [Words -> Int], Permuted(m), NEW move \in Moves,
         NEW a \in Hits(m, Offset(move))
  PROVE  /\ a \in Cells /\ a + Offset(move) \in Cells
         /\ a # a + Offset(move) /\ m[a + Offset(move)] = Blank
<1>1. a \in Cells /\ m[a + Offset(move)] = Blank
  BY DEF Hits
<1>2. a + Offset(move) \in Words
  BY <1>1, ReachesWords
<1>3. a + Offset(move) \in Cells
  BY <1>1, <1>2 DEF Permuted
<1>4. a \in Int /\ Offset(move) \in Int /\ Offset(move) # 0
  BY <1>1, CellRange, OffsetInt, StrideNat
<1> QED BY <1>1, <1>3, <1>4

LEMMA MoveKeepsTiles ==
  ASSUME NEW m \in [Words -> Int], Permuted(m),
         NEW a \in Cells, NEW b \in Cells, a # b, m[b] = Blank
  PROVE  Permuted(Moved(m, a, b)) /\ Moved(m, a, b) \in [Words -> Int]
<1> DEFINE n == Moved(m, a, b)
<1>1. a \in Words /\ b \in Words /\ Cells \subseteq Words
  BY ReachesWords
<1>2. /\ n \in [Words -> Int]
      /\ n[a] = Blank /\ n[b] = m[a]
      /\ \A w \in Words \ {a, b} : n[w] = m[w]
  BY <1>1 DEF Moved, Blank
<1> HIDE DEF n
<1>3. \A c \in Cells : n[c] \in 1 .. (Rows * Cols - 1) \cup {Blank}
  BY <1>1, <1>2 DEF Permuted
<1>4. \A c, e \in Cells : n[c] = n[e] => c = e
  BY <1>1, <1>2 DEF Permuted
<1>5. ASSUME NEW t \in 1 .. (Rows * Cols - 1) \cup {Blank}
      PROVE  \E c \in Cells : n[c] = t
  <2>1. PICK c \in Cells : m[c] = t
    BY DEF Permuted
  <2>2. CASE c = a
    BY <2>1, <2>2, <1>2
  <2>3. CASE c = b
    BY <2>1, <2>3, <1>2
  <2>4. CASE c \notin {a, b}
    BY <2>1, <2>4, <1>1, <1>2
  <2> QED BY <2>2, <2>3, <2>4
<1>6. \A w \in Words \ Cells : n[w] # Blank
  BY <1>1, <1>2 DEF Permuted
<1> QED BY <1>2, <1>3, <1>4, <1>5, <1>6 DEF Permuted, n

(* The neighbour at a command's offset, if it is a square at all, is the   *)
(* next square in that row or column: no scan wraps around the border.     *)
LEMMA NeighbourOnBoard ==
  ASSUME NEW move \in Moves,
         NEW i \in 0 .. Rows - 1, NEW j \in 0 .. Cols - 1,
         NEW k \in 0 .. Rows - 1, NEW l \in 0 .. Cols - 1,
         Addr(k, l) = Addr(i, j) + Offset(move)
  PROVE  \/ move = "up"    /\ k = i - 1 /\ l = j
         \/ move = "down"  /\ k = i + 1 /\ l = j
         \/ move = "left"  /\ k = i /\ l = j - 1
         \/ move = "right" /\ k = i /\ l = j + 1
<1>1. /\ Stride \in Nat \ {0} /\ Stride = Cols + 1 /\ Cols \in Nat \ {0}
      /\ j \in 0 .. Stride - 1 /\ l \in 0 .. Stride - 1
      /\ i \in Int /\ k \in Int /\ i * Stride \in Int
  BY StrideNat DEF Stride
<1>2. CASE move = "up"
  <2>1. Addr(i, j) - Stride = Addr(i - 1, j)
    BY <1>1 DEF Addr
  <2>2. k = i - 1 /\ l = j
    <3>1. Addr(k, l) = Addr(i - 1, j)
      BY <1>1, <1>2, <2>1 DEF Offset, Addr
    <3> QED BY <3>1, <1>1, AddrInjective
  <2> QED BY <1>2, <2>2
<1>3. CASE move = "down"
  <2>1. Addr(i, j) + Stride = Addr(i + 1, j)
    BY <1>1 DEF Addr
  <2>2. k = i + 1 /\ l = j
    <3>1. Addr(k, l) = Addr(i + 1, j)
      BY <1>3, <2>1 DEF Offset
    <3> QED BY <3>1, <1>1, AddrInjective
  <2> QED BY <1>3, <2>2
<1>4. CASE move = "left"
  <2>1. CASE j = 0
    <3>1. Addr(i, j) - 1 = Addr(i - 1, Cols)
      BY <1>1, <2>1 DEF Addr
    <3>2. Addr(k, l) = Addr(i - 1, Cols)
      BY <1>1, <1>4, <3>1 DEF Offset, Addr
    <3>3. l = Cols
      BY <3>2, <1>1, AddrInjective
    <3> QED BY <3>3, <1>1
  <2>2. CASE j # 0
    <3>1. Addr(i, j) - 1 = Addr(i, j - 1) /\ j - 1 \in 0 .. Stride - 1
      BY <1>1, <2>2 DEF Addr
    <3>2. Addr(k, l) = Addr(i, j - 1)
      BY <1>1, <1>4, <3>1 DEF Offset, Addr
    <3>3. k = i /\ l = j - 1
      BY <3>1, <3>2, <1>1, AddrInjective
    <3> QED BY <1>4, <3>3
  <2> QED BY <2>1, <2>2
<1>5. CASE move = "right"
  <2>1. Addr(i, j) + 1 = Addr(i, j + 1) /\ j + 1 \in 0 .. Stride - 1
    BY <1>1 DEF Addr
  <2>2. Addr(k, l) = Addr(i, j + 1)
    BY <1>5, <2>1 DEF Offset
  <2>3. k = i /\ l = j + 1
    BY <2>1, <2>2, <1>1, AddrInjective
  <2> QED BY <1>5, <2>3
<1> QED BY <1>2, <1>3, <1>4, <1>5 DEF Moves

-----------------------------------------------------------------------------
(* The board as the user sees it *)

Squares == (0 .. Rows - 1) \X (0 .. Cols - 1)

(* The word of a square. *)
Word(q) == Addr(q[1], q[2])

(* The square whose tile a command moves when the blank is in square h. *)
Giver(move, h) == CASE move = "up"    -> <<h[1] + 1, h[2]>>
                    [] move = "down"  -> <<h[1] - 1, h[2]>>
                    [] move = "left"  -> <<h[1], h[2] + 1>>
                    [] move = "right" -> <<h[1], h[2] - 1>>

LEMMA SquareParts ==
  ASSUME NEW q \in Squares
  PROVE  q[1] \in 0 .. Rows - 1 /\ q[2] \in 0 .. Cols - 1 /\ q = <<q[1], q[2]>>
BY DEF Squares

LEMMA WordCell ==
  ASSUME NEW q \in Squares
  PROVE  Word(q) \in Cells /\ Word(q) \in Words
BY SquareParts, ReachesWords DEF Word, Cells

LEMMA CellWord ==
  ASSUME NEW a \in Cells
  PROVE  \E q \in Squares : a = Word(q)
<1>1. PICK i \in 0 .. Rows - 1, j \in 0 .. Cols - 1 : a = Addr(i, j)
  BY CellAddr
<1>2. <<i, j>> \in Squares /\ a = Word(<<i, j>>)
  BY <1>1 DEF Squares, Word
<1> QED BY <1>2

LEMMA WordInjective ==
  ASSUME NEW p \in Squares, NEW q \in Squares, Word(p) = Word(q)
  PROVE  p = q
<1>1. /\ p[1] \in Int /\ q[1] \in Int
      /\ p[2] \in 0 .. Stride - 1 /\ q[2] \in 0 .. Stride - 1
  BY SquareParts, StrideNat DEF Stride
<1>2. p[1] = q[1] /\ p[2] = q[2]
  BY <1>1, AddrInjective DEF Word
<1> QED BY <1>2, SquareParts

LEMMA ViewAt ==
  ASSUME NEW m
  PROVE  DOMAIN View(m) = Squares /\ \A q \in Squares : View(m)[q] = m[Word(q)]
BY DEF View, Squares, Word

(* A new game shows the tiles in reading order. *)
LEMMA ViewOfNewGame ==
  View(NewBoard(0)) = [q \in Squares |-> IF q = <<Rows - 1, Cols - 1>> THEN Blank
                                         ELSE q[1] * Cols + q[2] + 1]
<1>1. ASSUME NEW q \in Squares
      PROVE  NewBoard(0)[Word(q)] = IF q = <<Rows - 1, Cols - 1>> THEN Blank
                                    ELSE q[1] * Cols + q[2] + 1
  <2>1. PICK i \in 0 .. Rows - 1, j \in 0 .. Cols - 1 : q = <<i, j>>
    BY DEF Squares
  <2>2. NewBoard(0)[Addr(i, j)] = IF i = Rows - 1 /\ j = Cols - 1 THEN Blank ELSE i * Cols + j + 1
    BY NewBoardCells
  <2>3. q[1] = i /\ q[2] = j /\ (q = <<Rows - 1, Cols - 1>> <=> i = Rows - 1 /\ j = Cols - 1)
    BY <2>1
  <2> QED BY <2>2, <2>3 DEF Word
<1>2. View(NewBoard(0)) = [q \in Squares |-> NewBoard(0)[Word(q)]]
  BY DEF View, Squares, Word
<1> QED BY <1>1, <1>2

(* A board with its tiles in order has one blank, in one square. *)
LEMMA OneHole ==
  ASSUME NEW m, Permuted(m)
  PROVE  \E h \in Squares : /\ m[Word(h)] = Blank
                            /\ \A a \in Cells : m[a] = Blank => a = Word(h)
                            /\ (CHOOSE q \in DOMAIN View(m) : View(m)[q] = Blank) = h
<1>1. PICK a \in Cells : m[a] = Blank
  BY DEF Permuted
<1>2. PICK h \in Squares : a = Word(h)
  BY CellWord
<1>3. \A b \in Cells : m[b] = Blank => b = Word(h)
  BY <1>1, <1>2 DEF Permuted
<1>4. \A q \in Squares : View(m)[q] = Blank <=> q = h
  BY <1>1, <1>2, <1>3, WordCell, WordInjective, ViewAt
<1>5. (CHOOSE q \in DOMAIN View(m) : View(m)[q] = Blank) = h
  BY <1>4, ViewAt
<1> QED BY <1>1, <1>2, <1>3, <1>5

(* A command finds a tile exactly when the square on its side of the blank *)
(* is on the board, and it finds the tile of that square.                  *)
LEMMA GiverIsHit ==
  ASSUME NEW m \in [Words -> Int], Permuted(m), NEW move \in Moves,
         NEW h \in Squares, m[Word(h)] = Blank
  PROVE  /\ \A a \in Hits(m, Offset(move)) :
               /\ Giver(move, h) \in Squares /\ a = Word(Giver(move, h))
               /\ a + Offset(move) = Word(h)
         /\ Giver(move, h) \in Squares => Word(Giver(move, h)) \in Hits(m, Offset(move))
<1>1. ASSUME NEW a \in Hits(m, Offset(move))
      PROVE  /\ Giver(move, h) \in Squares /\ a = Word(Giver(move, h))
             /\ a + Offset(move) = Word(h)
  <2>1. a \in Cells /\ a + Offset(move) \in Cells /\ m[a + Offset(move)] = Blank
    BY HitIsInside
  <2>2. a + Offset(move) = Word(h)
    BY <2>1, WordCell DEF Permuted
  <2>3. PICK p \in Squares : a = Word(p)
    BY <2>1, CellWord
  <2> DEFINE i == p[1]
             j == p[2]
             k == h[1]
             l == h[2]
  <2>4. /\ i \in 0 .. Rows - 1 /\ j \in 0 .. Cols - 1 /\ p = <<i, j>>
        /\ k \in 0 .. Rows - 1 /\ l \in 0 .. Cols - 1
    BY SquareParts
  <2>5. Addr(k, l) = Addr(i, j) + Offset(move)
    BY <2>2, <2>3 DEF Word
  <2> HIDE DEF i, j, k, l
  <2>6. \/ move = "up"    /\ k = i - 1 /\ l = j
        \/ move = "down"  /\ k = i + 1 /\ l = j
        \/ move = "left"  /\ k = i /\ l = j - 1
        \/ move = "right" /\ k = i /\ l = j + 1
    BY <2>4, <2>5, NeighbourOnBoard
  <2>7. Giver(move, h) = <<i, j>>
    BY <2>4, <2>6 DEF Giver, k, l
  <2> QED BY <2>2, <2>3, <2>4, <2>7
<1>2. ASSUME Giver(move, h) \in Squares
      PROVE  Word(Giver(move, h)) \in Hits(m, Offset(move))
  <2> DEFINE p == Giver(move, h)
             k == h[1]
             l == h[2]
  <2>1. Word(p) + Offset(move) = Word(h)
    <3>1. /\ k \in Int /\ l \in Int /\ Stride \in Int
          /\ (k + 1) * Stride = k * Stride + Stride
          /\ (k - 1) * Stride = k * Stride - Stride
          /\ k * Stride \in Int
      BY StrideNat, SquareParts
    <3>2. \/ move = "up"    /\ p = <<k + 1, l>> /\ Offset(move) = -Stride
          \/ move = "down"  /\ p = <<k - 1, l>> /\ Offset(move) = Stride
          \/ move = "left"  /\ p = <<k, l + 1>> /\ Offset(move) = -1
          \/ move = "right" /\ p = <<k, l - 1>> /\ Offset(move) = 1
      BY DEF Giver, Offset, Moves
    <3> DEFINE x == k * Stride
    <3> HIDE DEF p, k, l, x
    <3>3. /\ Word(p) = p[1] * Stride + p[2] /\ x \in Int
          /\ k * Stride = x /\ (k + 1) * Stride = x + Stride /\ (k - 1) * Stride = x - Stride
      BY <3>1 DEF Word, Addr, x
    <3>4. /\ move = "up"    => Word(p) = (k + 1) * Stride + l
          /\ move = "down"  => Word(p) = (k - 1) * Stride + l
          /\ move = "left"  => Word(p) = k * Stride + (l + 1)
          /\ move = "right" => Word(p) = k * Stride + (l - 1)
      BY <3>2, <3>3
    <3>5. Word(p) + Offset(move) = x + l
      BY <3>1, <3>2, <3>3, <3>4
    <3> QED BY <3>5 DEF Word, Addr, k, l, x
  <2>2. Word(p) \in Cells
    BY <1>2, WordCell
  <2> QED BY <2>1, <2>2 DEF Hits
<1> QED BY <1>1, <1>2

(* The two stores of a move exchange the blank and the tile that the user  *)
(* sees beside it.                                                         *)
LEMMA MovedView ==
  ASSUME NEW m \in [Words -> Int], NEW p \in Squares, NEW q \in Squares, p # q,
         m[Word(q)] = Blank
  PROVE  /\ View(Moved(m, Word(p), Word(q))) = [View(m) EXCEPT ![p] = View(m)[q], ![q] = View(m)[p]]
         /\ View(Moved(m, Word(p), Word(q))) = [View(m) EXCEPT ![q] = View(m)[p], ![p] = View(m)[q]]
<1> DEFINE a == Word(p)
           b == Word(q)
           n == Moved(m, a, b)
<1>1. a \in Words /\ b \in Words /\ a # b
  BY WordCell, WordInjective
<1>2. /\ n[a] = Blank /\ n[b] = m[a]
      /\ \A w \in Words \ {a, b} : n[w] = m[w]
  BY <1>1 DEF Moved
<1>3. View(m)[q] = Blank /\ View(m)[p] = m[a]
  BY ViewAt
<1> HIDE DEF n
<1>4. ASSUME NEW r \in Squares
      PROVE  View(n)[r] = IF r = p THEN View(m)[q] ELSE IF r = q THEN View(m)[p] ELSE View(m)[r]
  <2>1. View(n)[r] = n[Word(r)] /\ View(m)[r] = m[Word(r)] /\ Word(r) \in Words
    BY ViewAt, WordCell
  <2>2. (Word(r) = a <=> r = p) /\ (Word(r) = b <=> r = q)
    BY WordInjective
  <2> QED BY <1>2, <1>3, <2>1, <2>2
<1>5. View(m) = [r \in Squares |-> View(m)[r]] /\ View(n) = [r \in Squares |-> View(n)[r]]
  BY DEF View, Squares
<1>6. View(n) = [View(m) EXCEPT ![p] = View(m)[q], ![q] = View(m)[p]]
  BY <1>4, <1>5
<1>7. View(n) = [View(m) EXCEPT ![q] = View(m)[p], ![p] = View(m)[q]]
  BY <1>4, <1>5
<1> QED BY <1>6, <1>7 DEF n

-----------------------------------------------------------------------------
(* Parity: the squares stand in a line, ix their places, f what they hold. *)

(* The pairs of squares of which the first has the larger content. *)
Inverted(P, ix, f) == {s \in P \X P : ix[s[1]] < ix[s[2]] /\ f[s[1]] > f[s[2]]}

Exchanged(f, a, b) == [f EXCEPT ![a] = f[b], ![b] = f[a]]

(* A bijection between two sets of pairs that only changes their members.  *)
LEMMA SameSize ==
  ASSUME NEW A, NEW B, IsFiniteSet(A), NEW F \in [A -> B],
         \A x, y \in A : F[x] = F[y] => x = y,
         \A z \in B : \E x \in A : F[x] = z
  PROVE  IsFiniteSet(B) /\ Cardinality(B) = Cardinality(A)
<1>1. F \in Bijection(A, B)
  BY DEF Bijection, Injection, Surjection, IsInjective
<1> QED BY <1>1, FS_Bijection DEF ExistsBijection

PairsFrom(c, M) == {<<c, z>> : z \in M}

PairsTo(M, c) == {<<z, c>> : z \in M}

(* The pairs of one square with others are as many as the others.          *)
LEMMA PairsWith ==
  ASSUME NEW c, NEW M, IsFiniteSet(M)
  PROVE  /\ IsFiniteSet(PairsFrom(c, M)) /\ Cardinality(PairsFrom(c, M)) = Cardinality(M)
         /\ IsFiniteSet(PairsTo(M, c)) /\ Cardinality(PairsTo(M, c)) = Cardinality(M)
<1> DEFINE R == PairsFrom(c, M)
           F == [z \in M |-> <<c, z>>]
           Q == PairsTo(M, c)
           G == [z \in M |-> <<z, c>>]
<1>1. /\ F \in [M -> R] /\ \A x, y \in M : F[x] = F[y] => x = y
      /\ \A z \in R : \E x \in M : F[x] = z
  BY DEF PairsFrom
<1>2. /\ G \in [M -> Q] /\ \A x, y \in M : G[x] = G[y] => x = y
      /\ \A z \in Q : \E x \in M : G[x] = z
  BY DEF PairsTo
<1> HIDE DEF R, F, Q, G
<1>3. IsFiniteSet(R) /\ Cardinality(R) = Cardinality(M)
  BY <1>1, SameSize
<1>4. IsFiniteSet(Q) /\ Cardinality(Q) = Cardinality(M)
  BY <1>2, SameSize
<1> QED BY <1>3, <1>4 DEF R, Q

LEMMA Disjoint ==
  ASSUME NEW A, NEW B, IsFiniteSet(A), IsFiniteSet(B), A \cap B = {}
  PROVE  /\ IsFiniteSet(A \cup B)
         /\ Cardinality(A \cup B) = Cardinality(A) + Cardinality(B)
         /\ Cardinality(A) \in Nat /\ Cardinality(B) \in Nat
<1>1. Cardinality(A \cap B) = 0
  BY FS_EmptySet
<1>2. /\ IsFiniteSet(A \cup B)
      /\ Cardinality(A \cup B) = Cardinality(A) + Cardinality(B) - Cardinality(A \cap B)
  BY FS_Union
<1>3. Cardinality(A) \in Nat /\ Cardinality(B) \in Nat
  BY FS_CardinalityType
<1> QED BY <1>1, <1>2, <1>3

(* Exchanging the largest content with one that lies behind it changes the *)
(* parity of the inversions.                                               *)
LEMMA ExchangeIsOdd ==
  ASSUME NEW P, IsFiniteSet(P),
         NEW ix \in [P -> Int], \A x, y \in P : ix[x] = ix[y] => x = y,
         NEW f \in [P -> Int], \A x, y \in P : f[x] = f[y] => x = y,
         NEW lo \in P, NEW hi \in P, ix[lo] < ix[hi],
         \A x \in P \ {lo} : f[x] < f[lo]
  PROVE  /\ Cardinality(Inverted(P, ix, f)) \in Nat
         /\ Cardinality(Inverted(P, ix, Exchanged(f, lo, hi))) \in Nat
         /\ \E k \in Nat : Cardinality(Inverted(P, ix, f))
                             + Cardinality(Inverted(P, ix, Exchanged(f, lo, hi))) = 2 * k + 1
<1> DEFINE g == Exchanged(f, lo, hi)
           t == [x \in P |-> IF x = lo THEN hi ELSE IF x = hi THEN lo ELSE x]
           M == {z \in P : ix[lo] < ix[z] /\ ix[z] < ix[hi]}
           L == {z \in M : f[z] > f[hi]}
           S == {z \in M : f[hi] > f[z]}
           T == {s \in P \X P : \/ s[1] = lo /\ s[2] \in M \cup {hi}
                                \/ s[1] \in M /\ s[2] = hi}
           A == Inverted(P, ix, f)
           B == Inverted(P, ix, g)
           K == A \ T
           J == B \ T
           F == [s \in K |-> <<t[s[1]], t[s[2]]>>]
<1>1. lo # hi /\ f[lo] > f[hi] /\ ix[lo] \in Int /\ ix[hi] \in Int /\ f[lo] \in Int /\ f[hi] \in Int
  OBVIOUS
<1>2. /\ g \in [P -> Int] /\ g[lo] = f[hi] /\ g[hi] = f[lo]
      /\ \A x \in P \ {lo, hi} : g[x] = f[x]
  BY <1>1 DEF Exchanged
<1>3. /\ t \in [P -> P] /\ t[lo] = hi /\ t[hi] = lo
      /\ \A x \in P \ {lo, hi} : t[x] = x
      /\ \A x \in P : t[t[x]] = x /\ g[t[x]] = f[x] /\ f[t[x]] = g[x]
  BY <1>1, <1>2
<1>4. /\ M \subseteq P /\ lo \notin M /\ hi \notin M
      /\ \A z \in P : z \in M <=> ix[lo] < ix[z] /\ ix[z] < ix[hi]
  OBVIOUS
<1>5. \A x, y \in P : <<x, y>> \in T <=> \/ x = lo /\ y \in M \cup {hi}
                                         \/ x \in M /\ y = hi
  OBVIOUS
<1>6. /\ \A x, y \in P : <<x, y>> \in A <=> ix[x] < ix[y] /\ f[x] > f[y]
      /\ \A x, y \in P : <<x, y>> \in B <=> ix[x] < ix[y] /\ g[x] > g[y]
      /\ A \subseteq P \X P /\ B \subseteq P \X P
  BY DEF Inverted
<1> HIDE DEF g, t
<1>7. IsFiniteSet(A) /\ IsFiniteSet(B)
  <2>1. IsFiniteSet(P \X P)
    BY FS_Product
  <2> HIDE DEF A, B
  <2> QED BY <2>1, <1>6, FS_Subset
<1>8. /\ IsFiniteSet(M) /\ IsFiniteSet(L) /\ IsFiniteSet(S)
      /\ L \subseteq M /\ S \subseteq M /\ M = L \cup S /\ L \cap S = {}
  <2>1. IsFiniteSet(M)
    BY <1>4, FS_Subset
  <2>2. L \subseteq M /\ S \subseteq M
    OBVIOUS
  <2>3. M = L \cup S /\ L \cap S = {}
    <3>1. \A z \in M : f[z] # f[hi] /\ f[z] \in Int
      BY <1>4
    <3> QED BY <3>1, <1>1
  <2> HIDE DEF L, S, M
  <2> QED BY <2>1, <2>2, <2>3, FS_Subset
(* The pairs in which the exchange changes nothing but the order of lo and hi *)
<1>9. ASSUME NEW x \in P, NEW y \in P, ix[x] < ix[y], <<x, y>> \notin T
      PROVE  ix[t[x]] < ix[t[y]] /\ <<t[x], t[y]>> \notin T
  <2> HIDE DEF T, M
  <2>1. x # y /\ ix[x] \in Int /\ ix[y] \in Int
    BY <1>9
  <2>2. CASE x = lo
    BY <2>1, <2>2, <1>1, <1>3, <1>4, <1>5, <1>9
  <2>3. CASE x = hi
    BY <2>1, <2>3, <1>1, <1>3, <1>4, <1>5, <1>9
  <2>4. CASE x \notin {lo, hi} /\ y = lo
    BY <2>1, <2>4, <1>1, <1>3, <1>4, <1>5, <1>9
  <2>5. CASE x \notin {lo, hi} /\ y = hi
    BY <2>1, <2>5, <1>1, <1>3, <1>4, <1>5, <1>9
  <2>6. CASE x \notin {lo, hi} /\ y \notin {lo, hi}
    BY <2>6, <1>3, <1>9
  <2> QED BY <2>2, <2>3, <2>4, <2>5, <2>6
<1>10. Cardinality(J) = Cardinality(K) /\ IsFiniteSet(K) /\ IsFiniteSet(J)
  <2> HIDE DEF T, A, B
  <2>1. \A x, y \in P : /\ <<x, y>> \in K => <<t[x], t[y]>> \in J
                        /\ <<x, y>> \in J => <<t[x], t[y]>> \in K
    <3>1. ASSUME NEW x \in P, NEW y \in P
          PROVE  /\ <<x, y>> \in K => <<t[x], t[y]>> \in J
                 /\ <<x, y>> \in J => <<t[x], t[y]>> \in K
      <4>1. /\ t[x] \in P /\ t[y] \in P
            /\ g[t[x]] = f[x] /\ f[t[x]] = g[x] /\ g[t[y]] = f[y] /\ f[t[y]] = g[y]
        BY <1>3
      <4> DEFINE u == t[x]
                 v == t[y]
      <4> HIDE DEF u, v
      <4>2. /\ <<u, v>> \in A <=> ix[u] < ix[v] /\ g[x] > g[y]
            /\ <<u, v>> \in B <=> ix[u] < ix[v] /\ f[x] > f[y]
        BY <4>1, <1>6 DEF u, v
      <4>3. ix[x] < ix[y] /\ <<x, y>> \notin T => ix[u] < ix[v] /\ <<u, v>> \notin T
        BY <1>9 DEF u, v
      <4>4. /\ <<x, y>> \in K => <<u, v>> \in J
            /\ <<x, y>> \in J => <<u, v>> \in K
        BY <4>2, <4>3, <1>6
      <4> QED BY <4>4 DEF u, v
    <3> QED BY <3>1
  <2>2. K \subseteq P \X P /\ J \subseteq P \X P
    BY <1>6
  <2>3. F \in [K -> J]
    <3>1. ASSUME NEW s \in K PROVE <<t[s[1]], t[s[2]]>> \in J
      <4>1. s[1] \in P /\ s[2] \in P /\ s = <<s[1], s[2]>>
        BY <2>2
      <4> HIDE DEF K, J
      <4> QED BY <4>1, <2>1
    <3> HIDE DEF K, J
    <3> QED BY <3>1
  <2>4. ASSUME NEW r \in K, NEW s \in K, F[r] = F[s]
        PROVE  r = s
    <3>1. /\ r[1] \in P /\ r[2] \in P /\ r = <<r[1], r[2]>>
          /\ s[1] \in P /\ s[2] \in P /\ s = <<s[1], s[2]>>
      BY <2>2
    <3> HIDE DEF K
    <3>2. t[r[1]] = t[s[1]] /\ t[r[2]] = t[s[2]]
      BY <2>4
    <3> QED BY <3>1, <3>2, <1>3
  <2>5. ASSUME NEW s \in J
        PROVE  \E r \in K : F[r] = s
    <3>1. s[1] \in P /\ s[2] \in P /\ s = <<s[1], s[2]>>
      BY <2>2
    <3> DEFINE r == <<t[s[1]], t[s[2]]>>
    <3> HIDE DEF K, J
    <3>2. r \in K
      BY <3>1, <2>1
    <3>3. F[r] = <<t[t[s[1]]], t[t[s[2]]]>>
      BY <3>2
    <3> QED BY <3>1, <3>2, <3>3, <1>3
  <2>6. IsFiniteSet(K)
    <3> HIDE DEF K
    <3>1. K \subseteq A
      BY DEF K
    <3> QED BY <3>1, <1>7, FS_Subset
  <2> HIDE DEF K, J, F
  <2> QED BY <2>3, <2>4, <2>5, <2>6, SameSize
(* The pairs of lo or hi with a square between them *)
<1> DEFINE AL == PairsFrom(lo, M \cup {hi})
           AH == PairsTo(L, hi)
           BL == PairsFrom(lo, S)
<1>11. A = K \cup (AL \cup AH) /\ K \cap (AL \cup AH) = {} /\ AL \cap AH = {}
  <2>1. ASSUME NEW x \in P, NEW y \in P
        PROVE  <<x, y>> \in A /\ <<x, y>> \in T <=> <<x, y>> \in AL \/ <<x, y>> \in AH
    <3>1. <<x, y>> \in AL <=> x = lo /\ y \in M \cup {hi}
      BY DEF PairsFrom
    <3>2. <<x, y>> \in AH <=> y = hi /\ x \in M /\ f[x] > f[hi]
      BY DEF PairsTo
    <3> HIDE DEF AL, AH, A, T, M
    <3>3. f[x] \in Int /\ f[y] \in Int /\ ix[x] \in Int /\ ix[y] \in Int
      OBVIOUS
    <3>4. ASSUME x = lo /\ y \in M \cup {hi}
          PROVE  <<x, y>> \in A
      BY <1>1, <1>4, <1>6, <3>3, <3>4
    <3>5. ASSUME y = hi, x \in M
          PROVE  <<x, y>> \in A <=> f[x] > f[hi]
      BY <1>1, <1>4, <1>6, <3>3, <3>5
    <3> QED BY <3>1, <3>2, <3>4, <3>5, <1>5
  <2>2. AL \subseteq P \X P /\ AH \subseteq P \X P
    BY <1>4 DEF PairsFrom, PairsTo
  <2>3. AL \cap AH = {}
    BY <1>4 DEF PairsFrom, PairsTo
  <2> HIDE DEF AL, AH, T, A
  <2>4. \A s \in P \X P : s \in A /\ s \in T <=> s \in AL \/ s \in AH
    BY <2>1
  <2>5. A \subseteq P \X P
    BY <1>6
  <2> QED BY <2>2, <2>3, <2>4, <2>5
<1>12. B = J \cup BL /\ J \cap BL = {}
  <2>1. ASSUME NEW x \in P, NEW y \in P
        PROVE  <<x, y>> \in B /\ <<x, y>> \in T <=> <<x, y>> \in BL
    <3>1. <<x, y>> \in BL <=> x = lo /\ y \in M /\ f[hi] > f[y]
      BY DEF PairsFrom
    <3> HIDE DEF BL, B, T, M
    <3>3. f[x] \in Int /\ f[y] \in Int /\ ix[x] \in Int /\ ix[y] \in Int
      OBVIOUS
    <3>4. ASSUME x = lo, y \in M
          PROVE  <<x, y>> \in B <=> f[hi] > f[y]
      BY <1>1, <1>2, <1>4, <1>6, <3>3, <3>4
    <3>5. ASSUME x = lo, y = hi
          PROVE  <<x, y>> \notin B
      BY <1>1, <1>2, <1>6, <3>5
    <3>6. ASSUME x \in M, y = hi
          PROVE  <<x, y>> \notin B
      <4>1. g[x] = f[x] /\ g[y] = f[lo] /\ f[x] < f[lo]
        BY <1>2, <1>4, <3>6
      <4> QED BY <1>1, <1>6, <3>3, <4>1
    <3> QED BY <3>1, <3>4, <3>5, <3>6, <1>1, <1>4, <1>5
  <2>2. BL \subseteq P \X P
    BY <1>4 DEF PairsFrom
  <2> HIDE DEF BL, T, B
  <2>4. \A s \in P \X P : s \in B /\ s \in T <=> s \in BL
    BY <2>1
  <2>5. B \subseteq P \X P
    BY <1>6
  <2> QED BY <2>2, <2>4, <2>5
(* The sum *)
<1> HIDE DEF A, B, K, J, M, L, S, T
<1>13. /\ IsFiniteSet(AL) /\ Cardinality(AL) = Cardinality(M) + 1
       /\ IsFiniteSet(AH) /\ Cardinality(AH) = Cardinality(L)
       /\ IsFiniteSet(BL) /\ Cardinality(BL) = Cardinality(S)
  <2>1. IsFiniteSet(M \cup {hi}) /\ Cardinality(M \cup {hi}) = Cardinality(M) + 1
    BY <1>4, <1>8, FS_AddElement
  <2>2. IsFiniteSet(AL) /\ Cardinality(AL) = Cardinality(M \cup {hi})
    BY <2>1, PairsWith
  <2>3. IsFiniteSet(AH) /\ Cardinality(AH) = Cardinality(L)
    BY <1>8, PairsWith
  <2>4. IsFiniteSet(BL) /\ Cardinality(BL) = Cardinality(S)
    BY <1>8, PairsWith
  <2> HIDE DEF AL, AH, BL
  <2> QED BY <2>1, <2>2, <2>3, <2>4
<1> HIDE DEF AL, AH, BL
<1>14. /\ Cardinality(A) = Cardinality(K) + (Cardinality(M) + 1 + Cardinality(L))
       /\ Cardinality(K) \in Nat /\ Cardinality(A) \in Nat
  <2>1. IsFiniteSet(AL \cup AH) /\ Cardinality(AL \cup AH) = Cardinality(M) + 1 + Cardinality(L)
    BY <1>11, <1>13, Disjoint
  <2>2. Cardinality(K \cup (AL \cup AH)) = Cardinality(K) + Cardinality(AL \cup AH)
    BY <1>10, <1>11, <2>1, Disjoint
  <2>3. Cardinality(K) \in Nat /\ Cardinality(A) \in Nat
    BY <1>7, <1>10, FS_CardinalityType
  <2> QED BY <1>11, <2>1, <2>2, <2>3
<1>15. Cardinality(B) = Cardinality(K) + Cardinality(S) /\ Cardinality(B) \in Nat
  <2>1. Cardinality(J \cup BL) = Cardinality(J) + Cardinality(BL)
    BY <1>10, <1>12, <1>13, Disjoint
  <2>2. Cardinality(B) \in Nat
    BY <1>7, FS_CardinalityType
  <2> QED BY <1>10, <1>12, <1>13, <2>1, <2>2
<1>16. /\ Cardinality(M) = Cardinality(L) + Cardinality(S)
       /\ Cardinality(L) \in Nat /\ Cardinality(S) \in Nat
  BY <1>8, Disjoint
<1> DEFINE k == Cardinality(K)
           m == Cardinality(M)
           l == Cardinality(L)
           s == Cardinality(S)
           a == Cardinality(A)
           b == Cardinality(B)
<1>17. /\ k \in Nat /\ l \in Nat /\ s \in Nat /\ m = l + s
       /\ a = k + (m + 1 + l) /\ b = k + s
  BY <1>14, <1>15, <1>16
<1>18. a \in Nat /\ b \in Nat
  BY <1>14, <1>15
<1> HIDE DEF k, m, l, s, a, b
<1>19. k + m \in Nat /\ a + b = 2 * (k + m) + 1
  BY <1>17
<1> QED BY <1>18, <1>19 DEF a, b, A, B, g

(* The squares in reading order. *)
Places == [q \in Squares |-> q[1] * Cols + q[2]]

LEMMA PlacesDiffer ==
  /\ Places \in [Squares -> Int]
  /\ \A p, q \in Squares : Places[p] = Places[q] => p = q
  /\ IsFiniteSet(Squares)
<1>1. ASSUME NEW q \in Squares PROVE q[1] * Cols + q[2] \in Int
  BY SquareParts, StrideNat
<1>2. ASSUME NEW p \in Squares, NEW q \in Squares, Places[p] = Places[q]
      PROVE  p = q
  <2> DEFINE i == p[1]
             j == p[2]
             k == q[1]
             l == q[2]
  <2>1. i * Cols + j = k * Cols + l
    BY <1>2 DEF Places
  <2>2. /\ i \in Int /\ k \in Int /\ Cols \in Nat \ {0}
        /\ j \in 0 .. Cols - 1 /\ l \in 0 .. Cols - 1
        /\ p = <<i, j>> /\ q = <<k, l>>
    BY SquareParts, StrideNat
  <2> HIDE DEF i, j, k, l
  <2>3. i = k /\ j = l
    BY <2>1, <2>2, RowMajorInjective
  <2> QED BY <2>2, <2>3
<1>3. IsFiniteSet(Squares)
  <2> DEFINE m == Rows - 1
             n == Cols - 1
  <2>1. m \in Int /\ n \in Int /\ Squares = (0 .. m) \X (0 .. n)
    BY StrideNat DEF Squares
  <2> HIDE DEF m, n
  <2>2. IsFiniteSet(0 .. m) /\ IsFiniteSet(0 .. n)
    BY <2>1, FS_Interval
  <2> QED BY <2>1, <2>2, FS_Product
<1> QED BY <1>1, <1>2, <1>3 DEF Places

=============================================================================
