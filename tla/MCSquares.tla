----------------------------- MODULE MCSquares -----------------------------
(* Instances of Squares for TLC. *)
EXTENDS Squares

CONSTANTS x, y

(* Squares of 2 x 2 that hold both letters: grids with all of their        *)
(* squares complete, none, or one or two of them, one that is too small to *)
(* have any, and one that is wider than MaxWidth.                          *)
Grid(r, c, at(_, _)) ==
  [rows |-> r, cols |-> c, at |-> [p \in 0 .. r - 1 |-> [q \in 0 .. c - 1 |-> at(p, q)]]]

Stripes(p, q) == IF p % 2 = 0 THEN x ELSE y
LastRow(p, q) == IF p = 3 THEN y ELSE x
Corner(p, q)  == IF p = 0 /\ q = 2 THEN y ELSE x
Plain(p, q)   == x

Grids == {Grid(4, 3, Stripes), Grid(4, 3, LastRow), Grid(3, 3, Corner),
          Grid(3, 3, Plain), Grid(1, 3, Stripes), Grid(2, 4, Stripes),
          Grid(0, 0, Plain)}

=============================================================================
