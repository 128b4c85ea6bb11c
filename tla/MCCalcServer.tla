---------------------------- MODULE MCCalcServer ----------------------------
(* Instances of CalcServer for TLC. *)
EXTENDS CalcServer

Letter(op, v, w) == [op |-> op, v |-> v, w |-> w, number |-> FALSE]
Number(op, v, n) == [op |-> op, v |-> v, w |-> n, number |-> TRUE]

(* Two locks in both orders, one lock twice, a number that posts the other *)
(* semaphore, every operation, and the way to the value that traps.        *)
SomeRequests ==
  {Number("print", 0, 0), Number("set", 1, -2), Number("subtract", 0, 1),
   Letter("set", 0, 1), Letter("add", 0, 0), Letter("multiply", 0, 1), Letter("divide", 1, 0)}

=============================================================================
