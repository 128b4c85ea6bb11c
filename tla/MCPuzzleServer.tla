--------------------------- MODULE MCPuzzleServer ---------------------------
(* Instances of PuzzleServer for TLC. *)
EXTENDS PuzzleServer

CONSTANTS c1, c2, c3, c4

One == {c1}
Two == {c1, c2}
Three == {c1, c2, c3}
Four == {c1, c2, c3, c4}
None == {}

AllCommands == Moves \cup {"board", "other", "long"}
OtherCommand == {"other"}
FewCommands == {"left", "other"}

=============================================================================
