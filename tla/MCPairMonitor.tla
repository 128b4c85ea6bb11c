--------------------------- MODULE MCPairMonitor ---------------------------
(* Instances of PairMonitor for TLC. *)
EXTENDS PairMonitor, TLC

CONSTANTS homer, bart

Two == {homer, bart}

Symmetry == Permutations(Threads)

=============================================================================
