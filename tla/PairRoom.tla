------------------------------ MODULE PairRoom ------------------------------
(***************************************************************************)
(* What pairMonitor.h promises: a room for Capacity pairs.  Threads enter  *)
(* it two at a time, and a pair leaves it when both have called leave().   *)
(***************************************************************************)
EXTENDS Naturals, FiniteSets

CONSTANTS Threads, Capacity

VARIABLES pairs,    \* the pairs in the room
          leavers   \* the threads in it that have called leave()

Inside == UNION pairs

Init == pairs = {} /\ leavers = {}

EnterTogether(p, q) ==
  /\ p # q /\ {p, q} \cap Inside = {}
  /\ Cardinality(pairs) < Capacity
  /\ pairs' = pairs \cup {{p, q}}
  /\ UNCHANGED leavers

CallLeave(p) ==
  /\ p \in Inside \ leavers
  /\ leavers' = leavers \cup {p}
  /\ UNCHANGED pairs

LeaveTogether(pair) ==
  /\ pair \in pairs /\ pair \subseteq leavers
  /\ pairs' = pairs \ {pair}
  /\ leavers' = leavers \ pair

Next == \/ \E p, q \in Threads : EnterTogether(p, q)
        \/ \E p \in Threads : CallLeave(p)
        \/ \E pair \in pairs : LeaveTogether(pair)

Spec == Init /\ [][Next]_<<pairs, leavers>>

=============================================================================
