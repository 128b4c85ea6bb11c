--------------------------- MODULE PairRoomProofs ---------------------------
(***************************************************************************)
(* Two threads whose calls do not overlap, as in driver1.c, use the        *)
(* monitor as the room that PairRoom describes, for any capacity and any   *)
(* number of visits.  They only ever use pair 0, and the proof follows     *)
(* them through it: the first one comes and sleeps, the second one comes   *)
(* past the mutex and wakes it, both are inside, one of them leaves and    *)
(* sleeps, the other one wakes it and both empty the pair.                 *)
(***************************************************************************)
EXTENDS PairMonitorProofs, FiniteSetTheorems

Driver1(p, q) ==
  /\ p # q /\ Threads = {p, q}
  /\ Staggered /\ ~Terminates /\ ~Spurious

-----------------------------------------------------------------------------
(* Pair 0, and the rest of the list *)

Waits     == waiting[0]
Leaves    == leaving[0]
Name0     == name[0][0]
Name1     == name[0][1]
InWaiting == waitingPartner[0]
InLeaving == leavingPartner[0]

Unused(i) ==
  /\ name[i][0] = NoName /\ name[i][1] = NoName
  /\ waitingPartner[i] = {} /\ leavingPartner[i] = {}

Rest ==
  /\ running /\ main = -1
  /\ \A t \in Threads : idx[t] = 0
  /\ \A i \in Slots \ {0} : Unused(i)

-----------------------------------------------------------------------------
(* The way of the two threads through the pair *)

(* The other thread is out, or in a leave() that nobody will end.          *)
Away(q) ==
  \/ pc[q] = "out" /\ ~Leaves /\ InLeaving = {}
  \/ pc[q] = "asleep" /\ op[q] = "leave" /\ Leaves /\ InLeaving = {q}

Empty(p, q) ==
  /\ pc[p] = "out" /\ pc[q] = "out"
  /\ first /\ ~mutex /\ ~Waits /\ ~Leaves
  /\ Name0 = NoName /\ Name1 = NoName /\ InWaiting = {} /\ InLeaving = {}

FirstComes(p, q) ==
  /\ op[p] = "enter"
  /\ pc[p] \in {"gate", "close", "lock", "find", "name0", "name1", "running", "wait1", "full1a",
                "come", "come_name", "sleep", "asleep"}
  /\ first <=> pc[p] \in {"gate", "close"}
  /\ mutex <=> pc[p] \notin {"gate", "close", "lock", "asleep"}
  /\ Waits <=> pc[p] \in {"come_name", "sleep", "asleep"}
  /\ Name0 = (IF pc[p] \in {"sleep", "asleep"} THEN p ELSE NoName) /\ Name1 = NoName
  /\ InWaiting = (IF pc[p] = "asleep" THEN {p} ELSE {})
  /\ Away(q)

SecondComes(p, q) ==
  /\ op[p] = "enter" /\ pc[p] = "asleep" /\ InWaiting = {p}
  /\ op[q] = "enter"
  /\ pc[q] \in {"gate", "open", "find", "running", "wait1", "wait2", "full2a", "full2b", "join",
                "join_name", "signal"}
  /\ first <=> pc[q] \notin {"gate", "open"}
  /\ ~mutex /\ ~Leaves /\ InLeaving = {}
  /\ Waits <=> pc[q] \notin {"join_name", "signal"}
  /\ Name0 = p /\ Name1 = (IF pc[q] = "signal" THEN q ELSE NoName)

Paired(p, q) ==
  /\ op[p] = "enter" /\ pc[p] \in {"asleep", "wait1", "full1a", "full1b", "wait2", "in"}
  /\ op[q] = "enter" /\ pc[q] \in {"unlock", "wait2", "in"}
  /\ pc[p] = "asleep" => ~mutex
  /\ first /\ ~Waits /\ ~Leaves
  /\ Name0 = p /\ Name1 = q /\ InWaiting = {} /\ InLeaving = {}

Named(p, q) == \/ Name0 = p /\ Name1 = q
               \/ Name0 = q /\ Name1 = p

FirstLeaves(p, q) ==
  /\ op[p] = "leave"
  /\ pc[p] \in {"gate", "close", "lock", "find", "name1", "leaving", "go", "sleep", "asleep"}
  /\ op[q] = "enter" /\ pc[q] = "in"
  /\ first <=> pc[p] \in {"gate", "close"}
  /\ ~Waits /\ InWaiting = {}
  /\ Leaves <=> pc[p] \in {"sleep", "asleep"}
  /\ InLeaving = (IF pc[p] = "asleep" THEN {p} ELSE {})
  /\ Named(p, q) /\ (pc[p] = "name1" => Name1 = p)

(* The mutex was never unlocked after enter(): the first one to leave has  *)
(* to wait for it, and the second one passes it.                           *)
Overtakes(p, q) ==
  /\ op[p] = "leave" /\ pc[p] = "lock" /\ mutex
  /\ op[q] = "leave" /\ pc[q] \in {"gate", "open", "find", "name1", "leaving", "go", "sleep"}
  /\ first <=> pc[q] \notin {"gate", "open"}
  /\ ~Waits /\ InWaiting = {}
  /\ Leaves <=> pc[q] = "sleep"
  /\ InLeaving = {}
  /\ Named(p, q) /\ (pc[q] = "name1" => Name1 = q)

SecondLeaves(p, q) ==
  /\ op[p] = "leave" /\ pc[p] = "asleep" /\ Leaves /\ InLeaving = {p}
  /\ op[q] = "leave" /\ pc[q] \in {"gate", "open", "lock", "find", "name1", "leaving", "signal"}
  /\ first <=> pc[q] \notin {"gate", "open"}
  /\ ~Waits /\ InWaiting = {}
  /\ Named(p, q) /\ (pc[q] = "name1" => Name1 = q)

Cleared == {"unlock", "unlock_again", "reset1", "reset2", "out"}
Ending  == {"clear0", "clear1"} \cup Cleared

Part(p, q) ==
  /\ op[p] = "leave" /\ pc[p] \in {"asleep", "leaving", "signal"} \cup Ending
  /\ op[q] = "leave" /\ pc[q] \in Ending
  /\ first /\ ~Waits /\ InWaiting = {} /\ InLeaving = {}
  /\ mutex => \/ pc[p] \in {"leaving", "signal", "clear0", "clear1", "unlock"}
              \/ pc[q] \in {"clear0", "clear1", "unlock"}
  /\ Leaves <=> pc[p] \notin {"reset2", "out"} /\ pc[q] \notin {"reset2", "out"}
  /\ Name0 # NoName => /\ pc[p] \in {"asleep", "leaving", "signal", "clear0"} /\ pc[q] = "clear0"
                       /\ Named(p, q)
  /\ pc[p] \in Cleared \/ pc[q] \in Cleared => Name1 = NoName

(* The one that was woken finds that the other has reset the pair.         *)
Stuck(p, q) ==
  /\ op[p] = "leave" /\ pc[p] \in {"go", "sleep", "asleep"}
  /\ op[q] = "leave" /\ pc[q] \in {"reset2", "out"}
  /\ pc[p] = "asleep" => ~mutex
  /\ first /\ ~Waits /\ InWaiting = {}
  /\ Leaves <=> pc[p] # "go"
  /\ InLeaving = (IF pc[p] = "asleep" THEN {p} ELSE {})
  /\ Name0 = NoName /\ Name1 = NoName

Way(p, q) ==
  \/ Empty(p, q) \/ FirstComes(p, q) \/ SecondComes(p, q) \/ Paired(p, q)
  \/ FirstLeaves(p, q) \/ Overtakes(p, q) \/ SecondLeaves(p, q) \/ Part(p, q) \/ Stuck(p, q)

RoomInv(p, q) == Rest /\ (Way(p, q) \/ Way(q, p))

-----------------------------------------------------------------------------
(* What a step of a thread does to pair 0                                  *)

KeepFirst == first' = first
KeepMutex == mutex' = mutex
KeepMarks == Waits' = Waits /\ Leaves' = Leaves
KeepNames == Name0' = Name0 /\ Name1' = Name1
KeepConds == InWaiting' = InWaiting /\ InLeaving' = InLeaving

KeepPair == KeepMarks /\ KeepNames /\ KeepConds
KeepAll  == KeepFirst /\ KeepMutex /\ KeepPair

(* In none of these states does a search go past pair 0, and nobody is     *)
(* refused or lost.                                                        *)
Finds(t) ==
  /\ pc[t] \notin {"refuse", "wild", "done"}
  /\ pc[t] = "name0" => Name0 = NoName
  /\ pc[t] = "name1" => IF op[t] = "enter" THEN Name1 = NoName ELSE Name1 = t

GateDone(t) ==
  /\ pc[t] = "gate" => Goto(t, IF first THEN "close" ELSE "open") /\ KeepAll
  /\ pc[t] = "close" => Goto(t, "lock") /\ ~first' /\ KeepMutex /\ KeepPair
  /\ pc[t] = "open" => Goto(t, "find") /\ first' /\ KeepMutex /\ KeepPair
  /\ pc[t] = "lock" => Goto(t, "find") /\ ~mutex /\ mutex' /\ KeepFirst /\ KeepPair

EnterDone(t) ==
  /\ pc[t] = "find" => Goto(t, IF Waits THEN "running" ELSE "name0") /\ KeepAll
  /\ pc[t] = "name0" => Goto(t, "name1") /\ KeepAll
  /\ pc[t] = "name1" => Goto(t, "running") /\ KeepAll
  /\ pc[t] = "running" => Goto(t, "wait1") /\ KeepAll
  /\ pc[t] = "wait1" => Goto(t, IF Waits THEN "wait2" ELSE "full1a") /\ KeepAll
  /\ pc[t] = "wait2" => Goto(t, IF Waits THEN "full2a" ELSE "in") /\ KeepAll
  /\ pc[t] = "full1a" => Goto(t, IF Name0 # NoName THEN "full1b" ELSE "come") /\ KeepAll
  /\ pc[t] = "full1b" => Goto(t, IF Name1 # NoName THEN "wait2" ELSE "come") /\ KeepAll
  /\ pc[t] = "full2a" => Goto(t, IF Name0 # NoName THEN "full2b" ELSE "join") /\ KeepAll
  /\ pc[t] = "full2b" => Goto(t, IF Name1 # NoName THEN "in" ELSE "join") /\ KeepAll
  /\ pc[t] = "come" => /\ Goto(t, "come_name") /\ Waits' /\ Leaves' = Leaves
                       /\ KeepFirst /\ KeepMutex /\ KeepNames /\ KeepConds
  /\ pc[t] = "join" => /\ Goto(t, "join_name") /\ ~Waits' /\ Leaves' = Leaves
                       /\ KeepFirst /\ KeepMutex /\ KeepNames /\ KeepConds
  /\ pc[t] = "come_name" => /\ Goto(t, "sleep") /\ Name0' = t /\ Name1' = Name1
                            /\ KeepFirst /\ KeepMutex /\ KeepMarks /\ KeepConds
  /\ pc[t] = "join_name" => /\ Goto(t, "signal") /\ Name1' = t /\ Name0' = Name0
                            /\ KeepFirst /\ KeepMutex /\ KeepMarks /\ KeepConds
  /\ pc[t] = "unlock" => Goto(t, "wait2") /\ ~mutex' /\ KeepFirst /\ KeepPair
  /\ pc[t] = "sleep" => /\ Goto(t, "asleep") /\ ~mutex'
                        /\ InWaiting' = InWaiting \cup {t} /\ InLeaving' = InLeaving
                        /\ KeepFirst /\ KeepMarks /\ KeepNames
  /\ pc[t] = "asleep" => /\ Goto(t, "wait1") /\ t \notin InWaiting /\ ~mutex /\ mutex'
                         /\ KeepFirst /\ KeepPair
  /\ pc[t] = "signal" => /\ Goto(t, "unlock")
                         /\ \/ InWaiting = {} /\ InWaiting' = {}
                            \/ \E s \in InWaiting : InWaiting' = InWaiting \ {s}
                         /\ InLeaving' = InLeaving
                         /\ KeepFirst /\ KeepMutex /\ KeepMarks /\ KeepNames

LeaveDone(t) ==
  /\ pc[t] = "find" => Goto(t, IF Name0 = t THEN "leaving" ELSE "name1") /\ KeepAll
  /\ pc[t] = "name1" => Goto(t, "leaving") /\ KeepAll
  /\ pc[t] = "leaving" => Goto(t, IF Leaves THEN "signal" ELSE "go") /\ KeepAll
  /\ pc[t] = "go" => /\ Goto(t, "sleep") /\ Leaves' /\ Waits' = Waits
                     /\ KeepFirst /\ KeepMutex /\ KeepNames /\ KeepConds
  /\ pc[t] = "sleep" => /\ Goto(t, "asleep") /\ ~mutex'
                        /\ InLeaving' = InLeaving \cup {t} /\ InWaiting' = InWaiting
                        /\ KeepFirst /\ KeepMarks /\ KeepNames
  /\ pc[t] = "asleep" => /\ Goto(t, "leaving") /\ t \notin InLeaving /\ ~mutex /\ mutex'
                         /\ KeepFirst /\ KeepPair
  /\ pc[t] = "signal" => /\ Goto(t, "clear0")
                         /\ \/ InLeaving = {} /\ InLeaving' = {}
                            \/ \E s \in InLeaving : InLeaving' = InLeaving \ {s}
                         /\ InWaiting' = InWaiting
                         /\ KeepFirst /\ KeepMutex /\ KeepMarks /\ KeepNames
  /\ pc[t] = "clear0" => /\ Goto(t, "clear1") /\ Name0' = NoName /\ Name1' = Name1
                         /\ KeepFirst /\ KeepMutex /\ KeepMarks /\ KeepConds
  /\ pc[t] = "clear1" => /\ Goto(t, "unlock") /\ Name1' = NoName /\ Name0' = Name0
                         /\ KeepFirst /\ KeepMutex /\ KeepMarks /\ KeepConds
  /\ pc[t] = "unlock" => Goto(t, "unlock_again") /\ ~mutex' /\ KeepFirst /\ KeepPair
  /\ pc[t] = "unlock_again" => Goto(t, "reset1") /\ ~mutex' /\ KeepFirst /\ KeepPair
  /\ pc[t] = "reset1" => /\ Goto(t, "reset2") /\ ~Leaves' /\ Waits' = Waits
                         /\ KeepFirst /\ KeepMutex /\ KeepNames /\ KeepConds
  /\ pc[t] = "reset2" => /\ Goto(t, "out") /\ ~Waits' /\ Leaves' = Leaves
                         /\ KeepFirst /\ KeepMutex /\ KeepNames /\ KeepConds

Did(t) ==
  /\ pc[t] \notin {"in", "out"}
  /\ op' = op /\ idx' = idx /\ running' = running /\ main' = main
  /\ \A i \in Slots \ {0} : Unused(i) => Unused(i)'
  /\ GateDone(t)
  /\ op[t] = "enter" => EnterDone(t)
  /\ op[t] = "leave" => LeaveDone(t)

(* The steps that only read.                                               *)
LEMMA SharedSame ==
  ASSUME UNCHANGED <<sharedVars, main>>
  PROVE  KeepAll /\ running' = running /\ main' = main /\ \A i \in Slots \ {0} : Unused(i) => Unused(i)'
BY DEF sharedVars, pairVars, condVars, KeepAll, KeepFirst, KeepMutex, KeepPair, KeepMarks, KeepNames,
   KeepConds, Waits, Leaves, Name0, Name1, InWaiting, InLeaving, Unused

LEMMA ReadsDo ==
  ASSUME Typed, Rest, NEW t \in Threads, Finds(t),
         \/ ReadFirst(t) \/ FindAvailable(t) \/ CheckRunning(t) \/ ReadWaiting(t) \/ ReadNames(t)
         \/ FindThread(t) \/ ReadLeaving(t)
  PROVE  Did(t)
<1>1. UNCHANGED <<sharedVars, main>> /\ op' = op
  BY DEF ReadFirst, FindAvailable, CheckRunning, ReadWaiting, ReadNames, FindThread, ReadLeaving
<1>2. KeepAll /\ running' = running /\ main' = main /\ \A i \in Slots \ {0} : Unused(i) => Unused(i)'
  BY <1>1, SharedSame
<1>3. idx[t] = 0 /\ ~Missed(t) /\ running
  <2>1. idx[t] = 0 /\ 0 # Capacity
    BY MonitorConstants DEF Rest, MonitorConstants
  <2> QED  BY <2>1 DEF Missed, Rest
<1>4. Fits(t)
  BY DEF Typed
<1> HIDE DEF KeepAll
<1>5. CASE ReadFirst(t)
  BY <1>1, <1>2, <1>5 DEF ReadFirst, Did, GateDone, EnterDone, LeaveDone
<1>6. CASE FindAvailable(t)
  <2>1. op[t] = "enter" /\ idx' = idx
        /\ \/ pc[t] = "find" /\ Goto(t, IF Waits THEN "running" ELSE "name0")
           \/ pc[t] = "name0" /\ Goto(t, "name1")
           \/ pc[t] = "name1" /\ Goto(t, "running")
    BY <1>3, <1>6 DEF FindAvailable, Finds, Waits, Name0, Name1
  <2> QED  BY <1>1, <1>2, <2>1 DEF Did, GateDone, EnterDone, LeaveDone
<1>7. CASE CheckRunning(t)
  <2>1. idx' = idx /\ pc[t] = "running" /\ Goto(t, "wait1")
    BY <1>3, <1>7 DEF CheckRunning
  <2>2. op[t] = "enter"
    BY <1>4, <2>1 DEF Fits, EnterOnly
  <2> QED  BY <1>1, <1>2, <2>1, <2>2 DEF Did, GateDone, EnterDone, LeaveDone
<1>8. CASE ReadWaiting(t) \/ ReadNames(t)
  <2>1. /\ idx' = idx
        /\ \/ pc[t] = "wait1" /\ Goto(t, IF Waits THEN "wait2" ELSE "full1a")
           \/ pc[t] = "wait2" /\ Goto(t, IF Waits THEN "full2a" ELSE "in")
           \/ pc[t] = "full1a" /\ Goto(t, IF Name0 # NoName THEN "full1b" ELSE "come")
           \/ pc[t] = "full1b" /\ Goto(t, IF Name1 # NoName THEN "wait2" ELSE "come")
           \/ pc[t] = "full2a" /\ Goto(t, IF Name0 # NoName THEN "full2b" ELSE "join")
           \/ pc[t] = "full2b" /\ Goto(t, IF Name1 # NoName THEN "in" ELSE "join")
    BY <1>3, <1>8 DEF ReadWaiting, ReadNames, Waits, Name0, Name1
  <2>2. op[t] = "enter"
    BY <1>4, <2>1 DEF Fits, EnterOnly
  <2> QED  BY <1>1, <1>2, <2>1, <2>2 DEF Did, GateDone, EnterDone, LeaveDone
<1>9. CASE FindThread(t)
  <2>1. op[t] = "leave" /\ idx' = idx
        /\ \/ pc[t] = "find" /\ Goto(t, IF Name0 = t THEN "leaving" ELSE "name1")
           \/ pc[t] = "name1" /\ Goto(t, "leaving")
    BY <1>3, <1>9 DEF FindThread, Finds, Name0, Name1
  <2> QED  BY <1>1, <1>2, <2>1 DEF Did, GateDone, EnterDone, LeaveDone
<1>10. CASE ReadLeaving(t)
  <2>1. idx' = idx /\ pc[t] = "leaving" /\ Goto(t, IF Leaves THEN "signal" ELSE "go")
    BY <1>3, <1>10 DEF ReadLeaving, Leaves
  <2>2. op[t] = "leave"
    BY <1>4, <2>1 DEF Fits, LeaveOnly
  <2> QED  BY <1>1, <1>2, <2>1, <2>2 DEF Did, GateDone, EnterDone, LeaveDone
<1> QED  BY <1>5, <1>6, <1>7, <1>8, <1>9, <1>10

(* The steps that write a flag, the mutex, or a mark of the pair.          *)
LEMMA FlagsDo ==
  ASSUME Typed, Rest, NEW t \in Threads, Finds(t),
         \/ WriteFirst(t) \/ Lock(t) \/ Refuse(t) \/ EnterUnlock(t) \/ LeaveUnlock(t) \/ Wake(t)
  PROVE  Did(t)
<1>1. /\ UNCHANGED <<running, pairVars, condVars, op, idx, main>>
      /\ pc[t] # "refuse"
  BY DEF WriteFirst, Lock, Refuse, EnterUnlock, LeaveUnlock, Wake, Finds
<1>2. /\ KeepPair /\ running' = running /\ main' = main /\ op' = op /\ idx' = idx
      /\ \A i \in Slots \ {0} : Unused(i) => Unused(i)'
  BY <1>1 DEF pairVars, condVars, KeepPair, KeepMarks, KeepNames, KeepConds, Waits, Leaves, Name0,
     Name1, InWaiting, InLeaving, Unused
<1>3. op[t] \in {"enter", "leave"} /\ (pc[t] = "unlock_again" => op[t] = "leave")
  BY DEF Typed, Fits, LeaveOnly
<1> HIDE DEF KeepPair
<1>4. CASE WriteFirst(t) \/ Lock(t)
  <2>1. \/ pc[t] = "close" /\ Goto(t, "lock") /\ ~first' /\ KeepMutex
        \/ pc[t] = "open" /\ Goto(t, "find") /\ first' /\ KeepMutex
        \/ pc[t] = "lock" /\ Goto(t, "find") /\ ~mutex /\ mutex' /\ KeepFirst
    BY <1>4 DEF WriteFirst, Lock, KeepMutex, KeepFirst
  <2> QED  BY <1>2, <2>1 DEF Did, GateDone, EnterDone, LeaveDone
<1>5. CASE EnterUnlock(t) \/ LeaveUnlock(t)
  <2>1. /\ ~mutex' /\ KeepFirst
        /\ \/ pc[t] = "unlock" /\ op[t] = "enter" /\ Goto(t, "wait2")
           \/ pc[t] = "unlock" /\ op[t] = "leave" /\ Goto(t, "unlock_again")
           \/ pc[t] = "unlock_again" /\ Goto(t, "reset1")
    BY <1>5 DEF EnterUnlock, LeaveUnlock, KeepFirst
  <2> QED  BY <1>2, <1>3, <2>1 DEF Did, GateDone, EnterDone, LeaveDone
<1>6. CASE Wake(t)
  <2>1. 0 \in Slots
    BY MonitorConstants DEF MonitorConstants, Slots
  <2>2. /\ ~mutex /\ mutex' /\ KeepFirst /\ pc[t] = "asleep"
        /\ t \notin InWaiting /\ t \notin InLeaving
        /\ Goto(t, IF op[t] = "enter" THEN "wait1" ELSE "leaving")
    BY <1>6, <2>1 DEF Wake, KeepFirst, Signalled, InWaiting, InLeaving
  <2> QED  BY <1>2, <1>3, <2>2 DEF Did, GateDone, EnterDone, LeaveDone
<1>7. ~Refuse(t)
  BY <1>1 DEF Refuse
<1> QED  BY <1>4, <1>5, <1>6, <1>7

LEMMA MarksDo ==
  ASSUME Typed, Rest, NEW t \in Threads, WriteWaiting(t) \/ WriteLeaving(t) \/ ResetWaiting(t)
  PROVE  Did(t)
<1>1. UNCHANGED <<first, running, mutex, name, condVars, op, idx, main>>
  BY DEF WriteWaiting, WriteLeaving, ResetWaiting
<1>2. /\ KeepFirst /\ KeepMutex /\ KeepNames /\ KeepConds
      /\ running' = running /\ main' = main /\ op' = op /\ idx' = idx
      /\ \A i \in Slots \ {0} : Unused(i) => Unused(i)'
  BY <1>1 DEF condVars, KeepFirst, KeepMutex, KeepNames, KeepConds, Name0, Name1, InWaiting,
     InLeaving, Unused
<1> HIDE DEF KeepFirst, KeepMutex, KeepNames, KeepConds
<1>3. 0 \in Slots /\ idx[t] = 0 /\ waiting \in [Slots -> BOOLEAN] /\ leaving \in [Slots -> BOOLEAN]
  BY MonitorConstants DEF MonitorConstants, Slots, Rest, Typed, Data
<1>4. Fits(t)
  BY DEF Typed
<1>5. CASE WriteWaiting(t)
  <2>1. /\ Leaves' = Leaves
        /\ \/ pc[t] = "come" /\ Goto(t, "come_name") /\ Waits'
           \/ pc[t] = "join" /\ Goto(t, "join_name") /\ ~Waits'
    BY <1>3, <1>5 DEF WriteWaiting, Waits, Leaves
  <2>2. op[t] = "enter"
    BY <1>4, <2>1 DEF Fits, EnterOnly
  <2> QED  BY <1>2, <2>1, <2>2 DEF Did, GateDone, EnterDone, LeaveDone
<1>6. CASE WriteLeaving(t) \/ ResetWaiting(t)
  <2>1. \/ pc[t] = "go" /\ Goto(t, "sleep") /\ Leaves' /\ Waits' = Waits
        \/ pc[t] = "reset1" /\ Goto(t, "reset2") /\ ~Leaves' /\ Waits' = Waits
        \/ pc[t] = "reset2" /\ Goto(t, "out") /\ ~Waits' /\ Leaves' = Leaves
    BY <1>3, <1>6 DEF WriteLeaving, ResetWaiting, Waits, Leaves
  <2>2. op[t] = "leave"
    BY <1>4, <2>1 DEF Fits, LeaveOnly
  <2> QED  BY <1>2, <2>1, <2>2 DEF Did, GateDone, EnterDone, LeaveDone
<1> QED  BY <1>5, <1>6

(* A write of a name into pair 0 leaves the other name and the other pairs.*)
LEMMA NamePut ==
  ASSUME Typed, NEW k \in 0 .. 1, NEW x, name' = [name EXCEPT ![0][k] = x]
  PROVE  /\ Name0' = (IF k = 0 THEN x ELSE Name0)
         /\ Name1' = (IF k = 1 THEN x ELSE Name1)
         /\ \A i \in Slots \ {0} : name'[i][0] = name[i][0] /\ name'[i][1] = name[i][1]
<1>1. name \in [Slots -> [0 .. 1 -> Threads \cup {NoName}]] /\ 0 \in Slots
  BY MonitorConstants DEF MonitorConstants, Slots, Typed, Data
<1>2. 0 \in 0 .. 1 /\ 1 \in 0 .. 1 /\ 0 # 1
  OBVIOUS
<1>3. ASSUME NEW i \in Slots, NEW m \in 0 .. 1
      PROVE  name'[i][m] = IF i = 0 /\ m = k THEN x ELSE name[i][m]
  BY <1>1, Put
<1> QED  BY <1>1, <1>2, <1>3 DEF Name0, Name1

LEMMA NamesDo ==
  ASSUME Typed, Rest, NEW t \in Threads, WriteName(t) \/ ClearName(t)
  PROVE  Did(t)
<1>1. UNCHANGED <<first, running, mutex, waiting, leaving, condVars, op, idx, main>>
  BY DEF WriteName, ClearName
<1>2. /\ KeepFirst /\ KeepMutex /\ KeepMarks /\ KeepConds
      /\ running' = running /\ main' = main /\ op' = op /\ idx' = idx
  BY <1>1 DEF condVars, KeepFirst, KeepMutex, KeepMarks, KeepConds, Waits, Leaves, InWaiting, InLeaving
<1>3. \/ /\ pc[t] = "come_name" /\ Goto(t, "sleep") /\ name' = [name EXCEPT ![0][0] = t]
      \/ /\ pc[t] = "join_name" /\ Goto(t, "signal") /\ name' = [name EXCEPT ![0][1] = t]
      \/ /\ pc[t] = "clear0" /\ Goto(t, "clear1") /\ name' = [name EXCEPT ![0][0] = NoName]
      \/ /\ pc[t] = "clear1" /\ Goto(t, "unlock") /\ name' = [name EXCEPT ![0][1] = NoName]
  <2>1. idx[t] = 0
    BY DEF Rest
  <2> QED  BY <2>1 DEF WriteName, ClearName
<1>4. 0 \in 0 .. 1 /\ 1 \in 0 .. 1 /\ 0 # 1
  OBVIOUS
<1>5. \/ /\ pc[t] = "come_name" /\ Goto(t, "sleep") /\ Name0' = t /\ Name1' = Name1
      \/ /\ pc[t] = "join_name" /\ Goto(t, "signal") /\ Name1' = t /\ Name0' = Name0
      \/ /\ pc[t] = "clear0" /\ Goto(t, "clear1") /\ Name0' = NoName /\ Name1' = Name1
      \/ /\ pc[t] = "clear1" /\ Goto(t, "unlock") /\ Name1' = NoName /\ Name0' = Name0
  BY <1>3, <1>4, NamePut
<1>6. \A i \in Slots \ {0} : name'[i][0] = name[i][0] /\ name'[i][1] = name[i][1]
  BY <1>3, <1>4, NamePut
<1>7. \A i \in Slots \ {0} : Unused(i) => Unused(i)'
  BY <1>1, <1>6 DEF Unused, condVars
<1> HIDE DEF KeepFirst, KeepMutex, KeepMarks, KeepConds
<1>8. IF pc[t] \in {"come_name", "join_name"} THEN op[t] = "enter" ELSE op[t] = "leave"
  BY <1>5 DEF Typed, Fits, EnterOnly, LeaveOnly
<1> QED  BY <1>2, <1>5, <1>7, <1>8 DEF Did, GateDone, EnterDone, LeaveDone

LEMMA CondsDo ==
  ASSUME Typed, Rest, NEW t \in Threads, Sleep(t) \/ Signal(t)
  PROVE  Did(t)
<1>1. UNCHANGED <<first, running, pairVars, op, idx, main>>
  BY DEF Sleep, Signal
<1>2. /\ KeepFirst /\ KeepMarks /\ KeepNames
      /\ running' = running /\ main' = main /\ op' = op /\ idx' = idx
      /\ \A i \in Slots : name'[i] = name[i]
  BY <1>1 DEF pairVars, KeepFirst, KeepMarks, KeepNames, Waits, Leaves, Name0, Name1
<1>3. /\ 0 \in Slots /\ idx[t] = 0 /\ op[t] \in {"enter", "leave"}
      /\ waitingPartner \in [Slots -> SUBSET Threads] /\ leavingPartner \in [Slots -> SUBSET Threads]
  BY MonitorConstants DEF MonitorConstants, Slots, Rest, Typed, Data, Control
<1> HIDE DEF KeepFirst, KeepMarks, KeepNames
<1>4. CASE Sleep(t)
  <2>1. /\ pc[t] = "sleep" /\ Goto(t, "asleep") /\ ~mutex'
        /\ IF op[t] = "enter"
           THEN InWaiting' = InWaiting \cup {t} /\ InLeaving' = InLeaving
           ELSE InLeaving' = InLeaving \cup {t} /\ InWaiting' = InWaiting
        /\ \A i \in Slots \ {0} : /\ waitingPartner'[i] = waitingPartner[i]
                                  /\ leavingPartner'[i] = leavingPartner[i]
    BY <1>3, <1>4 DEF Sleep, InWaiting, InLeaving
  <2>2. \A i \in Slots \ {0} : Unused(i) => Unused(i)'
    BY <1>2, <2>1 DEF Unused
  <2> QED  BY <1>2, <1>3, <2>1, <2>2 DEF Did, GateDone, EnterDone, LeaveDone
<1>5. CASE Signal(t)
  <2>1. /\ pc[t] = "signal" /\ KeepMutex
        /\ IF op[t] = "enter" THEN SignalWaiting(0) /\ Goto(t, "unlock")
                              ELSE SignalLeaving(0) /\ Goto(t, "clear0")
    BY <1>3, <1>5 DEF Signal, KeepMutex
  <2>2. ASSUME SignalWaiting(0)
        PROVE  /\ \/ InWaiting = {} /\ InWaiting' = {}
                  \/ \E s \in InWaiting : InWaiting' = InWaiting \ {s}
               /\ InLeaving' = InLeaving
               /\ \A i \in Slots \ {0} : /\ waitingPartner'[i] = waitingPartner[i]
                                         /\ leavingPartner'[i] = leavingPartner[i]
    BY <1>3, <2>2 DEF SignalWaiting, InWaiting, InLeaving
  <2>3. ASSUME SignalLeaving(0)
        PROVE  /\ \/ InLeaving = {} /\ InLeaving' = {}
                  \/ \E s \in InLeaving : InLeaving' = InLeaving \ {s}
               /\ InWaiting' = InWaiting
               /\ \A i \in Slots \ {0} : /\ waitingPartner'[i] = waitingPartner[i]
                                         /\ leavingPartner'[i] = leavingPartner[i]
    BY <1>3, <2>3 DEF SignalLeaving, InWaiting, InLeaving
  <2>4. \A i \in Slots \ {0} : Unused(i) => Unused(i)'
    <3>1. \A i \in Slots \ {0} : /\ waitingPartner'[i] = waitingPartner[i]
                                 /\ leavingPartner'[i] = leavingPartner[i]
      BY <2>1, <2>2, <2>3
    <3> QED  BY <1>2, <3>1 DEF Unused
  <2>5. CASE op[t] = "enter"
    BY <1>2, <2>1, <2>2, <2>4, <2>5 DEF Did, GateDone, EnterDone, LeaveDone
  <2>6. CASE op[t] = "leave"
    BY <1>2, <2>1, <2>3, <2>4, <2>6 DEF Did, GateDone, EnterDone, LeaveDone
  <2> QED  BY <1>3, <2>5, <2>6
<1> QED  BY <1>4, <1>5

LEMMA StepDid ==
  ASSUME Typed, Rest, NEW t \in Threads, Finds(t), Step(t)
  PROVE  Did(t)
BY ReadsDo, FlagsDo, MarksDo, NamesDo, CondsDo DEF Step

-----------------------------------------------------------------------------
(* The steps of the two threads, from one stretch of their way to the next *)

LEMMA Arrives ==
  ASSUME NEW t \in Threads, DOMAIN pc = Threads
  PROVE  \A x : Goto(t, x) => pc'[t] = x
BY DEF Goto

LEMMA FirstComesStep ==
  ASSUME NEW p \in Threads, NEW q \in Threads, p # q, DOMAIN pc = Threads, FirstComes(p, q),
         Did(p), Alone(p)
  PROVE  FirstComes(p, q)'
<1> USE DEF KeepFirst, KeepMutex, KeepMarks, KeepNames, KeepConds, KeepPair, KeepAll
<1>1. p # NoName
  BY MonitorConstants DEF MonitorConstants
<1>2. op'[p] = "enter" /\ op'[q] = op[q] /\ EnterDone(p) /\ GateDone(p) /\ pc'[q] = pc[q]
  BY DEF Did, FirstComes, Alone
<1>3. \A x : Goto(p, x) => pc'[p] = x
  BY Arrives
<1>5. CASE pc[p] \in {"gate", "close", "lock"}
  BY <1>1, <1>2, <1>3, <1>5 DEF FirstComes, Away, GateDone
<1>6. CASE pc[p] \in {"find", "name0", "name1", "running"}
  BY <1>1, <1>2, <1>3, <1>6 DEF FirstComes, Away, EnterDone
<1>7. CASE pc[p] \in {"wait1", "full1a", "come"}
  BY <1>1, <1>2, <1>3, <1>7 DEF FirstComes, Away, EnterDone
<1>8. CASE pc[p] \in {"come_name", "sleep", "asleep"}
  BY <1>1, <1>2, <1>3, <1>8 DEF FirstComes, Away, EnterDone
<1> QED  BY <1>5, <1>6, <1>7, <1>8 DEF FirstComes

LEMMA SecondComesStep ==
  ASSUME NEW p \in Threads, NEW q \in Threads, p # q, DOMAIN pc = Threads, SecondComes(p, q),
         Did(q), Alone(q)
  PROVE  IF pc[q] = "signal" THEN Paired(p, q)' ELSE SecondComes(p, q)'
<1> USE DEF KeepFirst, KeepMutex, KeepMarks, KeepNames, KeepConds, KeepPair, KeepAll
<1>1. p # NoName /\ q # NoName
  BY MonitorConstants DEF MonitorConstants
<1>2. op'[q] = "enter" /\ op'[p] = "enter" /\ EnterDone(q) /\ GateDone(q) /\ pc'[p] = pc[p]
  BY DEF Did, SecondComes, Alone
<1>3. \A x : Goto(q, x) => pc'[q] = x
  BY Arrives
<1>4. CASE pc[q] \in {"gate", "open"}
  <2>1. SecondComes(p, q)'
    BY <1>1, <1>2, <1>3, <1>4 DEF SecondComes, GateDone
  <2> QED  BY <1>4, <2>1
<1>5. CASE pc[q] \in {"find", "running", "wait1", "wait2", "full2a", "full2b"}
  <2>1. SecondComes(p, q)'
    BY <1>1, <1>2, <1>3, <1>5 DEF SecondComes, EnterDone
  <2> QED  BY <1>5, <2>1
<1>6. CASE pc[q] \in {"join", "join_name"}
  <2>1. SecondComes(p, q)'
    BY <1>1, <1>2, <1>3, <1>6 DEF SecondComes, EnterDone
  <2> QED  BY <1>6, <2>1
<1>7. CASE pc[q] = "signal"
  <2>1. Paired(p, q)'
    BY <1>1, <1>2, <1>3, <1>7 DEF SecondComes, EnterDone, Paired
  <2> QED  BY <1>7, <2>1
<1> QED  BY <1>4, <1>5, <1>6, <1>7 DEF SecondComes

LEMMA PairedStepFirst ==
  ASSUME NEW p \in Threads, NEW q \in Threads, p # q, DOMAIN pc = Threads, Paired(p, q),
         Did(p), Alone(p)
  PROVE  Paired(p, q)'
<1> USE DEF KeepFirst, KeepMutex, KeepMarks, KeepNames, KeepConds, KeepPair, KeepAll
<1>1. p # NoName /\ q # NoName
  BY MonitorConstants DEF MonitorConstants
<1>2. /\ op'[p] = "enter" /\ op'[q] = "enter" /\ pc'[q] = pc[q]
      /\ GateDone(p) /\ EnterDone(p) /\ pc[p] \notin {"in", "out"}
  BY DEF Did, Paired, Alone
<1>3. \A x : Goto(p, x) => pc'[p] = x
  BY Arrives
<1>4. CASE pc[p] = "asleep"
  <2>1. pc'[p] = "wait1" /\ KeepFirst /\ KeepPair
    BY <1>1, <1>2, <1>3, <1>4 DEF EnterDone
  <2>2. Paired(p, q)'
    BY <1>1, <1>2, <1>4, <2>1 DEF Paired
  <2> QED  BY <2>2
<1>5. CASE pc[p] = "wait1"
  <2>1. pc'[p] = "full1a" /\ KeepAll
    BY <1>1, <1>2, <1>3, <1>5 DEF EnterDone, Paired
  <2>2. Paired(p, q)'
    BY <1>1, <1>2, <1>5, <2>1 DEF Paired
  <2> QED  BY <2>2
<1>6. CASE pc[p] = "full1a"
  <2>1. pc'[p] = "full1b" /\ KeepAll
    BY <1>1, <1>2, <1>3, <1>6 DEF EnterDone, Paired
  <2>2. Paired(p, q)'
    BY <1>1, <1>2, <1>6, <2>1 DEF Paired
  <2> QED  BY <2>2
<1>7. CASE pc[p] = "full1b"
  <2>1. pc'[p] = "wait2" /\ KeepAll
    BY <1>1, <1>2, <1>3, <1>7 DEF EnterDone, Paired
  <2>2. Paired(p, q)'
    BY <1>1, <1>2, <1>7, <2>1 DEF Paired
  <2> QED  BY <2>2
<1>8. CASE pc[p] = "wait2"
  <2>1. pc'[p] = "in" /\ KeepAll
    BY <1>1, <1>2, <1>3, <1>8 DEF EnterDone, Paired
  <2>2. Paired(p, q)'
    BY <1>1, <1>2, <1>8, <2>1 DEF Paired
  <2> QED  BY <2>2
<1> QED  BY <1>2, <1>4, <1>5, <1>6, <1>7, <1>8 DEF Paired

LEMMA PairedStepSecond ==
  ASSUME NEW p \in Threads, NEW q \in Threads, p # q, DOMAIN pc = Threads, Paired(p, q),
         Did(q), Alone(q)
  PROVE  Paired(p, q)'
<1> USE DEF KeepFirst, KeepMutex, KeepMarks, KeepNames, KeepConds, KeepPair, KeepAll
<1>1. p # NoName /\ q # NoName
  BY MonitorConstants DEF MonitorConstants
<1>2. /\ op'[p] = "enter" /\ op'[q] = "enter" /\ pc'[p] = pc[p]
      /\ GateDone(q) /\ EnterDone(q) /\ pc[q] \notin {"in", "out"}
  BY DEF Did, Paired, Alone
<1>3. \A x : Goto(q, x) => pc'[q] = x
  BY Arrives
<1>4. CASE pc[q] = "unlock"
  <2>1. pc'[q] = "wait2" /\ ~mutex' /\ KeepFirst /\ KeepPair
    BY <1>1, <1>2, <1>3, <1>4 DEF EnterDone
  <2>2. Paired(p, q)'
    BY <1>1, <1>2, <1>4, <2>1 DEF Paired
  <2> QED  BY <2>2
<1>5. CASE pc[q] = "wait2"
  <2>1. pc'[q] = "in" /\ KeepAll
    BY <1>1, <1>2, <1>3, <1>5 DEF EnterDone, Paired
  <2>2. Paired(p, q)'
    BY <1>1, <1>2, <1>5, <2>1 DEF Paired
  <2> QED  BY <2>2
<1> QED  BY <1>2, <1>4, <1>5 DEF Paired

LEMMA FirstLeavesStep ==
  ASSUME NEW p \in Threads, NEW q \in Threads, p # q, DOMAIN pc = Threads, FirstLeaves(p, q),
         Did(p), Alone(p)
  PROVE  FirstLeaves(p, q)'
<1> USE DEF KeepFirst, KeepMutex, KeepMarks, KeepNames, KeepConds, KeepPair, KeepAll
<1>1. p # NoName /\ q # NoName
  BY MonitorConstants DEF MonitorConstants
<1>2. /\ op'[p] = "leave" /\ op'[q] = "enter" /\ pc'[q] = pc[q]
      /\ GateDone(p) /\ LeaveDone(p) /\ pc[p] \notin {"in", "out"}
  BY DEF Did, FirstLeaves, Alone
<1>3. \A x : Goto(p, x) => pc'[p] = x
  BY Arrives
<1>4. CASE pc[p] = "gate"
  <2>1. pc'[p] = "close" /\ KeepAll
    BY <1>1, <1>2, <1>3, <1>4 DEF GateDone, FirstLeaves
  <2>2. FirstLeaves(p, q)'
    BY <1>1, <1>2, <1>4, <2>1 DEF FirstLeaves, Named
  <2> QED  BY <2>2
<1>5. CASE pc[p] = "close"
  <2>1. pc'[p] = "lock" /\ ~first' /\ KeepMutex /\ KeepPair
    BY <1>1, <1>2, <1>3, <1>5 DEF GateDone
  <2>2. FirstLeaves(p, q)'
    BY <1>1, <1>2, <1>5, <2>1 DEF FirstLeaves, Named
  <2> QED  BY <2>2
<1>6. CASE pc[p] = "lock"
  <2>1. pc'[p] = "find" /\ KeepFirst /\ KeepPair
    BY <1>1, <1>2, <1>3, <1>6 DEF GateDone
  <2>2. FirstLeaves(p, q)'
    BY <1>1, <1>2, <1>6, <2>1 DEF FirstLeaves, Named
  <2> QED  BY <2>2
<1>7. CASE pc[p] = "find"
  <2>1. pc'[p] \in {"leaving", "name1"} /\ (pc'[p] = "name1" => Name1 = p) /\ KeepAll
    BY <1>1, <1>2, <1>3, <1>7 DEF LeaveDone, FirstLeaves, Named
  <2>2. FirstLeaves(p, q)'
    BY <1>1, <1>2, <1>7, <2>1 DEF FirstLeaves, Named
  <2> QED  BY <2>2
<1>8. CASE pc[p] = "name1"
  <2>1. pc'[p] = "leaving" /\ KeepAll
    BY <1>1, <1>2, <1>3, <1>8 DEF LeaveDone
  <2>2. FirstLeaves(p, q)'
    BY <1>1, <1>2, <1>8, <2>1 DEF FirstLeaves, Named
  <2> QED  BY <2>2
<1>9. CASE pc[p] = "leaving"
  <2>1. pc'[p] = "go" /\ KeepAll
    BY <1>1, <1>2, <1>3, <1>9 DEF LeaveDone, FirstLeaves
  <2>2. FirstLeaves(p, q)'
    BY <1>1, <1>2, <1>9, <2>1 DEF FirstLeaves, Named
  <2> QED  BY <2>2
<1>10. CASE pc[p] = "go"
  <2>1. /\ pc'[p] = "sleep" /\ Leaves' /\ Waits' = Waits
        /\ KeepFirst /\ KeepMutex /\ KeepNames /\ KeepConds
    BY <1>1, <1>2, <1>3, <1>10 DEF LeaveDone
  <2>2. FirstLeaves(p, q)'
    BY <1>1, <1>2, <1>10, <2>1 DEF FirstLeaves, Named
  <2> QED  BY <2>2
<1>11. CASE pc[p] = "sleep"
  <2>1. /\ pc'[p] = "asleep" /\ InLeaving' = {p} /\ InWaiting' = InWaiting
        /\ KeepFirst /\ KeepMarks /\ KeepNames
    BY <1>1, <1>2, <1>3, <1>11 DEF LeaveDone, FirstLeaves
  <2>2. FirstLeaves(p, q)'
    BY <1>1, <1>2, <1>11, <2>1 DEF FirstLeaves, Named
  <2> QED  BY <2>2
<1>12. CASE pc[p] = "asleep"
  <2>1. FALSE
    BY <1>1, <1>2, <1>3, <1>12 DEF LeaveDone, FirstLeaves
  <2>2. FirstLeaves(p, q)'
    BY <1>1, <1>2, <1>12, <2>1 DEF FirstLeaves
  <2> QED  BY <2>2
<1> QED  BY <1>2, <1>4, <1>5, <1>6, <1>7, <1>8, <1>9, <1>10, <1>11, <1>12 DEF FirstLeaves

LEMMA OvertakesStep ==
  ASSUME NEW p \in Threads, NEW q \in Threads, p # q, DOMAIN pc = Threads, Overtakes(p, q),
         Did(q), Alone(q)
  PROVE  Overtakes(p, q)' \/ SecondLeaves(q, p)'
<1> USE DEF KeepFirst, KeepMutex, KeepMarks, KeepNames, KeepConds, KeepPair, KeepAll
<1>1. p # NoName /\ q # NoName
  BY MonitorConstants DEF MonitorConstants
<1>2. /\ op'[p] = "leave" /\ op'[q] = "leave" /\ pc'[p] = pc[p]
      /\ GateDone(q) /\ LeaveDone(q) /\ pc[q] \notin {"in", "out"}
  BY DEF Did, Overtakes, Alone
<1>3. \A x : Goto(q, x) => pc'[q] = x
  BY Arrives
<1>4. CASE pc[q] = "gate"
  <2>1. pc'[q] = "open" /\ KeepAll
    BY <1>1, <1>2, <1>3, <1>4 DEF GateDone, Overtakes
  <2>2. Overtakes(p, q)'
    BY <1>1, <1>2, <1>4, <2>1 DEF Overtakes, Named
  <2> QED  BY <2>2
<1>5. CASE pc[q] = "open"
  <2>1. pc'[q] = "find" /\ first' /\ KeepMutex /\ KeepPair
    BY <1>1, <1>2, <1>3, <1>5 DEF GateDone
  <2>2. Overtakes(p, q)'
    BY <1>1, <1>2, <1>5, <2>1 DEF Overtakes, Named
  <2> QED  BY <2>2
<1>6. CASE pc[q] = "find"
  <2>1. pc'[q] \in {"leaving", "name1"} /\ (pc'[q] = "name1" => Name1 = q) /\ KeepAll
    BY <1>1, <1>2, <1>3, <1>6 DEF LeaveDone, Overtakes, Named
  <2>2. Overtakes(p, q)'
    BY <1>1, <1>2, <1>6, <2>1 DEF Overtakes, Named
  <2> QED  BY <2>2
<1>7. CASE pc[q] = "name1"
  <2>1. pc'[q] = "leaving" /\ KeepAll
    BY <1>1, <1>2, <1>3, <1>7 DEF LeaveDone
  <2>2. Overtakes(p, q)'
    BY <1>1, <1>2, <1>7, <2>1 DEF Overtakes, Named
  <2> QED  BY <2>2
<1>8. CASE pc[q] = "leaving"
  <2>1. pc'[q] = "go" /\ KeepAll
    BY <1>1, <1>2, <1>3, <1>8 DEF LeaveDone, Overtakes
  <2>2. Overtakes(p, q)'
    BY <1>1, <1>2, <1>8, <2>1 DEF Overtakes, Named
  <2> QED  BY <2>2
<1>9. CASE pc[q] = "go"
  <2>1. /\ pc'[q] = "sleep" /\ Leaves' /\ Waits' = Waits
        /\ KeepFirst /\ KeepMutex /\ KeepNames /\ KeepConds
    BY <1>1, <1>2, <1>3, <1>9 DEF LeaveDone
  <2>2. Overtakes(p, q)'
    BY <1>1, <1>2, <1>9, <2>1 DEF Overtakes, Named
  <2> QED  BY <2>2
<1>10. CASE pc[q] = "sleep"
  <2>1. /\ pc'[q] = "asleep" /\ InLeaving' = {q} /\ InWaiting' = InWaiting
        /\ KeepFirst /\ KeepMarks /\ KeepNames
    BY <1>1, <1>2, <1>3, <1>10 DEF LeaveDone, Overtakes
  <2>2. SecondLeaves(q, p)'
    BY <1>1, <1>2, <1>10, <2>1 DEF Overtakes, SecondLeaves, Named
  <2> QED  BY <2>2
<1> QED  BY <1>2, <1>4, <1>5, <1>6, <1>7, <1>8, <1>9, <1>10 DEF Overtakes

LEMMA SecondLeavesStep ==
  ASSUME NEW p \in Threads, NEW q \in Threads, p # q, DOMAIN pc = Threads, SecondLeaves(p, q),
         Did(q), Alone(q)
  PROVE  SecondLeaves(p, q)' \/ Part(p, q)'
<1> USE DEF KeepFirst, KeepMutex, KeepMarks, KeepNames, KeepConds, KeepPair, KeepAll
<1>1. p # NoName /\ q # NoName
  BY MonitorConstants DEF MonitorConstants
<1>2. /\ op'[p] = "leave" /\ op'[q] = "leave" /\ pc'[p] = pc[p]
      /\ GateDone(q) /\ LeaveDone(q) /\ pc[q] \notin {"in", "out"}
  BY DEF Did, SecondLeaves, Alone
<1>3. \A x : Goto(q, x) => pc'[q] = x
  BY Arrives
<1>4. CASE pc[q] = "gate"
  <2>1. pc'[q] = "open" /\ KeepAll
    BY <1>1, <1>2, <1>3, <1>4 DEF GateDone, SecondLeaves
  <2>2. SecondLeaves(p, q)'
    BY <1>1, <1>2, <1>4, <2>1 DEF SecondLeaves, Named
  <2> QED  BY <2>2
<1>5. CASE pc[q] = "open"
  <2>1. pc'[q] = "find" /\ first' /\ KeepMutex /\ KeepPair
    BY <1>1, <1>2, <1>3, <1>5 DEF GateDone
  <2>2. SecondLeaves(p, q)'
    BY <1>1, <1>2, <1>5, <2>1 DEF SecondLeaves, Named
  <2> QED  BY <2>2
<1>6. CASE pc[q] = "lock"
  <2>1. pc'[q] = "find" /\ KeepFirst /\ KeepPair
    BY <1>1, <1>2, <1>3, <1>6 DEF GateDone
  <2>2. SecondLeaves(p, q)'
    BY <1>1, <1>2, <1>6, <2>1 DEF SecondLeaves, Named
  <2> QED  BY <2>2
<1>7. CASE pc[q] = "find"
  <2>1. pc'[q] \in {"leaving", "name1"} /\ (pc'[q] = "name1" => Name1 = q) /\ KeepAll
    BY <1>1, <1>2, <1>3, <1>7 DEF LeaveDone, SecondLeaves, Named
  <2>2. SecondLeaves(p, q)'
    BY <1>1, <1>2, <1>7, <2>1 DEF SecondLeaves, Named
  <2> QED  BY <2>2
<1>8. CASE pc[q] = "name1"
  <2>1. pc'[q] = "leaving" /\ KeepAll
    BY <1>1, <1>2, <1>3, <1>8 DEF LeaveDone
  <2>2. SecondLeaves(p, q)'
    BY <1>1, <1>2, <1>8, <2>1 DEF SecondLeaves, Named
  <2> QED  BY <2>2
<1>9. CASE pc[q] = "leaving"
  <2>1. pc'[q] = "signal" /\ KeepAll
    BY <1>1, <1>2, <1>3, <1>9 DEF LeaveDone, SecondLeaves
  <2>2. SecondLeaves(p, q)'
    BY <1>1, <1>2, <1>9, <2>1 DEF SecondLeaves, Named
  <2> QED  BY <2>2
<1>10. CASE pc[q] = "signal"
  <2>1. /\ pc'[q] = "clear0" /\ InLeaving' = {} /\ InWaiting' = {}
        /\ KeepFirst /\ KeepMutex /\ KeepMarks /\ KeepNames
    BY <1>1, <1>2, <1>3, <1>10 DEF LeaveDone, SecondLeaves
  <2>2. Part(p, q)'
    BY <1>1, <1>2, <1>10, <2>1 DEF SecondLeaves, Part, Named, Ending, Cleared
  <2> QED  BY <2>2
<1> QED  BY <1>2, <1>4, <1>5, <1>6, <1>7, <1>8, <1>9, <1>10 DEF SecondLeaves

LEMMA PartStepOne ==
  ASSUME NEW p \in Threads, NEW q \in Threads, p # q, DOMAIN pc = Threads, Part(p, q),
         Did(p), Alone(p)
  PROVE  Part(p, q)' \/ Stuck(p, q)'
<1> USE DEF KeepFirst, KeepMutex, KeepMarks, KeepNames, KeepConds, KeepPair, KeepAll
<1>1. p # NoName /\ q # NoName
  BY MonitorConstants DEF MonitorConstants
<1>2. /\ op'[p] = "leave" /\ op'[q] = "leave" /\ pc'[q] = pc[q]
      /\ GateDone(p) /\ LeaveDone(p) /\ pc[p] \notin {"in", "out"}
  BY DEF Did, Part, Alone
<1>3. \A x : Goto(p, x) => pc'[p] = x
  BY Arrives
<1>4. CASE pc[p] = "asleep"
  <2>1. pc'[p] = "leaving" /\ mutex' /\ KeepFirst /\ KeepPair
    BY <1>1, <1>2, <1>3, <1>4 DEF LeaveDone
  <2>2. Part(p, q)'
    BY <1>1, <1>2, <1>4, <2>1 DEF Part, Named, Ending, Cleared
  <2> QED  BY <2>2
<1>5. CASE pc[p] = "leaving" /\ Leaves
  <2>1. pc'[p] = "signal" /\ KeepAll
    BY <1>1, <1>2, <1>3, <1>5 DEF LeaveDone
  <2>2. Part(p, q)'
    BY <1>1, <1>2, <1>5, <2>1 DEF Part, Named, Ending, Cleared
  <2> QED  BY <2>2
<1>6. CASE pc[p] = "leaving" /\ ~Leaves
  <2>1. pc'[p] = "go" /\ KeepAll
    BY <1>1, <1>2, <1>3, <1>6 DEF LeaveDone
  <2>2. Stuck(p, q)'
    BY <1>1, <1>2, <1>6, <2>1 DEF Part, Named, Ending, Cleared, Stuck
  <2> QED  BY <2>2
<1>7. CASE pc[p] = "signal"
  <2>1. /\ pc'[p] = "clear0" /\ InLeaving' = {} /\ InWaiting' = {}
        /\ KeepFirst /\ KeepMutex /\ KeepMarks /\ KeepNames
    BY <1>1, <1>2, <1>3, <1>7 DEF LeaveDone, Part
  <2>2. Part(p, q)'
    BY <1>1, <1>2, <1>7, <2>1 DEF Part, Named, Ending, Cleared
  <2> QED  BY <2>2
<1>8. CASE pc[p] = "clear0"
  <2>1. /\ pc'[p] = "clear1" /\ Name0' = NoName /\ Name1' = Name1
        /\ KeepFirst /\ KeepMutex /\ KeepMarks /\ KeepConds
    BY <1>1, <1>2, <1>3, <1>8 DEF LeaveDone
  <2>2. Part(p, q)'
    BY <1>1, <1>2, <1>8, <2>1 DEF Part, Named, Ending, Cleared
  <2> QED  BY <2>2
<1>9. CASE pc[p] = "clear1"
  <2>1. /\ pc'[p] = "unlock" /\ Name1' = NoName /\ Name0' = Name0
        /\ KeepFirst /\ KeepMutex /\ KeepMarks /\ KeepConds
    BY <1>1, <1>2, <1>3, <1>9 DEF LeaveDone
  <2>2. Part(p, q)'
    BY <1>1, <1>2, <1>9, <2>1 DEF Part, Named, Ending, Cleared
  <2> QED  BY <2>2
<1>10. CASE pc[p] = "unlock"
  <2>1. pc'[p] = "unlock_again" /\ ~mutex' /\ KeepFirst /\ KeepPair
    BY <1>1, <1>2, <1>3, <1>10 DEF LeaveDone
  <2>2. Part(p, q)'
    BY <1>1, <1>2, <1>10, <2>1 DEF Part, Named, Ending, Cleared
  <2> QED  BY <2>2
<1>11. CASE pc[p] = "unlock_again"
  <2>1. pc'[p] = "reset1" /\ ~mutex' /\ KeepFirst /\ KeepPair
    BY <1>1, <1>2, <1>3, <1>11 DEF LeaveDone
  <2>2. Part(p, q)'
    BY <1>1, <1>2, <1>11, <2>1 DEF Part, Named, Ending, Cleared
  <2> QED  BY <2>2
<1>12. CASE pc[p] = "reset1"
  <2>1. /\ pc'[p] = "reset2" /\ ~Leaves' /\ Waits' = Waits
        /\ KeepFirst /\ KeepMutex /\ KeepNames /\ KeepConds
    BY <1>1, <1>2, <1>3, <1>12 DEF LeaveDone
  <2>2. Part(p, q)'
    BY <1>1, <1>2, <1>12, <2>1 DEF Part, Named, Ending, Cleared
  <2> QED  BY <2>2
<1>13. CASE pc[p] = "reset2"
  <2>1. /\ pc'[p] = "out" /\ ~Waits' /\ Leaves' = Leaves
        /\ KeepFirst /\ KeepMutex /\ KeepNames /\ KeepConds
    BY <1>1, <1>2, <1>3, <1>13 DEF LeaveDone
  <2>2. Part(p, q)'
    BY <1>1, <1>2, <1>13, <2>1 DEF Part, Named, Ending, Cleared
  <2> QED  BY <2>2
<1> QED  BY <1>2, <1>4, <1>5, <1>6, <1>7, <1>8, <1>9, <1>10, <1>11, <1>12, <1>13 DEF Part, Ending, Cleared

LEMMA PartStepOther ==
  ASSUME NEW p \in Threads, NEW q \in Threads, p # q, DOMAIN pc = Threads, Part(p, q),
         Did(q), Alone(q)
  PROVE  Part(p, q)'
<1> USE DEF KeepFirst, KeepMutex, KeepMarks, KeepNames, KeepConds, KeepPair, KeepAll
<1>1. p # NoName /\ q # NoName
  BY MonitorConstants DEF MonitorConstants
<1>2. /\ op'[p] = "leave" /\ op'[q] = "leave" /\ pc'[p] = pc[p]
      /\ GateDone(q) /\ LeaveDone(q) /\ pc[q] \notin {"in", "out"}
  BY DEF Did, Part, Alone
<1>3. \A x : Goto(q, x) => pc'[q] = x
  BY Arrives
<1>4. CASE pc[q] = "clear0"
  <2>1. /\ pc'[q] = "clear1" /\ Name0' = NoName /\ Name1' = Name1
        /\ KeepFirst /\ KeepMutex /\ KeepMarks /\ KeepConds
    BY <1>1, <1>2, <1>3, <1>4 DEF LeaveDone
  <2>2. Part(p, q)'
    BY <1>1, <1>2, <1>4, <2>1 DEF Part, Named, Ending, Cleared
  <2> QED  BY <2>2
<1>5. CASE pc[q] = "clear1"
  <2>1. /\ pc'[q] = "unlock" /\ Name1' = NoName /\ Name0' = Name0
        /\ KeepFirst /\ KeepMutex /\ KeepMarks /\ KeepConds
    BY <1>1, <1>2, <1>3, <1>5 DEF LeaveDone
  <2>2. Part(p, q)'
    BY <1>1, <1>2, <1>5, <2>1 DEF Part, Named, Ending, Cleared
  <2> QED  BY <2>2
<1>6. CASE pc[q] = "unlock"
  <2>1. pc'[q] = "unlock_again" /\ ~mutex' /\ KeepFirst /\ KeepPair
    BY <1>1, <1>2, <1>3, <1>6 DEF LeaveDone
  <2>2. Part(p, q)'
    BY <1>1, <1>2, <1>6, <2>1 DEF Part, Named, Ending, Cleared
  <2> QED  BY <2>2
<1>7. CASE pc[q] = "unlock_again"
  <2>1. pc'[q] = "reset1" /\ ~mutex' /\ KeepFirst /\ KeepPair
    BY <1>1, <1>2, <1>3, <1>7 DEF LeaveDone
  <2>2. Part(p, q)'
    BY <1>1, <1>2, <1>7, <2>1 DEF Part, Named, Ending, Cleared
  <2> QED  BY <2>2
<1>8. CASE pc[q] = "reset1"
  <2>1. /\ pc'[q] = "reset2" /\ ~Leaves' /\ Waits' = Waits
        /\ KeepFirst /\ KeepMutex /\ KeepNames /\ KeepConds
    BY <1>1, <1>2, <1>3, <1>8 DEF LeaveDone
  <2>2. Part(p, q)'
    BY <1>1, <1>2, <1>8, <2>1 DEF Part, Named, Ending, Cleared
  <2> QED  BY <2>2
<1>9. CASE pc[q] = "reset2"
  <2>1. /\ pc'[q] = "out" /\ ~Waits' /\ Leaves' = Leaves
        /\ KeepFirst /\ KeepMutex /\ KeepNames /\ KeepConds
    BY <1>1, <1>2, <1>3, <1>9 DEF LeaveDone
  <2>2. Part(p, q)'
    BY <1>1, <1>2, <1>9, <2>1 DEF Part, Named, Ending, Cleared
  <2> QED  BY <2>2
<1> QED  BY <1>2, <1>4, <1>5, <1>6, <1>7, <1>8, <1>9 DEF Part, Ending, Cleared

LEMMA StuckStepOne ==
  ASSUME NEW p \in Threads, NEW q \in Threads, p # q, DOMAIN pc = Threads, Stuck(p, q),
         Did(p), Alone(p)
  PROVE  Stuck(p, q)'
<1> USE DEF KeepFirst, KeepMutex, KeepMarks, KeepNames, KeepConds, KeepPair, KeepAll
<1>1. p # NoName /\ q # NoName
  BY MonitorConstants DEF MonitorConstants
<1>2. /\ op'[p] = "leave" /\ op'[q] = "leave" /\ pc'[q] = pc[q]
      /\ GateDone(p) /\ LeaveDone(p) /\ pc[p] \notin {"in", "out"}
  BY DEF Did, Stuck, Alone
<1>3. \A x : Goto(p, x) => pc'[p] = x
  BY Arrives
<1>4. CASE pc[p] = "go"
  <2>1. /\ pc'[p] = "sleep" /\ Leaves' /\ Waits' = Waits
        /\ KeepFirst /\ KeepMutex /\ KeepNames /\ KeepConds
    BY <1>1, <1>2, <1>3, <1>4 DEF LeaveDone
  <2>2. Stuck(p, q)'
    BY <1>1, <1>2, <1>4, <2>1 DEF Stuck
  <2> QED  BY <2>2
<1>5. CASE pc[p] = "sleep"
  <2>1. /\ pc'[p] = "asleep" /\ InLeaving' = {p} /\ InWaiting' = InWaiting /\ ~mutex'
        /\ KeepFirst /\ KeepMarks /\ KeepNames
    BY <1>1, <1>2, <1>3, <1>5 DEF LeaveDone, Stuck
  <2>2. Stuck(p, q)'
    BY <1>1, <1>2, <1>5, <2>1 DEF Stuck
  <2> QED  BY <2>2
<1>6. CASE pc[p] = "asleep"
  <2>1. FALSE
    BY <1>1, <1>2, <1>3, <1>6 DEF LeaveDone, Stuck
  <2>2. Stuck(p, q)'
    BY <1>1, <1>2, <1>6, <2>1 DEF Stuck
  <2> QED  BY <2>2
<1> QED  BY <1>2, <1>4, <1>5, <1>6 DEF Stuck

LEMMA StuckStepOther ==
  ASSUME NEW p \in Threads, NEW q \in Threads, p # q, DOMAIN pc = Threads, Stuck(p, q),
         Did(q), Alone(q)
  PROVE  Stuck(p, q)'
<1> USE DEF KeepFirst, KeepMutex, KeepMarks, KeepNames, KeepConds, KeepPair, KeepAll
<1>1. p # NoName /\ q # NoName
  BY MonitorConstants DEF MonitorConstants
<1>2. /\ op'[p] = "leave" /\ op'[q] = "leave" /\ pc'[p] = pc[p]
      /\ GateDone(q) /\ LeaveDone(q) /\ pc[q] \notin {"in", "out"}
  BY DEF Did, Stuck, Alone
<1>3. \A x : Goto(q, x) => pc'[q] = x
  BY Arrives
<1>4. CASE pc[q] = "reset2"
  <2>1. /\ pc'[q] = "out" /\ ~Waits' /\ Leaves' = Leaves
        /\ KeepFirst /\ KeepMutex /\ KeepNames /\ KeepConds
    BY <1>1, <1>2, <1>3, <1>4 DEF LeaveDone
  <2>2. Stuck(p, q)'
    BY <1>1, <1>2, <1>4, <2>1 DEF Stuck
  <2> QED  BY <2>2
<1> QED  BY <1>2, <1>4 DEF Stuck

-----------------------------------------------------------------------------
(* The calls: a thread calls when the other one cannot go on.              *)

LEMMA Waiting ==
  ASSUME Rest, Staggered, Quiet, NEW u \in Threads, pc[u] \notin {"out", "in", "done", "wild"}
  PROVE  \/ pc[u] = "lock" /\ mutex
         \/ pc[u] = "asleep" /\ (mutex \/ u \in InWaiting \/ u \in InLeaving)
<1>1. ~CanRun(u)
  BY DEF Quiet
<1>2. u \notin InWaiting /\ u \notin InLeaving => Signalled(u)
  BY DEF Rest, Unused, Signalled, InWaiting, InLeaving
<1> QED  BY <1>1, <1>2 DEF CanRun

LEMMA Called ==
  ASSUME Typed, Rest, NEW t \in Threads, CallEnter(t) \/ CallLeave(t)
  PROVE  /\ KeepAll /\ Alone(t) /\ Rest' /\ Quiet /\ pc'[t] = "gate"
         /\ \A u \in Threads \ {t} : pc'[u] = pc[u] /\ op'[u] = op[u]
         /\ CallEnter(t) => pc[t] = "out" /\ op'[t] = "enter"
         /\ CallLeave(t) => pc[t] = "in" /\ op'[t] = "leave"
<1>1. UNCHANGED <<sharedVars, main>>
  BY DEF CallEnter, CallLeave
<1>2. KeepAll /\ running' = running /\ main' = main /\ \A i \in Slots \ {0} : Unused(i) => Unused(i)'
  BY <1>1, SharedSame
<1> HIDE DEF KeepAll
<1>3. DOMAIN pc = Threads /\ DOMAIN op = Threads /\ DOMAIN idx = Threads
  BY DEF Typed, Control
<1>4. \A u \in Threads : idx'[u] = 0
  BY <1>3 DEF CallEnter, CallLeave, Rest
<1>5. Rest'
  BY <1>2, <1>4 DEF Rest
<1>6. Alone(t)
  BY StepControl
<1>7. \A u \in Threads \ {t} : pc'[u] = pc[u] /\ op'[u] = op[u]
  BY <1>6 DEF Alone
<1>8. /\ pc'[t] = "gate" /\ Quiet
      /\ CallEnter(t) => pc[t] = "out" /\ op'[t] = "enter"
      /\ CallLeave(t) => pc[t] = "in" /\ op'[t] = "leave"
  BY <1>3 DEF CallEnter, CallLeave, Goto
<1> QED  BY <1>2, <1>5, <1>6, <1>7, <1>8

(* When one of the two who part calls again, the pair is empty.            *)
LEMMA PartEnds ==
  ASSUME Rest, Staggered, Quiet, NEW p \in Threads, NEW q \in Threads, Part(p, q),
         pc[p] = "out" \/ pc[q] = "out"
  PROVE  Empty(p, q)
<1> USE DEF Ending, Cleared
<1>1. pc[p] = "out"
  <2> SUFFICES ASSUME pc[p] # "out" PROVE FALSE
    OBVIOUS
  <2>1. pc[q] = "out"
    OBVIOUS
  <2>2. pc[p] \notin {"out", "in", "done", "wild", "lock"} /\ InWaiting = {} /\ InLeaving = {}
    BY DEF Part
  <2>3. pc[p] = "asleep" /\ mutex
    BY <2>2, Waiting
  <2> QED  BY <2>1, <2>3 DEF Part
<1>2. pc[q] = "out"
  <2> SUFFICES ASSUME pc[q] # "out" PROVE FALSE
    OBVIOUS
  <2>1. pc[q] \notin {"out", "in", "done", "wild", "lock", "asleep"}
    BY DEF Part
  <2> QED  BY <2>1, Waiting
<1> QED  BY <1>1, <1>2 DEF Part, Empty

LEMMA EmptyCall ==
  ASSUME Typed, Rest, Staggered, NEW p \in Threads, NEW q \in Threads, p # q, Empty(p, q), CallEnter(p)
  PROVE  FirstComes(p, q)'
<1>1. /\ KeepAll /\ pc'[p] = "gate" /\ op'[p] = "enter"
      /\ pc'[q] = pc[q]
  BY Called
<1> QED  BY <1>1 DEF Empty, FirstComes, Away, KeepFirst, KeepMutex, KeepMarks, KeepNames, KeepConds,
            KeepPair, KeepAll

LEMMA EmptySame ==
  ASSUME NEW p, NEW q, Empty(p, q)
  PROVE  Empty(q, p)
BY DEF Empty

LEMMA FirstComesCall ==
  ASSUME Typed, Rest, Staggered, NEW p \in Threads, NEW q \in Threads, p # q, FirstComes(p, q),
         CallEnter(q)
  PROVE  SecondComes(p, q)' /\ pc'[q] = "gate"
<1>1. /\ KeepAll /\ pc'[q] = "gate" /\ op'[q] = "enter" /\ pc[q] = "out"
      /\ pc'[p] = pc[p] /\ op'[p] = op[p] /\ Quiet
  BY Called
<1>2. pc[p] \notin {"out", "in", "done", "wild"} /\ (pc[p] = "lock" => ~mutex)
  BY DEF FirstComes
<1>3. pc[p] = "asleep"
  BY <1>1, <1>2, Waiting
<1> QED  BY <1>1, <1>3 DEF SecondComes, FirstComes, Away, KeepFirst, KeepMutex, KeepMarks, KeepNames,
            KeepConds, KeepPair, KeepAll

LEMMA StuckCall ==
  ASSUME Typed, Rest, Staggered, NEW p \in Threads, NEW q \in Threads, p # q, Stuck(p, q), CallEnter(q)
  PROVE  FirstComes(q, p)'
<1>1. /\ KeepAll /\ pc'[q] = "gate" /\ op'[q] = "enter" /\ pc[q] = "out"
      /\ pc'[p] = pc[p] /\ op'[p] = op[p] /\ Quiet
  BY Called
<1>2. pc[p] \notin {"out", "in", "done", "wild", "lock"}
  BY DEF Stuck
<1>3. pc[p] = "asleep"
  BY <1>1, <1>2, Waiting
<1> QED  BY <1>1, <1>3 DEF Stuck, FirstComes, Away, KeepFirst, KeepMutex, KeepMarks, KeepNames,
            KeepConds, KeepPair, KeepAll

(* Both are inside when the first of them calls leave().                   *)
LEMMA PairedCall ==
  ASSUME Typed, Rest, Staggered, NEW p \in Threads, NEW q \in Threads, p # q, Paired(p, q),
         NEW t \in {p, q}, CallLeave(t)
  PROVE  IF t = p THEN FirstLeaves(p, q)' ELSE FirstLeaves(q, p)'
<1>1. /\ KeepAll /\ pc'[t] = "gate" /\ op'[t] = "leave" /\ Quiet
      /\ \A u \in {p, q} \ {t} : pc'[u] = pc[u] /\ op'[u] = op[u]
  BY Called
<1>2. /\ pc[p] \notin {"out", "done", "wild", "lock"}
      /\ pc[q] \notin {"out", "done", "wild", "lock", "asleep"}
      /\ pc[p] = "asleep" => ~mutex
      /\ InWaiting = {} /\ InLeaving = {}
  BY DEF Paired
<1>3. pc[p] = "in"
  BY <1>1, <1>2, Waiting
<1>4. pc[q] = "in"
  BY <1>1, <1>2, Waiting
<1> USE DEF KeepFirst, KeepMutex, KeepMarks, KeepNames, KeepConds, KeepPair, KeepAll, Named
<1>5. CASE t = p
  <2>1. pc'[p] = "gate" /\ op'[p] = "leave" /\ pc'[q] = "in" /\ op'[q] = op[q]
    BY <1>1, <1>4, <1>5
  <2>2. FirstLeaves(p, q)'
    BY <1>1, <2>1 DEF Paired, FirstLeaves
  <2> QED  BY <1>5, <2>2
<1>6. CASE t = q
  <2>1. pc'[q] = "gate" /\ op'[q] = "leave" /\ pc'[p] = "in" /\ op'[p] = op[p]
    BY <1>1, <1>3, <1>6
  <2>2. FirstLeaves(q, p)'
    BY <1>1, <2>1 DEF Paired, FirstLeaves
  <2> QED  BY <1>6, <2>2
<1> QED  BY <1>5, <1>6

LEMMA FirstLeavesCall ==
  ASSUME Typed, Rest, Staggered, NEW p \in Threads, NEW q \in Threads, p # q, FirstLeaves(p, q),
         CallLeave(q)
  PROVE  Overtakes(p, q)' \/ SecondLeaves(p, q)'
<1>1. /\ KeepAll /\ pc'[q] = "gate" /\ op'[q] = "leave" /\ pc[q] = "in"
      /\ pc'[p] = pc[p] /\ op'[p] = op[p] /\ Quiet
  BY Called
<1>2. pc[p] \notin {"out", "in", "done", "wild"}
  BY DEF FirstLeaves
<1> USE DEF KeepFirst, KeepMutex, KeepMarks, KeepNames, KeepConds, KeepPair, KeepAll, Named
<1>3. CASE pc[p] = "lock" /\ mutex
  <2>1. Overtakes(p, q)'
    BY <1>1, <1>3 DEF FirstLeaves, Overtakes
  <2> QED  BY <2>1
<1>4. CASE pc[p] = "asleep"
  <2>1. SecondLeaves(p, q)'
    BY <1>1, <1>4 DEF FirstLeaves, SecondLeaves
  <2> QED  BY <2>1
<1> QED  BY <1>1, <1>2, <1>3, <1>4, Waiting

-----------------------------------------------------------------------------
(* What the room holds, on each stretch                                    *)

Pairs   == {Names(i) : i \in {j \in Slots : Full(j)}}
Leavers == {u \in UNION {Names(i) : i \in {j \in Slots : Full(j)}} : HasCalledLeave(u)}

Hollow        == Pairs = {} /\ Leavers = {}
Stay(p, q, V) == Pairs = {{p, q}} /\ Leavers = V

LEMMA RoomEmpty ==
  ASSUME Rest, Name0 = NoName \/ Name1 = NoName
  PROVE  Hollow
<1>1. ~Full(0)
  BY DEF Full, Name0, Name1
<1>2. \A j \in Slots \ {0} : ~Full(j)
  BY DEF Full, Rest, Unused
<1>3. {j \in Slots : Full(j)} = {}
  BY <1>1, <1>2
<1> QED  BY <1>3 DEF Hollow, Pairs, Leavers

LEMMA RoomFull ==
  ASSUME Rest, NEW p \in Threads, NEW q \in Threads, Named(p, q)
  PROVE  Pairs = {{p, q}} /\ Leavers = {u \in {p, q} : HasCalledLeave(u)}
<1>1. p # NoName /\ q # NoName
  BY MonitorConstants DEF MonitorConstants
<1>2. 0 \in Slots /\ 0 .. 1 = {0, 1}
  BY MonitorConstants DEF MonitorConstants, Slots
<1>3. Full(0)
  BY <1>1, <1>2 DEF Full, Named, Name0, Name1
<1>4. \A j \in Slots \ {0} : ~Full(j)
  BY DEF Full, Rest, Unused
<1>5. {j \in Slots : Full(j)} = {0}
  BY <1>2, <1>3, <1>4
<1>6. Names(0) = {p, q}
  BY <1>1 DEF Names, Named, Name0, Name1
<1>7. {Names(i) : i \in {j \in Slots : Full(j)}} = {{p, q}}
  BY <1>5, <1>6
<1>8. UNION {Names(i) : i \in {j \in Slots : Full(j)}} = {p, q}
  BY <1>7
<1> QED  BY <1>7, <1>8 DEF Pairs, Leavers

Stages(p, q) ==
  /\ Empty(p, q) \/ FirstComes(p, q) \/ Stuck(p, q) => Hollow
  /\ SecondComes(p, q) => IF pc[q] = "signal" THEN Stay(p, q, {}) ELSE Hollow
  /\ Paired(p, q) => Stay(p, q, {})
  /\ FirstLeaves(p, q) => Stay(p, q, {p})
  /\ Overtakes(p, q) \/ SecondLeaves(p, q) => Stay(p, q, {p, q})
  /\ Part(p, q) => IF Name0 = NoName THEN Hollow ELSE Stay(p, q, {p, q})

LEMMA Staged ==
  ASSUME NEW p \in Threads, NEW q \in Threads, p # q
  PROVE  Rest => Stages(p, q)
<1> SUFFICES ASSUME Rest PROVE Stages(p, q)
  OBVIOUS
<1>1. Empty(p, q) \/ FirstComes(p, q) \/ Stuck(p, q) => Hollow
  <2>1. Empty(p, q) \/ FirstComes(p, q) \/ Stuck(p, q) => Name1 = NoName
    BY DEF Empty, FirstComes, Stuck
  <2> QED  BY <2>1, RoomEmpty
<1>2. Named(p, q) => /\ Pairs = {{p, q}}
                     /\ \A V : V = {u \in {p, q} : HasCalledLeave(u)} => Leavers = V
  BY RoomFull
<1>3. ASSUME Named(p, q), ~HasCalledLeave(p), ~HasCalledLeave(q)
      PROVE  Stay(p, q, {})
  BY <1>2, <1>3 DEF Stay
<1>4. ASSUME Named(p, q), HasCalledLeave(p), ~HasCalledLeave(q)
      PROVE  Stay(p, q, {p})
  <2>1. {p} = {u \in {p, q} : HasCalledLeave(u)}
    BY <1>4
  <2> QED  BY <1>2, <1>4, <2>1 DEF Stay
<1>5. ASSUME Named(p, q), HasCalledLeave(p), HasCalledLeave(q)
      PROVE  Stay(p, q, {p, q})
  <2>1. {p, q} = {u \in {p, q} : HasCalledLeave(u)}
    BY <1>5
  <2> QED  BY <1>2, <1>5, <2>1 DEF Stay
<1>6. SecondComes(p, q) => IF pc[q] = "signal" THEN Stay(p, q, {}) ELSE Hollow
  <2>1. CASE SecondComes(p, q) /\ pc[q] = "signal"
    <3>1. Named(p, q) /\ ~HasCalledLeave(p) /\ ~HasCalledLeave(q)
      BY <2>1 DEF SecondComes, Named, HasCalledLeave
    <3> QED  BY <1>3, <2>1, <3>1
  <2>2. CASE SecondComes(p, q) /\ pc[q] # "signal"
    <3>1. Name1 = NoName
      BY <2>2 DEF SecondComes
    <3> QED  BY <2>2, <3>1, RoomEmpty
  <2> QED  BY <2>1, <2>2
<1>7. Paired(p, q) => Stay(p, q, {})
  <2>1. Paired(p, q) => Named(p, q) /\ ~HasCalledLeave(p) /\ ~HasCalledLeave(q)
    BY DEF Paired, Named, HasCalledLeave
  <2> QED  BY <1>3, <2>1
<1>8. FirstLeaves(p, q) => Stay(p, q, {p})
  <2>1. FirstLeaves(p, q) => Named(p, q) /\ HasCalledLeave(p) /\ ~HasCalledLeave(q)
    BY DEF FirstLeaves, HasCalledLeave
  <2> QED  BY <1>4, <2>1
<1>9. Overtakes(p, q) \/ SecondLeaves(p, q) => Stay(p, q, {p, q})
  <2>1. Overtakes(p, q) \/ SecondLeaves(p, q)
          => Named(p, q) /\ HasCalledLeave(p) /\ HasCalledLeave(q)
    BY DEF Overtakes, SecondLeaves, HasCalledLeave
  <2> QED  BY <1>5, <2>1
<1>10. Part(p, q) => IF Name0 = NoName THEN Hollow ELSE Stay(p, q, {p, q})
  <2>1. Part(p, q) /\ Name0 # NoName => Named(p, q) /\ HasCalledLeave(p) /\ HasCalledLeave(q)
    BY DEF Part, HasCalledLeave, Ending, Cleared
  <2> QED  BY <1>5, <2>1, RoomEmpty
<1> QED  BY <1>1, <1>6, <1>7, <1>8, <1>9, <1>10 DEF Stages

LEMMA StagedNext ==
  ASSUME NEW p \in Threads, NEW q \in Threads, p # q
  PROVE  Rest' => Stages(p, q)'
<1>1. Rest => Stages(p, q)
  BY Staged
<1>2. (Rest => Stages(p, q))'
  BY <1>1, PTL
<1> QED  BY <1>2

-----------------------------------------------------------------------------
(* The steps of the room *)

RoomStep == [Room!Next]_<<Pairs, Leavers>>

LEMMA EntersRoom ==
  ASSUME NEW p \in Threads, NEW q \in Threads, p # q, Hollow, Stay(p, q, {})'
  PROVE  RoomStep
<1>1. Cardinality(Pairs) < Capacity
  <2>1. Cardinality({}) = 0
    BY FS_EmptySet
  <2>2. Capacity \in Nat \ {0} /\ Pairs = {}
    BY MonitorConstants DEF MonitorConstants, Hollow
  <2> QED  BY <2>1, <2>2
<1>2. {p, q} \cap UNION Pairs = {} /\ Pairs' = Pairs \cup {{p, q}} /\ Leavers' = Leavers
  BY DEF Hollow, Stay
<1>3. Room!EnterTogether(p, q) <=>
        /\ p # q /\ {p, q} \cap UNION Pairs = {}
        /\ Cardinality(Pairs) < Capacity
        /\ Pairs' = Pairs \cup {{p, q}}
        /\ Leavers' = Leavers
  BY ONLY Zenon DEF Room!EnterTogether, Room!Inside, Pairs, Leavers, Cardinality, Room!Cardinality
<1> QED  BY <1>1, <1>2, <1>3 DEF RoomStep, Room!Next

LEMMA CallsInRoom ==
  ASSUME NEW p \in Threads, NEW q \in Threads, NEW V, NEW t \in {p, q} \ V,
         Stay(p, q, V), Stay(p, q, V \cup {t})'
  PROVE  RoomStep
<1>1. Pairs = {{p, q}} /\ Leavers = V /\ Pairs' = Pairs /\ Leavers' = Leavers \cup {t}
  BY DEF Stay
<1>2. t \in (UNION Pairs) \ Leavers
  <2>1. UNION {{p, q}} = {p, q}
    OBVIOUS
  <2> QED  BY <1>1, <2>1
<1>3. Room!CallLeave(t) <=>
        /\ t \in (UNION Pairs) \ Leavers
        /\ Leavers' = Leavers \cup {t}
        /\ Pairs' = Pairs
  BY ONLY Zenon DEF Room!CallLeave, Room!Inside, Pairs, Leavers
<1>4. t \in Threads
  OBVIOUS
<1> QED  BY <1>1, <1>2, <1>3, <1>4 DEF RoomStep, Room!Next

LEMMA LeavesRoom ==
  ASSUME NEW p \in Threads, NEW q \in Threads, Stay(p, q, {p, q}), Hollow'
  PROVE  RoomStep
<1>1. /\ {p, q} \in Pairs /\ {p, q} \subseteq Leavers
      /\ Pairs' = Pairs \ {{p, q}} /\ Leavers' = Leavers \ {p, q}
  BY DEF Stay, Hollow
<1>2. Room!LeaveTogether({p, q}) <=>
        /\ {p, q} \in Pairs /\ {p, q} \subseteq Leavers
        /\ Pairs' = Pairs \ {{p, q}}
        /\ Leavers' = Leavers \ {p, q}
  BY ONLY Zenon DEF Room!LeaveTogether, Pairs, Leavers
<1>3. \E pair \in Pairs : Room!LeaveTogether(pair)
  BY <1>1, <1>2
<1> QED  BY <1>3 DEF RoomStep, Room!Next, Pairs

LEMMA StaysInRoom ==
  ASSUME \/ Hollow /\ Hollow'
         \/ \E p, q, V : Stay(p, q, V) /\ Stay(p, q, V)'
  PROVE  RoomStep
<1>1. Pairs' = Pairs /\ Leavers' = Leavers
  BY DEF Hollow, Stay
<1> QED  BY <1>1 DEF RoomStep

-----------------------------------------------------------------------------
(* A step of the monitor is a step of the room, or none.                   *)

LEMMA WayFinds ==
  ASSUME NEW p \in Threads, NEW q \in Threads, Way(p, q), NEW t \in {p, q}
  PROVE  Finds(t)
<1> USE DEF Finds, Ending, Cleared
<1>1. CASE Empty(p, q) \/ Paired(p, q) \/ Stuck(p, q)
  BY <1>1 DEF Empty, Paired, Stuck
<1>2. CASE FirstComes(p, q)
  BY <1>2 DEF FirstComes, Away
<1>3. CASE SecondComes(p, q)
  BY <1>3 DEF SecondComes
<1>4. CASE FirstLeaves(p, q)
  BY <1>4 DEF FirstLeaves
<1>5. CASE Overtakes(p, q)
  BY <1>5 DEF Overtakes
<1>6. CASE SecondLeaves(p, q)
  BY <1>6 DEF SecondLeaves
<1>7. CASE Part(p, q)
  BY <1>7 DEF Part
<1> QED  BY <1>1, <1>2, <1>3, <1>4, <1>5, <1>6, <1>7 DEF Way

LEMMA DidRest ==
  ASSUME Rest, NEW t \in Threads, Did(t)
  PROVE  Rest'
BY DEF Rest, Did

(* Once the pair is being emptied no name comes into it.                   *)
LEMMA PartKeepsEmpty ==
  ASSUME Typed, NEW p \in Threads, NEW q \in Threads, Part(p, q), NEW t \in {p, q}, Step(t),
         Name0 = NoName
  PROVE  Name0' = NoName
<1>1. 0 \in Slots /\ 0 \in 0 .. 1
  BY MonitorConstants DEF MonitorConstants, Slots
<1>2. Written(t, 0, 0)
  BY <1>1, NameWritten
<1>3. pc[t] \notin {"come_name", "join_name"}
  BY DEF Part, Ending, Cleared
<1> QED  BY <1>2, <1>3 DEF Written, Name0

(* Where a thread stands still: it has not been called or not been woken.  *)
LEMMA StandsStill ==
  ASSUME NEW p \in Threads, NEW q \in Threads, NEW t \in {p, q}, Did(t)
  PROVE  /\ ~Empty(p, q)
         /\ FirstComes(p, q) => t = p
         /\ SecondComes(p, q) => t = q
         /\ FirstLeaves(p, q) => t = p
         /\ Overtakes(p, q) => t = q
         /\ SecondLeaves(p, q) => t = q
<1>1. pc[t] \notin {"in", "out"}
  BY DEF Did
<1>2. pc[t] = "lock" => ~mutex
  BY DEF Did, GateDone
<1>3. pc[t] = "asleep" /\ op[t] = "enter" => t \notin InWaiting
  BY DEF Did, EnterDone
<1>4. pc[t] = "asleep" /\ op[t] = "leave" => t \notin InLeaving
  BY DEF Did, LeaveDone
<1>5. FirstComes(p, q) => t = p
  BY <1>1, <1>4 DEF FirstComes, Away
<1>6. SecondComes(p, q) => t = q
  BY <1>3 DEF SecondComes
<1>7. FirstLeaves(p, q) => t = p
  BY <1>1 DEF FirstLeaves
<1>8. Overtakes(p, q) => t = q
  BY <1>2 DEF Overtakes
<1>9. SecondLeaves(p, q) => t = q
  BY <1>4 DEF SecondLeaves
<1> QED  BY <1>1, <1>5, <1>6, <1>7, <1>8, <1>9 DEF Empty

(* What is to be shown of a step.                                          *)
GoesOn(p, q) == Rest' /\ (Way(p, q)' \/ Way(q, p)') /\ RoomStep

LEMMA StepGoesOn ==
  ASSUME Typed, Rest, NEW p \in Threads, NEW q \in Threads, p # q, Way(p, q),
         NEW t \in {p, q}, Step(t)
  PROVE  GoesOn(p, q)
<1>1. Did(t) /\ Alone(t)
  <2>1. Finds(t)
    BY WayFinds
  <2> QED  BY <2>1, StepDid, StepControl
<1>2. Rest'
  BY <1>1, DidRest
<1>3. DOMAIN pc = Threads
  BY DEF Typed, Control
<1>4. Stages(p, q) /\ Stages(p, q)' /\ Stages(q, p)'
  <2>1. Rest => Stages(p, q)
    BY Staged
  <2>2. Rest' => Stages(p, q)'
    BY StagedNext
  <2>3. Rest' => Stages(q, p)'
    BY StagedNext
  <2> QED  BY <1>2, <2>1, <2>2, <2>3
<1>5. /\ ~Empty(p, q)
      /\ FirstComes(p, q) => t = p
      /\ SecondComes(p, q) => t = q
      /\ FirstLeaves(p, q) => t = p
      /\ Overtakes(p, q) => t = q
      /\ SecondLeaves(p, q) => t = q
  BY <1>1, StandsStill
<1>6. CASE FirstComes(p, q)
  <2>1. FirstComes(p, q)'
    BY <1>1, <1>3, <1>5, <1>6, FirstComesStep
  <2>2. Hollow /\ Hollow'
    BY <1>4, <1>6, <2>1 DEF Stages
  <2> QED  BY <1>2, <2>1, <2>2, StaysInRoom DEF GoesOn, Way
<1>7. CASE SecondComes(p, q) /\ pc[q] # "signal"
  <2>1. SecondComes(p, q)'
    BY <1>1, <1>3, <1>5, <1>7, SecondComesStep
  <2>2. Hollow /\ (Hollow' \/ Stay(p, q, {})')
    BY <1>4, <1>7, <2>1 DEF Stages
  <2>3. RoomStep
    BY <2>2, StaysInRoom, EntersRoom
  <2> QED  BY <1>2, <2>1, <2>3 DEF GoesOn, Way
<1>8. CASE SecondComes(p, q) /\ pc[q] = "signal"
  <2>1. Paired(p, q)'
    BY <1>1, <1>3, <1>5, <1>8, SecondComesStep
  <2>2. Stay(p, q, {}) /\ Stay(p, q, {})'
    BY <1>4, <1>8, <2>1 DEF Stages
  <2> QED  BY <1>2, <2>1, <2>2, StaysInRoom DEF GoesOn, Way
<1>9. CASE Paired(p, q)
  <2>1. Paired(p, q)'
    BY <1>1, <1>3, <1>9, PairedStepFirst, PairedStepSecond
  <2>2. Stay(p, q, {}) /\ Stay(p, q, {})'
    BY <1>4, <1>9, <2>1 DEF Stages
  <2> QED  BY <1>2, <2>1, <2>2, StaysInRoom DEF GoesOn, Way
<1>10. CASE FirstLeaves(p, q)
  <2>1. FirstLeaves(p, q)'
    BY <1>1, <1>3, <1>5, <1>10, FirstLeavesStep
  <2>2. Stay(p, q, {p}) /\ Stay(p, q, {p})'
    BY <1>4, <1>10, <2>1 DEF Stages
  <2> QED  BY <1>2, <2>1, <2>2, StaysInRoom DEF GoesOn, Way
<1>11. CASE Overtakes(p, q)
  <2>1. Overtakes(p, q)' \/ SecondLeaves(q, p)'
    BY <1>1, <1>3, <1>5, <1>11, OvertakesStep
  <2>2. Stay(p, q, {p, q}) /\ (Stay(p, q, {p, q})' \/ Stay(q, p, {q, p})')
    BY <1>4, <1>11, <2>1 DEF Stages
  <2>3. {p, q} = {q, p}
    OBVIOUS
  <2>4. Stay(p, q, {p, q}) /\ Stay(p, q, {p, q})'
    BY <2>2, <2>3 DEF Stay
  <2> QED  BY <1>2, <2>1, <2>4, StaysInRoom DEF GoesOn, Way
<1>12. CASE SecondLeaves(p, q)
  <2>1. SecondLeaves(p, q)' \/ Part(p, q)'
    BY <1>1, <1>3, <1>5, <1>12, SecondLeavesStep
  <2>2. Stay(p, q, {p, q}) /\ (Stay(p, q, {p, q})' \/ Hollow')
    BY <1>4, <1>12, <2>1 DEF Stages
  <2>3. RoomStep
    BY <2>2, StaysInRoom, LeavesRoom
  <2> QED  BY <1>2, <2>1, <2>3 DEF GoesOn, Way
<1>13. CASE Part(p, q)
  <2>1. Part(p, q)' \/ Stuck(p, q)'
    BY <1>1, <1>3, <1>13, PartStepOne, PartStepOther
  <2>2. IF Name0 = NoName THEN Hollow ELSE Stay(p, q, {p, q})
    BY <1>4, <1>13 DEF Stages
  <2>3. Hollow' \/ Stay(p, q, {p, q})'
    BY <1>4, <2>1 DEF Stages
  <2>4. Name0 = NoName => Hollow'
    <3>1. Name0 = NoName => Name0' = NoName
      BY <1>13, PartKeepsEmpty
    <3> QED  BY <1>4, <2>1, <3>1 DEF Stages
  <2>5. RoomStep
    <3>1. CASE Name0 = NoName
      BY <2>2, <2>4, <3>1, StaysInRoom
    <3>2. CASE Name0 # NoName
      BY <2>2, <2>3, <3>2, StaysInRoom, LeavesRoom
    <3> QED  BY <3>1, <3>2
  <2> QED  BY <1>2, <2>1, <2>5 DEF GoesOn, Way
<1>14. CASE Stuck(p, q)
  <2>1. Stuck(p, q)'
    BY <1>1, <1>3, <1>14, StuckStepOne, StuckStepOther
  <2>2. Hollow /\ Hollow'
    BY <1>4, <1>14, <2>1 DEF Stages
  <2> QED  BY <1>2, <2>1, <2>2, StaysInRoom DEF GoesOn, Way
<1> QED  BY <1>5, <1>6, <1>7, <1>8, <1>9, <1>10, <1>11, <1>12, <1>13, <1>14 DEF Way

LEMMA CallGoesOn ==
  ASSUME Typed, Rest, Staggered, NEW p \in Threads, NEW q \in Threads, p # q, Way(p, q),
         NEW t \in {p, q}, CallEnter(t) \/ CallLeave(t)
  PROVE  GoesOn(p, q)
<1>1. /\ Rest' /\ Quiet
      /\ CallEnter(t) => pc[t] = "out"
      /\ CallLeave(t) => pc[t] = "in"
  BY Called
<1>2. Stages(p, q) /\ Stages(p, q)' /\ Stages(q, p)'
  <2>1. Rest => Stages(p, q)
    BY Staged
  <2>2. Rest' => Stages(p, q)'
    BY StagedNext
  <2>3. Rest' => Stages(q, p)'
    BY StagedNext
  <2> QED  BY <1>1, <2>1, <2>2, <2>3
<1>3. CASE CallEnter(t) /\ Part(p, q)
  <2>1. Empty(p, q)
    BY <1>1, <1>3, PartEnds
  <2>2. FirstComes(p, q)' \/ FirstComes(q, p)'
    BY <1>3, <2>1, EmptyCall, EmptySame
  <2>3. Hollow /\ Hollow'
    BY <1>2, <2>1, <2>2 DEF Stages
  <2> QED  BY <1>1, <2>2, <2>3, StaysInRoom DEF GoesOn, Way
<1>4. CASE CallEnter(t) /\ Empty(p, q)
  <2>1. FirstComes(p, q)' \/ FirstComes(q, p)'
    BY <1>4, EmptyCall, EmptySame
  <2>2. Hollow /\ Hollow'
    BY <1>2, <1>4, <2>1 DEF Stages
  <2> QED  BY <1>1, <2>1, <2>2, StaysInRoom DEF GoesOn, Way
<1>5. CASE CallEnter(t) /\ FirstComes(p, q)
  <2>1. t = q
    BY <1>1, <1>5 DEF FirstComes
  <2>2. SecondComes(p, q)' /\ pc'[q] = "gate"
    BY <1>5, <2>1, FirstComesCall
  <2>3. Hollow /\ Hollow'
    BY <1>2, <1>5, <2>2 DEF Stages
  <2> QED  BY <1>1, <2>2, <2>3, StaysInRoom DEF GoesOn, Way
<1>6. CASE CallEnter(t) /\ Stuck(p, q)
  <2>1. t = q
    BY <1>1, <1>6 DEF Stuck
  <2>2. FirstComes(q, p)'
    BY <1>6, <2>1, StuckCall
  <2>3. Hollow /\ Hollow'
    BY <1>2, <1>6, <2>2 DEF Stages
  <2> QED  BY <1>1, <2>2, <2>3, StaysInRoom DEF GoesOn, Way
<1>7. CASE CallLeave(t) /\ Paired(p, q)
  <2>1. IF t = p THEN FirstLeaves(p, q)' ELSE FirstLeaves(q, p)'
    BY <1>7, PairedCall
  <2>2. Stay(p, q, {}) /\ IF t = p THEN Stay(p, q, {p})' ELSE Stay(q, p, {q})'
    BY <1>2, <1>7, <2>1 DEF Stages
  <2>3. Stay(p, q, {} \cup {t})'
    <3>1. {} \cup {t} = {t} /\ {p, q} = {q, p}
      OBVIOUS
    <3> QED  BY <2>2, <3>1 DEF Stay
  <2>4. RoomStep
    <3>1. t \in {p, q} \ {}
      OBVIOUS
    <3> QED  BY <2>2, <2>3, <3>1, CallsInRoom
  <2> QED  BY <1>1, <2>1, <2>4 DEF GoesOn, Way
<1>8. CASE CallLeave(t) /\ FirstLeaves(p, q)
  <2>1. t = q
    BY <1>1, <1>8 DEF FirstLeaves
  <2>2. Overtakes(p, q)' \/ SecondLeaves(p, q)'
    BY <1>8, <2>1, FirstLeavesCall
  <2>3. Stay(p, q, {p}) /\ Stay(p, q, {p, q})'
    BY <1>2, <1>8, <2>2 DEF Stages
  <2>4. Stay(p, q, {p} \cup {q})'
    <3>1. {p} \cup {q} = {p, q}
      OBVIOUS
    <3> QED  BY <2>3, <3>1
  <2>5. RoomStep
    <3>1. q \in {p, q} \ {p}
      OBVIOUS
    <3> QED  BY <2>3, <2>4, <3>1, CallsInRoom
  <2> QED  BY <1>1, <2>2, <2>5 DEF GoesOn, Way
<1>9. CallEnter(t) =>
        Part(p, q) \/ Empty(p, q) \/ FirstComes(p, q) \/ Stuck(p, q)
  BY <1>1 DEF Way, SecondComes, Paired, FirstLeaves, Overtakes, SecondLeaves
<1>10. CallLeave(t) => Paired(p, q) \/ FirstLeaves(p, q)
  BY <1>1 DEF Way, Empty, FirstComes, Away, SecondComes, Overtakes, SecondLeaves, Part, Stuck, Ending,
     Cleared
<1> QED  BY <1>3, <1>4, <1>5, <1>6, <1>7, <1>8, <1>9, <1>10

LEMMA InitRoomInv ==
  ASSUME NEW p, NEW q, Driver1(p, q)
  PROVE  Init => RoomInv(p, q)
<1> SUFFICES ASSUME Init PROVE RoomInv(p, q)
  OBVIOUS
<1>1. p \in Threads /\ q \in Threads /\ 0 \in Slots
  BY MonitorConstants DEF MonitorConstants, Slots, Driver1
<1>2. Rest
  BY DEF Init, Rest, Unused
<1>3. Empty(p, q)
  BY <1>1 DEF Init, Empty, Waits, Leaves, Name0, Name1, InWaiting, InLeaving
<1> QED  BY <1>2, <1>3 DEF RoomInv, Way

LEMMA NextRoomInv ==
  ASSUME NEW p, NEW q, Driver1(p, q)
  PROVE  Typed /\ RoomInv(p, q) /\ [Next]_vars => RoomInv(p, q)' /\ RoomStep
<1> SUFFICES ASSUME Typed, RoomInv(p, q), [Next]_vars
             PROVE  RoomInv(p, q)' /\ RoomStep
  OBVIOUS
<1>1. p \in Threads /\ q \in Threads /\ p # q /\ Staggered
  BY DEF Driver1
<1>2. CASE UNCHANGED vars
  <2>1. Pairs' = Pairs /\ Leavers' = Leavers
    BY <1>2 DEF vars, sharedVars, pairVars, Pairs, Leavers, Names, Full, HasCalledLeave
  <2>2. /\ first' = first /\ mutex' = mutex /\ Waits' = Waits /\ Leaves' = Leaves
        /\ Name0' = Name0 /\ Name1' = Name1 /\ InWaiting' = InWaiting /\ InLeaving' = InLeaving
        /\ pc' = pc /\ op' = op
    BY <1>2 DEF vars, sharedVars, pairVars, condVars, Waits, Leaves, Name0, Name1, InWaiting,
       InLeaving
  <2>3. Rest'
    BY <1>2 DEF vars, sharedVars, pairVars, condVars, RoomInv, Rest, Unused
  <2>4. ASSUME NEW x, NEW y, Way(x, y)
        PROVE  Way(x, y)'
    <3>1. Empty(x, y) \/ FirstComes(x, y) \/ SecondComes(x, y)
          => Empty(x, y)' \/ FirstComes(x, y)' \/ SecondComes(x, y)'
      BY <2>2 DEF Empty, FirstComes, Away, SecondComes
    <3>2. Paired(x, y) \/ FirstLeaves(x, y) \/ Overtakes(x, y)
          => Paired(x, y)' \/ FirstLeaves(x, y)' \/ Overtakes(x, y)'
      BY <2>2 DEF Paired, FirstLeaves, Overtakes, Named
    <3>3. SecondLeaves(x, y) \/ Part(x, y) \/ Stuck(x, y)
          => SecondLeaves(x, y)' \/ Part(x, y)' \/ Stuck(x, y)'
      BY <2>2 DEF SecondLeaves, Part, Stuck, Named
    <3> QED  BY <2>4, <3>1, <3>2, <3>3 DEF Way
  <2> QED  BY <2>1, <2>3, <2>4 DEF RoomStep, RoomInv
<1>3. ~Terminate
  BY DEF RoomInv, Rest, Driver1, Terminate
<1>4. ASSUME NEW t \in Threads, CallEnter(t) \/ CallLeave(t) \/ WakeSpuriously(t) \/ Step(t)
      PROVE  RoomInv(p, q)' /\ RoomStep
  <2>1. ~WakeSpuriously(t) /\ t \in {p, q}
    BY DEF Driver1, WakeSpuriously
  <2>2. CASE Way(p, q)
    <3>1. GoesOn(p, q)
      BY <1>1, <1>4, <2>1, <2>2, StepGoesOn, CallGoesOn DEF RoomInv
    <3> QED  BY <3>1 DEF GoesOn, RoomInv
  <2>3. CASE Way(q, p)
    <3>1. GoesOn(q, p)
      BY <1>1, <1>4, <2>1, <2>3, StepGoesOn, CallGoesOn DEF RoomInv
    <3> QED  BY <3>1 DEF GoesOn, RoomInv
  <2> QED  BY <2>2, <2>3 DEF RoomInv
<1> QED  BY <1>2, <1>3, <1>4 DEF Next

-----------------------------------------------------------------------------
(* The properties of the run *)

LEMMA TwoNames ==
  ASSUME NEW p, NEW q, p # q
  PROVE  Cardinality({p, q}) = 2
<1>1. IsFiniteSet({p}) /\ Cardinality({p}) = 1
  BY FS_Singleton
<1>2. Cardinality({p} \cup {q}) = Cardinality({p}) + 1
  BY <1>1, FS_AddElement
<1>3. {p} \cup {q} = {p, q}
  OBVIOUS
<1> QED  BY <1>1, <1>2, <1>3

LEMMA WayNeverWild ==
  ASSUME NEW p \in Threads, NEW q \in Threads, Way(p, q), NEW u \in {p, q}
  PROVE  /\ pc[u] # "wild"
         /\ pc[u] = "in" => Named(p, q)
<1>1. pc[u] # "wild"
  BY WayFinds DEF Finds
<1>2. pc[u] = "in" => Paired(p, q) \/ FirstLeaves(p, q)
  BY DEF Way, Empty, FirstComes, Away, SecondComes, Overtakes, SecondLeaves, Part, Stuck, Ending,
     Cleared
<1>3. Paired(p, q) \/ FirstLeaves(p, q) => Named(p, q)
  BY DEF Paired, FirstLeaves, Named
<1> QED  BY <1>1, <1>2, <1>3

LEMMA RoomInvProperties ==
  ASSUME NEW p, NEW q, Driver1(p, q)
  PROVE  RoomInv(p, q) => NeverWild /\ EntersPaired
<1> SUFFICES ASSUME RoomInv(p, q) PROVE NeverWild /\ EntersPaired
  OBVIOUS
<1>1. p \in Threads /\ q \in Threads /\ p # q /\ Threads = {p, q} /\ 0 \in Slots
  BY MonitorConstants DEF MonitorConstants, Slots, Driver1
<1>2. ASSUME NEW u \in Threads
      PROVE  /\ pc[u] # "wild"
             /\ pc[u] = "in" => Named(p, q)
  <2>1. u \in {p, q} /\ {p, q} = {q, p}
    BY <1>1
  <2>2. CASE Way(p, q)
    BY <1>1, <2>1, <2>2, WayNeverWild
  <2>3. CASE Way(q, p)
    <3>1. pc[u] # "wild" /\ (pc[u] = "in" => Named(q, p))
      BY <1>1, <2>1, <2>3, WayNeverWild
    <3> QED  BY <3>1 DEF Named
  <2> QED  BY <2>2, <2>3 DEF RoomInv
<1>3. Named(p, q) => Names(0) = {p, q}
  <2>1. p # NoName /\ q # NoName
    BY <1>1, MonitorConstants DEF MonitorConstants
  <2> QED  BY <2>1 DEF Named, Names, Name0, Name1
<1>4. NeverWild
  BY <1>2 DEF NeverWild
<1>5. ASSUME NEW u \in Threads, pc[u] = "in"
      PROVE  \E i \in Slots : u \in Names(i) /\ Cardinality(Names(i)) = 2
  <2>1. Names(0) = {p, q}
    BY <1>2, <1>3, <1>5
  <2>2. Cardinality(Names(0)) = 2
    BY <1>1, <2>1, TwoNames
  <2>3. u \in Names(0)
    BY <1>1, <2>1
  <2> QED  BY <1>1, <2>2, <2>3
<1> QED  BY <1>4, <1>5 DEF EntersPaired

LEMMA AlwaysRoomInv ==
  ASSUME NEW p, NEW q, Driver1(p, q)
  PROVE  Spec => []RoomInv(p, q)
<1>1. Init => RoomInv(p, q)
  BY InitRoomInv
<1>2. Typed /\ RoomInv(p, q) /\ [Next]_vars => RoomInv(p, q)'
  BY NextRoomInv
<1> QED  BY <1>1, <1>2, AlwaysTyped, PTL DEF Spec

(* Two threads alone never fill a room (driver2's five do): enter() finds  *)
(* the pair in which the other one waits, or an empty one, and leave()     *)
(* finds the caller's name, for any capacity.                              *)
THEOREM TwoAreNeverWild ==
  ASSUME NEW p, NEW q, Driver1(p, q)
  PROVE  Spec => []NeverWild
<1>1. RoomInv(p, q) => NeverWild
  BY RoomInvProperties
<1>2. Spec => []RoomInv(p, q)
  BY AlwaysRoomInv
<1> QED  BY <1>1, <1>2, PTL

(* A thread comes back from enter() with a partner: the pair it is named   *)
(* in holds two different names.                                           *)
THEOREM TwoEnterPaired ==
  ASSUME NEW p, NEW q, Driver1(p, q)
  PROVE  Spec => []EntersPaired
<1>1. RoomInv(p, q) => EntersPaired
  BY RoomInvProperties
<1>2. Spec => []RoomInv(p, q)
  BY AlwaysRoomInv
<1> QED  BY <1>1, <1>2, PTL

(* Two threads whose calls do not overlap see the room of PairRoom,        *)
(* however often they visit it and however large it is: they enter         *)
(* together, each calls leave() once, and they are gone together, although *)
(* the mutex is left locked by enter() and passed in leave().              *)
THEOREM TwoUseTheRoom ==
  ASSUME NEW a, NEW b, Driver1(a, b)
  PROVE  Spec => ImplementsRoom
<1>1. Init => Room!Init
  <2> SUFFICES ASSUME Init PROVE Room!Init
    OBVIOUS
  <2>1. Hollow
    <3>1. Rest
      BY DEF Init, Rest, Unused
    <3>2. Name0 = NoName
      BY MonitorConstants DEF MonitorConstants, Init, Name0, Slots
    <3> QED  BY <3>1, <3>2, RoomEmpty
  <2> QED  BY <2>1 DEF Hollow, Pairs, Leavers, Room!Init
<1>2. Typed /\ RoomInv(a, b) /\ [Next]_vars => RoomStep
  BY NextRoomInv
<1>3. Typed /\ RoomInv(a, b) /\ [Next]_vars
      => [Room!Next]_<<{Names(i) : i \in {j \in Slots : Full(j)}},
                       {p \in UNION {Names(i) : i \in {j \in Slots : Full(j)}} : HasCalledLeave(p)}>>
  BY <1>2 DEF RoomStep, Pairs, Leavers
<1>4. Spec => []RoomInv(a, b)
  BY AlwaysRoomInv
<1> QED  BY <1>1, <1>3, <1>4, AlwaysTyped, PTL DEF Spec, ImplementsRoom, Room!Spec

=============================================================================
