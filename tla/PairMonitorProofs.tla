------------------------- MODULE PairMonitorProofs -------------------------
(***************************************************************************)
(* What PairMonitor keeps for any number of threads, any capacity, and     *)
(* calls that overlap in any way.                                          *)
(***************************************************************************)
EXTENDS PairMonitor, TLAPS

USE MonitorConstants DEF MonitorConstants

-----------------------------------------------------------------------------
(* Types *)

EnterOnly == {"name0", "running", "refuse", "wait1", "wait2", "full1a", "full1b", "full2a",
              "full2b", "come", "come_name", "join", "join_name", "in", "done"}
LeaveOnly == {"leaving", "go", "clear0", "clear1", "unlock_again", "reset1", "reset2"}
Both      == {"out", "wild", "gate", "close", "open", "lock", "find", "name1", "unlock", "sleep",
              "asleep", "signal"}
Labels    == EnterOnly \cup LeaveOnly \cup Both
NoPair    == {"running", "refuse", "done", "wild"}

(* Where a thread is, by its call and its index.                           *)
Fits(p) ==
  /\ pc[p] \in Labels /\ op[p] \in {"enter", "leave"} /\ idx[p] \in -1 .. Capacity
  /\ visits[p] \in 0 .. MaxVisits
  /\ idx[p] = Capacity => pc[p] = "find"
  /\ idx[p] = -1 => pc[p] \in NoPair
  /\ pc[p] \in EnterOnly => op[p] = "enter"
  /\ pc[p] \in LeaveOnly => op[p] = "leave"

Functions ==
  DOMAIN pc = Threads /\ DOMAIN op = Threads /\ DOMAIN idx = Threads /\ DOMAIN visits = Threads

Data ==
  /\ first \in BOOLEAN /\ running \in BOOLEAN /\ mutex \in BOOLEAN
  /\ waiting \in [Slots -> BOOLEAN] /\ leaving \in [Slots -> BOOLEAN]
  /\ name \in [Slots -> [0 .. 1 -> Threads \cup {NoName}]]
  /\ waitingPartner \in [Slots -> SUBSET Threads]
  /\ leavingPartner \in [Slots -> SUBSET Threads]
  /\ main \in -1 .. 2 * Capacity

Control ==
  /\ pc \in [Threads -> Labels] /\ op \in [Threads -> {"enter", "leave"}]
  /\ idx \in [Threads -> -1 .. Capacity] /\ visits \in [Threads -> 0 .. MaxVisits]

Typed == Data /\ Control /\ \A p \in Threads : Fits(p)

LEMMA TypedIsTypeOK == Typed => TypeOK
<1> SUFFICES ASSUME Typed PROVE TypeOK
  OBVIOUS
<1>1. pc \in [Threads ->
       {"out", "in", "done", "wild", "gate", "close", "open", "lock", "find", "name0", "name1",
        "running", "refuse", "wait1", "wait2", "full1a", "full1b", "full2a", "full2b", "come",
        "come_name", "join", "join_name", "unlock", "sleep", "asleep", "signal", "leaving", "go",
        "clear0", "clear1", "unlock_again", "reset1", "reset2"}]
  BY DEF Typed, Control, Labels, EnterOnly, LeaveOnly, Both
<1>2. \A p \in Threads :
       /\ (idx[p] = Capacity) => pc[p] = "find"
       /\ (idx[p] = -1) => pc[p] \in {"running", "refuse", "done", "wild"}
  BY DEF Typed, Fits, NoPair
<1> QED  BY <1>1, <1>2 DEF TypeOK, Typed, Data, Control

LEMMA InitTyped == Init => Typed
<1> SUFFICES ASSUME Init PROVE Typed
  OBVIOUS
<1>1. 0 \in -1 .. Capacity /\ 0 \in 0 .. MaxVisits /\ -1 \in -1 .. 2 * Capacity /\ 0 # Capacity
  OBVIOUS
<1>2. Data
  BY <1>1 DEF Init, Data
<1>3. "out" \in Labels /\ "out" \notin EnterOnly /\ "out" \notin LeaveOnly
  BY DEF Labels, EnterOnly, LeaveOnly, Both
<1>4. Control
  BY <1>1, <1>3 DEF Init, Control
<1>5. ASSUME NEW p \in Threads PROVE Fits(p)
  <2>1. pc[p] = "out" /\ op[p] = "enter" /\ idx[p] = 0 /\ visits[p] = 0
    BY DEF Init
  <2> QED  BY <2>1, <1>1, <1>3 DEF Fits
<1> QED  BY <1>2, <1>4, <1>5 DEF Typed

(* A thread that is not searching works on a pair of the list.             *)
LEMMA InSlots ==
  ASSUME NEW p \in Threads, Fits(p), pc[p] # "find", pc[p] \notin NoPair
  PROVE  idx[p] \in Slots
BY DEF Fits, Slots

(* A step of p moves p alone.                                              *)
Alone(p) ==
  \A q \in Threads \ {p} :
    pc'[q] = pc[q] /\ op'[q] = op[q] /\ idx'[q] = idx[q] /\ visits'[q] = visits[q]

LEMMA OthersFit ==
  ASSUME Typed, NEW p \in Threads, Alone(p), Fits(p)'
  PROVE  \A q \in Threads : Fits(q)'
BY DEF Typed, Fits, Alone

(* A step that only changes where p is, and goes to a place of its call.   *)
Goes(p) ==
  /\ pc' = [pc EXCEPT ![p] = pc'[p]] /\ op' = op /\ idx' = idx /\ visits' = visits
  /\ pc'[p] \in Labels
  /\ pc[p] # "find" /\ (pc[p] \in NoPair => pc'[p] \in NoPair)
  /\ (pc'[p] \in EnterOnly => op[p] = "enter") /\ (pc'[p] \in LeaveOnly => op[p] = "leave")

LEMMA Moved ==
  ASSUME Typed, NEW p \in Threads, Goes(p)
  PROVE  Control' /\ Alone(p) /\ \A q \in Threads : Fits(q)'
<1>0. pc \in [Threads -> Labels] /\ op \in [Threads -> {"enter", "leave"}]
      /\ idx \in [Threads -> -1 .. Capacity] /\ visits \in [Threads -> 0 .. MaxVisits]
  BY DEF Typed, Control
<1>1. op'[p] = op[p] /\ idx'[p] = idx[p] /\ visits'[p] = visits[p]
  BY DEF Goes
<1>2. Fits(p)
  BY DEF Typed
<1>3. idx[p] # Capacity
  BY <1>2 DEF Fits, Goes
<1>4. idx[p] = -1 => pc'[p] \in NoPair
  BY <1>2 DEF Fits, Goes
<1>5. Fits(p)'
  BY <1>1, <1>2, <1>3, <1>4 DEF Fits, Goes
<1>6. pc' \in [Threads -> Labels]
  BY <1>0 DEF Goes
<1>7. \A q \in Threads \ {p} : pc'[q] = pc[q]
  BY <1>0 DEF Goes
<1>8. Control' /\ Alone(p)
  BY <1>0, <1>6, <1>7 DEF Control, Alone, Goes
<1> QED  BY <1>5, <1>8, OthersFit

LEMMA GateGoes ==
  ASSUME Typed, NEW p \in Threads, ReadFirst(p) \/ WriteFirst(p) \/ Lock(p)
  PROVE  Goes(p)
<1> USE DEF Goes, Goto, Labels, EnterOnly, LeaveOnly, Both, NoPair
<1>0. DOMAIN pc = Threads
  BY DEF Typed, Control
<1>1. CASE ReadFirst(p)
  BY <1>0, <1>1 DEF ReadFirst
<1>2. CASE WriteFirst(p)
  BY <1>0, <1>2 DEF WriteFirst
<1>3. CASE Lock(p)
  BY <1>0, <1>3 DEF Lock
<1> QED  BY <1>1, <1>2, <1>3

LEMMA EnterGoes ==
  ASSUME Typed, NEW p \in Threads,
         \/ Refuse(p) \/ ReadWaiting(p) \/ ReadNames(p)
         \/ WriteWaiting(p) \/ WriteName(p) \/ EnterUnlock(p)
  PROVE  Goes(p)
<1> USE DEF Goes, Goto, Labels, EnterOnly, LeaveOnly, Both, NoPair
<1>0. DOMAIN pc = Threads /\ (pc[p] \in EnterOnly => op[p] = "enter")
  BY DEF Typed, Fits, Control
<1>1. CASE Refuse(p)
  BY <1>0, <1>1 DEF Refuse
<1>2. CASE ReadWaiting(p)
  BY <1>0, <1>2 DEF ReadWaiting
<1>3. CASE ReadNames(p)
  BY <1>0, <1>3 DEF ReadNames
<1>4. CASE WriteWaiting(p)
  BY <1>0, <1>4 DEF WriteWaiting
<1>5. CASE WriteName(p)
  BY <1>0, <1>5 DEF WriteName
<1>6. CASE EnterUnlock(p)
  BY <1>0, <1>6 DEF EnterUnlock
<1> QED  BY <1>1, <1>2, <1>3, <1>4, <1>5, <1>6

LEMMA OtherGoes ==
  ASSUME Typed, NEW p \in Threads,
         \/ Sleep(p) \/ Wake(p) \/ Signal(p)
         \/ ReadLeaving(p) \/ WriteLeaving(p) \/ ClearName(p) \/ LeaveUnlock(p)
         \/ ResetWaiting(p)
  PROVE  Goes(p)
<1> USE DEF Goes, Goto, Labels, EnterOnly, LeaveOnly, Both, NoPair
<1>0. /\ DOMAIN pc = Threads
      /\ pc[p] \in LeaveOnly => op[p] = "leave"
      /\ op[p] \in {"enter", "leave"}
  BY DEF Typed, Fits, Control
<1>1. CASE Sleep(p)
  BY <1>0, <1>1 DEF Sleep
<1>2. CASE Wake(p)
  BY <1>0, <1>2 DEF Wake
<1>3. CASE Signal(p)
  BY <1>0, <1>3 DEF Signal
<1>4. CASE ReadLeaving(p)
  BY <1>0, <1>4 DEF ReadLeaving
<1>5. CASE WriteLeaving(p)
  BY <1>0, <1>5 DEF WriteLeaving
<1>6. CASE ClearName(p)
  BY <1>0, <1>6 DEF ClearName
<1>7. CASE LeaveUnlock(p)
  BY <1>0, <1>7 DEF LeaveUnlock
<1>8. CASE ResetWaiting(p)
  BY <1>0, <1>8 DEF ResetWaiting
<1> QED  BY <1>1, <1>2, <1>3, <1>4, <1>5, <1>6, <1>7, <1>8

(* The calls and the searches also set op or idx.                          *)
LEMMA CallsMove ==
  ASSUME Typed, NEW p \in Threads,
         \/ CallEnter(p) \/ CallLeave(p) \/ FindAvailable(p) \/ CheckRunning(p) \/ FindThread(p)
  PROVE  Control' /\ Alone(p) /\ \A q \in Threads : Fits(q)'
<1>0. pc \in [Threads -> Labels] /\ op \in [Threads -> {"enter", "leave"}]
      /\ idx \in [Threads -> -1 .. Capacity] /\ visits \in [Threads -> 0 .. MaxVisits]
  BY DEF Typed, Control
<1>p. Fits(p)
  BY DEF Typed
<1>1. CASE CallEnter(p)
  <2>1. visits[p] + 1 \in 0 .. MaxVisits /\ 0 \in -1 .. Capacity /\ 0 # Capacity
    <3>1. visits[p] \in 0 .. MaxVisits
      BY <1>0
    <3> QED  BY <1>1, <3>1 DEF CallEnter
  <2>2. "gate" \in Labels /\ "gate" \notin EnterOnly /\ "gate" \notin LeaveOnly
    BY DEF Labels, EnterOnly, LeaveOnly, Both
  <2>3. Control' /\ Alone(p)
    BY <1>0, <1>1, <2>1, <2>2 DEF CallEnter, Goto, Control, Alone
  <2>4. Fits(p)'
    BY <1>0, <1>1, <2>1, <2>2 DEF CallEnter, Goto, Fits
  <2> QED  BY <2>3, <2>4, OthersFit
<1>2. CASE CallLeave(p)
  <2>1. 0 \in -1 .. Capacity /\ 0 # Capacity
    OBVIOUS
  <2>2. "gate" \in Labels /\ "gate" \notin EnterOnly /\ "gate" \notin LeaveOnly
    BY DEF Labels, EnterOnly, LeaveOnly, Both
  <2>3. Control' /\ Alone(p)
    BY <1>0, <1>2, <2>1, <2>2 DEF CallLeave, Goto, Control, Alone
  <2>4. Fits(p)'
    BY <1>0, <1>2, <2>1, <2>2 DEF CallLeave, Goto, Fits
  <2> QED  BY <2>3, <2>4, OthersFit
<1>3. CASE CheckRunning(p)
  <2>1. /\ pc' = [pc EXCEPT ![p] = pc'[p]] /\ op' = op /\ idx' = idx /\ visits' = visits
        /\ pc'[p] \in {"refuse", "wild", "wait1"} /\ (pc'[p] = "wait1" => idx[p] # -1)
        /\ pc[p] = "running"
    BY <1>0, <1>3 DEF CheckRunning, Goto
  <2>2. /\ pc'[p] \in Labels /\ pc'[p] \notin LeaveOnly
        /\ pc'[p] # "wait1" => pc'[p] \in NoPair
        /\ pc[p] \in EnterOnly
    BY <2>1 DEF Labels, EnterOnly, LeaveOnly, Both, NoPair
  <2>3. Control' /\ Alone(p)
    BY <1>0, <2>1, <2>2 DEF Control, Alone
  <2>4. Fits(p)'
    BY <1>p, <2>1, <2>2 DEF Fits
  <2> QED  BY <2>3, <2>4, OthersFit
<1>4. CASE FindAvailable(p) \/ FindThread(p)
  <2>0. op' = op /\ visits' = visits /\ pc[p] \in {"find", "name0", "name1"}
    BY <1>4 DEF FindAvailable, FindThread
  <2>1. /\ pc' = [pc EXCEPT ![p] = pc'[p]]
        /\ \/ pc'[p] \in {"running", "wild"}
           \/ pc'[p] \in {"name0", "name1", "leaving"}
           \/ pc'[p] = "find"
        /\ pc'[p] \in {"running", "name0"} => op[p] = "enter"
        /\ pc'[p] = "leaving" => op[p] = "leave"
    <3>1. CASE FindAvailable(p)
      BY <1>0, <3>1 DEF FindAvailable, Goto
    <3>2. CASE FindThread(p)
      BY <1>0, <3>2 DEF FindThread, Goto
    <3> QED  BY <1>4, <3>1, <3>2
  <2>2. /\ idx' = [idx EXCEPT ![p] = idx'[p]]
        /\ \/ idx'[p] = -1 /\ pc'[p] \in {"running", "wild"}
           \/ idx'[p] = idx[p] /\ idx[p] # Capacity
           \/ idx'[p] = idx[p] + 1 /\ idx[p] # Capacity /\ pc'[p] = "find"
    <3>1. idx[p] # Capacity \/ pc[p] = "find"
      BY <1>p DEF Fits
    <3>2. CASE FindAvailable(p)
      BY <1>0, <3>1, <3>2 DEF FindAvailable, Goto, Missed
    <3>3. CASE FindThread(p)
      BY <1>0, <3>1, <3>3 DEF FindThread, Goto, Missed
    <3> QED  BY <1>4, <3>2, <3>3
  <2>3. /\ pc'[p] \in Labels
        /\ pc'[p] \in LeaveOnly => pc'[p] = "leaving"
        /\ pc'[p] \in EnterOnly => pc'[p] \in {"running", "name0"}
        /\ pc'[p] \in {"running", "wild"} => pc'[p] \in NoPair
        /\ pc[p] \notin NoPair
    BY <2>0, <2>1 DEF Labels, EnterOnly, LeaveOnly, Both, NoPair
  <2>4. idx[p] \in 0 .. Capacity
    <3>1. idx[p] \in -1 .. Capacity /\ idx[p] # -1
      BY <1>p, <2>3 DEF Fits
    <3> QED  BY <3>1
  <2>5. idx'[p] \in -1 .. Capacity
    BY <2>2, <2>4
  <2>6. Control' /\ Alone(p)
    BY <1>0, <2>0, <2>1, <2>2, <2>3, <2>5 DEF Control, Alone
  <2>7. idx'[p] = Capacity => pc'[p] = "find"
    BY <2>2, <2>4
  <2>8. idx'[p] = -1 => pc'[p] \in NoPair
    BY <2>2, <2>3, <2>4
  <2>9. Fits(p)'
    BY <1>p, <2>0, <2>1, <2>3, <2>5, <2>7, <2>8 DEF Fits
  <2> QED  BY <2>6, <2>9, OthersFit
<1> QED  BY <1>1, <1>2, <1>3, <1>4

LEMMA StepControl ==
  ASSUME Typed, NEW p \in Threads, CallEnter(p) \/ CallLeave(p) \/ WakeSpuriously(p) \/ Step(p)
  PROVE  Control' /\ Alone(p) /\ \A q \in Threads : Fits(q)'
<1>1. CASE WakeSpuriously(p)
  <2>1. pc' = pc /\ op' = op /\ idx' = idx /\ visits' = visits
    BY <1>1 DEF WakeSpuriously
  <2> QED  BY <2>1 DEF Typed, Control, Alone, Fits
<1> QED  BY <1>1, GateGoes, EnterGoes, OtherGoes, Moved, CallsMove DEF Step

LEMMA SignalType ==
  ASSUME Data, NEW i, SignalWaiting(i) \/ SignalLeaving(i)
  PROVE  waitingPartner' \in [Slots -> SUBSET Threads] /\ leavingPartner' \in [Slots -> SUBSET Threads]
BY DEF Data, SignalWaiting, SignalLeaving

LEMMA NameType ==
  ASSUME Data, NEW i \in Slots, NEW k \in 0 .. 1, NEW x \in Threads \cup {NoName}
  PROVE  [name EXCEPT ![i][k] = x] \in [Slots -> [0 .. 1 -> Threads \cup {NoName}]]
<1> DEFINE Names2 == [0 .. 1 -> Threads \cup {NoName}]
<1>1. name \in [Slots -> Names2]
  BY DEF Data
<1>2. name[i] \in Names2
  BY <1>1
<1>3. [name[i] EXCEPT ![k] = x] \in Names2
  BY <1>2
<1> HIDE DEF Names2
<1>4. [name EXCEPT ![i] = [name[i] EXCEPT ![k] = x]] \in [Slots -> Names2]
  BY <1>1, <1>3
<1> QED  BY <1>4 DEF Names2

LEMMA StepData ==
  ASSUME Typed, NEW p \in Threads, CallEnter(p) \/ CallLeave(p) \/ WakeSpuriously(p) \/ Step(p)
  PROVE  Data'
<1> USE DEF Typed
<1>1. CASE \/ CallEnter(p) \/ CallLeave(p) \/ ReadFirst(p) \/ FindAvailable(p) \/ CheckRunning(p)
           \/ ReadWaiting(p) \/ ReadNames(p) \/ FindThread(p) \/ ReadLeaving(p)
  <2>1. UNCHANGED <<sharedVars, main>>
    BY <1>1 DEF CallEnter, CallLeave, ReadFirst, FindAvailable, CheckRunning, ReadWaiting,
       ReadNames, FindThread, ReadLeaving
  <2> QED  BY <2>1 DEF Data, sharedVars, pairVars, condVars
<1>2. CASE WriteFirst(p) \/ Lock(p) \/ Refuse(p) \/ EnterUnlock(p) \/ Wake(p) \/ LeaveUnlock(p)
  BY <1>2 DEF WriteFirst, Lock, Refuse, EnterUnlock, Wake, LeaveUnlock, Data, pairVars, condVars
<1>3. CASE WriteWaiting(p) \/ ResetWaiting(p) \/ WriteLeaving(p)
  <2>1. waiting' \in [Slots -> BOOLEAN] /\ leaving' \in [Slots -> BOOLEAN]
    BY <1>3 DEF WriteWaiting, ResetWaiting, WriteLeaving, Data
  <2> QED  BY <1>3, <2>1 DEF WriteWaiting, ResetWaiting, WriteLeaving, Data, condVars
<1>4. CASE WriteName(p) \/ ClearName(p)
  <2>1. name' \in [Slots -> [0 .. 1 -> Threads \cup {NoName}]]
    <3>1. pc[p] # "find" /\ pc[p] \notin NoPair
      BY <1>4 DEF WriteName, ClearName, NoPair
    <3>2. idx[p] \in Slots
      BY <3>1, InSlots
    <3>3. \/ name' = [name EXCEPT ![idx[p]][0] = p]
          \/ name' = [name EXCEPT ![idx[p]][1] = p]
          \/ name' = [name EXCEPT ![idx[p]][0] = NoName]
          \/ name' = [name EXCEPT ![idx[p]][1] = NoName]
      BY <1>4 DEF WriteName, ClearName
    <3>4. 0 \in 0 .. 1 /\ 1 \in 0 .. 1
      OBVIOUS
    <3>5. \A k \in 0 .. 1, x \in Threads \cup {NoName} :
            [name EXCEPT ![idx[p]][k] = x] \in [Slots -> [0 .. 1 -> Threads \cup {NoName}]]
      BY <3>2, NameType
    <3> QED  BY <3>3, <3>4, <3>5
  <2> QED  BY <1>4, <2>1 DEF WriteName, ClearName, Data, condVars
<1>5. CASE Sleep(p) \/ Signal(p) \/ WakeSpuriously(p)
  <2>1. waitingPartner' \in [Slots -> SUBSET Threads] /\ leavingPartner' \in [Slots -> SUBSET Threads]
    <3>1. CASE Sleep(p)
      BY <3>1 DEF Sleep, Data
    <3>2. CASE Signal(p)
      BY <3>2, SignalType DEF Signal, Data
    <3>3. CASE WakeSpuriously(p)
      BY <3>3 DEF WakeSpuriously, Data
    <3> QED  BY <1>5, <3>1, <3>2, <3>3
  <2> QED  BY <1>5, <2>1 DEF Sleep, Signal, WakeSpuriously, Data, pairVars
<1> QED  BY <1>1, <1>2, <1>3, <1>4, <1>5 DEF Step

LEMMA TerminateTyped == Typed /\ Terminate => Typed'
<1> SUFFICES ASSUME Typed, Terminate PROVE Typed'
  OBVIOUS
<1> USE DEF Typed
<1>1. waitingPartner' \in [Slots -> SUBSET Threads] /\ leavingPartner' \in [Slots -> SUBSET Threads]
  BY SignalType DEF Terminate, condVars, Data
<1>2. main' \in -1 .. 2 * Capacity
  <2>1. main \in -1 .. 2 * Capacity
    BY DEF Data
  <2> QED  BY <2>1 DEF Terminate
<1>3. pc' = pc /\ op' = op /\ idx' = idx /\ visits' = visits
  BY DEF Terminate
<1>4. Data'
  BY <1>1, <1>2 DEF Terminate, Data, pairVars
<1> QED  BY <1>3, <1>4 DEF Control, Fits

LEMMA NextTyped == Typed /\ [Next]_vars => Typed'
<1>1. ASSUME Typed, UNCHANGED vars PROVE Typed'
  <2>1. UNCHANGED <<sharedVars, main>> /\ pc' = pc /\ op' = op /\ idx' = idx /\ visits' = visits
    BY <1>1 DEF vars
  <2> QED  BY <1>1, <2>1 DEF Typed, Data, Control, Fits, sharedVars, pairVars, condVars
<1>2. ASSUME Typed, NEW p \in Threads, CallEnter(p) \/ CallLeave(p) \/ WakeSpuriously(p) \/ Step(p)
      PROVE  Typed'
  BY <1>2, StepControl, StepData DEF Typed
<1> QED  BY <1>1, <1>2, TerminateTyped DEF Next

LEMMA AlwaysTyped == Spec => []Typed
BY InitTyped, NextTyped, PTL DEF Spec

(* The variables of the monitor keep their types: whatever calls overlap,  *)
(* a thread works on a pair of the list, or was refused or is lost.        *)
THEOREM TypeCorrect == Spec => []TypeOK
BY TypedIsTypeOK, AlwaysTyped, PTL

-----------------------------------------------------------------------------
(* Where a name is *)

Inside == {"wait1", "wait2", "full1a", "full1b", "full2a", "full2b", "come", "come_name", "join",
           "join_name", "unlock", "sleep", "asleep", "signal", "in"}

(* The k-th name of pair i is that of p: p works on the pair, or has still *)
(* to find it.                                                             *)
Where(p, i, k) ==
  \/ op[p] = "enter" /\ pc[p] \in Inside /\ i = idx[p]
  \/ /\ op[p] = "leave"
     /\ \/ pc[p] \in {"gate", "close", "open", "lock"} /\ idx[p] = 0
        \/ pc[p] = "find" /\ i >= idx[p]
        \/ pc[p] = "name1" /\ (i > idx[p] \/ (i = idx[p] /\ k = 1))
        \/ pc[p] \in {"leaving", "go", "sleep", "asleep", "signal", "clear0"} /\ i = idx[p]
        \/ pc[p] = "clear1" /\ i = idx[p] /\ k = 1

Placed == \A p \in Threads, i \in Slots, k \in 0 .. 1 : name[i][k] = p => Where(p, i, k)

Apart ==
  \A p \in Threads, i, j \in Slots, k, m \in 0 .. 1 :
    (name[i][k] = p /\ name[j][m] = p) => i = j

LEMMA InitPlaced == Init => Placed /\ Apart
BY DEF Init, Placed, Apart

LEMMA Put ==
  ASSUME NEW S, NEW K, NEW V, NEW f \in [S -> [K -> V]], NEW j, NEW m, NEW x,
         NEW i \in S, NEW k \in K
  PROVE  [f EXCEPT ![j][m] = x][i][k] = IF i = j /\ k = m THEN x ELSE f[i][k]
OBVIOUS

(* A thread writes its own name, into the pair on which it works, or the   *)
(* empty one.                                                              *)
Written(t, i, k) ==
  \/ name'[i][k] = name[i][k] \/ name'[i][k] = NoName
  \/ name'[i][k] = t /\ i = idx[t] /\ pc[t] \in {"come_name", "join_name"}

LEMMA NameWritten ==
  ASSUME Typed, NEW t \in Threads, CallEnter(t) \/ CallLeave(t) \/ WakeSpuriously(t) \/ Step(t),
         NEW i \in Slots, NEW k \in 0 .. 1
  PROVE  Written(t, i, k)
<1>1. CASE WriteName(t)
  <2>1. name \in [Slots -> [0 .. 1 -> Threads \cup {NoName}]]
    BY DEF Typed, Data
  <2>2. \/ pc[t] = "come_name" /\ name' = [name EXCEPT ![idx[t]][0] = t]
        \/ pc[t] = "join_name" /\ name' = [name EXCEPT ![idx[t]][1] = t]
    BY <1>1 DEF WriteName
  <2>3. name'[i][k] = name[i][k] \/ (i = idx[t] /\ name'[i][k] = t)
    <3>1. CASE name' = [name EXCEPT ![idx[t]][0] = t]
      BY <2>1, <3>1, Put
    <3>2. CASE name' = [name EXCEPT ![idx[t]][1] = t]
      BY <2>1, <3>2, Put
    <3> QED  BY <2>2, <3>1, <3>2
  <2> QED  BY <2>2, <2>3 DEF Written
<1>2. CASE ClearName(t)
  <2>1. name \in [Slots -> [0 .. 1 -> Threads \cup {NoName}]]
    BY DEF Typed, Data
  <2>2. \/ name' = [name EXCEPT ![idx[t]][0] = NoName]
        \/ name' = [name EXCEPT ![idx[t]][1] = NoName]
    BY <1>2 DEF ClearName
  <2>3. name'[i][k] = name[i][k] \/ name'[i][k] = NoName
    <3>1. CASE name' = [name EXCEPT ![idx[t]][0] = NoName]
      BY <2>1, <3>1, Put
    <3>2. CASE name' = [name EXCEPT ![idx[t]][1] = NoName]
      BY <2>1, <3>2, Put
    <3> QED  BY <2>2, <3>1, <3>2
  <2> QED  BY <2>3 DEF Written
<1>3. CASE ~WriteName(t) /\ ~ClearName(t)
  <2>1. name' = name
    <3>1. CASE \/ CallEnter(t) \/ CallLeave(t) \/ ReadFirst(t) \/ FindAvailable(t) \/ CheckRunning(t)
               \/ ReadWaiting(t) \/ ReadNames(t) \/ FindThread(t) \/ ReadLeaving(t)
      BY <3>1 DEF CallEnter, CallLeave, ReadFirst, FindAvailable, CheckRunning, ReadWaiting,
         ReadNames, FindThread, ReadLeaving, sharedVars, pairVars
    <3>2. CASE WriteFirst(t) \/ Lock(t) \/ Refuse(t) \/ EnterUnlock(t) \/ Wake(t) \/ LeaveUnlock(t)
      BY <3>2 DEF WriteFirst, Lock, Refuse, EnterUnlock, Wake, LeaveUnlock, pairVars
    <3>3. CASE \/ WriteWaiting(t) \/ ResetWaiting(t) \/ WriteLeaving(t)
               \/ Sleep(t) \/ Signal(t) \/ WakeSpuriously(t)
      BY <3>3 DEF WriteWaiting, ResetWaiting, WriteLeaving, Sleep, Signal, WakeSpuriously, pairVars
    <3> QED  BY <1>3, <3>1, <3>2, <3>3 DEF Step
  <2> QED  BY <2>1 DEF Written
<1> QED  BY <1>1, <1>2, <1>3

(* Other threads do not touch what Where says of p.                        *)
LEMMA WhereOthers ==
  ASSUME NEW t \in Threads, Alone(t), NEW p \in Threads, p # t, NEW i, NEW k, Where(p, i, k)
  PROVE  Where(p, i, k)'
<1>1. op'[p] = op[p] /\ pc'[p] = pc[p] /\ idx'[p] = idx[p]
  BY DEF Alone
<1> QED  BY <1>1 DEF Where

(* A thread that goes on keeps to its pair.                                *)
LEMMA WhereOwn ==
  ASSUME Typed, Placed, Apart, NEW p \in Threads,
         CallEnter(p) \/ CallLeave(p) \/ WakeSpuriously(p) \/ Step(p),
         NEW i \in Slots, NEW k \in 0 .. 1, name'[i][k] = p
  PROVE  Where(p, i, k)'
<1>0. DOMAIN pc = Threads /\ DOMAIN op = Threads /\ DOMAIN idx = Threads
  BY DEF Typed, Control
<1>f. Fits(p)
  BY DEF Typed
<1>n. name \in [Slots -> [0 .. 1 -> Threads \cup {NoName}]]
  BY DEF Typed, Data
<1>w. \/ name[i][k] = p /\ Where(p, i, k)
      \/ i = idx[p] /\ pc[p] \in {"come_name", "join_name"}
  <2>1. name[i][k] = p \/ (i = idx[p] /\ pc[p] \in {"come_name", "join_name"})
    <3>1. \/ name'[i][k] = name[i][k] \/ name'[i][k] = NoName
          \/ name'[i][k] = p /\ i = idx[p] /\ pc[p] \in {"come_name", "join_name"}
      <4>1. Written(p, i, k)
        BY NameWritten
      <4> QED  BY ONLY <4>1 DEF Written
    <3>2. p # NoName
      BY MonitorConstants
    <3> QED  BY <3>1, <3>2
  <2>2. name[i][k] = p => Where(p, i, k)
    BY DEF Placed
  <2> QED  BY <2>1, <2>2
<1>i. i \in Int /\ idx[p] \in Int
  <2>1. idx[p] \in -1 .. Capacity
    BY <1>f DEF Fits
  <2> QED  BY <2>1 DEF Slots
<1>1. CASE CallEnter(p) \/ CallLeave(p)
  BY <1>0, <1>1, <1>w DEF CallEnter, CallLeave, Goto, Where, Inside
<1>2. CASE ReadFirst(p) \/ WriteFirst(p) \/ Lock(p)
  <2>1. idx' = idx /\ op' = op /\ pc[p] \in {"gate", "close", "open", "lock"}
    BY <1>2 DEF ReadFirst, WriteFirst, Lock
  <2>2. pc'[p] \in {"close", "open", "lock", "find"}
    BY <1>0, <1>2 DEF ReadFirst, WriteFirst, Lock, Goto
  <2>3. i >= 0
    BY DEF Slots
  <2> QED  BY <2>1, <2>2, <2>3, <1>w DEF Where, Inside
<1>3. CASE \/ CheckRunning(p) \/ Refuse(p) \/ ReadWaiting(p) \/ ReadNames(p)
           \/ WriteWaiting(p) \/ EnterUnlock(p)
  <2>1. idx' = idx /\ op' = op /\ pc[p] \in {"running", "refuse", "wait1", "wait2", "full1a",
             "full1b", "full2a", "full2b", "come", "join", "unlock"}
    BY <1>3 DEF CheckRunning, Refuse, ReadWaiting, ReadNames, WriteWaiting, EnterUnlock
  <2>2. pc[p] \in {"running", "refuse"} \/ pc'[p] \in Inside
    BY <1>0, <1>3 DEF CheckRunning, Refuse, ReadWaiting, ReadNames, WriteWaiting, EnterUnlock,
       Goto, Inside
  <2>3. pc[p] = "unlock" => op[p] = "enter"
    BY <1>3 DEF CheckRunning, Refuse, ReadWaiting, ReadNames, WriteWaiting, EnterUnlock
  <2> QED  BY <2>1, <2>2, <2>3, <1>w DEF Where, Inside
<1>4. CASE WriteName(p)
  <2>1. idx' = idx /\ op' = op /\ pc[p] \in {"come_name", "join_name"}
    BY <1>4 DEF WriteName
  <2>2. pc'[p] \in Inside
    BY <1>0, <1>4 DEF WriteName, Goto, Inside
  <2>3. op[p] = "enter"
    BY <1>f, <2>1 DEF Fits, EnterOnly
  <2> QED  BY <2>1, <2>2, <2>3, <1>w DEF Where
<1>5. CASE Sleep(p) \/ Wake(p) \/ Signal(p) \/ WakeSpuriously(p)
  <2>1. idx' = idx /\ op' = op /\ pc[p] \in {"sleep", "asleep", "signal"}
    BY <1>5 DEF Sleep, Wake, Signal, WakeSpuriously
  <2>2. \/ op[p] = "enter" /\ pc'[p] \in {"asleep", "wait1", "unlock"}
        \/ op[p] = "leave" /\ pc'[p] \in {"asleep", "leaving", "clear0"}
    BY <1>0, <1>f, <1>5 DEF Sleep, Wake, Signal, WakeSpuriously, Goto, Fits
  <2> QED  BY <2>1, <2>2, <1>w DEF Where, Inside
<1>6. CASE ReadLeaving(p) \/ WriteLeaving(p) \/ LeaveUnlock(p) \/ ResetWaiting(p)
  <2>1. idx' = idx /\ op' = op
        /\ pc[p] \in {"leaving", "go", "reset1", "unlock", "unlock_again", "reset2"}
    BY <1>6 DEF ReadLeaving, WriteLeaving, LeaveUnlock, ResetWaiting
  <2>2. /\ pc[p] \in {"leaving", "go"} => pc'[p] \in {"go", "signal", "sleep"}
        /\ pc[p] = "unlock" => op[p] = "leave"
    BY <1>0, <1>6 DEF ReadLeaving, WriteLeaving, LeaveUnlock, ResetWaiting, Goto
  <2> QED  BY <2>1, <2>2, <1>w DEF Where, Inside
<1>7. CASE ClearName(p)
  <2>1. idx' = idx /\ op' = op /\ pc[p] \in {"clear0", "clear1"}
    BY <1>7 DEF ClearName
  <2>2. name[i][k] = p /\ op[p] = "leave" /\ i = idx[p] /\ (pc[p] = "clear1" => k = 1)
    BY <2>1, <1>w DEF Where, Inside
  <2>3. CASE pc[p] = "clear0"
    <3>1. pc'[p] = "clear1" /\ name' = [name EXCEPT ![idx[p]][0] = NoName]
      BY <1>0, <1>7, <2>3 DEF ClearName, Goto
    <3>2. name'[i][k] = IF i = idx[p] /\ k = 0 THEN NoName ELSE name[i][k]
      BY <1>n, <3>1, Put
    <3>3. k = 1
      BY <2>2, <3>2, MonitorConstants
    <3> QED  BY <2>1, <2>2, <3>1, <3>3 DEF Where
  <2>4. CASE pc[p] = "clear1"
    <3>1. name' = [name EXCEPT ![idx[p]][1] = NoName]
      BY <1>7, <2>4 DEF ClearName
    <3>2. name'[i][k] = IF i = idx[p] /\ k = 1 THEN NoName ELSE name[i][k]
      BY <1>n, <3>1, Put
    <3> QED  BY <2>2, <2>4, <3>2, MonitorConstants
  <2> QED  BY <2>1, <2>3, <2>4
<1>8. CASE FindAvailable(p)
  BY <1>8, <1>w DEF FindAvailable, Where, Inside
<1>9. CASE FindThread(p)
  <2>1. op' = op /\ op[p] = "leave" /\ pc[p] \in {"find", "name1"}
    BY <1>9 DEF FindThread
  <2>2. name[i][k] = p /\ i >= idx[p] /\ ((pc[p] = "name1" /\ i = idx[p]) => k = 1)
    <3>1. name[i][k] = p /\ Where(p, i, k)
      BY <1>w, <2>1
    <3>2. \/ pc[p] = "find" /\ i >= idx[p]
          \/ pc[p] = "name1" /\ (i > idx[p] \/ (i = idx[p] /\ k = 1))
      BY <2>1, <3>1 DEF Where
    <3> QED  BY <1>i, <3>1, <3>2
  <2>3. i \in 0 .. Capacity - 1
    BY DEF Slots
  <2>4. idx[p] \in Slots
    <3>1. idx[p] \in -1 .. Capacity /\ idx[p] # -1
      BY <1>f, <2>1 DEF Fits, NoPair
    <3> QED  BY <2>2, <2>3, <3>1 DEF Slots
  <2>5. ~Missed(p)
    BY <2>4 DEF Missed, Slots
  <2>6. \A m \in 0 .. 1 : name[idx[p]][m] = p => i = idx[p]
    BY <2>2, <2>4 DEF Apart
  <2>7. 0 \in 0 .. 1 /\ 1 \in 0 .. 1
    OBVIOUS
  <2>8. CASE pc[p] = "find"
    <3>1. idx' = idx /\ pc'[p] = IF name[idx[p]][0] = p THEN "leaving" ELSE "name1"
      BY <1>0, <1>9, <2>5, <2>8 DEF FindThread, Goto
    <3>2. CASE name[idx[p]][0] = p
      BY <2>1, <2>6, <2>7, <3>1, <3>2 DEF Where
    <3>3. CASE name[idx[p]][0] # p
      <4>1. i = idx[p] => k = 1
        BY <2>2, <3>3
      <4>2. i > idx[p] \/ (i = idx[p] /\ k = 1)
        BY <1>i, <2>2, <4>1
      <4> QED  BY <2>1, <3>1, <3>3, <4>2 DEF Where
    <3> QED  BY <3>2, <3>3
  <2>9. CASE pc[p] = "name1"
    <3>1. CASE name[idx[p]][1] = p
      <4>1. idx' = idx /\ pc'[p] = "leaving"
        BY <1>0, <1>9, <2>9, <3>1 DEF FindThread, Goto
      <4> QED  BY <2>1, <2>6, <2>7, <3>1, <4>1 DEF Where
    <3>2. CASE name[idx[p]][1] # p
      <4>1. idx'[p] = idx[p] + 1 /\ pc'[p] = "find"
        BY <1>0, <1>9, <2>9, <3>2 DEF FindThread, Goto
      <4>2. i # idx[p]
        BY <2>2, <2>9, <3>2
      <4>3. i >= idx[p] + 1
        BY <1>i, <2>2, <4>2
      <4> QED  BY <2>1, <4>1, <4>3 DEF Where
    <3> QED  BY <3>1, <3>2
  <2> QED  BY <2>1, <2>8, <2>9
<1> QED  BY <1>1, <1>2, <1>3, <1>4, <1>5, <1>6, <1>7, <1>8, <1>9 DEF Step

(* What Placed says holds of p after a step of t.                          *)
LEMMA StepPlaced ==
  ASSUME Typed, Placed, Apart, NEW t \in Threads,
         CallEnter(t) \/ CallLeave(t) \/ WakeSpuriously(t) \/ Step(t)
  PROVE  Placed'
<1>w. \A i \in Slots, k \in 0 .. 1 : Written(t, i, k)
  BY NameWritten
<1> SUFFICES ASSUME NEW p \in Threads, NEW i \in Slots, NEW k \in 0 .. 1, name'[i][k] = p
             PROVE  Where(p, i, k)'
  BY DEF Placed, Slots
<1>1. CASE p = t
  <2>1. name'[i][k] = t
    BY <1>1
  <2>2. Where(t, i, k)'
    BY <2>1, WhereOwn
  <2> QED  BY <1>1, <2>2
<1>2. CASE p # t
  <2>1. \/ name'[i][k] = name[i][k] \/ name'[i][k] = NoName \/ name'[i][k] = t
    BY <1>w DEF Written
  <2>2. name[i][k] = p
    BY <1>2, <2>1, MonitorConstants
  <2>3. Where(p, i, k)
    BY <2>2 DEF Placed
  <2>4. Alone(t)
    BY StepControl
  <2> QED  BY <1>2, <2>3, <2>4, WhereOthers
<1> QED  BY <1>1, <1>2

(* The thread that writes its name into a pair is named in no other.       *)
LEMMA StepApart ==
  ASSUME Typed, Placed, Apart, NEW t \in Threads,
         CallEnter(t) \/ CallLeave(t) \/ WakeSpuriously(t) \/ Step(t)
  PROVE  Apart'
<1>w. \A i \in Slots, k \in 0 .. 1 : Written(t, i, k)
  BY NameWritten
<1> SUFFICES ASSUME NEW p \in Threads, NEW i \in Slots, NEW j \in Slots,
                    NEW k \in 0 .. 1, NEW m \in 0 .. 1, name'[i][k] = p, name'[j][m] = p
             PROVE  i = j
  BY DEF Apart, Slots
<1>1. p # NoName
  BY MonitorConstants
<1>2. \/ name'[i][k] = name[i][k] \/ name'[i][k] = NoName
      \/ name'[i][k] = t /\ i = idx[t] /\ pc[t] \in {"come_name", "join_name"}
  BY <1>w DEF Written
<1>3. \/ name'[j][m] = name[j][m] \/ name'[j][m] = NoName
      \/ name'[j][m] = t /\ j = idx[t] /\ pc[t] \in {"come_name", "join_name"}
  BY <1>w DEF Written
<1>4. CASE name[i][k] = p /\ name[j][m] = p
  BY <1>4 DEF Apart
<1>5. CASE name[i][k] # p \/ name[j][m] # p
  <2>1. p = t /\ pc[t] \in {"come_name", "join_name"}
    BY <1>1, <1>2, <1>3, <1>5
  <2>2. op[t] = "enter"
    BY <2>1 DEF Typed, Fits, EnterOnly
  <2>0. ASSUME NEW h \in Slots, NEW n \in 0 .. 1, name[h][n] = t
        PROVE  h = idx[t]
    <3>1. Where(t, h, n)
      BY <2>0 DEF Placed
    <3> QED  BY <2>2, <3>1 DEF Where
  <2>3. name[i][k] = p => i = idx[t]
    BY <2>0, <2>1
  <2>4. name[j][m] = p => j = idx[t]
    BY <2>0, <2>1
  <2> QED  BY <1>1, <1>2, <1>3, <2>1, <2>3, <2>4
<1> QED  BY <1>4, <1>5

LEMMA NextPlaced == Typed /\ Placed /\ Apart /\ [Next]_vars => Placed' /\ Apart'
<1> SUFFICES ASSUME Typed, Placed, Apart, [Next]_vars
             PROVE  Placed' /\ Apart'
  OBVIOUS
<1>1. CASE Terminate \/ UNCHANGED vars
  <2>1. name' = name /\ pc' = pc /\ op' = op /\ idx' = idx
    BY <1>1 DEF Terminate, vars, sharedVars, pairVars
  <2> QED  BY <2>1 DEF Placed, Apart, Where
<1>2. ASSUME NEW p \in Threads, CallEnter(p) \/ CallLeave(p) \/ WakeSpuriously(p) \/ Step(p)
      PROVE  Placed' /\ Apart'
  BY <1>2, StepPlaced, StepApart
<1> QED  BY <1>1, <1>2 DEF Next

LEMMA AlwaysPlaced == Spec => [](Placed /\ Apart)
BY InitPlaced, NextPlaced, AlwaysTyped, PTL DEF Spec

LEMMA PlacedGone == Typed /\ Placed /\ Apart => LeftIsGone
<1> SUFFICES ASSUME Typed, Placed, Apart
             PROVE  LeftIsGone
  OBVIOUS
<1>1. 0 \in 0 .. 1 /\ 1 \in 0 .. 1
  OBVIOUS
<1>2. \A i \in Slots : Names(i) \subseteq Threads
  <2>1. name \in [Slots -> [0 .. 1 -> Threads \cup {NoName}]]
    BY DEF Typed, Data
  <2> QED  BY <1>1, <2>1 DEF Names
<1>3. ASSUME NEW i \in Slots, NEW p \in Names(i)
      PROVE  \E k \in 0 .. 1 : name[i][k] = p
  BY <1>1, <1>3 DEF Names
<1>4. ASSUME NEW i \in Slots, NEW j \in Slots, i # j
      PROVE  Names(i) \cap Names(j) = {}
  <2> SUFFICES ASSUME NEW p \in Names(i), p \in Names(j)
               PROVE  FALSE
    OBVIOUS
  <2>1. PICK k \in 0 .. 1 : name[i][k] = p
    BY <1>3
  <2>2. PICK m \in 0 .. 1 : name[j][m] = p
    BY <1>3
  <2>3. p \in Threads
    BY <1>2
  <2> QED  BY <1>4, <2>1, <2>2, <2>3 DEF Apart
<1>5. ASSUME NEW p \in Threads, pc[p] \in {"out", "done"}, NEW i \in Slots
      PROVE  p \notin Names(i)
  <2>1. \A k \in 0 .. 1 : ~Where(p, i, k)
    BY <1>5 DEF Where, Inside
  <2> QED  BY <1>3, <2>1 DEF Placed
<1> QED  BY <1>4, <1>5 DEF LeftIsGone

(* A name is in one pair at most, and a thread that has left or was        *)
(* refused is in none, for every number of threads and pairs, although the *)
(* calls overlap and the mutex keeps nobody out.                           *)
THEOREM LeftAreGone == Spec => []LeftIsGone
BY AlwaysTyped, AlwaysPlaced, PlacedGone, PTL

=============================================================================
