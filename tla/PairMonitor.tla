----------------------------- MODULE PairMonitor -----------------------------
(***************************************************************************)
(* Assignment 4: pairMonitor.c under the calls of its drivers.             *)
(*                                                                         *)
(* enter() and leave() begin with a test of the shared flag `first', which *)
(* is read and written without the mutex and decides whether the mutex is  *)
(* taken at all; so most of the monitor can run in two threads at once,    *)
(* and every read or write of a shared word is a step of its own.          *)
(*                                                                         *)
(* The mutex is the default one: unlocking it frees it, whoever holds it.  *)
(* A thread that is to use pairList[-1] goes to "wild", and what it does   *)
(* from there is not described.                                            *)
(***************************************************************************)
EXTENDS Integers, FiniteSets

CONSTANTS Threads,
          NoName,      \* the empty name
          Capacity,    \* the argument of initPairMonitor
          Staggered,   \* calls are whole seconds apart, as in driver1 and driver2
          Terminates,  \* the driver calls terminate()
          Spurious,    \* pthread_cond_wait may return without a signal
          MaxVisits    \* bound: calls of enter() by one thread

ASSUME MonitorConstants ==
  /\ NoName \notin Threads
  /\ Capacity \in Nat \ {0} /\ MaxVisits \in Nat
  /\ Staggered \in BOOLEAN /\ Terminates \in BOOLEAN /\ Spurious \in BOOLEAN

VARIABLES
  first, running, mutex,           \* mutex: it is locked
  waiting, leaving, name,          \* the fields of pairList[i]
  waitingPartner, leavingPartner,  \* the threads that wait for each condition
  pc, op, idx, visits,             \* of each thread: where, in which call, its idx
  main                             \* the next signal of terminate(); -1: not called

pairVars   == <<waiting, leaving, name>>
condVars   == <<waitingPartner, leavingPartner>>
sharedVars == <<first, running, mutex, pairVars, condVars>>
vars == <<sharedVars, pc, op, idx, visits, main>>

Slots == 0 .. Capacity - 1

Init ==
  /\ first = TRUE /\ running = TRUE /\ mutex = FALSE
  /\ waiting = [i \in Slots |-> FALSE] /\ leaving = [i \in Slots |-> FALSE]
  /\ name = [i \in Slots |-> [k \in 0 .. 1 |-> NoName]]
  /\ waitingPartner = [i \in Slots |-> {}] /\ leavingPartner = [i \in Slots |-> {}]
  /\ pc = [p \in Threads |-> "out"] /\ op = [p \in Threads |-> "enter"]
  /\ idx = [p \in Threads |-> 0] /\ visits = [p \in Threads |-> 0]
  /\ main = -1

Goto(p, l) == pc' = [pc EXCEPT ![p] = l]

Signalled(p) == \A i \in Slots : p \notin waitingPartner[i] \cup leavingPartner[i]

(* A thread that no other thread has to let go on. *)
CanRun(p) == /\ pc[p] \notin {"out", "in", "done", "wild"}
             /\ pc[p] = "lock" => ~mutex
             /\ pc[p] = "asleep" => Signalled(p) /\ ~mutex

(* After a whole second every thread has gone on as far as it can. *)
Quiet == Staggered => \A p \in Threads : ~CanRun(p)

-----------------------------------------------------------------------------
(* The calls, and the gate that both begin with *)

CallEnter(p) ==
  /\ pc[p] = "out" /\ visits[p] < MaxVisits /\ Quiet
  /\ Goto(p, "gate")
  /\ op' = [op EXCEPT ![p] = "enter"] /\ idx' = [idx EXCEPT ![p] = 0]
  /\ visits' = [visits EXCEPT ![p] = @ + 1]
  /\ UNCHANGED <<sharedVars, main>>

CallLeave(p) ==
  /\ pc[p] = "in" /\ Quiet
  /\ Goto(p, "gate")
  /\ op' = [op EXCEPT ![p] = "leave"] /\ idx' = [idx EXCEPT ![p] = 0]
  /\ UNCHANGED <<sharedVars, visits, main>>

ReadFirst(p) ==
  /\ pc[p] = "gate"
  /\ Goto(p, IF first THEN "close" ELSE "open")
  /\ UNCHANGED <<sharedVars, op, idx, visits, main>>

WriteFirst(p) ==
  /\ \/ pc[p] = "close" /\ first' = FALSE /\ Goto(p, "lock")
     \/ pc[p] = "open"  /\ first' = TRUE  /\ Goto(p, "find")
  /\ UNCHANGED <<running, mutex, pairVars, condVars, op, idx, visits, main>>

Lock(p) ==
  /\ pc[p] = "lock" /\ ~mutex /\ mutex' = TRUE
  /\ Goto(p, "find")
  /\ UNCHANGED <<first, running, pairVars, condVars, op, idx, visits, main>>

-----------------------------------------------------------------------------
(* enter(): findAvailIndex() and findThread() look at one pair after the   *)
(* other, idx is the one they are at.                                      *)

Missed(p) == idx[p] = Capacity

FindAvailable(p) ==
  /\ op[p] = "enter"
  /\ \/ /\ pc[p] = "find" /\ Missed(p)
        /\ idx' = [idx EXCEPT ![p] = -1] /\ Goto(p, "running")
     \/ /\ pc[p] = "find" /\ ~Missed(p)
        /\ Goto(p, IF waiting[idx[p]] THEN "running" ELSE "name0")
        /\ UNCHANGED idx
     \/ \E k \in 0 .. 1 :
          /\ pc[p] = (IF k = 0 THEN "name0" ELSE "name1")
          /\ IF name[idx[p]][k] = NoName
             THEN Goto(p, IF k = 0 THEN "name1" ELSE "running") /\ UNCHANGED idx
             ELSE Goto(p, "find") /\ idx' = [idx EXCEPT ![p] = @ + 1]
  /\ UNCHANGED <<sharedVars, op, visits, main>>

CheckRunning(p) ==
  /\ pc[p] = "running"
  /\ Goto(p, IF ~running THEN "refuse" ELSE IF idx[p] = -1 THEN "wild" ELSE "wait1")
  /\ UNCHANGED <<sharedVars, op, idx, visits, main>>

Refuse(p) ==
  /\ pc[p] = "refuse" /\ mutex' = FALSE
  /\ Goto(p, "done")
  /\ UNCHANGED <<first, running, pairVars, condVars, op, idx, visits, main>>

(* `while (!waiting)', then `while (waiting)': both loops stop when both   *)
(* names are there.                                                        *)
ReadWaiting(p) ==
  /\ \/ pc[p] = "wait1" /\ Goto(p, IF waiting[idx[p]] THEN "wait2" ELSE "full1a")
     \/ pc[p] = "wait2" /\ Goto(p, IF waiting[idx[p]] THEN "full2a" ELSE "in")
  /\ UNCHANGED <<sharedVars, op, idx, visits, main>>

ReadNames(p) ==
  /\ LET has(k) == name[idx[p]][k] # NoName
     IN \/ pc[p] = "full1a" /\ Goto(p, IF has(0) THEN "full1b" ELSE "come")
        \/ pc[p] = "full1b" /\ Goto(p, IF has(1) THEN "wait2" ELSE "come")
        \/ pc[p] = "full2a" /\ Goto(p, IF has(0) THEN "full2b" ELSE "join")
        \/ pc[p] = "full2b" /\ Goto(p, IF has(1) THEN "in" ELSE "join")
  /\ UNCHANGED <<sharedVars, op, idx, visits, main>>

WriteWaiting(p) ==
  /\ \/ pc[p] = "come" /\ waiting' = [waiting EXCEPT ![idx[p]] = TRUE]  /\ Goto(p, "come_name")
     \/ pc[p] = "join" /\ waiting' = [waiting EXCEPT ![idx[p]] = FALSE] /\ Goto(p, "join_name")
  /\ UNCHANGED <<first, running, mutex, leaving, name, condVars, op, idx, visits, main>>

(* Mutant: the first thread of a pair does not wait. *)
WriteNameAndGo(p) ==
  /\ \/ pc[p] = "come_name" /\ name' = [name EXCEPT ![idx[p]][0] = p] /\ Goto(p, "wait2")
     \/ pc[p] = "join_name" /\ name' = [name EXCEPT ![idx[p]][1] = p] /\ Goto(p, "signal")
  /\ UNCHANGED <<first, running, mutex, waiting, leaving, condVars, op, idx, visits, main>>

WriteName(p) ==
  /\ \/ pc[p] = "come_name" /\ name' = [name EXCEPT ![idx[p]][0] = p] /\ Goto(p, "sleep")
     \/ pc[p] = "join_name" /\ name' = [name EXCEPT ![idx[p]][1] = p] /\ Goto(p, "signal")
  /\ UNCHANGED <<first, running, mutex, waiting, leaving, condVars, op, idx, visits, main>>

EnterUnlock(p) ==
  /\ pc[p] = "unlock" /\ op[p] = "enter" /\ mutex' = FALSE
  /\ Goto(p, "wait2")
  /\ UNCHANGED <<first, running, pairVars, condVars, op, idx, visits, main>>

-----------------------------------------------------------------------------
(* Conditions *)

(* pthread_cond_wait frees the mutex and waits in one step, and takes the  *)
(* mutex before it returns.                                                *)
Sleep(p) ==
  /\ pc[p] = "sleep" /\ mutex' = FALSE
  /\ Goto(p, "asleep")
  /\ IF op[p] = "enter"
     THEN waitingPartner' = [waitingPartner EXCEPT ![idx[p]] = @ \cup {p}] /\ UNCHANGED leavingPartner
     ELSE leavingPartner' = [leavingPartner EXCEPT ![idx[p]] = @ \cup {p}] /\ UNCHANGED waitingPartner
  /\ UNCHANGED <<first, running, pairVars, op, idx, visits, main>>

Wake(p) ==
  /\ pc[p] = "asleep" /\ Signalled(p)
  /\ ~mutex /\ mutex' = TRUE
  /\ Goto(p, IF op[p] = "enter" THEN "wait1" ELSE "leaving")
  /\ UNCHANGED <<first, running, pairVars, condVars, op, idx, visits, main>>

WakeSpuriously(p) ==
  /\ Spurious /\ pc[p] = "asleep" /\ ~Signalled(p)
  /\ waitingPartner' = [i \in Slots |-> waitingPartner[i] \ {p}]
  /\ leavingPartner' = [i \in Slots |-> leavingPartner[i] \ {p}]
  /\ UNCHANGED <<first, running, mutex, pairVars, pc, op, idx, visits, main>>

(* pthread_cond_signal: one of the threads that wait, if there is one.     *)
SignalWaiting(i) ==
  /\ \/ waitingPartner[i] = {} /\ UNCHANGED waitingPartner
     \/ \E q \in waitingPartner[i] : waitingPartner' = [waitingPartner EXCEPT ![i] = @ \ {q}]
  /\ UNCHANGED leavingPartner

SignalLeaving(i) ==
  /\ \/ leavingPartner[i] = {} /\ UNCHANGED leavingPartner
     \/ \E q \in leavingPartner[i] : leavingPartner' = [leavingPartner EXCEPT ![i] = @ \ {q}]
  /\ UNCHANGED waitingPartner

(* Mutant: enter() does not signal. *)
SignalNotInEnter(p) ==
  /\ pc[p] = "signal"
  /\ IF op[p] = "enter" THEN UNCHANGED condVars /\ Goto(p, "unlock")
                        ELSE SignalLeaving(idx[p]) /\ Goto(p, "clear0")
  /\ UNCHANGED <<first, running, mutex, pairVars, op, idx, visits, main>>

Signal(p) ==
  /\ pc[p] = "signal"
  /\ IF op[p] = "enter" THEN SignalWaiting(idx[p]) /\ Goto(p, "unlock")
                        ELSE SignalLeaving(idx[p]) /\ Goto(p, "clear0")
  /\ UNCHANGED <<first, running, mutex, pairVars, op, idx, visits, main>>

-----------------------------------------------------------------------------
(* leave() *)

(* Mutant: findThread() returns i, not -1, when the name is on no pair.    *)
FindThreadLast(p) ==
  /\ op[p] = "leave"
  /\ \/ /\ pc[p] = "find"
        /\ Goto(p, IF Missed(p) \/ name[idx[p]][0] = p THEN "leaving" ELSE "name1")
        /\ UNCHANGED idx
     \/ /\ pc[p] = "name1"
        /\ IF name[idx[p]][1] = p
           THEN Goto(p, "leaving") /\ UNCHANGED idx
           ELSE Goto(p, "find") /\ idx' = [idx EXCEPT ![p] = @ + 1]
  /\ UNCHANGED <<sharedVars, op, visits, main>>

FindThread(p) ==
  /\ op[p] = "leave"
  /\ \/ /\ pc[p] = "find" /\ Missed(p)
        /\ idx' = [idx EXCEPT ![p] = -1] /\ Goto(p, "wild")
     \/ /\ pc[p] = "find" /\ ~Missed(p)
        /\ Goto(p, IF name[idx[p]][0] = p THEN "leaving" ELSE "name1")
        /\ UNCHANGED idx
     \/ /\ pc[p] = "name1"
        /\ IF name[idx[p]][1] = p
           THEN Goto(p, "leaving") /\ UNCHANGED idx
           ELSE Goto(p, "find") /\ idx' = [idx EXCEPT ![p] = @ + 1]
  /\ UNCHANGED <<sharedVars, op, visits, main>>

ReadLeaving(p) ==
  /\ pc[p] = "leaving"
  /\ Goto(p, IF leaving[idx[p]] THEN "signal" ELSE "go")
  /\ UNCHANGED <<sharedVars, op, idx, visits, main>>

(* Mutant: the first thread to leave does not wait. *)
WriteLeavingAndGo(p) ==
  /\ \/ pc[p] = "go"     /\ leaving' = [leaving EXCEPT ![idx[p]] = TRUE]  /\ Goto(p, "leaving")
     \/ pc[p] = "reset1" /\ leaving' = [leaving EXCEPT ![idx[p]] = FALSE] /\ Goto(p, "reset2")
  /\ UNCHANGED <<first, running, mutex, waiting, name, condVars, op, idx, visits, main>>

WriteLeaving(p) ==
  /\ \/ pc[p] = "go"     /\ leaving' = [leaving EXCEPT ![idx[p]] = TRUE]  /\ Goto(p, "sleep")
     \/ pc[p] = "reset1" /\ leaving' = [leaving EXCEPT ![idx[p]] = FALSE] /\ Goto(p, "reset2")
  /\ UNCHANGED <<first, running, mutex, waiting, name, condVars, op, idx, visits, main>>

(* Mutant: the second name stays. *)
ClearFirstName(p) ==
  /\ pc[p] = "clear0" /\ name' = [name EXCEPT ![idx[p]][0] = NoName] /\ Goto(p, "unlock")
  /\ UNCHANGED <<first, running, mutex, waiting, leaving, condVars, op, idx, visits, main>>

ClearName(p) ==
  /\ \/ pc[p] = "clear0" /\ name' = [name EXCEPT ![idx[p]][0] = NoName] /\ Goto(p, "clear1")
     \/ pc[p] = "clear1" /\ name' = [name EXCEPT ![idx[p]][1] = NoName] /\ Goto(p, "unlock")
  /\ UNCHANGED <<first, running, mutex, waiting, leaving, condVars, op, idx, visits, main>>

(* The mutex is unlocked twice. *)
LeaveUnlock(p) ==
  /\ mutex' = FALSE
  /\ \/ pc[p] = "unlock" /\ op[p] = "leave" /\ Goto(p, "unlock_again")
     \/ pc[p] = "unlock_again" /\ Goto(p, "reset1")
  /\ UNCHANGED <<first, running, pairVars, condVars, op, idx, visits, main>>

(* The last statement of leave(). *)
ResetWaiting(p) ==
  /\ pc[p] = "reset2" /\ waiting' = [waiting EXCEPT ![idx[p]] = FALSE]
  /\ Goto(p, "out")
  /\ UNCHANGED <<first, running, mutex, leaving, name, condVars, op, idx, visits, main>>

-----------------------------------------------------------------------------
(* terminate() takes no lock: it clears `running' and signals both         *)
(* conditions of one pair after the other.                                 *)

Terminate ==
  \/ /\ main = -1 /\ Terminates /\ Quiet
     /\ running' = FALSE /\ main' = 0
     /\ UNCHANGED <<first, mutex, pairVars, condVars, pc, op, idx, visits>>
  \/ /\ main >= 0 /\ main < 2 * Capacity /\ main' = main + 1
     /\ IF main % 2 = 0 THEN SignalWaiting(main \div 2) ELSE SignalLeaving(main \div 2)
     /\ UNCHANGED <<first, running, mutex, pairVars, pc, op, idx, visits>>

-----------------------------------------------------------------------------
Step(p) ==
  \/ ReadFirst(p) \/ WriteFirst(p) \/ Lock(p)
  \/ FindAvailable(p) \/ CheckRunning(p) \/ Refuse(p) \/ ReadWaiting(p) \/ ReadNames(p)
  \/ WriteWaiting(p) \/ WriteName(p) \/ EnterUnlock(p)
  \/ Sleep(p) \/ Wake(p) \/ Signal(p)
  \/ FindThread(p) \/ ReadLeaving(p) \/ WriteLeaving(p)
  \/ ClearName(p) \/ LeaveUnlock(p) \/ ResetWaiting(p)

Next == \/ \E p \in Threads : CallEnter(p) \/ CallLeave(p) \/ WakeSpuriously(p) \/ Step(p)
        \/ Terminate

Spec == Init /\ [][Next]_vars

(* Threads are scheduled, and the drivers make every call they can.        *)
FairSpec == /\ Spec /\ WF_vars(Terminate)
            /\ \A p \in Threads : WF_vars(CallEnter(p)) /\ WF_vars(CallLeave(p)) /\ WF_vars(Step(p))

-----------------------------------------------------------------------------
(* Properties *)

(* The types of the variables; no thread works on the pair behind the last  *)
(* one (pairMonitor.c:104-141, 164-217).                                   *)
TypeOK ==
  /\ first \in BOOLEAN /\ running \in BOOLEAN /\ mutex \in BOOLEAN
  /\ waiting \in [Slots -> BOOLEAN] /\ leaving \in [Slots -> BOOLEAN]
  /\ name \in [Slots -> [0 .. 1 -> Threads \cup {NoName}]]
  /\ waitingPartner \in [Slots -> SUBSET Threads]
  /\ leavingPartner \in [Slots -> SUBSET Threads]
  /\ pc \in [Threads ->
       {"out", "in", "done", "wild", "gate", "close", "open", "lock", "find", "name0", "name1",
        "running", "refuse", "wait1", "wait2", "full1a", "full1b", "full2a", "full2b", "come",
        "come_name", "join", "join_name", "unlock", "sleep", "asleep", "signal", "leaving", "go",
        "clear0", "clear1", "unlock_again", "reset1", "reset2"}]
  /\ op \in [Threads -> {"enter", "leave"}]
  /\ idx \in [Threads -> -1 .. Capacity] /\ visits \in [Threads -> 0 .. MaxVisits]
  /\ \A p \in Threads :
       /\ (idx[p] = Capacity) => pc[p] = "find"
       /\ (idx[p] = -1) => pc[p] \in {"running", "refuse", "done", "wild"}
  /\ main \in -1 .. 2 * Capacity

(* The names in a pair. *)
Names(i) == {name[i][0], name[i][1]} \ {NoName}

Full(i) == \A k \in 0 .. 1 : name[i][k] # NoName

HasCalledLeave(p) == op[p] = "leave" /\ pc[p] # "in"

Room == INSTANCE PairRoom WITH pairs   <- {Names(i) : i \in {j \in Slots : Full(j)}},
                               leavers <- {p \in UNION {Names(i) : i \in {j \in Slots : Full(j)}} :
                                             HasCalledLeave(p)}

(* Two threads whose calls never overlap, as in driver1.c, enter and leave *)
(* the room in pairs, any number of times, although the first one comes    *)
(* back from enter() with the mutex locked and `first' lets calls pass     *)
(* without it (pairMonitor.c:97-102, 117, 157-162).                        *)
ImplementsRoom == Room!Spec

(* enter() returns true to a thread that has a partner ("Called by a       *)
(* thread when it wants to enter.  It will wait until [...] it has a       *)
(* partner to enter with", pairMonitor.h:23-28).                           *)
EntersPaired ==
  \A p \in Threads : pc[p] = "in" => \E i \in Slots : p \in Names(i) /\ Cardinality(Names(i)) = 2

(* "It will wait until there's enough capacity for it to enter"            *)
(* (pairMonitor.h:23-24): no call goes on with the pair -1 when the room   *)
(* is full, and leave() finds the pair of its caller. Two threads never    *)
(* fill the room; the fifth person of driver2 finds it full, and the code  *)
(* goes on with pairList[-1] (pairMonitor.c:92).                           *)
NeverWild == \A p \in Threads : pc[p] # "wild"

(* Whatever calls race, whoever is woken without a signal or by            *)
(* terminate(): a name is in one pair at most, and a thread that has left, *)
(* or was refused, is in none, so that nobody is ever paired with it       *)
(* (pairMonitor.c:112-125, 164-201).                                       *)
LeftIsGone ==
  /\ \A i, j \in Slots : i # j => Names(i) \cap Names(j) = {}
  /\ \A p \in Threads : pc[p] \in {"out", "done"} => \A i \in Slots : p \notin Names(i)

Awaits(p) == pc[p] = "asleep" /\ op[p] = "enter" /\ ~Signalled(p)

(* The one who waits in enter() is not left there when a second thread     *)
(* calls it: the signal of pairMonitor.c:126 is not lost.                  *)
PartnerWakes ==
  \A p, q \in Threads : (Awaits(p) /\ pc[q] = "gate" /\ op[q] = "enter") ~> pc[p] = "in"

(* "Two people enter, then two people leave" (driver1.c:2).                *)
LeavesFinish == \A p \in Threads : pc[p] = "in" ~> pc[p] = "out"

=============================================================================
