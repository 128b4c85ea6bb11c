-------------------------- MODULE CalcServerProofs --------------------------
(***************************************************************************)
(* What CalcServer keeps for any number of letters, any int, any number of *)
(* clients and any commands.                                               *)
(***************************************************************************)
EXTENDS CalcServer, TLAPS

USE CalcConstants DEF CalcConstants

-----------------------------------------------------------------------------
(* Requests and values *)

(* The operand of a request is a letter, or a number that is an int.       *)
LEMMA Request ==
  ASSUME NEW r \in AllRequests
  PROVE  /\ r.v \in Letters /\ r.v \in Locks /\ r.v # CommandLock
         /\ r.number \in BOOLEAN
         /\ r.number => r.w \in Values
         /\ ~r.number => r.w \in Letters /\ r.w \in Locks /\ r.w # CommandLock /\ r.op # "print"
         /\ Arithmetic(r) => r.w \in Letters /\ r.w \in Locks /\ r.w # CommandLock
<1>a. ASSUME NEW i \in Letters PROVE i \in Locks /\ i # CommandLock /\ i \in Values
  BY DEF Letters, Locks, CommandLock, Values
<1>1. CASE r \in [op : {"print"}, v : Letters, w : {0}, number : {TRUE}]
  <2>1. r.op = "print" /\ r.v \in Letters /\ r.w = 0 /\ r.number = TRUE
    BY <1>1
  <2>2. 0 \in Values
    BY DEF Values
  <2> QED  BY <2>1, <2>2, <1>a DEF Arithmetic
<1>2. CASE r \in [op : {"set"}, v : Letters, w : Letters, number : {FALSE}]
  <2>1. r.op = "set" /\ r.v \in Letters /\ r.w \in Letters /\ r.number = FALSE
    BY <1>2
  <2> QED  BY <2>1, <1>a DEF Arithmetic
<1>3. CASE r \in [op : {"set"}, v : Letters, w : Values, number : {TRUE}]
  <2>1. r.op = "set" /\ r.v \in Letters /\ r.w \in Values /\ r.number = TRUE
    BY <1>3
  <2> QED  BY <2>1, <1>a DEF Arithmetic
<1>4. CASE r \in [op : {"add", "subtract", "multiply", "divide"}, v : Letters, w : Letters,
                  number : BOOLEAN]
  BY <1>4 DEF Letters, Locks, CommandLock, Values, Arithmetic
<1> QED  BY <1>1, <1>2, <1>3, <1>4 DEF AllRequests

(* Every int operation wraps around.                                       *)
LEMMA WrapIsInt ==
  ASSUME NEW n \in Int
  PROVE  Wrap(n) \in Values
<1>1. Half > 0
  OBVIOUS
<1> DEFINE m == (n + Half) % (2 * Half)
<1>2. n + Half \in Int /\ 2 * Half \in Nat \ {0}
  BY <1>1
<1>3. m \in 0 .. (2 * Half) - 1
  BY <1>2
<1>4. Wrap(n) = m - Half
  BY DEF Wrap
<1> HIDE DEF m
<1> QED  BY <1>1, <1>3, <1>4 DEF Values

LEMMA QuotientIsInt ==
  ASSUME NEW x \in Int, NEW y \in Int, y # 0
  PROVE  Quotient(x, y) \in Int
<1>1. Abs(x) \in Nat /\ Abs(y) \in Nat \ {0}
  BY DEF Abs
<1>2. Abs(x) \div Abs(y) \in Int
  BY <1>1
<1> QED  BY <1>2 DEF Quotient

LEMMA ApplyIsInt ==
  ASSUME NEW op, NEW x \in Values, NEW y \in Values
  PROVE  Apply(op, x, y) \in Values
<1>1. x \in Int /\ y \in Int
  BY DEF Values
<1>2. x + y \in Int /\ x - y \in Int /\ x * y \in Int
  BY <1>1
<1>3. Wrap(x + y) \in Values /\ Wrap(x - y) \in Values /\ Wrap(x * y) \in Values
  BY <1>2, WrapIsInt
<1>4. y # 0 => Wrap(Quotient(x, y)) \in Values
  BY <1>1, QuotientIsInt, WrapIsInt
<1> QED  BY <1>3, <1>4 DEF Apply

-----------------------------------------------------------------------------
(* Where a command can be, by its form.                                    *)
Shape ==
  \A t \in Threads :
    /\ pc[t] \in {"lock w", "load w"} => ~cmd[t].number
    /\ (pc[t] = "load v") => Arithmetic(cmd[t])
    /\ (pc[t] = "release v") => Arithmetic(cmd[t]) /\ cmd[t].number
    /\ (pc[t] = "store") => cmd[t].op # "print"
    /\ (pc[t] = "post w") => Arithmetic(cmd[t]) \/ ~cmd[t].number

TypeInv == TypeOK /\ Shape

LEMMA Update ==
  ASSUME NEW S, NEW T, NEW f \in [S -> T], NEW x \in S, NEW y \in T
  PROVE  [f EXCEPT ![x] = y] \in [S -> T]
OBVIOUS

LEMMA InitType == Init => TypeInv
<1> SUFFICES ASSUME Init PROVE TypeInv
  OBVIOUS
<1>1. 0 \in Values /\ 0 \in Letters /\ 0 \in Locks /\ 1 \in Descriptors
  BY DEF Values, Letters, Locks, Descriptors
<1>2. [op |-> "print", v |-> 0, w |-> 0, number |-> TRUE] \in AllRequests
  BY <1>1 DEF AllRequests
<1>3. TypeOK
  BY <1>1, <1>2 DEF Init, TypeOK
<1> QED  BY <1>3 DEF Init, Shape, TypeInv

(* What the type invariant says of one thread.                             *)
LEMMA Thread ==
  ASSUME TypeInv, NEW t \in Threads
  PROVE  /\ cmd[t] \in AllRequests
         /\ cmd[t].v \in Letters /\ cmd[t].v \in Locks /\ cmd[t].v # CommandLock
         /\ cmd[t].number \in BOOLEAN
         /\ pc[t] \in {"lock w", "load w", "post w"} =>
              cmd[t].w \in Letters /\ cmd[t].w \in Locks /\ cmd[t].w # CommandLock
         /\ ~cmd[t].number => cmd[t].w \in Letters /\ cmd[t].w \in Locks /\ cmd[t].w # CommandLock
BY Request DEF TypeInv, TypeOK, Shape

LEMMA PostType ==
  ASSUME TypeOK, NEW i \in Locks, Post(i)
  PROVE  locks' \in [Locks -> Nat]
<1>1. locks \in [Locks -> Nat]
  BY DEF TypeOK
<1>2. locks[i] + 1 \in Nat
  BY <1>1
<1> QED  BY <1>1, <1>2, Update DEF Post

LEMMA WaitType ==
  ASSUME TypeOK, NEW i \in Locks, Wait(i)
  PROVE  locks' \in [Locks -> Nat]
<1>1. locks \in [Locks -> Nat]
  BY DEF TypeOK
<1>2. locks[i] - 1 \in Nat
  BY <1>1 DEF Wait
<1> QED  BY <1>1, <1>2, Update DEF Wait

LEMMA ReadsType ==
  ASSUME TypeOK, HasTime(1)
  PROVE  reads + 1 \in 0 .. MaxWork
<1>1. accepted \in 0 .. MaxConns /\ reads \in 0 .. MaxWork
  BY DEF TypeOK
<1>2. accepted \in Nat /\ reads \in Nat
  BY <1>1
<1> QED  BY <1>2 DEF HasTime

LEMMA StepType ==
  ASSUME TypeInv, NEW t \in Threads, Accept(t) \/ Step(t)
  PROVE  TypeInv'
<1> USE DEF TypeInv
<1>t. CommandLock \in Locks
  BY DEF CommandLock, Locks
<1>0. /\ cmd[t] \in AllRequests
      /\ cmd[t].v \in Letters /\ cmd[t].v \in Locks
      /\ cmd[t].number \in BOOLEAN
      /\ pc[t] \in {"lock w", "load w", "post w"} => cmd[t].w \in Letters /\ cmd[t].w \in Locks
  BY Thread
<1>1. ASSUME Accept(t) PROVE TypeInv'
  <2>a. sock' \in Descriptors /\ conn' \in [Descriptors -> 0 .. MaxConns]
    <3>1. conn \in [Descriptors -> 0 .. MaxConns]
      BY DEF TypeOK
    <3>2. t \in 0 .. MaxConns
      BY DEF Threads
    <3> QED  BY <1>1, <3>1, <3>2, Update DEF Accept
  <2>b. accepted' \in 0 .. MaxConns
    BY <1>1 DEF Accept, Threads
  <2>1. TypeOK'
    BY <1>1, <2>a, <2>b DEF Accept, Goto, TypeOK, local
  <2>2. Shape'
    BY <1>1 DEF Accept, Goto, TypeOK, Shape, local
  <2> QED  BY <2>1, <2>2
<1>2. ASSUME InitSemaphore(t) PROVE TypeInv'
  <2>1. next[t] \in Locks /\ (next[t] # CommandLock => next[t] + 1 \in Locks)
    <3>1. next[t] \in 0 .. NumLetters
      BY DEF TypeOK, Locks
    <3> QED  BY <3>1 DEF Locks, CommandLock
  <2>2. locks' \in [Locks -> Nat] /\ sound' \subseteq Locks /\ next' \in [Threads -> Locks]
    BY <1>2, <2>1 DEF InitSemaphore, MakeSound, TypeOK
  <2>3. TypeOK'
    BY <1>2, <2>2 DEF InitSemaphore, Goto, TypeOK, main
  <2>4. Shape'
    BY <1>2 DEF InitSemaphore, Goto, TypeOK, Shape
  <2> QED  BY <2>3, <2>4
<1>3. ASSUME ReadSock(t) PROVE TypeInv'
  BY <1>3 DEF ReadSock, At, Goto, TypeOK, Shape, main
<1>4. ASSUME AwaitTurn(t) PROVE TypeInv'
  <2>1. locks' \in [Locks -> Nat]
    BY <1>4, <1>t, WaitType DEF AwaitTurn
  <2> QED  BY <1>4, <2>1 DEF AwaitTurn, At, Goto, TypeOK, Shape, main, local
<1>5. ASSUME ReadCommand(t) PROVE TypeInv'
  <2>1. locks' \in [Locks -> Nat]
    BY <1>5, <1>t, PostType DEF ReadCommand
  <2>2. PICK r \in Requests : /\ cmd' = [cmd EXCEPT ![t] = r]
                              /\ b' = [b EXCEPT ![t] = IF r.number THEN r.w ELSE 0]
                              /\ Goto(t, "lock v")
    BY <1>5 DEF ReadCommand
  <2>3. r \in AllRequests /\ (IF r.number THEN r.w ELSE 0) \in Values
    BY Request DEF Values
  <2>4. reads' \in 0 .. MaxWork
    BY <1>5, ReadsType DEF ReadCommand
  <2>5. b' \in [Threads -> Values]
    BY <2>2, <2>3, Update DEF TypeOK
  <2>6. TypeOK'
    BY <1>5, <2>1, <2>2, <2>3, <2>4, <2>5 DEF ReadCommand, Goto, TypeOK, main
  <2>7. Shape'
    BY <2>2 DEF Goto, TypeOK, Shape, Arithmetic
  <2> QED  BY <2>6, <2>7
<1>6. ASSUME ReadUnknown(t) PROVE TypeInv'
  <2>1. locks' \in [Locks -> Nat]
    BY <1>6, <1>t, PostType DEF ReadUnknown
  <2>2. reads' \in 0 .. MaxWork
    BY <1>6, ReadsType DEF ReadUnknown
  <2>3. TypeOK'
    BY <1>6, <2>1, <2>2 DEF ReadUnknown, Goto, TypeOK, main
  <2>4. Shape'
    BY <1>6 DEF ReadUnknown, Goto, TypeOK, Shape
  <2> QED  BY <2>3, <2>4
<1>7. ASSUME ReadMalformed(t) \/ Trap(t) PROVE TypeInv'
  BY <1>7 DEF ReadMalformed, Trap, TypeOK, Shape, main, local
<1>8. ASSUME ReadQuit(t) PROVE TypeInv'
  BY <1>8 DEF ReadQuit, At, Goto, TypeOK, Shape, main, local
<1>9. ASSUME QuitWait(t) PROVE TypeInv'
  <2>1. locks' \in [Locks -> Nat]
    BY <1>9, <1>t, WaitType DEF QuitWait
  <2> QED  BY <1>9, <2>1 DEF QuitWait, At, Goto, TypeOK, Shape, main, local
<1>10. ASSUME Close(t) PROVE TypeInv'
  <2>1. conn' \in [Descriptors -> 0 .. MaxConns]
    <3>1. conn \in [Descriptors -> 0 .. MaxConns] /\ fd[t] \in Descriptors
      BY DEF TypeOK
    <3> QED  BY <1>10, <3>1, Update DEF Close
  <2> QED  BY <1>10, <2>1 DEF Close, At, Goto, TypeOK, Shape, main, local
<1>11. ASSUME LockV(t) PROVE TypeInv'
  <2>1. locks' \in [Locks -> Nat]
    BY <1>11, <1>0, WaitType DEF LockV
  <2>2. TypeOK'
    BY <1>11, <2>1 DEF LockV, Goto, TypeOK, main, local
  <2>3. cmd[t].op = "set" => cmd[t].op # "print"
    OBVIOUS
  <2>4. Shape'
    BY <1>11, <1>0, <2>3 DEF LockV, Goto, TypeOK, Shape, local
  <2> QED  BY <2>2, <2>4
<1>12. ASSUME LockW(t) PROVE TypeInv'
  <2>1. locks' \in [Locks -> Nat]
    BY <1>12, <1>0, WaitType DEF LockW, At
  <2>2. TypeOK'
    BY <1>12, <2>1 DEF LockW, Goto, TypeOK, main, local
  <2>3. Shape'
    BY <1>12 DEF LockW, At, Goto, TypeOK, Shape, local
  <2> QED  BY <2>2, <2>3
<1>13. ASSUME LoadV(t) PROVE TypeInv'
  <2>1. variables[cmd[t].v] \in Values
    BY <1>0 DEF TypeOK
  <2>2. TypeOK'
    BY <1>13, <2>1 DEF LoadV, Goto, TypeOK, main
  <2>3. Shape'
    BY <1>13 DEF LoadV, At, Goto, TypeOK, Shape
  <2> QED  BY <2>2, <2>3
<1>14. ASSUME LoadW(t) PROVE TypeInv'
  <2>1. variables[cmd[t].w] \in Values
    BY <1>14, <1>0 DEF TypeOK, LoadW, At
  <2>2. TypeOK'
    BY <1>14, <2>1 DEF LoadW, Goto, TypeOK, main
  <2>3. cmd[t].op # "print"
    BY <1>14, Request DEF LoadW, At, TypeOK, Shape
  <2>4. Shape'
    BY <1>14, <2>3 DEF LoadW, At, Goto, TypeOK, Shape
  <2> QED  BY <2>2, <2>4
<1>15. ASSUME ReleaseV(t) PROVE TypeInv'
  <2>1. locks' \in [Locks -> Nat]
    BY <1>15, <1>0, PostType DEF ReleaseV
  <2>2. TypeOK'
    BY <1>15, <2>1 DEF ReleaseV, Goto, TypeOK, main, local
  <2>3. Shape'
    BY <1>15 DEF ReleaseV, At, Goto, TypeOK, Shape, local, Arithmetic
  <2> QED  BY <2>2, <2>3
<1>16. ASSUME Store(t) PROVE TypeInv'
  <2>1. Apply(cmd[t].op, a[t], b[t]) \in Values
    BY ApplyIsInt DEF TypeOK
  <2>2. variables' \in [Letters -> Values]
    <3>1. variables \in [Letters -> Values]
      BY DEF TypeOK
    <3>2. \/ variables' = variables
          \/ variables' = [variables EXCEPT ![cmd[t].v] = Apply(cmd[t].op, a[t], b[t])]
      BY <1>16 DEF Store
    <3> QED  BY <1>0, <2>1, <3>1, <3>2, Update
  <2>3. sound' \subseteq Locks
    BY <1>16 DEF Store, MakeUnsound, TypeOK
  <2>4. TypeOK'
    BY <1>16, <2>2, <2>3 DEF Store, Goto, TypeOK, main, local
  <2>5. Shape'
    BY <1>16 DEF Store, At, Goto, TypeOK, Shape, local
  <2> QED  BY <2>4, <2>5
<1>17. ASSUME PostW(t) PROVE TypeInv'
  <2>1. locks' \in [Locks -> Nat]
    BY <1>17, <1>0, PostType DEF PostW, At
  <2>2. sound' \subseteq Locks
    BY <1>17 DEF PostW, MakeUnsound, TypeOK
  <2>3. TypeOK'
    BY <1>17, <2>1, <2>2 DEF PostW, Goto, TypeOK, main, local
  <2>4. Shape'
    BY <1>17 DEF PostW, Goto, TypeOK, Shape, local
  <2> QED  BY <2>3, <2>4
<1>18. ASSUME PostV(t) PROVE TypeInv'
  <2>1. locks' \in [Locks -> Nat]
    BY <1>18, <1>0, PostType DEF PostV
  <2>2. sound' \subseteq Locks
    BY <1>18 DEF PostV, MakeUnsound, TypeOK
  <2>3. TypeOK'
    BY <1>18, <2>1, <2>2 DEF PostV, Goto, TypeOK, main, local
  <2>4. Shape'
    BY <1>18 DEF PostV, Goto, TypeOK, Shape, local
  <2> QED  BY <2>3, <2>4
<1> QED
  BY <1>1, <1>2, <1>3, <1>4, <1>5, <1>6, <1>7, <1>8, <1>9, <1>10, <1>11, <1>12, <1>13, <1>14,
     <1>15, <1>16, <1>17, <1>18 DEF Step

LEMMA StutterType == TypeInv /\ UNCHANGED vars => TypeInv'
BY DEF TypeInv, TypeOK, Shape, vars, main, local

LEMMA NextType == TypeInv /\ [Next]_vars => TypeInv'
BY StepType, StutterType DEF Next

LEMMA AlwaysTyped == Spec => []TypeInv
BY InitType, NextType, PTL DEF Spec

(* The variables of the server keep their types: whatever clients do, no   *)
(* semaphore falls below zero and no int leaves its range.                 *)
THEOREM TypeCorrect == Spec => []TypeOK
<1>1. TypeInv => TypeOK
  BY DEF TypeInv
<1> QED  BY <1>1, AlwaysTyped, PTL

-----------------------------------------------------------------------------
(* Who holds what, before and after a step *)

Good(i) == \/ locks[i] = 1 /\ Holders(i) = {}
           \/ locks[i] = 0 /\ \E t \in Threads : Holders(i) = {t}

(* A step of t moves no other thread.                                      *)
Only(t) == \A u \in Threads \ {t} : pc'[u] = pc[u] /\ cmd'[u] = cmd[u]

LEMMA StepOnly ==
  ASSUME TypeInv, NEW t \in Threads, Accept(t) \/ Step(t)
  PROVE  Only(t)
<1>1. DOMAIN pc = Threads
  BY DEF TypeInv, TypeOK
<1>2. DOMAIN cmd = Threads
  BY DEF TypeInv, TypeOK
<1>3. CASE Accept(t)
  BY <1>1, <1>2, <1>3 DEF Only, Accept, Goto, local
<1>4. CASE InitSemaphore(t) \/ ReadSock(t) \/ AwaitTurn(t)
  BY <1>1, <1>2, <1>4 DEF Only, InitSemaphore, ReadSock, AwaitTurn, Goto, local
<1>5. CASE ReadCommand(t) \/ ReadUnknown(t) \/ ReadMalformed(t) \/ ReadQuit(t)
  BY <1>1, <1>2, <1>5 DEF Only, ReadCommand, ReadUnknown, ReadMalformed, ReadQuit, Goto, local
<1>6. CASE QuitWait(t) \/ Close(t) \/ LockV(t) \/ LockW(t) \/ LoadV(t) \/ LoadW(t)
  BY <1>1, <1>2, <1>6 DEF Only, QuitWait, Close, LockV, LockW, LoadV, LoadW, Goto, local
<1>7. CASE ReleaseV(t) \/ Store(t) \/ Trap(t) \/ PostW(t) \/ PostV(t)
  BY <1>1, <1>2, <1>7 DEF Only, ReleaseV, Store, Trap, PostW, PostV, Goto, local
<1> QED  BY <1>3, <1>4, <1>5, <1>6, <1>7 DEF Step

LEMMA OthersHold ==
  ASSUME NEW t \in Threads, Only(t), NEW i, NEW u \in Threads, u # t
  PROVE  Holds(u, i)' <=> Holds(u, i)
BY DEF Only, Holds

LEMMA SameHolders ==
  ASSUME NEW t \in Threads, Only(t), NEW i, Holds(t, i)' <=> Holds(t, i)
  PROVE  Holders(i)' = Holders(i)
<1>1. \A u \in Threads : Holds(u, i)' <=> Holds(u, i)
  BY OthersHold
<1> QED  BY <1>1 DEF Holders

LEMMA Kept ==
  ASSUME NEW t \in Threads, Only(t), NEW i, Holds(t, i)' <=> Holds(t, i),
         locks'[i] = locks[i], Good(i)
  PROVE  Good(i)'
BY SameHolders DEF Good

LEMMA Took ==
  ASSUME NEW t \in Threads, Only(t), NEW i, Holds(t, i)',
         locks[i] > 0, locks'[i] = locks[i] - 1, Good(i)
  PROVE  Good(i)'
<1>1. locks[i] = 1 /\ Holders(i) = {}
  BY DEF Good
<1>2. Holders(i)' = {t}
  <2>1. \A u \in Threads : u # t => ~Holds(u, i)'
    BY <1>1, OthersHold DEF Holders
  <2> QED  BY <2>1 DEF Holders
<1>3. locks'[i] = 0
  BY <1>1
<1> QED  BY <1>2, <1>3 DEF Good

LEMMA Gave ==
  ASSUME NEW t \in Threads, Only(t), NEW i, Holds(t, i), ~Holds(t, i)',
         locks'[i] = locks[i] + 1, Good(i)
  PROVE  Good(i)'
<1>1. locks[i] = 0 /\ Holders(i) = {t}
  BY DEF Good, Holders
<1>2. Holders(i)' = {}
  <2>1. \A u \in Threads : u # t => ~Holds(u, i)'
    BY <1>1, OthersHold DEF Holders
  <2> QED  BY <2>1 DEF Holders
<1>3. locks'[i] = 1
  BY <1>1
<1> QED  BY <1>2, <1>3 DEF Good

(* A thread that holds a sound semaphore finds it at 0.                    *)
LEMMA HeldIsZero ==
  ASSUME NEW t \in Threads, NEW i, Holds(t, i), Good(i)
  PROVE  locks[i] = 0 /\ Holders(i) = {t}
BY DEF Good, Holders

-----------------------------------------------------------------------------
(* The semaphores *)

(* Between its second wait and its end a thread holds commandLock twice.   *)
Closing == \A t \in Threads : pc[t] = "close" => CommandLock \notin sound

(* A command with one letter twice only gets on after an initialisation.   *)
Doubled ==
  \A t \in Threads :
    (pc[t] \in {"load v", "load w", "store", "post w"} /\ ~cmd[t].number /\ cmd[t].w = cmd[t].v)
    => cmd[t].v \notin sound

(* Threads are numbered as they are created.                               *)
Numbered == \A t \in Threads : t > accepted => pc[t] = "none"

Sems == LocksExclude /\ Closing /\ Doubled /\ Numbered

LEMMA InitSems == Init => Sems
BY DEF Init, Sems, LocksExclude, Closing, Doubled, Numbered

LEMMA NewThread ==
  ASSUME TypeInv, Sems, NEW t \in Threads, Accept(t)
  PROVE  pc[t] = "none"
<1>1. accepted \in 0 .. MaxConns
  BY DEF TypeInv, TypeOK
<1>2. t > accepted
  BY <1>1 DEF Accept
<1> QED  BY <1>2 DEF Sems, Numbered

(* No step makes a semaphore sound that somebody holds.                    *)
LEMMA SoundGrows ==
  ASSUME NEW t \in Threads, Accept(t) \/ Step(t), NEW i \in sound', i \notin sound
  PROVE  Holders(i) = {}
<1>1. CASE InitSemaphore(t)
  BY <1>1 DEF InitSemaphore, MakeSound
<1>2. CASE Store(t) \/ PostW(t) \/ PostV(t)
  BY <1>2 DEF Store, PostW, PostV, MakeUnsound
<1> QED
  BY <1>1, <1>2 DEF Step, Accept, ReadSock, AwaitTurn, ReadCommand, ReadUnknown, ReadMalformed,
     ReadQuit, QuitWait, Close, LockV, LockW, LoadV, LoadW, ReleaseV, Trap

LEMMA StepLocks ==
  ASSUME TypeInv, Sems, NEW t \in Threads, Accept(t) \/ Step(t)
  PROVE  LocksExclude'
<1> SUFFICES ASSUME NEW i \in sound' PROVE Good(i)'
  BY DEF LocksExclude, Good
<1> USE DEF TypeInv
<1>o. Only(t)
  BY StepOnly
<1>g. i \in sound => Good(i)
  BY DEF Sems, LocksExclude, Good
<1>t. /\ cmd[t].v \in Locks /\ cmd[t].v # CommandLock /\ cmd[t].number \in BOOLEAN
      /\ pc[t] \in {"lock w", "load w", "post w"} => cmd[t].w \in Locks /\ cmd[t].w # CommandLock
      /\ ~cmd[t].number => cmd[t].w # CommandLock
  BY Thread
<1>p. DOMAIN pc = Threads /\ locks \in [Locks -> Nat]
  BY DEF TypeOK
<1>i. i \in Locks
  BY NextType DEF TypeOK, Next
<1>l. CommandLock \in Locks
  BY DEF CommandLock, Locks
<1>1. CASE Accept(t) \/ ReadSock(t) \/ ReadMalformed(t) \/ ReadQuit(t) \/ Trap(t)
  <2>1. locks' = locks /\ sound' = sound /\ cmd' = cmd
    BY <1>1 DEF Accept, ReadSock, ReadMalformed, ReadQuit, Trap, local
  <2>2. Holds(t, i)' <=> Holds(t, i)
    <3>1. CASE pc' = pc
      BY <3>1, <2>1 DEF Holds
    <3>2. CASE pc[t] = "read" /\ pc'[t] = "quit"
      BY <3>2, <2>1 DEF Holds
    <3>3. CASE pc[t] \in {"none", "open"} /\ pc'[t] \in {"init", "enter"}
      BY <3>3, <2>1 DEF Holds
    <3>4. CASE Accept(t)
      BY <3>4, <3>3, <1>p, NewThread DEF Accept, Goto
    <3> QED  BY <1>1, <1>p, <3>1, <3>2, <3>3, <3>4 DEF ReadSock, ReadMalformed, ReadQuit, Trap, At, Goto
  <2> QED  BY <1>o, <1>g, <2>1, <2>2, Kept
<1>2. CASE InitSemaphore(t)
  <2>1. locks' = [locks EXCEPT ![next[t]] = 1] /\ cmd' = cmd
    BY <1>2 DEF InitSemaphore
  <2>2. pc[t] = "init" /\ pc'[t] \in {"init", "open"}
    BY <1>2, <1>p DEF InitSemaphore, At, Goto
  <2>3. Holds(t, i)' <=> Holds(t, i)
    BY <2>1, <2>2 DEF Holds
  <2>5. CASE i = next[t]
    <3>1. Holders(i) = {}
      BY <1>2, <2>5 DEF InitSemaphore, MakeSound
    <3>2. Holders(i)' = {}
      BY <3>1, <2>3, <1>o, SameHolders
    <3>3. locks'[i] = 1
      BY <2>1, <2>5, <1>p, <1>i
    <3> QED  BY <3>2, <3>3 DEF Good
  <2>6. CASE i # next[t]
    <3>1. locks'[i] = locks[i]
      BY <2>1, <2>6, <1>p, <1>i
    <3>2. i \in sound
      BY <1>2, <2>6 DEF InitSemaphore, MakeSound
    <3> QED  BY <1>g, <1>o, <2>3, <3>1, <3>2, Kept
  <2> QED  BY <2>5, <2>6
<1>3. CASE AwaitTurn(t)
  <2>1. pc[t] = "enter" /\ pc'[t] = "read" /\ cmd' = cmd /\ sound' = sound
    BY <1>3, <1>p DEF AwaitTurn, At, Goto, local
  <2>2. CASE i = CommandLock
    <3>1. locks[i] > 0 /\ locks'[i] = locks[i] - 1
      BY <1>3, <2>2, <1>p, <1>l DEF AwaitTurn, Wait
    <3>2. Holds(t, i)'
      BY <2>1, <2>2 DEF Holds
    <3> QED  BY <1>g, <1>o, <2>1, <3>1, <3>2, Took
  <2>3. CASE i # CommandLock
    <3>1. locks'[i] = locks[i]
      BY <1>3, <2>3, <1>p, <1>i DEF AwaitTurn, Wait
    <3>2. Holds(t, i)' <=> Holds(t, i)
      BY <2>1, <2>3 DEF Holds
    <3> QED  BY <1>g, <1>o, <2>1, <3>1, <3>2, Kept
  <2> QED  BY <2>2, <2>3
<1>4. CASE ReadCommand(t) \/ ReadUnknown(t)
  <2>1. /\ pc[t] = "read" /\ pc'[t] \in {"lock v", "enter"} /\ sound' = sound
        /\ Post(CommandLock)
    BY <1>4, <1>p DEF ReadCommand, ReadUnknown, At, Goto, local
  <2>2. CASE i = CommandLock
    <3>1. locks'[i] = locks[i] + 1
      BY <2>1, <2>2, <1>p, <1>l DEF Post
    <3>2. Holds(t, i)
      BY <2>1, <2>2 DEF Holds
    <3>3. ~Holds(t, i)'
      BY <2>1, <2>2 DEF Holds, CommandLock
    <3> QED  BY <1>g, <1>o, <2>1, <3>1, <3>2, <3>3, Gave
  <2>3. CASE i # CommandLock
    <3>1. locks'[i] = locks[i]
      BY <2>1, <2>3, <1>p, <1>i DEF Post
    <3>2. ~Holds(t, i) /\ ~Holds(t, i)'
      BY <2>1, <2>3 DEF Holds, CommandLock
    <3> QED  BY <1>g, <1>o, <2>1, <3>1, <3>2, Kept
  <2> QED  BY <2>2, <2>3
<1>5. CASE QuitWait(t)
  <2>1. /\ pc[t] = "quit" /\ pc'[t] = "close" /\ cmd' = cmd /\ sound' = sound
        /\ Wait(CommandLock)
    BY <1>5, <1>p DEF QuitWait, At, Goto, local
  <2>2. i # CommandLock
    <3> SUFFICES ASSUME i = CommandLock PROVE FALSE
      OBVIOUS
    <3>1. Holds(t, i)
      BY <2>1 DEF Holds
    <3>2. locks[i] = 0
      BY <1>g, <2>1, <3>1, HeldIsZero
    <3> QED  BY <2>1, <3>2 DEF Wait
  <2>3. locks'[i] = locks[i]
    BY <2>1, <2>2, <1>p, <1>i DEF Wait
  <2>4. Holds(t, i)' <=> Holds(t, i)
    BY <2>1, <2>2 DEF Holds
  <2> QED  BY <1>g, <1>o, <2>1, <2>3, <2>4, Kept
<1>6. CASE Close(t)
  <2>1. pc[t] = "close" /\ pc'[t] = "done" /\ cmd' = cmd /\ sound' = sound /\ locks' = locks
    BY <1>6, <1>p DEF Close, At, Goto, local
  <2>2. i # CommandLock
    BY <2>1 DEF Sems, Closing
  <2>3. Holds(t, i)' <=> Holds(t, i)
    BY <2>1, <2>2 DEF Holds
  <2> QED  BY <1>g, <1>o, <2>1, <2>3, Kept
<1>7. CASE LockV(t)
  <2>1. /\ pc[t] = "lock v" /\ cmd' = cmd /\ sound' = sound /\ Wait(cmd[t].v)
        /\ pc'[t] = IF ~cmd[t].number THEN "lock w"
                    ELSE IF Arithmetic(cmd[t]) THEN "load v"
                    ELSE IF cmd[t].op = "set" THEN "store" ELSE "post v"
    BY <1>7, <1>p DEF LockV, At, Goto, local
  <2>2. CASE i = cmd[t].v
    <3>1. locks[i] > 0 /\ locks'[i] = locks[i] - 1
      BY <2>1, <2>2, <1>p, <1>t DEF Wait
    <3>2. Holds(t, i)'
      BY <2>1, <2>2 DEF Holds, Arithmetic
    <3> QED  BY <1>g, <1>o, <2>1, <3>1, <3>2, Took
  <2>3. CASE i # cmd[t].v
    <3>1. locks'[i] = locks[i]
      BY <2>1, <2>3, <1>p, <1>i DEF Wait
    <3>2. ~Holds(t, i)
      BY <2>1, <2>3 DEF Holds
    <3>3. ~Holds(t, i)'
      BY <2>1, <2>3 DEF Holds
    <3> QED  BY <1>g, <1>o, <2>1, <3>1, <3>2, <3>3, Kept
  <2> QED  BY <2>2, <2>3
<1>8. CASE LockW(t)
  <2>1. /\ pc[t] = "lock w" /\ cmd' = cmd /\ sound' = sound /\ Wait(cmd[t].w)
        /\ pc'[t] \in {"load v", "load w"} /\ ~cmd[t].number
    BY <1>8, <1>p DEF LockW, At, Goto, local, Shape
  <2>2. CASE i = cmd[t].w
    <3>1. locks[i] > 0 /\ locks'[i] = locks[i] - 1
      BY <2>1, <2>2, <1>p, <1>t DEF Wait
    <3>2. Holds(t, i)'
      BY <2>1, <2>2 DEF Holds
    <3> QED  BY <1>g, <1>o, <2>1, <3>1, <3>2, Took
  <2>3. CASE i # cmd[t].w
    <3>1. locks'[i] = locks[i]
      BY <2>1, <2>3, <1>p, <1>i DEF Wait
    <3>2. Holds(t, i)' <=> Holds(t, i)
      BY <2>1, <2>3 DEF Holds
    <3> QED  BY <1>g, <1>o, <2>1, <3>1, <3>2, Kept
  <2> QED  BY <2>2, <2>3
<1>9. CASE LoadV(t) \/ LoadW(t)
  <2>1. locks' = locks /\ cmd' = cmd /\ sound' = sound
    BY <1>9 DEF LoadV, LoadW
  <2>2. \/ pc[t] = "load v" /\ cmd[t].number /\ pc'[t] = "release v"
        \/ pc[t] = "load v" /\ ~cmd[t].number /\ pc'[t] = "load w"
        \/ pc[t] = "load w" /\ ~cmd[t].number /\ pc'[t] = "store"
    BY <1>9, <1>p, <1>t DEF LoadV, LoadW, At, Goto, Shape
  <2>3. Holds(t, i)' <=> Holds(t, i)
    BY <2>1, <2>2 DEF Holds
  <2> QED  BY <1>g, <1>o, <2>1, <2>3, Kept
<1>10. CASE ReleaseV(t)
  <2>1. /\ pc[t] = "release v" /\ cmd' = cmd /\ sound' = sound /\ Post(cmd[t].v)
        /\ pc'[t] = "store" /\ Arithmetic(cmd[t]) /\ cmd[t].number
    BY <1>10, <1>p DEF ReleaseV, At, Goto, local, Shape
  <2>2. CASE i = cmd[t].v
    <3>1. locks'[i] = locks[i] + 1
      BY <2>1, <2>2, <1>p, <1>t DEF Post
    <3>2. Holds(t, i)
      BY <2>1, <2>2 DEF Holds
    <3>3. ~Holds(t, i)'
      BY <2>1, <2>2, <1>t DEF Holds, Arithmetic
    <3> QED  BY <1>g, <1>o, <2>1, <3>1, <3>2, <3>3, Gave
  <2>3. CASE i # cmd[t].v
    <3>1. locks'[i] = locks[i]
      BY <2>1, <2>3, <1>p, <1>i DEF Post
    <3>2. ~Holds(t, i) /\ ~Holds(t, i)'
      BY <2>1, <2>3 DEF Holds
    <3> QED  BY <1>g, <1>o, <2>1, <3>1, <3>2, Kept
  <2> QED  BY <2>2, <2>3
<1>11. CASE Store(t)
  <2>1. /\ pc[t] = "store" /\ cmd' = cmd /\ locks' = locks
        /\ pc'[t] = IF Arithmetic(cmd[t]) \/ ~cmd[t].number THEN "post w" ELSE "post v"
    BY <1>11, <1>p DEF Store, At, Goto, local
  <2>2. i \in sound
    BY <1>11 DEF Store, MakeUnsound
  <2>3. Holds(t, i)' <=> Holds(t, i)
    BY <2>1, <1>t DEF Holds, Arithmetic
  <2> QED  BY <1>g, <1>o, <2>1, <2>2, <2>3, Kept
<1>12. CASE PostW(t)
  <2>1. /\ pc[t] = "post w" /\ cmd' = cmd /\ Post(cmd[t].w) /\ pc'[t] = "post v"
        /\ Arithmetic(cmd[t]) \/ ~cmd[t].number
    BY <1>12, <1>p DEF PostW, At, Goto, local, Shape
  <2>2. i \in sound /\ (cmd[t].number => i # cmd[t].w)
    BY <1>12 DEF PostW, MakeUnsound
  <2>3. CASE i = cmd[t].w
    <3>1. ~cmd[t].number /\ cmd[t].v # i
      BY <2>1, <2>2, <2>3 DEF Sems, Doubled
    <3>2. locks'[i] = locks[i] + 1
      BY <2>1, <2>3, <1>p, <1>t DEF Post
    <3>3. Holds(t, i)
      BY <2>1, <2>3, <3>1 DEF Holds
    <3>4. ~Holds(t, i)'
      BY <2>1, <2>3, <3>1, <1>t DEF Holds
    <3> QED  BY <1>g, <1>o, <2>2, <3>2, <3>3, <3>4, Gave
  <2>4. CASE i # cmd[t].w
    <3>1. locks'[i] = locks[i]
      BY <2>1, <2>4, <1>p, <1>i DEF Post
    <3>2. Holds(t, i)' <=> Holds(t, i)
      BY <2>1, <2>4 DEF Holds, Arithmetic
    <3> QED  BY <1>g, <1>o, <2>2, <3>1, <3>2, Kept
  <2> QED  BY <2>3, <2>4
<1>13. CASE PostV(t)
  <2>1. /\ pc[t] = "post v" /\ cmd' = cmd /\ Post(cmd[t].v) /\ pc'[t] = "enter"
    BY <1>13, <1>p DEF PostV, At, Goto, local
  <2>2. i \in sound /\ (i = cmd[t].v => Holds(t, cmd[t].v))
    BY <1>13 DEF PostV, MakeUnsound
  <2>3. ~Holds(t, i)'
    BY <2>1 DEF Holds
  <2>4. CASE i = cmd[t].v
    <3>1. locks'[i] = locks[i] + 1
      BY <2>1, <2>4, <1>p, <1>t DEF Post
    <3> QED  BY <1>g, <1>o, <2>2, <2>3, <2>4, <3>1, Gave
  <2>5. CASE i # cmd[t].v
    <3>1. locks'[i] = locks[i]
      BY <2>1, <2>5, <1>p, <1>i DEF Post
    <3>2. ~Holds(t, i)
      BY <2>1, <2>5 DEF Holds
    <3> QED  BY <1>g, <1>o, <2>2, <2>3, <3>1, <3>2, Kept
  <2> QED  BY <2>4, <2>5
<1> QED
  BY <1>1, <1>2, <1>3, <1>4, <1>5, <1>6, <1>7, <1>8, <1>9, <1>10, <1>11, <1>12, <1>13 DEF Step

LEMMA StepClosing ==
  ASSUME TypeInv, Sems, NEW t \in Threads, Accept(t) \/ Step(t)
  PROVE  Closing'
<1> SUFFICES ASSUME NEW u \in Threads, pc'[u] = "close", CommandLock \in sound' PROVE FALSE
  BY DEF Closing
<1> USE DEF TypeInv
<1>p. DOMAIN pc = Threads
  BY DEF TypeOK
<1>1. \/ pc[u] = "close"
      \/ u = t /\ QuitWait(t)
  <2>1. CASE u # t
    BY <2>1, StepOnly DEF Only
  <2>2. CASE u = t
    <3>1. CASE Accept(t) \/ InitSemaphore(t) \/ ReadSock(t) \/ AwaitTurn(t)
      BY <2>2, <3>1, <1>p DEF Accept, InitSemaphore, ReadSock, AwaitTurn, At, Goto
    <3>2. CASE ReadCommand(t) \/ ReadUnknown(t) \/ ReadMalformed(t) \/ ReadQuit(t)
      BY <2>2, <3>2, <1>p DEF ReadCommand, ReadUnknown, ReadMalformed, ReadQuit, At, Goto
    <3>3. CASE Close(t) \/ LockV(t) \/ LockW(t) \/ LoadV(t) \/ LoadW(t)
      BY <2>2, <3>3, <1>p DEF Close, LockV, LockW, LoadV, LoadW, At, Goto
    <3>4. CASE ReleaseV(t) \/ Store(t) \/ Trap(t) \/ PostW(t) \/ PostV(t)
      BY <2>2, <3>4, <1>p DEF ReleaseV, Store, Trap, PostW, PostV, At, Goto
    <3> QED  BY <2>2, <3>1, <3>2, <3>3, <3>4 DEF Step
  <2> QED  BY <2>1, <2>2
<1>2. pc[u] \in {"quit", "close"}
  BY <1>1 DEF QuitWait, At
<1>3. Holds(u, CommandLock)
  BY <1>2 DEF Holds
<1>4. CommandLock \in sound
  BY <1>3, SoundGrows DEF Holders
<1>5. pc[u] # "close"
  BY <1>4 DEF Sems, Closing
<1>6. Good(CommandLock)
  BY <1>4 DEF Sems, LocksExclude, Good
<1>7. locks[CommandLock] = 0
  BY <1>3, <1>6, HeldIsZero
<1> QED  BY <1>1, <1>5, <1>7 DEF QuitWait, Wait

LEMMA StepDoubled ==
  ASSUME TypeInv, Sems, NEW t \in Threads, Accept(t) \/ Step(t)
  PROVE  Doubled'
<1> SUFFICES ASSUME NEW u \in Threads,
                    pc'[u] \in {"load v", "load w", "store", "post w"},
                    ~cmd'[u].number, cmd'[u].w = cmd'[u].v, cmd'[u].v \in sound'
             PROVE  FALSE
  BY DEF Doubled
<1> USE DEF TypeInv
<1>p. DOMAIN pc = Threads /\ cmd[u].number \in BOOLEAN
  BY Thread DEF TypeOK
<1>1. /\ cmd'[u] = cmd[u]
      /\ \/ pc[u] \in {"load v", "load w", "store", "post w"}
         \/ u = t /\ LockW(t)
  <2>1. CASE u # t
    BY <2>1, StepOnly DEF Only
  <2>2. CASE u = t
    <3>1. CASE Accept(t) \/ InitSemaphore(t) \/ ReadSock(t) \/ AwaitTurn(t)
      BY <2>2, <3>1, <1>p DEF Accept, InitSemaphore, ReadSock, AwaitTurn, At, Goto, local
    <3>2. CASE ReadCommand(t) \/ ReadUnknown(t) \/ ReadMalformed(t) \/ ReadQuit(t)
      BY <2>2, <3>2, <1>p DEF ReadCommand, ReadUnknown, ReadMalformed, ReadQuit, At, Goto, local
    <3>3. CASE LockV(t)
      BY <2>2, <3>3, <1>p DEF LockV, At, Goto, local
    <3>4. CASE QuitWait(t) \/ Close(t) \/ LockW(t) \/ LoadV(t) \/ LoadW(t)
      BY <2>2, <3>4, <1>p DEF QuitWait, Close, LockW, LoadV, LoadW, At, Goto, local
    <3>5. CASE ReleaseV(t) \/ Store(t) \/ Trap(t) \/ PostW(t) \/ PostV(t)
      BY <2>2, <3>5, <1>p DEF ReleaseV, Store, Trap, PostW, PostV, At, Goto, local, Shape
    <3> QED  BY <2>2, <3>1, <3>2, <3>3, <3>4, <3>5 DEF Step
  <2> QED  BY <2>1, <2>2
<1>2. Holds(u, cmd[u].v)
  BY <1>1 DEF Holds, LockW, At
<1>3. cmd[u].v \in sound
  BY <1>1, <1>2, SoundGrows DEF Holders
<1>4. pc[u] \notin {"load v", "load w", "store", "post w"}
  BY <1>1, <1>3 DEF Sems, Doubled
<1>5. Good(cmd[u].v)
  BY <1>3 DEF Sems, LocksExclude, Good
<1>6. locks[cmd[u].v] = 0
  BY <1>2, <1>5, HeldIsZero
<1>7. u = t /\ LockW(t)
  BY <1>1, <1>4
<1>8. locks[cmd[u].w] > 0
  BY <1>7 DEF LockW, Wait
<1>9. cmd[u].w = cmd[u].v
  BY <1>1
<1>10. locks[cmd[u].w] = locks[cmd[u].v]
  BY ONLY <1>9
<1> QED  BY ONLY <1>6, <1>8, <1>10

LEMMA StepNumbered ==
  ASSUME TypeInv, Sems, NEW t \in Threads, Accept(t) \/ Step(t)
  PROVE  Numbered'
<1> SUFFICES ASSUME NEW u \in Threads, u > accepted' PROVE pc'[u] = "none"
  BY DEF Numbered
<1> USE DEF TypeInv
<1>0. accepted \in 0 .. MaxConns
  BY DEF TypeOK
<1>1. u > accepted /\ u # t
  <2>1. CASE Accept(t)
    BY <2>1, <1>0 DEF Accept, Threads
  <2>2. CASE Step(t)
    <3>1. accepted' = accepted
      BY <2>2 DEF Step, InitSemaphore, ReadSock, AwaitTurn, ReadCommand, ReadUnknown,
         ReadMalformed, ReadQuit, QuitWait, Close, LockV, LockW, LoadV, LoadW, ReleaseV, Store,
         Trap, PostW, PostV, main
    <3>2. pc[t] # "none"
      BY <2>2 DEF Step, InitSemaphore, ReadSock, AwaitTurn, ReadCommand, ReadUnknown,
         ReadMalformed, ReadQuit, QuitWait, Close, LockV, LockW, LoadV, LoadW, ReleaseV, Store,
         Trap, PostW, PostV, At
    <3> QED  BY <3>1, <3>2 DEF Sems, Numbered
  <2> QED  BY <2>1, <2>2
<1>2. pc[u] = "none"
  BY <1>1 DEF Sems, Numbered
<1> QED  BY <1>1, <1>2, StepOnly DEF Only

LEMMA NextSems == TypeInv /\ Sems /\ [Next]_vars => Sems'
<1> SUFFICES ASSUME TypeInv, Sems, [Next]_vars PROVE Sems'
  OBVIOUS
<1>1. CASE UNCHANGED vars
  <2>1. /\ cmd' = cmd /\ pc' = pc /\ locks' = locks /\ sound' = sound /\ accepted' = accepted
    BY <1>1 DEF vars, main, local
  <2>2. \A i : Holders(i)' = Holders(i)
    BY <2>1 DEF Holders, Holds
  <2>3. LocksExclude'
    BY <2>1, <2>2 DEF Sems, LocksExclude
  <2>4. Closing' /\ Doubled' /\ Numbered'
    BY <2>1 DEF Sems, Closing, Doubled, Numbered
  <2> QED  BY <2>3, <2>4 DEF Sems
<1>2. ASSUME NEW t \in Threads, Accept(t) \/ Step(t) PROVE Sems'
  BY <1>2, StepLocks, StepClosing, StepDoubled, StepNumbered DEF Sems
<1> QED  BY <1>1, <1>2 DEF Next

LEMMA AlwaysSems == Spec => [](TypeInv /\ Sems)
<1>1. Init => TypeInv /\ Sems
  BY InitType, InitSems
<1>2. TypeInv /\ Sems /\ [Next]_vars => (TypeInv /\ Sems)'
  BY NextType, NextSems
<1> QED  BY <1>1, <1>2, PTL DEF Spec

(* Mutual exclusion: for any number of clients, letters and commands, a    *)
(* semaphore that is sound has one holder and is 0, or has none and is 1.  *)
THEOREM SoundLocksExclude == Spec => []LocksExclude
<1>1. TypeInv /\ Sems => LocksExclude
  BY DEF Sems
<1> QED  BY <1>1, AlwaysSems, PTL

-----------------------------------------------------------------------------
(* What a thread has loaded *)

(* The first value, the second one, and the number of a command.           *)
FirstLoaded ==
  \A t \in Threads :
    (/\ pc[t] \in {"load w", "store"} /\ ~cmd[t].number
     /\ Arithmetic(cmd[t]) /\ cmd[t].v \in sound) => a[t] = variables[cmd[t].v]

SecondLoaded ==
  \A t \in Threads :
    (pc[t] = "store" /\ ~cmd[t].number /\ cmd[t].w \in sound) => b[t] = variables[cmd[t].w]

NumberRead ==
  \A t \in Threads :
    (pc[t] \in {"lock v", "load v", "release v", "store"} /\ cmd[t].number) => b[t] = cmd[t].w

Coherent == FirstLoaded /\ SecondLoaded /\ NumberRead

OnlyData(t) == \A u \in Threads \ {t} : a'[u] = a[u] /\ b'[u] = b[u]

LEMMA StepOnlyData ==
  ASSUME TypeInv, NEW t \in Threads, Accept(t) \/ Step(t)
  PROVE  OnlyData(t)
<1>1. DOMAIN a = Threads
  BY DEF TypeInv, TypeOK
<1>2. DOMAIN b = Threads
  BY DEF TypeInv, TypeOK
<1>3. CASE LoadV(t) \/ LoadW(t) \/ ReadCommand(t)
  BY <1>1, <1>2, <1>3 DEF OnlyData, LoadV, LoadW, ReadCommand
<1>4. ASSUME a' = a /\ b' = b PROVE OnlyData(t)
  BY <1>4 DEF OnlyData
<1>5. CASE Accept(t) \/ InitSemaphore(t) \/ ReadSock(t) \/ AwaitTurn(t)
  BY <1>4, <1>5 DEF Accept, InitSemaphore, ReadSock, AwaitTurn, local
<1>6. CASE ReadUnknown(t) \/ ReadMalformed(t) \/ ReadQuit(t) \/ QuitWait(t) \/ Close(t)
  BY <1>4, <1>6 DEF ReadUnknown, ReadMalformed, ReadQuit, QuitWait, Close, local
<1>7. CASE LockV(t) \/ LockW(t) \/ ReleaseV(t) \/ Store(t) \/ Trap(t) \/ PostW(t) \/ PostV(t)
  BY <1>4, <1>7 DEF LockV, LockW, ReleaseV, Store, Trap, PostW, PostV, local
<1> QED  BY <1>3, <1>5, <1>6, <1>7 DEF Step

(* Nobody changes a letter under the thread that holds its semaphore.      *)
LEMMA HeldStays ==
  ASSUME TypeInv, Sems, NEW t \in Threads, Accept(t) \/ Step(t),
         NEW u \in Threads, u # t, NEW i \in Letters, Holds(u, i), i \in sound'
  PROVE  i \in sound /\ variables'[i] = variables[i]
<1>1. i \in sound
  BY SoundGrows DEF Holders
<1>2. Good(i)
  BY <1>1 DEF Sems, LocksExclude, Good
<1>3. ~Holds(t, i)
  BY <1>2 DEF Good, Holders
<1>4. CASE Store(t)
  <2>1. variables \in [Letters -> Values]
    BY DEF TypeInv, TypeOK
  <2>3. CASE ~Refused(t)
    <3>1. i # cmd[t].v
      <4>1. CASE i = cmd[t].v
        <5>1. ~Holds(t, cmd[t].v)
          BY <1>3, <4>1 DEF Holds
        <5>2. sound' = sound \ {cmd[t].v}
          BY <1>4, <2>3, <5>1 DEF Store, MakeUnsound
        <5> QED  BY <4>1, <5>2
      <4> QED  BY <4>1
    <3> QED  BY <1>1, <1>4, <2>1, <2>3, <3>1 DEF Store
  <2>4. CASE Refused(t)
    BY <1>1, <1>4, <2>4 DEF Store
  <2> QED  BY <2>3, <2>4
<1>5. CASE ~Store(t)
  <2>1. variables' = variables
    <3>1. CASE Accept(t) \/ InitSemaphore(t) \/ ReadSock(t) \/ AwaitTurn(t)
      BY <3>1 DEF Accept, InitSemaphore, ReadSock, AwaitTurn
    <3>2. CASE ReadCommand(t) \/ ReadUnknown(t) \/ ReadMalformed(t) \/ ReadQuit(t)
      BY <3>2 DEF ReadCommand, ReadUnknown, ReadMalformed, ReadQuit
    <3>3. CASE QuitWait(t) \/ Close(t) \/ LockV(t) \/ LockW(t) \/ LoadV(t) \/ LoadW(t)
      BY <3>3 DEF QuitWait, Close, LockV, LockW, LoadV, LoadW
    <3>4. CASE ReleaseV(t) \/ Trap(t) \/ PostW(t) \/ PostV(t)
      BY <3>4 DEF ReleaseV, Trap, PostW, PostV
    <3> QED  BY <1>5, <3>1, <3>2, <3>3, <3>4 DEF Step
  <2> QED  BY <1>1, <2>1
<1>6. Store(t) \/ ~Store(t)
  OBVIOUS
<1> QED  BY <1>4, <1>5, <1>6

LEMMA InitCoherent == Init => Coherent
BY DEF Init, Coherent, FirstLoaded, SecondLoaded, NumberRead

LEMMA StepFirst ==
  ASSUME TypeInv, Sems, Coherent, NEW t \in Threads, Accept(t) \/ Step(t)
  PROVE  FirstLoaded'
<1> SUFFICES ASSUME NEW u \in Threads, pc'[u] \in {"load w", "store"}, ~cmd'[u].number,
                    Arithmetic(cmd'[u]), cmd'[u].v \in sound'
             PROVE  a'[u] = variables'[cmd'[u].v]
  BY DEF FirstLoaded, Arithmetic
<1>1. CASE u # t
  <2>1. pc'[u] = pc[u] /\ cmd'[u] = cmd[u] /\ a'[u] = a[u]
    BY <1>1, StepOnly, StepOnlyData DEF Only, OnlyData
  <2>2. cmd[u].v \in Letters
    BY Thread
  <2>3. Holds(u, cmd[u].v)
    BY <2>1 DEF Holds
  <2>4. cmd[u].v \in sound /\ variables'[cmd[u].v] = variables[cmd[u].v]
    BY <1>1, <2>1, <2>2, <2>3, HeldStays
  <2>5. a[u] = variables[cmd[u].v]
    BY <2>1, <2>4 DEF Coherent, FirstLoaded
  <2> QED  BY <2>1, <2>4, <2>5
<1>2. CASE u = t
  <2>p. DOMAIN pc = Threads /\ DOMAIN a = Threads
    BY DEF TypeInv, TypeOK
  <2>1. CASE LoadV(t)
    BY <1>2, <2>1, <2>p DEF LoadV
  <2>2. CASE LoadW(t)
    BY <1>2, <2>2 DEF LoadW, At, Coherent, FirstLoaded
  <2>3. CASE Trap(t)
    BY <1>2, <2>3 DEF Trap, local, Coherent, FirstLoaded
  <2>4. CASE LockV(t) \/ LockW(t) \/ ReleaseV(t)
    BY <1>2, <2>4, <2>p DEF LockV, LockW, ReleaseV, At, Goto, local, TypeInv, Shape
  <2>5. CASE Accept(t) \/ InitSemaphore(t) \/ ReadSock(t) \/ AwaitTurn(t)
    BY <1>2, <2>5, <2>p DEF Accept, InitSemaphore, ReadSock, AwaitTurn, At, Goto
  <2>6. CASE ReadCommand(t) \/ ReadUnknown(t) \/ ReadMalformed(t) \/ ReadQuit(t)
    BY <1>2, <2>6, <2>p DEF ReadCommand, ReadUnknown, ReadMalformed, ReadQuit, At, Goto
  <2>7. CASE QuitWait(t) \/ Close(t) \/ Store(t) \/ PostW(t) \/ PostV(t)
    BY <1>2, <2>7, <2>p DEF QuitWait, Close, Store, PostW, PostV, At, Goto
  <2> QED  BY <2>1, <2>2, <2>3, <2>4, <2>5, <2>6, <2>7 DEF Step
<1> QED  BY <1>1, <1>2

LEMMA StepSecond ==
  ASSUME TypeInv, Sems, Coherent, NEW t \in Threads, Accept(t) \/ Step(t)
  PROVE  SecondLoaded'
<1> SUFFICES ASSUME NEW u \in Threads, pc'[u] = "store", ~cmd'[u].number, cmd'[u].w \in sound'
             PROVE  b'[u] = variables'[cmd'[u].w]
  BY DEF SecondLoaded
<1>1. CASE u # t
  <2>1. pc'[u] = pc[u] /\ cmd'[u] = cmd[u] /\ b'[u] = b[u]
    BY <1>1, StepOnly, StepOnlyData DEF Only, OnlyData
  <2>2. cmd[u].w \in Letters
    BY <2>1, Thread
  <2>3. Holds(u, cmd[u].w)
    BY <2>1 DEF Holds
  <2>4. cmd[u].w \in sound /\ variables'[cmd[u].w] = variables[cmd[u].w]
    BY <1>1, <2>1, <2>2, <2>3, HeldStays
  <2>5. b[u] = variables[cmd[u].w]
    BY <2>1, <2>4 DEF Coherent, SecondLoaded
  <2> QED  BY <2>1, <2>4, <2>5
<1>2. CASE u = t
  <2>p. DOMAIN pc = Threads /\ DOMAIN b = Threads
    BY DEF TypeInv, TypeOK
  <2>1. CASE LoadV(t)
    BY <1>2, <2>1, <2>p DEF LoadV, Goto
  <2>2. CASE LoadW(t)
    BY <1>2, <2>2, <2>p DEF LoadW
  <2>3. CASE Trap(t)
    BY <1>2, <2>3 DEF Trap, local, Coherent, SecondLoaded
  <2>4. CASE LockV(t) \/ LockW(t) \/ ReleaseV(t)
    BY <1>2, <2>4, <2>p DEF LockV, LockW, ReleaseV, At, Goto, local, TypeInv, Shape
  <2>5. CASE Accept(t) \/ InitSemaphore(t) \/ ReadSock(t) \/ AwaitTurn(t)
    BY <1>2, <2>5, <2>p DEF Accept, InitSemaphore, ReadSock, AwaitTurn, At, Goto
  <2>6. CASE ReadCommand(t) \/ ReadUnknown(t) \/ ReadMalformed(t) \/ ReadQuit(t)
    BY <1>2, <2>6, <2>p DEF ReadCommand, ReadUnknown, ReadMalformed, ReadQuit, At, Goto
  <2>7. CASE QuitWait(t) \/ Close(t) \/ Store(t) \/ PostW(t) \/ PostV(t)
    BY <1>2, <2>7, <2>p DEF QuitWait, Close, Store, PostW, PostV, At, Goto
  <2> QED  BY <2>1, <2>2, <2>3, <2>4, <2>5, <2>6, <2>7 DEF Step
<1> QED  BY <1>1, <1>2

LEMMA StepNumber ==
  ASSUME TypeInv, Sems, Coherent, NEW t \in Threads, Accept(t) \/ Step(t)
  PROVE  NumberRead'
<1> SUFFICES ASSUME NEW u \in Threads, pc'[u] \in {"lock v", "load v", "release v", "store"},
                    cmd'[u].number
             PROVE  b'[u] = cmd'[u].w
  BY DEF NumberRead
<1>1. CASE u # t
  <2>1. pc'[u] = pc[u] /\ cmd'[u] = cmd[u] /\ b'[u] = b[u]
    BY <1>1, StepOnly, StepOnlyData DEF Only, OnlyData
  <2> QED  BY <2>1 DEF Coherent, NumberRead
<1>2. CASE u = t
  <2>p. DOMAIN pc = Threads /\ DOMAIN b = Threads /\ DOMAIN cmd = Threads
    BY DEF TypeInv, TypeOK
  <2>1. CASE ReadCommand(t)
    BY <1>2, <2>1, <2>p DEF ReadCommand
  <2>2. CASE LoadW(t)
    BY <1>2, <2>2, <2>p DEF LoadW, At, TypeInv, Shape
  <2>3. CASE Trap(t)
    BY <1>2, <2>3 DEF Trap, local, Coherent, NumberRead
  <2>4. CASE LockV(t) \/ LockW(t) \/ ReleaseV(t) \/ LoadV(t)
    BY <1>2, <2>4, <2>p DEF LockV, LockW, ReleaseV, LoadV, At, Goto, local, TypeInv, Shape,
       Coherent, NumberRead
  <2>5. CASE Accept(t) \/ InitSemaphore(t) \/ ReadSock(t) \/ AwaitTurn(t)
    BY <1>2, <2>5, <2>p DEF Accept, InitSemaphore, ReadSock, AwaitTurn, At, Goto
  <2>6. CASE ReadUnknown(t) \/ ReadMalformed(t) \/ ReadQuit(t)
    BY <1>2, <2>6, <2>p DEF ReadUnknown, ReadMalformed, ReadQuit, At, Goto
  <2>7. CASE QuitWait(t) \/ Close(t) \/ Store(t) \/ PostW(t) \/ PostV(t)
    BY <1>2, <2>7, <2>p DEF QuitWait, Close, Store, PostW, PostV, At, Goto
  <2> QED  BY <2>1, <2>2, <2>3, <2>4, <2>5, <2>6, <2>7 DEF Step
<1> QED  BY <1>1, <1>2

LEMMA NextCoherent == TypeInv /\ Sems /\ Coherent /\ [Next]_vars => Coherent'
<1> SUFFICES ASSUME TypeInv, Sems, Coherent, [Next]_vars PROVE Coherent'
  OBVIOUS
<1>1. CASE UNCHANGED vars
  BY <1>1 DEF Coherent, FirstLoaded, SecondLoaded, NumberRead, vars, local
<1>2. ASSUME NEW t \in Threads, Accept(t) \/ Step(t) PROVE Coherent'
  BY <1>2, StepFirst, StepSecond, StepNumber DEF Coherent
<1> QED  BY <1>1, <1>2 DEF Next

LEMMA AlwaysCoherent == Spec => [](TypeInv /\ Sems /\ Coherent)
<1>1. Init => TypeInv /\ Sems /\ Coherent
  BY InitType, InitSems, InitCoherent
<1>2. TypeInv /\ Sems /\ Coherent /\ [Next]_vars => (TypeInv /\ Sems /\ Coherent)'
  BY NextType, NextSems, NextCoherent
<1> QED  BY <1>1, <1>2, PTL DEF Spec

(* What a command stores.                                                  *)
LEMMA StoresCurrent ==
  ASSUME TypeInv, Coherent, NEW t \in Threads, Store(t), Holds(t, cmd[t].v),
         cmd[t].v \in sound, ~cmd[t].number => cmd[t].w \in sound
  PROVE  variables'[cmd[t].v] =
           Apply(cmd[t].op, variables[cmd[t].v],
                 IF cmd[t].number THEN cmd[t].w ELSE variables[cmd[t].w])
<1> DEFINE operand == IF cmd[t].number THEN cmd[t].w ELSE variables[cmd[t].w]
<1>1. pc[t] = "store"
  BY DEF Store, At
<1>2. cmd[t].v \in Letters /\ variables \in [Letters -> Values] /\ cmd[t].v # CommandLock
  BY Thread DEF TypeInv, TypeOK
<1>3. b[t] = operand
  BY <1>1 DEF Coherent, SecondLoaded, NumberRead
<1>4. cmd[t].op # "print"
  BY <1>1 DEF TypeInv, Shape
<1>5. CASE ~Arithmetic(cmd[t])
  <2>1. cmd[t].op = "set"
    BY <1>4, <1>5 DEF Arithmetic
  <2>2. ~Refused(t)
    BY <2>1 DEF Refused
  <2>3. variables'[cmd[t].v] = Apply(cmd[t].op, a[t], b[t])
    BY <1>2, <2>2 DEF Store
  <2>4. \A x, y : Apply("set", x, y) = y
    BY DEF Apply
  <2> QED  BY <1>3, <2>1, <2>3, <2>4
<1>6. CASE Arithmetic(cmd[t])
  <2>1. ~cmd[t].number
    BY <1>1, <1>2, <1>6 DEF Holds
  <2>2. a[t] = variables[cmd[t].v]
    BY <1>1, <1>6, <2>1 DEF Coherent, FirstLoaded
  <2>3. CASE Refused(t)
    <3>1. variables' = variables
      BY <2>3 DEF Store
    <3>2. cmd[t].op = "divide" /\ operand = 0
      BY <1>3, <2>3 DEF Refused
    <3>3. \A x : Apply("divide", x, 0) = x
      BY DEF Apply
    <3> QED  BY <3>1, <3>2, <3>3
  <2>4. CASE ~Refused(t)
    <3>1. variables'[cmd[t].v] = Apply(cmd[t].op, a[t], b[t])
      BY <1>2, <2>4 DEF Store
    <3> QED  BY <1>3, <2>2, <3>1
  <2> QED  BY <2>3, <2>4
<1> QED  BY <1>5, <1>6

(* A thread leaves "store" by storing.                                     *)
LEMMA LeavesByStore ==
  ASSUME TypeInv, Sems, NEW u \in Threads, Accept(u) \/ Step(u),
         NEW t \in Threads, pc[t] = "store", pc'[t] # "store"
  PROVE  Store(t)
<1>1. u = t
  BY StepOnly DEF Only
<1>2. CASE Accept(u)
  BY <1>1, <1>2, NewThread
<1>3. CASE Step(u)
  BY <1>1, <1>3 DEF Step, InitSemaphore, ReadSock, AwaitTurn, ReadCommand, ReadUnknown,
     ReadMalformed, ReadQuit, QuitWait, Close, LockV, LockW, LoadV, LoadW, ReleaseV, Trap,
     PostW, PostV, At
<1> QED  BY <1>2, <1>3

(* No lost update: while its letters are sound, the command of a thread    *)
(* acts on the values of the moment at which it stores.                    *)
THEOREM UpdatesAreAtomic == Spec => AtomicUpdates
<1>1. ASSUME TypeInv, Sems, Coherent, Next, NEW t \in Threads,
             pc[t] = "store", pc'[t] # "store", Holds(t, cmd[t].v), cmd[t].v \in sound,
             ~cmd[t].number => cmd[t].w \in sound
      PROVE  variables'[cmd[t].v] =
               Apply(cmd[t].op, variables[cmd[t].v],
                     IF cmd[t].number THEN cmd[t].w ELSE variables[cmd[t].w])
  BY <1>1, LeavesByStore, StoresCurrent DEF Next
<1>2. TypeInv /\ Sems /\ Coherent /\ [Next]_vars
      => [\A t \in Threads :
            (/\ pc[t] = "store" /\ pc'[t] # "store" /\ Holds(t, cmd[t].v) /\ cmd[t].v \in sound
             /\ ~cmd[t].number => cmd[t].w \in sound)
            => variables'[cmd[t].v] =
                 Apply(cmd[t].op, variables[cmd[t].v],
                       IF cmd[t].number THEN cmd[t].w ELSE variables[cmd[t].w])]_vars
  BY <1>1
<1> QED  BY <1>2, AlwaysCoherent, PTL DEF Spec, AtomicUpdates

-----------------------------------------------------------------------------
(* Connections *)

(* A descriptor has a connection that was accepted, `sock' that of the     *)
(* last one, or it is closed.                                              *)
Conns ==
  /\ \A f \in Descriptors : conn[f] <= accepted
  /\ accepted > 0 => conn[sock] \in {0, accepted}
  /\ NoEarlierConnection

LEMMA InitConns == Init => Conns
BY DEF Init, Conns, NoEarlierConnection

LEMMA StepConns ==
  ASSUME TypeInv, Sems, Conns, NEW t \in Threads, Accept(t) \/ Step(t)
  PROVE  Conns'
<1>1. /\ accepted \in 0 .. MaxConns /\ sock \in Descriptors
      /\ conn \in [Descriptors -> 0 .. MaxConns] /\ fd \in [Threads -> Descriptors]
      /\ DOMAIN pc = Threads
  BY DEF TypeInv, TypeOK
<1>2. accepted \in Nat /\ (\A f \in Descriptors : conn[f] \in Nat) /\ Threads \subseteq Nat
  BY <1>1 DEF Threads
<1>3. \A u \in Threads : pc[u] # "none" => u <= accepted
  BY <1>2 DEF Sems, Numbered
<1>4. CASE Accept(t)
  <2>1. t = accepted + 1 /\ accepted' = t /\ fd' = fd
    BY <1>4 DEF Accept, local
  <2>2. PICK f \in Descriptors : conn[f] = 0 /\ sock' = f /\ conn' = [conn EXCEPT ![f] = t]
    BY <1>4 DEF Accept
  <2>3. conn'[f] = t /\ (\A g \in Descriptors : g # f => conn'[g] = conn[g])
    BY <1>1, <2>2
  <2>4. \A g \in Descriptors : conn'[g] <= accepted'
    BY <1>2, <2>1, <2>3 DEF Conns
  <2>5. ASSUME NEW u \in Threads, pc'[u] \notin {"none", "init", "open"}
        PROVE  conn'[fd'[u]] = 0 \/ conn'[fd'[u]] >= u
    <3>1. u # t
      BY <1>1, <1>4, <2>5 DEF Accept, Goto
    <3>2. pc[u] \notin {"none", "init", "open"}
      BY <2>5, <3>1, StepOnly DEF Only
    <3>3. conn[fd[u]] = 0 \/ conn[fd[u]] >= u
      BY <3>2 DEF Conns, NoEarlierConnection
    <3>4. u <= accepted /\ fd[u] \in Descriptors
      BY <1>1, <1>3, <3>2
    <3>5. t >= u
      BY <1>2, <2>1, <3>4
    <3> QED  BY <2>1, <2>3, <3>3, <3>4, <3>5
  <2>6. conn'[sock'] = accepted'
    BY <2>1, <2>2, <2>3
  <2> QED  BY <2>4, <2>5, <2>6 DEF Conns, NoEarlierConnection
<1>5. CASE ReadSock(t)
  <2>1. conn' = conn /\ sock' = sock /\ accepted' = accepted
    BY <1>5 DEF ReadSock, main
  <2>2. ASSUME NEW u \in Threads, pc'[u] \notin {"none", "init", "open"}
        PROVE  conn'[fd'[u]] = 0 \/ conn'[fd'[u]] >= u
    <3>1. CASE u # t
      <4>1. fd'[u] = fd[u]
        BY <1>1, <1>5, <3>1 DEF ReadSock
      <4>2. pc'[u] = pc[u]
        BY <3>1, StepOnly DEF Only
      <4> QED  BY <2>1, <2>2, <4>1, <4>2 DEF Conns, NoEarlierConnection
    <3>2. CASE u = t
      <4>1. fd'[u] = sock
        BY <1>1, <1>5, <3>2 DEF ReadSock
      <4>2. u <= accepted
        BY <1>3, <1>5, <3>2 DEF ReadSock, At
      <4>3. accepted > 0
        BY <1>2, <4>2 DEF Threads
      <4>4. conn[sock] \in {0, accepted}
        BY <4>3 DEF Conns
      <4> QED  BY <1>2, <2>1, <4>1, <4>2, <4>4
    <3> QED  BY <3>1, <3>2
  <2> QED  BY <2>1, <2>2 DEF Conns, NoEarlierConnection
<1>6. CASE Close(t)
  <2>1. sock' = sock /\ accepted' = accepted /\ fd' = fd
    BY <1>6 DEF Close, local
  <2>2. \A f \in Descriptors : conn'[f] = 0 \/ conn'[f] = conn[f]
    BY <1>1, <1>6 DEF Close
  <2>3. ASSUME NEW u \in Threads, pc'[u] \notin {"none", "init", "open"}
        PROVE  conn'[fd'[u]] = 0 \/ conn'[fd'[u]] >= u
    <3>1. pc[u] \notin {"none", "init", "open"}
      BY <1>6, <2>3, StepOnly DEF Only, Close, At
    <3>2. fd[u] \in Descriptors
      BY <1>1
    <3> QED  BY <2>1, <2>2, <3>1, <3>2 DEF Conns, NoEarlierConnection
  <2>4. \A f \in Descriptors : conn'[f] <= accepted'
    BY <1>2, <2>1, <2>2 DEF Conns
  <2>5. accepted' > 0 => conn'[sock'] \in {0, accepted'}
    BY <1>1, <2>1, <2>2 DEF Conns
  <2> QED  BY <2>3, <2>4, <2>5 DEF Conns, NoEarlierConnection
<1>7. CASE Step(t) /\ ~ReadSock(t) /\ ~Close(t)
  <2>1. /\ conn' = conn /\ sock' = sock /\ accepted' = accepted /\ fd' = fd
        /\ pc[t] \in {"none", "init", "open"} => pc'[t] \in {"none", "init", "open"}
    <3>1. CASE InitSemaphore(t)
      BY <1>1, <3>1 DEF InitSemaphore, At, Goto, main
    <3>2. CASE AwaitTurn(t) \/ ReadCommand(t) \/ ReadUnknown(t)
      BY <3>2 DEF AwaitTurn, ReadCommand, ReadUnknown, At, main, local
    <3>3. CASE ReadMalformed(t) \/ ReadQuit(t) \/ QuitWait(t)
      BY <3>3 DEF ReadMalformed, ReadQuit, QuitWait, At, main, local
    <3>4. CASE LockV(t) \/ LockW(t) \/ LoadV(t) \/ LoadW(t) \/ ReleaseV(t)
      BY <3>4 DEF LockV, LockW, LoadV, LoadW, ReleaseV, At, main, local
    <3>5. CASE Store(t) \/ Trap(t) \/ PostW(t) \/ PostV(t)
      BY <3>5 DEF Store, Trap, PostW, PostV, At, main, local
    <3> QED  BY <1>7, <3>1, <3>2, <3>3, <3>4, <3>5 DEF Step
  <2>2. \A u \in Threads :
          pc[u] \in {"none", "init", "open"} => pc'[u] \in {"none", "init", "open"}
    BY <2>1, StepOnly DEF Only
  <2> QED  BY <2>1, <2>2 DEF Conns, NoEarlierConnection
<1> QED  BY <1>4, <1>5, <1>6, <1>7

LEMMA NextConns == TypeInv /\ Sems /\ Conns /\ [Next]_vars => Conns'
<1>1. ASSUME Conns, UNCHANGED vars PROVE Conns'
  BY <1>1 DEF Conns, NoEarlierConnection, vars, main, local
<1> QED  BY <1>1, StepConns DEF Next

LEMMA AlwaysConns == Spec => [](TypeInv /\ Sems /\ Conns)
<1>1. Init => TypeInv /\ Sems /\ Conns
  BY InitType, InitSems, InitConns
<1>2. TypeInv /\ Sems /\ Conns /\ [Next]_vars => (TypeInv /\ Sems /\ Conns)'
  BY NextType, NextSems, NextConns
<1> QED  BY <1>1, <1>2, PTL DEF Spec

(* No thread serves a connection that was accepted before its own, however *)
(* often descriptors are used again.                                       *)
THEOREM ServesNoEarlier == Spec => []NoEarlierConnection
<1>1. Conns => NoEarlierConnection
  BY DEF Conns
<1> QED  BY <1>1, AlwaysConns, PTL

=============================================================================
