----------------------------- MODULE CalcServer -----------------------------
(***************************************************************************)
(* Assignment 4: calcServer.c, a calculator with one variable per letter.  *)
(*                                                                         *)
(* Every connection gets a thread, which initialises all semaphores again, *)
(* reads the descriptor of its connection out of a variable of main(), and *)
(* serves commands.  A semaphore per letter guards the variables; the one  *)
(* behind them, commandLock, is held while a command is awaited.           *)
(*                                                                         *)
(* Initialising a semaphore that others hold or wait for is undefined; a   *)
(* thread may then go on whenever the value is positive, and need not.     *)
(***************************************************************************)
EXTENDS Integers

CONSTANTS NumLetters,   \* 26 in the code
          Half,         \* an int has 2 * Half values
          Requests,     \* what clients may ask for
          MaxConns,     \* bound: connections that are accepted
          MaxWork       \* bound: commands that are read, a connection counting as two

Letters     == 0 .. NumLetters - 1
CommandLock == NumLetters
Locks       == 0 .. NumLetters
Values      == -Half .. Half - 1
Threads     == 1 .. MaxConns
Descriptors == 1 .. MaxConns

(* `set v w', `add v w', ...: the operand w is a letter or a number.  The  *)
(* number of a set is any value; in arithmetic the code also posts the     *)
(* semaphore with that index, and numbers without one are left out.        *)
AllRequests ==
       [op : {"print"}, v : Letters, w : {0}, number : {TRUE}]
  \cup [op : {"set"}, v : Letters, w : Letters, number : {FALSE}]
  \cup [op : {"set"}, v : Letters, w : Values, number : {TRUE}]
  \cup [op : {"add", "subtract", "multiply", "divide"}, v : Letters, w : Letters,
        number : BOOLEAN]

ASSUME CalcConstants ==
  /\ NumLetters \in Nat \ {0} /\ Half \in Nat /\ NumLetters <= Half
  /\ Requests \subseteq AllRequests
  /\ MaxConns \in Nat \ {0} /\ MaxWork \in Nat

VARIABLES
  variables, locks,       \* locks[CommandLock] is commandLock
  sock,                   \* the variable of main()
  conn,                   \* of each descriptor: the connection behind it, 0 if closed
  accepted,               \* connections so far; each has the thread of its number
  up,                     \* the process runs
  pc, next, fd, cmd, a, b,  \* of each thread: where, the semaphore it is to initialise,
                          \* its descriptor, its command and the values it has loaded
  reads,                  \* the number of commands that were read
  sound                   \* auxiliary: see Sound below

local == <<next, fd, cmd, a, b, reads>>
main  == <<sock, conn, accepted>>
vars  == <<variables, locks, main, up, pc, local, sound>>

Init ==
  /\ variables = [i \in Letters |-> 0] /\ locks = [i \in Locks |-> 0]
  /\ sock = 1 /\ conn = [f \in Descriptors |-> 0] /\ accepted = 0 /\ up = TRUE
  /\ pc = [t \in Threads |-> "none"] /\ next = [t \in Threads |-> 0]
  /\ fd = [t \in Threads |-> 1]
  /\ cmd = [t \in Threads |-> [op |-> "print", v |-> 0, w |-> 0, number |-> TRUE]]
  /\ a = [t \in Threads |-> 0] /\ b = [t \in Threads |-> 0] /\ reads = 0
  /\ sound = {}

At(t, l)   == up /\ pc[t] = l
Goto(t, l) == pc' = [pc EXCEPT ![t] = l]

HasTime(n) == 2 * accepted + reads + n <= MaxWork

(* Mutant: the wait does not wait.                                         *)
Pass(i) == locks' = [locks EXCEPT ![i] = @ - 1]

Wait(i) == locks[i] > 0 /\ locks' = [locks EXCEPT ![i] = @ - 1]

Post(i) == locks' = [locks EXCEPT ![i] = @ + 1]

Arithmetic(r) == r.op \notin {"print", "set"}

(* Between its sem_wait and its sem_post: at "post v" the semaphore of v is *)
(* held by every command but arithmetic with a number, which has posted it. *)
Holds(t, i) ==
  \/ i = CommandLock /\ pc[t] \in {"read", "quit", "close"}
  \/ /\ i = cmd[t].v
     /\ \/ pc[t] \in {"lock w", "load v", "load w", "release v"}
        \/ pc[t] \in {"store", "post w", "post v"} /\ ~(Arithmetic(cmd[t]) /\ cmd[t].number)
  \/ i = cmd[t].w /\ ~cmd[t].number /\ pc[t] \in {"load v", "load w", "store", "post w"}

Holders(i) == {t \in Threads : Holds(t, i)}

(* Auxiliary.  A semaphore is sound from the time it is initialised while  *)
(* nobody holds it, until it is initialised while somebody does, or        *)
(* arithmetic with a number posts it once too often.  A letter is not      *)
(* sound either when such a command has stored in it without the lock.     *)
MakeSound(i)   == sound' = IF Holders(i) = {} THEN sound \cup {i} ELSE sound \ {i}
MakeUnsound(i) == sound' = sound \ {i}

-----------------------------------------------------------------------------
(* main(): accept() returns the lowest free descriptor.                    *)

(* Mutant: the new descriptor is stored after the thread is created.       *)
AcceptLate(t) ==
  /\ up /\ accepted < MaxConns /\ HasTime(2) /\ t = accepted + 1
  /\ \E f \in Descriptors :
       /\ conn[f] = 0 /\ \A g \in Descriptors : g < f => conn[g] # 0
       /\ sock' = (IF accepted = 0 THEN f ELSE sock)
       /\ conn' = [conn EXCEPT ![f] = t]
  /\ accepted' = t
  /\ Goto(t, "init")
  /\ UNCHANGED <<variables, locks, up, local, sound>>

Accept(t) ==
  /\ up /\ accepted < MaxConns /\ HasTime(2) /\ t = accepted + 1
  /\ \E f \in Descriptors :
       /\ conn[f] = 0 /\ \A g \in Descriptors : g < f => conn[g] # 0
       /\ sock' = f
       /\ conn' = [conn EXCEPT ![f] = t]
  /\ accepted' = t
  /\ Goto(t, "init")
  /\ UNCHANGED <<variables, locks, up, local, sound>>

-----------------------------------------------------------------------------
(* handleClient(): the semaphores, one after the other, and the connection *)

InitSemaphore(t) ==
  /\ At(t, "init")
  /\ locks' = [locks EXCEPT ![next[t]] = 1]
  /\ MakeSound(next[t])
  /\ IF next[t] = CommandLock
     THEN Goto(t, "open") /\ UNCHANGED next
     ELSE next' = [next EXCEPT ![t] = @ + 1] /\ UNCHANGED pc
  /\ UNCHANGED <<variables, main, up, fd, cmd, a, b, reads>>

(* fdopen() of a closed descriptor returns NULL, which fprintf() uses.     *)
ReadSock(t) ==
  /\ At(t, "open")
  /\ fd' = [fd EXCEPT ![t] = sock]
  /\ IF conn[sock] = 0 THEN up' = FALSE /\ UNCHANGED pc ELSE Goto(t, "enter") /\ UNCHANGED up
  /\ UNCHANGED <<variables, locks, main, next, cmd, a, b, reads, sound>>

AwaitTurn(t) ==
  /\ At(t, "enter") /\ Wait(CommandLock)
  /\ Goto(t, "read")
  /\ UNCHANGED <<variables, main, up, local, sound>>

-----------------------------------------------------------------------------
(* The client sends a command, or one that the server does not know, or    *)
(* one with the wrong operands, or quits or is gone.                       *)

ReadCommand(t) ==
  /\ At(t, "read") /\ HasTime(1) /\ conn[fd[t]] # 0
  /\ reads' = reads + 1
  /\ Post(CommandLock)
  /\ \E r \in Requests :
       /\ cmd' = [cmd EXCEPT ![t] = r]
       /\ b' = [b EXCEPT ![t] = IF r.number THEN r.w ELSE 0]
       /\ Goto(t, "lock v")
  /\ UNCHANGED <<variables, main, up, next, fd, a, sound>>

ReadUnknown(t) ==
  /\ At(t, "read") /\ HasTime(1) /\ conn[fd[t]] # 0
  /\ reads' = reads + 1
  /\ Post(CommandLock)
  /\ Goto(t, "enter")
  /\ UNCHANGED <<variables, main, up, next, fd, cmd, a, b, sound>>

(* fail() exits, for all clients.                                          *)
ReadMalformed(t) ==
  /\ At(t, "read") /\ HasTime(1) /\ conn[fd[t]] # 0
  /\ up' = FALSE
  /\ UNCHANGED <<variables, locks, main, pc, local, sound>>

(* The loop ends with commandLock held.                                    *)
ReadQuit(t) ==
  /\ At(t, "read")
  /\ Goto(t, "quit")
  /\ UNCHANGED <<variables, locks, main, up, local, sound>>

QuitWait(t) ==
  /\ At(t, "quit") /\ Wait(CommandLock)
  /\ Goto(t, "close")
  /\ UNCHANGED <<variables, main, up, local, sound>>

(* fclose(); destroying semaphores has no effect in glibc.                 *)
Close(t) ==
  /\ At(t, "close")
  /\ conn' = [conn EXCEPT ![fd[t]] = 0]
  /\ Goto(t, "done")
  /\ UNCHANGED <<variables, locks, sock, accepted, up, local, sound>>

-----------------------------------------------------------------------------
(* A command                                                               *)

(* `print' reads its variable while it holds the semaphore.                *)
LockV(t) ==
  /\ At(t, "lock v") /\ Wait(cmd[t].v)
  /\ Goto(t, IF ~cmd[t].number THEN "lock w"
             ELSE IF Arithmetic(cmd[t]) THEN "load v"
             ELSE IF cmd[t].op = "set" THEN "store" ELSE "post v")
  /\ UNCHANGED <<variables, main, up, local, sound>>

(* Mutant: the semaphore of the second letter is not taken.                *)
SkipW(t) ==
  /\ At(t, "lock w") /\ UNCHANGED locks
  /\ Goto(t, IF Arithmetic(cmd[t]) THEN "load v" ELSE "load w")
  /\ UNCHANGED <<variables, main, up, local, sound>>

LockW(t) ==
  /\ At(t, "lock w") /\ Wait(cmd[t].w)
  /\ Goto(t, IF Arithmetic(cmd[t]) THEN "load v" ELSE "load w")
  /\ UNCHANGED <<variables, main, up, local, sound>>

LoadV(t) ==
  /\ At(t, "load v")
  /\ a' = [a EXCEPT ![t] = variables[cmd[t].v]]
  /\ Goto(t, IF cmd[t].number THEN "release v" ELSE "load w")
  /\ UNCHANGED <<variables, locks, main, up, next, fd, cmd, b, reads, sound>>

LoadW(t) ==
  /\ At(t, "load w")
  /\ b' = [b EXCEPT ![t] = variables[cmd[t].w]]
  /\ Goto(t, "store")
  /\ UNCHANGED <<variables, locks, main, up, next, fd, cmd, a, reads, sound>>

ReleaseV(t) ==
  /\ At(t, "release v") /\ Post(cmd[t].v)
  /\ Goto(t, "store")
  /\ UNCHANGED <<variables, main, up, local, sound>>

Wrap(n) == ((n + Half) % (2 * Half)) - Half
Abs(n)  == IF n < 0 THEN -n ELSE n

(* Division truncates.                                                     *)
Quotient(x, y) == IF (x < 0) = (y < 0) THEN Abs(x) \div Abs(y) ELSE -(Abs(x) \div Abs(y))

Apply(op, x, y) ==
  IF op = "add" THEN Wrap(x + y)
  ELSE IF op = "subtract" THEN Wrap(x - y)
  ELSE IF op = "multiply" THEN Wrap(x * y)
  ELSE IF op = "divide" /\ y # 0 THEN Wrap(Quotient(x, y))
  ELSE IF op = "divide" THEN x
  ELSE y

(* Division by zero is refused; the most negative value divided by -1 is a *)
(* trap of the processor.                                                  *)
Refused(t) == cmd[t].op = "divide" /\ b[t] = 0
Traps(t)   == cmd[t].op = "divide" /\ b[t] = -1 /\ a[t] = -Half

Store(t) ==
  /\ At(t, "store") /\ ~Traps(t)
  /\ IF Refused(t) THEN UNCHANGED <<variables, sound>>
     ELSE /\ variables' = [variables EXCEPT ![cmd[t].v] = Apply(cmd[t].op, a[t], b[t])]
          /\ IF Holds(t, cmd[t].v) THEN UNCHANGED sound ELSE MakeUnsound(cmd[t].v)
  /\ Goto(t, IF Arithmetic(cmd[t]) \/ ~cmd[t].number THEN "post w" ELSE "post v")
  /\ UNCHANGED <<locks, main, up, local>>

Trap(t) ==
  /\ At(t, "store") /\ Traps(t)
  /\ up' = FALSE
  /\ UNCHANGED <<variables, locks, main, pc, local, sound>>

(* With a number as operand this posts the semaphore with that index.      *)
PostW(t) ==
  /\ At(t, "post w") /\ Post(cmd[t].w)
  /\ IF cmd[t].number THEN MakeUnsound(cmd[t].w) ELSE UNCHANGED sound
  /\ Goto(t, "post v")
  /\ UNCHANGED <<variables, main, up, local>>

(* Mutant: the semaphore of v stays taken.                                 *)
NoPostV(t) ==
  /\ At(t, "post v") /\ UNCHANGED locks
  /\ IF Holds(t, cmd[t].v) THEN UNCHANGED sound ELSE MakeUnsound(cmd[t].v)
  /\ Goto(t, "enter")
  /\ UNCHANGED <<variables, main, up, local>>

PostV(t) ==
  /\ At(t, "post v") /\ Post(cmd[t].v)
  /\ IF Holds(t, cmd[t].v) THEN UNCHANGED sound ELSE MakeUnsound(cmd[t].v)
  /\ Goto(t, "enter")
  /\ UNCHANGED <<variables, main, up, local>>

-----------------------------------------------------------------------------
Step(t) ==
  \/ InitSemaphore(t) \/ ReadSock(t) \/ AwaitTurn(t)
  \/ ReadCommand(t) \/ ReadUnknown(t) \/ ReadMalformed(t) \/ ReadQuit(t)
  \/ QuitWait(t) \/ Close(t)
  \/ LockV(t) \/ LockW(t) \/ LoadV(t) \/ LoadW(t) \/ ReleaseV(t)
  \/ Store(t) \/ Trap(t) \/ PostW(t) \/ PostV(t)

Next == \E t \in Threads : Accept(t) \/ Step(t)

Spec == Init /\ [][Next]_vars

(* The threads are scheduled; a client may stay silent.                    *)
FairSpec == Spec /\ \A t \in Threads : WF_vars(Step(t) /\ pc[t] # "read")

-----------------------------------------------------------------------------
(* Properties *)

(* The types of the variables: no int leaves its range, no semaphore falls *)
(* below zero.                                                             *)
TypeOK ==
  /\ variables \in [Letters -> Values] /\ locks \in [Locks -> Nat]
  /\ sock \in Descriptors /\ conn \in [Descriptors -> 0 .. MaxConns]
  /\ accepted \in 0 .. MaxConns /\ up \in BOOLEAN
  /\ pc \in [Threads -> {"none", "init", "open", "enter", "read", "quit", "close", "done",
                         "lock v", "lock w", "load v", "load w", "release v", "store",
                         "post w", "post v"}]
  /\ next \in [Threads -> Locks] /\ fd \in [Threads -> Descriptors]
  /\ cmd \in [Threads -> AllRequests]
  /\ a \in [Threads -> Values] /\ b \in [Threads -> Values]
  /\ reads \in 0 .. MaxWork
  /\ sound \subseteq Locks

(* A semaphore counts its holders as long as it is sound: whoever connects *)
(* and quits and whatever commands race, one thread at most is between the *)
(* sem_wait and the sem_post of calcServer.c:73-193, and the semaphore of  *)
(* none is free.                                                           *)
LocksExclude ==
  \A i \in sound : \/ locks[i] = 1 /\ Holders(i) = {}
                   \/ locks[i] = 0 /\ \E t \in Threads : Holders(i) = {t}

(* No update is lost on sound letters: what a command other than           *)
(* arithmetic with a number stores is computed from the values that the    *)
(* variables have at that moment, although it has loaded them in earlier   *)
(* steps (calcServer.c:91-101, 151-178).                                   *)
AtomicUpdates ==
  [][\A t \in Threads :
       (/\ pc[t] = "store" /\ pc'[t] # "store" /\ Holds(t, cmd[t].v) /\ cmd[t].v \in sound
        /\ ~cmd[t].number => cmd[t].w \in sound)
       => variables'[cmd[t].v] =
            Apply(cmd[t].op, variables[cmd[t].v],
                  IF cmd[t].number THEN cmd[t].w ELSE variables[cmd[t].w])]_vars

(* The accept loop may change `sock' before the thread reads it            *)
(* (calcServer.c:65, 252), descriptors are closed and used again: still no *)
(* thread serves a connection that was accepted before its own.            *)
NoEarlierConnection ==
  \A t \in Threads :
    pc[t] \notin {"none", "init", "open"} => conn[fd[t]] = 0 \/ conn[fd[t]] >= t

(* "handle a client connection, close it when we're done"                  *)
(* (calcServer.c:59): the connection of a client that quits, or is gone,   *)
(* is closed, unless the server is stopped. It is not: the thread holds    *)
(* commandLock from its last command on, and waits for it again            *)
(* (calcServer.c:190, 193).                                                *)
QuitCloses == \A t \in Threads : pc[t] = "quit" ~> (pc[t] = "done" \/ ~up)

=============================================================================
