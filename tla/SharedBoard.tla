---------------------------- MODULE SharedBoard ----------------------------
(***************************************************************************)
(* Assignments 2 and 3: the fifteen puzzle in a shared-memory segment.     *)
(* ./reset writes a new board into the segment and then a flag; every run  *)
(* of ./fifteen attaches the segment, tests the flag and works on the      *)
(* board.  Any number of them run at the same time, and every read and     *)
(* write of a word is a step of its own.                                   *)
(*                                                                         *)
(* Assignment 3 guards each move with a POSIX semaphore unless it is built *)
(* with -DUNSAFE, as its `make' does when it is called without arguments.  *)
(* ./reset unlinks the semaphore and creates it again: sem[g] is the value *)
(* of the one that the g-th reset created, semName the one that the name   *)
(* stands for (0: none).                                                   *)
(***************************************************************************)
EXTENDS FifteenBoard, Sequences, FiniteSets

CONSTANTS Procs,       \* processes that run ./fifteen
          Mortal,      \* those of them that may be killed while they run
          Assignment,  \* 2 or 3: the two versions of fifteen.c
          Safe,        \* assignment 3 built without -DUNSAFE
          SemInit,     \* the last argument of sem_open in reset.c: 0
          Commands,    \* the arguments of ./fifteen
          Residue,     \* what initializeBoard may leave in each word it does not set
          MaxTest,     \* bound: the largest n of the command `test n'
          MaxResets    \* bound: runs of ./reset

ASSUME SharedConstants ==
  /\ Mortal \subseteq Procs
  /\ Assignment \in {2, 3} /\ Safe \in BOOLEAN /\ (Safe => Assignment = 3)
  /\ SemInit \in {0, 1}
  /\ Commands \subseteq Moves \cup (IF Assignment = 3 THEN {"test"} ELSE {})
  /\ MaxTest \in Nat /\ MaxResets \in Nat

VARIABLES
  m,        \* the words of boardMemory[0]
  flag,     \* boardMemory[2].signal = 1
  sem,      \* the values of the semaphores
  semName,
  resets,   \* runs of ./reset so far
  rpc,      \* where ./reset is
  rat,      \* the next word it writes
  pc,       \* where each ./fifteen is
  todo,     \* the moves it still has to make
  at,       \* the square its scan visits
  tile,     \* the tile it carries
  lk,       \* the semaphore it has open
  torn      \* auxiliary: a move or a reset was killed between two stores

boardVars == <<m, flag, torn>>
semVars   == <<sem, semName>>
resetVars == <<resets, rpc, rat>>
procVars  == <<pc, todo, at, tile, lk>>
vars == <<m, flag, sem, semName, resets, rpc, rat, pc, todo, at, tile, lk, torn>>

Size == Rows * Cols
Resets == 1 .. MaxResets

(* The k-th square that the nested loops visit. *)
Square(k) == Addr(k \div Cols, k % Cols)

Tiles == 1 .. (Size - 1)

(* The words of the struct: `signal' lies in front of the array, and some  *)
(* padding behind the last square.                                         *)
Signal   == -1
LastCell == Addr(Rows - 1, Cols - 1)
Past     == (Rows + 1) * Stride

(* Mutant: the struct is copied with one word too many. *)
StructAndMore == Signal .. Past

Struct == Signal .. (Past - 1)

ASSUME ResidueType ==
  /\ Residue \in [Struct \ Cells -> SUBSET Int]
  /\ \A w \in Struct \ Cells : Residue[w] # {}

(* A segment that shmget has just created is zero. *)
Init ==
  /\ m = [w \in Words |-> 0] /\ flag = FALSE /\ torn = FALSE
  /\ sem = [g \in Resets |-> 0] /\ semName = 0
  /\ resets = 0 /\ rpc = "idle" /\ rat = Signal
  /\ pc = [p \in Procs |-> "idle"] /\ todo = [p \in Procs |-> <<>>]
  /\ at = [p \in Procs |-> 0] /\ tile = [p \in Procs |-> 0] /\ lk = [p \in Procs |-> 0]

-----------------------------------------------------------------------------
(* ./reset.  It takes no lock.  initializeBoard sets the squares of a      *)
(* struct on the stack; its `signal' and its padding are what the stack    *)
(* held, and the assignment copies the whole struct.                       *)

(* Mutant: the flag is set before the board is written. *)
StartResetFlagFirst ==
  /\ rpc = "idle" /\ resets < MaxResets
  /\ resets' = resets + 1 /\ flag' = TRUE
  /\ rpc' = "create"
  /\ semName' = IF Assignment = 3 THEN 0 ELSE semName
  /\ UNCHANGED <<m, torn, sem, rat, procVars>>

StartReset ==
  /\ rpc = "idle" /\ resets < MaxResets
  /\ resets' = resets + 1
  /\ rpc' = "create"
  /\ semName' = IF Assignment = 3 THEN 0 ELSE semName
  /\ UNCHANGED <<boardVars, sem, rat, procVars>>

CreateSemaphore ==
  /\ rpc = "create" /\ rpc' = "copy"
  /\ IF Assignment = 3
     THEN semName' = resets /\ sem' = [sem EXCEPT ![resets] = SemInit]
     ELSE UNCHANGED semVars
  /\ UNCHANGED <<boardVars, resets, rat, procVars>>

(* Mutant: the last square is not made the blank. *)
InitializedFull(w) == IF w \in Cells THEN {w - (w \div Stride) + 1} ELSE Residue[w]

(* What word w of the struct may be when initializeBoard returns it. *)
Initialized(w) == IF w \in Cells THEN {NewBoard(0)[w]} ELSE Residue[w]

CopyWord ==
  /\ rpc = "copy" /\ rat \in Struct
  /\ \E v \in Initialized(rat) : m' = [m EXCEPT ![rat] = v]
  /\ rat' = rat + 1
  /\ torn' = (torn /\ rat # LastCell)
  /\ UNCHANGED <<flag, semVars, resets, rpc, procVars>>

SetFlag ==
  /\ rpc = "copy" /\ rat \notin Struct
  /\ flag' = TRUE
  /\ rpc' = "idle" /\ rat' = Signal
  /\ UNCHANGED <<m, torn, semVars, resets, procVars>>

(* Once it has written a square and until it has written the last one, a   *)
(* killed reset leaves two boards mixed.                                   *)
KillReset ==
  /\ rpc # "idle"
  /\ rpc' = "idle" /\ rat' = Signal
  /\ torn' = (torn \/ rat \in 1 .. LastCell)
  /\ UNCHANGED <<m, flag, semVars, resets, procVars>>

ResetStep == CreateSemaphore \/ CopyWord \/ SetFlag

-----------------------------------------------------------------------------
(* ./fifteen *)

(* `test n' makes n rounds of the four moves, in this order. *)
Round == <<"right", "down", "left", "up">>

Job(c, n) == IF c = "test" THEN [i \in 1 .. 4 * n |-> Round[((i - 1) % 4) + 1]] ELSE <<c>>

Goto(p, l) == pc' = [pc EXCEPT ![p] = l]

Invoke(p) ==
  /\ pc[p] = "idle"
  /\ \E c \in Commands, n \in 0 .. MaxTest : todo' = [todo EXCEPT ![p] = Job(c, n)]
  /\ Goto(p, "check")
  /\ UNCHANGED <<boardVars, semVars, resetVars, at, tile, lk>>

Exit(p) ==
  /\ Goto(p, "idle")
  /\ todo' = [todo EXCEPT ![p] = <<>>]
  /\ at' = [at EXCEPT ![p] = 0] /\ tile' = [tile EXCEPT ![p] = 0] /\ lk' = [lk EXCEPT ![p] = 0]

(* "Board is not initialized. Run ./reset first" *)
CheckFlag(p) ==
  /\ pc[p] = "check"
  /\ IF flag THEN Goto(p, "open") /\ UNCHANGED <<todo, at, tile, lk>> ELSE Exit(p)
  /\ UNCHANGED <<boardVars, semVars, resetVars>>

(* sem_open without O_CREAT fails while the name does not exist. *)
OpenLock(p) ==
  /\ pc[p] = "open"
  /\ IF Safe /\ semName = 0
     THEN Exit(p)
     ELSE /\ lk' = [lk EXCEPT ![p] = IF Safe THEN semName ELSE 0]
          /\ Goto(p, "next")
          /\ UNCHANGED <<todo, at, tile>>
  /\ UNCHANGED <<boardVars, semVars, resetVars>>

(* Mutants: every command skips the first row; `up' looks where `left' does.*)
ScanFromSecondRow(c) == Cols

LookAside(c) == IF c = "up" THEN -1 ELSE Offset(c)

(* Where the scan of a command begins, and where it looks for the blank.   *)
(* In assignment 2 upCommand reads board[i][j - 1], like leftCommand; in   *)
(* assignment 3 it skips the first row.                                    *)
ScanFrom(c) == IF Assignment = 3 /\ c = "up" THEN Cols ELSE 0

Look(c) == IF Assignment = 2 /\ c = "up" THEN -1 ELSE Offset(c)

Here(p) == Square(at[p])
There(p) == Here(p) + Look(Head(todo[p]))

(* A command begins (behind sem_wait in the safe build), or all are done.  *)
Begin(p) ==
  /\ pc[p] = "next"
  /\ IF todo[p] = <<>>
     THEN Exit(p) /\ UNCHANGED sem
     ELSE /\ Safe => sem[lk[p]] > 0
          /\ sem' = IF Safe THEN [sem EXCEPT ![lk[p]] = @ - 1] ELSE sem
          /\ at' = [at EXCEPT ![p] = ScanFrom(Head(todo[p]))]
          /\ Goto(p, "probe")
          /\ UNCHANGED <<todo, tile, lk>>
  /\ UNCHANGED <<boardVars, semName, resetVars>>

Probe(p) ==
  /\ pc[p] = "probe" /\ at[p] < Size
  /\ IF m[There(p)] = Blank
     THEN Goto(p, "fetch") /\ UNCHANGED at
     ELSE at' = [at EXCEPT ![p] = @ + 1] /\ UNCHANGED pc
  /\ UNCHANGED <<boardVars, semVars, resetVars, todo, tile, lk>>

(* Mutant: the tile is read from the wrong square. *)
FetchThere(p) ==
  /\ pc[p] = "fetch" /\ Goto(p, "store")
  /\ tile' = [tile EXCEPT ![p] = m[There(p)]]
  /\ UNCHANGED <<boardVars, semVars, resetVars, todo, at, lk>>

Fetch(p) ==
  /\ pc[p] = "fetch" /\ Goto(p, "store")
  /\ tile' = [tile EXCEPT ![p] = m[Here(p)]]
  /\ UNCHANGED <<boardVars, semVars, resetVars, todo, at, lk>>

Store(p) ==
  /\ pc[p] = "store" /\ Goto(p, "clear")
  /\ m' = [m EXCEPT ![There(p)] = tile[p]]
  /\ UNCHANGED <<flag, torn, semVars, resetVars, todo, at, tile, lk>>

(* Mutant: the square that a tile leaves keeps it. *)
ClearNot(p) ==
  /\ pc[p] = "clear" /\ Goto(p, "end")
  /\ UNCHANGED <<boardVars, semVars, resetVars, todo, at, tile, lk>>

(* Mutant: the blank is stored on the wrong side of the target. *)
ClearBeyond(p) ==
  /\ pc[p] = "clear" /\ Goto(p, "end")
  /\ m' = [m EXCEPT ![There(p) + Look(Head(todo[p]))] = Blank]
  /\ UNCHANGED <<flag, torn, semVars, resetVars, todo, at, tile, lk>>

Clear(p) ==
  /\ pc[p] = "clear" /\ Goto(p, "end")
  /\ m' = [m EXCEPT ![Here(p)] = Blank]
  /\ UNCHANGED <<flag, torn, semVars, resetVars, todo, at, tile, lk>>

(* Mutant: the test command never counts its moves. *)
EndUncounted(p) ==
  /\ pc[p] = "end" \/ (pc[p] = "probe" /\ at[p] = Size)
  /\ Goto(p, "next")
  /\ sem' = IF Safe THEN [sem EXCEPT ![lk[p]] = @ + 1] ELSE sem
  /\ at' = [at EXCEPT ![p] = 0] /\ tile' = [tile EXCEPT ![p] = 0]
  /\ UNCHANGED <<boardVars, semName, resetVars, todo, lk>>

(* The end of a command: sem_post in the safe build. *)
End(p) ==
  /\ pc[p] = "end" \/ (pc[p] = "probe" /\ at[p] = Size)
  /\ Goto(p, "next")
  /\ sem' = IF Safe THEN [sem EXCEPT ![lk[p]] = @ + 1] ELSE sem
  /\ todo' = [todo EXCEPT ![p] = Tail(@)]
  /\ at' = [at EXCEPT ![p] = 0] /\ tile' = [tile EXCEPT ![p] = 0]
  /\ UNCHANGED <<boardVars, semName, resetVars, lk>>

Kill(p) ==
  /\ p \in Mortal /\ pc[p] # "idle"
  /\ Exit(p)
  /\ torn' = (torn \/ pc[p] = "clear")
  /\ UNCHANGED <<m, flag, semVars, resetVars>>

Step(p) == \/ CheckFlag(p) \/ OpenLock(p) \/ Begin(p) \/ Probe(p)
           \/ Fetch(p) \/ Store(p) \/ Clear(p) \/ End(p)

Next == StartReset \/ ResetStep \/ KillReset \/ \E p \in Procs : Invoke(p) \/ Step(p) \/ Kill(p)

Spec == Init /\ [][Next]_vars

(* Every process that was started is scheduled. *)
FairSpec == Spec /\ WF_vars(ResetStep) /\ \A p \in Procs : WF_vars(Step(p))

-----------------------------------------------------------------------------
(* Properties *)

(* The types of the variables: whatever they race with, the semaphores     *)
(* stay binary and no scan runs past the board.                            *)
TypeOK ==
  /\ m \in [Words -> Int] /\ flag \in BOOLEAN /\ torn \in BOOLEAN
  /\ sem \in [Resets -> 0 .. 1] /\ semName \in 0 .. MaxResets
  /\ resets \in 0 .. MaxResets /\ rpc \in {"idle", "create", "copy"} /\ rat \in Signal .. Past
  /\ pc \in [Procs -> {"idle", "check", "open", "next", "probe", "fetch", "store", "clear", "end"}]
  /\ todo \in [Procs -> Seq(Moves)]
  /\ at \in [Procs -> 0 .. Size] /\ tile \in [Procs -> Int]
  /\ lk \in [Procs -> 0 .. MaxResets]

(* However commands and resets race, are killed, and whatever lies in the  *)
(* padding, a square never holds more than a tile or the blank once the    *)
(* flag is set (the flag is the last thing that ./reset writes,            *)
(* reset.c:69-71, and the first that ./fifteen reads, fifteen.c:210).      *)
WellFormed ==
  /\ flag => \A a \in Cells : m[a] \in Tiles \cup {Blank}
  /\ \A p \in Procs : pc[p] \notin {"idle", "check"} => flag

(* No reset can copy the number of the blank into this word beyond the     *)
(* border.                                                                 *)
NeverBlank(w) == w \in Struct => Blank \notin Residue[w]

QuietStack == \A w \in Words \ Cells : NeverBlank(w)

(* The scans read the padding and the words in front of the array, and     *)
(* write where they find the blank (fifteen.c:72-75, 101-104, 130-133,     *)
(* 159-162).  Whatever races, and even if tiles are lost in a word where a *)
(* reset brought a blank along, every other word beyond the border keeps   *)
(* what a reset copied into it, and no tile is moved there.                *)
TilesStayOnBoard ==
  \A w \in Words \ Cells :
    NeverBlank(w) => m[w] = 0 \/ (w \in Struct /\ m[w] \in Residue[w])

(* Without the lock two commands can lose tiles and double them, a reset   *)
(* can overwrite half a move, and a tile can be moved into padding that    *)
(* looks like the blank, but the board never loses its last blank: the     *)
(* last store of every move is a blank, and so is the last square that a   *)
(* reset writes.  Only a command that is killed between its two stores, or *)
(* a reset that is killed between its first and its last square, can leave *)
(* a board without one.                                                    *)
BlankRemains ==
  (/\ flag /\ rat \notin 1 .. LastCell /\ ~torn
   /\ \A p \in Procs : pc[p] # "clear") => \E a \in Cells : m[a] = Blank

Critical(p) == pc[p] \in {"probe", "fetch", "store", "clear", "end"}

(* Two commands that opened the same semaphore are never inside the moves  *)
(* that it guards, whoever is killed (fifteen.c:67-69, 81-83); with the    *)
(* value 0 that reset.c:54 gives it there is never even one.               *)
Exclusion ==
  Safe => \A p, q \in Procs :
            Critical(p) /\ Critical(q) => SemInit = 1 /\ (p # q => lk[p] # lk[q])

(* The board when the moves that have done their first store are finished. *)
Settled == [w \in Words |-> IF \E p \in Procs : pc[p] = "clear" /\ Here(p) = w
                            THEN Blank ELSE m[w]]

Shown == View(IF flag THEN Settled ELSE NewBoard(0))

Puzzle == INSTANCE SlidingPuzzle WITH squares <- Shown

(* One command at a time (a single user, or the lock with a value of 1)    *)
(* the words in memory implement the sliding puzzle.                       *)
ImplementsPuzzle == Puzzle!Spec

(* The direction in which a command shall move a tile into the hole h.     *)
Donor(c, h) == CASE c = "up"    -> <<h[1] + 1, h[2]>>
                 [] c = "down"  -> <<h[1] - 1, h[2]>>
                 [] c = "left"  -> <<h[1], h[2] + 1>>
                 [] c = "right" -> <<h[1], h[2] - 1>>

Hole(sqs) == CHOOSE p \in DOMAIN sqs : sqs[p] = Blank

(* "Handles the up command" and so on: a move takes the tile from the side *)
(* of the blank that the command names.                                    *)
MovesAsCommanded ==
  [][\A p \in Procs :
       Store(p) => LET h == Hole(Shown)
                       d == Donor(Head(todo[p]), h)
                   IN d \in DOMAIN Shown /\ Shown' = Puzzle!Swap(Shown, h, d)]_vars

(* A command that finds no tile to move leaves none that it could move.    *)
GivesUpRightly ==
  [][\A p \in Procs :
       pc[p] = "probe" /\ End(p) => Donor(Head(todo[p]), Hole(Shown)) \notin DOMAIN Shown]_vars

(* A run of ./fifteen ends ("Test interface, for quickly making moves on   *)
(* the board", fifteen.c:177).                                             *)
CommandsFinish == \A p \in Procs : pc[p] = "check" ~> pc[p] = "idle"

=============================================================================
