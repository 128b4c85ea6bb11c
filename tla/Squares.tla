------------------------------- MODULE Squares -------------------------------
(***************************************************************************)
(* Assignments 1, 2, 3 and 5: four programs that count the squares of Side *)
(* x Side letters in a grid that hold the whole alphabet.                  *)
(*                                                                         *)
(*   processes  square.c of assignment 1: a child per worker, and pipes    *)
(*   java       Square.java of assignment 2: run(), not start()            *)
(*   threads    square.c of assignment 3: threads that exist before the    *)
(*              grid is read                                               *)
(*   gpu        square.cu of assignment 5: a kernel thread per row         *)
(*                                                                         *)
(* The grid, its dimensions and currentRow are read again at every use, so *)
(* the threads can meet them half way.  What a worker keeps of a square is *)
(* the set of symbols in it.                                               *)
(***************************************************************************)
EXTENDS Integers, FiniteSets

CONSTANTS Letters, Nul,     \* Nul: what is in the grid before it is read
          Side,             \* 6 in the code
          Inputs,           \* grids: records of rows, cols, and at[i][j]
          Versions,
          MaxRows,          \* bound: the rows of a grid
          MaxWidth,         \* MAX_WIDTH, 16384 in the code
          MaxWorkers,       \* bound: the number of workers on the command line
          ThreadsPerBlock   \* 250 in the code

ASSUME SquaresConstants ==
  /\ Nul \notin Letters /\ IsFiniteSet(Letters) /\ Letters # {}
  /\ Side \in Nat \ {0} /\ MaxRows \in Nat /\ MaxWorkers \in Nat \ {0} /\ MaxWidth \in Nat
  /\ ThreadsPerBlock \in Nat \ {0}
  /\ Versions \subseteq {"processes", "java", "threads", "gpu"}
  /\ \A g \in Inputs : /\ g.rows \in 0 .. MaxRows /\ g.cols \in Nat
                       /\ g.at \in [0 .. g.rows - 1 -> [0 .. g.cols - 1 -> Letters]]

VARIABLES
  version, input, numWorker,
  main,                         \* where main() is; failed: it has exited with an error
  rows, cols, grid, rowCount,   \* the dimensions, whether there is memory for the grid,
                                \* the rows of it that are filled
  currentWorker, currentRow, searching,  \* shared by the workers; searching is a semaphore
  pc, row, col, i, symbols,     \* of each worker: where, the corner of its square, the row
                                \* it copies next, what it has copied
  found, total,                 \* squares that a worker found, and that were added up
  crashed,
  scanned, early                \* auxiliary: the squares that were looked at; a worker
                                \* began before the grid was there

job    == <<version, input, numWorker>>
memory == <<rows, cols, grid, rowCount>>
shared == <<currentWorker, currentRow, searching>>
worker == <<pc, row, col, i, symbols>>
result == <<found, total>>
aux    == <<scanned, early>>
vars   == <<job, main, memory, shared, worker, result, crashed, aux>>

(* The kernel is started with whole blocks of threads, rounded up.         *)
Blocks(n)  == (n + ThreadsPerBlock - 1) \div ThreadsPerBlock
MaxThreads == Blocks(MaxRows) * ThreadsPerBlock + MaxWorkers
Workers    == 0 .. MaxThreads - 1

(* Only the processes of assignment 1 have a currentRow each.              *)
Of(w) == IF version = "processes" THEN w ELSE 0

(* The programs in C insist on a worker; the one in Java takes any number. *)
Init ==
  /\ version \in Versions /\ input \in Inputs
  /\ numWorker \in (IF version = "java" THEN 0 ELSE 1) .. (IF version = "gpu" THEN 1 ELSE MaxWorkers)
  /\ main = "rows" /\ rows = 0 /\ cols = 0 /\ grid = FALSE /\ rowCount = 0
  /\ currentWorker = 0 /\ currentRow = [w \in Workers |-> 0] /\ searching = 1
  /\ pc = [w \in Workers |-> "idle"] /\ row = [w \in Workers |-> 0]
  /\ col = [w \in Workers |-> 0] /\ i = [w \in Workers |-> 0]
  /\ symbols = [w \in Workers |-> {}]
  /\ found = [w \in Workers |-> 0] /\ total = 0 /\ crashed = FALSE
  /\ scanned = {} /\ early = FALSE

At(w, l)   == ~crashed /\ main # "failed" /\ pc[w] = l
Goto(w, l) == pc' = [pc EXCEPT ![w] = l]
Main(l, m) == ~crashed /\ main = l /\ main' = m

-----------------------------------------------------------------------------
(* readGrid(), store by store.                                             *)

ReadRows ==
  /\ Main("rows", "cols") /\ rows' = input.rows
  /\ UNCHANGED <<job, cols, grid, rowCount, shared, worker, result, crashed, aux>>

ReadCols ==
  /\ Main("cols", "malloc") /\ cols' = input.cols
  /\ UNCHANGED <<job, rows, grid, rowCount, shared, worker, result, crashed, aux>>

(* "Input grid is too wide."                                               *)
TooWide == version # "java" /\ cols > MaxWidth

RefuseGrid ==
  /\ TooWide /\ Main("malloc", "failed")
  /\ UNCHANGED <<job, memory, shared, worker, result, crashed, aux>>

Malloc ==
  /\ ~TooWide /\ Main("malloc", IF rows = 0 THEN "work" ELSE "copy") /\ grid' = TRUE
  /\ UNCHANGED <<job, rows, cols, rowCount, shared, worker, result, crashed, aux>>

CopyRow ==
  /\ Main("copy", IF rowCount + 1 = rows THEN "work" ELSE "copy") /\ rowCount' = rowCount + 1
  /\ UNCHANGED <<job, rows, cols, grid, shared, worker, result, crashed, aux>>

-----------------------------------------------------------------------------
(* A worker begins.                                                        *)

Begin(w, r) ==
  /\ row' = [row EXCEPT ![w] = r]
  /\ early' = (early \/ main \in {"rows", "cols", "malloc", "copy"})
  /\ UNCHANGED <<job, memory, col, i, symbols, result, crashed, scanned>>

First(w) == currentWorker + currentRow[Of(w)] * numWorker

(* fork() copies currentRow, which is 0 in the parent.                     *)
Fork(w) ==
  /\ version = "processes" /\ w = currentWorker /\ w < numWorker
  /\ Main("work", "read") /\ At(w, "idle") /\ Goto(w, "row")
  /\ Begin(w, First(w)) /\ UNCHANGED shared

(* Mutant: a worker goes on from the row at which the last one stopped.    *)
CallRunOn(w) ==
  /\ version = "java" /\ w = currentWorker /\ w < numWorker
  /\ Main("work", "call") /\ At(w, "idle") /\ Goto(w, "row")
  /\ Begin(w, First(w)) /\ UNCHANGED shared

CallRun(w) ==
  /\ version = "java" /\ w = currentWorker /\ w < numWorker
  /\ Main("work", "call") /\ At(w, "idle") /\ Goto(w, "row")
  /\ currentRow' = [currentRow EXCEPT ![0] = 0]
  /\ Begin(w, currentWorker) /\ UNCHANGED <<currentWorker, searching>>

(* Mutant: workers search at the same time.                                *)
SearchAtOnce(w) ==
  /\ version = "threads" /\ w < numWorker
  /\ At(w, "idle") /\ Goto(w, "row")
  /\ Begin(w, First(w)) /\ UNCHANGED <<main, shared>>

Search(w) ==
  /\ version = "threads" /\ w < numWorker
  /\ At(w, "idle") /\ Goto(w, "row")
  /\ searching = 1 /\ searching' = 0
  /\ Begin(w, First(w)) /\ UNCHANGED <<main, currentWorker, currentRow>>

(* A grid without rows makes no blocks: "Failure in CUDA kernel execution." *)
LaunchFails ==
  /\ version = "gpu" /\ Blocks(rows) = 0 /\ Main("work", "failed")
  /\ UNCHANGED <<job, memory, shared, worker, result, crashed, aux>>

Launch(w) ==
  /\ version = "gpu" /\ w < Blocks(rows) * ThreadsPerBlock
  /\ main = "work" /\ UNCHANGED main
  /\ At(w, "idle") /\ Goto(w, "row")
  /\ Begin(w, w) /\ UNCHANGED shared

-----------------------------------------------------------------------------
(* The search                                                              *)

(* Mutant: the last row of a square may lie one below the grid.            *)
TestRowBeyond(w) ==
  /\ At(w, "row")
  /\ Goto(w, IF row[w] + Side - 1 <= rows THEN "col" ELSE "exit")
  /\ col' = [col EXCEPT ![w] = 0]
  /\ UNCHANGED <<job, main, memory, shared, row, i, symbols, result, crashed, aux>>

TestRow(w) ==
  /\ At(w, "row")
  /\ Goto(w, IF row[w] + Side - 1 < rows THEN "col" ELSE "exit")
  /\ col' = [col EXCEPT ![w] = 0]
  /\ UNCHANGED <<job, main, memory, shared, row, i, symbols, result, crashed, aux>>

TestCol(w) ==
  /\ At(w, "col") /\ col[w] + Side - 1 < cols
  /\ i' = [i EXCEPT ![w] = row[w]] /\ symbols' = [symbols EXCEPT ![w] = {}]
  /\ Goto(w, "square")
  /\ UNCHANGED <<job, main, memory, shared, row, col, result, crashed, aux>>

NextRow(w) ==
  /\ At(w, "col") /\ col[w] + Side - 1 >= cols
  /\ IF version = "gpu"
     THEN Goto(w, "exit") /\ UNCHANGED <<row, currentRow>>
     ELSE /\ currentRow' = [currentRow EXCEPT ![Of(w)] = @ + 1]
          /\ row' = [row EXCEPT ![w] = currentWorker + (currentRow[Of(w)] + 1) * numWorker]
          /\ Goto(w, "row")
  /\ UNCHANGED <<job, main, memory, currentWorker, searching, col, i, symbols, result,
                 crashed, aux>>

(* What is in the squares of row r at this moment: letters once the row is *)
(* copied, any mixture while it is being copied.                           *)
Seen(r, js) ==
  LET letters(cs) == {input.at[r][j] : j \in cs}
      mixed(cs)   == letters(cs) \cup (IF cs = js THEN {} ELSE {Nul})
  IN  IF r < rowCount THEN {letters(js)}
      ELSE IF r = rowCount /\ main = "copy" THEN {mixed(cs) : cs \in SUBSET js}
      ELSE {{Nul}}

CopySquareRow(w) ==
  /\ At(w, "square") /\ grid
  /\ \E s \in Seen(i[w], col[w] .. col[w] + Side - 1) :
       symbols' = [symbols EXCEPT ![w] = @ \cup s]
  /\ i' = [i EXCEPT ![w] = @ + 1]
  /\ Goto(w, IF i[w] + 1 = row[w] + Side THEN "check" ELSE "square")
  /\ UNCHANGED <<job, main, memory, shared, row, col, result, crashed, aux>>

Segfault(w) ==
  /\ At(w, "square") /\ ~grid
  /\ crashed' = TRUE
  /\ UNCHANGED <<job, main, memory, shared, worker, result, aux>>

(* In C the symbols are counted, whatever they are, in an array with room  *)
(* for the alphabet; one symbol more is compared with the byte behind it.  *)
Verdicts(s) ==
  IF version = "java" THEN {Letters \subseteq s}
  ELSE IF Cardinality(s) = Cardinality(Letters) + 1 THEN BOOLEAN
  ELSE {Cardinality(s) = Cardinality(Letters)}

Count(w) ==
  IF version = "threads" THEN total' = total + 1 /\ UNCHANGED found
                         ELSE found' = [found EXCEPT ![w] = @ + 1] /\ UNCHANGED total

CheckSquare(w) ==
  /\ At(w, "check")
  /\ \/ TRUE \in Verdicts(symbols[w]) /\ Count(w)
     \/ FALSE \in Verdicts(symbols[w]) /\ UNCHANGED result
  /\ scanned' = scanned \cup {<<row[w], col[w]>>}
  /\ col' = [col EXCEPT ![w] = @ + 1]
  /\ Goto(w, "col")
  /\ UNCHANGED <<job, main, memory, shared, row, i, symbols, crashed, early>>

-----------------------------------------------------------------------------
(* A worker ends, and its result is added.                                 *)

Finish(w) == /\ At(w, "exit") /\ Goto(w, "done")
             /\ UNCHANGED <<job, memory, row, col, i, symbols, crashed, aux>>

(* The child writes its result into the pipe, which the parent reads       *)
(* before it creates the next child.                                       *)
WritePipe(w) ==
  /\ version = "processes" /\ Finish(w)
  /\ UNCHANGED <<main, shared, result>>

ReadPipe(w) ==
  /\ version = "processes" /\ w = currentWorker /\ pc[w] = "done"
  /\ Main("read", "work")
  /\ total' = total + found[w]
  /\ currentWorker' = currentWorker + 1
  /\ UNCHANGED <<job, memory, currentRow, searching, worker, found, crashed, aux>>

Return(w) ==
  /\ version = "java" /\ Finish(w) /\ Main("call", "work")
  /\ total' = total + found[w]
  /\ currentWorker' = currentWorker + 1
  /\ UNCHANGED <<currentRow, searching, found>>

(* Mutant: the semaphore is not posted.                                    *)
LeaveSearching(w) ==
  /\ version = "threads" /\ Finish(w)
  /\ currentWorker' = currentWorker + 1
  /\ UNCHANGED <<main, currentRow, searching, result>>

(* currentRow stays where this worker has left it.                         *)
Leave(w) ==
  /\ version = "threads" /\ Finish(w)
  /\ currentWorker' = currentWorker + 1 /\ searching' = searching + 1
  /\ UNCHANGED <<main, currentRow, result>>

KernelExit(w) == version = "gpu" /\ Finish(w) /\ UNCHANGED <<main, shared, result>>

(* The host waits for the kernel and adds up one cell per row.             *)
AddCell ==
  /\ version = "gpu" /\ \A w \in Workers : w < Blocks(rows) * ThreadsPerBlock => pc[w] = "done"
  /\ currentWorker < rows /\ Main("work", "work")
  /\ total' = total + found[currentWorker]
  /\ currentWorker' = currentWorker + 1
  /\ UNCHANGED <<job, memory, currentRow, searching, worker, found, crashed, aux>>

(* main() has joined its threads or reaped its children, and prints.       *)
PrintTotal ==
  /\ Main("work", "done")
  /\ \/ version \in {"processes", "java"} /\ currentWorker = numWorker
     \/ version = "threads" /\ \A w \in 0 .. numWorker - 1 : pc[w] = "done"
     \/ version = "gpu" /\ Blocks(rows) # 0 /\ currentWorker = rows
        /\ \A w \in Workers : w < Blocks(rows) * ThreadsPerBlock => pc[w] = "done"
  /\ UNCHANGED <<job, memory, shared, worker, result, crashed, aux>>

-----------------------------------------------------------------------------
MainStep == \/ ReadRows \/ ReadCols \/ RefuseGrid \/ Malloc \/ CopyRow
            \/ LaunchFails \/ AddCell \/ PrintTotal
            \/ \E w \in Workers : Fork(w) \/ ReadPipe(w) \/ CallRun(w)

Step(w) == \/ Search(w) \/ Launch(w)
           \/ TestRow(w) \/ TestCol(w) \/ NextRow(w)
           \/ CopySquareRow(w) \/ Segfault(w) \/ CheckSquare(w)
           \/ WritePipe(w) \/ Return(w) \/ Leave(w) \/ KernelExit(w)

Next == MainStep \/ \E w \in Workers : Step(w)

Spec == Init /\ [][Next]_vars /\ WF_vars(MainStep) /\ \A w \in Workers : WF_vars(Step(w))

-----------------------------------------------------------------------------
(* Properties *)

(* The types of the variables; `searching' stays a binary semaphore.       *)
TypeOK ==
  /\ version \in Versions /\ input \in Inputs /\ numWorker \in 0 .. MaxWorkers
  /\ main \in {"rows", "cols", "malloc", "copy", "work", "read", "call", "done", "failed"}
  /\ rows \in {0, input.rows} /\ cols \in {0, input.cols} /\ grid \in BOOLEAN
  /\ rowCount \in 0 .. input.rows
  /\ currentWorker \in Nat /\ currentRow \in [Workers -> Nat] /\ searching \in 0 .. 1
  /\ pc \in [Workers -> {"idle", "row", "col", "square", "check", "exit", "done"}]
  /\ row \in [Workers -> Nat] /\ col \in [Workers -> Nat] /\ i \in [Workers -> Nat]
  /\ symbols \in [Workers -> SUBSET (Letters \cup {Nul})]
  /\ found \in [Workers -> Nat] /\ total \in Nat
  /\ crashed \in BOOLEAN /\ early \in BOOLEAN /\ scanned \subseteq Nat \X Nat

(* A worker that copies a square copies rows and columns of the grid, and, *)
(* but for the threads of assignment 3, rows that have been read: the      *)
(* kernel threads behind the last row copy nothing (square.cu:22-25), and  *)
(* a thread that meets a grid half read has tested its dimensions.         *)
ReadsInside ==
  \A w \in Workers :
    pc[w] = "square" => /\ i[w] < input.rows /\ col[w] + Side - 1 < input.cols
                        /\ version # "threads" => i[w] < rowCount

Window(r, c) == (r .. r + Side - 1) \X (c .. c + Side - 1)
Complete ==
  {s \in (0 .. input.rows - Side) \X (0 .. input.cols - Side) :
     Letters \subseteq {input.at[x[1]][x[2]] : x \in Window(s[1], s[2])}}

(* "Total number of complete squares we've found" (assignment 3,           *)
(* square.c:45): the number that is printed is right, but that             *)
(* `java Square 0' prints 0 for every grid (Square.java:156-172).          *)
TotalIsRight ==
  main = "done" => total = IF numWorker = 0 THEN 0 ELSE Cardinality(Complete)

(* However the children, the calls of run() and the kernel threads divide  *)
(* the rows, no complete square is missed or counted twice.  The threads   *)
(* of assignment 3 cannot be relied on, but for a single one that begins   *)
(* when the grid is there.                                                 *)
SharesAddUp == (version = "threads" => numWorker = 1 /\ ~early) => TotalIsRight

(* Threads that meet a grid half read may count wrongly, but no square is  *)
(* looked at twice by the workers of any version.                          *)
NeverTwice ==
  [][\A w \in Workers :
       (pc[w] = "check" /\ pc'[w] # "check") => <<row[w], col[w]>> \notin scanned]_vars

(* Every worker ends and main() prints, but for grids that are refused:    *)
(* too wide, or without a row for the GPU; and unless a thread of          *)
(* assignment 3 uses the grid before there is one.                         *)
Refused == \/ version # "java" /\ input.cols > MaxWidth
           \/ version = "gpu" /\ input.rows = 0

Ends == <>(\/ main = "done" /\ ~Refused
           \/ main = "failed" /\ Refused
           \/ crashed /\ version = "threads")

=============================================================================
