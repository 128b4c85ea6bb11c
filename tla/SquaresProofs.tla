--------------------------- MODULE SquaresProofs ---------------------------
(***************************************************************************)
(* What the four square finders keep, for grids of any size and any number *)
(* of workers: the types, that what is copied lies in the grid, that no    *)
(* square is looked at twice, and that the number that is printed is right *)
(* when no worker begins before the grid is there and no counter is shared *)
(* by several of them.                                                     *)
(***************************************************************************)
EXTENDS Squares, FiniteSetTheorems, TLAPS

USE SquaresConstants DEF SquaresConstants

-----------------------------------------------------------------------------
(* Numbers *)

LEMMA Times ==
  ASSUME NEW k \in Nat, NEW n \in Nat
  PROVE  k * n \in Nat
OBVIOUS

LEMMA Divided ==
  ASSUME NEW k \in Nat, NEW n \in Nat \ {0}
  PROVE  k \div n \in Nat
OBVIOUS

LEMMA RoundsLater ==
  ASSUME NEW n \in Nat \ {0}, NEW k \in Nat, NEW m \in Nat, k < m
  PROVE  k * n + n <= m * n
<1>1. (m - k - 1) * n \in Nat
  <2>1. m - k - 1 \in Nat
    OBVIOUS
  <2> QED  BY <2>1, Times
<1>2. (m - k - 1) * n = m * n - k * n - n
  OBVIOUS
<1>3. m * n \in Nat /\ k * n \in Nat
  BY Times
<1> QED  BY <1>1, <1>2, <1>3

(* Workers that go through the rows in steps of n meet no row twice.       *)
LEMMA RowsDivided ==
  ASSUME NEW n \in Nat \ {0}, NEW u \in 0 .. n - 1, NEW v \in 0 .. n - 1,
         NEW k \in Nat, NEW m \in Nat, u + k * n = v + m * n
  PROVE  k = m /\ u = v
<1>1. k * n \in Nat /\ m * n \in Nat
  BY Times
<1>2. ~(k < m)
  <2> SUFFICES ASSUME k < m PROVE FALSE
    OBVIOUS
  <2>1. k * n + n <= m * n
    BY RoundsLater
  <2> QED  BY <1>1, <2>1
<1>3. ~(m < k)
  <2> SUFFICES ASSUME m < k PROVE FALSE
    OBVIOUS
  <2>1. m * n + n <= k * n
    BY RoundsLater
  <2> QED  BY <1>1, <2>1
<1> QED  BY <1>1, <1>2, <1>3

LEMMA RoundedUp ==
  ASSUME NEW k \in Nat, NEW n \in Nat \ {0}
  PROVE  ((k + n - 1) \div n) * n >= k
<1>1. ASSUME NEW a \in Nat
      PROVE  (a \div n) * n >= a - (n - 1)
  <2>1. a = (a \div n) * n + (a % n)
    <3>1. a \in Int /\ n \in Nat /\ n > 0
      OBVIOUS
    <3> QED  BY <3>1
  <2>3. a % n \in 0 .. n - 1
    OBVIOUS
  <2>2. (a \div n) * n \in Nat
    BY Divided, Times
  <2> QED  BY <2>1, <2>2, <2>3
<1>2. k + n - 1 \in Nat
  OBVIOUS
<1>3. ((k + n - 1) \div n) * n >= (k + n - 1) - (n - 1)
  BY <1>1, <1>2
<1>4. ((k + n - 1) \div n) * n \in Nat
  BY <1>2, Divided, Times
<1> QED  BY <1>3, <1>4

LEMMA EnoughWorkers ==
  /\ MaxThreads \in Nat /\ MaxWorkers <= MaxThreads
  /\ MaxRows <= MaxThreads
<1>1. MaxRows + ThreadsPerBlock - 1 \in Nat
  OBVIOUS
<1>2. Blocks(MaxRows) \in Nat
  BY <1>1, Divided DEF Blocks
<1>3. Blocks(MaxRows) * ThreadsPerBlock \in Nat
  BY <1>2, Times
<1>4. Blocks(MaxRows) * ThreadsPerBlock >= MaxRows
  BY RoundedUp DEF Blocks
<1> QED  BY <1>3, <1>4 DEF MaxThreads

LEMMA WorkersAre ==
  /\ Workers \subseteq Nat /\ 0 \in Workers
  /\ \A v \in Nat : v < MaxRows => v \in Workers
  /\ \A v \in Nat : v < MaxWorkers => v \in Workers
  /\ \A w \in Workers : Of(w) \in Workers
BY EnoughWorkers DEF Workers, Of

LEMMA Changed ==
  ASSUME NEW S, NEW V, NEW f \in [S -> V], NEW j, NEW x \in V
  PROVE  [f EXCEPT ![j] = x] \in [S -> V]
OBVIOUS

-----------------------------------------------------------------------------
(* The inductive invariant: types, and whose turn it is *)

(* How far main() has read the grid, and who may be without workers. *)
Sizes ==
  /\ version # "java" => numWorker # 0
  /\ main = "rows" => rowCount = 0
  /\ main \in {"cols", "malloc"} => rows = input.rows /\ rowCount = 0
  /\ main = "copy" => rows = input.rows /\ rowCount < rows

Inside(w) == pc[w] \in {"col", "square", "check"}

(* A square that is copied lies inside of the grid. *)
Fits(w) ==
  /\ Inside(w) => row[w] + Side - 1 < input.rows
  /\ pc[w] = "square" => /\ i[w] \in row[w] .. row[w] + Side - 1
                         /\ col[w] + Side - 1 < input.cols

Active(w) == pc[w] \in {"row", "col", "square", "check", "exit"}

(* All workers but those of the GPU work one after the other, at the row   *)
(* that the shared counters tell.                                          *)
Turn(w) ==
  \/ version = "gpu" /\ row[w] = w
  \/ /\ version = "threads" /\ searching = 0
     /\ row[w] = First(0)
     /\ \A u \in Workers : Active(u) => u = w
  \/ /\ version \in {"processes", "java"}
     /\ w = currentWorker /\ w < numWorker
     /\ row[w] = First(w)

Typed == TypeOK /\ Sizes /\ \A w \in Workers : Fits(w) /\ (Active(w) => Turn(w))

LEMMA InitTyped == Init => Typed
<1> SUFFICES ASSUME Init PROVE Typed
  OBVIOUS
<1>1. \A w \in Workers : pc[w] = "idle"
  BY DEF Init
<1>2. numWorker \in 0 .. MaxWorkers /\ (version # "java" => numWorker # 0)
  <2>1. numWorker \in (IF version = "java" THEN 0 ELSE 1) .. (IF version = "gpu" THEN 1 ELSE MaxWorkers)
    BY DEF Init
  <2> QED  BY <2>1
<1>4. input \in Inputs /\ input.rows \in Nat
  <2>1. input \in Inputs
    BY DEF Init
  <2> QED  BY <2>1
<1>3. TypeOK
  <2>1. /\ version \in Versions
        /\ main = "rows" /\ rows \in {0, input.rows} /\ cols \in {0, input.cols}
        /\ grid \in BOOLEAN
    BY DEF Init
  <2>6. rowCount \in 0 .. input.rows
    <3>1. rowCount = 0
      BY DEF Init
    <3> QED  BY <1>4, <3>1
  <2>2. currentWorker \in Nat /\ currentRow \in [Workers -> Nat] /\ searching \in 0 .. 1
    BY DEF Init
  <2>3. /\ pc \in [Workers -> {"idle", "row", "col", "square", "check", "exit", "done"}]
        /\ row \in [Workers -> Nat] /\ col \in [Workers -> Nat] /\ i \in [Workers -> Nat]
    BY DEF Init
  <2>4. /\ symbols \in [Workers -> SUBSET (Letters \cup {Nul})]
        /\ found \in [Workers -> Nat] /\ total \in Nat
    BY DEF Init
  <2>5. crashed \in BOOLEAN /\ early \in BOOLEAN /\ scanned \subseteq Nat \X Nat
    BY DEF Init
  <2> QED  BY <1>2, <1>4, <2>1, <2>2, <2>3, <2>4, <2>5, <2>6 DEF TypeOK
<1> QED  BY <1>1, <1>2, <1>3 DEF Init, Typed, Sizes, Fits, Inside, Active

LEMMA InputFits ==
  ASSUME TypeOK
  PROVE  /\ input.rows \in Nat /\ input.cols \in Nat
         /\ input.rows <= MaxRows
         /\ \A r \in 0 .. input.rows - 1, c \in 0 .. input.cols - 1 : input.at[r][c] \in Letters
         /\ numWorker \in Nat /\ numWorker <= MaxWorkers
<1>1. input \in Inputs /\ numWorker \in 0 .. MaxWorkers
  BY DEF TypeOK
<1>2. /\ input.rows \in 0 .. MaxRows /\ input.cols \in Nat
      /\ input.at \in [0 .. input.rows - 1 -> [0 .. input.cols - 1 -> Letters]]
  BY <1>1
<1>3. \A r \in 0 .. input.rows - 1, c \in 0 .. input.cols - 1 : input.at[r][c] \in Letters
  BY ONLY <1>2
<1>4. input.rows \in Nat /\ input.rows <= MaxRows
  BY <1>2
<1>5. numWorker \in Nat /\ numWorker <= MaxWorkers
  BY <1>1
<1> QED  BY ONLY <1>2, <1>3, <1>4, <1>5

LEMMA FirstType ==
  ASSUME TypeOK, NEW w \in Workers
  PROVE  /\ Of(w) \in Workers /\ currentRow[Of(w)] \in Nat /\ First(w) \in Nat
         /\ currentWorker + (currentRow[Of(w)] + 1) * numWorker \in Nat
<1>1. Of(w) \in Workers /\ currentRow[Of(w)] \in Nat /\ currentWorker \in Nat
  BY WorkersAre DEF TypeOK
<1>2. numWorker \in Nat
  BY InputFits
<1>3. currentRow[Of(w)] * numWorker \in Nat /\ (currentRow[Of(w)] + 1) * numWorker \in Nat
  <2>1. currentRow[Of(w)] + 1 \in Nat
    BY <1>1
  <2> QED  BY <1>1, <1>2, <2>1, Times
<1> QED  BY <1>1, <1>3 DEF First

-----------------------------------------------------------------------------
(* main() *)

MainAlone == \/ ReadRows \/ ReadCols \/ RefuseGrid \/ Malloc \/ CopyRow
             \/ LaunchFails \/ AddCell \/ PrintTotal

LEMMA MainTyped ==
  ASSUME Typed, MainAlone
  PROVE  Typed'
<1>t. TypeOK /\ Sizes
  BY DEF Typed
<1>n. input.rows \in Nat /\ input.cols \in Nat /\ input.rows <= MaxRows
  BY <1>t, InputFits
<1>1. /\ worker' = worker /\ job' = job /\ currentRow' = currentRow /\ searching' = searching
      /\ version # "gpu" => currentWorker' = currentWorker
      /\ found' = found /\ crashed' = crashed /\ aux' = aux
  BY DEF MainAlone, ReadRows, ReadCols, RefuseGrid, Malloc, CopyRow, LaunchFails, AddCell,
     PrintTotal,
     worker, job, shared, result
<1>2. /\ currentWorker' \in Nat /\ total' \in Nat
  <2>1. CASE AddCell
    <3>1. currentWorker \in Workers
      <4>1. rows <= MaxRows /\ rows \in Nat /\ currentWorker \in Nat
        BY <1>n, <1>t DEF TypeOK
      <4> QED  BY <2>1, <4>1, WorkersAre DEF AddCell
    <3>2. found[currentWorker] \in Nat /\ total \in Nat /\ currentWorker \in Nat
      BY <3>1, <1>t DEF TypeOK
    <3> QED  BY <2>1, <3>2 DEF AddCell
  <2>2. CASE \/ ReadRows \/ ReadCols \/ RefuseGrid \/ Malloc \/ CopyRow
             \/ LaunchFails \/ PrintTotal
    BY <2>2, <1>t DEF ReadRows, ReadCols, RefuseGrid, Malloc, CopyRow, LaunchFails, PrintTotal,
       shared, result, TypeOK
  <2> QED  BY <2>1, <2>2 DEF MainAlone
<1>3. /\ main' \in {"rows", "cols", "malloc", "copy", "work", "read", "call", "done", "failed"}
      /\ rows' \in {0, input.rows} /\ cols' \in {0, input.cols} /\ grid' \in BOOLEAN
      /\ rowCount' \in 0 .. input.rows
      /\ Sizes'
  <2>0. input' = input /\ version' = version /\ numWorker' = numWorker
    BY <1>1 DEF job
  <2>1. CASE ReadRows
    BY <2>0, <2>1, <1>t, <1>n DEF ReadRows, Main, TypeOK, Sizes
  <2>2. CASE ReadCols
    BY <2>0, <2>2, <1>t, <1>n DEF ReadCols, Main, TypeOK, Sizes
  <2>3. CASE Malloc
    BY <2>0, <2>3, <1>t, <1>n DEF Malloc, Main, TypeOK, Sizes
  <2>4. CASE CopyRow
    BY <2>0, <2>4, <1>t, <1>n DEF CopyRow, Main, TypeOK, Sizes
  <2>5. CASE AddCell \/ PrintTotal \/ RefuseGrid \/ LaunchFails
    BY <2>0, <2>5, <1>t, <1>n DEF AddCell, PrintTotal, RefuseGrid, LaunchFails, Main, memory,
       TypeOK, Sizes
  <2> QED  BY <2>1, <2>2, <2>3, <2>4, <2>5 DEF MainAlone
<1>4. TypeOK'
  BY <1>t, <1>1, <1>2, <1>3 DEF TypeOK, job, worker, aux
<1>5. ASSUME NEW w \in Workers
      PROVE  Fits(w)' /\ (Active(w)' => Turn(w)')
  <2>1. Fits(w) /\ (Active(w) => Turn(w))
    BY DEF Typed
  <2>2. version # "gpu" => First(w)' = First(w) /\ First(0)' = First(0)
    BY <1>1 DEF First, Of, job
  <2> QED  BY <1>1, <2>1, <2>2 DEF Fits, Inside, Active, Turn, worker, job
<1> QED  BY <1>3, <1>4, <1>5 DEF Typed

-----------------------------------------------------------------------------
(* A worker *)

Starts(w) == Fork(w) \/ CallRun(w) \/ Search(w) \/ Launch(w)
Looks(w)  == \/ TestRow(w) \/ TestCol(w) \/ NextRow(w)
             \/ CopySquareRow(w) \/ Segfault(w) \/ CheckSquare(w)
Ended(w)  == WritePipe(w) \/ ReadPipe(w) \/ Return(w) \/ Leave(w) \/ KernelExit(w)
Acts(w)   == Starts(w) \/ Looks(w) \/ Ended(w)

LEMMA Steps == [Next]_vars => MainAlone \/ (\E w \in Workers : Acts(w)) \/ UNCHANGED vars
BY DEF Next, MainStep, Step, MainAlone, Acts, Starts, Looks, Ended

(* A worker changes nothing of the others. *)
Alone(w) ==
  /\ job' = job
  /\ \A u \in Workers : u # w => pc'[u] = pc[u] /\ row'[u] = row[u] /\ col'[u] = col[u]

LEMMA WorkerAlone ==
  ASSUME NEW w \in Workers, Acts(w), TypeOK
  PROVE  Alone(w)
<1>0. /\ pc \in [Workers -> {"idle", "row", "col", "square", "check", "exit", "done"}]
      /\ row \in [Workers -> Nat] /\ col \in [Workers -> Nat]
  BY DEF TypeOK
<1>1. CASE Starts(w)
  BY <1>0, <1>1 DEF Starts, Fork, CallRun, Search, Launch, Begin, Goto, Alone
<1>2. CASE TestRow(w) \/ TestCol(w) \/ NextRow(w)
  BY <1>0, <1>2 DEF TestRow, TestCol, NextRow, Goto, Alone
<1>3. CASE CopySquareRow(w) \/ Segfault(w) \/ CheckSquare(w)
  BY <1>0, <1>3 DEF CopySquareRow, Segfault, CheckSquare, worker, Goto, Alone
<1>4. CASE Ended(w)
  BY <1>0, <1>4 DEF Ended, WritePipe, ReadPipe, Return, Leave, KernelExit, Finish, worker,
     Goto, Alone
<1> QED  BY <1>1, <1>2, <1>3, <1>4 DEF Acts, Looks

(* What the steps of a worker do to it and to the counters.                *)
LEMMA StartOf ==
  ASSUME NEW w \in Workers, Starts(w), TypeOK
  PROVE  /\ pc[w] = "idle" /\ pc'[w] = "row" /\ scanned' = scanned
         /\ currentWorker' = currentWorker /\ memory' = memory /\ result' = result
         /\ \/ /\ version = "gpu" /\ row'[w] = w
               /\ currentRow' = currentRow /\ searching' = searching
            \/ /\ version = "threads" /\ row'[w] = First(w)
               /\ currentRow' = currentRow /\ searching = 1 /\ searching' = 0
            \/ /\ version = "processes" /\ w = currentWorker /\ w < numWorker
               /\ row'[w] = First(w)
               /\ currentRow' = currentRow /\ searching' = searching
            \/ /\ version = "java" /\ w = currentWorker /\ w < numWorker
               /\ row'[w] = currentWorker
               /\ currentRow' = [currentRow EXCEPT ![0] = 0] /\ searching' = searching
<1>0. pc \in [Workers -> {"idle", "row", "col", "square", "check", "exit", "done"}]
      /\ row \in [Workers -> Nat]
  BY DEF TypeOK
<1>1. /\ pc[w] = "idle" /\ pc' = [pc EXCEPT ![w] = "row"] /\ scanned' = scanned
      /\ memory' = memory /\ result' = result
  BY DEF Starts, Fork, CallRun, Search, Launch, Begin, At, Goto
<1>2. CASE Fork(w)
  BY <1>0, <1>1, <1>2 DEF Fork, Begin, shared
<1>3. CASE CallRun(w)
  BY <1>0, <1>1, <1>3 DEF CallRun, Begin
<1>4. CASE Search(w)
  BY <1>0, <1>1, <1>4 DEF Search, Begin
<1>5. CASE Launch(w)
  BY <1>0, <1>1, <1>5 DEF Launch, Begin, shared
<1> QED  BY <1>0, <1>1, <1>2, <1>3, <1>4, <1>5 DEF Starts

LEMMA LookOf ==
  ASSUME NEW w \in Workers, Looks(w), TypeOK
  PROVE  /\ main' = main /\ memory' = memory /\ early' = early
         /\ currentWorker' = currentWorker /\ searching' = searching
         /\ \/ /\ pc[w] = "row" /\ pc'[w] = "col" /\ col'[w] = 0
               /\ row' = row /\ currentRow' = currentRow /\ scanned' = scanned
            \/ /\ pc[w] = "row" /\ pc'[w] = "exit"
               /\ row' = row /\ currentRow' = currentRow /\ scanned' = scanned
            \/ /\ pc[w] = "col" /\ pc'[w] = "exit" /\ version = "gpu"
               /\ row' = row /\ col' = col /\ currentRow' = currentRow /\ scanned' = scanned
            \/ /\ pc[w] = "col" /\ pc'[w] = "row" /\ version # "gpu"
               /\ row'[w] = currentWorker + (currentRow[Of(w)] + 1) * numWorker /\ col' = col
               /\ currentRow' = [currentRow EXCEPT ![Of(w)] = @ + 1] /\ scanned' = scanned
            \/ /\ pc[w] \in {"col", "square", "check"} /\ pc'[w] \in {"col", "square", "check"}
               /\ row' = row /\ col' = col /\ currentRow' = currentRow /\ scanned' = scanned
            \/ /\ pc[w] = "check" /\ pc'[w] = "col" /\ row' = row /\ currentRow' = currentRow
               /\ col'[w] = col[w] + 1 /\ scanned' = scanned \cup {<<row[w], col[w]>>}
<1>0. /\ pc \in [Workers -> {"idle", "row", "col", "square", "check", "exit", "done"}]
      /\ row \in [Workers -> Nat] /\ col \in [Workers -> Nat]
  BY DEF TypeOK
<1>1. /\ main' = main /\ memory' = memory /\ early' = early
      /\ currentWorker' = currentWorker /\ searching' = searching
  BY DEF Looks, TestRow, TestCol, NextRow, CopySquareRow, Segfault, CheckSquare, shared, aux
<1>2. CASE TestRow(w)
  BY <1>0, <1>1, <1>2 DEF TestRow, At, Goto, shared, aux
<1>3. CASE TestCol(w)
  BY <1>0, <1>1, <1>3 DEF TestCol, At, Goto, shared, aux
<1>4. CASE NextRow(w)
  <2>1. pc[w] = "col" /\ col' = col /\ scanned' = scanned
    BY <1>4 DEF NextRow, At, aux
  <2>2. CASE version = "gpu"
    BY <1>0, <1>1, <1>4, <2>1, <2>2 DEF NextRow, Goto
  <2>3. CASE version # "gpu"
    BY <1>0, <1>1, <1>4, <2>1, <2>3 DEF NextRow, Goto
  <2> QED  BY <2>2, <2>3
<1>5. CASE CopySquareRow(w)
  BY <1>0, <1>1, <1>5 DEF CopySquareRow, At, Goto, shared, aux
<1>6. CASE Segfault(w)
  BY <1>0, <1>1, <1>6 DEF Segfault, At, shared, worker, aux
<1>7. CASE CheckSquare(w)
  BY <1>0, <1>1, <1>7 DEF CheckSquare, At, Goto, shared
<1> QED  BY <1>2, <1>3, <1>4, <1>5, <1>6, <1>7 DEF Looks

LEMMA EndOf ==
  ASSUME NEW w \in Workers, Ended(w), TypeOK
  PROVE  /\ memory' = memory /\ row' = row /\ col' = col /\ currentRow' = currentRow
         /\ aux' = aux
         /\ \/ /\ pc[w] = "exit" /\ pc'[w] = "done" /\ version \in {"processes", "gpu"}
               /\ currentWorker' = currentWorker /\ searching' = searching
            \/ /\ pc[w] = "done" /\ pc' = pc /\ version = "processes" /\ w = currentWorker
               /\ currentWorker' = currentWorker + 1 /\ searching' = searching
            \/ /\ pc[w] = "exit" /\ pc'[w] = "done" /\ version = "java"
               /\ currentWorker' = currentWorker + 1 /\ searching' = searching
            \/ /\ pc[w] = "exit" /\ pc'[w] = "done" /\ version = "threads"
               /\ currentWorker' = currentWorker + 1 /\ searching' = searching + 1
<1>0. pc \in [Workers -> {"idle", "row", "col", "square", "check", "exit", "done"}]
  BY DEF TypeOK
<1>1. CASE WritePipe(w) \/ KernelExit(w)
  BY <1>0, <1>1 DEF WritePipe, KernelExit, Finish, At, Goto, shared, memory, aux
<1>2. CASE ReadPipe(w)
  BY <1>2 DEF ReadPipe, worker, memory, aux
<1>3. CASE Return(w) \/ Leave(w)
  BY <1>0, <1>3 DEF Return, Leave, Finish, At, Goto, memory, aux
<1> QED  BY <1>1, <1>2, <1>3 DEF Ended

LEMMA WorkerMain ==
  ASSUME NEW w \in Workers, Acts(w), TypeOK, Sizes
  PROVE  /\ main' \in {"rows", "cols", "malloc", "copy", "work", "read", "call", "done", "failed"}
         /\ memory' = memory /\ job' = job /\ Sizes'
<1>1. memory' = memory /\ job' = job
  <2>1. job' = job
    BY WorkerAlone DEF Alone
  <2> QED  BY <2>1, StartOf, LookOf, EndOf DEF Acts
<1>2. main' = main \/ main' \in {"read", "call", "work"}
  <2>1. CASE Starts(w)
    BY <2>1 DEF Starts, Fork, CallRun, Search, Launch, Main
  <2>2. CASE Ended(w)
    BY <2>2 DEF Ended, WritePipe, ReadPipe, Return, Leave, KernelExit, Main
  <2>3. CASE Looks(w)
    BY <2>3, LookOf
  <2> QED  BY <2>1, <2>2, <2>3 DEF Acts
<1>3. main \in {"rows", "cols", "malloc", "copy", "work", "read", "call", "done", "failed"}
  BY DEF TypeOK
<1> QED  BY <1>1, <1>2, <1>3 DEF Sizes, memory, job

LEMMA WorkerCounters ==
  ASSUME NEW w \in Workers, Acts(w), Typed
  PROVE  currentWorker' \in Nat /\ currentRow' \in [Workers -> Nat] /\ searching' \in 0 .. 1
<1>0. TypeOK
  BY DEF Typed
<1>1. currentWorker \in Nat /\ currentRow \in [Workers -> Nat] /\ searching \in 0 .. 1
  BY <1>0 DEF TypeOK
<1>2. currentRow[Of(w)] \in Nat
  BY <1>0, FirstType
<1>3. CASE Starts(w)
  BY <1>0, <1>1, <1>3, StartOf
<1>4. CASE Looks(w)
  <2>1. [currentRow EXCEPT ![Of(w)] = @ + 1] \in [Workers -> Nat]
    <3>1. currentRow[Of(w)] + 1 \in Nat
      BY <1>2
    <3> QED  BY <1>1, <3>1, Changed
  <2>2. currentRow' = currentRow \/ currentRow' = [currentRow EXCEPT ![Of(w)] = @ + 1]
    BY <1>0, <1>4, LookOf
  <2>3. currentWorker' = currentWorker /\ searching' = searching
    BY <1>0, <1>4, LookOf
  <2> QED  BY <1>1, <2>1, <2>2, <2>3
<1>5. CASE Ended(w)
  <2>1. (pc[w] = "exit" /\ version = "threads") => searching = 0
    BY DEF Typed, Active, Turn
  <2> QED  BY <1>0, <1>1, <1>5, <2>1, EndOf
<1> QED  BY <1>3, <1>4, <1>5 DEF Acts

LEMMA WorkerPlace ==
  ASSUME NEW w \in Workers, Acts(w), TypeOK
  PROVE  /\ pc' \in [Workers -> {"idle", "row", "col", "square", "check", "exit", "done"}]
         /\ row' \in [Workers -> Nat] /\ col' \in [Workers -> Nat] /\ i' \in [Workers -> Nat]
<1>1. /\ pc \in [Workers -> {"idle", "row", "col", "square", "check", "exit", "done"}]
      /\ row \in [Workers -> Nat] /\ col \in [Workers -> Nat] /\ i \in [Workers -> Nat]
  BY DEF TypeOK
<1>2. First(w) \in Nat /\ currentWorker + (currentRow[Of(w)] + 1) * numWorker \in Nat
  BY FirstType
<1>3. w \in Nat /\ currentWorker \in Nat /\ row[w] \in Nat /\ col[w] \in Nat /\ i[w] \in Nat
  BY <1>1, WorkersAre DEF TypeOK
<1>4. CASE Starts(w)
  <2>1. pc' = [pc EXCEPT ![w] = "row"] /\ col' = col /\ i' = i
    BY <1>4 DEF Starts, Fork, CallRun, Search, Launch, Begin, Goto
  <2>2. \E r \in {First(w), currentWorker, w} : row' = [row EXCEPT ![w] = r]
    BY <1>4 DEF Starts, Fork, CallRun, Search, Launch, Begin
  <2>3. row' \in [Workers -> Nat]
    BY <1>1, <1>2, <1>3, <2>2, Changed
  <2> QED  BY <1>1, <2>1, <2>3
<1>5. CASE TestRow(w) \/ TestCol(w)
  <2>1. \/ pc' = [pc EXCEPT ![w] = "exit"] \/ pc' = [pc EXCEPT ![w] = "col"]
        \/ pc' = [pc EXCEPT ![w] = "square"]
    BY <1>5 DEF TestRow, TestCol, Goto
  <2>2. /\ row' = row /\ (col' = col \/ col' = [col EXCEPT ![w] = 0])
        /\ i' = i \/ i' = [i EXCEPT ![w] = row[w]]
    BY <1>5 DEF TestRow, TestCol
  <2>3. col' \in [Workers -> Nat] /\ i' \in [Workers -> Nat]
    BY <1>1, <1>3, <2>2
  <2> QED  BY <1>1, <2>1, <2>2, <2>3
<1>8. CASE NextRow(w)
  <2>1. pc' = [pc EXCEPT ![w] = "exit"] \/ pc' = [pc EXCEPT ![w] = "row"]
    BY <1>8 DEF NextRow, Goto
  <2>2. \/ row' = row
        \/ row' = [row EXCEPT ![w] = currentWorker + (currentRow[Of(w)] + 1) * numWorker]
    BY <1>8 DEF NextRow
  <2>3. col' = col /\ i' = i
    BY <1>8 DEF NextRow
  <2>4. row' \in [Workers -> Nat]
    BY <1>1, <1>2, <2>2, Changed
  <2> QED  BY <1>1, <2>1, <2>3, <2>4
<1>6. CASE CopySquareRow(w) \/ Segfault(w) \/ CheckSquare(w)
  <2>1. row' = row
    BY <1>6 DEF CopySquareRow, Segfault, CheckSquare, worker
  <2>2. col' = col \/ col' = [col EXCEPT ![w] = @ + 1]
    BY <1>6 DEF CopySquareRow, Segfault, CheckSquare, worker
  <2>3. i' = i \/ i' = [i EXCEPT ![w] = @ + 1]
    BY <1>6 DEF CopySquareRow, Segfault, CheckSquare, worker
  <2>4. \/ pc' = pc \/ pc' = [pc EXCEPT ![w] = "check"] \/ pc' = [pc EXCEPT ![w] = "square"]
        \/ pc' = [pc EXCEPT ![w] = "col"]
    BY <1>6 DEF CopySquareRow, Segfault, CheckSquare, Goto, worker
  <2>5. col' \in [Workers -> Nat]
    BY <1>1, <1>3, <2>2
  <2>6. i' \in [Workers -> Nat]
    BY <1>1, <1>3, <2>3
  <2>7. pc' \in [Workers -> {"idle", "row", "col", "square", "check", "exit", "done"}]
    BY ONLY <1>1, <2>4
  <2> QED  BY ONLY <1>1, <2>1, <2>5, <2>6, <2>7
<1>7. CASE Ended(w)
  BY <1>1, <1>7 DEF Ended, WritePipe, ReadPipe, Return, Leave, KernelExit, Finish, Goto, worker
<1> QED  BY <1>4, <1>5, <1>6, <1>7, <1>8 DEF Acts, Looks

(* A worker sees letters and, while the grid is copied, what was there.    *)
LEMMA SeenType ==
  ASSUME TypeOK, Sizes, NEW r \in Nat, NEW js \in SUBSET (0 .. input.cols - 1), NEW s \in Seen(r, js)
  PROVE  s \subseteq Letters \cup {Nul}
<1>1. input.rows \in Nat /\ input.cols \in Nat
      /\ \A p \in 0 .. input.rows - 1, c \in 0 .. input.cols - 1 : input.at[p][c] \in Letters
  BY InputFits
<1>2. rowCount \in 0 .. input.rows
  BY DEF TypeOK
<1> DEFINE letters(cs) == {input.at[r][j] : j \in cs}
<1>3. ASSUME r \in 0 .. input.rows - 1, NEW cs \in SUBSET js
      PROVE  letters(cs) \subseteq Letters
  <2> SUFFICES ASSUME NEW j \in cs
               PROVE  input.at[r][j] \in Letters
    OBVIOUS
  <2>1. j \in 0 .. input.cols - 1
    OBVIOUS
  <2> QED  BY ONLY <1>1, <1>3, <2>1
<1>4. CASE r < rowCount
  <2>1. r \in 0 .. input.rows - 1
    BY <1>1, <1>2, <1>4
  <2>2. s = letters(js)
    BY <1>4 DEF Seen
  <2> QED  BY <1>3, <2>1, <2>2
<1>5. CASE ~(r < rowCount) /\ r = rowCount /\ main = "copy"
  <2>1. r \in 0 .. input.rows - 1
    BY <1>1, <1>2, <1>5 DEF Sizes
  <2>2. PICK cs \in SUBSET js : s = letters(cs) \cup (IF cs = js THEN {} ELSE {Nul})
    BY <1>5 DEF Seen
  <2> QED  BY <1>3, <2>1, <2>2
<1>6. CASE ~(r < rowCount) /\ ~(r = rowCount /\ main = "copy")
  BY <1>6 DEF Seen
<1> QED  BY <1>4, <1>5, <1>6

LEMMA WorkerResults ==
  ASSUME NEW w \in Workers, Acts(w), Typed
  PROVE  /\ symbols' \in [Workers -> SUBSET (Letters \cup {Nul})]
         /\ found' \in [Workers -> Nat] /\ total' \in Nat
         /\ crashed' \in BOOLEAN /\ early' \in BOOLEAN /\ scanned' \subseteq Nat \X Nat
<1>0. TypeOK /\ Sizes /\ Fits(w)
  BY DEF Typed
<1>1. /\ symbols \in [Workers -> SUBSET (Letters \cup {Nul})]
      /\ found \in [Workers -> Nat] /\ total \in Nat
      /\ crashed \in BOOLEAN /\ early \in BOOLEAN /\ scanned \subseteq Nat \X Nat
      /\ row[w] \in Nat /\ col[w] \in Nat /\ i[w] \in Nat /\ found[w] \in Nat
  BY <1>0 DEF TypeOK
<1>2. CASE Starts(w)
  BY <1>1, <1>2 DEF Starts, Fork, CallRun, Search, Launch, Begin, result
<1>3. CASE TestRow(w) \/ NextRow(w) \/ Segfault(w)
  BY <1>1, <1>3 DEF TestRow, NextRow, Segfault, worker, result, aux
<1>4. CASE TestCol(w)
  BY <1>1, <1>4 DEF TestCol, result, aux
<1>5. CASE CopySquareRow(w)
  <2>1. PICK s \in Seen(i[w], col[w] .. col[w] + Side - 1) : symbols' = [symbols EXCEPT ![w] = @ \cup s]
    BY <1>5 DEF CopySquareRow
  <2>2. col[w] .. col[w] + Side - 1 \in SUBSET (0 .. input.cols - 1)
    <3>1. col[w] + Side - 1 < input.cols
      BY <1>0, <1>5 DEF CopySquareRow, At, Fits
    <3>2. input.cols \in Nat
      BY <1>0, InputFits
    <3> QED  BY <1>1, <3>1, <3>2
  <2>3. s \subseteq Letters \cup {Nul}
    BY <1>0, <1>1, <2>2, SeenType
  <2>4. symbols' \in [Workers -> SUBSET (Letters \cup {Nul})]
    BY <1>1, <2>1, <2>3
  <2> QED  BY <1>1, <1>5, <2>4 DEF CopySquareRow, result, aux
<1>6. CASE CheckSquare(w)
  <2>1. scanned' = scanned \cup {<<row[w], col[w]>>} /\ symbols' = symbols
        /\ crashed' = crashed /\ early' = early
    BY <1>6 DEF CheckSquare
  <2>2. \/ total' = total /\ found' = found
        \/ total' = total + 1 /\ found' = found
        \/ total' = total /\ found' = [found EXCEPT ![w] = @ + 1]
    BY <1>6 DEF CheckSquare, Count, result
  <2>3. found' \in [Workers -> Nat] /\ total' \in Nat
    BY <1>1, <2>2
  <2>4. scanned' \subseteq Nat \X Nat
    BY <1>1, <2>1
  <2> QED  BY <1>1, <2>1, <2>3, <2>4
<1>7. CASE WritePipe(w) \/ Leave(w) \/ KernelExit(w)
  BY <1>1, <1>7 DEF WritePipe, Leave, KernelExit, Finish, result, aux
<1>8. CASE ReadPipe(w) \/ Return(w)
  BY <1>1, <1>8 DEF ReadPipe, Return, Finish, worker, result, aux
<1> QED  BY <1>2, <1>3, <1>4, <1>5, <1>6, <1>7, <1>8 DEF Acts, Looks, Ended

LEMMA OthersStay ==
  ASSUME NEW w \in Workers, Acts(w), TypeOK, NEW u \in Workers, u # w
  PROVE  i'[u] = i[u] /\ symbols'[u] = symbols[u] /\ found'[u] = found[u]
<1>0. /\ i \in [Workers -> Nat] /\ found \in [Workers -> Nat]
      /\ symbols \in [Workers -> SUBSET (Letters \cup {Nul})]
  BY DEF TypeOK
<1>1. CASE Starts(w)
  BY <1>1 DEF Starts, Fork, CallRun, Search, Launch, Begin, result
<1>2. CASE TestRow(w) \/ TestCol(w) \/ NextRow(w)
  BY <1>0, <1>2 DEF TestRow, TestCol, NextRow, result
<1>3. CASE CopySquareRow(w) \/ Segfault(w) \/ CheckSquare(w)
  BY <1>0, <1>3 DEF CopySquareRow, Segfault, CheckSquare, Count, worker, result
<1>4. CASE Ended(w)
  BY <1>4 DEF Ended, WritePipe, ReadPipe, Return, Leave, KernelExit, Finish, worker, result
<1> QED  BY <1>1, <1>2, <1>3, <1>4 DEF Acts, Looks

LEMMA WorkerFits ==
  ASSUME NEW w \in Workers, Acts(w), Typed, NEW u \in Workers
  PROVE  Fits(u)'
<1>0. TypeOK /\ Fits(u)
  BY DEF Typed
<1>1. Alone(w)
  BY <1>0, WorkerAlone
<1>2. CASE u # w
  <2>1. i'[u] = i[u]
    BY <1>0, <1>2, OthersStay
  <2> QED  BY <1>0, <1>1, <1>2, <2>1 DEF Fits, Inside, Alone, job
<1>3. CASE u = w
  <2>0. /\ pc \in [Workers -> {"idle", "row", "col", "square", "check", "exit", "done"}]
        /\ row[w] \in Nat /\ col[w] \in Nat /\ i \in [Workers -> Nat]
        /\ rows \in {0, input.rows} /\ cols \in {0, input.cols}
        /\ input.rows \in Nat /\ input.cols \in Nat /\ input' = input
    BY <1>0, <1>1, InputFits DEF TypeOK, Alone, job
  <2>1. CASE TestRow(w)
    <3>1. /\ row' = row /\ pc'[w] = (IF row[w] + Side - 1 < rows THEN "col" ELSE "exit")
      BY <2>0, <2>1 DEF TestRow, Goto
    <3>2. row[w] + Side - 1 < rows => row[w] + Side - 1 < input.rows
      BY <2>0
    <3> QED  BY <1>3, <2>0, <3>1, <3>2 DEF Fits, Inside
  <2>2. CASE TestCol(w)
    <3>1. /\ pc[w] = "col" /\ row' = row /\ col' = col /\ i'[w] = row[w]
          /\ col[w] + Side - 1 < cols /\ pc'[w] = "square"
      BY <2>0, <2>2 DEF TestCol, At, Goto
    <3>2. cols = input.cols /\ row[w] \in row[w] .. row[w] + Side - 1
      BY <2>0, <3>1
    <3> QED  BY <1>0, <1>3, <2>0, <3>1, <3>2 DEF Fits, Inside
  <2>3. CASE CopySquareRow(w)
    <3>1. /\ pc[w] = "square" /\ row' = row /\ col' = col /\ i'[w] = i[w] + 1
          /\ pc'[w] = (IF i[w] + 1 = row[w] + Side THEN "check" ELSE "square")
      BY <2>0, <2>3 DEF CopySquareRow, At, Goto
    <3>2. /\ i[w] \in row[w] .. row[w] + Side - 1 /\ col[w] + Side - 1 < input.cols
          /\ row[w] + Side - 1 < input.rows
      BY <1>0, <1>3, <3>1 DEF Fits, Inside
    <3>3. i[w] + 1 # row[w] + Side => i[w] + 1 \in row[w] .. row[w] + Side - 1
      <4> DEFINE a == row[w]
                 b == i[w]
      <4>1. a \in Nat /\ b \in a .. a + Side - 1
        BY <2>0, <3>2
      <4> HIDE DEF a, b
      <4>2. b + 1 # a + Side => b + 1 \in a .. a + Side - 1
        BY <4>1
      <4> QED  BY <4>2 DEF a, b
    <3> QED  BY <1>3, <2>0, <3>1, <3>2, <3>3 DEF Fits, Inside
  <2>4. CASE Segfault(w)
    BY <1>0, <1>3, <2>0, <2>4 DEF Segfault, worker, Fits, Inside
  <2>5. CASE NextRow(w)
    <3>1. pc'[w] \in {"row", "exit"}
      BY <2>0, <2>5 DEF NextRow, Goto
    <3> QED  BY <1>3, <3>1 DEF Fits, Inside
  <2>6. CASE CheckSquare(w)
    <3>1. pc[w] = "check" /\ pc'[w] = "col" /\ row' = row
      BY <2>0, <2>6 DEF CheckSquare, At, Goto
    <3> QED  BY <1>0, <1>3, <2>0, <3>1 DEF Fits, Inside
  <2>7. CASE Starts(w)
    <3>1. pc'[w] = "row"
      BY <1>0, <2>7, StartOf
    <3> QED  BY <1>3, <3>1 DEF Fits, Inside
  <2>8. CASE Ended(w)
    <3>1. pc'[w] = "done"
      BY <1>0, <2>0, <2>8, EndOf
    <3> QED  BY <1>3, <3>1 DEF Fits, Inside
  <2> QED  BY <2>1, <2>2, <2>3, <2>4, <2>5, <2>6, <2>7, <2>8 DEF Acts, Looks
<1> QED  BY <1>2, <1>3

(* It stays the turn of the one who works, until he ends.                  *)
LEMMA WorkerTurn ==
  ASSUME NEW w \in Workers, Acts(w), Typed, NEW u \in Workers, Active(u)'
  PROVE  Turn(u)'
<1>0. TypeOK /\ Alone(w) /\ (Active(u) => Turn(u)) /\ (Active(w) => Turn(w))
  BY WorkerAlone DEF Typed
<1>1. /\ currentRow \in [Workers -> Nat] /\ currentWorker \in Nat /\ searching \in 0 .. 1
      /\ version \in {"processes", "java", "threads", "gpu"}
      /\ version' = version /\ numWorker' = numWorker
  BY <1>0 DEF TypeOK, Alone, job
<1>2. /\ 0 \in Workers /\ Of(w) \in Workers /\ Of(u) \in Workers /\ Of(w)' = Of(w) /\ Of(u)' = Of(u)
      /\ Of(0) = 0 /\ Of(0)' = 0 /\ (version = "threads" => Of(w) = 0)
  BY <1>1, WorkersAre DEF Of
<1>3. CASE Starts(w)
  <2>0. /\ pc[w] = "idle" /\ pc'[w] = "row" /\ currentWorker' = currentWorker
        /\ ~Active(w)
    BY <1>0, <1>3, StartOf DEF Active
  <2>1. CASE version = "gpu"
    <3>1. row'[w] = w
      BY <1>0, <1>3, <2>1, StartOf
    <3> QED  BY <1>0, <1>1, <2>1, <3>1 DEF Active, Turn, Alone
  <2>2. CASE version = "threads"
    <3>1. row'[w] = First(w) /\ currentRow' = currentRow /\ searching = 1 /\ searching' = 0
      BY <1>0, <1>3, <2>2, StartOf
    <3>2. First(w) = First(0)' /\ u = w
      <4>1. First(w) = First(0)'
        BY <1>1, <1>2, <2>0, <2>2, <3>1 DEF First
      <4>2. ~Active(u)
        BY <1>0, <2>2, <3>1 DEF Turn
      <4> QED  BY <1>0, <4>1, <4>2 DEF Active, Alone
    <3>3. \A v \in Workers : Active(v)' => v = w
      <4> SUFFICES ASSUME NEW v \in Workers, Active(v)', v # w
                   PROVE  FALSE
        OBVIOUS
      <4>1. Active(v)
        BY <1>0 DEF Alone, Active
      <4>2. Turn(v)
        BY <4>1 DEF Typed
      <4> QED  BY <2>2, <3>1, <4>2 DEF Turn
    <3> QED  BY <1>1, <2>2, <3>1, <3>2, <3>3 DEF Turn
  <2>3. CASE version \in {"processes", "java"}
    <3>1. w = currentWorker /\ w < numWorker
      BY <1>0, <1>3, <2>3, StartOf
    <3>2. u = w
      <4>1. ~Active(u) \/ u = w
        BY <1>0, <2>3, <3>1 DEF Turn
      <4> QED  BY <1>0, <4>1 DEF Active, Alone
    <3>3. row'[w] = First(w)'
      <4>1. CASE version = "processes"
        <5>1. row'[w] = First(w) /\ currentRow' = currentRow
          BY <1>0, <1>3, <4>1, StartOf
        <5> QED  BY <1>1, <1>2, <2>0, <5>1 DEF First
      <4>2. CASE version = "java"
        <5>1. row'[w] = currentWorker /\ currentRow' = [currentRow EXCEPT ![0] = 0]
          BY <1>0, <1>3, <4>2, StartOf
        <5>2. Of(w) = 0 /\ currentRow'[0] = 0
          BY <1>1, <1>2, <4>2, <5>1 DEF Of
        <5>3. 0 * numWorker = 0
          BY <1>0, InputFits
        <5> QED  BY <1>1, <1>2, <2>0, <5>1, <5>2, <5>3 DEF First
      <4> QED  BY <2>3, <4>1, <4>2
    <3> QED  BY <1>1, <2>0, <2>3, <3>1, <3>2, <3>3 DEF Turn
  <2> QED  BY <1>1, <2>1, <2>2, <2>3
<1>4. CASE Looks(w)
  <2>0. /\ Active(w) /\ currentWorker' = currentWorker /\ searching' = searching
        /\ \A v \in Workers : Active(v)' => Active(v)
    <3>1. Active(w) /\ currentWorker' = currentWorker /\ searching' = searching
      BY <1>0, <1>4, LookOf DEF Active
    <3> QED  BY <1>0, <3>1 DEF Active, Alone
  <2>1. Turn(u) /\ Turn(w)
    BY <1>0, <2>0
  <2>2. CASE version = "gpu"
    <3>1. row' = row
      BY <1>0, <1>4, <2>2, LookOf
    <3> QED  BY <1>1, <2>1, <2>2, <3>1 DEF Turn
  <2>3. CASE version # "gpu"
    <3>1. u = w
      BY <2>0, <2>1, <2>3 DEF Turn
    <3>2. row[w] = First(w)
      BY <1>2, <2>1, <2>3 DEF Turn, First
    <3>3. row'[w] = First(w)'
      <4>1. CASE row' = row /\ currentRow' = currentRow
        BY <1>1, <1>2, <2>0, <3>2, <4>1 DEF First
      <4>2. CASE /\ row'[w] = currentWorker + (currentRow[Of(w)] + 1) * numWorker
                 /\ currentRow' = [currentRow EXCEPT ![Of(w)] = @ + 1]
        <5>1. currentRow'[Of(w)] = currentRow[Of(w)] + 1
          BY <1>1, <1>2, <4>2
        <5> QED  BY <1>1, <1>2, <2>0, <4>2, <5>1 DEF First
      <4> QED  BY <1>0, <1>4, <2>3, <4>1, <4>2, LookOf
    <3>4. version = "threads" => First(w)' = First(0)'
      BY <1>1, <1>2 DEF First
    <3> QED  BY <1>1, <2>0, <2>1, <2>3, <3>1, <3>3, <3>4 DEF Turn
  <2> QED  BY <2>2, <2>3
<1>5. CASE Ended(w)
  <2>0. row' = row /\ currentRow' = currentRow
    BY <1>0, <1>5, EndOf
  <2>1. ~Active(w)'
    BY <1>0, <1>5, EndOf DEF Active
  <2>2. u # w /\ Active(u)
    BY <1>0, <2>1 DEF Active, Alone
  <2>3. Turn(u)
    BY <1>0, <2>2
  <2>4. CASE version = "gpu"
    BY <1>1, <2>0, <2>3, <2>4 DEF Turn
  <2>5. CASE version = "processes" /\ pc[w] = "exit" /\ currentWorker' = currentWorker
    BY <1>0, <2>2, <2>3, <2>5 DEF Active, Turn
  <2>6. CASE version = "processes" /\ w = currentWorker
    BY <2>2, <2>3, <2>6 DEF Turn
  <2>7. CASE version \in {"java", "threads"} /\ pc[w] = "exit"
    BY <1>0, <2>2, <2>3, <2>7 DEF Active, Turn
  <2> QED  BY <1>0, <1>5, <2>4, <2>5, <2>6, <2>7, EndOf
<1> QED  BY <1>3, <1>4, <1>5 DEF Acts

LEMMA NextTyped == Typed /\ [Next]_vars => Typed'
<1> SUFFICES ASSUME Typed, [Next]_vars
             PROVE  Typed'
  OBVIOUS
<1>0. TypeOK /\ Sizes
  BY DEF Typed
<1>1. CASE MainAlone
  BY <1>1, MainTyped
<1>2. ASSUME NEW w \in Workers, Acts(w)
      PROVE  Typed'
  <2>1. \A u \in Workers : Fits(u)' /\ (Active(u)' => Turn(u)')
    BY <1>2, WorkerFits, WorkerTurn
  <2>2. /\ main' \in {"rows", "cols", "malloc", "copy", "work", "read", "call", "done", "failed"}
        /\ memory' = memory /\ job' = job /\ Sizes'
    BY <1>0, <1>2, WorkerMain
  <2>3. currentWorker' \in Nat /\ currentRow' \in [Workers -> Nat] /\ searching' \in 0 .. 1
    BY <1>2, WorkerCounters
  <2>4. /\ pc' \in [Workers -> {"idle", "row", "col", "square", "check", "exit", "done"}]
        /\ row' \in [Workers -> Nat] /\ col' \in [Workers -> Nat] /\ i' \in [Workers -> Nat]
    BY <1>0, <1>2, WorkerPlace
  <2>5. /\ symbols' \in [Workers -> SUBSET (Letters \cup {Nul})]
        /\ found' \in [Workers -> Nat] /\ total' \in Nat
        /\ crashed' \in BOOLEAN /\ early' \in BOOLEAN /\ scanned' \subseteq Nat \X Nat
    BY <1>2, WorkerResults
  <2>6. TypeOK'
    BY <1>0, <2>2, <2>3, <2>4, <2>5 DEF TypeOK, job, memory
  <2> QED  BY <2>1, <2>2, <2>6 DEF Typed
<1>3. CASE UNCHANGED vars
  BY <1>3 DEF Typed, TypeOK, Sizes, Fits, Inside, Active, Turn, First, Of,
     vars, job, memory, shared, worker, result, aux
<1> QED  BY <1>1, <1>2, <1>3, Steps

LEMMA AlwaysTyped == Spec => []Typed
BY InitTyped, NextTyped, PTL DEF Spec

(* The variables keep their types and `searching' stays a binary           *)
(* semaphore, for any grid and any number of workers.                      *)
THEOREM TypeCorrect == Spec => []TypeOK
<1>1. Typed => TypeOK
  BY DEF Typed
<1> QED  BY <1>1, AlwaysTyped, PTL

-----------------------------------------------------------------------------
(* What has been looked at lies behind the workers *)

(* Each worker of the GPU has a row of its own. *)
BehindRow(s) == s[1] \in Workers /\ pc[s[1]] \notin {"idle", "row"} /\ s[2] < col[s[1]]

(* The threads go on from row to row: none begins before the last one's.   *)
BehindLast(s) ==
  \/ s[1] < First(0)
  \/ \E w \in Workers : Inside(w) /\ s[1] = row[w] /\ s[2] < col[w]

(* A child, or a call of run(), has the k-th row of worker v behind it.    *)
Passed(v, k, c) ==
  \/ v < currentWorker
  \/ /\ v = currentWorker
     /\ \/ pc[v] = "done"
        \/ Active(v) /\ k < currentRow[Of(v)]
        \/ Inside(v) /\ k = currentRow[Of(v)] /\ c < col[v]

BehindTurn(s) ==
  \E v \in 0 .. numWorker - 1, k \in Nat : s[1] = v + k * numWorker /\ Passed(v, k, s[2])

BehindOf(s) ==
  /\ version = "gpu" => BehindRow(s)
  /\ version = "threads" => BehindLast(s)
  /\ version \in {"processes", "java"} => BehindTurn(s)

Behind == \A s \in scanned : BehindOf(s)

(* The square that a worker checks is not behind it.                       *)
LEMMA NotBehind ==
  ASSUME Typed, NEW w \in Workers, pc[w] = "check"
  PROVE  ~BehindOf(<<row[w], col[w]>>)
<1> DEFINE s == <<row[w], col[w]>>
<1>0. TypeOK /\ Turn(w) /\ Active(w)
  BY DEF Typed, Active
<1>1. /\ row[w] \in Nat /\ col[w] \in Nat /\ version \in {"processes", "java", "threads", "gpu"}
      /\ currentWorker \in Nat
  BY <1>0 DEF TypeOK
<1>2. s[1] = row[w] /\ s[2] = col[w]
  OBVIOUS
<1> HIDE DEF s
<1>3. CASE version = "gpu"
  BY <1>0, <1>1, <1>2, <1>3 DEF Turn, BehindRow, BehindOf, s
<1>4. CASE version = "threads"
  <2>1. row[w] = First(0) /\ \A u \in Workers : Active(u) => u = w
    BY <1>0, <1>4 DEF Turn
  <2>2. ~(s[1] < First(0))
    BY <1>1, <1>2, <2>1
  <2>3. ASSUME NEW u \in Workers, Inside(u), s[1] = row[u], s[2] < col[u]
        PROVE  FALSE
    <3>1. u = w
      BY <2>1, <2>3 DEF Inside, Active
    <3> QED  BY <1>1, <1>2, <2>3, <3>1
  <2> QED  BY <1>4, <2>2, <2>3 DEF BehindLast, BehindOf, s
<1>5. CASE version \in {"processes", "java"}
  <2>1. w = currentWorker /\ w < numWorker /\ row[w] = w + currentRow[Of(w)] * numWorker
    BY <1>0, <1>5 DEF Turn, First
  <2>2. numWorker \in Nat \ {0} /\ w \in 0 .. numWorker - 1 /\ currentRow[Of(w)] \in Nat
    BY <1>0, <2>1, InputFits, FirstType, WorkersAre
  <2>3. ASSUME NEW v \in 0 .. numWorker - 1, NEW k \in Nat, s[1] = v + k * numWorker, Passed(v, k, s[2])
        PROVE  FALSE
    <3>1. v + k * numWorker = w + currentRow[Of(w)] * numWorker
      BY <1>2, <2>1, <2>3
    <3>2. k = currentRow[Of(w)] /\ v = w
      <4> DEFINE m == currentRow[Of(w)]
      <4>1. m \in Nat /\ v + k * numWorker = w + m * numWorker
        BY <2>2, <3>1
      <4>3. numWorker \in Nat \ {0} /\ w \in 0 .. numWorker - 1
        BY <2>2
      <4> HIDE DEF m
      <4>2. k = m /\ v = w
        <5>1. k \in Nat /\ v \in 0 .. numWorker - 1
          BY <2>3
        <5> QED  BY ONLY <4>1, <4>3, <5>1, RowsDivided
      <4> QED  BY <4>2 DEF m
    <3> QED  BY <1>1, <1>2, <2>1, <2>2, <2>3, <3>2 DEF Passed
  <2> QED  BY <1>5, <2>3 DEF BehindTurn, BehindOf, s
<1> QED  BY <1>1, <1>3, <1>4, <1>5

LEMMA InitBehind == Init => Behind
BY DEF Init, Behind

(* What is behind the workers stays there: one lemma per way to divide the *)
(* rows.                                                                   *)
LEMMA StaysBehindRow ==
  ASSUME Typed, NEW w \in Workers, Acts(w), version = "gpu", NEW s \in Nat \X Nat, BehindRow(s)
  PROVE  BehindRow(s)'
<1>0. TypeOK /\ Alone(w)
  BY WorkerAlone DEF Typed
<1>1. s[2] \in Nat /\ col[w] \in Nat
  BY <1>0 DEF TypeOK
<1>2. CASE s[1] # w
  BY <1>0, <1>2 DEF BehindRow, Alone
<1>3. CASE s[1] = w
  <2>1. pc[w] \notin {"idle", "row"} /\ s[2] < col[w]
    BY <1>3 DEF BehindRow
  <2>2. ~Starts(w)
    BY <1>0, <2>1, StartOf
  <2>3. CASE Looks(w)
    <3>1. pc'[w] \notin {"idle", "row"} /\ (col'[w] = col[w] \/ col'[w] = col[w] + 1)
      BY <1>0, <2>1, <2>3, LookOf
    <3> QED  BY <1>1, <1>3, <2>1, <3>1 DEF BehindRow
  <2>4. CASE Ended(w)
    <3>1. pc'[w] \notin {"idle", "row"} /\ col' = col
      BY <1>0, <2>1, <2>4, EndOf
    <3> QED  BY <1>3, <2>1, <3>1 DEF BehindRow
  <2> QED  BY <2>2, <2>3, <2>4 DEF Acts
<1> QED  BY <1>2, <1>3

LEMMA StaysBehindLast ==
  ASSUME Typed, NEW w \in Workers, Acts(w), version = "threads", NEW s \in Nat \X Nat, BehindLast(s)
  PROVE  BehindLast(s)'
<1>0. TypeOK /\ Alone(w) /\ (Active(w) => Turn(w))
  BY WorkerAlone DEF Typed
<1>1. /\ s[1] \in Nat /\ s[2] \in Nat /\ col[w] \in Nat /\ row[w] \in Nat
      /\ currentRow \in [Workers -> Nat] /\ currentWorker \in Nat
      /\ 0 \in Workers /\ version' = version /\ numWorker' = numWorker
  BY <1>0, WorkersAre DEF TypeOK, Alone, job
<1>2. /\ numWorker \in Nat \ {0} /\ First(0) = currentWorker + currentRow[0] * numWorker
      /\ First(0)' = currentWorker' + currentRow'[0] * numWorker
      /\ currentRow[0] \in Nat /\ currentRow[0] * numWorker \in Nat /\ Of(w) = 0
  <2>1. numWorker \in Nat \ {0}
    BY <1>0, InputFits DEF Typed, Sizes
  <2>2. currentRow[0] * numWorker \in Nat /\ currentRow[0] \in Nat
    BY <1>1, <2>1, Times
  <2> QED  BY <1>1, <2>1, <2>2 DEF First, Of
<1>3. CASE Starts(w)
  <2>1. /\ ~Active(w) /\ currentWorker' = currentWorker /\ currentRow' = currentRow
        /\ searching = 1
    BY <1>0, <1>3, StartOf DEF Active
  <2>2. \A u \in Workers : ~Inside(u)
    <3> SUFFICES ASSUME NEW u \in Workers, Inside(u) PROVE FALSE
      OBVIOUS
    <3>1. Turn(u)
      BY DEF Typed, Inside, Active
    <3> QED  BY <2>1, <3>1 DEF Turn
  <2> QED  BY <1>2, <2>1, <2>2 DEF BehindLast
<1>4. CASE Looks(w)
  <2>0. Active(w) /\ currentWorker' = currentWorker
    BY <1>0, <1>4, LookOf DEF Active
  <2>1. row[w] = First(0) /\ \A u \in Workers : Active(u) => u = w
    BY <1>0, <2>0 DEF Turn
  <2>2. s[1] < First(0) \/ (Inside(w) /\ s[1] = row[w] /\ s[2] < col[w])
    BY <2>1 DEF BehindLast, Inside, Active
  <2>3. CASE currentRow' = currentRow
    <3>1. First(0)' = First(0)
      BY <1>2, <2>0, <2>3
    <3>2. Inside(w) => Inside(w)' /\ row'[w] = row[w] /\ (col'[w] = col[w] \/ col'[w] = col[w] + 1)
      <4>1. currentRow[0] # currentRow[0] + 1
        BY <1>2
      <4>2. currentRow' # [currentRow EXCEPT ![Of(w)] = @ + 1]
        BY <1>1, <1>2, <2>3, <4>1
      <4> QED  BY <1>0, <1>4, <4>2, LookOf DEF Inside
    <3> QED  BY <1>1, <2>2, <3>1, <3>2 DEF BehindLast
  <2>4. CASE currentRow' = [currentRow EXCEPT ![Of(w)] = @ + 1]
    <3>1. currentRow'[0] = currentRow[0] + 1
      BY <1>1, <1>2, <2>4
    <3>2. First(0)' = First(0) + numWorker
      <4>1. (currentRow[0] + 1) * numWorker = currentRow[0] * numWorker + numWorker
        BY <1>2
      <4> QED  BY <1>1, <1>2, <2>0, <3>1, <4>1
    <3>3. s[1] < First(0)'
      <4>1. First(0) \in Nat /\ s[1] <= First(0)
        BY <1>1, <1>2, <2>1, <2>2
      <4>2. s[1] \in Nat /\ numWorker \in Nat \ {0}
        BY <1>1, <1>2
      <4>3. s[1] < First(0) + numWorker
        BY ONLY <4>1, <4>2
      <4> QED  BY ONLY <3>2, <4>3
    <3> QED  BY <3>3 DEF BehindLast
  <2> QED  BY <1>0, <1>4, <2>3, <2>4, LookOf
<1>5. CASE Ended(w)
  <2>1. pc[w] = "exit" /\ currentWorker' = currentWorker + 1 /\ currentRow' = currentRow
    BY <1>0, <1>5, EndOf
  <2>2. \A u \in Workers : ~Inside(u)
    BY <1>0, <2>1 DEF Turn, Inside, Active
  <2>3. s[1] < First(0)
    BY <2>2 DEF BehindLast
  <2>4. s[1] < First(0)'
    BY <1>1, <1>2, <2>1, <2>3
  <2> QED  BY <2>4 DEF BehindLast
<1> QED  BY <1>3, <1>4, <1>5 DEF Acts

LEMMA StaysBehindTurn ==
  ASSUME Typed, NEW w \in Workers, Acts(w), version \in {"processes", "java"},
         NEW s \in Nat \X Nat, BehindTurn(s)
  PROVE  BehindTurn(s)'
<1>0. TypeOK /\ Alone(w) /\ (Active(w) => Turn(w))
  BY WorkerAlone DEF Typed
<1>1. /\ s[2] \in Nat /\ col[w] \in Nat
      /\ currentRow \in [Workers -> Nat] /\ currentWorker \in Nat
      /\ version' = version /\ numWorker' = numWorker
  BY <1>0 DEF TypeOK, Alone, job
<1>2. PICK v \in 0 .. numWorker - 1, k \in Nat : s[1] = v + k * numWorker /\ Passed(v, k, s[2])
  BY DEF BehindTurn
<1>3. numWorker \in Nat /\ v \in Nat /\ v \in Workers
  <2>1. numWorker \in Nat /\ numWorker <= MaxWorkers
    BY <1>0, InputFits
  <2> QED  BY <2>1, WorkersAre
<1>4. Of(v)' = Of(v) /\ Of(w)' = Of(w) /\ Of(w) \in Workers /\ currentRow[Of(w)] \in Nat
  BY <1>0, <1>1, FirstType DEF Of
<1>5. Passed(v, k, s[2])'
  <2>1. CASE Starts(w)
    <3>1. /\ pc[w] = "idle" /\ w = currentWorker /\ currentWorker' = currentWorker
      BY <1>0, <1>1, <2>1, StartOf
    <3>2. v < currentWorker
      BY <1>2, <3>1 DEF Passed, Active, Inside
    <3> QED  BY <3>1, <3>2 DEF Passed
  <2>2. CASE Looks(w)
    <3>1. Active(w) /\ currentWorker' = currentWorker
      BY <1>0, <2>2, LookOf DEF Active
    <3>2. w = currentWorker
      BY <1>0, <3>1 DEF Turn
    <3>3. CASE v < currentWorker
      BY <3>1, <3>3 DEF Passed
    <3>4. CASE v = w
      <4>0. pc[w] # "done"
        BY <3>1 DEF Active
      <4>1. k < currentRow[Of(w)] \/ (Inside(w) /\ k = currentRow[Of(w)] /\ s[2] < col[w])
        BY <1>2, <1>3, <3>2, <3>4, <4>0 DEF Passed
      <4>2. Active(w)'
        BY <1>0, <2>2, LookOf DEF Active
      <4>3. CASE currentRow' = [currentRow EXCEPT ![Of(w)] = @ + 1]
        <5>1. currentRow'[Of(w)] = currentRow[Of(w)] + 1
          BY <1>1, <1>4, <4>3
        <5>2. k < currentRow'[Of(w)]
          BY <1>4, <4>1, <5>1
        <5> QED  BY <1>4, <3>1, <3>2, <3>4, <4>2, <5>2 DEF Passed
      <4>4. CASE currentRow' = currentRow
        <5>1. Inside(w) => Inside(w)' /\ (col'[w] = col[w] \/ col'[w] = col[w] + 1)
          <6>1. version # "gpu" /\ currentRow[Of(w)] # currentRow[Of(w)] + 1
            BY <1>4
          <6>2. currentRow' # [currentRow EXCEPT ![Of(w)] = @ + 1]
            BY <1>1, <1>4, <4>4, <6>1
          <6> QED  BY <1>0, <2>2, <6>1, <6>2, LookOf DEF Inside
        <5> QED  BY <1>1, <1>4, <3>1, <3>2, <3>4, <4>1, <4>2, <4>4, <5>1 DEF Passed
      <4> QED  BY <1>0, <2>2, <4>3, <4>4, LookOf
    <3> QED  BY <1>2, <3>2, <3>3, <3>4 DEF Passed
  <2>3. CASE Ended(w)
    <3>0. version # "gpu" /\ version # "threads"
      OBVIOUS
    <3>1. \/ pc[w] = "exit" /\ pc'[w] = "done" /\ w = currentWorker
             /\ currentWorker' \in {currentWorker, currentWorker + 1}
          \/ pc[w] = "done" /\ w = currentWorker /\ currentWorker' = currentWorker + 1
      BY <1>0, <2>3, <3>0, EndOf DEF Active, Turn
    <3>2. v <= currentWorker
      BY <1>1, <1>2, <1>3 DEF Passed
    <3>3. CASE v < currentWorker \/ currentWorker' = currentWorker + 1
      <4>1. v < currentWorker'
        BY <1>1, <1>3, <3>1, <3>2, <3>3
      <4> QED  BY <4>1 DEF Passed
    <3>4. CASE v = currentWorker /\ currentWorker' = currentWorker
      <4>1. pc'[v] = "done"
        BY <1>1, <3>1, <3>4
      <4> QED  BY <3>4, <4>1 DEF Passed
    <3> QED  BY <1>1, <1>3, <3>1, <3>2, <3>3, <3>4
  <2> QED  BY <2>1, <2>2, <2>3 DEF Acts
<1> QED  BY <1>1, <1>2, <1>5 DEF BehindTurn

(* The square that was checked is behind the worker.                       *)
LEMMA CheckedIsBehind ==
  ASSUME Typed, NEW w \in Workers, pc[w] = "check", pc'[w] = "col", Alone(w),
         row' = row, currentRow' = currentRow, currentWorker' = currentWorker,
         col'[w] = col[w] + 1, NEW s, s[1] = row[w], s[2] = col[w]
  PROVE  BehindOf(s)'
<1>0. TypeOK /\ Turn(w) /\ Active(w)' /\ Inside(w)'
  BY DEF Typed, Active, Inside
<1>1. /\ row[w] \in Nat /\ col[w] \in Nat /\ version' = version /\ numWorker' = numWorker
      /\ version \in {"processes", "java", "threads", "gpu"}
  BY <1>0 DEF TypeOK, Alone, job
<1>2. s[1] = row[w] /\ s[2] = col[w] /\ col[w] < col'[w]
  BY <1>1
<1>3. CASE version = "gpu"
  <2>1. s[1] = w
    BY <1>0, <1>2, <1>3 DEF Turn
  <2>2. BehindRow(s)'
    BY <1>2, <2>1 DEF BehindRow
  <2> QED  BY <1>1, <1>3, <2>2 DEF BehindOf
<1>4. CASE version = "threads"
  <2>1. BehindLast(s)'
    BY <1>0, <1>2 DEF BehindLast
  <2> QED  BY <1>1, <1>4, <2>1 DEF BehindOf
<1>5. CASE version \in {"processes", "java"}
  <2>1. w = currentWorker /\ w < numWorker /\ row[w] = w + currentRow[Of(w)] * numWorker
    BY <1>0, <1>5 DEF Turn, First
  <2>2. numWorker \in Nat \ {0} /\ w \in 0 .. numWorker - 1 /\ currentRow[Of(w)] \in Nat
    BY <1>0, <2>1, InputFits, FirstType, WorkersAre
  <2>3. Of(w)' = Of(w)
    BY <1>1 DEF Of
  <2>4. ASSUME NEW k \in Nat, k = currentRow[Of(w)]
        PROVE  Passed(w, k, s[2])'
    BY <1>0, <1>2, <2>1, <2>3, <2>4 DEF Passed
  <2>5. BehindTurn(s)'
    BY <1>1, <1>2, <2>1, <2>2, <2>4 DEF BehindTurn
  <2> QED  BY <1>1, <1>5, <2>5 DEF BehindOf
<1> QED  BY <1>1, <1>3, <1>4, <1>5

LEMMA NextBehind == Typed /\ Behind /\ [Next]_vars => Behind'
<1> SUFFICES ASSUME Typed, Behind, [Next]_vars
             PROVE  Behind'
  OBVIOUS
<1>0. TypeOK /\ scanned \subseteq Nat \X Nat
  BY DEF Typed, TypeOK
<1>1. CASE MainAlone
  <2>1. /\ worker' = worker /\ job' = job /\ currentRow' = currentRow /\ scanned' = scanned
        /\ version # "gpu" => currentWorker' = currentWorker
    BY <1>1 DEF MainAlone, ReadRows, ReadCols, RefuseGrid, Malloc, CopyRow, LaunchFails,
       AddCell, PrintTotal,
       worker, job, shared, aux
  <2>2. ASSUME NEW s, BehindOf(s)
        PROVE  BehindOf(s)'
    BY <2>1, <2>2 DEF BehindOf, BehindRow, BehindLast, BehindTurn, Passed, Active, Inside, First, Of,
       worker, job
  <2> QED  BY <2>1, <2>2 DEF Behind
<1>2. ASSUME NEW w \in Workers, Acts(w)
      PROVE  Behind'
  <2>0. Alone(w) /\ version' = version
    BY <1>0, <1>2, WorkerAlone DEF Alone, job
  <2>1. ASSUME NEW s \in scanned
        PROVE  BehindOf(s)'
    <3>1. s \in Nat \X Nat /\ BehindOf(s)
      BY <1>0 DEF Behind
    <3>2. version = "gpu" => BehindRow(s)'
      BY <1>2, <3>1, StaysBehindRow DEF BehindOf
    <3>3. version = "threads" => BehindLast(s)'
      BY <1>2, <3>1, StaysBehindLast DEF BehindOf
    <3>4. version \in {"processes", "java"} => BehindTurn(s)'
      BY <1>2, <3>1, StaysBehindTurn DEF BehindOf
    <3> QED  BY <2>0, <3>2, <3>3, <3>4 DEF BehindOf
  <2>2. CASE scanned' = scanned
    BY <2>1, <2>2 DEF Behind
  <2>3. CASE scanned' # scanned
    <3>1. Looks(w)
      <4>1. Starts(w) => scanned' = scanned
        BY <1>0, StartOf
      <4>2. Ended(w) => scanned' = scanned
        BY <1>0, EndOf DEF aux
      <4> QED  BY <1>2, <2>3, <4>1, <4>2 DEF Acts
    <3>2. /\ pc[w] = "check" /\ pc'[w] = "col" /\ row' = row /\ currentRow' = currentRow
          /\ col'[w] = col[w] + 1 /\ scanned' = scanned \cup {<<row[w], col[w]>>}
          /\ currentWorker' = currentWorker
      BY <1>0, <2>3, <3>1, LookOf
    <3>3. ASSUME NEW s, s = <<row[w], col[w]>>
          PROVE  BehindOf(s)'
      <4>1. s[1] = row[w] /\ s[2] = col[w]
        BY <3>3
      <4> QED  BY <2>0, <3>2, <4>1, CheckedIsBehind
    <3> QED  BY <2>1, <3>2, <3>3 DEF Behind
  <2> QED  BY <2>2, <2>3
<1>3. CASE UNCHANGED vars
  BY <1>3 DEF Behind, BehindOf, BehindRow, BehindLast, BehindTurn, Passed, Active, Inside, First, Of,
     vars, job, shared, worker, aux
<1> QED  BY <1>1, <1>2, <1>3, Steps

LEMMA AlwaysBehind == Spec => []Behind
BY InitBehind, NextBehind, AlwaysTyped, PTL DEF Spec

(* No square is looked at twice, however the workers of the four programs  *)
(* divide the rows, for any grid and any number of workers, even by the    *)
(* threads that meet a grid which is half read.                            *)
THEOREM NoSquareTwice == Spec => NeverTwice
<1>1. ASSUME Typed, Behind
      PROVE  \A w \in Workers :
               (pc[w] = "check" /\ pc'[w] # "check") => <<row[w], col[w]>> \notin scanned
  BY <1>1, NotBehind DEF Behind
<1> QED  BY <1>1, AlwaysTyped, AlwaysBehind, PTL DEF NeverTwice

-----------------------------------------------------------------------------
(* Rows in steps of n *)

LEMMA Split ==
  ASSUME NEW a \in Nat, NEW n \in Nat \ {0}
  PROVE  a \div n \in Nat /\ a % n \in 0 .. n - 1 /\ a = (a % n) + (a \div n) * n
<1>1. a \div n \in Nat /\ a % n \in 0 .. n - 1
  BY Divided
<1>2. a = (a \div n) * n + (a % n)
  <2>1. a \in Int /\ n \in Nat /\ n > 0
    OBVIOUS
  <2> QED  BY <2>1
<1>3. (a \div n) * n \in Nat
  BY <1>1, Times
<1> QED  BY <1>1, <1>2, <1>3

LEMMA Remainder ==
  ASSUME NEW n \in Nat \ {0}, NEW v \in 0 .. n - 1, NEW k \in Nat
  PROVE  (v + k * n) % n = v
<1>1. PICK a \in Nat : a = v + k * n
  <2>1. k * n \in Nat
    BY Times
  <2> QED  BY <2>1
<1>2. a \div n \in Nat /\ a % n \in 0 .. n - 1 /\ a = (a % n) + (a \div n) * n
  BY Split
<1>3. a % n = v
  <2> DEFINE q == a \div n
             r == a % n
  <2>1. q \in Nat /\ r \in 0 .. n - 1 /\ r + q * n = v + k * n
    BY <1>1, <1>2
  <2> HIDE DEF q, r
  <2>2. r = v
    BY <2>1, RowsDivided
  <2> QED  BY <2>2 DEF r
<1> QED  BY <1>1, <1>3

(* Between a row and n rows later nobody else in its class is met.         *)
LEMMA NoRowBetween ==
  ASSUME NEW n \in Nat \ {0}, NEW v \in 0 .. n - 1, NEW k \in Nat, NEW a \in Nat,
         a % n = v, a < v + k * n + n
  PROVE  a <= v + k * n
<1> DEFINE m == a \div n
<1>1. m \in Nat /\ a = v + m * n
  BY Split
<1> HIDE DEF m
<1>2. k * n \in Nat /\ m * n \in Nat
  BY <1>1, Times
<1>3. ~(k < m)
  <2> SUFFICES ASSUME k < m PROVE FALSE
    OBVIOUS
  <2>1. k * n + n <= m * n
    BY <1>1, RoundsLater
  <2> QED  BY <1>1, <1>2, <2>1
<1>4. CASE m < k
  <2>1. m * n + n <= k * n
    BY <1>1, <1>4, RoundsLater
  <2> QED  BY <1>1, <1>2, <2>1
<1>5. CASE m = k
  BY <1>1, <1>2, <1>5
<1> QED  BY <1>1, <1>3, <1>4, <1>5

-----------------------------------------------------------------------------
(* When no worker began before the grid was there *)

Working == {"work", "read", "call", "done"}

(* The kernel threads that the host launches.                              *)
Launched == Blocks(input.rows) * ThreadsPerBlock

GridRead ==
  /\ main \in {"malloc", "copy"} => cols = input.cols
  /\ main \in Working => rows = input.rows /\ cols = input.cols /\ rowCount = input.rows

AtEnd ==
  main = "done" =>
    /\ version \in {"processes", "java"} => currentWorker = numWorker
    /\ version = "threads" => \A w \in 0 .. numWorker - 1 : pc[w] = "done"
    /\ version = "gpu" => /\ currentWorker = input.rows
                          /\ \A w \in Workers : w < Launched => pc[w] = "done"

SymbolsOf(r, q, c) == {input.at[x[1]][x[2]] : x \in (r .. q - 1) \X (c .. c + Side - 1)}

(* What a worker knows of its square.                                      *)
Copied(w) == symbols[w] = SymbolsOf(row[w], i[w], col[w])

Looking(w) ==
  /\ pc[w] # "idle" => main \in Working \cup {"failed"}
  /\ Inside(w) => row[w] + Side - 1 < input.rows
  /\ pc[w] = "square" => i[w] \in row[w] .. row[w] + Side - 1 /\ Copied(w)
  /\ pc[w] = "check"  => i[w] = row[w] + Side /\ Copied(w) /\ col[w] + Side - 1 < input.cols
  /\ pc[w] = "exit" /\ version # "gpu" => row[w] + Side - 1 >= input.rows

GridKnown == GridRead /\ (~early => \A w \in Workers : Looking(w))

(* How a worker moves main(), and what it leaves alone.                    *)
LEMMA MainOf ==
  ASSUME NEW w \in Workers, Acts(w)
  PROVE  /\ memory' = memory /\ job' = job /\ main # "failed"
         /\ \/ main' = main
            \/ main \in Working \ {"done"} /\ main' \in Working \ {"done"}
<1>1. CASE Starts(w)
  BY <1>1 DEF Starts, Fork, CallRun, Search, Launch, Begin, At, Main, Working
<1>2. CASE Looks(w)
  BY <1>2 DEF Looks, TestRow, TestCol, NextRow, CopySquareRow, Segfault, CheckSquare, At
<1>3. CASE Ended(w)
  BY <1>3 DEF Ended, WritePipe, ReadPipe, Return, Leave, KernelExit, Finish, At, Main, Working
<1> QED  BY <1>1, <1>2, <1>3 DEF Acts

LEMMA InitGridKnown == Init => GridKnown
BY DEF Init, GridKnown, GridRead, Looking, Inside, Working

LEMMA NextGridRead ==
  ASSUME Typed, GridRead, [Next]_vars
  PROVE  GridRead'
<1>0. TypeOK /\ Sizes
  BY DEF Typed
<1>1. CASE MainAlone
  <2>0. input' = input /\ input.rows \in Nat
    BY <1>0, <1>1, InputFits DEF MainAlone, ReadRows, ReadCols, RefuseGrid, Malloc, CopyRow,
       LaunchFails, AddCell, PrintTotal, job
  <2>1. CASE ReadRows
    BY <2>0, <2>1 DEF ReadRows, Main, GridRead, Working
  <2>2. CASE ReadCols
    BY <2>0, <2>2 DEF ReadCols, Main, GridRead, Working
  <2>3. CASE Malloc
    BY <1>0, <2>0, <2>3 DEF Malloc, Main, GridRead, Working, Sizes
  <2>4. CASE CopyRow
    BY <1>0, <2>0, <2>4 DEF CopyRow, Main, GridRead, Working, Sizes
  <2>5. CASE AddCell \/ PrintTotal \/ RefuseGrid \/ LaunchFails
    BY <2>0, <2>5 DEF AddCell, PrintTotal, RefuseGrid, LaunchFails, Main, memory, GridRead, Working
  <2> QED  BY <1>1, <2>1, <2>2, <2>3, <2>4, <2>5 DEF MainAlone
<1>2. ASSUME NEW w \in Workers, Acts(w)
      PROVE  GridRead'
  <2>1. /\ memory' = memory /\ job' = job
        /\ main' = main \/ (main \in Working /\ main' \in Working)
    BY <1>2, MainOf
  <2> QED  BY <2>1 DEF GridRead, Working, memory, job
<1>3. CASE UNCHANGED vars
  BY <1>3 DEF vars, memory, job, GridRead
<1> QED  BY <1>1, <1>2, <1>3, Steps

(* A grid that is read, for a worker that began in time.                   *)
LEMMA WholeGrid ==
  ASSUME TypeOK, GridKnown, ~early, NEW w \in Workers, pc[w] # "idle", main # "failed"
  PROVE  /\ main \in Working /\ rows = input.rows /\ cols = input.cols
         /\ rowCount = input.rows
BY DEF GridKnown, GridRead, Looking

LEMMA SymbolsGrow ==
  ASSUME NEW r \in Nat, NEW q \in Nat, r <= q, NEW c
  PROVE  SymbolsOf(r, q + 1, c) = SymbolsOf(r, q, c) \cup {input.at[q][j] : j \in c .. c + Side - 1}
<1> DEFINE R == r .. q - 1
           J == c .. c + Side - 1
           A == input.at
<1>1. r .. (q + 1) - 1 = R \cup {q}
  OBVIOUS
<1>2. /\ SymbolsOf(r, q + 1, c) = {A[x[1]][x[2]] : x \in (R \cup {q}) \X J}
      /\ SymbolsOf(r, q, c) = {A[x[1]][x[2]] : x \in R \X J}
  BY <1>1 DEF SymbolsOf
<1> HIDE DEF R, J, A
<1>3. ASSUME NEW x \in (R \cup {q}) \X J
      PROVE  A[x[1]][x[2]] \in {A[y[1]][y[2]] : y \in R \X J} \cup {A[q][j] : j \in J}
  <2>1. CASE x[1] \in R
    <3>1. x \in R \X J
      BY <2>1
    <3> QED  BY <3>1
  <2>2. CASE x[1] = q
    <3>1. x[2] \in J
      OBVIOUS
    <3> QED  BY <2>2, <3>1
  <2> QED  BY <2>1, <2>2
<1>4. ASSUME NEW y \in R \X J
      PROVE  A[y[1]][y[2]] \in {A[x[1]][x[2]] : x \in (R \cup {q}) \X J}
  <2>1. y \in (R \cup {q}) \X J
    OBVIOUS
  <2> QED  BY <2>1
<1>5. ASSUME NEW j \in J
      PROVE  A[q][j] \in {A[x[1]][x[2]] : x \in (R \cup {q}) \X J}
  <2>1. <<q, j>> \in (R \cup {q}) \X J /\ <<q, j>>[1] = q /\ <<q, j>>[2] = j
    OBVIOUS
  <2> QED  BY <2>1
<1>6. {A[x[1]][x[2]] : x \in (R \cup {q}) \X J}
        = {A[x[1]][x[2]] : x \in R \X J} \cup {A[q][j] : j \in J}
  BY ONLY <1>3, <1>4, <1>5
<1> QED  BY <1>2, <1>6 DEF J, A

LEMMA NextLooking ==
  ASSUME Typed, GridKnown, ~early', NEW w \in Workers, Acts(w)
  PROVE  /\ ~early /\ Looking(w)'
         /\ pc[w] # "check" => scanned' = scanned
<1>0. /\ TypeOK /\ Fits(w) /\ Alone(w)
      /\ memory' = memory /\ job' = job
      /\ main' = main \/ (main \in Working /\ main' \in Working)
      /\ main # "failed" /\ main \in {"rows", "cols", "malloc", "copy"} \cup Working
  BY WorkerAlone, MainOf DEF Typed, TypeOK, Working
<1>1. /\ input.rows \in Nat /\ input.cols \in Nat /\ input' = input
      /\ row[w] \in Nat /\ col[w] \in Nat /\ i[w] \in Nat
      /\ row \in [Workers -> Nat] /\ col \in [Workers -> Nat] /\ i \in [Workers -> Nat]
      /\ symbols \in [Workers -> SUBSET (Letters \cup {Nul})]
      /\ pc \in [Workers -> {"idle", "row", "col", "square", "check", "exit", "done"}]
  BY <1>0, InputFits DEF TypeOK, job
<1>2. CASE Starts(w)
  <2>1. /\ early' = (early \/ main \in {"rows", "cols", "malloc", "copy"})
        /\ pc'[w] = "row"
        /\ scanned' = scanned
    BY <1>0, <1>2, StartOf DEF Starts, Fork, CallRun, Search, Launch, Begin
  <2>2. main \in Working /\ ~early
    BY <1>0, <2>1
  <2> QED  BY <1>0, <2>1, <2>2 DEF Looking, Inside
<1>3. CASE Looks(w)
  <2>0. ~early /\ pc[w] # "idle" /\ main' = main
    BY <1>0, <1>3, LookOf
  <2>1. /\ main \in Working /\ rows = input.rows /\ cols = input.cols
        /\ rowCount = input.rows /\ Looking(w)
    BY <1>0, <2>0, WholeGrid DEF GridKnown
  <2>2. CASE TestRow(w)
    <3>1. /\ pc[w] = "row" /\ row' = row /\ scanned' = scanned
          /\ pc'[w] = (IF row[w] + Side - 1 < rows THEN "col" ELSE "exit")
      BY <1>1, <2>2 DEF TestRow, At, Goto, aux
    <3> QED  BY <1>1, <2>0, <2>1, <3>1 DEF Looking, Inside
  <2>3. CASE TestCol(w)
    <3>1. /\ pc[w] = "col" /\ pc'[w] = "square" /\ row' = row /\ col' = col
          /\ i'[w] = row[w] /\ symbols'[w] = {} /\ scanned' = scanned
      BY <1>1, <2>3 DEF TestCol, At, Goto, aux
    <3>2. SymbolsOf(row[w], row[w], col[w]) = {}
      <4>1. row[w] .. row[w] - 1 = {}
        BY <1>1
      <4> QED  BY <4>1 DEF SymbolsOf
    <3>3. row[w] + Side - 1 < input.rows
      BY <2>1, <3>1 DEF Looking, Inside
    <3>4. row[w] \in row[w] .. row[w] + Side - 1
      BY <1>1
    <3>6. Copied(w)'
      BY <1>1, <3>1, <3>2 DEF Copied, SymbolsOf
    <3> QED  BY <1>1, <2>0, <2>1, <3>1, <3>3, <3>4, <3>6 DEF Looking, Inside
  <2>4. CASE NextRow(w)
    <3>1. pc'[w] \in {"row", "exit"} /\ scanned' = scanned
      BY <1>1, <2>4 DEF NextRow, Goto, aux
    <3>2. pc'[w] = "exit" => version' = "gpu"
      BY <1>0, <1>1, <2>4 DEF NextRow, Goto, job
    <3> QED  BY <2>0, <2>1, <3>1, <3>2 DEF Looking, Inside
  <2>5. CASE CopySquareRow(w)
    <3>1. /\ pc[w] = "square" /\ row' = row /\ col' = col /\ i'[w] = i[w] + 1
          /\ pc'[w] = (IF i[w] + 1 = row[w] + Side THEN "check" ELSE "square")
          /\ scanned' = scanned
      BY <1>1, <2>5 DEF CopySquareRow, At, Goto, aux
    <3>2. /\ i[w] \in row[w] .. row[w] + Side - 1
          /\ Copied(w)
          /\ row[w] + Side - 1 < input.rows /\ col[w] + Side - 1 < input.cols
      BY <1>0, <2>1, <3>1 DEF Looking, Inside, Fits
    <3>3. Seen(i[w], col[w] .. col[w] + Side - 1)
            = {{input.at[i[w]][j] : j \in col[w] .. col[w] + Side - 1}}
      <4>1. i[w] < rowCount
        BY <1>1, <2>1, <3>2
      <4> QED  BY <4>1 DEF Seen
    <3>4. symbols'[w] = symbols[w] \cup {input.at[i[w]][j] : j \in col[w] .. col[w] + Side - 1}
      <4>1. PICK s \in Seen(i[w], col[w] .. col[w] + Side - 1) :
              symbols' = [symbols EXCEPT ![w] = @ \cup s]
        BY <2>5 DEF CopySquareRow
      <4>2. symbols'[w] = symbols[w] \cup s
        BY <1>1, <4>1
      <4> QED  BY <3>3, <4>1, <4>2
    <3>5. SymbolsOf(row[w], i[w] + 1, col[w])
            = symbols[w] \cup {input.at[i[w]][j] : j \in col[w] .. col[w] + Side - 1}
      <4>1. row[w] \in Nat /\ i[w] \in Nat /\ row[w] <= i[w] /\ Copied(w)
        BY <1>1, <3>2
      <4>2. SymbolsOf(row[w], i[w] + 1, col[w])
              = SymbolsOf(row[w], i[w], col[w])
                \cup {input.at[i[w]][j] : j \in col[w] .. col[w] + Side - 1}
        BY ONLY <4>1, SymbolsGrow
      <4>3. symbols[w] = SymbolsOf(row[w], i[w], col[w])
        BY <4>1 DEF Copied
      <4> QED  BY ONLY <4>2, <4>3
    <3>6. Copied(w)'
      <4>1. symbols'[w] = SymbolsOf(row[w], i[w] + 1, col[w])
        BY <3>4, <3>5
      <4>2. symbols'[w] = SymbolsOf(row'[w], i'[w], col'[w])
        BY <3>1, <4>1
      <4> QED  BY <1>1, <4>2 DEF Copied, SymbolsOf
    <3>7. CASE i[w] + 1 = row[w] + Side
      <4>1. pc'[w] = "check" /\ i'[w] = row'[w] + Side
        BY <3>1, <3>7
      <4> QED  BY <1>1, <2>0, <2>1, <3>1, <3>2, <3>6, <4>1 DEF Looking, Inside
    <3>8. CASE i[w] + 1 # row[w] + Side
      <4>0. i[w] + 1 \in row[w] .. row[w] + Side - 1
        <5> DEFINE a == row[w]
                   b == i[w]
        <5>1. a \in Nat /\ b \in a .. a + Side - 1 /\ b + 1 # a + Side
          BY <1>1, <3>2, <3>8
        <5> HIDE DEF a, b
        <5>2. b + 1 \in a .. a + Side - 1
          BY <5>1
        <5> QED  BY <5>2 DEF a, b
      <4>1. pc'[w] = "square" /\ i'[w] \in row'[w] .. row'[w] + Side - 1
        BY <3>1, <3>8, <4>0
      <4> QED  BY <1>1, <2>0, <2>1, <3>1, <3>2, <3>6, <4>1 DEF Looking, Inside
    <3> QED  BY <3>7, <3>8
  <2>6. CASE Segfault(w)
    <3>1. worker' = worker /\ aux' = aux
      BY <2>6 DEF Segfault
    <3>2. Copied(w) => Copied(w)'
      BY <1>1, <3>1 DEF Copied, SymbolsOf, worker
    <3> QED  BY <1>0, <1>1, <2>0, <2>1, <3>1, <3>2 DEF Looking, Inside, worker, aux, job
  <2>7. CASE CheckSquare(w)
    <3>1. pc[w] = "check" /\ pc'[w] = "col" /\ row' = row
      BY <1>1, <2>7 DEF CheckSquare, At, Goto
    <3> QED  BY <1>1, <2>0, <2>1, <3>1 DEF Looking, Inside
  <2> QED  BY <1>3, <2>2, <2>3, <2>4, <2>5, <2>6, <2>7 DEF Looks
<1>4. CASE Ended(w)
  <2>1. pc[w] # "idle" /\ pc'[w] = "done" /\ aux' = aux
    <3>1. pc[w] \in {"exit", "done"} /\ pc'[w] = "done"
      BY <1>0, <1>1, <1>4 DEF Ended, WritePipe, ReadPipe, Return, Leave, KernelExit, Finish, At,
         Goto, worker
    <3> QED  BY <1>0, <1>4, <3>1, EndOf
  <2>2. ~early /\ scanned' = scanned
    BY <2>1 DEF aux
  <2>3. main \in Working
    BY <1>0, <2>1, <2>2, WholeGrid
  <2> QED  BY <1>0, <2>1, <2>2, <2>3 DEF Looking, Inside
<1> QED  BY <1>2, <1>3, <1>4 DEF Acts

LEMMA NextGridKnown == Typed /\ GridKnown /\ [Next]_vars => GridKnown'
<1> SUFFICES ASSUME Typed, GridKnown, [Next]_vars
             PROVE  GridKnown'
  OBVIOUS
<1>0. TypeOK /\ GridRead'
  BY NextGridRead DEF Typed, GridKnown
<1>1. SUFFICES ASSUME ~early', NEW u \in Workers
               PROVE  Looking(u)'
  BY <1>0 DEF GridKnown
<1>2. CASE MainAlone
  <2>1. /\ worker' = worker /\ job' = job /\ early' = early
        /\ main \in Working \cup {"failed"} => main' \in Working \cup {"failed"}
    BY <1>2 DEF MainAlone, ReadRows, ReadCols, RefuseGrid, Malloc, CopyRow, LaunchFails,
       AddCell, PrintTotal, Main,
       aux, Working
  <2>2. Looking(u)
    BY <1>1, <2>1 DEF GridKnown
  <2>3. Copied(u) => Copied(u)'
    BY <2>1 DEF Copied, SymbolsOf, worker, job
  <2> QED  BY <2>1, <2>2, <2>3 DEF Looking, Inside, worker, job
<1>3. ASSUME NEW w \in Workers, Acts(w)
      PROVE  Looking(u)'
  <2>1. CASE u = w
    BY <1>1, <1>3, <2>1, NextLooking
  <2>2. CASE u # w
    <3>1. Looking(u) /\ Alone(w) /\ i'[u] = i[u] /\ symbols'[u] = symbols[u]
      BY <1>0, <1>1, <1>3, <2>2, NextLooking, WorkerAlone, OthersStay DEF GridKnown
    <3>2. job' = job /\ (main \in Working \cup {"failed"} => main' \in Working \cup {"failed"})
      BY <1>3, MainOf
    <3>3. Copied(u) => Copied(u)'
      BY <2>2, <3>1, <3>2 DEF Copied, SymbolsOf, Alone, job
    <3> QED  BY <2>2, <3>1, <3>2, <3>3 DEF Looking, Inside, Alone, job
  <2> QED  BY <2>1, <2>2
<1>4. CASE UNCHANGED vars
  <2>1. worker' = worker /\ job' = job /\ early' = early /\ main' = main
    BY <1>4 DEF vars, aux
  <2>2. Looking(u)
    BY <1>1, <2>1 DEF GridKnown
  <2>3. Copied(u) => Copied(u)'
    BY <2>1 DEF Copied, SymbolsOf, worker, job
  <2> QED  BY <2>1, <2>2, <2>3 DEF Looking, Inside, worker, job
<1> QED  BY <1>2, <1>3, <1>4, Steps

-----------------------------------------------------------------------------
(* The verdict on a square *)

(* The corners of the squares of the grid.                                 *)
Corners == (0 .. input.rows - Side) \X (0 .. input.cols - Side)

LEMMA FiniteComplete ==
  ASSUME TypeOK
  PROVE  Complete \subseteq Corners /\ IsFiniteSet(Complete) /\ Corners \subseteq Nat \X Nat
<1>1. input.rows \in Nat /\ input.cols \in Nat
  BY InputFits
<1>2. IsFiniteSet(0 .. input.rows - Side) /\ IsFiniteSet(0 .. input.cols - Side)
  <2> DEFINE m == input.rows - Side
             n == input.cols - Side
  <2>1. m \in Int /\ n \in Int
    BY <1>1
  <2> HIDE DEF m, n
  <2>2. IsFiniteSet(0 .. m) /\ IsFiniteSet(0 .. n)
    BY <2>1, FS_Interval
  <2> QED  BY <2>2 DEF m, n
<1>3. IsFiniteSet(Corners)
  <2> DEFINE A == 0 .. input.rows - Side
             B == 0 .. input.cols - Side
  <2>1. IsFiniteSet(A) /\ IsFiniteSet(B) /\ Corners = A \X B
    BY <1>2 DEF Corners
  <2> HIDE DEF A, B
  <2> QED  BY <2>1, FS_Product
<1>4. Complete \subseteq Corners
  BY DEF Complete, Corners
<1> QED  BY <1>1, <1>3, <1>4, FS_Subset DEF Corners

LEMMA VerdictIsRight ==
  ASSUME TypeOK, GridKnown, ~early, NEW w \in Workers, pc[w] = "check"
  PROVE  /\ <<row[w], col[w]>> \in Corners
         /\ Verdicts(symbols[w]) = {(<<row[w], col[w]>> \in Complete)}
<1>1. /\ row[w] \in Nat /\ col[w] \in Nat /\ input.rows \in Nat /\ input.cols \in Nat
      /\ row[w] + Side - 1 < input.rows /\ col[w] + Side - 1 < input.cols
      /\ i[w] = row[w] + Side /\ Copied(w)
  BY InputFits DEF GridKnown, Looking, Inside, TypeOK
<1>2. <<row[w], col[w]>> \in Corners
  <2> DEFINE a == row[w]
             b == col[w]
             m == input.rows
             n == input.cols
  <2>0. /\ a \in Nat /\ b \in Nat /\ m \in Nat /\ n \in Nat
        /\ a + Side - 1 < m /\ b + Side - 1 < n
    BY <1>1
  <2> HIDE DEF a, b, m, n
  <2>1. a \in 0 .. m - Side
    BY <2>0
  <2>2. b \in 0 .. n - Side
    BY <2>0
  <2> QED  BY <2>1, <2>2 DEF Corners, a, b, m, n
<1>3. symbols[w] = {input.at[x[1]][x[2]] : x \in Window(row[w], col[w])}
  <2> DEFINE a == row[w]
             b == i[w]
  <2>0. a \in Nat /\ b = a + Side
    BY <1>1
  <2> HIDE DEF a, b
  <2>1. b - 1 = a + Side - 1
    BY <2>0
  <2> QED  BY <1>1, <2>1 DEF Copied, SymbolsOf, Window, a, b
<1>4. <<row[w], col[w]>> \in Complete <=> Letters \subseteq symbols[w]
  <2> DEFINE s == <<row[w], col[w]>>
  <2>1. s \in Corners /\ s[1] = row[w] /\ s[2] = col[w]
    BY <1>2
  <2> HIDE DEF s
  <2>2. s \in Complete
          <=> Letters \subseteq {input.at[x[1]][x[2]] : x \in Window(s[1], s[2])}
    BY <2>1 DEF Complete, Corners
  <2>3. s \in Complete <=> Letters \subseteq symbols[w]
    BY <1>3, <2>1, <2>2
  <2> QED  BY <2>3 DEF s
<1>5. symbols[w] \subseteq Letters
  <2>1. ASSUME NEW x \in Window(row[w], col[w])
        PROVE  input.at[x[1]][x[2]] \in Letters
    <3>1. /\ x[1] \in row[w] .. row[w] + Side - 1
          /\ x[2] \in col[w] .. col[w] + Side - 1
      BY DEF Window
    <3>2. x[1] \in 0 .. input.rows - 1
      BY <1>1, <3>1
    <3>3. x[2] \in 0 .. input.cols - 1
      BY <1>1, <3>1
    <3> QED  BY <3>2, <3>3, InputFits
  <2> QED  BY <1>3, <2>1
<1>6. CASE version = "java"
  BY <1>2, <1>4, <1>6 DEF Verdicts
<1>7. CASE version # "java"
  <2>1. /\ Cardinality(symbols[w]) <= Cardinality(Letters)
        /\ Cardinality(symbols[w]) = Cardinality(Letters) <=> symbols[w] = Letters
        /\ Cardinality(Letters) \in Nat /\ Cardinality(symbols[w]) \in Nat
    BY <1>5, FS_Subset, FS_CardinalityType
  <2>2. Cardinality(symbols[w]) # Cardinality(Letters) + 1
    BY <2>1
  <2>3. symbols[w] = Letters <=> Letters \subseteq symbols[w]
    BY <1>5
  <2>4. Verdicts(symbols[w]) = {Cardinality(symbols[w]) = Cardinality(Letters)}
    BY <1>7, <2>2 DEF Verdicts
  <2>5. CASE <<row[w], col[w]>> \in Complete
    <3>1. Cardinality(symbols[w]) = Cardinality(Letters)
      BY <1>4, <2>1, <2>3, <2>5
    <3> QED  BY <1>2, <2>4, <2>5, <3>1
  <2>6. CASE <<row[w], col[w]>> \notin Complete
    <3>1. Cardinality(symbols[w]) # Cardinality(Letters)
      BY <1>4, <2>1, <2>3, <2>6
    <3> QED  BY <1>2, <2>4, <2>6, <3>1
  <2> QED  BY <2>5, <2>6
<1> QED  BY <1>6, <1>7

(* What a check of a square does to the results.                           *)
LEMMA CheckOf ==
  ASSUME TypeOK, GridKnown, ~early, NEW w \in Workers, CheckSquare(w)
  PROVE  /\ pc[w] = "check" /\ currentWorker' = currentWorker
         /\ scanned' = scanned \cup {<<row[w], col[w]>>}
         /\ <<row[w], col[w]>> \in Complete => Count(w)
         /\ <<row[w], col[w]>> \notin Complete => result' = result
<1>1. pc[w] = "check"
  BY DEF CheckSquare, At
<1>2. Verdicts(symbols[w]) = {(<<row[w], col[w]>> \in Complete)}
  BY <1>1, VerdictIsRight
<1>3. CASE <<row[w], col[w]>> \in Complete
  BY <1>1, <1>2, <1>3 DEF CheckSquare, shared, Count, result
<1>4. CASE <<row[w], col[w]>> \notin Complete
  BY <1>1, <1>2, <1>4 DEF CheckSquare, shared, Count, result
<1> QED  BY <1>3, <1>4

-----------------------------------------------------------------------------
(* In which order the workers come, and where they leave the counters      *)

(* The next worker is called when those before it are done, and finds      *)
(* currentRow as it was before the first of them.                          *)
InTurn ==
  /\ \A v \in Workers : v < currentWorker => pc[v] = "done"
  /\ version = "processes" => \A v \in Workers : pc[v] = "idle" => currentRow[v] = 0

(* The first thread takes currentRow behind the last row.                  *)
FirstTakesAll ==
  /\ searching = 1 /\ currentWorker = 0 => currentRow[0] = 0
  /\ currentWorker > 0 => First(0) + Side - 1 >= input.rows
  /\ \A v \in Workers : pc[v] = "done" => currentWorker > 0

(* The host adds cells when the kernel is over.                            *)
KernelFirst ==
  /\ \A v \in Workers : pc[v] # "idle" => v < Launched
  /\ currentWorker > 0 => \A v \in Workers : v < Launched => pc[v] = "done"

InOrder ==
  ~early =>
    /\ version \in {"processes", "java"} => InTurn
    /\ version = "threads" => FirstTakesAll
    /\ version = "gpu" => KernelFirst

LEMMA InitInOrder == Init => InOrder
<1> SUFFICES ASSUME Init PROVE InOrder
  OBVIOUS
<1>1. /\ currentWorker = 0 /\ currentRow = [w \in Workers |-> 0]
      /\ pc = [w \in Workers |-> "idle"]
  BY DEF Init
<1> QED  BY <1>1, WorkersAre DEF InOrder, InTurn, FirstTakesAll, KernelFirst

LEMMA StaysInTurn ==
  ASSUME Typed, NEW w \in Workers, Acts(w), version \in {"processes", "java"}, InTurn
  PROVE  InTurn'
<1>0. TypeOK /\ Alone(w) /\ (Active(w) => Turn(w))
  BY WorkerAlone DEF Typed
<1>1. /\ currentWorker \in Nat /\ w \in Nat /\ currentRow \in [Workers -> Nat]
      /\ Workers \subseteq Nat /\ version' = version
  BY <1>0, WorkersAre DEF TypeOK, Alone, job
<1>2. CASE Starts(w)
  <2>1. /\ pc[w] = "idle" /\ pc'[w] = "row" /\ currentWorker' = currentWorker
        /\ version = "processes" => currentRow' = currentRow
    BY <1>0, <1>2, StartOf
  <2> QED  BY <1>0, <1>1, <2>1 DEF InTurn, Alone
<1>3. CASE Looks(w)
  <2>1. /\ pc[w] # "idle" /\ pc[w] # "done" /\ pc'[w] # "idle" /\ currentWorker' = currentWorker
        /\ currentRow' = currentRow \/ currentRow' = [currentRow EXCEPT ![Of(w)] = @ + 1]
    BY <1>0, <1>3, LookOf
  <2>2. version = "processes" => \A v \in Workers : v # w => currentRow'[v] = currentRow[v]
    BY <1>1, <2>1 DEF Of
  <2> QED  BY <1>0, <1>1, <2>1, <2>2 DEF InTurn, Alone
<1>4. CASE Ended(w)
  <2>1. /\ currentRow' = currentRow
        /\ \/ pc[w] = "exit" /\ pc'[w] = "done" /\ w = currentWorker
              /\ currentWorker' \in {currentWorker, currentWorker + 1}
           \/ pc[w] = "done" /\ pc' = pc /\ w = currentWorker /\ currentWorker' = currentWorker + 1
    BY <1>0, <1>4, EndOf DEF Active, Turn
  <2>2. pc'[w] = "done" /\ \A v \in Workers : v # w => pc'[v] = pc[v]
    BY <1>0, <2>1 DEF Alone
  <2>3. \A v \in Workers : v < currentWorker' => v < currentWorker \/ v = w
    BY <1>1, <2>1
  <2> QED  BY <1>1, <2>1, <2>2, <2>3 DEF InTurn
<1> QED  BY <1>2, <1>3, <1>4 DEF Acts

LEMMA StaysFirst ==
  ASSUME Typed, GridKnown, NEW w \in Workers, Acts(w), ~early, version = "threads", FirstTakesAll
  PROVE  FirstTakesAll'
<1>0. TypeOK /\ Alone(w) /\ (Active(w) => Turn(w)) /\ Looking(w)
  BY WorkerAlone DEF Typed, GridKnown
<1>1. /\ currentWorker \in Nat /\ currentRow \in [Workers -> Nat] /\ row[w] \in Nat
      /\ 0 \in Workers /\ version' = version /\ numWorker' = numWorker /\ input' = input
      /\ input.rows \in Nat
  BY <1>0, WorkersAre, InputFits DEF TypeOK, Alone, job
<1>2. /\ numWorker \in Nat \ {0} /\ First(0) = currentWorker + currentRow[0] * numWorker
      /\ First(0)' = currentWorker' + currentRow'[0] * numWorker
      /\ currentRow[0] \in Nat /\ currentRow[0] * numWorker \in Nat /\ Of(w) = 0
      /\ First(0) \in Nat
  <2>1. numWorker \in Nat \ {0}
    BY <1>0, InputFits DEF Typed, Sizes
  <2>2. currentRow[0] * numWorker \in Nat /\ currentRow[0] \in Nat
    BY <1>1, <2>1, Times
  <2> QED  BY <1>1, <2>1, <2>2 DEF First, Of
<1>3. CASE Starts(w)
  <2>1. /\ pc'[w] = "row" /\ currentWorker' = currentWorker /\ currentRow' = currentRow
        /\ searching' = 0
    BY <1>0, <1>3, StartOf
  <2>2. First(0)' = First(0)
    BY <1>2, <2>1
  <2>3. \A v \in Workers : pc'[v] = "done" => pc[v] = "done"
    BY <1>0, <2>1 DEF Alone
  <2> QED  BY <1>1, <2>1, <2>2, <2>3 DEF FirstTakesAll
<1>4. CASE Looks(w)
  <2>1. /\ Active(w) /\ Active(w)' /\ currentWorker' = currentWorker /\ searching' = searching
        /\ currentRow' = currentRow \/ currentRow' = [currentRow EXCEPT ![Of(w)] = @ + 1]
    BY <1>0, <1>4, LookOf DEF Active
  <2>2. searching = 0
    BY <1>0, <2>1 DEF Turn
  <2>3. First(0)' >= First(0) /\ First(0)' \in Nat
    <3>1. CASE currentRow' = currentRow
      BY <1>2, <2>1, <3>1
    <3>2. CASE currentRow' = [currentRow EXCEPT ![Of(w)] = @ + 1]
      <4>1. currentRow'[0] = currentRow[0] + 1
        BY <1>1, <1>2, <3>2
      <4>2. (currentRow[0] + 1) * numWorker = currentRow[0] * numWorker + numWorker
        BY <1>2
      <4>3. First(0)' = First(0) + numWorker
        BY <1>1, <1>2, <2>1, <4>1, <4>2
      <4> QED  BY <1>2, <4>3
    <3> QED  BY <2>1, <3>1, <3>2
  <2>4. currentWorker > 0 => First(0)' + Side - 1 >= input.rows
    <3> DEFINE a == First(0)
               b == First(0)'
               c == input.rows
    <3>1. a \in Nat /\ b \in Nat /\ c \in Nat /\ b >= a
      BY <1>1, <1>2, <2>3
    <3>2. currentWorker > 0 => a + Side - 1 >= c
      BY DEF FirstTakesAll
    <3> HIDE DEF a, b, c
    <3>3. currentWorker > 0 => b + Side - 1 >= c
      BY <3>1, <3>2
    <3> QED  BY <3>3 DEF a, b, c
  <2>5. \A v \in Workers : pc'[v] = "done" => pc[v] = "done"
    BY <1>0, <2>1 DEF Alone, Active
  <2> QED  BY <1>1, <2>1, <2>2, <2>4, <2>5 DEF FirstTakesAll
<1>5. CASE Ended(w)
  <2>1. pc[w] = "exit" /\ currentWorker' = currentWorker + 1 /\ currentRow' = currentRow
    BY <1>0, <1>5, EndOf
  <2>2. row[w] = First(0) /\ row[w] + Side - 1 >= input.rows
    BY <1>0, <2>1 DEF Turn, Active, Looking
  <2>3. First(0)' = First(0) + 1
    BY <1>1, <1>2, <2>1
  <2>4. First(0)' + Side - 1 >= input.rows
    <3>1. First(0) \in Nat /\ input.rows \in Nat /\ First(0) + Side - 1 >= input.rows
      BY <1>1, <1>2, <2>2
    <3>2. First(0) + 1 + Side - 1 >= input.rows
      BY <3>1
    <3> QED  BY <2>3, <3>2
  <2>5. currentWorker' > 0
    BY <1>1, <2>1
  <2> QED  BY <1>1, <2>4, <2>5 DEF FirstTakesAll
<1> QED  BY <1>3, <1>4, <1>5 DEF Acts

LEMMA StaysKernelFirst ==
  ASSUME Typed, GridKnown, NEW w \in Workers, Acts(w), ~early, version = "gpu", KernelFirst
  PROVE  /\ KernelFirst'
         /\ pc[w] # "done" => currentWorker = 0
<1>0. TypeOK /\ Alone(w)
  BY WorkerAlone DEF Typed
<1>1. input' = input /\ Launched' = Launched /\ currentWorker \in Nat
  BY <1>0 DEF TypeOK, Alone, job, Launched
<1>2. CASE Starts(w)
  <2>1. /\ pc[w] = "idle" /\ currentWorker' = currentWorker
    BY <1>0, <1>2, StartOf
  <2>2. w < Launched
    <3>1. main = "work" /\ w < Blocks(rows) * ThreadsPerBlock
      BY <1>2 DEF Starts, Fork, CallRun, Search, Launch
    <3>2. rows = input.rows
      BY <3>1 DEF GridKnown, GridRead, Working
    <3> QED  BY <3>1, <3>2 DEF Launched
  <2> QED  BY <1>0, <1>1, <2>1, <2>2 DEF KernelFirst, Alone
<1>3. CASE Looks(w) \/ Ended(w)
  <2>1. pc[w] # "idle" /\ pc[w] # "done" /\ currentWorker' = currentWorker
    BY <1>0, <1>3, LookOf, EndOf
  <2> QED  BY <1>0, <1>1, <2>1 DEF KernelFirst, Alone
<1> QED  BY <1>2, <1>3 DEF Acts

LEMMA NextInOrder == Typed /\ GridKnown /\ InOrder /\ [Next]_vars => InOrder'
<1> SUFFICES ASSUME Typed, GridKnown, InOrder, [Next]_vars, ~early'
             PROVE  InOrder'
  BY DEF InOrder
<1>0. TypeOK
  BY DEF Typed
<1>1. CASE MainAlone
  <2>1. /\ worker' = worker /\ job' = job /\ currentRow' = currentRow /\ searching' = searching
        /\ version # "gpu" => currentWorker' = currentWorker
        /\ early' = early
    BY <1>1 DEF MainAlone, ReadRows, ReadCols, RefuseGrid, Malloc, CopyRow, LaunchFails,
       AddCell, PrintTotal,
       worker, job, shared, aux
  <2>2. version # "gpu" => First(0)' = First(0)
    BY <2>1 DEF First, Of, job
  <2>3. Launched' = Launched
    BY <2>1 DEF Launched, job
  <2>4. CASE version # "gpu"
    BY <1>1, <2>1, <2>2, <2>4 DEF InOrder, InTurn, FirstTakesAll, worker, job
  <2>5. CASE version = "gpu" /\ currentWorker' = currentWorker
    BY <1>1, <2>1, <2>3, <2>5 DEF InOrder, KernelFirst, worker, job
  <2>6. CASE version = "gpu" /\ currentWorker' # currentWorker
    <3>1. AddCell
      BY <1>1, <2>6 DEF MainAlone, ReadRows, ReadCols, RefuseGrid, Malloc, CopyRow,
         LaunchFails, PrintTotal, shared
    <3>2. main = "work" /\ \A v \in Workers : v < Blocks(rows) * ThreadsPerBlock => pc[v] = "done"
      BY <3>1 DEF AddCell, Main
    <3>3. rows = input.rows
      BY <3>2 DEF GridKnown, GridRead, Working
    <3> QED  BY <2>1, <2>3, <2>6, <3>2, <3>3 DEF InOrder, KernelFirst, Launched, worker, job
  <2> QED  BY <2>4, <2>5, <2>6
<1>2. ASSUME NEW w \in Workers, Acts(w)
      PROVE  InOrder'
  <2>1. ~early /\ version' = version
    BY <1>0, <1>2, NextLooking, WorkerAlone DEF Alone, job
  <2>2. version \in {"processes", "java"} => InTurn'
    BY <1>2, <2>1, StaysInTurn DEF InOrder
  <2>3. version = "threads" => FirstTakesAll'
    BY <1>2, <2>1, StaysFirst DEF InOrder
  <2>4. version = "gpu" => KernelFirst'
    BY <1>2, <2>1, StaysKernelFirst DEF InOrder
  <2> QED  BY <2>1, <2>2, <2>3, <2>4 DEF InOrder
<1>3. CASE UNCHANGED vars
  BY <1>3 DEF InOrder, InTurn, FirstTakesAll, KernelFirst, First, Of, Launched,
     vars, job, shared, worker, aux
<1> QED  BY <1>1, <1>2, <1>3, Steps

-----------------------------------------------------------------------------
(* Every worker looks at all the squares of its rows                       *)

(* The worker in whose rows a square begins, and what a worker has to look *)
(* at; the first of the threads does the work of all.                      *)
Owner(s) == IF version = "gpu" \/ numWorker = 0 THEN s[1] ELSE s[1] % numWorker
Class(w) == IF version = "threads" THEN 0 ELSE w
Mine(w)  == {s \in Corners : Owner(s) = Class(w)}

Swept(w) ==
  /\ Active(w) => \A s \in Mine(w) : s[1] < row[w] => s \in scanned
  /\ Inside(w) => \A s \in Mine(w) : s[1] = row[w] /\ s[2] < col[w] => s \in scanned
  /\ pc[w] \in {"exit", "done"} => Mine(w) \subseteq scanned

FirstSweeps ==
  version = "threads" =>
    /\ currentWorker > 0 => Mine(0) \subseteq scanned
    /\ \A s \in scanned : s[1] % numWorker = 0

AllSwept == ~early => FirstSweeps /\ \A w \in Workers : Swept(w)

LEMMA InitAllSwept == Init => AllSwept
<1> SUFFICES ASSUME Init PROVE AllSwept
  OBVIOUS
<1>1. currentWorker = 0 /\ scanned = {} /\ pc = [w \in Workers |-> "idle"]
  BY DEF Init
<1> QED  BY <1>1 DEF AllSwept, FirstSweeps, Swept, Active, Inside

LEMMA SameSquares ==
  ASSUME job' = job
  PROVE  /\ \A w : Mine(w)' = Mine(w)
         /\ version' = version /\ numWorker' = numWorker /\ input' = input
         /\ Complete' = Complete /\ Corners' = Corners
BY DEF Mine, Class, Owner, Corners, Complete, Window, job

LEMMA MineIs ==
  ASSUME TypeOK, NEW w \in Workers, NEW s \in Mine(w)
  PROVE  /\ s \in Corners /\ s[1] \in Nat /\ s[2] \in Nat /\ s = <<s[1], s[2]>>
         /\ s[1] + Side - 1 < input.rows /\ s[2] + Side - 1 < input.cols
         /\ version = "gpu" => s[1] = w
         /\ version = "threads" /\ numWorker # 0 => s[1] % numWorker = 0
         /\ version \in {"processes", "java"} /\ numWorker # 0 => s[1] % numWorker = w
<1>1. /\ s \in (0 .. input.rows - Side) \X (0 .. input.cols - Side)
      /\ Owner(s) = Class(w)
  BY DEF Mine, Corners
<1>2. input.rows \in Nat /\ input.cols \in Nat
  BY InputFits
<1>3. /\ s[1] \in Nat /\ s[2] \in Nat /\ s = <<s[1], s[2]>>
      /\ s[1] + Side - 1 < input.rows /\ s[2] + Side - 1 < input.cols
  BY <1>1, <1>2
<1> QED  BY <1>1, <1>3 DEF Mine, Owner, Class

(* The row of a worker among those that it or the first thread looks at.   *)
LEMMA RowInClass ==
  ASSUME Typed, GridKnown, InOrder, ~early, NEW w \in Workers, version # "gpu", Inside(w)
  PROVE  /\ numWorker \in Nat \ {0} /\ Class(w) \in 0 .. numWorker - 1
         /\ currentRow[Of(w)] \in Nat /\ currentWorker = Class(w)
         /\ row[w] = Class(w) + currentRow[Of(w)] * numWorker
<1>1. TypeOK /\ Turn(w) /\ Looking(w) /\ version \in {"processes", "java", "threads"}
  BY DEF Typed, Inside, Active, GridKnown, TypeOK
<1>2. /\ numWorker \in Nat /\ (version # "java" => numWorker # 0)
      /\ currentRow[Of(w)] \in Nat /\ w \in Nat /\ currentWorker \in Nat
  BY <1>1, InputFits, FirstType, WorkersAre DEF Typed, TypeOK, Sizes
<1>3. CASE version = "threads"
  <2>1. row[w] = First(0) /\ row[w] + Side - 1 < input.rows
    BY <1>1, <1>3 DEF Turn, Looking
  <2>2. currentWorker > 0 => First(0) + Side - 1 >= input.rows
    BY <1>3 DEF InOrder, FirstTakesAll
  <2>3. currentWorker = 0
    <3>1. First(0) \in Nat /\ input.rows \in Nat
      BY <1>1, WorkersAre, FirstType, InputFits
    <3> QED  BY <1>2, <2>1, <2>2, <3>1
  <2> QED  BY <1>2, <1>3, <2>1, <2>3 DEF Class, First, Of
<1>4. CASE version \in {"processes", "java"}
  <2>1. w = currentWorker /\ w < numWorker /\ row[w] = First(w)
    BY <1>1, <1>4 DEF Turn
  <2> QED  BY <1>2, <1>4, <2>1 DEF Class, First
<1> QED  BY <1>1, <1>3, <1>4

LEMMA SweepBegins ==
  ASSUME Typed, InOrder, AllSwept, ~early, NEW w \in Workers, Starts(w)
  PROVE  Swept(w)'
<1>0. TypeOK /\ Alone(w)
  BY WorkerAlone DEF Typed, Acts
<1>1. /\ pc'[w] = "row" /\ scanned' = scanned /\ Mine(w)' = Mine(w)
      /\ currentWorker \in Nat /\ numWorker \in Nat \ {0} /\ w \in Nat
  <2>1. numWorker \in Nat /\ w \in Nat /\ (version # "java" => numWorker # 0)
    BY <1>0, InputFits, WorkersAre DEF Typed, Sizes
  <2>2. version = "java" => w < numWorker
    BY <1>0, StartOf
  <2>3. numWorker # 0
    BY <2>1, <2>2
  <2> QED  BY <1>0, <2>1, <2>3, StartOf, SameSquares DEF Alone, TypeOK
<1>2. SUFFICES ASSUME NEW s \in Mine(w), s[1] < row'[w]
               PROVE  s \in scanned
  BY <1>1 DEF Swept, Inside
<1>3. CASE version = "gpu"
  <2>1. row'[w] = w /\ s[1] = w
    BY <1>0, <1>3, StartOf, MineIs
  <2> QED  BY <1>1, <1>2, <2>1
<1>4. CASE version = "threads"
  <2>1. row'[w] = currentWorker + currentRow[0] * numWorker /\ searching = 1
    BY <1>0, <1>4, StartOf DEF First, Of
  <2>2. CASE currentWorker = 0
    <3>1. currentRow[0] = 0
      BY <1>4, <2>1, <2>2 DEF InOrder, FirstTakesAll
    <3>2. row'[w] = 0
      BY <1>1, <2>1, <2>2, <3>1
    <3> QED  BY <1>0, <1>2, <3>2, MineIs
  <2>3. CASE currentWorker > 0
    BY <1>4, <2>3 DEF AllSwept, FirstSweeps, Mine, Class
  <2> QED  BY <1>1, <2>2, <2>3
<1>5. CASE version \in {"processes", "java"}
  <2>1. row'[w] = w
    <3>1. w = currentWorker /\ pc[w] = "idle"
      BY <1>0, <1>5, StartOf
    <3>2. CASE version = "java"
      BY <1>0, <3>1, <3>2, StartOf
    <3>3. CASE version = "processes"
      <4>1. currentRow[w] = 0 /\ row'[w] = w + currentRow[w] * numWorker
        BY <1>0, <3>1, <3>3, StartOf DEF First, Of, InOrder, InTurn
      <4> QED  BY <1>1, <4>1
    <3> QED  BY <1>5, <3>2, <3>3
  <2>2. s[1] \in Nat /\ s[1] % numWorker = w
    BY <1>0, <1>1, <1>5, MineIs
  <2>5. s[1] >= w
    <3> DEFINE q == s[1] \div numWorker
               n == numWorker
    <3>1. s[1] = w + q * n /\ q \in Nat /\ n \in Nat /\ w \in Nat
      BY <1>1, <2>2, Split
    <3> HIDE DEF q, n
    <3>2. q * n \in Nat
      BY <3>1, Times
    <3> QED  BY <3>1, <3>2
  <2> QED  BY <1>1, <1>2, <2>1, <2>2, <2>5
<1> QED  BY <1>0, <1>3, <1>4, <1>5 DEF TypeOK

LEMMA SweepGoesOn ==
  ASSUME Typed, GridKnown, InOrder, ~early, NEW w \in Workers, Looks(w), Swept(w)
  PROVE  Swept(w)'
<1>0. TypeOK /\ Alone(w) /\ Looking(w) /\ (Active(w) => Turn(w))
  BY WorkerAlone DEF Typed, Acts, GridKnown
<1>1. /\ row[w] \in Nat /\ col[w] \in Nat /\ input.rows \in Nat /\ input.cols \in Nat
      /\ row \in [Workers -> Nat] /\ col \in [Workers -> Nat]
      /\ pc \in [Workers -> {"idle", "row", "col", "square", "check", "exit", "done"}]
      /\ Mine(w)' = Mine(w)
  BY <1>0, SameSquares, InputFits DEF Alone, TypeOK
<1>2. pc[w] # "idle" /\ Active(w) /\ rows = input.rows /\ cols = input.cols
  BY <1>0, LookOf, MainOf, WholeGrid DEF Active, Acts
<1>3. \A s \in Mine(w) : s[1] < row[w] => s \in scanned
  BY <1>2 DEF Swept
<1>4. CASE TestRow(w)
  <2>1. /\ row' = row /\ col'[w] = 0 /\ scanned' = scanned
        /\ pc'[w] = (IF row[w] + Side - 1 < rows THEN "col" ELSE "exit")
    BY <1>1, <1>4 DEF TestRow, Goto, aux
  <2>2. CASE row[w] + Side - 1 < rows
    <3>1. \A s \in Mine(w) : ~(s[2] < 0)
      BY <1>0, MineIs
    <3> QED  BY <1>1, <1>3, <2>1, <2>2, <3>1 DEF Swept, Inside
  <2>3. CASE row[w] + Side - 1 >= rows
    <3>1. pc'[w] = "exit"
      BY <1>1, <1>2, <2>1, <2>3
    <3>2. ASSUME NEW s \in Mine(w)
          PROVE  s[1] < row[w]
      <4>1. s[1] \in Nat /\ s[1] + Side - 1 < input.rows
        BY <1>0, MineIs
      <4>2. row[w] + Side - 1 >= input.rows
        BY <1>2, <2>3
      <4> QED  BY <1>1, <4>1, <4>2
    <3> QED  BY <1>1, <1>3, <2>1, <3>1, <3>2 DEF Swept, Inside
  <2> QED  BY <1>1, <1>2, <2>2, <2>3
<1>5. CASE NextRow(w)
  <2>1. pc[w] = "col" /\ col[w] + Side - 1 >= cols /\ scanned' = scanned
    BY <1>5 DEF NextRow, At, aux
  <2>2. ASSUME NEW s \in Mine(w), s[1] = row[w]
        PROVE  s \in scanned
    <3>1. s[2] \in Nat /\ s[2] + Side - 1 < input.cols
      BY <1>0, MineIs
    <3>2. s[2] < col[w]
      <4>1. col[w] + Side - 1 >= input.cols
        BY <1>2, <2>1
      <4> QED  BY <1>1, <3>1, <4>1
    <3> QED  BY <2>1, <2>2, <3>2 DEF Swept, Inside
  <2>3. CASE version = "gpu"
    <3>1. pc'[w] = "exit" /\ row' = row
      BY <1>1, <1>5, <2>3 DEF NextRow, Goto
    <3>2. row[w] = w
      BY <1>0, <1>2, <2>3 DEF Turn
    <3>3. \A s \in Mine(w) : s[1] = row[w]
      BY <1>0, <2>3, <3>2, MineIs
    <3> QED  BY <1>1, <1>3, <2>1, <2>2, <3>1, <3>3 DEF Swept, Inside
  <2>4. CASE version # "gpu"
    <3> DEFINE k == currentRow[Of(w)]
               v == Class(w)
               n == numWorker
    <3>1. /\ n \in Nat \ {0} /\ v \in 0 .. n - 1 /\ k \in Nat
          /\ row[w] = v + k * n /\ currentWorker = v
      BY <2>1, <2>4, RowInClass DEF Inside
    <3>2. pc'[w] = "row" /\ row'[w] = currentWorker + (k + 1) * n
      BY <1>1, <1>5, <2>4 DEF NextRow, Goto
    <3>3. \A s \in Mine(w) : s[1] \in Nat /\ s[1] % n = v
      <4>1. version \in {"processes", "java", "threads"}
        BY <1>0, <2>4 DEF TypeOK
      <4>2. numWorker # 0
        BY <3>1
      <4> QED  BY <1>0, <4>1, <4>2, MineIs DEF Class
    <3> HIDE DEF k, v, n
    <3>4. row'[w] = v + k * n + n
      <4>1. k * n \in Nat /\ (k + 1) * n = k * n + n
        BY <3>1, Times
      <4> QED  BY <3>1, <3>2, <4>1
    <3>5. ASSUME NEW s \in Mine(w), s[1] < row'[w]
          PROVE  s \in scanned
      <4>1. s[1] <= v + k * n
        BY <3>1, <3>3, <3>4, <3>5, NoRowBetween
      <4>2. s[1] < row[w] \/ s[1] = row[w]
        BY <1>1, <3>1, <3>3, <4>1
      <4> QED  BY <1>3, <2>2, <4>2
    <3> QED  BY <1>1, <2>1, <3>2, <3>5 DEF Swept, Inside
  <2> QED  BY <2>3, <2>4
<1>6. CASE TestCol(w) \/ CopySquareRow(w) \/ Segfault(w)
  <2>1. /\ row' = row /\ col' = col /\ scanned' = scanned
        /\ Inside(w) /\ Inside(w)'
    BY <1>1, <1>6 DEF TestCol, CopySquareRow, Segfault, At, Goto, Inside, worker, aux
  <2> QED  BY <1>1, <1>3, <2>1 DEF Swept, Inside
<1>7. CASE CheckSquare(w)
  <2>1. /\ pc[w] = "check" /\ pc'[w] = "col" /\ row' = row /\ col'[w] = col[w] + 1
        /\ scanned' = scanned \cup {<<row[w], col[w]>>}
    BY <1>1, <1>7 DEF CheckSquare, At, Goto
  <2>2. ASSUME NEW s \in Mine(w), s[1] = row[w], s[2] < col[w] + 1
        PROVE  s \in scanned'
    <3>1. s[2] \in Nat /\ s = <<s[1], s[2]>>
      BY <1>0, MineIs
    <3>2. s[2] < col[w] \/ s[2] = col[w]
      BY <1>1, <2>2, <3>1
    <3>3. s[2] < col[w] => s \in scanned
      BY <2>1, <2>2 DEF Swept, Inside
    <3> QED  BY <2>1, <2>2, <3>1, <3>2, <3>3
  <2> QED  BY <1>1, <1>3, <2>1, <2>2 DEF Swept, Inside
<1> QED  BY <1>4, <1>5, <1>6, <1>7 DEF Looks

LEMMA Grows ==
  ASSUME Typed, NEW w \in Workers, Acts(w)
  PROVE  /\ scanned \subseteq scanned'
         /\ scanned' # scanned =>
              CheckSquare(w) /\ pc[w] = "check" /\ scanned' = scanned \cup {<<row[w], col[w]>>}
<1>1. Starts(w) \/ Ended(w) => scanned' = scanned
  BY StartOf, EndOf DEF Typed, aux
<1>2. CASE Looks(w)
  BY <1>2 DEF Looks, TestRow, TestCol, NextRow, CopySquareRow, Segfault, CheckSquare, At, aux
<1> QED  BY <1>1, <1>2 DEF Acts

LEMMA NextAllSwept == Typed /\ GridKnown /\ InOrder /\ AllSwept /\ [Next]_vars => AllSwept'
<1> SUFFICES ASSUME Typed, GridKnown, InOrder, AllSwept, [Next]_vars, ~early'
             PROVE  AllSwept'
  BY DEF AllSwept
<1>0. TypeOK
  BY DEF Typed
<1>1. CASE MainAlone
  <2>1. /\ worker' = worker /\ job' = job
        /\ version # "gpu" => currentWorker' = currentWorker
        /\ aux' = aux
    BY <1>1 DEF MainAlone, ReadRows, ReadCols, RefuseGrid, Malloc, CopyRow, LaunchFails,
       AddCell, PrintTotal,
       worker, job, shared
  <2>2. \A w : Mine(w)' = Mine(w)
    BY <2>1, SameSquares
  <2> QED  BY <2>1, <2>2 DEF AllSwept, FirstSweeps, Swept, Active, Inside, worker, job, aux
<1>2. ASSUME NEW w \in Workers, Acts(w)
      PROVE  AllSwept'
  <2>0. /\ ~early /\ Alone(w) /\ scanned \subseteq scanned'
        /\ version' = version /\ numWorker' = numWorker /\ \A u : Mine(u)' = Mine(u)
    BY <1>0, <1>2, NextLooking, WorkerAlone, Grows, SameSquares DEF Alone
  <2>1. ASSUME NEW u \in Workers
        PROVE  Swept(u)'
    <3>1. Swept(u)
      BY <2>0 DEF AllSwept
    <3>2. CASE u # w
      <4>1. pc'[u] = pc[u] /\ row'[u] = row[u] /\ col'[u] = col[u]
        BY <2>0, <3>2 DEF Alone
      <4> QED  BY <2>0, <3>1, <4>1 DEF Swept, Active, Inside
    <3>3. CASE u = w /\ Starts(w)
      BY <2>0, <3>3, SweepBegins
    <3>4. CASE u = w /\ Looks(w)
      BY <2>0, <3>1, <3>4, SweepGoesOn
    <3>5. CASE u = w /\ Ended(w)
      <4>1. pc[w] \in {"exit", "done"} /\ pc'[w] = "done"
        BY <1>0, <3>5, EndOf
      <4> QED  BY <2>0, <3>1, <3>5, <4>1 DEF Swept, Active, Inside
    <3> QED  BY <1>2, <3>2, <3>3, <3>4, <3>5 DEF Acts
  <2>2. FirstSweeps'
    <3> SUFFICES ASSUME version = "threads"
                 PROVE  /\ currentWorker' > 0 => Mine(0) \subseteq scanned'
                        /\ \A s \in scanned' : s[1] % numWorker = 0
      BY <2>0 DEF FirstSweeps
    <3>0. FirstSweeps
      BY <2>0 DEF AllSwept
    <3>1. currentWorker' > 0 => Mine(0) \subseteq scanned'
      <4>1. CASE currentWorker' = currentWorker
        BY <2>0, <3>0, <4>1 DEF FirstSweeps
      <4>2. CASE currentWorker' # currentWorker
        <5>1. pc[w] = "exit"
          BY <1>0, <1>2, <4>2, StartOf, LookOf, EndOf DEF Acts
        <5>2. Mine(w) \subseteq scanned /\ Mine(w) = Mine(0)
          BY <2>0, <5>1 DEF AllSwept, Swept, Mine, Class
        <5> QED  BY <2>0, <5>2
      <4> QED  BY <4>1, <4>2
    <3>2. CASE scanned' = scanned
      BY <3>0, <3>1, <3>2 DEF FirstSweeps
    <3>3. CASE scanned' # scanned
      <4>1. Inside(w) /\ scanned' = scanned \cup {<<row[w], col[w]>>}
        BY <1>2, <3>3, Grows DEF Inside
      <4>2. /\ numWorker \in Nat \ {0} /\ currentRow[Of(w)] \in Nat
            /\ row[w] = 0 + currentRow[Of(w)] * numWorker /\ 0 \in 0 .. numWorker - 1
        BY <2>0, <4>1, RowInClass DEF Class
      <4>3. row[w] % numWorker = 0
        <5> DEFINE k == currentRow[Of(w)]
                   n == numWorker
        <5>1. n \in Nat \ {0} /\ k \in Nat /\ row[w] = 0 + k * n /\ 0 \in 0 .. n - 1
          BY <4>2
        <5> HIDE DEF k, n
        <5>2. row[w] % n = 0
          BY <5>1, Remainder
        <5> QED  BY <5>2 DEF n
      <4>4. ASSUME NEW s, s = <<row[w], col[w]>>
            PROVE  s[1] % numWorker = 0
        BY <4>3, <4>4
      <4> QED  BY <3>0, <3>1, <4>1, <4>4 DEF FirstSweeps
    <3> QED  BY <3>2, <3>3
  <2> QED  BY <2>1, <2>2 DEF AllSwept
<1>3. CASE UNCHANGED vars
  <2>1. \A w : Mine(w)' = Mine(w)
    BY <1>3, SameSquares DEF vars
  <2> QED  BY <1>3, <2>1 DEF AllSwept, FirstSweeps, Swept, Active, Inside,
     vars, job, shared, worker, aux
<1> QED  BY <1>1, <1>2, <1>3, Steps

-----------------------------------------------------------------------------
(* What was found and what was added up                                    *)

Good      == Complete \cap scanned
Share(w)  == {s \in Good : Owner(s) = w}
Summed(k) == {s \in Good : Owner(s) < k}

Tally ==
  ~early =>
    /\ version = "threads" => total = Cardinality(Good)
    /\ version # "threads" => /\ \A w \in Workers : found[w] = Cardinality(Share(w))
                              /\ total = Cardinality(Summed(currentWorker))

LEMMA GoodIs ==
  ASSUME TypeOK
  PROVE  /\ IsFiniteSet(Good)
         /\ \A w : IsFiniteSet(Share(w)) /\ IsFiniteSet(Summed(w))
         /\ \A s \in Corners : Owner(s) \in Nat
<1>1. IsFiniteSet(Good)
  BY FiniteComplete, FS_Subset DEF Good
<1>2. ASSUME NEW w
      PROVE  IsFiniteSet(Share(w)) /\ IsFiniteSet(Summed(w))
  <2>1. Share(w) \in SUBSET Good /\ Summed(w) \in SUBSET Good
    BY DEF Share, Summed
  <2> QED  BY <1>1, <2>1, FS_Subset
<1>3. ASSUME NEW s \in Corners
      PROVE  Owner(s) \in Nat
  <2>1. s[1] \in Nat
    BY FiniteComplete
  <2>2. numWorker # 0 => s[1] % numWorker \in Nat
    <3> SUFFICES ASSUME numWorker # 0 PROVE s[1] % numWorker \in Nat
      OBVIOUS
    <3>1. numWorker \in Nat \ {0}
      BY InputFits
    <3>2. s[1] % numWorker \in 0 .. numWorker - 1
      BY <2>1, <3>1, Split
    <3> QED  BY <3>1, <3>2
  <2> QED  BY <2>1, <2>2 DEF Owner
<1> QED  BY <1>1, <1>2, <1>3

(* The total grows by what the worker that ends has found.                 *)
LEMMA ShareIsAdded ==
  ASSUME TypeOK, NEW k \in Nat
  PROVE  Cardinality(Summed(k + 1)) = Cardinality(Summed(k)) + Cardinality(Share(k))
<1>1. \A s \in Good : Owner(s) \in Nat
  BY GoodIs, FiniteComplete DEF Good
<1>2. Summed(k + 1) = Summed(k) \cup Share(k)
  <2>1. ASSUME NEW s \in Good
        PROVE  Owner(s) < k + 1 <=> Owner(s) < k \/ Owner(s) = k
    BY <1>1
  <2> QED  BY <2>1 DEF Summed, Share
<1>3. Summed(k) \cap Share(k) = {}
  <2>1. ~(k < k)
    OBVIOUS
  <2> QED  BY <2>1 DEF Summed, Share
<1>4. IsFiniteSet(Summed(k)) /\ IsFiniteSet(Share(k))
  BY GoodIs
<1>5. /\ Cardinality(Summed(k)) \in Nat /\ Cardinality(Share(k)) \in Nat
      /\ Cardinality(Summed(k) \cup Share(k))
           = Cardinality(Summed(k)) + Cardinality(Share(k)) - Cardinality({})
  <2> DEFINE A == Summed(k)
             B == Share(k)
  <2>1. IsFiniteSet(A) /\ IsFiniteSet(B) /\ A \cap B = {}
    BY <1>3, <1>4
  <2> HIDE DEF A, B
  <2>2. Cardinality(A \cup B) = Cardinality(A) + Cardinality(B) - Cardinality(A \cap B)
    BY <2>1, FS_Union
  <2>3. Cardinality(A) \in Nat /\ Cardinality(B) \in Nat
    BY <2>1, FS_CardinalityType
  <2> QED  BY <2>1, <2>2, <2>3 DEF A, B
<1>6. Cardinality({}) = 0
  BY FS_EmptySet
<1>7. Cardinality(Summed(k + 1)) = Cardinality(Summed(k) \cup Share(k))
  BY ONLY <1>2
<1> QED  BY ONLY <1>5, <1>6, <1>7

LEMMA InitTally == Init => Tally
<1> SUFFICES ASSUME Init PROVE Tally
  OBVIOUS
<1>1. total = 0 /\ scanned = {} /\ found = [w \in Workers |-> 0]
  BY DEF Init
<1>2. Good = {} /\ \A w : Share(w) = {} /\ Summed(w) = {}
  BY <1>1 DEF Good, Share, Summed
<1>3. total = Cardinality(Good) /\ total = Cardinality(Summed(currentWorker))
  BY <1>1, <1>2, FS_EmptySet
<1>4. ASSUME NEW w \in Workers
      PROVE  found[w] = Cardinality(Share(w))
  BY <1>1, <1>2, FS_EmptySet
<1> QED  BY <1>3, <1>4 DEF Tally

LEMMA SameShares ==
  ASSUME job' = job, scanned' = scanned
  PROVE  Good' = Good /\ \A w : Share(w)' = Share(w) /\ Summed(w)' = Summed(w)
BY SameSquares DEF Good, Share, Summed, Owner

(* Nothing is found, and nothing is added up.                              *)
LEMMA TallyKept ==
  ASSUME Tally, ~early, job' = job, scanned' = scanned, result' = result,
         version = "threads" \/ currentWorker' = currentWorker
  PROVE  Tally'
<1>1. /\ Good' = Good /\ version' = version
      /\ \A w : Share(w)' = Share(w) /\ Summed(w)' = Summed(w)
  BY SameShares DEF job
<1>2. total' = total /\ found' = found
  BY DEF result
<1>3. CASE version = "threads"
  BY <1>1, <1>2, <1>3 DEF Tally
<1>4. CASE version # "threads"
  <2>1. currentWorker' = currentWorker
    BY <1>4
  <2>2. Summed(currentWorker)' = Summed(currentWorker)
    BY <1>1, <2>1 DEF Summed, Owner, Good, job
  <2> QED  BY <1>1, <1>2, <1>4, <2>2 DEF Tally
<1> QED  BY <1>3, <1>4

(* The result of the current worker is added.                              *)
LEMMA TallyAdds ==
  ASSUME TypeOK, Tally, ~early, job' = job, scanned' = scanned, version # "threads",
         currentWorker \in Workers, found' = found,
         total' = total + found[currentWorker], currentWorker' = currentWorker + 1
  PROVE  Tally'
<1>1. /\ version' = version /\ currentWorker \in Nat
      /\ \A w : Share(w)' = Share(w)
  BY SameShares DEF job, TypeOK
<1>2. /\ total = Cardinality(Summed(currentWorker))
      /\ \A w \in Workers : found[w] = Cardinality(Share(w))
  BY DEF Tally
<1>3. total' = Cardinality(Summed(currentWorker + 1))
  BY <1>1, <1>2, ShareIsAdded
<1>4. Summed(currentWorker)' = Summed(currentWorker + 1)
  <2>1. Good' = Good /\ \A s : Owner(s)' = Owner(s)
    BY SameSquares, SameShares DEF Owner
  <2> QED  BY <2>1 DEF Summed
<1> QED  BY <1>1, <1>2, <1>3, <1>4 DEF Tally

(* A square is found: by its owner, whose result is not added yet.         *)
LEMMA TallyCounts ==
  ASSUME Typed, Behind, GridKnown, InOrder, Tally, ~early, NEW w \in Workers, CheckSquare(w)
  PROVE  Tally'
<1> DEFINE e == <<row[w], col[w]>>
<1>0. TypeOK /\ Looks(w) /\ Acts(w) /\ Alone(w) /\ job' = job
  BY WorkerAlone DEF Typed, Looks, Acts, Alone
<1>1. /\ pc[w] = "check" /\ currentWorker' = currentWorker /\ scanned' = scanned \cup {e}
      /\ e \in Complete => Count(w)
      /\ e \notin Complete => result' = result
  BY <1>0, CheckOf
<1>2. e \notin scanned /\ e \in Corners /\ e[1] = row[w]
  BY <1>0, <1>1, NotBehind, VerdictIsRight DEF Behind
<1>3. /\ version' = version /\ Complete' = Complete /\ \A s : Owner(s)' = Owner(s)
  BY <1>0, SameSquares DEF Owner
<1>4. version # "threads" => Owner(e) = w /\ ~(w < currentWorker)
  <2>1. CASE version = "gpu"
    <3>1. row[w] = w
      BY <1>1, <2>1 DEF Typed, Turn, Active
    <3>2. currentWorker = 0
      BY <1>0, <1>1, <2>1, StaysKernelFirst DEF InOrder
    <3> QED  BY <1>2, <2>1, <3>1, <3>2, WorkersAre DEF Owner
  <2>2. CASE version \in {"processes", "java"}
    <3> DEFINE k == currentRow[Of(w)]
               n == numWorker
    <3>1. /\ n \in Nat \ {0} /\ w \in 0 .. n - 1 /\ k \in Nat
          /\ row[w] = w + k * n /\ currentWorker = w
      BY <1>1, <2>2, RowInClass DEF Inside, Class
    <3>4. numWorker # 0
      BY <3>1
    <3> HIDE DEF k, n
    <3>2. row[w] % n = w
      BY <3>1, Remainder
    <3>3. Owner(e) = w
      BY <1>2, <2>2, <3>2, <3>4 DEF Owner, n
    <3> QED  BY <3>1, <3>3
  <2> QED  BY <1>0, <2>1, <2>2 DEF TypeOK
<1> HIDE DEF e
<1>5. CASE e \notin Complete
  <2>1. Good' = Good
    BY <1>1, <1>3, <1>5 DEF Good
  <2>2. \A u : Share(u)' = Share(u)
    BY <1>3, <2>1 DEF Share
  <2>3. Summed(currentWorker)' = Summed(currentWorker)
    BY <1>1, <1>3, <2>1 DEF Summed
  <2>4. total' = total /\ found' = found
    BY <1>1, <1>5 DEF result
  <2> QED  BY <1>3, <2>1, <2>2, <2>3, <2>4 DEF Tally
<1>6. CASE e \in Complete
  <2>1. Good' = Good \cup {e} /\ e \notin Good
    BY <1>1, <1>2, <1>3, <1>6 DEF Good
  <2>2. CASE version = "threads"
    <3>1. total' = total + 1
      BY <1>1, <1>6, <2>2 DEF Count
    <3>2. Cardinality(Good \cup {e}) = Cardinality(Good) + 1
      BY <1>0, <2>1, GoodIs, FS_AddElement
    <3> QED  BY <1>3, <2>1, <2>2, <3>1, <3>2 DEF Tally
  <2>3. CASE version # "threads"
    <3>1. found' = [found EXCEPT ![w] = @ + 1] /\ total' = total
      BY <1>1, <1>6, <2>3 DEF Count
    <3>2. Owner(e) = w /\ ~(w < currentWorker)
      BY <1>4, <2>3
    <3>3. Summed(currentWorker)' = Summed(currentWorker)
      BY <1>1, <1>3, <2>1, <3>2 DEF Summed
    <3>4. ASSUME NEW u \in Workers
          PROVE  found'[u] = Cardinality(Share(u)')
      <4>0. found \in [Workers -> Nat] /\ found[u] = Cardinality(Share(u))
        BY <1>0, <2>3 DEF TypeOK, Tally
      <4>1. CASE u = w
        <5>1. Share(u)' = Share(u) \cup {e} /\ e \notin Share(u)
          BY <1>3, <2>1, <3>2, <4>1 DEF Share
        <5>2. Cardinality(Share(u) \cup {e}) = Cardinality(Share(u)) + 1
          BY <1>0, <5>1, GoodIs, FS_AddElement
        <5> QED  BY <3>1, <4>0, <4>1, <5>1, <5>2
      <4>2. CASE u # w
        <5>1. Share(u)' = Share(u)
          BY <1>3, <2>1, <3>2, <4>2 DEF Share
        <5> QED  BY <3>1, <4>0, <4>2, <5>1
      <4> QED  BY <4>1, <4>2
    <3> QED  BY <1>3, <2>3, <3>1, <3>3, <3>4 DEF Tally
  <2> QED  BY <2>2, <2>3
<1> QED  BY <1>5, <1>6

LEMMA NextTally ==
  Typed /\ Behind /\ GridKnown /\ InOrder /\ Tally /\ [Next]_vars => Tally'
<1> SUFFICES ASSUME Typed, Behind, GridKnown, InOrder, Tally, [Next]_vars, ~early'
             PROVE  Tally'
  BY DEF Tally
<1>0. TypeOK
  BY DEF Typed
<1>1. CASE MainAlone
  <2>1. job' = job /\ scanned' = scanned /\ early' = early /\ found' = found
    BY <1>1 DEF MainAlone, ReadRows, ReadCols, RefuseGrid, Malloc, CopyRow, LaunchFails,
       AddCell, PrintTotal, aux, result
  <2>2. CASE AddCell
    <3>1. version = "gpu" /\ currentWorker < rows
      BY <2>2 DEF AddCell
    <3>2. currentWorker \in Workers
      <4>1. rows <= MaxRows /\ rows \in Nat /\ currentWorker \in Nat
        BY <1>0, InputFits DEF TypeOK
      <4> QED  BY <3>1, <4>1, WorkersAre
    <3> QED  BY <1>0, <2>1, <2>2, <3>1, <3>2, TallyAdds DEF AddCell
  <2>3. CASE \/ ReadRows \/ ReadCols \/ RefuseGrid \/ Malloc \/ CopyRow
             \/ LaunchFails \/ PrintTotal
    <3>1. result' = result /\ currentWorker' = currentWorker
      BY <2>3 DEF ReadRows, ReadCols, RefuseGrid, Malloc, CopyRow, LaunchFails, PrintTotal, shared
    <3> QED  BY <2>1, <3>1, TallyKept
  <2> QED  BY <1>1, <2>2, <2>3 DEF MainAlone
<1>2. ASSUME NEW w \in Workers, Acts(w)
      PROVE  Tally'
  <2>0. ~early /\ job' = job /\ (Active(w) => Turn(w))
    BY <1>2, NextLooking, MainOf DEF Typed
  <2>1. CASE Starts(w)
    BY <1>0, <2>0, <2>1, StartOf, TallyKept
  <2>2. CASE CheckSquare(w)
    BY <2>0, <2>2, TallyCounts
  <2>3. CASE TestRow(w) \/ TestCol(w) \/ NextRow(w) \/ CopySquareRow(w) \/ Segfault(w)
    <3>1. result' = result /\ currentWorker' = currentWorker /\ scanned' = scanned
      BY <2>3 DEF TestRow, TestCol, NextRow, CopySquareRow, Segfault, shared, aux
    <3> QED  BY <2>0, <3>1, TallyKept
  <2>4. CASE ReadPipe(w) \/ Return(w)
    <3>1. /\ version # "threads" /\ found' = found /\ scanned' = scanned
          /\ total' = total + found[w] /\ currentWorker' = currentWorker + 1
      BY <2>4 DEF ReadPipe, Return, Finish, aux
    <3>2. w = currentWorker
      BY <2>0, <2>4 DEF ReadPipe, Return, Finish, At, Active, Turn
    <3> QED  BY <1>0, <2>0, <3>1, <3>2, TallyAdds
  <2>5. CASE WritePipe(w) \/ Leave(w) \/ KernelExit(w)
    <3>1. /\ result' = result /\ scanned' = scanned
          /\ version = "threads" \/ currentWorker' = currentWorker
      BY <2>5 DEF WritePipe, Leave, KernelExit, Finish, shared, aux
    <3> QED  BY <2>0, <3>1, TallyKept
  <2> QED  BY <1>2, <2>1, <2>2, <2>3, <2>4, <2>5 DEF Acts, Looks, Ended
<1>3. CASE UNCHANGED vars
  <2>1. job' = job /\ scanned' = scanned /\ result' = result /\ currentWorker' = currentWorker
        /\ early' = early
    BY <1>3 DEF vars, aux, shared
  <2> QED  BY <2>1, TallyKept
<1> QED  BY <1>1, <1>2, <1>3, Steps

-----------------------------------------------------------------------------
(* main() prints                                                           *)

LEMMA NextAtEnd == Typed /\ GridKnown /\ AtEnd /\ [Next]_vars => AtEnd'
<1> SUFFICES ASSUME Typed, GridKnown, AtEnd, [Next]_vars, main' = "done"
             PROVE  AtEnd'
  BY DEF AtEnd
<1>0. TypeOK /\ numWorker \in Nat
  BY InputFits DEF Typed
<1>1. CASE MainAlone
  <2>1. PrintTotal
    BY <1>1 DEF MainAlone, ReadRows, ReadCols, RefuseGrid, Malloc, CopyRow, LaunchFails,
       AddCell, Main
  <2>2. rows = input.rows
    BY <2>1 DEF PrintTotal, Main, GridKnown, GridRead, Working
  <2>3. job' = job /\ worker' = worker /\ shared' = shared /\ Launched' = Launched
    BY <2>1 DEF PrintTotal, Launched, job
  <2> QED  BY <2>1, <2>2, <2>3 DEF PrintTotal, AtEnd, Launched, job, worker, shared
<1>2. ASSUME NEW w \in Workers, Acts(w)
      PROVE  AtEnd'
  <2>1. main = "done" /\ job' = job /\ Launched' = Launched /\ Alone(w)
    BY <1>0, <1>2, MainOf, WorkerAlone DEF Launched, job
  <2>2. version # "threads" => currentWorker' = currentWorker
    <3>1. CASE Starts(w) \/ Looks(w)
      BY <1>0, <3>1, StartOf, LookOf
    <3>2. CASE Ended(w)
      BY <2>1, <3>2 DEF Ended, WritePipe, ReadPipe, Return, Leave, KernelExit, Main, shared
    <3> QED  BY <1>2, <3>1, <3>2 DEF Acts
  <2>3. \A v \in Workers : pc[v] = "done" => pc'[v] = "done"
    <3>1. pc[w] = "done" => pc'[w] = "done"
      BY <1>0, <1>2, StartOf, LookOf, EndOf DEF Acts
    <3> QED  BY <2>1, <3>1 DEF Alone
  <2>4. \A v \in 0 .. numWorker - 1 : v \in Workers
    BY <1>0, InputFits, WorkersAre
  <2> QED  BY <2>1, <2>2, <2>3, <2>4 DEF AtEnd, job
<1>3. CASE UNCHANGED vars
  BY <1>3 DEF AtEnd, Launched, vars, job, worker, shared
<1> QED  BY <1>1, <1>2, <1>3, Steps

LEMMA InitAtEnd == Init => AtEnd
BY DEF Init, AtEnd

(* What the threads of assignment 3 print: the first one takes the rows of *)
(* its class and leaves none to the others (square.c:120, 151, 157).       *)
FirstOnly == {x \in Complete : x[1] % numWorker = 0}

Printed ==
  IF version = "threads" THEN Cardinality(FirstOnly)
  ELSE IF numWorker = 0 THEN 0 ELSE Cardinality(Complete)

(* At the end every square that the workers are responsible for was looked *)
(* at, and what they found was added.                                      *)
LEMMA AllCounted ==
  ASSUME Typed, GridKnown, InOrder, AllSwept, Tally, AtEnd, main = "done", ~early
  PROVE  total = Printed
<1>0. /\ numWorker \in Nat /\ numWorker <= MaxWorkers
      /\ TypeOK /\ (version # "java" => numWorker # 0)
      /\ input.rows \in Nat /\ input.rows <= MaxRows
      /\ \A s \in Complete : s \in Corners /\ s[1] \in Nat
  BY InputFits, FiniteComplete DEF Typed, Sizes
<1>1. CASE version = "threads"
  <2>1. currentWorker > 0
    <3>1. 0 \in 0 .. numWorker - 1 /\ 0 \in Workers
      BY <1>0, <1>1, WorkersAre
    <3> QED  BY <1>1, <3>1 DEF AtEnd, InOrder, FirstTakesAll
  <2>2. Mine(0) \subseteq scanned /\ \A s \in scanned : s[1] % numWorker = 0
    BY <1>1, <2>1 DEF AllSwept, FirstSweeps
  <2>3. Good = FirstOnly
    BY <1>0, <1>1, <2>2 DEF Good, Mine, Owner, Class, FirstOnly
  <2> QED  BY <1>1, <2>3 DEF Tally, Printed
<1>3. CASE numWorker = 0
  <2>1. version = "java" /\ currentWorker = 0
    BY <1>0, <1>3 DEF AtEnd
  <2>2. Summed(0) = {}
    <3>1. \A s \in Good : Owner(s) \in Nat
      BY <1>0, GoodIs DEF Good
    <3>2. \A k \in Nat : ~(k < 0)
      OBVIOUS
    <3> QED  BY <3>1, <3>2 DEF Summed
  <2>3. total = Cardinality(Summed(0))
    BY <2>1 DEF Tally
  <2> QED  BY <1>3, <2>1, <2>2, <2>3, FS_EmptySet DEF Printed
<1>2. CASE version # "threads" /\ numWorker # 0
  <2>1. ASSUME NEW s \in Complete
        PROVE  s \in scanned /\ Owner(s) < currentWorker
    <3>1. CASE version = "gpu"
      <4>1. s[1] < input.rows /\ Owner(s) = s[1]
        <5>1. s[1] \in 0 .. input.rows - Side
          BY <1>0 DEF Corners
        <5> QED  BY <1>0, <3>1, <5>1 DEF Owner
      <4>2. s[1] \in Workers /\ s[1] < Launched
        <5>1. s[1] \in Workers
          BY <1>0, <4>1, WorkersAre
        <5>2. Launched >= input.rows /\ Launched \in Nat
          <6>1. Launched >= input.rows
            BY <1>0, RoundedUp DEF Launched, Blocks
          <6>2. input.rows + ThreadsPerBlock - 1 \in Nat
            BY <1>0
          <6> QED  BY <6>1, <6>2, Divided, Times DEF Launched, Blocks
        <5> QED  BY <1>0, <4>1, <5>1, <5>2
      <4>3. pc[s[1]] = "done"
        BY <3>1, <4>2 DEF AtEnd
      <4>4. s \in Mine(s[1])
        BY <1>0, <1>2, <4>1 DEF Mine, Class
      <4> QED  BY <3>1, <4>1, <4>2, <4>3, <4>4 DEF AllSwept, Swept, AtEnd
    <3>2. CASE version \in {"processes", "java"}
      <4>1. Owner(s) \in 0 .. numWorker - 1
        <5>1. s[1] % numWorker \in 0 .. numWorker - 1
          BY <1>0, <1>2, Split
        <5> QED  BY <1>2, <3>2, <5>1 DEF Owner
      <4>2. currentWorker = numWorker
        BY <3>2 DEF AtEnd
      <4>3. Owner(s) \in Workers /\ Owner(s) < currentWorker
        BY <1>0, <4>1, <4>2, WorkersAre
      <4>4. pc[Owner(s)] = "done"
        BY <3>2, <4>3 DEF InOrder, InTurn
      <4>5. s \in Mine(Owner(s))
        BY <1>0, <1>2 DEF Mine, Class
      <4> QED  BY <4>3, <4>4, <4>5 DEF AllSwept, Swept
    <3> QED  BY <1>0, <1>2, <3>1, <3>2 DEF TypeOK
  <2>2. Summed(currentWorker) = Complete
    BY <2>1 DEF Summed, Good
  <2> QED  BY <1>2, <2>2 DEF Tally, Printed
<1> QED  BY <1>1, <1>2, <1>3

(* The workers of the other programs find the grid read.                   *)
InTime ==
  version # "threads" =>
    ~early /\ \A w \in Workers : pc[w] # "idle" => rowCount = input.rows

LEMMA InitInTime == Init => InTime
BY DEF Init, InTime

LEMMA NextInTime == Typed /\ GridKnown /\ InTime /\ [Next]_vars => InTime'
<1> SUFFICES ASSUME Typed, GridKnown, InTime, [Next]_vars, version' # "threads"
             PROVE  ~early' /\ \A u \in Workers : pc'[u] # "idle" => rowCount' = input'.rows
  BY DEF InTime
<1>0. TypeOK /\ Sizes /\ input.rows \in Nat
  BY InputFits DEF Typed
<1>1. CASE MainAlone
  <2>1. worker' = worker /\ job' = job /\ early' = early
    BY <1>1 DEF MainAlone, ReadRows, ReadCols, RefuseGrid, Malloc, CopyRow, LaunchFails, AddCell,
       PrintTotal, aux
  <2>2. rowCount' = rowCount \/ rowCount # input.rows
    <3>1. CASE CopyRow
      BY <1>0, <3>1 DEF CopyRow, Main, Sizes, TypeOK
    <3>2. CASE ~CopyRow
      BY <1>1, <3>2 DEF MainAlone, ReadRows, ReadCols, RefuseGrid, Malloc, LaunchFails, AddCell,
         PrintTotal, memory
    <3> QED  BY <3>1, <3>2
  <2> QED  BY <2>1, <2>2 DEF InTime, worker, job
<1>2. ASSUME NEW w \in Workers, Acts(w)
      PROVE  ~early' /\ \A u \in Workers : pc'[u] # "idle" => rowCount' = input'.rows
  <2>1. /\ Alone(w) /\ version # "threads" /\ ~early
        /\ rowCount' = rowCount /\ input' = input
    BY <1>0, <1>2, WorkerAlone, MainOf DEF Alone, InTime, job, memory
  <2>2. CASE Starts(w)
    <3>1. main \in {"work", "read", "call"} /\ early' = (early \/ main \in {"rows", "cols", "malloc", "copy"})
      BY <2>1, <2>2 DEF Starts, Fork, CallRun, Search, Launch, Begin, Main
    <3>2. ~early'
      BY <2>1, <3>1
    <3>3. rowCount = input.rows
      BY <3>1 DEF GridKnown, GridRead, Working
    <3> QED  BY <2>1, <3>2, <3>3
  <2>3. CASE Looks(w) \/ Ended(w)
    <3>1. pc[w] # "idle" /\ early' = early
      BY <1>0, <2>3, LookOf, EndOf DEF aux
    <3> QED  BY <2>1, <3>1 DEF InTime, Alone
  <2> QED  BY <1>2, <2>2, <2>3 DEF Acts
<1>3. CASE UNCHANGED vars
  BY <1>3 DEF InTime, vars, job, memory, worker, aux
<1> QED  BY <1>1, <1>2, <1>3, Steps

LEMMA AlwaysGridKnown == Spec => []GridKnown
BY InitGridKnown, NextGridKnown, AlwaysTyped, PTL DEF Spec

LEMMA AlwaysInOrder == Spec => []InOrder
BY InitInOrder, NextInOrder, AlwaysTyped, AlwaysGridKnown, PTL DEF Spec

LEMMA AlwaysSwept == Spec => []AllSwept
BY InitAllSwept, NextAllSwept, AlwaysTyped, AlwaysGridKnown, AlwaysInOrder, PTL DEF Spec

LEMMA AlwaysTallied == Spec => []Tally
BY InitTally, NextTally, AlwaysTyped, AlwaysBehind, AlwaysGridKnown, AlwaysInOrder, PTL DEF Spec

LEMMA AlwaysAtEnd == Spec => []AtEnd
BY InitAtEnd, NextAtEnd, AlwaysTyped, AlwaysGridKnown, PTL DEF Spec

LEMMA AlwaysInTime == Spec => []InTime
BY InitInTime, NextInTime, AlwaysTyped, AlwaysGridKnown, PTL DEF Spec

(* A worker copies only rows and columns of the grid, and the workers of   *)
(* assignments 1, 2 and 5 only rows that have been read: for any grid, any *)
(* number of workers and any number of threads in a block.                 *)
THEOREM NoReadBeyond == Spec => []ReadsInside
<1>1. Typed /\ InTime => ReadsInside
  <2> SUFFICES ASSUME Typed, InTime, NEW w \in Workers, pc[w] = "square"
               PROVE  /\ i[w] < input.rows /\ col[w] + Side - 1 < input.cols
                      /\ version # "threads" => i[w] < rowCount
    BY DEF ReadsInside
  <2>1. /\ i[w] \in row[w] .. row[w] + Side - 1 /\ row[w] + Side - 1 < input.rows
        /\ col[w] + Side - 1 < input.cols
        /\ row[w] \in Nat /\ input.rows \in Nat
    BY InputFits DEF Typed, TypeOK, Fits, Inside
  <2>2. i[w] < input.rows
    BY <2>1
  <2> QED  BY <2>1, <2>2 DEF InTime
<1> QED  BY <1>1, AlwaysTyped, AlwaysInTime, PTL

LEMMA AlwaysPrinted == Spec => [](main = "done" /\ ~early => total = Printed)
<1>1. Typed /\ GridKnown /\ InOrder /\ AllSwept /\ Tally /\ AtEnd
        => (main = "done" /\ ~early => total = Printed)
  BY AllCounted
<1> QED  BY <1>1, AlwaysTyped, AlwaysGridKnown, AlwaysInOrder, AlwaysSwept, AlwaysTallied,
     AlwaysAtEnd, PTL

LEMMA OneThreadOwnsAll == Typed /\ numWorker = 1 => FirstOnly = Complete
<1> SUFFICES ASSUME Typed, numWorker = 1 PROVE FirstOnly = Complete
  OBVIOUS
<1>1. \A k \in Nat : k % 1 = 0
  OBVIOUS
<1>2. \A x \in Complete : x[1] \in Nat
  BY FiniteComplete DEF Typed
<1> QED  BY <1>1, <1>2 DEF FirstOnly

(* What the children of assignment 1, the calls of assignment 2 and the    *)
(* kernel of assignment 5 print is the number of the complete squares of   *)
(* the grid, or 0 for `java Square 0', and so is what one thread of        *)
(* assignment 3 prints that begins in time: for any grid, any alphabet,    *)
(* any side of a square and any number of workers.                         *)
THEOREM TheCountIsRight == Spec => []SharesAddUp
<1>1. ASSUME Typed, InTime, main = "done" /\ ~early => total = Printed
      PROVE  SharesAddUp
  <2>1. ASSUME version # "threads" PROVE TotalIsRight
    BY <1>1, <2>1 DEF InTime, Printed, TotalIsRight
  <2>2. ASSUME version = "threads", numWorker = 1, ~early PROVE TotalIsRight
    BY <1>1, <2>2, OneThreadOwnsAll DEF Printed, TotalIsRight
  <2> QED  BY <2>1, <2>2 DEF SharesAddUp
<1> QED  BY <1>1, AlwaysTyped, AlwaysInTime, AlwaysPrinted, PTL

(* What the threads of assignment 3 print when none of them began before   *)
(* the grid was there: the squares of every numWorker-th row, whoever ran  *)
(* when (square.c:117-120, 151).                                           *)
THEOREM FirstThreadCounts ==
  Spec => [](version = "threads" /\ main = "done" /\ ~early => total = Cardinality(FirstOnly))
<1>1. (main = "done" /\ ~early => total = Printed)
        => (version = "threads" /\ main = "done" /\ ~early => total = Cardinality(FirstOnly))
  BY DEF Printed
<1> QED  BY <1>1, AlwaysPrinted, PTL

=============================================================================
