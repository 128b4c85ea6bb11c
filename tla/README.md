# TLA+ models of the CSC 246 projects

The repository holds five operating-systems assignments: small C and Java
programs, each of them about one way in which processes or threads work
together. This directory models the ones that have something to get wrong
between two of them, checks the models with TLC and proves the main properties
with TLAPS.

## 1. The system

| Component | Source | State | Operations | Works with |
|---|---|---|---|---|
| Puzzle server | assignment 1, `server.c` | the board, the two queues it has open, the SIGINT handler | start, receive and answer a command (`up`, `down`, `left`, `right`, `board`, anything else), SIGINT, shutdown | clients, through two POSIX message queues |
| Puzzle client | assignment 1, `client.c` | none that outlives a run | open both queues, send, receive, print | the server; other clients, which share both queues |
| Shared puzzle | assignments 2 and 3, `fifteen.c`, `reset.c` | board and flag in a shared-memory segment, in assignment 3 a named semaphore | `reset`; `fifteen up/down/left/right/board`, `test n` | any number of runs of both, through the words of the segment |
| Pair monitor | assignment 4, `pairMonitor.c` | `first`, `running`, a mutex, per pair two names, `waiting`, `leaving`, two conditions | `enter`, `leave`, `terminate` | the threads of `driver1.c` to `driver3.c` |
| Calculator server | assignment 4, `calcServer.c` | 26 variables, 26 + 1 semaphores, `sock` of `main` | `set`, `print`, arithmetic, `quit`, one thread per connection | its clients, the accept loop (through `&sock`) |
| Square finders | assignments 1 to 3, `square.c`, `Square.java` | the grid, `currentRow`, `currentWorker`, a total | find all 6 x 6 squares that hold the alphabet | worker processes (pipes) or threads (semaphores) |
| Game server | assignment 5, `Server.java`, `Client.java` | the board, users, a session per connection | challenge, session key, commands | one client after the other |
| GPU square finder | assignment 5, `square.cu` | the grid, one result cell per row | one kernel in whole blocks of threads, then the sum | nothing shared |

What is hard, and where:

* **Message queues.** All clients share the queue of replies, replies carry no
  address, both queues hold one message, and a client can be killed between its
  request and its reply. A server that dies leaves its queues behind for the
  next one. SIGINT interrupts moves half way, and blocking calls with EINTR.
* **Shared memory.** Every load and store of a command can interleave with
  those of others and of a reset, a command can be killed between its two
  stores and a reset inside its copy. The copy brings along words of the stack
  that were never set, and the scans read them. The lock exists in one build
  only, and `reset` replaces it at will.
* **The monitor.** `enter` and `leave` take the mutex on every other call only,
  unlock it when they do not hold it, and write after they unlocked it.
* **The calculator.** Every new client initialises all semaphores under the
  others, reads its descriptor late from a variable of `main`, and holds one
  semaphore while it waits for its client's next word. Some commands lock two
  letters, some unlock one too early and another once too often.
* **Dividing rows.** Four programs share out the same rows through counters that
  a worker inherits, resets, or does not reset; in assignment 3 the workers
  begin before the grid exists.
* **Arrays.** The scans look beyond the border of the board, at offsets -1 and
  4, and rely on what lies there.

What makes each part correct: the board is always one the puzzle can have and
moves are the ones commanded; a request gets one answer and answers are not
left to later runs; races lose tiles but neither the last blank nor a tile
over the border; people enter
and leave the room in pairs, and a thread that is out is in no pair; a variable
of the calculator is updated in one piece as long as its lock was left alone; the
workers look at every square they are responsible for, and at none twice.

## 2. The modules

| Module | Role |
|---|---|
| `SlidingPuzzle` | abstract specification: the puzzle as its user sees it |
| `FifteenBoard` | `Board` of `common.h` as C lays it out, and the scan of a move; used by both puzzles |
| `PuzzleServer` | assignment 1: server, clients, queues, signals, kills, restarts |
| `SharedBoard` | assignments 2 and 3: `reset` and `fifteen` word by word, with and without the semaphore |
| `PairRoom` | abstract specification: a room that pairs enter and leave together |
| `PairMonitor` | assignment 4: the monitor, one shared word per step |
| `CalcServer` | assignment 4: the calculator, one access to a semaphore or variable per step |
| `Squares` | assignments 1, 2, 3 and 5: the four square finders |
| `MCPuzzleServer`, `MCSharedBoard`, `MCPairMonitor`, `MCCalcServer`, `MCSquares` | instances for TLC: the sets a `.cfg` chooses from |
| `FifteenBoardProofs` | lemmas about the layout, about one move as memory and user see it, and about parity |
| `PuzzleServerProofs`, `SharedBoardProofs`, `PairMonitorProofs`, `CalcServerProofs`, `SquaresProofs` | theorems about the five state machines |
| `SerialBoardProofs` | theorems about the shared board when its commands run one at a time |
| `PairRoomProofs` | theorems about the monitor as two threads with driver1's timing use it |

Operators whose comment begins with "Mutant" are deliberately wrong versions of
the operator beneath them. Nothing uses them; they document, for each property,
a mistake that the property catches (`PROJECT.json`, "mutants").

### FifteenBoard

`int board[5][5]` is an array of words numbered from its first: `Addr(i, j)` is
`board[i][j]`, and only the `Rows x Cols` squares are initialised. `Offset`
says where a command looks for the blank relative to the square it visits;
`Hits` are the squares that find it there and `FirstHit` is where the loops,
row by row, stop. Words before the array and the padding row and column are part
of the memory, since `board[i - 1][j]` with `i = 0` and `board[i][j + 1]` with
`j = 3` read them.

### PuzzleServer

`spc` is where the server is, `cpc[c]` where client `c` is. A run of the server
has a number, `gen`; a queue it creates has that number too, and a name
(`sname`, `cname`) stands for one queue object or none. This is what lets an old
client hold a queue that the next server has unlinked.

| Code | Action |
|---|---|
| `main`, `mq_unlink`, `mq_unlink`, `mq_open`, `mq_open`, `signal`, `initBoard` | `StartServer` (a new process, with the first unlink), `UnlinkClientQueue`, `OpenServerQueue`, `OpenClientQueue`, `InstallHandler`, `InitBoard` |
| `mq_receive` and the scan, to the first store of a move | `Receive` (`ReceiveMove`, `ReceiveNoMove`) |
| the second store | `Clear` |
| `mq_send` | `SendReply` |
| SIGINT: default action, handler, handler in a blocked call | `KilledBySigint`, `CaughtSigint`, `InterruptedBySigint` |
| the code after the loop | `QuitServerQueue`, `QuitClientQueue` |
| `client.c` | `Invoke`, `ClientOpenServerQueue`, `ClientOpenClientQueue`, `ClientSend`, `ClientSendFails`, `ClientReceive` |
| a client killed | `ClientKilled` |

SIGINT follows the build in the repository: `server` calls `__sysv_signal`, so
the handler is removed when it is called and blocking calls are not restarted.
That makes the code after the loop reachable, although a comment says it is not
(`server.c:263`).

Replies carry two auxiliary fields, for whom and by which run they were
computed; the code's messages carry the text alone and no guard looks at the
fields. A client killed while it waits is `lost` and not run again, so that a
reply never names two runs of one client; other members of `Clients` stand for
later runs.

### SharedBoard

`m` is the memory; `pc[p]` is where process `p` is in `fifteen`. Each load of the
scan (`Probe`), the load of the tile (`Fetch`), the store of the tile (`Store`),
the store of the blank (`Clear`) is a step. `reset` is `StartReset`
(`sem_unlink`), `CreateSemaphore`, one `CopyWord` per word of the struct,
`SetFlag`. `Assignment` selects the version: in assignment 2 `up` looks to the
left, in assignment 3 `up` skips the first row and the semaphore exists. `Safe` is
the build without `-DUNSAFE`, `SemInit` the value `reset` gives the semaphore: 0 in
the code; 1 is allowed so that the lock can be studied as it was meant.

`reset.c:69` assigns a whole struct from the stack, of which `initializeBoard`
has set the squares only. `Struct` are its words: `signal` in front of the array,
the squares, the padding row and column. `Initialized(w)` is what word `w` may be:
the new board in a square, anything in `Residue[w]` elsewhere. `Residue` is a
constant; theorems hold for every one, and the runs take one that never has the
number of the blank (`Quiet`) and one that may have it in the word behind the
first row (`BlankBehind`). `NeverBlank(w)` says that no reset brings a blank
into word `w`, `QuietStack` that none brings one into any word beyond the border. The flag is the `signal` of the third struct of the segment
(`boardMemory[2]`), a word of its own.

Both programs can be killed at any step, `fifteen` by `Kill`, `reset` by
`KillReset`. The auxiliary `torn` says that a kill came between the two stores of
a move or between the first and the last square of a reset; it is cleared when a
later reset has written its last square. A `reset` starts when no other one runs; runs
of `reset` do not overlap.

### PairMonitor

`enter` and `leave` share their labels: `gate`, `close` (with `lock`) and `open`
are the test and set of `first`; `find`, `name0`, `name1` the search; `wait1`,
`full1a`, `full1b`, `come`, `come name`, `sleep`, `asleep` the first loop of
`enter`; `wait2` to `unlock` the second one; `leaving`, `go`, `clear0`, ...,
`reset2` the body of `leave`. A thread is `in` when `enter` returned true, `done`
when it returned false. The mutex is one bit: `pthread_mutex_unlock` on glibc's
default mutex frees it, whoever calls it. A name is one word; its copy by
`strcpy` is one step.

`Staggered` says that the drivers leave whole seconds between calls: a call
begins when every thread has gone as far as it can (`Quiet`). Without it calls
overlap in every way.

A thread whose index is -1 is `wild` and does nothing more: the code then reads
and writes in front of the list, which is not described.

### CalcServer

| Code | Action |
|---|---|
| the accept loop | `Accept`: stores the descriptor in `sock` and creates the thread |
| `initializeSemaphores` | `InitSemaphore`, one semaphore per step; `MakeSound` |
| `sock = *sockP`, `fdopen` | `ReadSock` |
| `sem_wait(&commandLock)`, before the loop and at its end | `AwaitTurn` |
| `fscanf` of the command, `sem_post(&commandLock)`, `fscanf` of the operands | `ReadCommand`, `ReadUnknown`, `ReadMalformed` (`fail` exits for all), `ReadQuit` |
| the branches for `set`, `print` and arithmetic | `LockV`, `LockW`, `LoadV`, `LoadW`, `ReleaseV`, `Store`, `Trap`, `PostW`, `PostV` |
| after the loop | `QuitWait`, `Close` |

Letters are numbers, and `commandLock` is the semaphore behind the last of them.
`sock` is one variable because its stack slot is the same in every round of the
loop. `accept` returns the lowest free descriptor; `conn` says which connection
is behind each. `sem_init` on a semaphore that others wait for is undefined: the
model lets a waiter go on whenever the value is positive, and never requires it.
`sem_destroy` has no effect in glibc, so that it is not a step. An `int` has
`2 * Half` values and wraps around, as the build makes it; division truncates,
and the quotient that does not fit traps.

`sound` is auxiliary: no guard reads it. It holds the semaphores that were
initialised while nobody held them and have not been posted once too often
since. It separates the two ways in which the code breaks its own locks, a
newcomer's initialisation and arithmetic with a number, from everything else,
which must not break them.

An operand that is a number is cut to a `char`, and the code posts the semaphore
with that index. Numbers that are the index of a semaphore are modelled; what
the others overwrite depends on how the program is laid out.

### Squares

`version` selects the program. `ReadRows`, `ReadCols`, `Malloc`, `CopyRow` are
`readGrid` and, in the C threads, may come after a worker has begun;
`RefuseGrid` is its exit when the grid is wider than `MAX_WIDTH`, in C only. A worker
begins with `Fork` (assignment 1), `CallRun` (assignment 2 calls `run`, not
`start`), `Search` (assignment 3, with `sem_wait`) or `Launch` (assignment 5, in
whole blocks; with no rows there are no blocks, the launch is an error and the
program exits, `LaunchFails`). All go through `TestRow`, `TestCol`, `CopySquareRow` once per row
of a square, `CheckSquare`, `NextRow`. They end with `WritePipe` and the
parent's `ReadPipe`, with `Return`, with `Leave` (`sem_post`), or with
`KernelExit` and the host's `AddCell`. `PrintTotal` is the end of `main`, "failed"
its exit with an error, after which no worker takes a step. The programs in C refuse 0
workers; the one in Java does not, so that its `numWorker` may be 0.

A square is kept as the set of its symbols. A row that is being copied shows any
mixture of old bytes (`Nul`) and letters (`Seen`). A grid that is used before
`malloc` is a segmentation fault. In C the test counts different symbols,
whatever they are, in an array with room for the alphabet, so that one symbol
more reads the byte behind it (`Verdicts`). `currentRow` is one variable of all
workers, but each child of assignment 1 has its own copy (`Of`). `scanned` and
`early` are auxiliary.

## 3. The runs

| Run | Question | Bounds and why they are enough | Result |
|---|---|---|---|
| `puzzle_moves` | Is the board always right? | 2 x 3: the smallest board with all four moves, all borders and the parity argument; one client, since the server handles one request at a time; it may be killed, the server stopped at any step. All 360 solvable boards are reached. | holds |
| `puzzle_queues` | What do the queues hold, and does a client finish? | 3 clients, all of them may be killed, 2 runs of the server, capacity 1 as in the code: the jam needs 3 kills, and staleness needs 2 runs. The board is 1 x 2, since no move matters. | holds |
| `puzzle_wrong_reply` | Is a reply for its asker? | 2 clients | violated |
| `shared_race` | What can races do? | 2 processes and 2 resets, all of which may be killed anywhere, word by word, assignment 2 without lock, on a row of 3: both see the blank, carry different tiles and are overtaken by a reset. The word behind the row may get a blank from the stack of either reset. The commands are `down`, `left` and `right`, as `up` is another name of `left` there. | holds |
| `shared_single` | Is one user served right? | 2 x 3, one process, one reset, all commands, `test` with n up to 1 | holds |
| `shared_never` | Does a command end with the lock? | one process, one reset | violated |
| `pair_driver1` | Do staggered calls work? | 2 threads, capacity 1 (driver1), up to 3 visits: from the second on the flag `first` and the mutex start from what the visit before left | holds |
| `pair_races` | What survives races? | 2 threads, capacity 2, 2 visits, terminate, spurious wake-ups | holds |
| `pair_stuck` | Does `leave` return? | driver1's calls, one visit | violated |
| `calc_races` | What do the calculator's locks and updates keep? | 3 connections, 2 letters, ints of 4 values; `MaxWork` 7, a connection counting 2: three clients with one command between them, two with three, or one with five. That is enough for a newcomer under a holder, a deadlock of two, a lock posted twice and then taken twice, and a third connection that gets a used descriptor. | holds |
| `squares` | Is the number right, is a square looked at once and inside the grid, does every program end? | the four versions, up to 3 workers (in Java 0, too), grids of up to 4 rows, squares of 2 x 2, 2 kernel threads per block: workers with two rows, with one and with none, a last block that is not full, a grid too small for a square, one without rows, one wider than `MaxWidth` | holds |
| `squares_threads` | Is the number right in assignment 3? | up to 2 threads, which may begin before the grid is read | violated |

What the passing properties say:

* `TilesConserved`, `StaysSolvable`, `MovesAsCommanded`: no command loses or
  doubles a tile, takes the board out of reach of the solved one, or moves a
  tile in another direction than its name, and "invalid command" is answered
  exactly when there is nothing to move. None of it is visible in the code: it
  depends on the words beyond the border never holding -1.
* `SnapshotComplete`: what the handler prints inside a move has every tile.
* `ImplementsPuzzle`: with `Shown` (the board with the half-made move finished;
  a solved one while no server serves) the server implements `SlidingPuzzle`.
* `ReplyDebt`, `JamNeedsKills`: requests and replies under way are at most as
  many as clients that asked, and exactly as many in the first run; the
  queues jam only when three clients were killed waiting.
* `NoStaleReplies`: unlink-then-create keeps replies of an earlier run from
  clients of a later one. A client that opened one queue of each run is
  excluded, and can indeed get one.
* `ClientsFinish`: in the first run of the server, clients that are killed while
  they wait do not keep another one from its end.
* `WellFormed`, `BlankRemains`: the damage of a race is bounded, whatever a reset
  brings along from its stack. The squares hold tiles or blanks, and a blank
  remains unless a command was killed between its two stores or a reset between its
  first and its last square.
* `TilesStayOnBoard`: whatever races, no tile is moved into a word beyond the
  border where no reset brought a blank along; such a word keeps what a reset put
  into it, even while tiles disappear into another one that did get a blank.
* `ImplementsRoom`, `EntersPaired`, `PartnerWakes`: with driver1's timing the
  monitor is the room that its header promises.
* `LeftIsGone`: no race leaves a name behind or puts one in two pairs.
* `LocksExclude`: a semaphore that is sound counts its holders. Nothing in one
  thread's code shows it, since other threads initialise and post the same
  semaphores.
* `AtomicUpdates`: a command on sound letters stores what it would have computed
  in one step, although it loads both operands before.
* `NoEarlierConnection`: the descriptor that a thread reads late may be that of
  a later connection, never of an earlier one.
* `SharesAddUp`: the number that is printed is the number of complete squares
  (`TotalIsRight`), for the programs that divide the rows through residues modulo
  the number of workers, for the one that has a thread per row, and for a single
  thread of assignment 3 that begins when the grid is there. With no workers at
  all, `java Square 0`, it is 0. For the other threads see section 4.
* `ReadsInside`: a worker copies only squares that lie in the grid, and outside
  assignment 3 only rows that have been read. The kernel threads that rounding
  up adds behind the last row copy nothing.
* `NeverTwice`: the workers never look at a square twice.
* `Ends`: every version prints, except that it refuses a grid that is too wide, or
  in assignment 5 without rows, and that the threads may die of the missing grid.

### Fairness

`puzzle_queues`: the server and every client that runs are scheduled; the kernel
serves blocked senders and receivers of a queue in the order they blocked, hence
strong fairness for the steps of a client (`Proceed`). Starting, signalling and
killing are never required. `shared_single`, `shared_never`: processes that were
started are scheduled; nobody has to start one. `pair_driver1`, `pair_stuck`:
threads are scheduled, and make the calls of the driver. Without `Terminates`
nothing is terminated. `squares`: `main` and every worker that was started are
scheduled. `calc_races` states no fairness, since none of its properties needs
any: with the deadlocks of section 4 no command is sure to end. `FairSpec` of
`CalcServer` is for `QuitCloses` alone: the server's threads are scheduled, a
client need not say anything, and that it does quit is part of the property.

The runs with `CHECK_DEADLOCK FALSE` are those whose system really stops: the
server killed for good with `MaxGen` used up, threads that made all their calls,
commands that wait for the semaphore, clients of the calculator that quit or
wait for each other's letters, a square finder that has printed.

## 4. Where code and documentation disagree

With a run and a counterexample (`PROJECT.json`, "findings"):

1. Concurrent clients take each other's replies (`puzzle_wrong_reply`).
2. The build with the semaphore blocks for ever (`shared_never`).
3. `leave()` may not return (`pair_stuck`).
4. "Total number of complete squares we've found" (assignment 3, `square.c:45`):
   the threads may print another number (`squares_threads`). One that begins
   before the grid is read counts too little, too much (a zero byte counts as a
   symbol), or crashes. Even when none begins so early, they count only every
   `numWorker`-th row, since the first leaves `currentRow` behind the last row
   (`square.c:151`): what they print is then always what the first thread found
   (`FirstThreadCounts`).

Confirmed with TLC by changing the constants or the property of a run, without a
run of their own:

* `up` of assignment 2 looks left (`fifteen.c:62`) and moves a tile to the left:
  `MovesAsCommanded` fails in `shared_single` with `Assignment = 2` and `Commands <- Moves`.
* A full room makes `enter()` use `pairList[-1]`, where `pairMonitor.h:23-24` says
  that it waits: `NeverWild` fails in `pair_driver1` with five threads and
  capacity 2. It happens to the fifth person of driver2.
* "handle a client connection, close it when we're done" (`calcServer.c:59`): a
  client that quits holds `commandLock` and waits for it again
  (`calcServer.c:190`, `193`). It is not disconnected, and others wait with it until
  a newcomer initialises the semaphore: `QuitCloses` fails in `calc_races` under
  `FairSpec`, with a single connection.
* `terminate()` makes a thread that waits in `enter()` return true without a
  partner (`pairMonitor.h:25-28` says false), lets a thread leave alone, and
  can miss one that has tested `running` but does not wait yet.
* Overlapping calls of `enter()` can lose the wake-up, or leave a thread waiting
  for a mutex that nobody will unlock.
* `set a a` waits for itself; `set a b` and `divide b a` take two locks in
  opposite orders and can wait for each other for ever.
* With a number as operand the lock is released before the store and posted
  once more afterwards: an update is lost, and then two threads hold the lock.
  `AtomicUpdates` without its conditions fails.
* Two connections accepted in quick succession can be served by two threads on
  the second one, and the first gets no prompt.
* A client that sends nothing holds `commandLock`, and all others wait.
* When the stack of `reset` holds -1 where the padding is, a command moves a tile
  off the board into it: `TilesStayOnBoard` without its condition `NeverBlank` fails in
  `shared_race`.

## 5. The proofs

All constants are arbitrary: any board size, number of clients, processes,
queue capacity, runs, resets, threads, pairs, letters, width of int, commands,
grids and workers (`BoardSize`, `ServerConstants`, `FiniteClients`,
`SharedConstants`, `MonitorConstants`, `CalcConstants`, `SquaresConstants`). So
what is proved holds for the sizes of the code, the 4 x 4 board, 26 letters and
squares of 6 x 6, which TLC cannot exhaust. Every invariant, action property and
refinement of a passing run is a theorem. Those of `SerialBoardProofs` and
`PairRoomProofs` are false in general and are proved under a hypothesis that says
in which use they hold.

`FifteenBoardProofs`: squares have distinct words and the scans stay within
`Words`; the first hit of a scan exists and is a square; the new board is
`Permuted`; a hit on a `Permuted` board lies next to a blank that is a square of
the board, never padding (`HitIsInside`), and the move keeps the board
`Permuted` (`MoveKeepsTiles`). For the user, the square beside the blank from
which a command takes its tile (`Giver`) is on the board exactly when the scan
hits, and then it is what the scan hits (`GiverIsHit`); the two stores exchange
it with the blank (`MovedView`). `ExchangeIsOdd` is about any finite set of
squares in a line: exchanging the largest content with another one changes the
parity of the number of inverted pairs. To the two counts, before and after, each
square between the two contributes two pairs with them, and the two squares
themselves contribute one; a bijection matches all other pairs.

`PuzzleServerProofs`:

* `TypeInv` adds to `TypeOK` what the descriptors and names are at each point of
  the programs (`Descriptors`): without it a queue could be indexed with 0.
* `Names`: no name or descriptor refers to a run that has not begun, and a
  client that holds one queue of the newest run can only get the other one of
  that run. `Fresh`: queues that have not been created are empty. `Debt`: the
  count of `ReplyDebt`, from the moment both queues are open. `ReplyDebt` alone
  is not inductive: clients can send while the server still installs its handler,
  and a client might hold a queue before it exists.
* `Stamped`: every reply carries the number of the run whose queue it is in.
  With `Names` it gives `NoStaleReplies`.
* `TilesConserved` is inductive together with `TypeInv`. It gives
  `SnapshotComplete`, and `ServerImplementsPuzzle` maps every action to a slide
  (`Receive` of a move, which `Settled` shows as complete), a new game (a server
  that ends or begins) or a stutter.
* `MovesAsCommanded` follows from `GiverIsHit` in the states of `TilesConserved`.
* `StaysSolvable` is proved of the abstract puzzle: `PuzzleKeepsParity` shows that
  each step of `SlidingPuzzle` keeps `IsPermutation` and `Solvable`, since a slide
  changes the parity of the inversions (`ExchangeIsOdd`) and that of the distance
  of the blank from its home. The server has it because it implements the puzzle.

`SharedBoardProofs`: the invariant is the conjunction of

* `TypeOK`;
* `Locks`: no process has opened a semaphore that is not created yet (`Names`),
  and one that a process holds is 0 and held by no other (`Holders`);
* `Scans`: past its probe, the square a process looks at and the one it moves to
  are squares of the board, and the tile it carries is a tile or the blank;
* `Copied`: what a reset has written of the squares so far are tiles or the blank;
* `WellFormed` and `TilesStayOnBoard`, which is what keeps a scan from finding a
  blank in a word beyond the border where no reset brought one;
* `LastBlank`: `BlankRemains`, also between the last square that a reset writes
  and its flag, where nothing but the copied board guarantees a blank.

`Residue` is arbitrary in all of them. The condition of `TilesStayOnBoard`
(`NoTileLeaves`), `NeverBlank`, is one on each word.

`SerialBoardProofs` supposes `Serial`: assignment 3, at most one reset, a
`QuietStack`, nobody killed but perhaps the reset, and either a single process or the build with the lock and a semaphore
that begins with 1. Each part is needed: assignment 2 looks the wrong way for
`up`, a reset overwrites a move, a killed command leaves two copies of a tile, and
without the lock two moves overlap. The first alternative is what `shared_single`
checks. `OneMover` then follows from the invariant of `SharedBoardProofs`: one
process is inside a move. `SerialInv` adds to that invariant

* `ResetOver` and `NewGameCopied`: once the flag is set no reset writes any more,
  and what it has written before is the new game;
* `InOrder`: the board, with the move under way finished (`Settled`), is
  `Permuted`;
* `Tells`: what the process has seen is still true. The squares that its scan has
  passed have no blank beside them, the one it found has, and the tile it loaded
  is still there.

`Tells` makes the word-by-word scan as good as the one look at the whole board
that the abstract puzzle takes: `Store` is the slide, every other step a stutter
(`ImplementsPuzzle`), `Store` moves the tile that the command names
(`MovesAsCommanded`), and a scan that ends without a hit has no tile to move
(`GivesUpRightly`).

`PairMonitorProofs`:

* `Typed` splits `TypeOK` by thread: `Fits(p)` says which labels belong to which
  call and where an index may be -1 or one too large.
* `Placed` says for each label in which pair the thread's name may stand
  (`Where`), and while `leave` still searches, that it stands at or behind the
  pair it is looking at. `Apart` says that no name is in two pairs. Together they
  are inductive although the mutex keeps nobody out: only its own thread writes
  a name (`NameWritten`), and always into the pair on which it works.
  `LeftIsGone` alone is not inductive: it says nothing of a thread that is in
  `leave`.

`PairRoomProofs` supposes `Driver1(p, q)`: two threads, calls that do not overlap
(`Staggered`), no `terminate`, no spurious wake-up. The capacity of the room and the
number of visits are arbitrary. The invariant `RoomInv` says that the two only
ever use pair 0 (`Rest`) and that they are, in one order or the other, on one of
nine stretches of the way through it: `Empty`, `FirstComes`, `SecondComes`,
`Paired`, `FirstLeaves`, `Overtakes`, `SecondLeaves`, `Part` and `Stuck`. Each fixes
the labels of both threads, the flag, the mutex, the names and the sets of
sleepers to one another. `Overtakes` is the case in which the mutex was left
locked by `enter`, so that the first to leave waits for it and the second passes it;
`Stuck` is the one behind `pair_stuck`, where a thread sleeps in `leave` for
ever and the other one may come and go alone up to its next `enter`. From it
follow `EntersPaired`, that these two always find their pair, and the refinement of `PairRoom`: its steps are
the store of a pair's second name, the call of `leave`, and the store that clears
the first name.

`CalcServerProofs`:

* `TypeInv` is `TypeOK` with the `Shape` of commands: which of them can be at
  which label.
* `Sems` is `LocksExclude` with `Closing` (a thread that closes its connection
  holds `commandLock` twice, so `commandLock` is not sound), `Doubled` (the same for a command that has locked one letter
  twice) and `Numbered` (threads are numbered as they are created). Without the
  first two a release could free a semaphore that still has a holder.
* `Coherent` says that what a command has loaded from a sound letter it still
  holds is what the variable has. It gives `AtomicUpdates`.
* `Conns` adds to `NoEarlierConnection` that `sock` is the descriptor of the last
  connection, unless that one is closed.

`SquaresProofs`:

* `Typed` is `TypeOK` with `Sizes` (how far `main` has read the grid), `Fits` (a
  square that is copied lies in the grid) and `Turn`: apart from the GPU's, one
  worker is active at a time, at the row that the shared counters tell.
* `InTime`: but for the threads of assignment 3, no worker begins before the whole
  grid is read. With `Fits` it gives `ReadsInside`.
* `Behind` says that what was scanned lies behind the workers, in the order in
  which each version divides the rows: a row per kernel thread (`BehindRow`),
  row after row for the threads (`BehindLast`), residues modulo `numWorker` for
  children and `run` (`BehindTurn`). `NotBehind` shows that a square about to be
  checked does not, which for residues is `RowsDivided`: `u + k * n = v + m * n`
  has one solution. `NeverTwice` follows.

* The printed number needs four more invariants, all of them for runs in which no
  worker began before the grid was read (`early`):
  * `GridKnown`: a worker's copy of its square is that of the whole grid, row by
    row (`Copied`). `VerdictIsRight` concludes that the test finds exactly the
    complete squares: in Java by the definition, in C because a set of letters as
    large as the alphabet is the alphabet.
  * `InOrder`: a worker begins where its predecessors left the shared counters:
    children and `run` at row 0 plus their number, the first thread at 0 and the
    later ones behind the last row, the host's sum after the kernel.
  * `AllSwept`: behind a worker no square of its rows is left out (`Mine`); that
    the residues modulo `numWorker` leave no row between two turns is
    `NoRowBetween`.
  * `Tally`: what a worker found, and what `main` has added up, are the numbers
    of complete squares that were scanned and belong to it, or to the workers
    before `currentWorker`. Since no square is scanned twice (`NotBehind`), each
    find adds one to a cardinality.

  At the end (`AtEnd`) all workers are done and summed up, so that the scanned
  complete squares are all that there are, or in assignment 3 those of the first
  worker (`FirstThreadCounts`), which are all if it is the only one. Together this
  is `SharesAddUp` (`TheCountIsRight`); but for assignment 3, `InTime` takes the
  place of the condition on `early`.

Only model-checked: liveness (`ClientsFinish`, `CommandsFinish`, `PartnerWakes`,
`Ends`). Its proofs need ENABLED of the actions whose fairness is assumed and
induction over the steps that remain, which are out of the prover's reach.

## 6. Not modelled

* Text: formatting of the board, the uninitialised buffer of `boardCommand`, the
  unterminated strings, wrong numbers of arguments.
* `fifteen board` while others move: it reads word by word and may print a torn
  board; it changes nothing.
* Reordering of stores by the processor: x86 keeps stores in order, and loads of
  the scans that pass older stores of the same process meet the same words.
* The order in which a reset copies the words of the struct is the ascending one;
  the compiler may copy several at a time, or in blocks.
* Two runs of `reset` at the same time.
* The monitor after an access to `pairList[-1]`, `destroyPairMonitor`, the
  reports of the drivers and their exact timetables.
* The calculator's operands that are longer than their buffers or no index of a
  semaphore, broken connections (SIGPIPE), and failures of `accept` and
  `pthread_create`.
* Children of the square finder that are killed, failing `pipe` and `fork`, the
  report of positions.
* The game server of assignment 5. It decodes the first command of a session as
  Base64 from what `toString` makes of a byte array, `[B@...`, which throws, and
  the exception ends the only thread (`Server.java:185-187`). So its command loop
  is never reached, and what is before it, one handshake after the other, shares
  no state between clients.

## 7. Plan

Done: all components that can be reached, with their runs, and a theorem for every
invariant, action property and refinement that a passing run checks.

Left:

1. The calculator with operands that are no index of a semaphore, once the
   layout of its globals is fixed by a build.
2. The pair monitor with more than two threads under driver1's timing, as long as
   the room is not full: the nine stretches once per pair.
