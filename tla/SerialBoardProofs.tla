--------------------------- MODULE SerialBoardProofs ---------------------------
(***************************************************************************)
(* What is proved about the shared board of assignment 3 when its commands *)
(* run one at a time: because one user runs them, or because every move is *)
(* behind a semaphore that ./reset created with the value 1.  The words in *)
(* memory, written one by one, then are the sliding puzzle, and a command  *)
(* does what its name says.  Nothing stops a reset from overwriting a move *)
(* or repairs the board after a command that is killed halfway, so one     *)
(* reset is made and no command is killed; and no tile can be moved off    *)
(* the board as long as the stack of ./reset does not hold the number of   *)
(* the blank in the words that it copies along.                            *)
(***************************************************************************)
EXTENDS SharedBoardProofs

Serial ==
  /\ Assignment = 3 /\ Mortal = {} /\ MaxResets <= 1 /\ QuietStack
  /\ (\A p, q \in Procs : p = q) \/ (Safe /\ SemInit = 1)

(* The command that a process carries out. *)
Command(p) == Head(todo[p])

(* Once the flag is set the reset is over. *)
ResetOver == flag => rpc = "idle" /\ resets = MaxResets

(* The squares that the reset has written are those of a new game. *)
NewGameCopied == ~flag => \A a \in Cells : a < rat => m[a] = NewBoard(0)[a]

(* The board in memory once the move under way, if there is one, is over.  *)
InOrder == flag => Permuted(Settled)

(* What a command has learned of the board and still relies on. *)
ScanTells(p) ==
  /\ pc[p] = "probe" =>
       \A k \in 0 .. at[p] - 1 :
         k >= ScanFrom(Command(p)) => m[Square(k) + Offset(Command(p))] # Blank
  /\ pc[p] \in {"fetch", "store"} => m[There(p)] = Blank
  /\ pc[p] = "store" => tile[p] = m[Here(p)]

Tells == \A p \in Procs : ScanTells(p)

SerialInv == ResetOver /\ NewGameCopied /\ InOrder /\ Tells

Steps(p) == Invoke(p) \/ Step(p) \/ Kill(p)

-----------------------------------------------------------------------------
(* One command at a time *)

LEMMA OneMover ==
  ASSUME Serial, Inv, NEW p \in Procs, NEW q \in Procs, pc[p] \in InMove, pc[q] \in InMove
  PROVE  p = q
<1>1. CASE \A x, y \in Procs : x = y
  BY <1>1
<1>2. CASE Safe
  <2>1. lk[p] \in Resets /\ lk[q] \in Resets
    BY <1>2 DEF Inv, Locks, Holders
  <2>2. lk[p] = lk[q]
    BY <2>1, Bounds DEF Serial, Resets
  <2> QED BY <1>2, <2>2 DEF Inv, Locks, Holders
<1> QED BY <1>1, <1>2 DEF Serial

(* Inside a move: the command, the squares it works on, and the flag. *)
LEMMA InsideMove ==
  ASSUME Serial, Inv, NEW p \in Procs, pc[p] \in InMove
  PROVE  /\ todo[p] \in Seq(Moves) /\ todo[p] # <<>> /\ Command(p) \in Moves
         /\ There(p) = Here(p) + Offset(Command(p))
         /\ flag
<1>1. todo[p] \in Seq(Moves) /\ todo[p] # <<>>
  BY DEF Inv, TypeOK, Scans
<1>2. Command(p) \in Moves
  BY <1>1, HeadTailProperties DEF Command
<1>3. Look(Command(p)) = Offset(Command(p))
  BY DEF Serial, Look
<1>4. flag
  BY DEF Inv, WellFormed, InMove
<1> QED BY <1>1, <1>2, <1>3, <1>4 DEF There, Command

LEMMA MovingSquare ==
  ASSUME Serial, Inv, NEW p \in Procs, pc[p] \in Moving
  PROVE  Here(p) \in Cells /\ Here(p) \in Words /\ There(p) \in Cells /\ There(p) \in Words
<1>1. at[p] \in 0 .. Size - 1 /\ There(p) \in Words
  BY SizeNat DEF Inv, TypeOK, Scans
<1>2. There(p) \in Cells
  <2>1. There(p) \notin Cells => NeverBlank(There(p))
    BY <1>1 DEF Serial, QuietStack
  <2> QED BY <2>1 DEF Inv, Scans
<1> QED BY <1>1, <1>2, SquareCell, ReachesWords DEF Here

(* Nobody but the process inside a move writes to an initialised board. *)
LEMMA QuietSteps ==
  ASSUME Serial, Inv, SerialInv, Next, flag
  PROVE  \E p \in Procs : Steps(p) /\ UNCHANGED <<flag, resetVars>>
<1>1. ~StartReset /\ ~ResetStep /\ ~KillReset
  <2>1. rpc = "idle" /\ resets = MaxResets /\ MaxResets \in Nat
    BY Bounds DEF SerialInv, ResetOver
  <2> QED BY <2>1 DEF StartReset, ResetStep, CreateSemaphore, CopyWord, SetFlag, KillReset
<1>2. PICK p \in Procs : Steps(p)
  BY <1>1 DEF Next, Steps
<1>3. UNCHANGED <<flag, resetVars>>
  BY <1>2 DEF Steps, Invoke, Step, Kill, CheckFlag, OpenLock, Begin, Probe, Fetch, Store, Clear, End,
              boardVars
<1> QED BY <1>2, <1>3

(* What a step of a process does to the others, and to the board. *)
LEMMA OwnSteps ==
  ASSUME Inv, NEW p \in Procs, Steps(p)
  PROVE  /\ \A q \in Procs \ {p} : /\ pc'[q] = pc[q] /\ todo'[q] = todo[q]
                                   /\ at'[q] = at[q] /\ tile'[q] = tile[q]
         /\ UNCHANGED m \/ Store(p) \/ Clear(p)
<1>0. /\ todo \in [Procs -> Seq(Moves)] /\ at \in [Procs -> 0 .. Size] /\ tile \in [Procs -> Int]
      /\ pc \in [Procs -> {"idle", "check", "open", "next", "probe", "fetch", "store", "clear", "end"}]
  BY DEF Inv, TypeOK
<1>1. ASSUME NEW q \in Procs \ {p}
      PROVE  /\ pc'[q] = pc[q] /\ todo'[q] = todo[q]
             /\ at'[q] = at[q] /\ tile'[q] = tile[q]
  BY <1>0 DEF Steps, Invoke, Step, Kill, CheckFlag, OpenLock, Begin, Probe, Fetch, Store, Clear, End,
              Exit, Goto
<1>2. UNCHANGED m \/ Store(p) \/ Clear(p)
  BY DEF Steps, Invoke, Step, Kill, CheckFlag, OpenLock, Begin, Probe, Fetch, End, boardVars
<1> QED BY <1>1, <1>2

-----------------------------------------------------------------------------
(* The settled board *)

LEMMA SettledAtRest ==
  ASSUME Inv, \A p \in Procs : pc[p] # "clear"
  PROVE  Settled = m
BY DEF Settled, Inv, TypeOK

LEMMA SettledMidway ==
  ASSUME Serial, Inv, NEW p \in Procs, pc[p] = "clear"
  PROVE  Settled = [m EXCEPT ![Here(p)] = Blank]
<1>1. \A q \in Procs : pc[q] = "clear" => q = p
  BY OneMover DEF InMove
<1>2. Settled = [w \in Words |-> IF w = Here(p) THEN Blank ELSE m[w]]
  BY <1>1 DEF Settled
<1>3. m \in [Words -> Int]
  BY DEF Inv, TypeOK
<1> QED BY <1>2, <1>3

(* Before the first store of a move: its target is the blank, and the      *)
(* store and the one that follows exchange the two.                        *)
LEMMA StoreSettles ==
  ASSUME Serial, Inv, SerialInv, Inv', NEW p \in Procs, Store(p)
  PROVE  /\ Settled = m /\ Permuted(m) /\ m \in [Words -> Int] /\ flag
         /\ Command(p) \in Moves
         /\ Here(p) \in Hits(m, Offset(Command(p)))
         /\ There(p) = Here(p) + Offset(Command(p))
         /\ Settled' = Moved(m, Here(p), There(p))
<1>1. pc[p] = "store" /\ pc' = [pc EXCEPT ![p] = "clear"] /\ m' = [m EXCEPT ![There(p)] = tile[p]]
      /\ UNCHANGED <<todo, at, flag>>
  BY DEF Store, Goto
<1>2. pc[p] \in InMove /\ pc[p] \in Moving
  BY <1>1 DEF InMove, Moving
<1>3. \A q \in Procs : pc[q] # "clear"
  BY <1>1, <1>2, OneMover DEF InMove
<1>4. Settled = m
  BY <1>3, SettledAtRest
<1>5. m \in [Words -> Int] /\ flag /\ Permuted(m)
  BY <1>2, <1>4, InsideMove DEF Inv, TypeOK, SerialInv, InOrder
<1>6. Command(p) \in Moves /\ There(p) = Here(p) + Offset(Command(p)) /\ Here(p) \in Cells
  BY <1>2, InsideMove, MovingSquare
<1>7. m[There(p)] = Blank /\ tile[p] = m[Here(p)]
  BY <1>1 DEF SerialInv, Tells, ScanTells
<1>8. Here(p) \in Hits(m, Offset(Command(p)))
  BY <1>6, <1>7 DEF Hits
<1>9. Settled' = Moved(m, Here(p), There(p))
  <2>1. pc'[p] = "clear"
    BY <1>1 DEF Inv, TypeOK
  <2>2. Settled' = [m' EXCEPT ![Here(p)'] = Blank]
    <3>1. \A q \in Procs : pc'[q] = "clear" => q = p
      BY <1>1, <1>3 DEF Inv, TypeOK
    <3>2. Settled' = [w \in Words |-> IF w = Here(p)' THEN Blank ELSE m'[w]]
      BY <2>1, <3>1 DEF Settled
    <3>3. m' \in [Words -> Int]
      BY DEF Inv, TypeOK
    <3> QED BY <3>2, <3>3
  <2>3. Here(p)' = Here(p)
    BY <1>1 DEF Here
  <2> QED BY <1>1, <1>7, <2>2, <2>3 DEF Moved
<1> QED BY <1>4, <1>5, <1>6, <1>8, <1>9

(* What each step does to the settled board. *)
LEMMA SettledCases ==
  ASSUME Serial, Inv, SerialInv, Inv', Next
  PROVE  \/ ~flag /\ ~flag'
         \/ /\ ~flag /\ flag' /\ Settled' = m
            /\ \A a \in Cells : m[a] = NewBoard(0)[a]
         \/ flag /\ flag' /\ Settled' = Settled
         \/ flag /\ flag' /\ \E p \in Procs : Store(p)
<1>1. CASE ~flag
  <2>1. SUFFICES ASSUME flag' PROVE Settled' = m /\ \A a \in Cells : m[a] = NewBoard(0)[a]
    BY <1>1
  <2>2. SetFlag
    BY <1>1, <2>1 DEF Next, ResetStep, StartReset, CreateSemaphore, CopyWord, KillReset, boardVars,
                Invoke, Step, Kill, CheckFlag, OpenLock, Begin, Probe, Fetch, Store, Clear, End
  <2>3. rat = Past /\ UNCHANGED <<m, pc, at>>
    BY <2>2, StructWords DEF SetFlag, Struct, Inv, TypeOK, procVars
  <2>4. \A a \in Cells : m[a] = NewBoard(0)[a]
    BY <1>1, <2>3, StructWords DEF SerialInv, NewGameCopied
  <2>5. \A p \in Procs : pc[p] # "clear"
    BY <1>1 DEF Inv, WellFormed
  <2>6. Settled' = Settled
    BY <2>3 DEF Settled, Here
  <2> QED BY <2>4, <2>5, <2>6, SettledAtRest
<1>2. CASE flag
  <2>1. PICK p \in Procs : Steps(p) /\ UNCHANGED <<flag, resetVars>>
    BY <1>2, QuietSteps
  <2>2. SUFFICES ASSUME ~Store(p) PROVE Settled' = Settled
    BY <1>2, <2>1
  <2>3. /\ \A q \in Procs \ {p} : pc'[q] = pc[q] /\ at'[q] = at[q]
        /\ UNCHANGED m \/ Clear(p)
    BY <2>1, <2>2, OwnSteps
  <2>4. CASE Clear(p)
    <3>1. pc[p] = "clear" /\ pc' = [pc EXCEPT ![p] = "end"] /\ m' = [m EXCEPT ![Here(p)] = Blank]
      BY <2>4 DEF Clear, Goto
    <3>2. \A q \in Procs : pc'[q] # "clear"
      BY <3>1, OneMover DEF InMove, Inv, TypeOK
    <3>3. Settled' = m'
      <4>1. m' \in [Words -> Int]
        BY DEF Inv, TypeOK
      <4> QED BY <3>2, <4>1 DEF Settled
    <3> QED BY <3>1, <3>3, SettledMidway
  <2>5. CASE UNCHANGED m /\ ~Clear(p)
    <3>1. pc[p] # "clear" /\ pc'[p] # "clear"
      <4>1. ~Kill(p)
        BY DEF Kill, Serial
      <4>2. pc \in [Procs -> {"idle", "check", "open", "next", "probe", "fetch", "store", "clear", "end"}]
        BY DEF Inv, TypeOK
      <4> QED BY <2>1, <2>2, <2>5, <4>1, <4>2
              DEF Steps, Invoke, Step, CheckFlag, OpenLock, Begin, Probe, Fetch, End, Exit, Goto
    <3>2. \A q \in Procs : (pc'[q] = "clear" <=> pc[q] = "clear") /\ (pc[q] = "clear" => Here(q)' = Here(q))
      BY <2>3, <3>1 DEF Here
    <3> QED BY <2>5, <3>2 DEF Settled
  <2> QED BY <2>3, <2>4, <2>5
<1> QED BY <1>1, <1>2 DEF Inv, TypeOK

(* The board of a new game, and padding that does not look like the blank. *)
LEMMA CopiedIsPermuted ==
  ASSUME Serial, Inv, \A a \in Cells : m[a] = NewBoard(0)[a]
  PROVE  Permuted(m) /\ View(m) = View(NewBoard(0))
<1>1. Permuted(NewBoard(0))
  BY NewBoardPermuted DEF Blank
<1>2. \A w \in Words \ Cells : m[w] # Blank
  <2>1. ASSUME NEW w \in Words \ Cells PROVE m[w] # Blank
    <3>1. NeverBlank(w)
      BY DEF Serial, QuietStack
    <3>2. m[w] = 0 \/ (w \in Struct /\ m[w] \in Residue[w])
      BY <3>1 DEF Inv, TilesStayOnBoard
    <3> QED BY <3>1, <3>2 DEF Blank, NeverBlank
  <2> QED BY <2>1
<1>3. Permuted(m)
  BY <1>1, <1>2 DEF Permuted
<1>4. View(m) = View(NewBoard(0))
  <2>1. \A q \in Squares : View(m)[q] = View(NewBoard(0))[q]
    BY ViewAt, WordCell
  <2>2. /\ View(m) = [q \in Squares |-> View(m)[q]]
        /\ View(NewBoard(0)) = [q \in Squares |-> View(NewBoard(0))[q]]
    BY DEF View, Squares
  <2> QED BY <2>1, <2>2
<1> QED BY <1>3, <1>4

-----------------------------------------------------------------------------
(* The invariant *)

LEMMA ResetOverStep == ASSUME Serial, Inv, SerialInv, Next PROVE ResetOver'
<1>1. CASE flag
  <2>1. UNCHANGED <<flag, resetVars>>
    BY <1>1, QuietSteps
  <2> QED BY <2>1 DEF SerialInv, ResetOver, resetVars
<1>2. CASE ~flag /\ ~flag'
  BY <1>2 DEF ResetOver
<1>3. CASE ~flag /\ flag'
  <2>1. SetFlag
    BY <1>3 DEF Next, ResetStep, StartReset, CreateSemaphore, CopyWord, KillReset, boardVars,
                Invoke, Step, Kill, CheckFlag, OpenLock, Begin, Probe, Fetch, Store, Clear, End
  <2>2. rpc = "copy" /\ rpc' = "idle" /\ resets' = resets
    BY <2>1 DEF SetFlag
  <2>3. resets \in 1 .. MaxResets
    BY <2>2 DEF Inv, Locks, Names, Resets
  <2>4. resets = MaxResets
    BY <2>3, Bounds DEF Serial
  <2> QED BY <2>2, <2>4 DEF ResetOver
<1> QED BY <1>1, <1>2, <1>3

LEMMA NewGameCopiedStep == ASSUME Serial, Inv, SerialInv, Next PROVE NewGameCopied'
<1> SUFFICES ASSUME ~flag' PROVE NewGameCopied'
  BY DEF NewGameCopied
<1>1. ~flag
  BY DEF Next, ResetStep, StartReset, CreateSemaphore, CopyWord, SetFlag, KillReset, boardVars,
         Invoke, Step, Kill, CheckFlag, OpenLock, Begin, Probe, Fetch, Store, Clear, End
<1>2. \A a \in Cells : a < rat => m[a] = NewBoard(0)[a]
  BY <1>1 DEF SerialInv, NewGameCopied
<1>3. CASE StartReset \/ SetFlag \/ KillReset
  <2>1. rat' = Signal
    BY <1>3 DEF StartReset, SetFlag, KillReset, Inv, Copied
  <2>2. \A a \in Cells : ~(a < Signal)
    BY StructWords DEF Signal
  <2> QED BY <2>1, <2>2 DEF NewGameCopied
<1>4. CASE CreateSemaphore
  BY <1>2, <1>4 DEF CreateSemaphore, NewGameCopied, boardVars
<1>5. CASE CopyWord
  <2>1. PICK v \in Initialized(rat) : m' = [m EXCEPT ![rat] = v]
    BY <1>5 DEF CopyWord
  <2>2. /\ rat \in Struct /\ rat \in Words /\ rat \in Int /\ rat' = rat + 1 /\ m \in [Words -> Int]
        /\ Cells \subseteq Words /\ \A a \in Cells : a \in Int
    BY <1>5, StructWords DEF CopyWord, Struct, Inv, TypeOK
  <2>3. rat \in Cells => v = NewBoard(0)[rat]
    BY <2>1 DEF Initialized
  <2>4. ASSUME NEW a \in Cells, a < rat' PROVE m'[a] = NewBoard(0)[a]
    <3>1. CASE a = rat
      BY <2>1, <2>2, <2>3, <3>1
    <3>2. CASE a # rat
      <4>1. a < rat /\ m'[a] = m[a]
        BY <2>1, <2>2, <2>4, <3>2
      <4> QED BY <1>2, <4>1
    <3> QED BY <3>1, <3>2
  <2> QED BY <2>4 DEF NewGameCopied
<1>6. ASSUME NEW p \in Procs, Steps(p) PROVE NewGameCopied'
  <2>1. UNCHANGED <<m, rat>>
    <3>1. ~Store(p) /\ ~Clear(p)
      BY <1>1 DEF Store, Clear, Inv, WellFormed
    <3>2. UNCHANGED rat
      BY <1>6 DEF Steps, Invoke, Step, Kill, CheckFlag, OpenLock, Begin, Probe, Fetch, Store, Clear, End,
                  resetVars
    <3> QED BY <1>6, <3>1, <3>2, OwnSteps
  <2> QED BY <1>2, <2>1 DEF NewGameCopied
<1> QED BY <1>3, <1>4, <1>5, <1>6 DEF Next, ResetStep, Steps

LEMMA InOrderStep == ASSUME Serial, Inv, SerialInv, Inv', Next PROVE InOrder'
<1>1. CASE ~flag'
  BY <1>1 DEF InOrder
<1>2. CASE Settled' = m /\ \A a \in Cells : m[a] = NewBoard(0)[a]
  <2>1. Permuted(m)
    BY <1>2, CopiedIsPermuted
  <2> QED BY <1>2, <2>1 DEF InOrder, Permuted
<1>3. CASE flag /\ Settled' = Settled
  BY <1>3 DEF SerialInv, InOrder, Permuted
<1>4. ASSUME NEW p \in Procs, Store(p) PROVE InOrder'
  <2> DEFINE a == Here(p)
             b == There(p)
  <2>1. /\ Permuted(m) /\ m \in [Words -> Int] /\ Command(p) \in Moves
        /\ a \in Hits(m, Offset(Command(p))) /\ b = a + Offset(Command(p))
        /\ Settled' = Moved(m, a, b)
    BY <1>4, StoreSettles
  <2> HIDE DEF a, b
  <2>2. a \in Cells /\ b \in Cells /\ a # b /\ m[b] = Blank
    BY <2>1, HitIsInside
  <2>3. Permuted(Moved(m, a, b))
    BY <2>1, <2>2, MoveKeepsTiles
  <2> QED BY <2>1, <2>3 DEF InOrder, Permuted
<1> QED BY <1>1, <1>2, <1>3, <1>4, SettledCases

LEMMA SameScan ==
  ASSUME NEW p \in Procs, ScanTells(p), UNCHANGED m,
         pc'[p] = pc[p], todo'[p] = todo[p], at'[p] = at[p], tile'[p] = tile[p]
  PROVE  ScanTells(p)'
BY DEF ScanTells, Command, There, Here

(* A command's own steps: each probe that does not find the blank tells it *)
(* something, the one that does leaves its place to the two stores.        *)
LEMMA OwnScan ==
  ASSUME Serial, Inv, NEW p \in Procs, ScanTells(p), Steps(p)
  PROVE  ScanTells(p)'
<1>0. /\ at \in [Procs -> 0 .. Size] /\ tile \in [Procs -> Int]
      /\ pc \in [Procs -> {"idle", "check", "open", "next", "probe", "fetch", "store", "clear", "end"}]
  BY DEF Inv, TypeOK
<1>1. CASE pc'[p] \notin {"probe", "fetch", "store"}
  BY <1>1 DEF ScanTells
<1>2. CASE Begin(p) /\ todo[p] # <<>>
  <2>1. /\ pc'[p] = "probe" /\ at'[p] = ScanFrom(Command(p)) /\ Command(p)' = Command(p)
    BY <1>0, <1>2 DEF Begin, Goto, Command
  <2>2. ScanFrom(Command(p)) \in 0 .. Size
    <3>1. todo[p] \in Seq(Moves)
      BY DEF Inv, TypeOK
    <3> QED BY <1>2, <3>1, HeadTailProperties, ScanFromType DEF Command
  <2>3. ASSUME NEW k \in 0 .. at'[p] - 1, k >= ScanFrom(Command(p)') PROVE FALSE
    BY <2>1, <2>2, <2>3, SizeNat
  <2> QED BY <2>1, <2>3 DEF ScanTells
<1>3. CASE Probe(p)
  <2>1. /\ pc[p] = "probe" /\ UNCHANGED <<m, todo, tile>> /\ Command(p)' = Command(p)
        /\ at[p] \in 0 .. Size - 1
    BY <1>0, <1>3, SizeNat DEF Probe, Command, boardVars
  <2>2. There(p) = Square(at[p]) + Offset(Command(p))
    BY <2>1, InsideMove DEF InMove, Here
  <2>3. CASE m[There(p)] = Blank
    <3>1. pc'[p] = "fetch" /\ UNCHANGED at
      BY <1>0, <1>3, <2>3 DEF Probe, Goto
    <3>2. There(p)' = There(p)
      BY <2>1, <3>1 DEF There, Here
    <3> QED BY <2>1, <2>3, <3>1, <3>2 DEF ScanTells
  <2>4. CASE m[There(p)] # Blank
    <3>1. pc'[p] = "probe" /\ at'[p] = at[p] + 1
      BY <1>0, <1>3, <2>1, <2>4 DEF Probe
    <3>2. ASSUME NEW k \in 0 .. at'[p] - 1, k >= ScanFrom(Command(p))
          PROVE  m[Square(k) + Offset(Command(p))] # Blank
      <4>1. k \in 0 .. at[p] - 1 \/ k = at[p]
        BY <2>1, <3>1
      <4>2. k \in 0 .. at[p] - 1 => m[Square(k) + Offset(Command(p))] # Blank
        BY <2>1, <3>2 DEF ScanTells
      <4> QED BY <2>2, <2>4, <4>1, <4>2
    <3> QED BY <2>1, <3>1, <3>2 DEF ScanTells
  <2> QED BY <2>3, <2>4
<1>4. CASE Fetch(p)
  <2>1. /\ pc[p] = "fetch" /\ pc'[p] = "store" /\ tile'[p] = m[Here(p)]
        /\ UNCHANGED <<m, todo, at>>
    BY <1>0, <1>4 DEF Fetch, Goto, boardVars
  <2>2. There(p)' = There(p) /\ Here(p)' = Here(p)
    BY <2>1 DEF There, Here
  <2>3. m[There(p)] = Blank
    BY <2>1 DEF ScanTells
  <2> QED BY <2>1, <2>2, <2>3 DEF ScanTells
<1>5. \/ pc'[p] \notin {"probe", "fetch", "store"}
      \/ Begin(p) /\ todo[p] # <<>>
      \/ Probe(p) \/ Fetch(p)
  BY <1>0 DEF Steps, Invoke, Step, Kill, CheckFlag, OpenLock, Begin, Store, Clear, End, Exit, Goto
<1> QED BY <1>1, <1>2, <1>3, <1>4, <1>5

LEMMA TellsStep == ASSUME Serial, Inv, SerialInv, Inv', Next PROVE Tells'
<1> SUFFICES ASSUME NEW q \in Procs, pc'[q] \in {"probe", "fetch", "store"} PROVE ScanTells(q)'
  BY DEF Tells, ScanTells
<1>1. flag'
  BY DEF Inv, WellFormed
<1>2. ScanTells(q)
  BY DEF SerialInv, Tells
<1>3. CASE ~flag
  <2>1. SetFlag
    BY <1>1, <1>3 DEF Next, ResetStep, StartReset, CreateSemaphore, CopyWord, KillReset, boardVars,
                Invoke, Step, Kill, CheckFlag, OpenLock, Begin, Probe, Fetch, Store, Clear, End
  <2>2. UNCHANGED <<m, procVars>>
    BY <2>1 DEF SetFlag
  <2> QED BY <1>2, <2>2, SameScan DEF procVars
<1>4. CASE flag
  <2>1. PICK p \in Procs : Steps(p)
    BY <1>4, QuietSteps
  <2>2. CASE q = p
    BY <1>2, <2>1, <2>2, OwnScan
  <2>3. CASE q # p
    <3>1. pc'[q] = pc[q] /\ todo'[q] = todo[q] /\ at'[q] = at[q] /\ tile'[q] = tile[q]
      BY <2>1, <2>3, OwnSteps
    <3>2. pc[q] \in InMove
      BY <3>1 DEF InMove
    <3>3. pc[p] \notin InMove
      BY <2>3, <3>2, OneMover
    <3>4. UNCHANGED m
      BY <2>1, <3>3, OwnSteps DEF Store, Clear, InMove
    <3> QED BY <1>2, <3>1, <3>4, SameScan
  <2> QED BY <2>2, <2>3
<1> QED BY <1>3, <1>4 DEF Inv, TypeOK

LEMMA SerialInit == ASSUME Init PROVE SerialInv
<1>1. ResetOver /\ InOrder /\ Tells
  BY DEF Init, ResetOver, InOrder, Tells, ScanTells
<1>2. NewGameCopied
  BY StructWords DEF Init, NewGameCopied, Signal
<1> QED BY <1>1, <1>2 DEF SerialInv

LEMMA SerialStep == ASSUME Serial, Inv, Inv', SerialInv, [Next]_vars PROVE SerialInv'
<1>1. CASE Next
  BY <1>1, ResetOverStep, NewGameCopiedStep, InOrderStep, TellsStep DEF SerialInv
<1>2. CASE UNCHANGED vars
  <2>1. UNCHANGED <<m, flag, resets, rpc, rat, pc, todo, at, tile>>
    BY <1>2 DEF vars
  <2>2. Settled' = Settled
    BY <2>1 DEF Settled, Here
  <2>3. InOrder'
    BY <2>1, <2>2 DEF SerialInv, InOrder, Permuted
  <2>4. Tells'
    BY <2>1, SameScan DEF SerialInv, Tells
  <2>5. ResetOver' /\ NewGameCopied'
    BY <2>1 DEF SerialInv, ResetOver, NewGameCopied
  <2> QED BY <2>3, <2>4, <2>5 DEF SerialInv
<1> QED BY <1>1, <1>2

LEMMA SerialInvariance == ASSUME Serial PROVE Spec => []SerialInv
<1>1. Init => SerialInv
  BY SerialInit
<1>2. Inv /\ Inv' /\ SerialInv /\ [Next]_vars => SerialInv'
  BY SerialStep
<1> QED BY <1>1, <1>2, Invariance, PTL DEF Spec

-----------------------------------------------------------------------------
(* The sliding puzzle *)

LEMMA PuzzleNew == View(NewBoard(0)) = Puzzle!Solved
BY ViewOfNewGame DEF Puzzle!Solved, Puzzle!Pos, Puzzle!Home, Puzzle!Blank, Blank, Squares

(* The blank, the tile beside it that the command names, and the board     *)
(* after the move.                                                         *)
LEMMA StoreSlides ==
  ASSUME Serial, Inv, SerialInv, Inv', NEW p \in Procs, Store(p)
  PROVE  \E h \in Squares : /\ Hole(Shown) = h /\ Shown[h] = Blank
                            /\ Donor(Command(p), h) \in Squares
                            /\ Puzzle!Adjacent(Donor(Command(p), h), h)
                            /\ DOMAIN Shown = Squares
                            /\ Shown' = Puzzle!Swap(Shown, h, Donor(Command(p), h))
                            /\ Shown' = Puzzle!Swap(Shown, Donor(Command(p), h), h)
<1> DEFINE a == Here(p)
           b == There(p)
           c == Command(p)
<1>1. /\ Settled = m /\ Permuted(m) /\ m \in [Words -> Int] /\ flag
      /\ c \in Moves /\ a \in Hits(m, Offset(c)) /\ b = a + Offset(c)
      /\ Settled' = Moved(m, a, b)
  BY StoreSettles
<1>2. Shown = View(m) /\ Shown' = View(Moved(m, a, b))
  <2>1. flag' = flag
    BY DEF Store
  <2> QED BY <1>1, <2>1 DEF Shown
<1> HIDE DEF a, b, c
<1>3. PICK h \in Squares : m[Word(h)] = Blank /\ Hole(View(m)) = h
  <2>1. PICK q \in Squares : /\ m[Word(q)] = Blank
                             /\ (CHOOSE r \in DOMAIN View(m) : View(m)[r] = Blank) = q
    BY <1>1, OneHole
  <2> QED BY <2>1 DEF Hole
<1> DEFINE d == Giver(c, h)
<1>4. d \in Squares /\ a = Word(d) /\ b = Word(h)
  BY <1>1, <1>3, GiverIsHit
<1>5. Puzzle!Adjacent(d, h)
  <2>1. h[1] \in Int /\ h[2] \in Int
    BY SquareParts, StrideNat
  <2> QED BY <1>1, <2>1 DEF Puzzle!Adjacent, Giver, Moves
<1>6. d # h
  BY <1>1, <1>4, HitIsInside
<1>7. Donor(c, h) = d
  BY DEF Donor, Giver
<1> HIDE DEF d
<1>8. /\ Shown' = Puzzle!Swap(Shown, h, d) /\ Shown' = Puzzle!Swap(Shown, d, h)
  <2>1. Shown' = View(Moved(m, Word(d), Word(h)))
    BY <1>2, <1>4
  <2>2. /\ View(Moved(m, Word(d), Word(h))) = [View(m) EXCEPT ![d] = View(m)[h], ![h] = View(m)[d]]
        /\ View(Moved(m, Word(d), Word(h))) = [View(m) EXCEPT ![h] = View(m)[d], ![d] = View(m)[h]]
    BY <1>1, <1>3, <1>4, <1>6, MovedView
  <2> QED BY <1>2, <2>1, <2>2 DEF Puzzle!Swap
<1>9. DOMAIN Shown = Squares /\ Shown[h] = Blank
  BY <1>2, <1>3, ViewAt
<1> QED BY <1>2, <1>3, <1>4, <1>5, <1>7, <1>8, <1>9 DEF c

LEMMA SerialShownStep ==
  ASSUME Serial, Inv, SerialInv, Inv', [Next]_vars
  PROVE  [Puzzle!Next]_Shown
<1>1. CASE ~flag /\ ~flag'
  BY <1>1 DEF Shown
<1>2. CASE ~flag /\ flag' /\ Settled' = m /\ \A a \in Cells : m[a] = NewBoard(0)[a]
  BY <1>2, CopiedIsPermuted DEF Shown
<1>3. CASE flag /\ flag' /\ Settled' = Settled
  BY <1>3 DEF Shown
<1>4. ASSUME NEW p \in Procs, Store(p) PROVE Puzzle!Next
  <2>1. PICK h \in Squares, d \in Squares :
          /\ Shown[h] = Blank /\ Puzzle!Adjacent(d, h) /\ Shown' = Puzzle!Swap(Shown, d, h)
    BY <1>4, StoreSlides
  <2>2. d \in Puzzle!Pos /\ h \in Puzzle!Pos
    BY DEF Puzzle!Pos, Squares
  <2>3. Puzzle!Slide(d, h)
    BY <2>1 DEF Puzzle!Slide, Puzzle!Blank, Blank
  <2> QED BY <2>2, <2>3 DEF Puzzle!Next
<1>5. CASE UNCHANGED vars
  <2>1. UNCHANGED <<m, flag, pc, at>>
    BY <1>5 DEF vars
  <2> QED BY <2>1 DEF Shown, Settled, Here
<1> QED BY <1>1, <1>2, <1>3, <1>4, <1>5, SettledCases

(* The words in memory, written one at a time by the commands of one user, *)
(* or of any number of users behind a semaphore of value 1, implement the  *)
(* sliding puzzle on a board of any size (fifteen.c:64-175).               *)
THEOREM SerialCommandsImplementPuzzle ==
  ASSUME Serial
  PROVE  Spec => ImplementsPuzzle
<1>1. Init => Puzzle!Init
  BY PuzzleNew DEF Init, Shown, Puzzle!Init
<1>2. Inv /\ Inv' /\ SerialInv /\ [Next]_vars => [Puzzle!Next]_Shown
  BY SerialShownStep
<1> QED BY <1>1, <1>2, Invariance, SerialInvariance, PTL DEF Spec, ImplementsPuzzle, Puzzle!Spec

(* A command that moves a tile moves the one on the side of the blank that *)
(* it names (fifteen.c:64-175).                                            *)
THEOREM SerialCommandsAreObeyed ==
  ASSUME Serial
  PROVE  Spec => MovesAsCommanded
<1>1. ASSUME Inv, Inv', SerialInv
      PROVE  [\A p \in Procs :
                Store(p) => LET h == Hole(Shown)
                                d == Donor(Head(todo[p]), h)
                            IN d \in DOMAIN Shown /\ Shown' = Puzzle!Swap(Shown, h, d)]_vars
  BY <1>1, StoreSlides DEF Command
<1> QED BY <1>1, Invariance, SerialInvariance, PTL DEF Spec, MovesAsCommanded

(* A command whose scan comes to its end without the blank has no tile to  *)
(* move, although upCommand skips the first row (fifteen.c:70): the scan   *)
(* visits every square from which that command could take a tile.          *)
THEOREM SerialCommandsGiveUpRightly ==
  ASSUME Serial
  PROVE  Spec => GivesUpRightly
<1>1. ASSUME Inv, SerialInv, NEW p \in Procs, pc[p] = "probe", End(p)
      PROVE  Donor(Head(todo[p]), Hole(Shown)) \notin DOMAIN Shown
  <2> DEFINE c == Command(p)
  <2>1. at[p] = Size /\ c \in Moves /\ flag
    BY <1>1, InsideMove DEF End, InMove
  <2>2. \A q \in Procs : pc[q] # "clear"
    BY <1>1, OneMover DEF InMove
  <2>3. Settled = m /\ Permuted(m) /\ m \in [Words -> Int] /\ Shown = View(m)
    BY <1>1, <2>1, <2>2, SettledAtRest DEF SerialInv, InOrder, Shown, Inv, TypeOK
  <2>4. \A k \in 0 .. Size - 1 : k >= ScanFrom(c) => m[Square(k) + Offset(c)] # Blank
    BY <1>1, <2>1 DEF SerialInv, Tells, ScanTells
  <2> HIDE DEF c
  <2>5. ASSUME NEW k \in 0 .. Size - 1, k < ScanFrom(c)
        PROVE  m[Square(k) + Offset(c)] # Blank
    <3>1. c = "up" /\ k < Cols
      BY <2>5 DEF ScanFrom
    <3>2. k \div Cols = 0 /\ k % Cols = k
      BY <3>1, StrideNat, SizeNat
    <3>3. Square(k) + Offset(c) < 0 /\ Square(k) \in Cells
      <4>1. Square(k) = k
        BY <3>2, SizeNat, StrideNat DEF Square, Addr
      <4> QED BY <3>1, <4>1, SquareCell, StrideNat DEF Offset, Stride
    <3>4. Square(k) + Offset(c) \in Words \ Cells
      BY <2>1, <3>3, ReachesWords, CellRange
    <3> QED BY <2>3, <3>4 DEF Permuted
  <2>6. Hits(m, Offset(c)) = {}
    <3>1. ASSUME NEW a \in Cells PROVE m[a + Offset(c)] # Blank
      <4>1. PICK k \in 0 .. Size - 1 : a = Square(k)
        BY CellSquare
      <4>2. k >= ScanFrom(c) \/ k < ScanFrom(c)
        BY <2>1, ScanFromType, SizeNat
      <4> QED BY <2>4, <2>5, <4>1, <4>2
    <3> QED BY <3>1 DEF Hits
  <2>7. PICK h \in Squares : m[Word(h)] = Blank /\ Hole(View(m)) = h
    <3>1. PICK q \in Squares : /\ m[Word(q)] = Blank
                               /\ (CHOOSE r \in DOMAIN View(m) : View(m)[r] = Blank) = q
      BY <2>3, OneHole
    <3> QED BY <3>1 DEF Hole
  <2>8. Giver(c, h) \notin Squares
    BY <2>1, <2>3, <2>6, <2>7, GiverIsHit
  <2>9. Donor(c, h) = Giver(c, h)
    BY DEF Donor, Giver
  <2> QED BY <2>3, <2>7, <2>8, <2>9, ViewAt DEF c, Command
<1>2. ASSUME Inv, SerialInv
      PROVE  [\A p \in Procs :
                pc[p] = "probe" /\ End(p) => Donor(Head(todo[p]), Hole(Shown)) \notin DOMAIN Shown]_vars
  BY <1>1, <1>2
<1> QED BY <1>2, Invariance, SerialInvariance, PTL DEF Spec, GivesUpRightly

=============================================================================
