--------------------------- MODULE SharedBoardProofs ---------------------------
(***************************************************************************)
(* What is proved about SharedBoard for every number of processes, every   *)
(* size of the board and every number of resets, with and without the      *)
(* lock, and with processes killed at any point.                           *)
(***************************************************************************)
EXTENDS SharedBoard, FifteenBoardProofs, SequenceTheorems

Moving == {"fetch", "store", "clear"}
InMove == {"probe", "fetch", "store", "clear", "end"}

(* ./reset creates a semaphore that nobody has opened, and that nobody can *)
(* open by its name before it exists.                                      *)
Names ==
  /\ rpc # "idle" => resets \in Resets
  /\ semName <= resets
  /\ rpc = "create" /\ Assignment = 3 => semName = 0
  /\ \A p \in Procs : /\ lk[p] <= resets
                      /\ rpc = "create" => lk[p] # resets

(* A semaphore that some process holds has the value 0, and no other       *)
(* process holds it.                                                       *)
Holders ==
  /\ SemInit = 0 => \A g \in Resets : sem[g] = 0
  /\ \A p \in Procs :
       /\ Safe /\ pc[p] \in InMove \cup {"next"} => lk[p] \in Resets
       /\ Safe /\ pc[p] \in InMove =>
            /\ SemInit = 1 /\ sem[lk[p]] = 0
            /\ \A q \in Procs : pc[q] \in InMove /\ q # p => lk[q] # lk[p]

Locks == Names /\ Holders

(* A process inside a move has a command and is at a square; past its      *)
(* probe, the word it moves to is a square, unless it met padding that     *)
(* looks like the blank.                                                   *)
Scans ==
  \A p \in Procs :
    /\ pc[p] \in InMove => todo[p] # <<>>
    /\ pc[p] \in Moving => /\ at[p] < Size /\ There(p) \in Words
                           /\ NeverBlank(There(p)) => There(p) \in Cells
    /\ pc[p] = "store" => tile[p] \in Tiles \cup {Blank}

(* The squares that ./reset has written so far. *)
Copied == /\ rpc # "copy" => rat = Signal
          /\ \A a \in Cells : a < rat => m[a] \in Tiles \cup {Blank}

(* BlankRemains, also while ./reset has written its last square but not    *)
(* yet the flag.                                                           *)
LastBlank ==
  (/\ ~torn /\ (flag \/ rat > LastCell) /\ rat \notin 1 .. LastCell
   /\ \A p \in Procs : pc[p] # "clear") => \E a \in Cells : m[a] = Blank

Inv == TypeOK /\ Locks /\ Scans /\ Copied /\ WellFormed /\ TilesStayOnBoard /\ LastBlank

-----------------------------------------------------------------------------
(* Squares and jobs *)

LEMMA SizeNat == Size \in Nat \ {0}
BY StrideNat DEF Size

LEMMA SquareCell == \A k \in 0 .. Size - 1 : Square(k) \in Cells /\ Square(k) \in Words
<1> SUFFICES ASSUME NEW k \in 0 .. Size - 1 PROVE Square(k) \in Cells
  BY ReachesWords
<1>1. PICK i \in 0 .. Rows - 1, j \in 0 .. Cols - 1 : k = i * Cols + j
  BY RowMajorOnto, StrideNat DEF Size
<1>2. k \div Cols = i /\ k % Cols = j
  <2>1. /\ k \in Nat /\ Cols \in Nat \ {0} /\ k \div Cols \in Int /\ k % Cols \in 0 .. Cols - 1
        /\ k = (k \div Cols) * Cols + (k % Cols)
    BY SizeNat, StrideNat
  <2> QED BY <1>1, <2>1, RowMajorInjective
<1> QED BY <1>2 DEF Square, Cells

LEMMA CellSquare == \A a \in Cells : \E k \in 0 .. Size - 1 : a = Square(k)
<1> SUFFICES ASSUME NEW a \in Cells PROVE \E k \in 0 .. Size - 1 : a = Square(k)
  OBVIOUS
<1>1. PICK i \in 0 .. Rows - 1, j \in 0 .. Cols - 1 : a = Addr(i, j)
  BY CellAddr
<1> DEFINE k == i * Cols + j
<1>2. k \in 0 .. Size - 1
  BY RowMajorRange, StrideNat DEF Size
<1>3. k \div Cols = i /\ k % Cols = j
  <2>1. /\ k \in Nat /\ Cols \in Nat \ {0} /\ k \div Cols \in Int /\ k % Cols \in 0 .. Cols - 1
        /\ k = (k \div Cols) * Cols + (k % Cols)
    BY <1>2, SizeNat, StrideNat
  <2> HIDE DEF k
  <2> QED BY <2>1, RowMajorInjective DEF k
<1> QED BY <1>1, <1>2, <1>3 DEF Square

LEMMA LookReaches ==
  \A k \in 0 .. Size - 1, c \in Moves : Square(k) + Look(c) \in Words
<1> SUFFICES ASSUME NEW k \in 0 .. Size - 1, NEW c \in Moves
             PROVE  Square(k) + Look(c) \in Words
  OBVIOUS
<1>1. Look(c) = Offset(c) \/ Look(c) = Offset("left")
  BY DEF Look, Offset
<1> QED BY <1>1, SquareCell, ReachesWords DEF Moves

LEMMA ScanFromType == \A c \in Moves : ScanFrom(c) \in 0 .. Size
<1>1. Size = (Rows - 1) * Cols + Cols /\ (Rows - 1) * Cols >= 0 /\ (Rows - 1) * Cols \in Int
  BY StrideNat DEF Size
<1>2. Cols \in 0 .. Size
  BY <1>1, StrideNat
<1> QED BY <1>2, SizeNat DEF ScanFrom

LEMMA JobType == \A c \in Commands, n \in 0 .. MaxTest : Job(c, n) \in Seq(Moves)
<1> SUFFICES ASSUME NEW c \in Commands, NEW n \in 0 .. MaxTest PROVE Job(c, n) \in Seq(Moves)
  OBVIOUS
<1>1. CASE c = "test"
  <2>1. 4 * n \in Nat
    BY SharedConstants
  <2>2. ASSUME NEW i \in 1 .. 4 * n PROVE Round[((i - 1) % 4) + 1] \in Moves
    <3>1. (i - 1) % 4 \in 0 .. 3
      BY <2>1
    <3>2. ((i - 1) % 4) + 1 \in {1, 2, 3, 4}
      BY <3>1
    <3>3. /\ Round[1] = "right" /\ Round[2] = "down" /\ Round[3] = "left" /\ Round[4] = "up"
      BY DEF Round
    <3> QED BY <3>2, <3>3 DEF Moves
  <2>3. [i \in 1 .. 4 * n |-> Round[((i - 1) % 4) + 1]] \in [1 .. 4 * n -> Moves]
    BY <2>2
  <2> QED BY <1>1, <2>1, <2>3, SeqDef DEF Job
<1>2. CASE c # "test"
  <2>1. c \in Moves
    BY <1>2, SharedConstants
  <2> QED BY <1>2, <2>1 DEF Job
<1> QED BY <1>1, <1>2

(* The squares lie in the struct, and none behind LastCell. *)
LEMMA StructWords ==
  /\ Signal \in Int /\ Past \in Nat /\ Signal < Past /\ LastCell \in Nat /\ LastCell < Past
  /\ Struct \subseteq Words /\ Cells \subseteq Struct /\ LastCell \in Cells
  /\ \A a \in Cells : a \in Nat /\ a <= LastCell
<1>1. /\ Rows * Stride \in Int /\ (Rows + 1) * Stride = Rows * Stride + Stride
      /\ (Rows - 1) * Stride = Rows * Stride - Stride
  BY StrideNat
<1>2. Past = Rows * Stride + Stride /\ Signal = -1
  BY <1>1 DEF Past, Signal
<1>3. Struct \subseteq Words
  BY <1>1, <1>2, StrideNat DEF Struct, Words, Past
<1>4. LastCell \in Cells /\ LastCell = Rows * Stride - Stride + Cols - 1
  <2>1. Rows - 1 \in 0 .. Rows - 1 /\ Cols - 1 \in 0 .. Cols - 1
    BY StrideNat
  <2> QED BY <1>1, <2>1, StrideNat DEF LastCell, Cells, Addr
<1>5. ASSUME NEW a \in Cells PROVE a \in Nat /\ a <= LastCell
  <2>1. PICK i \in 0 .. Rows - 1, j \in 0 .. Cols - 1 : a = Addr(i, j)
    BY CellAddr
  <2>2. Stride \in Nat \ {0} /\ j \in 0 .. Stride - 1 /\ Rows \in Nat
    BY StrideNat DEF Stride
  <2>3. i * Stride + j <= Rows * Stride - Stride + j /\ i * Stride + j \in Int
    BY <2>2, RowMajorRange
  <2> QED BY <1>1, <1>4, <2>1, <2>3, CellRange, StrideNat DEF Addr
<1>6. Cells \subseteq Struct
  BY <1>1, <1>2, CellRange, StrideNat DEF Struct
<1>7. LastCell \in Nat
  BY <1>4, <1>5
<1>8. Rows * Stride >= 0 /\ Stride \in Nat /\ Cols < Stride + 1
  <2>1. Rows \in Nat /\ Stride \in Nat /\ Cols < Stride + 1
    BY StrideNat DEF Stride
  <2> QED BY <2>1
<1>9. Past \in Nat /\ Signal < Past /\ LastCell < Past /\ Signal \in Int
  BY <1>1, <1>2, <1>4, <1>8, StrideNat
<1> QED BY <1>3, <1>4, <1>5, <1>6, <1>7, <1>9

LEMMA NewSquare == \A a \in Cells : NewBoard(0)[a] \in Tiles \cup {Blank}
BY NewBoardPermuted DEF Permuted, Tiles, Size, Blank

(* What ./reset copies is an int, in a square a tile or the blank, and in   *)
(* the last square the blank.                                              *)
LEMMA InitializedTo ==
  ASSUME NEW w \in Struct, NEW v \in Initialized(w)
  PROVE  /\ v \in Int
         /\ w \in Cells => v \in Tiles \cup {Blank}
         /\ w \notin Cells => v \in Residue[w]
         /\ w = LastCell => v = Blank
<1>1. CASE w \in Cells
  <2>1. v = NewBoard(0)[w]
    BY <1>1 DEF Initialized
  <2>2. w = LastCell => v = Blank
    BY <2>1, StructWords DEF NewBoard, LastCell
  <2>3. v \in Tiles \cup {Blank}
    BY <1>1, <2>1, NewSquare
  <2>4. Tiles \cup {Blank} \subseteq Int
    BY SizeNat DEF Tiles, Blank
  <2> QED BY <1>1, <2>2, <2>3, <2>4
<1>2. CASE w \notin Cells
  BY <1>2, ResidueType, StructWords DEF Initialized
<1> QED BY <1>1, <1>2

-----------------------------------------------------------------------------
(* Type correctness and the locks *)

LEMMA Bounds == /\ MaxResets \in Nat /\ MaxTest \in Nat /\ SemInit \in {0, 1}
                /\ Safe \in BOOLEAN /\ (Safe => Assignment = 3)
BY SharedConstants

LEMMA Update ==
  ASSUME NEW S, NEW T, NEW f \in [S -> T], NEW x, NEW v \in T
  PROVE  [f EXCEPT ![x] = v] \in [S -> T]
OBVIOUS

LEMMA TypeInit == Init => TypeOK
<1> SUFFICES ASSUME Init PROVE TypeOK
  OBVIOUS
<1>1. m \in [Words -> Int] /\ sem \in [Resets -> 0 .. 1]
  BY DEF Init
<1>2. /\ pc \in [Procs -> {"idle", "check", "open", "next", "probe", "fetch", "store", "clear", "end"}]
      /\ tile \in [Procs -> Int]
  BY DEF Init
<1>3. at \in [Procs -> 0 .. Size] /\ lk \in [Procs -> 0 .. MaxResets]
  BY Bounds, SizeNat DEF Init
<1>4. todo \in [Procs -> Seq(Moves)]
  <2>1. <<>> \in Seq(Moves)
    OBVIOUS
  <2> QED BY <2>1 DEF Init
<1>5. semName \in 0 .. MaxResets /\ resets \in 0 .. MaxResets /\ rat \in Signal .. Past
  BY Bounds, StructWords DEF Init
<1> QED BY <1>1, <1>2, <1>3, <1>4, <1>5 DEF Init, TypeOK

LEMMA ExitType ==
  ASSUME TypeOK, NEW p \in Procs, Exit(p), torn' \in BOOLEAN,
         UNCHANGED <<m, flag, semVars, resetVars>>
  PROVE  TypeOK'
<1>1. 0 \in 0 .. Size /\ 0 \in Int /\ 0 \in 0 .. MaxResets /\ <<>> \in Seq(Moves)
  BY Bounds, SizeNat
<1>2. /\ todo' \in [Procs -> Seq(Moves)] /\ at' \in [Procs -> 0 .. Size]
      /\ tile' \in [Procs -> Int] /\ lk' \in [Procs -> 0 .. MaxResets]
  BY <1>1 DEF Exit, TypeOK
<1>3. pc' \in [Procs -> {"idle", "check", "open", "next", "probe", "fetch", "store", "clear", "end"}]
  BY DEF Exit, Goto, TypeOK
<1> QED BY <1>2, <1>3 DEF TypeOK, semVars, resetVars

LEMMA ResetType == ASSUME TypeOK, Locks, StartReset \/ ResetStep \/ KillReset PROVE TypeOK'
<1> USE DEF boardVars, semVars, resetVars, procVars
<1>1. CASE StartReset
  <2>1. resets' \in 0 .. MaxResets /\ semName' \in 0 .. MaxResets
    BY <1>1, Bounds DEF StartReset, TypeOK
  <2> QED BY <1>1, <2>1 DEF StartReset, TypeOK
<1>2. CASE CreateSemaphore
  <2>1. sem \in [Resets -> 0 .. 1] /\ semName \in 0 .. MaxResets /\ resets \in 0 .. MaxResets
    BY DEF TypeOK
  <2>2. sem' \in [Resets -> 0 .. 1] /\ semName' \in 0 .. MaxResets
    <3>1. CASE Assignment = 3
      <4>1. semName' = resets /\ sem' = [sem EXCEPT ![resets] = SemInit]
        BY <1>2, <3>1 DEF CreateSemaphore
      <4>2. SemInit \in 0 .. 1
        BY Bounds
      <4> QED BY <2>1, <4>1, <4>2
    <3>2. CASE Assignment # 3
      BY <1>2, <2>1, <3>2 DEF CreateSemaphore
    <3> QED BY <3>1, <3>2
  <2>3. UNCHANGED <<m, flag, torn, resets, rat, pc, todo, at, tile, lk>> /\ rpc' = "copy"
    BY <1>2 DEF CreateSemaphore
  <2> QED BY <2>2, <2>3 DEF TypeOK
<1>3. CASE CopyWord
  <2>1. PICK v \in Initialized(rat) : m' = [m EXCEPT ![rat] = v]
    BY <1>3 DEF CopyWord
  <2>2. rat \in Struct /\ v \in Int
    BY <1>3, <2>1, InitializedTo DEF CopyWord
  <2>3. m' \in [Words -> Int]
    BY <2>1, <2>2 DEF TypeOK
  <2>4. rat' \in Signal .. Past /\ torn' \in BOOLEAN
    BY <1>3, <2>2, StructWords DEF CopyWord, TypeOK, Struct
  <2> QED BY <1>3, <2>3, <2>4 DEF CopyWord, TypeOK
<1>4. CASE SetFlag
  BY <1>4, StructWords DEF SetFlag, TypeOK
<1>5. CASE KillReset
  BY <1>5, StructWords DEF KillReset, TypeOK
<1> QED BY <1>1, <1>2, <1>3, <1>4, <1>5 DEF ResetStep

LEMMA ProcType ==
  ASSUME TypeOK, Locks, Scans, NEW p \in Procs, Invoke(p) \/ Step(p) \/ Kill(p)
  PROVE  TypeOK'
<1> USE DEF boardVars, semVars, resetVars, procVars, Goto
<1>1. CASE Invoke(p)
  BY <1>1, JobType DEF Invoke, TypeOK
<1>2. CASE CheckFlag(p)
  <2>1. CASE flag
    BY <1>2, <2>1 DEF CheckFlag, TypeOK
  <2>2. CASE ~flag
    BY <1>2, <2>2, ExitType DEF CheckFlag, TypeOK
  <2> QED BY <2>1, <2>2
<1>3. CASE OpenLock(p)
  <2>1. CASE Safe /\ semName = 0
    BY <1>3, <2>1, ExitType DEF OpenLock, TypeOK
  <2>2. CASE ~(Safe /\ semName = 0)
    <3>1. lk' \in [Procs -> 0 .. MaxResets]
      <4>1. (IF Safe THEN semName ELSE 0) \in 0 .. MaxResets
        BY Bounds DEF TypeOK
      <4>2. lk \in [Procs -> 0 .. MaxResets]
        BY DEF TypeOK
      <4> QED BY <1>3, <2>2, <4>1, <4>2 DEF OpenLock
    <3>2. pc' \in [Procs -> {"idle", "check", "open", "next", "probe", "fetch", "store", "clear", "end"}]
      BY <1>3, <2>2 DEF OpenLock, TypeOK
    <3> QED BY <1>3, <2>2, <3>1, <3>2 DEF OpenLock, TypeOK
  <2> QED BY <2>1, <2>2
<1>4. CASE Begin(p)
  <2>1. CASE todo[p] = <<>>
    BY <1>4, <2>1, ExitType DEF Begin, TypeOK
  <2>2. CASE todo[p] # <<>>
    <3>1. sem' \in [Resets -> 0 .. 1]
      <4>1. CASE Safe
        <5>1. sem[lk[p]] = 1
          BY <1>4, <2>2, <4>1 DEF Begin, TypeOK, Locks, Holders
        <5>2. sem' = [sem EXCEPT ![lk[p]] = 0]
          BY <1>4, <2>2, <4>1, <5>1 DEF Begin
        <5>3. sem \in [Resets -> 0 .. 1]
          BY DEF TypeOK
        <5>4. 0 \in 0 .. 1
          OBVIOUS
        <5> HIDE DEF boardVars, semVars, resetVars, procVars, Goto
        <5> QED BY <5>2, <5>3, <5>4, Update
      <4>2. CASE ~Safe
        BY <1>4, <2>2, <4>2 DEF Begin, TypeOK
      <4> QED BY <4>1, <4>2
    <3>2. ScanFrom(Head(todo[p])) \in 0 .. Size
      <4>1. todo[p] \in Seq(Moves)
        BY DEF TypeOK
      <4> QED BY <2>2, <4>1, HeadTailProperties, ScanFromType
    <3> QED BY <1>4, <2>2, <3>1, <3>2 DEF Begin, TypeOK
  <2> QED BY <2>1, <2>2
<1>5. CASE Probe(p)
  <2>1. pc' \in [Procs -> {"idle", "check", "open", "next", "probe", "fetch", "store", "clear", "end"}]
    BY <1>5 DEF Probe, TypeOK
  <2>2. at' \in [Procs -> 0 .. Size]
    <3>1. at[p] + 1 \in 0 .. Size /\ at \in [Procs -> 0 .. Size]
      BY <1>5, SizeNat DEF Probe, TypeOK
    <3> QED BY <1>5, <3>1 DEF Probe
  <2> QED BY <1>5, <2>1, <2>2 DEF Probe, TypeOK
<1>6. CASE Fetch(p)
  <2>1. m[Here(p)] \in Int
    <3>1. at[p] \in 0 .. Size - 1
      BY <1>6, SizeNat DEF Fetch, TypeOK, Scans, Moving
    <3> QED BY <3>1, SquareCell DEF Here, TypeOK
  <2> QED BY <1>6, <2>1 DEF Fetch, TypeOK
<1>7. CASE Store(p)
  BY <1>7 DEF Store, TypeOK
<1>8. CASE Clear(p)
  <2>1. m' \in [Words -> Int]
    <3>1. Blank \in Int
      BY DEF Blank
    <3> QED BY <1>8, <3>1 DEF Clear, TypeOK
  <2> QED BY <1>8, <2>1 DEF Clear, TypeOK
<1>9. CASE End(p)
  <2>1. sem' \in [Resets -> 0 .. 1]
    <3>1. CASE Safe
      <4>1. sem[lk[p]] = 0
        BY <1>9, <3>1 DEF End, Locks, Holders, InMove
      <4>2. sem' = [sem EXCEPT ![lk[p]] = 1]
        BY <1>9, <3>1, <4>1 DEF End
      <4>3. sem \in [Resets -> 0 .. 1]
        BY DEF TypeOK
      <4>4. 1 \in 0 .. 1
        OBVIOUS
      <4> QED BY <4>2, <4>3, <4>4, Update
    <3>2. CASE ~Safe
      BY <1>9, <3>2 DEF End, TypeOK
    <3> QED BY <3>1, <3>2
  <2>2. Tail(todo[p]) \in Seq(Moves)
    <3>1. todo[p] \in Seq(Moves) /\ todo[p] # <<>>
      BY <1>9 DEF End, TypeOK, Scans, InMove
    <3> QED BY <3>1, HeadTailProperties
  <2>3. todo' \in [Procs -> Seq(Moves)] /\ at' \in [Procs -> 0 .. Size] /\ tile' \in [Procs -> Int]
    BY <1>9, <2>2, SizeNat DEF End, TypeOK
  <2>4. pc' \in [Procs -> {"idle", "check", "open", "next", "probe", "fetch", "store", "clear", "end"}]
    BY <1>9 DEF End, TypeOK
  <2> QED BY <1>9, <2>1, <2>3, <2>4 DEF End, TypeOK
<1>10. CASE Kill(p)
  BY <1>10, ExitType DEF Kill, TypeOK
<1> QED BY <1>1, <1>2, <1>3, <1>4, <1>5, <1>6, <1>7, <1>8, <1>9, <1>10 DEF Step

LEMMA NamesStep == ASSUME TypeOK, Locks, Next PROVE Names'
<1> USE DEF boardVars, semVars, resetVars, procVars
<1>0. /\ resets \in 0 .. MaxResets /\ MaxResets \in Nat
      /\ semName \in 0 .. MaxResets /\ lk \in [Procs -> 0 .. MaxResets]
  BY Bounds DEF TypeOK
<1>1. CASE StartReset
  BY <1>0, <1>1 DEF StartReset, Locks, Names, Resets
<1>2. CASE CreateSemaphore
  BY <1>0, <1>2 DEF CreateSemaphore, Locks, Names
<1>3. CASE CopyWord \/ SetFlag \/ KillReset
  BY <1>0, <1>3 DEF CopyWord, SetFlag, KillReset, Locks, Names
<1>4. ASSUME NEW p \in Procs, Exit(p), UNCHANGED <<semVars, resetVars>> PROVE Names'
  <2>1. lk' = [lk EXCEPT ![p] = 0]
    BY <1>4 DEF Exit
  <2> QED BY <1>0, <1>4, <2>1 DEF Locks, Names, Resets
<1>5. ASSUME NEW p \in Procs, OpenLock(p), ~(Safe /\ semName = 0) PROVE Names'
  <2>1. /\ lk' = [lk EXCEPT ![p] = IF Safe THEN semName ELSE 0]
        /\ UNCHANGED <<semVars, resetVars>>
    BY <1>5 DEF OpenLock
  <2>2. Safe => Assignment = 3
    BY Bounds
  <2> QED BY <1>0, <1>5, <2>1, <2>2 DEF Locks, Names, Resets
<1>6. ASSUME UNCHANGED <<semName, resetVars, lk>> PROVE Names'
  BY <1>6 DEF Locks, Names
<1>7. ASSUME NEW p \in Procs, Invoke(p) \/ Step(p) \/ Kill(p) PROVE Names'
  <2>1. CASE CheckFlag(p)
    BY <1>4, <1>6, <2>1 DEF CheckFlag
  <2>2. CASE OpenLock(p)
    BY <1>4, <1>5, <2>2 DEF OpenLock
  <2>3. CASE Begin(p)
    <3>1. CASE todo[p] = <<>>
      BY <1>4, <2>3, <3>1 DEF Begin
    <3>2. CASE todo[p] # <<>>
      BY <1>6, <2>3, <3>2 DEF Begin
    <3> QED BY <3>1, <3>2
  <2>4. CASE Invoke(p) \/ Probe(p) \/ Fetch(p) \/ Store(p) \/ Clear(p) \/ End(p)
    BY <1>6, <2>4 DEF Invoke, Probe, Fetch, Store, Clear, End
  <2>5. CASE Kill(p)
    BY <1>4, <2>5 DEF Kill
  <2> QED BY <1>7, <2>1, <2>2, <2>3, <2>4, <2>5 DEF Step
<1> QED BY <1>1, <1>2, <1>3, <1>7 DEF Next, ResetStep

(* Steps that change neither a semaphore nor who may be inside a move.     *)
LEMMA SameHolders ==
  ASSUME TypeOK, Holders, UNCHANGED <<sem, lk>>,
         \A q \in Procs : pc'[q] \in InMove <=> pc[q] \in InMove,
         \A q \in Procs : pc'[q] = "next" => pc[q] \in InMove \cup {"next"}
  PROVE  Holders'
BY DEF Holders

(* A process that leaves takes nothing with it. *)
LEMMA LeaveHolders ==
  ASSUME TypeOK, Holders, NEW p \in Procs, UNCHANGED sem,
         \A q \in Procs \ {p} : pc'[q] = pc[q] /\ lk'[q] = lk[q],
         pc'[p] \notin InMove,
         Safe /\ pc'[p] = "next" => lk'[p] \in Resets
  PROVE  Holders'
BY DEF Holders

LEMMA HoldersStep == ASSUME TypeOK, Locks, Next PROVE Holders'
<1> USE DEF boardVars, semVars, resetVars, procVars, Goto
<1>0. /\ sem \in [Resets -> 0 .. 1] /\ lk \in [Procs -> 0 .. MaxResets] /\ Holders
      /\ pc \in [Procs -> {"idle", "check", "open", "next", "probe", "fetch", "store", "clear", "end"}]
  BY DEF TypeOK, Locks
<1>1. CASE StartReset \/ CopyWord \/ SetFlag \/ KillReset
  BY <1>0, <1>1, SameHolders DEF StartReset, CopyWord, SetFlag, KillReset
<1>2. CASE CreateSemaphore
  <2>1. UNCHANGED <<pc, lk>>
    BY <1>2 DEF CreateSemaphore
  <2>2. CASE Assignment = 3
    <3>1. sem' = [sem EXCEPT ![resets] = SemInit]
      BY <1>2, <2>2 DEF CreateSemaphore
    <3>2. \A p \in Procs : lk[p] # resets
      BY <1>2 DEF CreateSemaphore, Locks, Names
    <3> QED BY <1>0, <2>1, <3>1, <3>2 DEF Holders
  <2>3. CASE Assignment # 3
    BY <1>0, <1>2, <2>1, <2>3, SameHolders DEF CreateSemaphore
  <2> QED BY <2>2, <2>3
<1>3. ASSUME NEW p \in Procs, Exit(p), UNCHANGED sem PROVE Holders'
  <2>1. /\ pc' = [pc EXCEPT ![p] = "idle"] /\ lk' = [lk EXCEPT ![p] = 0]
    BY <1>3 DEF Exit
  <2> QED BY <1>0, <1>3, <2>1, LeaveHolders DEF InMove
<1>4. ASSUME NEW p \in Procs, OpenLock(p), ~(Safe /\ semName = 0) PROVE Holders'
  <2>1. /\ lk' = [lk EXCEPT ![p] = IF Safe THEN semName ELSE 0]
        /\ pc' = [pc EXCEPT ![p] = "next"] /\ UNCHANGED sem
    BY <1>4 DEF OpenLock
  <2>2. Safe => semName \in Resets
    BY <1>4, Bounds DEF TypeOK, Resets
  <2> QED BY <1>0, <1>4, <2>1, <2>2, LeaveHolders DEF InMove
<1>5. ASSUME NEW p \in Procs, Begin(p), todo[p] # <<>> PROVE Holders'
  <2>1. pc[p] = "next" /\ pc' = [pc EXCEPT ![p] = "probe"] /\ UNCHANGED lk
    BY <1>5 DEF Begin
  <2>2. CASE Safe
    <3>1. sem[lk[p]] > 0 /\ sem' = [sem EXCEPT ![lk[p]] = @ - 1]
      BY <1>5, <2>2 DEF Begin
    <3>2. lk[p] \in Resets
      BY <1>0, <2>1, <2>2 DEF Holders
    <3>3. sem[lk[p]] = 1 /\ sem' = [sem EXCEPT ![lk[p]] = 0]
      <4>1. sem[lk[p]] = 1
        BY <1>0, <3>1, <3>2
      <4> QED BY <3>1, <4>1
    <3>4. SemInit = 1
      BY <1>0, <3>2, <3>3, Bounds DEF Holders
    <3>5. \A q \in Procs : pc[q] \in InMove => lk[q] # lk[p]
      BY <1>0, <2>2, <3>3 DEF Holders
    <3> QED BY <1>0, <2>1, <2>2, <3>2, <3>3, <3>4, <3>5 DEF Holders, InMove
  <2>3. CASE ~Safe
    <3>1. UNCHANGED sem
      BY <1>5, <2>3 DEF Begin
    <3> QED BY <1>0, <2>3, <3>1 DEF Holders
  <2> QED BY <2>2, <2>3, Bounds
<1>6. ASSUME NEW p \in Procs, End(p) PROVE Holders'
  <2>1. pc[p] \in InMove /\ pc' = [pc EXCEPT ![p] = "next"] /\ UNCHANGED lk
    BY <1>6 DEF End, InMove
  <2>2. CASE Safe
    <3>1. lk[p] \in Resets /\ SemInit = 1 /\ sem[lk[p]] = 0
      BY <1>0, <2>1, <2>2 DEF Holders
    <3>2. sem' = [sem EXCEPT ![lk[p]] = 1]
      BY <1>6, <2>2, <3>1 DEF End
    <3>3. \A q \in Procs : pc[q] \in InMove /\ q # p => lk[q] # lk[p]
      BY <1>0, <2>1, <2>2 DEF Holders
    <3>4. "next" \notin InMove
      BY DEF InMove
    <3> QED BY <1>0, <2>1, <2>2, <3>1, <3>2, <3>3, <3>4 DEF Holders
  <2>3. CASE ~Safe
    <3>1. UNCHANGED sem
      BY <1>6, <2>3 DEF End
    <3> QED BY <1>0, <2>3, <3>1 DEF Holders
  <2> QED BY <2>2, <2>3, Bounds
<1>7. ASSUME NEW p \in Procs, Invoke(p) \/ Step(p) \/ Kill(p) PROVE Holders'
  <2>1. CASE CheckFlag(p)
    <3>1. CASE flag
      <4>1. pc[p] = "check" /\ pc' = [pc EXCEPT ![p] = "open"] /\ UNCHANGED <<sem, lk>>
        BY <2>1, <3>1 DEF CheckFlag
      <4> QED BY <1>0, <4>1, SameHolders DEF InMove
    <3>2. CASE ~flag
      BY <1>3, <2>1, <3>2 DEF CheckFlag
    <3> QED BY <3>1, <3>2
  <2>2. CASE OpenLock(p)
    BY <1>3, <1>4, <2>2 DEF OpenLock
  <2>3. CASE Begin(p)
    <3>1. CASE todo[p] = <<>>
      BY <1>3, <2>3, <3>1 DEF Begin
    <3> QED BY <1>5, <2>3, <3>1
  <2>4. CASE Invoke(p) \/ Probe(p) \/ Fetch(p) \/ Store(p) \/ Clear(p)
    <3>1. UNCHANGED <<sem, lk>>
      BY <2>4 DEF Invoke, Probe, Fetch, Store, Clear
    <3>2. \/ pc[p] \notin InMove /\ pc' = [pc EXCEPT ![p] = "check"]
          \/ \E l \in InMove : pc[p] \in InMove /\ pc' = [pc EXCEPT ![p] = l]
          \/ UNCHANGED pc
      BY <2>4 DEF Invoke, Probe, Fetch, Store, Clear, InMove
    <3> QED BY <1>0, <3>1, <3>2, SameHolders DEF InMove
  <2>5. CASE Kill(p)
    BY <1>3, <2>5 DEF Kill
  <2>6. CASE End(p)
    BY <1>6, <2>6
  <2> QED BY <1>7, <2>1, <2>2, <2>3, <2>4, <2>5, <2>6 DEF Step
<1> QED BY <1>1, <1>2, <1>7 DEF Next, ResetStep

-----------------------------------------------------------------------------
(* The scans *)

(* Where a probe finds the blank there is a square, unless the padding      *)
(* holds one.                                                              *)
LEMMA ProbeHits ==
  ASSUME TypeOK, Scans, TilesStayOnBoard, NEW p \in Procs, Probe(p), m[There(p)] = Blank
  PROVE  There(p) \in Words /\ (NeverBlank(There(p)) => There(p) \in Cells)
<1>1. todo[p] # <<>> /\ todo[p] \in Seq(Moves)
  BY DEF Probe, Scans, InMove, TypeOK
<1>2. Head(todo[p]) \in Moves
  BY <1>1, HeadTailProperties
<1>3. at[p] \in 0 .. Size - 1
  BY SizeNat DEF Probe, TypeOK
<1>4. There(p) \in Words
  BY <1>2, <1>3, LookReaches DEF There, Here
<1>5. \A w \in Words \ Cells : NeverBlank(w) => m[w] # Blank
  BY DEF TilesStayOnBoard, NeverBlank, Blank
<1> QED BY <1>4, <1>5

LEMMA ScansStep ==
  ASSUME TypeOK, Scans, WellFormed, TilesStayOnBoard, Next
  PROVE  Scans'
<1> USE DEF boardVars, semVars, resetVars, procVars, Goto
<1>0. /\ todo \in [Procs -> Seq(Moves)] /\ at \in [Procs -> 0 .. Size] /\ tile \in [Procs -> Int]
      /\ pc \in [Procs -> {"idle", "check", "open", "next", "probe", "fetch", "store", "clear", "end"}]
  BY DEF TypeOK
<1>1. CASE StartReset \/ ResetStep \/ KillReset
  <2>1. UNCHANGED <<pc, todo, at, tile>>
    BY <1>1 DEF StartReset, ResetStep, CreateSemaphore, CopyWord, SetFlag, KillReset
  <2> QED BY <2>1 DEF Scans, There, Here
<1>2. ASSUME NEW p \in Procs, Invoke(p) \/ Step(p) \/ Kill(p) PROVE Scans'
  <2> SUFFICES ASSUME NEW q \in Procs
               PROVE  /\ pc'[q] \in InMove => todo'[q] # <<>>
                      /\ pc'[q] \in Moving => /\ at'[q] < Size /\ There(q)' \in Words
                                              /\ NeverBlank(There(q)') => There(q)' \in Cells
                      /\ pc'[q] = "store" => tile'[q] \in Tiles \cup {Blank}
    BY DEF Scans
  <2>1. CASE q # p
    <3>1. pc'[q] = pc[q] /\ todo'[q] = todo[q] /\ at'[q] = at[q] /\ tile'[q] = tile[q]
      BY <1>0, <1>2, <2>1
      DEF Invoke, Step, Kill, CheckFlag, OpenLock, Begin, Probe, Fetch, Store, Clear, End, Exit
    <3> QED BY <3>1 DEF Scans, There, Here
  <2>2. CASE q = p
    <3>1. CASE pc'[p] \notin InMove
      BY <2>2, <3>1 DEF InMove, Moving
    <3>2. ASSUME pc'[p] \in InMove, Invoke(p) \/ CheckFlag(p) \/ OpenLock(p) \/ End(p) \/ Kill(p)
          PROVE  FALSE
      <4>1. pc' = [pc EXCEPT ![p] = "check"] \/ pc' = [pc EXCEPT ![p] = "open"]
            \/ pc' = [pc EXCEPT ![p] = "next"] \/ pc' = [pc EXCEPT ![p] = "idle"]
        BY <3>2 DEF Invoke, CheckFlag, OpenLock, End, Kill, Exit
      <4> QED BY <1>0, <3>2, <4>1 DEF InMove
    <3>3. CASE Begin(p)
      <4>1. CASE todo[p] = <<>>
        BY <1>0, <2>2, <3>3, <4>1 DEF Begin, Exit, InMove, Moving
      <4>2. CASE todo[p] # <<>>
        BY <1>0, <2>2, <3>3, <4>2 DEF Begin, InMove, Moving
      <4> QED BY <4>1, <4>2
    <3>4. CASE Probe(p)
      <4>1. todo[p] # <<>> /\ UNCHANGED todo
        BY <3>4 DEF Probe, Scans, InMove
      <4>2. CASE m[There(p)] = Blank
        <5>1. /\ There(p) \in Words /\ (NeverBlank(There(p)) => There(p) \in Cells)
              /\ at[p] < Size /\ UNCHANGED at /\ pc' = [pc EXCEPT ![p] = "fetch"]
          BY <3>4, <4>2, ProbeHits DEF Probe
        <5> QED BY <1>0, <2>2, <4>1, <5>1 DEF There, Here
      <4>3. CASE m[There(p)] # Blank
        BY <1>0, <2>2, <3>4, <4>1, <4>3 DEF Probe, Moving
      <4> QED BY <4>2, <4>3
    <3>5. CASE Fetch(p)
      <4>1. /\ at[p] < Size /\ There(p) \in Words /\ todo[p] # <<>>
            /\ (NeverBlank(There(p)) => There(p) \in Cells) /\ UNCHANGED <<todo, at>> /\ tile' = [tile EXCEPT ![p] = m[Here(p)]]
        BY <3>5 DEF Fetch, Scans, Moving, InMove
      <4>2. m[Here(p)] \in Tiles \cup {Blank}
        <5>1. flag
          BY <3>5 DEF Fetch, WellFormed
        <5>2. Here(p) \in Cells
          BY <1>0, <4>1, SizeNat, SquareCell DEF Here
        <5> QED BY <5>1, <5>2 DEF WellFormed
      <4> QED BY <1>0, <2>2, <4>1, <4>2 DEF There, Here
    <3>6. CASE Store(p) \/ Clear(p)
      <4>1. /\ todo[p] # <<>> /\ at[p] < Size /\ There(p) \in Words
            /\ (NeverBlank(There(p)) => There(p) \in Cells) /\ UNCHANGED <<todo, at, tile>>
        BY <3>6 DEF Store, Clear, Scans, Moving, InMove
      <4>2. pc'[p] # "store"
        BY <1>0, <3>6 DEF Store, Clear
      <4> QED BY <2>2, <4>1, <4>2 DEF There, Here
    <3> QED BY <1>2, <3>1, <3>2, <3>3, <3>4, <3>5, <3>6 DEF Step
  <2> QED BY <2>1, <2>2
<1> QED BY <1>1, <1>2 DEF Next

-----------------------------------------------------------------------------
(* The words of the board *)

(* Whatever step is taken, it writes at most one word: a tile or the blank *)
(* if it is a square, and otherwise, where no reset can bring a blank      *)
(* along, what the stack held.                                             *)
LEMMA Writes ==
  ASSUME TypeOK, Scans, Next
  PROVE  \/ UNCHANGED m
         \/ \E w \in Words, v \in Int :
              /\ m' = [m EXCEPT ![w] = v]
              /\ w \in Cells => v \in Tiles \cup {Blank}
              /\ NeverBlank(w) /\ w \notin Cells => w \in Struct /\ v \in Residue[w]
<1> USE DEF boardVars
<1>1. CASE CopyWord
  <2>1. PICK v \in Initialized(rat) : m' = [m EXCEPT ![rat] = v]
    BY <1>1 DEF CopyWord
  <2>2. rat \in Struct /\ rat \in Words
    BY <1>1, StructWords DEF CopyWord
  <2> QED BY <2>1, <2>2, InitializedTo
<1>2. ASSUME NEW p \in Procs, Store(p)
      PROVE  \E w \in Words, v \in Tiles \cup {Blank} :
               m' = [m EXCEPT ![w] = v] /\ (NeverBlank(w) => w \in Cells)
  BY <1>2 DEF Store, Scans, Moving
<1>3. ASSUME NEW p \in Procs, Clear(p) PROVE \E a \in Cells : m' = [m EXCEPT ![a] = Blank]
  <2>1. at[p] \in 0 .. Size - 1
    BY <1>3, SizeNat DEF Clear, Scans, Moving, TypeOK
  <2> QED BY <1>3, <2>1, SquareCell DEF Clear, Here
<1>4. CASE StartReset \/ CreateSemaphore \/ SetFlag \/ KillReset
  BY <1>4 DEF StartReset, CreateSemaphore, SetFlag, KillReset
<1>5. ASSUME NEW p \in Procs, Invoke(p) \/ Step(p) \/ Kill(p), ~Store(p), ~Clear(p) PROVE UNCHANGED m
  BY <1>5 DEF Invoke, Step, Kill, CheckFlag, OpenLock, Begin, Probe, Fetch, End
<1>6. Tiles \cup {Blank} \subseteq Int
  BY SizeNat DEF Tiles, Blank
<1>7. Cells \subseteq Words
  BY StructWords
<1> QED BY <1>1, <1>2, <1>3, <1>4, <1>5, <1>6, <1>7 DEF Next, ResetStep

(* So a square that holds a tile or the blank goes on doing so. *)
LEMMA SquaresKeep ==
  ASSUME TypeOK, Scans, Next, NEW a \in Cells, m[a] \in Tiles \cup {Blank}
  PROVE  m'[a] \in Tiles \cup {Blank}
<1>1. m \in [Words -> Int] /\ a \in Words
  BY StructWords DEF TypeOK
<1> QED BY <1>1, Writes

LEMMA TilesStayStep == ASSUME TypeOK, Scans, TilesStayOnBoard, Next PROVE TilesStayOnBoard'
<1>1. m \in [Words -> Int]
  BY DEF TypeOK
<1> SUFFICES ASSUME NEW u \in Words \ Cells, NeverBlank(u)
             PROVE  m'[u] = 0 \/ (u \in Struct /\ m'[u] \in Residue[u])
  BY DEF TilesStayOnBoard
<1>2. m[u] = 0 \/ (u \in Struct /\ m[u] \in Residue[u])
  BY DEF TilesStayOnBoard
<1> QED BY <1>1, <1>2, Writes

LEMMA CopiedStep == ASSUME TypeOK, Scans, Copied, Next PROVE Copied'
<1>0. \A a \in Cells : a \in Nat /\ a < rat => m'[a] \in Tiles \cup {Blank}
  BY SquaresKeep DEF Copied
<1>1. \A a \in Cells : a \in Nat /\ ~(a < Signal)
  BY StructWords DEF Signal
<1>2. CASE SetFlag \/ KillReset
  <2>1. rat' = Signal
    BY <1>2 DEF SetFlag, KillReset
  <2> QED BY <1>1, <2>1 DEF Copied
<1>3. CASE StartReset \/ CreateSemaphore
  <2>1. rat' = rat /\ rat = Signal
    BY <1>3 DEF StartReset, CreateSemaphore, Copied
  <2> QED BY <1>1, <2>1 DEF Copied
<1>4. CASE CopyWord
  <2>1. PICK v \in Initialized(rat) : m' = [m EXCEPT ![rat] = v]
    BY <1>4 DEF CopyWord
  <2>2. /\ rat \in Struct /\ rat' = rat + 1 /\ rpc' = "copy" /\ m \in [Words -> Int]
        /\ rat \in Words /\ rat \in Int
    BY <1>4, StructWords DEF CopyWord, TypeOK, Struct
  <2>3. m'[rat] = v /\ (rat \in Cells => v \in Tiles \cup {Blank})
    BY <2>1, <2>2, InitializedTo
  <2>4. ASSUME NEW a \in Cells, a < rat' PROVE m'[a] \in Tiles \cup {Blank}
    <3>1. a < rat \/ a = rat
      BY <1>1, <2>2, <2>4
    <3> QED BY <1>0, <1>1, <2>3, <3>1
  <2> QED BY <2>2, <2>4 DEF Copied
<1>5. ASSUME NEW p \in Procs, Invoke(p) \/ Step(p) \/ Kill(p) PROVE Copied'
  <2>1. UNCHANGED <<rpc, rat>>
    BY <1>5 DEF Invoke, Step, Kill, CheckFlag, OpenLock, Begin, Probe, Fetch, Store, Clear, End, resetVars
  <2> QED BY <1>0, <1>1, <2>1 DEF Copied
<1> QED BY <1>2, <1>3, <1>4, <1>5 DEF Next, ResetStep

LEMMA WellFormedStep == ASSUME TypeOK, Scans, Copied, WellFormed, Next PROVE WellFormed'
<1> USE DEF boardVars
<1>2. flag => \A a \in Cells : m'[a] \in Tiles \cup {Blank}
  BY SquaresKeep DEF WellFormed
<1>3. flag => flag'
  BY DEF Next, ResetStep, StartReset, CreateSemaphore, CopyWord, SetFlag, KillReset,
         Invoke, Step, Kill, CheckFlag, OpenLock, Begin, Probe, Fetch, Store, Clear, End
<1>4. ~flag /\ flag' => \A a \in Cells : m'[a] \in Tiles \cup {Blank}
  <2>1. SUFFICES ASSUME ~flag, flag', NEW a \in Cells PROVE m'[a] \in Tiles \cup {Blank}
    OBVIOUS
  <2>2. SetFlag
    BY <2>1 DEF Next, ResetStep, StartReset, CreateSemaphore, CopyWord, KillReset,
                Invoke, Step, Kill, CheckFlag, OpenLock, Begin, Probe, Fetch, Store, Clear, End
  <2>3. rat = Past /\ UNCHANGED m
    BY <2>2, StructWords DEF SetFlag, Struct, TypeOK
  <2> QED BY <2>3, StructWords DEF Copied
<1>5. \A q \in Procs : pc'[q] \notin {"idle", "check"} => flag'
  <2> SUFFICES ASSUME NEW q \in Procs, pc'[q] \notin {"idle", "check"}, ~flag' PROVE FALSE
    OBVIOUS
  <2>1. ~flag /\ pc[q] \in {"idle", "check"}
    BY <1>3 DEF WellFormed
  <2>2. pc \in [Procs -> {"idle", "check", "open", "next", "probe", "fetch", "store", "clear", "end"}]
    BY DEF TypeOK
  <2>3. CASE StartReset \/ ResetStep \/ KillReset
    BY <2>1, <2>3 DEF StartReset, ResetStep, CreateSemaphore, CopyWord, SetFlag, KillReset, procVars
  <2>4. ASSUME NEW p \in Procs, Invoke(p) \/ Step(p) \/ Kill(p) PROVE FALSE
    <3>1. pc[p] \in {"idle", "check"}
      BY <2>1 DEF WellFormed
    <3>2. \/ pc' = [pc EXCEPT ![p] = "check"]
          \/ pc' = [pc EXCEPT ![p] = "idle"]
      BY <2>1, <2>4, <3>1 DEF Invoke, Step, Kill, CheckFlag, OpenLock, Begin, Probe, Fetch, Store,
                              Clear, End, Exit, Goto
    <3> QED BY <2>1, <2>2, <3>2
  <2> QED BY <2>3, <2>4 DEF Next
<1> QED BY <1>2, <1>3, <1>4, <1>5 DEF WellFormed

-----------------------------------------------------------------------------
(* The last blank *)

LEMMA LastBlankStep == ASSUME TypeOK, Scans, Copied, LastBlank, Next PROVE LastBlank'
<1> USE DEF boardVars, resetVars, procVars, Goto
<1>0. /\ pc \in [Procs -> {"idle", "check", "open", "next", "probe", "fetch", "store", "clear", "end"}]
      /\ rat \in Int /\ rat <= Past /\ m \in [Words -> Int]
      /\ LastCell \in Nat /\ LastCell < Past /\ LastCell \in Cells /\ Cells \subseteq Words
      /\ Signal = -1
  BY StructWords DEF TypeOK, Signal
<1>1. CASE StartReset
  BY <1>0, <1>1 DEF StartReset, LastBlank
<1>2. CASE CreateSemaphore
  BY <1>0, <1>2 DEF CreateSemaphore, LastBlank
<1>3. CASE CopyWord
  <2>1. PICK v \in Initialized(rat) : m' = [m EXCEPT ![rat] = v]
    BY <1>3 DEF CopyWord
  <2>2. /\ rat \in Struct /\ rat \in Words /\ rat' = rat + 1
        /\ torn' = (torn /\ rat # LastCell) /\ UNCHANGED <<flag, pc>>
    BY <1>3, StructWords DEF CopyWord
  <2>3. CASE rat = LastCell
    <3>1. m'[LastCell] = Blank
      BY <1>0, <2>1, <2>2, <2>3, InitializedTo
    <3> QED BY <1>0, <3>1 DEF LastBlank
  <2>4. CASE rat # LastCell
    <3> SUFFICES ASSUME ~torn', flag' \/ rat' > LastCell, rat' \notin 1 .. LastCell,
                        \A p \in Procs : pc'[p] # "clear"
                 PROVE  \E a \in Cells : m'[a] = Blank
      BY DEF LastBlank
    <3>1. ~torn /\ (flag \/ rat > LastCell) /\ rat \notin 1 .. LastCell
      <4>1. ~torn /\ (flag \/ rat' > LastCell)
        BY <2>2, <2>4
      <4>2. rat' = rat + 1 /\ rat' \notin 1 .. LastCell
        BY <2>2
      <4> QED BY <1>0, <2>4, <4>1, <4>2
    <3>2. rat \notin Cells
      <4>1. rat # 0
        BY <1>0, <2>2, <2>4
      <4> QED BY <1>0, <3>1, <4>1, StructWords
    <3>3. PICK a \in Cells : m[a] = Blank
      BY <2>2, <3>1 DEF LastBlank
    <3> QED BY <1>0, <2>1, <3>2, <3>3
  <2> QED BY <2>3, <2>4
<1>4. CASE SetFlag
  <2>1. rat = Past /\ UNCHANGED <<m, torn, pc>>
    BY <1>4, StructWords DEF SetFlag, Struct, TypeOK
  <2> QED BY <1>0, <2>1 DEF LastBlank
<1>6. CASE KillReset
  <2>1. UNCHANGED <<m, flag, pc>> /\ rat' = -1
    BY <1>0, <1>6 DEF KillReset
  <2>2. ~torn' => ~torn /\ rat \notin 1 .. LastCell
    BY <1>6, Zenon DEF KillReset
  <2>3. ~(rat' > LastCell)
    BY <1>0, <2>1
  <2> SUFFICES ASSUME ~torn', flag' \/ rat' > LastCell, \A p \in Procs : pc'[p] # "clear"
               PROVE  \E a \in Cells : m'[a] = Blank
    BY DEF LastBlank
  <2> QED BY <2>1, <2>2, <2>3 DEF LastBlank
<1>5. ASSUME NEW p \in Procs, Invoke(p) \/ Step(p) \/ Kill(p) PROVE LastBlank'
  <2>1. UNCHANGED <<flag, rpc, rat>>
    BY <1>5 DEF Invoke, Step, Kill, CheckFlag, OpenLock, Begin, Probe, Fetch, Store, Clear, End
  <2>2. CASE Store(p)
    <3>1. pc'[p] = "clear"
      BY <1>0, <2>2 DEF Store
    <3> QED BY <3>1 DEF LastBlank
  <2>3. CASE Clear(p)
    <3>1. at[p] \in 0 .. Size - 1
      BY <1>0, <2>3, SizeNat DEF Clear, Scans, Moving, TypeOK
    <3>2. Here(p) \in Cells /\ Here(p) \in Words
      BY <3>1, SquareCell DEF Here
    <3>3. m'[Here(p)] = Blank
      BY <1>0, <2>3, <3>2 DEF Clear
    <3> QED BY <3>2, <3>3 DEF LastBlank
  <2>4. CASE Kill(p)
    <3>1. m' = m /\ torn' = (torn \/ pc[p] = "clear") /\ pc' = [pc EXCEPT ![p] = "idle"]
      BY <2>4 DEF Kill, Exit
    <3>2. ~torn' => ~torn /\ pc[p] # "clear"
      BY <3>1
    <3>3. \A q \in Procs \ {p} : pc'[q] = pc[q]
      BY <1>0, <3>1
    <3>4. ~torn' /\ (\A q \in Procs : pc'[q] # "clear") => \A q \in Procs : pc[q] # "clear"
      BY <3>2, <3>3
    <3> QED BY <2>1, <3>1, <3>2, <3>4 DEF LastBlank
  <2>5. CASE \/ Invoke(p) \/ CheckFlag(p) \/ OpenLock(p) \/ Begin(p) \/ Probe(p)
            \/ Fetch(p) \/ End(p)
    <3>1. UNCHANGED <<m, torn>> /\ pc[p] # "clear"
      BY <2>5 DEF Invoke, CheckFlag, OpenLock, Begin, Probe, Fetch, End
    <3>2. \A q \in Procs \ {p} : pc'[q] = pc[q]
      BY <1>0, <2>5 DEF Invoke, CheckFlag, OpenLock, Begin, Probe, Fetch, End, Exit
    <3> QED BY <2>1, <3>1, <3>2 DEF LastBlank
  <2> QED BY <1>5, <2>2, <2>3, <2>4, <2>5 DEF Step
<1> QED BY <1>1, <1>2, <1>3, <1>4, <1>5, <1>6 DEF Next, ResetStep

-----------------------------------------------------------------------------
(* The theorems *)

LEMMA InvInit == Init => Inv
<1> SUFFICES ASSUME Init PROVE Inv
  OBVIOUS
<1>1. Locks
  BY Bounds DEF Init, Locks, Names, Holders, InMove
<1>2. Scans /\ Copied
  BY StructWords DEF Init, Scans, Copied, InMove, Moving, Signal
<1>3. WellFormed /\ TilesStayOnBoard /\ LastBlank
  BY StructWords DEF Init, WellFormed, TilesStayOnBoard, LastBlank, Signal
<1> QED BY <1>1, <1>2, <1>3, TypeInit DEF Inv

LEMMA InvStep == Inv /\ [Next]_vars => Inv'
<1> SUFFICES ASSUME Inv, [Next]_vars PROVE Inv'
  OBVIOUS
<1>1. CASE Next
  <2>1. TypeOK'
    BY <1>1, ResetType, ProcType DEF Inv, Next
  <2>2. Locks'
    BY <1>1, NamesStep, HoldersStep DEF Inv, Locks
  <2> QED BY <1>1, <2>1, <2>2, ScansStep, CopiedStep, WellFormedStep, TilesStayStep,
                  LastBlankStep DEF Inv
<1>2. CASE UNCHANGED vars
  BY <1>2 DEF vars, Inv, TypeOK, Locks, Names, Holders, Scans, Copied, WellFormed, TilesStayOnBoard,
                LastBlank, There, Here
<1> QED BY <1>1, <1>2

LEMMA Invariance == Spec => []Inv
BY InvInit, InvStep, PTL DEF Spec

(* Every variable keeps its type: the semaphores are binary, no scan       *)
(* leaves the array that boardMemory points to, no command runs that has   *)
(* nothing to do.                                                          *)
THEOREM TypeCorrect == Spec => []TypeOK
<1>1. Inv => TypeOK
  BY DEF Inv
<1> QED BY <1>1, Invariance, PTL

(* Whatever races, kills of commands and of resets happen, and whatever a  *)
(* reset copies into the padding, the squares of an initialised board hold *)
(* tiles and blanks (fifteen.c:64-175, reset.c:33-74).                     *)
THEOREM BoardIsWellFormed == Spec => []WellFormed
<1>1. Inv => WellFormed
  BY DEF Inv
<1> QED BY <1>1, Invariance, PTL

(* No command writes into a word that it reads beyond the border           *)
(* (fifteen.c:72-75, 101-104, 130-133, 159-162) unless the words of the    *)
(* stack that reset.c:69 copies along may put the number of the blank      *)
(* there.                                                                  *)
THEOREM NoTileLeaves == Spec => []TilesStayOnBoard
<1>1. Inv => TilesStayOnBoard
  BY DEF Inv
<1> QED BY <1>1, Invariance, PTL

(* Racing moves and resets may lose tiles, but the board that they leave   *)
(* always has a blank to move into, unless a command was killed between    *)
(* its two stores or a reset between its first and its last square: the    *)
(* second store of a move makes its square the blank (fifteen.c:75),       *)
(* and so does a reset with the last square (reset.c:41, 69).              *)
THEOREM ABlankRemains == Spec => []BlankRemains
<1>1. Inv => BlankRemains
  BY DEF Inv, LastBlank, BlankRemains
<1> QED BY <1>1, Invariance, PTL

(* Behind one semaphore there is one command at a time, also when holders  *)
(* are killed and when ./reset replaces the semaphore while others still   *)
(* have the old one open (fifteen.c:67-81, reset.c:52-54).                 *)
THEOREM LockExcludes == Spec => []Exclusion
<1>1. Inv => Exclusion
  BY DEF Inv, Locks, Holders, Exclusion, Critical, InMove
<1> QED BY <1>1, Invariance, PTL

=============================================================================
