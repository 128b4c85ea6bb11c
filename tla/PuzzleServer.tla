---------------------------- MODULE PuzzleServer ----------------------------
(***************************************************************************)
(* Assignment 1: the fifteen-puzzle server (server.c) and the one-shot     *)
(* command client (client.c), which talk over two POSIX message queues     *)
(* that all clients share, one towards the server and one back.            *)
(*                                                                         *)
(* Every run of ./server is a new process: gen numbers it.  A queue is a   *)
(* kernel object: sq[g] and cq[g] are the ones that run g creates, and     *)
(* sname and cname are the objects that the two names stand for (0: the    *)
(* name does not exist).  A process that has opened a queue keeps using    *)
(* that object after the name is unlinked or given to a newer one.         *)
(*                                                                         *)
(* A member of Clients runs ./client over and over; a run that is killed   *)
(* while it waits for its reply is `lost' and not run again, so that a     *)
(* reply in a queue always names the run it was meant for.  The fields to  *)
(* and run of a reply are auxiliary: the messages of the code carry only   *)
(* the text.                                                               *)
(***************************************************************************)
EXTENDS FifteenBoard, Sequences, FiniteSets

CONSTANTS Clients,   \* the clients
          Mortal,    \* those that may be killed while they run
          Commands,  \* the arguments they are run with
          QueueCap,  \* attr.mq_maxmsg: 1 in the code
          MaxGen     \* bound: runs of the server

ASSUME ServerConstants ==
  /\ Mortal \subseteq Clients
  /\ Commands \subseteq Moves \cup {"board", "other", "long"}
  /\ QueueCap \in Nat \ {0}
  /\ MaxGen \in Nat \ {0}

ASSUME FiniteClients == IsFiniteSet(Clients)

VARIABLES
  spc,    \* where the server is
  gen,    \* which run of the server this is
  armed,  \* SIGINT is caught by alarmHandler (else it kills)
  brd,    \* its board
  src,    \* the square a move is emptying
  reply,  \* the reply being built
  sfd,    \* the queue objects the server has open
  cfd,
  sname,  \* the queue objects the two names stand for
  cname,
  sq,     \* requests in each SERVER_QUEUE object
  cq,     \* replies in each CLIENT_QUEUE object
  cpc,    \* where each client is
  cmd,    \* its argument
  cs,     \* the queue objects it has open
  cc

boardVars  == <<brd, src, reply>>
nameVars   == <<sname, cname>>
queueVars  == <<sq, cq>>
clientVars == <<cpc, cmd, cs, cc>>
vars == <<spc, gen, armed, brd, src, reply, sfd, cfd, sname, cname, sq, cq, cpc, cmd, cs, cc>>

Gens == 1 .. MaxGen

NoReply == [to |-> 0, text |-> "none", run |-> 0]

(* The board of a process that has just started: `Board brd' is a global,  *)
(* all zero until initBoard, and so is the memory in front of it as the    *)
(* build lays it out (never -1).                                           *)
Zeroed == [w \in Words |-> 0]

Init ==
  /\ spc = "down" /\ gen = 0 /\ armed = FALSE
  /\ brd = Zeroed /\ src = 0 /\ reply = NoReply
  /\ sfd = 0 /\ cfd = 0 /\ sname = 0 /\ cname = 0
  /\ sq = [g \in Gens |-> <<>>] /\ cq = [g \in Gens |-> <<>>]
  /\ cpc = [c \in Clients |-> "idle"] /\ cmd = [c \in Clients |-> "none"]
  /\ cs = [c \in Clients |-> 0] /\ cc = [c \in Clients |-> 0]

-----------------------------------------------------------------------------
(* Start-up of the server: both names are unlinked before they are created *)
(* again, then the handler is installed, then the board is set up.         *)

StartServer ==
  /\ spc = "down" /\ gen < MaxGen
  /\ spc' = "unlinkC" /\ gen' = gen + 1 /\ armed' = FALSE
  /\ brd' = Zeroed /\ src' = 0 /\ reply' = NoReply
  /\ sfd' = 0 /\ cfd' = 0
  /\ sname' = 0
  /\ UNCHANGED <<cname, queueVars, clientVars>>

(* Mutant: mq_unlink( CLIENT_QUEUE ) is forgotten. *)
UnlinkClientQueueNot ==
  /\ spc = "unlinkC" /\ spc' = "openS"
  /\ UNCHANGED <<gen, armed, boardVars, sfd, cfd, nameVars, queueVars, clientVars>>

UnlinkClientQueue ==
  /\ spc = "unlinkC" /\ spc' = "openS"
  /\ cname' = 0
  /\ UNCHANGED <<gen, armed, boardVars, sfd, cfd, sname, queueVars, clientVars>>

(* mq_open with O_CREAT and without O_EXCL: the object the name stands for,*)
(* or a new empty one.                                                     *)
OpenOrCreate(name) == IF name = 0 THEN gen ELSE name

OpenServerQueue ==
  /\ spc = "openS" /\ spc' = "openC"
  /\ sname' = OpenOrCreate(sname) /\ sfd' = sname'
  /\ UNCHANGED <<gen, armed, boardVars, cfd, cname, queueVars, clientVars>>

OpenClientQueue ==
  /\ spc = "openC" /\ spc' = "signal"
  /\ cname' = OpenOrCreate(cname) /\ cfd' = cname'
  /\ UNCHANGED <<gen, armed, boardVars, sfd, sname, queueVars, clientVars>>

InstallHandler ==
  /\ spc = "signal" /\ spc' = "init"
  /\ armed' = TRUE
  /\ UNCHANGED <<gen, boardVars, sfd, cfd, nameVars, queueVars, clientVars>>

InitBoard ==
  /\ spc = "init" /\ spc' = "recv"
  /\ brd' = NewBoard(0)
  /\ UNCHANGED <<gen, armed, src, reply, sfd, cfd, nameVars, queueVars, clientVars>>

-----------------------------------------------------------------------------
(* The loop of the server.  A move writes two words, and the handler may   *)
(* run between the two: they are two steps.                                *)

Reply(c, text) == [to |-> c, text |-> text, run |-> gen]

(* Mutant: the blank is stored first, the tile second. *)
ReceiveMoveBlankFirst(req) ==
  LET d == Offset(req.cmd) IN
  /\ req.cmd \in Moves
  /\ Hits(brd, d) # {}
  /\ src' = FirstHit(brd, d)
  /\ brd' = [brd EXCEPT ![src'] = Blank]
  /\ reply' = Reply(req.from, "success")
  /\ spc' = "clear"

(* mq_receive and the first half of the command: the scan finds the square *)
(* that has the blank as its neighbour and copies its tile there.          *)
ReceiveMove(req) ==
  LET d == Offset(req.cmd) IN
  /\ req.cmd \in Moves
  /\ Hits(brd, d) # {}
  /\ src' = FirstHit(brd, d)
  /\ brd' = [brd EXCEPT ![src' + d] = brd[src']]
  /\ reply' = Reply(req.from, "success")
  /\ spc' = "clear"

(* Mutant: an invalid command is not answered. *)
ReceiveNoMoveSilently(req) ==
  /\ req.cmd \in Moves => Hits(brd, Offset(req.cmd)) = {}
  /\ reply' = Reply(req.from, IF req.cmd = "board" THEN "board" ELSE "invalid command")
  /\ spc' = IF req.cmd = "board" THEN "send" ELSE "recv"
  /\ UNCHANGED <<brd, src>>

ReceiveNoMove(req) ==
  /\ req.cmd \in Moves => Hits(brd, Offset(req.cmd)) = {}
  /\ reply' = Reply(req.from, IF req.cmd = "board" THEN "board" ELSE "invalid command")
  /\ spc' = "send"
  /\ UNCHANGED <<brd, src>>

Receive ==
  /\ spc = "recv" /\ sq[sfd] # <<>>
  /\ sq' = [sq EXCEPT ![sfd] = Tail(@)]
  /\ ReceiveMove(Head(sq[sfd])) \/ ReceiveNoMove(Head(sq[sfd]))
  /\ UNCHANGED <<gen, armed, sfd, cfd, nameVars, cq, clientVars>>

(* Mutant: the square that a tile leaves keeps it. *)
ClearNot ==
  /\ spc = "clear" /\ spc' = "send"
  /\ UNCHANGED <<gen, armed, boardVars, sfd, cfd, nameVars, queueVars, clientVars>>

(* The second half of a move: the square it came from becomes the blank. *)
Clear ==
  /\ spc = "clear" /\ spc' = "send"
  /\ brd' = [brd EXCEPT ![src] = Blank]
  /\ UNCHANGED <<gen, armed, src, reply, sfd, cfd, nameVars, queueVars, clientVars>>

(* Mutant: the reply may be sent again. *)
SendReplyAgain ==
  /\ spc = "send" /\ Len(cq[cfd]) < QueueCap
  /\ cq' = [cq EXCEPT ![cfd] = Append(@, reply)]
  /\ spc' \in {"send", "recv"}
  /\ UNCHANGED <<gen, armed, boardVars, sfd, cfd, nameVars, sq, clientVars>>

SendReply ==
  /\ spc = "send" /\ Len(cq[cfd]) < QueueCap
  /\ cq' = [cq EXCEPT ![cfd] = Append(@, reply)]
  /\ spc' = "recv"
  /\ reply' = NoReply
  /\ UNCHANGED <<gen, armed, brd, src, sfd, cfd, nameVars, sq, clientVars>>

-----------------------------------------------------------------------------
(* SIGINT.  The build resolves signal() to __sysv_signal: the handler is   *)
(* uninstalled when it is called, and a blocked mq_receive or mq_send      *)
(* returns EINTR instead of being restarted.                               *)

Running == spc # "down"

(* A second SIGINT, or one before signal() is called, kills the process:   *)
(* its queue names stay.                                                   *)
KilledBySigint ==
  /\ Running /\ ~armed
  /\ spc' = "down"
  /\ UNCHANGED <<gen, armed, boardVars, sfd, cfd, nameVars, queueVars, clientVars>>

(* The handler prints the board and the server goes on. *)
CaughtSigint ==
  /\ Running /\ armed
  /\ armed' = FALSE
  /\ UNCHANGED <<spc, gen, boardVars, sfd, cfd, nameVars, queueVars, clientVars>>

(* The handler runs while mq_receive blocks: the loop is left.  Or while   *)
(* mq_send blocks: fail() exits without unlinking the names.               *)
InterruptedBySigint ==
  /\ armed
  /\ \/ spc = "recv" /\ sq[sfd] = <<>> /\ spc' = "quitS"
     \/ spc = "send" /\ Len(cq[cfd]) = QueueCap /\ spc' = "down"
  /\ armed' = FALSE
  /\ UNCHANGED <<gen, boardVars, sfd, cfd, nameVars, queueVars, clientVars>>

Sigint == KilledBySigint \/ CaughtSigint \/ InterruptedBySigint

(* The code after the loop: the names are unlinked. *)
QuitServerQueue ==
  /\ spc = "quitS" /\ spc' = "quitC"
  /\ sname' = 0
  /\ UNCHANGED <<gen, armed, boardVars, sfd, cfd, cname, queueVars, clientVars>>

QuitClientQueue ==
  /\ spc = "quitC" /\ spc' = "down"
  /\ cname' = 0
  /\ UNCHANGED <<gen, armed, boardVars, sfd, cfd, sname, queueVars, clientVars>>

-----------------------------------------------------------------------------
(* A run of ./client <command>. *)

serverVars == <<spc, gen, armed, brd, src, reply, sfd, cfd, sname, cname>>

Invoke(c) ==
  /\ cpc[c] = "idle"
  /\ \E m \in Commands : cmd' = [cmd EXCEPT ![c] = m]
  /\ cpc' = [cpc EXCEPT ![c] = "openS"]
  /\ UNCHANGED <<serverVars, queueVars, cs, cc>>

ClientOpenServerQueue(c) ==
  /\ cpc[c] = "openS"
  /\ cs' = [cs EXCEPT ![c] = sname]
  /\ cpc' = [cpc EXCEPT ![c] = "openC"]
  /\ UNCHANGED <<serverVars, queueVars, cmd, cc>>

(* fail() when either mq_open failed. *)
ClientOpenClientQueue(c) ==
  /\ cpc[c] = "openC"
  /\ IF cs[c] = 0 \/ cname = 0
     THEN /\ cpc' = [cpc EXCEPT ![c] = "idle"]
          /\ cs' = [cs EXCEPT ![c] = 0]
          /\ UNCHANGED cc
     ELSE /\ cpc' = [cpc EXCEPT ![c] = "send"]
          /\ cc' = [cc EXCEPT ![c] = cname]
          /\ UNCHANGED cs
  /\ UNCHANGED <<serverVars, queueVars, cmd>>

(* Leaving the process closes its descriptors. *)
Exit(c, pc) ==
  /\ cpc' = [cpc EXCEPT ![c] = pc]
  /\ cs' = [cs EXCEPT ![c] = 0] /\ cc' = [cc EXCEPT ![c] = 0]
  /\ UNCHANGED cmd

ClientSend(c) ==
  /\ cpc[c] = "send" /\ cmd[c] # "long"
  /\ Len(sq[cs[c]]) < QueueCap
  /\ sq' = [sq EXCEPT ![cs[c]] = Append(@, [from |-> c, cmd |-> cmd[c]])]
  /\ cpc' = [cpc EXCEPT ![c] = "recv"]
  /\ UNCHANGED <<serverVars, cq, cmd, cs, cc>>

(* An argument longer than mq_msgsize: mq_send fails at once. *)
ClientSendFails(c) ==
  /\ cpc[c] = "send" /\ cmd[c] = "long"
  /\ Exit(c, "idle")
  /\ UNCHANGED <<serverVars, queueVars>>

(* The client prints whatever reply comes first and returns. *)
ClientReceive(c) ==
  /\ cpc[c] = "recv" /\ cq[cc[c]] # <<>>
  /\ cq' = [cq EXCEPT ![cc[c]] = Tail(@)]
  /\ Exit(c, "idle")
  /\ UNCHANGED <<serverVars, sq>>

(* A client may be killed at any point; once it has sent its request it    *)
(* leaves an answer behind that nobody waits for.                          *)
ClientKilled(c) ==
  /\ c \in Mortal
  /\ \/ cpc[c] \in {"openS", "openC", "send"} /\ Exit(c, "idle")
     \/ cpc[c] = "recv" /\ cpc' = [cpc EXCEPT ![c] = "lost"] /\ UNCHANGED <<cmd, cs, cc>>
  /\ UNCHANGED <<serverVars, queueVars>>

-----------------------------------------------------------------------------

ServerStep == \/ UnlinkClientQueue \/ OpenServerQueue \/ OpenClientQueue
              \/ InstallHandler \/ InitBoard
              \/ Receive \/ Clear \/ SendReply
              \/ QuitServerQueue \/ QuitClientQueue

ClientStep(c) == \/ Invoke(c) \/ ClientOpenServerQueue(c) \/ ClientOpenClientQueue(c)
                 \/ ClientSend(c) \/ ClientSendFails(c) \/ ClientReceive(c)
                 \/ ClientKilled(c)

Next == StartServer \/ ServerStep \/ Sigint \/ \E c \in Clients : ClientStep(c)

Spec == Init /\ [][Next]_vars

(* The server and the clients are scheduled; nobody has to start or signal *)
(* the server, to run a client or to kill one.  The kernel serves the      *)
(* processes blocked on one queue in the order they blocked, so nobody     *)
(* waits for ever while others are served: strong fairness.  (The other    *)
(* steps of a client stay enabled until they are taken.)                   *)
Proceed(c) == \/ ClientOpenServerQueue(c) \/ ClientOpenClientQueue(c)
              \/ ClientSend(c) \/ ClientSendFails(c) \/ ClientReceive(c)

Fairness == WF_vars(ServerStep) /\ \A c \in Clients : SF_vars(Proceed(c))

FairSpec == Spec /\ Fairness

-----------------------------------------------------------------------------
(* Properties *)

Texts == {"none", "success", "invalid command", "board"}
Requests == [from : Clients, cmd : Commands]
Replies == [to : Clients \cup {0}, text : Texts, run : 0 .. MaxGen]

(* The types of the variables; a program counter beyond the opening of a   *)
(* queue implies that the descriptor is one.                               *)
TypeOK ==
  /\ spc \in {"down", "unlinkC", "openS", "openC", "signal", "init",
              "recv", "clear", "send", "quitS", "quitC"}
  /\ gen \in 0 .. MaxGen /\ armed \in BOOLEAN
  /\ brd \in [Words -> Int] /\ src \in Cells \cup {0}
  /\ reply \in Replies
  /\ sfd \in 0 .. MaxGen /\ cfd \in 0 .. MaxGen
  /\ sname \in 0 .. MaxGen /\ cname \in 0 .. MaxGen
  /\ sq \in [Gens -> Seq(Requests)]
  /\ cq \in [Gens -> Seq(Replies)]
  /\ cpc \in [Clients -> {"idle", "openS", "openC", "send", "recv", "lost"}]
  /\ cmd \in [Clients -> Commands \cup {"none"}]
  /\ cs \in [Clients -> 0 .. MaxGen] /\ cc \in [Clients -> 0 .. MaxGen]

Serving == spc \in {"recv", "clear", "send"}

(* The board once the half-made move, if there is one, is finished.        *)
Settled == IF spc = "clear" THEN [brd EXCEPT ![src] = Blank] ELSE brd

(* While the server serves, its board is a permutation of the tiles and    *)
(* one blank: no command loses or doubles a tile, although the scans read  *)
(* the padding and the words around the array (server.c:89-182).          *)
TilesConserved == Serving => Permuted(Settled)

(* alarmHandler may interrupt a move between its two stores (server.c:96,  *)
(* 97).  The board it prints then has no blank and shows one tile twice,  *)
(* but never misses a tile.                                                *)
SnapshotComplete ==
  Serving => \A t \in 1 .. (Rows * Cols - 1) : \E a \in Cells : brd[a] = t

(* The clients that have sent a request to run g of the server and have    *)
(* not been answered, those that were killed while they waited included.   *)
Asked(g) == {c \in Clients : cpc[c] \in {"recv", "lost"} /\ cs[c] = g}

(* The requests and replies under way in the server that runs.             *)
InHand == IF spc \in {"clear", "send"} THEN 1 ELSE 0
UnderWay == Len(sq[gen]) + InHand + Len(cq[gen])

(* The two queues and the server never hold more requests and replies than *)
(* clients that sent one and took no reply: nothing is answered twice, and *)
(* nothing unasked is answered.  In the first run of the server (before    *)
(* any client can hold queues of two different runs) the two numbers are   *)
(* equal, so a client that waits is never left without a reply to take.    *)
ReplyDebt ==
  Serving => /\ UnderWay <= Cardinality(Asked(gen))
             /\ gen = 1 => UnderWay = Cardinality(Asked(gen))

(* The queues of the first run can only jam, everything full and nobody    *)
(* left to take a reply, when more clients were killed while waiting than  *)
(* the two queues hold together.                                           *)
JamNeedsKills ==
  (/\ gen = 1 /\ spc = "send"
   /\ Len(sq[1]) = QueueCap /\ Len(cq[1]) = QueueCap
   /\ \A c \in Clients : cpc[c] # "recv")
     => Cardinality({c \in Clients : cpc[c] = "lost"}) > 2 * QueueCap

(* Because a server unlinks both names before it creates them (server.c:   *)
(* 205-208), a client that opened both queues of one run of the server     *)
(* takes only replies that this run computed, whatever an earlier one that *)
(* was killed left behind.                                                 *)
NoStaleReplies ==
  [][\A c \in Clients : ClientReceive(c) /\ cs[c] = cc[c] => Head(cq[cc[c]]).run = cs[c]]_vars

(* What the user sees: the squares of the settled board, and a new game    *)
(* when no server serves.                                                  *)
Shown == IF spc \in {"recv", "clear", "send", "quitS", "quitC"}
         THEN View(Settled) ELSE View(NewBoard(0))

Puzzle == INSTANCE SlidingPuzzle WITH squares <- Shown

(* Through all crashes, restarts and signals the board implements the      *)
(* sliding puzzle: every step of the server slides one tile into the       *)
(* blank, begins a new game or leaves the board alone.                     *)
ImplementsPuzzle == Puzzle!Spec

(* No command ever brings the board out of reach of the solved one.        *)
StaysSolvable == Puzzle!Solvable(Shown)

Hole(sqs) == CHOOSE p \in DOMAIN sqs : sqs[p] = Blank

(* A tile moves in the direction of the command it answers ("Handles the   *)
(* up command" and so on, server.c:85-182): up moves the tile below the   *)
(* blank; the reply is "success" exactly when there is such a tile, and    *)
(* otherwise the board does not change.                                    *)
MovesAsCommanded ==
  [][(Receive /\ Head(sq[sfd]).cmd \in Moves) =>
       LET h == Hole(Shown)
           m == Head(sq[sfd]).cmd
           p == CASE m = "up"    -> <<h[1] + 1, h[2]>>
                  [] m = "down"  -> <<h[1] - 1, h[2]>>
                  [] m = "left"  -> <<h[1], h[2] + 1>>
                  [] m = "right" -> <<h[1], h[2] - 1>>
       IN IF p \in DOMAIN Shown
          THEN reply'.text = "success" /\ Shown' = Puzzle!Swap(Shown, h, p)
          ELSE reply'.text = "invalid command" /\ Shown' = Shown]_vars

Stopping == spc \in {"down", "quitS", "quitC"}

(* A client of the first run of the server that is not killed gets         *)
(* through: it ends, unless the server stops.  Clients that are killed     *)
(* while they wait cost a place in the queues each, but do not stop the    *)
(* others while the queues still have room for what they left behind.      *)
(* (In a later run a client may hold the queues of two runs.)              *)
ClientsFinish ==
  \A c \in Clients : (gen = 1 /\ cpc[c] \in {"openS", "openC", "send", "recv"})
                       ~> (cpc[c] \in {"idle", "lost"} \/ Stopping)

(* "Name for the queue of messages going to the current client"            *)
(* (common.h:16): the reply a client takes is the one to its own request.  *)
RepliesToAsker ==
  [][\A c \in Clients : ClientReceive(c) => Head(cq[cc[c]]).to = c]_vars

=============================================================================
