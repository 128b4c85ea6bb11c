-------------------------- MODULE PuzzleServerProofs --------------------------
(***************************************************************************)
(* What is proved about PuzzleServer for every number of clients, every    *)
(* size of the board and of the queues and every number of restarts.       *)
(***************************************************************************)
EXTENDS PuzzleServer, FifteenBoardProofs, FiniteSetTheorems, SequenceTheorems

-----------------------------------------------------------------------------
(* Type correctness *)

(* The queue descriptors a process uses are those of queues that exist.    *)
ServerFds ==
  /\ spc # "down" => gen \in Gens
  /\ spc \in {"openC", "signal", "init", "recv", "clear", "send"} => sfd = gen
  /\ spc \in {"signal", "init", "recv", "clear", "send"} => cfd = gen
  /\ spc \in {"unlinkC", "openS"} => sname = 0
  /\ spc \in {"openS", "openC"} => cname = 0
  /\ spc = "clear" => src \in Cells

ClientFds ==
  \A c \in Clients :
    /\ cpc[c] # "idle" => cmd[c] \in Commands
    /\ cpc[c] \in {"send", "recv", "lost"} => cs[c] \in Gens /\ cc[c] \in Gens

Descriptors == ServerFds /\ ClientFds

TypeInv == TypeOK /\ Descriptors

LEMMA GenBounds == MaxGen \in Nat \ {0} /\ QueueCap \in Nat \ {0}
BY ServerConstants

LEMMA NoReplyType == NoReply \in Replies
BY GenBounds DEF NoReply, Replies, Texts

LEMMA TypeInit == Init => TypeInv
<1> SUFFICES ASSUME Init PROVE TypeInv
  OBVIOUS
<1>1. brd \in [Words -> Int]
  BY DEF Init, Zeroed
<1>2. <<>> \in Seq(Requests) /\ <<>> \in Seq(Replies)
  OBVIOUS
<1>3. sq \in [Gens -> Seq(Requests)] /\ cq \in [Gens -> Seq(Replies)]
  BY <1>2 DEF Init
<1>4. TypeOK
  <2>1. /\ cpc \in [Clients -> {"idle", "openS", "openC", "send", "recv", "lost"}]
        /\ cmd \in [Clients -> Commands \cup {"none"}]
        /\ cs \in [Clients -> 0 .. MaxGen] /\ cc \in [Clients -> 0 .. MaxGen]
    BY GenBounds DEF Init
  <2>2. /\ gen \in 0 .. MaxGen /\ sfd \in 0 .. MaxGen /\ cfd \in 0 .. MaxGen
        /\ sname \in 0 .. MaxGen /\ cname \in 0 .. MaxGen
        /\ spc = "down" /\ armed = FALSE /\ src = 0 /\ reply = NoReply
    BY GenBounds DEF Init
  <2> QED BY <1>1, <1>3, <2>1, <2>2, NoReplyType DEF TypeOK
<1>5. Descriptors
  BY DEF Init, Descriptors, ServerFds, ClientFds
<1> QED BY <1>4, <1>5 DEF TypeInv

LEMMA ReceiveMoveType ==
  ASSUME TypeInv, spc = "recv", NEW req \in Requests, ReceiveMove(req)
  PROVE  brd' \in [Words -> Int] /\ src' \in Cells /\ reply' \in Replies
<1>1. src' \in Cells /\ src' \in Words
  BY FirstHitIsCell, ReachesWords DEF ReceiveMove
<1>2. reply' \in Replies
  BY DEF ReceiveMove, Reply, Replies, Texts, TypeInv, TypeOK, Requests
<1>3. brd' \in [Words -> Int]
  BY <1>1 DEF ReceiveMove, TypeInv, TypeOK
<1> QED BY <1>1, <1>2, <1>3

LEMMA ReceiveType == ASSUME TypeInv, Receive PROVE TypeInv'
<1>1. /\ sfd = gen /\ cfd = gen /\ gen \in Gens
      /\ sq[sfd] \in Seq(Requests) /\ sq[sfd] # <<>>
  BY DEF TypeInv, TypeOK, Descriptors, ServerFds, ClientFds, Receive
<1>2. Head(sq[sfd]) \in Requests /\ Tail(sq[sfd]) \in Seq(Requests)
  BY <1>1, HeadTailProperties
<1>3. sq' \in [Gens -> Seq(Requests)]
  BY <1>1, <1>2 DEF TypeInv, TypeOK, Receive
<1>4. /\ brd' \in [Words -> Int] /\ src' \in Cells \cup {0} /\ reply' \in Replies
      /\ spc' \in {"clear", "send"} /\ (spc' = "clear" => src' \in Cells)
  <2>1. CASE ReceiveMove(Head(sq[sfd]))
    <3>1. brd' \in [Words -> Int] /\ src' \in Cells /\ reply' \in Replies
      BY <1>2, <2>1, ReceiveMoveType DEF Receive
    <3> QED BY <2>1, <3>1 DEF ReceiveMove
  <2>2. CASE ReceiveNoMove(Head(sq[sfd]))
    <3>1. reply' \in Replies
      BY <1>1, <1>2, <2>2 DEF ReceiveNoMove, Reply, Replies, Texts, Requests, TypeInv, TypeOK
    <3> QED BY <2>2, <3>1 DEF ReceiveNoMove, TypeInv, TypeOK
  <2> QED BY <2>1, <2>2 DEF Receive
<1>5. TypeOK'
  BY <1>3, <1>4 DEF Receive, TypeInv, TypeOK, nameVars, clientVars
<1>6. Descriptors'
  BY <1>1, <1>4 DEF Receive, TypeInv, Descriptors, ServerFds, ClientFds, nameVars, clientVars
<1> QED BY <1>5, <1>6 DEF TypeInv

LEMMA ServerType == ASSUME TypeInv, StartServer \/ ServerStep PROVE TypeInv'
<1> USE DEF TypeInv, boardVars, nameVars, queueVars, clientVars
<1>1. CASE StartServer
  <2>1. brd' \in [Words -> Int]
    BY <1>1 DEF StartServer, Zeroed
  <2>2. TypeOK'
    <3>1. gen' \in 0 .. MaxGen /\ 0 \in 0 .. MaxGen
      BY <1>1, GenBounds DEF StartServer, TypeOK
    <3>2. /\ spc' = "unlinkC" /\ armed' = FALSE /\ src' = 0 /\ reply' = NoReply
          /\ sfd' = 0 /\ cfd' = 0 /\ sname' = 0
          /\ UNCHANGED <<cname, sq, cq, cpc, cmd, cs, cc>>
      BY <1>1 DEF StartServer
    <3> QED BY <2>1, <3>1, <3>2, NoReplyType DEF TypeOK
  <2>3. Descriptors'
    BY <1>1, GenBounds DEF StartServer, TypeOK, Descriptors, ServerFds, ClientFds, Gens
  <2> QED BY <2>2, <2>3
<1>2. CASE UnlinkClientQueue
  BY <1>2, GenBounds DEF UnlinkClientQueue, TypeOK, Descriptors, ServerFds, ClientFds
<1>3. CASE OpenServerQueue
  BY <1>3 DEF OpenServerQueue, OpenOrCreate, TypeOK, Descriptors, ServerFds, ClientFds
<1>4. CASE OpenClientQueue
  BY <1>4 DEF OpenClientQueue, OpenOrCreate, TypeOK, Descriptors, ServerFds, ClientFds
<1>5. CASE InstallHandler
  BY <1>5 DEF InstallHandler, TypeOK, Descriptors, ServerFds, ClientFds
<1>6. CASE InitBoard
  <2>1. brd' \in [Words -> Int]
    BY <1>6, NewBoardType DEF InitBoard
  <2> QED BY <1>6, <2>1 DEF InitBoard, TypeOK, Descriptors, ServerFds, ClientFds
<1>7. CASE Receive
  BY <1>7, ReceiveType
<1>8. CASE Clear
  <2>1. brd' \in [Words -> Int]
    <3>1. brd \in [Words -> Int] /\ brd' = [brd EXCEPT ![src] = Blank]
      BY <1>8 DEF Clear, TypeOK
    <3>2. Blank \in Int
      BY DEF Blank
    <3> QED BY <3>1, <3>2
  <2> QED BY <1>8, <2>1 DEF Clear, TypeOK, Descriptors, ServerFds, ClientFds
<1>9. CASE SendReply
  <2>1. cq' \in [Gens -> Seq(Replies)]
    <3>1. /\ cq \in [Gens -> Seq(Replies)] /\ cq' = [cq EXCEPT ![cfd] = Append(@, reply)]
          /\ reply \in Replies /\ cfd \in Gens
      BY <1>9 DEF SendReply, TypeOK, Descriptors, ServerFds, ClientFds
    <3> QED BY <3>1
  <2>2. TypeOK'
    BY <1>9, <2>1, NoReplyType DEF SendReply, TypeOK
  <2>3. Descriptors'
    BY <1>9 DEF SendReply, Descriptors, ServerFds, ClientFds
  <2> QED BY <2>2, <2>3
<1>10. CASE QuitServerQueue
  <2>1. TypeOK'
    BY <1>10, GenBounds DEF QuitServerQueue, TypeOK
  <2>2. Descriptors'
    BY <1>10 DEF QuitServerQueue, Descriptors, ServerFds, ClientFds
  <2> QED BY <2>1, <2>2
<1>11. CASE QuitClientQueue
  <2>1. TypeOK'
    BY <1>11, GenBounds DEF QuitClientQueue, TypeOK
  <2>2. Descriptors'
    BY <1>11 DEF QuitClientQueue, Descriptors, ServerFds, ClientFds
  <2> QED BY <2>1, <2>2
<1> QED BY <1>1, <1>2, <1>3, <1>4, <1>5, <1>6, <1>7, <1>8, <1>9, <1>10, <1>11 DEF ServerStep

LEMMA SigintType == ASSUME TypeInv, Sigint PROVE TypeInv'
BY DEF Sigint, KilledBySigint, CaughtSigint, InterruptedBySigint, Running, TypeInv, TypeOK,
       Descriptors, ServerFds, ClientFds, boardVars, nameVars, queueVars, clientVars

LEMMA ExitType ==
  ASSUME TypeInv, NEW c \in Clients, Exit(c, "idle"), UNCHANGED serverVars,
         sq' \in [Gens -> Seq(Requests)], cq' \in [Gens -> Seq(Replies)]
  PROVE  TypeInv'
<1>1. TypeOK'
  BY GenBounds DEF Exit, TypeInv, TypeOK, serverVars
<1>2. Descriptors'
  BY DEF Exit, TypeInv, TypeOK, Descriptors, ServerFds, ClientFds, serverVars
<1> QED BY <1>1, <1>2 DEF TypeInv

LEMMA ClientType == ASSUME TypeInv, NEW c \in Clients, ClientStep(c) PROVE TypeInv'
<1> USE DEF TypeInv, serverVars, queueVars
<1>1. CASE Invoke(c)
  BY <1>1 DEF Invoke, TypeOK, Descriptors, ServerFds, ClientFds
<1>2. CASE ClientOpenServerQueue(c)
  BY <1>2 DEF ClientOpenServerQueue, TypeOK, Descriptors, ServerFds, ClientFds
<1>3. CASE ClientOpenClientQueue(c)
  <2>1. CASE cs[c] = 0 \/ cname = 0
    <3>1. /\ cpc' = [cpc EXCEPT ![c] = "idle"] /\ cs' = [cs EXCEPT ![c] = 0]
          /\ UNCHANGED <<cc, cmd, serverVars, queueVars>>
      BY <1>3, <2>1 DEF ClientOpenClientQueue
    <3>2. TypeOK'
      BY <3>1, GenBounds DEF TypeOK
    <3>3. Descriptors'
      BY <3>1 DEF TypeOK, Descriptors, ServerFds, ClientFds
    <3> QED BY <3>2, <3>3
  <2>2. CASE ~(cs[c] = 0 \/ cname = 0)
    <3>1. /\ cpc' = [cpc EXCEPT ![c] = "send"] /\ cc' = [cc EXCEPT ![c] = cname]
          /\ UNCHANGED <<cs, cmd, serverVars, queueVars>>
      BY <1>3, <2>2 DEF ClientOpenClientQueue
    <3>2. TypeOK'
      BY <3>1 DEF TypeOK
    <3>3. cs[c] \in Gens /\ cname \in Gens
      BY <2>2, GenBounds DEF TypeOK, Gens
    <3>4. ClientFds'
      BY <1>3, <3>1, <3>3 DEF TypeOK, Descriptors, ClientFds, ClientOpenClientQueue
    <3>5. ServerFds'
      BY <3>1 DEF Descriptors, ServerFds
    <3> QED BY <3>2, <3>4, <3>5 DEF Descriptors
  <2> QED BY <2>1, <2>2
<1>4. CASE ClientSend(c)
  <2>1. cs[c] \in Gens
    BY <1>4 DEF ClientSend, Descriptors, ServerFds, ClientFds
  <2>2. [from |-> c, cmd |-> cmd[c]] \in Requests
    <3>1. cmd[c] \in Commands
      BY <1>4 DEF ClientSend, Descriptors, ServerFds, ClientFds
    <3> QED BY <3>1 DEF Requests
  <2>3. sq' \in [Gens -> Seq(Requests)]
    BY <1>4, <2>1, <2>2 DEF ClientSend, TypeOK
  <2>4. TypeOK'
    BY <1>4, <2>3 DEF ClientSend, TypeOK
  <2>5. Descriptors'
    BY <1>4 DEF ClientSend, TypeOK, Descriptors, ServerFds, ClientFds
  <2> QED BY <2>4, <2>5
<1>5. CASE ClientSendFails(c)
  BY <1>5, ExitType DEF ClientSendFails, TypeOK
<1>6. CASE ClientReceive(c)
  <2>1. cc[c] \in Gens /\ cq[cc[c]] \in Seq(Replies) /\ cq[cc[c]] # <<>>
    BY <1>6 DEF ClientReceive, TypeOK, Descriptors, ServerFds, ClientFds
  <2>2. Tail(cq[cc[c]]) \in Seq(Replies)
    BY <2>1, HeadTailProperties
  <2>3. cq' \in [Gens -> Seq(Replies)]
    BY <1>6, <2>2 DEF ClientReceive, TypeOK
  <2> QED BY <1>6, <2>3, ExitType DEF ClientReceive, TypeOK
<1>7. CASE ClientKilled(c)
  <2>1. CASE Exit(c, "idle")
    BY <1>7, <2>1, ExitType DEF ClientKilled, TypeOK
  <2>2. CASE cpc[c] = "recv" /\ cpc' = [cpc EXCEPT ![c] = "lost"] /\ UNCHANGED <<cmd, cs, cc>>
    BY <1>7, <2>2 DEF ClientKilled, TypeOK, Descriptors, ServerFds, ClientFds
  <2> QED BY <1>7, <2>1, <2>2 DEF ClientKilled
<1> QED BY <1>1, <1>2, <1>3, <1>4, <1>5, <1>6, <1>7 DEF ClientStep

LEMMA TypeStep == TypeInv /\ [Next]_vars => TypeInv'
<1>1. ASSUME TypeInv, UNCHANGED vars PROVE TypeInv'
  BY <1>1 DEF vars, TypeInv, TypeOK, Descriptors, ServerFds, ClientFds
<1> QED BY <1>1, ServerType, SigintType, ClientType DEF Next

LEMMA TypeInvariant == Spec => []TypeInv
BY TypeInit, TypeStep, PTL DEF Spec

(* Every variable keeps its type, and no descriptor is used that does not  *)
(* refer to a queue.                                                       *)
THEOREM TypeCorrect == Spec => []TypeOK
<1>1. TypeInv => TypeOK
  BY DEF TypeInv
<1> QED BY <1>1, TypeInvariant, PTL

-----------------------------------------------------------------------------
(* The queues *)

(* Before a run of the server has opened its CLIENT_QUEUE. *)
Opening == spc \in {"unlinkC", "openS", "openC"}

(* What the names and the descriptors refer to is never newer than the     *)
(* server; the queues of the newest run are opened together or not at all. *)
Names ==
  /\ sname <= gen /\ cname <= gen
  /\ spc = "unlinkC" => cname < gen
  /\ gen > 0 /\ sname = gen => cname \in {0, gen}
  /\ \A c \in Clients :
       /\ cs[c] <= gen /\ cc[c] <= gen
       /\ Opening => cc[c] # gen
       /\ spc \in {"unlinkC", "openS"} => cs[c] # gen
       /\ gen > 0 /\ cs[c] = gen => cname \in {0, gen}
       /\ cpc[c] \in {"send", "recv", "lost"} /\ cs[c] = gen => cc[c] = gen

(* The queues that the running server has not created yet are empty. *)
Fresh == \A g \in Gens : g > gen \/ (g = gen /\ Opening) => sq[g] = <<>> /\ cq[g] = <<>>

(* Replies name the run of the server that computed them. *)
Stamped == /\ \A g \in Gens : \A i \in 1 .. Len(cq[g]) : cq[g][i].run = g
           /\ spc \in {"clear", "send"} => reply.run = gen

(* ReplyDebt, from the moment both queues are open. *)
BothOpen == spc \in {"signal", "init", "recv", "clear", "send"}

Debt == BothOpen =>
          /\ UnderWay <= Cardinality(Asked(gen))
          /\ gen = 1 => UnderWay = Cardinality(Asked(gen))

QueueInv == Names /\ Fresh /\ Debt

LEMMA Counters ==
  ASSUME TypeInv
  PROVE  /\ gen \in Nat /\ sname \in Nat /\ cname \in Nat /\ sfd \in Nat /\ cfd \in Nat
         /\ cs \in [Clients -> Nat] /\ cc \in [Clients -> Nat]
         /\ DOMAIN cpc = Clients
BY GenBounds DEF TypeInv, TypeOK

LEMMA NamesStep == ASSUME TypeInv, Names, [Next]_vars PROVE Names'
<1> USE Counters DEF Names, Opening, boardVars, nameVars, queueVars, clientVars, serverVars
<1>1. CASE StartServer
  BY <1>1 DEF StartServer
<1>2. CASE UnlinkClientQueue
  BY <1>2 DEF UnlinkClientQueue
<1>3. CASE OpenServerQueue
  BY <1>3 DEF OpenServerQueue, OpenOrCreate, TypeInv, Descriptors, ServerFds
<1>4. CASE OpenClientQueue
  BY <1>4 DEF OpenClientQueue, OpenOrCreate, TypeInv, Descriptors, ServerFds
<1>5. CASE InstallHandler
  BY <1>5 DEF InstallHandler
<1>6. CASE InitBoard
  BY <1>6 DEF InitBoard
<1>7. CASE Receive
  BY <1>7 DEF Receive, ReceiveMove, ReceiveNoMove
<1>8. CASE Clear
  BY <1>8 DEF Clear
<1>9. CASE SendReply
  BY <1>9 DEF SendReply
<1>10. CASE QuitServerQueue
  BY <1>10 DEF QuitServerQueue
<1>11. CASE QuitClientQueue
  BY <1>11 DEF QuitClientQueue
<1>12. CASE Sigint
  BY <1>12 DEF Sigint, KilledBySigint, CaughtSigint, InterruptedBySigint
<1>13. ASSUME NEW c \in Clients, ClientStep(c) PROVE Names'
  <2>1. CASE Invoke(c)
    BY <2>1 DEF Invoke
  <2>2. CASE ClientOpenServerQueue(c)
    BY <2>2 DEF ClientOpenServerQueue, TypeInv, Descriptors, ServerFds, Gens
  <2>3. CASE ClientOpenClientQueue(c)
    BY <2>3 DEF ClientOpenClientQueue, TypeInv, Descriptors, ServerFds
  <2>4. CASE ClientSend(c)
    BY <2>4 DEF ClientSend
  <2>5. CASE ClientSendFails(c)
    BY <2>5 DEF ClientSendFails, Exit
  <2>6. CASE ClientReceive(c)
    BY <2>6 DEF ClientReceive, Exit
  <2>7. CASE ClientKilled(c)
    BY <2>7 DEF ClientKilled, Exit
  <2> QED BY <1>13, <2>1, <2>2, <2>3, <2>4, <2>5, <2>6, <2>7 DEF ClientStep
<1>14. CASE UNCHANGED vars
  BY <1>14 DEF vars
<1> QED BY <1>1, <1>2, <1>3, <1>4, <1>5, <1>6, <1>7, <1>8, <1>9, <1>10, <1>11, <1>12, <1>13, <1>14
        DEF Next, ServerStep

LEMMA QueueTypes ==
  ASSUME TypeInv
  PROVE  /\ sq \in [Gens -> Seq(Requests)] /\ cq \in [Gens -> Seq(Replies)]
         /\ \A g \in Gens : Len(sq[g]) \in Nat /\ Len(cq[g]) \in Nat
BY DEF TypeInv, TypeOK

(* The steps that neither put anything into a queue nor begin a new run.   *)
LEMMA FreshSteps ==
  ASSUME TypeInv, Fresh, UNCHANGED <<sq, cq>>, gen' = gen, Opening' => Opening
  PROVE  Fresh'
BY DEF Fresh

LEMMA FreshStep == ASSUME TypeInv, Names, Fresh, [Next]_vars PROVE Fresh'
<1> USE DEF boardVars, nameVars, queueVars, clientVars, serverVars
<1>1. CASE StartServer
  <2>1. gen' = gen + 1 /\ UNCHANGED <<sq, cq>>
    BY <1>1 DEF StartServer
  <2>2. \A g \in Gens : g >= gen + 1 => g > gen
    BY Counters DEF Gens
  <2>3. \A g \in Gens : g > gen' \/ (g = gen' /\ Opening') => g > gen
    BY <2>1, <2>2, Counters DEF Gens
  <2> QED BY <2>1, <2>3 DEF Fresh
<1>2. CASE \/ UnlinkClientQueue \/ OpenServerQueue \/ OpenClientQueue \/ InstallHandler
           \/ InitBoard \/ Clear \/ QuitServerQueue \/ QuitClientQueue
  <2>1. UNCHANGED <<sq, cq>> /\ gen' = gen /\ (Opening' => Opening)
    BY <1>2 DEF UnlinkClientQueue, OpenServerQueue, OpenClientQueue, InstallHandler, InitBoard,
                Clear, QuitServerQueue, QuitClientQueue, Opening
  <2> QED BY <2>1, FreshSteps
<1>3. CASE Receive
  <2>1. /\ sq' = [sq EXCEPT ![gen] = Tail(@)] /\ cq' = cq /\ gen' = gen
        /\ ~Opening /\ ~Opening'
    BY <1>3 DEF Receive, ReceiveMove, ReceiveNoMove, Opening, TypeInv, Descriptors, ServerFds
  <2> QED BY <2>1, QueueTypes, Counters DEF Fresh, Gens
<1>4. CASE SendReply
  <2>1. /\ cq' = [cq EXCEPT ![gen] = Append(@, reply)] /\ sq' = sq /\ gen' = gen
        /\ ~Opening /\ ~Opening'
    BY <1>4 DEF SendReply, Opening, TypeInv, Descriptors, ServerFds
  <2> QED BY <2>1, QueueTypes, Counters DEF Fresh, Gens
<1>5. CASE Sigint
  <2>1. UNCHANGED <<sq, cq>> /\ gen' = gen /\ (Opening' => Opening)
    BY <1>5 DEF Sigint, KilledBySigint, CaughtSigint, InterruptedBySigint, Opening
  <2> QED BY <2>1, FreshSteps
<1>6. ASSUME NEW c \in Clients, ClientStep(c) PROVE Fresh'
  <2>1. gen' = gen /\ Opening' = Opening
    BY <1>6 DEF ClientStep, Invoke, ClientOpenServerQueue, ClientOpenClientQueue, ClientSend,
                ClientSendFails, ClientReceive, ClientKilled, Opening
  <2>2. CASE ClientSend(c)
    <3>1. /\ sq' = [sq EXCEPT ![cs[c]] = Append(@, [from |-> c, cmd |-> cmd[c]])] /\ cq' = cq
          /\ cs[c] \in Gens /\ cs[c] <= gen /\ (cs[c] = gen => ~Opening)
      BY <2>2 DEF ClientSend, Names, TypeInv, Descriptors, ClientFds
    <3>2. ASSUME NEW g \in Gens, g > gen \/ (g = gen /\ Opening)
          PROVE  g # cs[c]
      BY <3>1, <3>2, Counters DEF Gens
    <3>3. \A g \in Gens : g # cs[c] => sq'[g] = sq[g]
      BY <3>1, QueueTypes
    <3> QED BY <2>1, <3>1, <3>2, <3>3 DEF Fresh
  <2>3. CASE ClientReceive(c)
    <3>1. /\ cq' = [cq EXCEPT ![cc[c]] = Tail(@)] /\ sq' = sq
          /\ cc[c] \in Gens /\ cc[c] <= gen /\ (Opening => cc[c] # gen)
      BY <2>3 DEF ClientReceive, Names, TypeInv, Descriptors, ClientFds
    <3>2. ASSUME NEW g \in Gens, g > gen \/ (g = gen /\ Opening)
          PROVE  g # cc[c]
      BY <3>1, <3>2, Counters DEF Gens
    <3>3. \A g \in Gens : g # cc[c] => cq'[g] = cq[g]
      BY <3>1, QueueTypes
    <3> QED BY <2>1, <3>1, <3>2, <3>3 DEF Fresh
  <2>4. CASE ~ClientSend(c) /\ ~ClientReceive(c)
    <3>1. UNCHANGED <<sq, cq>>
      BY <1>6, <2>4 DEF ClientStep, Invoke, ClientOpenServerQueue, ClientOpenClientQueue,
                        ClientSendFails, ClientKilled
    <3> QED BY <2>1, <3>1, FreshSteps
  <2> QED BY <2>2, <2>3, <2>4
<1>7. CASE UNCHANGED vars
  <2>1. UNCHANGED <<sq, cq>> /\ gen' = gen /\ Opening' = Opening
    BY <1>7 DEF vars, Opening
  <2> QED BY <2>1, FreshSteps
<1> QED BY <1>1, <1>2, <1>3, <1>4, <1>5, <1>6, <1>7 DEF Next, ServerStep

LEMMA AskedFinite == \A g : IsFiniteSet(Asked(g)) /\ Cardinality(Asked(g)) \in Nat
BY FiniteClients, FS_Subset, FS_CardinalityType DEF Asked

LEMMA UnderWayNat == ASSUME TypeInv, BothOpen PROVE UnderWay \in Nat /\ gen \in Gens
<1>1. gen \in Gens
  BY DEF BothOpen, TypeInv, Descriptors, ServerFds
<1>2. Len(sq[gen]) \in Nat /\ Len(cq[gen]) \in Nat
  BY <1>1, QueueTypes
<1>3. InHand \in Nat
  BY DEF InHand
<1> QED BY <1>1, <1>2, <1>3, QueueTypes DEF UnderWay

(* The steps that leave both sides of the account alone. *)
LEMMA DebtSteps ==
  ASSUME Debt, BothOpen' => BothOpen, gen' = gen,
         BothOpen' => UnderWay' = UnderWay /\ Asked(gen)' = Asked(gen)
  PROVE  Debt'
BY DEF Debt

LEMMA DebtServer ==
  ASSUME TypeInv, Names, Fresh, Debt, StartServer \/ ServerStep
  PROVE  Debt'
<1> USE DEF boardVars, nameVars, queueVars, clientVars
<1>1. CASE StartServer \/ UnlinkClientQueue \/ OpenServerQueue \/ QuitServerQueue \/ QuitClientQueue
  BY <1>1 DEF StartServer, UnlinkClientQueue, OpenServerQueue, QuitServerQueue, QuitClientQueue,
              BothOpen, Debt
<1>2. CASE OpenClientQueue
  <2>1. Opening /\ gen \in Gens
    BY <1>2 DEF OpenClientQueue, Opening, TypeInv, Descriptors, ServerFds
  <2>2. sq[gen] = <<>> /\ cq[gen] = <<>>
    BY <2>1 DEF Fresh
  <2>3. \A c \in Clients : cpc[c] \in {"recv", "lost"} => cs[c] # gen
    BY <2>1 DEF Names
  <2>4. Asked(gen)' = {}
    BY <1>2, <2>3 DEF OpenClientQueue, Asked
  <2>5. UnderWay' = 0
    BY <1>2, <2>2 DEF OpenClientQueue, UnderWay, InHand
  <2> QED BY <2>4, <2>5, FS_EmptySet DEF Debt
<1>3. CASE InstallHandler \/ InitBoard \/ Clear
  <2>1. /\ BothOpen' => BothOpen
        /\ gen' = gen /\ UnderWay' = UnderWay /\ Asked(gen)' = Asked(gen)
    BY <1>3 DEF InstallHandler, InitBoard, Clear, BothOpen, UnderWay, InHand, Asked
  <2> QED BY <2>1, DebtSteps
<1>4. CASE Receive
  <2>1. /\ spc = "recv" /\ spc' \in {"clear", "send"} /\ gen' = gen /\ cq' = cq
        /\ gen \in Gens /\ sq[gen] # <<>> /\ sq' = [sq EXCEPT ![gen] = Tail(@)]
        /\ UNCHANGED <<cpc, cs>>
    BY <1>4 DEF Receive, ReceiveMove, ReceiveNoMove, TypeInv, Descriptors, ServerFds
  <2>2. Len(sq[gen]) = Len(sq'[gen]) + 1 /\ Len(sq[gen]) \in Nat /\ Len(sq'[gen]) \in Nat
    <3>1. sq[gen] \in Seq(Requests) /\ sq'[gen] = Tail(sq[gen])
      BY <2>1, QueueTypes
    <3>2. Tail(sq[gen]) \in Seq(Requests) /\ Len(Tail(sq[gen])) = Len(sq[gen]) - 1
      BY <2>1, <3>1, HeadTailProperties
    <3> QED BY <3>1, <3>2
  <2>3. UnderWay' = UnderWay
    BY <2>1, <2>2, QueueTypes DEF UnderWay, InHand
  <2>4. Asked(gen)' = Asked(gen) /\ (BothOpen' => BothOpen)
    BY <2>1 DEF Asked, BothOpen
  <2> QED BY <2>1, <2>3, <2>4, DebtSteps
<1>5. CASE SendReply
  <2>1. /\ spc = "send" /\ spc' = "recv" /\ gen' = gen /\ sq' = sq
        /\ gen \in Gens /\ reply \in Replies /\ cq' = [cq EXCEPT ![gen] = Append(@, reply)]
        /\ UNCHANGED <<cpc, cs>>
    BY <1>5 DEF SendReply, TypeInv, TypeOK, Descriptors, ServerFds
  <2>2. Len(cq'[gen]) = Len(cq[gen]) + 1
    BY <2>1, QueueTypes, AppendProperties
  <2>3. UnderWay' = UnderWay
    BY <2>1, <2>2, QueueTypes DEF UnderWay, InHand
  <2>4. Asked(gen)' = Asked(gen) /\ (BothOpen' => BothOpen)
    BY <2>1 DEF Asked, BothOpen
  <2> QED BY <2>1, <2>3, <2>4, DebtSteps
<1> QED BY <1>1, <1>2, <1>3, <1>4, <1>5 DEF ServerStep

LEMMA DebtClient ==
  ASSUME TypeInv, Names, Debt, NEW c \in Clients, ClientStep(c)
  PROVE  Debt'
<1> USE DEF queueVars, serverVars
<1>1. gen' = gen /\ spc' = spc /\ BothOpen' = BothOpen
  BY DEF ClientStep, Invoke, ClientOpenServerQueue, ClientOpenClientQueue, ClientSend,
         ClientSendFails, ClientReceive, ClientKilled, BothOpen
<1> SUFFICES ASSUME BothOpen PROVE Debt'
  BY <1>1 DEF Debt
<1>2. gen \in Gens /\ UnderWay \in Nat
  BY UnderWayNat
<1>3. CASE ClientSend(c)
  <2>1. /\ cpc[c] = "send" /\ cpc' = [cpc EXCEPT ![c] = "recv"] /\ cs' = cs /\ cq' = cq
        /\ cs[c] \in Gens /\ [from |-> c, cmd |-> cmd[c]] \in Requests
        /\ sq' = [sq EXCEPT ![cs[c]] = Append(@, [from |-> c, cmd |-> cmd[c]])]
    BY <1>3 DEF ClientSend, TypeInv, TypeOK, Descriptors, ClientFds, Requests
  <2>2. CASE cs[c] = gen
    <3>1. Len(sq'[gen]) = Len(sq[gen]) + 1
      BY <2>1, <2>2, QueueTypes, AppendProperties
    <3>2. UnderWay' = UnderWay + 1
      <4>1. Len(sq[gen]) \in Nat /\ Len(cq[gen]) \in Nat
        BY <1>2, QueueTypes
      <4>2. InHand' = InHand /\ InHand \in Nat
        BY <1>1 DEF InHand
      <4> QED BY <1>1, <1>2, <2>1, <3>1, <4>1, <4>2, QueueTypes DEF UnderWay
    <3>3. Asked(gen)' = Asked(gen) \cup {c} /\ c \notin Asked(gen)
      BY <1>1, <2>1, <2>2 DEF Asked, TypeInv, TypeOK
    <3>4. Cardinality(Asked(gen)') = Cardinality(Asked(gen)) + 1
      BY <3>3, AskedFinite, FS_AddElement
    <3> QED BY <1>1, <1>2, <3>2, <3>4, AskedFinite DEF Debt
  <2>3. CASE cs[c] # gen
    <3>1. sq'[gen] = sq[gen]
      BY <1>2, <2>1, <2>3, QueueTypes
    <3>2. UnderWay' = UnderWay
      BY <1>1, <2>1, <3>1 DEF UnderWay, InHand
    <3>3. Asked(gen)' = Asked(gen)
      BY <1>1, <2>1, <2>3 DEF Asked, TypeInv, TypeOK
    <3> QED BY <1>1, <3>2, <3>3, DebtSteps
  <2> QED BY <2>2, <2>3
<1>4. CASE ClientReceive(c)
  <2>1. /\ cpc[c] = "recv" /\ cpc' = [cpc EXCEPT ![c] = "idle"] /\ cs' = [cs EXCEPT ![c] = 0]
        /\ sq' = sq /\ cq' = [cq EXCEPT ![cc[c]] = Tail(@)]
        /\ cs[c] \in Gens /\ cc[c] \in Gens /\ cq[cc[c]] # <<>>
        /\ cs[c] <= gen /\ (cs[c] = gen => cc[c] = gen)
    BY <1>4 DEF ClientReceive, Exit, TypeInv, Descriptors, ClientFds, Names
  <2>2. CASE cc[c] = gen
    <3>1. Len(cq[gen]) = Len(cq'[gen]) + 1 /\ Len(cq'[gen]) \in Nat
      <4>1. cq[gen] \in Seq(Replies) /\ cq'[gen] = Tail(cq[gen]) /\ cq[gen] # <<>>
        BY <1>2, <2>1, <2>2, QueueTypes
      <4> QED BY <4>1, HeadTailProperties
    <3>2. UnderWay' = UnderWay - 1
      <4>1. Len(sq[gen]) \in Nat
        BY <1>2, QueueTypes
      <4>2. InHand' = InHand /\ InHand \in Nat
        BY <1>1 DEF InHand
      <4>3. Len(sq'[gen]) = Len(sq[gen])
        BY <2>1
      <4> DEFINE a == Len(sq[gen])
                 b == Len(cq[gen])
                 n == Len(cq'[gen])
      <4>4. UnderWay' = a + InHand + n /\ UnderWay = a + InHand + b
        BY <1>1, <4>2, <4>3 DEF UnderWay
      <4>5. a \in Nat /\ n \in Nat /\ b = n + 1
        BY <3>1, <4>1
      <4> HIDE DEF a, b, n
      <4> QED BY <4>2, <4>4, <4>5
    <3>3. CASE cs[c] = gen
      <4>1. Asked(gen)' = Asked(gen) \ {c} /\ c \in Asked(gen)
        BY <1>1, <1>2, <2>1, <3>3, Counters DEF Asked, TypeInv, TypeOK, Gens
      <4>2. Cardinality(Asked(gen)') = Cardinality(Asked(gen)) - 1
        BY <4>1, AskedFinite, FS_RemoveElement
      <4> QED BY <1>1, <1>2, <3>2, <4>2, AskedFinite DEF Debt
    <3>4. CASE cs[c] # gen
      <4>1. Asked(gen)' = Asked(gen)
        BY <1>1, <1>2, <2>1, <3>4, Counters DEF Asked, TypeInv, TypeOK, Gens
      <4>2. gen # 1
        BY <1>2, <2>1, <3>4 DEF Gens
      <4> QED BY <1>1, <1>2, <3>2, <4>1, <4>2, AskedFinite DEF Debt
    <3> QED BY <3>3, <3>4
  <2>3. CASE cc[c] # gen
    <3>1. cq'[gen] = cq[gen]
      BY <1>2, <2>1, <2>3, QueueTypes
    <3>2. UnderWay' = UnderWay
      BY <1>1, <2>1, <3>1 DEF UnderWay, InHand
    <3>3. Asked(gen)' = Asked(gen)
      BY <1>1, <1>2, <2>1, <2>3, Counters DEF Asked, TypeInv, TypeOK, Gens
    <3> QED BY <1>1, <3>2, <3>3, DebtSteps
  <2> QED BY <2>2, <2>3
<1>5. CASE ~ClientSend(c) /\ ~ClientReceive(c)
  <2>1. UNCHANGED <<sq, cq>>
    BY <1>5 DEF ClientStep, Invoke, ClientOpenServerQueue, ClientOpenClientQueue, ClientSendFails,
                ClientKilled
  <2>2. UnderWay' = UnderWay
    BY <1>1, <2>1 DEF UnderWay, InHand
  <2>3. Asked(gen)' = Asked(gen)
    <3>1. ASSUME NEW x \in Clients
          PROVE  (cpc'[x] \in {"recv", "lost"} /\ cs'[x] = gen) <=>
                   (cpc[x] \in {"recv", "lost"} /\ cs[x] = gen)
      BY <1>5 DEF ClientStep, Invoke, ClientOpenServerQueue, ClientOpenClientQueue, ClientSendFails,
                  ClientKilled, Exit, TypeInv, TypeOK
    <3> QED BY <1>1, <3>1 DEF Asked
  <2> QED BY <1>1, <2>2, <2>3, DebtSteps
<1> QED BY <1>3, <1>4, <1>5

LEMMA QueueInvariant == Spec => []QueueInv
<1>1. Init => QueueInv
  BY DEF Init, QueueInv, Names, Fresh, Debt, Opening, BothOpen
<1>2. TypeInv /\ QueueInv /\ [Next]_vars => QueueInv'
  <2> SUFFICES ASSUME TypeInv, Names, Fresh, Debt, [Next]_vars PROVE Debt'
    BY NamesStep, FreshStep DEF QueueInv
  <2>1. CASE Sigint
    <3>1. /\ BothOpen' => BothOpen
          /\ gen' = gen /\ Asked(gen)' = Asked(gen)
          /\ BothOpen' => UnderWay' = UnderWay
      BY <2>1 DEF Sigint, KilledBySigint, CaughtSigint, InterruptedBySigint, BothOpen, Asked,
                  UnderWay, InHand, queueVars, clientVars
    <3> QED BY <3>1, DebtSteps
  <2>2. CASE UNCHANGED vars
    <3>1. BothOpen' = BothOpen /\ gen' = gen /\ Asked(gen)' = Asked(gen) /\ UnderWay' = UnderWay
      BY <2>2 DEF vars, BothOpen, Asked, UnderWay, InHand
    <3> QED BY <3>1, DebtSteps
  <2> QED BY <2>1, <2>2, DebtServer, DebtClient DEF Next
<1> QED BY <1>1, <1>2, TypeInvariant, PTL DEF Spec

(* No request is answered twice and nothing is answered unasked, whatever  *)
(* is killed and restarted, for every number of clients and restarts.      *)
THEOREM RepliesAreOwed == Spec => []ReplyDebt
<1>1. QueueInv => ReplyDebt
  BY DEF QueueInv, Debt, ReplyDebt, Serving, BothOpen
<1> QED BY <1>1, QueueInvariant, PTL

(* The queues of the first run jam only when more than 2 * QueueCap        *)
(* clients were killed while they waited.                                  *)
THEOREM JamBound == Spec => []JamNeedsKills
<1>1. ASSUME TypeInv, QueueInv PROVE JamNeedsKills
  <2> DEFINE Lost == {c \in Clients : cpc[c] = "lost"}
  <2> SUFFICES ASSUME gen = 1, spc = "send", Len(sq[1]) = QueueCap, Len(cq[1]) = QueueCap,
                      \A c \in Clients : cpc[c] # "recv"
               PROVE  Cardinality(Lost) > 2 * QueueCap
    BY DEF JamNeedsKills
  <2>1. Cardinality(Asked(1)) = 2 * QueueCap + 1
    BY <1>1, GenBounds DEF QueueInv, Debt, BothOpen, UnderWay, InHand
  <2>2. Asked(1) \subseteq Lost /\ IsFiniteSet(Lost)
    BY FiniteClients, FS_Subset DEF Asked
  <2>3. Cardinality(Asked(1)) <= Cardinality(Lost) /\ Cardinality(Lost) \in Nat
    BY <2>2, FS_Subset, FS_CardinalityType
  <2> QED BY <2>1, <2>3, GenBounds
<1> QED BY <1>1, TypeInvariant, QueueInvariant, PTL

LEMMA StampedStep == ASSUME TypeInv, Stamped, [Next]_vars PROVE Stamped'
<1> USE DEF boardVars, nameVars, queueVars, clientVars, serverVars
<1>1. CASE \/ StartServer \/ UnlinkClientQueue \/ OpenServerQueue \/ OpenClientQueue
           \/ InstallHandler \/ InitBoard \/ QuitServerQueue \/ QuitClientQueue
  <2>1. cq' = cq /\ spc' \notin {"clear", "send"}
    BY <1>1 DEF StartServer, UnlinkClientQueue, OpenServerQueue, OpenClientQueue, InstallHandler,
                InitBoard, QuitServerQueue, QuitClientQueue
  <2> QED BY <2>1 DEF Stamped
<1>2. CASE Receive
  <2>1. cq' = cq /\ reply'.run = gen /\ gen' = gen
    <3>1. \E c, t : reply' = [to |-> c, text |-> t, run |-> gen]
      BY <1>2 DEF Receive, ReceiveMove, ReceiveNoMove, Reply
    <3> QED BY <1>2, <3>1 DEF Receive
  <2> QED BY <2>1 DEF Stamped
<1>3. CASE Clear
  BY <1>3 DEF Clear, Stamped
<1>4. CASE SendReply
  <2>1. /\ spc' = "recv" /\ gen \in Gens /\ reply \in Replies /\ reply.run = gen
        /\ cq' = [cq EXCEPT ![gen] = Append(@, reply)]
    BY <1>4 DEF SendReply, Stamped, TypeInv, TypeOK, Descriptors, ServerFds
  <2>2. ASSUME NEW g \in Gens, NEW i \in 1 .. Len(cq'[g])
        PROVE  cq'[g][i].run = g
    <3>1. CASE g = gen
      <4>1. cq[g] \in Seq(Replies) /\ cq'[g] = Append(cq[g], reply)
        BY <2>1, <3>1, QueueTypes
      <4>2. CASE i \in 1 .. Len(cq[g])
        <5>1. cq'[g][i] = cq[g][i]
          BY <2>1, <4>1, <4>2, AppendProperties
        <5> QED BY <4>2, <5>1 DEF Stamped
      <4>3. CASE i = Len(cq[g]) + 1
        <5>1. cq'[g][i] = reply
          BY <2>1, <4>1, <4>3, AppendProperties
        <5> QED BY <2>1, <3>1, <5>1
      <4>4. Len(cq'[g]) = Len(cq[g]) + 1 /\ Len(cq[g]) \in Nat
        BY <2>1, <4>1, AppendProperties, QueueTypes
      <4>5. i \in 1 .. Len(cq[g]) \/ i = Len(cq[g]) + 1
        <5> DEFINE n == Len(cq[g])
        <5>1. n \in Nat /\ i \in 1 .. n + 1
          BY <2>2, <4>4
        <5> HIDE DEF n
        <5>2. i \in 1 .. n \/ i = n + 1
          BY <5>1
        <5> QED BY <5>2 DEF n
      <4> QED BY <4>2, <4>3, <4>5
    <3>2. CASE g # gen
      <4>1. cq'[g] = cq[g]
        BY <2>1, <3>2, QueueTypes
      <4> QED BY <2>2, <4>1 DEF Stamped
    <3> QED BY <3>1, <3>2
  <2> QED BY <2>1, <2>2 DEF Stamped
<1>5. CASE Sigint
  BY <1>5 DEF Sigint, KilledBySigint, CaughtSigint, InterruptedBySigint, Stamped
<1>6. ASSUME NEW c \in Clients, ClientStep(c) PROVE Stamped'
  <2>1. UNCHANGED <<spc, gen, reply>>
    BY <1>6 DEF ClientStep, Invoke, ClientOpenServerQueue, ClientOpenClientQueue, ClientSend,
                ClientSendFails, ClientReceive, ClientKilled
  <2>2. CASE ClientReceive(c)
    <3>1. cc[c] \in Gens /\ cq[cc[c]] # <<>> /\ cq' = [cq EXCEPT ![cc[c]] = Tail(@)]
      BY <2>2 DEF ClientReceive, TypeInv, Descriptors, ClientFds
    <3>2. ASSUME NEW g \in Gens, NEW i \in 1 .. Len(cq'[g])
          PROVE  cq'[g][i].run = g
      <4>1. CASE g = cc[c]
        <5>1. cq[g] \in Seq(Replies) /\ cq[g] # <<>> /\ cq'[g] = Tail(cq[g])
          BY <3>1, <4>1, QueueTypes
        <5>2. cq'[g][i] = cq[g][i + 1] /\ Len(cq'[g]) = Len(cq[g]) - 1
          BY <3>2, <5>1, HeadTailProperties
        <5>3. i + 1 \in 1 .. Len(cq[g])
          <6> DEFINE n == Len(cq[g])
          <6>1. n \in Nat /\ i \in 1 .. n - 1
            BY <3>2, <5>2, QueueTypes
          <6> HIDE DEF n
          <6>2. i + 1 \in 1 .. n
            BY <6>1
          <6> QED BY <6>2 DEF n
        <5> QED BY <5>2, <5>3 DEF Stamped
      <4>2. CASE g # cc[c]
        <5>1. cq'[g] = cq[g]
          BY <3>1, <4>2, QueueTypes
        <5> QED BY <3>2, <5>1 DEF Stamped
      <4> QED BY <4>1, <4>2
    <3> QED BY <2>1, <3>2 DEF Stamped
  <2>3. CASE ~ClientReceive(c)
    <3>1. cq' = cq
      BY <1>6, <2>3 DEF ClientStep, Invoke, ClientOpenServerQueue, ClientOpenClientQueue, ClientSend,
                        ClientSendFails, ClientKilled
    <3> QED BY <2>1, <3>1 DEF Stamped
  <2> QED BY <2>2, <2>3
<1>7. CASE UNCHANGED vars
  BY <1>7 DEF vars, Stamped
<1> QED BY <1>1, <1>2, <1>3, <1>4, <1>5, <1>6, <1>7 DEF Next, ServerStep

(* A client that opened both queues of one run of the server never takes a *)
(* reply of another run: unlinking the names at start-up is enough.        *)
THEOREM RepliesAreFresh == Spec => NoStaleReplies
<1>1. Init => Stamped
  <2> SUFFICES ASSUME Init, NEW g \in Gens, NEW i \in 1 .. Len(cq[g]) PROVE FALSE
    BY DEF Init, Stamped
  <2>1. cq[g] = <<>>
    BY DEF Init
  <2> QED BY <2>1
<1>2. TypeInv /\ Stamped /\ [Next]_vars => Stamped'
  BY StampedStep
<1>3. ASSUME TypeInv, Stamped
      PROVE  [\A c \in Clients : ClientReceive(c) /\ cs[c] = cc[c] => Head(cq[cc[c]]).run = cs[c]]_vars
  <2> SUFFICES ASSUME NEW c \in Clients, ClientReceive(c), cs[c] = cc[c]
               PROVE  Head(cq[cc[c]]).run = cs[c]
    OBVIOUS
  <2>1. cc[c] \in Gens /\ cq[cc[c]] # <<>> /\ cq[cc[c]] \in Seq(Replies)
    BY <1>3, QueueTypes DEF ClientReceive, TypeInv, Descriptors, ClientFds
  <2>2. 1 \in 1 .. Len(cq[cc[c]]) /\ Head(cq[cc[c]]) = cq[cc[c]][1]
    <3>1. Len(cq[cc[c]]) \in Nat /\ Len(cq[cc[c]]) # 0
      BY <2>1, EmptySeq, LenProperties
    <3> QED BY <2>1, <3>1
  <2> QED BY <1>3, <2>1, <2>2 DEF Stamped
<1> QED BY <1>1, <1>2, <1>3, TypeInvariant, PTL DEF Spec, NoStaleReplies

-----------------------------------------------------------------------------
(* The board *)

LEMMA SameBoard ==
  ASSUME TilesConserved, Serving' => Serving /\ Settled' = Settled
  PROVE  TilesConserved'
BY DEF TilesConserved, Permuted

LEMMA MoveSettles ==
  ASSUME TypeInv, TilesConserved, spc = "recv", NEW req, ReceiveMove(req)
  PROVE  /\ req.cmd \in Moves /\ src' \in Hits(brd, Offset(req.cmd))
         /\ Settled = brd /\ Permuted(brd) /\ brd \in [Words -> Int]
         /\ src' \in Cells /\ src' + Offset(req.cmd) \in Cells /\ src' # src' + Offset(req.cmd)
         /\ brd[src' + Offset(req.cmd)] = Blank
         /\ Settled' = Moved(brd, src', src' + Offset(req.cmd))
<1>1. /\ Permuted(brd) /\ brd \in [Words -> Int] /\ Settled = brd
  BY DEF TilesConserved, Serving, Settled, TypeInv, TypeOK
<1>2. req.cmd \in Moves /\ src' \in Hits(brd, Offset(req.cmd))
  BY FirstHitIsHit DEF ReceiveMove
<1>3. /\ src' \in Cells /\ src' + Offset(req.cmd) \in Cells
      /\ src' # src' + Offset(req.cmd) /\ brd[src' + Offset(req.cmd)] = Blank
  BY <1>1, <1>2, HitIsInside
<1>4. Settled' = Moved(brd, src', src' + Offset(req.cmd))
  BY DEF ReceiveMove, Settled, Moved
<1> QED BY <1>1, <1>2, <1>3, <1>4

(* What each step of Next does to the settled board. *)
LEMMA BoardCases ==
  ASSUME TypeInv, [Next]_vars
  PROVE  \/ spc \notin {"recv", "clear", "send", "quitS", "quitC"} /\ ~Serving'
               /\ spc' \notin {"quitS", "quitC"}
         \/ spc = "init" /\ spc' = "recv" /\ brd' = NewBoard(0)
         \/ spc' = "down"
         \/ \E req : spc = "recv" /\ ReceiveMove(req)
         \/ /\ spc \in {"recv", "clear", "send", "quitS", "quitC"}
            /\ spc' \in {"recv", "clear", "send", "quitS", "quitC"}
            /\ Settled' = Settled /\ (Serving' => Serving)
<1> USE DEF boardVars, nameVars, queueVars, clientVars, serverVars, Serving, Settled
<1>1. CASE \/ StartServer \/ UnlinkClientQueue \/ OpenServerQueue \/ OpenClientQueue
           \/ InstallHandler \/ InitBoard \/ QuitServerQueue \/ QuitClientQueue
  BY <1>1 DEF StartServer, UnlinkClientQueue, OpenServerQueue, OpenClientQueue, InstallHandler,
              InitBoard, QuitServerQueue, QuitClientQueue
<1>2. CASE Receive
  BY <1>2 DEF Receive, ReceiveNoMove
<1>3. CASE Clear
  BY <1>3 DEF Clear
<1>4. CASE SendReply
  BY <1>4 DEF SendReply
<1>5. CASE Sigint
  BY <1>5 DEF Sigint, KilledBySigint, CaughtSigint, InterruptedBySigint, TypeInv, TypeOK
<1>6. CASE UNCHANGED vars \/ \E c \in Clients : ClientStep(c)
  <2>1. UNCHANGED <<spc, brd, src>>
    BY <1>6 DEF vars, ClientStep, Invoke, ClientOpenServerQueue, ClientOpenClientQueue, ClientSend,
                ClientSendFails, ClientReceive, ClientKilled
  <2> QED BY <2>1
<1> QED BY <1>1, <1>2, <1>3, <1>4, <1>5, <1>6 DEF Next, ServerStep

LEMMA TilesStep == ASSUME TypeInv, TilesConserved, [Next]_vars PROVE TilesConserved'
<1>1. CASE ~Serving'
  BY <1>1 DEF TilesConserved
<1>2. CASE spc = "init" /\ spc' = "recv" /\ brd' = NewBoard(0)
  <2>1. Settled' = NewBoard(0)
    BY <1>2 DEF Settled
  <2>2. Permuted(NewBoard(0))
    BY NewBoardPermuted DEF Blank
  <2> QED BY <2>1, <2>2 DEF TilesConserved, Permuted
<1>3. ASSUME NEW req, spc = "recv", ReceiveMove(req) PROVE TilesConserved'
  <2> DEFINE b == src' + Offset(req.cmd)
  <2>1. /\ src' \in Cells /\ b \in Cells /\ src' # b /\ brd[b] = Blank
        /\ Permuted(brd) /\ brd \in [Words -> Int] /\ Settled' = Moved(brd, src', b)
    BY <1>3, MoveSettles
  <2> HIDE DEF b
  <2>2. Permuted(Moved(brd, src', b))
    BY <2>1, MoveKeepsTiles
  <2> QED BY <2>1, <2>2 DEF TilesConserved, Permuted
<1>4. CASE Settled' = Settled /\ (Serving' => Serving)
  BY <1>4, SameBoard
<1>5. spc' = "down" => ~Serving'
  BY DEF Serving
<1> QED BY <1>1, <1>2, <1>3, <1>4, <1>5, BoardCases

(* On a board of any size, no sequence of commands loses or doubles a      *)
(* tile, although the scans read words outside the squares.                *)
THEOREM TilesAreConserved == Spec => []TilesConserved
<1>1. Init => TilesConserved
  BY DEF Init, TilesConserved, Serving
<1> QED BY <1>1, TilesStep, TypeInvariant, PTL DEF Spec

(* The board that a signal handler prints between the two stores of a move *)
(* misses no tile.                                                         *)
THEOREM SnapshotsAreComplete == Spec => []SnapshotComplete
<1>1. ASSUME TypeInv, TilesConserved PROVE SnapshotComplete
  <2> SUFFICES ASSUME Serving, NEW t \in 1 .. (Rows * Cols - 1)
               PROVE  \E a \in Cells : brd[a] = t
    BY DEF SnapshotComplete
  <2>1. PICK a \in Cells : Settled[a] = t
    BY <1>1 DEF TilesConserved, Permuted
  <2>2. brd[a] = t
    <3>1. t # Blank
      BY StrideNat DEF Blank
    <3>2. spc = "clear" => a \in Words /\ src \in Words /\ brd \in [Words -> Int]
      BY <1>1, ReachesWords DEF TypeInv, TypeOK, Descriptors, ServerFds
    <3> QED BY <2>1, <3>1, <3>2 DEF Settled
  <2> QED BY <2>2
<1> QED BY <1>1, TilesAreConserved, TypeInvariant, PTL

-----------------------------------------------------------------------------
(* Refinement *)

LEMMA ViewOfNewBoard == View(NewBoard(0)) = Puzzle!Solved
BY ViewOfNewGame DEF Puzzle!Solved, Puzzle!Pos, Puzzle!Home, Puzzle!Blank, Blank, Squares

(* The two stores of a move exchange two neighbouring squares. *)
LEMMA MoveIsSlide ==
  ASSUME NEW m \in [Words -> Int], Permuted(m), NEW move \in Moves,
         NEW a \in Hits(m, Offset(move))
  PROVE  \E p, q \in Squares :
           /\ Puzzle!Adjacent(p, q)
           /\ View(m)[q] = Blank
           /\ View(Moved(m, a, a + Offset(move))) = Puzzle!Swap(View(m), p, q)
<1>1. PICK h \in Squares : m[Word(h)] = Blank
  BY OneHole
<1> DEFINE p == Giver(move, h)
<1>2. p \in Squares /\ a = Word(p) /\ a + Offset(move) = Word(h)
  BY <1>1, GiverIsHit
<1>3. Puzzle!Adjacent(p, h)
  <2>1. h[1] \in Int /\ h[2] \in Int
    BY SquareParts, StrideNat
  <2> QED BY <2>1 DEF Puzzle!Adjacent, Giver, Moves
<1>4. p # h
  BY <1>2, HitIsInside
<1> HIDE DEF p
<1>5. View(Moved(m, a, a + Offset(move))) = [View(m) EXCEPT ![p] = View(m)[h], ![h] = View(m)[p]]
  BY <1>1, <1>2, <1>4, MovedView
<1>6. View(m)[h] = Blank
  BY <1>1, ViewAt
<1> QED BY <1>2, <1>3, <1>5, <1>6 DEF Puzzle!Swap

LEMMA ShownStep ==
  ASSUME TypeInv, TilesConserved, [Next]_vars
  PROVE  [Puzzle!Next]_Shown
<1>1. CASE /\ spc \notin {"recv", "clear", "send", "quitS", "quitC"}
           /\ ~Serving' /\ spc' \notin {"quitS", "quitC"}
  BY <1>1 DEF Shown, Serving
<1>2. CASE spc = "init" /\ spc' = "recv" /\ brd' = NewBoard(0)
  BY <1>2 DEF Shown, Settled
<1>3. CASE spc' = "down"
  <2>1. Shown' = Puzzle!Solved
    BY <1>3, ViewOfNewBoard DEF Shown
  <2> QED BY <2>1 DEF Puzzle!Next, Puzzle!NewGame
<1>4. ASSUME NEW req, spc = "recv", ReceiveMove(req)
      PROVE  Puzzle!Next
  <2>1. /\ req.cmd \in Moves /\ src' \in Hits(brd, Offset(req.cmd))
        /\ Settled = brd /\ Permuted(brd) /\ brd \in [Words -> Int]
        /\ Settled' = Moved(brd, src', src' + Offset(req.cmd))
    BY <1>4, MoveSettles
  <2>2. PICK p, q \in Squares :
          /\ Puzzle!Adjacent(p, q)
          /\ View(brd)[q] = Blank
          /\ View(Moved(brd, src', src' + Offset(req.cmd))) = Puzzle!Swap(View(brd), p, q)
    BY <2>1, MoveIsSlide
  <2>3. Shown = View(brd) /\ Shown' = View(Moved(brd, src', src' + Offset(req.cmd)))
    BY <1>4, <2>1 DEF Shown, ReceiveMove
  <2>4. Puzzle!Slide(p, q)
    BY <2>2, <2>3 DEF Puzzle!Slide, Puzzle!Blank, Blank
  <2>5. p \in Puzzle!Pos /\ q \in Puzzle!Pos
    BY DEF Puzzle!Pos, Squares
  <2> QED BY <2>4, <2>5 DEF Puzzle!Next
<1>5. CASE /\ spc \in {"recv", "clear", "send", "quitS", "quitC"}
           /\ spc' \in {"recv", "clear", "send", "quitS", "quitC"}
           /\ Settled' = Settled
  BY <1>5 DEF Shown
<1> QED BY <1>1, <1>2, <1>3, <1>4, <1>5, BoardCases

(* The server implements the sliding puzzle on a board of any size. *)
THEOREM ServerImplementsPuzzle == Spec => ImplementsPuzzle
<1>1. Init => Puzzle!Init
  BY ViewOfNewBoard DEF Init, Shown, Puzzle!Init
<1>2. TypeInv /\ TilesConserved /\ [Next]_vars => [Puzzle!Next]_Shown
  BY ShownStep
<1> QED BY <1>1, <1>2, TypeInvariant, TilesAreConserved, PTL
        DEF Spec, ImplementsPuzzle, Puzzle!Spec

LEMMA CommandStep ==
  ASSUME TypeInv, TilesConserved, Receive, Head(sq[sfd]).cmd \in Moves
  PROVE  LET h == Hole(Shown)
             p == Giver(Head(sq[sfd]).cmd, h)
         IN IF p \in DOMAIN Shown
            THEN reply'.text = "success" /\ Shown' = Puzzle!Swap(Shown, h, p)
            ELSE reply'.text = "invalid command" /\ Shown' = Shown
<1> DEFINE req == Head(sq[sfd])
           d == Offset(req.cmd)
<1>1. spc = "recv" /\ (ReceiveMove(req) \/ ReceiveNoMove(req)) /\ req.cmd \in Moves
  BY DEF Receive
<1> HIDE DEF req
<1>2. Permuted(brd) /\ brd \in [Words -> Int] /\ Shown = View(brd)
  BY <1>1 DEF TilesConserved, Serving, Settled, Shown, TypeInv, TypeOK
<1>3. PICK h \in Squares : brd[Word(h)] = Blank /\ Hole(View(brd)) = h
  <2>1. PICK q \in Squares : /\ brd[Word(q)] = Blank
                             /\ (CHOOSE r \in DOMAIN View(brd) : View(brd)[r] = Blank) = q
    BY <1>2, OneHole
  <2> QED BY <2>1 DEF Hole
<1> DEFINE p == Giver(req.cmd, h)
<1>4. /\ \A a \in Hits(brd, d) : p \in Squares /\ a = Word(p) /\ a + d = Word(h)
      /\ p \in Squares => Word(p) \in Hits(brd, d)
  BY <1>1, <1>2, <1>3, GiverIsHit
<1>5. DOMAIN Shown = Squares
  BY <1>2, ViewAt
<1> HIDE DEF p
<1>6. CASE ReceiveMove(req)
  <2>1. /\ src' \in Hits(brd, d) /\ src' # src' + d
        /\ Settled' = Moved(brd, src', src' + d)
    BY <1>1, <1>6, MoveSettles
  <2>2. p \in Squares /\ src' = Word(p) /\ src' + d = Word(h) /\ p # h
    BY <1>4, <2>1
  <2>3. Shown' = View(Moved(brd, Word(p), Word(h)))
    BY <1>6, <2>1, <2>2 DEF Shown, ReceiveMove
  <2>4. Shown' = Puzzle!Swap(Shown, h, p)
    BY <1>2, <1>3, <2>2, <2>3, MovedView DEF Puzzle!Swap
  <2>5. reply'.text = "success"
    BY <1>6 DEF ReceiveMove, Reply
  <2> QED BY <1>2, <1>3, <1>5, <2>2, <2>4, <2>5 DEF p, req
<1>7. CASE ReceiveNoMove(req)
  <2>1. Hits(brd, d) = {} /\ spc' = "send" /\ brd' = brd /\ req.cmd # "board"
    BY <1>1, <1>7 DEF ReceiveNoMove, Moves
  <2>2. p \notin Squares
    BY <1>4, <2>1
  <2>3. Shown' = Shown
    BY <1>2, <2>1 DEF Shown, Settled
  <2>4. reply'.text = "invalid command"
    BY <1>7, <2>1 DEF ReceiveNoMove, Reply
  <2> QED BY <1>2, <1>3, <1>5, <2>2, <2>3, <2>4 DEF p, req
<1> QED BY <1>1, <1>6, <1>7

(* On a board of any size a command moves the tile on the side it names    *)
(* and says so, or leaves the board alone and says that (server.c:85-182): *)
(* no scan ever takes a padding word for a square, or wraps from one row   *)
(* to the next.                                                            *)
THEOREM CommandsAreObeyed == Spec => MovesAsCommanded
<1>1. ASSUME TypeInv, TilesConserved
      PROVE  [(Receive /\ Head(sq[sfd]).cmd \in Moves) =>
                LET h == Hole(Shown)
                    m == Head(sq[sfd]).cmd
                    p == CASE m = "up"    -> <<h[1] + 1, h[2]>>
                           [] m = "down"  -> <<h[1] - 1, h[2]>>
                           [] m = "left"  -> <<h[1], h[2] + 1>>
                           [] m = "right" -> <<h[1], h[2] - 1>>
                IN IF p \in DOMAIN Shown
                   THEN reply'.text = "success" /\ Shown' = Puzzle!Swap(Shown, h, p)
                   ELSE reply'.text = "invalid command" /\ Shown' = Shown]_vars
  BY <1>1, CommandStep DEF Giver
<1> QED BY <1>1, TypeInvariant, TilesAreConserved, PTL DEF Spec, MovesAsCommanded

-----------------------------------------------------------------------------
(* Parity: the rank of the blank is the largest one. *)

Ranks(sqs) == [q \in Squares |-> IF sqs[q] = Blank THEN Rows * Cols ELSE sqs[q]]

Disorder(sqs) == Cardinality(Inverted(Squares, Places, Ranks(sqs)))

(* The cardinality that the instance of SlidingPuzzle brings is the usual  *)
(* one.                                                                    *)
LEMMA SameCardinality == \A S : Puzzle!Cardinality(S) = Cardinality(S)
BY Zenon DEF Puzzle!Cardinality, Cardinality

(* Solvable in terms of Disorder, for a board with one blank.              *)
LEMMA SolvableIsEven ==
  ASSUME NEW sqs, NEW h \in Squares, sqs[h] = Blank,
         \A q \in Squares : sqs[q] = Blank => q = h
  PROVE  Puzzle!Solvable(sqs) <=> (Disorder(sqs) + (Rows - 1 - h[1]) + (Cols - 1 - h[2])) % 2 = 0
<1>1. (CHOOSE q \in Squares : sqs[q] = Blank) = h
  OBVIOUS
<1> DEFINE I == {pq \in Squares \X Squares :
                   /\ pq[1][1] * Cols + pq[1][2] < pq[2][1] * Cols + pq[2][2]
                   /\ (IF sqs[pq[1]] = Blank THEN Rows * Cols ELSE sqs[pq[1]])
                        > (IF sqs[pq[2]] = Blank THEN Rows * Cols ELSE sqs[pq[2]])}
<1>2. I = Inverted(Squares, Places, Ranks(sqs))
  BY DEF Inverted, Places, Ranks
<1>3. Puzzle!Solvable(sqs) <=> (Cardinality(I) + (Rows - 1 - h[1]) + (Cols - 1 - h[2])) % 2 = 0
  <2> DEFINE hole == CHOOSE q \in Squares : sqs[q] = Blank
  <2>1. Puzzle!Solvable(sqs)
          <=> (Puzzle!Cardinality(I) + (Rows - 1 - hole[1]) + (Cols - 1 - hole[2])) % 2 = 0
    BY DEF Puzzle!Solvable, Puzzle!Pos, Puzzle!Home, Puzzle!Blank, Squares, Blank
  <2> HIDE DEF I
  <2> QED BY <1>1, <2>1, SameCardinality
<1> HIDE DEF I
<1> QED BY <1>2, <1>3 DEF Disorder

(* A slide of a tile from square p to the blank in square h. *)
LEMMA SlideIsOdd ==
  ASSUME NEW sqs, Puzzle!IsPermutation(sqs), NEW p \in Squares, NEW h \in Squares, p # h,
         DOMAIN sqs = Squares, sqs = [q \in Squares |-> sqs[q]], sqs[h] = Blank
  PROVE  /\ Disorder(sqs) \in Nat /\ Disorder(Puzzle!Swap(sqs, p, h)) \in Nat
         /\ \E k \in Nat : Disorder(sqs) + Disorder(Puzzle!Swap(sqs, p, h)) = 2 * k + 1
<1> DEFINE new == Puzzle!Swap(sqs, p, h)
           f == Ranks(sqs)
           g == Ranks(new)
           N == Rows * Cols
<1>1. /\ new = [q \in Squares |-> new[q]]
      /\ new[p] = Blank /\ new[h] = sqs[p]
      /\ \A q \in Squares \ {p, h} : new[q] = sqs[q]
  BY DEF Puzzle!Swap
<1>2. N \in Nat /\ \A q \in Squares : sqs[q] \in 1 .. N - 1 \cup {Blank}
  BY StrideNat DEF Puzzle!IsPermutation, Puzzle!Pos, Puzzle!Tiles, Puzzle!Blank, Squares, Blank
<1>3. \A q, r \in Squares : sqs[q] = sqs[r] => q = r
  BY DEF Puzzle!IsPermutation, Puzzle!Pos, Squares
<1> HIDE DEF new, N
<1>4. /\ f \in [Squares -> Int] /\ f[h] = N
      /\ \A q \in Squares \ {h} : f[q] = sqs[q] /\ f[q] < N
  BY <1>2, <1>3 DEF Ranks, Blank, N
<1>5. /\ g \in [Squares -> Int] /\ g[p] = N /\ g[h] = f[p]
      /\ \A q \in Squares \ {p, h} : g[q] = f[q]
  BY <1>1, <1>2, <1>3 DEF Ranks, Blank, N
<1>6. \A q, r \in Squares : f[q] = f[r] => q = r
  BY <1>3, <1>4
<1>7. f = [q \in Squares |-> f[q]] /\ g = [q \in Squares |-> g[q]]
  BY DEF Ranks
<1> HIDE DEF f, g
<1>8. /\ g = Exchanged(f, h, p) /\ f = Exchanged(g, p, h)
      /\ \A q, r \in Squares : g[q] = g[r] => q = r
      /\ \A q \in Squares \ {p} : g[q] < g[p]
      /\ \A q \in Squares \ {h} : f[q] < f[h]
  <2>1. g = Exchanged(f, h, p)
    BY <1>4, <1>5, <1>7 DEF Exchanged
  <2>2. f = Exchanged(g, p, h)
    BY <1>4, <1>5, <1>7 DEF Exchanged
  <2>3. \A q, r \in Squares : g[q] = g[r] => q = r
    BY <1>4, <1>5, <1>6
  <2>4. \A q \in Squares \ {p} : g[q] < g[p]
    BY <1>4, <1>5
  <2> QED BY <1>4, <2>1, <2>2, <2>3, <2>4
<1>9. Places[h] < Places[p] \/ Places[p] < Places[h]
  BY PlacesDiffer
<1> DEFINE a == Cardinality(Inverted(Squares, Places, f))
           b == Cardinality(Inverted(Squares, Places, g))
<1>10. CASE Places[h] < Places[p]
  <2>1. a \in Nat /\ b \in Nat /\ \E k \in Nat : a + b = 2 * k + 1
    BY <1>4, <1>6, <1>8, <1>10, PlacesDiffer, ExchangeIsOdd
  <2> QED BY <2>1 DEF f, g, new, Disorder
<1>11. CASE Places[p] < Places[h]
  <2>1. a \in Nat /\ b \in Nat /\ \E k \in Nat : b + a = 2 * k + 1
    BY <1>5, <1>8, <1>11, PlacesDiffer, ExchangeIsOdd
  <2>2. b + a = a + b
    BY <2>1
  <2> HIDE DEF a, b
  <2>3. a \in Nat /\ b \in Nat /\ \E k \in Nat : a + b = 2 * k + 1
    BY <2>1, <2>2
  <2> QED BY <2>3 DEF a, b, f, g, new, Disorder
<1> QED BY <1>9, <1>10, <1>11

(* A slide to a neighbouring square moves the blank by one. *)
LEMMA SlideKeepsSolvable ==
  ASSUME NEW sqs, Puzzle!IsPermutation(sqs), NEW p \in Squares, NEW h \in Squares,
         DOMAIN sqs = Squares, sqs = [q \in Squares |-> sqs[q]], sqs[h] = Blank,
         Puzzle!Adjacent(p, h), Puzzle!Solvable(sqs)
  PROVE  Puzzle!Solvable(Puzzle!Swap(sqs, p, h))
<1> DEFINE new == Puzzle!Swap(sqs, p, h)
           a == Disorder(sqs)
           b == Disorder(new)
           i == h[1]
           j == h[2]
           k == p[1]
           l == p[2]
<1>1. i \in Int /\ j \in Int /\ k \in Int /\ l \in Int /\ Rows \in Int /\ Cols \in Int
  BY SquareParts, StrideNat
<1>2. \/ k = i /\ (l = j + 1 \/ j = l + 1)
      \/ l = j /\ (k = i + 1 \/ i = k + 1)
  BY DEF Puzzle!Adjacent
<1>3. p # h
  BY <1>1, <1>2
<1>4. a \in Nat /\ b \in Nat /\ \E e \in Nat : a + b = 2 * e + 1
  BY <1>3, SlideIsOdd
<1>5. \A q, r \in Squares : sqs[q] = sqs[r] => q = r
  BY DEF Puzzle!IsPermutation, Puzzle!Pos, Squares
<1>6. /\ new[p] = Blank /\ new[h] = sqs[p]
      /\ \A q \in Squares \ {p, h} : new[q] = sqs[q]
  BY <1>3 DEF Puzzle!Swap
<1> HIDE DEF new
<1>7. \A q \in Squares : new[q] = Blank => q = p
  BY <1>3, <1>5, <1>6
<1>8. (a + (Rows - 1 - i) + (Cols - 1 - j)) % 2 = 0
  BY <1>5, SolvableIsEven
<1>9. Puzzle!Solvable(new) <=> (b + (Rows - 1 - k) + (Cols - 1 - l)) % 2 = 0
  BY <1>6, <1>7, SolvableIsEven
<1> HIDE DEF a, b, i, j, k, l
<1>10. (b + (Rows - 1 - k) + (Cols - 1 - l)) % 2 = 0
  <2>1. PICK e \in Nat : a + b = 2 * e + 1
    BY <1>4
  <2> DEFINE x == a + (Rows - 1 - i) + (Cols - 1 - j)
             y == b + (Rows - 1 - k) + (Cols - 1 - l)
             u == i - k + j - l
  <2>2. /\ x \in Int /\ y = 2 * (e - a) + 1 + u + x /\ e - a \in Int
        /\ u = 1 \/ u = -1
    <3>1. u = 1 \/ u = -1
      BY <1>1, <1>2
    <3>2. x \in Int /\ y = 2 * (e - a) + 1 + u + x /\ e - a \in Int
      BY <1>1, <1>4, <2>1
    <3> QED BY <3>1, <3>2
  <2>3. x % 2 = 0
    BY <1>8
  <2> HIDE DEF x, y, u
  <2>4. y % 2 = 0
    BY <2>2, <2>3
  <2> QED BY <2>4 DEF y
<1> QED BY <1>9, <1>10 DEF new

(* In the solved board the ranks are in order.                             *)
LEMMA SolvedIsSolvable == Puzzle!Solvable(Puzzle!Solved)
<1> DEFINE new == Puzzle!Solved
           h == <<Rows - 1, Cols - 1>>
           f == Ranks(new)
<1>1. /\ h \in Squares /\ h[1] = Rows - 1 /\ h[2] = Cols - 1
      /\ \A q \in Squares : new[q] = IF q = h THEN Blank ELSE q[1] * Cols + q[2] + 1
      /\ Rows * Cols = (Rows - 1) * Cols + (Cols - 1) + 1
  BY StrideNat DEF Puzzle!Solved, Puzzle!Pos, Puzzle!Home, Puzzle!Blank, Blank, Squares
<1>2. \A q \in Squares : q[1] * Cols + q[2] \in Nat /\ Places[q] = q[1] * Cols + q[2]
  BY SquareParts, StrideNat DEF Places
<1> HIDE DEF new, h
<1>3. \A q \in Squares : new[q] = Blank <=> q = h
  BY <1>1, <1>2 DEF Blank
<1>4. \A q \in Squares : f[q] = Places[q] + 1
  BY <1>1, <1>2, <1>3 DEF Ranks
<1>5. Inverted(Squares, Places, f) = {}
  <2> HIDE DEF f
  <2>1. ASSUME NEW s \in Squares \X Squares
        PROVE  ~(Places[s[1]] < Places[s[2]] /\ f[s[1]] > f[s[2]])
    <3>1. s[1] \in Squares /\ s[2] \in Squares
      OBVIOUS
    <3> QED BY <3>1, <1>2, <1>4
  <2> QED BY <2>1 DEF Inverted
<1>6. Disorder(new) = 0
  BY <1>5, FS_EmptySet DEF Disorder
<1>7. Puzzle!Solvable(new) <=> (Disorder(new) + (Rows - 1 - h[1]) + (Cols - 1 - h[2])) % 2 = 0
  BY <1>1, <1>3, SolvableIsEven
<1>8. (0 + (Rows - 1 - (Rows - 1)) + (Cols - 1 - (Cols - 1))) % 2 = 0
  BY StrideNat
<1> QED BY <1>1, <1>6, <1>7, <1>8 DEF new

(* A swap loses no tile. *)
LEMMA SwapKeepsPermutation ==
  ASSUME NEW sqs, Puzzle!IsPermutation(sqs), NEW p \in Squares, NEW h \in Squares,
         DOMAIN sqs = Squares, sqs = [q \in Squares |-> sqs[q]], p # h
  PROVE  Puzzle!IsPermutation(Puzzle!Swap(sqs, p, h))
<1> DEFINE new == Puzzle!Swap(sqs, p, h)
           V == Puzzle!Tiles \cup {Puzzle!Blank}
<1>1. /\ new[p] = sqs[h] /\ new[h] = sqs[p]
      /\ \A q \in Squares \ {p, h} : new[q] = sqs[q]
  BY DEF Puzzle!Swap
<1>2. Puzzle!Pos = Squares
  BY DEF Puzzle!Pos, Squares
<1> HIDE DEF new, V
<1>3. /\ \A q \in Squares : sqs[q] \in V
      /\ \A q, r \in Squares : sqs[q] = sqs[r] => q = r
      /\ \A t \in V : \E q \in Squares : sqs[q] = t
  BY <1>2 DEF Puzzle!IsPermutation, V
<1>4. \A q \in Squares : new[q] \in V
  BY <1>1, <1>3
<1>5. \A q, r \in Squares : new[q] = new[r] => q = r
  BY <1>1, <1>3
<1>6. ASSUME NEW t \in V PROVE \E q \in Squares : new[q] = t
  <2>1. PICK q \in Squares : sqs[q] = t
    BY <1>3
  <2>2. CASE q = p
    BY <1>1, <2>1, <2>2
  <2>3. CASE q = h
    BY <1>1, <2>1, <2>3
  <2>4. CASE q \notin {p, h}
    BY <1>1, <2>1, <2>4
  <2> QED BY <2>2, <2>3, <2>4
<1> QED BY <1>2, <1>4, <1>5, <1>6 DEF Puzzle!IsPermutation, V, new

LEMMA SolvedIsPermutation == Puzzle!IsPermutation(Puzzle!Solved)
<1> DEFINE m == NewBoard(0)
<1>1. Permuted(m)
  BY NewBoardPermuted DEF Blank
<1> HIDE DEF m
<1>2. \A q \in Squares : View(m)[q] = m[Word(q)] /\ Word(q) \in Cells
  BY ViewAt, WordCell
<1>3. \A q, r \in Squares : View(m)[q] = View(m)[r] => q = r
  BY <1>1, <1>2, WordInjective DEF Permuted
<1>4. \A t \in 1 .. (Rows * Cols - 1) \cup {Blank} : \E q \in Squares : View(m)[q] = t
  BY <1>1, <1>2, CellWord DEF Permuted
<1>5. \A q \in Squares : View(m)[q] \in 1 .. (Rows * Cols - 1) \cup {Blank}
  BY <1>1, <1>2 DEF Permuted
<1>6. Puzzle!IsPermutation(View(m))
  BY <1>3, <1>4, <1>5
     DEF Puzzle!IsPermutation, Puzzle!Pos, Puzzle!Tiles, Puzzle!Blank, Squares, Blank
<1> QED BY <1>6, ViewOfNewBoard DEF m

LEMMA ShownSquares == DOMAIN Shown = Squares /\ Shown = [q \in Squares |-> Shown[q]]
<1>1. \E m : Shown = View(m)
  BY DEF Shown
<1> QED BY <1>1 DEF View, Squares

(* Every step of the abstract puzzle keeps the parity. *)
LEMMA PuzzleKeepsParity ==
  ASSUME Puzzle!IsPermutation(Shown), StaysSolvable, [Puzzle!Next]_Shown
  PROVE  Puzzle!IsPermutation(Shown') /\ StaysSolvable'
<1>1. CASE Shown' = Shown
  BY <1>1 DEF StaysSolvable, Puzzle!Solvable
<1>2. CASE Puzzle!NewGame
  <2>1. Shown' = Puzzle!Solved
    BY <1>2 DEF Puzzle!NewGame
  <2> QED BY <2>1, SolvedIsSolvable, SolvedIsPermutation DEF StaysSolvable
<1>3. ASSUME NEW p \in Puzzle!Pos, NEW q \in Puzzle!Pos, Puzzle!Slide(p, q)
      PROVE  Puzzle!IsPermutation(Shown') /\ StaysSolvable'
  <2>1. /\ p \in Squares /\ q \in Squares /\ Shown[q] = Blank /\ Puzzle!Adjacent(p, q)
        /\ Shown' = Puzzle!Swap(Shown, p, q)
    BY <1>3 DEF Puzzle!Slide, Puzzle!Pos, Squares, Puzzle!Blank, Blank
  <2>2. p # q
    <3>1. p[1] \in Int /\ p[2] \in Int
      BY <2>1, SquareParts, StrideNat
    <3> QED BY <2>1, <3>1 DEF Puzzle!Adjacent
  <2>3. Puzzle!Solvable(Puzzle!Swap(Shown, p, q))
    BY <2>1, ShownSquares, SlideKeepsSolvable DEF StaysSolvable
  <2>4. Puzzle!IsPermutation(Puzzle!Swap(Shown, p, q))
    BY <2>1, <2>2, ShownSquares, SwapKeepsPermutation
  <2> QED BY <2>1, <2>3, <2>4 DEF StaysSolvable
<1> QED BY <1>1, <1>2, <1>3 DEF Puzzle!Next

(* On a board of any size no command, and no crash between the two stores  *)
(* of one, puts the puzzle out of reach of the solved one: each slide      *)
(* changes the parity of the inversions and the parity of the distance of  *)
(* the blank from its home together.                                       *)
THEOREM AlwaysSolvable == Spec => []StaysSolvable
<1> DEFINE Inv == Puzzle!IsPermutation(Shown) /\ StaysSolvable
<1>1. Init => Inv
  <2>1. Init => Shown = Puzzle!Solved
    BY ViewOfNewBoard DEF Init, Shown
  <2> QED BY <2>1, SolvedIsSolvable, SolvedIsPermutation DEF StaysSolvable
<1>2. TypeInv /\ TilesConserved /\ Inv /\ [Next]_vars => Inv'
  BY ShownStep, PuzzleKeepsParity
<1>3. Inv => StaysSolvable
  OBVIOUS
<1> QED BY <1>1, <1>2, <1>3, TypeInvariant, TilesAreConserved, PTL DEF Spec

=============================================================================
