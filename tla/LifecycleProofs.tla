-------------------------- MODULE LifecycleProofs --------------------------
(***************************************************************************)
(* Theorems about Lifecycle, for any number of clients, channels, threads  *)
(* and tables.                                                             *)
(***************************************************************************)
EXTENDS Lifecycle, FiniteSetTheorems, SequenceTheorems, WellFoundedInduction, TLAPS

-----------------------------------------------------------------------------
(* Messages about a table carry it, the others a number.                   *)
TableTypes == {"BgCreateTable", "CreateTable", "CreateTableReply"}
PlainTypes ==
  {"ClientConnect", "ServerConnect", "ConnectServer", "ClientStart", "AppConnect",
   "CreatedAllTables", "BgClock", "AppThreadDereg", "ClientSendOpLog", "ServerOpLogAck",
   "ServerPushRow", "BgServerPushRowAck", "ClientShutDown", "ServerShutDownAck"}
Msgs == (TableTypes \X Tables) \cup (PlainTypes \X Nat)

BgPhases ==
  {"connecting", "starting", "init_barrier", "connected", "creating", "asked",
   "created", "table_barrier", "loop", "exited"}
ThreadPhases ==
  {"unborn", "init", "creating", "waiting", "table_barrier", "registered",
   "running", "deregistered", "exited"}

NetOK(n) ==
  /\ DOMAIN n = Nodes
  /\ \A x \in Nodes : /\ DOMAIN n[x] = Peers(x)
                      /\ \A y \in Peers(x) : n[x][y] \in Seq(Msgs)

BgOK(b, x) ==
  /\ DOMAIN x = {"at", "starts", "deregs", "acks", "clock", "pending", "held", "ending"}
  /\ x.at \in BgPhases /\ x.starts \in Nat /\ x.deregs \in Nat /\ x.acks \in Nat
  /\ x.clock \in Nat /\ x.pending \in [ServersFor(b) -> Int]
  /\ x.held \in BOOLEAN /\ x.ending \in BOOLEAN

ServerOK(s, x) ==
  /\ DOMAIN x = {"at", "connected", "tables", "clock", "pending", "held", "ending", "shut"}
  /\ x.at \in {"connecting", "loop", "exited"} /\ x.connected \in Nat
  /\ x.tables \in SUBSET Tables
  /\ x.clock \in [BgsFor(s) -> Nat] /\ x.pending \in [BgsFor(s) -> Int]
  /\ x.held \in BOOLEAN /\ x.ending \in BOOLEAN /\ x.shut \in Nat

NameOK(x) ==
  /\ DOMAIN x = {"at", "connected", "known", "replies", "waiting", "answered", "shut"}
  /\ x.at \in {"connecting", "loop", "exited"} /\ x.connected \in Nat
  /\ x.known \in SUBSET Tables /\ x.replies \in [Tables -> Nat]
  /\ x.waiting \in [Tables -> SUBSET Bgs] /\ x.answered \in [Tables -> Nat]
  /\ x.shut \in Nat

TypeOK ==
  /\ NetOK(net)
  /\ thread \in [Threads -> [at : ThreadPhases, clock : Nat]]
  /\ tables \in [Clients -> SUBSET Tables]
  /\ DOMAIN bg = Bgs /\ \A b \in Bgs : BgOK(b, bg[b])
  /\ DOMAIN server = Servers /\ \A s \in Servers : ServerOK(s, server[s])
  /\ NameOK(name)
-----------------------------------------------------------------------------
(* Threads of different kinds differ.                                      *)
LEMMA Kinds ==
  /\ \A x \in Bgs : x \in Nodes /\ x \notin Servers /\ x \notin Threads /\ x # NameNode
  /\ \A x \in Servers : x \in Nodes /\ x \notin Bgs /\ x \notin Threads /\ x # NameNode
  /\ \A x \in Threads : x \in Nodes /\ x \notin Bgs /\ x \notin Servers /\ x # NameNode
  /\ NameNode \in Nodes /\ NameNode \notin Bgs \cup Servers \cup Threads
<1>1. \A x \in Bgs : x[1] = "bg"
  BY DEF Bgs
<1>2. \A x \in Servers : x[1] = "server"
  BY DEF Servers
<1>3. NameNode[1] = "name_node"
  BY DEF NameNode
<1>. QED
  BY <1>1, <1>2, <1>3, IdsAssumption DEF Nodes

(* Who sends to whom.                                                      *)
LEMMA Links ==
  /\ \A b \in Bgs : /\ ServersFor(b) \subseteq Servers
                    /\ ServersFor(b) \cup {NameNode} \subseteq Peers(b)
                    /\ b[2] \in Clients
                    /\ b = HeadBg(b[2]) => InitThread[b[2]] \in Peers(b)
  /\ \A s \in Servers : BgsFor(s) \subseteq Bgs /\ Peers(s) = BgsFor(s) \cup {NameNode}
  /\ Peers(NameNode) = Bgs \cup Servers
  /\ \A t \in Threads : ClientOf[t] \in Clients /\ Peers(t) = BgsOf(ClientOf[t])
  /\ \A c \in Clients : /\ HeadBg(c) \in Bgs /\ BgsOf(c) \subseteq Bgs
                        /\ HeadBg(c) \in BgsOf(c)
                        /\ ThreadsOf(c) \subseteq Threads
                        /\ InitThread[c] \in ThreadsOf(c)
  /\ \A b \in Bgs, s \in Servers : s \in ServersFor(b) <=> b \in BgsFor(s)
<1>1. \A b \in Bgs : b[2] \in Clients
  BY DEF Bgs
<1>2. \A c \in Clients : HeadBg(c) \in Bgs /\ HeadBg(c)[2] = c
  BY LifecycleAssumption DEF HeadBg, Bgs
<1>3. \A b \in Bgs : /\ ServersFor(b) \subseteq Servers
                     /\ ServersFor(b) \cup {NameNode} \subseteq Peers(b)
                     /\ b = HeadBg(b[2]) => InitThread[b[2]] \in Peers(b)
  BY <1>1, Kinds DEF Peers, ServersFor
<1>4. \A s \in Servers : BgsFor(s) \subseteq Bgs /\ Peers(s) = BgsFor(s) \cup {NameNode}
  BY Kinds DEF Peers, BgsFor
<1>5. Peers(NameNode) = Bgs \cup Servers
  BY Kinds DEF Peers
<1>6. \A t \in Threads : ClientOf[t] \in Clients /\ Peers(t) = BgsOf(ClientOf[t])
  BY LifecycleAssumption DEF Peers
<1>7. \A c \in Clients : /\ BgsOf(c) \subseteq Bgs /\ HeadBg(c) \in BgsOf(c)
                         /\ ThreadsOf(c) \subseteq Threads
                         /\ InitThread[c] \in ThreadsOf(c)
  BY <1>2, LifecycleAssumption DEF BgsOf, ThreadsOf
<1>8. \A b \in Bgs, s \in Servers : s \in ServersFor(b) <=> b \in BgsFor(s)
  BY DEF ServersFor, BgsFor
<1>. QED
  BY <1>1, <1>2, <1>3, <1>4, <1>5, <1>6, <1>7, <1>8

LEMMA FiniteTriples ==
  ASSUME NEW k, NEW S, NEW T, IsFiniteSet(S), IsFiniteSet(T)
  PROVE  IsFiniteSet({k} \X S \X T)
<1> DEFINE f == [p \in S \X T |-> <<k, p[1], p[2]>>]
<1>1. IsFiniteSet(S \X T)
  BY FS_Product
<1>2. f \in [S \X T -> {k} \X S \X T]
  OBVIOUS
<1>3. ASSUME NEW x \in {k} \X S \X T PROVE \E p \in S \X T : f[p] = x
  <2>1. PICK a \in S, b \in T : x = <<k, a, b>>
    OBVIOUS
  <2>2. <<a, b>> \in S \X T /\ f[<<a, b>>] = x
    BY <2>1
  <2>. QED
    BY <2>2
<1>4. f \in Surjection(S \X T, {k} \X S \X T)
  BY <1>2, <1>3 DEF Surjection
<1>. QED
  BY <1>1, <1>4, FS_Surjection

LEMMA FiniteKinds ==
  /\ IsFiniteSet(Bgs) /\ IsFiniteSet(Servers) /\ IsFiniteSet(Threads)
  /\ Cardinality(Bgs) \in Nat /\ Cardinality(Servers) \in Nat
  /\ Cardinality(Clients) \in Nat
<1>1. IsFiniteSet(Bgs) /\ IsFiniteSet(Servers)
  BY LifecycleAssumption, FiniteTriples DEF Bgs, Servers
<1>. QED
  BY <1>1, LifecycleAssumption, FS_CardinalityType
-----------------------------------------------------------------------------
(* What sending and receiving do to a link.                                *)
LEMMA SendAt ==
  ASSUME NEW n, NetOK(n), NEW from \in Nodes, NEW dests, NEW m \in Msgs
  PROVE  /\ NetOK(Send(n, from, dests, m))
         /\ \A x \in Nodes : \A y \in Peers(x) :
              Send(n, from, dests, m)[x][y] =
                IF x = from /\ y \in dests THEN Append(n[x][y], m) ELSE n[x][y]
<1> DEFINE p == Send(n, from, dests, m)
<1>1. DOMAIN p = Nodes
  BY DEF Send, NetOK
<1>2. \A x \in Nodes \ {from} : p[x] = n[x]
  BY DEF Send, NetOK
<1>3. p[from] = [y \in Peers(from) |-> IF y \in dests THEN Append(n[from][y], m)
                                                      ELSE n[from][y]]
  BY DEF Send, NetOK
<1>4. \A x \in Nodes : \A y \in Peers(x) :
        p[x][y] = IF x = from /\ y \in dests THEN Append(n[x][y], m) ELSE n[x][y]
  BY <1>2, <1>3
<1>5. \A x \in Nodes : DOMAIN p[x] = Peers(x)
  BY <1>2, <1>3 DEF NetOK
<1>6. ASSUME NEW x \in Nodes, NEW y \in Peers(x) PROVE p[x][y] \in Seq(Msgs)
  <2>1. n[x][y] \in Seq(Msgs)
    BY DEF NetOK
  <2>2. Append(n[x][y], m) \in Seq(Msgs)
    BY <2>1
  <2>. QED
    BY <1>4, <2>1, <2>2
<1>. QED
  BY <1>1, <1>4, <1>5, <1>6 DEF NetOK

LEMMA RestAt ==
  ASSUME NetOK(net), NEW from \in Nodes, NEW to, Looked(from, to)
  PROVE  /\ to \in Peers(from)
         /\ net[from][to] # << >>
         /\ Head(net[from][to]) \in Msgs
         /\ NetOK(Rest(from, to))
         /\ \A x \in Nodes : \A y \in Peers(x) :
              Rest(from, to)[x][y] =
                IF x = from /\ y = to THEN Tail(net[x][y]) ELSE net[x][y]
<1> DEFINE p == Rest(from, to)
<1>1. to \in Peers(from) /\ net[from][to] # << >> /\ net[from][to] \in Seq(Msgs)
  BY DEF Looked, NetOK
<1>2. Head(net[from][to]) \in Msgs /\ Tail(net[from][to]) \in Seq(Msgs)
  BY <1>1, HeadTailProperties
<1>3. DOMAIN p = Nodes /\ \A x \in Nodes : DOMAIN p[x] = Peers(x)
  BY DEF Rest, NetOK
<1>4. \A x \in Nodes : \A y \in Peers(x) :
        p[x][y] = IF x = from /\ y = to THEN Tail(net[x][y]) ELSE net[x][y]
  BY <1>1 DEF Rest, NetOK
<1>5. ASSUME NEW x \in Nodes, NEW y \in Peers(x) PROVE p[x][y] \in Seq(Msgs)
  <2>1. net[x][y] \in Seq(Msgs)
    BY DEF NetOK
  <2>. QED
    BY <1>2, <1>4, <2>1
<1>. QED
  BY <1>1, <1>2, <1>3, <1>4, <1>5 DEF NetOK
-----------------------------------------------------------------------------
(* Types of messages and of what they carry.                               *)
LEMMA MsgTypes ==
  /\ \A k \in Nat : \A w \in PlainTypes : <<w, k>> \in Msgs
  /\ \A t \in Tables : \A w \in TableTypes : <<w, t>> \in Msgs
  /\ \A m \in Msgs : IF m[1] \in TableTypes THEN m[2] \in Tables ELSE m[2] \in Nat
BY DEF Msgs, TableTypes, PlainTypes

LEMMA InitType == Init => TypeOK
<1> SUFFICES ASSUME Init PROVE TypeOK
  OBVIOUS
<1>1. NetOK(net)
  <2>1. <<"ClientConnect", 0>> \in Msgs /\ <<"ServerConnect", 0>> \in Msgs
    BY MsgTypes DEF PlainTypes
  <2>2. DOMAIN net = Nodes /\ \A x \in Nodes : DOMAIN net[x] = Peers(x)
    BY DEF Init
  <2>3. ASSUME NEW x \in Nodes, NEW y \in Peers(x) PROVE net[x][y] \in Seq(Msgs)
    BY <2>1 DEF Init
  <2>. QED
    BY <2>2, <2>3 DEF NetOK
<1>2. thread \in [Threads -> [at : ThreadPhases, clock : Nat]]
  BY DEF Init, ThreadPhases
<1>3. tables \in [Clients -> SUBSET Tables]
  BY DEF Init
<1>4. DOMAIN bg = Bgs /\ DOMAIN server = Servers
  BY DEF Init
<1>5. ASSUME NEW b \in Bgs PROVE BgOK(b, bg[b])
  <2>1. bg[b] = [at |-> "connecting", starts |-> 0, deregs |-> 0, acks |-> 0,
                 clock |-> 0, pending |-> [s \in ServersFor(b) |-> 0],
                 held |-> FALSE, ending |-> FALSE]
    BY DEF Init
  <2>. QED
    BY <2>1 DEF BgOK, BgPhases
<1>6. ASSUME NEW s \in Servers PROVE ServerOK(s, server[s])
  <2>1. server[s] = [at |-> "connecting", connected |-> 0, tables |-> {},
                     clock |-> [b \in BgsFor(s) |-> 0],
                     pending |-> [b \in BgsFor(s) |-> 0],
                     held |-> FALSE, ending |-> FALSE, shut |-> 0]
    BY DEF Init
  <2>. QED
    BY <2>1 DEF ServerOK
<1>7. NameOK(name)
  BY DEF Init, NameOK
<1>. QED
  BY <1>1, <1>2, <1>3, <1>4, <1>5, <1>6, <1>7 DEF TypeOK

(* Sending after receiving, or only one of both.                           *)
LEMMA NetStep ==
  ASSUME NetOK(net), NEW from \in Nodes, NEW to, Looked(from, to),
         NEW x \in Nodes, NEW dests, NEW m \in Msgs, NEW more, NEW k \in Msgs
  PROVE  /\ NetOK(Rest(from, to))
         /\ NetOK(Send(Rest(from, to), x, dests, m))
         /\ NetOK(Send(Send(Rest(from, to), x, dests, m), x, more, k))
<1>1. NetOK(Rest(from, to))
  BY RestAt
<1>2. NetOK(Send(Rest(from, to), x, dests, m))
  BY <1>1, SendAt
<1>. QED
  BY <1>1, <1>2, SendAt

LEMMA NameNodeConnectionType ==
  ASSUME TypeOK, NEW x \in Bgs \cup Servers, NameNodeConnection(x)
  PROVE  TypeOK'
<1>1. <<"ConnectServer", 0>> \in Msgs /\ <<"ClientStart", 0>> \in Msgs
  BY MsgTypes DEF PlainTypes
<1>2. NetOK(net)'
  <2>1. NetOK(net) /\ Looked(x, NameNode) /\ x \in Nodes /\ NameNode \in Nodes
    BY Kinds DEF NameNodeConnection, TypeOK, Gets
  <2>2. /\ NetOK(Rest(x, NameNode))
        /\ NetOK(Send(Send(Rest(x, NameNode), NameNode, Bgs, <<"ConnectServer", 0>>),
                      NameNode, Bgs, <<"ClientStart", 0>>))
    BY <1>1, <2>1, NetStep, Zenon
  <2>. QED
    BY <2>2 DEF NameNodeConnection
<1>3. NameOK(name')
  <2>1. \/ name' = [name EXCEPT !.connected = @ + 1]
        \/ name' = [name EXCEPT !.connected = @ + 1, !.at = "loop"]
    BY DEF NameNodeConnection
  <2>2. NameOK(name)
    BY DEF TypeOK
  <2>3. CASE name' = [name EXCEPT !.connected = @ + 1]
    BY <2>2, <2>3 DEF NameOK
  <2>4. CASE name' = [name EXCEPT !.connected = @ + 1, !.at = "loop"]
    BY <2>2, <2>4 DEF NameOK
  <2>. QED
    BY <2>1, <2>3, <2>4
<1>. QED
  BY <1>2, <1>3 DEF NameNodeConnection, TypeOK

(* A step that changes one worker, one server.                             *)
LEMMA BgChanged ==
  ASSUME TypeOK, NEW b \in Bgs, NEW v, BgOK(b, v), bg' = [bg EXCEPT ![b] = v]
  PROVE  DOMAIN bg' = Bgs /\ \A x \in Bgs : BgOK(x, bg'[x])
BY DEF TypeOK

LEMMA ServerChanged ==
  ASSUME TypeOK, NEW s \in Servers, NEW v, ServerOK(s, v),
         server' = [server EXCEPT ![s] = v]
  PROVE  DOMAIN server' = Servers /\ \A x \in Servers : ServerOK(x, server'[x])
BY DEF TypeOK

LEMMA ServerConnectionType ==
  ASSUME TypeOK, NEW s \in Servers, NEW b \in BgsFor(s), ServerConnection(s, b)
  PROVE  TypeOK'
<1>1. <<"ClientStart", 0>> \in Msgs
  BY MsgTypes DEF PlainTypes
<1>2. b \in Nodes /\ s \in Nodes /\ NetOK(net) /\ Looked(b, s)
  BY Kinds, Links DEF ServerConnection, TypeOK, Gets
<1>3. NetOK(Rest(b, s)) /\ NetOK(Send(Rest(b, s), s, BgsFor(s), <<"ClientStart", 0>>))
  BY <1>1, <1>2, NetStep, Zenon
<1>4. NetOK(net)'
  BY <1>3 DEF ServerConnection
<1>5. ServerOK(s, server[s]) /\ s \in DOMAIN server
  BY DEF TypeOK
<1>6. DOMAIN server' = Servers /\ \A x \in Servers : ServerOK(x, server'[x])
  <2>1. ServerOK(s, [server[s] EXCEPT !.connected = @ + 1])
    BY <1>5 DEF ServerOK
  <2>2. ServerOK(s, [server[s] EXCEPT !.connected = @ + 1, !.at = "loop"])
    BY <1>5 DEF ServerOK
  <2>3. \/ server' = [server EXCEPT ![s] = [server[s] EXCEPT !.connected = @ + 1]]
        \/ server' = [server EXCEPT ![s] = [server[s] EXCEPT !.connected = @ + 1,
                                                            !.at = "loop"]]
    BY <1>5 DEF ServerConnection
  <2>. QED
    BY <2>1, <2>2, <2>3, ServerChanged
<1>. QED
  BY <1>4, <1>6 DEF ServerConnection, TypeOK

LEMMA BgConnectServersType ==
  ASSUME TypeOK, NEW b \in Bgs, BgConnectServers(b)
  PROVE  TypeOK'
<1>1. <<"ClientConnect", 0>> \in Msgs
  BY MsgTypes DEF PlainTypes
<1>2. b \in Nodes /\ NameNode \in Nodes /\ NetOK(net) /\ Looked(NameNode, b)
  BY Kinds DEF BgConnectServers, TypeOK, Gets
<1>3. NetOK(net)'
  <2>1. NetOK(Send(Rest(NameNode, b), b, ServersFor(b), <<"ClientConnect", 0>>))
    BY <1>1, <1>2, NetStep, Zenon
  <2>. QED
    BY <2>1 DEF BgConnectServers
<1>4. BgOK(b, bg[b]) /\ b \in DOMAIN bg
  BY DEF TypeOK
<1>5. BgOK(b, [bg[b] EXCEPT !.at = "starting"])
  BY <1>4 DEF BgOK, BgPhases
<1>6. bg' = [bg EXCEPT ![b] = [bg[b] EXCEPT !.at = "starting"]]
  BY <1>4 DEF BgConnectServers
<1>7. DOMAIN bg' = Bgs /\ \A x \in Bgs : BgOK(x, bg'[x])
  BY <1>5, <1>6, BgChanged
<1>. QED
  BY <1>3, <1>7 DEF BgConnectServers, TypeOK

LEMMA BgStartType ==
  ASSUME TypeOK, NEW b \in Bgs, NEW x \in ServersFor(b) \cup {NameNode}, BgStart(b, x)
  PROVE  TypeOK'
<1>1. x \in Nodes /\ NetOK(net) /\ Looked(x, b)
  BY Kinds, Links DEF BgStart, TypeOK, Gets
<1>2. NetOK(net)'
  BY <1>1, RestAt DEF BgStart
<1>3. BgOK(b, bg[b]) /\ b \in DOMAIN bg
  BY DEF TypeOK
<1>4. PICK at \in BgPhases : bg' = [bg EXCEPT ![b] = [bg[b] EXCEPT !.starts = @ + 1, !.at = at]]
  <2>1. bg[b].at \in BgPhases /\ "init_barrier" \in BgPhases
    BY <1>3 DEF BgOK, BgPhases
  <2>. QED
    BY <1>3, <2>1 DEF BgStart
<1>5. BgOK(b, [bg[b] EXCEPT !.starts = @ + 1, !.at = at])
  BY <1>3 DEF BgOK
<1>6. DOMAIN bg' = Bgs /\ \A y \in Bgs : BgOK(y, bg'[y])
  BY <1>4, <1>5, BgChanged
<1>. QED
  BY <1>2, <1>6 DEF BgStart, TypeOK

LEMMA InitBarrierType ==
  ASSUME TypeOK, NEW c \in Clients, InitBarrier(c)
  PROVE  TypeOK'
<1>1. <<"AppConnect", 0>> \in Msgs
  BY MsgTypes DEF PlainTypes
<1>2. InitThread[c] \in Threads /\ InitThread[c] \in Nodes
  BY Kinds, Links
<1>3. NetOK(net)'
  BY <1>1, <1>2, SendAt DEF InitBarrier, TypeOK
<1>4. thread' \in [Threads -> [at : ThreadPhases, clock : Nat]]
  BY <1>2 DEF InitBarrier, TypeOK, ThreadPhases
<1>5. DOMAIN bg' = Bgs
  BY DEF InitBarrier
<1>6. ASSUME NEW b \in Bgs PROVE BgOK(b, bg'[b])
  <2>1. BgOK(b, bg[b])
    BY DEF TypeOK
  <2>2. BgOK(b, [bg[b] EXCEPT !.at = "connected"])
    BY <2>1 DEF BgOK, BgPhases
  <2>. QED
    BY <2>1, <2>2 DEF InitBarrier
<1>. QED
  BY <1>3, <1>4, <1>5, <1>6 DEF InitBarrier, TypeOK

LEMMA BgInitThreadType ==
  ASSUME TypeOK, NEW b \in Bgs, NEW t \in ThreadsOf(b[2]), BgInitThread(b, t)
  PROVE  TypeOK'
<1>1. t \in Nodes /\ NetOK(net) /\ Looked(t, b)
  BY Kinds DEF BgInitThread, TypeOK, Gets, ThreadsOf
<1>2. NetOK(net)'
  BY <1>1, RestAt DEF BgInitThread
<1>3. BgOK(b, bg[b]) /\ b \in DOMAIN bg
  BY DEF TypeOK
<1>4. PICK at \in BgPhases : bg' = [bg EXCEPT ![b] = [bg[b] EXCEPT !.at = at]]
  <2>1. "creating" \in BgPhases /\ "table_barrier" \in BgPhases
    BY DEF BgPhases
  <2>. QED
    BY <1>3, <2>1 DEF BgInitThread
<1>5. BgOK(b, [bg[b] EXCEPT !.at = at])
  BY <1>3 DEF BgOK
<1>6. DOMAIN bg' = Bgs /\ \A y \in Bgs : BgOK(y, bg'[y])
  BY <1>4, <1>5, BgChanged
<1>. QED
  BY <1>2, <1>6 DEF BgInitThread, TypeOK

LEMMA CreateTableType ==
  ASSUME TypeOK, NEW c \in Clients, NEW t \in Tables, CreateTable(c, t)
  PROVE  TypeOK'
<1>1. <<"BgCreateTable", t>> \in Msgs
  BY MsgTypes DEF TableTypes
<1>2. InitThread[c] \in Threads /\ InitThread[c] \in Nodes
  BY Kinds, Links
<1>3. NetOK(net)'
  BY <1>1, <1>2, SendAt DEF CreateTable, TypeOK
<1>4. thread' \in [Threads -> [at : ThreadPhases, clock : Nat]]
  BY <1>2 DEF CreateTable, TypeOK, ThreadPhases
<1>. QED
  BY <1>3, <1>4 DEF CreateTable, TypeOK

LEMMA TableCreatedType ==
  ASSUME TypeOK, NEW c \in Clients, TableCreated(c)
  PROVE  TypeOK'
<1>1. /\ InitThread[c] \in Threads /\ HeadBg(c) \in Nodes
      /\ NetOK(net) /\ Looked(HeadBg(c), InitThread[c])
  BY Kinds, Links DEF TableCreated, TypeOK, Gets
<1>2. NetOK(net)'
  BY <1>1, RestAt DEF TableCreated
<1>3. thread' \in [Threads -> [at : ThreadPhases, clock : Nat]]
  BY <1>1 DEF TableCreated, TypeOK, ThreadPhases
<1>. QED
  BY <1>2, <1>3 DEF TableCreated, TypeOK

LEMMA BgCreateTableType ==
  ASSUME TypeOK, NEW b \in Bgs, NEW t \in ThreadsOf(b[2]), BgCreateTable(b, t)
  PROVE  TypeOK'
<1>1. /\ t \in Nodes /\ b \in Nodes /\ NetOK(net) /\ Looked(t, b)
      /\ Head(net[t][b])[1] = "BgCreateTable"
  BY Kinds DEF BgCreateTable, TypeOK, Gets, ThreadsOf
<1>2. Content(t, b) \in Tables
  BY <1>1, RestAt, MsgTypes DEF Content, TableTypes
<1>3. <<"CreateTable", Content(t, b)>> \in Msgs
  BY <1>2, MsgTypes DEF TableTypes
<1>4. NetOK(net)'
  <2>1. NetOK(Send(Rest(t, b), b, {NameNode}, <<"CreateTable", Content(t, b)>>))
    BY <1>1, <1>3, NetStep, Zenon
  <2>. QED
    BY <2>1 DEF BgCreateTable
<1>5. BgOK(b, bg[b]) /\ b \in DOMAIN bg
  BY DEF TypeOK
<1>6. BgOK(b, [bg[b] EXCEPT !.at = "asked"])
  BY <1>5 DEF BgOK, BgPhases
<1>7. bg' = [bg EXCEPT ![b] = [bg[b] EXCEPT !.at = "asked"]]
  BY <1>5 DEF BgCreateTable
<1>8. DOMAIN bg' = Bgs /\ \A x \in Bgs : BgOK(x, bg'[x])
  BY <1>6, <1>7, BgChanged
<1>. QED
  BY <1>4, <1>8 DEF BgCreateTable, TypeOK

LEMMA BgTableCreatedType ==
  ASSUME TypeOK, NEW b \in Bgs, BgTableCreated(b)
  PROVE  TypeOK' /\ Content(NameNode, b) \in Tables
<1> DEFINE t == Content(NameNode, b)
<1>1. /\ NameNode \in Nodes /\ b \in Nodes /\ NetOK(net) /\ Looked(NameNode, b)
      /\ Head(net[NameNode][b])[1] = "CreateTableReply"
  BY Kinds DEF BgTableCreated, TypeOK, Gets
<1>2. t \in Tables
  BY <1>1, RestAt, MsgTypes DEF Content, TableTypes
<1>3. <<"CreateTableReply", t>> \in Msgs
  BY <1>2, MsgTypes DEF TableTypes
<1> HIDE DEF t
<1>4. NetOK(net)'
  <2>1. NetOK(Send(Rest(NameNode, b), b, {InitThread[b[2]]}, <<"CreateTableReply", t>>))
    BY <1>1, <1>3, NetStep, Zenon
  <2>. QED
    BY <2>1 DEF BgTableCreated, t
<1>5. BgOK(b, bg[b]) /\ b \in DOMAIN bg
  BY DEF TypeOK
<1>6. PICK at \in BgPhases : bg' = [bg EXCEPT ![b] = [bg[b] EXCEPT !.at = at]]
  <2>1. "created" \in BgPhases /\ "creating" \in BgPhases
    BY DEF BgPhases
  <2>. QED
    BY <1>5, <2>1 DEF BgTableCreated
<1>7. BgOK(b, [bg[b] EXCEPT !.at = at])
  BY <1>5 DEF BgOK
<1>8. DOMAIN bg' = Bgs /\ \A x \in Bgs : BgOK(x, bg'[x])
  BY <1>6, <1>7, BgChanged
<1>9. tables' \in [Clients -> SUBSET Tables]
  BY <1>2 DEF BgTableCreated, TypeOK, t
<1>. QED
  BY <1>2, <1>4, <1>8, <1>9 DEF BgTableCreated, TypeOK, t

LEMMA BgAllTablesCreatedType ==
  ASSUME TypeOK, NEW b \in Bgs, BgAllTablesCreated(b)
  PROVE  TypeOK'
<1>1. NameNode \in Nodes /\ NetOK(net) /\ Looked(NameNode, b)
  BY Kinds DEF BgAllTablesCreated, TypeOK, Gets
<1>2. NetOK(net)'
  BY <1>1, RestAt DEF BgAllTablesCreated
<1>3. BgOK(b, bg[b]) /\ b \in DOMAIN bg
  BY DEF TypeOK
<1>4. BgOK(b, [bg[b] EXCEPT !.at = "table_barrier"])
  BY <1>3 DEF BgOK, BgPhases
<1>5. bg' = [bg EXCEPT ![b] = [bg[b] EXCEPT !.at = "table_barrier"]]
  BY <1>3 DEF BgAllTablesCreated
<1>6. DOMAIN bg' = Bgs /\ \A x \in Bgs : BgOK(x, bg'[x])
  BY <1>4, <1>5, BgChanged
<1>. QED
  BY <1>2, <1>6 DEF BgAllTablesCreated, TypeOK

LEMMA AnsweredType ==
  ASSUME NEW n, NameOK(n), NEW t \in Tables, NEW workers \in SUBSET Bgs
  PROVE  /\ NameOK(Answered(n, t, workers))
         /\ Answered(n, t, workers).known = n.known
         /\ Answered(n, t, workers).replies = n.replies
         /\ Answered(n, t, workers).at = n.at
<1>1. Cardinality(workers) \in Nat
  BY FiniteKinds, FS_Subset, FS_CardinalityType
<1>. QED
  BY <1>1 DEF Answered, NameOK

LEMMA AnswerMsgsAt ==
  ASSUME NEW m, NetOK(m), NEW n, NEW t \in Tables, NEW workers
  PROVE  /\ NetOK(AnswerMsgs(m, n, t, workers))
         /\ \/ AnswerMsgs(m, n, t, workers) = Send(m, NameNode, workers, <<"CreateTableReply", t>>)
            \/ AnswerMsgs(m, n, t, workers) =
                 Send(Send(m, NameNode, workers, <<"CreateTableReply", t>>), NameNode,
                      {HeadBg(c) : c \in Clients}, <<"CreatedAllTables", 0>>)
<1>1. <<"CreateTableReply", t>> \in Msgs /\ <<"CreatedAllTables", 0>> \in Msgs
  BY MsgTypes DEF TableTypes, PlainTypes
<1>2. NetOK(Send(m, NameNode, workers, <<"CreateTableReply", t>>))
  BY <1>1, SendAt, Kinds
<1>3. NetOK(Send(Send(m, NameNode, workers, <<"CreateTableReply", t>>), NameNode,
                 {HeadBg(c) : c \in Clients}, <<"CreatedAllTables", 0>>))
  BY <1>1, <1>2, SendAt, Kinds
<1>. QED
  BY <1>2, <1>3 DEF AnswerMsgs

(* The channels of the name node when it handles a request for a table     *)
(* and the answer of a server.                                             *)
LEMMA NameNodeCreateTableType ==
  ASSUME TypeOK, NEW b \in Bgs, NameNodeCreateTable(b)
  PROVE  /\ TypeOK'
         /\ Content(b, NameNode) \in Tables
<1> DEFINE t     == Content(b, NameNode)
           known == [name EXCEPT !.known = @ \cup {t}]
           asked == IF t \notin name.known
                    THEN Send(Rest(b, NameNode), NameNode, Servers, <<"CreateTable", t>>)
                    ELSE Rest(b, NameNode)
<1>1. /\ NameNode \in Nodes /\ b \in Nodes /\ NetOK(net) /\ Looked(b, NameNode)
      /\ Head(net[b][NameNode])[1] = "CreateTable"
  BY Kinds DEF NameNodeCreateTable, TypeOK, Gets
<1>2. t \in Tables
  BY <1>1, RestAt, MsgTypes DEF Content, TableTypes
<1>3. <<"CreateTable", t>> \in Msgs
  BY <1>2, MsgTypes DEF TableTypes
<1>4. \/ name' = Answered(known, t, {b}) /\ net' = AnswerMsgs(asked, known, t, {b})
      \/ name' = [known EXCEPT !.waiting[t] = @ \cup {b}] /\ net' = asked
  BY DEF NameNodeCreateTable
<1>5. UNCHANGED <<thread, tables, bg, server>>
  BY DEF NameNodeCreateTable
<1>6. NameOK(name)
  BY DEF TypeOK
<1>7. NameOK(known)
  BY <1>2, <1>6 DEF NameOK
<1>8. NetOK(asked)
  <2>1. NetOK(Rest(b, NameNode))
    BY <1>1, RestAt
  <2>2. NetOK(Send(Rest(b, NameNode), NameNode, Servers, <<"CreateTable", t>>))
    BY <1>1, <1>3, NetStep, Zenon
  <2>. QED
    BY <2>1, <2>2
<1> HIDE DEF t, known, asked
<1>9. NameOK(name') /\ NetOK(net')
  <2>1. NameOK(Answered(known, t, {b})) /\ NetOK(AnswerMsgs(asked, known, t, {b}))
    BY <1>2, <1>7, <1>8, AnsweredType, AnswerMsgsAt
  <2>2. NameOK([known EXCEPT !.waiting[t] = @ \cup {b}])
    BY <1>2, <1>7 DEF NameOK
  <2>. QED
    BY <1>4, <1>8, <2>1, <2>2
<1>. QED
  BY <1>2, <1>5, <1>9 DEF TypeOK, t

LEMMA NameNodeCreateTableReplyType ==
  ASSUME TypeOK, NEW s \in Servers, NameNodeCreateTableReply(s)
  PROVE  /\ TypeOK'
         /\ Content(s, NameNode) \in Tables
<1> DEFINE t       == Content(s, NameNode)
           replied == [name EXCEPT !.replies[t] = @ + 1]
<1>1. /\ NameNode \in Nodes /\ s \in Nodes /\ NetOK(net) /\ Looked(s, NameNode)
      /\ Head(net[s][NameNode])[1] = "CreateTableReply"
  BY Kinds DEF NameNodeCreateTableReply, TypeOK, Gets
<1>2. t \in Tables
  BY <1>1, RestAt, MsgTypes DEF Content, TableTypes
<1>3. \/ /\ name' = Answered(replied, t, name.waiting[t])
         /\ net' = AnswerMsgs(Rest(s, NameNode), replied, t, name.waiting[t])
      \/ name' = replied /\ net' = Rest(s, NameNode)
  BY DEF NameNodeCreateTableReply
<1>4. UNCHANGED <<thread, tables, bg, server>>
  BY DEF NameNodeCreateTableReply
<1>5. NameOK(name)
  BY DEF TypeOK
<1>6. NameOK(replied) /\ name.waiting[t] \in SUBSET Bgs
  BY <1>2, <1>5 DEF NameOK
<1>7. NetOK(Rest(s, NameNode))
  BY <1>1, RestAt
<1> HIDE DEF t, replied
<1>8. NameOK(name') /\ NetOK(net')
  <2>1. NameOK(Answered(replied, t, name.waiting[t]))
    BY <1>2, <1>6, AnsweredType
  <2>2. NetOK(AnswerMsgs(Rest(s, NameNode), replied, t, name.waiting[t]))
    BY <1>2, <1>7, AnswerMsgsAt
  <2>. QED
    BY <1>3, <1>6, <1>7, <2>1, <2>2
<1>. QED
  BY <1>2, <1>4, <1>8 DEF TypeOK, t

LEMMA ServerCreateTableType ==
  ASSUME TypeOK, NEW s \in Servers, ServerCreateTable(s)
  PROVE  TypeOK' /\ Content(NameNode, s) \in Tables
<1> DEFINE t == Content(NameNode, s)
<1>1. /\ NameNode \in Nodes /\ s \in Nodes /\ NetOK(net) /\ Looked(NameNode, s)
      /\ Head(net[NameNode][s])[1] = "CreateTable"
  BY Kinds DEF ServerCreateTable, TypeOK, Gets
<1>2. t \in Tables
  BY <1>1, RestAt, MsgTypes DEF Content, TableTypes
<1>3. <<"CreateTableReply", t>> \in Msgs
  BY <1>2, MsgTypes DEF TableTypes
<1>4. NetOK(Send(Rest(NameNode, s), s, {NameNode}, <<"CreateTableReply", t>>))
  BY <1>1, <1>3, NetStep, Zenon
<1>5. ServerOK(s, server[s]) /\ s \in DOMAIN server
  BY DEF TypeOK
<1>6. ServerOK(s, [server[s] EXCEPT !.tables = @ \cup {t}])
  BY <1>2, <1>5 DEF ServerOK
<1>7. server' = [server EXCEPT ![s] = [server[s] EXCEPT !.tables = @ \cup {t}]]
  BY <1>5 DEF ServerCreateTable
<1>8. DOMAIN server' = Servers /\ \A x \in Servers : ServerOK(x, server'[x])
  BY <1>6, <1>7, ServerChanged
<1>. QED
  BY <1>2, <1>4, <1>8 DEF ServerCreateTable, TypeOK

LEMMA CreateTableBarrierType ==
  ASSUME TypeOK, NEW c \in Clients, CreateTableBarrier(c)
  PROVE  TypeOK'
<1>1. InitThread[c] \in Threads
  BY Links
<1>2. thread' \in [Threads -> [at : ThreadPhases, clock : Nat]]
  BY <1>1 DEF CreateTableBarrier, TypeOK, ThreadPhases
<1>3. DOMAIN bg' = Bgs
  BY DEF CreateTableBarrier
<1>4. ASSUME NEW b \in Bgs PROVE BgOK(b, bg'[b])
  <2>1. BgOK(b, bg[b])
    BY DEF TypeOK
  <2>2. BgOK(b, [bg[b] EXCEPT !.at = "loop"])
    BY <2>1 DEF BgOK, BgPhases
  <2>. QED
    BY <2>1, <2>2 DEF CreateTableBarrier
<1>. QED
  BY <1>2, <1>3, <1>4 DEF CreateTableBarrier, TypeOK
-----------------------------------------------------------------------------
LEMMA RegisterThreadType ==
  ASSUME TypeOK, NEW t \in Threads, RegisterThread(t)
  PROVE  TypeOK'
<1>1. <<"AppConnect", 0>> \in Msgs /\ t \in Nodes
  BY MsgTypes, Kinds DEF PlainTypes
<1>2. NetOK(net)'
  BY <1>1, SendAt DEF RegisterThread, TypeOK
<1>3. thread' \in [Threads -> [at : ThreadPhases, clock : Nat]]
  BY DEF RegisterThread, TypeOK, ThreadPhases
<1>. QED
  BY <1>2, <1>3 DEF RegisterThread, TypeOK

LEMMA RegisterBarrierType ==
  ASSUME TypeOK, NEW c \in Clients, RegisterBarrier(c)
  PROVE  TypeOK'
<1>1. thread' \in [Threads -> [at : ThreadPhases, clock : Nat]]
  BY DEF RegisterBarrier, TypeOK, ThreadPhases
<1>. QED
  BY <1>1 DEF RegisterBarrier, TypeOK

LEMMA ClockType ==
  ASSUME TypeOK, NEW t \in Threads, Clock(t)
  PROVE  TypeOK'
<1>1. <<"BgClock", 0>> \in Msgs /\ t \in Nodes
  BY MsgTypes, Kinds DEF PlainTypes
<1>2. NetOK(net)'
  <2>1. NetOK(net) /\ NetOK(Send(net, t, BgsOf(ClientOf[t]), <<"BgClock", 0>>))
    BY <1>1, SendAt DEF TypeOK
  <2>. QED
    BY <2>1 DEF Clock
<1>3. thread' \in [Threads -> [at : ThreadPhases, clock : Nat]]
  BY DEF Clock, TypeOK
<1>. QED
  BY <1>2, <1>3 DEF Clock, TypeOK

LEMMA DeregisterThreadType ==
  ASSUME TypeOK, NEW t \in Threads, DeregisterThread(t)
  PROVE  TypeOK'
<1>1. <<"AppThreadDereg", 0>> \in Msgs /\ t \in Nodes
  BY MsgTypes, Kinds DEF PlainTypes
<1>2. NetOK(net)'
  BY <1>1, SendAt DEF DeregisterThread, TypeOK
<1>3. thread' \in [Threads -> [at : ThreadPhases, clock : Nat]]
  BY DEF DeregisterThread, TypeOK, ThreadPhases
<1>. QED
  BY <1>2, <1>3 DEF DeregisterThread, TypeOK

LEMMA ShutDownType ==
  ASSUME TypeOK, NEW c \in Clients, ShutDown(c)
  PROVE  TypeOK'
<1>1. thread' \in [Threads -> [at : ThreadPhases, clock : Nat]]
  BY Links DEF ShutDown, TypeOK, ThreadPhases
<1>. QED
  BY <1>1 DEF ShutDown, TypeOK

LEMMA BgConnectType ==
  ASSUME TypeOK, NEW b \in Bgs, NEW t \in ThreadsOf(b[2]), BgConnect(b, t)
  PROVE  TypeOK'
<1>1. t \in Nodes /\ NetOK(net) /\ Looked(t, b)
  BY Kinds DEF BgConnect, TypeOK, Gets, ThreadsOf
<1>2. NetOK(net)'
  BY <1>1, RestAt DEF BgConnect
<1>. QED
  BY <1>2 DEF BgConnect, TypeOK

(* A tracked message leaves the rest of a worker or server alone.          *)
LEMMA TrackedType ==
  /\ \A b \in Bgs : \A x : BgOK(b, x) => BgOK(b, Tracked(x))
  /\ \A s \in Servers : \A x : ServerOK(s, x) => ServerOK(s, Tracked(x))
<1>1. ASSUME NEW b \in Bgs, NEW x, BgOK(b, x) PROVE BgOK(b, Tracked(x))
  BY <1>1 DEF BgOK, Tracked
<1>2. ASSUME NEW s \in Servers, NEW x, ServerOK(s, x) PROVE ServerOK(s, Tracked(x))
  BY <1>2 DEF ServerOK, Tracked
<1>. QED
  BY <1>1, <1>2

LEMMA BgClockType ==
  ASSUME TypeOK, NEW b \in Bgs, NEW t \in ThreadsOf(b[2]), BgClock(b, t)
  PROVE  TypeOK'
<1> DEFINE clocked == [bg[b] EXCEPT !.clock = @ + 1]
<1>1. t \in Nodes /\ b \in Nodes /\ NetOK(net) /\ Looked(t, b)
  BY Kinds DEF BgClock, TypeOK, Gets, ThreadsOf
<1>2. BgOK(b, bg[b]) /\ b \in DOMAIN bg
  BY DEF TypeOK
<1>3. BgOK(b, clocked) /\ clocked.clock \in Nat
  BY <1>2 DEF BgOK
<1>4. <<"ClientSendOpLog", clocked.clock>> \in Msgs
  BY <1>3, MsgTypes DEF PlainTypes
<1>5. \/ bg' = [bg EXCEPT ![b] = Tracked(clocked)] /\ net' = OpLogMsgs(Rest(t, b), b, clocked)
      \/ bg' = [bg EXCEPT ![b] = [clocked EXCEPT !.held = TRUE]] /\ net' = Rest(t, b)
  BY DEF BgClock
<1> HIDE DEF clocked
<1>6. NetOK(net)'
  <2>1. NetOK(Rest(t, b)) /\ NetOK(OpLogMsgs(Rest(t, b), b, clocked))
    BY <1>1, <1>4, NetStep, Zenon DEF OpLogMsgs
  <2>. QED
    BY <1>5, <2>1
<1>7. DOMAIN bg' = Bgs /\ \A x \in Bgs : BgOK(x, bg'[x])
  <2>1. BgOK(b, Tracked(clocked))
    BY <1>3, TrackedType
  <2>2. BgOK(b, [clocked EXCEPT !.held = TRUE])
    BY <1>3 DEF BgOK
  <2>. QED
    BY <1>5, <2>1, <2>2, BgChanged
<1>. QED
  BY <1>6, <1>7 DEF BgClock, TypeOK

LEMMA BgOpLogAckType ==
  ASSUME TypeOK, NEW b \in Bgs, NEW s \in ServersFor(b), BgOpLogAck(b, s)
  PROVE  TypeOK'
<1> DEFINE acked  == [bg[b] EXCEPT !.pending[s] = @ - 1]
           resend == acked.held /\ CheckSendAll(acked)
           after  == IF resend THEN Tracked(acked) ELSE acked
           sent   == IF resend THEN OpLogMsgs(Rest(s, b), b, acked) ELSE Rest(s, b)
<1>1. s \in Nodes /\ b \in Nodes /\ NetOK(net) /\ Looked(s, b)
  BY Kinds, Links DEF BgOpLogAck, TypeOK, Gets
<1>2. BgOK(b, bg[b]) /\ b \in DOMAIN bg
  BY DEF TypeOK
<1>3. BgOK(b, acked) /\ acked.clock \in Nat
  BY <1>2 DEF BgOK
<1>4. <<"ClientSendOpLog", acked.clock>> \in Msgs /\ <<"ClientShutDown", 0>> \in Msgs
  BY <1>3, MsgTypes DEF PlainTypes
<1>5. \/ /\ bg' = [bg EXCEPT ![b] = [after EXCEPT !.ending = FALSE]]
         /\ net' = ShutDownMsgs(sent, b)
      \/ bg' = [bg EXCEPT ![b] = after] /\ net' = sent
  BY DEF BgOpLogAck
<1> HIDE DEF acked
<1>6. BgOK(b, after)
  BY <1>3, TrackedType
<1>7. NetOK(sent)
  <2>1. NetOK(Rest(s, b)) /\ NetOK(OpLogMsgs(Rest(s, b), b, acked))
    BY <1>1, <1>4, NetStep, Zenon DEF OpLogMsgs
  <2>. QED
    BY <2>1
<1> HIDE DEF after, sent
<1>8. NetOK(net)'
  <2>1. NetOK(ShutDownMsgs(sent, b))
    BY <1>1, <1>4, <1>7, SendAt DEF ShutDownMsgs
  <2>. QED
    BY <1>5, <1>7, <2>1
<1>9. DOMAIN bg' = Bgs /\ \A x \in Bgs : BgOK(x, bg'[x])
  <2>1. BgOK(b, [after EXCEPT !.ending = FALSE])
    BY <1>6 DEF BgOK
  <2>. QED
    BY <1>5, <1>6, <2>1, BgChanged
<1>. QED
  BY <1>8, <1>9 DEF BgOpLogAck, TypeOK

LEMMA BgPushRowType ==
  ASSUME TypeOK, NEW b \in Bgs, NEW s \in ServersFor(b), BgPushRow(b, s)
  PROVE  TypeOK'
<1>1. s \in Nodes /\ b \in Nodes /\ NetOK(net) /\ Looked(s, b)
  BY Kinds, Links DEF BgPushRow, TypeOK, Gets
<1>2. <<"BgServerPushRowAck", 0>> \in Msgs
  BY MsgTypes DEF PlainTypes
<1>3. NetOK(net)'
  BY <1>1, <1>2, NetStep, Zenon DEF BgPushRow
<1>. QED
  BY <1>3 DEF BgPushRow, TypeOK

LEMMA BgDeregType ==
  ASSUME TypeOK, NEW b \in Bgs, NEW t \in ThreadsOf(b[2]), BgDereg(b, t)
  PROVE  TypeOK'
<1>1. t \in Nodes /\ b \in Nodes /\ NetOK(net) /\ Looked(t, b)
  BY Kinds DEF BgDereg, TypeOK, Gets, ThreadsOf
<1>2. <<"ClientShutDown", 0>> \in Msgs
  BY MsgTypes DEF PlainTypes
<1>3. NetOK(net)'
  <2>1. NetOK(Rest(t, b)) /\ NetOK(ShutDownMsgs(Rest(t, b), b))
    BY <1>1, <1>2, NetStep, Zenon DEF ShutDownMsgs
  <2>. QED
    BY <2>1 DEF BgDereg
<1>4. BgOK(b, bg[b]) /\ b \in DOMAIN bg
  BY DEF TypeOK
<1>5. PICK e \in BOOLEAN : bg' = [bg EXCEPT ![b] = [bg[b] EXCEPT !.deregs = @ + 1, !.ending = e]]
  BY <1>4 DEF BgDereg
<1>6. BgOK(b, [bg[b] EXCEPT !.deregs = @ + 1, !.ending = e])
  BY <1>4 DEF BgOK
<1>7. DOMAIN bg' = Bgs /\ \A x \in Bgs : BgOK(x, bg'[x])
  BY <1>5, <1>6, BgChanged
<1>. QED
  BY <1>3, <1>7 DEF BgDereg, TypeOK

LEMMA BgShutDownAckType ==
  ASSUME TypeOK, NEW b \in Bgs, NEW x \in ServersFor(b) \cup {NameNode}, BgShutDownAck(b, x)
  PROVE  TypeOK'
<1>1. x \in Nodes /\ NetOK(net) /\ Looked(x, b)
  BY Kinds, Links DEF BgShutDownAck, TypeOK, Gets
<1>2. NetOK(net)'
  BY <1>1, RestAt DEF BgShutDownAck
<1>3. BgOK(b, bg[b]) /\ b \in DOMAIN bg
  BY DEF TypeOK
<1>4. PICK at \in BgPhases : bg' = [bg EXCEPT ![b] = [bg[b] EXCEPT !.acks = @ + 1, !.at = at]]
  <2>1. bg[b].at \in BgPhases /\ "exited" \in BgPhases
    BY <1>3 DEF BgOK, BgPhases
  <2>. QED
    BY <1>3, <2>1 DEF BgShutDownAck
<1>5. BgOK(b, [bg[b] EXCEPT !.acks = @ + 1, !.at = at])
  BY <1>3 DEF BgOK
<1>6. DOMAIN bg' = Bgs /\ \A y \in Bgs : BgOK(y, bg'[y])
  BY <1>4, <1>5, BgChanged
<1>. QED
  BY <1>2, <1>6 DEF BgShutDownAck, TypeOK

LEMMA ServerOpLogType ==
  ASSUME TypeOK, NEW s \in Servers, NEW b \in BgsFor(s), ServerOpLog(s, b)
  PROVE  TypeOK' /\ Content(b, s) \in Nat
<1> DEFINE clocked == [server[s] EXCEPT !.clock[b] = Content(b, s)]
           due     == PushRows /\ MinClock(clocked.clock) > MinClock(server[s].clock)
           pushes  == due /\ CheckSendAll(clocked)
           heldBack == [clocked EXCEPT !.held = @ \/ due]
           sent    == IF pushes THEN PushMsgs(Rest(b, s), s) ELSE Rest(b, s)
<1>1. /\ s \in Nodes /\ b \in Nodes /\ NetOK(net) /\ Looked(b, s)
      /\ Head(net[b][s])[1] = "ClientSendOpLog"
  BY Kinds, Links DEF ServerOpLog, TypeOK, Gets
<1>2. Content(b, s) \in Nat
  BY <1>1, RestAt, MsgTypes DEF Content, TableTypes
<1>3. <<"ServerPushRow", 0>> \in Msgs /\ <<"ServerOpLogAck", 0>> \in Msgs
  BY MsgTypes DEF PlainTypes
<1>4. ServerOK(s, server[s]) /\ s \in DOMAIN server
  BY DEF TypeOK
<1>5. ServerOK(s, clocked)
  BY <1>2, <1>4 DEF ServerOK
<1>6. /\ server' = [server EXCEPT ![s] = IF pushes THEN Tracked(clocked) ELSE heldBack]
      /\ net' = Send(sent, s, {b}, <<"ServerOpLogAck", 0>>)
  BY DEF ServerOpLog
<1>7. due \in BOOLEAN
  OBVIOUS
<1> HIDE DEF clocked, due
<1>8. ServerOK(s, IF pushes THEN Tracked(clocked) ELSE heldBack)
  <2>1. ServerOK(s, heldBack)
    BY <1>5, <1>7 DEF ServerOK
  <2>. QED
    BY <1>5, <2>1, TrackedType
<1> HIDE DEF pushes, heldBack
<1>9. NetOK(net)'
  <2>1. NetOK(Rest(b, s)) /\ NetOK(PushMsgs(Rest(b, s), s))
    BY <1>1, <1>3, NetStep, Zenon DEF PushMsgs
  <2>2. NetOK(sent)
    BY <2>1
  <2>. QED
    BY <1>1, <1>3, <1>6, <2>2, SendAt
<1>10. DOMAIN server' = Servers /\ \A x \in Servers : ServerOK(x, server'[x])
  BY <1>6, <1>8, ServerChanged
<1>. QED
  BY <1>2, <1>9, <1>10 DEF ServerOpLog, TypeOK

LEMMA ServerPushRowAckType ==
  ASSUME TypeOK, NEW s \in Servers, NEW b \in BgsFor(s), ServerPushRowAck(s, b)
  PROVE  TypeOK'
<1> DEFINE acked  == [server[s] EXCEPT !.pending[b] = @ - 1]
           resend == acked.held /\ CheckSendAll(acked)
           after  == IF resend THEN Tracked(acked) ELSE acked
           sent   == IF resend THEN PushMsgs(Rest(b, s), s) ELSE Rest(b, s)
<1>1. s \in Nodes /\ b \in Nodes /\ NetOK(net) /\ Looked(b, s)
  BY Kinds, Links DEF ServerPushRowAck, TypeOK, Gets
<1>2. ServerOK(s, server[s]) /\ s \in DOMAIN server
  BY DEF TypeOK
<1>3. ServerOK(s, acked)
  BY <1>2 DEF ServerOK
<1>4. <<"ServerPushRow", 0>> \in Msgs /\ <<"ServerShutDownAck", 0>> \in Msgs
  BY MsgTypes DEF PlainTypes
<1>5. \/ /\ server' = [server EXCEPT ![s] = [after EXCEPT !.ending = FALSE, !.at = "exited"]]
         /\ net' = ShutDownAcks(sent, s)
      \/ server' = [server EXCEPT ![s] = after] /\ net' = sent
  BY DEF ServerPushRowAck
<1> HIDE DEF acked
<1>6. ServerOK(s, after)
  BY <1>3, TrackedType
<1>7. NetOK(sent)
  <2>1. NetOK(Rest(b, s)) /\ NetOK(PushMsgs(Rest(b, s), s))
    BY <1>1, <1>4, NetStep, Zenon DEF PushMsgs
  <2>. QED
    BY <2>1
<1> HIDE DEF after, sent
<1>8. NetOK(net)'
  <2>1. NetOK(ShutDownAcks(sent, s))
    BY <1>1, <1>4, <1>7, SendAt DEF ShutDownAcks
  <2>. QED
    BY <1>5, <1>7, <2>1
<1>9. DOMAIN server' = Servers /\ \A x \in Servers : ServerOK(x, server'[x])
  <2>1. ServerOK(s, [after EXCEPT !.ending = FALSE, !.at = "exited"])
    BY <1>6 DEF ServerOK
  <2>. QED
    BY <1>5, <1>6, <2>1, ServerChanged
<1>. QED
  BY <1>8, <1>9 DEF ServerPushRowAck, TypeOK

LEMMA ServerShutDownType ==
  ASSUME TypeOK, NEW s \in Servers, NEW b \in BgsFor(s), ServerShutDown(s, b)
  PROVE  TypeOK'
<1>1. s \in Nodes /\ b \in Nodes /\ NetOK(net) /\ Looked(b, s)
  BY Kinds, Links DEF ServerShutDown, TypeOK, Gets
<1>2. <<"ServerShutDownAck", 0>> \in Msgs
  BY MsgTypes DEF PlainTypes
<1>3. NetOK(net)'
  <2>1. NetOK(Rest(b, s)) /\ NetOK(ShutDownAcks(Rest(b, s), s))
    BY <1>1, <1>2, NetStep, Zenon DEF ShutDownAcks
  <2>. QED
    BY <2>1 DEF ServerShutDown
<1>4. ServerOK(s, server[s]) /\ s \in DOMAIN server
  BY DEF TypeOK
<1>5. PICK e \in BOOLEAN, at \in {"connecting", "loop", "exited"} :
        server' = [server EXCEPT ![s] = [server[s] EXCEPT !.shut = @ + 1, !.ending = e,
                                                          !.at = at]]
  <2>1. server[s].at \in {"connecting", "loop", "exited"}
    BY <1>4 DEF ServerOK
  <2>. QED
    BY <1>4, <2>1 DEF ServerShutDown
<1>6. ServerOK(s, [server[s] EXCEPT !.shut = @ + 1, !.ending = e, !.at = at])
  BY <1>4 DEF ServerOK
<1>7. DOMAIN server' = Servers /\ \A x \in Servers : ServerOK(x, server'[x])
  BY <1>5, <1>6, ServerChanged
<1>. QED
  BY <1>3, <1>7 DEF ServerShutDown, TypeOK

LEMMA NameNodeShutDownType ==
  ASSUME TypeOK, NEW b \in Bgs, NameNodeShutDown(b)
  PROVE  TypeOK'
<1>1. NameNode \in Nodes /\ b \in Nodes /\ NetOK(net) /\ Looked(b, NameNode)
  BY Kinds DEF NameNodeShutDown, TypeOK, Gets
<1>2. <<"ServerShutDownAck", 0>> \in Msgs
  BY MsgTypes DEF PlainTypes
<1>3. NetOK(net)'
  <2>1. /\ NetOK(Rest(b, NameNode))
        /\ NetOK(Send(Rest(b, NameNode), NameNode, Bgs, <<"ServerShutDownAck", 0>>))
    BY <1>1, <1>2, NetStep, Zenon
  <2>. QED
    BY <2>1 DEF NameNodeShutDown
<1>4. NameOK(name')
  <2>1. NameOK(name)
    BY DEF TypeOK
  <2>2. PICK at \in {name.at, "exited"} : name' = [name EXCEPT !.shut = @ + 1, !.at = at]
    BY DEF NameNodeShutDown
  <2>. QED
    BY <2>1, <2>2 DEF NameOK
<1>. QED
  BY <1>3, <1>4 DEF NameNodeShutDown, TypeOK

LEMMA TypeStep == TypeOK /\ [Next]_lvars => TypeOK'
<1> SUFFICES ASSUME TypeOK, [Next]_lvars PROVE TypeOK'
  OBVIOUS
<1>1. CASE NameNodeStep
  BY <1>1, NameNodeConnectionType, NameNodeCreateTableType, NameNodeShutDownType,
     NameNodeCreateTableReplyType DEF NameNodeStep
<1>2. ASSUME NEW s \in Servers, ServerStep(s) PROVE TypeOK'
  BY <1>2, ServerCreateTableType, ServerConnectionType, ServerOpLogType,
     ServerPushRowAckType, ServerShutDownType DEF ServerStep
<1>3. ASSUME NEW b \in Bgs, BgStep(b) PROVE TypeOK'
  BY <1>3, BgConnectServersType, BgTableCreatedType, BgAllTablesCreatedType,
     BgStartType, BgShutDownAckType, BgOpLogAckType, BgPushRowType, BgInitThreadType,
     BgCreateTableType, BgConnectType, BgClockType, BgDeregType DEF BgStep
<1>4. ASSUME NEW c \in Clients, InitThreadStep(c) PROVE TypeOK'
  BY <1>4, InitBarrierType, TableCreatedType, CreateTableBarrierType,
     RegisterBarrierType, ShutDownType, CreateTableType DEF InitThreadStep
<1>5. ASSUME NEW t \in Threads, ThreadStep(t) \/ Clock(t) PROVE TypeOK'
  BY <1>5, RegisterThreadType, DeregisterThreadType, ClockType DEF ThreadStep
<1>6. CASE UNCHANGED lvars
  BY <1>6 DEF lvars, TypeOK
<1>. QED
  BY <1>1, <1>2, <1>3, <1>4, <1>5, <1>6 DEF Next, Progress

LEMMA TypeAlways == Spec => []TypeOK
<1>. QED
  BY InitType, TypeStep, PTL DEF Spec
-----------------------------------------------------------------------------
(* How many messages of a queue are in a set.                              *)
Places(q, S) == {i \in 1 .. Len(q) : q[i] \in S}
Count(q, S) == Cardinality(Places(q, S))

LEMMA CountType ==
  ASSUME NEW q \in Seq(Msgs), NEW S
  PROVE  IsFiniteSet(Places(q, S)) /\ Count(q, S) \in Nat
<1>1. Len(q) \in Nat
  OBVIOUS
<1>2. IsFiniteSet(1 .. Len(q))
  BY <1>1, FS_Interval
<1>. QED
  BY <1>2, FS_Subset, FS_CardinalityType DEF Places, Count

LEMMA CountEmpty ==
  ASSUME NEW S
  PROVE  Count(<< >>, S) = 0
<1>1. Places(<< >>, S) = {}
  BY DEF Places
<1>. QED
  BY <1>1, FS_EmptySet DEF Count

LEMMA CountZero ==
  ASSUME NEW q \in Seq(Msgs), NEW S
  PROVE  Count(q, S) = 0 <=> \A i \in 1 .. Len(q) : q[i] \notin S
<1>1. Count(q, S) = 0 <=> Places(q, S) = {}
  BY CountType, FS_EmptySet DEF Count
<1>. QED
  BY <1>1 DEF Places

LEMMA CountAppend ==
  ASSUME NEW q \in Seq(Msgs), NEW m \in Msgs, NEW S
  PROVE  Count(Append(q, m), S) = IF m \in S THEN Count(q, S) + 1 ELSE Count(q, S)
<1> DEFINE p == Append(q, m)
           n == Len(q)
<1>1. n \in Nat /\ Len(p) = n + 1 /\ p[n + 1] = m /\ \A i \in 1 .. n : p[i] = q[i]
  BY AppendProperties
<1>2. IsFiniteSet(Places(q, S))
  BY CountType
<1> HIDE DEF p, n
<1>5. n + 1 \notin Places(q, S)
  BY <1>1 DEF Places, n
<1>3. CASE m \in S
  <2>1. Places(p, S) = Places(q, S) \cup {n + 1}
    BY <1>1, <1>3 DEF Places, n
  <2>. QED
    BY <1>2, <1>3, <1>5, <2>1, FS_AddElement DEF Count, p
<1>4. CASE m \notin S
  <2>1. Places(p, S) = Places(q, S)
    BY <1>1, <1>4 DEF Places, n
  <2>. QED
    BY <1>4, <2>1 DEF Count, p
<1>. QED
  BY <1>3, <1>4

LEMMA CountTail ==
  ASSUME NEW q \in Seq(Msgs), q # << >>, NEW S
  PROVE  Count(q, S) = IF Head(q) \in S THEN Count(Tail(q), S) + 1 ELSE Count(Tail(q), S)
<1> DEFINE p == Tail(q)
           n == Len(q)
           A == Places(q, S) \ {1}
           f == [i \in Places(p, S) |-> i + 1]
<1>1. /\ n \in Nat \ {0} /\ Len(p) = n - 1 /\ p \in Seq(Msgs)
      /\ Head(q) = q[1] /\ \A i \in 1 .. n - 1 : p[i] = q[i + 1]
  BY HeadTailProperties, EmptySeq
<1>2. IsFiniteSet(Places(q, S)) /\ IsFiniteSet(Places(p, S))
  BY <1>1, CountType
<1> HIDE DEF p, n
<1>3. \A i \in Places(p, S) : i \in 1 .. n - 1 /\ p[i] = q[i + 1] /\ p[i] \in S
  BY <1>1 DEF Places
<1>4. f \in [Places(p, S) -> A]
  BY <1>1, <1>3 DEF Places, n
<1>5. ASSUME NEW j \in A PROVE \E i \in Places(p, S) : f[i] = j
  <2>1. j \in 1 .. n /\ q[j] \in S /\ j # 1
    BY DEF Places, n
  <2>2. j - 1 \in 1 .. n - 1 /\ p[j - 1] = q[j]
    BY <1>1, <2>1
  <2>3. j - 1 \in Places(p, S)
    BY <1>1, <2>1, <2>2 DEF Places
  <2>4. f[j - 1] = j
    BY <2>1, <2>3
  <2>. QED
    BY <2>3, <2>4
<1>6. \A i, j \in Places(p, S) : f[i] = f[j] => i = j
  BY <1>3
<1> HIDE DEF f, A
<1>7. f \in Bijection(Places(p, S), A)
  BY <1>4, <1>5, <1>6 DEF Bijection, Injection, Surjection, IsInjective
<1>8. Cardinality(A) = Cardinality(Places(p, S))
  BY <1>2, <1>7, FS_Bijection DEF ExistsBijection
<1>9. Cardinality(A) = IF 1 \in Places(q, S) THEN Count(q, S) - 1 ELSE Count(q, S)
  BY <1>2, FS_RemoveElement DEF Count, A
<1>10. 1 \in Places(q, S) <=> Head(q) \in S
  BY <1>1 DEF Places, n
<1>11. Count(q, S) \in Nat /\ Count(p, S) \in Nat
  BY <1>1, CountType
<1>. QED
  BY <1>8, <1>9, <1>10, <1>11 DEF Count, p
-----------------------------------------------------------------------------
(* A table at the servers, in the links and at the name node.              *)
Requests(t) == {<<"CreateTable", t>>}
Replies(t)  == {<<"CreateTableReply", t>>}

Asked(s, t)    == Count(net[NameNode][s], Requests(t))
Replied(s, t)  == Count(net[s][NameNode], Replies(t))
HasAnswered(t) == {s \in Servers : t \in server[s].tables /\ Replied(s, t) = 0}

(* The name node asks each server once for a table, is answered once by    *)
(* each, and counts the answers that it has taken.                         *)
AskedOnce ==
  \A s \in Servers, t \in Tables :
    /\ Asked(s, t) <= 1 /\ Replied(s, t) <= 1
    /\ Asked(s, t) = 1 => t \in name.known /\ t \notin server[s].tables
    /\ Replied(s, t) = 1 => t \in server[s].tables
    /\ t \in server[s].tables => t \in name.known

RepliesCounted ==
  \A t \in Tables : name.replies[t] <= Cardinality(HasAnswered(t))

(* It answers a worker when every server has the table.                    *)
AnsweredWhenThere ==
  \A b \in Bgs, t \in Tables :
    Count(net[NameNode][b], Replies(t)) > 0 => \A s \in Servers : t \in server[s].tables

TablesInv == AskedOnce /\ RepliesCounted /\ AnsweredWhenThere /\ TablesBeforeUse

(* No message about a table is added to the links of servers and name node.*)
Fewer(p, n) ==
  \A x \in Servers \cup {NameNode} : \A y \in Peers(x) : \A t \in Tables :
    /\ Count(p[x][y], Requests(t)) <= Count(n[x][y], Requests(t))
    /\ Count(p[x][y], Replies(t)) <= Count(n[x][y], Replies(t))

LEMMA CountInNet ==
  ASSUME NEW n, NetOK(n), NEW x \in Nodes, NEW y \in Peers(x), NEW S
  PROVE  n[x][y] \in Seq(Msgs) /\ Count(n[x][y], S) \in Nat
<1>1. n[x][y] \in Seq(Msgs)
  BY DEF NetOK
<1>. QED
  BY <1>1, CountType

LEMMA CountSend ==
  ASSUME NEW n, NetOK(n), NEW from \in Nodes, NEW dests, NEW m \in Msgs,
         NEW x \in Nodes, NEW y \in Peers(x), NEW S
  PROVE  Count(Send(n, from, dests, m)[x][y], S) =
           IF x = from /\ y \in dests /\ m \in S THEN Count(n[x][y], S) + 1
                                                  ELSE Count(n[x][y], S)
<1>1. Send(n, from, dests, m)[x][y] =
        IF x = from /\ y \in dests THEN Append(n[x][y], m) ELSE n[x][y]
  BY SendAt
<1>2. n[x][y] \in Seq(Msgs)
  BY DEF NetOK
<1>3. Count(Append(n[x][y], m), S) = IF m \in S THEN Count(n[x][y], S) + 1
                                                ELSE Count(n[x][y], S)
  BY <1>2, CountAppend
<1>. QED
  BY <1>1, <1>3

LEMMA CountRest ==
  ASSUME NetOK(net), NEW from \in Nodes, NEW to, Looked(from, to),
         NEW x \in Nodes, NEW y \in Peers(x), NEW S
  PROVE  Count(Rest(from, to)[x][y], S) =
           IF x = from /\ y = to /\ Head(net[from][to]) \in S
           THEN Count(net[x][y], S) - 1 ELSE Count(net[x][y], S)
<1>1. /\ to \in Peers(from) /\ net[from][to] # << >>
      /\ Rest(from, to)[x][y] = IF x = from /\ y = to THEN Tail(net[x][y]) ELSE net[x][y]
  BY RestAt
<1>2. net[from][to] \in Seq(Msgs)
  BY <1>1 DEF NetOK
<1>3. Tail(net[from][to]) \in Seq(Msgs)
  BY <1>1, <1>2, HeadTailProperties
<1>4. /\ Count(net[from][to], S) = IF Head(net[from][to]) \in S
                                   THEN Count(Tail(net[from][to]), S) + 1
                                   ELSE Count(Tail(net[from][to]), S)
      /\ Count(Tail(net[from][to]), S) \in Nat
  BY <1>1, <1>2, <1>3, CountTail, CountType
<1>. QED
  BY <1>1, <1>4

LEMMA FewerTrans ==
  ASSUME NEW p, NEW q, NEW r, NetOK(p), NetOK(q), NetOK(r), Fewer(p, q), Fewer(q, r)
  PROVE  Fewer(p, r)
<1>1. SUFFICES ASSUME NEW x \in Servers \cup {NameNode}, NEW y \in Peers(x), NEW t \in Tables
               PROVE  /\ Count(p[x][y], Requests(t)) <= Count(r[x][y], Requests(t))
                      /\ Count(p[x][y], Replies(t)) <= Count(r[x][y], Replies(t))
  BY DEF Fewer
<1>2. x \in Nodes
  BY Kinds
<1>3. /\ Count(p[x][y], Requests(t)) \in Nat /\ Count(p[x][y], Replies(t)) \in Nat
      /\ Count(q[x][y], Requests(t)) \in Nat /\ Count(q[x][y], Replies(t)) \in Nat
      /\ Count(r[x][y], Requests(t)) \in Nat /\ Count(r[x][y], Replies(t)) \in Nat
  BY <1>2, CountInNet
<1>4. /\ Count(p[x][y], Requests(t)) <= Count(q[x][y], Requests(t))
      /\ Count(p[x][y], Replies(t)) <= Count(q[x][y], Replies(t))
      /\ Count(q[x][y], Requests(t)) <= Count(r[x][y], Requests(t))
      /\ Count(q[x][y], Replies(t)) <= Count(r[x][y], Replies(t))
  BY DEF Fewer
<1>. QED
  BY <1>3, <1>4

LEMMA FewerRest ==
  ASSUME NetOK(net), NEW from \in Nodes, NEW to, Looked(from, to)
  PROVE  Fewer(Rest(from, to), net)
<1>1. SUFFICES ASSUME NEW x \in Servers \cup {NameNode}, NEW y \in Peers(x), NEW t \in Tables
               PROVE  /\ Count(Rest(from, to)[x][y], Requests(t)) <= Count(net[x][y], Requests(t))
                      /\ Count(Rest(from, to)[x][y], Replies(t)) <= Count(net[x][y], Replies(t))
  BY DEF Fewer
<1>2. x \in Nodes
  BY Kinds
<1>3. ASSUME NEW S PROVE Count(Rest(from, to)[x][y], S) <= Count(net[x][y], S)
  <2>1. Count(net[x][y], S) \in Nat
    BY <1>2, CountInNet
  <2>2. \/ Count(Rest(from, to)[x][y], S) = Count(net[x][y], S) - 1
        \/ Count(Rest(from, to)[x][y], S) = Count(net[x][y], S)
    BY <1>2, CountRest
  <2>. QED
    BY <2>1, <2>2
<1>. QED
  BY <1>3

LEMMA FewerSend ==
  ASSUME NEW n, NetOK(n), NEW from \in Nodes, NEW dests, NEW m \in Msgs,
         from \notin Servers \cup {NameNode} \/ m[1] \notin TableTypes
  PROVE  Fewer(Send(n, from, dests, m), n)
<1>1. SUFFICES ASSUME NEW x \in Servers \cup {NameNode}, NEW y \in Peers(x), NEW t \in Tables
               PROVE  /\ Count(Send(n, from, dests, m)[x][y], Requests(t)) <= Count(n[x][y], Requests(t))
                      /\ Count(Send(n, from, dests, m)[x][y], Replies(t)) <= Count(n[x][y], Replies(t))
  BY DEF Fewer
<1>2. x \in Nodes
  BY Kinds
<1>3. ASSUME NEW S, x = from => m \notin S
      PROVE  Count(Send(n, from, dests, m)[x][y], S) <= Count(n[x][y], S)
  <2>1. Count(n[x][y], S) \in Nat
    BY <1>2, CountInNet
  <2>2. Count(Send(n, from, dests, m)[x][y], S) = Count(n[x][y], S)
    BY <1>2, <1>3, CountSend
  <2>. QED
    BY <2>1, <2>2
<1>4. x = from => m \notin Requests(t) /\ m \notin Replies(t)
  BY DEF Requests, Replies, TableTypes
<1>. QED
  BY <1>3, <1>4

LEMMA FewerSame ==
  ASSUME NEW n, NetOK(n)
  PROVE  Fewer(n, n)
<1>1. SUFFICES ASSUME NEW x \in Servers \cup {NameNode}, NEW y \in Peers(x), NEW t \in Tables
               PROVE  /\ Count(n[x][y], Requests(t)) <= Count(n[x][y], Requests(t))
                      /\ Count(n[x][y], Replies(t)) <= Count(n[x][y], Replies(t))
  BY DEF Fewer
<1>2. x \in Nodes
  BY Kinds
<1>3. Count(n[x][y], Requests(t)) \in Nat /\ Count(n[x][y], Replies(t)) \in Nat
  BY <1>2, CountInNet
<1>. QED
  BY <1>3

(* A receipt and up to two messages that are not about tables.             *)
LEMMA FewerStep ==
  ASSUME NetOK(net), NEW from \in Nodes, NEW to, Looked(from, to),
         NEW x \in Nodes, NEW dests, NEW m \in Msgs, NEW more, NEW k \in Msgs,
         x \notin Servers \cup {NameNode} \/ (m[1] \notin TableTypes /\ k[1] \notin TableTypes)
  PROVE  /\ Fewer(Rest(from, to), net)
         /\ Fewer(Send(Rest(from, to), x, dests, m), net)
         /\ Fewer(Send(Send(Rest(from, to), x, dests, m), x, more, k), net)
<1> DEFINE r == Rest(from, to)
           p == Send(r, x, dests, m)
           q == Send(p, x, more, k)
<1>1. NetOK(r) /\ NetOK(p) /\ NetOK(q)
  BY NetStep
<1>2. Fewer(r, net)
  BY FewerRest
<1> HIDE DEF r
<1>3. Fewer(p, r)
  BY <1>1, FewerSend
<1>4. Fewer(p, net)
  BY <1>1, <1>2, <1>3, FewerTrans
<1> HIDE DEF p
<1>5. Fewer(q, p)
  BY <1>1, FewerSend
<1>6. Fewer(q, net)
  BY <1>1, <1>4, <1>5, FewerTrans
<1>. QED
  BY <1>2, <1>4, <1>6 DEF r, p, q

LEMMA FewerPlainStep ==
  ASSUME NetOK(net), NEW from \in Nodes, NEW to, Looked(from, to),
         NEW x \in Nodes, NEW dests, NEW m \in Msgs, NEW more, NEW k \in Msgs,
         m[1] \notin TableTypes, k[1] \notin TableTypes
  PROVE  /\ Fewer(Rest(from, to), net)
         /\ Fewer(Send(Rest(from, to), x, dests, m), net)
         /\ Fewer(Send(Send(Rest(from, to), x, dests, m), x, more, k), net)
BY FewerStep, Zenon

(* A step that has nothing to do with tables keeps the invariant.          *)
Quiet ==
  /\ Fewer(net', net)
  /\ name'.known = name.known /\ name'.replies = name.replies
  /\ tables' = tables
  /\ \A s \in Servers : server'[s].tables = server[s].tables

LEMMA FewerKeeps ==
  ASSUME TypeOK, TypeOK', TablesInv, Fewer(net', net),
         name'.known = name.known, name'.replies = name.replies,
         \A s \in Servers : server'[s].tables = server[s].tables
  PROVE  AskedOnce' /\ RepliesCounted' /\ AnsweredWhenThere'
<1>1. NetOK(net) /\ NetOK(net') /\ NameOK(name)
  BY DEF TypeOK
<1>2. ASSUME NEW s \in Servers, NEW t \in Tables
      PROVE  /\ Asked(s, t)' <= Asked(s, t) /\ Replied(s, t)' <= Replied(s, t)
             /\ Asked(s, t) \in Nat /\ Asked(s, t)' \in Nat
             /\ Replied(s, t) \in Nat /\ Replied(s, t)' \in Nat
  <2>1. s \in Nodes /\ NameNode \in Nodes /\ s \in Peers(NameNode) /\ NameNode \in Peers(s)
    BY Kinds, Links
  <2>2. /\ Count(net'[NameNode][s], Requests(t)) <= Count(net[NameNode][s], Requests(t))
        /\ Count(net'[s][NameNode], Replies(t)) <= Count(net[s][NameNode], Replies(t))
    BY <2>1 DEF Fewer
  <2>3. /\ Count(net'[NameNode][s], Requests(t)) \in Nat
        /\ Count(net[NameNode][s], Requests(t)) \in Nat
        /\ Count(net'[s][NameNode], Replies(t)) \in Nat
        /\ Count(net[s][NameNode], Replies(t)) \in Nat
    BY <1>1, <2>1, CountInNet
  <2>. QED
    BY <2>2, <2>3 DEF Asked, Replied
<1>3. AskedOnce'
  BY <1>2 DEF TablesInv, AskedOnce
<1>4. RepliesCounted'
  <2>1. SUFFICES ASSUME NEW t \in Tables
                 PROVE  name'.replies[t] <= Cardinality(HasAnswered(t)')
    BY DEF RepliesCounted
  <2>2. HasAnswered(t) \subseteq HasAnswered(t)'
    BY <1>2 DEF HasAnswered
  <2>3. HasAnswered(t)' \subseteq Servers
    BY DEF HasAnswered
  <2>4. /\ Cardinality(HasAnswered(t)) <= Cardinality(HasAnswered(t)')
        /\ Cardinality(HasAnswered(t)) \in Nat /\ Cardinality(HasAnswered(t)') \in Nat
    BY <2>2, <2>3, FiniteKinds, FS_Subset, FS_CardinalityType
  <2>5. name.replies[t] \in Nat
    BY <1>1 DEF NameOK
  <2>. QED
    BY <2>4, <2>5 DEF TablesInv, RepliesCounted
<1>5. AnsweredWhenThere'
  <2>1. SUFFICES ASSUME NEW b \in Bgs, NEW t \in Tables,
                        Count(net'[NameNode][b], Replies(t)) > 0
                 PROVE  \A s \in Servers : t \in server'[s].tables
    BY DEF AnsweredWhenThere
  <2>2. b \in Nodes /\ NameNode \in Nodes /\ b \in Peers(NameNode)
    BY Kinds, Links
  <2>3. Count(net'[NameNode][b], Replies(t)) <= Count(net[NameNode][b], Replies(t))
    BY <2>2 DEF Fewer
  <2>4. /\ Count(net'[NameNode][b], Replies(t)) \in Nat
        /\ Count(net[NameNode][b], Replies(t)) \in Nat
    BY <1>1, <2>2, CountInNet
  <2>5. Count(net[NameNode][b], Replies(t)) > 0
    BY <2>1, <2>3, <2>4
  <2>. QED
    BY <2>5 DEF TablesInv, AnsweredWhenThere
<1>. QED
  BY <1>3, <1>4, <1>5

LEMMA QuietKeeps ==
  ASSUME TypeOK, TypeOK', TablesInv, Quiet
  PROVE  TablesInv'
<1>1. AskedOnce' /\ RepliesCounted' /\ AnsweredWhenThere'
  BY FewerKeeps DEF Quiet
<1>2. TablesBeforeUse'
  BY DEF Quiet, TablesInv, TablesBeforeUse
<1>. QED
  BY <1>1, <1>2 DEF TablesInv

LEMMA QuietNameNode ==
  ASSUME TypeOK
  PROVE  /\ \A x \in Bgs \cup Servers : NameNodeConnection(x) => Quiet
         /\ \A b \in Bgs : NameNodeShutDown(b) => Quiet
<1>1. ASSUME NEW x \in Bgs \cup Servers, NameNodeConnection(x) PROVE Quiet
  <2>1. /\ <<"ConnectServer", 0>> \in Msgs /\ <<"ClientStart", 0>> \in Msgs
        /\ "ConnectServer" \notin TableTypes /\ "ClientStart" \notin TableTypes
    BY MsgTypes DEF PlainTypes, TableTypes
  <2>2. NetOK(net) /\ Looked(x, NameNode) /\ x \in Nodes /\ NameNode \in Nodes
    BY <1>1, Kinds DEF NameNodeConnection, TypeOK, Gets
  <2>3. /\ Fewer(Rest(x, NameNode), net)
        /\ Fewer(Send(Send(Rest(x, NameNode), NameNode, Bgs, <<"ConnectServer", 0>>),
                      NameNode, Bgs, <<"ClientStart", 0>>), net)
    BY <2>1, <2>2, FewerPlainStep
  <2>4. NameOK(name)
    BY DEF TypeOK
  <2>. QED
    BY <1>1, <2>3, <2>4 DEF NameNodeConnection, Quiet, NameOK
<1>2. ASSUME NEW b \in Bgs, NameNodeShutDown(b) PROVE Quiet
  <2>1. <<"ServerShutDownAck", 0>> \in Msgs /\ "ServerShutDownAck" \notin TableTypes
    BY MsgTypes DEF PlainTypes, TableTypes
  <2>2. NetOK(net) /\ Looked(b, NameNode) /\ b \in Nodes /\ NameNode \in Nodes
    BY <1>2, Kinds DEF NameNodeShutDown, TypeOK, Gets
  <2>3. /\ Fewer(Rest(b, NameNode), net)
        /\ Fewer(Send(Rest(b, NameNode), NameNode, Bgs, <<"ServerShutDownAck", 0>>), net)
    BY <2>1, <2>2, FewerPlainStep
  <2>4. NameOK(name)
    BY DEF TypeOK
  <2>. QED
    BY <1>2, <2>3, <2>4 DEF NameNodeShutDown, Quiet, NameOK
<1>. QED
  BY <1>1, <1>2

LEMMA QuietServer ==
  ASSUME TypeOK, NEW s \in Servers, NEW b \in BgsFor(s)
  PROVE  /\ ServerConnection(s, b) => Quiet
         /\ ServerOpLog(s, b) => Quiet
         /\ ServerPushRowAck(s, b) => Quiet
         /\ ServerShutDown(s, b) => Quiet
<1>1. NetOK(net) /\ b \in Nodes /\ s \in Nodes
  BY Kinds, Links DEF TypeOK
<1>2. /\ <<"ClientStart", 0>> \in Msgs /\ <<"ServerPushRow", 0>> \in Msgs
      /\ <<"ServerOpLogAck", 0>> \in Msgs /\ <<"ServerShutDownAck", 0>> \in Msgs
      /\ "ClientStart" \notin TableTypes /\ "ServerPushRow" \notin TableTypes
      /\ "ServerOpLogAck" \notin TableTypes /\ "ServerShutDownAck" \notin TableTypes
  BY MsgTypes DEF PlainTypes, TableTypes
<1>3. DOMAIN server = Servers /\ ServerOK(s, server[s])
  BY DEF TypeOK
<1>4. ASSUME ServerConnection(s, b) PROVE Quiet
  <2>1. Looked(b, s)
    BY <1>4 DEF ServerConnection, Gets
  <2>2. Fewer(Rest(b, s), net) /\ Fewer(Send(Rest(b, s), s, BgsFor(s), <<"ClientStart", 0>>), net)
    BY <1>1, <1>2, <2>1, FewerPlainStep
  <2>. QED
    BY <1>3, <1>4, <2>2 DEF ServerConnection, Quiet, ServerOK
<1>5. ASSUME ServerOpLog(s, b) PROVE Quiet
  <2> DEFINE clocked == [server[s] EXCEPT !.clock[b] = Content(b, s)]
             due     == PushRows /\ MinClock(clocked.clock) > MinClock(server[s].clock)
             pushes  == due /\ CheckSendAll(clocked)
             heldBack == [clocked EXCEPT !.held = @ \/ due]
             after   == IF pushes THEN Tracked(clocked) ELSE heldBack
             sent    == Send(IF pushes THEN PushMsgs(Rest(b, s), s) ELSE Rest(b, s),
                             s, {b}, <<"ServerOpLogAck", 0>>)
  <2>1. Looked(b, s)
    BY <1>5 DEF ServerOpLog, Gets
  <2>2. /\ Fewer(Send(Rest(b, s), s, {b}, <<"ServerOpLogAck", 0>>), net)
        /\ Fewer(Send(PushMsgs(Rest(b, s), s), s, {b}, <<"ServerOpLogAck", 0>>), net)
    BY <1>1, <1>2, <2>1, FewerPlainStep DEF PushMsgs
  <2>3. Fewer(sent, net)
    BY <2>2
  <2>4. clocked.tables = server[s].tables /\ DOMAIN clocked = DOMAIN server[s]
    BY <1>3 DEF ServerOK
  <2>5. server' = [server EXCEPT ![s] = after] /\ net' = sent /\ UNCHANGED <<tables, name>>
    BY <1>5 DEF ServerOpLog
  <2> HIDE DEF clocked, due, sent
  <2>6. after.tables = server[s].tables
    BY <1>3, <2>4 DEF ServerOK, Tracked
  <2> HIDE DEF after
  <2>. QED
    BY <1>3, <2>3, <2>5, <2>6 DEF Quiet
<1>6. ASSUME ServerPushRowAck(s, b) PROVE Quiet
  <2> DEFINE acked  == [server[s] EXCEPT !.pending[b] = @ - 1]
             resend == acked.held /\ CheckSendAll(acked)
             after  == IF resend THEN Tracked(acked) ELSE acked
             sent   == IF resend THEN PushMsgs(Rest(b, s), s) ELSE Rest(b, s)
  <2>1. Looked(b, s)
    BY <1>6 DEF ServerPushRowAck, Gets
  <2>2. /\ Fewer(Rest(b, s), net) /\ Fewer(PushMsgs(Rest(b, s), s), net)
        /\ Fewer(ShutDownAcks(Rest(b, s), s), net)
        /\ Fewer(ShutDownAcks(PushMsgs(Rest(b, s), s), s), net)
    BY <1>1, <1>2, <2>1, FewerPlainStep DEF PushMsgs, ShutDownAcks
  <2>3. Fewer(sent, net) /\ Fewer(ShutDownAcks(sent, s), net)
    BY <2>2
  <2>4. acked.tables = server[s].tables /\ DOMAIN acked = DOMAIN server[s]
    BY <1>3 DEF ServerOK
  <2>5. /\ \/ /\ server' = [server EXCEPT ![s] = [after EXCEPT !.ending = FALSE, !.at = "exited"]]
              /\ net' = ShutDownAcks(sent, s)
           \/ server' = [server EXCEPT ![s] = after] /\ net' = sent
        /\ UNCHANGED <<tables, name>>
    BY <1>6 DEF ServerPushRowAck
  <2> HIDE DEF acked, sent
  <2>6. after.tables = server[s].tables /\ DOMAIN after = DOMAIN server[s]
    BY <1>3, <2>4 DEF ServerOK, Tracked
  <2> HIDE DEF after
  <2>7. [after EXCEPT !.ending = FALSE, !.at = "exited"].tables = server[s].tables
    BY <1>3, <2>6 DEF ServerOK
  <2>. QED
    BY <1>3, <2>3, <2>5, <2>6, <2>7 DEF Quiet
<1>7. ASSUME ServerShutDown(s, b) PROVE Quiet
  <2>1. Looked(b, s)
    BY <1>7 DEF ServerShutDown, Gets
  <2>2. Fewer(Rest(b, s), net) /\ Fewer(ShutDownAcks(Rest(b, s), s), net)
    BY <1>1, <1>2, <2>1, FewerPlainStep DEF ShutDownAcks
  <2>. QED
    BY <1>3, <1>7, <2>2 DEF ServerShutDown, Quiet, ServerOK
<1>. QED
  BY <1>4, <1>5, <1>6, <1>7

LEMMA FewerBgStep ==
  ASSUME NetOK(net), NEW from \in Nodes, NEW to, Looked(from, to),
         NEW b \in Bgs, NEW dests, NEW m \in Msgs, NEW more, NEW k \in Msgs
  PROVE  /\ Fewer(Rest(from, to), net)
         /\ Fewer(Send(Rest(from, to), b, dests, m), net)
         /\ Fewer(Send(Send(Rest(from, to), b, dests, m), b, more, k), net)
<1>1. b \in Nodes /\ b \notin Servers \cup {NameNode}
  BY Kinds
<1>2. b \notin Servers \cup {NameNode} \/ (m[1] \notin TableTypes /\ k[1] \notin TableTypes)
  BY <1>1
<1>. QED
  BY <1>1, <1>2, FewerStep, Zenon

LEMMA QuietBg ==
  ASSUME TypeOK, NEW b \in Bgs
  PROVE  /\ BgConnectServers(b) => Quiet
         /\ BgAllTablesCreated(b) => Quiet
         /\ \A x \in ServersFor(b) \cup {NameNode} : BgStart(b, x) \/ BgShutDownAck(b, x) => Quiet
         /\ \A s \in ServersFor(b) : BgOpLogAck(b, s) \/ BgPushRow(b, s) => Quiet
<1>1. NetOK(net) /\ b \in Nodes /\ b \notin Servers \cup {NameNode} /\ NameNode \in Nodes
  BY Kinds DEF TypeOK
<1>2. /\ <<"ClientConnect", 0>> \in Msgs /\ <<"ClientShutDown", 0>> \in Msgs
      /\ <<"BgServerPushRowAck", 0>> \in Msgs
  BY MsgTypes DEF PlainTypes
<1>3. ASSUME BgConnectServers(b) PROVE Quiet
  <2>1. Looked(NameNode, b)
    BY <1>3 DEF BgConnectServers, Gets
  <2>2. Fewer(Send(Rest(NameNode, b), b, ServersFor(b), <<"ClientConnect", 0>>), net)
    BY <1>1, <1>2, <2>1, FewerBgStep
  <2>. QED
    BY <1>3, <2>2 DEF BgConnectServers, Quiet
<1>4. ASSUME BgAllTablesCreated(b) PROVE Quiet
  <2>1. Looked(NameNode, b)
    BY <1>4 DEF BgAllTablesCreated, Gets
  <2>2. Fewer(Rest(NameNode, b), net)
    BY <1>1, <2>1, FewerRest
  <2>. QED
    BY <1>4, <2>2 DEF BgAllTablesCreated, Quiet
<1>5. ASSUME NEW x \in ServersFor(b) \cup {NameNode}, BgStart(b, x) \/ BgShutDownAck(b, x)
      PROVE  Quiet
  <2>1. Looked(x, b) /\ x \in Nodes
    BY <1>5, Kinds, Links DEF BgStart, BgShutDownAck, Gets
  <2>2. Fewer(Rest(x, b), net)
    BY <1>1, <2>1, FewerRest
  <2>. QED
    BY <1>5, <2>2 DEF BgStart, BgShutDownAck, Quiet
<1>6. ASSUME NEW s \in ServersFor(b), BgPushRow(b, s) PROVE Quiet
  <2>1. Looked(s, b) /\ s \in Nodes
    BY <1>6, Kinds, Links DEF BgPushRow, Gets
  <2>2. Fewer(Send(Rest(s, b), b, {s}, <<"BgServerPushRowAck", 0>>), net)
    BY <1>1, <1>2, <2>1, FewerBgStep
  <2>. QED
    BY <1>6, <2>2 DEF BgPushRow, Quiet
<1>7. ASSUME NEW s \in ServersFor(b), BgOpLogAck(b, s) PROVE Quiet
  <2> DEFINE acked  == [bg[b] EXCEPT !.pending[s] = @ - 1]
             resend == acked.held /\ CheckSendAll(acked)
             sent   == IF resend THEN OpLogMsgs(Rest(s, b), b, acked) ELSE Rest(s, b)
  <2>1. Looked(s, b) /\ s \in Nodes
    BY <1>7, Kinds, Links DEF BgOpLogAck, Gets
  <2>2. acked.clock \in Nat
    BY DEF TypeOK, BgOK
  <2>3. <<"ClientSendOpLog", acked.clock>> \in Msgs
    BY <2>2, MsgTypes DEF PlainTypes
  <2>4. net' = ShutDownMsgs(sent, b) \/ net' = sent
    BY <1>7 DEF BgOpLogAck
  <2> HIDE DEF acked
  <2>5. /\ Fewer(Rest(s, b), net) /\ Fewer(OpLogMsgs(Rest(s, b), b, acked), net)
        /\ Fewer(ShutDownMsgs(Rest(s, b), b), net)
        /\ Fewer(ShutDownMsgs(OpLogMsgs(Rest(s, b), b, acked), b), net)
    BY <1>1, <1>2, <2>1, <2>3, FewerBgStep DEF OpLogMsgs, ShutDownMsgs
  <2>6. Fewer(sent, net) /\ Fewer(ShutDownMsgs(sent, b), net)
    BY <2>5
  <2>. QED
    BY <1>7, <2>4, <2>6 DEF BgOpLogAck, Quiet
<1>. QED
  BY <1>3, <1>4, <1>5, <1>6, <1>7

LEMMA QuietBgThread ==
  ASSUME TypeOK, NEW b \in Bgs, NEW t \in ThreadsOf(b[2])
  PROVE  /\ BgInitThread(b, t) \/ BgConnect(b, t) => Quiet
         /\ BgCreateTable(b, t) => Quiet
         /\ BgClock(b, t) => Quiet
         /\ BgDereg(b, t) => Quiet
<1>1. NetOK(net) /\ b \in Nodes /\ b \notin Servers \cup {NameNode} /\ t \in Nodes
  BY Kinds DEF TypeOK, ThreadsOf
<1>2. ASSUME BgInitThread(b, t) \/ BgConnect(b, t) PROVE Quiet
  <2>1. Looked(t, b)
    BY <1>2 DEF BgInitThread, BgConnect, Gets
  <2>2. Fewer(Rest(t, b), net)
    BY <1>1, <2>1, FewerRest
  <2>. QED
    BY <1>2, <2>2 DEF BgInitThread, BgConnect, Quiet
<1>3. ASSUME BgCreateTable(b, t) PROVE Quiet
  <2>1. Looked(t, b) /\ Head(net[t][b])[1] = "BgCreateTable"
    BY <1>3 DEF BgCreateTable, Gets
  <2>2. Content(t, b) \in Tables
    BY <1>1, <2>1, RestAt, MsgTypes DEF Content, TableTypes
  <2>3. <<"CreateTable", Content(t, b)>> \in Msgs
    BY <2>2, MsgTypes DEF TableTypes
  <2>4. Fewer(Send(Rest(t, b), b, {NameNode}, <<"CreateTable", Content(t, b)>>), net)
    BY <1>1, <2>1, <2>3, FewerBgStep
  <2>. QED
    BY <1>3, <2>4 DEF BgCreateTable, Quiet
<1>4. ASSUME BgClock(b, t) PROVE Quiet
  <2> DEFINE clocked == [bg[b] EXCEPT !.clock = @ + 1]
  <2>1. Looked(t, b)
    BY <1>4 DEF BgClock, Gets
  <2>2. clocked.clock \in Nat
    BY DEF TypeOK, BgOK
  <2>3. <<"ClientSendOpLog", clocked.clock>> \in Msgs
    BY <2>2, MsgTypes DEF PlainTypes
  <2>4. net' = Rest(t, b) \/ net' = OpLogMsgs(Rest(t, b), b, clocked)
    BY <1>4 DEF BgClock
  <2> HIDE DEF clocked
  <2>5. Fewer(Rest(t, b), net) /\ Fewer(OpLogMsgs(Rest(t, b), b, clocked), net)
    BY <1>1, <2>1, <2>3, FewerBgStep DEF OpLogMsgs
  <2>. QED
    BY <1>4, <2>4, <2>5 DEF BgClock, Quiet
<1>5. ASSUME BgDereg(b, t) PROVE Quiet
  <2>1. Looked(t, b) /\ <<"ClientShutDown", 0>> \in Msgs
    BY <1>5, MsgTypes DEF BgDereg, Gets, PlainTypes
  <2>2. Fewer(Rest(t, b), net) /\ Fewer(ShutDownMsgs(Rest(t, b), b), net)
    BY <1>1, <2>1, FewerBgStep DEF ShutDownMsgs
  <2>. QED
    BY <1>5, <2>2 DEF BgDereg, Quiet
<1>. QED
  BY <1>2, <1>3, <1>4, <1>5

LEMMA QuietClient ==
  ASSUME TypeOK, NEW c \in Clients
  PROVE  InitThreadStep(c) => Quiet
<1>1. /\ NetOK(net) /\ HeadBg(c) \in Nodes
      /\ InitThread[c] \in Nodes /\ InitThread[c] \notin Servers \cup {NameNode}
  BY Kinds, Links DEF TypeOK
<1>2. ASSUME InitBarrier(c) PROVE Quiet
  <2>1. <<"AppConnect", 0>> \in Msgs
    BY MsgTypes DEF PlainTypes
  <2>. QED
    BY <1>1, <1>2, <2>1, FewerSend DEF InitBarrier, Quiet
<1>3. ASSUME TableCreated(c) PROVE Quiet
  BY <1>1, <1>3, FewerRest DEF TableCreated, Gets, Quiet
<1>4. ASSUME CreateTableBarrier(c) \/ RegisterBarrier(c) \/ ShutDown(c) PROVE Quiet
  BY <1>1, <1>4, FewerSame DEF CreateTableBarrier, RegisterBarrier, ShutDown, Quiet
<1>5. ASSUME NEW t \in Tables, CreateTable(c, t) PROVE Quiet
  <2>1. <<"BgCreateTable", t>> \in Msgs
    BY MsgTypes DEF TableTypes
  <2>. QED
    BY <1>1, <1>5, <2>1, FewerSend DEF CreateTable, Quiet
<1>. QED
  BY <1>2, <1>3, <1>4, <1>5 DEF InitThreadStep

LEMMA QuietThread ==
  ASSUME TypeOK, NEW t \in Threads
  PROVE  ThreadStep(t) \/ Clock(t) => Quiet
<1>1. NetOK(net) /\ t \in Nodes /\ t \notin Servers \cup {NameNode}
  BY Kinds DEF TypeOK
<1>2. /\ <<"AppConnect", 0>> \in Msgs /\ <<"AppThreadDereg", 0>> \in Msgs
      /\ <<"BgClock", 0>> \in Msgs
  BY MsgTypes DEF PlainTypes
<1>3. ASSUME RegisterThread(t) \/ DeregisterThread(t) PROVE Quiet
  BY <1>1, <1>2, <1>3, FewerSend DEF RegisterThread, DeregisterThread, Quiet
<1>4. ASSUME Clock(t) PROVE Quiet
  <2>1. Fewer(net, net) /\ Fewer(Send(net, t, BgsOf(ClientOf[t]), <<"BgClock", 0>>), net)
    BY <1>1, <1>2, FewerSend, FewerSame
  <2>. QED
    BY <1>4, <2>1 DEF Clock, Quiet
<1>. QED
  BY <1>3, <1>4 DEF ThreadStep

(* What a receipt and a message sent after it do to a count.               *)
LEMMA CountStep ==
  ASSUME NetOK(net), NEW from \in Nodes, NEW to, Looked(from, to),
         NEW x \in Nodes, NEW dests, NEW m \in Msgs,
         NEW u \in Nodes, NEW v \in Peers(u), NEW S
  PROVE  Count(Send(Rest(from, to), x, dests, m)[u][v], S) =
           Count(net[u][v], S)
             - (IF u = from /\ v = to /\ Head(net[from][to]) \in S THEN 1 ELSE 0)
             + (IF u = x /\ v \in dests /\ m \in S THEN 1 ELSE 0)
<1>1. NetOK(Rest(from, to))
  BY NetStep
<1>2. Count(Rest(from, to)[u][v], S) =
        IF u = from /\ v = to /\ Head(net[from][to]) \in S
        THEN Count(net[u][v], S) - 1 ELSE Count(net[u][v], S)
  BY CountRest
<1>3. Count(Send(Rest(from, to), x, dests, m)[u][v], S) =
        IF u = x /\ v \in dests /\ m \in S THEN Count(Rest(from, to)[u][v], S) + 1
                                           ELSE Count(Rest(from, to)[u][v], S)
  BY <1>1, CountSend
<1>4. Count(net[u][v], S) \in Nat
  BY CountInNet
<1>. QED
  BY <1>2, <1>3, <1>4

LEMMA HeadIs ==
  ASSUME NetOK(net), NEW from \in Nodes, NEW to, Looked(from, to)
  PROVE  Head(net[from][to]) = <<Head(net[from][to])[1], Content(from, to)>>
<1>1. Head(net[from][to]) \in Msgs
  BY RestAt
<1>. QED
  BY <1>1 DEF Msgs, Content

LEMMA TableMessages ==
  ASSUME NEW t \in Tables, NEW u \in Tables
  PROVE  /\ <<"CreateTable", t>> \in Msgs /\ <<"CreateTableReply", t>> \in Msgs
         /\ <<"CreateTable", t>> \in Requests(u) <=> t = u
         /\ <<"CreateTableReply", t>> \in Replies(u) <=> t = u
         /\ <<"CreateTable", t>> \notin Replies(u)
         /\ <<"CreateTableReply", t>> \notin Requests(u)
BY MsgTypes DEF Requests, Replies, TableTypes

LEMMA CountsInNat ==
  ASSUME TypeOK, NEW t \in Tables
  PROVE  /\ \A s \in Servers : Asked(s, t) \in Nat /\ Replied(s, t) \in Nat
         /\ \A b \in Bgs : Count(net[NameNode][b], Replies(t)) \in Nat
         /\ IsFiniteSet(HasAnswered(t)) /\ Cardinality(HasAnswered(t)) \in Nat
         /\ name.replies[t] \in Nat
<1>1. ASSUME NEW s \in Servers PROVE Asked(s, t) \in Nat /\ Replied(s, t) \in Nat
  <2>1. /\ s \in Nodes /\ NameNode \in Nodes /\ s \in Peers(NameNode) /\ NameNode \in Peers(s)
        /\ NetOK(net)
    BY Kinds, Links DEF TypeOK
  <2>. QED
    BY <2>1, CountInNet DEF Asked, Replied
<1>2. ASSUME NEW b \in Bgs PROVE Count(net[NameNode][b], Replies(t)) \in Nat
  <2>1. NameNode \in Nodes /\ b \in Peers(NameNode) /\ NetOK(net)
    BY Kinds, Links DEF TypeOK
  <2>. QED
    BY <2>1, CountInNet
<1>3. IsFiniteSet(HasAnswered(t)) /\ Cardinality(HasAnswered(t)) \in Nat
  BY FiniteKinds, FS_Subset, FS_CardinalityType DEF HasAnswered
<1>4. name.replies[t] \in Nat
  BY DEF TypeOK, NameOK
<1>. QED
  BY <1>1, <1>2, <1>3, <1>4

LEMMA ServerCreateTableTables ==
  ASSUME TypeOK, TablesInv, NEW s \in Servers, ServerCreateTable(s)
  PROVE  TablesInv'
<1>0. PICK t \in Tables : t = Content(NameNode, s)
  BY ServerCreateTableType
<1>1. TypeOK'
  BY ServerCreateTableType
<1>2. /\ NetOK(net) /\ Looked(NameNode, s) /\ NameNode \in Nodes /\ s \in Nodes
      /\ s \in Peers(NameNode) /\ NameNode \in Peers(s) /\ s # NameNode
      /\ Head(net[NameNode][s])[1] = "CreateTable"
  BY Kinds, Links DEF ServerCreateTable, TypeOK, Gets
<1>3. Head(net[NameNode][s]) = <<"CreateTable", t>>
  BY <1>0, <1>2, HeadIs
<1>4. /\ net' = Send(Rest(NameNode, s), s, {NameNode}, <<"CreateTableReply", t>>)
      /\ UNCHANGED <<tables, name>>
  BY <1>0 DEF ServerCreateTable
<1>5. \A d \in Servers : server'[d].tables = IF d = s THEN server[s].tables \cup {t}
                                                      ELSE server[d].tables
  BY <1>0 DEF ServerCreateTable, TypeOK, ServerOK
<1>6. ASSUME NEW d \in Servers, NEW u \in Tables
      PROVE  /\ Asked(d, u)' = IF d = s /\ u = t THEN Asked(d, u) - 1 ELSE Asked(d, u)
             /\ Replied(d, u)' = IF d = s /\ u = t THEN Replied(d, u) + 1 ELSE Replied(d, u)
  <2>1. d \in Nodes /\ d # NameNode /\ d \in Peers(NameNode) /\ NameNode \in Peers(d)
    BY Kinds, Links
  <2>2. Asked(d, u)' = Asked(d, u) - (IF d = s /\ u = t THEN 1 ELSE 0) + 0
    BY <1>1, <1>2, <1>3, <1>4, <2>1, CountStep, TableMessages DEF Asked
  <2>3. Replied(d, u)' = Replied(d, u) - 0 + (IF d = s /\ u = t THEN 1 ELSE 0)
    BY <1>1, <1>2, <1>3, <1>4, <2>1, CountStep, TableMessages DEF Replied
  <2>. QED
    BY <2>2, <2>3, CountsInNat
<1>7. \A b \in Bgs, u \in Tables :
        Count(net'[NameNode][b], Replies(u)) = Count(net[NameNode][b], Replies(u))
  <2>1. SUFFICES ASSUME NEW b \in Bgs, NEW u \in Tables
                 PROVE  Count(net'[NameNode][b], Replies(u)) = Count(net[NameNode][b], Replies(u))
    OBVIOUS
  <2>2. b \in Peers(NameNode) /\ b # s
    BY Kinds, Links
  <2>3. Count(net'[NameNode][b], Replies(u)) = Count(net[NameNode][b], Replies(u)) - 0 + 0
    <3>1. <<"CreateTableReply", t>> \in Msgs
      BY TableMessages
    <3>. QED
      BY <1>2, <1>4, <2>2, <3>1, CountStep
  <2>. QED
    BY <2>3, CountsInNat
(* The request was the only one; nobody has counted an answer of s yet.    *)
<1>8. Asked(s, t) = 1 /\ t \in name.known /\ t \notin server[s].tables /\ Replied(s, t) = 0
  <2>1. Asked(s, t)' \in Nat /\ Asked(s, t) \in Nat /\ Replied(s, t) \in Nat
    <3>1. NetOK(net')
      BY <1>1 DEF TypeOK
    <3>2. Count(net'[NameNode][s], Requests(t)) \in Nat
      BY <1>2, <3>1, CountInNet
    <3>. QED
      BY <1>1, <3>2, CountsInNat DEF Asked
  <2>2. Asked(s, t) = 1
    <3>1. Asked(s, t) <= 1 /\ Asked(s, t)' = Asked(s, t) - 1
      BY <1>1, <1>6 DEF TablesInv, AskedOnce
    <3>. QED
      BY <2>1, <3>1
  <2>. QED
    BY <1>1, <2>1, <2>2 DEF TablesInv, AskedOnce
<1>9. AskedOnce'
  <2>1. SUFFICES ASSUME NEW d \in Servers, NEW u \in Tables
                 PROVE  /\ Asked(d, u)' <= 1 /\ Replied(d, u)' <= 1
                        /\ Asked(d, u)' = 1 => u \in name.known /\ u \notin server'[d].tables
                        /\ Replied(d, u)' = 1 => u \in server'[d].tables
                        /\ u \in server'[d].tables => u \in name.known
    BY <1>4 DEF AskedOnce
  <2>2. /\ Asked(d, u) <= 1 /\ Replied(d, u) <= 1
        /\ Asked(d, u) = 1 => u \in name.known /\ u \notin server[d].tables
        /\ Replied(d, u) = 1 => u \in server[d].tables
        /\ u \in server[d].tables => u \in name.known
    BY DEF TablesInv, AskedOnce
  <2>. QED
    BY <1>5, <1>6, <1>8, <2>2
<1>10. RepliesCounted'
  <2>1. SUFFICES ASSUME NEW u \in Tables
                 PROVE  name.replies[u] <= Cardinality(HasAnswered(u)')
    BY <1>4 DEF RepliesCounted
  <2>2. HasAnswered(u)' = HasAnswered(u)
    BY <1>1, <1>5, <1>6, <1>8 DEF HasAnswered
  <2>. QED
    BY <2>2 DEF TablesInv, RepliesCounted
<1>11. AnsweredWhenThere' /\ TablesBeforeUse'
  BY <1>4, <1>5, <1>7 DEF TablesInv, AnsweredWhenThere, TablesBeforeUse
<1>. QED
  BY <1>9, <1>10, <1>11 DEF TablesInv

LEMMA BgTableCreatedTables ==
  ASSUME TypeOK, TablesInv, NEW b \in Bgs, BgTableCreated(b)
  PROVE  TablesInv'
<1>1. PICK t \in Tables : t = Content(NameNode, b)
  BY BgTableCreatedType
<1>2. TypeOK'
  BY BgTableCreatedType
<1>3. /\ NetOK(net) /\ Looked(NameNode, b) /\ NameNode \in Nodes /\ b \in Nodes
      /\ b \in Peers(NameNode) /\ Head(net[NameNode][b])[1] = "CreateTableReply"
      /\ b[2] \in Clients
  BY Kinds, Links DEF BgTableCreated, TypeOK, Gets
<1>4. Head(net[NameNode][b]) = <<"CreateTableReply", t>>
  BY <1>1, <1>3, HeadIs
<1>5. /\ net' = Send(Rest(NameNode, b), b, {InitThread[b[2]]}, <<"CreateTableReply", t>>)
      /\ tables' = [tables EXCEPT ![b[2]] = @ \cup {t}]
      /\ UNCHANGED <<server, name>>
  BY <1>1 DEF BgTableCreated
<1>6. Fewer(net', net)
  <2>1. <<"CreateTableReply", t>> \in Msgs
    BY TableMessages
  <2>. QED
    BY <1>3, <1>5, <2>1, FewerBgStep
(* The reply that was taken says that every server has the table.          *)
<1>7. \A s \in Servers : t \in server[s].tables
  <2>1. net[NameNode][b] \in Seq(Msgs) /\ net[NameNode][b] # << >>
    BY <1>3 DEF NetOK, Looked
  <2>2. Tail(net[NameNode][b]) \in Seq(Msgs)
    BY <2>1, HeadTailProperties
  <2>3. Count(Tail(net[NameNode][b]), Replies(t)) \in Nat
    BY <2>2, CountType
  <2>4. Count(net[NameNode][b], Replies(t)) = Count(Tail(net[NameNode][b]), Replies(t)) + 1
    <3>1. <<"CreateTableReply", t>> \in Replies(t)
      BY DEF Replies
    <3>. QED
      BY <1>4, <2>1, <3>1, CountTail
  <2>. QED
    BY <2>3, <2>4 DEF TablesInv, AnsweredWhenThere
<1>8. TablesBeforeUse'
  BY <1>5, <1>7 DEF TypeOK, TablesInv, TablesBeforeUse
<1>9. AskedOnce' /\ RepliesCounted' /\ AnsweredWhenThere'
  BY <1>2, <1>5, <1>6, FewerKeeps
<1>. QED
  BY <1>8, <1>9 DEF TablesInv

LEMMA AnswerMsgsCount ==
  ASSUME NEW m, NetOK(m), NEW n, NEW t \in Tables, NEW workers,
         NEW x \in Nodes, NEW y \in Peers(x), NEW u \in Tables
  PROVE  /\ Count(AnswerMsgs(m, n, t, workers)[x][y], Requests(u)) = Count(m[x][y], Requests(u))
         /\ x # NameNode \/ u # t =>
              Count(AnswerMsgs(m, n, t, workers)[x][y], Replies(u)) = Count(m[x][y], Replies(u))
<1> DEFINE p == Send(m, NameNode, workers, <<"CreateTableReply", t>>)
           q == Send(p, NameNode, {HeadBg(c) : c \in Clients}, <<"CreatedAllTables", 0>>)
<1>1. /\ <<"CreateTableReply", t>> \in Msgs /\ <<"CreatedAllTables", 0>> \in Msgs
      /\ NameNode \in Nodes
  BY MsgTypes, Kinds DEF TableTypes, PlainTypes
<1>2. /\ <<"CreateTableReply", t>> \notin Requests(u) /\ <<"CreatedAllTables", 0>> \notin Requests(u)
      /\ <<"CreatedAllTables", 0>> \notin Replies(u)
      /\ u # t => <<"CreateTableReply", t>> \notin Replies(u)
  BY DEF Requests, Replies
<1>3. NetOK(p)
  BY <1>1, SendAt
<1>4. /\ Count(p[x][y], Requests(u)) = Count(m[x][y], Requests(u))
      /\ x # NameNode \/ u # t => Count(p[x][y], Replies(u)) = Count(m[x][y], Replies(u))
  BY <1>1, <1>2, CountSend
<1>5. AnswerMsgs(m, n, t, workers) = p \/ AnswerMsgs(m, n, t, workers) = q
  BY AnswerMsgsAt
<1> HIDE DEF p
<1>6. /\ Count(q[x][y], Requests(u)) = Count(p[x][y], Requests(u))
      /\ Count(q[x][y], Replies(u)) = Count(p[x][y], Replies(u))
  BY <1>1, <1>2, <1>3, CountSend
<1>. QED
  BY <1>4, <1>5, <1>6

(* The name node has counted an answer of every server.                    *)
LEMMA AllAnswered ==
  ASSUME TypeOK, NEW t \in Tables, NEW k \in Nat,
         k <= Cardinality(HasAnswered(t)), k = Cardinality(Servers)
  PROVE  \A s \in Servers : t \in server[s].tables
<1>1. HasAnswered(t) \in SUBSET Servers
  BY DEF HasAnswered
<1>2. /\ Cardinality(HasAnswered(t)) <= Cardinality(Servers)
      /\ Cardinality(HasAnswered(t)) = Cardinality(Servers) => HasAnswered(t) = Servers
  BY <1>1, FiniteKinds, FS_Subset
<1>3. HasAnswered(t) = Servers
  BY <1>2, CountsInNat
<1>. QED
  BY <1>3 DEF HasAnswered

LEMMA NameNodeCreateTableTables ==
  ASSUME TypeOK, TablesInv, NEW b \in Bgs, NameNodeCreateTable(b)
  PROVE  TablesInv'
<1>1. PICK t \in Tables : t = Content(b, NameNode)
  BY NameNodeCreateTableType
<1>2. TypeOK'
  BY NameNodeCreateTableType
<1> DEFINE known == [name EXCEPT !.known = @ \cup {t}]
           new   == t \notin name.known
           sent  == Send(Rest(b, NameNode), NameNode, Servers, <<"CreateTable", t>>)
           asked == IF new THEN sent ELSE Rest(b, NameNode)
<1>3. /\ NetOK(net) /\ Looked(b, NameNode) /\ NameNode \in Nodes /\ b \in Nodes
      /\ NameNode \in Peers(b) /\ b # NameNode
  BY Kinds, Links DEF NameNodeCreateTable, TypeOK, Gets
<1>4. \/ /\ ReceivedFromAllServers(t, name)
         /\ name' = Answered(known, t, {b}) /\ net' = AnswerMsgs(asked, known, t, {b})
      \/ name' = [known EXCEPT !.waiting[t] = @ \cup {b}] /\ net' = asked
  BY <1>1 DEF NameNodeCreateTable
<1>5. UNCHANGED <<tables, server>>
  BY DEF NameNodeCreateTable
<1>6. NameOK(name) /\ NameOK(known) /\ known.known = name.known \cup {t} /\ known.replies = name.replies
  BY DEF TypeOK, NameOK
<1>7. <<"CreateTable", t>> \in Msgs
  BY MsgTypes DEF TableTypes
<1>8. NetOK(Rest(b, NameNode)) /\ NetOK(sent) /\ NetOK(asked)
  BY <1>3, <1>7, NetStep, Zenon
<1>9. /\ name'.known = name.known \cup {t}
      /\ name'.replies = name.replies
  <2> HIDE DEF known, asked
  <2>1. /\ Answered(known, t, {b}).known = known.known
        /\ Answered(known, t, {b}).replies = known.replies
    BY <1>6, AnsweredType
  <2>2. /\ [known EXCEPT !.waiting[t] = @ \cup {b}].known = known.known
        /\ [known EXCEPT !.waiting[t] = @ \cup {b}].replies = known.replies
    BY <1>6 DEF NameOK
  <2>. QED
    BY <1>4, <1>6, <2>1, <2>2
(* What the links carry in addition: requests for a new table.             *)
<1>10. ASSUME NEW x \in Servers \cup {NameNode}, NEW y \in Peers(x), NEW u \in Tables
       PROVE  /\ Count(asked[x][y], Requests(u)) =
                   IF new /\ x = NameNode /\ y \in Servers /\ u = t
                   THEN Count(net[x][y], Requests(u)) + 1 ELSE Count(net[x][y], Requests(u))
              /\ Count(asked[x][y], Replies(u)) = Count(net[x][y], Replies(u))
  <2>1. x \in Nodes /\ x # b
    BY Kinds
  <2>2. /\ Count(Rest(b, NameNode)[x][y], Requests(u)) = Count(net[x][y], Requests(u))
        /\ Count(Rest(b, NameNode)[x][y], Replies(u)) = Count(net[x][y], Replies(u))
    BY <1>3, <2>1, CountRest
  <2>3. /\ <<"CreateTable", t>> \in Requests(u) <=> u = t
        /\ <<"CreateTable", t>> \notin Replies(u)
    BY DEF Requests, Replies
  <2>4. /\ Count(sent[x][y], Requests(u)) =
             IF x = NameNode /\ y \in Servers /\ u = t
             THEN Count(net[x][y], Requests(u)) + 1 ELSE Count(net[x][y], Requests(u))
        /\ Count(sent[x][y], Replies(u)) = Count(net[x][y], Replies(u))
    BY <1>3, <1>7, <1>8, <2>1, <2>2, <2>3, CountSend
  <2>. QED
    BY <2>2, <2>4
<1> HIDE DEF known, asked
<1>11. ASSUME NEW x \in Servers \cup {NameNode}, NEW y \in Peers(x), NEW u \in Tables
       PROVE  /\ Count(net'[x][y], Requests(u)) = Count(asked[x][y], Requests(u))
              /\ x # NameNode \/ u # t =>
                   Count(net'[x][y], Replies(u)) = Count(asked[x][y], Replies(u))
              /\ ~ReceivedFromAllServers(t, name) =>
                   Count(net'[x][y], Replies(u)) = Count(asked[x][y], Replies(u))
  <2>1. x \in Nodes
    BY Kinds
  <2>. QED
    BY <1>4, <1>8, <2>1, AnswerMsgsCount
<1>12. ASSUME NEW s \in Servers, NEW u \in Tables
       PROVE  /\ Asked(s, u)' = IF new /\ u = t THEN Asked(s, u) + 1 ELSE Asked(s, u)
              /\ Replied(s, u)' = Replied(s, u)
  <2>1. s # NameNode /\ s \in Peers(NameNode) /\ NameNode \in Peers(s)
    BY Kinds, Links
  <2>. QED
    BY <1>10, <1>11, <2>1 DEF Asked, Replied
<1>13. AskedOnce'
  <2>1. SUFFICES ASSUME NEW s \in Servers, NEW u \in Tables
                 PROVE  /\ Asked(s, u)' <= 1 /\ Replied(s, u)' <= 1
                        /\ Asked(s, u)' = 1 => u \in name'.known /\ u \notin server[s].tables
                        /\ Replied(s, u)' = 1 => u \in server[s].tables
                        /\ u \in server[s].tables => u \in name'.known
    BY <1>5 DEF AskedOnce
  <2>2. /\ Asked(s, u) <= 1 /\ Replied(s, u) <= 1
        /\ Asked(s, u) = 1 => u \in name.known /\ u \notin server[s].tables
        /\ Replied(s, u) = 1 => u \in server[s].tables
        /\ u \in server[s].tables => u \in name.known
    BY DEF TablesInv, AskedOnce
  <2>3. Asked(s, u) \in Nat
    BY CountsInNat
  <2>. QED
    BY <1>9, <1>12, <2>2, <2>3
<1>14. RepliesCounted'
  <2>1. \A u \in Tables : HasAnswered(u)' = HasAnswered(u)
    BY <1>5, <1>12 DEF HasAnswered
  <2>. QED
    BY <1>9, <2>1 DEF TablesInv, RepliesCounted
<1>15. AnsweredWhenThere'
  <2>1. SUFFICES ASSUME NEW x \in Bgs, NEW u \in Tables,
                        Count(net'[NameNode][x], Replies(u)) > 0
                 PROVE  \A s \in Servers : u \in server[s].tables
    BY <1>5 DEF AnsweredWhenThere
  <2>2. x \in Peers(NameNode)
    BY Links
  <2>3. CASE u = t /\ ReceivedFromAllServers(t, name)
    <3>1. name.replies[t] <= Cardinality(HasAnswered(t)) /\ name.replies[t] \in Nat
      BY CountsInNat DEF TablesInv, RepliesCounted
    <3>. QED
      BY <2>3, <3>1, AllAnswered DEF ReceivedFromAllServers
  <2>4. CASE u # t \/ ~ReceivedFromAllServers(t, name)
    <3>1. Count(net[NameNode][x], Replies(u)) > 0
      BY <1>10, <1>11, <2>1, <2>2, <2>4
    <3>. QED
      BY <3>1 DEF TablesInv, AnsweredWhenThere
  <2>. QED
    BY <2>3, <2>4
<1>16. TablesBeforeUse'
  BY <1>5 DEF TablesInv, TablesBeforeUse
<1>. QED
  BY <1>13, <1>14, <1>15, <1>16 DEF TablesInv

LEMMA NameNodeCreateTableReplyTables ==
  ASSUME TypeOK, TablesInv, NEW r \in Servers, NameNodeCreateTableReply(r)
  PROVE  TablesInv'
<1>1. PICK t \in Tables : t = Content(r, NameNode)
  BY NameNodeCreateTableReplyType
<1>2. TypeOK'
  BY NameNodeCreateTableReplyType
<1> DEFINE replied == [name EXCEPT !.replies[t] = @ + 1]
           taken   == Rest(r, NameNode)
           workers == name.waiting[t]
<1>3. /\ NetOK(net) /\ Looked(r, NameNode) /\ NameNode \in Nodes /\ r \in Nodes
      /\ NameNode \in Peers(r) /\ r # NameNode
      /\ Head(net[r][NameNode])[1] = "CreateTableReply"
  BY Kinds, Links DEF NameNodeCreateTableReply, TypeOK, Gets
<1>4. Head(net[r][NameNode]) = <<"CreateTableReply", t>>
  BY <1>1, <1>3, HeadIs
<1>5. \/ /\ ReceivedFromAllServers(t, replied)
         /\ name' = Answered(replied, t, workers) /\ net' = AnswerMsgs(taken, replied, t, workers)
      \/ ~ReceivedFromAllServers(t, replied) /\ name' = replied /\ net' = taken
  BY <1>1 DEF NameNodeCreateTableReply
<1>6. UNCHANGED <<tables, server>>
  BY DEF NameNodeCreateTableReply
<1>7. /\ NameOK(replied) /\ replied.known = name.known /\ workers \in SUBSET Bgs
      /\ \A u \in Tables : replied.replies[u] = IF u = t THEN name.replies[u] + 1
                                                         ELSE name.replies[u]
  BY DEF TypeOK, NameOK
<1>8. NetOK(taken)
  BY <1>3, RestAt
<1>9. ASSUME NEW x \in Servers \cup {NameNode}, NEW y \in Peers(x), NEW u \in Tables
      PROVE  /\ Count(taken[x][y], Requests(u)) = Count(net[x][y], Requests(u))
             /\ Count(taken[x][y], Replies(u)) =
                  IF x = r /\ y = NameNode /\ u = t THEN Count(net[x][y], Replies(u)) - 1
                                                    ELSE Count(net[x][y], Replies(u))
  <2>1. x \in Nodes
    BY Kinds
  <2>2. /\ Head(net[r][NameNode]) \in Replies(u) <=> u = t
        /\ Head(net[r][NameNode]) \notin Requests(u)
    BY <1>4 DEF Requests, Replies
  <2>. QED
    BY <1>3, <2>1, <2>2, CountRest
<1> HIDE DEF replied, taken, workers
<1>10. name'.known = name.known /\ name'.replies = replied.replies
  <2>1. /\ Answered(replied, t, workers).known = replied.known
        /\ Answered(replied, t, workers).replies = replied.replies
    BY <1>7, AnsweredType
  <2>. QED
    BY <1>5, <1>7, <2>1
<1>11. ASSUME NEW x \in Servers \cup {NameNode}, NEW y \in Peers(x), NEW u \in Tables
       PROVE  /\ Count(net'[x][y], Requests(u)) = Count(taken[x][y], Requests(u))
              /\ x # NameNode \/ u # t =>
                   Count(net'[x][y], Replies(u)) = Count(taken[x][y], Replies(u))
              /\ ~ReceivedFromAllServers(t, replied) =>
                   Count(net'[x][y], Replies(u)) = Count(taken[x][y], Replies(u))
  <2>1. x \in Nodes
    BY Kinds
  <2>. QED
    BY <1>5, <1>8, <2>1, AnswerMsgsCount
<1>12. ASSUME NEW s \in Servers, NEW u \in Tables
       PROVE  /\ Asked(s, u)' = Asked(s, u)
              /\ Replied(s, u)' = IF s = r /\ u = t THEN Replied(s, u) - 1 ELSE Replied(s, u)
  <2>1. s # NameNode /\ s \in Peers(NameNode) /\ NameNode \in Peers(s)
    BY Kinds, Links
  <2>. QED
    BY <1>9, <1>11, <2>1 DEF Asked, Replied
<1>13. Replied(r, t) = 1 /\ Replied(r, t)' = 0 /\ t \in server[r].tables
  <2>1. Replied(r, t)' \in Nat
    <3>1. NetOK(net')
      BY <1>2 DEF TypeOK
    <3>. QED
      BY <1>3, <3>1, CountInNet DEF Replied
  <2>2. Replied(r, t) <= 1 /\ Replied(r, t) \in Nat /\ Replied(r, t)' = Replied(r, t) - 1
    BY <1>12, CountsInNat DEF TablesInv, AskedOnce
  <2>3. Replied(r, t) = 1
    BY <2>1, <2>2
  <2>. QED
    BY <2>2, <2>3 DEF TablesInv, AskedOnce
<1>14. AskedOnce'
  <2>1. SUFFICES ASSUME NEW s \in Servers, NEW u \in Tables
                 PROVE  /\ Asked(s, u)' <= 1 /\ Replied(s, u)' <= 1
                        /\ Asked(s, u)' = 1 => u \in name.known /\ u \notin server[s].tables
                        /\ Replied(s, u)' = 1 => u \in server[s].tables
                        /\ u \in server[s].tables => u \in name.known
    BY <1>6, <1>10 DEF AskedOnce
  <2>2. /\ Asked(s, u) <= 1 /\ Replied(s, u) <= 1
        /\ Asked(s, u) = 1 => u \in name.known /\ u \notin server[s].tables
        /\ Replied(s, u) = 1 => u \in server[s].tables
        /\ u \in server[s].tables => u \in name.known
    BY DEF TablesInv, AskedOnce
  <2>. QED
    BY <1>12, <1>13, <2>2
<1>15. ASSUME NEW u \in Tables
       PROVE  name'.replies[u] <= Cardinality(HasAnswered(u)')
  <2>1. name.replies[u] <= Cardinality(HasAnswered(u)) /\ name.replies[u] \in Nat
    BY CountsInNat DEF TablesInv, RepliesCounted
  <2>2. CASE u = t
    <3>1. r \notin HasAnswered(t)
      BY <1>13 DEF HasAnswered
    <3>2. HasAnswered(t)' = HasAnswered(t) \cup {r}
      BY <1>6, <1>12, <1>13 DEF HasAnswered
    <3>3. Cardinality(HasAnswered(t)') = Cardinality(HasAnswered(t)) + 1
      BY <3>1, <3>2, CountsInNat, FS_AddElement
    <3>. QED
      BY <1>7, <1>10, <2>1, <2>2, <3>3, CountsInNat
  <2>3. CASE u # t
    <3>1. HasAnswered(u)' = HasAnswered(u)
      BY <1>6, <1>12, <2>3 DEF HasAnswered
    <3>. QED
      BY <1>7, <1>10, <2>1, <2>3, <3>1
  <2>. QED
    BY <2>2, <2>3
<1>16. AnsweredWhenThere'
  <2>1. SUFFICES ASSUME NEW x \in Bgs, NEW u \in Tables,
                        Count(net'[NameNode][x], Replies(u)) > 0
                 PROVE  \A s \in Servers : u \in server[s].tables
    BY <1>6 DEF AnsweredWhenThere
  <2>2. x \in Peers(NameNode)
    BY Links
  <2>3. CASE u = t /\ ReceivedFromAllServers(t, replied)
    <3>1. Cardinality(HasAnswered(t)') <= Cardinality(Servers)
      <4>1. HasAnswered(t)' \in SUBSET Servers
        BY DEF HasAnswered
      <4>. QED
        BY <4>1, FiniteKinds, FS_Subset
    <3>2. HasAnswered(t)' \in SUBSET Servers /\ HasAnswered(t)' = Servers
      <4>1. HasAnswered(t)' \in SUBSET Servers
        BY DEF HasAnswered
      <4>2. Cardinality(HasAnswered(t)') \in Nat
        BY <4>1, FiniteKinds, FS_Subset, FS_CardinalityType
      <4>3. Cardinality(HasAnswered(t)') = Cardinality(Servers)
        BY <1>10, <1>15, <2>3, <3>1, <4>2, FiniteKinds DEF ReceivedFromAllServers
      <4>. QED
        BY <4>1, <4>3, FiniteKinds, FS_Subset
    <3>. QED
      BY <1>6, <2>3, <3>2 DEF HasAnswered
  <2>4. CASE u # t \/ ~ReceivedFromAllServers(t, replied)
    <3>1. Count(net[NameNode][x], Replies(u)) > 0
      BY <1>3, <1>9, <1>11, <2>1, <2>2, <2>4
    <3>. QED
      BY <3>1 DEF TablesInv, AnsweredWhenThere
  <2>. QED
    BY <2>3, <2>4
<1>17. TablesBeforeUse'
  BY <1>6 DEF TablesInv, TablesBeforeUse
<1>. QED
  BY <1>14, <1>15, <1>16, <1>17 DEF TablesInv, RepliesCounted

LEMMA InitTables == Init => TablesInv
<1> SUFFICES ASSUME Init PROVE TablesInv
  OBVIOUS
<1>1. ASSUME NEW x \in Servers \cup Bgs, NEW S PROVE Count(net[NameNode][x], S) = 0
  <2>1. x \in Peers(NameNode) /\ x # NameNode /\ NameNode \in Nodes
    BY Kinds, Links
  <2>2. net[NameNode][x] = << >>
    BY <2>1 DEF Init
  <2>. QED
    BY <2>2, CountEmpty
<1>2. ASSUME NEW s \in Servers, NEW t \in Tables PROVE Replied(s, t) = 0
  <2>1. NameNode \in Peers(s) /\ s \in Nodes /\ s \notin Bgs
    BY Kinds, Links
  <2>2. net[s][NameNode] = <<<<"ServerConnect", 0>>>>
    BY <2>1 DEF Init
  <2>3. net[s][NameNode] \in Seq(Msgs)
    BY <2>1, InitType DEF TypeOK, NetOK
  <2>4. \A i \in 1 .. Len(net[s][NameNode]) : net[s][NameNode][i] \notin Replies(t)
    BY <2>2 DEF Replies
  <2>. QED
    BY <2>3, <2>4, CountZero DEF Replied
<1>3. \A s \in Servers : server[s].tables = {}
  BY DEF Init
<1>4. AskedOnce
  BY <1>1, <1>2, <1>3 DEF AskedOnce, Asked
<1>5. RepliesCounted
  <2>1. SUFFICES ASSUME NEW t \in Tables PROVE name.replies[t] <= Cardinality(HasAnswered(t))
    BY DEF RepliesCounted
  <2>2. name.replies[t] = 0
    BY DEF Init
  <2>3. Cardinality(HasAnswered(t)) \in Nat
    BY InitType, CountsInNat
  <2>. QED
    BY <2>2, <2>3
<1>6. AnsweredWhenThere
  BY <1>1 DEF AnsweredWhenThere
<1>7. TablesBeforeUse
  BY DEF Init, TablesBeforeUse
<1>. QED
  BY <1>4, <1>5, <1>6, <1>7 DEF TablesInv

LEMMA TablesStep == TypeOK /\ TypeOK' /\ TablesInv /\ [Next]_lvars => TablesInv'
<1> SUFFICES ASSUME TypeOK, TypeOK', TablesInv, [Next]_lvars PROVE TablesInv'
  OBVIOUS
<1>1. CASE NameNodeStep
  BY <1>1, QuietNameNode, QuietKeeps, NameNodeCreateTableTables,
     NameNodeCreateTableReplyTables DEF NameNodeStep
<1>2. ASSUME NEW s \in Servers, ServerStep(s) PROVE TablesInv'
  BY <1>2, QuietServer, QuietKeeps, ServerCreateTableTables DEF ServerStep
<1>3. ASSUME NEW b \in Bgs, BgStep(b) PROVE TablesInv'
  BY <1>3, QuietBg, QuietBgThread, QuietKeeps, BgTableCreatedTables DEF BgStep
<1>4. ASSUME NEW c \in Clients, InitThreadStep(c) PROVE TablesInv'
  BY <1>4, QuietClient, QuietKeeps
<1>5. ASSUME NEW t \in Threads, ThreadStep(t) \/ Clock(t) PROVE TablesInv'
  BY <1>5, QuietThread, QuietKeeps
<1>6. CASE UNCHANGED lvars
  BY <1>6 DEF lvars, TablesInv, AskedOnce, RepliesCounted, AnsweredWhenThere,
     TablesBeforeUse, Asked, Replied, HasAnswered
<1>. QED
  BY <1>1, <1>2, <1>3, <1>4, <1>5, <1>6 DEF Next, Progress

(* A table that the threads of a client may use exists at every server:    *)
(* CreateTableReply reaches a worker after the name node has counted an    *)
(* answer of every server, and it never counts one twice.                  *)
THEOREM TablesAlwaysThere == Spec => []TablesBeforeUse
<1>1. TablesInv => TablesBeforeUse
  BY DEF TablesInv
<1>. QED
  BY <1>1, InitType, TypeStep, InitTables, TablesStep, PTL DEF Spec
-----------------------------------------------------------------------------
(* The messages of a worker or a server that wait for an acknowledgement.  *)
OfType(w) == {m \in Msgs : m[1] = w}
TrackedTypes == {"ClientSendOpLog", "ServerOpLogAck", "ServerPushRow", "BgServerPushRowAck"}

Batches(n, b, s) == Count(n[b][s], OfType("ClientSendOpLog"))
                      + Count(n[s][b], OfType("ServerOpLogAck"))
Pushes(n, s, b)  == Count(n[s][b], OfType("ServerPushRow"))
                      + Count(n[b][s], OfType("BgServerPushRowAck"))

(* What a worker or a server whose state is x holds back waits for one.    *)
BgAcks(n, b, x) ==
  /\ x.held \/ x.ending => PendingAcks(x)
  /\ \A s \in ServersFor(b) : x.pending[s] = Batches(n, b, s)

ServerAcks(n, s, x) ==
  /\ x.held \/ x.ending => PendingAcks(x)
  /\ \A b \in BgsFor(s) : x.pending[b] = Pushes(n, s, b)

AcksInv ==
  /\ \A b \in Bgs : BgAcks(net, b, bg[b])
  /\ \A s \in Servers : ServerAcks(net, s, server[s])

LEMMA NumberIsCount ==
  ASSUME NEW q \in Seq(Msgs), NEW w
  PROVE  NumberOf(q, w) = Count(q, OfType(w))
<1>1. DOMAIN q = 1 .. Len(q) /\ \A i \in 1 .. Len(q) : q[i] \in Msgs
  BY ElementOfSeq, LenProperties
<1>2. {i \in DOMAIN q : q[i][1] = w} = Places(q, OfType(w))
  BY <1>1 DEF Places, OfType
<1>. QED
  BY <1>2 DEF NumberOf, Count

(* The two ends of a link between a worker and a server.                   *)
LEMMA Ends ==
  ASSUME NEW b \in Bgs, NEW s \in ServersFor(b)
  PROVE  /\ b \in Nodes /\ s \in Nodes /\ s \in Servers /\ b # s
         /\ s \in Peers(b) /\ b \in Peers(s) /\ b \in BgsFor(s)
BY Kinds, Links

LEMMA AcksCounted ==
  ASSUME TypeOK
  PROVE  AcksInv => HeldShutDownAwaitsAck
<1>1. ASSUME NEW b \in Bgs, NEW s \in ServersFor(b)
      PROVE  /\ Unanswered(b, s, "ClientSendOpLog", "ServerOpLogAck") = Batches(net, b, s)
             /\ Unanswered(s, b, "ServerPushRow", "BgServerPushRowAck") = Pushes(net, s, b)
  <2>1. net[b][s] \in Seq(Msgs) /\ net[s][b] \in Seq(Msgs)
    BY Ends DEF TypeOK, NetOK
  <2>. QED
    BY <2>1, NumberIsCount DEF Unanswered, Batches, Pushes
<1>2. \A s \in Servers : \A b \in BgsFor(s) : b \in Bgs /\ s \in ServersFor(b)
  BY Links
<1>. QED
  BY <1>1, <1>2 DEF AcksInv, BgAcks, ServerAcks, HeldShutDownAwaitsAck

LEMMA WaitsInNat ==
  ASSUME NEW n, NetOK(n), NEW b \in Bgs, NEW s \in ServersFor(b)
  PROVE  Batches(n, b, s) \in Nat /\ Pushes(n, s, b) \in Nat
<1>1. \A S : Count(n[b][s], S) \in Nat /\ Count(n[s][b], S) \in Nat
  BY Ends, CountInNet
<1>. QED
  BY <1>1 DEF Batches, Pushes

(* What a receipt                                                          *)
LEMMA WaitsRest ==
  ASSUME NetOK(net), NEW from \in Nodes, NEW to, Looked(from, to),
         NEW w, w = Head(net[from][to])[1], NEW b \in Bgs, NEW s \in ServersFor(b)
  PROVE  /\ Batches(Rest(from, to), b, s) = Batches(net, b, s) -
              (IF \/ w = "ClientSendOpLog" /\ from = b /\ to = s
                  \/ w = "ServerOpLogAck" /\ from = s /\ to = b THEN 1 ELSE 0)
         /\ Pushes(Rest(from, to), s, b) = Pushes(net, s, b) -
              (IF \/ w = "ServerPushRow" /\ from = s /\ to = b
                  \/ w = "BgServerPushRowAck" /\ from = b /\ to = s THEN 1 ELSE 0)
<1>1. \A v : Head(net[from][to]) \in OfType(v) <=> w = v
  BY RestAt DEF OfType
<1>2. \A v : Count(Rest(from, to)[b][s], OfType(v)) =
               IF b = from /\ s = to /\ w = v THEN Count(net[b][s], OfType(v)) - 1
                                              ELSE Count(net[b][s], OfType(v))
  BY <1>1, Ends, CountRest
<1>3. \A v : Count(Rest(from, to)[s][b], OfType(v)) =
               IF s = from /\ b = to /\ w = v THEN Count(net[s][b], OfType(v)) - 1
                                              ELSE Count(net[s][b], OfType(v))
  BY <1>1, Ends, CountRest
<1>4. \A S : Count(net[b][s], S) \in Nat /\ Count(net[s][b], S) \in Nat
  BY Ends, CountInNet
<1>5. b # s
  BY Ends
<1> DEFINE r == Rest(from, to)
<1>6. \A v : Count(r[b][s], OfType(v)) =
               IF b = from /\ s = to /\ w = v THEN Count(net[b][s], OfType(v)) - 1
                                              ELSE Count(net[b][s], OfType(v))
  BY <1>2
<1>7. \A v : Count(r[s][b], OfType(v)) =
               IF s = from /\ b = to /\ w = v THEN Count(net[s][b], OfType(v)) - 1
                                              ELSE Count(net[s][b], OfType(v))
  BY <1>3
<1> HIDE DEF r
<1>8. Batches(r, b, s) = Batches(net, b, s) -
        (IF \/ w = "ClientSendOpLog" /\ from = b /\ to = s
            \/ w = "ServerOpLogAck" /\ from = s /\ to = b THEN 1 ELSE 0)
  BY <1>4, <1>5, <1>6, <1>7 DEF Batches
<1>9. Pushes(r, s, b) = Pushes(net, s, b) -
        (IF \/ w = "ServerPushRow" /\ from = s /\ to = b
            \/ w = "BgServerPushRowAck" /\ from = b /\ to = s THEN 1 ELSE 0)
  BY <1>4, <1>5, <1>6, <1>7 DEF Pushes
<1>. QED
  BY <1>8, <1>9 DEF r

(* and a message do to them.                                               *)
LEMMA WaitsSend ==
  ASSUME NEW n, NetOK(n), NEW from \in Nodes, NEW dests, NEW m \in Msgs,
         NEW b \in Bgs, NEW s \in ServersFor(b)
  PROVE  /\ Batches(Send(n, from, dests, m), b, s) = Batches(n, b, s) +
              (IF \/ m[1] = "ClientSendOpLog" /\ from = b /\ s \in dests
                  \/ m[1] = "ServerOpLogAck" /\ from = s /\ b \in dests THEN 1 ELSE 0)
         /\ Pushes(Send(n, from, dests, m), s, b) = Pushes(n, s, b) +
              (IF \/ m[1] = "ServerPushRow" /\ from = s /\ b \in dests
                  \/ m[1] = "BgServerPushRowAck" /\ from = b /\ s \in dests THEN 1 ELSE 0)
<1> DEFINE r == Send(n, from, dests, m)
<1>1. \A v : m \in OfType(v) <=> m[1] = v
  BY DEF OfType
<1>2. \A v : Count(r[b][s], OfType(v)) =
               IF b = from /\ s \in dests /\ m[1] = v THEN Count(n[b][s], OfType(v)) + 1
                                                      ELSE Count(n[b][s], OfType(v))
  BY <1>1, Ends, CountSend
<1>3. \A v : Count(r[s][b], OfType(v)) =
               IF s = from /\ b \in dests /\ m[1] = v THEN Count(n[s][b], OfType(v)) + 1
                                                      ELSE Count(n[s][b], OfType(v))
  BY <1>1, Ends, CountSend
<1>4. \A S : Count(n[b][s], S) \in Nat /\ Count(n[s][b], S) \in Nat
  BY Ends, CountInNet
<1>5. b # s
  BY Ends
<1> HIDE DEF r
<1>6. Batches(r, b, s) = Batches(n, b, s) +
        (IF \/ m[1] = "ClientSendOpLog" /\ from = b /\ s \in dests
            \/ m[1] = "ServerOpLogAck" /\ from = s /\ b \in dests THEN 1 ELSE 0)
  BY <1>2, <1>3, <1>4, <1>5 DEF Batches
<1>7. Pushes(r, s, b) = Pushes(n, s, b) +
        (IF \/ m[1] = "ServerPushRow" /\ from = s /\ b \in dests
            \/ m[1] = "BgServerPushRowAck" /\ from = b /\ s \in dests THEN 1 ELSE 0)
  BY <1>2, <1>3, <1>4, <1>5 DEF Pushes
<1>. QED
  BY <1>6, <1>7 DEF r

(* Nothing that is waited for is sent or received.                         *)
SameWaits(p, n) ==
  \A b \in Bgs : \A s \in ServersFor(b) :
    Batches(p, b, s) = Batches(n, b, s) /\ Pushes(p, s, b) = Pushes(n, s, b)

LEMMA SameTrans ==
  ASSUME NEW p, NEW q, NEW r, SameWaits(p, q), SameWaits(q, r)
  PROVE  SameWaits(p, r)
BY DEF SameWaits

LEMMA SameRest ==
  ASSUME NetOK(net), NEW from \in Nodes, NEW to, Looked(from, to),
         Head(net[from][to])[1] \notin TrackedTypes
  PROVE  SameWaits(Rest(from, to), net)
<1>1. SUFFICES ASSUME NEW b \in Bgs, NEW s \in ServersFor(b)
               PROVE  /\ Batches(Rest(from, to), b, s) = Batches(net, b, s)
                      /\ Pushes(Rest(from, to), s, b) = Pushes(net, s, b)
  BY DEF SameWaits
<1>2. /\ Batches(Rest(from, to), b, s) = Batches(net, b, s) - 0
      /\ Pushes(Rest(from, to), s, b) = Pushes(net, s, b) - 0
  BY WaitsRest DEF TrackedTypes
<1>. QED
  BY <1>2, WaitsInNat

LEMMA SameSend ==
  ASSUME NEW n, NetOK(n), NEW from \in Nodes, NEW dests, NEW m \in Msgs,
         m[1] \notin TrackedTypes
  PROVE  SameWaits(Send(n, from, dests, m), n)
<1>1. SUFFICES ASSUME NEW b \in Bgs, NEW s \in ServersFor(b)
               PROVE  /\ Batches(Send(n, from, dests, m), b, s) = Batches(n, b, s)
                      /\ Pushes(Send(n, from, dests, m), s, b) = Pushes(n, s, b)
  BY DEF SameWaits
<1>2. /\ Batches(Send(n, from, dests, m), b, s) = Batches(n, b, s) + 0
      /\ Pushes(Send(n, from, dests, m), s, b) = Pushes(n, s, b) + 0
  BY WaitsSend DEF TrackedTypes
<1>. QED
  BY <1>2, WaitsInNat

LEMMA SameStep ==
  ASSUME NetOK(net), NEW from \in Nodes, NEW to, Looked(from, to),
         Head(net[from][to])[1] \notin TrackedTypes,
         NEW x \in Nodes, NEW dests, NEW m \in Msgs, NEW more, NEW k \in Msgs,
         m[1] \notin TrackedTypes, k[1] \notin TrackedTypes
  PROVE  /\ SameWaits(Rest(from, to), net)
         /\ SameWaits(Send(Rest(from, to), x, dests, m), net)
         /\ SameWaits(Send(Send(Rest(from, to), x, dests, m), x, more, k), net)
<1> DEFINE r == Rest(from, to)
           p == Send(r, x, dests, m)
           q == Send(p, x, more, k)
<1>1. NetOK(r) /\ NetOK(p) /\ NetOK(q)
  BY NetStep
<1>2. SameWaits(r, net)
  BY SameRest
<1> HIDE DEF r
<1>3. SameWaits(p, r)
  BY <1>1, SameSend
<1>4. SameWaits(p, net)
  BY <1>2, <1>3, SameTrans
<1> HIDE DEF p
<1>5. SameWaits(q, p)
  BY <1>1, SameSend
<1>6. SameWaits(q, net)
  BY <1>4, <1>5, SameTrans
<1>. QED
  BY <1>2, <1>4, <1>6 DEF r, p, q

(* A step that adds nothing to what waits keeps the invariant: at most a   *)
(* shutdown comes to wait for an acknowledgement that is due already.      *)
Waits(x) == x.held \/ x.ending

Calm ==
  /\ SameWaits(net', net)
  /\ \A b \in Bgs : /\ bg'[b].pending = bg[b].pending
                    /\ Waits(bg'[b]) => Waits(bg[b]) \/ PendingAcks(bg[b])
  /\ \A s \in Servers : /\ server'[s].pending = server[s].pending
                        /\ Waits(server'[s]) => Waits(server[s]) \/ PendingAcks(server[s])

LEMMA CalmKeeps ==
  ASSUME AcksInv, Calm
  PROVE  AcksInv'
<1>1. ASSUME NEW b \in Bgs PROVE BgAcks(net', b, bg'[b])
  BY DEF AcksInv, BgAcks, Calm, SameWaits, Waits, PendingAcks
<1>2. ASSUME NEW s \in Servers PROVE ServerAcks(net', s, server'[s])
  <2>1. \A b \in BgsFor(s) : b \in Bgs /\ s \in ServersFor(b)
    BY Links
  <2>. QED
    BY <2>1 DEF AcksInv, ServerAcks, Calm, SameWaits, Waits, PendingAcks
<1>. QED
  BY <1>1, <1>2 DEF AcksInv

(* The workers wait as before, and so do the servers.                      *)
LEMMA CalmBgs ==
  ASSUME TypeOK, bg' = bg
  PROVE  \A b \in Bgs : /\ bg'[b].pending = bg[b].pending
                        /\ Waits(bg'[b]) => Waits(bg[b]) \/ PendingAcks(bg[b])
OBVIOUS

LEMMA CalmServers ==
  ASSUME TypeOK, server' = server
  PROVE  \A s \in Servers : /\ server'[s].pending = server[s].pending
                            /\ Waits(server'[s]) => Waits(server[s]) \/ PendingAcks(server[s])
OBVIOUS

LEMMA CalmNameNode ==
  ASSUME TypeOK
  PROVE  /\ \A x \in Bgs \cup Servers : NameNodeConnection(x) => Calm
         /\ \A b \in Bgs : NameNodeShutDown(b) => Calm
<1>1. ASSUME NEW x \in Bgs \cup Servers, NameNodeConnection(x) PROVE Calm
  <2>1. /\ <<"ConnectServer", 0>> \in Msgs /\ <<"ClientStart", 0>> \in Msgs
        /\ "ConnectServer" \notin TrackedTypes /\ "ClientStart" \notin TrackedTypes
    BY MsgTypes DEF PlainTypes, TrackedTypes
  <2>2. /\ NetOK(net) /\ Looked(x, NameNode) /\ x \in Nodes /\ NameNode \in Nodes
        /\ Head(net[x][NameNode])[1] \notin TrackedTypes
    BY <1>1, Kinds DEF NameNodeConnection, TypeOK, Gets, TrackedTypes
  <2>3. /\ SameWaits(Rest(x, NameNode), net)
        /\ SameWaits(Send(Send(Rest(x, NameNode), NameNode, Bgs, <<"ConnectServer", 0>>),
                          NameNode, Bgs, <<"ClientStart", 0>>), net)
    BY <2>1, <2>2, SameStep
  <2>. QED
    BY <1>1, <2>3, CalmBgs, CalmServers DEF NameNodeConnection, Calm
<1>2. ASSUME NEW b \in Bgs, NameNodeShutDown(b) PROVE Calm
  <2>1. <<"ServerShutDownAck", 0>> \in Msgs /\ "ServerShutDownAck" \notin TrackedTypes
    BY MsgTypes DEF PlainTypes, TrackedTypes
  <2>2. /\ NetOK(net) /\ Looked(b, NameNode) /\ b \in Nodes /\ NameNode \in Nodes
        /\ Head(net[b][NameNode])[1] \notin TrackedTypes
    BY <1>2, Kinds DEF NameNodeShutDown, TypeOK, Gets, TrackedTypes
  <2>3. /\ SameWaits(Rest(b, NameNode), net)
        /\ SameWaits(Send(Rest(b, NameNode), NameNode, Bgs, <<"ServerShutDownAck", 0>>), net)
    BY <2>1, <2>2, SameStep
  <2>. QED
    BY <1>2, <2>3, CalmBgs, CalmServers DEF NameNodeShutDown, Calm
<1>. QED
  BY <1>1, <1>2

LEMMA SameAnswers ==
  ASSUME NEW m, NetOK(m), NEW n, NEW t \in Tables, NEW workers
  PROVE  SameWaits(AnswerMsgs(m, n, t, workers), m)
<1> DEFINE p == Send(m, NameNode, workers, <<"CreateTableReply", t>>)
           q == Send(p, NameNode, {HeadBg(c) : c \in Clients}, <<"CreatedAllTables", 0>>)
<1>1. /\ <<"CreateTableReply", t>> \in Msgs /\ <<"CreatedAllTables", 0>> \in Msgs
      /\ "CreateTableReply" \notin TrackedTypes /\ "CreatedAllTables" \notin TrackedTypes
      /\ NameNode \in Nodes
  BY MsgTypes, Kinds DEF TableTypes, PlainTypes, TrackedTypes
<1>2. NetOK(p) /\ SameWaits(p, m)
  BY <1>1, SendAt, SameSend
<1>3. AnswerMsgs(m, n, t, workers) = p \/ AnswerMsgs(m, n, t, workers) = q
  BY AnswerMsgsAt
<1> HIDE DEF p
<1>4. SameWaits(q, p)
  BY <1>1, <1>2, SameSend
<1>5. SameWaits(q, m)
  BY <1>2, <1>4, SameTrans
<1>. QED
  BY <1>2, <1>3, <1>5

LEMMA CalmNameNodeTables ==
  ASSUME TypeOK
  PROVE  /\ \A b \in Bgs : NameNodeCreateTable(b) => Calm
         /\ \A s \in Servers : NameNodeCreateTableReply(s) => Calm
<1>1. ASSUME NEW b \in Bgs, NameNodeCreateTable(b) PROVE Calm
  <2>1. PICK t \in Tables : t = Content(b, NameNode)
    BY <1>1, NameNodeCreateTableType
  <2> DEFINE known == [name EXCEPT !.known = @ \cup {t}]
             asked == IF t \notin name.known
                      THEN Send(Rest(b, NameNode), NameNode, Servers, <<"CreateTable", t>>)
                      ELSE Rest(b, NameNode)
  <2>2. /\ NetOK(net) /\ Looked(b, NameNode) /\ b \in Nodes /\ NameNode \in Nodes
        /\ Head(net[b][NameNode])[1] \notin TrackedTypes
    BY <1>1, Kinds DEF NameNodeCreateTable, TypeOK, Gets, TrackedTypes
  <2>3. <<"CreateTable", t>> \in Msgs /\ "CreateTable" \notin TrackedTypes
    BY MsgTypes DEF TableTypes, TrackedTypes
  <2>4. SameWaits(asked, net) /\ NetOK(asked)
    BY <2>2, <2>3, SameStep, NetStep
  <2>5. net' = asked \/ net' = AnswerMsgs(asked, known, t, {b})
    BY <1>1, <2>1 DEF NameNodeCreateTable
  <2> HIDE DEF asked
  <2>6. SameWaits(AnswerMsgs(asked, known, t, {b}), net)
    BY <2>4, SameAnswers, SameTrans
  <2>. QED
    BY <1>1, <2>4, <2>5, <2>6, CalmBgs, CalmServers DEF NameNodeCreateTable, Calm
<1>2. ASSUME NEW s \in Servers, NameNodeCreateTableReply(s) PROVE Calm
  <2>1. PICK t \in Tables : t = Content(s, NameNode)
    BY <1>2, NameNodeCreateTableReplyType
  <2> DEFINE replied == [name EXCEPT !.replies[t] = @ + 1]
             r == Rest(s, NameNode)
  <2>2. /\ NetOK(net) /\ Looked(s, NameNode) /\ s \in Nodes /\ NameNode \in Nodes
        /\ Head(net[s][NameNode])[1] \notin TrackedTypes
    BY <1>2, Kinds DEF NameNodeCreateTableReply, TypeOK, Gets, TrackedTypes
  <2>3. SameWaits(r, net) /\ NetOK(r)
    BY <2>2, SameRest, RestAt
  <2>4. net' = r \/ net' = AnswerMsgs(r, replied, t, name.waiting[t])
    BY <1>2, <2>1 DEF NameNodeCreateTableReply
  <2> HIDE DEF r
  <2>5. SameWaits(AnswerMsgs(r, replied, t, name.waiting[t]), net)
    BY <2>3, SameAnswers, SameTrans
  <2>. QED
    BY <1>2, <2>3, <2>4, <2>5, CalmBgs, CalmServers DEF NameNodeCreateTableReply, Calm
<1>. QED
  BY <1>1, <1>2

LEMMA CalmServer ==
  ASSUME TypeOK, NEW s \in Servers
  PROVE  /\ ServerCreateTable(s) => Calm
         /\ \A b \in BgsFor(s) : ServerConnection(s, b) => Calm
         /\ \A b \in BgsFor(s) : ServerShutDown(s, b) => Calm
<1>1. NetOK(net) /\ NameNode \in Nodes /\ s \in Nodes /\ BgsFor(s) \subseteq Nodes
  BY Kinds, Links DEF TypeOK
<1>2. /\ <<"ClientStart", 0>> \in Msgs /\ <<"ServerShutDownAck", 0>> \in Msgs
      /\ "ClientStart" \notin TrackedTypes /\ "ServerShutDownAck" \notin TrackedTypes
      /\ "CreateTableReply" \notin TrackedTypes
  BY MsgTypes DEF PlainTypes, TrackedTypes
<1>3. DOMAIN server = Servers /\ ServerOK(s, server[s])
  BY DEF TypeOK
<1>4. ASSUME ServerCreateTable(s) PROVE Calm
  <2>1. Looked(NameNode, s) /\ Head(net[NameNode][s])[1] \notin TrackedTypes
    BY <1>4 DEF ServerCreateTable, Gets, TrackedTypes
  <2>2. PICK t \in Tables : t = Content(NameNode, s)
    BY <1>4, ServerCreateTableType
  <2>3. <<"CreateTableReply", t>> \in Msgs
    BY MsgTypes DEF TableTypes
  <2>4. SameWaits(Send(Rest(NameNode, s), s, {NameNode}, <<"CreateTableReply", t>>), net)
    BY <1>1, <1>2, <2>1, <2>3, SameStep
  <2>5. \A d \in Servers : server'[d].pending = server[d].pending
                             /\ Waits(server'[d]) = Waits(server[d])
    BY <1>3, <1>4 DEF ServerCreateTable, ServerOK, Waits
  <2>. QED
    BY <1>4, <2>2, <2>4, <2>5, CalmBgs DEF ServerCreateTable, Calm
<1>5. ASSUME NEW b \in BgsFor(s), ServerConnection(s, b) PROVE Calm
  <2>1. Looked(b, s) /\ Head(net[b][s])[1] \notin TrackedTypes
    BY <1>5 DEF ServerConnection, Gets, TrackedTypes
  <2>2. /\ SameWaits(Rest(b, s), net)
        /\ SameWaits(Send(Rest(b, s), s, BgsFor(s), <<"ClientStart", 0>>), net)
    BY <1>1, <1>2, <2>1, SameStep
  <2>3. \A d \in Servers : server'[d].pending = server[d].pending
                             /\ Waits(server'[d]) = Waits(server[d])
    BY <1>3, <1>5 DEF ServerConnection, ServerOK, Waits
  <2>. QED
    BY <1>5, <2>2, <2>3, CalmBgs DEF ServerConnection, Calm
<1>6. ASSUME NEW b \in BgsFor(s), ServerShutDown(s, b) PROVE Calm
  <2>1. Looked(b, s) /\ Head(net[b][s])[1] \notin TrackedTypes
    BY <1>6 DEF ServerShutDown, Gets, TrackedTypes
  <2>2. /\ SameWaits(Rest(b, s), net)
        /\ SameWaits(ShutDownAcks(Rest(b, s), s), net)
    BY <1>1, <1>2, <2>1, SameStep DEF ShutDownAcks
  <2>3. \A d \in Servers : /\ server'[d].pending = server[d].pending
                           /\ Waits(server'[d]) => Waits(server[d]) \/ PendingAcks(server[d])
    <3>1. /\ server'[s].pending = server[s].pending /\ server'[s].held = server[s].held
          /\ server'[s].ending => ~MayShutDown(server[s])
          /\ \A d \in Servers \ {s} : server'[d] = server[d]
      BY <1>3, <1>6 DEF ServerShutDown, ServerOK
    <3>2. ~MayShutDown(server[s]) => Waits(server[s]) \/ PendingAcks(server[s])
      BY DEF MayShutDown, Waits
    <3>. QED
      BY <3>1, <3>2 DEF Waits
  <2>. QED
    BY <1>6, <2>2, <2>3, CalmBgs DEF ServerShutDown, Calm
<1>. QED
  BY <1>4, <1>5, <1>6

LEMMA CalmBg ==
  ASSUME TypeOK, NEW b \in Bgs
  PROVE  /\ BgConnectServers(b) => Calm
         /\ BgTableCreated(b) => Calm
         /\ BgAllTablesCreated(b) => Calm
         /\ \A x \in ServersFor(b) \cup {NameNode} : BgStart(b, x) \/ BgShutDownAck(b, x) => Calm
<1>1. NetOK(net) /\ b \in Nodes /\ NameNode \in Nodes
  BY Kinds DEF TypeOK
<1>2. DOMAIN bg = Bgs /\ BgOK(b, bg[b])
  BY DEF TypeOK
<1>3. ASSUME BgConnectServers(b) PROVE Calm
  <2>1. Looked(NameNode, b) /\ Head(net[NameNode][b])[1] \notin TrackedTypes
    BY <1>3 DEF BgConnectServers, Gets, TrackedTypes
  <2>2. <<"ClientConnect", 0>> \in Msgs /\ "ClientConnect" \notin TrackedTypes
    BY MsgTypes DEF PlainTypes, TrackedTypes
  <2>3. SameWaits(Send(Rest(NameNode, b), b, ServersFor(b), <<"ClientConnect", 0>>), net)
    BY <1>1, <2>1, <2>2, SameStep
  <2>4. \A d \in Bgs : bg'[d].pending = bg[d].pending /\ Waits(bg'[d]) = Waits(bg[d])
    BY <1>2, <1>3 DEF BgConnectServers, BgOK, Waits
  <2>. QED
    BY <1>3, <2>3, <2>4, CalmServers DEF BgConnectServers, Calm
<1>4. ASSUME BgTableCreated(b) PROVE Calm
  <2>1. Looked(NameNode, b) /\ Head(net[NameNode][b])[1] \notin TrackedTypes
    BY <1>4 DEF BgTableCreated, Gets, TrackedTypes
  <2>2. PICK t \in Tables : t = Content(NameNode, b)
    BY <1>4, BgTableCreatedType
  <2>3. <<"CreateTableReply", t>> \in Msgs /\ "CreateTableReply" \notin TrackedTypes
    BY MsgTypes DEF TableTypes, TrackedTypes
  <2>4. SameWaits(Send(Rest(NameNode, b), b, {InitThread[b[2]]}, <<"CreateTableReply", t>>), net)
    BY <1>1, <2>1, <2>3, SameStep
  <2>5. \A d \in Bgs : bg'[d].pending = bg[d].pending /\ Waits(bg'[d]) = Waits(bg[d])
    BY <1>2, <1>4 DEF BgTableCreated, BgOK, Waits
  <2>. QED
    BY <1>4, <2>2, <2>4, <2>5, CalmServers DEF BgTableCreated, Calm
<1>5. ASSUME BgAllTablesCreated(b) PROVE Calm
  <2>1. Looked(NameNode, b) /\ Head(net[NameNode][b])[1] \notin TrackedTypes
    BY <1>5 DEF BgAllTablesCreated, Gets, TrackedTypes
  <2>2. SameWaits(Rest(NameNode, b), net)
    BY <1>1, <2>1, SameRest
  <2>3. \A d \in Bgs : bg'[d].pending = bg[d].pending /\ Waits(bg'[d]) = Waits(bg[d])
    BY <1>2, <1>5 DEF BgAllTablesCreated, BgOK, Waits
  <2>. QED
    BY <1>5, <2>2, <2>3, CalmServers DEF BgAllTablesCreated, Calm
<1>6. ASSUME NEW x \in ServersFor(b) \cup {NameNode}, BgStart(b, x) \/ BgShutDownAck(b, x)
      PROVE  Calm
  <2>1. Looked(x, b) /\ x \in Nodes /\ Head(net[x][b])[1] \notin TrackedTypes
    BY <1>6, Kinds, Links DEF BgStart, BgShutDownAck, Gets, TrackedTypes
  <2>2. SameWaits(Rest(x, b), net)
    BY <1>1, <2>1, SameRest
  <2>3. \A d \in Bgs : bg'[d].pending = bg[d].pending /\ Waits(bg'[d]) = Waits(bg[d])
    BY <1>2, <1>6 DEF BgStart, BgShutDownAck, BgOK, Waits
  <2>. QED
    BY <1>6, <2>2, <2>3, CalmServers DEF BgStart, BgShutDownAck, Calm
<1>. QED
  BY <1>3, <1>4, <1>5, <1>6

LEMMA CalmBgThread ==
  ASSUME TypeOK, NEW b \in Bgs, NEW t \in ThreadsOf(b[2])
  PROVE  /\ BgInitThread(b, t) \/ BgConnect(b, t) => Calm
         /\ BgCreateTable(b, t) => Calm
         /\ BgDereg(b, t) => Calm
<1>1. NetOK(net) /\ b \in Nodes /\ t \in Nodes
  BY Kinds DEF TypeOK, ThreadsOf
<1>2. DOMAIN bg = Bgs /\ BgOK(b, bg[b])
  BY DEF TypeOK
<1>3. ASSUME BgInitThread(b, t) \/ BgConnect(b, t) PROVE Calm
  <2>1. Looked(t, b) /\ Head(net[t][b])[1] \notin TrackedTypes
    BY <1>3 DEF BgInitThread, BgConnect, Gets, TrackedTypes
  <2>2. SameWaits(Rest(t, b), net)
    BY <1>1, <2>1, SameRest
  <2>3. \A d \in Bgs : bg'[d].pending = bg[d].pending /\ Waits(bg'[d]) = Waits(bg[d])
    BY <1>2, <1>3 DEF BgInitThread, BgConnect, BgOK, Waits
  <2>. QED
    BY <1>3, <2>2, <2>3, CalmServers DEF BgInitThread, BgConnect, Calm
<1>4. ASSUME BgCreateTable(b, t) PROVE Calm
  <2>1. Looked(t, b) /\ Head(net[t][b])[1] = "BgCreateTable"
    BY <1>4 DEF BgCreateTable, Gets
  <2>2. Content(t, b) \in Tables
    BY <1>1, <2>1, RestAt, MsgTypes DEF Content, TableTypes
  <2>3. <<"CreateTable", Content(t, b)>> \in Msgs /\ "CreateTable" \notin TrackedTypes
    BY <2>2, MsgTypes DEF TableTypes, TrackedTypes
  <2>4. SameWaits(Send(Rest(t, b), b, {NameNode}, <<"CreateTable", Content(t, b)>>), net)
    <3>1. Head(net[t][b])[1] \notin TrackedTypes
      BY <2>1 DEF TrackedTypes
    <3>. QED
      BY <1>1, <2>1, <2>3, <3>1, SameStep
  <2>5. \A d \in Bgs : bg'[d].pending = bg[d].pending /\ Waits(bg'[d]) = Waits(bg[d])
    BY <1>2, <1>4 DEF BgCreateTable, BgOK, Waits
  <2>. QED
    BY <1>4, <2>4, <2>5, CalmServers DEF BgCreateTable, Calm
<1>5. ASSUME BgDereg(b, t) PROVE Calm
  <2>1. Looked(t, b) /\ Head(net[t][b])[1] \notin TrackedTypes
    BY <1>5 DEF BgDereg, Gets, TrackedTypes
  <2>2. <<"ClientShutDown", 0>> \in Msgs /\ "ClientShutDown" \notin TrackedTypes
    BY MsgTypes DEF PlainTypes, TrackedTypes
  <2>3. SameWaits(Rest(t, b), net) /\ SameWaits(ShutDownMsgs(Rest(t, b), b), net)
    BY <1>1, <2>1, <2>2, SameStep DEF ShutDownMsgs
  <2>4. \A d \in Bgs : /\ bg'[d].pending = bg[d].pending
                       /\ Waits(bg'[d]) => Waits(bg[d]) \/ PendingAcks(bg[d])
    <3>1. /\ bg'[b].pending = bg[b].pending /\ bg'[b].held = bg[b].held
          /\ bg'[b].ending => ~MayShutDown(bg[b])
          /\ \A d \in Bgs \ {b} : bg'[d] = bg[d]
      BY <1>2, <1>5 DEF BgDereg, BgOK
    <3>2. ~MayShutDown(bg[b]) => Waits(bg[b]) \/ PendingAcks(bg[b])
      BY DEF MayShutDown, Waits
    <3>. QED
      BY <3>1, <3>2 DEF Waits
  <2>. QED
    BY <1>5, <2>3, <2>4, CalmServers DEF BgDereg, Calm
<1>. QED
  BY <1>3, <1>4, <1>5

LEMMA CalmClient ==
  ASSUME TypeOK, NEW c \in Clients
  PROVE  InitThreadStep(c) => Calm
<1>1. NetOK(net) /\ HeadBg(c) \in Nodes /\ InitThread[c] \in Nodes
  BY Kinds, Links DEF TypeOK
<1>2. SameWaits(net, net)
  BY DEF SameWaits
<1>3. DOMAIN bg = Bgs /\ \A d \in Bgs : BgOK(d, bg[d])
  BY DEF TypeOK
<1>4. ASSUME InitBarrier(c) PROVE Calm
  <2>1. <<"AppConnect", 0>> \in Msgs /\ "AppConnect" \notin TrackedTypes
    BY MsgTypes DEF PlainTypes, TrackedTypes
  <2>2. SameWaits(Send(net, InitThread[c], BgsOf(c), <<"AppConnect", 0>>), net)
    BY <1>1, <2>1, SameSend
  <2>3. \A d \in Bgs : bg'[d].pending = bg[d].pending /\ Waits(bg'[d]) = Waits(bg[d])
    BY <1>3, <1>4 DEF InitBarrier, BgOK, Waits
  <2>. QED
    BY <1>4, <2>2, <2>3, CalmServers DEF InitBarrier, Calm
<1>5. ASSUME TableCreated(c) PROVE Calm
  <2>1. /\ Looked(HeadBg(c), InitThread[c])
        /\ Head(net[HeadBg(c)][InitThread[c]])[1] \notin TrackedTypes
    BY <1>5 DEF TableCreated, Gets, TrackedTypes
  <2>2. SameWaits(Rest(HeadBg(c), InitThread[c]), net)
    BY <1>1, <2>1, SameRest
  <2>. QED
    BY <1>5, <2>2, CalmBgs, CalmServers DEF TableCreated, Calm
<1>6. ASSUME CreateTableBarrier(c) PROVE Calm
  <2>1. \A d \in Bgs : bg'[d].pending = bg[d].pending /\ Waits(bg'[d]) = Waits(bg[d])
    BY <1>3, <1>6 DEF CreateTableBarrier, BgOK, Waits
  <2>. QED
    BY <1>2, <1>6, <2>1, CalmServers DEF CreateTableBarrier, Calm
<1>7. ASSUME RegisterBarrier(c) \/ ShutDown(c) PROVE Calm
  BY <1>2, <1>7, CalmBgs, CalmServers DEF RegisterBarrier, ShutDown, Calm
<1>8. ASSUME NEW t \in Tables, CreateTable(c, t) PROVE Calm
  <2>1. <<"BgCreateTable", t>> \in Msgs /\ "BgCreateTable" \notin TrackedTypes
    BY MsgTypes DEF TableTypes, TrackedTypes
  <2>2. SameWaits(Send(net, InitThread[c], {HeadBg(c)}, <<"BgCreateTable", t>>), net)
    BY <1>1, <2>1, SameSend
  <2>. QED
    BY <1>8, <2>2, CalmBgs, CalmServers DEF CreateTable, Calm
<1>. QED
  BY <1>4, <1>5, <1>6, <1>7, <1>8 DEF InitThreadStep

LEMMA CalmThread ==
  ASSUME TypeOK, NEW t \in Threads
  PROVE  ThreadStep(t) \/ Clock(t) => Calm
<1>1. NetOK(net) /\ t \in Nodes
  BY Kinds DEF TypeOK
<1>2. /\ <<"AppConnect", 0>> \in Msgs /\ <<"AppThreadDereg", 0>> \in Msgs
      /\ <<"BgClock", 0>> \in Msgs
      /\ \A w \in {"AppConnect", "AppThreadDereg", "BgClock"} : w \notin TrackedTypes
  BY MsgTypes DEF PlainTypes, TrackedTypes
<1>3. /\ SameWaits(net, net)
      /\ \A dests : /\ SameWaits(Send(net, t, dests, <<"AppConnect", 0>>), net)
                    /\ SameWaits(Send(net, t, dests, <<"AppThreadDereg", 0>>), net)
                    /\ SameWaits(Send(net, t, dests, <<"BgClock", 0>>), net)
  BY <1>1, <1>2, SameSend DEF SameWaits
<1>4. ASSUME RegisterThread(t) \/ DeregisterThread(t) PROVE Calm
  BY <1>3, <1>4, CalmBgs, CalmServers DEF RegisterThread, DeregisterThread, Calm
<1>5. ASSUME Clock(t) PROVE Calm
  BY <1>3, <1>5, CalmBgs, CalmServers DEF Clock, Calm
<1>. QED
  BY <1>4, <1>5 DEF ThreadStep

(* Steps that send or acknowledge what is waited for: only the batches of  *)
(* one worker, only the rows of one server.                                *)
OnlyBg(p, n, b) ==
  /\ \A d \in Bgs \ {b} : \A s \in ServersFor(d) : Batches(p, d, s) = Batches(n, d, s)
  /\ \A d \in Bgs : \A s \in ServersFor(d) : Pushes(p, s, d) = Pushes(n, s, d)

OnlyServer(p, n, s) ==
  /\ \A d \in Servers \ {s} : \A b \in BgsFor(d) : Pushes(p, d, b) = Pushes(n, d, b)
  /\ \A b \in Bgs : \A d \in ServersFor(b) : Batches(p, b, d) = Batches(n, b, d)

LEMMA OnlyTrans ==
  ASSUME NEW p, NEW q, NEW n
  PROVE  /\ \A b \in Bgs : OnlyBg(p, q, b) /\ OnlyBg(q, n, b) => OnlyBg(p, n, b)
         /\ \A s \in Servers : OnlyServer(p, q, s) /\ OnlyServer(q, n, s) => OnlyServer(p, n, s)
BY DEF OnlyBg, OnlyServer

LEMMA OnlySame ==
  ASSUME NEW p, NEW n, SameWaits(p, n)
  PROVE  /\ \A b \in Bgs : OnlyBg(p, n, b)
         /\ \A s \in Servers : OnlyServer(p, n, s)
<1>1. \A s \in Servers : \A b \in BgsFor(s) : b \in Bgs /\ s \in ServersFor(b)
  BY Links
<1>. QED
  BY <1>1 DEF SameWaits, OnlyBg, OnlyServer

LEMMA BgMoves ==
  ASSUME AcksInv, NEW b \in Bgs, server' = server,
         \A d \in Bgs \ {b} : bg'[d] = bg[d], OnlyBg(net', net, b),
         BgAcks(net', b, bg'[b])
  PROVE  AcksInv'
<1>1. \A d \in Bgs : BgAcks(net', d, bg'[d])
  BY DEF AcksInv, BgAcks, OnlyBg
<1>2. \A s \in Servers : \A d \in BgsFor(s) : d \in Bgs /\ s \in ServersFor(d)
  BY Links
<1>3. \A s \in Servers : ServerAcks(net', s, server'[s])
  BY <1>2 DEF AcksInv, ServerAcks, OnlyBg
<1>. QED
  BY <1>1, <1>3 DEF AcksInv

LEMMA ServerMoves ==
  ASSUME AcksInv, NEW s \in Servers, bg' = bg,
         \A d \in Servers \ {s} : server'[d] = server[d], OnlyServer(net', net, s),
         ServerAcks(net', s, server'[s])
  PROVE  AcksInv'
<1>1. \A b \in Bgs : BgAcks(net', b, bg'[b])
  BY DEF AcksInv, BgAcks, OnlyServer
<1>2. \A d \in Servers : ServerAcks(net', d, server'[d])
  BY DEF AcksInv, ServerAcks, OnlyServer
<1>. QED
  BY <1>1, <1>2 DEF AcksInv

(* A worker has a server and a server a worker.                            *)
LEMMA Partners ==
  /\ \A b \in Bgs : ServersFor(b) # {}
  /\ \A s \in Servers : BgsFor(s) # {}
<1>1. ASSUME NEW b \in Bgs PROVE ServersFor(b) # {}
  <2>1. <<"server", NameNodeClient, b[3]>> \in Servers
    BY LifecycleAssumption DEF Bgs, Servers
  <2>. QED
    BY <2>1 DEF ServersFor
<1>2. ASSUME NEW s \in Servers PROVE BgsFor(s) # {}
  <2>1. <<"bg", NameNodeClient, s[3]>> \in Bgs
    BY LifecycleAssumption DEF Bgs, Servers
  <2>. QED
    BY <2>1 DEF BgsFor
<1>. QED
  BY <1>1, <1>2

(* A window that is full waits.                                            *)
LEMMA FullWaits ==
  /\ \A b \in Bgs : \A x : BgOK(b, x) /\ ~CheckSendAll(x) => PendingAcks(x)
  /\ \A s \in Servers : \A x : ServerOK(s, x) /\ ~CheckSendAll(x) => PendingAcks(x)
<1>1. MaxPending \in Nat \ {0}
  BY LifecycleAssumption
<1>2. ASSUME NEW b \in Bgs, NEW x, BgOK(b, x), ~CheckSendAll(x) PROVE PendingAcks(x)
  BY <1>1, <1>2 DEF BgOK, CheckSendAll, PendingAcks
<1>3. ASSUME NEW s \in Servers, NEW x, ServerOK(s, x), ~CheckSendAll(x) PROVE PendingAcks(x)
  BY <1>1, <1>3 DEF ServerOK, CheckSendAll, PendingAcks
<1>. QED
  BY <1>2, <1>3

(* A batch to every server, tracked.                                       *)
LEMMA BatchesSent ==
  ASSUME NEW b \in Bgs, NEW x, BgOK(b, x), NEW n, NetOK(n), NEW y, y.clock \in Nat,
         \A s \in ServersFor(b) : x.pending[s] = Batches(n, b, s)
  PROVE  /\ BgAcks(OpLogMsgs(n, b, y), b, Tracked(x))
         /\ NetOK(OpLogMsgs(n, b, y))
         /\ Tracked(x).held = FALSE /\ Tracked(x).ending = x.ending
         /\ OnlyBg(OpLogMsgs(n, b, y), n, b)
<1> DEFINE p == OpLogMsgs(n, b, y)
<1>1. <<"ClientSendOpLog", y.clock>> \in Msgs /\ b \in Nodes
  BY MsgTypes, Kinds DEF PlainTypes
<1>2. NetOK(p)
  BY <1>1, SendAt DEF OpLogMsgs
<1>3. ASSUME NEW d \in Bgs, NEW s \in ServersFor(d)
      PROVE  /\ Batches(p, d, s) = Batches(n, d, s) + (IF d = b THEN 1 ELSE 0)
             /\ Pushes(p, s, d) = Pushes(n, s, d) + 0
             /\ Batches(n, d, s) \in Nat /\ Pushes(n, s, d) \in Nat
  <2>1. d # s /\ s # b
    BY Ends, Kinds
  <2>2. Batches(p, d, s) = Batches(n, d, s) +
          (IF \/ "ClientSendOpLog" = "ClientSendOpLog" /\ b = d /\ s \in ServersFor(b)
              \/ "ClientSendOpLog" = "ServerOpLogAck" /\ b = s /\ d \in ServersFor(b)
           THEN 1 ELSE 0)
    BY <1>1, WaitsSend DEF OpLogMsgs
  <2>3. Pushes(p, s, d) = Pushes(n, s, d) +
          (IF \/ "ClientSendOpLog" = "ServerPushRow" /\ b = s /\ d \in ServersFor(b)
              \/ "ClientSendOpLog" = "BgServerPushRowAck" /\ b = d /\ s \in ServersFor(b)
           THEN 1 ELSE 0)
    BY <1>1, WaitsSend DEF OpLogMsgs
  <2>. QED
    BY <2>1, <2>2, <2>3, WaitsInNat
<1>4. /\ \A s \in ServersFor(b) : Tracked(x).pending[s] = x.pending[s] + 1
      /\ DOMAIN Tracked(x).pending = ServersFor(b)
      /\ Tracked(x).held = FALSE /\ Tracked(x).ending = x.ending
  BY DEF BgOK, Tracked
<1> HIDE DEF p
<1>5. BgAcks(p, b, Tracked(x))
  <2>1. \A s \in ServersFor(b) : Tracked(x).pending[s] = Batches(p, b, s)
    BY <1>3, <1>4
  <2>2. PendingAcks(Tracked(x))
    BY <1>3, <1>4, Partners DEF PendingAcks
  <2>. QED
    BY <2>1, <2>2 DEF BgAcks
<1>6. OnlyBg(p, n, b)
  BY <1>3 DEF OnlyBg
<1>. QED
  BY <1>2, <1>4, <1>5, <1>6 DEF p

(* Rows to every worker, tracked.                                          *)
LEMMA PushesSent ==
  ASSUME NEW s \in Servers, NEW x, ServerOK(s, x), NEW n, NetOK(n),
         \A b \in BgsFor(s) : x.pending[b] = Pushes(n, s, b)
  PROVE  /\ ServerAcks(PushMsgs(n, s), s, Tracked(x))
         /\ NetOK(PushMsgs(n, s))
         /\ Tracked(x).held = FALSE /\ Tracked(x).ending = x.ending
         /\ OnlyServer(PushMsgs(n, s), n, s)
<1> DEFINE p == PushMsgs(n, s)
<1>1. <<"ServerPushRow", 0>> \in Msgs /\ s \in Nodes
  BY MsgTypes, Kinds DEF PlainTypes
<1>2. NetOK(p)
  BY <1>1, SendAt DEF PushMsgs
<1>3. ASSUME NEW b \in Bgs, NEW d \in ServersFor(b)
      PROVE  /\ Batches(p, b, d) = Batches(n, b, d)
             /\ Pushes(p, d, b) = Pushes(n, d, b) + (IF d = s THEN 1 ELSE 0)
             /\ Pushes(n, d, b) \in Nat
  <2>1. b # d /\ s # b /\ (d = s => b \in BgsFor(s))
    BY Ends, Kinds
  <2>2. Batches(p, b, d) = Batches(n, b, d) +
          (IF \/ "ServerPushRow" = "ClientSendOpLog" /\ s = b /\ d \in BgsFor(s)
              \/ "ServerPushRow" = "ServerOpLogAck" /\ s = d /\ b \in BgsFor(s)
           THEN 1 ELSE 0)
    BY <1>1, WaitsSend DEF PushMsgs
  <2>3. Pushes(p, d, b) = Pushes(n, d, b) +
          (IF \/ "ServerPushRow" = "ServerPushRow" /\ s = d /\ b \in BgsFor(s)
              \/ "ServerPushRow" = "BgServerPushRowAck" /\ s = b /\ d \in BgsFor(s)
           THEN 1 ELSE 0)
    BY <1>1, WaitsSend DEF PushMsgs
  <2>. QED
    BY <2>1, <2>2, <2>3, WaitsInNat
<1>4. /\ \A b \in BgsFor(s) : Tracked(x).pending[b] = x.pending[b] + 1
      /\ DOMAIN Tracked(x).pending = BgsFor(s)
      /\ Tracked(x).held = FALSE /\ Tracked(x).ending = x.ending
  BY DEF ServerOK, Tracked
<1> HIDE DEF p
<1>5. \A d \in Servers : \A b \in BgsFor(d) : b \in Bgs /\ d \in ServersFor(b)
  BY Links
<1>6. ServerAcks(p, s, Tracked(x))
  <2>1. \A b \in BgsFor(s) : Tracked(x).pending[b] = Pushes(p, s, b)
    BY <1>3, <1>4, <1>5
  <2>2. PendingAcks(Tracked(x))
    BY <1>3, <1>4, <1>5, Partners DEF PendingAcks
  <2>. QED
    BY <2>1, <2>2 DEF ServerAcks
<1>7. OnlyServer(p, n, s)
  BY <1>3, <1>5 DEF OnlyServer
<1>. QED
  BY <1>2, <1>4, <1>6, <1>7 DEF p

LEMMA BgClockAcks ==
  ASSUME TypeOK, AcksInv, NEW b \in Bgs, NEW t \in ThreadsOf(b[2]), BgClock(b, t)
  PROVE  AcksInv'
<1> DEFINE clocked == [bg[b] EXCEPT !.clock = @ + 1]
           r == Rest(t, b)
<1>1. /\ NetOK(net) /\ t \in Nodes /\ b \in Nodes /\ Looked(t, b)
      /\ Head(net[t][b])[1] \notin TrackedTypes
  BY Kinds DEF BgClock, TypeOK, Gets, ThreadsOf, TrackedTypes
<1>2. NetOK(r) /\ SameWaits(r, net)
  BY <1>1, RestAt, SameRest
<1>3. DOMAIN bg = Bgs /\ BgOK(b, bg[b]) /\ BgAcks(net, b, bg[b])
  BY DEF TypeOK, AcksInv
<1>4. BgOK(b, clocked) /\ clocked.clock \in Nat /\ clocked.pending = bg[b].pending
  BY <1>3 DEF BgOK
<1>5. /\ \/ bg' = [bg EXCEPT ![b] = Tracked(clocked)] /\ net' = OpLogMsgs(r, b, clocked)
         \/ /\ ~CheckSendAll(clocked)
            /\ bg' = [bg EXCEPT ![b] = [clocked EXCEPT !.held = TRUE]] /\ net' = r
      /\ server' = server
  BY DEF BgClock
<1> HIDE DEF clocked, r
<1>6. \A s \in ServersFor(b) : clocked.pending[s] = Batches(r, b, s)
  BY <1>2, <1>3, <1>4 DEF SameWaits, BgAcks
<1>7. CASE bg' = [bg EXCEPT ![b] = Tracked(clocked)] /\ net' = OpLogMsgs(r, b, clocked)
  <2>1. BgAcks(net', b, bg'[b])
    BY <1>2, <1>3, <1>4, <1>6, <1>7, BatchesSent
  <2>2. OnlyBg(net', r, b)
    BY <1>2, <1>4, <1>6, <1>7, BatchesSent
  <2>3. OnlyBg(net', net, b)
    BY <1>2, <2>2, OnlySame, OnlyTrans
  <2>. QED
    BY <1>3, <1>5, <1>7, <2>1, <2>3, BgMoves
<1>8. CASE /\ ~CheckSendAll(clocked)
           /\ bg' = [bg EXCEPT ![b] = [clocked EXCEPT !.held = TRUE]] /\ net' = r
  <2>1. PendingAcks(clocked)
    BY <1>4, <1>8, FullWaits
  <2>2. bg'[b].pending = clocked.pending
    BY <1>3, <1>4, <1>8 DEF BgOK
  <2>3. BgAcks(net', b, bg'[b])
    BY <1>6, <1>8, <2>1, <2>2 DEF BgAcks, PendingAcks
  <2>. QED
    BY <1>2, <1>3, <1>5, <1>8, <2>3, BgMoves, OnlySame
<1>. QED
  BY <1>5, <1>7, <1>8

LEMMA BgOpLogAckAcks ==
  ASSUME TypeOK, AcksInv, NEW b \in Bgs, NEW s \in ServersFor(b), BgOpLogAck(b, s)
  PROVE  AcksInv'
<1> DEFINE acked  == [bg[b] EXCEPT !.pending[s] = @ - 1]
           r      == Rest(s, b)
           resend == acked.held /\ CheckSendAll(acked)
           after  == IF resend THEN Tracked(acked) ELSE acked
           sent   == IF resend THEN OpLogMsgs(r, b, acked) ELSE r
<1>1. /\ NetOK(net) /\ s \in Nodes /\ b \in Nodes /\ b # s /\ s \in Servers /\ Looked(s, b)
      /\ Head(net[s][b])[1] = "ServerOpLogAck"
  BY Ends DEF BgOpLogAck, TypeOK, Gets
<1>2. NetOK(r)
  BY <1>1, RestAt
<1>3. DOMAIN bg = Bgs /\ BgOK(b, bg[b]) /\ BgAcks(net, b, bg[b])
  BY DEF TypeOK, AcksInv
<1>4. /\ BgOK(b, acked) /\ acked.clock \in Nat
      /\ \A d \in ServersFor(b) :
           acked.pending[d] = IF d = s THEN bg[b].pending[d] - 1 ELSE bg[b].pending[d]
  BY <1>3 DEF BgOK
<1>5. /\ IF ShutDownDue(after)
         THEN bg' = [bg EXCEPT ![b] = [after EXCEPT !.ending = FALSE]]
              /\ net' = ShutDownMsgs(sent, b)
         ELSE bg' = [bg EXCEPT ![b] = after] /\ net' = sent
      /\ server' = server
  BY DEF BgOpLogAck
<1>6. ASSUME NEW d \in Bgs, NEW e \in ServersFor(d)
      PROVE  /\ Batches(r, d, e) = Batches(net, d, e) - (IF d = b /\ e = s THEN 1 ELSE 0)
             /\ Pushes(r, e, d) = Pushes(net, e, d) - 0
             /\ Batches(net, d, e) \in Nat /\ Pushes(net, e, d) \in Nat
  <2>1. d # s /\ e # b
    BY <1>1, Ends, Kinds
  <2>2. Batches(r, d, e) = Batches(net, d, e) -
          (IF \/ "ServerOpLogAck" = "ClientSendOpLog" /\ s = d /\ b = e
              \/ "ServerOpLogAck" = "ServerOpLogAck" /\ s = e /\ b = d THEN 1 ELSE 0)
    BY <1>1, WaitsRest
  <2>3. Pushes(r, e, d) = Pushes(net, e, d) -
          (IF \/ "ServerOpLogAck" = "ServerPushRow" /\ s = e /\ b = d
              \/ "ServerOpLogAck" = "BgServerPushRowAck" /\ s = d /\ b = e THEN 1 ELSE 0)
    BY <1>1, WaitsRest
  <2>. QED
    BY <1>1, <2>1, <2>2, <2>3, WaitsInNat
<1> HIDE DEF acked, r
<1>7. \A d \in ServersFor(b) : acked.pending[d] = Batches(r, b, d)
  BY <1>3, <1>4, <1>6 DEF BgAcks
<1>8. OnlyBg(r, net, b)
  BY <1>6 DEF OnlyBg
(* Before the shutdown is sent: what is still held back or due waits.      *)
<1>9. /\ BgOK(b, after) /\ NetOK(sent)
      /\ \A d \in ServersFor(b) : after.pending[d] = Batches(sent, b, d)
      /\ after.held => PendingAcks(after)
      /\ OnlyBg(sent, net, b)
  <2>1. CASE resend
    <3>1. after = Tracked(acked) /\ sent = OpLogMsgs(r, b, acked)
      BY <2>1
    <3>2. BgOK(b, after)
      BY <1>4, <3>1, TrackedType
    <3> HIDE DEF resend, after, sent
    <3>3. /\ BgAcks(sent, b, after) /\ NetOK(sent) /\ after.held = FALSE
          /\ OnlyBg(sent, r, b)
      BY ZenonT(30), <1>2, <1>4, <1>7, <3>1, BatchesSent
    <3>4. OnlyBg(sent, net, b)
      BY <1>8, <3>3, OnlyTrans
    <3>. QED
      BY <3>2, <3>3, <3>4 DEF BgAcks
  <2>2. CASE ~resend
    <3>1. acked.held => PendingAcks(acked)
      BY <1>4, <2>2, FullWaits
    <3>. QED
      BY <1>2, <1>4, <1>7, <1>8, <2>2, <3>1
  <2>. QED
    BY <2>1, <2>2
<1> HIDE DEF after, sent
<1>10. CASE ShutDownDue(after)
  <2> DEFINE ended == [after EXCEPT !.ending = FALSE]
  <2>1. <<"ClientShutDown", 0>> \in Msgs /\ "ClientShutDown" \notin TrackedTypes
    BY MsgTypes DEF PlainTypes, TrackedTypes
  <2>2. SameWaits(net', sent)
    BY <1>1, <1>5, <1>9, <1>10, <2>1, SameSend DEF ShutDownMsgs
  <2>3. ended.pending = after.pending /\ ended.held = after.held /\ ended.ending = FALSE
    BY <1>9 DEF BgOK
  <2>4. bg' = [bg EXCEPT ![b] = ended]
    BY <1>5, <1>10
  <2> HIDE DEF ended
  <2>5. BgAcks(net', b, bg'[b])
    BY <1>3, <1>9, <2>2, <2>3, <2>4 DEF BgAcks, SameWaits, PendingAcks
  <2>6. OnlyBg(net', net, b)
    BY <1>9, <2>2, OnlySame, OnlyTrans
  <2>. QED
    BY <1>3, <1>5, <2>4, <2>5, <2>6, BgMoves
<1>11. CASE ~ShutDownDue(after)
  <2>1. after.ending => PendingAcks(after)
    BY <1>9, <1>11 DEF ShutDownDue, MayShutDown
  <2>2. BgAcks(net', b, bg'[b])
    BY <1>3, <1>5, <1>9, <1>11, <2>1 DEF BgAcks
  <2>. QED
    BY <1>3, <1>5, <1>9, <1>11, <2>2, BgMoves
<1>. QED
  BY <1>10, <1>11

(* Applied rows are acknowledged at once: one message for another.         *)
LEMMA BgPushRowAcks ==
  ASSUME TypeOK, AcksInv, NEW b \in Bgs, NEW s \in ServersFor(b), BgPushRow(b, s)
  PROVE  AcksInv'
<1> DEFINE r == Rest(s, b)
           p == Send(r, b, {s}, <<"BgServerPushRowAck", 0>>)
<1>1. /\ NetOK(net) /\ s \in Nodes /\ b \in Nodes /\ b # s /\ s \in Servers /\ Looked(s, b)
      /\ Head(net[s][b])[1] = "ServerPushRow"
  BY Ends DEF BgPushRow, TypeOK, Gets
<1>2. <<"BgServerPushRowAck", 0>> \in Msgs
  BY MsgTypes DEF PlainTypes
<1>3. NetOK(r)
  BY <1>1, RestAt
<1>4. ASSUME NEW d \in Bgs, NEW e \in ServersFor(d)
      PROVE  Batches(p, d, e) = Batches(net, d, e) /\ Pushes(p, e, d) = Pushes(net, e, d)
  <2>1. d # s /\ e # b /\ d # e
    BY <1>1, Ends, Kinds
  <2>2. /\ Batches(r, d, e) = Batches(net, d, e) -
             (IF \/ "ServerPushRow" = "ClientSendOpLog" /\ s = d /\ b = e
                 \/ "ServerPushRow" = "ServerOpLogAck" /\ s = e /\ b = d THEN 1 ELSE 0)
        /\ Pushes(r, e, d) = Pushes(net, e, d) -
             (IF \/ "ServerPushRow" = "ServerPushRow" /\ s = e /\ b = d
                 \/ "ServerPushRow" = "BgServerPushRowAck" /\ s = d /\ b = e THEN 1 ELSE 0)
    BY <1>1, WaitsRest
  <2> HIDE DEF r
  <2>3. /\ Batches(p, d, e) = Batches(r, d, e) +
             (IF \/ "BgServerPushRowAck" = "ClientSendOpLog" /\ b = d /\ e \in {s}
                 \/ "BgServerPushRowAck" = "ServerOpLogAck" /\ b = e /\ d \in {s} THEN 1 ELSE 0)
        /\ Pushes(p, e, d) = Pushes(r, e, d) +
             (IF \/ "BgServerPushRowAck" = "ServerPushRow" /\ b = e /\ d \in {s}
                 \/ "BgServerPushRowAck" = "BgServerPushRowAck" /\ b = d /\ e \in {s} THEN 1 ELSE 0)
    BY <1>1, <1>2, <1>3, WaitsSend
  <2> HIDE DEF p
  <2>4. Batches(net, d, e) \in Nat /\ Pushes(net, e, d) \in Nat
    BY <1>1, WaitsInNat
  <2>. QED
    BY <2>1, <2>2, <2>3, <2>4
<1>5. SameWaits(net', net)
  BY <1>4 DEF BgPushRow, SameWaits
<1>6. Calm
  BY <1>5, CalmBgs, CalmServers DEF BgPushRow, Calm
<1>. QED
  BY <1>6, CalmKeeps

LEMMA ServerOpLogAcks ==
  ASSUME TypeOK, AcksInv, NEW s \in Servers, NEW b \in BgsFor(s), ServerOpLog(s, b)
  PROVE  AcksInv'
<1> DEFINE clocked  == [server[s] EXCEPT !.clock[b] = Content(b, s)]
           due      == PushRows /\ MinClock(clocked.clock) > MinClock(server[s].clock)
           pushes   == due /\ CheckSendAll(clocked)
           heldBack == [clocked EXCEPT !.held = @ \/ due]
           after    == IF pushes THEN Tracked(clocked) ELSE heldBack
           r        == Rest(b, s)
           sent     == IF pushes THEN PushMsgs(r, s) ELSE r
           p        == Send(sent, s, {b}, <<"ServerOpLogAck", 0>>)
<1>1. /\ NetOK(net) /\ s \in Nodes /\ b \in Nodes /\ b # s /\ b \in Bgs /\ s \in ServersFor(b)
      /\ Looked(b, s) /\ Head(net[b][s])[1] = "ClientSendOpLog"
  BY Links, Kinds DEF ServerOpLog, TypeOK, Gets
<1>2. <<"ServerOpLogAck", 0>> \in Msgs
  BY MsgTypes DEF PlainTypes
<1>3. NetOK(r)
  BY <1>1, RestAt
<1>4. DOMAIN server = Servers /\ ServerOK(s, server[s]) /\ ServerAcks(net, s, server[s])
  BY DEF TypeOK, AcksInv
<1>5. /\ ServerOK(s, clocked) /\ clocked.pending = server[s].pending
      /\ clocked.held = server[s].held /\ clocked.ending = server[s].ending
  BY <1>4, ServerOpLogType DEF ServerOK
<1>6. server' = [server EXCEPT ![s] = after] /\ net' = p /\ bg' = bg
  BY DEF ServerOpLog
<1>7. ASSUME NEW d \in Bgs, NEW e \in ServersFor(d)
      PROVE  /\ Batches(r, d, e) = Batches(net, d, e) - (IF d = b /\ e = s THEN 1 ELSE 0)
             /\ Pushes(r, e, d) = Pushes(net, e, d)
  <2>1. d # s /\ e # b
    BY <1>1, Ends, Kinds
  <2>2. /\ Batches(r, d, e) = Batches(net, d, e) -
             (IF \/ "ClientSendOpLog" = "ClientSendOpLog" /\ b = d /\ s = e
                 \/ "ClientSendOpLog" = "ServerOpLogAck" /\ b = e /\ s = d THEN 1 ELSE 0)
        /\ Pushes(r, e, d) = Pushes(net, e, d) -
             (IF \/ "ClientSendOpLog" = "ServerPushRow" /\ b = e /\ s = d
                 \/ "ClientSendOpLog" = "BgServerPushRowAck" /\ b = d /\ s = e THEN 1 ELSE 0)
    BY <1>1, WaitsRest
  <2> HIDE DEF r
  <2>3. Batches(net, d, e) \in Nat /\ Pushes(net, e, d) \in Nat
    BY <1>1, WaitsInNat
  <2>. QED
    BY <2>1, <2>2, <2>3
<1>8. \A d \in Servers : \A x \in BgsFor(d) : x \in Bgs /\ d \in ServersFor(x)
  BY Links
<1> HIDE DEF clocked, due, r
<1>9. \A x \in BgsFor(s) : clocked.pending[x] = Pushes(r, s, x)
  BY <1>4, <1>5, <1>7, <1>8 DEF ServerAcks
(* The rows, sent at once or held back: their window is full.              *)
<1>10. /\ ServerAcks(sent, s, after) /\ NetOK(sent)
       /\ \A d \in Servers \ {s} : \A x \in BgsFor(d) : Pushes(sent, d, x) = Pushes(r, d, x)
       /\ \A x \in Bgs : \A d \in ServersFor(x) : Batches(sent, x, d) = Batches(r, x, d)
  <2>1. CASE pushes
    <3>1. after = Tracked(clocked) /\ sent = PushMsgs(r, s)
      BY <2>1
    <3> HIDE DEF pushes, after, sent
    <3>2. ServerAcks(sent, s, after) /\ NetOK(sent) /\ OnlyServer(sent, r, s)
      BY <1>3, <1>5, <1>9, <3>1, PushesSent
    <3>. QED
      BY <3>2 DEF OnlyServer
  <2>2. CASE ~pushes
    <3>1. after = heldBack /\ sent = r
      BY <2>2
    <3>2. /\ after.pending = clocked.pending /\ after.ending = clocked.ending
          /\ after.held => clocked.held \/ ~CheckSendAll(clocked)
      BY <1>5, <2>2, <3>1 DEF ServerOK
    <3> HIDE DEF after, sent, heldBack, pushes
    <3>3. clocked.held \/ clocked.ending => PendingAcks(clocked)
      BY <1>4, <1>5 DEF ServerAcks, PendingAcks
    <3>4. ~CheckSendAll(clocked) => PendingAcks(clocked)
      BY <1>5, FullWaits
    <3>5. after.held \/ after.ending => PendingAcks(after)
      BY <3>2, <3>3, <3>4 DEF PendingAcks
    <3>. QED
      BY <1>3, <1>9, <3>1, <3>2, <3>5 DEF ServerAcks
  <2>. QED
    BY <2>1, <2>2
<1> HIDE DEF after, sent
(* The acknowledgement takes the place of the batch.                       *)
<1>11. ASSUME NEW d \in Bgs, NEW e \in ServersFor(d)
       PROVE  /\ Batches(p, d, e) = Batches(net, d, e)
              /\ Pushes(p, e, d) = Pushes(sent, e, d)
  <2>1. d # s /\ e # b
    BY <1>1, Ends, Kinds
  <2>2. /\ Batches(p, d, e) = Batches(sent, d, e) +
             (IF \/ "ServerOpLogAck" = "ClientSendOpLog" /\ s = d /\ e \in {b}
                 \/ "ServerOpLogAck" = "ServerOpLogAck" /\ s = e /\ d \in {b} THEN 1 ELSE 0)
        /\ Pushes(p, e, d) = Pushes(sent, e, d) +
             (IF \/ "ServerOpLogAck" = "ServerPushRow" /\ s = e /\ d \in {b}
                 \/ "ServerOpLogAck" = "BgServerPushRowAck" /\ s = d /\ e \in {b} THEN 1 ELSE 0)
    BY <1>1, <1>2, <1>10, WaitsSend
  <2> HIDE DEF p
  <2>3. /\ Batches(net, d, e) \in Nat /\ Pushes(sent, e, d) \in Nat
        /\ Batches(sent, d, e) = Batches(net, d, e) - (IF d = b /\ e = s THEN 1 ELSE 0)
    BY <1>1, <1>7, <1>10, WaitsInNat
  <2>. QED
    BY <2>1, <2>2, <2>3
<1> HIDE DEF p
<1>12. OnlyServer(p, net, s)
  BY <1>7, <1>8, <1>10, <1>11 DEF OnlyServer
<1>13. ServerAcks(p, s, after)
  BY <1>8, <1>10, <1>11 DEF ServerAcks
<1>. QED
  BY <1>4, <1>6, <1>12, <1>13, ServerMoves

LEMMA ServerPushRowAckAcks ==
  ASSUME TypeOK, AcksInv, NEW s \in Servers, NEW b \in BgsFor(s), ServerPushRowAck(s, b)
  PROVE  AcksInv'
<1> DEFINE acked  == [server[s] EXCEPT !.pending[b] = @ - 1]
           r      == Rest(b, s)
           resend == acked.held /\ CheckSendAll(acked)
           after  == IF resend THEN Tracked(acked) ELSE acked
           sent   == IF resend THEN PushMsgs(r, s) ELSE r
<1>1. /\ NetOK(net) /\ s \in Nodes /\ b \in Nodes /\ b # s /\ b \in Bgs /\ s \in ServersFor(b)
      /\ Looked(b, s) /\ Head(net[b][s])[1] = "BgServerPushRowAck"
  BY Links, Kinds DEF ServerPushRowAck, TypeOK, Gets
<1>2. NetOK(r)
  BY <1>1, RestAt
<1>3. DOMAIN server = Servers /\ ServerOK(s, server[s]) /\ ServerAcks(net, s, server[s])
  BY DEF TypeOK, AcksInv
<1>4. /\ ServerOK(s, acked)
      /\ \A d \in BgsFor(s) :
           acked.pending[d] = IF d = b THEN server[s].pending[d] - 1 ELSE server[s].pending[d]
  BY <1>3 DEF ServerOK
<1>5. /\ IF ShutDownDue(after)
         THEN server' = [server EXCEPT ![s] = [after EXCEPT !.ending = FALSE, !.at = "exited"]]
              /\ net' = ShutDownAcks(sent, s)
         ELSE server' = [server EXCEPT ![s] = after] /\ net' = sent
      /\ bg' = bg
  BY DEF ServerPushRowAck
<1>6. ASSUME NEW d \in Bgs, NEW e \in ServersFor(d)
      PROVE  /\ Batches(r, d, e) = Batches(net, d, e)
             /\ Pushes(r, e, d) = Pushes(net, e, d) - (IF d = b /\ e = s THEN 1 ELSE 0)
             /\ Pushes(net, e, d) \in Nat
  <2>1. d # s /\ e # b
    BY <1>1, Ends, Kinds
  <2>2. /\ Batches(r, d, e) = Batches(net, d, e) -
             (IF \/ "BgServerPushRowAck" = "ClientSendOpLog" /\ b = d /\ s = e
                 \/ "BgServerPushRowAck" = "ServerOpLogAck" /\ b = e /\ s = d THEN 1 ELSE 0)
        /\ Pushes(r, e, d) = Pushes(net, e, d) -
             (IF \/ "BgServerPushRowAck" = "ServerPushRow" /\ b = e /\ s = d
                 \/ "BgServerPushRowAck" = "BgServerPushRowAck" /\ b = d /\ s = e THEN 1 ELSE 0)
    BY <1>1, WaitsRest
  <2> HIDE DEF r
  <2>3. Batches(net, d, e) \in Nat /\ Pushes(net, e, d) \in Nat
    BY <1>1, WaitsInNat
  <2>. QED
    BY <2>1, <2>2, <2>3
<1>7. \A d \in Servers : \A x \in BgsFor(d) : x \in Bgs /\ d \in ServersFor(x)
  BY Links
<1> HIDE DEF acked, r
<1>8. \A d \in BgsFor(s) : acked.pending[d] = Pushes(r, s, d)
  BY <1>3, <1>4, <1>6, <1>7 DEF ServerAcks
<1>9. OnlyServer(r, net, s)
  BY <1>6, <1>7 DEF OnlyServer
(* Before the shutdown is sent: what is still held back or due waits.      *)
<1>10. /\ ServerOK(s, after) /\ NetOK(sent)
       /\ \A d \in BgsFor(s) : after.pending[d] = Pushes(sent, s, d)
       /\ after.held => PendingAcks(after)
       /\ OnlyServer(sent, net, s)
  <2>1. CASE resend
    <3>1. after = Tracked(acked) /\ sent = PushMsgs(r, s)
      BY <2>1
    <3>2. ServerOK(s, after)
      BY <1>4, <3>1, TrackedType
    <3> HIDE DEF resend, after, sent
    <3>3. /\ ServerAcks(sent, s, after) /\ NetOK(sent) /\ after.held = FALSE
          /\ OnlyServer(sent, r, s)
      BY <1>2, <1>4, <1>8, <3>1, PushesSent
    <3>4. OnlyServer(sent, net, s)
      BY <1>9, <3>3, OnlyTrans
    <3>. QED
      BY <3>2, <3>3, <3>4 DEF ServerAcks
  <2>2. CASE ~resend
    <3>1. acked.held => PendingAcks(acked)
      BY <1>4, <2>2, FullWaits
    <3>. QED
      BY <1>2, <1>4, <1>8, <1>9, <2>2, <3>1
  <2>. QED
    BY <2>1, <2>2
<1> HIDE DEF after, sent
<1>11. CASE ShutDownDue(after)
  <2> DEFINE ended == [after EXCEPT !.ending = FALSE, !.at = "exited"]
  <2>1. <<"ServerShutDownAck", 0>> \in Msgs /\ "ServerShutDownAck" \notin TrackedTypes
    BY MsgTypes DEF PlainTypes, TrackedTypes
  <2>2. SameWaits(net', sent)
    BY <1>1, <1>5, <1>10, <1>11, <2>1, SameSend DEF ShutDownAcks
  <2>3. ended.pending = after.pending /\ ended.held = after.held /\ ended.ending = FALSE
    BY <1>10 DEF ServerOK
  <2>4. server' = [server EXCEPT ![s] = ended]
    BY <1>5, <1>11
  <2> HIDE DEF ended
  <2>5. ServerAcks(net', s, server'[s])
    BY <1>3, <1>7, <1>10, <2>2, <2>3, <2>4 DEF ServerAcks, SameWaits, PendingAcks
  <2>6. OnlyServer(net', net, s)
    BY <1>10, <2>2, OnlySame, OnlyTrans
  <2>. QED
    BY <1>3, <1>5, <2>4, <2>5, <2>6, ServerMoves
<1>12. CASE ~ShutDownDue(after)
  <2>1. after.ending => PendingAcks(after)
    BY <1>10, <1>12 DEF ShutDownDue, MayShutDown
  <2>2. ServerAcks(net', s, server'[s])
    BY <1>3, <1>5, <1>10, <1>12, <2>1 DEF ServerAcks
  <2>. QED
    BY <1>3, <1>5, <1>10, <1>12, <2>2, ServerMoves
<1>. QED
  BY <1>11, <1>12

LEMMA InitAcks == Init => AcksInv
<1> SUFFICES ASSUME Init PROVE AcksInv
  OBVIOUS
<1>1. ASSUME NEW b \in Bgs, NEW s \in ServersFor(b)
      PROVE  Batches(net, b, s) = 0 /\ Pushes(net, s, b) = 0
  <2>1. s # NameNode /\ b # NameNode
    BY Ends, Kinds
  <2>2. net[b][s] = << >> /\ net[s][b] = << >>
    BY <2>1, Ends DEF Init
  <2>. QED
    BY <2>2, CountEmpty DEF Batches, Pushes
<1>2. \A s \in Servers : \A b \in BgsFor(s) : b \in Bgs /\ s \in ServersFor(b)
  BY Links
<1>3. ASSUME NEW b \in Bgs PROVE BgAcks(net, b, bg[b])
  BY <1>1 DEF Init, BgAcks
<1>4. ASSUME NEW s \in Servers PROVE ServerAcks(net, s, server[s])
  BY <1>1, <1>2 DEF Init, ServerAcks
<1>. QED
  BY <1>3, <1>4 DEF AcksInv

LEMMA AcksStep == TypeOK /\ AcksInv /\ [Next]_lvars => AcksInv'
<1> SUFFICES ASSUME TypeOK, AcksInv, [Next]_lvars PROVE AcksInv'
  OBVIOUS
<1>1. CASE NameNodeStep
  BY <1>1, CalmNameNode, CalmNameNodeTables, CalmKeeps DEF NameNodeStep
<1>2. ASSUME NEW s \in Servers, ServerStep(s) PROVE AcksInv'
  BY <1>2, CalmServer, CalmKeeps, ServerOpLogAcks, ServerPushRowAckAcks DEF ServerStep
<1>3. ASSUME NEW b \in Bgs, BgStep(b) PROVE AcksInv'
  BY <1>3, CalmBg, CalmBgThread, CalmKeeps, BgClockAcks, BgOpLogAckAcks, BgPushRowAcks
     DEF BgStep
<1>4. ASSUME NEW c \in Clients, InitThreadStep(c) PROVE AcksInv'
  BY <1>4, CalmClient, CalmKeeps
<1>5. ASSUME NEW t \in Threads, ThreadStep(t) \/ Clock(t) PROVE AcksInv'
  BY <1>5, CalmThread, CalmKeeps
<1>6. CASE UNCHANGED lvars
  BY <1>6 DEF lvars, AcksInv, BgAcks, ServerAcks
<1>. QED
  BY <1>1, <1>2, <1>3, <1>4, <1>5, <1>6 DEF Next, Progress

(* What a worker or a server holds back, its shutdown included, waits for  *)
(* an acknowledgement that comes: MsgTracker's counts are the messages     *)
(* that wait on the two directions of the link, and a window that is full  *)
(* or a shutdown that is not allowed yet means that one does.              *)
THEOREM HeldShutDownAnswered == Spec => []HeldShutDownAwaitsAck
<1>1. TypeOK /\ AcksInv => HeldShutDownAwaitsAck
  BY AcksCounted
<1>. QED
  BY <1>1, InitType, TypeStep, InitAcks, AcksStep, PTL DEF Spec
-----------------------------------------------------------------------------
(* The messages that drain: clocks, batches and what ends them.            *)
DrainTypes == {"BgClock", "AppThreadDereg", "ClientSendOpLog", "ClientShutDown"}

Number(q, w) == Count(q, OfType(w))

(* Clocks of a client that are still on their way to its worker b.         *)
Ticks(b) == {p \in ThreadsOf(b[2]) \X (Nat \ {0}) : p[2] <= Number(net[p[1]][b], "BgClock")}

Ended(t) == thread[t].at \in {"deregistered", "exited"}

(* The threads whose end b has seen, and that b has told its servers.      *)
Gone(b) == {t \in ThreadsOf(b[2]) : Ended(t) /\ Number(net[t][b], "AppThreadDereg") = 0}
Done(b) == bg[b].deregs = Cardinality(ThreadsOf(b[2])) /\ ~bg[b].ending

(* The workers whose end s has seen.                                       *)
ShutBy(s) == {b \in BgsFor(s) : Done(b) /\ Number(net[b][s], "ClientShutDown") = 0}

(* A thread's end follows its clocks.                                      *)
Orderly(q) ==
  \A i, j \in 1 .. Len(q) :
    i < j /\ q[i][1] = "AppThreadDereg" => q[j][1] \notin {"BgClock", "AppThreadDereg"}

(* The last batch of q, or the last one received, has clock k.             *)
Newest(q, k, received) ==
  \/ \E i \in 1 .. Len(q) :
       /\ q[i] = <<"ClientSendOpLog", k>>
       /\ \A j \in 1 .. Len(q) : i < j => q[j][1] # "ClientSendOpLog"
  \/ received = k /\ \A i \in 1 .. Len(q) : q[i][1] # "ClientSendOpLog"

(* The clocks that b has seen and those under way make the client's.       *)
TicksCounted(b) ==
  /\ IsFiniteSet(Ticks(b))
  /\ bg[b].clock + Cardinality(Ticks(b)) = ProcessClock(b[2], thread)

EndsFollowClocks(b) ==
  \A t \in ThreadsOf(b[2]) :
    /\ Orderly(net[t][b])
    /\ Number(net[t][b], "AppThreadDereg") > 0 => Ended(t)
    /\ t \in Gone(b) => Number(net[t][b], "BgClock") = 0

EndsCounted(b) ==
  /\ bg[b].deregs = Cardinality(Gone(b))
  /\ bg[b].ending => bg[b].deregs = Cardinality(ThreadsOf(b[2]))
  /\ Done(b) => ~bg[b].held /\ ~PendingAcks(bg[b])

BgDrains(b) == TicksCounted(b) /\ EndsFollowClocks(b) /\ EndsCounted(b)

(* Unless it is held back, the last batch of b to s has the clock of b.    *)
LinkDrains(b, s) ==
  bg[b].held \/ Newest(net[b][s], bg[b].clock, server[s].clock[b])

(* A server that exits, or is going to, has heard of every worker's end.   *)
Ending(x) == x.ending \/ x.at = "exited"

ServerDrains(s) ==
  /\ server[s].shut = Cardinality(ShutBy(s))
  /\ Ending(server[s]) => server[s].shut = Cardinality(Clients)
  /\ \A b \in BgsFor(s) :
       /\ Number(net[b][s], "ClientShutDown") <= 1
       /\ Number(net[b][s], "ClientShutDown") > 0 => Done(b)

DrainInv ==
  /\ \A b \in Bgs : BgDrains(b) /\ \A s \in ServersFor(b) : LinkDrains(b, s)
  /\ \A s \in Servers : ServerDrains(s)
-----------------------------------------------------------------------------
(* What a receipt and a message do to a queue.                             *)
LEMMA Elements ==
  ASSUME NEW q \in Seq(Msgs)
  PROVE  Len(q) \in Nat /\ \A i \in 1 .. Len(q) : q[i] \in Msgs
BY ElementOfSeq, LenProperties

LEMMA NumberZero ==
  ASSUME NEW q \in Seq(Msgs), NEW w
  PROVE  /\ Number(q, w) \in Nat
         /\ Number(q, w) = 0 <=> \A i \in 1 .. Len(q) : q[i][1] # w
<1>1. Count(q, OfType(w)) = 0 <=> \A i \in 1 .. Len(q) : q[i] \notin OfType(w)
  BY CountZero
<1>2. \A i \in 1 .. Len(q) : q[i] \in OfType(w) <=> q[i][1] = w
  BY Elements DEF OfType
<1>3. Count(q, OfType(w)) \in Nat
  BY CountType
<1>. QED
  BY <1>1, <1>2, <1>3 DEF Number

LEMMA Taken ==
  ASSUME NEW q \in Seq(Msgs), q # << >>
  PROVE  /\ Tail(q) \in Seq(Msgs)
         /\ Len(q) \in Nat \ {0} /\ Len(Tail(q)) = Len(q) - 1
         /\ Head(q) = q[1] /\ Head(q) \in Msgs
         /\ \A i \in 1 .. Len(Tail(q)) : i + 1 \in 1 .. Len(q) /\ Tail(q)[i] = q[i + 1]
         /\ \A w : Number(q, w) = IF Head(q)[1] = w THEN Number(Tail(q), w) + 1
                                                   ELSE Number(Tail(q), w)
<1>1. /\ Tail(q) \in Seq(Msgs)
      /\ Len(q) \in Nat \ {0} /\ Len(Tail(q)) = Len(q) - 1
      /\ Head(q) = q[1] /\ Head(q) \in Msgs
      /\ \A i \in 1 .. Len(Tail(q)) : i + 1 \in 1 .. Len(q) /\ Tail(q)[i] = q[i + 1]
  BY HeadTailProperties, EmptySeq
<1>2. ASSUME NEW w
      PROVE  Number(q, w) = IF Head(q)[1] = w THEN Number(Tail(q), w) + 1
                                              ELSE Number(Tail(q), w)
  <2>1. Head(q) \in OfType(w) <=> Head(q)[1] = w
    BY <1>1 DEF OfType
  <2>2. Count(q, OfType(w)) = IF Head(q) \in OfType(w) THEN Count(Tail(q), OfType(w)) + 1
                                                       ELSE Count(Tail(q), OfType(w))
    BY CountTail
  <2>. QED
    BY <2>1, <2>2 DEF Number
<1>. QED
  BY <1>1, <1>2

LEMMA Added ==
  ASSUME NEW q \in Seq(Msgs), NEW m \in Msgs
  PROVE  /\ Append(q, m) \in Seq(Msgs)
         /\ Len(q) \in Nat /\ Len(Append(q, m)) = Len(q) + 1
         /\ Append(q, m)[Len(q) + 1] = m
         /\ \A i \in 1 .. Len(q) : Append(q, m)[i] = q[i]
         /\ \A w : Number(Append(q, m), w) = IF m[1] = w THEN Number(q, w) + 1
                                                          ELSE Number(q, w)
<1>1. /\ Append(q, m) \in Seq(Msgs)
      /\ Len(q) \in Nat /\ Len(Append(q, m)) = Len(q) + 1
      /\ Append(q, m)[Len(q) + 1] = m
      /\ \A i \in 1 .. Len(q) : Append(q, m)[i] = q[i]
  BY AppendProperties
<1>2. \A w : m \in OfType(w) <=> m[1] = w
  BY DEF OfType
<1>. QED
  BY <1>1, <1>2, CountAppend DEF Number

LEMMA OrderlyTail ==
  ASSUME NEW q \in Seq(Msgs), q # << >>, Orderly(q)
  PROVE  /\ Orderly(Tail(q))
         /\ Head(q)[1] = "AppThreadDereg" =>
              Number(Tail(q), "BgClock") = 0 /\ Number(Tail(q), "AppThreadDereg") = 0
<1> DEFINE p == Tail(q)
<1>1. /\ p \in Seq(Msgs) /\ Len(q) \in Nat \ {0} /\ Len(p) = Len(q) - 1 /\ Head(q) = q[1]
      /\ \A i \in 1 .. Len(p) : i + 1 \in 1 .. Len(q) /\ p[i] = q[i + 1]
  BY Taken
<1> HIDE DEF p
<1>2. Orderly(p)
  <2>1. SUFFICES ASSUME NEW i \in 1 .. Len(p), NEW j \in 1 .. Len(p), i < j,
                        p[i][1] = "AppThreadDereg"
                 PROVE  p[j][1] \notin {"BgClock", "AppThreadDereg"}
    BY DEF Orderly
  <2>2. /\ i + 1 \in 1 .. Len(q) /\ j + 1 \in 1 .. Len(q) /\ i + 1 < j + 1
        /\ q[i + 1] = p[i] /\ q[j + 1] = p[j]
    BY <1>1, <2>1
  <2>. QED
    BY <2>1, <2>2 DEF Orderly
<1>3. ASSUME Head(q)[1] = "AppThreadDereg"
      PROVE  \A i \in 1 .. Len(p) : p[i][1] # "BgClock" /\ p[i][1] # "AppThreadDereg"
  BY <1>1, <1>3 DEF Orderly
<1>. QED
  BY <1>1, <1>2, <1>3, NumberZero DEF p

LEMMA OrderlyAppend ==
  ASSUME NEW q \in Seq(Msgs), NEW m \in Msgs, Orderly(q),
         Number(q, "AppThreadDereg") = 0 \/ m[1] \notin {"BgClock", "AppThreadDereg"}
  PROVE  Orderly(Append(q, m))
<1> DEFINE p == Append(q, m)
<1>1. /\ Len(q) \in Nat /\ Len(p) = Len(q) + 1 /\ p[Len(q) + 1] = m
      /\ \A i \in 1 .. Len(q) : p[i] = q[i]
  BY Added
<1> HIDE DEF p
<1>2. SUFFICES ASSUME NEW i \in 1 .. Len(p), NEW j \in 1 .. Len(p), i < j,
                      p[i][1] = "AppThreadDereg"
               PROVE  p[j][1] \notin {"BgClock", "AppThreadDereg"}
  BY DEF Orderly, p
<1>3. i \in 1 .. Len(q) /\ p[i] = q[i]
  BY <1>1, <1>2
<1>4. CASE j = Len(q) + 1
  <2>1. Number(q, "AppThreadDereg") # 0
    BY <1>2, <1>3, NumberZero
  <2>. QED
    BY <1>1, <1>4, <2>1
<1>5. CASE j # Len(q) + 1
  BY <1>1, <1>2, <1>3, <1>5 DEF Orderly
<1>. QED
  BY <1>4, <1>5

LEMMA NewestTail ==
  ASSUME NEW q \in Seq(Msgs), q # << >>, NEW k, NEW r, Newest(q, k, r)
  PROVE  Newest(Tail(q), k, IF Head(q)[1] = "ClientSendOpLog" THEN Head(q)[2] ELSE r)
<1> DEFINE p == Tail(q)
           v == IF Head(q)[1] = "ClientSendOpLog" THEN Head(q)[2] ELSE r
<1>1. /\ p \in Seq(Msgs) /\ Len(q) \in Nat \ {0} /\ Len(p) = Len(q) - 1 /\ Head(q) = q[1]
      /\ \A i \in 1 .. Len(p) : i + 1 \in 1 .. Len(q) /\ p[i] = q[i + 1]
  BY Taken
<1> HIDE DEF p
<1>2. ASSUME NEW i \in 1 .. Len(q), q[i] = <<"ClientSendOpLog", k>>,
             \A j \in 1 .. Len(q) : i < j => q[j][1] # "ClientSendOpLog"
      PROVE  Newest(p, k, v)
  <2>1. CASE i = 1
    <3>1. v = k
      BY <1>1, <1>2, <2>1
    <3>2. \A j \in 1 .. Len(p) : p[j][1] # "ClientSendOpLog"
      BY <1>1, <1>2, <2>1
    <3>. QED
      BY <3>1, <3>2 DEF Newest
  <2>2. CASE i # 1
    <3>1. i - 1 \in 1 .. Len(p) /\ p[i - 1] = <<"ClientSendOpLog", k>>
      BY SMTT(20), <1>1, <1>2, <2>2
    <3>2. \A j \in 1 .. Len(p) : i - 1 < j => p[j][1] # "ClientSendOpLog"
      BY <1>1, <1>2
    <3>. QED
      BY <3>1, <3>2 DEF Newest
  <2>. QED
    BY <2>1, <2>2
<1>3. ASSUME r = k, \A i \in 1 .. Len(q) : q[i][1] # "ClientSendOpLog"
      PROVE  Newest(p, k, v)
  BY <1>1, <1>3 DEF Newest
<1>. QED
  BY <1>2, <1>3 DEF Newest, p

LEMMA NewestAppend ==
  ASSUME NEW q \in Seq(Msgs), NEW m \in Msgs, NEW k, NEW r
  PROVE  /\ m = <<"ClientSendOpLog", k>> => Newest(Append(q, m), k, r)
         /\ m[1] # "ClientSendOpLog" /\ Newest(q, k, r) => Newest(Append(q, m), k, r)
<1> DEFINE p == Append(q, m)
<1>1. /\ Len(q) \in Nat /\ Len(p) = Len(q) + 1 /\ p[Len(q) + 1] = m
      /\ \A i \in 1 .. Len(q) : p[i] = q[i]
  BY Added
<1> HIDE DEF p
<1>2. ASSUME m = <<"ClientSendOpLog", k>> PROVE Newest(p, k, r)
  <2>1. /\ Len(q) + 1 \in 1 .. Len(p) /\ p[Len(q) + 1] = <<"ClientSendOpLog", k>>
        /\ \A j \in 1 .. Len(p) : Len(q) + 1 < j => p[j][1] # "ClientSendOpLog"
    BY <1>1, <1>2
  <2>. QED
    BY <2>1 DEF Newest
<1>3. ASSUME m[1] # "ClientSendOpLog", Newest(q, k, r) PROVE Newest(p, k, r)
  <2>1. \A j \in 1 .. Len(p) : j \in 1 .. Len(q) \/ p[j][1] # "ClientSendOpLog"
    BY <1>1, <1>3
  <2>2. \A i \in 1 .. Len(q) : i \in 1 .. Len(p)
    BY <1>1
  <2>3. CASE \E i \in 1 .. Len(q) :
               /\ q[i] = <<"ClientSendOpLog", k>>
               /\ \A j \in 1 .. Len(q) : i < j => q[j][1] # "ClientSendOpLog"
    BY <1>1, <2>1, <2>2, <2>3 DEF Newest
  <2>4. CASE r = k /\ \A i \in 1 .. Len(q) : q[i][1] # "ClientSendOpLog"
    BY <1>1, <2>1, <2>4 DEF Newest
  <2>. QED
    BY <1>3, <2>3, <2>4 DEF Newest
<1>. QED
  BY <1>2, <1>3 DEF p

-----------------------------------------------------------------------------
(* What the invariant says of a queue stays true of p when it is true of q.*)
KeepsQueue(p, q) ==
  /\ \A w \in DrainTypes : Number(p, w) = Number(q, w)
  /\ Orderly(q) => Orderly(p)
  /\ \A k, r \in Nat : Newest(q, k, r) => Newest(p, k, r)

(* What is sent to the name node is not looked at.                         *)
Keeps(p, n) ==
  \A x \in Nodes : \A y \in Peers(x) \ {NameNode} : KeepsQueue(p[x][y], n[x][y])

LEMMA KeepsTrans ==
  ASSUME NEW p, NEW q, NEW r, Keeps(p, q), Keeps(q, r)
  PROVE  Keeps(p, r)
<1>1. \A x \in Nodes : \A y \in Peers(x) \ {NameNode} :
        KeepsQueue(p[x][y], q[x][y]) /\ KeepsQueue(q[x][y], r[x][y])
  BY DEF Keeps
<1>2. ASSUME NEW e, NEW f, NEW g, KeepsQueue(e, f), KeepsQueue(f, g) PROVE KeepsQueue(e, g)
  BY <1>2 DEF KeepsQueue
<1>. QED
  BY <1>1, <1>2 DEF Keeps

LEMMA KeepsRest ==
  ASSUME NetOK(net), NEW from \in Nodes, NEW to, Looked(from, to),
         Head(net[from][to])[1] \notin DrainTypes \/ to = NameNode
  PROVE  Keeps(Rest(from, to), net)
<1>1. SUFFICES ASSUME NEW x \in Nodes, NEW y \in Peers(x) \ {NameNode}
               PROVE  KeepsQueue(Rest(from, to)[x][y], net[x][y])
  BY DEF Keeps
<1> DEFINE q == net[x][y]
<1>2. q \in Seq(Msgs)
  BY DEF NetOK
<1>3. Rest(from, to)[x][y] = IF x = from /\ y = to THEN Tail(q) ELSE q
  BY RestAt
<1>4. CASE x = from /\ y = to
  <2>1. q # << >> /\ Head(q)[1] \notin DrainTypes
    BY <1>1, <1>4, RestAt
  <2> HIDE DEF q
  <2>2. \A w \in DrainTypes : Number(Tail(q), w) = Number(q, w)
    BY <1>2, <2>1, Taken
  <2>3. Orderly(q) => Orderly(Tail(q))
    BY <1>2, <2>1, OrderlyTail
  <2>4. \A k, r \in Nat : Newest(q, k, r) => Newest(Tail(q), k, r)
    BY <1>2, <2>1, NewestTail DEF DrainTypes
  <2>. QED
    BY <1>3, <1>4, <2>2, <2>3, <2>4 DEF KeepsQueue, q
<1>5. CASE ~(x = from /\ y = to)
  BY <1>3, <1>5 DEF KeepsQueue
<1>. QED
  BY <1>4, <1>5

LEMMA KeepsSend ==
  ASSUME NEW n, NetOK(n), NEW from \in Nodes, NEW dests, NEW m \in Msgs,
         m[1] \notin DrainTypes
  PROVE  Keeps(Send(n, from, dests, m), n)
<1>1. SUFFICES ASSUME NEW x \in Nodes, NEW y \in Peers(x) \ {NameNode}
               PROVE  KeepsQueue(Send(n, from, dests, m)[x][y], n[x][y])
  BY DEF Keeps
<1> DEFINE q == n[x][y]
<1>2. q \in Seq(Msgs)
  BY DEF NetOK
<1>3. Send(n, from, dests, m)[x][y] = IF x = from /\ y \in dests THEN Append(q, m) ELSE q
  BY SendAt
<1> HIDE DEF q
<1>4. KeepsQueue(Append(q, m), q)
  <2>1. \A w \in DrainTypes : Number(Append(q, m), w) = Number(q, w)
    BY <1>2, Added
  <2>2. Orderly(q) => Orderly(Append(q, m))
    BY <1>2, OrderlyAppend DEF DrainTypes
  <2>3. \A k, r \in Nat : Newest(q, k, r) => Newest(Append(q, m), k, r)
    BY <1>2, NewestAppend DEF DrainTypes
  <2>. QED
    BY <2>1, <2>2, <2>3 DEF KeepsQueue
<1>5. KeepsQueue(q, q)
  BY DEF KeepsQueue
<1>. QED
  BY <1>3, <1>4, <1>5 DEF q

LEMMA KeepsStep ==
  ASSUME NetOK(net), NEW from \in Nodes, NEW to, Looked(from, to),
         Head(net[from][to])[1] \notin DrainTypes \/ to = NameNode,
         NEW x \in Nodes, NEW dests, NEW m \in Msgs, NEW more, NEW k \in Msgs,
         m[1] \notin DrainTypes, k[1] \notin DrainTypes
  PROVE  /\ Keeps(Rest(from, to), net)
         /\ Keeps(Send(Rest(from, to), x, dests, m), net)
         /\ Keeps(Send(Send(Rest(from, to), x, dests, m), x, more, k), net)
<1> DEFINE r == Rest(from, to)
           p == Send(r, x, dests, m)
           q == Send(p, x, more, k)
<1>1. NetOK(r) /\ NetOK(p) /\ NetOK(q)
  BY NetStep
<1>2. Keeps(r, net)
  BY KeepsRest
<1> HIDE DEF r
<1>3. Keeps(p, r)
  BY <1>1, KeepsSend
<1>4. Keeps(p, net)
  BY <1>2, <1>3, KeepsTrans
<1> HIDE DEF p
<1>5. Keeps(q, p)
  BY <1>1, KeepsSend
<1>6. Keeps(q, net)
  BY <1>4, <1>5, KeepsTrans
<1>. QED
  BY <1>2, <1>4, <1>6 DEF r, p, q

(* A step that leaves alone what the invariant speaks of; a server that    *)
(* exits was waiting to.                                                   *)
ThreadsStill == \A t \in Threads : thread'[t].clock = thread[t].clock /\ Ended(t)' = Ended(t)

BgStill(x, y) ==
  /\ x.clock = y.clock /\ x.deregs = y.deregs /\ x.pending = y.pending
  /\ x.held = y.held /\ x.ending = y.ending
BgsStill == \A b \in Bgs : BgStill(bg'[b], bg[b])

ServerStill(x, y) ==
  x.clock = y.clock /\ x.shut = y.shut /\ (Ending(x) => Ending(y))
ServersStill == \A s \in Servers : ServerStill(server'[s], server[s])

Still == Keeps(net', net) /\ ThreadsStill /\ BgsStill /\ ServersStill

LEMMA StillSame ==
  ASSUME TypeOK
  PROVE  /\ thread' = thread => ThreadsStill
         /\ bg' = bg => BgsStill
         /\ server' = server => ServersStill
BY DEF ThreadsStill, Ended, BgsStill, BgStill, ServersStill, ServerStill

LEMMA StillNameNode ==
  ASSUME TypeOK
  PROVE  /\ \A x \in Bgs \cup Servers : NameNodeConnection(x) => Still
         /\ \A b \in Bgs : NameNodeShutDown(b) => Still
<1>1. ASSUME NEW x \in Bgs \cup Servers, NameNodeConnection(x) PROVE Still
  <2>1. /\ <<"ConnectServer", 0>> \in Msgs /\ <<"ClientStart", 0>> \in Msgs
        /\ "ConnectServer" \notin DrainTypes /\ "ClientStart" \notin DrainTypes
    BY MsgTypes DEF PlainTypes, DrainTypes
  <2>2. /\ NetOK(net) /\ Looked(x, NameNode) /\ x \in Nodes /\ NameNode \in Nodes
        /\ Head(net[x][NameNode])[1] \notin DrainTypes
    BY <1>1, Kinds DEF NameNodeConnection, TypeOK, Gets, DrainTypes
  <2>3. /\ Keeps(Rest(x, NameNode), net)
        /\ Keeps(Send(Send(Rest(x, NameNode), NameNode, Bgs, <<"ConnectServer", 0>>),
                          NameNode, Bgs, <<"ClientStart", 0>>), net)
    BY <2>1, <2>2, KeepsStep
  <2>. QED
    BY <1>1, <2>3, StillSame DEF NameNodeConnection, Still
<1>2. ASSUME NEW b \in Bgs, NameNodeShutDown(b) PROVE Still
  <2>1. <<"ServerShutDownAck", 0>> \in Msgs /\ "ServerShutDownAck" \notin DrainTypes
    BY MsgTypes DEF PlainTypes, DrainTypes
  <2>2. /\ NetOK(net) /\ Looked(b, NameNode) /\ b \in Nodes /\ NameNode \in Nodes
    BY <1>2, Kinds DEF NameNodeShutDown, TypeOK, Gets
  <2>3. /\ Keeps(Rest(b, NameNode), net)
        /\ Keeps(Send(Rest(b, NameNode), NameNode, Bgs, <<"ServerShutDownAck", 0>>), net)
    BY <2>1, <2>2, KeepsStep
  <2>. QED
    BY <1>2, <2>3, StillSame DEF NameNodeShutDown, Still
<1>. QED
  BY <1>1, <1>2

LEMMA KeepsAnswers ==
  ASSUME NEW m, NetOK(m), NEW n, NEW t \in Tables, NEW workers
  PROVE  Keeps(AnswerMsgs(m, n, t, workers), m)
<1> DEFINE p == Send(m, NameNode, workers, <<"CreateTableReply", t>>)
           q == Send(p, NameNode, {HeadBg(c) : c \in Clients}, <<"CreatedAllTables", 0>>)
<1>1. /\ <<"CreateTableReply", t>> \in Msgs /\ <<"CreatedAllTables", 0>> \in Msgs
      /\ "CreateTableReply" \notin DrainTypes /\ "CreatedAllTables" \notin DrainTypes
      /\ NameNode \in Nodes
  BY MsgTypes, Kinds DEF TableTypes, PlainTypes, DrainTypes
<1>2. NetOK(p) /\ Keeps(p, m)
  BY <1>1, SendAt, KeepsSend
<1>3. AnswerMsgs(m, n, t, workers) = p \/ AnswerMsgs(m, n, t, workers) = q
  BY AnswerMsgsAt
<1> HIDE DEF p
<1>4. Keeps(q, p)
  BY <1>1, <1>2, KeepsSend
<1>5. Keeps(q, m)
  BY <1>2, <1>4, KeepsTrans
<1>. QED
  BY <1>2, <1>3, <1>5

LEMMA StillNameNodeTables ==
  ASSUME TypeOK
  PROVE  /\ \A b \in Bgs : NameNodeCreateTable(b) => Still
         /\ \A s \in Servers : NameNodeCreateTableReply(s) => Still
<1>1. ASSUME NEW b \in Bgs, NameNodeCreateTable(b) PROVE Still
  <2>1. PICK t \in Tables : t = Content(b, NameNode)
    BY <1>1, NameNodeCreateTableType
  <2> DEFINE known == [name EXCEPT !.known = @ \cup {t}]
             asked == IF t \notin name.known
                      THEN Send(Rest(b, NameNode), NameNode, Servers, <<"CreateTable", t>>)
                      ELSE Rest(b, NameNode)
  <2>2. /\ NetOK(net) /\ Looked(b, NameNode) /\ b \in Nodes /\ NameNode \in Nodes
        /\ Head(net[b][NameNode])[1] \notin DrainTypes
    BY <1>1, Kinds DEF NameNodeCreateTable, TypeOK, Gets, DrainTypes
  <2>3. <<"CreateTable", t>> \in Msgs /\ "CreateTable" \notin DrainTypes
    BY MsgTypes DEF TableTypes, DrainTypes
  <2>4. Keeps(asked, net) /\ NetOK(asked)
    BY <2>2, <2>3, KeepsStep, NetStep
  <2>5. net' = asked \/ net' = AnswerMsgs(asked, known, t, {b})
    BY <1>1, <2>1 DEF NameNodeCreateTable
  <2> HIDE DEF asked
  <2>6. Keeps(AnswerMsgs(asked, known, t, {b}), net)
    BY <2>4, KeepsAnswers, KeepsTrans
  <2>. QED
    BY <1>1, <2>4, <2>5, <2>6, StillSame DEF NameNodeCreateTable, Still
<1>2. ASSUME NEW s \in Servers, NameNodeCreateTableReply(s) PROVE Still
  <2>1. PICK t \in Tables : t = Content(s, NameNode)
    BY <1>2, NameNodeCreateTableReplyType
  <2> DEFINE replied == [name EXCEPT !.replies[t] = @ + 1]
             r == Rest(s, NameNode)
  <2>2. /\ NetOK(net) /\ Looked(s, NameNode) /\ s \in Nodes /\ NameNode \in Nodes
        /\ Head(net[s][NameNode])[1] \notin DrainTypes
    BY <1>2, Kinds DEF NameNodeCreateTableReply, TypeOK, Gets, DrainTypes
  <2>3. Keeps(r, net) /\ NetOK(r)
    BY <2>2, KeepsRest, RestAt
  <2>4. net' = r \/ net' = AnswerMsgs(r, replied, t, name.waiting[t])
    BY <1>2, <2>1 DEF NameNodeCreateTableReply
  <2> HIDE DEF r
  <2>5. Keeps(AnswerMsgs(r, replied, t, name.waiting[t]), net)
    BY <2>3, KeepsAnswers, KeepsTrans
  <2>. QED
    BY <1>2, <2>3, <2>4, <2>5, StillSame DEF NameNodeCreateTableReply, Still
<1>. QED
  BY <1>1, <1>2

LEMMA StillServer ==
  ASSUME TypeOK, NEW s \in Servers
  PROVE  /\ ServerCreateTable(s) => Still
         /\ \A b \in BgsFor(s) : ServerConnection(s, b) => Still
         /\ \A b \in BgsFor(s) : ServerPushRowAck(s, b) => Still
<1>1. NetOK(net) /\ NameNode \in Nodes /\ s \in Nodes /\ BgsFor(s) \subseteq Nodes
  BY Kinds, Links DEF TypeOK
<1>2. /\ <<"ClientStart", 0>> \in Msgs /\ <<"ServerShutDownAck", 0>> \in Msgs
      /\ "ClientStart" \notin DrainTypes /\ "ServerShutDownAck" \notin DrainTypes
      /\ "CreateTableReply" \notin DrainTypes
      /\ <<"ServerPushRow", 0>> \in Msgs /\ "ServerPushRow" \notin DrainTypes
  BY MsgTypes DEF PlainTypes, DrainTypes
<1>3. DOMAIN server = Servers /\ ServerOK(s, server[s])
  BY DEF TypeOK
<1>4. ASSUME ServerCreateTable(s) PROVE Still
  <2>1. Looked(NameNode, s) /\ Head(net[NameNode][s])[1] \notin DrainTypes
    BY <1>4 DEF ServerCreateTable, Gets, DrainTypes
  <2>2. PICK t \in Tables : t = Content(NameNode, s)
    BY <1>4, ServerCreateTableType
  <2>3. <<"CreateTableReply", t>> \in Msgs
    BY MsgTypes DEF TableTypes
  <2>4. Keeps(Send(Rest(NameNode, s), s, {NameNode}, <<"CreateTableReply", t>>), net)
    BY <1>1, <1>2, <2>1, <2>3, KeepsStep
  <2>5. ServersStill
    BY <1>3, <1>4 DEF ServerCreateTable, ServerOK, ServersStill, ServerStill, Ending
  <2>. QED
    BY <1>4, <2>2, <2>4, <2>5, StillSame DEF ServerCreateTable, Still
<1>5. ASSUME NEW b \in BgsFor(s), ServerConnection(s, b) PROVE Still
  <2>1. Looked(b, s) /\ Head(net[b][s])[1] \notin DrainTypes
    BY <1>5 DEF ServerConnection, Gets, DrainTypes
  <2>2. /\ Keeps(Rest(b, s), net)
        /\ Keeps(Send(Rest(b, s), s, BgsFor(s), <<"ClientStart", 0>>), net)
    BY <1>1, <1>2, <2>1, KeepsStep
  <2>3. ServersStill
    BY <1>3, <1>5 DEF ServerConnection, ServerOK, ServersStill, ServerStill, Ending
  <2>. QED
    BY <1>5, <2>2, <2>3, StillSame DEF ServerConnection, Still
<1>6. ASSUME NEW b \in BgsFor(s), ServerPushRowAck(s, b) PROVE Still
  <2> DEFINE acked  == [server[s] EXCEPT !.pending[b] = @ - 1]
             resend == acked.held /\ CheckSendAll(acked)
             after  == IF resend THEN Tracked(acked) ELSE acked
             r      == Rest(b, s)
             sent   == IF resend THEN PushMsgs(r, s) ELSE r
  <2>1. Looked(b, s) /\ Head(net[b][s])[1] \notin DrainTypes
    BY <1>6 DEF ServerPushRowAck, Gets, DrainTypes
  <2>2. NetOK(r) /\ NetOK(PushMsgs(r, s)) /\ Keeps(r, net) /\ Keeps(PushMsgs(r, s), net)
    BY <1>1, <1>2, <2>1, NetStep, KeepsStep DEF PushMsgs
  <2>3. NetOK(sent) /\ Keeps(sent, net)
    BY <2>2
  <2>4. /\ acked.clock = server[s].clock /\ acked.shut = server[s].shut
        /\ acked.at = server[s].at /\ acked.ending = server[s].ending
    BY <1>3 DEF ServerOK
  <2>5. /\ Tracked(acked).clock = acked.clock /\ Tracked(acked).shut = acked.shut
        /\ Tracked(acked).at = acked.at /\ Tracked(acked).ending = acked.ending
        /\ DOMAIN acked = DOMAIN server[s] /\ DOMAIN Tracked(acked) = DOMAIN server[s]
    BY <1>3 DEF ServerOK, Tracked
  <2>6. /\ after.clock = server[s].clock /\ after.shut = server[s].shut
        /\ after.at = server[s].at /\ after.ending = server[s].ending
        /\ DOMAIN after = DOMAIN server[s]
    BY <2>4, <2>5
  <2>7. /\ IF ShutDownDue(after)
           THEN server' = [server EXCEPT ![s] = [after EXCEPT !.ending = FALSE, !.at = "exited"]]
                /\ net' = ShutDownAcks(sent, s)
           ELSE server' = [server EXCEPT ![s] = after] /\ net' = sent
        /\ UNCHANGED <<thread, tables, bg, name>>
    BY <1>6 DEF ServerPushRowAck
  <2> HIDE DEF acked, resend, after, r, sent
  <2>8. Keeps(ShutDownAcks(sent, s), net)
    BY <1>1, <1>2, <2>3, KeepsSend, KeepsTrans DEF ShutDownAcks
  <2>9. ServersStill
    <3>1. ServerStill(after, server[s])
      BY <2>6 DEF ServerStill, Ending
    <3>2. CASE ShutDownDue(after)
      <4> DEFINE ended == [after EXCEPT !.ending = FALSE, !.at = "exited"]
      <4>1. ended.clock = after.clock /\ ended.shut = after.shut /\ after.ending
        BY <1>3, <2>6, <3>2 DEF ServerOK, ShutDownDue
      <4>2. server' = [server EXCEPT ![s] = ended]
        BY <2>7, <3>2
      <4>3. ServerStill(ended, server[s])
        BY <2>6, <4>1 DEF ServerStill, Ending
      <4> HIDE DEF ended
      <4>. QED
        BY <1>3, <4>2, <4>3 DEF ServersStill, ServerStill
    <3>3. CASE ~ShutDownDue(after)
      BY <1>3, <2>7, <3>1, <3>3 DEF ServersStill, ServerStill
    <3>. QED
      BY <3>2, <3>3
  <2>. QED
    BY <2>3, <2>7, <2>8, <2>9, StillSame DEF Still
<1>. QED
  BY <1>4, <1>5, <1>6

LEMMA StillBg ==
  ASSUME TypeOK, NEW b \in Bgs
  PROVE  /\ BgConnectServers(b) => Still
         /\ BgTableCreated(b) => Still
         /\ BgAllTablesCreated(b) => Still
         /\ \A x \in ServersFor(b) \cup {NameNode} : BgStart(b, x) \/ BgShutDownAck(b, x) => Still
         /\ \A s \in ServersFor(b) : BgPushRow(b, s) => Still
<1>1. NetOK(net) /\ b \in Nodes /\ NameNode \in Nodes
  BY Kinds DEF TypeOK
<1>2. DOMAIN bg = Bgs /\ BgOK(b, bg[b])
  BY DEF TypeOK
<1>3. ASSUME BgConnectServers(b) PROVE Still
  <2>1. Looked(NameNode, b) /\ Head(net[NameNode][b])[1] \notin DrainTypes
    BY <1>3 DEF BgConnectServers, Gets, DrainTypes
  <2>2. <<"ClientConnect", 0>> \in Msgs /\ "ClientConnect" \notin DrainTypes
    BY MsgTypes DEF PlainTypes, DrainTypes
  <2>3. Keeps(Send(Rest(NameNode, b), b, ServersFor(b), <<"ClientConnect", 0>>), net)
    BY <1>1, <2>1, <2>2, KeepsStep
  <2>4. BgsStill
    BY <1>2, <1>3 DEF BgConnectServers, BgOK, BgsStill, BgStill
  <2>. QED
    BY <1>3, <2>3, <2>4, StillSame DEF BgConnectServers, Still
<1>4. ASSUME BgTableCreated(b) PROVE Still
  <2>1. Looked(NameNode, b) /\ Head(net[NameNode][b])[1] \notin DrainTypes
    BY <1>4 DEF BgTableCreated, Gets, DrainTypes
  <2>2. PICK t \in Tables : t = Content(NameNode, b)
    BY <1>4, BgTableCreatedType
  <2>3. <<"CreateTableReply", t>> \in Msgs /\ "CreateTableReply" \notin DrainTypes
    BY MsgTypes DEF TableTypes, DrainTypes
  <2>4. Keeps(Send(Rest(NameNode, b), b, {InitThread[b[2]]}, <<"CreateTableReply", t>>), net)
    BY <1>1, <2>1, <2>3, KeepsStep
  <2>5. BgsStill
    BY <1>2, <1>4 DEF BgTableCreated, BgOK, BgsStill, BgStill
  <2>. QED
    BY <1>4, <2>2, <2>4, <2>5, StillSame DEF BgTableCreated, Still
<1>5. ASSUME BgAllTablesCreated(b) PROVE Still
  <2>1. Looked(NameNode, b) /\ Head(net[NameNode][b])[1] \notin DrainTypes
    BY <1>5 DEF BgAllTablesCreated, Gets, DrainTypes
  <2>2. Keeps(Rest(NameNode, b), net)
    BY <1>1, <2>1, KeepsRest
  <2>3. BgsStill
    BY <1>2, <1>5 DEF BgAllTablesCreated, BgOK, BgsStill, BgStill
  <2>. QED
    BY <1>5, <2>2, <2>3, StillSame DEF BgAllTablesCreated, Still
<1>6. ASSUME NEW x \in ServersFor(b) \cup {NameNode}, BgStart(b, x) \/ BgShutDownAck(b, x)
      PROVE  Still
  <2>1. Looked(x, b) /\ x \in Nodes /\ Head(net[x][b])[1] \notin DrainTypes
    BY <1>6, Kinds, Links DEF BgStart, BgShutDownAck, Gets, DrainTypes
  <2>2. Keeps(Rest(x, b), net)
    BY <1>1, <2>1, KeepsRest
  <2>3. BgsStill
    BY <1>2, <1>6 DEF BgStart, BgShutDownAck, BgOK, BgsStill, BgStill
  <2>. QED
    BY <1>6, <2>2, <2>3, StillSame DEF BgStart, BgShutDownAck, Still
<1>7. ASSUME NEW s \in ServersFor(b), BgPushRow(b, s) PROVE Still
  <2>1. Looked(s, b) /\ s \in Nodes /\ Head(net[s][b])[1] \notin DrainTypes
    BY <1>7, Ends DEF BgPushRow, Gets, DrainTypes
  <2>2. <<"BgServerPushRowAck", 0>> \in Msgs /\ "BgServerPushRowAck" \notin DrainTypes
    BY MsgTypes DEF PlainTypes, DrainTypes
  <2>3. Keeps(Send(Rest(s, b), b, {s}, <<"BgServerPushRowAck", 0>>), net)
    BY <1>1, <2>1, <2>2, KeepsStep
  <2>. QED
    BY <1>7, <2>3, StillSame DEF BgPushRow, Still
<1>. QED
  BY <1>3, <1>4, <1>5, <1>6, <1>7

LEMMA StillBgThread ==
  ASSUME TypeOK, NEW b \in Bgs, NEW t \in ThreadsOf(b[2])
  PROVE  /\ BgInitThread(b, t) \/ BgConnect(b, t) => Still
         /\ BgCreateTable(b, t) => Still
<1>1. NetOK(net) /\ b \in Nodes /\ t \in Nodes
  BY Kinds DEF TypeOK, ThreadsOf
<1>2. DOMAIN bg = Bgs /\ BgOK(b, bg[b])
  BY DEF TypeOK
<1>3. ASSUME BgInitThread(b, t) \/ BgConnect(b, t) PROVE Still
  <2>1. Looked(t, b) /\ Head(net[t][b])[1] \notin DrainTypes
    BY <1>3 DEF BgInitThread, BgConnect, Gets, DrainTypes
  <2>2. Keeps(Rest(t, b), net)
    BY <1>1, <2>1, KeepsRest
  <2>3. BgsStill
    BY <1>2, <1>3 DEF BgInitThread, BgConnect, BgOK, BgsStill, BgStill
  <2>. QED
    BY <1>3, <2>2, <2>3, StillSame DEF BgInitThread, BgConnect, Still
<1>4. ASSUME BgCreateTable(b, t) PROVE Still
  <2>1. Looked(t, b) /\ Head(net[t][b])[1] = "BgCreateTable"
    BY <1>4 DEF BgCreateTable, Gets
  <2>2. Content(t, b) \in Tables
    BY <1>1, <2>1, RestAt, MsgTypes DEF Content, TableTypes
  <2>3. <<"CreateTable", Content(t, b)>> \in Msgs /\ "CreateTable" \notin DrainTypes
    BY <2>2, MsgTypes DEF TableTypes, DrainTypes
  <2>4. Keeps(Send(Rest(t, b), b, {NameNode}, <<"CreateTable", Content(t, b)>>), net)
    <3>1. Head(net[t][b])[1] \notin DrainTypes
      BY <2>1 DEF DrainTypes
    <3>. QED
      BY <1>1, <2>1, <2>3, <3>1, KeepsStep
  <2>5. BgsStill
    BY <1>2, <1>4 DEF BgCreateTable, BgOK, BgsStill, BgStill
  <2>. QED
    BY <1>4, <2>4, <2>5, StillSame DEF BgCreateTable, Still
<1>. QED
  BY <1>3, <1>4

LEMMA StillClient ==
  ASSUME TypeOK, NEW c \in Clients
  PROVE  InitThreadStep(c) => Still
<1>1. NetOK(net) /\ HeadBg(c) \in Nodes /\ InitThread[c] \in Nodes /\ InitThread[c] \in Threads
  BY Kinds, Links DEF TypeOK
<1>2. Keeps(net, net)
  BY DEF Keeps, KeepsQueue
<1>3. DOMAIN bg = Bgs /\ \A d \in Bgs : BgOK(d, bg[d])
  BY DEF TypeOK
<1>4. thread \in [Threads -> [at : ThreadPhases, clock : Nat]]
  BY DEF TypeOK
(* A step moves the thread to another phase of its life.                   *)
<1>5. ASSUME NEW at, thread' = [thread EXCEPT ![InitThread[c]].at = at],
             at \in {"deregistered", "exited"} <=> Ended(InitThread[c])
      PROVE  ThreadsStill
  BY <1>1, <1>4, <1>5 DEF ThreadsStill, Ended
<1>6. ASSUME InitBarrier(c) PROVE Still
  <2>1. <<"AppConnect", 0>> \in Msgs /\ "AppConnect" \notin DrainTypes
    BY MsgTypes DEF PlainTypes, DrainTypes
  <2>2. Keeps(Send(net, InitThread[c], BgsOf(c), <<"AppConnect", 0>>), net)
    BY <1>1, <2>1, KeepsSend
  <2>3. BgsStill
    BY <1>3, <1>6 DEF InitBarrier, BgOK, BgsStill, BgStill
  <2>4. ThreadsStill
    BY <1>5, <1>6 DEF InitBarrier, Ended
  <2>. QED
    BY <1>6, <2>2, <2>3, <2>4, StillSame DEF InitBarrier, Still
<1>7. ASSUME TableCreated(c) PROVE Still
  <2>1. /\ Looked(HeadBg(c), InitThread[c])
        /\ Head(net[HeadBg(c)][InitThread[c]])[1] \notin DrainTypes
    BY <1>7 DEF TableCreated, Gets, DrainTypes
  <2>2. Keeps(Rest(HeadBg(c), InitThread[c]), net)
    BY <1>1, <2>1, KeepsRest
  <2>3. ThreadsStill
    BY <1>5, <1>7 DEF TableCreated, Ended
  <2>. QED
    BY <1>7, <2>2, <2>3, StillSame DEF TableCreated, Still
<1>8. ASSUME CreateTableBarrier(c) PROVE Still
  <2>1. BgsStill
    BY <1>3, <1>8 DEF CreateTableBarrier, BgOK, BgsStill, BgStill
  <2>2. ThreadsStill
    BY <1>5, <1>8 DEF CreateTableBarrier, Ended
  <2>. QED
    BY <1>2, <1>8, <2>1, <2>2, StillSame DEF CreateTableBarrier, Still
<1>9. ASSUME RegisterBarrier(c) PROVE Still
  <2>1. ThreadsStill
    BY <1>4, <1>9 DEF RegisterBarrier, ThreadsStill, Ended
  <2>. QED
    BY <1>2, <1>9, <2>1, StillSame DEF RegisterBarrier, Still
<1>10. ASSUME ShutDown(c) PROVE Still
  <2>1. ThreadsStill
    BY <1>5, <1>10 DEF ShutDown, Ended
  <2>. QED
    BY <1>2, <1>10, <2>1, StillSame DEF ShutDown, Still
<1>11. ASSUME NEW t \in Tables, CreateTable(c, t) PROVE Still
  <2>1. <<"BgCreateTable", t>> \in Msgs /\ "BgCreateTable" \notin DrainTypes
    BY MsgTypes DEF TableTypes, DrainTypes
  <2>2. Keeps(Send(net, InitThread[c], {HeadBg(c)}, <<"BgCreateTable", t>>), net)
    BY <1>1, <2>1, KeepsSend
  <2>3. ThreadsStill
    BY <1>5, <1>11 DEF CreateTable, Ended
  <2>. QED
    BY <1>11, <2>2, <2>3, StillSame DEF CreateTable, Still
<1>. QED
  BY <1>6, <1>7, <1>8, <1>9, <1>10, <1>11 DEF InitThreadStep

LEMMA StillThread ==
  ASSUME TypeOK, NEW t \in Threads, RegisterThread(t)
  PROVE  Still
<1>1. NetOK(net) /\ t \in Nodes /\ thread \in [Threads -> [at : ThreadPhases, clock : Nat]]
  BY Kinds DEF TypeOK
<1>2. <<"AppConnect", 0>> \in Msgs /\ "AppConnect" \notin DrainTypes
  BY MsgTypes DEF PlainTypes, DrainTypes
<1>3. Keeps(Send(net, t, BgsOf(ClientOf[t]), <<"AppConnect", 0>>), net)
  BY <1>1, <1>2, KeepsSend
<1>4. ThreadsStill
  BY <1>1 DEF RegisterThread, ThreadsStill, Ended
<1>. QED
  BY <1>3, <1>4, StillSame DEF RegisterThread, Still
-----------------------------------------------------------------------------
(* A link between a thread and a worker.                                   *)
LEMMA ThreadLink ==
  ASSUME NEW b \in Bgs, NEW t \in ThreadsOf(b[2])
  PROVE  /\ t \in Nodes /\ t \in Threads /\ ClientOf[t] = b[2] /\ b \in BgsOf(b[2])
         /\ b \in Nodes /\ b \in Peers(t) \ {NameNode} /\ b # t
<1>1. t \in Threads /\ ClientOf[t] = b[2] /\ b \in BgsOf(b[2])
  BY DEF ThreadsOf, BgsOf
<1>. QED
  BY <1>1, Kinds, Links

LEMMA ThreadLinkType ==
  ASSUME NEW n, NetOK(n), NEW b \in Bgs, NEW t \in ThreadsOf(b[2])
  PROVE  n[t][b] \in Seq(Msgs)
BY ThreadLink DEF NetOK

LEMMA ServerLinkType ==
  ASSUME NEW n, NetOK(n), NEW b \in Bgs, NEW s \in ServersFor(b)
  PROVE  n[b][s] \in Seq(Msgs)
BY Ends DEF NetOK

(* What a worker hears of its threads, what a server hears of a worker.    *)
KeepsBg(b)      == \A t \in ThreadsOf(b[2]) : KeepsQueue(net'[t][b], net[t][b])
KeepsServer(s)  == \A b \in BgsFor(s) : KeepsQueue(net'[b][s], net[b][s])

LEMMA KeepsLinks ==
  ASSUME Keeps(net', net)
  PROVE  /\ \A b \in Bgs : KeepsBg(b)
         /\ \A s \in Servers : KeepsServer(s)
<1>1. ASSUME NEW b \in Bgs, NEW t \in ThreadsOf(b[2]) PROVE KeepsQueue(net'[t][b], net[t][b])
  BY ThreadLink DEF Keeps
<1>2. ASSUME NEW s \in Servers, NEW b \in BgsFor(s) PROVE KeepsQueue(net'[b][s], net[b][s])
  <2>1. b \in Bgs /\ s \in ServersFor(b)
    BY Links
  <2>2. b \in Nodes /\ s \in Peers(b) /\ s # NameNode
    BY <2>1, Ends, Kinds
  <2>. QED
    BY <2>2 DEF Keeps
<1>. QED
  BY <1>1, <1>2 DEF KeepsBg, KeepsServer

(* The threads of a client stay at their clocks and go on.                 *)
EndsStill(c) == \A t \in ThreadsOf(c) : Ended(t)' = Ended(t)

LEMMA ThreadsStay ==
  ASSUME ThreadsStill, NEW c
  PROVE  EndsStill(c) /\ ProcessClock(c, thread') = ProcessClock(c, thread)
<1>1. [t \in ThreadsOf(c) |-> thread'[t].clock] = [t \in ThreadsOf(c) |-> thread[t].clock]
  BY DEF ThreadsStill, ThreadsOf
<1>2. EndsStill(c)
  BY DEF ThreadsStill, EndsStill, ThreadsOf
<1>. QED
  BY <1>1, <1>2 DEF ProcessClock

LEMMA TicksStay ==
  ASSUME NEW b \in Bgs, TicksCounted(b),
         \A t \in ThreadsOf(b[2]) : Number(net'[t][b], "BgClock") = Number(net[t][b], "BgClock"),
         bg'[b].clock = bg[b].clock, ProcessClock(b[2], thread') = ProcessClock(b[2], thread)
  PROVE  TicksCounted(b)'
<1>1. Ticks(b)' = Ticks(b)
  BY DEF Ticks
<1>. QED
  BY <1>1 DEF TicksCounted

LEMMA GoneStays ==
  ASSUME NEW b \in Bgs, EndsStill(b[2]), KeepsBg(b)
  PROVE  Gone(b)' = Gone(b)
<1>1. \A t \in ThreadsOf(b[2]) : /\ Ended(t)' = Ended(t)
                                 /\ Number(net'[t][b], "AppThreadDereg") =
                                      Number(net[t][b], "AppThreadDereg")
  BY DEF EndsStill, KeepsBg, KeepsQueue, DrainTypes
<1>. QED
  BY <1>1 DEF Gone

LEMMA EndsStay ==
  ASSUME NEW b \in Bgs, EndsStill(b[2]), KeepsBg(b), EndsFollowClocks(b)
  PROVE  EndsFollowClocks(b)'
<1>1. \A t \in ThreadsOf(b[2]) :
        /\ Ended(t)' = Ended(t)
        /\ Orderly(net[t][b]) => Orderly(net'[t][b])
        /\ Number(net'[t][b], "AppThreadDereg") = Number(net[t][b], "AppThreadDereg")
        /\ Number(net'[t][b], "BgClock") = Number(net[t][b], "BgClock")
  BY DEF EndsStill, KeepsBg, KeepsQueue, DrainTypes
<1>2. Gone(b)' = Gone(b)
  BY GoneStays
<1>. QED
  BY <1>1, <1>2 DEF EndsFollowClocks

LEMMA BgStays ==
  ASSUME NEW b \in Bgs, KeepsBg(b), BgStill(bg'[b], bg[b]), BgDrains(b),
         EndsStill(b[2]), ProcessClock(b[2], thread') = ProcessClock(b[2], thread)
  PROVE  BgDrains(b)' /\ (Done(b)' <=> Done(b))
<1>1. TicksCounted(b)'
  BY TicksStay DEF BgDrains, KeepsBg, KeepsQueue, DrainTypes, BgStill
<1>2. EndsFollowClocks(b)'
  BY EndsStay DEF BgDrains
<1>3. Done(b)' <=> Done(b)
  BY DEF Done, BgStill
<1>4. PendingAcks(bg'[b]) <=> PendingAcks(bg[b])
  BY DEF PendingAcks, BgStill
<1>5. EndsCounted(b)'
  BY <1>3, <1>4, GoneStays DEF BgDrains, EndsCounted, BgStill
<1>. QED
  BY <1>1, <1>2, <1>3, <1>5 DEF BgDrains

LEMMA LinkStays ==
  ASSUME TypeOK, NEW b \in Bgs, NEW s \in ServersFor(b), LinkDrains(b, s),
         KeepsQueue(net'[b][s], net[b][s]), bg'[b].held = bg[b].held,
         bg'[b].clock = bg[b].clock, server'[s].clock[b] = server[s].clock[b]
  PROVE  LinkDrains(b, s)'
<1>1. bg[b].clock \in Nat /\ server[s].clock[b] \in Nat
  BY Ends DEF TypeOK, BgOK, ServerOK
<1>. QED
  BY <1>1 DEF LinkDrains, KeepsQueue

LEMMA ServerStays ==
  ASSUME NEW s \in Servers, ServerDrains(s), server'[s].shut = server[s].shut,
         Ending(server'[s]) => Ending(server[s]),
         \A b \in BgsFor(s) : /\ Done(b)' <=> Done(b)
                              /\ Number(net'[b][s], "ClientShutDown") =
                                   Number(net[b][s], "ClientShutDown")
  PROVE  ServerDrains(s)'
<1>1. ShutBy(s)' = ShutBy(s)
  BY DEF ShutBy
<1>. QED
  BY <1>1 DEF ServerDrains

LEMMA StillDrains ==
  ASSUME TypeOK, DrainInv, Still
  PROVE  DrainInv'
<1>1. /\ \A b \in Bgs : KeepsBg(b) /\ BgStill(bg'[b], bg[b]) /\ BgDrains(b)
      /\ \A s \in Servers : KeepsServer(s) /\ ServerStill(server'[s], server[s])
      /\ ThreadsStill
  BY KeepsLinks DEF Still, BgsStill, ServersStill, DrainInv
<1>2. ASSUME NEW b \in Bgs PROVE BgDrains(b)' /\ (Done(b)' <=> Done(b))
  BY <1>1, BgStays, ThreadsStay
<1>3. ASSUME NEW b \in Bgs, NEW s \in ServersFor(b) PROVE LinkDrains(b, s)'
  <2>1. s \in Servers /\ b \in BgsFor(s)
    BY Ends
  <2>. QED
    BY <1>1, <2>1, LinkStays DEF DrainInv, KeepsServer, BgStill, ServerStill
<1>4. ASSUME NEW s \in Servers PROVE ServerDrains(s)'
  <2>1. BgsFor(s) \subseteq Bgs
    BY Links
  <2>. QED
    BY <1>1, <1>2, <2>1, ServerStays DEF DrainInv, KeepsServer, KeepsQueue, DrainTypes, ServerStill
<1>. QED
  BY <1>2, <1>3, <1>4 DEF DrainInv
-----------------------------------------------------------------------------
(* Minima of finite sets of numbers.                                       *)
LEMMA FiniteHasLeast ==
  ASSUME NEW S, S \subseteq Nat, S # {}, IsFiniteSet(S)
  PROVE  \E x \in S : \A y \in S : x <= y
<1> DEFINE Bad == {T \in SUBSET S : T # {} /\ ~\E x \in T : \A y \in T : x <= y}
<1>1. SUFFICES ASSUME Bad # {} PROVE FALSE
  OBVIOUS
<1>2. Bad \subseteq FiniteSubsetsOf(S)
  BY FS_FiniteSubsetsOfFinite
<1>3. PICK T \in Bad : \A U \in Bad : <<U, T>> \notin StrictSubsetOrdering(S)
  BY <1>1, <1>2, FS_StrictSubsetOrderingWellFounded, WFMin
<1>4. PICK x \in T : TRUE
  OBVIOUS
<1>5. T \ {x} \notin Bad
  BY <1>3, <1>4 DEF StrictSubsetOrdering
<1>6. CASE T \ {x} = {}
  BY <1>4, <1>6
<1>7. CASE T \ {x} # {}
  <2>1. PICK m \in T \ {x} : \A y \in T \ {x} : m <= y
    BY <1>5, <1>7
  <2>2. x \in Nat /\ m \in Nat /\ \A y \in T : y \in Nat
    BY <1>4
  <2>3. (\A y \in T : m <= y) \/ (\A y \in T : x <= y)
    BY <2>1, <2>2
  <2>. QED
    BY <2>1, <2>3, <1>4
<1>. QED
  BY <1>6, <1>7

LEMMA MinClockIs ==
  ASSUME NEW S, IsFiniteSet(S), S # {}, NEW f \in [S -> Nat]
  PROVE  /\ MinClock(f) \in Nat
         /\ \E x \in S : MinClock(f) = f[x]
         /\ \A x \in S : MinClock(f) <= f[x]
<1> DEFINE R == {f[x] : x \in DOMAIN f}
<1>1. R \subseteq Nat /\ R # {}
  OBVIOUS
<1>2. IsFiniteSet(R)
  <2>1. f \in Surjection(S, R)
    BY DEF Surjection
  <2>. QED
    BY <2>1, FS_Surjection
<1>3. \E m \in R : \A y \in R : m <= y
  BY <1>1, <1>2, FiniteHasLeast
<1>4. MinClock(f) = CHOOSE m \in R : \A x \in DOMAIN f : m <= f[x]
  BY DEF MinClock
<1>5. \E m \in R : \A x \in DOMAIN f : m <= f[x]
  BY <1>3
<1>6. MinClock(f) \in R /\ \A x \in DOMAIN f : MinClock(f) <= f[x]
  BY <1>4, <1>5
<1>. QED
  BY <1>1, <1>6

LEMMA FiniteThreads ==
  ASSUME NEW c \in Clients
  PROVE  /\ IsFiniteSet(ThreadsOf(c)) /\ ThreadsOf(c) # {}
         /\ Cardinality(ThreadsOf(c)) \in Nat \ {0}
<1>1. IsFiniteSet(ThreadsOf(c)) /\ ThreadsOf(c) # {}
  BY FiniteKinds, Links, FS_Subset
<1>. QED
  BY <1>1, FS_CardinalityType, FS_EmptySet

(* A clock of a thread moves the clock of its client by at most one.       *)
LEMMA ClockMoves ==
  ASSUME TypeOK, NEW t \in Threads, Clock(t)
  PROVE  /\ \A c \in Clients : ProcessClock(c, thread) \in Nat
         /\ \A c \in Clients \ {ClientOf[t]} :
              ProcessClock(c, thread') = ProcessClock(c, thread)
         /\ ProcessClock(ClientOf[t], thread') \in
              {ProcessClock(ClientOf[t], thread), ProcessClock(ClientOf[t], thread) + 1}
<1> DEFINE c == ClientOf[t]
           Clocks(d, th) == [u \in ThreadsOf(d) |-> th[u].clock]
<1>1. /\ thread \in [Threads -> [at : ThreadPhases, clock : Nat]]
      /\ thread' = [thread EXCEPT ![t].clock = @ + 1]
      /\ c \in Clients /\ t \in ThreadsOf(c) /\ \A d \in Clients : ThreadsOf(d) \subseteq Threads
  BY Links DEF TypeOK, Clock, ThreadsOf
<1>2. /\ thread'[t].clock = thread[t].clock + 1 /\ thread[t].clock \in Nat
      /\ \A u \in Threads \ {t} : thread'[u] = thread[u]
      /\ \A u \in Threads : thread[u].clock \in Nat
  BY <1>1
<1>3. \A d \in Clients \ {c} : Clocks(d, thread') = Clocks(d, thread)
  BY <1>1, <1>2 DEF ThreadsOf
<1>4. \A d \in Clients : Clocks(d, thread) \in [ThreadsOf(d) -> Nat]
  BY <1>1, <1>2
<1>5. Clocks(c, thread') \in [ThreadsOf(c) -> Nat]
  BY <1>1, <1>2
<1>6. \A d \in Clients : ProcessClock(d, thread) \in Nat
  BY <1>4, FiniteThreads, MinClockIs DEF ProcessClock
<1>7. PICK x \in ThreadsOf(c) : ProcessClock(c, thread) = thread[x].clock
  <2>1. \E x \in ThreadsOf(c) : MinClock(Clocks(c, thread)) = Clocks(c, thread)[x]
    BY <1>1, <1>4, FiniteThreads, MinClockIs
  <2>. QED
    BY <2>1 DEF ProcessClock
<1>8. \A u \in ThreadsOf(c) : ProcessClock(c, thread) <= thread[u].clock
  BY <1>1, <1>4, FiniteThreads, MinClockIs DEF ProcessClock
<1>9. PICK z \in ThreadsOf(c) : ProcessClock(c, thread') = thread'[z].clock
  BY <1>1, <1>5, FiniteThreads, MinClockIs DEF ProcessClock
<1>10. ProcessClock(c, thread') <= thread'[x].clock
  BY <1>1, <1>5, FiniteThreads, MinClockIs DEF ProcessClock
<1>11. /\ thread[z].clock \in Nat /\ thread[x].clock \in Nat
       /\ thread'[z].clock \in {thread[z].clock, thread[z].clock + 1}
       /\ thread'[x].clock \in {thread[x].clock, thread[x].clock + 1}
       /\ thread[x].clock <= thread[z].clock
  BY <1>1, <1>2, <1>7, <1>8
<1>12. ProcessClock(c, thread') \in {ProcessClock(c, thread), ProcessClock(c, thread) + 1}
  BY <1>7, <1>9, <1>10, <1>11
<1>. QED
  BY <1>3, <1>6, <1>12 DEF ProcessClock

(* A clock more, or one less, on its way to b.                             *)
LEMMA TicksAdded ==
  ASSUME NetOK(net), NEW b \in Bgs, NEW t \in ThreadsOf(b[2]), IsFiniteSet(Ticks(b)),
         \A u \in ThreadsOf(b[2]) : Number(net'[u][b], "BgClock") =
           IF u = t THEN Number(net[u][b], "BgClock") + 1 ELSE Number(net[u][b], "BgClock")
  PROVE  /\ IsFiniteSet(Ticks(b)') /\ Cardinality(Ticks(b)) \in Nat
         /\ Cardinality(Ticks(b)') = Cardinality(Ticks(b)) + 1
<1> DEFINE n == Number(net[t][b], "BgClock")
           T == ThreadsOf(b[2])
<1>1. \A u \in T : Number(net[u][b], "BgClock") \in Nat
  BY ThreadLinkType, NumberZero
<1>2. <<t, n + 1>> \notin Ticks(b)
  BY <1>1 DEF Ticks
<1>3. Ticks(b)' = Ticks(b) \cup {<<t, n + 1>>}
  <2>1. \A p \in T \X (Nat \ {0}) :
          p[2] <= Number(net'[p[1]][b], "BgClock") <=>
            p[2] <= Number(net[p[1]][b], "BgClock") \/ p = <<t, n + 1>>
    BY <1>1
  <2>2. <<t, n + 1>> \in T \X (Nat \ {0})
    BY <1>1
  <2>. QED
    BY <2>1, <2>2 DEF Ticks
<1>. QED
  BY <1>2, <1>3, FS_AddElement, FS_CardinalityType

LEMMA TicksTaken ==
  ASSUME NetOK(net), NEW b \in Bgs, NEW t \in ThreadsOf(b[2]), IsFiniteSet(Ticks(b)),
         Number(net[t][b], "BgClock") > 0,
         \A u \in ThreadsOf(b[2]) : Number(net'[u][b], "BgClock") =
           IF u = t THEN Number(net[u][b], "BgClock") - 1 ELSE Number(net[u][b], "BgClock")
  PROVE  /\ IsFiniteSet(Ticks(b)') /\ Cardinality(Ticks(b)) \in Nat
         /\ Cardinality(Ticks(b)') = Cardinality(Ticks(b)) - 1
<1> DEFINE n == Number(net[t][b], "BgClock")
           T == ThreadsOf(b[2])
<1>1. \A u \in T : Number(net[u][b], "BgClock") \in Nat
  BY ThreadLinkType, NumberZero
<1>2. <<t, n>> \in Ticks(b)
  BY <1>1 DEF Ticks
<1>3. Ticks(b)' = Ticks(b) \ {<<t, n>>}
  <2>1. \A p \in T \X (Nat \ {0}) :
          p[2] <= Number(net'[p[1]][b], "BgClock") <=>
            p[2] <= Number(net[p[1]][b], "BgClock") /\ p # <<t, n>>
    BY <1>1
  <2>. QED
    BY <2>1 DEF Ticks
<1>. QED
  BY <1>2, <1>3, FS_RemoveElement, FS_CardinalityType
-----------------------------------------------------------------------------
(* Steps that move what the invariant speaks of.                           *)
LEMMA KeepsSelf ==
  \A q : KeepsQueue(q, q)
BY DEF KeepsQueue

(* All threads of b's client have ended: nothing more comes from them.     *)
LEMMA AllGone ==
  ASSUME NEW b \in Bgs, BgDrains(b), bg[b].deregs = Cardinality(ThreadsOf(b[2]))
  PROVE  /\ Gone(b) = ThreadsOf(b[2])
         /\ \A t \in ThreadsOf(b[2]) : /\ Ended(t)
                                       /\ Number(net[t][b], "BgClock") = 0
                                       /\ Number(net[t][b], "AppThreadDereg") = 0
<1>1. IsFiniteSet(ThreadsOf(b[2])) /\ Gone(b) \subseteq ThreadsOf(b[2])
  BY Links, FiniteThreads DEF Gone
<1>2. Cardinality(Gone(b)) = Cardinality(ThreadsOf(b[2]))
  BY DEF BgDrains, EndsCounted
<1>3. Gone(b) = ThreadsOf(b[2])
  BY <1>1, <1>2, FS_Subset
<1>. QED
  BY <1>3 DEF Gone, BgDrains, EndsFollowClocks

(* Sent by t: one message to every worker of its client.                   *)
LEMMA SentByThread ==
  ASSUME NetOK(net), NEW t \in Threads, NEW m \in Msgs,
         net' = Send(net, t, BgsOf(ClientOf[t]), m)
  PROVE  /\ \A b \in Bgs : \A u \in ThreadsOf(b[2]) :
              net'[u][b] = IF u = t THEN Append(net[u][b], m) ELSE net[u][b]
         /\ \A b \in Bgs : \A s \in ServersFor(b) : net'[b][s] = net[b][s]
         /\ \A s \in Servers : \A b \in BgsFor(s) : net'[b][s] = net[b][s]
<1>1. t \in Nodes
  BY Kinds
<1>2. \A x \in Nodes : \A y \in Peers(x) :
        net'[x][y] = IF x = t /\ y \in BgsOf(ClientOf[t]) THEN Append(net[x][y], m)
                                                          ELSE net[x][y]
  BY <1>1, SendAt
<1>3. ASSUME NEW b \in Bgs, NEW u \in ThreadsOf(b[2])
      PROVE  net'[u][b] = IF u = t THEN Append(net[u][b], m) ELSE net[u][b]
  BY <1>2, ThreadLink
<1>4. ASSUME NEW b \in Bgs, NEW s \in ServersFor(b) PROVE net'[b][s] = net[b][s]
  BY <1>2, Ends, Kinds
<1>5. \A s \in Servers : \A b \in BgsFor(s) : b \in Bgs /\ s \in ServersFor(b)
  BY Links
<1>. QED
  BY <1>3, <1>4, <1>5

(* Workers and servers are not concerned.                                  *)
LEMMA OthersStay ==
  ASSUME TypeOK, DrainInv, bg' = bg, server' = server,
         \A b \in Bgs : \A s \in ServersFor(b) : net'[b][s] = net[b][s],
         \A b \in Bgs : BgDrains(b)'
  PROVE  DrainInv'
<1>1. \A b \in Bgs : Done(b)' <=> Done(b)
  BY DEF Done
<1>2. ASSUME NEW b \in Bgs, NEW s \in ServersFor(b) PROVE LinkDrains(b, s)'
  BY LinkStays, KeepsSelf DEF DrainInv
<1>3. ASSUME NEW s \in Servers PROVE ServerDrains(s)'
  <2>1. \A b \in BgsFor(s) : b \in Bgs /\ s \in ServersFor(b)
    BY Links
  <2>. QED
    BY <1>1, <2>1, ServerStays DEF DrainInv
<1>. QED
  BY <1>2, <1>3 DEF DrainInv

LEMMA ClockDrains ==
  ASSUME TypeOK, DrainInv, NEW t \in Threads, Clock(t)
  PROVE  DrainInv'
<1> DEFINE c == ClientOf[t]
           m == <<"BgClock", 0>>
<1>1. NetOK(net) /\ m \in Msgs /\ bg' = bg /\ server' = server /\ c \in Clients
  BY MsgTypes, Links DEF TypeOK, PlainTypes, Clock
<1>2. thread \in [Threads -> [at : ThreadPhases, clock : Nat]]
  BY DEF TypeOK
<1>3. /\ ~Ended(t) /\ \A u \in Threads : Ended(u)' = Ended(u)
  BY <1>2 DEF Clock, Ended
<1>4. \A b \in Bgs : BgDrains(b) /\ BgStill(bg'[b], bg[b]) /\ EndsStill(b[2]) /\ b[2] \in Clients
  BY <1>1, <1>3, Links DEF DrainInv, BgStill, EndsStill, ThreadsOf
<1>5. /\ ProcessClock(c, thread) \in Nat
      /\ ProcessClock(c, thread') \in {ProcessClock(c, thread), ProcessClock(c, thread) + 1}
      /\ \A d \in Clients \ {c} : ProcessClock(d, thread') = ProcessClock(d, thread)
  BY <1>1, ClockMoves
<1>6. CASE ProcessClock(c, thread') = ProcessClock(c, thread)
  <2>1. net' = net
    BY <1>5, <1>6 DEF Clock
  <2>2. ASSUME NEW b \in Bgs PROVE BgDrains(b)'
    <3>1. KeepsBg(b)
      BY <2>1, KeepsSelf DEF KeepsBg
    <3>2. ProcessClock(b[2], thread') = ProcessClock(b[2], thread)
      BY <1>4, <1>5, <1>6
    <3>. QED
      BY <1>4, <3>1, <3>2, BgStays
  <2>. QED
    BY <1>1, <2>1, <2>2, OthersStay
<1>7. CASE ProcessClock(c, thread') = ProcessClock(c, thread) + 1
  <2>1. net' = Send(net, t, BgsOf(c), m)
    BY <1>5, <1>7 DEF Clock
  <2>2. /\ \A b \in Bgs : \A u \in ThreadsOf(b[2]) :
             net'[u][b] = IF u = t THEN Append(net[u][b], m) ELSE net[u][b]
        /\ \A b \in Bgs : \A s \in ServersFor(b) : net'[b][s] = net[b][s]
    BY <1>1, <2>1, SentByThread
  <2>3. ASSUME NEW b \in Bgs, b[2] # c PROVE BgDrains(b)'
    <3>1. \A u \in ThreadsOf(b[2]) : u # t
      BY <2>3 DEF ThreadsOf
    <3>2. KeepsBg(b)
      BY <2>2, <3>1, KeepsSelf DEF KeepsBg
    <3>3. ProcessClock(b[2], thread') = ProcessClock(b[2], thread)
      BY <1>4, <1>5, <2>3
    <3>. QED
      BY <1>4, <3>2, <3>3, BgStays
  <2>4. ASSUME NEW b \in Bgs, b[2] = c PROVE BgDrains(b)'
    <3> DEFINE q(u) == net[u][b]
    <3>1. t \in ThreadsOf(b[2])
      BY <2>4 DEF ThreadsOf
    <3>2. \A u \in ThreadsOf(b[2]) : q(u) \in Seq(Msgs) /\ Number(q(u), "AppThreadDereg") \in Nat
      BY <1>1, ThreadLinkType, NumberZero
    <3>3. \A w : Number(net'[t][b], w) = IF w = "BgClock" THEN Number(q(t), w) + 1 ELSE Number(q(t), w)
      BY <1>1, <2>2, <3>1, <3>2, Added
    <3>4. \A u \in ThreadsOf(b[2]) \ {t} : net'[u][b] = q(u)
      BY <2>2
    <3>5. /\ IsFiniteSet(Ticks(b)') /\ Cardinality(Ticks(b)) \in Nat
          /\ Cardinality(Ticks(b)') = Cardinality(Ticks(b)) + 1
      BY <1>1, <1>4, <3>1, <3>3, <3>4, TicksAdded DEF BgDrains, TicksCounted
    <3>6. bg[b].clock \in Nat
      BY DEF TypeOK, BgOK
    <3>7. TicksCounted(b)'
      BY <1>1, <1>4, <1>5, <1>7, <2>4, <3>5, <3>6 DEF BgDrains, TicksCounted
    <3>8. Number(q(t), "AppThreadDereg") = 0
      BY <1>3, <1>4, <3>1, <3>2 DEF BgDrains, EndsFollowClocks
    <3>9. Orderly(net'[t][b])
      BY <1>1, <1>4, <2>2, <3>1, <3>2, <3>8, OrderlyAppend DEF BgDrains, EndsFollowClocks
    <3>10. Gone(b)' = Gone(b) /\ t \notin Gone(b)
      BY <1>3, <1>4, <3>1, <3>3, <3>4 DEF Gone, EndsStill
    <3>11. EndsFollowClocks(b)'
      BY <1>3, <1>4, <3>1, <3>3, <3>4, <3>9, <3>10 DEF BgDrains, EndsFollowClocks, EndsStill
    <3>12. EndsCounted(b)'
      BY <1>1, <1>4, <3>10 DEF BgDrains, EndsCounted, Done, PendingAcks
    <3>. QED
      BY <3>7, <3>11, <3>12 DEF BgDrains
  <2>. QED
    BY <1>1, <2>2, <2>3, <2>4, OthersStay
<1>. QED
  BY <1>5, <1>6, <1>7

LEMMA DeregisterThreadDrains ==
  ASSUME TypeOK, DrainInv, NEW t \in Threads, DeregisterThread(t)
  PROVE  DrainInv'
<1> DEFINE c == ClientOf[t]
           m == <<"AppThreadDereg", 0>>
<1>1. NetOK(net) /\ m \in Msgs /\ bg' = bg /\ server' = server /\ c \in Clients
  BY MsgTypes, Links DEF TypeOK, PlainTypes, DeregisterThread
<1>2. thread \in [Threads -> [at : ThreadPhases, clock : Nat]]
  BY DEF TypeOK
<1>3. /\ ~Ended(t) /\ Ended(t)' /\ \A u \in Threads \ {t} : Ended(u)' = Ended(u)
      /\ \A u \in Threads : thread'[u].clock = thread[u].clock
  BY <1>2 DEF DeregisterThread, Ended
<1>4. /\ \A b \in Bgs : \A u \in ThreadsOf(b[2]) :
           net'[u][b] = IF u = t THEN Append(net[u][b], m) ELSE net[u][b]
      /\ \A b \in Bgs : \A s \in ServersFor(b) : net'[b][s] = net[b][s]
  <2>1. net' = Send(net, t, BgsOf(c), m)
    BY DEF DeregisterThread
  <2>. QED
    BY <1>1, <2>1, SentByThread
<1>5. ASSUME NEW b \in Bgs PROVE BgDrains(b)'
  <2> DEFINE q(u) == net[u][b]
  <2>1. BgDrains(b) /\ \A u \in ThreadsOf(b[2]) : u \in Threads
    BY DEF DrainInv, ThreadsOf
  <2>2. \A u \in ThreadsOf(b[2]) :
          /\ q(u) \in Seq(Msgs) /\ Number(q(u), "AppThreadDereg") \in Nat
          /\ Number(q(u), "AppThreadDereg") > 0 => Ended(u)
          /\ Orderly(q(u))
    BY <1>1, <2>1, ThreadLinkType, NumberZero DEF BgDrains, EndsFollowClocks
  <2>3. ASSUME NEW u \in ThreadsOf(b[2])
        PROVE  /\ Orderly(net'[u][b])
               /\ Number(net'[u][b], "BgClock") = Number(q(u), "BgClock")
               /\ Number(net'[u][b], "AppThreadDereg") =
                    IF u = t THEN Number(q(u), "AppThreadDereg") + 1
                             ELSE Number(q(u), "AppThreadDereg")
    <3>1. CASE u = t
      <4>1. Number(q(u), "AppThreadDereg") = 0
        BY <1>3, <2>2, <3>1
      <4>. QED
        BY <1>1, <1>4, <2>2, <3>1, <4>1, OrderlyAppend, Added
    <3>2. CASE u # t
      BY <1>4, <2>2, <3>2
    <3>. QED
      BY <3>1, <3>2
  <2>4. ProcessClock(b[2], thread') = ProcessClock(b[2], thread)
    <3>1. [u \in ThreadsOf(b[2]) |-> thread'[u].clock] = [u \in ThreadsOf(b[2]) |-> thread[u].clock]
      BY <1>3, <2>1
    <3>. QED
      BY <3>1 DEF ProcessClock
  <2>5. TicksCounted(b)'
    BY <1>1, <2>1, <2>3, <2>4, TicksStay DEF BgDrains
  <2>6. Gone(b)' = Gone(b) /\ t \notin Gone(b)
    BY <1>3, <2>1, <2>2, <2>3 DEF Gone
  <2>7. EndsFollowClocks(b)'
    BY <1>3, <2>1, <2>2, <2>3, <2>6 DEF BgDrains, EndsFollowClocks
  <2>8. EndsCounted(b)'
    BY <1>1, <2>1, <2>6 DEF BgDrains, EndsCounted, Done, PendingAcks
  <2>. QED
    BY <2>5, <2>7, <2>8 DEF BgDrains
<1>. QED
  BY <1>1, <1>4, <1>5, OthersStay
-----------------------------------------------------------------------------
(* A step of one worker, a step of one server.                             *)
LEMMA OneBg ==
  ASSUME TypeOK, DrainInv, NEW b \in Bgs, thread' = thread, server' = server,
         \A d \in Bgs \ {b} : /\ bg'[d] = bg[d]
                              /\ \A u \in ThreadsOf(d[2]) : net'[u][d] = net[u][d]
                              /\ \A s \in ServersFor(d) : net'[d][s] = net[d][s],
         BgDrains(b)',
         \A s \in ServersFor(b) : LinkDrains(b, s)' /\ ServerDrains(s)'
  PROVE  DrainInv'
<1>1. ThreadsStill
  BY StillSame
<1>2. ASSUME NEW d \in Bgs \ {b}
      PROVE  BgDrains(d)' /\ (Done(d)' <=> Done(d))
  <2>1. KeepsBg(d) /\ BgStill(bg'[d], bg[d]) /\ BgDrains(d)
    BY KeepsSelf DEF KeepsBg, BgStill, DrainInv
  <2>. QED
    BY <1>1, <2>1, ThreadsStay, BgStays
<1>3. ASSUME NEW d \in Bgs \ {b}, NEW s \in ServersFor(d) PROVE LinkDrains(d, s)'
  BY LinkStays, KeepsSelf DEF DrainInv
<1>4. ASSUME NEW s \in Servers, s \notin ServersFor(b) PROVE ServerDrains(s)'
  <2>1. \A d \in BgsFor(s) : d \in Bgs \ {b} /\ s \in ServersFor(d)
    BY <1>4, Links
  <2>. QED
    BY <1>2, <2>1, ServerStays DEF DrainInv
<1>. QED
  BY <1>2, <1>3, <1>4 DEF DrainInv

LEMMA OneServer ==
  ASSUME TypeOK, DrainInv, NEW s \in Servers, thread' = thread, bg' = bg,
         \A d \in Servers \ {s} : server'[d] = server[d],
         \A b \in Bgs : /\ \A u \in ThreadsOf(b[2]) : net'[u][b] = net[u][b]
                        /\ \A d \in ServersFor(b) \ {s} : net'[b][d] = net[b][d],
         \A b \in BgsFor(s) : LinkDrains(b, s)',
         ServerDrains(s)'
  PROVE  DrainInv'
<1>1. ThreadsStill
  BY StillSame
<1>2. ASSUME NEW b \in Bgs PROVE BgDrains(b)' /\ (Done(b)' <=> Done(b))
  <2>1. KeepsBg(b) /\ BgStill(bg'[b], bg[b]) /\ BgDrains(b)
    BY KeepsSelf DEF KeepsBg, BgStill, DrainInv
  <2>. QED
    BY <1>1, <2>1, ThreadsStay, BgStays
<1>3. ASSUME NEW b \in Bgs, NEW d \in ServersFor(b), d # s PROVE LinkDrains(b, d)'
  <2>1. server'[d] = server[d]
    BY <1>3, Ends
  <2>. QED
    BY <1>3, <2>1, LinkStays, KeepsSelf DEF DrainInv
<1>4. ASSUME NEW d \in Servers \ {s} PROVE ServerDrains(d)'
  <2>1. \A b \in BgsFor(d) : b \in Bgs /\ d \in ServersFor(b)
    BY Links
  <2>. QED
    BY <1>2, <2>1, ServerStays DEF DrainInv
<1>5. \A b \in Bgs : s \in ServersFor(b) => LinkDrains(b, s)'
  BY Links
<1>. QED
  BY <1>2, <1>3, <1>4, <1>5 DEF DrainInv

(* What b has received from x and sent to its servers, and what a server   *)
(* has received from b and sent, do to the links.                          *)
LEMMA BgLinks ==
  ASSUME NetOK(net), NEW b \in Bgs, NEW x \in Nodes, Looked(x, b), NEW m \in Msgs,
         NEW dests, ServersFor(b) \subseteq dests
  PROVE  /\ \A d \in Bgs : \A u \in ThreadsOf(d[2]) :
              /\ Rest(x, b)[u][d] = IF d = b /\ u = x THEN Tail(net[u][d]) ELSE net[u][d]
              /\ Send(Rest(x, b), b, dests, m)[u][d] = Rest(x, b)[u][d]
         /\ \A d \in Bgs : \A s \in ServersFor(d) :
              /\ Rest(x, b)[d][s] = net[d][s]
              /\ Send(Rest(x, b), b, dests, m)[d][s] =
                   IF d = b THEN Append(net[d][s], m) ELSE net[d][s]
<1>1. /\ NetOK(Rest(x, b)) /\ b \in Nodes
      /\ \A u \in Nodes : \A v \in Peers(u) :
           Rest(x, b)[u][v] = IF u = x /\ v = b THEN Tail(net[u][v]) ELSE net[u][v]
  BY RestAt, Kinds
<1>2. \A u \in Nodes : \A v \in Peers(u) :
        Send(Rest(x, b), b, dests, m)[u][v] =
          IF u = b /\ v \in dests THEN Append(Rest(x, b)[u][v], m) ELSE Rest(x, b)[u][v]
  BY <1>1, SendAt
<1>3. ASSUME NEW d \in Bgs, NEW u \in ThreadsOf(d[2])
      PROVE  /\ Rest(x, b)[u][d] = IF d = b /\ u = x THEN Tail(net[u][d]) ELSE net[u][d]
             /\ Send(Rest(x, b), b, dests, m)[u][d] = Rest(x, b)[u][d]
  <2>1. u \in Nodes /\ d \in Peers(u) /\ u # b
    BY ThreadLink, Kinds
  <2>. QED
    BY <1>1, <1>2, <2>1
<1>4. ASSUME NEW d \in Bgs, NEW s \in ServersFor(d)
      PROVE  /\ Rest(x, b)[d][s] = net[d][s]
             /\ Send(Rest(x, b), b, dests, m)[d][s] =
                  IF d = b THEN Append(net[d][s], m) ELSE net[d][s]
  <2>1. d \in Nodes /\ s \in Peers(d) /\ s # b
    BY Ends, Kinds
  <2>. QED
    BY <1>1, <1>2, <2>1
<1>. QED
  BY <1>3, <1>4

HeardOnly(n, b, s) ==
  /\ \A d \in Bgs : \A u \in ThreadsOf(d[2]) : n[u][d] = net[u][d]
  /\ \A d \in Bgs : \A e \in ServersFor(d) :
       n[d][e] = IF d = b /\ e = s THEN Tail(net[d][e]) ELSE net[d][e]

LEMMA ServerLinks ==
  ASSUME NetOK(net), NEW s \in Servers, NEW b \in BgsFor(s), Looked(b, s),
         NEW m \in Msgs, NEW dests, NEW k \in Msgs, NEW more
  PROVE  /\ HeardOnly(Rest(b, s), b, s)
         /\ HeardOnly(Send(Rest(b, s), s, dests, m), b, s)
         /\ HeardOnly(Send(Send(Rest(b, s), s, dests, m), s, more, k), b, s)
<1> DEFINE r == Rest(b, s)
           p == Send(r, s, dests, m)
           q == Send(p, s, more, k)
<1>1. /\ b \in Nodes /\ s \in Nodes /\ NetOK(r)
      /\ \A u \in Nodes : \A v \in Peers(u) :
           r[u][v] = IF u = b /\ v = s THEN Tail(net[u][v]) ELSE net[u][v]
  BY RestAt, Kinds, Links
<1> HIDE DEF r
<1>2. NetOK(p) /\ \A u \in Nodes \ {s} : \A v \in Peers(u) : p[u][v] = r[u][v]
  BY <1>1, SendAt
<1> HIDE DEF p
<1>3. \A u \in Nodes \ {s} : \A v \in Peers(u) : q[u][v] = p[u][v]
  BY <1>1, <1>2, SendAt
<1> HIDE DEF q
<1>4. ASSUME NEW n \in {r, p, q} PROVE HeardOnly(n, b, s)
  <2>1. \A u \in Nodes \ {s} : \A v \in Peers(u) :
          n[u][v] = IF u = b /\ v = s THEN Tail(net[u][v]) ELSE net[u][v]
    BY <1>1, <1>2, <1>3
  <2>2. \A d \in Bgs : \A u \in ThreadsOf(d[2]) :
          u \in Nodes \ {s} /\ d \in Peers(u) /\ d # s
    BY ThreadLink, Kinds
  <2>3. \A d \in Bgs : \A e \in ServersFor(d) : d \in Nodes \ {s} /\ e \in Peers(d)
    BY Ends, Kinds
  <2>. QED
    BY <2>1, <2>2, <2>3 DEF HeardOnly
<1>5. HeardOnly(r, b, s) /\ HeardOnly(p, b, s) /\ HeardOnly(q, b, s)
  BY <1>4
<1>. QED
  BY <1>5 DEF q, p, r

LEMMA BgClockDrains ==
  ASSUME TypeOK, DrainInv, NEW b \in Bgs, NEW t \in ThreadsOf(b[2]), BgClock(b, t)
  PROVE  DrainInv'
<1> DEFINE clocked == [bg[b] EXCEPT !.clock = @ + 1]
           m       == <<"ClientSendOpLog", clocked.clock>>
           r       == Rest(t, b)
<1>1. /\ NetOK(net) /\ t \in Nodes /\ Looked(t, b) /\ Head(net[t][b])[1] = "BgClock"
      /\ thread' = thread /\ server' = server
      /\ net[t][b] \in Seq(Msgs) /\ net[t][b] # << >>
  BY ThreadLink, ThreadLinkType DEF TypeOK, BgClock, Gets, Looked
<1>2. DOMAIN bg = Bgs /\ BgOK(b, bg[b])
  BY DEF TypeOK
<1>3. /\ clocked.clock = bg[b].clock + 1 /\ clocked.clock \in Nat
      /\ clocked.deregs = bg[b].deregs /\ clocked.ending = bg[b].ending
      /\ DOMAIN clocked = DOMAIN bg[b]
  BY <1>2 DEF BgOK
<1>4. m \in Msgs
  BY <1>3, MsgTypes DEF PlainTypes
<1>5. \/ bg' = [bg EXCEPT ![b] = Tracked(clocked)] /\ net' = Send(r, b, ServersFor(b), m)
      \/ bg' = [bg EXCEPT ![b] = [clocked EXCEPT !.held = TRUE]] /\ net' = r
  BY DEF BgClock, OpLogMsgs
<1>6. /\ bg'[b].clock = bg[b].clock + 1 /\ bg'[b].deregs = bg[b].deregs
      /\ bg'[b].ending = bg[b].ending
      /\ \A d \in Bgs \ {b} : bg'[d] = bg[d]
  <2>1. /\ Tracked(clocked).clock = clocked.clock /\ Tracked(clocked).deregs = clocked.deregs
        /\ Tracked(clocked).ending = clocked.ending
    BY <1>2, <1>3 DEF BgOK, Tracked
  <2> DEFINE heldBack == [clocked EXCEPT !.held = TRUE]
  <2>2. /\ heldBack.clock = clocked.clock /\ heldBack.deregs = clocked.deregs
        /\ heldBack.ending = clocked.ending
    OBVIOUS
  <2>3. \/ bg' = [bg EXCEPT ![b] = Tracked(clocked)]
        \/ bg' = [bg EXCEPT ![b] = heldBack]
    BY <1>5
  <2> HIDE DEF clocked, heldBack
  <2>. QED
    BY <1>2, <1>3, <2>1, <2>2, <2>3
<1> HIDE DEF m
<1>7. /\ \A d \in Bgs : \A u \in ThreadsOf(d[2]) :
           net'[u][d] = IF d = b /\ u = t THEN Tail(net[u][d]) ELSE net[u][d]
      /\ \A d \in Bgs : \A s \in ServersFor(d) : d # b => net'[d][s] = net[d][s]
      /\ \A s \in ServersFor(b) : \/ net'[b][s] = Append(net[b][s], m)
                                  \/ net'[b][s] = net[b][s] /\ bg'[b].held = TRUE
  <2>1. /\ \A d \in Bgs : \A u \in ThreadsOf(d[2]) :
             /\ r[u][d] = IF d = b /\ u = t THEN Tail(net[u][d]) ELSE net[u][d]
             /\ Send(r, b, ServersFor(b), m)[u][d] = r[u][d]
        /\ \A d \in Bgs : \A s \in ServersFor(d) :
             /\ r[d][s] = net[d][s]
             /\ Send(r, b, ServersFor(b), m)[d][s] =
                  IF d = b THEN Append(net[d][s], m) ELSE net[d][s]
    BY <1>1, <1>4, BgLinks
  <2>2. bg' = [bg EXCEPT ![b] = [clocked EXCEPT !.held = TRUE]] => bg'[b].held = TRUE
    BY <1>2, <1>3 DEF BgOK
  <2>3. CASE net' = Send(r, b, ServersFor(b), m)
    <3> HIDE DEF r, clocked
    <3>. QED
      BY ZenonT(30), <2>1, <2>3
  <2>4. CASE net' = r /\ bg'[b].held = TRUE
    <3> HIDE DEF r, clocked
    <3>. QED
      BY <2>1, <2>4
  <2> HIDE DEF r, clocked
  <2>. QED
    BY <1>5, <2>2, <2>3, <2>4
<1>8. BgDrains(b) /\ \A s \in ServersFor(b) : ServerDrains(s)
  BY Links DEF DrainInv
<1>9. ASSUME NEW u \in ThreadsOf(b[2]) PROVE net[u][b] \in Seq(Msgs)
  BY <1>1, ThreadLinkType
<1>10. /\ Number(net[t][b], "BgClock") \in Nat /\ Number(net[t][b], "BgClock") > 0
       /\ Number(net'[t][b], "BgClock") = Number(net[t][b], "BgClock") - 1
       /\ Number(net'[t][b], "AppThreadDereg") = Number(net[t][b], "AppThreadDereg")
       /\ Orderly(net'[t][b])
  <2>1. net'[t][b] = Tail(net[t][b]) /\ Orderly(net[t][b])
    BY <1>7, <1>8 DEF BgDrains, EndsFollowClocks
  <2>2. Number(Tail(net[t][b]), "BgClock") \in Nat
    BY <1>1, Taken, NumberZero
  <2>3. \A w : Number(net[t][b], w) = IF "BgClock" = w THEN Number(Tail(net[t][b]), w) + 1
                                                       ELSE Number(Tail(net[t][b]), w)
    BY <1>1, Taken
  <2>4. /\ Number(net[t][b], "BgClock") = Number(Tail(net[t][b]), "BgClock") + 1
        /\ Number(net[t][b], "AppThreadDereg") = Number(Tail(net[t][b]), "AppThreadDereg")
    BY <2>3
  <2>5. Orderly(net'[t][b])
    BY <1>1, <2>1, OrderlyTail
  <2>. QED
    BY <2>1, <2>2, <2>4, <2>5
<1>11. \A u \in ThreadsOf(b[2]) \ {t} : net'[u][b] = net[u][b]
  BY <1>7
(* A thread whose clock comes has not ended yet for b.                     *)
<1>12. ~Done(b) /\ ~Done(b)' /\ t \notin Gone(b)
  <2>1. t \notin Gone(b)
    BY <1>8, <1>10 DEF BgDrains, EndsFollowClocks
  <2>2. bg[b].deregs # Cardinality(ThreadsOf(b[2]))
    BY <1>8, <1>10, AllGone
  <2>. QED
    BY <1>6, <2>1, <2>2 DEF Done
<1>13. TicksCounted(b)'
  <2>1. /\ IsFiniteSet(Ticks(b)') /\ Cardinality(Ticks(b)) \in Nat
        /\ Cardinality(Ticks(b)') = Cardinality(Ticks(b)) - 1
    BY <1>1, <1>8, <1>10, <1>11, TicksTaken DEF BgDrains, TicksCounted
  <2>2. bg[b].clock \in Nat
    BY <1>2 DEF BgOK
  <2>3. bg[b].clock + Cardinality(Ticks(b)) = ProcessClock(b[2], thread)
    BY <1>8 DEF BgDrains, TicksCounted
  <2>4. bg'[b].clock + Cardinality(Ticks(b)') = ProcessClock(b[2], thread')
    BY <1>1, <1>6, <2>1, <2>2, <2>3
  <2>. QED
    BY <2>1, <2>4 DEF TicksCounted
<1>14. /\ Gone(b)' = Gone(b)
       /\ \A u \in ThreadsOf(b[2]) : Ended(u)' = Ended(u)
  BY <1>1, <1>10, <1>11 DEF Gone, Ended
<1>15. EndsFollowClocks(b)'
  BY <1>8, <1>10, <1>11, <1>12, <1>14 DEF BgDrains, EndsFollowClocks
<1>16. EndsCounted(b)'
  BY <1>6, <1>8, <1>12, <1>14 DEF BgDrains, EndsCounted
<1>17. ASSUME NEW s \in ServersFor(b) PROVE LinkDrains(b, s)' /\ ServerDrains(s)'
  <2>1. net[b][s] \in Seq(Msgs) /\ s \in Servers
    BY <1>1, ServerLinkType, Ends
  <2>2. /\ Newest(Append(net[b][s], m), clocked.clock, server[s].clock[b])
        /\ Number(Append(net[b][s], m), "ClientShutDown") = Number(net[b][s], "ClientShutDown")
    <3>1. m[1] = "ClientSendOpLog"
      BY DEF m
    <3>2. Newest(Append(net[b][s], m), clocked.clock, server[s].clock[b])
      BY <1>4, <2>1, NewestAppend DEF m
    <3>. QED
      BY <1>4, <2>1, <3>1, <3>2, Added
  <2>5. LinkDrains(b, s)'
    BY <1>1, <1>3, <1>6, <1>7, <2>2 DEF LinkDrains
  <2>3. Number(net'[b][s], "ClientShutDown") = Number(net[b][s], "ClientShutDown")
    BY <1>7, <2>2
  <2>4. \A d \in BgsFor(s) : /\ Done(d)' <=> Done(d)
                             /\ Number(net'[d][s], "ClientShutDown") =
                                  Number(net[d][s], "ClientShutDown")
    BY <1>6, <1>7, <1>12, <2>1, <2>3, Links DEF Done
  <2>. QED
    BY <1>1, <1>8, <2>1, <2>5, <2>4, ServerStays
<1>. QED
  BY <1>1, <1>6, <1>7, <1>13, <1>15, <1>16, <1>17, OneBg DEF BgDrains

(* The end of b for its servers: it is done, and no end came before.       *)
LEMMA EndSent ==
  ASSUME TypeOK, DrainInv, NEW b \in Bgs, ~Done(b), Done(b)', NEW s \in ServersFor(b),
         server' = server, \A d \in Bgs \ {b} : bg'[d] = bg[d],
         \A d \in BgsFor(s) : Number(net'[d][s], "ClientShutDown") =
           IF d = b THEN Number(net[d][s], "ClientShutDown") + 1
                    ELSE Number(net[d][s], "ClientShutDown")
  PROVE  ServerDrains(s)'
<1>1. s \in Servers /\ b \in BgsFor(s) /\ \A d \in BgsFor(s) : d \in Bgs /\ s \in ServersFor(d)
  BY Ends, Links
<1>2. ServerDrains(s) /\ \A d \in BgsFor(s) : Number(net[d][s], "ClientShutDown") \in Nat
  BY <1>1, ServerLinkType, NumberZero DEF DrainInv, TypeOK
<1>3. Number(net[b][s], "ClientShutDown") = 0 /\ Number(net'[b][s], "ClientShutDown") = 1
  BY <1>1, <1>2 DEF ServerDrains
<1>4. \A d \in BgsFor(s) \ {b} : /\ Done(d)' <=> Done(d)
                                 /\ Number(net'[d][s], "ClientShutDown") =
                                      Number(net[d][s], "ClientShutDown")
  BY <1>1 DEF Done
<1>5. ShutBy(s)' = ShutBy(s)
  BY <1>3, <1>4 DEF ShutBy
<1>. QED
  BY <1>2, <1>3, <1>4, <1>5 DEF ServerDrains

LEMMA BgOpLogAckDrains ==
  ASSUME TypeOK, DrainInv, NEW b \in Bgs, NEW x \in ServersFor(b), BgOpLogAck(b, x)
  PROVE  DrainInv'
<1> DEFINE acked  == [bg[b] EXCEPT !.pending[x] = @ - 1]
           resend == acked.held /\ CheckSendAll(acked)
           after  == IF resend THEN Tracked(acked) ELSE acked
           m      == <<"ClientSendOpLog", acked.clock>>
           r      == Rest(x, b)
           sent   == IF resend THEN Send(r, b, ServersFor(b), m) ELSE r
           ended  == [after EXCEPT !.ending = FALSE]
           k      == <<"ClientShutDown", 0>>
           out    == Send(sent, b, ServersFor(b) \cup {NameNode}, k)
<1>1. /\ NetOK(net) /\ x \in Nodes /\ b \in Nodes /\ Looked(x, b)
      /\ thread' = thread /\ server' = server
  BY Ends DEF TypeOK, BgOpLogAck, Gets
<1>2. DOMAIN bg = Bgs /\ BgOK(b, bg[b])
  BY DEF TypeOK
<1>3. /\ BgOK(b, acked) /\ acked.clock = bg[b].clock /\ acked.deregs = bg[b].deregs
      /\ acked.ending = bg[b].ending /\ acked.held = bg[b].held
      /\ \A d \in ServersFor(b) : acked.pending[d] <= bg[b].pending[d]
  BY <1>2 DEF BgOK
<1>4. m \in Msgs /\ k \in Msgs
  BY <1>3, MsgTypes DEF PlainTypes, BgOK
<1>5. IF ShutDownDue(after)
      THEN bg' = [bg EXCEPT ![b] = ended] /\ net' = out
      ELSE bg' = [bg EXCEPT ![b] = after] /\ net' = sent
  BY DEF BgOpLogAck, OpLogMsgs, ShutDownMsgs
<1>6. /\ Tracked(acked).clock = acked.clock /\ Tracked(acked).deregs = acked.deregs
      /\ Tracked(acked).ending = acked.ending /\ Tracked(acked).held = FALSE
      /\ BgOK(b, Tracked(acked))
  BY ZenonT(30), <1>3, TrackedType DEF BgOK, Tracked
<1> HIDE DEF acked
<1>7. /\ after.clock = bg[b].clock /\ after.deregs = bg[b].deregs
      /\ after.ending = bg[b].ending /\ BgOK(b, after)
      /\ resend => after.held = FALSE
      /\ ~resend => after = acked
  BY <1>3, <1>6
<1>8. DOMAIN after = DOMAIN bg[b]
  BY <1>2, <1>7 DEF BgOK
(* The queues.                                                             *)
<1>9. /\ NetOK(r) /\ NetOK(Send(r, b, ServersFor(b), m)) /\ NetOK(sent)
      /\ \A d \in Bgs : \A u \in ThreadsOf(d[2]) : sent[u][d] = net[u][d]
      /\ \A d \in Bgs : \A s \in ServersFor(d) :
           sent[d][s] = IF d = b /\ resend THEN Append(net[d][s], m) ELSE net[d][s]
  <2>1. NetOK(r) /\ NetOK(Send(r, b, ServersFor(b), m))
    BY <1>1, <1>4, RestAt, SendAt
  <2>2. \A d \in Bgs : \A u \in ThreadsOf(d[2]) : u # x
    BY ThreadLink, Ends, Kinds
  <2>3. /\ \A d \in Bgs : \A u \in ThreadsOf(d[2]) :
             /\ r[u][d] = IF d = b /\ u = x THEN Tail(net[u][d]) ELSE net[u][d]
             /\ Send(r, b, ServersFor(b), m)[u][d] = r[u][d]
        /\ \A d \in Bgs : \A s \in ServersFor(d) :
             /\ r[d][s] = net[d][s]
             /\ Send(r, b, ServersFor(b), m)[d][s] =
                  IF d = b THEN Append(net[d][s], m) ELSE net[d][s]
    BY <1>1, <1>4, BgLinks
  <2> HIDE DEF r, m, resend
  <2>. QED
    BY <2>1, <2>2, <2>3
<1> HIDE DEF after, sent, resend, r, m
<1>10. /\ \A d \in Bgs : \A u \in ThreadsOf(d[2]) : out[u][d] = net[u][d]
       /\ \A d \in Bgs : \A s \in ServersFor(d) :
            out[d][s] = IF d = b THEN Append(sent[d][s], k) ELSE net[d][s]
  <2>1. \A u \in Nodes : \A v \in Peers(u) :
          out[u][v] = IF u = b /\ v \in ServersFor(b) \cup {NameNode} THEN Append(sent[u][v], k)
                                                                      ELSE sent[u][v]
    BY <1>1, <1>4, <1>9, SendAt
  <2> HIDE DEF out, k
  <2>2. ASSUME NEW d \in Bgs, NEW u \in ThreadsOf(d[2]) PROVE out[u][d] = net[u][d]
    <3>1. u \in Nodes /\ d \in Peers(u) /\ u # b
      BY ThreadLink, Kinds
    <3>. QED
      BY <1>9, <2>1, <3>1
  <2>3. ASSUME NEW d \in Bgs, NEW s \in ServersFor(d)
        PROVE  out[d][s] = IF d = b THEN Append(sent[d][s], k) ELSE net[d][s]
    <3>1. d \in Nodes /\ s \in Peers(d)
      BY Ends
    <3>. QED
      BY <1>9, <2>1, <3>1
  <2>. QED
    BY <2>2, <2>3
<1> HIDE DEF out
<1>11. /\ \A d \in Bgs : \A u \in ThreadsOf(d[2]) : net'[u][d] = net[u][d]
       /\ \A d \in Bgs \ {b} : \A s \in ServersFor(d) : net'[d][s] = net[d][s]
  BY <1>5, <1>9, <1>10
<1>12. /\ bg'[b].clock = bg[b].clock /\ bg'[b].deregs = bg[b].deregs
       /\ bg'[b].held = after.held /\ bg'[b].pending = after.pending
       /\ bg'[b].ending = (IF ShutDownDue(after) THEN FALSE ELSE bg[b].ending)
       /\ \A d \in Bgs \ {b} : bg'[d] = bg[d]
  <2>1. /\ ended.clock = after.clock /\ ended.deregs = after.deregs
        /\ ended.held = after.held /\ ended.pending = after.pending /\ ended.ending = FALSE
    BY <1>7 DEF BgOK
  <2> HIDE DEF ended
  <2>. QED
    BY <1>2, <1>5, <1>7, <2>1
<1>13. BgDrains(b) /\ \A s \in ServersFor(b) : ServerDrains(s)
  BY Links DEF DrainInv
<1>14. TicksCounted(b)' /\ EndsFollowClocks(b)' /\ Gone(b)' = Gone(b)
  <2>1. KeepsBg(b) /\ EndsStill(b[2]) /\ ProcessClock(b[2], thread') = ProcessClock(b[2], thread)
    BY <1>1, <1>11, KeepsSelf DEF KeepsBg, EndsStill, Ended
  <2>. QED
    BY <1>11, <1>12, <1>13, <2>1, TicksStay, EndsStay, GoneStays DEF BgDrains
(* The link to a server, without the end of b and with it.                 *)
<1>15. ASSUME NEW s \in ServersFor(b)
       PROVE  /\ sent[b][s] \in Seq(Msgs) /\ net[b][s] \in Seq(Msgs)
              /\ after.held \/ Newest(sent[b][s], bg[b].clock, server[s].clock[b])
              /\ Number(sent[b][s], "ClientShutDown") = Number(net[b][s], "ClientShutDown")
  <2>1. net[b][s] \in Seq(Msgs) /\ LinkDrains(b, s) /\ sent[b][s] \in Seq(Msgs)
    BY <1>1, <1>9, ServerLinkType DEF DrainInv
  <2>2. CASE resend
    <3>1. m[1] = "ClientSendOpLog" /\ m = <<"ClientSendOpLog", bg[b].clock>>
      BY <1>3 DEF m
    <3>2. sent[b][s] = Append(net[b][s], m)
      BY <1>9, <2>2
    <3>3. Newest(sent[b][s], bg[b].clock, server[s].clock[b])
      BY <1>4, <2>1, <3>1, <3>2, NewestAppend
    <3>. QED
      BY <1>4, <2>1, <3>1, <3>2, <3>3, Added
  <2>3. CASE ~resend
    BY <1>3, <1>7, <1>9, <2>1, <2>3 DEF LinkDrains
  <2>. QED
    BY <2>1, <2>2, <2>3
<1>17. CASE ShutDownDue(after)
  <2>1. after.ending /\ ~after.held /\ ~PendingAcks(after)
    BY <1>17 DEF ShutDownDue, MayShutDown
  <2>2. ~Done(b) /\ Done(b)' /\ bg[b].deregs = Cardinality(ThreadsOf(b[2]))
    BY <1>7, <1>12, <1>13, <1>17, <2>1 DEF Done, BgDrains, EndsCounted
  <2>3. EndsCounted(b)'
    BY <1>12, <1>13, <1>14, <1>17, <2>1, <2>2 DEF BgDrains, EndsCounted, PendingAcks
  <2>4. ASSUME NEW s \in ServersFor(b) PROVE LinkDrains(b, s)' /\ ServerDrains(s)'
    <3>1. net'[b][s] = Append(sent[b][s], k)
      BY <1>5, <1>10, <1>17
    <3>2. Newest(net'[b][s], bg[b].clock, server[s].clock[b])
      BY <1>4, <1>15, <2>1, <3>1, NewestAppend
    <3>3. Number(net'[b][s], "ClientShutDown") = Number(net[b][s], "ClientShutDown") + 1
      BY <1>4, <1>15, <3>1, Added
    <3>4. \A d \in BgsFor(s) \ {b} : d \in Bgs \ {b} /\ s \in ServersFor(d)
      BY Ends, Links
    <3>5. ServerDrains(s)'
      BY <1>1, <1>11, <1>12, <2>2, <3>3, <3>4, EndSent
    <3>. QED
      BY <1>1, <1>12, <3>2, <3>5 DEF LinkDrains
  <2>. QED
    BY <1>1, <1>11, <1>12, <1>14, <2>3, <2>4, OneBg DEF BgDrains
<1>18. CASE ~ShutDownDue(after)
  <2>1. Done(b)' <=> Done(b)
    BY <1>12, <1>18 DEF Done
  <2>2. ASSUME Done(b) PROVE ~after.held /\ ~PendingAcks(after)
    <3>1. ~bg[b].held /\ ~PendingAcks(bg[b])
      BY <1>13, <2>2 DEF BgDrains, EndsCounted
    <3>2. after = acked
      BY <1>3, <1>7, <3>1 DEF resend
    <3>3. \A d \in ServersFor(b) : bg[b].pending[d] \in Int /\ acked.pending[d] \in Int
      BY <1>2, <1>3 DEF BgOK
    <3>4. DOMAIN bg[b].pending = ServersFor(b) /\ DOMAIN acked.pending = ServersFor(b)
      BY <1>2, <1>3 DEF BgOK
    <3>. QED
      BY <1>3, <3>1, <3>2, <3>3, <3>4 DEF PendingAcks
  <2>3. EndsCounted(b)'
    BY <1>12, <1>13, <1>14, <1>18, <2>1, <2>2 DEF BgDrains, EndsCounted, PendingAcks
  <2>4. ASSUME NEW s \in ServersFor(b) PROVE LinkDrains(b, s)' /\ ServerDrains(s)'
    <3>1. net'[b][s] = sent[b][s] /\ s \in Servers
      BY <1>5, <1>18, Ends
    <3>2. \A d \in BgsFor(s) : /\ Done(d)' <=> Done(d)
                               /\ Number(net'[d][s], "ClientShutDown") =
                                    Number(net[d][s], "ClientShutDown")
      BY <1>11, <1>12, <1>15, <2>1, <3>1, Links DEF Done
    <3>3. ServerDrains(s)'
      BY <1>1, <1>13, <3>1, <3>2, ServerStays
    <3>. QED
      BY <1>1, <1>12, <1>15, <3>1, <3>3 DEF LinkDrains
  <2>. QED
    BY <1>1, <1>11, <1>12, <1>14, <2>3, <2>4, OneBg DEF BgDrains
<1>. QED
  BY <1>17, <1>18

LEMMA BgDeregDrains ==
  ASSUME TypeOK, DrainInv, NEW b \in Bgs, NEW t \in ThreadsOf(b[2]), BgDereg(b, t)
  PROVE  DrainInv'
<1> DEFINE last  == bg[b].deregs + 1 = Cardinality(ThreadsOf(b[2]))
           k     == <<"ClientShutDown", 0>>
           dests == ServersFor(b) \cup {NameNode}
           r     == Rest(t, b)
           out   == Send(Rest(t, b), b, dests, k)
<1>1. /\ NetOK(net) /\ t \in Nodes /\ Looked(t, b) /\ Head(net[t][b])[1] = "AppThreadDereg"
      /\ thread' = thread /\ server' = server
      /\ net[t][b] \in Seq(Msgs) /\ net[t][b] # << >>
  BY ThreadLink, ThreadLinkType DEF TypeOK, BgDereg, Gets, Looked
<1>2. DOMAIN bg = Bgs /\ BgOK(b, bg[b])
  BY DEF TypeOK
<1>3. k \in Msgs /\ k[1] = "ClientShutDown"
  BY MsgTypes DEF PlainTypes
<1>4. /\ bg'[b].clock = bg[b].clock /\ bg'[b].held = bg[b].held
      /\ bg'[b].pending = bg[b].pending /\ bg'[b].deregs = bg[b].deregs + 1
      /\ bg'[b].ending = (last /\ ~MayShutDown(bg[b]))
      /\ \A d \in Bgs \ {b} : bg'[d] = bg[d]
  BY <1>2 DEF BgDereg, BgOK
<1>5. net' = IF last /\ MayShutDown(bg[b]) THEN out ELSE r
  BY DEF BgDereg, ShutDownMsgs
<1>6. /\ \A d \in Bgs : \A u \in ThreadsOf(d[2]) :
           net'[u][d] = IF d = b /\ u = t THEN Tail(net[u][d]) ELSE net[u][d]
      /\ \A d \in Bgs \ {b} : \A s \in ServersFor(d) : net'[d][s] = net[d][s]
      /\ \A s \in ServersFor(b) : net'[b][s] = IF last /\ MayShutDown(bg[b])
                                               THEN Append(net[b][s], k) ELSE net[b][s]
  <2>1. /\ \A d \in Bgs : \A u \in ThreadsOf(d[2]) :
             /\ r[u][d] = IF d = b /\ u = t THEN Tail(net[u][d]) ELSE net[u][d]
             /\ out[u][d] = r[u][d]
        /\ \A d \in Bgs : \A s \in ServersFor(d) :
             /\ r[d][s] = net[d][s]
             /\ out[d][s] = IF d = b THEN Append(net[d][s], k) ELSE net[d][s]
    <3>1. ServersFor(b) \subseteq dests
      OBVIOUS
    <3> HIDE DEF k, dests
    <3>. QED
      BY <1>1, <1>3, <3>1, BgLinks
  <2> HIDE DEF r, out, k, last
  <2>. QED
    BY <1>5, <2>1
<1> HIDE DEF r, out, k
<1>7. BgDrains(b) /\ \A s \in ServersFor(b) : ServerDrains(s)
  BY Links DEF DrainInv
<1>8. /\ Number(net[t][b], "AppThreadDereg") > 0
      /\ Number(net'[t][b], "AppThreadDereg") = 0
      /\ Number(net'[t][b], "BgClock") = 0 /\ Number(net[t][b], "BgClock") = 0
      /\ Orderly(net'[t][b]) /\ Ended(t)
  <2>1. net'[t][b] = Tail(net[t][b]) /\ Orderly(net[t][b])
    BY <1>6, <1>7 DEF BgDrains, EndsFollowClocks
  <2>2. /\ Orderly(Tail(net[t][b])) /\ Number(Tail(net[t][b]), "BgClock") = 0
        /\ Number(Tail(net[t][b]), "AppThreadDereg") = 0
    BY <1>1, <2>1, OrderlyTail
  <2>3. \A w : Number(net[t][b], w) = IF "AppThreadDereg" = w THEN Number(Tail(net[t][b]), w) + 1
                                                              ELSE Number(Tail(net[t][b]), w)
    BY <1>1, Taken
  <2>4. /\ Number(net[t][b], "AppThreadDereg") = 0 + 1
        /\ Number(net[t][b], "BgClock") = 0
    BY <2>2, <2>3
  <2>. QED
    BY <1>7, <2>1, <2>2, <2>4 DEF BgDrains, EndsFollowClocks
<1>9. \A u \in ThreadsOf(b[2]) \ {t} : net'[u][b] = net[u][b]
  BY <1>6
<1>10. \A u \in ThreadsOf(b[2]) : Ended(u)' = Ended(u)
  BY <1>1 DEF Ended
(* b sees the end of t for the first time.                                 *)
<1>11. t \notin Gone(b) /\ Gone(b)' = Gone(b) \cup {t}
  BY <1>8, <1>9, <1>10 DEF Gone
<1>12. ~Done(b)
  BY <1>7, <1>11, AllGone DEF Done
<1>13. TicksCounted(b)'
  BY <1>1, <1>4, <1>7, <1>8, <1>9, TicksStay DEF BgDrains
<1>14. EndsFollowClocks(b)'
  BY <1>7, <1>8, <1>9, <1>10, <1>11 DEF BgDrains, EndsFollowClocks
<1>15. bg'[b].deregs = Cardinality(Gone(b)')
  <2>1. IsFiniteSet(Gone(b))
    BY FiniteThreads, Links, FS_Subset DEF Gone
  <2>. QED
    BY <1>4, <1>7, <1>11, <2>1, FS_AddElement DEF BgDrains, EndsCounted
<1>16. Done(b)' <=> last /\ MayShutDown(bg[b])
  BY <1>4 DEF Done
<1>17. EndsCounted(b)'
  <2>1. bg'[b].ending => bg'[b].deregs = Cardinality(ThreadsOf(b[2]))
    BY <1>4
  <2>2. Done(b)' => ~bg'[b].held /\ ~PendingAcks(bg'[b])
    BY <1>4, <1>16 DEF MayShutDown, PendingAcks
  <2>. QED
    BY <1>15, <2>1, <2>2 DEF EndsCounted
<1>18. ASSUME NEW s \in ServersFor(b) PROVE LinkDrains(b, s)' /\ ServerDrains(s)'
  <2>1. net[b][s] \in Seq(Msgs) /\ LinkDrains(b, s) /\ s \in Servers
    BY <1>1, ServerLinkType, Ends DEF DrainInv
  <2>2. \A d \in BgsFor(s) \ {b} : /\ d \in Bgs \ {b} /\ s \in ServersFor(d)
                                   /\ net'[d][s] = net[d][s]
    BY <1>6, <2>1, Links
  <2>3. CASE last /\ MayShutDown(bg[b])
    <3>1. net'[b][s] = Append(net[b][s], k)
      BY <1>6, <2>3
    <3>2. Number(net'[b][s], "ClientShutDown") = Number(net[b][s], "ClientShutDown") + 1
      BY <1>3, <2>1, <3>1, Added
    <3>3. ServerDrains(s)'
      BY <1>1, <1>4, <1>12, <1>16, <2>2, <2>3, <3>2, EndSent
    <3>4. LinkDrains(b, s)'
      BY <1>1, <1>3, <1>4, <2>1, <3>1, NewestAppend DEF LinkDrains
    <3>. QED
      BY <3>3, <3>4
  <2>4. CASE ~(last /\ MayShutDown(bg[b]))
    <3>1. net'[b][s] = net[b][s]
      BY <1>6, <2>4
    <3>2. \A d \in BgsFor(s) : /\ Done(d)' <=> Done(d)
                               /\ Number(net'[d][s], "ClientShutDown") =
                                    Number(net[d][s], "ClientShutDown")
      BY <1>4, <1>12, <1>16, <2>2, <2>4, <3>1 DEF Done
    <3>3. ServerDrains(s)'
      BY <1>1, <1>7, <2>1, <3>2, ServerStays
    <3>4. LinkDrains(b, s)'
      BY <1>1, <1>4, <2>1, <3>1 DEF LinkDrains
    <3>. QED
      BY <3>3, <3>4
  <2>. QED
    BY <2>3, <2>4
<1>. QED
  BY <1>1, <1>4, <1>6, <1>13, <1>14, <1>17, <1>18, OneBg DEF BgDrains

LEMMA ServerOpLogDrains ==
  ASSUME TypeOK, DrainInv, NEW s \in Servers, NEW b \in BgsFor(s), ServerOpLog(s, b)
  PROVE  DrainInv'
<1> DEFINE clocked  == [server[s] EXCEPT !.clock[b] = Content(b, s)]
           due      == PushRows /\ MinClock(clocked.clock) > MinClock(server[s].clock)
           pushes   == due /\ CheckSendAll(clocked)
           heldBack == [clocked EXCEPT !.held = @ \/ due]
           after    == IF pushes THEN Tracked(clocked) ELSE heldBack
           m        == <<"ServerPushRow", 0>>
           k        == <<"ServerOpLogAck", 0>>
<1>1. /\ NetOK(net) /\ b \in Bgs /\ s \in ServersFor(b)
      /\ Looked(b, s) /\ Head(net[b][s])[1] = "ClientSendOpLog"
      /\ thread' = thread /\ bg' = bg
      /\ net[b][s] \in Seq(Msgs) /\ net[b][s] # << >>
  BY Links, ServerLinkType DEF TypeOK, ServerOpLog, Gets, Looked
<1>2. DOMAIN server = Servers /\ ServerOK(s, server[s])
  BY DEF TypeOK
<1>3. /\ DOMAIN clocked = DOMAIN server[s] /\ clocked.shut = server[s].shut
      /\ clocked.at = server[s].at /\ clocked.ending = server[s].ending
      /\ \A d \in BgsFor(s) :
           clocked.clock[d] = IF d = b THEN Content(b, s) ELSE server[s].clock[d]
  BY <1>2 DEF ServerOK
<1>4. server' = [server EXCEPT ![s] = after]
  BY DEF ServerOpLog
<1>5. net' \in {Rest(b, s), Send(Rest(b, s), s, {b}, k),
                Send(Send(Rest(b, s), s, BgsFor(s), m), s, {b}, k)}
  BY DEF ServerOpLog, PushMsgs
<1>6. m \in Msgs /\ k \in Msgs
  BY MsgTypes DEF PlainTypes
<1>7. /\ \A d \in Bgs : \A u \in ThreadsOf(d[2]) : net'[u][d] = net[u][d]
      /\ \A d \in Bgs : \A e \in ServersFor(d) :
           net'[d][e] = IF d = b /\ e = s THEN Tail(net[d][e]) ELSE net[d][e]
  <2> HIDE DEF clocked, due, pushes, heldBack, after, m, k
  <2>1. HeardOnly(Send(Rest(b, s), s, {b}, k), b, s)
    BY <1>1, <1>6, ServerLinks
  <2>2. /\ HeardOnly(Rest(b, s), b, s)
        /\ HeardOnly(Send(Rest(b, s), s, BgsFor(s), m), b, s)
        /\ HeardOnly(Send(Send(Rest(b, s), s, BgsFor(s), m), s, {b}, k), b, s)
    BY <1>1, <1>6, ServerLinks
  <2>3. HeardOnly(net', b, s)
    BY <1>5, <2>1, <2>2
  <2>. QED
    BY <2>3 DEF HeardOnly
<1> HIDE DEF m, k
<1>8. /\ server'[s].shut = server[s].shut /\ server'[s].at = server[s].at
      /\ server'[s].ending = server[s].ending /\ server'[s].clock = clocked.clock
      /\ \A d \in Servers \ {s} : server'[d] = server[d]
  <2>1. /\ Tracked(clocked).shut = clocked.shut /\ Tracked(clocked).at = clocked.at
        /\ Tracked(clocked).ending = clocked.ending /\ Tracked(clocked).clock = clocked.clock
    BY <1>2, <1>3 DEF ServerOK, Tracked
  <2>2. /\ heldBack.shut = clocked.shut /\ heldBack.at = clocked.at
        /\ heldBack.ending = clocked.ending /\ heldBack.clock = clocked.clock
    BY <1>2, <1>3 DEF ServerOK
  <2> HIDE DEF clocked, heldBack, pushes
  <2>. QED
    BY <1>2, <1>3, <1>4, <2>1, <2>2
<1> HIDE DEF clocked, due, pushes, heldBack, after
<1>9. ASSUME NEW d \in BgsFor(s) PROVE LinkDrains(d, s)'
  <2>1. d \in Bgs /\ s \in ServersFor(d)
    BY Links
  <2>2. LinkDrains(d, s)
    BY <2>1 DEF DrainInv
  <2>3. CASE d = b
    <3>1. Newest(net[b][s], bg[b].clock, server[s].clock[b]) =>
            Newest(Tail(net[b][s]), bg[b].clock, Head(net[b][s])[2])
      BY <1>1, NewestTail
    <3>2. server'[s].clock[b] = Head(net[b][s])[2]
      BY <1>3, <1>8 DEF Content
    <3>3. net'[b][s] = Tail(net[b][s])
      BY <1>1, <1>7
    <3>. QED
      BY <1>1, <2>2, <2>3, <3>1, <3>2, <3>3 DEF LinkDrains
  <2>4. CASE d # b
    BY <1>1, <1>3, <1>7, <1>8, <2>1, <2>2, <2>4 DEF LinkDrains
  <2>. QED
    BY <2>3, <2>4
<1>10. ServerDrains(s)'
  <2>1. Number(net'[b][s], "ClientShutDown") = Number(net[b][s], "ClientShutDown")
    <3>1. \A w : Number(net[b][s], w) = IF "ClientSendOpLog" = w THEN Number(Tail(net[b][s]), w) + 1
                                                               ELSE Number(Tail(net[b][s]), w)
      BY <1>1, Taken
    <3>2. net'[b][s] = Tail(net[b][s])
      BY <1>1, <1>7
    <3>. QED
      BY <3>1, <3>2
  <2>2. \A d \in BgsFor(s) : /\ Done(d)' <=> Done(d)
                             /\ Number(net'[d][s], "ClientShutDown") =
                                  Number(net[d][s], "ClientShutDown")
    BY <1>1, <1>7, <2>1, Links DEF Done
  <2>3. Ending(server'[s]) => Ending(server[s])
    BY <1>8 DEF Ending
  <2>. QED
    BY <1>8, <2>2, <2>3, ServerStays DEF DrainInv
<1>. QED
  BY <1>1, <1>7, <1>8, <1>9, <1>10, OneServer

LEMMA ServerShutDownDrains ==
  ASSUME TypeOK, DrainInv, NEW s \in Servers, NEW b \in BgsFor(s), ServerShutDown(s, b)
  PROVE  DrainInv'
<1> DEFINE last == server[s].shut + 1 = Cardinality(Clients)
           ends == last /\ MayShutDown(server[s])
           k    == <<"ServerShutDownAck", 0>>
<1>1. /\ NetOK(net) /\ b \in Bgs /\ s \in ServersFor(b)
      /\ Looked(b, s) /\ Head(net[b][s])[1] = "ClientShutDown"
      /\ thread' = thread /\ bg' = bg
      /\ net[b][s] \in Seq(Msgs) /\ net[b][s] # << >>
  BY Links, ServerLinkType DEF TypeOK, ServerShutDown, Gets, Looked
<1>2. DOMAIN server = Servers /\ ServerOK(s, server[s])
  BY DEF TypeOK
<1>3. /\ server'[s].clock = server[s].clock /\ server'[s].shut = server[s].shut + 1
      /\ server'[s].ending = (last /\ ~ends)
      /\ server'[s].at = (IF ends THEN "exited" ELSE server[s].at)
      /\ server[s].at = "loop"
      /\ \A d \in Servers \ {s} : server'[d] = server[d]
  BY <1>2 DEF ServerShutDown, ServerOK
<1>4. k \in Msgs
  BY MsgTypes DEF PlainTypes
<1>5. net' \in {Rest(b, s), Send(Rest(b, s), s, BgsFor(s), k),
                Send(Send(Rest(b, s), s, BgsFor(s), k), s, BgsFor(s), k)}
  BY DEF ServerShutDown, ShutDownAcks
<1>6. /\ \A d \in Bgs : \A u \in ThreadsOf(d[2]) : net'[u][d] = net[u][d]
      /\ \A d \in Bgs : \A e \in ServersFor(d) :
           net'[d][e] = IF d = b /\ e = s THEN Tail(net[d][e]) ELSE net[d][e]
  <2> HIDE DEF last, ends, k
  <2>1. /\ HeardOnly(Rest(b, s), b, s)
        /\ HeardOnly(Send(Rest(b, s), s, BgsFor(s), k), b, s)
        /\ HeardOnly(Send(Send(Rest(b, s), s, BgsFor(s), k), s, BgsFor(s), k), b, s)
    BY <1>1, <1>4, ServerLinks
  <2>2. HeardOnly(net', b, s)
    BY <1>5, <2>1
  <2>. QED
    BY <2>2 DEF HeardOnly
<1>7. /\ net'[b][s] = Tail(net[b][s])
      /\ \A d \in BgsFor(s) \ {b} : net'[d][s] = net[d][s]
  BY <1>1, <1>6, Links
<1>8. ASSUME NEW d \in BgsFor(s) PROVE LinkDrains(d, s)'
  <2>1. d \in Bgs /\ s \in ServersFor(d)
    BY Links
  <2>2. LinkDrains(d, s)
    BY <2>1 DEF DrainInv
  <2>3. CASE d = b
    <3>1. Newest(net[b][s], bg[b].clock, server[s].clock[b]) =>
            Newest(Tail(net[b][s]), bg[b].clock, server[s].clock[b])
      BY <1>1, NewestTail
    <3>. QED
      BY <1>1, <1>3, <1>7, <2>2, <2>3, <3>1 DEF LinkDrains
  <2>4. CASE d # b
    BY <1>1, <1>3, <1>7, <2>2, <2>4 DEF LinkDrains
  <2>. QED
    BY <2>3, <2>4
(* The end of b was not counted before.                                    *)
<1>9. ServerDrains(s)'
  <2>1. ServerDrains(s) /\ \A d \in BgsFor(s) : Done(d)' <=> Done(d)
    BY <1>1 DEF DrainInv, Done
  <2>2. /\ Number(net[b][s], "ClientShutDown") = 1 /\ Number(net'[b][s], "ClientShutDown") = 0
        /\ Done(b)
    <3>1. \A w : Number(net[b][s], w) = IF "ClientShutDown" = w THEN Number(Tail(net[b][s]), w) + 1
                                                               ELSE Number(Tail(net[b][s]), w)
      BY <1>1, Taken
    <3>2. Number(net[b][s], "ClientShutDown") = Number(Tail(net[b][s]), "ClientShutDown") + 1
      BY <3>1
    <3>3. Number(Tail(net[b][s]), "ClientShutDown") \in Nat
      BY <1>1, Taken, NumberZero
    <3>. QED
      BY <1>7, <2>1, <3>2, <3>3 DEF ServerDrains
  <2>3. b \notin ShutBy(s) /\ ShutBy(s)' = ShutBy(s) \cup {b}
    BY <1>7, <2>1, <2>2 DEF ShutBy
  <2>4. IsFiniteSet(ShutBy(s))
    BY FiniteKinds, Links, FS_Subset DEF ShutBy
  <2>5. server'[s].shut = Cardinality(ShutBy(s)')
    BY <1>3, <2>1, <2>3, <2>4, FS_AddElement DEF ServerDrains
  <2>6. Ending(server'[s]) => server'[s].shut = Cardinality(Clients)
    BY <1>3 DEF Ending
  <2>7. \A d \in BgsFor(s) : /\ Number(net'[d][s], "ClientShutDown") <= 1
                             /\ Number(net'[d][s], "ClientShutDown") > 0 => Done(d)'
    BY <1>7, <2>1, <2>2 DEF ServerDrains
  <2>. QED
    BY <2>5, <2>6, <2>7 DEF ServerDrains
<1>. QED
  BY <1>1, <1>3, <1>6, <1>8, <1>9, OneServer

LEMMA InitDrains == Init => DrainInv
<1> SUFFICES ASSUME Init PROVE DrainInv
  OBVIOUS
<1>1. ASSUME NEW b \in Bgs, NEW t \in ThreadsOf(b[2])
      PROVE  net[t][b] = << >> /\ \A w : Number(net[t][b], w) = 0
  <2>1. net[t][b] = << >>
    BY Kinds, ThreadLink DEF Init
  <2>. QED
    BY <2>1, CountEmpty DEF Number
<1>2. ASSUME NEW b \in Bgs, NEW s \in ServersFor(b)
      PROVE  net[b][s] = << >> /\ \A w : Number(net[b][s], w) = 0
  <2>1. s # NameNode /\ b # NameNode
    BY Ends, Kinds
  <2>2. net[b][s] = << >>
    BY <2>1, Ends DEF Init
  <2>. QED
    BY <2>2, CountEmpty DEF Number
<1>3. \A t \in Threads : thread[t].clock = 0 /\ ~Ended(t)
  BY DEF Init, Ended
<1>4. ASSUME NEW b \in Bgs PROVE BgDrains(b) /\ ~Done(b)
  <2>1. /\ bg[b].clock = 0 /\ bg[b].deregs = 0 /\ ~bg[b].ending
    BY DEF Init
  <2>2. b[2] \in Clients /\ ThreadsOf(b[2]) \subseteq Threads
    BY Links
  <2>3. ProcessClock(b[2], thread) = 0
    <3> DEFINE f == [t \in ThreadsOf(b[2]) |-> thread[t].clock]
    <3>1. f \in [ThreadsOf(b[2]) -> Nat] /\ \A t \in ThreadsOf(b[2]) : f[t] = 0
      BY <1>3, <2>2
    <3> HIDE DEF f
    <3>2. MinClock(f) = 0
      BY <2>2, <3>1, FiniteThreads, MinClockIs
    <3>. QED
      BY <3>2 DEF ProcessClock, f
  <2>4. Ticks(b) = {}
    BY <1>1 DEF Ticks
  <2>5. Gone(b) = {}
    BY <1>3, <2>2 DEF Gone
  <2>6. ~Done(b)
    BY <2>1, <2>2, FiniteThreads DEF Done
  <2>7. TicksCounted(b)
    BY <2>1, <2>3, <2>4, FS_EmptySet DEF TicksCounted
  <2>8. EndsFollowClocks(b)
    BY <1>1, <2>5 DEF EndsFollowClocks, Orderly
  <2>9. EndsCounted(b)
    BY <2>1, <2>5, <2>6, FS_EmptySet DEF EndsCounted
  <2>. QED
    BY <2>6, <2>7, <2>8, <2>9 DEF BgDrains
<1>5. ASSUME NEW b \in Bgs, NEW s \in ServersFor(b) PROVE LinkDrains(b, s)
  <2>1. bg[b].clock = 0
    BY DEF Init
  <2>2. server[s].clock[b] = 0
    BY Ends DEF Init
  <2>. QED
    BY <1>2, <2>1, <2>2 DEF LinkDrains, Newest
<1>6. ASSUME NEW s \in Servers PROVE ServerDrains(s)
  <2>1. \A b \in BgsFor(s) : b \in Bgs /\ s \in ServersFor(b)
    BY Links
  <2>2. ShutBy(s) = {}
    BY <1>4, <2>1 DEF ShutBy
  <2>3. server[s].shut = 0 /\ ~Ending(server[s])
    BY DEF Init, Ending
  <2>. QED
    BY <1>2, <2>1, <2>2, <2>3, FS_EmptySet DEF ServerDrains
<1>. QED
  BY <1>4, <1>5, <1>6 DEF DrainInv

LEMMA DrainsStep == TypeOK /\ DrainInv /\ [Next]_lvars => DrainInv'
<1> SUFFICES ASSUME TypeOK, DrainInv, [Next]_lvars PROVE DrainInv'
  OBVIOUS
<1>1. CASE NameNodeStep
  BY <1>1, StillNameNode, StillNameNodeTables, StillDrains DEF NameNodeStep
<1>2. ASSUME NEW s \in Servers, ServerStep(s) PROVE DrainInv'
  BY <1>2, StillServer, StillDrains, ServerOpLogDrains, ServerShutDownDrains DEF ServerStep
<1>3. ASSUME NEW b \in Bgs, BgStep(b) PROVE DrainInv'
  BY <1>3, StillBg, StillBgThread, StillDrains, BgClockDrains, BgOpLogAckDrains, BgDeregDrains
     DEF BgStep
<1>4. ASSUME NEW c \in Clients, InitThreadStep(c) PROVE DrainInv'
  BY <1>4, StillClient, StillDrains
<1>5. ASSUME NEW t \in Threads, ThreadStep(t) \/ Clock(t) PROVE DrainInv'
  BY <1>5, StillThread, StillDrains, DeregisterThreadDrains, ClockDrains DEF ThreadStep
<1>6. CASE UNCHANGED lvars
  BY <1>6 DEF lvars, DrainInv, BgDrains, TicksCounted, Ticks, EndsFollowClocks, EndsCounted,
              Gone, Done, Ended, LinkDrains, ServerDrains, ShutBy
<1>. QED
  BY <1>1, <1>2, <1>3, <1>4, <1>5, <1>6 DEF Next, Progress

(* As many workers talk to a server as there are clients.                  *)
LEMMA OneOfEachClient ==
  ASSUME NEW s \in Servers
  PROVE  IsFiniteSet(BgsFor(s)) /\ Cardinality(BgsFor(s)) = Cardinality(Clients)
<1> DEFINE f == [c \in Clients |-> <<"bg", c, s[3]>>]
<1>1. s[3] \in Channels
  BY DEF Servers
<1>2. BgsFor(s) = {<<"bg", c, s[3]>> : c \in Clients}
  BY <1>1 DEF BgsFor, Bgs
<1>3. f \in [Clients -> BgsFor(s)] /\ \A x \in BgsFor(s) : \E c \in Clients : f[c] = x
  BY <1>2
<1>4. \A c, d \in Clients : f[c] = f[d] => c = d
  OBVIOUS
<1> HIDE DEF f
<1>5. f \in Bijection(Clients, BgsFor(s))
  BY <1>3, <1>4 DEF Bijection, Injection, Surjection, IsInjective
<1>. QED
  BY <1>5, FS_Bijection, LifecycleAssumption DEF ExistsBijection

LEMMA DrainedApplied ==
  ASSUME TypeOK, AcksInv, DrainInv
  PROVE  ClocksApplied
<1> SUFFICES ASSUME NEW s \in Servers, server[s].at = "exited", NEW b \in BgsFor(s)
             PROVE  server[s].clock[b] = ProcessClock(b[2], thread)
  BY DEF ClocksApplied
<1>1. b \in Bgs /\ s \in ServersFor(b)
  BY Links
<1>2. BgDrains(b) /\ LinkDrains(b, s) /\ ServerDrains(s) /\ BgAcks(net, b, bg[b])
  BY <1>1 DEF DrainInv, AcksInv
<1>3. Done(b)
  <2>1. Cardinality(ShutBy(s)) = Cardinality(BgsFor(s))
    BY <1>2, OneOfEachClient DEF ServerDrains, Ending
  <2>2. ShutBy(s) = BgsFor(s)
    BY <2>1, OneOfEachClient, FS_Subset DEF ShutBy
  <2>. QED
    BY <2>2 DEF ShutBy
(* Nothing is on its way to s.                                             *)
<1>4. server[s].clock[b] = bg[b].clock
  <2>1. ~bg[b].held /\ bg[b].pending[s] <= 0
    <3>1. DOMAIN bg[b].pending = ServersFor(b) /\ bg[b].pending[s] \in Int
      BY <1>1 DEF TypeOK, BgOK
    <3>. QED
      BY <1>1, <1>2, <1>3, <3>1 DEF BgDrains, EndsCounted, PendingAcks
  <2>2. net[b][s] \in Seq(Msgs) /\ net[s][b] \in Seq(Msgs)
    BY <1>1, Ends DEF TypeOK, NetOK
  <2>3. Number(net[b][s], "ClientSendOpLog") = 0
    BY <1>1, <1>2, <2>1, <2>2, CountType DEF BgAcks, Batches, Number
  <2>4. \A i \in 1 .. Len(net[b][s]) : net[b][s][i][1] # "ClientSendOpLog"
    BY <2>2, <2>3, NumberZero
  <2>. QED
    BY <1>2, <2>1, <2>4 DEF LinkDrains, Newest
(* Nothing is on its way to b.                                             *)
<1>5. bg[b].clock = ProcessClock(b[2], thread)
  <2>1. \A t \in ThreadsOf(b[2]) : Number(net[t][b], "BgClock") = 0
    BY <1>1, <1>2, <1>3, AllGone DEF Done
  <2>2. Ticks(b) = {}
    BY <2>1 DEF Ticks
  <2>3. bg[b].clock \in Nat
    BY <1>1 DEF TypeOK, BgOK
  <2>. QED
    BY <1>2, <2>2, <2>3, FS_EmptySet DEF BgDrains, TicksCounted
<1>. QED
  BY <1>4, <1>5

(* A server that has exited has applied the last clock of every client: the*)
(* ends of the threads come after their clocks, a worker's end comes after *)
(* its batches have been acknowledged, and the server counts the ends of   *)
(* all its workers before it goes.                                         *)
THEOREM ClocksAlwaysApplied == Spec => []ClocksApplied
<1>1. TypeOK /\ AcksInv /\ DrainInv => ClocksApplied
  BY DrainedApplied
<1>. QED
  BY <1>1, InitType, TypeStep, InitAcks, AcksStep, InitDrains, DrainsStep, PTL DEF Spec
=============================================================================
