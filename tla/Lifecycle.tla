----------------------------- MODULE Lifecycle -----------------------------
(***************************************************************************)
(* The life of the whole system: the handshake of workers, servers and     *)
(* name node, the creation of the tables, the clocks with their windows of *)
(* unacknowledged messages, and the shutdown.                              *)
(*                                                                         *)
(* Every process (a client) runs application threads, one background       *)
(* worker and one server per communication channel; one process also runs  *)
(* the name node.  Every link is a FIFO queue.  Rows and their contents    *)
(* are left to SSP and SSPPush.                                            *)
(***************************************************************************)
EXTENDS Naturals, Sequences, FiniteSets, Functions

CONSTANTS
  Clients,
  Channels,       (* communication channels of a client                    *)
  HeadChannel,    (* the channel of the head background worker             *)
  NameNodeClient, (* the client that runs the name node                    *)
  Threads,        (* application threads, all of which access tables       *)
  ClientOf,       (* [Threads -> Clients]                                  *)
  InitThread,     (* [Clients -> Threads]                                  *)
  Tables,
  PushRows,       (* SSPPush: servers push rows when their clock advances  *)
  MaxPending,     (* unacknowledged messages a destination may have        *)
  MaxClock        (* bound: clocks of a thread                             *)

(* HandleCreateTables waits for ever if there are no tables.               *)
ASSUME LifecycleAssumption ==
  /\ IsFiniteSet(Clients) /\ NameNodeClient \in Clients
  /\ IsFiniteSet(Channels) /\ HeadChannel \in Channels
  /\ IsFiniteSet(Threads) /\ ClientOf \in [Threads -> Clients]
  /\ InitThread \in [Clients -> Threads]
  /\ \A c \in Clients : ClientOf[InitThread[c]] = c
  /\ IsFiniteSet(Tables) /\ Tables # {}
  /\ PushRows \in BOOLEAN /\ MaxPending \in Nat \ {0} /\ MaxClock \in Nat

Bgs      == {"bg"} \X Clients \X Channels
Servers  == {"server"} \X Clients \X Channels
NameNode == <<"name_node", NameNodeClient>>

Owner(x) == IF x \in Threads THEN ClientOf[x] ELSE x[2]

HeadBg(c)     == <<"bg", c, HeadChannel>>
ThreadsOf(c)  == {t \in Threads : ClientOf[t] = c}
BgsOf(c)      == {b \in Bgs : b[2] = c}
ServersFor(b) == {s \in Servers : s[3] = b[3]}   \* server_ids_
BgsFor(s)     == {b \in Bgs : b[3] = s[3]}       \* bg_worker_ids_

(* Whom a thread sends messages to.                                        *)
Peers(x) ==
  IF x \in Threads THEN BgsOf(ClientOf[x])
  ELSE IF x \in Servers THEN BgsFor(x) \cup {NameNode}
  ELSE IF x = NameNode THEN Bgs \cup Servers
  ELSE ServersFor(x) \cup {NameNode}
         \cup {InitThread[c] : c \in {d \in Clients : HeadBg(d) = x}}

Nodes == Bgs \cup Servers \cup Threads \cup {NameNode}

(* GlobalContext numbers the threads of all kinds apart.                   *)
ASSUME IdsAssumption == Threads \cap (Bgs \cup Servers \cup {NameNode}) = {}

VARIABLES
  net,     \* net[x][y]: messages <<type, content>> of x on their way to y
  thread,  \* application threads: where they are, their clocks
  tables,  \* tables_ of each client
  bg,      \* background workers
  server,  \* server threads
  name     \* the name node

lvars == <<net, thread, tables, bg, server, name>>

Send(n, from, dests, m) ==
  [n EXCEPT ![from] = [to \in DOMAIN @ |-> IF to \in dests THEN Append(@[to], m)
                                                           ELSE @[to]]]

Rest(from, to) == [net EXCEPT ![from][to] = Tail(@)]

(* RecvInProc takes messages of the own process only, RecvInterProc those  *)
(* of other processes only.                                                *)
InProc(from, to) == Owner(from) = Owner(to)

Looked(from, to) ==
  /\ to \in DOMAIN net[from]
  /\ net[from][to] # << >>
  /\ to \in Bgs =>
       /\ bg[to].at \in {"connected", "creating"} => InProc(from, to)
       /\ bg[to].at = "connecting" => (InProc(from, to) <=> InProc(NameNode, to))

(* A receive of to returns a message of this type from from.               *)
Gets(from, to, type) ==
  Looked(from, to) /\ Head(net[from][to])[1] = type

Content(from, to) == Head(net[from][to])[2]

(* The connection messages have been sent: each thread starts with them.   *)
Init ==
  /\ net = [x \in Nodes |-> [y \in Peers(x) |->
              IF y # NameNode THEN << >>
              ELSE IF x \in Bgs THEN <<<<"ClientConnect", 0>>>>
                                ELSE <<<<"ServerConnect", 0>>>>]]
  /\ thread = [t \in Threads |->
                 [at |-> IF t = InitThread[ClientOf[t]] THEN "init" ELSE "unborn",
                  clock |-> 0]]
  /\ tables = [c \in Clients |-> {}]
  /\ bg = [b \in Bgs |->
             [at |-> "connecting", starts |-> 0, deregs |-> 0, acks |-> 0,
              clock |-> 0, pending |-> [s \in ServersFor(b) |-> 0],
              held |-> FALSE, ending |-> FALSE]]
  /\ server = [s \in Servers |->
                 [at |-> "connecting", connected |-> 0, tables |-> {},
                  clock |-> [b \in BgsFor(s) |-> 0],
                  pending |-> [b \in BgsFor(s) |-> 0],
                  held |-> FALSE, ending |-> FALSE, shut |-> 0]]
  /\ name = [at |-> "connecting", connected |-> 0, known |-> {},
             replies  |-> [t \in Tables |-> 0],
             waiting  |-> [t \in Tables |-> {}],
             answered |-> [t \in Tables |-> 0], shut |-> 0]
-----------------------------------------------------------------------------
(* MsgTracker: CheckSendAll and PendingAcks of a worker or a server x.     *)
CheckSendAll(x) == \A d \in DOMAIN x.pending : x.pending[d] < MaxPending
PendingAcks(x)  == \E d \in DOMAIN x.pending : x.pending[d] > 0

(* IncGetSeq for every destination; nothing is held back any more.         *)
Tracked(x) == [x EXCEPT !.pending = [d \in DOMAIN @ |-> @[d] + 1], !.held = FALSE]

(* A shutdown waits for the held-back message and for every answer.        *)
(* Mutants: for nothing; for the held-back message only.                   *)
MayShutDownAtOnce(x) == TRUE
MayShutDownUnacked(x) == ~x.held
MayShutDown(x) == ~x.held /\ ~PendingAcks(x)

(* After an acknowledgement a shutdown that waits may be due.              *)
(* Mutant: nobody comes back to it.                                        *)
ShutDownDueNever(x) == FALSE
ShutDownDue(x) == x.ending /\ MayShutDown(x)

(* SendClientShutDownMsgs and SendServerShutDownAcks.                      *)
ShutDownMsgs(n, b) == Send(n, b, ServersFor(b) \cup {NameNode}, <<"ClientShutDown", 0>>)
ShutDownAcks(n, s) == Send(n, s, BgsFor(s), <<"ServerShutDownAck", 0>>)
-----------------------------------------------------------------------------
(* InitNameNode: GetConnection for every server and worker.                *)
NameNodeConnection(from) ==
  /\ name.at = "connecting"
  /\ Gets(from, NameNode, "ClientConnect") \/ Gets(from, NameNode, "ServerConnect")
  /\ IF name.connected + 1 < Cardinality(Bgs) + Cardinality(Servers)
     THEN /\ name' = [name EXCEPT !.connected = @ + 1]
          /\ net' = Rest(from, NameNode)
     ELSE /\ name' = [name EXCEPT !.connected = @ + 1, !.at = "loop"]
          /\ net' = Send(Send(Rest(from, NameNode),
                              NameNode, Bgs, <<"ConnectServer", 0>>),
                         NameNode, Bgs, <<"ClientStart", 0>>)
  /\ UNCHANGED <<thread, tables, bg, server>>

(* InitServer: GetConnection for every client, then ClientStart.           *)
ServerConnection(s, from) ==
  /\ server[s].at = "connecting"
  /\ Gets(from, s, "ClientConnect")
  /\ IF server[s].connected + 1 < Cardinality(Clients)
     THEN /\ server' = [server EXCEPT ![s].connected = @ + 1]
          /\ net' = Rest(from, s)
     ELSE /\ server' = [server EXCEPT ![s].connected = @ + 1, ![s].at = "loop"]
          /\ net' = Send(Rest(from, s), s, BgsFor(s), <<"ClientStart", 0>>)
  /\ UNCHANGED <<thread, tables, bg, name>>

(* BgServerHandshake: the name node lets the worker connect to its servers *)
BgConnectServers(b) ==
  /\ bg[b].at = "connecting"
  /\ Gets(NameNode, b, "ConnectServer")
  /\ bg' = [bg EXCEPT ![b].at = "starting"]
  /\ net' = Send(Rest(NameNode, b), b, ServersFor(b), <<"ClientConnect", 0>>)
  /\ UNCHANGED <<thread, tables, server, name>>

(* and, with the name node, lets it start.                                 *)
BgStart(b, from) ==
  /\ bg[b].at = "starting"
  /\ Gets(from, b, "ClientStart")
  /\ bg' = [bg EXCEPT ![b].starts = @ + 1,
                      ![b].at = IF bg[b].starts = Cardinality(Clients)
                                THEN "init_barrier" ELSE @]
  /\ net' = Rest(from, b)
  /\ UNCHANGED <<thread, tables, server, name>>

(* init_barrier_ of the client's workers and its init thread.              *)
(* Mutant: the head worker only.                                           *)
AtInitBarrierHead(c) == bg[HeadBg(c)].at = "init_barrier"
AtInitBarrier(c) == \A b \in BgsOf(c) : bg[b].at = "init_barrier"

(* BgWorkers::Start ends; AppThreadRegister connects to every worker.      *)
InitBarrier(c) ==
  /\ thread[InitThread[c]].at = "init"
  /\ AtInitBarrier(c)
  /\ thread' = [thread EXCEPT ![InitThread[c]].at = "creating"]
  /\ bg' = [b \in Bgs |-> IF b \in BgsOf(c) /\ bg[b].at = "init_barrier"
                          THEN [bg[b] EXCEPT !.at = "connected"] ELSE bg[b]]
  /\ net' = Send(net, InitThread[c], BgsOf(c), <<"AppConnect", 0>>)
  /\ UNCHANGED <<tables, server, name>>

(* RecvAppInitThreadConnection.                                            *)
BgInitThread(b, t) ==
  /\ bg[b].at = "connected"
  /\ Gets(t, b, "AppConnect")
  /\ bg' = [bg EXCEPT ![b].at = IF b[3] = HeadChannel THEN "creating" ELSE "table_barrier"]
  /\ net' = Rest(t, b)
  /\ UNCHANGED <<thread, tables, server, name>>
-----------------------------------------------------------------------------
(* CreateTable: the init thread asks the head worker and waits.            *)
CreateTable(c, t) ==
  /\ thread[InitThread[c]].at = "creating"
  /\ t \notin tables[c]
  /\ thread' = [thread EXCEPT ![InitThread[c]].at = "waiting"]
  /\ net' = Send(net, InitThread[c], {HeadBg(c)}, <<"BgCreateTable", t>>)
  /\ UNCHANGED <<tables, bg, server, name>>

TableCreated(c) ==
  LET i == InitThread[c] IN
  /\ thread[i].at = "waiting"
  /\ Gets(HeadBg(c), i, "CreateTableReply")
  /\ thread' = [thread EXCEPT ![i].at = IF tables[c] = Tables
                                        THEN "table_barrier" ELSE "creating"]
  /\ net' = Rest(HeadBg(c), i)
  /\ UNCHANGED <<tables, bg, server, name>>

(* HandleCreateTables of the head worker, one receive after another.       *)
BgCreateTable(b, t) ==
  /\ bg[b].at = "creating"
  /\ Gets(t, b, "BgCreateTable")
  /\ bg' = [bg EXCEPT ![b].at = "asked"]
  /\ net' = Send(Rest(t, b), b, {NameNode}, <<"CreateTable", Content(t, b)>>)
  /\ UNCHANGED <<thread, tables, server, name>>

BgTableCreated(b) ==
  LET t == Content(NameNode, b)
      c == b[2]
  IN
  /\ bg[b].at = "asked"
  /\ Gets(NameNode, b, "CreateTableReply")
  /\ tables' = [tables EXCEPT ![c] = @ \cup {t}]
  /\ bg' = [bg EXCEPT ![b].at = IF tables'[c] = Tables THEN "created" ELSE "creating"]
  /\ net' = Send(Rest(NameNode, b), b, {InitThread[c]}, <<"CreateTableReply", t>>)
  /\ UNCHANGED <<thread, server, name>>

BgAllTablesCreated(b) ==
  /\ bg[b].at = "created"
  /\ Gets(NameNode, b, "CreatedAllTables")
  /\ bg' = [bg EXCEPT ![b].at = "table_barrier"]
  /\ net' = Rest(NameNode, b)
  /\ UNCHANGED <<thread, tables, server, name>>

(* Mutant: the servers of one channel.                                     *)
ReceivedFromAllServersOfOne(t, n) == n.replies[t] >= Cardinality(Clients)
ReceivedFromAllServers(t, n) == n.replies[t] = Cardinality(Servers)

(* Mutant: waits for an answer to every worker, not to every client.       *)
HaveCreatedAllTablesOfAll(n) ==
  n.known = Tables /\ \A t \in Tables : n.answered[t] = Cardinality(Bgs)
HaveCreatedAllTables(n) ==
  n.known = Tables /\ \A t \in Tables : n.answered[t] = Cardinality(Clients)

(* The name node answers the workers of a queue and, once every client has *)
(* had every answer, lets the head workers go on.                          *)
Answered(n, t, workers) ==
  [n EXCEPT !.answered[t] = @ + Cardinality(workers), !.waiting[t] = @ \ workers]

AnswerMsgs(m, n, t, workers) ==
  LET replied == Send(m, NameNode, workers, <<"CreateTableReply", t>>)
  IN IF HaveCreatedAllTables(Answered(n, t, workers))
     THEN Send(replied, NameNode, {HeadBg(c) : c \in Clients}, <<"CreatedAllTables", 0>>)
     ELSE replied

NameNodeCreateTable(b) ==
  LET t     == Content(b, NameNode)
      new   == t \notin name.known
      known == [name EXCEPT !.known = @ \cup {t}]
      asked == IF new THEN Send(Rest(b, NameNode), NameNode, Servers, <<"CreateTable", t>>)
                      ELSE Rest(b, NameNode)
  IN
  /\ name.at = "loop"
  /\ Gets(b, NameNode, "CreateTable")
  /\ IF ReceivedFromAllServers(t, name)
     THEN /\ name' = Answered(known, t, {b})
          /\ net' = AnswerMsgs(asked, known, t, {b})
     ELSE /\ name' = [known EXCEPT !.waiting[t] = @ \cup {b}]
          /\ net' = asked
  /\ UNCHANGED <<thread, tables, bg, server>>

NameNodeCreateTableReply(s) ==
  LET t       == Content(s, NameNode)
      replied == [name EXCEPT !.replies[t] = @ + 1]
  IN
  /\ name.at = "loop"
  /\ Gets(s, NameNode, "CreateTableReply")
  /\ IF ReceivedFromAllServers(t, replied)
     THEN /\ name' = Answered(replied, t, name.waiting[t])
          /\ net' = AnswerMsgs(Rest(s, NameNode), replied, t, name.waiting[t])
     ELSE name' = replied /\ net' = Rest(s, NameNode)
  /\ UNCHANGED <<thread, tables, bg, server>>

ServerCreateTable(s) ==
  LET t == Content(NameNode, s) IN
  /\ server[s].at = "loop"
  /\ Gets(NameNode, s, "CreateTable")
  /\ server' = [server EXCEPT ![s].tables = @ \cup {t}]
  /\ net' = Send(Rest(NameNode, s), s, {NameNode}, <<"CreateTableReply", t>>)
  /\ UNCHANGED <<thread, tables, bg, name>>

(* create_table_barrier_: CreateTableDone and the workers.                 *)
CreateTableBarrier(c) ==
  /\ thread[InitThread[c]].at = "table_barrier"
  /\ \A b \in BgsOf(c) : bg[b].at = "table_barrier"
  /\ thread' = [thread EXCEPT ![InitThread[c]].at = "registered"]
  /\ bg' = [b \in Bgs |-> IF b \in BgsOf(c) THEN [bg[b] EXCEPT !.at = "loop"] ELSE bg[b]]
  /\ UNCHANGED <<net, tables, server, name>>
-----------------------------------------------------------------------------
(* RegisterThread: allowed after CreateTableDone.                          *)
RegisterThread(t) ==
  LET c == ClientOf[t] IN
  /\ thread[t].at = "unborn"
  /\ thread[InitThread[c]].at = "registered"
  /\ thread' = [thread EXCEPT ![t].at = "registered"]
  /\ net' = Send(net, t, BgsOf(c), <<"AppConnect", 0>>)
  /\ UNCHANGED <<tables, bg, server, name>>

(* register_barrier_: RegisterThread and WaitThreadRegister return.        *)
RegisterBarrier(c) ==
  /\ \A t \in ThreadsOf(c) : thread[t].at = "registered"
  /\ thread' = [t \in Threads |-> IF t \in ThreadsOf(c)
                                  THEN [thread[t] EXCEPT !.at = "running"] ELSE thread[t]]
  /\ UNCHANGED <<net, tables, bg, server, name>>

MinClock(clocks) == CHOOSE m \in {clocks[x] : x \in DOMAIN clocks} :
                      \A x \in DOMAIN clocks : m <= clocks[x]

(* vector_clock_.get_min_clock() of a client.                              *)
ProcessClock(c, th) == MinClock([t \in ThreadsOf(c) |-> th[t].clock])

(* Clock(): the thread that moves the minimum tells the workers.           *)
Clock(t) ==
  LET c == ClientOf[t] IN
  /\ thread[t].at = "running" /\ thread[t].clock < MaxClock
  /\ thread' = [thread EXCEPT ![t].clock = @ + 1]
  /\ net' = IF ProcessClock(c, thread') > ProcessClock(c, thread)
            THEN Send(net, t, BgsOf(c), <<"BgClock", 0>>) ELSE net
  /\ UNCHANGED <<tables, bg, server, name>>

(* DeregisterThread; the init thread does it in ShutDown(), after all      *)
(* other threads.                                                          *)
DeregisterThread(t) ==
  LET c == ClientOf[t] IN
  /\ thread[t].at = "running"
  /\ t = InitThread[c] =>
       \A u \in ThreadsOf(c) \ {t} : thread[u].at = "deregistered"
  /\ thread' = [thread EXCEPT ![t].at = "deregistered"]
  /\ net' = Send(net, t, BgsOf(c), <<"AppThreadDereg", 0>>)
  /\ UNCHANGED <<tables, bg, server, name>>

(* ~TableGroup: the init thread joins servers, name node and workers, then *)
(* deletes the bus.                                                        *)
ShutDown(c) ==
  /\ thread[InitThread[c]].at = "deregistered"
  /\ \A b \in BgsOf(c) : bg[b].at = "exited"
  /\ \A s \in Servers : s[2] = c => server[s].at = "exited"
  /\ c = NameNodeClient => name.at = "exited"
  /\ thread' = [thread EXCEPT ![InitThread[c]].at = "exited"]
  /\ UNCHANGED <<net, tables, bg, server, name>>
-----------------------------------------------------------------------------
BgConnect(b, t) ==
  /\ bg[b].at = "loop"
  /\ Gets(t, b, "AppConnect")
  /\ net' = Rest(t, b)
  /\ UNCHANGED <<thread, tables, bg, server, name>>

(* SendOpLogMsgs: a batch with the worker's clock to every server.         *)
OpLogMsgs(n, b, x) == Send(n, b, ServersFor(b), <<"ClientSendOpLog", x.clock>>)

(* HandleClockMsg.                                                         *)
BgClock(b, t) ==
  LET clocked == [bg[b] EXCEPT !.clock = @ + 1] IN
  /\ bg[b].at = "loop"
  /\ Gets(t, b, "BgClock")
  /\ IF CheckSendAll(clocked)
     THEN /\ bg' = [bg EXCEPT ![b] = Tracked(clocked)]
          /\ net' = OpLogMsgs(Rest(t, b), b, clocked)
     ELSE /\ bg' = [bg EXCEPT ![b] = [clocked EXCEPT !.held = TRUE]]
          /\ net' = Rest(t, b)
  /\ UNCHANGED <<thread, tables, server, name>>

(* kServerOpLogAck: the held-back batch, then the shutdown.                *)
BgOpLogAck(b, s) ==
  LET acked  == [bg[b] EXCEPT !.pending[s] = @ - 1]
      resend == acked.held /\ CheckSendAll(acked)
      after  == IF resend THEN Tracked(acked) ELSE acked
      sent   == IF resend THEN OpLogMsgs(Rest(s, b), b, acked) ELSE Rest(s, b)
  IN
  /\ bg[b].at = "loop"
  /\ Gets(s, b, "ServerOpLogAck")
  /\ IF ShutDownDue(after)
     THEN /\ bg' = [bg EXCEPT ![b] = [after EXCEPT !.ending = FALSE]]
          /\ net' = ShutDownMsgs(sent, b)
     ELSE bg' = [bg EXCEPT ![b] = after] /\ net' = sent
  /\ UNCHANGED <<thread, tables, server, name>>

(* kServerPushRow: the rows are applied and the message acknowledged.      *)
BgPushRow(b, s) ==
  /\ bg[b].at = "loop"
  /\ Gets(s, b, "ServerPushRow")
  /\ net' = Send(Rest(s, b), b, {s}, <<"BgServerPushRowAck", 0>>)
  /\ UNCHANGED <<thread, tables, bg, server, name>>

(* kAppThreadDereg.                                                        *)
BgDereg(b, t) ==
  LET last == bg[b].deregs + 1 = Cardinality(ThreadsOf(b[2])) IN
  /\ bg[b].at = "loop"
  /\ Gets(t, b, "AppThreadDereg")
  /\ bg' = [bg EXCEPT ![b].deregs = @ + 1,
                      ![b].ending = last /\ ~MayShutDown(bg[b])]
  /\ net' = IF last /\ MayShutDown(bg[b]) THEN ShutDownMsgs(Rest(t, b), b) ELSE Rest(t, b)
  /\ UNCHANGED <<thread, tables, server, name>>

(* kServerShutDownAck, from the servers and the name node.                 *)
BgShutDownAck(b, from) ==
  /\ bg[b].at = "loop"
  /\ Gets(from, b, "ServerShutDownAck")
  /\ bg' = [bg EXCEPT ![b].acks = @ + 1,
                      ![b].at = IF bg[b].acks = Cardinality(Clients)
                                THEN "exited" ELSE @]
  /\ net' = Rest(from, b)
  /\ UNCHANGED <<thread, tables, server, name>>
-----------------------------------------------------------------------------
PushMsgs(n, s) == Send(n, s, BgsFor(s), <<"ServerPushRow", 0>>)

(* HandleOpLogMsg: ClockUntil, ServerPushRow if the minimum moved, and the *)
(* acknowledgement.                                                        *)
ServerOpLog(s, b) ==
  LET clocked == [server[s] EXCEPT !.clock[b] = Content(b, s)]
      due     == PushRows /\ MinClock(clocked.clock) > MinClock(server[s].clock)
      pushes  == due /\ CheckSendAll(clocked)
  IN
  /\ server[s].at = "loop"
  /\ Gets(b, s, "ClientSendOpLog")
  /\ server' = [server EXCEPT ![s] =
                  IF pushes THEN Tracked(clocked)
                  ELSE [clocked EXCEPT !.held = @ \/ due]]
  /\ net' = Send(IF pushes THEN PushMsgs(Rest(b, s), s) ELSE Rest(b, s),
                 s, {b}, <<"ServerOpLogAck", 0>>)
  /\ UNCHANGED <<thread, tables, bg, name>>

(* kBgServerPushRowAck: the held-back rows, then the shutdown.             *)
ServerPushRowAck(s, b) ==
  LET acked  == [server[s] EXCEPT !.pending[b] = @ - 1]
      resend == acked.held /\ CheckSendAll(acked)
      after  == IF resend THEN Tracked(acked) ELSE acked
      sent   == IF resend THEN PushMsgs(Rest(b, s), s) ELSE Rest(b, s)
  IN
  /\ server[s].at = "loop"
  /\ Gets(b, s, "BgServerPushRowAck")
  /\ IF ShutDownDue(after)
     THEN /\ server' = [server EXCEPT ![s] = [after EXCEPT !.ending = FALSE, !.at = "exited"]]
          /\ net' = ShutDownAcks(sent, s)
     ELSE server' = [server EXCEPT ![s] = after] /\ net' = sent
  /\ UNCHANGED <<thread, tables, bg, name>>

(* HandleShutDownMsg of a server                                           *)
ServerShutDown(s, b) ==
  LET last == server[s].shut + 1 = Cardinality(Clients)
      ends == last /\ MayShutDown(server[s])
  IN
  /\ server[s].at = "loop"
  /\ Gets(b, s, "ClientShutDown")
  /\ server' = [server EXCEPT ![s].shut = @ + 1,
                              ![s].ending = last /\ ~ends,
                              ![s].at = IF ends THEN "exited" ELSE @]
  /\ net' = IF ends THEN ShutDownAcks(Rest(b, s), s) ELSE Rest(b, s)
  /\ UNCHANGED <<thread, tables, bg, name>>

(* and of the name node, which waits for the workers of every channel.     *)
NameNodeShutDown(b) ==
  LET last == name.shut + 1 = Cardinality(Bgs) IN
  /\ name.at = "loop"
  /\ Gets(b, NameNode, "ClientShutDown")
  /\ name' = [name EXCEPT !.shut = @ + 1, !.at = IF last THEN "exited" ELSE @]
  /\ net' = IF last THEN Send(Rest(b, NameNode), NameNode, Bgs, <<"ServerShutDownAck", 0>>)
                    ELSE Rest(b, NameNode)
  /\ UNCHANGED <<thread, tables, bg, server>>
-----------------------------------------------------------------------------
NameNodeStep ==
  \/ \E x \in Bgs \cup Servers : NameNodeConnection(x)
  \/ \E b \in Bgs : NameNodeCreateTable(b) \/ NameNodeShutDown(b)
  \/ \E s \in Servers : NameNodeCreateTableReply(s)

ServerStep(s) ==
  \/ ServerCreateTable(s)
  \/ \E b \in BgsFor(s) : \/ ServerConnection(s, b) \/ ServerOpLog(s, b)
                          \/ ServerPushRowAck(s, b) \/ ServerShutDown(s, b)

BgStep(b) ==
  \/ BgConnectServers(b) \/ BgTableCreated(b) \/ BgAllTablesCreated(b)
  \/ \E x \in ServersFor(b) \cup {NameNode} : BgStart(b, x) \/ BgShutDownAck(b, x)
  \/ \E s \in ServersFor(b) : BgOpLogAck(b, s) \/ BgPushRow(b, s)
  \/ \E t \in ThreadsOf(b[2]) : \/ BgInitThread(b, t) \/ BgCreateTable(b, t)
                                \/ BgConnect(b, t) \/ BgClock(b, t) \/ BgDereg(b, t)

InitThreadStep(c) ==
  \/ InitBarrier(c) \/ TableCreated(c) \/ CreateTableBarrier(c)
  \/ RegisterBarrier(c) \/ ShutDown(c)
  \/ \E t \in Tables : CreateTable(c, t)

ThreadStep(t) == RegisterThread(t) \/ DeregisterThread(t)

Progress ==
  \/ NameNodeStep
  \/ \E s \in Servers : ServerStep(s)
  \/ \E b \in Bgs : BgStep(b)
  \/ \E c \in Clients : InitThreadStep(c)
  \/ \E t \in Threads : ThreadStep(t)

AllDown == \A c \in Clients : thread[InitThread[c]].at = "exited"

Next ==
  \/ Progress
  \/ \E t \in Threads : Clock(t)
  \/ AllDown /\ UNCHANGED lvars

Spec == Init /\ [][Next]_lvars

(* Some thread that can go on does, and a program ends.  There are finitely*)
(* many messages, hence no thread needs fairness of its own.               *)
Fairness == WF_lvars(Progress)

FairSpec == Spec /\ Fairness
-----------------------------------------------------------------------------
(* The types of message that the receive a thread is at may return.        *)
Accepted(x) ==
  IF x \in Bgs THEN
    CASE bg[x].at = "connecting" -> {"ConnectServer"}
      [] bg[x].at = "starting"   -> {"ClientStart"}
      [] bg[x].at = "connected"  -> {"AppConnect"}
      [] bg[x].at = "creating"   -> {"BgCreateTable"}
      [] bg[x].at = "asked"      -> {"CreateTableReply"}
      [] bg[x].at = "created"    -> {"CreatedAllTables"}
      [] bg[x].at = "loop"       -> {"AppConnect", "BgClock", "AppThreadDereg",
                                     "ServerOpLogAck", "ServerPushRow",
                                     "ServerShutDownAck"}
  ELSE IF x \in Servers THEN
    IF server[x].at = "connecting" THEN {"ClientConnect"}
    ELSE {"CreateTable", "ClientSendOpLog", "BgServerPushRowAck", "ClientShutDown"}
  ELSE IF x = NameNode THEN
    IF name.at = "connecting" THEN {"ClientConnect", "ServerConnect"}
    ELSE {"CreateTable", "CreateTableReply", "ClientShutDown"}
  ELSE {"CreateTableReply"}

Receives(x) ==
  IF x \in Bgs THEN bg[x].at \notin {"init_barrier", "table_barrier", "exited"}
  ELSE IF x \in Servers THEN server[x].at # "exited"
  ELSE IF x = NameNode THEN name.at # "exited"
  ELSE thread[x].at = "waiting"

(* No CHECK on the type of a message and no "Unrecognized message type"    *)
(* fails: what a thread's next receive can return is what it expects, in   *)
(* spite of the orders in which several processes connect, create tables   *)
(* and start to send.                                                      *)
NoCheckFails ==
  \A from \in Nodes : \A to \in Peers(from) :
    Receives(to) /\ Looked(from, to) => Head(net[from][to])[1] \in Accepted(to)

(* A table that a client's threads may use exists at every server, of all  *)
(* channels: a row request or a batch for it never comes too early.        *)
TablesBeforeUse ==
  \A c \in Clients, s \in Servers : tables[c] \subseteq server[s].tables

Exited(x) ==
  CASE x \in Bgs      -> bg[x].at = "exited"
    [] x \in Servers  -> server[x].at = "exited"
    [] x = NameNode   -> name.at = "exited"
    [] x \in Threads  -> FALSE

(* A thread that exits has received everything that was sent to it, and    *)
(* nothing is sent to it any more.                                         *)
NothingUnread ==
  \A from \in Nodes : \A to \in Peers(from) : Exited(to) => net[from][to] = << >>

(* Shutting down loses no update: a server that exits has applied every    *)
(* clock of every client, those held back when the threads ended included. *)
ClocksApplied ==
  \A s \in Servers : server[s].at = "exited" =>
    \A b \in BgsFor(s) : server[s].clock[b] = ProcessClock(b[2], thread)

(* What a worker or a server holds back, its shutdown included, waits for  *)
(* an acknowledgement that comes: the message it answers has not been read *)
(* yet or the answer is under way.  Nothing else would ever send it.       *)
NumberOf(queue, type) == Cardinality({i \in DOMAIN queue : queue[i][1] = type})

Unanswered(from, to, type, answer) ==
  NumberOf(net[from][to], type) + NumberOf(net[to][from], answer)

HeldShutDownAwaitsAck ==
  /\ \A b \in Bgs :
       /\ bg[b].held \/ bg[b].ending => PendingAcks(bg[b])
       /\ \A s \in ServersFor(b) :
            bg[b].pending[s] = Unanswered(b, s, "ClientSendOpLog", "ServerOpLogAck")
  /\ \A s \in Servers :
       /\ server[s].held \/ server[s].ending => PendingAcks(server[s])
       /\ \A b \in BgsFor(s) :
            server[s].pending[b] = Unanswered(s, b, "ServerPushRow", "BgServerPushRowAck")

(* The system starts, and once its threads have ended it shuts down.       *)
Terminates == <>AllDown
=============================================================================
