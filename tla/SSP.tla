-------------------------------- MODULE SSP --------------------------------
(***************************************************************************)
(* The parameter server under the SSP consistency model, one communication *)
(* channel wide: application threads of several client processes, one      *)
(* background worker per client, and the server threads that share the     *)
(* rows.  A thread updates rows (Inc), reads them (Get) and ends an        *)
(* iteration (Clock); its background worker batches the process's updates, *)
(* sends them with the process clock to every server, and fetches rows the *)
(* process cache does not hold fresh enough.  A server applies the batches *)
(* and answers a row request once every client has reached its clock.      *)
(*                                                                         *)
(* An update is a tuple <<thread, clock, n>>: the n-th Inc the thread made *)
(* on a row in that clock.  The value of a row is the set of updates added *)
(* to it; the history variable twice collects the updates that an addition *)
(* found present already, so a set stands for a sum as long as twice is    *)
(* empty.  A failed CHECK of the code aborts the process: failed names it  *)
(* and the model stops there.                                              *)
(***************************************************************************)
EXTENDS Integers, Sequences, FiniteSets, SequencesExt, RowRequests

CONSTANTS
  Clients,      (* client processes, each with one background worker       *)
  Threads,      (* application threads of all clients                      *)
  Servers,      (* server threads of this channel                          *)
  ClientOf,     (* the client of a thread                                  *)
  ServerOf,     (* GetPartitionServerID: the server that holds a row       *)
  Staleness,    (* the table's staleness_                                  *)
  MaxPending,   (* kMaxPendingMsgs: batches a server may leave unacked     *)
  Aggressive,   (* aggressive_clock of the table group's configuration     *)
  MaxClock,     (* bound: a thread ends its work at this clock             *)
  Writers,      (* the threads whose application code calls Inc()          *)
  Readers,      (* the threads whose application code calls Get()          *)
  MaxIncs,      (* bound: Incs of one thread on one row in one clock       *)
  MaxEvict      (* bound: rows evicted from one process storage            *)

ASSUME SSPAssumption ==
  /\ Clients # {} /\ IsFiniteSet(Clients)
  /\ ClientOf \in [Threads -> Clients]
  /\ \A c \in Clients : \E t \in Threads : ClientOf[t] = c
  /\ Rows # {} /\ ServerOf \in [Rows -> Servers]
  /\ Staleness \in Nat
  /\ MaxPending \in Nat \ {0}
  /\ Aggressive \in BOOLEAN
  /\ Writers \subseteq Threads /\ Readers \subseteq Threads
  /\ MaxClock \in Nat /\ MaxIncs \in Nat /\ MaxEvict \in Nat

VARIABLES
  \* application threads
  pc,        \* "run"; inside Clock() "flushed"; inside Get() "waiting", "woken"
  clock,     \* ThreadContext clock
  dirty,     \* oplog_index_ of the thread: rows updated since its last Clock()
  want,      \* the Get() under way: its row, stalest clock and fetch count;
             \* history: the rows evicted since before it
  got,       \* history: a thread's last Get() of a row (see SSPStore)
  \* shared by the threads of one client
  tick,      \* vector_clock_ of the table group, one entry per thread
  storage,   \* process_storage_: the cached rows
  oplog,     \* oplog_: updates of a row not handed to the background worker
  index,     \* oplog_index_ of the table: rows the next batch takes
  evicted,   \* rows evicted so far
  pinned,    \* rows whose num_refs_ cannot become 0 any more
  \* background worker of a client
  version,   \* version_: the version the next batch gets
  bgClock,   \* client_clock_
  pend,      \* pending_clock_send_oplog_ and clock_advanced_buffed_
  sent,      \* msg_tracker_: last sequence number sent to a server
  acked,     \* msg_tracker_: last sequence number a server acknowledged
  mgr,       \* row_request_oplog_mgr_
  \* servers
  data,      \* the rows
  sClock,    \* bg_clock_: the clock each client has reached
  sVersion,  \* bg_version_map_: the last batch applied of each client
  queued,    \* clock_bg_row_requests_: requests waiting for a clock
  \* channels, first in first out between each pair
  toBg, toServer, toClient,
  \* history
  made,      \* updates made so far
  twice,     \* updates some addition found present already
  failed     \* the CHECK that failed, or "none"

appVars    == <<pc, clock, dirty, want, got>>
clientVars == <<tick, storage, oplog, index, evicted, pinned>>
bgVars     == <<version, bgClock, pend, sent, acked, mgr>>
serverVars == <<data, sClock, sVersion, queued>>
netVars    == <<toBg, toServer, toClient>>
histVars   == <<made, twice, failed>>
vars == <<appVars, clientVars, bgVars, serverVars, netVars, histVars>>

(* What the application is promised: of all the state above, the store's   *)
(* variables are the updates made, the threads' clocks and what they read. *)
Store == INSTANCE SSPStore
           WITH Threads <- Threads, Rows <- Rows, ClientOf <- ClientOf,
                Staleness <- Staleness,
                made <- made, clock <- clock, got <- got

Clocks  == 0 .. MaxClock
Updates == Threads \X Clocks \X (1 .. MaxIncs)
NoRow   == [clock |-> -1, data |-> {}]
NoWant  == [row |-> CHOOSE r \in Rows : TRUE, clock |-> 0, fetches |-> 0,
            since |-> 0]

ThreadsOf(c) == { t \in Threads : ClientOf[t] = c }

(* No CHECK has failed.                                                    *)
Running == failed = "none"

(* VectorClock keeps min_clock_, the minimum of its entries.               *)
(* Mutant: the clock of the fastest.                                       *)
MinClockLargest(vec) == Max(Range(vec))
MinClock(vec) == Min(Range(vec))

Cached(c, r) == storage[c][r] # NoRow

(* max(0, clock - staleness): the oldest row a Get() may return.           *)
(* Mutant: max(0, ..) forgotten.                                           *)
StalestClockBelowZero(t) == clock[t] - Staleness
(* Mutant: one clock too lenient.                                          *)
StalestClockOneLate(t) == Max({0, clock[t] - Staleness - 1})
StalestClock(t) == Max({0, clock[t] - Staleness})

Init ==
  /\ pc       = [t \in Threads |-> "run"]
  /\ clock    = [t \in Threads |-> 0]
  /\ dirty    = [t \in Threads |-> {}]
  /\ want     = [t \in Threads |-> NoWant]
  /\ got      = [t \in Threads |-> [r \in Rows |-> Store!NothingRead]]
  /\ tick     = [t \in Threads |-> 0]
  /\ storage  = [c \in Clients |-> [r \in Rows |-> NoRow]]
  /\ oplog    = [c \in Clients |-> [r \in Rows |-> {}]]
  /\ index    = [c \in Clients |-> {}]
  /\ evicted  = [c \in Clients |-> 0]
  /\ pinned   = [c \in Clients |-> {}]
  /\ version  = [c \in Clients |-> 0]
  /\ bgClock  = [c \in Clients |-> 0]
  /\ pend     = [c \in Clients |-> [on |-> FALSE, advanced |-> FALSE]]
  /\ sent     = [c \in Clients |-> [s \in Servers |-> 0]]
  /\ acked    = [c \in Clients |-> [s \in Servers |-> 0]]
  /\ mgr      = [c \in Clients |-> NoRequests]
  /\ data     = [r \in Rows |-> {}]
  /\ sClock   = [s \in Servers |-> [c \in Clients |-> 0]]
  /\ sVersion = [s \in Servers |-> [c \in Clients |-> -1]]
  /\ queued   = [s \in Servers |-> [c \in Clients |-> [k \in Clocks |-> << >>]]]
  /\ toBg     = [t \in Threads |-> << >>]
  /\ toServer = [c \in Clients |-> [s \in Servers |-> << >>]]
  /\ toClient = [s \in Servers |-> [c \in Clients |-> << >>]]
  /\ made     = [r \in Rows |-> {}]
  /\ twice    = {}
  /\ failed   = "none"
-----------------------------------------------------------------------------
(* Application threads.                                                    *)

FindInsertOpLog(c, r, u) == [oplog EXCEPT ![c][r] = @ \cup {u}]

(* SSPConsistencyController::Inc: the row's oplog lock is held while the   *)
(* update goes into the oplog and into the cached row, if there is one.    *)
Inc(t, r) ==
  \E n \in 1 .. MaxIncs :
    LET c == ClientOf[t]
        u == <<t, clock[t], n>>
    IN
      /\ Running
      /\ pc[t] = "run"
      /\ clock[t] < MaxClock
      /\ n = Cardinality({ v \in made[r] : v[1] = t /\ v[2] = clock[t] }) + 1
      /\ dirty'   = [dirty EXCEPT ![t] = @ \cup {r}]
      /\ oplog'   = FindInsertOpLog(c, r, u)
      /\ storage' = IF Cached(c, r)
                    THEN [storage EXCEPT ![c][r].data = @ \cup {u}]
                    ELSE storage
      /\ made'    = [made EXCEPT ![r] = @ \cup {u}]
      /\ UNCHANGED <<pc, clock, want, got, tick, index, evicted, pinned,
                     bgVars, serverVars, netVars, twice, failed>>

(* A Get() that ends: what it had to see and what it returned.             *)
Seen(t, r) == [due |-> Store!Due(t, r), seen |-> storage[ClientOf[t]][r].data]

(* Get returns a cached row that is fresh enough; otherwise it asks the    *)
(* background worker and blocks until the reply.                           *)
GetCached(t, r) ==
  LET row == storage[ClientOf[t]][r]
  IN  /\ Running
      /\ pc[t] = "run"
      /\ Cached(ClientOf[t], r)
      /\ row.clock >= StalestClock(t)
      /\ got' = [got EXCEPT ![t][r] = Seen(t, r)]
      /\ UNCHANGED <<pc, clock, dirty, want, clientVars, bgVars, serverVars,
                     netVars, histVars>>

RowRequestMsg(r, k) == [type |-> "RowRequest", row |-> r, clock |-> k]

(* A row that is cached but stale is looked up again after the reply with  *)
(* the same RowAccessor, which then holds two references and gives back    *)
(* one (SetClientRow does not Clear()): the row is pinned for good.        *)
GetFetch(t, r) ==
  LET row == storage[ClientOf[t]][r]
  IN  /\ Running
      /\ pc[t] = "run"
      /\ ~(Cached(ClientOf[t], r) /\ row.clock >= StalestClock(t))
      /\ pc'   = [pc EXCEPT ![t] = "waiting"]
      /\ want' = [want EXCEPT ![t] =
                    [row |-> r, clock |-> StalestClock(t), fetches |-> 0,
                     since |-> evicted[ClientOf[t]]]]
      /\ toBg' = [toBg EXCEPT ![t] =
                    Append(@, RowRequestMsg(r, StalestClock(t)))]
      /\ pinned' = IF Cached(ClientOf[t], r)
                   THEN [pinned EXCEPT ![ClientOf[t]] = @ \cup {r}]
                   ELSE pinned
      /\ UNCHANGED <<clock, dirty, got, tick, storage, oplog, index, evicted,
                     bgVars, serverVars, toServer, toClient, histVars>>

(* The reply only says that the row has been inserted: the thread looks it *)
(* up again and asks again if it was evicted meanwhile, three times.       *)
GetResume(t) ==
  LET c   == ClientOf[t]
      r   == want[t].row
      row == storage[c][r]
      n   == want[t].fetches + 1
  IN  /\ Running
      /\ pc[t] = "woken"
      /\ IF n > 3 \/ (Cached(c, r) /\ row.clock < want[t].clock)
         THEN /\ failed' = IF n > 3 THEN "num_fetches" ELSE "row_clock"
              /\ UNCHANGED <<pc, want, got, toBg>>
         ELSE /\ UNCHANGED failed
              /\ IF Cached(c, r)
                 THEN /\ pc'   = [pc EXCEPT ![t] = "run"]
                      /\ want' = [want EXCEPT ![t] = NoWant]
                      /\ got'  = [got EXCEPT ![t][r] = Seen(t, r)]
                      /\ UNCHANGED toBg
                 ELSE /\ pc'   = [pc EXCEPT ![t] = "waiting"]
                      /\ want' = [want EXCEPT ![t].fetches = n]
                      /\ toBg' = [toBg EXCEPT ![t] =
                                    Append(@, RowRequestMsg(r, want[t].clock))]
                      /\ UNCHANGED got
      /\ UNCHANGED <<clock, dirty, clientVars, bgVars, serverVars, toServer,
                     toClient, made, twice>>

(* Mutant: the thread's rows replace those of the threads before it.       *)
AddIndexReplaced(c, rows) == [index EXCEPT ![c] = rows]
AddIndex(c, rows) == [index EXCEPT ![c] = @ \cup rows]

(* TableGroup::Clock, first half: the thread's clock advances and its rows *)
(* join the table's oplog index.                                           *)
ClockFlush(t) ==
  LET c == ClientOf[t]
  IN  /\ Running
      /\ pc[t] = "run"
      /\ clock[t] < MaxClock
      /\ pc'    = [pc EXCEPT ![t] = "flushed"]
      /\ clock' = [clock EXCEPT ![t] = @ + 1]
      /\ index' = AddIndex(c, dirty[t])
      /\ dirty' = [dirty EXCEPT ![t] = {}]
      /\ UNCHANGED <<want, got, tick, storage, oplog, evicted, pinned, bgVars,
                     serverVars, netVars, histVars>>

(* Second half: the vector clock ticks.  When the process clock moved, the *)
(* worker is told so; otherwise only an aggressive clock asks for a batch. *)
ClockTick(t) ==
  LET c     == ClientOf[t]
      moved == \A o \in ThreadsOf(c) \ {t} : tick[o] > tick[t]
      msg   == [type |-> IF moved THEN "BgClock" ELSE "BgSendOpLog"]
  IN  /\ Running
      /\ pc[t] = "flushed"
      /\ pc'   = [pc EXCEPT ![t] = "run"]
      /\ tick' = [tick EXCEPT ![t] = @ + 1]
      /\ toBg' = IF moved \/ Aggressive
                 THEN [toBg EXCEPT ![t] = Append(@, msg)]
                 ELSE toBg
      /\ UNCHANGED <<clock, dirty, want, got, storage, oplog, index, evicted,
                     pinned, bgVars, serverVars, toServer, toClient, histVars>>
-----------------------------------------------------------------------------
(* Process storage: inserting another row may evict this one, unless       *)
(* references to it remain.                                                *)
Evict(c, r) ==
  /\ Running
  /\ Cached(c, r)
  /\ r \notin pinned[c]
  /\ evicted[c] < MaxEvict
  /\ storage' = [storage EXCEPT ![c][r] = NoRow]
  /\ evicted' = [evicted EXCEPT ![c] = @ + 1]
  /\ UNCHANGED <<appVars, tick, oplog, index, pinned, bgVars, serverVars,
                 netVars, histVars>>
-----------------------------------------------------------------------------
(* Background worker.                                                      *)

(* MsgTracker::CheckSendAll over the acknowledgements ack.                 *)
(* Mutant: the batch about to be sent counted as pending.                  *)
CheckSendAllOneShort(c, ack) ==
  \A s \in Servers : sent[c][s] - ack[s] + 1 < MaxPending

CheckSendAll(c, ack) ==
  \A s \in Servers : sent[c][s] - ack[s] < MaxPending

(* The batch takes the oplogs of the indexed rows.  Every server gets a    *)
(* message, with its rows' updates or with none.                           *)
Batch(c) == [r \in Rows |-> IF r \in index[c] THEN oplog[c][r] ELSE {}]

(* The rows' oplogs are reset when they are taken.                         *)
(* Mutant: the oplogs are not reset.                                       *)
RemainingUnreset(c) == oplog[c]
(* Mutant: the oplogs of all rows are reset.                               *)
RemainingNothing(c) == [r \in Rows |-> {}]
Remaining(c) == [r \in Rows |-> oplog[c][r] \ Batch(c)[r]]

ResetPartition(c) == [index EXCEPT ![c] = {}]

(* MsgTracker::IncGetSeq.                                                  *)
IncGetSeq(c, s) == sent[c][s] + 1

(* Mutant: the messages written after the oplogs were reset.               *)
OpLogMsgEmpty(c, s, advanced, clk) ==
  [type |-> "OpLog", isClock |-> advanced, bgClock |-> clk,
   version |-> version[c], seq |-> IncGetSeq(c, s), log |-> [r \in Rows |-> {}]]

OpLogMsg(c, s, advanced, clk) ==
  [type |-> "OpLog", isClock |-> advanced, bgClock |-> clk,
   version |-> version[c], seq |-> IncGetSeq(c, s),
   log |-> [r \in Rows |-> IF ServerOf[r] = s THEN Batch(c)[r] ELSE {}]]

(* What is remembered of a batch that must wait (clock_advanced_buffed_).  *)
(* Mutant: that it is to be sent, but not that it carries a clock.         *)
HeldBackPlain(advanced) == [on |-> TRUE, advanced |-> FALSE]
HeldBack(advanced) == [on |-> TRUE, advanced |-> advanced]

(* HandleClockMsg: send now, or remember when some server has not          *)
(* acknowledged enough.  clk, ack and on are client_clock_, the            *)
(* acknowledgements and pending_clock_send_oplog_ at the time of the call. *)
HandleClockMsg(c, advanced, clk, ack, on) ==
  IF ~CheckSendAll(c, ack)
  THEN /\ pend' = [pend EXCEPT ![c] = HeldBack(advanced)]
       /\ UNCHANGED <<oplog, index, version, sent, mgr, toServer>>
  ELSE /\ pend'     = [pend EXCEPT ![c].on = on]
       /\ oplog'    = [oplog EXCEPT ![c] = Remaining(c)]
       /\ index'    = ResetPartition(c)
       /\ toServer' = [toServer EXCEPT ![c] = [s \in Servers |->
                         Append(@[s], OpLogMsg(c, s, advanced, clk))]]
       /\ sent'     = [sent EXCEPT ![c] = [s \in Servers |-> IncGetSeq(c, s)]]
       /\ mgr'      = [mgr EXCEPT ![c] =
                         AddOpLog(@, version[c], Batch(c))]
       /\ version'  = [version EXCEPT ![c] = @ + 1]

(* kBgClock and kBgSendOpLog of the worker's loop.                         *)
BgClock(t) ==
  LET c == ClientOf[t]
  IN  /\ Running
      /\ toBg[t] # << >> /\ Head(toBg[t]).type = "BgClock"
      /\ toBg'    = [toBg EXCEPT ![t] = Tail(@)]
      /\ bgClock' = [bgClock EXCEPT ![c] = @ + 1]
      /\ HandleClockMsg(c, TRUE, bgClock[c] + 1, acked[c], pend[c].on)
      /\ UNCHANGED <<appVars, tick, storage, evicted, pinned, acked,
                     serverVars, toClient, histVars>>

BgSendOpLog(t) ==
  LET c == ClientOf[t]
  IN  /\ Running
      /\ toBg[t] # << >> /\ Head(toBg[t]).type = "BgSendOpLog"
      /\ toBg' = [toBg EXCEPT ![t] = Tail(@)]
      /\ HandleClockMsg(c, FALSE, bgClock[c], acked[c], pend[c].on)
      /\ UNCHANGED <<appVars, tick, storage, evicted, pinned, bgClock, acked,
                     serverVars, toClient, histVars>>

(* CheckForwardRowRequestToServer: the row may have arrived meanwhile;     *)
(* otherwise the request is listed, and sent unless an earlier one for the *)
(* row covers it.                                                          *)
BgRowRequest(t) ==
  LET c == ClientOf[t]
      m == Head(toBg[t])
  IN  /\ Running
      /\ toBg[t] # << >> /\ m.type = "RowRequest"
      /\ toBg' = [toBg EXCEPT ![t] = Tail(@)]
      /\ IF Cached(c, m.row) /\ storage[c][m.row].clock >= m.clock
         THEN /\ pc' = [pc EXCEPT ![t] = "woken"]
              /\ UNCHANGED <<mgr, toServer>>
         ELSE /\ \E garbage \in BOOLEAN :
                   mgr' = [mgr EXCEPT ![c] =
                     AddRowRequest(@, m.row, t, m.clock, version[c] - 1,
                                       garbage)]
              /\ toServer' = IF ShouldBeSent(mgr[c], m.row, m.clock)
                             THEN [toServer EXCEPT ![c][ServerOf[m.row]] =
                                     Append(@, m)]
                             ELSE toServer
              /\ UNCHANGED pc
      /\ UNCHANGED <<clock, dirty, want, got, clientVars, version, bgClock,
                     pend, sent, acked, serverVars, toClient, histVars>>

(* The batches sent after version v, the one the server had applied when   *)
(* it answered, are replayed on the row (CheckAndApplyOldOpLogsToRowData); *)
(* GetOpLog insists that each has been kept.                               *)
Missing(c, v) ==
  \E w \in (v + 1) .. (version[c] - 1) : ~HasOpLog(mgr[c], w)

(* What is added up to the new row, in the order of the versions: the      *)
(* server's value, the replayed batches and the updates not yet sent.      *)
(* Mutant: the unsent updates are left out.                                *)
AddendsSentOnly(c, m) ==
  [v \in m.version .. version[c] - 1 |->
     IF v = m.version THEN m.data ELSE GetOpLog(mgr[c], v)[m.row]]

Addends(c, m) ==
  [v \in m.version .. version[c] |->
     IF v = m.version THEN m.data
     ELSE IF v = version[c] THEN oplog[c][m.row]
     ELSE GetOpLog(mgr[c], v)[m.row]]

AddedTwice(parts) ==
  { u \in UNION Range(parts) :
      \E v, w \in DOMAIN parts : v # w /\ u \in parts[v] \cap parts[w] }

NewRow(c, m) == [clock |-> m.clock, data |-> UNION Range(Addends(c, m))]

(* HandleServerRowRequestReply: the row becomes the server's value with    *)
(* the sent and the unsent updates of this process added to it; threads    *)
(* whose requests it meets are woken; a request left over may be sent.     *)
BgRowReply(s, c) ==
  LET m     == Head(toClient[s][c])
      next  == ClockToRequest(PopServed(mgr[c], m.row, m.clock,
                                                version[c]), m.row)
  IN  /\ Running
      /\ toClient[s][c] # << >> /\ m.type = "RowReply"
      /\ toClient' = [toClient EXCEPT ![s][c] = Tail(@)]
      /\ IF Missing(c, m.version)
         THEN /\ failed' = "GetOpLog"
              /\ UNCHANGED <<storage, mgr, pc, toServer, twice>>
         ELSE /\ UNCHANGED failed
              /\ storage' = [storage EXCEPT ![c][m.row] = NewRow(c, m)]
              /\ twice'   = twice \cup AddedTwice(Addends(c, m))
              /\ mgr'     = [mgr EXCEPT ![c] =
                               InformReply(@, m.row, m.clock, version[c])]
              /\ pc'      = [t \in Threads |->
                               IF t \in ServedThreads(mgr[c], m.row, m.clock)
                               THEN "woken" ELSE pc[t]]
              /\ toServer' = IF next >= 0
                             THEN [toServer EXCEPT ![c][ServerOf[m.row]] =
                                     Append(@, RowRequestMsg(m.row, next))]
                             ELSE toServer
      /\ UNCHANGED <<clock, dirty, want, got, tick, oplog, index, evicted,
                     pinned, version, bgClock, pend, sent, acked, serverVars,
                     toBg, made>>

(* MsgTracker::RecvAck's CHECKs.                                           *)
AckInOrder(c, s, seq) == acked[c][s] <= seq /\ seq <= sent[c][s]

(* kServerOpLogAck: record it, and send what was held back.                *)
BgOpLogAck(s, c) ==
  LET m   == Head(toClient[s][c])
      ack == [acked[c] EXCEPT ![s] = m.seq]
  IN  /\ Running
      /\ toClient[s][c] # << >> /\ m.type = "OpLogAck"
      /\ toClient' = [toClient EXCEPT ![s][c] = Tail(@)]
      /\ IF ~AckInOrder(c, s, m.seq)
         THEN /\ failed' = "RecvAck"
              /\ UNCHANGED <<acked, pend, oplog, index, version, sent, mgr,
                             toServer>>
         ELSE /\ UNCHANGED failed
              /\ acked' = [acked EXCEPT ![c] = ack]
              /\ IF pend[c].on /\ CheckSendAll(c, ack)
                 THEN HandleClockMsg(c, pend[c].advanced, bgClock[c], ack, FALSE)
                 ELSE UNCHANGED <<pend, oplog, index, version, sent, mgr,
                                  toServer>>
      /\ UNCHANGED <<appVars, tick, storage, evicted, pinned, bgClock,
                     serverVars, toBg, made, twice>>
-----------------------------------------------------------------------------
(* Servers.                                                                *)

RowReplyMsg(r, clk, v, value) ==
  [type |-> "RowReply", row |-> r, clock |-> clk, version |-> v,
   data |-> value]

(* HandleRowRequest: answer at once, or wait for the clock.                *)
Fresh(s, k) == MinClock(sClock[s]) >= k

(* Server::AddRowRequest.                                                  *)
Waiting(s, c, m) == [queued EXCEPT ![s][c][m.clock] = Append(@, m.row)]

ServerRowRequest(c, s) ==
  LET m   == Head(toServer[c][s])
      now == MinClock(sClock[s])
  IN  /\ Running
      /\ toServer[c][s] # << >> /\ m.type = "RowRequest"
      /\ toServer' = [toServer EXCEPT ![c][s] = Tail(@)]
      /\ IF ~Fresh(s, m.clock)
         THEN /\ queued' = Waiting(s, c, m)
              /\ UNCHANGED toClient
         ELSE /\ toClient' = [toClient EXCEPT ![s][c] =
                   Append(@, RowReplyMsg(m.row, now, sVersion[s][c],
                                         data[m.row]))]
              /\ UNCHANGED queued
      /\ UNCHANGED <<appVars, clientVars, bgVars, data, sClock, sVersion,
                     toBg, histVars>>

(* GetFulfilledRowRequests looks up the requests whose clock is the new    *)
(* minimum, and only those: the rows client c waits for.                   *)
Fulfilled(s, c, clk) ==
  IF clk \in DOMAIN queued[s][c] THEN queued[s][c][clk] ELSE << >>

(* ApplyOpLogUpdateVersion.                                                *)
Applied(log) == [r \in Rows |-> data[r] \cup log[r]]

(* TickUntil moves a client's clock forward only.                          *)
ClockUntil(s, c, k) == [sClock[s] EXCEPT ![c] = Max({@, k})]

(* HandleOpLogMsg: apply the batch, advance the client's clock, answer the *)
(* requests that waited for the new minimum, and acknowledge.              *)
ServerOpLog(c, s) ==
  LET m       == Head(toServer[c][s])
      clocks  == IF m.isClock THEN ClockUntil(s, c, m.bgClock) ELSE sClock[s]
      now     == MinClock(clocks)
      changed == now # MinClock(sClock[s])
      rows    == Applied(m.log)
      vers    == [sVersion[s] EXCEPT ![c] = m.version]
      Replies(d) ==
        IF changed
        THEN [i \in 1 .. Len(Fulfilled(s, d, now)) |->
                LET r == Fulfilled(s, d, now)[i]
                IN  RowReplyMsg(r, now, vers[d], rows[r])]
        ELSE << >>
      Ack(d) == IF d = c THEN << [type |-> "OpLogAck", version |-> m.version,
                                  seq |-> m.seq] >>
                ELSE << >>
  IN  /\ Running
      /\ toServer[c][s] # << >> /\ m.type = "OpLog"
      /\ toServer' = [toServer EXCEPT ![c][s] = Tail(@)]
      /\ IF m.version # sVersion[s][c] + 1
         THEN /\ failed' = "bg_version"
              /\ UNCHANGED <<data, sClock, sVersion, queued, toClient, twice>>
         ELSE /\ UNCHANGED failed
              /\ data'     = rows
              /\ twice'    = twice \cup UNION { data[r] \cap m.log[r] : r \in Rows }
              /\ sVersion' = [sVersion EXCEPT ![s] = vers]
              /\ sClock'   = [sClock EXCEPT ![s] = clocks]
              /\ queued'   = IF changed
                             THEN [queued EXCEPT ![s] = [d \in Clients |->
                                     [@[d] EXCEPT ![now] = << >>]]]
                             ELSE queued
              /\ toClient' = [toClient EXCEPT ![s] = [d \in Clients |->
                                @[d] \o Replies(d) \o Ack(d)]]
      /\ UNCHANGED <<appVars, clientVars, bgVars, toBg, made>>
-----------------------------------------------------------------------------
Finished ==
  /\ \A t \in Threads : pc[t] = "run" /\ clock[t] = MaxClock /\ toBg[t] = << >>
  /\ \A c \in Clients, s \in Servers :
       toServer[c][s] = << >> /\ toClient[s][c] = << >>

(* All threads have done their iterations and everything sent has been     *)
(* handled: the system rests.                                              *)
Rest == Finished /\ UNCHANGED vars

Step ==
  \/ \E t \in Writers, r \in Rows : Inc(t, r)
  \/ \E t \in Readers, r \in Rows : GetCached(t, r) \/ GetFetch(t, r)
  \/ \E t \in Threads : \/ GetResume(t)
                        \/ ClockFlush(t)
                        \/ ClockTick(t)
                        \/ BgClock(t)
                        \/ BgSendOpLog(t)
                        \/ BgRowRequest(t)
  \/ \E c \in Clients, r \in Rows : Evict(c, r)
  \/ \E c \in Clients, s \in Servers : \/ BgRowReply(s, c)
                                       \/ BgOpLogAck(s, c)
                                       \/ ServerRowRequest(c, s)
                                       \/ ServerOpLog(c, s)

Next == Step \/ Rest

Spec == Init /\ [][Next]_vars

(***************************************************************************)
(* The background worker and the servers loop and take whatever waits in a *)
(* channel (zmq serves the connections of a socket in turn); nobody else   *)
(* takes a message, so it is enough to say that one is taken.  A thread    *)
(* goes on in Get() when it is woken and keeps calling Clock(), as its     *)
(* iterations end.  Gets, updates and evictions happen or not.             *)
(***************************************************************************)
GoesOn(t) == ClockFlush(t) \/ ClockTick(t) \/ GetResume(t)
TakenFromApp(t) ==
  Running /\ toBg[t] # << >> /\ toBg' = [toBg EXCEPT ![t] = Tail(@)]
TakenFromServer(c, s) ==
  /\ Running /\ toClient[s][c] # << >>
  /\ toClient' = [toClient EXCEPT ![s][c] = Tail(@)]
TakenFromClient(c, s) ==
  /\ Running /\ toServer[c][s] # << >>
  /\ toServer' = [toServer EXCEPT ![c][s] = Tail(@)]

Fairness ==
  /\ \A t \in Threads : WF_vars(GoesOn(t)) /\ WF_toBg(TakenFromApp(t))
  /\ \A c \in Clients, s \in Servers :
       WF_toClient(TakenFromServer(c, s)) /\ WF_toServer(TakenFromClient(c, s))

FairSpec == Spec /\ Fairness
-----------------------------------------------------------------------------
(* Properties.                                                             *)

Versions == Nat \cup {-1}
Logs     == [Rows -> SUBSET Updates]
Requests == [thread : Threads, clock : Clocks, version : Versions,
             sent : BOOLEAN]
Retained == [version : Nat, log : Logs]
Managers == [reqs : [Rows -> Seq(Requests)], kept : SUBSET Retained]
Reads    == [due : SUBSET Updates, seen : SUBSET Updates]
CachedRows == [clock : Versions, data : SUBSET Updates]

RowRequestMsgs == [type : {"RowRequest"}, row : Rows, clock : Clocks]
ClockMsgs      == [type : {"BgClock", "BgSendOpLog"}]
OpLogMsgs      == [type : {"OpLog"}, isClock : BOOLEAN, bgClock : Nat,
                   version : Nat, seq : Nat, log : Logs]
RowReplyMsgs   == [type : {"RowReply"}, row : Rows, clock : Nat,
                   version : Versions, data : SUBSET Updates]
AckMsgs        == [type : {"OpLogAck"}, version : Nat, seq : Nat]

(* What the variables and the channels hold.                               *)
TypeApp ==
  /\ pc \in [Threads -> {"run", "flushed", "waiting", "woken"}]
  /\ clock \in [Threads -> Clocks]
  /\ dirty \in [Threads -> SUBSET Rows]
  /\ want \in [Threads -> [row : Rows, clock : Clocks, fetches : 0 .. 3,
                     since : 0 .. MaxEvict]]
  /\ got \in [Threads -> [Rows -> Reads]]

TypeClient ==
  /\ tick \in [Threads -> Nat]
  /\ storage \in [Clients -> [Rows -> CachedRows]]
  /\ oplog \in [Clients -> Logs]
  /\ index \in [Clients -> SUBSET Rows]
  /\ evicted \in [Clients -> 0 .. MaxEvict]
  /\ pinned \in [Clients -> SUBSET Rows]

TypeBg ==
  /\ version \in [Clients -> Nat]
  /\ bgClock \in [Clients -> Nat]
  /\ pend \in [Clients -> [on : BOOLEAN, advanced : BOOLEAN]]
  /\ sent \in [Clients -> [Servers -> Nat]]
  /\ acked \in [Clients -> [Servers -> Nat]]
  /\ mgr \in [Clients -> Managers]

TypeServer ==
  /\ data \in Logs
  /\ sClock \in [Servers -> [Clients -> Nat]]
  /\ sVersion \in [Servers -> [Clients -> Versions]]
  /\ queued \in [Servers -> [Clients -> [Clocks -> Seq(Rows)]]]

TypeNet ==
  /\ toBg \in [Threads -> Seq(RowRequestMsgs \cup ClockMsgs)]
  /\ toServer \in [Clients -> [Servers -> Seq(RowRequestMsgs \cup OpLogMsgs)]]
  /\ toClient \in [Servers -> [Clients -> Seq(RowReplyMsgs \cup AckMsgs)]]

TypeHistory == made \in Logs /\ twice \in SUBSET Updates

TypeOK == TypeApp /\ TypeClient /\ TypeBg /\ TypeServer /\ TypeNet /\ TypeHistory

(* SSP's promise: a cached row of clock k holds every update any thread    *)
(* made before it reached clock k.                                         *)
BoundedStaleness ==
  \A c \in Clients, r \in Rows :
    \A u \in made[r] : u[2] < storage[c][r].clock => u \in storage[c][r].data

(* A cached row holds all updates of the threads of its own process, sent  *)
(* or not, applied by the server or not.                                   *)
ReadMyWrites ==
  \A c \in Clients, r \in Rows :
    Cached(c, r) => { u \in made[r] : ClientOf[u[1]] = c } \subseteq storage[c][r].data

(* No update is added twice to a row, neither at a server nor when a       *)
(* worker replays batches on a row it received.                            *)
NoDoubleApply == twice = {}

(* An update is never dropped: it waits in its process's oplog, travels in *)
(* a batch, or has reached the server's row.                               *)
InFlight(c, r) ==
  UNION { m.log[r] : m \in { x \in Range(toServer[c][ServerOf[r]]) :
                                x.type = "OpLog" } }

NoUpdateLost ==
  Running => \A r \in Rows :
    made[r] = data[r] \cup UNION { oplog[c][r] \cup InFlight(c, r) : c \in Clients }

(* A held-back clock is never forgotten: some server still owes an         *)
(* acknowledgement, and its arrival sends the batch.                       *)
HeldBackAwaitsAck ==
  Running => \A c \in Clients : pend[c].on =>
    \E s \in Servers : /\ sent[c][s] - acked[c][s] >= MaxPending
                       /\ \/ \E m \in Range(toServer[c][s]) : m.type = "OpLog"
                          \/ \E m \in Range(toClient[s][c]) : m.type = "OpLogAck"

(* "An oplog cannot be deleted until all row requests sent prior to its    *)
(* version (exclusive) have been replied": the batches a reply on its way  *)
(* will need are still kept.                                               *)
OplogKeptUntilReplied ==
  \A c \in Clients, s \in Servers : \A m \in Range(toClient[s][c]) :
    m.type = "RowReply" => ~Missing(c, m.version)

(* Retained batches are given up with the last request that may need them. *)
KeptOnlyForRequests ==
  \A c \in Clients : \A k \in mgr[c].kept :
    \E v \in RequestVersions(mgr[c]) : v < k.version

(* A request that waits at a server is one the server cannot answer yet.   *)
OnlyUnfreshWait ==
  \A s \in Servers, c \in Clients, k \in Clocks :
    queued[s][c][k] # << >> => k > MinClock(sClock[s])

(* "If not, send the current request; otherwise, wait for server           *)
(* response": while threads wait for a row, a request for it is with the   *)
(* server or on its way, or its reply is.                                  *)
WaitersHaveRequest ==
  Running => \A c \in Clients, r \in Rows : mgr[c].reqs[r] # << >> =>
    LET s == ServerOf[r]
    IN  \/ \E m \in Range(toServer[c][s]) : m.type = "RowRequest" /\ m.row = r
        \/ \E k \in Clocks : r \in Range(queued[s][c][k])
        \/ \E m \in Range(toClient[s][c]) : m.type = "RowReply" /\ m.row = r

(* No CHECK of the modelled code fails.                                    *)
NoCheckFails == failed = "none"

(* When the threads of a process have several requests out, GetOpLog's     *)
(* CHECK may fail, and the one on num_fetches when three rows have been    *)
(* evicted while the thread was inside this one Get(); no other CHECK      *)
(* fails: a woken thread finds a row as fresh as it asked for, or none,    *)
(* and none only because the row was evicted again after its reply.        *)
OnlyOplogOrFetchFails ==
  /\ failed \in {"none", "GetOpLog", "num_fetches"}
  /\ failed = "num_fetches" =>
       \E t \in Threads : /\ want[t].fetches = 3
                          /\ evicted[ClientOf[t]] - want[t].since >= 3

(* Once everything has come to rest, every server knows that every process *)
(* has reached the last clock.                                             *)
AllClocksArrive ==
  Finished => \A s \in Servers, c \in Clients : sClock[s][c] = MaxClock

(* The threads finish, which they can only if every Get() returns, and the *)
(* servers then hold every update ever made.                               *)
Convergence == <>[](Finished /\ data = made)

(* What the application sees is what SSPStore promises.                    *)
StoreSpec == Store!Spec
=============================================================================
