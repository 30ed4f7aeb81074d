------------------------------ MODULE SSPPush ------------------------------
(***************************************************************************)
(* The SSPPush consistency model.  It keeps the threads, batches and       *)
(* clocks of SSP, as its classes derive from those of SSP, and adds:       *)
(*                                                                         *)
(*   - a server remembers which clients ever fetched a row and, whenever   *)
(*     its minimum clock moves, pushes to each of them the rows that have  *)
(*     changed, the last message of a push carrying the clock;             *)
(*   - a process keeps the minimum over the clocks of its servers, the     *)
(*     system clock; Get() waits for that clock instead of checking the    *)
(*     clock of the cached row;                                            *)
(*   - a worker retains every batch until all servers have applied it.     *)
(*                                                                         *)
(* A client has one worker here, so bg_server_clock_ is the minimum of its *)
(* worker's clocks; SystemClock models several workers and the wake-up of  *)
(* the waiting threads step by step, ServerVersions versions that wrap.    *)
(***************************************************************************)
EXTENDS SSP

CONSTANTS
  Fill,          (* rows that fill up a client's push message              *)
  MaxEvents,     (* bound: Incs and evictions in all                       *)
  Uninitialised  (* what the memory of system_clock_ may hold at the start *)

ASSUME SSPPushAssumption ==
  /\ IsFiniteSet(Servers)
  /\ Fill \subseteq Rows /\ MaxEvents \in Nat /\ Uninitialised \subseteq Int

VARIABLES
  \* application threads and their process
  cached,       \* cached_system_clock_ of the thread
  systemClock,  \* system_clock_ of the process
  \* background worker
  serverClock,  \* server_vector_clock_: the clock each server has pushed
  acknowledged, \* version_map_: the last batch each server is known to have
  pushMgr,      \* row_request_oplog_mgr_: requests and retained batches
  \* servers
  subscribed,   \* subscriptions_ of a row: the clients it is pushed to
  changed,      \* the rows whose dirty_ is set
  pendingPush,  \* pending_clock_push_row_
  pushSent,     \* msg_tracker_: last sequence number pushed to a client
  pushAcked     \* msg_tracker_: last sequence number a client acknowledged

pushClientVars == <<cached, systemClock, serverClock, acknowledged, pushMgr>>
pushServerVars == <<subscribed, changed, pendingPush, pushSent, pushAcked>>
pushVars == <<vars, pushClientVars, pushServerVars>>

(* No constructor initialises system_clock_.                               *)
PushInit ==
  /\ Init
  /\ cached       = [t \in Threads |-> 0]
  /\ systemClock  \in [Clients -> Uninitialised]
  /\ serverClock  = [c \in Clients |-> [s \in Servers |-> 0]]
  /\ acknowledged = [c \in Clients |-> [s \in Servers |-> -1]]
  /\ pushMgr      = [c \in Clients |-> NoRequests]
  /\ subscribed   = [r \in Rows |-> {}]
  /\ changed      = {}
  /\ pendingPush  = [s \in Servers |-> FALSE]
  /\ pushSent     = [s \in Servers |-> [c \in Clients |-> 0]]
  /\ pushAcked    = [s \in Servers |-> [c \in Clients |-> 0]]
-----------------------------------------------------------------------------
(* Application threads.                                                    *)

(* Mutant: the clock of the row's own process is taken for the system's.   *)
SystemClockOwn(c) == bgClock[c]
SystemClock(c) == systemClock[c]

(* Find: a cached row is returned whatever its clock.  Otherwise the       *)
(* worker is asked for it, and fetches says how often already.             *)
FindOrRequest(t, r, k, fetches) ==
  IF Cached(ClientOf[t], r)
  THEN /\ pc'   = [pc EXCEPT ![t] = "run"]
       /\ want' = [want EXCEPT ![t] = NoWant]
       /\ got'  = [got EXCEPT ![t][r] = Seen(t, r)]
       /\ UNCHANGED toBg
  ELSE /\ pc'   = [pc EXCEPT ![t] = "waiting"]
       /\ want' = [want EXCEPT ![t] =
                     [row |-> r, clock |-> k, fetches |-> fetches, since |-> 0]]
       /\ toBg' = [toBg EXCEPT ![t] = Append(@, RowRequestMsg(r, k))]
       /\ UNCHANGED got

UnchangedByGet == UNCHANGED <<clock, dirty, clientVars, bgVars, serverVars,
                              toServer, toClient, made, twice, systemClock,
                              serverClock, acknowledged, pushMgr,
                              pushServerVars>>

(* SSPPushConsistencyController::Get with a system clock that will do: the *)
(* thread reads it anew only if the value it read last will not.           *)
PushGet(t, r) ==
  LET c == ClientOf[t]
      k == StalestClock(t)
  IN  /\ Running
      /\ pc[t] = "run"
      /\ cached[t] >= k \/ SystemClock(c) >= k
      /\ cached' = [cached EXCEPT ![t] = IF @ < k THEN SystemClock(c) ELSE @]
      /\ FindOrRequest(t, r, k, 0)
      /\ UnchangedByGet /\ UNCHANGED failed

PushGetBlock(t, r) ==
  LET k == StalestClock(t)
  IN  /\ Running
      /\ pc[t] = "run"
      /\ cached[t] < k /\ SystemClock(ClientOf[t]) < k
      /\ pc'   = [pc EXCEPT ![t] = "blocked"]
      /\ want' = [want EXCEPT ![t] =
                    [row |-> r, clock |-> k, fetches |-> 0, since |-> 0]]
      /\ UnchangedByGet /\ UNCHANGED <<got, toBg, cached, failed>>

(* WaitSystemClock returns.                                                *)
PushGetUnblock(t) ==
  LET c == ClientOf[t]
  IN  /\ Running
      /\ pc[t] = "blocked"
      /\ SystemClock(c) >= want[t].clock
      /\ cached' = [cached EXCEPT ![t] = SystemClock(c)]
      /\ FindOrRequest(t, want[t].row, want[t].clock, 0)
      /\ UnchangedByGet /\ UNCHANGED failed

(* The row is looked up again after the worker's reply, three times.       *)
PushGetResume(t) ==
  LET n == want[t].fetches + 1
  IN  /\ Running
      /\ pc[t] = "woken"
      /\ IF n > 3
         THEN /\ failed' = "num_fetches"
              /\ UNCHANGED <<pc, want, got, toBg>>
         ELSE /\ FindOrRequest(t, want[t].row, want[t].clock, n)
              /\ UNCHANGED failed
      /\ UnchangedByGet /\ UNCHANGED cached

UnchangedByBase == UNCHANGED <<cached, systemClock, serverClock, acknowledged,
                               pushMgr, pushServerVars>>

Events == Cardinality(UNION Range(made)) + SumFunction(evicted)

PushInc(t, r) ==
  /\ Events < MaxEvents
  /\ Inc(t, r)
  /\ UnchangedByBase
PushClockFlush(t) == ClockFlush(t) /\ UnchangedByBase
PushClockTick(t)  == ClockTick(t) /\ UnchangedByBase
PushEvict(c, r)   == Events < MaxEvents /\ Evict(c, r) /\ UnchangedByBase
-----------------------------------------------------------------------------
(* Background worker.                                                      *)

(* SSPPushRowRequestOpLogMgr::AddOpLog retains every batch, here the one   *)
(* that this step has sent, if any.  (SSP's own manager mgr has no         *)
(* requests under SSPPush and retains nothing.)                            *)
(* Mutant: only while a request is under way, as SSP's manager does.       *)
TrackedForRequests(c, m) ==
  IF version'[c] = version[c] \/ \A r \in Rows : m.reqs[r] = << >>
  THEN m
  ELSE [m EXCEPT !.kept =
          @ \cup {[version |-> version[c], log |-> Batch(c)]}]
Tracked(c, m) ==
  IF version'[c] = version[c]
  THEN m
  ELSE [m EXCEPT !.kept =
          @ \cup {[version |-> version[c], log |-> Batch(c)]}]

(* Batches that all servers have applied are given up.                     *)
AcknowledgedByAll(c, acks, m) ==
  [m EXCEPT !.kept = { k \in @ : k.version > Min(Range(acks)) }]

(* ServerAcknowledgeVersion: the versions each server has, and the manager *)
(* without what need not be retained.                                      *)
Acks(c, s, v) == [acknowledged[c] EXCEPT ![s] = v]
ServerAcknowledgeVersion(c, s, v) ==
  AcknowledgedByAll(c, Acks(c, s, v), pushMgr[c])

(* kBgClock and kBgSendOpLog.                                              *)
PushBgBatch(t) ==
  /\ BgClock(t) \/ BgSendOpLog(t)
  /\ pushMgr' = [pushMgr EXCEPT ![ClientOf[t]] = Tracked(ClientOf[t], @)]
  /\ UNCHANGED <<cached, systemClock, serverClock, acknowledged,
                 pushServerVars>>

(* kServerOpLogAck: the version, then the sequence number, then the batch  *)
(* that was held back.                                                     *)
PushBgOpLogAck(s, c) ==
  /\ BgOpLogAck(s, c)
  /\ LET v == Head(toClient[s][c]).version
     IN  /\ acknowledged' = [acknowledged EXCEPT ![c] = Acks(c, s, v)]
         /\ pushMgr' = [pushMgr EXCEPT ![c] =
                          Tracked(c, ServerAcknowledgeVersion(c, s, v))]
  /\ UNCHANGED <<cached, systemClock, serverClock, pushServerVars>>

(* CheckForwardRowRequestToServer: any cached row will do.                 *)
PushBgRowRequest(t) ==
  LET c == ClientOf[t]
      m == Head(toBg[t])
  IN  /\ Running
      /\ toBg[t] # << >> /\ m.type = "RowRequest"
      /\ toBg' = [toBg EXCEPT ![t] = Tail(@)]
      /\ IF Cached(c, m.row)
         THEN /\ pc' = [pc EXCEPT ![t] = "woken"]
              /\ UNCHANGED <<pushMgr, toServer>>
         ELSE /\ \E garbage \in BOOLEAN :
                   pushMgr' = [pushMgr EXCEPT ![c] =
                     AddRowRequest(@, m.row, t, m.clock, version[c] - 1,
                                   garbage)]
              /\ toServer' = IF ShouldBeSent(pushMgr[c], m.row, m.clock)
                             THEN [toServer EXCEPT ![c][ServerOf[m.row]] =
                                     Append(@, m)]
                             ELSE toServer
              /\ UNCHANGED pc
      /\ UNCHANGED <<clock, dirty, want, got, clientVars, version, bgClock,
                     pend, sent, acked, mgr, serverVars, toClient, histVars,
                     cached, systemClock, serverClock, acknowledged,
                     pushServerVars>>

(* What a server's value v of a row becomes in the cache, in the order of  *)
(* the versions: the value itself, the batches it lacks (OpLogIterInit and *)
(* OpLogIterNext), the updates not yet sent.                               *)
(* Mutant: the batches are not replayed.                                   *)
ReplayedNone(c, m, v, r, value) ==
  [w \in {v, version[c]} |-> IF w = version[c] THEN oplog[c][r] ELSE value]
Replayed(c, m, v, r, value) ==
  [w \in v .. version[c] |->
     IF w = v THEN value
     ELSE IF w = version[c] THEN oplog[c][r]
     ELSE GetOpLog(m, w)[r]]

CannotReplay(c, m, v) ==
  \E w \in (v + 1) .. (version[c] - 1) : ~HasOpLog(m, w)

(* HandleServerRowRequestReply.                                            *)
PushBgRowReply(s, c) ==
  LET m      == Head(toClient[s][c])
      keeps  == ServerAcknowledgeVersion(c, s, m.version)
      served == NumServed(keeps.reqs[m.row], m.clock)
      left   == Popped(keeps, m.row, served)
      next   == ClockToRequest(left, m.row)
      parts  == Replayed(c, keeps, m.version, m.row, m.data)
  IN  /\ Running
      /\ toClient[s][c] # << >> /\ m.type = "RowReply"
      /\ toClient' = [toClient EXCEPT ![s][c] = Tail(@)]
      /\ acknowledged' = [acknowledged EXCEPT ![c] = Acks(c, s, m.version)]
      /\ IF CannotReplay(c, keeps, m.version)
         THEN /\ failed' = "OpLogIter"
              /\ UNCHANGED <<storage, pushMgr, pc, toServer, twice>>
         ELSE /\ UNCHANGED failed
              /\ storage' = [storage EXCEPT ![c][m.row] =
                   [clock |-> m.clock, data |-> UNION Range(parts)]]
              /\ twice'   = twice \cup AddedTwice(parts)
              /\ pushMgr' = [pushMgr EXCEPT ![c] =
                   IF next < 0 THEN left
                   ELSE [left EXCEPT !.reqs[m.row][1].sent = TRUE]]
              /\ pc' = [t \in Threads |->
                   IF t \in ServedThreads(keeps, m.row, m.clock)
                   THEN "woken" ELSE pc[t]]
              /\ toServer' = IF next < 0 THEN toServer
                             ELSE [toServer EXCEPT ![c][ServerOf[m.row]] =
                                     Append(@, RowRequestMsg(m.row, next))]
      /\ UNCHANGED <<clock, dirty, want, got, tick, oplog, index, evicted,
                     pinned, version, bgClock, pend, sent, acked, mgr,
                     serverVars, toBg, made, cached, systemClock, serverClock,
                     pushServerVars>>

PushAckMsg(seq) == [type |-> "PushAck", seq |-> seq]

(* The last message of a push brings the clock.                            *)
PushedClock(c, s, m) ==
  IF m.isClock THEN [serverClock[c] EXCEPT ![s] = Max({@, m.clock})]
  ELSE serverClock[c]

(* HandleServerPushRow: rows that are cached take the pushed value, then   *)
(* the clock counts, then the message is acknowledged.                     *)
PushBgRows(s, c) ==
  LET m      == Head(toClient[s][c])
      keeps  == ServerAcknowledgeVersion(c, s, m.version)
      rows   == { r \in DOMAIN m.data : Cached(c, r) }
      parts(r) == Replayed(c, keeps, m.version, r, m.data[r])
      clocks == PushedClock(c, s, m)
  IN  /\ Running
      /\ toClient[s][c] # << >> /\ m.type = "PushRow"
      /\ toClient' = [toClient EXCEPT ![s][c] = Tail(@)]
      /\ acknowledged' = [acknowledged EXCEPT ![c] = Acks(c, s, m.version)]
      /\ pushMgr' = [pushMgr EXCEPT ![c] = keeps]
      /\ IF rows # {} /\ CannotReplay(c, keeps, m.version)
         THEN /\ failed' = "OpLogIter"
              /\ UNCHANGED <<storage, twice, serverClock, systemClock,
                             toServer>>
         ELSE /\ UNCHANGED failed
              /\ storage' = [storage EXCEPT ![c] = [r \in Rows |->
                   IF r \in rows THEN [@[r] EXCEPT !.data = UNION Range(parts(r))]
                   ELSE @[r]]]
              /\ twice' = twice \cup UNION { AddedTwice(parts(r)) : r \in rows }
              /\ serverClock' = [serverClock EXCEPT ![c] = clocks]
              /\ systemClock' = [systemClock EXCEPT ![c] =
                   IF MinClock(clocks) # MinClock(serverClock[c])
                   THEN MinClock(clocks) ELSE @]
              /\ toServer' = [toServer EXCEPT ![c][s] =
                                Append(@, PushAckMsg(m.seq))]
      /\ UNCHANGED <<appVars, tick, oplog, index, evicted, pinned, bgVars,
                     serverVars, toBg, made, cached, pushServerVars>>
-----------------------------------------------------------------------------
(* Servers.                                                                *)

(* A push to one client: when the buffer is full what is in it is sent,    *)
(* and the rest follows.  The last message, which may be empty, carries    *)
(* the clock.  (Bound: two messages per push.)                             *)
PushRowMsgs(rows, value, clk, v, seq) ==
  LET parts == IF rows \cap Fill = {} THEN << rows >>
               ELSE << rows \cap Fill, rows \ Fill >>
  IN  [i \in DOMAIN parts |->
         [type |-> "PushRow", isClock |-> i = Len(parts), clock |-> clk,
          version |-> v, seq |-> seq + i, data |-> [r \in parts[i] |-> value[r]]]]

(* The rows of server s that a push takes: subscribed and changed.         *)
ToPush(s, subs, dirtyRows) ==
  { r \in dirtyRows : ServerOf[r] = s /\ subs[r] # {} }

(* CreateSendServerPushRowMsgs for client d, over the server's state at    *)
(* the time: its rows, clock, versions and subscriptions.                  *)
Pushed(s, d, value, clk, vers, subs, dirtyRows) ==
  PushRowMsgs({ r \in ToPush(s, subs, dirtyRows) : d \in subs[r] },
              value, clk, vers[d], pushSent[s][d])

(* MsgTracker::CheckSendAll of the server.                                 *)
CheckPushAll(s, ack) ==
  \A d \in Clients : pushSent[s][d] - ack[d] < MaxPending

(* ResetDirty: a row nobody has subscribed to stays dirty.                 *)
ResetDirty(s, subs, dirtyRows) == dirtyRows \ ToPush(s, subs, dirtyRows)

(* HandleRowRequest: an answer subscribes its client to the row.           *)
(* Mutant: it does not.                                                    *)
SubscribedNot(c, s, m) == subscribed
Subscribed(c, s, m) ==
  IF Fresh(s, m.clock) THEN [subscribed EXCEPT ![m.row] = @ \cup {c}]
  ELSE subscribed
PushServerRowRequest(c, s) ==
  LET m == Head(toServer[c][s])
  IN  /\ ServerRowRequest(c, s)
      /\ subscribed' = Subscribed(c, s, m)
      /\ UNCHANGED <<pushClientVars, changed, pendingPush, pushSent, pushAcked>>

(* HandleOpLogMsg: apply, advance the clock; when the minimum moves answer *)
(* the requests that waited for it and push, or remember to push later;    *)
(* acknowledge.                                                            *)
PushServerOpLog(c, s) ==
  LET m       == Head(toServer[c][s])
      clocks  == IF m.isClock THEN ClockUntil(s, c, m.bgClock) ELSE sClock[s]
      now     == MinClock(clocks)
      moved   == now # MinClock(sClock[s])
      rows    == Applied(m.log)
      vers    == [sVersion[s] EXCEPT ![c] = m.version]
      waiting(d) == IF moved THEN Fulfilled(s, d, now) ELSE << >>
      subs    == [r \in Rows |-> subscribed[r] \cup
                    { d \in Clients : r \in Range(waiting(d)) }]
      dirtyRows == changed \cup { r \in Rows : m.log[r] # {} }
      push    == moved /\ CheckPushAll(s, pushAcked[s])
      Replies(d) == [i \in DOMAIN waiting(d) |->
                       RowReplyMsg(waiting(d)[i], now, vers[d],
                                   rows[waiting(d)[i]])]
      Pushes(d) ==
        IF push THEN Pushed(s, d, rows, now, vers, subs, dirtyRows)
        ELSE << >>
      Ack(d) == IF d = c THEN << [type |-> "OpLogAck", version |-> m.version,
                                  seq |-> m.seq] >>
                ELSE << >>
  IN  /\ Running
      /\ toServer[c][s] # << >> /\ m.type = "OpLog"
      /\ toServer' = [toServer EXCEPT ![c][s] = Tail(@)]
      /\ IF m.version # sVersion[s][c] + 1
         THEN /\ failed' = "bg_version"
              /\ UNCHANGED <<data, sClock, sVersion, queued, toClient, twice,
                             pushServerVars>>
         ELSE /\ UNCHANGED failed
              /\ data'     = rows
              /\ twice'    = twice \cup UNION { data[r] \cap m.log[r] : r \in Rows }
              /\ sVersion' = [sVersion EXCEPT ![s] = vers]
              /\ sClock'   = [sClock EXCEPT ![s] = clocks]
              /\ queued'   = IF moved
                             THEN [queued EXCEPT ![s] = [d \in Clients |->
                                     [@[d] EXCEPT ![now] = << >>]]]
                             ELSE queued
              /\ subscribed' = subs
              /\ changed' = IF push THEN ResetDirty(s, subs, dirtyRows)
                            ELSE dirtyRows
              /\ pendingPush' = [pendingPush EXCEPT ![s] = @ \/ (moved /\ ~push)]
              /\ toClient' = [toClient EXCEPT ![s] = [d \in Clients |->
                                @[d] \o Replies(d) \o Pushes(d) \o Ack(d)]]
              /\ pushSent' = [pushSent EXCEPT ![s] = [d \in Clients |->
                                @[d] + Len(Pushes(d))]]
              /\ UNCHANGED pushAcked
      /\ UNCHANGED <<appVars, clientVars, bgVars, toBg, made, pushClientVars>>

(* Whether an acknowledgement makes the push that was held back.           *)
(* Mutant: it never does.                                                  *)
DuePushNever(s, ack) == FALSE
DuePush(s, ack) == pendingPush[s] /\ CheckPushAll(s, ack)

(* HandleBgServerPushRowAck.                                               *)
ServerPushAck(c, s) ==
  LET m    == Head(toServer[c][s])
      ack  == [pushAcked[s] EXCEPT ![c] = m.seq]
      push == DuePush(s, ack)
      Pushes(d) ==
        IF push THEN Pushed(s, d, data, MinClock(sClock[s]),
                            sVersion[s], subscribed, changed)
        ELSE << >>
  IN  /\ Running
      /\ toServer[c][s] # << >> /\ m.type = "PushAck"
      /\ toServer' = [toServer EXCEPT ![c][s] = Tail(@)]
      /\ IF ~(pushAcked[s][c] <= m.seq /\ m.seq <= pushSent[s][c])
         THEN /\ failed' = "RecvAck"
              /\ UNCHANGED <<pushServerVars, toClient>>
         ELSE /\ UNCHANGED <<failed, subscribed>>
              /\ pushAcked'   = [pushAcked EXCEPT ![s] = ack]
              /\ pendingPush' = [pendingPush EXCEPT ![s] = @ /\ ~push]
              /\ changed'     = IF push THEN ResetDirty(s, subscribed, changed)
                                ELSE changed
              /\ toClient' = [toClient EXCEPT ![s] = [d \in Clients |->
                                @[d] \o Pushes(d)]]
              /\ pushSent' = [pushSent EXCEPT ![s] = [d \in Clients |->
                                @[d] + Len(Pushes(d))]]
      /\ UNCHANGED <<appVars, clientVars, bgVars, serverVars, toBg, made, twice,
                     pushClientVars>>
-----------------------------------------------------------------------------
PushStep ==
  \/ \E t \in Writers, r \in Rows : PushInc(t, r)
  \/ \E t \in Readers, r \in Rows : PushGet(t, r) \/ PushGetBlock(t, r)
  \/ \E t \in Threads : \/ PushGetUnblock(t)
                        \/ PushGetResume(t)
                        \/ PushClockFlush(t)
                        \/ PushClockTick(t)
                        \/ PushBgBatch(t)
                        \/ PushBgRowRequest(t)
  \/ \E c \in Clients, r \in Rows : PushEvict(c, r)
  \/ \E c \in Clients, s \in Servers : \/ PushBgOpLogAck(s, c)
                                       \/ PushBgRowReply(s, c)
                                       \/ PushBgRows(s, c)
                                       \/ PushServerRowRequest(c, s)
                                       \/ PushServerOpLog(c, s)
                                       \/ ServerPushAck(c, s)

PushRest == Finished /\ UNCHANGED pushVars

PushNext == PushStep \/ PushRest

PushSpec == PushInit /\ [][PushNext]_pushVars

(* As in SSP: a message loop takes what waits in a channel (and only the   *)
(* loop takes it, whatever else the step does), and iterations end.  A     *)
(* thread in WaitSystemClock returns when the clock suffices:              *)
(* system_clock_ is set before notify_all is called under the mutex (see   *)
(* SystemClock).                                                           *)
AppGoesOn(t) == \/ PushGetUnblock(t) \/ PushGetResume(t)
                \/ PushClockFlush(t) \/ PushClockTick(t)
PushFairness ==
  /\ \A t \in Threads : WF_pushVars(AppGoesOn(t)) /\ WF_toBg(TakenFromApp(t))
  /\ \A c \in Clients, s \in Servers :
       WF_toClient(TakenFromServer(c, s)) /\ WF_toServer(TakenFromClient(c, s))

PushFairSpec == PushSpec /\ PushFairness
-----------------------------------------------------------------------------
(* Properties.                                                             *)

(* "a locally shared clock to denote the minimum clock that the entire     *)
(* system has reached, which determines if a local thread may read a local *)
(* cached copy of the row": when the system clock has reached k, every     *)
(* cached row holds all updates made before clock k, though nobody looks   *)
(* at the row's own clock.                                                 *)
SystemClockCoversCache ==
  Running => \A c \in Clients, r \in Rows :
    Cached(c, r) =>
      \A u \in made[r] : u[2] < systemClock[c] => u \in storage[c][r].data

(* A row request is sent only once the system clock has reached its clock, *)
(* so the server can answer it at once: the table of waiting requests and  *)
(* InformReply's second request are never used under SSPPush.              *)
RequestsAnswerable ==
  Running => \A c \in Clients, s \in Servers :
    /\ \A m \in Range(toServer[c][s]) : m.type = "RowRequest" => Fresh(s, m.clock)
    /\ \A m \in Range(toClient[s][c]) : m.type = "RowReply" =>
         \A i \in DOMAIN pushMgr[c].reqs[m.row] :
           pushMgr[c].reqs[m.row][i].clock <= m.clock

(* Every value on its way to a client, answer or push, can be brought up   *)
(* to date when it arrives: the batches it lacks are still retained.       *)
RetainedForReplay ==
  Running => \A c \in Clients, s \in Servers : \A i \in DOMAIN toClient[s][c] :
    LET m == toClient[s][c][i]
    IN  m.type \in {"RowReply", "PushRow"} => ~CannotReplay(c, pushMgr[c], m.version)

(* A push that is held back is never forgotten: the window of some client  *)
(* is full, and that client still has a push to apply or its acknowledge-  *)
(* ment is on its way, which HandleBgServerPushRowAck answers.             *)
HeldPushAwaitsAck ==
  Running => \A s \in Servers : pendingPush[s] =>
    \E d \in Clients : /\ pushSent[s][d] - pushAcked[s][d] >= MaxPending
                       /\ \/ \E m \in Range(toServer[d][s]) : m.type = "PushAck"
                          \/ \E m \in Range(toClient[s][d]) : m.type = "PushRow"

(* Every Get() returns, whether it waits for the system clock or for a     *)
(* row, so that all threads come to their end; and then the caches         *)
(* converge: every cached row comes to hold every update ever made,        *)
(* without being fetched again.                                            *)
CachesConverge ==
  <>[](/\ Finished /\ data = made
       /\ \A c \in Clients, r \in Rows : Cached(c, r) => storage[c][r].data = made[r]
       /\ \A c \in Clients : systemClock[c] = MaxClock)
=============================================================================
