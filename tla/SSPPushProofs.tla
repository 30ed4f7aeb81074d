---------------------------- MODULE SSPPushProofs ----------------------------
(***************************************************************************)
(* Theorems about SSPPush, for any number of clients, threads, servers and *)
(* rows, and every window, staleness and bound.  Beside the types there    *)
(* are four layers of invariants, each proved over the ones before it:     *)
(*                                                                         *)
(*   PushWindowInv    the pushes and acknowledgements on their way between *)
(*                    a server and a client, counted                       *)
(*   PushReplayInv    versions rise on their way to a client, and what it  *)
(*                    may have to replay is retained                       *)
(*   PushRequestsInv  a thread waits for one request, which is in one      *)
(*                    place                                                *)
(*   PushAnswerInv    clocks rise on their way to a client, and nobody     *)
(*                    there knows of a clock that is still on its way      *)
(***************************************************************************)
EXTENDS SSPPush, SSPStoreProofs

-----------------------------------------------------------------------------
(* What the variables and the channels hold under SSPPush.                 *)

PushAckMsgs   == [type : {"PushAck"}, seq : Nat]
RowValues     == UNION { [S -> SUBSET Updates] : S \in SUBSET Rows }
PushedMsgs    == [type : {"PushRow"}, isClock : BOOLEAN, clock : Nat,
                  version : Versions, seq : Nat, data : RowValues]
PushToServerMsgs  == RowRequestMsgs \cup OpLogMsgs \cup PushAckMsgs
PushToClientMsgs  == RowReplyMsgs \cup AckMsgs \cup PushedMsgs

PushTypeApp ==
  /\ pc \in [Threads -> {"run", "flushed", "blocked", "waiting", "woken"}]
  /\ clock \in [Threads -> Clocks]
  /\ dirty \in [Threads -> SUBSET Rows]
  /\ want \in [Threads -> [row : Rows, clock : Clocks, fetches : 0 .. 3, since : 0 .. MaxEvict]]
  /\ got \in [Threads -> [Rows -> Reads]]
  /\ cached \in [Threads -> Int]

PushTypeBg ==
  /\ systemClock \in [Clients -> Int]
  /\ serverClock \in [Clients -> [Servers -> Nat]]
  /\ acknowledged \in [Clients -> [Servers -> Versions]]
  /\ pushMgr \in [Clients -> Managers]

PushTypeServer ==
  /\ subscribed \in [Rows -> SUBSET Clients]
  /\ changed \in SUBSET Rows
  /\ pendingPush \in [Servers -> BOOLEAN]
  /\ pushSent \in [Servers -> [Clients -> Nat]]
  /\ pushAcked \in [Servers -> [Clients -> Nat]]

PushTypeNet ==
  /\ toBg \in [Threads -> Seq(RowRequestMsgs \cup ClockMsgs)]
  /\ toServer \in [Clients -> [Servers -> Seq(PushToServerMsgs)]]
  /\ toClient \in [Servers -> [Clients -> Seq(PushToClientMsgs)]]

PushTypeOK ==
  /\ PushTypeApp /\ TypeClient /\ TypeBg /\ PushTypeBg
  /\ TypeServer /\ PushTypeServer /\ PushTypeNet /\ TypeHistory

(* The minimum over the servers is the clock of one of them.               *)
LEMMA PushedMinType ==
  ASSUME NEW vec \in [Servers -> Nat]
  PROVE  /\ MinClock(vec) \in Nat
         /\ \E s \in Servers : MinClock(vec) = vec[s]
         /\ \A s \in Servers : MinClock(vec) <= vec[s]
<1>1. vec \in Surjection(Servers, Range(vec))
  BY DEF Surjection, Range
<1>2. IsFiniteSet(Range(vec))
  BY <1>1, SSPPushAssumption, FS_Surjection
<1>3. Range(vec) \subseteq Nat /\ Range(vec) # {}
  BY SSPAssumption DEF Range
<1>4. Min(Range(vec)) \in Range(vec) /\ \A y \in Range(vec) : Min(Range(vec)) <= y
  BY <1>2, <1>3, MinIsLeast
<1>. QED
  BY <1>3, <1>4 DEF MinClock, Range

LEMMA PushHeadToBg ==
  ASSUME PushTypeNet, NEW t \in Threads, toBg[t] # << >>
  PROVE  /\ Tail(toBg[t]) \in Seq(RowRequestMsgs \cup ClockMsgs)
         /\ Head(toBg[t]) \in RowRequestMsgs \cup ClockMsgs
BY HeadTailProperties DEF PushTypeNet

LEMMA PushHeadToServer ==
  ASSUME PushTypeNet, NEW c \in Clients, NEW s \in Servers, toServer[c][s] # << >>
  PROVE  /\ Tail(toServer[c][s]) \in Seq(PushToServerMsgs)
         /\ Head(toServer[c][s]) \in PushToServerMsgs
BY HeadTailProperties DEF PushTypeNet

LEMMA PushHeadToClient ==
  ASSUME PushTypeNet, NEW c \in Clients, NEW s \in Servers, toClient[s][c] # << >>
  PROVE  /\ Tail(toClient[s][c]) \in Seq(PushToClientMsgs)
         /\ Head(toClient[s][c]) \in PushToClientMsgs
BY HeadTailProperties DEF PushTypeNet

LEMMA PushAppendToBg ==
  ASSUME PushTypeNet, NEW t \in Threads, NEW m \in RowRequestMsgs \cup ClockMsgs
  PROVE  [toBg EXCEPT ![t] = Append(@, m)]
           \in [Threads -> Seq(RowRequestMsgs \cup ClockMsgs)]
BY AppendProperties DEF PushTypeNet

LEMMA PushAppendToServer ==
  ASSUME PushTypeNet, NEW c \in Clients, NEW s \in Servers, NEW m \in PushToServerMsgs
  PROVE  [toServer EXCEPT ![c][s] = Append(@, m)]
           \in [Clients -> [Servers -> Seq(PushToServerMsgs)]]
<1>1. Append(toServer[c][s], m) \in Seq(PushToServerMsgs)
  BY AppendProperties DEF PushTypeNet
<1>. QED
  BY <1>1 DEF PushTypeNet

LEMMA InitPushType == PushInit => PushTypeOK
<1>1. SUFFICES ASSUME PushInit PROVE PushTypeOK
  OBVIOUS
<1>2. TypeOK
  BY <1>1, InitType DEF PushInit
<1>3. NoRequests \in Managers
  BY DEF NoRequests, Managers
<1>4. PushTypeApp
  BY <1>1, <1>2 DEF PushInit, TypeOK, TypeApp, PushTypeApp
<1>5. PushTypeBg
  BY <1>1, <1>3, SSPPushAssumption DEF PushInit, PushTypeBg, Versions
<1>6. PushTypeServer
  BY <1>1 DEF PushInit, PushTypeServer
<1>7. PushTypeNet
  BY <1>1 DEF PushInit, Init, PushTypeNet
<1>. QED
  BY <1>2, <1>4, <1>5, <1>6, <1>7 DEF TypeOK, PushTypeOK
-----------------------------------------------------------------------------
(* Application threads.                                                    *)

appPushVars == <<systemClock, serverClock, acknowledged, pushMgr, pushServerVars>>

LEMMA OtherPushTypes ==
  ASSUME PushTypeOK, UNCHANGED appPushVars
  PROVE  PushTypeBg' /\ PushTypeServer'
BY DEF PushTypeOK, PushTypeBg, PushTypeServer, appPushVars, pushServerVars

LEMMA PushStalestClockType ==
  ASSUME PushTypeApp, NEW t \in Threads
  PROVE  StalestClock(t) \in Clocks
<1>1. clock[t] \in Nat /\ Staleness \in Nat /\ clock[t] <= MaxClock
  BY SSPAssumption DEF PushTypeApp, Clocks
<1>2. StalestClock(t) \in {0, clock[t] - Staleness} /\ StalestClock(t) >= 0
  <2>1. {0, clock[t] - Staleness} \subseteq Int /\ {0, clock[t] - Staleness} # {}
    BY <1>1
  <2>2. IsFiniteSet({0, clock[t] - Staleness})
    <3>1. {0, clock[t] - Staleness} = {0} \cup {clock[t] - Staleness}
      OBVIOUS
    <3>2. IsFiniteSet({0} \cup {clock[t] - Staleness})
      BY FS_Singleton, FS_AddElement
    <3>. QED
      BY <3>1, <3>2
  <2>3. /\ Max({0, clock[t] - Staleness}) \in {0, clock[t] - Staleness}
        /\ \A y \in {0, clock[t] - Staleness} : Max({0, clock[t] - Staleness}) >= y
    BY <2>1, <2>2, MaxIsGreatest
  <2>. QED
    BY <2>3 DEF StalestClock
<1>. QED
  BY <1>1, <1>2, SSPAssumption DEF Clocks

LEMMA PushIncType ==
  ASSUME PushTypeOK, NEW t \in Threads, NEW r \in Rows, PushInc(t, r)
  PROVE  PushTypeOK'
<1> USE DEF PushTypeOK
<1>1. /\ Inc(t, r)
      /\ UNCHANGED <<cached, appPushVars>>
  BY DEF PushInc, UnchangedByBase, appPushVars
<1>2. PICK n \in 1 .. MaxIncs :
        LET c == ClientOf[t]
            u == <<t, clock[t], n>>
        IN  /\ clock[t] < MaxClock
            /\ dirty' = [dirty EXCEPT ![t] = @ \cup {r}]
            /\ oplog' = [oplog EXCEPT ![c][r] = @ \cup {u}]
            /\ storage' = IF Cached(c, r)
                          THEN [storage EXCEPT ![c][r].data = @ \cup {u}]
                          ELSE storage
            /\ made' = [made EXCEPT ![r] = @ \cup {u}]
            /\ UNCHANGED <<pc, clock, want, got, tick, index, evicted, pinned, bgVars,
                           serverVars, netVars, twice, failed>>
  BY <1>1, Zenon DEF Inc, FindInsertOpLog
<1> DEFINE c == ClientOf[t]
           u == <<t, clock[t], n>>
<1>3. c \in Clients
  BY SSPAssumption
<1>4. u \in Updates
  BY DEF Updates, PushTypeApp
<1> HIDE DEF u, c
<1>5. PushTypeApp'
  BY <1>1, <1>2 DEF PushTypeApp
<1>6. TypeClient'
  <2>1. oplog' \in [Clients -> Logs]
    BY <1>2, <1>3, <1>4 DEF TypeClient, Logs, u, c
  <2>2. [storage[c][r] EXCEPT !.data = @ \cup {u}] \in CachedRows
    <3>1. storage[c][r] \in CachedRows
      BY <1>3 DEF TypeClient
    <3>. QED
      BY <1>4, <3>1 DEF CachedRows
  <2>3. storage' \in [Clients -> [Rows -> CachedRows]]
    BY <1>2, <1>3, <2>2 DEF TypeClient, u, c
  <2>. QED
    BY <1>2, <2>1, <2>3 DEF TypeClient
<1>7. TypeHistory'
  BY <1>2, <1>4 DEF TypeHistory, Logs, u
<1>8. UNCHANGED <<bgVars, serverVars, netVars>>
  BY <1>2
<1>9. TypeBg' /\ TypeServer' /\ PushTypeNet'
  BY <1>8 DEF TypeBg, TypeServer, PushTypeNet, bgVars, serverVars, netVars
<1>. QED
  BY <1>1, <1>5, <1>6, <1>7, <1>9, OtherPushTypes

LEMMA PushClockType ==
  ASSUME PushTypeOK, NEW t \in Threads, PushClockFlush(t) \/ PushClockTick(t)
  PROVE  PushTypeOK'
<1> USE DEF PushTypeOK
<1>1. /\ ClockFlush(t) \/ ClockTick(t)
      /\ UNCHANGED <<cached, appPushVars>>
  BY DEF PushClockFlush, PushClockTick, UnchangedByBase, appPushVars
<1>2. PushTypeApp'
  <2>1. CASE ClockFlush(t)
    BY <1>1, <2>1, SSPAssumption DEF ClockFlush, PushTypeApp, Clocks
  <2>2. CASE ClockTick(t)
    BY <1>1, <2>2 DEF ClockTick, PushTypeApp
  <2>. QED
    BY <1>1, <2>1, <2>2
<1>3. TypeClient'
  <2>1. CASE ClockFlush(t)
    BY <2>1, SSPAssumption DEF ClockFlush, AddIndex, TypeClient, PushTypeApp
  <2>2. CASE ClockTick(t)
    BY <2>2 DEF ClockTick, TypeClient
  <2>. QED
    BY <1>1, <2>1, <2>2
<1>4. UNCHANGED <<bgVars, serverVars, toServer, toClient, histVars>>
  BY <1>1 DEF ClockFlush, ClockTick, netVars
<1>5. toBg' \in [Threads -> Seq(RowRequestMsgs \cup ClockMsgs)]
  <2> DEFINE moved == \A o \in ThreadsOf(ClientOf[t]) \ {t} : tick[o] > tick[t]
             m     == [type |-> IF moved THEN "BgClock" ELSE "BgSendOpLog"]
  <2>1. m \in ClockMsgs
    BY DEF ClockMsgs
  <2>2. \/ UNCHANGED toBg
        \/ toBg' = [toBg EXCEPT ![t] = Append(@, m)]
    BY <1>1 DEF ClockFlush, ClockTick, netVars
  <2> HIDE DEF m
  <2>3. [toBg EXCEPT ![t] = Append(@, m)] \in [Threads -> Seq(RowRequestMsgs \cup ClockMsgs)]
    BY <2>1, PushAppendToBg
  <2>. QED
    BY <2>2, <2>3 DEF PushTypeNet
<1>6. TypeBg' /\ TypeServer' /\ TypeHistory' /\ PushTypeNet'
  BY <1>4, <1>5 DEF TypeBg, TypeServer, TypeHistory, PushTypeNet, bgVars, serverVars, histVars
<1>. QED
  BY <1>1, <1>2, <1>3, <1>6, OtherPushTypes

LEMMA PushEvictType ==
  ASSUME PushTypeOK, NEW c \in Clients, NEW r \in Rows, PushEvict(c, r)
  PROVE  PushTypeOK'
<1> USE DEF PushTypeOK
<1>1. /\ Evict(c, r)
      /\ UNCHANGED <<cached, appPushVars>>
  BY DEF PushEvict, UnchangedByBase, appPushVars
<1>2. NoRow \in CachedRows
  BY DEF NoRow, CachedRows, Versions
<1>3. TypeClient'
  BY <1>1, <1>2, SSPAssumption DEF Evict, TypeClient
<1>4. UNCHANGED <<appVars, bgVars, serverVars, netVars, histVars>>
  BY <1>1 DEF Evict
<1>5. PushTypeApp'
  BY <1>1, <1>4 DEF PushTypeApp, appVars
<1>6. TypeBg' /\ TypeServer' /\ TypeHistory' /\ PushTypeNet'
  BY <1>4 DEF TypeBg, TypeServer, TypeHistory, PushTypeNet, bgVars, serverVars, histVars, netVars
<1>. QED
  BY <1>1, <1>3, <1>5, <1>6, OtherPushTypes

(* Find, and a request to the worker if the row is not there.              *)
LEMMA FindOrRequestType ==
  ASSUME PushTypeOK, NEW t \in Threads, NEW r \in Rows, NEW k \in Clocks,
         NEW n \in 0 .. 3, FindOrRequest(t, r, k, n)
  PROVE  /\ pc' \in [Threads -> {"run", "flushed", "blocked", "waiting", "woken"}]
         /\ want' \in [Threads -> [row : Rows, clock : Clocks, fetches : 0 .. 3, since : 0 .. MaxEvict]]
         /\ got' \in [Threads -> [Rows -> Reads]]
         /\ toBg' \in [Threads -> Seq(RowRequestMsgs \cup ClockMsgs)]
<1> USE DEF PushTypeOK
<1>1. CASE Cached(ClientOf[t], r)
  <2>1. Seen(t, r) \in Reads
    BY SeenType
  <2>2. /\ pc'   = [pc EXCEPT ![t] = "run"]
        /\ want' = [want EXCEPT ![t] = NoWant]
        /\ got'  = [got EXCEPT ![t][r] = Seen(t, r)]
        /\ UNCHANGED toBg
    BY <1>1 DEF FindOrRequest
  <2>3. got' \in [Threads -> [Rows -> Reads]]
    BY <2>1, <2>2 DEF PushTypeApp
  <2>4. want' \in [Threads -> [row : Rows, clock : Clocks, fetches : 0 .. 3, since : 0 .. MaxEvict]]
    BY <2>2, NoWantType DEF PushTypeApp
  <2>. QED
    BY <2>2, <2>3, <2>4 DEF PushTypeApp, PushTypeNet
<1>2. CASE ~Cached(ClientOf[t], r)
  <2> DEFINE w == [row |-> r, clock |-> k, fetches |-> n, since |-> 0]
             m == RowRequestMsg(r, k)
  <2>1. /\ pc'   = [pc EXCEPT ![t] = "waiting"]
        /\ want' = [want EXCEPT ![t] = w]
        /\ toBg' = [toBg EXCEPT ![t] = Append(@, m)]
        /\ UNCHANGED got
    BY <1>2 DEF FindOrRequest
  <2>2. w \in [row : Rows, clock : Clocks, fetches : 0 .. 3, since : 0 .. MaxEvict]
    BY SSPAssumption
  <2>3. m \in RowRequestMsgs \cup ClockMsgs
    BY RowRequestMsgType
  <2> HIDE DEF w, m
  <2>4. want' \in [Threads -> [row : Rows, clock : Clocks, fetches : 0 .. 3, since : 0 .. MaxEvict]]
    BY <2>1, <2>2 DEF PushTypeApp
  <2>5. toBg' \in [Threads -> Seq(RowRequestMsgs \cup ClockMsgs)]
    BY <2>1, <2>3, PushAppendToBg
  <2>. QED
    BY <2>1, <2>4, <2>5 DEF PushTypeApp
<1>. QED
  BY <1>1, <1>2

LEMMA PushGetType ==
  ASSUME PushTypeOK, NEW t \in Threads,
         \/ \E r \in Rows : PushGet(t, r) \/ PushGetBlock(t, r)
         \/ PushGetUnblock(t) \/ PushGetResume(t)
  PROVE  PushTypeOK'
<1> USE DEF PushTypeOK
<1>1. /\ UNCHANGED <<clock, dirty, clientVars, bgVars, serverVars, toServer, toClient,
                     made, twice>>
      /\ UNCHANGED appPushVars
  BY DEF PushGet, PushGetBlock, PushGetUnblock, PushGetResume, UnchangedByGet, appPushVars
<1>2. want[t].row \in Rows /\ want[t].clock \in Clocks /\ want[t].fetches \in 0 .. 3
  BY DEF PushTypeApp
<1>3. cached' \in [Threads -> Int]
  <2>1. SystemClock(ClientOf[t]) \in Int
    BY SSPAssumption DEF SystemClock, PushTypeBg
  <2>2. \/ UNCHANGED cached \/ cached' = [cached EXCEPT ![t] = SystemClock(ClientOf[t])]
        \/ cached' = [cached EXCEPT ![t] = cached[t]]
    BY DEF PushGet, PushGetBlock, PushGetUnblock, PushGetResume
  <2>. QED
    BY <2>1, <2>2 DEF PushTypeApp
<1>4. \/ \E r \in Rows, k \in Clocks, n \in 0 .. 3 : FindOrRequest(t, r, k, n)
      \/ UNCHANGED <<pc, want, got, toBg>>
      \/ /\ pc' = [pc EXCEPT ![t] = "blocked"]
         /\ \E r \in Rows, k \in Clocks :
              want' = [want EXCEPT ![t] = [row |-> r, clock |-> k, fetches |-> 0, since |-> 0]]
         /\ UNCHANGED <<got, toBg>>
  <2>1. CASE \E r \in Rows : PushGet(t, r)
    <3>1. 0 \in 0 .. 3 /\ StalestClock(t) \in Clocks
      BY PushStalestClockType
    <3>2. PICK r \in Rows : FindOrRequest(t, r, StalestClock(t), 0)
      BY <2>1 DEF PushGet
    <3>. QED
      BY <3>1, <3>2
  <2>2. CASE \E r \in Rows : PushGetBlock(t, r)
    BY <2>2, PushStalestClockType DEF PushGetBlock
  <2>3. CASE PushGetUnblock(t)
    <3>1. 0 \in 0 .. 3 /\ FindOrRequest(t, want[t].row, want[t].clock, 0)
      BY <2>3 DEF PushGetUnblock
    <3>. QED
      BY <1>2, <3>1
  <2>4. CASE PushGetResume(t)
    <3> DEFINE n == want[t].fetches + 1
    <3>1. CASE n > 3
      BY <2>4, <3>1 DEF PushGetResume
    <3>2. CASE ~(n > 3)
      <4>1. n \in 0 .. 3 /\ FindOrRequest(t, want[t].row, want[t].clock, n)
        BY <1>2, <2>4, <3>2 DEF PushGetResume
      <4>. QED
        BY <1>2, <4>1
    <3>. QED
      BY <3>1, <3>2
  <2>. QED
    BY <2>1, <2>2, <2>3, <2>4
<1>5. /\ pc' \in [Threads -> {"run", "flushed", "blocked", "waiting", "woken"}]
      /\ want' \in [Threads -> [row : Rows, clock : Clocks, fetches : 0 .. 3, since : 0 .. MaxEvict]]
      /\ got' \in [Threads -> [Rows -> Reads]]
      /\ toBg' \in [Threads -> Seq(RowRequestMsgs \cup ClockMsgs)]
  <2>1. CASE \E r \in Rows, k \in Clocks, n \in 0 .. 3 : FindOrRequest(t, r, k, n)
    BY <2>1, FindOrRequestType
  <2>2. CASE UNCHANGED <<pc, want, got, toBg>>
    BY <2>2 DEF PushTypeApp, PushTypeNet
  <2>3. CASE /\ pc' = [pc EXCEPT ![t] = "blocked"]
             /\ \E r \in Rows, k \in Clocks :
                  want' = [want EXCEPT ![t] = [row |-> r, clock |-> k, fetches |-> 0, since |-> 0]]
             /\ UNCHANGED <<got, toBg>>
    <3>1. PICK r \in Rows, k \in Clocks :
            want' = [want EXCEPT ![t] = [row |-> r, clock |-> k, fetches |-> 0, since |-> 0]]
      BY <2>3
    <3> DEFINE w == [row |-> r, clock |-> k, fetches |-> 0, since |-> 0]
    <3>2. w \in [row : Rows, clock : Clocks, fetches : 0 .. 3, since : 0 .. MaxEvict]
      BY SSPAssumption
    <3>3. want' = [want EXCEPT ![t] = w]
      BY <3>1
    <3> HIDE DEF w
    <3>. QED
      BY <2>3, <3>2, <3>3 DEF PushTypeApp, PushTypeNet
  <2>. QED
    BY <1>4, <2>1, <2>2, <2>3
<1>6. PushTypeApp'
  BY <1>1, <1>3, <1>5 DEF PushTypeApp
<1>7. TypeClient' /\ TypeBg' /\ TypeServer' /\ TypeHistory' /\ PushTypeNet'
  BY <1>1, <1>5 DEF TypeClient, TypeBg, TypeServer, TypeHistory, PushTypeNet,
     clientVars, bgVars, serverVars
<1>. QED
  BY <1>1, <1>6, <1>7, OtherPushTypes
-----------------------------------------------------------------------------
(* The background worker.                                                  *)

LEMMA PushHandleClockMsgType ==
  ASSUME TypeClient, TypeBg, PushTypeNet, NEW c \in Clients,
         NEW advanced \in BOOLEAN, NEW clk \in Nat, NEW ack,
         NEW on \in BOOLEAN,
         HandleClockMsg(c, advanced, clk, ack, on)
  PROVE  /\ oplog' \in [Clients -> Logs] /\ index' \in [Clients -> SUBSET Rows]
         /\ version' \in [Clients -> Nat]
         /\ pend' \in [Clients -> [on : BOOLEAN, advanced : BOOLEAN]]
         /\ sent' \in [Clients -> [Servers -> Nat]]
         /\ mgr' \in [Clients -> Managers]
         /\ toServer' \in [Clients -> [Servers -> Seq(PushToServerMsgs)]]
<1>1. CASE ~CheckSendAll(c, ack)
  <2>1. /\ pend' = [pend EXCEPT ![c] = [on |-> TRUE, advanced |-> advanced]]
        /\ UNCHANGED <<oplog, index, version, sent, mgr, toServer>>
    BY <1>1 DEF HandleClockMsg, HeldBack, ResetPartition, IncGetSeq
  <2>. QED
    BY <2>1 DEF TypeClient, TypeBg, PushTypeNet
<1>2. CASE CheckSendAll(c, ack)
  <2> DEFINE left   == Remaining(c)
             Msg(s) == OpLogMsg(c, s, advanced, clk)
             kept   == AddOpLog(mgr[c], version[c], Batch(c))
  <2>1. /\ pend'     = [pend EXCEPT ![c].on = on]
        /\ oplog'    = [oplog EXCEPT ![c] = left]
        /\ index'    = [index EXCEPT ![c] = {}]
        /\ toServer' = [toServer EXCEPT ![c] =
                          [s \in Servers |-> Append(toServer[c][s], Msg(s))]]
        /\ sent'     = [sent EXCEPT ![c] = [s \in Servers |-> sent[c][s] + 1]]
        /\ mgr'      = [mgr EXCEPT ![c] = kept]
        /\ version'  = [version EXCEPT ![c] = @ + 1]
    BY <1>2 DEF HandleClockMsg, HeldBack, ResetPartition, IncGetSeq
  <2>2. Batch(c) \in Logs /\ left \in Logs
    BY BatchType
  <2>3. \A s \in Servers : Append(toServer[c][s], Msg(s)) \in Seq(PushToServerMsgs)
    <3>1. TAKE s \in Servers
    <3>2. Msg(s) \in PushToServerMsgs
      BY OpLogMsgType DEF PushToServerMsgs
    <3>3. toServer[c][s] \in Seq(PushToServerMsgs)
      BY DEF PushTypeNet
    <3>. QED
      BY <3>2, <3>3, AppendProperties
  <2>4. kept \in Managers
    BY <2>2, AddOpLogType DEF TypeBg
  <2> HIDE DEF left, Msg, kept
  <2>5. oplog' \in [Clients -> Logs] /\ index' \in [Clients -> SUBSET Rows]
    BY <2>1, <2>2 DEF TypeClient
  <2>6. toServer' \in [Clients -> [Servers -> Seq(PushToServerMsgs)]]
    BY <2>1, <2>3 DEF PushTypeNet
  <2>7. version' \in [Clients -> Nat] /\ mgr' \in [Clients -> Managers]
    BY <2>1, <2>4 DEF TypeBg
  <2>8. pend' \in [Clients -> [on : BOOLEAN, advanced : BOOLEAN]]
    BY <2>1 DEF TypeBg
  <2>9. sent' \in [Clients -> [Servers -> Nat]]
    BY <2>1 DEF TypeBg
  <2>. QED
    BY <2>5, <2>6, <2>7, <2>8, <2>9
<1>. QED
  BY <1>1, <1>2

(* Retaining the batch of a step, and giving up those that all have.       *)
LEMMA TrackedType ==
  ASSUME TypeClient, TypeBg, NEW c \in Clients, NEW m \in Managers
  PROVE  Tracked(c, m) \in Managers
<1>1. [version |-> version[c], log |-> Batch(c)] \in Retained
  BY BatchType DEF TypeBg, Retained
<1>. QED
  BY <1>1 DEF Tracked, Managers

LEMMA AcknowledgedByAllType ==
  ASSUME NEW c, NEW acks, NEW m \in Managers
  PROVE  AcknowledgedByAll(c, acks, m) \in Managers
BY DEF AcknowledgedByAll, Managers

LEMMA ServerAcknowledgeVersionType ==
  ASSUME PushTypeBg, NEW c \in Clients, NEW s \in Servers, NEW v \in Versions
  PROVE  /\ Acks(c, s, v) \in [Servers -> Versions]
         /\ ServerAcknowledgeVersion(c, s, v) \in Managers
BY AcknowledgedByAllType DEF PushTypeBg, Acks, ServerAcknowledgeVersion

LEMMA PushBgBatchType ==
  ASSUME PushTypeOK, NEW t \in Threads, PushBgBatch(t)
  PROVE  PushTypeOK'
<1> USE DEF PushTypeOK
<1> DEFINE c == ClientOf[t]
<1>1. c \in Clients
  BY SSPAssumption
<1>2. \/ HandleClockMsg(c, TRUE, bgClock[c] + 1, acked[c], pend[c].on)
      \/ HandleClockMsg(c, FALSE, bgClock[c], acked[c], pend[c].on)
  BY DEF PushBgBatch, BgClock, BgSendOpLog
<1>3. bgClock[c] \in Nat /\ bgClock[c] + 1 \in Nat /\ pend[c].on \in BOOLEAN
  BY <1>1 DEF TypeBg
<1>4. /\ oplog' \in [Clients -> Logs] /\ index' \in [Clients -> SUBSET Rows]
      /\ version' \in [Clients -> Nat]
      /\ pend' \in [Clients -> [on : BOOLEAN, advanced : BOOLEAN]]
      /\ sent' \in [Clients -> [Servers -> Nat]]
      /\ mgr' \in [Clients -> Managers]
      /\ toServer' \in [Clients -> [Servers -> Seq(PushToServerMsgs)]]
  BY <1>1, <1>2, <1>3, PushHandleClockMsgType
<1>5. /\ toBg[t] # << >> /\ toBg' = [toBg EXCEPT ![t] = Tail(@)]
      /\ UNCHANGED <<appVars, tick, storage, evicted, pinned, acked, serverVars,
                     toClient, histVars>>
  BY DEF PushBgBatch, BgClock, BgSendOpLog
<1>6. bgClock' \in [Clients -> Nat]
  BY <1>1, <1>3 DEF PushBgBatch, BgClock, BgSendOpLog, TypeBg
<1>7. TypeClient' /\ TypeBg'
  BY <1>4, <1>5, <1>6 DEF TypeClient, TypeBg
<1>8. PushTypeNet'
  <2>1. Tail(toBg[t]) \in Seq(RowRequestMsgs \cup ClockMsgs)
    BY <1>5, PushHeadToBg
  <2>. QED
    BY <1>4, <1>5, <2>1 DEF PushTypeNet
<1>9. PushTypeBg'
  <2>1. Tracked(c, pushMgr[c]) \in Managers
    BY <1>1, TrackedType DEF PushTypeBg
  <2>2. /\ pushMgr' = [pushMgr EXCEPT ![c] = Tracked(c, pushMgr[c])]
        /\ UNCHANGED <<systemClock, serverClock, acknowledged>>
    BY DEF PushBgBatch
  <2>. QED
    BY <2>1, <2>2 DEF PushTypeBg
<1>10. UNCHANGED <<cached, pushServerVars>>
  BY DEF PushBgBatch
<1>. QED
  BY <1>5, <1>7, <1>8, <1>9, <1>10 DEF PushTypeApp, TypeServer, TypeHistory, appVars,
     serverVars, histVars, PushTypeServer, pushServerVars

LEMMA PushBgOpLogAckType ==
  ASSUME PushTypeOK, NEW s \in Servers, NEW c \in Clients, PushBgOpLogAck(s, c)
  PROVE  PushTypeOK'
<1> USE DEF PushTypeOK
<1> DEFINE m   == Head(toClient[s][c])
           ack == [acked[c] EXCEPT ![s] = m.seq]
<1>1. /\ toClient[s][c] # << >> /\ m.type = "OpLogAck"
      /\ toClient' = [toClient EXCEPT ![s][c] = Tail(@)]
      /\ UNCHANGED <<appVars, tick, storage, evicted, pinned, bgClock, serverVars,
                     toBg, made, twice>>
  BY DEF PushBgOpLogAck, BgOpLogAck, AckInOrder
<1>2. /\ acked' = [acked EXCEPT ![c] = ack] \/ UNCHANGED acked
      /\ \/ HandleClockMsg(c, pend[c].advanced, bgClock[c], ack, FALSE)
         \/ UNCHANGED <<pend, oplog, index, version, sent, mgr, toServer>>
  BY DEF PushBgOpLogAck, BgOpLogAck, AckInOrder
<1>3. /\ m.seq \in Nat /\ m.version \in Versions
      /\ Tail(toClient[s][c]) \in Seq(PushToClientMsgs)
  BY <1>1, PushHeadToClient DEF PushToClientMsgs, RowReplyMsgs, AckMsgs, PushedMsgs, Versions
<1>4. ack \in [Servers -> Nat] /\ bgClock[c] \in Nat /\ pend[c].advanced \in BOOLEAN
  BY <1>3 DEF TypeBg
<1>5. PushTypeBg'
  <2>1. /\ acknowledged' = [acknowledged EXCEPT ![c] = Acks(c, s, m.version)]
        /\ pushMgr' = [pushMgr EXCEPT ![c] =
                         Tracked(c, ServerAcknowledgeVersion(c, s, m.version))]
        /\ UNCHANGED <<systemClock, serverClock>>
    BY DEF PushBgOpLogAck
  <2> HIDE DEF m
  <2>2. /\ Acks(c, s, m.version) \in [Servers -> Versions]
        /\ Tracked(c, ServerAcknowledgeVersion(c, s, m.version)) \in Managers
    BY <1>3, ServerAcknowledgeVersionType, TrackedType
  <2>. QED
    BY <2>1, <2>2 DEF PushTypeBg
<1>6. UNCHANGED <<cached, pushServerVars>>
  BY DEF PushBgOpLogAck
<1> HIDE DEF m, ack
<1>7. acked' \in [Clients -> [Servers -> Nat]]
  BY <1>2, <1>4 DEF TypeBg
<1>8. /\ oplog' \in [Clients -> Logs] /\ index' \in [Clients -> SUBSET Rows]
      /\ version' \in [Clients -> Nat]
      /\ pend' \in [Clients -> [on : BOOLEAN, advanced : BOOLEAN]]
      /\ sent' \in [Clients -> [Servers -> Nat]]
      /\ mgr' \in [Clients -> Managers]
      /\ toServer' \in [Clients -> [Servers -> Seq(PushToServerMsgs)]]
  <2>1. CASE HandleClockMsg(c, pend[c].advanced, bgClock[c], ack, FALSE)
    BY <1>4, <2>1, PushHandleClockMsgType
  <2>2. CASE UNCHANGED <<pend, oplog, index, version, sent, mgr, toServer>>
    BY <2>2 DEF TypeClient, TypeBg, PushTypeNet
  <2>. QED
    BY <1>2, <2>1, <2>2
<1>9. TypeClient' /\ TypeBg'
  BY <1>1, <1>7, <1>8 DEF TypeClient, TypeBg
<1>10. PushTypeNet'
  BY <1>1, <1>3, <1>8 DEF PushTypeNet
<1>. QED
  BY <1>1, <1>5, <1>6, <1>9, <1>10 DEF PushTypeApp, TypeServer, TypeHistory, appVars,
     serverVars, PushTypeServer, pushServerVars

LEMMA PushBgRowRequestType ==
  ASSUME PushTypeOK, NEW t \in Threads, PushBgRowRequest(t)
  PROVE  PushTypeOK'
<1> USE DEF PushTypeOK
<1> DEFINE c == ClientOf[t]
           m == Head(toBg[t])
<1>1. c \in Clients
  BY SSPAssumption
<1>2. /\ toBg[t] # << >> /\ m.type = "RowRequest"
      /\ toBg' = [toBg EXCEPT ![t] = Tail(@)]
      /\ UNCHANGED <<clock, dirty, want, got, clientVars, version, bgClock,
                     pend, sent, acked, mgr, serverVars, toClient, histVars,
                     cached, systemClock, serverClock, acknowledged,
                     pushServerVars>>
  BY DEF PushBgRowRequest
<1>3. /\ m \in RowRequestMsgs
      /\ Tail(toBg[t]) \in Seq(RowRequestMsgs \cup ClockMsgs)
  BY <1>2, PushHeadToBg DEF ClockMsgs
<1>4. m.row \in Rows /\ m.clock \in Clocks /\ version[c] - 1 \in Versions
  BY <1>1, <1>3 DEF RowRequestMsgs, TypeBg, Versions
<1>5. \/ /\ pc' = [pc EXCEPT ![t] = "woken"]
         /\ UNCHANGED <<pushMgr, toServer>>
      \/ /\ \E garbage \in BOOLEAN :
              pushMgr' = [pushMgr EXCEPT ![c] =
                        AddRowRequest(@, m.row, t, m.clock, version[c] - 1, garbage)]
         /\ \/ UNCHANGED toServer
            \/ toServer' = [toServer EXCEPT ![c][ServerOf[m.row]] = Append(@, m)]
         /\ UNCHANGED pc
  BY DEF PushBgRowRequest
<1> HIDE DEF c, m
<1>6. pushMgr' \in [Clients -> Managers]
  <2>1. pushMgr \in [Clients -> Managers]
    BY DEF PushTypeBg
  <2>2. ASSUME NEW garbage \in BOOLEAN
        PROVE  AddRowRequest(pushMgr[c], m.row, t, m.clock, version[c] - 1, garbage)
                 \in Managers
    BY <1>1, <1>4, <2>1, AddRowRequestType
  <2>. QED
    BY <1>5, <2>1, <2>2
<1>7. toServer' \in [Clients -> [Servers -> Seq(PushToServerMsgs)]]
  <2> DEFINE s == ServerOf[m.row]
  <2>1. s \in Servers /\ m \in PushToServerMsgs
    BY <1>3, <1>4, SSPAssumption DEF PushToServerMsgs
  <2> HIDE DEF s
  <2>2. [toServer EXCEPT ![c][s] = Append(@, m)]
          \in [Clients -> [Servers -> Seq(PushToServerMsgs)]]
    BY <1>1, <2>1, PushAppendToServer
  <2>. QED
    BY <1>5, <2>2 DEF PushTypeNet, s
<1>8. PushTypeApp'
  BY <1>2, <1>5 DEF PushTypeApp
<1>9. PushTypeBg'
  BY <1>2, <1>6 DEF PushTypeBg
<1>10. PushTypeNet'
  BY <1>2, <1>3, <1>7 DEF PushTypeNet
<1>. QED
  BY <1>2, <1>8, <1>9, <1>10 DEF TypeClient, TypeBg, TypeServer, TypeHistory,
     clientVars, serverVars, histVars, PushTypeServer, pushServerVars
(* What a server's value becomes in the cache.                             *)
LEMMA ReplayedType ==
  ASSUME TypeClient, TypeBg, NEW c \in Clients, NEW m \in Managers,
         NEW v \in Versions, NEW r \in Rows, NEW value \in SUBSET Updates,
         ~CannotReplay(c, m, v)
  PROVE  /\ UNION Range(Replayed(c, m, v, r, value)) \in SUBSET Updates
         /\ AddedTwice(Replayed(c, m, v, r, value)) \in SUBSET Updates
<1> DEFINE parts == Replayed(c, m, v, r, value)
<1>1. version[c] \in Nat
  BY DEF TypeBg
<1>2. \A w \in DOMAIN parts : parts[w] \in SUBSET Updates
  <2>1. SUFFICES ASSUME NEW w \in v .. version[c]
                 PROVE  parts[w] \in SUBSET Updates
    BY DEF Replayed
  <2>2. CASE w = v
    BY <2>2 DEF Replayed
  <2>3. CASE w # v /\ w = version[c]
    <3>1. oplog[c][r] \in SUBSET Updates
      BY DEF TypeClient, Logs
    <3>. QED
      BY <2>3, <3>1 DEF Replayed
  <2>4. CASE w # v /\ w # version[c]
    <3>1. w \in (v + 1) .. (version[c] - 1)
      BY <1>1, <2>1, <2>4 DEF Versions
    <3>2. HasOpLog(m, w)
      BY <3>1 DEF CannotReplay
    <3>3. GetOpLog(m, w) \in Logs
      <4>1. m.kept \subseteq Retained
        BY DEF Managers
      <4>2. (CHOOSE k \in m.kept : k.version = w) \in m.kept
        BY <3>2 DEF HasOpLog
      <4>. QED
        BY <4>1, <4>2 DEF GetOpLog, Retained
    <3>4. parts[w] = GetOpLog(m, w)[r]
      BY <2>4 DEF Replayed
    <3>. QED
      BY <3>3, <3>4 DEF Logs
  <2>. QED
    BY <2>2, <2>3, <2>4
<1> HIDE DEF parts
<1>3. UNION Range(parts) \in SUBSET Updates
  BY <1>2 DEF Range
<1>4. AddedTwice(parts) \subseteq UNION Range(parts)
  BY DEF AddedTwice
<1>. QED
  BY <1>3, <1>4 DEF parts

(* The requests that an answer leaves.                                     *)
LEMMA PoppedType ==
  ASSUME NEW m \in Managers, NEW r \in Rows, NEW k \in Nat
  PROVE  /\ Popped(m, r, NumServed(m.reqs[r], k)) \in Managers
         /\ NumServed(m.reqs[r], k) \in 0 .. Len(m.reqs[r])
<1> DEFINE list   == m.reqs[r]
           served == NumServed(list, k)
<1>1. list \in Seq(Requests)
  BY DEF Managers
<1>2. served \in 0 .. Len(list)
  BY <1>1, NumServedType
<1>3. SubSeq(list, served + 1, Len(list)) \in Seq(Requests)
  <2>1. Len(list) \in Nat /\ served \in Nat
    BY <1>1, <1>2, LenProperties
  <2>2. \A i \in served + 1 .. Len(list) : list[i] \in Requests
    BY <1>1, <1>2, <2>1, ElementOfSeq
  <2>. QED
    BY <2>1, <2>2, SubSeqProperties
<1> HIDE DEF served
<1>. QED
  BY <1>2, <1>3 DEF Popped, Managers, served

LEMMA PushBgRowReplyType ==
  ASSUME PushTypeOK, NEW s \in Servers, NEW c \in Clients, PushBgRowReply(s, c)
  PROVE  PushTypeOK'
<1> USE DEF PushTypeOK
<1> DEFINE m      == Head(toClient[s][c])
           keeps  == ServerAcknowledgeVersion(c, s, m.version)
           served == NumServed(keeps.reqs[m.row], m.clock)
           left   == Popped(keeps, m.row, served)
           next   == ClockToRequest(left, m.row)
           parts  == Replayed(c, keeps, m.version, m.row, m.data)
           row    == [clock |-> m.clock, data |-> UNION Range(parts)]
<1>1. /\ toClient[s][c] # << >> /\ m.type = "RowReply"
      /\ toClient' = [toClient EXCEPT ![s][c] = Tail(@)]
      /\ acknowledged' = [acknowledged EXCEPT ![c] = Acks(c, s, m.version)]
      /\ UNCHANGED <<clock, dirty, want, got, tick, oplog, index, evicted,
                     pinned, version, bgClock, pend, sent, acked, mgr,
                     serverVars, toBg, made, cached, systemClock, serverClock,
                     pushServerVars>>
  BY DEF PushBgRowReply
<1>2. \/ UNCHANGED <<storage, pushMgr, pc, toServer, twice>>
      \/ /\ ~CannotReplay(c, keeps, m.version)
         /\ storage' = [storage EXCEPT ![c][m.row] = row]
         /\ twice'   = twice \cup AddedTwice(parts)
         /\ pushMgr' = [pushMgr EXCEPT ![c] =
              IF next < 0 THEN left ELSE [left EXCEPT !.reqs[m.row][1].sent = TRUE]]
         /\ pc' = [t \in Threads |->
              IF t \in ServedThreads(keeps, m.row, m.clock) THEN "woken" ELSE pc[t]]
         /\ toServer' = IF next < 0 THEN toServer
                        ELSE [toServer EXCEPT ![c][ServerOf[m.row]] =
                                Append(@, RowRequestMsg(m.row, next))]
  BY DEF PushBgRowReply
<1>3. /\ m \in RowReplyMsgs
      /\ Tail(toClient[s][c]) \in Seq(PushToClientMsgs)
  BY <1>1, PushHeadToClient DEF PushToClientMsgs, AckMsgs, PushedMsgs
<1>4. /\ m.row \in Rows /\ m.clock \in Nat /\ m.version \in Versions
      /\ m.data \in SUBSET Updates
  BY <1>3 DEF RowReplyMsgs
<1> HIDE DEF m
<1>5. keeps \in Managers /\ Acks(c, s, m.version) \in [Servers -> Versions]
  BY <1>4, ServerAcknowledgeVersionType
<1>7. left \in Managers
  <2> HIDE DEF keeps
  <2>. QED
    BY <1>4, <1>5, PoppedType
<1>8. ~CannotReplay(c, keeps, m.version) =>
        row \in CachedRows /\ AddedTwice(parts) \in SUBSET Updates
  <2> HIDE DEF keeps
  <2>. QED
    BY <1>4, <1>5, ReplayedType DEF CachedRows, Versions
<1>9. next \in Clocks \cup {-1}
  BY <1>4, <1>7, ClockToRequestType
<1>10. ASSUME ~(next < 0)
       PROVE  [left EXCEPT !.reqs[m.row][1].sent = TRUE] \in Managers
  <2> DEFINE list == left.reqs[m.row]
             front == [list[1] EXCEPT !.sent = TRUE]
  <2> HIDE DEF left
  <2>1. list \in Seq(Requests) /\ list # << >>
    <3>1. next >= 0
      BY <1>9, <1>10, SSPAssumption DEF Clocks
    <3>. QED
      BY <1>4, <1>7, <3>1, ClockToRequestType DEF Managers
  <2>2. list[1] \in Requests
    BY <2>1
  <2>3. front \in Requests
    BY <2>2 DEF Requests
  <2>4. [list EXCEPT ![1] = front] \in Seq(Requests)
    <3> HIDE DEF front, list
    <3>. QED
      BY <2>1, <2>3, ExceptSeq
  <2>5. [left EXCEPT !.reqs[m.row][1].sent = TRUE] =
          [left EXCEPT !.reqs[m.row] = [list EXCEPT ![1] = front]]
    BY <1>4, <1>7, <2>1, <2>2 DEF Managers, Requests
  <2> DEFINE new == [list EXCEPT ![1] = front]
  <2> HIDE DEF new
  <2>6. [left EXCEPT !.reqs[m.row] = new] \in Managers
    BY <1>4, <1>7, <2>4 DEF Managers, new
  <2>. QED
    BY <2>5, <2>6 DEF new
<1>11. pushMgr' \in [Clients -> Managers]
  <2> HIDE DEF left, next
  <2>. QED
    BY <1>2, <1>7, <1>10 DEF PushTypeBg
<1>12. toServer' \in [Clients -> [Servers -> Seq(PushToServerMsgs)]]
  <2>1. CASE /\ ~(next < 0)
             /\ toServer' = [toServer EXCEPT ![c][ServerOf[m.row]] =
                               Append(@, RowRequestMsg(m.row, next))]
    <3>1. next \in Clocks
      BY <1>9, <2>1
    <3> HIDE DEF next
    <3>2. RowRequestMsg(m.row, next) \in PushToServerMsgs
      BY <1>4, <3>1, RowRequestMsgType DEF PushToServerMsgs
    <3>3. ServerOf[m.row] \in Servers
      BY <1>4, SSPAssumption
    <3>. QED
      BY <2>1, <3>2, <3>3, PushAppendToServer
  <2>2. CASE UNCHANGED toServer
    BY <2>2 DEF PushTypeNet
  <2>. QED
    BY <1>2, <2>1, <2>2
<1> HIDE DEF keeps, parts, row, left, next
<1>13. storage' \in [Clients -> [Rows -> CachedRows]]
  <2>1. CASE UNCHANGED storage
    BY <2>1 DEF TypeClient
  <2>2. CASE row \in CachedRows /\ storage' = [storage EXCEPT ![c][m.row] = row]
    BY <1>4, <2>2 DEF TypeClient
  <2>. QED
    BY <1>2, <1>8, <2>1, <2>2
<1>14. PushTypeApp'
  BY <1>1, <1>2 DEF PushTypeApp
<1>15. TypeHistory'
  BY <1>1, <1>2, <1>8 DEF TypeHistory
<1>16. PushTypeBg'
  BY <1>1, <1>5, <1>11 DEF PushTypeBg
<1>17. PushTypeNet'
  BY <1>1, <1>3, <1>12 DEF PushTypeNet
<1>. QED
  BY <1>1, <1>13, <1>14, <1>15, <1>16, <1>17 DEF TypeClient, TypeBg, TypeServer,
     serverVars, PushTypeServer, pushServerVars

LEMMA PushedClockType ==
  ASSUME PushTypeBg, NEW c \in Clients, NEW s \in Servers, NEW m \in PushedMsgs
  PROVE  PushedClock(c, s, m) \in [Servers -> Nat]
<1>1. serverClock[c] \in [Servers -> Nat] /\ m.clock \in Nat
  BY DEF PushTypeBg, PushedMsgs
<1>2. Max({serverClock[c][s], m.clock}) \in Nat
  BY <1>1, MaxOfTwo
<1>. QED
  BY <1>1, <1>2 DEF PushedClock

LEMMA PushBgRowsType ==
  ASSUME PushTypeOK, NEW s \in Servers, NEW c \in Clients, PushBgRows(s, c)
  PROVE  PushTypeOK'
<1> USE DEF PushTypeOK
<1> DEFINE m      == Head(toClient[s][c])
           keeps  == ServerAcknowledgeVersion(c, s, m.version)
           rows   == { r \in DOMAIN m.data : Cached(c, r) }
           parts(r) == Replayed(c, keeps, m.version, r, m.data[r])
           clocks == PushedClock(c, s, m)
           new    == [r \in Rows |->
                        IF r \in rows
                        THEN [storage[c][r] EXCEPT !.data = UNION Range(parts(r))]
                        ELSE storage[c][r]]
           again  == UNION { AddedTwice(parts(r)) : r \in rows }
           ack    == PushAckMsg(m.seq)
<1>1. /\ toClient[s][c] # << >> /\ m.type = "PushRow"
      /\ toClient' = [toClient EXCEPT ![s][c] = Tail(@)]
      /\ acknowledged' = [acknowledged EXCEPT ![c] = Acks(c, s, m.version)]
      /\ pushMgr' = [pushMgr EXCEPT ![c] = keeps]
      /\ UNCHANGED <<appVars, tick, oplog, index, evicted, pinned, bgVars,
                     serverVars, toBg, made, cached, pushServerVars>>
  BY DEF PushBgRows
<1>2. \/ UNCHANGED <<storage, twice, serverClock, systemClock, toServer>>
      \/ /\ rows # {} => ~CannotReplay(c, keeps, m.version)
         /\ storage' = [storage EXCEPT ![c] = new]
         /\ twice' = twice \cup again
         /\ serverClock' = [serverClock EXCEPT ![c] = clocks]
         /\ systemClock' = [systemClock EXCEPT ![c] =
              IF MinClock(clocks) # MinClock(serverClock[c])
              THEN MinClock(clocks) ELSE @]
         /\ toServer' = [toServer EXCEPT ![c][s] = Append(@, ack)]
  BY DEF PushBgRows
<1>3. /\ m \in PushedMsgs
      /\ Tail(toClient[s][c]) \in Seq(PushToClientMsgs)
  BY <1>1, PushHeadToClient DEF PushToClientMsgs, AckMsgs, RowReplyMsgs
<1>4. /\ m.version \in Versions /\ m.seq \in Nat /\ m.data \in RowValues
  BY <1>3 DEF PushedMsgs
<1>5. \A r \in rows : r \in Rows /\ m.data[r] \in SUBSET Updates
  BY <1>4 DEF RowValues
<1>6. clocks \in [Servers -> Nat]
  BY <1>3, PushedClockType
<1> HIDE DEF m, clocks
<1>7. keeps \in Managers /\ Acks(c, s, m.version) \in [Servers -> Versions]
  BY <1>4, ServerAcknowledgeVersionType
<1> HIDE DEF keeps
<1>8. ASSUME rows # {} => ~CannotReplay(c, keeps, m.version), NEW r \in rows
      PROVE  /\ UNION Range(parts(r)) \in SUBSET Updates
             /\ AddedTwice(parts(r)) \in SUBSET Updates
  BY <1>4, <1>5, <1>7, <1>8, ReplayedType
<1> HIDE DEF rows, parts
<1>9. ASSUME rows # {} => ~CannotReplay(c, keeps, m.version)
      PROVE  new \in [Rows -> CachedRows] /\ again \in SUBSET Updates
  <2>1. ASSUME NEW r \in Rows PROVE new[r] \in CachedRows
    <3>1. storage[c][r] \in CachedRows
      BY DEF TypeClient
    <3>2. CASE r \in rows
      BY <1>8, <1>9, <3>1, <3>2 DEF CachedRows
    <3>. QED
      BY <3>1, <3>2
  <2>2. again \in SUBSET Updates
    BY <1>8, <1>9
  <2>. QED
    BY <2>1, <2>2
<1>10. ack \in PushToServerMsgs
  BY <1>4 DEF PushAckMsg, PushAckMsgs, PushToServerMsgs
<1> HIDE DEF new, again, ack
<1>11. TypeClient'
  <2>1. UNCHANGED storage \/ (new \in [Rows -> CachedRows]
                              /\ storage' = [storage EXCEPT ![c] = new])
    BY <1>2, <1>9
  <2>2. storage' \in [Clients -> [Rows -> CachedRows]]
    BY <2>1 DEF TypeClient
  <2>. QED
    BY <1>1, <2>2 DEF TypeClient
<1>12. TypeHistory'
  BY <1>1, <1>2, <1>9 DEF TypeHistory
<1>13. PushTypeBg'
  <2>1. MinClock(clocks) \in Int
    BY <1>6, PushedMinType
  <2>2. /\ systemClock' \in [Clients -> Int]
        /\ serverClock' \in [Clients -> [Servers -> Nat]]
    BY <1>2, <1>6, <2>1 DEF PushTypeBg
  <2>3. /\ acknowledged' \in [Clients -> [Servers -> Versions]]
        /\ pushMgr' \in [Clients -> Managers]
    BY <1>1, <1>7 DEF PushTypeBg
  <2>. QED
    BY <2>2, <2>3 DEF PushTypeBg
<1>14. PushTypeNet'
  <2>1. toServer' \in [Clients -> [Servers -> Seq(PushToServerMsgs)]]
    <3>1. [toServer EXCEPT ![c][s] = Append(@, ack)]
            \in [Clients -> [Servers -> Seq(PushToServerMsgs)]]
      BY <1>10, PushAppendToServer
    <3>. QED
      BY <1>2, <3>1 DEF PushTypeNet
  <2>. QED
    BY <1>1, <1>3, <2>1 DEF PushTypeNet
<1>. QED
  BY <1>1, <1>11, <1>12, <1>13, <1>14 DEF PushTypeApp, appVars, TypeBg, bgVars,
     TypeServer, serverVars, PushTypeServer, pushServerVars
-----------------------------------------------------------------------------
(* The servers.                                                            *)

(* A push to one client: one or two messages, numbered on from the last.   *)
LEMMA PushRowMsgsAre ==
  ASSUME NEW rows \in SUBSET Rows, NEW value \in Logs, NEW clk \in Nat,
         NEW v \in Versions, NEW seq \in Nat
  PROVE  /\ PushRowMsgs(rows, value, clk, v, seq) \in Seq(PushedMsgs)
         /\ Len(PushRowMsgs(rows, value, clk, v, seq)) \in 1 .. 2
         /\ \A i \in 1 .. Len(PushRowMsgs(rows, value, clk, v, seq)) :
              LET m == PushRowMsgs(rows, value, clk, v, seq)[i]
              IN  /\ m.type = "PushRow" /\ m.clock = clk /\ m.version = v
                  /\ m.seq = seq + i
<1> DEFINE parts == IF rows \cap Fill = {} THEN << rows >>
                    ELSE << rows \cap Fill, rows \ Fill >>
           msg(i) == [type |-> "PushRow", isClock |-> i = Len(parts), clock |-> clk,
                      version |-> v, seq |-> seq + i,
                      data |-> [r \in parts[i] |-> value[r]]]
           msgs  == [i \in DOMAIN parts |-> msg(i)]
<1>1. /\ parts \in Seq(SUBSET Rows) /\ Len(parts) \in 1 .. 2
      /\ DOMAIN parts = 1 .. Len(parts)
  <2>1. << rows >> \in Seq(SUBSET Rows) /\ Len(<< rows >>) = 1
    OBVIOUS
  <2>2. /\ << rows \cap Fill, rows \ Fill >> \in Seq(SUBSET Rows)
        /\ Len(<< rows \cap Fill, rows \ Fill >>) = 2
    OBVIOUS
  <2>3. parts \in Seq(SUBSET Rows) /\ Len(parts) \in 1 .. 2
    <3>1. CASE rows \cap Fill = {}
      BY <2>1, <3>1
    <3>2. CASE rows \cap Fill # {}
      <4> DEFINE two == << rows \cap Fill, rows \ Fill >>
      <4>1. parts = two
        BY <3>2
      <4> HIDE DEF parts, two
      <4>. QED
        BY <2>2, <4>1 DEF two
    <3>. QED
      BY <3>1, <3>2
  <2> HIDE DEF parts
  <2>. QED
    BY <2>3, LenProperties
<1> HIDE DEF parts
<1>2. ASSUME NEW i \in 1 .. Len(parts) PROVE msg(i) \in PushedMsgs
  <2>1. parts[i] \in SUBSET Rows
    BY <1>1, <1>2, ElementOfSeq
  <2>2. [r \in parts[i] |-> value[r]] \in RowValues
    BY <2>1 DEF RowValues, Logs
  <2>3. seq + i \in Nat
    BY <1>1, <1>2
  <2>. QED
    BY <2>2, <2>3 DEF PushedMsgs
<1>3. msgs \in Seq(PushedMsgs) /\ Len(msgs) = Len(parts)
  <2>1. msgs = [i \in 1 .. Len(parts) |-> msg(i)] /\ Len(parts) \in Nat
    BY <1>1
  <2> HIDE DEF msg, msgs
  <2>. QED
    BY <1>2, <2>1
<1>4. \A i \in 1 .. Len(msgs) : /\ msgs[i].type = "PushRow" /\ msgs[i].clock = clk
                                /\ msgs[i].version = v /\ msgs[i].seq = seq + i
  BY <1>1, <1>3
<1>5. PushRowMsgs(rows, value, clk, v, seq) = msgs
  BY DEF PushRowMsgs, parts
<1> HIDE DEF msgs
<1>. QED
  BY <1>1, <1>3, <1>4, <1>5

LEMMA PushedAre ==
  ASSUME PushTypeServer, NEW s \in Servers, NEW d \in Clients, NEW value \in Logs,
         NEW clk \in Nat, NEW vers \in [Clients -> Versions],
         NEW subs, NEW dirtyRows \in SUBSET Rows
  PROVE  LET p == Pushed(s, d, value, clk, vers, subs, dirtyRows)
         IN  /\ p \in Seq(PushedMsgs)
             /\ Len(p) \in 1 .. 2
             /\ \A i \in 1 .. Len(p) :
                  /\ p[i].type = "PushRow" /\ p[i].clock = clk
                  /\ p[i].version = vers[d] /\ p[i].seq = pushSent[s][d] + i
<1> DEFINE rows == { r \in ToPush(s, subs, dirtyRows) : d \in subs[r] }
<1>1. rows \in SUBSET Rows
  BY DEF ToPush
<1>2. vers[d] \in Versions /\ pushSent[s][d] \in Nat
  BY DEF PushTypeServer
<1>3. Pushed(s, d, value, clk, vers, subs, dirtyRows) =
        PushRowMsgs(rows, value, clk, vers[d], pushSent[s][d])
  BY DEF Pushed
<1> HIDE DEF rows
<1>. QED
  BY <1>1, <1>2, <1>3, PushRowMsgsAre

LEMMA PushServerRowRequestType ==
  ASSUME PushTypeOK, NEW c \in Clients, NEW s \in Servers, PushServerRowRequest(c, s)
  PROVE  PushTypeOK'
<1> USE DEF PushTypeOK
<1> DEFINE m     == Head(toServer[c][s])
           now   == MinClock(sClock[s])
           reply == RowReplyMsg(m.row, now, sVersion[s][c], data[m.row])
<1>1. /\ toServer[c][s] # << >> /\ m.type = "RowRequest"
      /\ toServer' = [toServer EXCEPT ![c][s] = Tail(@)]
      /\ \/ /\ queued' = [queued EXCEPT ![s][c][m.clock] = Append(@, m.row)]
            /\ UNCHANGED toClient
         \/ /\ toClient' = [toClient EXCEPT ![s][c] = Append(@, reply)]
            /\ UNCHANGED queued
      /\ UNCHANGED <<appVars, clientVars, bgVars, data, sClock, sVersion,
                     toBg, histVars>>
  BY DEF PushServerRowRequest, ServerRowRequest, Waiting
<1>2. /\ m \in RowRequestMsgs
      /\ Tail(toServer[c][s]) \in Seq(PushToServerMsgs)
  BY <1>1, PushHeadToServer DEF PushToServerMsgs, OpLogMsgs, PushAckMsgs
<1>3. m.row \in Rows /\ m.clock \in Clocks
  BY <1>2 DEF RowRequestMsgs
<1>4. reply \in RowReplyMsgs
  <2>1. now \in Nat
    BY MinClockType DEF TypeServer
  <2>2. sVersion[s][c] \in Versions /\ data[m.row] \in SUBSET Updates
    BY <1>3 DEF TypeServer, Logs
  <2>. QED
    BY <1>3, <2>1, <2>2, RowReplyMsgType
<1>5. PushTypeServer'
  <2>1. /\ subscribed' = IF Fresh(s, m.clock)
                         THEN [subscribed EXCEPT ![m.row] = @ \cup {c}] ELSE subscribed
        /\ UNCHANGED <<changed, pendingPush, pushSent, pushAcked>>
    BY DEF PushServerRowRequest, Subscribed
  <2> HIDE DEF m
  <2>. QED
    BY <1>3, <2>1 DEF PushTypeServer
<1>6. UNCHANGED pushClientVars
  BY DEF PushServerRowRequest
<1> HIDE DEF m, reply
<1>7. queued' \in [Servers -> [Clients -> [Clocks -> Seq(Rows)]]]
  <2>1. queued[s][c][m.clock] \in Seq(Rows)
    BY <1>3 DEF TypeServer
  <2>2. Append(queued[s][c][m.clock], m.row) \in Seq(Rows)
    BY <1>3, <2>1, AppendProperties
  <2>3. [queued EXCEPT ![s][c][m.clock] = Append(@, m.row)]
          \in [Servers -> [Clients -> [Clocks -> Seq(Rows)]]]
    BY <1>3, <2>2 DEF TypeServer
  <2>. QED
    BY <1>1, <2>3 DEF TypeServer
<1>8. toClient' \in [Servers -> [Clients -> Seq(PushToClientMsgs)]]
  <2>1. Append(toClient[s][c], reply) \in Seq(PushToClientMsgs)
    BY <1>4, AppendProperties DEF PushTypeNet, PushToClientMsgs
  <2>2. CASE UNCHANGED toClient
    BY <2>2 DEF PushTypeNet
  <2>3. CASE toClient' = [toClient EXCEPT ![s][c] = Append(@, reply)]
    BY <2>1, <2>3 DEF PushTypeNet
  <2>. QED
    BY <1>1, <2>2, <2>3
<1>9. TypeServer'
  BY <1>1, <1>7 DEF TypeServer
<1>10. PushTypeNet'
  BY <1>1, <1>2, <1>8 DEF PushTypeNet
<1>. QED
  BY <1>1, <1>5, <1>6, <1>9, <1>10 DEF PushTypeApp, TypeClient, TypeBg, PushTypeBg,
     TypeHistory, appVars, clientVars, bgVars, histVars, pushClientVars

LEMMA ServerPushAckType ==
  ASSUME PushTypeOK, NEW c \in Clients, NEW s \in Servers, ServerPushAck(c, s)
  PROVE  PushTypeOK'
<1> USE DEF PushTypeOK
<1> DEFINE m    == Head(toServer[c][s])
           ack  == [pushAcked[s] EXCEPT ![c] = m.seq]
           push == DuePush(s, ack)
           now  == MinClock(sClock[s])
           Pushes(d) == IF push THEN Pushed(s, d, data, now, sVersion[s], subscribed, changed)
                        ELSE << >>
           out   == [d \in Clients |-> toClient[s][d] \o Pushes(d)]
           count == [d \in Clients |-> pushSent[s][d] + Len(Pushes(d))]
<1>1. /\ toServer[c][s] # << >> /\ m.type = "PushAck"
      /\ toServer' = [toServer EXCEPT ![c][s] = Tail(@)]
      /\ UNCHANGED <<appVars, clientVars, bgVars, serverVars, toBg, made, twice,
                     pushClientVars>>
  BY DEF ServerPushAck
<1>2. \/ UNCHANGED <<pushServerVars, toClient>>
      \/ /\ UNCHANGED subscribed
         /\ pushAcked'   = [pushAcked EXCEPT ![s] = ack]
         /\ pendingPush' = [pendingPush EXCEPT ![s] = @ /\ ~push]
         /\ changed' = IF push THEN ResetDirty(s, subscribed, changed) ELSE changed
         /\ toClient' = [toClient EXCEPT ![s] = out]
         /\ pushSent' = [pushSent EXCEPT ![s] = count]
  BY DEF ServerPushAck
<1>3. /\ m \in PushAckMsgs
      /\ Tail(toServer[c][s]) \in Seq(PushToServerMsgs)
  BY <1>1, PushHeadToServer DEF PushToServerMsgs, OpLogMsgs, RowRequestMsgs
<1>4. ack \in [Clients -> Nat]
  BY <1>3 DEF PushTypeServer, PushAckMsgs
<1>5. now \in Nat /\ data \in Logs /\ sVersion[s] \in [Clients -> Versions]
      /\ changed \in SUBSET Rows
  BY MinClockType DEF TypeServer, PushTypeServer
<1> HIDE DEF m, ack, push, now
<1>6. ASSUME NEW d \in Clients
      PROVE  Pushes(d) \in Seq(PushToClientMsgs) /\ Len(Pushes(d)) \in Nat
  <2>1. /\ Pushed(s, d, data, now, sVersion[s], subscribed, changed) \in Seq(PushedMsgs)
        /\ Len(Pushed(s, d, data, now, sVersion[s], subscribed, changed)) \in 1 .. 2
    BY <1>5, PushedAre
  <2>. QED
    BY <2>1 DEF PushToClientMsgs
<1> HIDE DEF Pushes
<1>7. out \in [Clients -> Seq(PushToClientMsgs)] /\ count \in [Clients -> Nat]
  <2>1. ASSUME NEW d \in Clients
        PROVE  /\ toClient[s][d] \o Pushes(d) \in Seq(PushToClientMsgs)
               /\ pushSent[s][d] + Len(Pushes(d)) \in Nat
    BY <1>6, ConcatProperties DEF PushTypeNet, PushTypeServer
  <2>. QED
    BY <2>1
<1> HIDE DEF out, count
<1>8. PushTypeServer'
  BY <1>2, <1>4, <1>7 DEF PushTypeServer, ResetDirty, pushServerVars
<1>9. PushTypeNet'
  <2>1. toClient' \in [Servers -> [Clients -> Seq(PushToClientMsgs)]]
    BY <1>2, <1>7 DEF PushTypeNet
  <2>. QED
    BY <1>1, <1>3, <2>1 DEF PushTypeNet
<1>. QED
  BY <1>1, <1>8, <1>9 DEF PushTypeApp, TypeClient, TypeBg, PushTypeBg, TypeServer,
     TypeHistory, appVars, clientVars, bgVars, serverVars, pushClientVars
(* What HandleOpLogMsg computes, under the names PushServerOpLog gives it. *)
OpLogClocks(c, s) ==
  LET m == Head(toServer[c][s])
  IN  IF m.isClock THEN ClockUntil(s, c, m.bgClock) ELSE sClock[s]
OpLogNow(c, s)   == MinClock(OpLogClocks(c, s))
OpLogMoved(c, s) == OpLogNow(c, s) # MinClock(sClock[s])
OpLogRows(c, s)  == Applied(Head(toServer[c][s]).log)
OpLogVers(c, s)  == [sVersion[s] EXCEPT ![c] = Head(toServer[c][s]).version]
OpLogWaiting(c, s, d) ==
  IF OpLogMoved(c, s) THEN Fulfilled(s, d, OpLogNow(c, s)) ELSE << >>
OpLogSubs(c, s) == [r \in Rows |-> subscribed[r] \cup
                      { d \in Clients : r \in Range(OpLogWaiting(c, s, d)) }]
OpLogDirty(c, s) == changed \cup { r \in Rows : Head(toServer[c][s]).log[r] # {} }
OpLogPush(c, s)  == OpLogMoved(c, s) /\ CheckPushAll(s, pushAcked[s])
OpLogReplies(c, s, d) ==
  [i \in DOMAIN OpLogWaiting(c, s, d) |->
     RowReplyMsg(OpLogWaiting(c, s, d)[i], OpLogNow(c, s), OpLogVers(c, s)[d],
                 OpLogRows(c, s)[OpLogWaiting(c, s, d)[i]])]
OpLogPushes(c, s, d) ==
  IF OpLogPush(c, s)
  THEN Pushed(s, d, OpLogRows(c, s), OpLogNow(c, s), OpLogVers(c, s),
              OpLogSubs(c, s), OpLogDirty(c, s))
  ELSE << >>
OpLogAcks(c, s, d) ==
  IF d = c THEN << [type |-> "OpLogAck", version |-> Head(toServer[c][s]).version,
                    seq |-> Head(toServer[c][s]).seq] >>
  ELSE << >>

LEMMA PushServerOpLogIs ==
  ASSUME NEW c \in Clients, NEW s \in Servers, PushServerOpLog(c, s)
  PROVE  /\ Running
         /\ toServer[c][s] # << >> /\ Head(toServer[c][s]).type = "OpLog"
         /\ toServer' = [toServer EXCEPT ![c][s] = Tail(@)]
         /\ UNCHANGED <<appVars, clientVars, bgVars, toBg, made, pushClientVars>>
         /\ \/ /\ failed' = "bg_version"
               /\ UNCHANGED <<data, sClock, sVersion, queued, toClient, twice,
                              pushServerVars>>
            \/ /\ UNCHANGED failed
               /\ Head(toServer[c][s]).version = sVersion[s][c] + 1
               /\ data'     = OpLogRows(c, s)
               /\ twice'    = twice \cup
                    UNION { data[r] \cap Head(toServer[c][s]).log[r] : r \in Rows }
               /\ sVersion' = [sVersion EXCEPT ![s] = OpLogVers(c, s)]
               /\ sClock'   = [sClock EXCEPT ![s] = OpLogClocks(c, s)]
               /\ queued'   = IF OpLogMoved(c, s)
                              THEN [queued EXCEPT ![s] = [d \in Clients |->
                                      [@[d] EXCEPT ![OpLogNow(c, s)] = << >>]]]
                              ELSE queued
               /\ subscribed' = OpLogSubs(c, s)
               /\ changed' = IF OpLogPush(c, s)
                             THEN ResetDirty(s, OpLogSubs(c, s), OpLogDirty(c, s))
                             ELSE OpLogDirty(c, s)
               /\ pendingPush' = [pendingPush EXCEPT ![s] =
                                    @ \/ (OpLogMoved(c, s) /\ ~OpLogPush(c, s))]
               /\ toClient' = [toClient EXCEPT ![s] = [d \in Clients |->
                    @[d] \o OpLogReplies(c, s, d) \o OpLogPushes(c, s, d)
                         \o OpLogAcks(c, s, d)]]
               /\ pushSent' = [pushSent EXCEPT ![s] = [d \in Clients |->
                                 @[d] + Len(OpLogPushes(c, s, d))]]
               /\ UNCHANGED pushAcked
<1> DEFINE m == Head(toServer[c][s])
<1>1. CASE m.version # sVersion[s][c] + 1
  BY <1>1 DEF PushServerOpLog
<1>2. CASE m.version = sVersion[s][c] + 1
  BY <1>2 DEF PushServerOpLog, OpLogClocks, OpLogNow, OpLogMoved, OpLogRows, OpLogVers,
     OpLogWaiting, OpLogSubs, OpLogDirty, OpLogPush, OpLogReplies, OpLogPushes, OpLogAcks
<1>. QED
  BY <1>1, <1>2

LEMMA OpLogTypes ==
  ASSUME PushTypeOK, NEW c \in Clients, NEW s \in Servers,
         toServer[c][s] # << >>, Head(toServer[c][s]).type = "OpLog"
  PROVE  /\ Head(toServer[c][s]) \in OpLogMsgs
         /\ OpLogClocks(c, s) \in [Clients -> Nat]
         /\ \A d \in Clients : OpLogClocks(c, s)[d] >= sClock[s][d]
         /\ OpLogNow(c, s) \in Nat
         /\ OpLogRows(c, s) \in Logs
         /\ OpLogVers(c, s) \in [Clients -> Versions]
         /\ OpLogSubs(c, s) \in [Rows -> SUBSET Clients]
         /\ OpLogDirty(c, s) \in SUBSET Rows
         /\ \A d \in Clients : OpLogWaiting(c, s, d) \in Seq(Rows)
<1> USE DEF PushTypeOK
<1> DEFINE m == Head(toServer[c][s])
<1>1. m \in OpLogMsgs
  BY PushHeadToServer DEF PushToServerMsgs, RowRequestMsgs, PushAckMsgs
<1>2. m.bgClock \in Nat /\ m.version \in Nat /\ m.log \in Logs
  BY <1>1 DEF OpLogMsgs
<1> HIDE DEF m
<1>3. /\ OpLogClocks(c, s) \in [Clients -> Nat]
      /\ \A d \in Clients : OpLogClocks(c, s)[d] >= sClock[s][d]
  <2>1. sClock[s] \in [Clients -> Nat]
    BY DEF TypeServer
  <2>2. Max({sClock[s][c], m.bgClock}) \in Nat /\ Max({sClock[s][c], m.bgClock}) >= sClock[s][c]
    BY <1>2, <2>1, MaxOfTwo
  <2>3. OpLogClocks(c, s) = IF m.isClock
                            THEN [sClock[s] EXCEPT ![c] = Max({sClock[s][c], m.bgClock})]
                            ELSE sClock[s]
    BY DEF OpLogClocks, ClockUntil, m
  <2> DEFINE k == Max({sClock[s][c], m.bgClock})
  <2> HIDE DEF k
  <2>4. CASE m.isClock
    <3>1. OpLogClocks(c, s) = [sClock[s] EXCEPT ![c] = k] /\ k \in Nat /\ k >= sClock[s][c]
      BY <2>2, <2>3, <2>4 DEF k
    <3>. QED
      BY <2>1, <3>1
  <2>5. CASE ~m.isClock
    BY <2>1, <2>3, <2>5
  <2>. QED
    BY <2>4, <2>5
<1>4. OpLogNow(c, s) \in Nat
  BY <1>3, MinClockType DEF OpLogNow
<1>5. OpLogRows(c, s) \in Logs
  BY <1>2 DEF OpLogRows, Applied, TypeServer, Logs, m
<1>6. OpLogVers(c, s) \in [Clients -> Versions]
  BY <1>2 DEF OpLogVers, TypeServer, Versions, m
<1>7. \A d \in Clients : OpLogWaiting(c, s, d) \in Seq(Rows)
  BY DEF OpLogWaiting, Fulfilled, TypeServer
<1>8. OpLogSubs(c, s) \in [Rows -> SUBSET Clients] /\ OpLogDirty(c, s) \in SUBSET Rows
  BY DEF OpLogSubs, OpLogDirty, PushTypeServer
<1>. QED
  BY <1>1, <1>3, <1>4, <1>5, <1>6, <1>7, <1>8 DEF m

(* The three parts of what a server sends a client in one step.            *)
LEMMA OpLogSendsAre ==
  ASSUME PushTypeOK, NEW c \in Clients, NEW s \in Servers, NEW d \in Clients,
         toServer[c][s] # << >>, Head(toServer[c][s]).type = "OpLog"
  PROVE  /\ OpLogReplies(c, s, d) \in Seq(RowReplyMsgs)
         /\ \A i \in 1 .. Len(OpLogReplies(c, s, d)) :
              /\ OpLogReplies(c, s, d)[i].clock = OpLogNow(c, s)
              /\ OpLogReplies(c, s, d)[i].version = OpLogVers(c, s)[d]
         /\ OpLogPushes(c, s, d) \in Seq(PushedMsgs)
         /\ Len(OpLogPushes(c, s, d)) \in Nat
         /\ \A i \in 1 .. Len(OpLogPushes(c, s, d)) :
              /\ OpLogPushes(c, s, d)[i].clock = OpLogNow(c, s)
              /\ OpLogPushes(c, s, d)[i].version = OpLogVers(c, s)[d]
              /\ OpLogPushes(c, s, d)[i].seq = pushSent[s][d] + i
         /\ OpLogAcks(c, s, d) \in Seq(AckMsgs)
         /\ \A i \in 1 .. Len(OpLogAcks(c, s, d)) :
              OpLogAcks(c, s, d)[i].version = OpLogVers(c, s)[d]
<1> USE DEF PushTypeOK
<1> DEFINE m   == Head(toServer[c][s])
           now == OpLogNow(c, s)
           v   == OpLogVers(c, s)[d]
           w   == OpLogWaiting(c, s, d)
           rows == OpLogRows(c, s)
           reply(i) == RowReplyMsg(w[i], now, v, rows[w[i]])
           replies == [i \in DOMAIN w |-> reply(i)]
           pushes == Pushed(s, d, rows, now, OpLogVers(c, s), OpLogSubs(c, s),
                            OpLogDirty(c, s))
           a == [type |-> "OpLogAck", version |-> m.version, seq |-> m.seq]
<1>1. /\ m \in OpLogMsgs /\ now \in Nat /\ v \in Versions /\ w \in Seq(Rows)
      /\ rows \in Logs /\ OpLogVers(c, s) \in [Clients -> Versions]
      /\ OpLogDirty(c, s) \in SUBSET Rows
  BY OpLogTypes
<1>2. /\ OpLogReplies(c, s, d) = replies
      /\ OpLogPushes(c, s, d) = IF OpLogPush(c, s) THEN pushes ELSE << >>
      /\ OpLogAcks(c, s, d) = IF d = c THEN << a >> ELSE << >>
      /\ d = c => m.version = v
  BY DEF OpLogReplies, OpLogPushes, OpLogAcks, OpLogVers, TypeServer
<1> HIDE DEF m, now, v, w, rows
<1>3. /\ replies \in Seq(RowReplyMsgs)
      /\ \A i \in 1 .. Len(replies) : replies[i].clock = now /\ replies[i].version = v
  <2>1. /\ Len(w) \in Nat /\ DOMAIN w = 1 .. Len(w)
        /\ \A i \in 1 .. Len(w) : w[i] \in Rows
    BY <1>1, LenProperties, ElementOfSeq
  <2>2. ASSUME NEW i \in 1 .. Len(w)
        PROVE  reply(i) \in RowReplyMsgs /\ reply(i).clock = now /\ reply(i).version = v
    <3>1. w[i] \in Rows
      BY <2>1
    <3>2. rows[w[i]] \in SUBSET Updates
      BY <1>1, <3>1 DEF Logs
    <3>3. reply(i) \in RowReplyMsgs
      BY <1>1, <3>1, <3>2, RowReplyMsgType
    <3>. QED
      BY <3>3 DEF RowReplyMsg
  <2> HIDE DEF reply
  <2>3. replies \in Seq(RowReplyMsgs) /\ Len(replies) = Len(w)
    BY <2>1, <2>2
  <2>4. \A i \in 1 .. Len(w) : replies[i] = reply(i)
    BY <2>1
  <2> HIDE DEF replies
  <2>. QED
    BY <2>2, <2>3, <2>4
<1>4. /\ pushes \in Seq(PushedMsgs) /\ Len(pushes) \in 1 .. 2
      /\ \A i \in 1 .. Len(pushes) :
           /\ pushes[i].clock = now /\ pushes[i].version = v
           /\ pushes[i].seq = pushSent[s][d] + i
  BY <1>1, PushedAre DEF v
<1>5. a \in AckMsgs /\ a.version = m.version
  BY <1>1 DEF AckMsgs, OpLogMsgs
<1> HIDE DEF replies, pushes, a
<1>6. /\ OpLogPushes(c, s, d) \in Seq(PushedMsgs)
      /\ Len(OpLogPushes(c, s, d)) \in Nat
      /\ \A i \in 1 .. Len(OpLogPushes(c, s, d)) :
           /\ OpLogPushes(c, s, d)[i].clock = now
           /\ OpLogPushes(c, s, d)[i].version = v
           /\ OpLogPushes(c, s, d)[i].seq = pushSent[s][d] + i
  <2>1. CASE OpLogPush(c, s)
    BY <1>2, <1>4, <2>1
  <2>2. CASE ~OpLogPush(c, s)
    BY <1>2, <2>2
  <2>. QED
    BY <2>1, <2>2
<1>7. /\ OpLogAcks(c, s, d) \in Seq(AckMsgs)
      /\ \A i \in 1 .. Len(OpLogAcks(c, s, d)) : OpLogAcks(c, s, d)[i].version = v
  <2>1. CASE d = c
    <3>1. OpLogAcks(c, s, d) = << a >> /\ a.version = v
      BY <1>2, <1>5, <2>1
    <3>. QED
      BY <1>5, <3>1
  <2>2. CASE d # c
    BY <1>2, <2>2
  <2>. QED
    BY <2>1, <2>2
<1>. QED
  BY <1>2, <1>3, <1>6, <1>7 DEF now, v

LEMMA PushServerOpLogType ==
  ASSUME PushTypeOK, NEW c \in Clients, NEW s \in Servers, PushServerOpLog(c, s)
  PROVE  PushTypeOK'
<1> USE DEF PushTypeOK
<1> DEFINE m == Head(toServer[c][s])
           out == [d \in Clients |-> toClient[s][d] \o OpLogReplies(c, s, d)
                     \o OpLogPushes(c, s, d) \o OpLogAcks(c, s, d)]
           count == [d \in Clients |-> pushSent[s][d] + Len(OpLogPushes(c, s, d))]
           left == [d \in Clients |-> [queued[s][d] EXCEPT ![OpLogNow(c, s)] = << >>]]
<1>1. /\ toServer[c][s] # << >> /\ m.type = "OpLog"
      /\ toServer' = [toServer EXCEPT ![c][s] = Tail(@)]
      /\ UNCHANGED <<appVars, clientVars, bgVars, toBg, made, pushClientVars>>
  BY PushServerOpLogIs
<1>2. \/ UNCHANGED <<data, sClock, sVersion, queued, toClient, twice, pushServerVars>>
      \/ /\ data'     = OpLogRows(c, s)
         /\ twice'    = twice \cup UNION { data[r] \cap m.log[r] : r \in Rows }
         /\ sVersion' = [sVersion EXCEPT ![s] = OpLogVers(c, s)]
         /\ sClock'   = [sClock EXCEPT ![s] = OpLogClocks(c, s)]
         /\ \/ UNCHANGED queued
            \/ queued' = [queued EXCEPT ![s] = left]
         /\ subscribed' = OpLogSubs(c, s)
         /\ changed' \in SUBSET OpLogDirty(c, s)
         /\ pendingPush' \in [Servers -> BOOLEAN]
         /\ toClient' = [toClient EXCEPT ![s] = out]
         /\ pushSent' = [pushSent EXCEPT ![s] = count]
         /\ UNCHANGED pushAcked
  <2>1. pendingPush' = [pendingPush EXCEPT ![s] =
                          @ \/ (OpLogMoved(c, s) /\ ~OpLogPush(c, s))]
          => pendingPush' \in [Servers -> BOOLEAN]
    BY Zenon DEF PushTypeServer
  <2>2. changed' = (IF OpLogPush(c, s)
                    THEN ResetDirty(s, OpLogSubs(c, s), OpLogDirty(c, s))
                    ELSE OpLogDirty(c, s))
          => changed' \in SUBSET OpLogDirty(c, s)
    BY DEF ResetDirty
  <2>. QED
    BY <2>1, <2>2, PushServerOpLogIs
<1>3. Tail(toServer[c][s]) \in Seq(PushToServerMsgs)
  BY <1>1, PushHeadToServer
<1>4. /\ m \in OpLogMsgs
      /\ OpLogClocks(c, s) \in [Clients -> Nat]
      /\ OpLogRows(c, s) \in Logs
      /\ OpLogVers(c, s) \in [Clients -> Versions]
      /\ OpLogSubs(c, s) \in [Rows -> SUBSET Clients]
      /\ OpLogDirty(c, s) \in SUBSET Rows
  BY <1>1, OpLogTypes
<1>5. out \in [Clients -> Seq(PushToClientMsgs)] /\ count \in [Clients -> Nat]
  <2>1. SUFFICES ASSUME NEW d \in Clients
                 PROVE  /\ toClient[s][d] \o OpLogReplies(c, s, d)
                             \o OpLogPushes(c, s, d) \o OpLogAcks(c, s, d)
                               \in Seq(PushToClientMsgs)
                        /\ pushSent[s][d] + Len(OpLogPushes(c, s, d)) \in Nat
    OBVIOUS
  <2>2. /\ OpLogReplies(c, s, d) \in Seq(RowReplyMsgs)
        /\ OpLogPushes(c, s, d) \in Seq(PushedMsgs)
        /\ Len(OpLogPushes(c, s, d)) \in Nat
        /\ OpLogAcks(c, s, d) \in Seq(AckMsgs)
    BY <1>1, OpLogSendsAre
  <2>3. /\ toClient[s][d] \in Seq(PushToClientMsgs)
        /\ OpLogReplies(c, s, d) \in Seq(PushToClientMsgs)
        /\ OpLogPushes(c, s, d) \in Seq(PushToClientMsgs)
        /\ OpLogAcks(c, s, d) \in Seq(PushToClientMsgs)
    BY <2>2 DEF PushTypeNet, PushToClientMsgs
  <2>4. pushSent[s][d] \in Nat
    BY DEF PushTypeServer
  <2>. QED
    BY <2>2, <2>3, <2>4, ConcatProperties
<1>6. left \in [Clients -> [Clocks -> Seq(Rows)]]
  <2>1. ASSUME NEW d \in Clients
        PROVE  [queued[s][d] EXCEPT ![OpLogNow(c, s)] = << >>] \in [Clocks -> Seq(Rows)]
    <3>1. queued[s][d] \in [Clocks -> Seq(Rows)] /\ << >> \in Seq(Rows)
      BY DEF TypeServer
    <3>. QED
      BY <3>1
  <2>. QED
    BY <2>1
<1> HIDE DEF m, out, count, left
<1>7. TypeServer'
  <2>1. queued' \in [Servers -> [Clients -> [Clocks -> Seq(Rows)]]]
    BY <1>2, <1>6 DEF TypeServer
  <2>2. CASE UNCHANGED <<data, sClock, sVersion>>
    BY <2>1, <2>2 DEF TypeServer
  <2>3. CASE /\ data' = OpLogRows(c, s)
             /\ sVersion' = [sVersion EXCEPT ![s] = OpLogVers(c, s)]
             /\ sClock' = [sClock EXCEPT ![s] = OpLogClocks(c, s)]
    BY <1>4, <2>1, <2>3 DEF TypeServer
  <2>. QED
    BY <1>2, <2>2, <2>3
<1>8. PushTypeServer'
  <2>1. CASE UNCHANGED pushServerVars
    BY <2>1 DEF PushTypeServer, pushServerVars
  <2>2. CASE /\ subscribed' = OpLogSubs(c, s)
             /\ changed' \in SUBSET OpLogDirty(c, s)
             /\ pendingPush' \in [Servers -> BOOLEAN]
             /\ pushSent' = [pushSent EXCEPT ![s] = count]
             /\ UNCHANGED pushAcked
    BY <1>4, <1>5, <2>2 DEF PushTypeServer
  <2>. QED
    BY <1>2, <2>1, <2>2
<1>9. PushTypeNet'
  <2>1. toClient' \in [Servers -> [Clients -> Seq(PushToClientMsgs)]]
    BY <1>2, <1>5 DEF PushTypeNet
  <2>. QED
    BY <1>1, <1>3, <2>1 DEF PushTypeNet
<1>10. TypeHistory'
  <2>1. UNION { data[r] \cap m.log[r] : r \in Rows } \in SUBSET Updates
    BY DEF TypeServer, Logs
  <2>. QED
    BY <1>1, <1>2, <2>1 DEF TypeHistory
<1>. QED
  BY <1>1, <1>7, <1>8, <1>9, <1>10 DEF PushTypeApp, TypeClient, TypeBg, PushTypeBg,
     appVars, clientVars, bgVars, pushClientVars

LEMMA PushStepType == PushTypeOK /\ PushStep => PushTypeOK'
<1>1. SUFFICES ASSUME PushTypeOK, PushStep PROVE PushTypeOK'
  OBVIOUS
<1>2. Writers \subseteq Threads /\ Readers \subseteq Threads
  BY SSPAssumption
<1>3. ASSUME NEW t \in Threads, NEW r \in Rows, PushInc(t, r)
      PROVE  PushTypeOK'
  BY <1>1, <1>3, PushIncType
<1>4. ASSUME NEW t \in Threads, NEW r \in Rows, PushGet(t, r) \/ PushGetBlock(t, r)
      PROVE  PushTypeOK'
  BY <1>1, <1>4, PushGetType
<1>5. ASSUME NEW t \in Threads, PushGetUnblock(t) \/ PushGetResume(t)
      PROVE  PushTypeOK'
  BY <1>1, <1>5, PushGetType
<1>6. ASSUME NEW t \in Threads, \/ PushClockFlush(t) \/ PushClockTick(t)
                                \/ PushBgBatch(t) \/ PushBgRowRequest(t)
      PROVE  PushTypeOK'
  BY <1>1, <1>6, PushClockType, PushBgBatchType, PushBgRowRequestType
<1>7. ASSUME NEW c \in Clients, NEW r \in Rows, PushEvict(c, r)
      PROVE  PushTypeOK'
  BY <1>1, <1>7, PushEvictType
<1>8. ASSUME NEW c \in Clients, NEW s \in Servers,
             PushBgOpLogAck(s, c) \/ PushBgRowReply(s, c) \/ PushBgRows(s, c)
      PROVE  PushTypeOK'
  BY <1>1, <1>8, PushBgOpLogAckType, PushBgRowReplyType, PushBgRowsType
<1>9. ASSUME NEW c \in Clients, NEW s \in Servers,
             PushServerRowRequest(c, s) \/ PushServerOpLog(c, s) \/ ServerPushAck(c, s)
      PROVE  PushTypeOK'
  BY <1>1, <1>9, PushServerRowRequestType, PushServerOpLogType, ServerPushAckType
<1>. QED
  BY <1>1, <1>2, <1>3, <1>4, <1>5, <1>6, <1>7, <1>8, <1>9 DEF PushStep

LEMMA PushStutterType == PushTypeOK /\ UNCHANGED pushVars => PushTypeOK'
BY DEF PushTypeOK, PushTypeApp, TypeClient, TypeBg, PushTypeBg, TypeServer,
       PushTypeServer, PushTypeNet, TypeHistory, pushVars, vars, appVars, clientVars,
       bgVars, serverVars, netVars, histVars, pushClientVars, pushServerVars

(* Types under SSPPush, for every configuration: what each variable holds, *)
(* and what each channel carries in either direction.                      *)
THEOREM PushTypeCorrect == PushSpec => []PushTypeOK
<1>1. PushTypeOK /\ [PushNext]_pushVars => PushTypeOK'
  BY PushStepType, PushStutterType DEF PushNext, PushRest
<1>. QED
  BY InitPushType, <1>1, PTL DEF PushSpec
-----------------------------------------------------------------------------
(* Channels.                                                               *)

LEMMA RangeConcat ==
  ASSUME NEW S, NEW q \in Seq(S), NEW e \in Seq(S)
  PROVE  Range(q \o e) = Range(q) \cup Range(e)
<1> DEFINE p == q \o e
           n == Len(q)
<1>1. /\ n \in Nat /\ Len(e) \in Nat /\ Len(p) = n + Len(e) /\ p \in Seq(S)
      /\ \A i \in 1 .. n + Len(e) : p[i] = IF i <= n THEN q[i] ELSE e[i - n]
  BY ConcatProperties
<1> HIDE DEF p
<1>2. DOMAIN p = 1 .. Len(p) /\ DOMAIN q = 1 .. n /\ DOMAIN e = 1 .. Len(e)
  BY <1>1
<1> HIDE DEF n
<1>3. \A i \in 1 .. Len(p) : i \notin 1 .. n => i - n \in 1 .. Len(e) /\ p[i] = e[i - n]
  BY <1>1
<1>4. \A i \in 1 .. n : i \in 1 .. Len(p) /\ p[i] = q[i]
  BY <1>1
<1>5. \A i \in 1 .. Len(e) : n + i \in 1 .. Len(p) /\ p[n + i] = e[i]
  BY <1>1
<1>6. /\ Range(p) = { p[i] : i \in 1 .. Len(p) }
      /\ Range(q) = { q[i] : i \in 1 .. n } /\ Range(e) = { e[i] : i \in 1 .. Len(e) }
  BY <1>2 DEF Range
<1>7. /\ \A i \in 1 .. Len(p) : p[i] \in Range(q) \/ p[i] \in Range(e)
      /\ \A i \in 1 .. n : q[i] \in Range(p)
      /\ \A i \in 1 .. Len(e) : e[i] \in Range(p)
  BY <1>3, <1>4, <1>5, <1>6
<1>. QED
  BY <1>6, <1>7 DEF p

LEMMA RangeTail ==
  ASSUME NEW S, NEW q \in Seq(S), q # << >>
  PROVE  Range(q) = Range(Tail(q)) \cup {Head(q)}
<1> DEFINE p == Tail(q)
<1>1. /\ p \in Seq(S) /\ Len(q) \in Nat \ {0} /\ Len(p) = Len(q) - 1
      /\ \A i \in 1 .. Len(p) : p[i] = q[i + 1]
      /\ Head(q) = q[1]
  BY HeadTailProperties
<1> HIDE DEF p
<1>2. /\ \A i \in 1 .. Len(p) : i + 1 \in 1 .. Len(q)
      /\ \A i \in 1 .. Len(q) : i = 1 \/ (i - 1 \in 1 .. Len(p) /\ q[i] = p[i - 1])
      /\ 1 \in 1 .. Len(q)
      /\ DOMAIN p = 1 .. Len(p) /\ DOMAIN q = 1 .. Len(q)
  BY <1>1
<1>3. Range(p) = { p[i] : i \in 1 .. Len(p) } /\ Range(q) = { q[i] : i \in 1 .. Len(q) }
  BY <1>2 DEF Range
<1>4. /\ \A i \in 1 .. Len(p) : p[i] \in Range(q)
      /\ \A i \in 1 .. Len(q) : q[i] \in Range(p) \/ q[i] = Head(q)
      /\ Head(q) \in Range(q)
  BY <1>1, <1>2, <1>3
<1>. QED
  BY <1>3, <1>4 DEF p

LEMMA RangeOne ==
  ASSUME NEW S, NEW m \in S
  PROVE  << m >> \in Seq(S) /\ Range(<< m >>) = {m}
BY DEF Range

LEMMA RangeElements ==
  ASSUME NEW S, NEW q \in Seq(S)
  PROVE  /\ Range(q) \subseteq S
         /\ \A i \in 1 .. Len(q) : q[i] \in Range(q)
         /\ \A x \in Range(q) : \E i \in 1 .. Len(q) : x = q[i]
<1>1. DOMAIN q = 1 .. Len(q)
  OBVIOUS
<1>. QED
  BY <1>1, ElementOfSeq DEF Range

(* The versions in a channel, from lo to hi and never falling.             *)
Rising(q, lo, hi) ==
  /\ \A i \in 1 .. Len(q) : lo <= q[i].version /\ q[i].version <= hi
  /\ \A i, j \in 1 .. Len(q) : i < j => q[i].version <= q[j].version

LEMMA RisingTail ==
  ASSUME NEW S, NEW q \in Seq(S), q # << >>, \A x \in S : x.version \in Int,
         NEW lo \in Int, NEW hi \in Int, Rising(q, lo, hi)
  PROVE  /\ Rising(Tail(q), Head(q).version, hi)
         /\ lo <= Head(q).version /\ Head(q).version <= hi
<1> DEFINE p == Tail(q)
<1>1. /\ p \in Seq(S) /\ Len(q) \in Nat \ {0} /\ Len(p) = Len(q) - 1
      /\ \A i \in 1 .. Len(p) : p[i] = q[i + 1]
      /\ Head(q) = q[1]
  BY HeadTailProperties
<1> HIDE DEF p
<1>2. /\ \A i \in 1 .. Len(p) : i + 1 \in 1 .. Len(q) /\ 1 < i + 1
      /\ \A i, j \in 1 .. Len(p) : i < j => i + 1 < j + 1
      /\ 1 \in 1 .. Len(q)
  BY <1>1
<1>. QED
  BY <1>1, <1>2 DEF Rising, p

LEMMA RisingConcat ==
  ASSUME NEW S, NEW q \in Seq(S), NEW e \in Seq(S), \A x \in S : x.version \in Int,
         NEW lo \in Int, NEW hi \in Int, NEW v \in Int, Rising(q, lo, hi), lo <= hi, hi <= v,
         \A x \in Range(e) : x.version = v
  PROVE  Rising(q \o e, lo, v)
<1> DEFINE p == q \o e
           n == Len(q)
<1>1. /\ n \in Nat /\ Len(e) \in Nat /\ Len(p) = n + Len(e) /\ p \in Seq(S)
      /\ \A i \in 1 .. n + Len(e) : p[i] = IF i <= n THEN q[i] ELSE e[i - n]
  BY ConcatProperties
<1>2. /\ \A i \in 1 .. n : q[i] \in S
      /\ \A i \in 1 .. Len(e) : e[i].version = v
  BY RangeElements, ElementOfSeq
<1>3. /\ \A i \in 1 .. n : lo <= q[i].version /\ q[i].version <= hi
      /\ \A i, j \in 1 .. n : i < j => q[i].version <= q[j].version
  BY DEF Rising
<1> HIDE DEF p, n
<1>4. ASSUME NEW i \in 1 .. Len(p)
      PROVE  \/ i \in 1 .. n /\ p[i] = q[i]
             \/ i > n /\ p[i].version = v
  <2>1. CASE i <= n
    BY <1>1, <2>1
  <2>2. CASE i > n
    <3>1. i - n \in 1 .. Len(e) /\ p[i] = e[i - n]
      BY <1>1, <2>2
    <3>. QED
      BY <1>2, <2>2, <3>1
  <2>. QED
    BY <1>1, <2>1, <2>2
<1>5. ASSUME NEW i \in 1 .. Len(p)
      PROVE  lo <= p[i].version /\ p[i].version <= v /\ p[i].version \in Int
  BY <1>2, <1>3, <1>4
<1>6. ASSUME NEW i \in 1 .. Len(p), NEW j \in 1 .. Len(p), i < j
      PROVE  p[i].version <= p[j].version
  <2>1. CASE j > n /\ p[j].version = v
    BY <1>5, <2>1
  <2>2. CASE j \in 1 .. n /\ p[j] = q[j]
    <3>1. i \in 1 .. n /\ p[i] = q[i]
      BY <1>1, <1>4, <1>6, <2>2
    <3>. QED
      BY <1>3, <1>6, <2>2, <3>1
  <2>. QED
    BY <1>4, <2>1, <2>2
<1>. QED
  BY <1>5, <1>6 DEF Rising, p

(* The same of the clocks that the answers and the pushes carry.           *)
RisingClock(q, lo, hi) ==
  /\ \A i \in 1 .. Len(q) :
       q[i].type # "OpLogAck" => lo <= q[i].clock /\ q[i].clock <= hi
  /\ \A i, j \in 1 .. Len(q) :
       i < j /\ q[i].type # "OpLogAck" /\ q[j].type # "OpLogAck" => q[i].clock <= q[j].clock

LEMMA RisingClockTail ==
  ASSUME NEW S, NEW q \in Seq(S), q # << >>,
         \A x \in S : x.type # "OpLogAck" => x.clock \in Int,
         NEW lo \in Int, NEW hi \in Int, RisingClock(q, lo, hi)
  PROVE  /\ RisingClock(Tail(q), lo, hi)
         /\ Head(q).type # "OpLogAck" =>
              /\ RisingClock(Tail(q), Head(q).clock, hi)
              /\ lo <= Head(q).clock /\ Head(q).clock <= hi
<1> DEFINE p == Tail(q)
<1>1. /\ p \in Seq(S) /\ Len(q) \in Nat \ {0} /\ Len(p) = Len(q) - 1
      /\ \A i \in 1 .. Len(p) : p[i] = q[i + 1]
      /\ Head(q) = q[1]
  BY HeadTailProperties
<1> HIDE DEF p
<1>2. /\ \A i \in 1 .. Len(p) : i + 1 \in 1 .. Len(q) /\ 1 < i + 1
      /\ \A i, j \in 1 .. Len(p) : i < j => i + 1 < j + 1
      /\ 1 \in 1 .. Len(q)
  BY <1>1
<1>. QED
  BY <1>1, <1>2 DEF RisingClock, p

LEMMA RisingClockConcat ==
  ASSUME NEW S, NEW q \in Seq(S), NEW e \in Seq(S),
         \A x \in S : x.type # "OpLogAck" => x.clock \in Int,
         NEW lo \in Int, NEW hi \in Int, NEW k \in Int, RisingClock(q, lo, hi),
         lo <= hi, hi <= k,
         \A x \in Range(e) : x.type # "OpLogAck" => x.clock = k
  PROVE  RisingClock(q \o e, lo, k)
<1> DEFINE p == q \o e
           n == Len(q)
<1>1. /\ n \in Nat /\ Len(e) \in Nat /\ Len(p) = n + Len(e) /\ p \in Seq(S)
      /\ \A i \in 1 .. n + Len(e) : p[i] = IF i <= n THEN q[i] ELSE e[i - n]
  BY ConcatProperties
<1>2. /\ \A i \in 1 .. n : q[i] \in S
      /\ \A i \in 1 .. Len(e) : e[i].type # "OpLogAck" => e[i].clock = k
  BY RangeElements, ElementOfSeq
<1>3. /\ \A i \in 1 .. n : q[i].type # "OpLogAck" => lo <= q[i].clock /\ q[i].clock <= hi
      /\ \A i, j \in 1 .. n :
           i < j /\ q[i].type # "OpLogAck" /\ q[j].type # "OpLogAck"
             => q[i].clock <= q[j].clock
  BY DEF RisingClock
<1> HIDE DEF p, n
<1>4. ASSUME NEW i \in 1 .. Len(p)
      PROVE  \/ i \in 1 .. n /\ p[i] = q[i]
             \/ i > n /\ (p[i].type # "OpLogAck" => p[i].clock = k)
  <2>1. CASE i <= n
    BY <1>1, <2>1
  <2>2. CASE i > n
    <3>1. i - n \in 1 .. Len(e) /\ p[i] = e[i - n]
      BY <1>1, <2>2
    <3>. QED
      BY <1>2, <2>2, <3>1
  <2>. QED
    BY <1>1, <2>1, <2>2
<1>5. ASSUME NEW i \in 1 .. Len(p), p[i].type # "OpLogAck"
      PROVE  lo <= p[i].clock /\ p[i].clock <= k /\ p[i].clock \in Int
  BY <1>2, <1>3, <1>4, <1>5
<1>6. ASSUME NEW i \in 1 .. Len(p), NEW j \in 1 .. Len(p), i < j,
             p[i].type # "OpLogAck", p[j].type # "OpLogAck"
      PROVE  p[i].clock <= p[j].clock
  <2>1. CASE j > n /\ p[j].clock = k
    BY <1>5, <1>6, <2>1
  <2>2. CASE j \in 1 .. n /\ p[j] = q[j]
    <3>1. i \in 1 .. n /\ p[i] = q[i]
      BY <1>1, <1>4, <1>6, <2>2
    <3>. QED
      BY <1>3, <1>6, <2>2, <3>1
  <2>. QED
    BY <1>4, <1>6, <2>1, <2>2
<1>. QED
  BY <1>5, <1>6 DEF RisingClock, p

LEMMA PushMsgFields ==
  /\ \A x \in PushToClientMsgs :
       /\ x.version \in Int
       /\ x.type # "OpLogAck" => x.clock \in Int
       /\ x.type \in {"RowReply", "OpLogAck", "PushRow"}
       /\ x.type = "RowReply" => x \in RowReplyMsgs
       /\ x.type = "OpLogAck" => x \in AckMsgs
       /\ x.type = "PushRow" => x \in PushedMsgs
  /\ \A x \in PushToServerMsgs :
       /\ x.type \in {"RowRequest", "OpLog", "PushAck"}
       /\ x.type = "RowRequest" => x \in RowRequestMsgs
       /\ x.type = "OpLog" => x \in OpLogMsgs
       /\ x.type = "PushAck" => x \in PushAckMsgs
BY DEF PushToClientMsgs, PushToServerMsgs, RowReplyMsgs, AckMsgs, PushedMsgs,
       RowRequestMsgs, OpLogMsgs, PushAckMsgs, Versions
-----------------------------------------------------------------------------
(* What a server sends the clients in one step: messages with the versions *)
(* and the clock it now has, and every push that it now counts as sent.    *)
Sends(s, out) ==
  /\ out \in [Clients -> Seq(PushToClientMsgs)]
  /\ toClient' = [toClient EXCEPT ![s] = [d \in Clients |-> toClient[s][d] \o out[d]]]
  /\ \A d \in Clients :
       /\ \A x \in Range(out[d]) :
            /\ x.version = sVersion'[s][d]
            /\ x.type # "OpLogAck" => x.clock = MinClock(sClock'[s])
       /\ pushSent[s][d] <= pushSent'[s][d]
       /\ \A n \in Nat : pushSent[s][d] < n /\ n <= pushSent'[s][d] =>
            \E x \in Range(out[d]) : x.type = "PushRow" /\ x.seq = n
  /\ \A i \in Servers : i # s => pushSent'[i] = pushSent[i]

LEMMA PushServerRowRequestSends ==
  ASSUME PushTypeOK, NEW c \in Clients, NEW s \in Servers, PushServerRowRequest(c, s)
  PROVE  \E out : Sends(s, out)
<1> USE DEF PushTypeOK
<1> DEFINE m     == Head(toServer[c][s])
           now   == MinClock(sClock[s])
           reply == RowReplyMsg(m.row, now, sVersion[s][c], data[m.row])
           answer == [d \in Clients |-> IF d = c THEN << reply >> ELSE << >>]
           silent == [d \in Clients |-> << >>]
<1>1. /\ UNCHANGED <<sClock, sVersion, pushSent>>
      /\ \/ UNCHANGED toClient
         \/ toClient' = [toClient EXCEPT ![s][c] = Append(@, reply)]
  BY DEF PushServerRowRequest, ServerRowRequest
<1>2. reply \in PushToClientMsgs /\ reply.version = sVersion[s][c] /\ reply.clock = now
  <2>1. /\ toServer[c][s] # << >> /\ m.type = "RowRequest"
    BY DEF PushServerRowRequest, ServerRowRequest
  <2>2. m \in RowRequestMsgs
    BY <2>1, PushHeadToServer, PushMsgFields
  <2>3. m.row \in Rows /\ now \in Nat
    BY <2>2, MinClockType DEF RowRequestMsgs, TypeServer
  <2>4. reply \in RowReplyMsgs
    BY <2>3, RowReplyMsgType DEF TypeServer, Logs
  <2>. QED
    BY <2>4 DEF PushToClientMsgs, RowReplyMsg
<1>3. toClient \in [Servers -> [Clients -> Seq(PushToClientMsgs)]]
  BY DEF PushTypeNet
<1>4. pushSent \in [Servers -> [Clients -> Nat]]
  BY DEF PushTypeServer
<1>5. MinClock(sClock'[s]) = now /\ \A d \in Clients : sVersion'[s][d] = sVersion[s][d]
  BY <1>1
<1> HIDE DEF reply, now
<1>6. CASE UNCHANGED toClient
  <2>1. /\ silent \in [Clients -> Seq(PushToClientMsgs)]
        /\ \A d \in Clients : Range(silent[d]) = {}
    BY DEF Range
  <2>2. toClient' = [toClient EXCEPT ![s] = [d \in Clients |-> toClient[s][d] \o silent[d]]]
    <3>1. \A d \in Clients : toClient[s][d] \o silent[d] = toClient[s][d]
      BY <1>3
    <3> HIDE DEF silent
    <3>2. [d \in Clients |-> toClient[s][d] \o silent[d]] = toClient[s]
      BY <1>3, <3>1
    <3>. QED
      BY <1>3, <1>6, <3>2
  <2> HIDE DEF silent
  <2>3. Sends(s, silent)
    BY <1>1, <1>4, <2>1, <2>2 DEF Sends
  <2>. QED
    BY <2>3
<1>7. CASE toClient' = [toClient EXCEPT ![s][c] = Append(@, reply)]
  <2>1. /\ answer \in [Clients -> Seq(PushToClientMsgs)]
        /\ Range(answer[c]) = {reply}
        /\ \A d \in Clients : d # c => Range(answer[d]) = {}
    <3>1. << reply >> \in Seq(PushToClientMsgs) /\ Range(<< reply >>) = {reply}
      BY <1>2, RangeOne
    <3>. QED
      BY <3>1 DEF Range
  <2>2. toClient' = [toClient EXCEPT ![s] = [d \in Clients |-> toClient[s][d] \o answer[d]]]
    <3>1. ASSUME NEW d \in Clients
          PROVE  toClient[s][d] \o answer[d] = IF d = c THEN Append(toClient[s][c], reply)
                                               ELSE toClient[s][d]
      <4>1. toClient[s][d] \in Seq(PushToClientMsgs)
        BY <1>3
      <4> DEFINE q == toClient[s][d]
      <4> HIDE DEF q
      <4>2. q \o << reply >> = Append(q, reply) /\ q \o << >> = q
        BY <1>2, <4>1 DEF q
      <4>3. CASE d = c
        BY <4>2, <4>3 DEF q
      <4>4. CASE d # c
        BY <4>2, <4>4 DEF q
      <4>. QED
        BY <4>3, <4>4
    <3> HIDE DEF answer
    <3>2. [d \in Clients |-> toClient[s][d] \o answer[d]]
            = [toClient[s] EXCEPT ![c] = Append(toClient[s][c], reply)]
      BY <1>3, <3>1
    <3>. QED
      BY <1>3, <1>7, <3>2
  <2> HIDE DEF answer
  <2>3. \A d \in Clients : \A x \in Range(answer[d]) : d = c /\ x = reply
    BY <2>1
  <2>4. Sends(s, answer)
    BY <1>1, <1>2, <1>4, <1>5, <2>1, <2>2, <2>3 DEF Sends
  <2>. QED
    BY <2>4
<1>. QED
  BY <1>1, <1>6, <1>7

LEMMA PushServerOpLogSends ==
  ASSUME PushTypeOK, NEW c \in Clients, NEW s \in Servers, PushServerOpLog(c, s), Running'
  PROVE  \E out : Sends(s, out)
<1> USE DEF PushTypeOK
<1> DEFINE part(d) == OpLogReplies(c, s, d) \o OpLogPushes(c, s, d)
           msgs(d) == part(d) \o OpLogAcks(c, s, d)
           out     == [d \in Clients |-> msgs(d)]
           now     == OpLogNow(c, s)
<1>1. /\ toServer[c][s] # << >> /\ Head(toServer[c][s]).type = "OpLog"
      /\ sVersion' = [sVersion EXCEPT ![s] = OpLogVers(c, s)]
      /\ sClock'   = [sClock EXCEPT ![s] = OpLogClocks(c, s)]
      /\ toClient' = [toClient EXCEPT ![s] = [d \in Clients |->
                        toClient[s][d] \o OpLogReplies(c, s, d) \o OpLogPushes(c, s, d)
                          \o OpLogAcks(c, s, d)]]
      /\ pushSent' = [pushSent EXCEPT ![s] = [d \in Clients |->
                        pushSent[s][d] + Len(OpLogPushes(c, s, d))]]
  BY PushServerOpLogIs DEF Running
<1>2. /\ sVersion'[s] = OpLogVers(c, s) /\ MinClock(sClock'[s]) = now
      /\ \A d \in Clients : pushSent'[s][d] = pushSent[s][d] + Len(OpLogPushes(c, s, d))
      /\ \A i \in Servers : i # s => pushSent'[i] = pushSent[i]
  BY <1>1 DEF TypeServer, PushTypeServer, OpLogNow
<1>3. ASSUME NEW d \in Clients
      PROVE  /\ msgs(d) \in Seq(PushToClientMsgs)
             /\ toClient[s][d] \o OpLogReplies(c, s, d) \o OpLogPushes(c, s, d)
                  \o OpLogAcks(c, s, d) = toClient[s][d] \o msgs(d)
             /\ Range(msgs(d)) = Range(OpLogReplies(c, s, d)) \cup Range(OpLogPushes(c, s, d))
                                   \cup Range(OpLogAcks(c, s, d))
             /\ \A x \in Range(msgs(d)) :
                  /\ x.version = OpLogVers(c, s)[d]
                  /\ x.type # "OpLogAck" => x.clock = now
             /\ \A n \in Nat :
                  pushSent[s][d] < n /\ n <= pushSent[s][d] + Len(OpLogPushes(c, s, d)) =>
                    \E x \in Range(msgs(d)) : x.type = "PushRow" /\ x.seq = n
             /\ pushSent[s][d] \in Nat /\ Len(OpLogPushes(c, s, d)) \in Nat
  <2> DEFINE r == OpLogReplies(c, s, d)
             p == OpLogPushes(c, s, d)
             a == OpLogAcks(c, s, d)
             v == OpLogVers(c, s)[d]
             q == toClient[s][d]
  <2>1. /\ r \in Seq(RowReplyMsgs)
        /\ \A i \in 1 .. Len(r) : r[i].clock = now /\ r[i].version = v
        /\ p \in Seq(PushedMsgs) /\ Len(p) \in Nat
        /\ \A i \in 1 .. Len(p) : /\ p[i].clock = now /\ p[i].version = v
                                  /\ p[i].seq = pushSent[s][d] + i
        /\ a \in Seq(AckMsgs)
        /\ \A i \in 1 .. Len(a) : a[i].version = v
    BY <1>1, OpLogSendsAre
  <2>2. q \in Seq(PushToClientMsgs) /\ pushSent[s][d] \in Nat
    BY DEF PushTypeNet, PushTypeServer
  <2> HIDE DEF r, p, a, v, now, q
  <2>3. /\ r \in Seq(PushToClientMsgs) /\ p \in Seq(PushToClientMsgs)
        /\ a \in Seq(PushToClientMsgs)
    BY <2>1 DEF PushToClientMsgs
  <2>4. /\ r \o p \in Seq(PushToClientMsgs) /\ (r \o p) \o a \in Seq(PushToClientMsgs)
        /\ ((q \o r) \o p) \o a = q \o ((r \o p) \o a)
    BY <2>2, <2>3
  <2>5. Range((r \o p) \o a) = Range(r) \cup Range(p) \cup Range(a)
    <3>1. Range((r \o p) \o a) = Range(r \o p) \cup Range(a)
      <4> DEFINE b == r \o p
      <4>1. b \in Seq(PushToClientMsgs)
        BY <2>4
      <4> HIDE DEF b
      <4>2. Range(b \o a) = Range(b) \cup Range(a)
        BY <2>3, <4>1, RangeConcat
      <4>. QED
        BY <4>2 DEF b
    <3>2. Range(r \o p) = Range(r) \cup Range(p)
      BY <2>3, RangeConcat
    <3>. QED
      BY <3>1, <3>2
  <2>6. /\ \A x \in Range(r) : x.version = v /\ x.clock = now
        /\ \A x \in Range(p) : x.version = v /\ x.clock = now
        /\ \A x \in Range(a) : x.version = v /\ x.type = "OpLogAck"
    <3>1. \A x \in Range(a) : x \in AckMsgs
      BY <2>1, RangeElements
    <3>2. /\ \A x \in Range(r) : \E i \in 1 .. Len(r) : x = r[i]
          /\ \A x \in Range(p) : \E i \in 1 .. Len(p) : x = p[i]
          /\ \A x \in Range(a) : \E i \in 1 .. Len(a) : x = a[i]
      BY <2>3, RangeElements
    <3>3. \A x \in Range(r) : x.version = v /\ x.clock = now
      BY <2>1, <3>2
    <3>4. \A x \in Range(p) : x.version = v /\ x.clock = now
      BY <2>1, <3>2
    <3>5. \A x \in Range(a) : x.version = v
      BY <2>1, <3>2
    <3>6. \A x \in Range(a) : x.type = "OpLogAck"
      BY <3>1 DEF AckMsgs
    <3>. QED
      BY <3>3, <3>4, <3>5, <3>6
  <2>7. ASSUME NEW n \in Nat, pushSent[s][d] < n, n <= pushSent[s][d] + Len(p)
        PROVE  \E x \in Range(p) : x.type = "PushRow" /\ x.seq = n
    <3> DEFINE i == n - pushSent[s][d]
    <3>1. i \in 1 .. Len(p) /\ pushSent[s][d] + i = n
      BY <2>1, <2>2, <2>7
    <3> HIDE DEF i
    <3>2. p[i] \in Range(p) /\ p[i] \in PushedMsgs /\ p[i].seq = n
      BY <2>1, <3>1, RangeElements, ElementOfSeq
    <3>. QED
      BY <3>2 DEF PushedMsgs
  <2>8. msgs(d) = (r \o p) \o a
    BY DEF r, p, a
  <2>9. toClient[s][d] \o OpLogReplies(c, s, d) \o OpLogPushes(c, s, d)
          \o OpLogAcks(c, s, d) = ((q \o r) \o p) \o a
    BY DEF r, p, a, q
  <2>10. \A x \in Range((r \o p) \o a) :
           /\ x.version = v
           /\ x.type # "OpLogAck" => x.clock = now
    BY <2>5, <2>6
  <2>11. \A n \in Nat : pushSent[s][d] < n /\ n <= pushSent[s][d] + Len(p) =>
           \E x \in Range((r \o p) \o a) : x.type = "PushRow" /\ x.seq = n
    BY <2>5, <2>7
  <2> HIDE DEF msgs
  <2>. QED
    BY <2>1, <2>2, <2>4, <2>5, <2>8, <2>9, <2>10, <2>11 DEF r, p, a, v, q
<1> HIDE DEF msgs, now
<1>4. out \in [Clients -> Seq(PushToClientMsgs)] /\ \A d \in Clients : out[d] = msgs(d)
  BY <1>3
<1>5. toClient' = [toClient EXCEPT ![s] = [d \in Clients |-> toClient[s][d] \o out[d]]]
  BY <1>1, <1>3, <1>4
<1> HIDE DEF out
<1>6. \A d \in Clients :
        /\ \A x \in Range(out[d]) :
             /\ x.version = sVersion'[s][d]
             /\ x.type # "OpLogAck" => x.clock = MinClock(sClock'[s])
        /\ pushSent[s][d] <= pushSent'[s][d]
        /\ \A n \in Nat : pushSent[s][d] < n /\ n <= pushSent'[s][d] =>
             \E x \in Range(out[d]) : x.type = "PushRow" /\ x.seq = n
  <2>1. SUFFICES ASSUME NEW d \in Clients
                 PROVE  /\ \A x \in Range(msgs(d)) :
                             /\ x.version = sVersion'[s][d]
                             /\ x.type # "OpLogAck" => x.clock = MinClock(sClock'[s])
                        /\ pushSent[s][d] <= pushSent'[s][d]
                        /\ \A n \in Nat : pushSent[s][d] < n /\ n <= pushSent'[s][d] =>
                             \E x \in Range(msgs(d)) : x.type = "PushRow" /\ x.seq = n
    BY <1>4
  <2>2. /\ pushSent'[s][d] = pushSent[s][d] + Len(OpLogPushes(c, s, d))
        /\ sVersion'[s][d] = OpLogVers(c, s)[d] /\ MinClock(sClock'[s]) = now
    BY <1>2
  <2>3. pushSent[s][d] <= pushSent'[s][d]
    BY <1>3, <2>2
  <2>4. \A x \in Range(msgs(d)) :
          /\ x.version = sVersion'[s][d]
          /\ x.type # "OpLogAck" => x.clock = MinClock(sClock'[s])
    BY <1>3, <2>2, Zenon
  <2>5. \A n \in Nat : pushSent[s][d] < n /\ n <= pushSent'[s][d] =>
          \E x \in Range(msgs(d)) : x.type = "PushRow" /\ x.seq = n
    BY <1>3, <2>2
  <2>. QED
    BY <2>3, <2>4, <2>5
<1>7. Sends(s, out)
  BY <1>2, <1>4, <1>5, <1>6 DEF Sends
<1>. QED
  BY <1>7

LEMMA ServerPushAckSends ==
  ASSUME PushTypeOK, NEW c \in Clients, NEW s \in Servers, ServerPushAck(c, s), Running'
  PROVE  \E out : Sends(s, out)
<1> USE DEF PushTypeOK
<1> DEFINE ack  == [pushAcked[s] EXCEPT ![c] = Head(toServer[c][s]).seq]
           push == DuePush(s, ack)
           now  == MinClock(sClock[s])
           Pushes(d) == IF push THEN Pushed(s, d, data, now, sVersion[s], subscribed, changed)
                        ELSE << >>
           out  == [d \in Clients |-> Pushes(d)]
<1>1. /\ UNCHANGED <<sClock, sVersion>>
      /\ toClient' = [toClient EXCEPT ![s] = [d \in Clients |-> toClient[s][d] \o Pushes(d)]]
      /\ pushSent' = [pushSent EXCEPT ![s] = [d \in Clients |->
                        pushSent[s][d] + Len(Pushes(d))]]
  BY DEF ServerPushAck, Running, serverVars
<1>2. now \in Nat /\ data \in Logs /\ sVersion[s] \in [Clients -> Versions]
      /\ changed \in SUBSET Rows
  BY MinClockType DEF TypeServer, PushTypeServer
<1>3. /\ sVersion'[s] = sVersion[s] /\ MinClock(sClock'[s]) = now
      /\ \A d \in Clients : pushSent'[s][d] = pushSent[s][d] + Len(Pushes(d))
      /\ \A i \in Servers : i # s => pushSent'[i] = pushSent[i]
  BY <1>1 DEF PushTypeServer
<1> HIDE DEF now, push
<1>4. ASSUME NEW d \in Clients
      PROVE  /\ Pushes(d) \in Seq(PushToClientMsgs)
             /\ Len(Pushes(d)) \in Nat /\ pushSent[s][d] \in Nat
             /\ \A x \in Range(Pushes(d)) : x.version = sVersion[s][d] /\ x.clock = now
             /\ \A n \in Nat : pushSent[s][d] < n /\ n <= pushSent[s][d] + Len(Pushes(d)) =>
                  \E x \in Range(Pushes(d)) : x.type = "PushRow" /\ x.seq = n
  <2> DEFINE p == Pushes(d)
  <2>1. /\ p \in Seq(PushedMsgs) /\ Len(p) \in Nat
        /\ \A i \in 1 .. Len(p) : /\ p[i].clock = now /\ p[i].version = sVersion[s][d]
                                  /\ p[i].type = "PushRow" /\ p[i].seq = pushSent[s][d] + i
    <3> DEFINE full == Pushed(s, d, data, now, sVersion[s], subscribed, changed)
    <3>1. /\ full \in Seq(PushedMsgs) /\ Len(full) \in 1 .. 2
          /\ \A i \in 1 .. Len(full) :
               /\ full[i].clock = now /\ full[i].version = sVersion[s][d]
               /\ full[i].type = "PushRow" /\ full[i].seq = pushSent[s][d] + i
      BY <1>2, PushedAre
    <3>2. p = full \/ p = << >>
      OBVIOUS
    <3> HIDE DEF p, full
    <3>3. CASE p = full
      BY <3>1, <3>3
    <3>4. CASE p = << >>
      BY <3>4
    <3>. QED
      BY <3>2, <3>3, <3>4
  <2> HIDE DEF p
  <2>2. pushSent[s][d] \in Nat /\ p \in Seq(PushToClientMsgs)
    BY <2>1 DEF PushTypeServer, PushToClientMsgs
  <2>3. \A x \in Range(p) : \E i \in 1 .. Len(p) : x = p[i]
    BY <2>1, RangeElements
  <2>4. \A x \in Range(p) : x.version = sVersion[s][d] /\ x.clock = now
    BY <2>1, <2>3
  <2>5. ASSUME NEW n \in Nat, pushSent[s][d] < n, n <= pushSent[s][d] + Len(p)
        PROVE  \E x \in Range(p) : x.type = "PushRow" /\ x.seq = n
    <3> DEFINE i == n - pushSent[s][d]
    <3>1. i \in 1 .. Len(p) /\ pushSent[s][d] + i = n
      BY <2>1, <2>2, <2>5
    <3> HIDE DEF i
    <3>2. p[i] \in Range(p) /\ p[i].type = "PushRow" /\ p[i].seq = n
      BY <2>1, <3>1, RangeElements
    <3>. QED
      BY <3>2
  <2>. QED
    BY <2>1, <2>2, <2>4, <2>5 DEF p
<1> HIDE DEF Pushes
<1>5. out \in [Clients -> Seq(PushToClientMsgs)] /\ \A d \in Clients : out[d] = Pushes(d)
  BY <1>4
<1> HIDE DEF out
<1>6. toClient' = [toClient EXCEPT ![s] = [d \in Clients |-> toClient[s][d] \o out[d]]]
  BY <1>1, <1>5
<1>7. \A d \in Clients :
        /\ \A x \in Range(out[d]) :
             /\ x.version = sVersion'[s][d]
             /\ x.type # "OpLogAck" => x.clock = MinClock(sClock'[s])
        /\ pushSent[s][d] <= pushSent'[s][d]
        /\ \A n \in Nat : pushSent[s][d] < n /\ n <= pushSent'[s][d] =>
             \E x \in Range(out[d]) : x.type = "PushRow" /\ x.seq = n
  <2>1. SUFFICES ASSUME NEW d \in Clients
                 PROVE  /\ \A x \in Range(Pushes(d)) :
                             /\ x.version = sVersion'[s][d]
                             /\ x.type # "OpLogAck" => x.clock = MinClock(sClock'[s])
                        /\ pushSent[s][d] <= pushSent'[s][d]
                        /\ \A n \in Nat : pushSent[s][d] < n /\ n <= pushSent'[s][d] =>
                             \E x \in Range(Pushes(d)) : x.type = "PushRow" /\ x.seq = n
    BY <1>5
  <2>2. /\ pushSent'[s][d] = pushSent[s][d] + Len(Pushes(d))
        /\ sVersion'[s][d] = sVersion[s][d] /\ MinClock(sClock'[s]) = now
    BY <1>3
  <2>3. pushSent[s][d] <= pushSent'[s][d]
    BY <1>4, <2>2
  <2>4. \A x \in Range(Pushes(d)) :
          /\ x.version = sVersion'[s][d]
          /\ x.type # "OpLogAck" => x.clock = MinClock(sClock'[s])
    BY <1>4, <2>2, Zenon
  <2>5. \A n \in Nat : pushSent[s][d] < n /\ n <= pushSent'[s][d] =>
          \E x \in Range(Pushes(d)) : x.type = "PushRow" /\ x.seq = n
    BY <1>4, <2>2
  <2>. QED
    BY <2>3, <2>4, <2>5
<1>8. Sends(s, out)
  BY <1>3, <1>5, <1>6, <1>7 DEF Sends
<1>. QED
  BY <1>8

(* A step of the servers: the message it takes from a client, and what     *)
(* moves on.                                                               *)
FromServer(c, s) ==
  PushServerRowRequest(c, s) \/ PushServerOpLog(c, s) \/ ServerPushAck(c, s)

LEMMA FromServerIs ==
  ASSUME PushTypeOK, NEW c \in Clients, NEW s \in Servers, FromServer(c, s), Running'
  PROVE  /\ \E out : Sends(s, out)
         /\ toServer[c][s] # << >> /\ toServer' = [toServer EXCEPT ![c][s] = Tail(@)]
         /\ UNCHANGED <<appVars, clientVars, bgVars, toBg, made, pushClientVars>>
         /\ \A i \in Servers : \A d \in Clients :
              /\ sVersion'[i][d] >= sVersion[i][d]
              /\ sClock'[i][d] >= sClock[i][d]
<1> USE DEF PushTypeOK
<1>1. CASE PushServerRowRequest(c, s)
  <2>1. \E out : Sends(s, out)
    BY <1>1, PushServerRowRequestSends
  <2>2. /\ toServer[c][s] # << >> /\ toServer' = [toServer EXCEPT ![c][s] = Tail(@)]
        /\ UNCHANGED <<appVars, clientVars, bgVars, toBg, made, pushClientVars>>
        /\ UNCHANGED <<sVersion, sClock>>
    BY <1>1 DEF PushServerRowRequest, ServerRowRequest, histVars
  <2>3. ASSUME NEW i \in Servers, NEW d \in Clients
        PROVE  sVersion[i][d] >= sVersion[i][d] /\ sClock[i][d] >= sClock[i][d]
    <3>1. sVersion[i][d] \in Int /\ sClock[i][d] \in Int
      BY DEF TypeServer, Versions
    <3>. QED
      BY <3>1
  <2>. QED
    BY <2>1, <2>2, <2>3
<1>2. CASE PushServerOpLog(c, s)
  <2>1. \E out : Sends(s, out)
    BY <1>2, PushServerOpLogSends
  <2>2. /\ toServer[c][s] # << >> /\ toServer' = [toServer EXCEPT ![c][s] = Tail(@)]
        /\ Head(toServer[c][s]).type = "OpLog"
        /\ UNCHANGED <<appVars, clientVars, bgVars, toBg, made, pushClientVars>>
        /\ Head(toServer[c][s]).version = sVersion[s][c] + 1
        /\ sVersion' = [sVersion EXCEPT ![s] = OpLogVers(c, s)]
        /\ sClock' = [sClock EXCEPT ![s] = OpLogClocks(c, s)]
    BY <1>2, PushServerOpLogIs DEF Running
  <2>3. \A d \in Clients : /\ OpLogClocks(c, s)[d] >= sClock[s][d]
                           /\ OpLogVers(c, s)[d] >= sVersion[s][d]
    <3>1. \A d \in Clients : OpLogVers(c, s)[d] = IF d = c THEN sVersion[s][c] + 1
                                                  ELSE sVersion[s][d]
      BY <2>2 DEF OpLogVers, TypeServer
    <3>2. \A d \in Clients : OpLogClocks(c, s)[d] >= sClock[s][d]
      BY <2>2, OpLogTypes
    <3>3. \A d \in Clients : sVersion[s][d] \in Int
      BY DEF TypeServer, Versions
    <3>. QED
      BY <3>1, <3>2, <3>3
  <2>4. ASSUME NEW i \in Servers, NEW d \in Clients
        PROVE  sVersion'[i][d] >= sVersion[i][d] /\ sClock'[i][d] >= sClock[i][d]
    <3>1. sVersion[i][d] \in Int /\ sClock[i][d] \in Int
      BY DEF TypeServer, Versions
    <3>2. CASE i = s
      BY <2>2, <2>3, <3>2 DEF TypeServer
    <3>3. CASE i # s
      BY <2>2, <3>1, <3>3 DEF TypeServer
    <3>. QED
      BY <3>2, <3>3
  <2>. QED
    BY <2>1, <2>2, <2>4
<1>3. CASE ServerPushAck(c, s)
  <2>1. \E out : Sends(s, out)
    BY <1>3, ServerPushAckSends
  <2>2. /\ toServer[c][s] # << >> /\ toServer' = [toServer EXCEPT ![c][s] = Tail(@)]
        /\ UNCHANGED <<appVars, clientVars, bgVars, toBg, made, pushClientVars>>
        /\ UNCHANGED <<sVersion, sClock>>
    BY <1>3 DEF ServerPushAck, serverVars
  <2>3. ASSUME NEW i \in Servers, NEW d \in Clients
        PROVE  sVersion[i][d] >= sVersion[i][d] /\ sClock[i][d] >= sClock[i][d]
    <3>1. sVersion[i][d] \in Int /\ sClock[i][d] \in Int
      BY DEF TypeServer, Versions
    <3>. QED
      BY <3>1
  <2>. QED
    BY <2>1, <2>2, <2>3
<1>. QED
  BY <1>1, <1>2, <1>3 DEF FromServer
(* What the sender of one message, and of a batch, leaves in the channels  *)
(* to the servers.                                                         *)
OneSent(c, s, m) == toServer' = [toServer EXCEPT ![c][s] = Append(@, m)]

LEMMA AppendKeeps ==
  ASSUME PushTypeNet, NEW c \in Clients, NEW s \in Servers, NEW m \in PushToServerMsgs,
         OneSent(c, s, m)
  PROVE  /\ Range(toServer'[c][s]) = Range(toServer[c][s]) \cup {m}
         /\ \A d \in Clients, i \in Servers :
              ~(d = c /\ i = s) => toServer'[d][i] = toServer[d][i]
<1> DEFINE q == toServer[c][s]
<1>1. q \in Seq(PushToServerMsgs)
  BY DEF PushTypeNet
<1> DEFINE e == << m >>
<1>2. toServer'[c][s] = q \o e
  <2>1. toServer'[c][s] = Append(q, m)
    BY DEF PushTypeNet, OneSent
  <2>. QED
    BY <1>1, <2>1, AppendIsConcat
<1>3. e \in Seq(PushToServerMsgs) /\ Range(e) = {m}
  BY RangeOne
<1> HIDE DEF q, e
<1>4. Range(q \o e) = Range(q) \cup Range(e)
  BY <1>1, <1>3, RangeConcat
<1>5. \A d \in Clients, i \in Servers :
        ~(d = c /\ i = s) => toServer'[d][i] = toServer[d][i]
  BY DEF PushTypeNet, OneSent
<1>. QED
  BY <1>2, <1>3, <1>4, <1>5 DEF q

LEMMA BatchKeeps ==
  ASSUME TypeClient, TypeBg, PushTypeNet, NEW c \in Clients, NEW advanced \in BOOLEAN,
         NEW clk \in Nat, NEW ack, NEW on \in BOOLEAN, HandleClockMsg(c, advanced, clk, ack, on)
  PROVE  \A d \in Clients, i \in Servers :
           /\ Range(toServer[d][i]) \subseteq Range(toServer'[d][i])
           /\ \A x \in Range(toServer'[d][i]) : x \in Range(toServer[d][i]) \/ x.type = "OpLog"
<1>1. CASE ~CheckSendAll(c, ack)
  BY <1>1 DEF HandleClockMsg
<1>2. CASE CheckSendAll(c, ack)
  <2>1. toServer' = [toServer EXCEPT ![c] = [s \in Servers |->
                       Append(toServer[c][s], OpLogMsg(c, s, advanced, clk))]]
    BY <1>2 DEF HandleClockMsg
  <2>2. TAKE d \in Clients, i \in Servers
  <2>3. CASE d = c
    <3> DEFINE q == toServer[c][i]
               m == OpLogMsg(c, i, advanced, clk)
    <3>1. toServer'[d][i] = Append(q, m)
      BY <2>1, <2>3 DEF PushTypeNet
    <3>2. m \in PushToServerMsgs /\ q \in Seq(PushToServerMsgs) /\ m.type = "OpLog"
      BY OpLogMsgType DEF PushTypeNet, PushToServerMsgs, OpLogMsg
    <3> DEFINE e == << m >>
    <3> HIDE DEF q, m
    <3>3. toServer'[d][i] = q \o e
      BY <3>1, <3>2, AppendIsConcat
    <3>4. e \in Seq(PushToServerMsgs) /\ Range(e) = {m}
      BY <3>2, RangeOne
    <3> HIDE DEF e
    <3>5. Range(q \o e) = Range(q) \cup Range(e)
      BY <3>2, <3>4, RangeConcat
    <3>. QED
      BY <2>3, <3>2, <3>3, <3>4, <3>5 DEF q
  <2>4. CASE d # c
    BY <2>1, <2>4 DEF PushTypeNet
  <2>. QED
    BY <2>3, <2>4
<1>. QED
  BY <1>1, <1>2
-----------------------------------------------------------------------------
(* The pushes of a server that a client has not acknowledged are on their  *)
(* way there, or their acknowledgements are on their way back; and when a  *)
(* push is held back the window of some client is full.                    *)
PushAccounted ==
  \A s \in Servers, d \in Clients, n \in Nat :
    pushAcked[s][d] < n /\ n <= pushSent[s][d] =>
      \/ \E m \in Range(toClient[s][d]) : m.type = "PushRow" /\ m.seq = n
      \/ \E m \in Range(toServer[d][s]) : m.type = "PushAck" /\ m.seq = n

PushHeld == \A s \in Servers : pendingPush[s] => ~CheckPushAll(s, pushAcked[s])

PushWindowInv == Running => PushAccounted /\ PushHeld

LEMMA InitPushWindow == PushInit => PushWindowInv
<1>1. SUFFICES ASSUME PushInit PROVE PushAccounted /\ PushHeld
  BY DEF PushWindowInv
<1>2. PushAccounted
  BY <1>1 DEF PushInit, PushAccounted
<1>3. PushHeld
  BY <1>1 DEF PushInit, PushHeld
<1>. QED
  BY <1>2, <1>3

LEMMA FromServerWindow ==
  ASSUME PushTypeOK, NEW c \in Clients, NEW s \in Servers, FromServer(c, s), Running', PushHeld
  PROVE  /\ \A i \in Servers, d \in Clients : pushAcked'[i][d] >= pushAcked[i][d]
         /\ Head(toServer[c][s]).type = "PushAck" =>
              pushAcked'[s][c] = Head(toServer[c][s]).seq
         /\ PushHeld'
<1> USE DEF PushTypeOK
<1>1. \A i \in Servers, d \in Clients : pushAcked[i][d] \in Nat
  BY DEF PushTypeServer
<1>2. CASE PushServerRowRequest(c, s)
  <2>1. UNCHANGED <<pendingPush, pushSent, pushAcked>> /\ Head(toServer[c][s]).type # "PushAck"
    BY <1>2 DEF PushServerRowRequest, ServerRowRequest
  <2>. QED
    BY <1>1, <2>1 DEF PushHeld, CheckPushAll
<1>3. CASE PushServerOpLog(c, s)
  <2>1. /\ UNCHANGED pushAcked /\ Head(toServer[c][s]).type # "PushAck"
        /\ pendingPush' = [pendingPush EXCEPT ![s] =
                             @ \/ (OpLogMoved(c, s) /\ ~OpLogPush(c, s))]
        /\ pushSent' = [pushSent EXCEPT ![s] = [d \in Clients |->
                          pushSent[s][d] + Len(OpLogPushes(c, s, d))]]
    BY <1>3, PushServerOpLogIs DEF Running
  <2>2. SUFFICES ASSUME NEW i \in Servers, pendingPush'[i]
                 PROVE  ~CheckPushAll(i, pushAcked[i])'
    BY <1>1, <2>1 DEF PushHeld
  <2>3. CASE i # s
    BY <2>1, <2>2, <2>3 DEF PushHeld, CheckPushAll, PushTypeServer
  <2>4. CASE i = s
    <3>1. pendingPush[s] \/ (OpLogMoved(c, s) /\ ~OpLogPush(c, s))
      BY <2>1, <2>2, <2>4, Zenon DEF PushTypeServer
    <3>2. ~CheckPushAll(s, pushAcked[s]) /\ ~OpLogPush(c, s)
      BY <3>1 DEF PushHeld, OpLogPush
    <3>3. \A d \in Clients : pushSent'[s][d] = pushSent[s][d]
      <4>1. \A d \in Clients : Len(OpLogPushes(c, s, d)) = 0
        BY <3>2 DEF OpLogPushes
      <4>2. \A d \in Clients : pushSent[s][d] \in Nat
        BY DEF PushTypeServer
      <4>. QED
        BY <2>1, <4>1, <4>2 DEF PushTypeServer
    <3>. QED
      BY <2>1, <2>4, <3>2, <3>3 DEF CheckPushAll
  <2>. QED
    BY <2>3, <2>4
<1>4. CASE ServerPushAck(c, s)
  <2> DEFINE m   == Head(toServer[c][s])
             ack == [pushAcked[s] EXCEPT ![c] = m.seq]
             due == DuePush(s, ack)
             Pushes(d) == IF due
                          THEN Pushed(s, d, data, MinClock(sClock[s]), sVersion[s],
                                      subscribed, changed)
                          ELSE << >>
  <2>1. /\ pushAcked[s][c] <= m.seq
        /\ pushAcked' = [pushAcked EXCEPT ![s] = ack]
        /\ pendingPush' = [pendingPush EXCEPT ![s] = @ /\ ~due]
        /\ pushSent' = [pushSent EXCEPT ![s] = [d \in Clients |->
                          pushSent[s][d] + Len(Pushes(d))]]
    BY <1>4 DEF ServerPushAck, Running
  <2>2. pushAcked'[s] = ack /\ ack[c] = m.seq
    BY <2>1 DEF PushTypeServer
  <2>3. ASSUME NEW i \in Servers, NEW d \in Clients
        PROVE  pushAcked'[i][d] >= pushAcked[i][d]
    <3>1. \/ pushAcked'[i][d] = pushAcked[i][d]
          \/ i = s /\ d = c /\ pushAcked'[i][d] = m.seq
      BY <2>1 DEF PushTypeServer
    <3>. QED
      BY <1>1, <2>1, <3>1
  <2> HIDE DEF due, ack, m
  <2>4. ASSUME NEW i \in Servers, pendingPush'[i]
        PROVE  ~CheckPushAll(i, pushAcked[i])'
    <3>1. CASE i # s
      BY <2>1, <2>4, <3>1 DEF PushHeld, CheckPushAll, PushTypeServer
    <3>2. CASE i = s
      <4>1. pendingPush[s] /\ ~due
        BY <2>1, <2>4, <3>2, Zenon DEF PushTypeServer
      <4>2. ~CheckPushAll(s, ack)
        BY <4>1 DEF due, DuePush
      <4>3. \A d \in Clients : pushSent'[s][d] = pushSent[s][d]
        <5>1. \A d \in Clients : Len(Pushes(d)) = 0
          BY <4>1
        <5>2. \A d \in Clients : pushSent[s][d] \in Nat
          BY DEF PushTypeServer
        <5> HIDE DEF Pushes
        <5>. QED
          BY <2>1, <5>1, <5>2 DEF PushTypeServer
      <4>. QED
        BY <2>2, <3>2, <4>2, <4>3 DEF CheckPushAll
    <3>. QED
      BY <3>1, <3>2
  <2>. QED
    BY <2>2, <2>3, <2>4 DEF PushHeld, m
<1>. QED
  BY <1>2, <1>3, <1>4 DEF FromServer

LEMMA FromServerAccounted ==
  ASSUME PushTypeOK, NEW c \in Clients, NEW s \in Servers, FromServer(c, s), Running',
         PushAccounted, PushHeld
  PROVE  PushAccounted' /\ PushHeld'
<1> USE DEF PushTypeOK
<1>1. /\ \A i \in Servers, d \in Clients : pushAcked'[i][d] >= pushAcked[i][d]
      /\ Head(toServer[c][s]).type = "PushAck" =>
           pushAcked'[s][c] = Head(toServer[c][s]).seq
      /\ PushHeld'
  BY FromServerWindow
<1>2. PICK out : Sends(s, out)
  BY FromServerIs
<1>3. toServer[c][s] # << >> /\ toServer' = [toServer EXCEPT ![c][s] = Tail(@)]
  BY FromServerIs
<1>4. \A i \in Servers, d \in Clients : Range(toClient[i][d]) \subseteq Range(toClient'[i][d])
  <2>1. TAKE i \in Servers, d \in Clients
  <2>2. CASE i = s
    <3>1. toClient'[i][d] = toClient[s][d] \o out[d]
      BY <1>2, <2>2 DEF Sends, PushTypeNet
    <3>2. toClient[s][d] \in Seq(PushToClientMsgs) /\ out[d] \in Seq(PushToClientMsgs)
      BY <1>2 DEF Sends, PushTypeNet
    <3>3. Range(toClient[s][d] \o out[d]) = Range(toClient[s][d]) \cup Range(out[d])
      BY <3>2, RangeConcat
    <3>. QED
      BY <2>2, <3>1, <3>3
  <2>3. CASE i # s
    BY <1>2, <2>3 DEF Sends, PushTypeNet
  <2>. QED
    BY <2>2, <2>3
<1>5. \A d \in Clients : Range(out[d]) \subseteq Range(toClient'[s][d])
  <2>1. TAKE d \in Clients
  <2>2. toClient'[s][d] = toClient[s][d] \o out[d]
    BY <1>2 DEF Sends, PushTypeNet
  <2>3. toClient[s][d] \in Seq(PushToClientMsgs) /\ out[d] \in Seq(PushToClientMsgs)
    BY <1>2 DEF Sends, PushTypeNet
  <2>. QED
    BY <2>2, <2>3, RangeConcat
<1>6. ASSUME NEW i \in Servers, NEW d \in Clients, NEW x \in Range(toServer[d][i]),
             ~(d = c /\ i = s /\ x = Head(toServer[c][s]))
      PROVE  x \in Range(toServer'[d][i])
  <2>1. CASE d = c /\ i = s
    <3>1. Range(toServer[c][s]) = Range(Tail(toServer[c][s])) \cup {Head(toServer[c][s])}
      BY <1>3, RangeTail DEF PushTypeNet
    <3>2. toServer'[c][s] = Tail(toServer[c][s])
      BY <1>3 DEF PushTypeNet
    <3>. QED
      BY <1>6, <2>1, <3>1, <3>2
  <2>2. CASE ~(d = c /\ i = s)
    <3>1. toServer'[d][i] = toServer[d][i]
      BY <1>3, <2>2 DEF PushTypeNet
    <3>. QED
      BY <3>1
  <2>. QED
    BY <2>1, <2>2
<1>7. SUFFICES ASSUME NEW i \in Servers, NEW d \in Clients, NEW n \in Nat,
                      pushAcked'[i][d] < n, n <= pushSent'[i][d]
               PROVE  \/ \E m \in Range(toClient'[i][d]) : m.type = "PushRow" /\ m.seq = n
                      \/ \E m \in Range(toServer'[d][i]) : m.type = "PushAck" /\ m.seq = n
  BY <1>1 DEF PushAccounted
<1>8. pushAcked[i][d] \in Nat /\ pushSent[i][d] \in Nat /\ pushAcked'[i][d] \in Nat
  <2>1. PushTypeServer'
    BY PushServerRowRequestType, PushServerOpLogType, ServerPushAckType DEF FromServer
  <2>. QED
    BY <2>1 DEF PushTypeServer
<1>9. CASE n <= pushSent[i][d]
  <2>1. pushAcked[i][d] < n
    BY <1>1, <1>7, <1>8
  <2>2. CASE \E m \in Range(toClient[i][d]) : m.type = "PushRow" /\ m.seq = n
    BY <1>4, <2>2
  <2>3. CASE \E m \in Range(toServer[d][i]) : m.type = "PushAck" /\ m.seq = n
    <3>1. PICK m \in Range(toServer[d][i]) : m.type = "PushAck" /\ m.seq = n
      BY <2>3
    <3>2. ~(d = c /\ i = s /\ m = Head(toServer[c][s]))
      BY <1>1, <1>7, <1>8, <3>1
    <3>. QED
      BY <1>6, <3>1, <3>2
  <2>. QED
    BY <1>9, <2>1, <2>2, <2>3 DEF PushAccounted
<1>10. CASE n > pushSent[i][d]
  <2>1. i = s
    BY <1>2, <1>7, <1>8, <1>10 DEF Sends
  <2>2. \E x \in Range(out[d]) : x.type = "PushRow" /\ x.seq = n
    BY <1>2, <1>7, <1>10, <2>1 DEF Sends
  <2>. QED
    BY <1>5, <2>1, <2>2
<1>. QED
  BY <1>8, <1>9, <1>10

LEMMA TakeKeeps ==
  ASSUME PushTypeNet, NEW c \in Clients, NEW s \in Servers, toClient[s][c] # << >>,
         toClient' = [toClient EXCEPT ![s][c] = Tail(@)]
  PROVE  \A i \in Servers, d \in Clients : \A x \in Range(toClient[i][d]) :
           x \in Range(toClient'[i][d]) \/ (i = s /\ d = c /\ x = Head(toClient[s][c]))
<1>1. TAKE i \in Servers, d \in Clients
<1>2. CASE i = s /\ d = c
  <2>1. toClient'[i][d] = Tail(toClient[s][c])
    BY <1>2 DEF PushTypeNet
  <2>2. Range(toClient[s][c]) = Range(Tail(toClient[s][c])) \cup {Head(toClient[s][c])}
    BY RangeTail DEF PushTypeNet
  <2>. QED
    BY <1>2, <2>1, <2>2
<1>3. CASE ~(i = s /\ d = c)
  BY <1>3 DEF PushTypeNet
<1>. QED
  BY <1>2, <1>3

(* A step of a client leaves what it has sent, and acknowledges the pushes *)
(* that it takes.                                                          *)
LEMMA ClientAccounted ==
  ASSUME PushAccounted, PushHeld, UNCHANGED pushServerVars,
         \A s \in Servers, d \in Clients :
           /\ Range(toServer[d][s]) \subseteq Range(toServer'[d][s])
           /\ \A x \in Range(toClient[s][d]) :
                \/ x \in Range(toClient'[s][d])
                \/ x.type # "PushRow"
                \/ \E y \in Range(toServer'[d][s]) : y.type = "PushAck" /\ y.seq = x.seq
  PROVE  PushAccounted' /\ PushHeld'
<1>1. PushHeld'
  BY DEF PushHeld, CheckPushAll, pushServerVars
<1>2. SUFFICES ASSUME NEW s \in Servers, NEW d \in Clients, NEW n \in Nat,
                      pushAcked[s][d] < n, n <= pushSent[s][d]
               PROVE  \/ \E m \in Range(toClient'[s][d]) : m.type = "PushRow" /\ m.seq = n
                      \/ \E m \in Range(toServer'[d][s]) : m.type = "PushAck" /\ m.seq = n
  BY <1>1 DEF PushAccounted, pushServerVars
<1>3. CASE \E m \in Range(toClient[s][d]) : m.type = "PushRow" /\ m.seq = n
  <2>1. PICK m \in Range(toClient[s][d]) : m.type = "PushRow" /\ m.seq = n
    BY <1>3
  <2>. QED
    BY <2>1
<1>4. CASE \E m \in Range(toServer[d][s]) : m.type = "PushAck" /\ m.seq = n
  BY <1>4
<1>. QED
  BY <1>2, <1>3, <1>4 DEF PushAccounted

(* The steps of the threads touch nothing of the channels to and from the  *)
(* servers.                                                                *)
ThreadStep ==
  \/ \E t \in Threads, r \in Rows : PushInc(t, r) \/ PushGet(t, r) \/ PushGetBlock(t, r)
  \/ \E t \in Threads : \/ PushGetUnblock(t) \/ PushGetResume(t)
                        \/ PushClockFlush(t) \/ PushClockTick(t)
  \/ \E c \in Clients, r \in Rows : PushEvict(c, r)

LEMMA ThreadStepIs ==
  ASSUME ThreadStep
  PROVE  /\ UNCHANGED <<toServer, toClient, bgVars, serverVars>>
         /\ UNCHANGED <<systemClock, serverClock, acknowledged, pushMgr>>
         /\ UNCHANGED pushServerVars
<1> USE DEF netVars, bgVars, serverVars, histVars, clientVars, appVars, pushServerVars
<1>1. CASE \E t \in Threads, r \in Rows : PushInc(t, r)
  BY <1>1 DEF PushInc, Inc, UnchangedByBase
<1>2. CASE \E t \in Threads, r \in Rows : PushGet(t, r) \/ PushGetBlock(t, r)
  BY <1>2 DEF PushGet, PushGetBlock, UnchangedByGet
<1>3. CASE \E t \in Threads : PushGetUnblock(t) \/ PushGetResume(t)
  BY <1>3 DEF PushGetUnblock, PushGetResume, UnchangedByGet
<1>4. CASE \E t \in Threads : PushClockFlush(t) \/ PushClockTick(t)
  BY <1>4 DEF PushClockFlush, PushClockTick, ClockFlush, ClockTick, UnchangedByBase
<1>5. CASE \E c \in Clients, r \in Rows : PushEvict(c, r)
  BY <1>5 DEF PushEvict, Evict, UnchangedByBase
<1>. QED
  BY <1>1, <1>2, <1>3, <1>4, <1>5 DEF ThreadStep

LEMMA StepCases ==
  ASSUME PushStep
  PROVE  \/ ThreadStep
         \/ \E t \in Threads : PushBgBatch(t) \/ PushBgRowRequest(t)
         \/ \E c \in Clients, s \in Servers : \/ PushBgOpLogAck(s, c)
                                              \/ PushBgRowReply(s, c)
                                              \/ PushBgRows(s, c)
                                              \/ FromServer(c, s)
<1>1. Writers \subseteq Threads /\ Readers \subseteq Threads
  BY SSPAssumption
<1>. QED
  BY <1>1 DEF PushStep, ThreadStep, FromServer
(* What the worker's steps leave in the channels.                          *)
LEMMA BatchSends ==
  ASSUME PushTypeOK, NEW t \in Threads, PushBgBatch(t)
  PROVE  /\ UNCHANGED <<toClient, serverVars, pushServerVars>>
         /\ UNCHANGED <<cached, systemClock, serverClock, acknowledged>>
         /\ \A d \in Clients, i \in Servers :
              /\ Range(toServer[d][i]) \subseteq Range(toServer'[d][i])
              /\ \A x \in Range(toServer'[d][i]) :
                   x \in Range(toServer[d][i]) \/ x.type = "OpLog"
<1> USE DEF PushTypeOK
<1> DEFINE c == ClientOf[t]
<1>1. c \in Clients /\ acked[c] \in [Servers -> Nat] /\ pend[c].on \in BOOLEAN
      /\ bgClock[c] \in Nat /\ bgClock[c] + 1 \in Nat
  BY SSPAssumption DEF TypeBg
<1>2. /\ UNCHANGED <<toClient, serverVars, pushServerVars>>
      /\ UNCHANGED <<cached, systemClock, serverClock, acknowledged>>
      /\ \/ HandleClockMsg(c, TRUE, bgClock[c] + 1, acked[c], pend[c].on)
         \/ HandleClockMsg(c, FALSE, bgClock[c], acked[c], pend[c].on)
  BY DEF PushBgBatch, BgClock, BgSendOpLog
<1> HIDE DEF c
<1>3. \A d \in Clients, i \in Servers :
        /\ Range(toServer[d][i]) \subseteq Range(toServer'[d][i])
        /\ \A x \in Range(toServer'[d][i]) : x \in Range(toServer[d][i]) \/ x.type = "OpLog"
  <2>1. CASE HandleClockMsg(c, TRUE, bgClock[c] + 1, acked[c], pend[c].on)
    BY <1>1, <2>1, BatchKeeps
  <2>2. CASE HandleClockMsg(c, FALSE, bgClock[c], acked[c], pend[c].on)
    BY <1>1, <2>2, BatchKeeps
  <2>. QED
    BY <1>2, <2>1, <2>2
<1>. QED
  BY <1>2, <1>3

LEMMA OpLogAckSends ==
  ASSUME PushTypeOK, NEW s \in Servers, NEW c \in Clients, PushBgOpLogAck(s, c)
  PROVE  /\ toClient[s][c] # << >> /\ Head(toClient[s][c]).type = "OpLogAck"
         /\ toClient' = [toClient EXCEPT ![s][c] = Tail(@)]
         /\ UNCHANGED <<toBg, appVars, serverVars, pushServerVars>>
         /\ UNCHANGED <<cached, systemClock, serverClock>>
         /\ \A d \in Clients, i \in Servers :
              /\ Range(toServer[d][i]) \subseteq Range(toServer'[d][i])
              /\ \A x \in Range(toServer'[d][i]) :
                   x \in Range(toServer[d][i]) \/ x.type = "OpLog"
<1> USE DEF PushTypeOK
<1> DEFINE m   == Head(toClient[s][c])
           ack == [acked[c] EXCEPT ![s] = m.seq]
<1>1. /\ toClient[s][c] # << >> /\ m.type = "OpLogAck"
      /\ toClient' = [toClient EXCEPT ![s][c] = Tail(@)]
      /\ UNCHANGED <<appVars, serverVars, toBg, pushServerVars>>
      /\ UNCHANGED <<cached, systemClock, serverClock>>
      /\ \/ HandleClockMsg(c, pend[c].advanced, bgClock[c], ack, FALSE)
         \/ UNCHANGED toServer
  BY DEF PushBgOpLogAck, BgOpLogAck, AckInOrder
<1>2. bgClock[c] \in Nat /\ pend[c].advanced \in BOOLEAN
  BY DEF TypeBg
<1> HIDE DEF ack
<1>3. CASE HandleClockMsg(c, pend[c].advanced, bgClock[c], ack, FALSE)
  BY <1>1, <1>2, <1>3, BatchKeeps
<1>4. CASE UNCHANGED toServer
  BY <1>1, <1>4
<1>. QED
  BY <1>1, <1>3, <1>4

LEMMA BgRowRequestSends ==
  ASSUME PushTypeOK, NEW t \in Threads, PushBgRowRequest(t)
  PROVE  /\ UNCHANGED <<toClient, serverVars, pushServerVars>>
         /\ UNCHANGED <<cached, systemClock, serverClock, acknowledged, version>>
         /\ \A d \in Clients, i \in Servers :
              /\ Range(toServer[d][i]) \subseteq Range(toServer'[d][i])
              /\ \A x \in Range(toServer'[d][i]) :
                   \/ x \in Range(toServer[d][i])
                   \/ x = Head(toBg[t]) /\ d = ClientOf[t] /\ toBg[t] # << >>
<1> USE DEF PushTypeOK
<1> DEFINE c == ClientOf[t]
           m == Head(toBg[t])
           s == ServerOf[m.row]
<1>1. /\ toBg[t] # << >> /\ m.type = "RowRequest"
      /\ UNCHANGED <<toClient, serverVars, pushServerVars>>
      /\ UNCHANGED <<cached, systemClock, serverClock, acknowledged, version>>
      /\ \/ UNCHANGED toServer
         \/ toServer' = [toServer EXCEPT ![c][s] = Append(@, m)]
  BY DEF PushBgRowRequest
<1>2. c \in Clients /\ m \in RowRequestMsgs /\ m \in PushToServerMsgs
  BY <1>1, PushHeadToBg, SSPAssumption DEF ClockMsgs, PushToServerMsgs
<1>3. s \in Servers
  BY <1>2, SSPAssumption DEF RowRequestMsgs
<1> HIDE DEF c, m, s
<1>4. CASE UNCHANGED toServer
  BY <1>1, <1>4
<1>5. CASE toServer' = [toServer EXCEPT ![c][s] = Append(@, m)]
  <2>1. OneSent(c, s, m)
    BY <1>5 DEF OneSent
  <2>2. /\ Range(toServer'[c][s]) = Range(toServer[c][s]) \cup {m}
        /\ \A d \in Clients, i \in Servers :
             ~(d = c /\ i = s) => toServer'[d][i] = toServer[d][i]
    BY <1>2, <1>3, <2>1, AppendKeeps
  <2>3. \A d \in Clients, i \in Servers :
          /\ Range(toServer[d][i]) \subseteq Range(toServer'[d][i])
          /\ \A x \in Range(toServer'[d][i]) : x \in Range(toServer[d][i]) \/ (d = c /\ x = m)
    <3>1. TAKE d \in Clients, i \in Servers
    <3>2. CASE d = c /\ i = s
      BY <2>2, <3>2
    <3>3. CASE ~(d = c /\ i = s)
      BY <2>2, <3>3
    <3>. QED
      BY <3>2, <3>3
  <2>. QED
    BY <1>1, <2>3 DEF m, c
<1>. QED
  BY <1>1, <1>4, <1>5

LEMMA RowReplySends ==
  ASSUME PushTypeOK, NEW s \in Servers, NEW c \in Clients, PushBgRowReply(s, c), Running'
  PROVE  LET m     == Head(toClient[s][c])
             keeps == ServerAcknowledgeVersion(c, s, m.version)
             left  == Popped(keeps, m.row, NumServed(keeps.reqs[m.row], m.clock))
             next  == ClockToRequest(left, m.row)
         IN  /\ toClient[s][c] # << >> /\ m.type = "RowReply"
             /\ toClient' = [toClient EXCEPT ![s][c] = Tail(@)]
             /\ UNCHANGED <<toBg, serverVars, pushServerVars>>
             /\ UNCHANGED <<want, cached, systemClock, serverClock, version>>
             /\ acknowledged' = [acknowledged EXCEPT ![c] = Acks(c, s, m.version)]
             /\ pushMgr' = [pushMgr EXCEPT ![c] =
                  IF next < 0 THEN left ELSE [left EXCEPT !.reqs[m.row][1].sent = TRUE]]
             /\ \A d \in Clients, i \in Servers :
                  /\ Range(toServer[d][i]) \subseteq Range(toServer'[d][i])
                  /\ \A x \in Range(toServer'[d][i]) :
                       \/ x \in Range(toServer[d][i])
                       \/ d = c /\ ~(next < 0) /\ x = RowRequestMsg(m.row, next)
<1> USE DEF PushTypeOK
<1> DEFINE m     == Head(toClient[s][c])
           keeps == ServerAcknowledgeVersion(c, s, m.version)
           left  == Popped(keeps, m.row, NumServed(keeps.reqs[m.row], m.clock))
           next  == ClockToRequest(left, m.row)
           ask   == RowRequestMsg(m.row, next)
           at    == ServerOf[m.row]
<1>1. /\ toClient[s][c] # << >> /\ m.type = "RowReply"
      /\ toClient' = [toClient EXCEPT ![s][c] = Tail(@)]
      /\ UNCHANGED <<toBg, serverVars, pushServerVars>>
      /\ UNCHANGED <<want, cached, systemClock, serverClock, version>>
      /\ acknowledged' = [acknowledged EXCEPT ![c] = Acks(c, s, m.version)]
      /\ pushMgr' = [pushMgr EXCEPT ![c] =
           IF next < 0 THEN left ELSE [left EXCEPT !.reqs[m.row][1].sent = TRUE]]
      /\ toServer' = IF next < 0 THEN toServer
                     ELSE [toServer EXCEPT ![c][at] = Append(@, ask)]
  BY DEF PushBgRowReply, Running
<1>2. m \in RowReplyMsgs
  BY <1>1, PushHeadToClient DEF PushToClientMsgs, AckMsgs, PushedMsgs
<1>3. m.row \in Rows /\ at \in Servers /\ m.version \in Versions /\ m.clock \in Nat
  BY <1>2, SSPAssumption DEF RowReplyMsgs
<1>4. keeps \in Managers
  <2> HIDE DEF m
  <2>. QED
    BY <1>3, ServerAcknowledgeVersionType
<1>5. \A d \in Clients, i \in Servers :
        /\ Range(toServer[d][i]) \subseteq Range(toServer'[d][i])
        /\ \A x \in Range(toServer'[d][i]) :
             \/ x \in Range(toServer[d][i])
             \/ d = c /\ ~(next < 0) /\ x = ask
  <2>1. CASE next < 0
    <3> HIDE DEF next, ask, at, m, left
    <3>. QED
      BY <1>1, <2>1
  <2>2. CASE ~(next < 0)
    <3>1. ask \in PushToServerMsgs
      <4>1. left \in Managers
        <5> HIDE DEF keeps, m
        <5>. QED
          BY <1>3, <1>4, PoppedType
      <4> HIDE DEF left, m
      <4>2. next \in Clocks
        BY <1>3, <2>2, <4>1, ClockToRequestType
      <4> HIDE DEF next
      <4>. QED
        BY <1>3, <4>2 DEF RowRequestMsg, RowRequestMsgs, PushToServerMsgs
    <3> HIDE DEF ask, at, m, next, left
    <3>2. OneSent(c, at, ask)
      BY <1>1, <2>2 DEF OneSent
    <3>3. /\ Range(toServer'[c][at]) = Range(toServer[c][at]) \cup {ask}
          /\ \A d \in Clients, i \in Servers :
               ~(d = c /\ i = at) => toServer'[d][i] = toServer[d][i]
      BY <1>3, <3>1, <3>2, AppendKeeps
    <3>5. \A d \in Clients, i \in Servers :
            /\ Range(toServer[d][i]) \subseteq Range(toServer'[d][i])
            /\ \A x \in Range(toServer'[d][i]) :
                 x \in Range(toServer[d][i]) \/ (d = c /\ x = ask)
      <4>1. TAKE d \in Clients, i \in Servers
      <4>2. CASE d = c /\ i = at
        BY <3>3, <4>2
      <4>3. CASE ~(d = c /\ i = at)
        BY <3>3, <4>3
      <4>. QED
        BY <4>2, <4>3
    <3>. QED
      BY <2>2, <3>5
  <2>. QED
    BY <2>1, <2>2
<1> HIDE DEF m, next, left
<1>. QED
  BY <1>1, <1>5 DEF m, next, left, keeps, ask

LEMMA PushedRowsSends ==
  ASSUME PushTypeOK, NEW s \in Servers, NEW c \in Clients, PushBgRows(s, c), Running'
  PROVE  LET m      == Head(toClient[s][c])
             clocks == PushedClock(c, s, m)
         IN  /\ toClient[s][c] # << >> /\ m.type = "PushRow"
             /\ toClient' = [toClient EXCEPT ![s][c] = Tail(@)]
             /\ acknowledged' = [acknowledged EXCEPT ![c] = Acks(c, s, m.version)]
             /\ pushMgr' = [pushMgr EXCEPT ![c] = ServerAcknowledgeVersion(c, s, m.version)]
             /\ serverClock' = [serverClock EXCEPT ![c] = clocks]
             /\ systemClock' = [systemClock EXCEPT ![c] =
                  IF MinClock(clocks) # MinClock(serverClock[c])
                  THEN MinClock(clocks) ELSE @]
             /\ UNCHANGED <<toBg, appVars, bgVars, serverVars, cached, pushServerVars>>
             /\ \A d \in Clients, i \in Servers :
                  /\ Range(toServer[d][i]) \subseteq Range(toServer'[d][i])
                  /\ \A x \in Range(toServer'[d][i]) :
                       \/ x \in Range(toServer[d][i])
                       \/ d = c /\ i = s /\ x = PushAckMsg(m.seq)
             /\ PushAckMsg(m.seq) \in Range(toServer'[c][s])
<1> USE DEF PushTypeOK
<1> DEFINE m      == Head(toClient[s][c])
           clocks == PushedClock(c, s, m)
           ack    == PushAckMsg(m.seq)
<1>1. /\ toClient[s][c] # << >> /\ m.type = "PushRow"
      /\ toClient' = [toClient EXCEPT ![s][c] = Tail(@)]
      /\ acknowledged' = [acknowledged EXCEPT ![c] = Acks(c, s, m.version)]
      /\ pushMgr' = [pushMgr EXCEPT ![c] = ServerAcknowledgeVersion(c, s, m.version)]
      /\ serverClock' = [serverClock EXCEPT ![c] = clocks]
      /\ systemClock' = [systemClock EXCEPT ![c] =
           IF MinClock(clocks) # MinClock(serverClock[c]) THEN MinClock(clocks) ELSE @]
      /\ UNCHANGED <<toBg, appVars, bgVars, serverVars, cached, pushServerVars>>
      /\ OneSent(c, s, ack)
  BY DEF PushBgRows, Running, OneSent
<1>2. m \in PushedMsgs
  BY <1>1, PushHeadToClient DEF PushToClientMsgs, AckMsgs, RowReplyMsgs
<1>3. ack \in PushToServerMsgs
  BY <1>2 DEF PushedMsgs, PushToServerMsgs, PushAckMsg, PushAckMsgs
<1> HIDE DEF m, clocks, ack
<1>4. /\ Range(toServer'[c][s]) = Range(toServer[c][s]) \cup {ack}
      /\ \A d \in Clients, i \in Servers :
           ~(d = c /\ i = s) => toServer'[d][i] = toServer[d][i]
  BY <1>1, <1>3, AppendKeeps
<1>5. \A d \in Clients, i \in Servers :
        /\ Range(toServer[d][i]) \subseteq Range(toServer'[d][i])
        /\ \A x \in Range(toServer'[d][i]) :
             x \in Range(toServer[d][i]) \/ (d = c /\ i = s /\ x = ack)
  <2>1. TAKE d \in Clients, i \in Servers
  <2>2. CASE d = c /\ i = s
    BY <1>4, <2>2
  <2>3. CASE ~(d = c /\ i = s)
    BY <1>4, <2>3
  <2>. QED
    BY <2>2, <2>3
<1>6. ack \in Range(toServer'[c][s])
  BY <1>4
<1>. QED
  BY <1>1, <1>5, <1>6 DEF m, clocks, ack

(* No step is taken after a check has failed.                              *)
LEMMA StepRuns ==
  ASSUME PushStep
  PROVE  Running
<1>1. ASSUME NEW t \in Threads, NEW r \in Rows, PushInc(t, r) \/ PushGet(t, r) \/ PushGetBlock(t, r)
      PROVE  Running
  BY <1>1 DEF PushInc, Inc, PushGet, PushGetBlock
<1>2. ASSUME NEW t \in Threads, \/ PushGetUnblock(t) \/ PushGetResume(t)
                                \/ PushClockFlush(t) \/ PushClockTick(t)
                                \/ PushBgBatch(t) \/ PushBgRowRequest(t)
      PROVE  Running
  BY <1>2 DEF PushGetUnblock, PushGetResume, PushClockFlush, ClockFlush, PushClockTick,
     ClockTick, PushBgBatch, BgClock, BgSendOpLog, PushBgRowRequest
<1>3. ASSUME NEW c \in Clients, NEW r \in Rows, PushEvict(c, r)
      PROVE  Running
  BY <1>3 DEF PushEvict, Evict
<1>4. ASSUME NEW c \in Clients, NEW s \in Servers,
             PushBgOpLogAck(s, c) \/ PushBgRowReply(s, c) \/ PushBgRows(s, c)
      PROVE  Running
  BY <1>4 DEF PushBgOpLogAck, BgOpLogAck, PushBgRowReply, PushBgRows
<1>5. ASSUME NEW c \in Clients, NEW s \in Servers, FromServer(c, s)
      PROVE  Running
  BY <1>5 DEF FromServer, PushServerRowRequest, ServerRowRequest, PushServerOpLog, ServerPushAck
<1>. QED
  BY <1>1, <1>2, <1>3, <1>4, <1>5, StepCases DEF ThreadStep

LEMMA StepWindow ==
  ASSUME PushTypeOK, PushStep, PushWindowInv
  PROVE  PushWindowInv'
<1> USE DEF PushTypeOK
<1>1. SUFFICES ASSUME Running' PROVE PushAccounted' /\ PushHeld'
  BY DEF PushWindowInv
<1>2. PushAccounted /\ PushHeld
  <2>1. Running
    BY StepRuns
  <2>. QED
    BY <2>1 DEF PushWindowInv
<1>3. CASE ThreadStep
  <2>1. UNCHANGED <<toServer, toClient>> /\ UNCHANGED pushServerVars
    BY <1>3, ThreadStepIs
  <2>. QED
    BY <1>2, <2>1, ClientAccounted
<1>4. ASSUME NEW t \in Threads, PushBgBatch(t) \/ PushBgRowRequest(t)
      PROVE  PushAccounted' /\ PushHeld'
  <2>1. /\ UNCHANGED toClient /\ UNCHANGED pushServerVars
        /\ \A d \in Clients, i \in Servers : Range(toServer[d][i]) \subseteq Range(toServer'[d][i])
    BY <1>4, BatchSends, BgRowRequestSends
  <2>. QED
    BY <1>2, <2>1, ClientAccounted
<1>5. ASSUME NEW c \in Clients, NEW s \in Servers, PushBgOpLogAck(s, c) \/ PushBgRowReply(s, c)
      PROVE  PushAccounted' /\ PushHeld'
  <2>1. /\ toClient[s][c] # << >> /\ Head(toClient[s][c]).type # "PushRow"
        /\ toClient' = [toClient EXCEPT ![s][c] = Tail(@)]
        /\ UNCHANGED pushServerVars
        /\ \A d \in Clients, i \in Servers : Range(toServer[d][i]) \subseteq Range(toServer'[d][i])
    BY <1>1, <1>5, OpLogAckSends, RowReplySends
  <2>2. \A i \in Servers, d \in Clients : \A x \in Range(toClient[i][d]) :
          x \in Range(toClient'[i][d]) \/ x.type # "PushRow"
    BY <2>1, TakeKeeps
  <2>. QED
    BY <1>2, <2>1, <2>2, ClientAccounted
<1>6. ASSUME NEW c \in Clients, NEW s \in Servers, PushBgRows(s, c)
      PROVE  PushAccounted' /\ PushHeld'
  <2> DEFINE m == Head(toClient[s][c])
  <2>1. /\ toClient[s][c] # << >>
        /\ toClient' = [toClient EXCEPT ![s][c] = Tail(@)]
        /\ UNCHANGED pushServerVars
        /\ \A d \in Clients, i \in Servers : Range(toServer[d][i]) \subseteq Range(toServer'[d][i])
        /\ PushAckMsg(m.seq) \in Range(toServer'[c][s])
    BY <1>1, <1>6, PushedRowsSends
  <2>2. \A i \in Servers, d \in Clients : \A x \in Range(toClient[i][d]) :
          x \in Range(toClient'[i][d]) \/ (i = s /\ d = c /\ x = m)
    BY <2>1, TakeKeeps
  <2>3. \E y \in Range(toServer'[c][s]) : y.type = "PushAck" /\ y.seq = m.seq
    BY <2>1 DEF PushAckMsg
  <2> HIDE DEF m
  <2>4. \A i \in Servers, d \in Clients : \A x \in Range(toClient[i][d]) :
          \/ x \in Range(toClient'[i][d])
          \/ \E y \in Range(toServer'[d][i]) : y.type = "PushAck" /\ y.seq = x.seq
    BY <2>2, <2>3
  <2>. QED
    BY <1>2, <2>1, <2>4, ClientAccounted
<1>7. ASSUME NEW c \in Clients, NEW s \in Servers, FromServer(c, s)
      PROVE  PushAccounted' /\ PushHeld'
  BY <1>1, <1>2, <1>7, FromServerAccounted
<1>. QED
  BY <1>3, <1>4, <1>5, <1>6, <1>7, StepCases

LEMMA PushWindowKept == PushSpec => [](PushTypeOK /\ PushWindowInv)
<1>1. PushTypeOK /\ PushWindowInv /\ [PushNext]_pushVars => PushWindowInv'
  <2>1. SUFFICES ASSUME PushTypeOK, PushWindowInv, [PushNext]_pushVars PROVE PushWindowInv'
    OBVIOUS
  <2>2. CASE PushStep
    BY <2>1, <2>2, StepWindow
  <2>3. CASE UNCHANGED pushVars
    <3>1. UNCHANGED <<failed, toServer, toClient, pushServerVars>>
      BY <2>3 DEF pushVars, vars, netVars, histVars
    <3>. QED
      BY <2>1, <3>1, ClientAccounted DEF PushWindowInv, Running
  <2>. QED
    BY <2>1, <2>2, <2>3 DEF PushNext, PushRest
<1>2. PushTypeOK /\ [PushNext]_pushVars => PushTypeOK'
  BY PushStepType, PushStutterType DEF PushNext, PushRest
<1>. QED
  BY InitPushType, InitPushWindow, <1>1, <1>2, PTL DEF PushSpec

(* A push that a server holds back is never forgotten, for every window:   *)
(* some client's window is full, and the push that client has still to     *)
(* apply, or its acknowledgement, is on its way.                           *)
THEOREM HeldPushIsMade == PushSpec => []HeldPushAwaitsAck
<1>1. PushTypeOK /\ PushWindowInv => HeldPushAwaitsAck
  <2>1. SUFFICES ASSUME PushTypeOK, PushWindowInv, Running,
                        NEW s \in Servers, pendingPush[s]
                 PROVE  \E d \in Clients :
                          /\ pushSent[s][d] - pushAcked[s][d] >= MaxPending
                          /\ \/ \E m \in Range(toServer[d][s]) : m.type = "PushAck"
                             \/ \E m \in Range(toClient[s][d]) : m.type = "PushRow"
    BY DEF HeldPushAwaitsAck
  <2>2. PushAccounted /\ ~CheckPushAll(s, pushAcked[s])
    BY <2>1 DEF PushWindowInv, PushHeld
  <2>3. PICK d \in Clients : ~(pushSent[s][d] - pushAcked[s][d] < MaxPending)
    BY <2>2 DEF CheckPushAll
  <2>4. pushSent[s][d] \in Nat /\ pushAcked[s][d] \in Nat /\ MaxPending \in Nat \ {0}
    BY <2>1, SSPAssumption DEF PushTypeOK, PushTypeServer
  <2>5. pushAcked[s][d] < pushSent[s][d] /\ pushSent[s][d] - pushAcked[s][d] >= MaxPending
    BY <2>3, <2>4
  <2>6. \/ \E m \in Range(toClient[s][d]) : m.type = "PushRow" /\ m.seq = pushSent[s][d]
        \/ \E m \in Range(toServer[d][s]) : m.type = "PushAck" /\ m.seq = pushSent[s][d]
    BY <2>2, <2>4, <2>5 DEF PushAccounted
  <2>. QED
    BY <2>5, <2>6
<1>. QED
  BY <1>1, PushWindowKept, PTL
-----------------------------------------------------------------------------
(* The versions in the channel to a client rise, from the one the client   *)
(* has acknowledged to the one the server has; and every batch that some   *)
(* server is not known to have is retained.                                *)
VersionsRise ==
  \A s \in Servers, c \in Clients :
    /\ acknowledged[c][s] <= sVersion[s][c]
    /\ Rising(toClient[s][c], acknowledged[c][s], sVersion[s][c])

RetainsAfter(acks, m, v) ==
  \A w \in Nat : Min(Range(acks)) < w /\ w < v => HasOpLog(m, w)

AllRetained == \A c \in Clients : RetainsAfter(acknowledged[c], pushMgr[c], version[c])

PushReplayInv == Running => VersionsRise /\ AllRetained

LEMMA LowestIs ==
  ASSUME NEW vec \in [Servers -> Int]
  PROVE  /\ Min(Range(vec)) \in Int
         /\ \E s \in Servers : Min(Range(vec)) = vec[s]
         /\ \A s \in Servers : Min(Range(vec)) <= vec[s]
<1>1. vec \in Surjection(Servers, Range(vec))
  BY DEF Surjection, Range
<1>2. IsFiniteSet(Range(vec))
  BY <1>1, SSPPushAssumption, FS_Surjection
<1>3. Range(vec) \subseteq Int /\ Range(vec) # {}
  BY SSPAssumption DEF Range
<1>4. Min(Range(vec)) \in Range(vec) /\ \A y \in Range(vec) : Min(Range(vec)) <= y
  BY <1>2, <1>3, MinIsLeast
<1>. QED
  BY <1>3, <1>4 DEF Range

LEMMA LowestRises ==
  ASSUME NEW vec \in [Servers -> Int], NEW new \in [Servers -> Int],
         \A s \in Servers : vec[s] <= new[s]
  PROVE  Min(Range(vec)) <= Min(Range(new))
<1>1. PICK s \in Servers : Min(Range(new)) = new[s]
  BY LowestIs
<1>2. Min(Range(vec)) \in Int /\ Min(Range(vec)) <= vec[s]
  BY LowestIs
<1>. QED
  BY <1>1, <1>2

LEMMA InitPushReplay == PushInit => PushReplayInv
<1>1. SUFFICES ASSUME PushInit PROVE VersionsRise /\ AllRetained
  BY DEF PushReplayInv
<1>2. VersionsRise
  BY <1>1 DEF PushInit, Init, VersionsRise, Rising
<1>3. AllRetained
  BY <1>1 DEF PushInit, Init, AllRetained, RetainsAfter
<1>. QED
  BY <1>2, <1>3

LEMMA RisingWider ==
  ASSUME NEW S, NEW q \in Seq(S), \A x \in S : x.version \in Int,
         NEW lo \in Int, NEW hi \in Int, NEW v \in Int, Rising(q, lo, hi), hi <= v
  PROVE  Rising(q, lo, v)
<1>1. \A i \in 1 .. Len(q) : q[i].version \in Int
  BY ElementOfSeq
<1>. QED
  BY <1>1 DEF Rising

(* What a server sends is of the version it now has.                       *)
LEMMA RisesWhenSent ==
  ASSUME PushTypeOK, PushTypeOK', VersionsRise, NEW s \in Servers, NEW out, Sends(s, out),
         UNCHANGED acknowledged,
         \A i \in Servers : \A d \in Clients : sVersion'[i][d] >= sVersion[i][d]
  PROVE  VersionsRise'
<1>1. SUFFICES ASSUME NEW i \in Servers, NEW d \in Clients
               PROVE  /\ acknowledged[d][i] <= sVersion'[i][d]
                      /\ Rising(toClient'[i][d], acknowledged[d][i], sVersion'[i][d])
  BY DEF VersionsRise
<1> DEFINE q  == toClient[i][d]
           e  == out[d]
           lo == acknowledged[d][i]
           hi == sVersion[i][d]
           v  == sVersion'[i][d]
<1>2. /\ q \in Seq(PushToClientMsgs) /\ lo \in Int /\ hi \in Int /\ v \in Int
      /\ lo <= hi /\ hi <= v /\ Rising(q, lo, hi)
  <2>1. /\ acknowledged \in [Clients -> [Servers -> Versions]]
        /\ sVersion \in [Servers -> [Clients -> Versions]]
        /\ sVersion' \in [Servers -> [Clients -> Versions]]
        /\ toClient \in [Servers -> [Clients -> Seq(PushToClientMsgs)]]
    BY DEF PushTypeOK, PushTypeNet, PushTypeBg, TypeServer
  <2>2. lo \in Int /\ hi \in Int /\ v \in Int /\ q \in Seq(PushToClientMsgs)
    BY <2>1 DEF Versions
  <2>3. hi <= v
    BY <2>2
  <2>. QED
    BY <2>2, <2>3 DEF VersionsRise
<1>3. \A x \in PushToClientMsgs : x.version \in Int
  BY PushMsgFields
<1>4. CASE i = s
  <2>1. /\ e \in Seq(PushToClientMsgs) /\ \A x \in Range(e) : x.version = v
        /\ toClient'[i][d] = q \o e
    BY <1>4 DEF Sends, PushTypeOK, PushTypeNet
  <2> HIDE DEF q, e, lo, hi, v
  <2>2. Rising(q \o e, lo, v)
    BY <1>2, <1>3, <2>1, RisingConcat
  <2>. QED
    BY <1>2, <2>1, <2>2 DEF lo, v
<1>5. CASE i # s
  <2>1. toClient'[i][d] = q
    BY <1>5 DEF Sends, PushTypeOK, PushTypeNet
  <2> HIDE DEF q, lo, hi, v
  <2>2. Rising(q, lo, v)
    BY <1>2, <1>3, RisingWider
  <2>. QED
    BY <1>2, <2>1, <2>2 DEF lo, v
<1>. QED
  BY <1>4, <1>5

(* A message that is taken says what its server has.                       *)
Taken(c, s) == toClient' = [toClient EXCEPT ![s][c] = Tail(@)]
Acknowledges(c, s) ==
  acknowledged' = [acknowledged EXCEPT ![c] = Acks(c, s, Head(toClient[s][c]).version)]

LEMMA RisesWhenTaken ==
  ASSUME PushTypeOK, PushTypeOK', VersionsRise, NEW c \in Clients, NEW s \in Servers,
         toClient[s][c] # << >>, Taken(c, s), Acknowledges(c, s), UNCHANGED sVersion
  PROVE  /\ VersionsRise'
         /\ \A d \in Clients, i \in Servers : acknowledged[d][i] <= acknowledged'[d][i]
<1> DEFINE q  == toClient[s][c]
           lo == acknowledged[c][s]
           hi == sVersion[s][c]
           v  == Head(q).version
<1>1. /\ q \in Seq(PushToClientMsgs) /\ q # << >> /\ lo \in Int /\ hi \in Int
      /\ Rising(q, lo, hi)
  BY DEF VersionsRise, PushTypeOK, PushTypeNet, PushTypeBg, TypeServer, Versions
<1>2. \A x \in PushToClientMsgs : x.version \in Int
  BY PushMsgFields
<1>3. Rising(Tail(q), v, hi) /\ lo <= v /\ v <= hi
  <2> HIDE DEF q, lo, hi
  <2>. QED
    BY <1>1, <1>2, RisingTail
<1>4. /\ toClient'[s][c] = Tail(q)
      /\ acknowledged'[c][s] = v
      /\ \A d \in Clients, i \in Servers : ~(d = c /\ i = s) =>
           toClient'[i][d] = toClient[i][d] /\ acknowledged'[d][i] = acknowledged[d][i]
  <2>1. /\ acknowledged \in [Clients -> [Servers -> Versions]]
        /\ toClient \in [Servers -> [Clients -> Seq(PushToClientMsgs)]]
    BY DEF PushTypeOK, PushTypeNet, PushTypeBg
  <2>2. /\ toClient'[s][c] = Tail(q)
        /\ \A d \in Clients, i \in Servers :
             ~(d = c /\ i = s) => toClient'[i][d] = toClient[i][d]
    BY <2>1 DEF Taken
  <2>3. /\ acknowledged'[c][s] = v
        /\ \A d \in Clients, i \in Servers :
             ~(d = c /\ i = s) => acknowledged'[d][i] = acknowledged[d][i]
    <3> HIDE DEF v
    <3>1. acknowledged' = [acknowledged EXCEPT ![c] = [acknowledged[c] EXCEPT ![s] = v]]
      BY DEF Acknowledges, Acks, v
    <3>. QED
      BY <2>1, <3>1
  <2>. QED
    BY <2>2, <2>3
<1> HIDE DEF q, lo, hi, v
<1>5. ASSUME NEW d \in Clients, NEW i \in Servers
      PROVE  /\ acknowledged'[d][i] <= sVersion[i][d]
             /\ Rising(toClient'[i][d], acknowledged'[d][i], sVersion[i][d])
             /\ acknowledged[d][i] <= acknowledged'[d][i]
  <2>1. CASE d = c /\ i = s
    BY <1>3, <1>4, <2>1 DEF lo, hi
  <2>2. CASE ~(d = c /\ i = s)
    <3>1. acknowledged[d][i] \in Int
      BY DEF PushTypeOK, PushTypeBg, Versions
    <3>. QED
      BY <1>4, <2>2, <3>1 DEF VersionsRise
  <2>. QED
    BY <2>1, <2>2
<1>. QED
  BY <1>5 DEF VersionsRise

(* What is given up is what all servers have, and what is sent is kept.    *)
LEMMA AcknowledgedKeeps ==
  ASSUME NEW acks \in [Servers -> Int], NEW new \in [Servers -> Int],
         \A s \in Servers : acks[s] <= new[s],
         NEW c, NEW m \in Managers, NEW v \in Nat, RetainsAfter(acks, m, v)
  PROVE  RetainsAfter(new, AcknowledgedByAll(c, new, m), v)
<1>1. Min(Range(acks)) <= Min(Range(new))
  BY LowestRises
<1>2. Min(Range(acks)) \in Int /\ Min(Range(new)) \in Int
  BY LowestIs
<1> DEFINE kept == AcknowledgedByAll(c, new, m).kept
<1>3. kept = { k \in m.kept : k.version > Min(Range(new)) }
  BY DEF AcknowledgedByAll, Managers
<1>4. SUFFICES ASSUME NEW w \in Nat, Min(Range(new)) < w, w < v
               PROVE  \E k \in kept : k.version = w
  BY DEF RetainsAfter, HasOpLog
<1>5. PICK k \in m.kept : k.version = w
  BY <1>1, <1>2, <1>4 DEF RetainsAfter, HasOpLog
<1>. QED
  BY <1>3, <1>4, <1>5

LEMMA TrackedKeeps ==
  ASSUME TypeBg, NEW c \in Clients, NEW acks, NEW m \in Managers,
         RetainsAfter(acks, m, version[c]),
         version'[c] = version[c] \/ version'[c] = version[c] + 1
  PROVE  RetainsAfter(acks, Tracked(c, m), version'[c])
<1>1. version[c] \in Nat
  BY DEF TypeBg
<1>2. CASE version'[c] = version[c]
  BY <1>2 DEF Tracked
<1>3. CASE version'[c] = version[c] + 1
  <2> DEFINE new == [version |-> version[c], log |-> Batch(c)]
  <2>1. Tracked(c, m) = [m EXCEPT !.kept = @ \cup {new}]
    BY <1>1, <1>3 DEF Tracked
  <2>2. Tracked(c, m).kept = m.kept \cup {new} /\ new.version = version[c]
    BY <2>1 DEF Managers
  <2> HIDE DEF new
  <2>3. SUFFICES ASSUME NEW w \in Nat, Min(Range(acks)) < w, w < version[c] + 1
                 PROVE  \E k \in Tracked(c, m).kept : k.version = w
    BY <1>3 DEF RetainsAfter, HasOpLog
  <2>4. CASE w = version[c]
    BY <2>2, <2>4
  <2>5. CASE w < version[c]
    BY <2>2, <2>3, <2>5 DEF RetainsAfter, HasOpLog
  <2>. QED
    BY <1>1, <2>3, <2>4, <2>5
<1>. QED
  BY <1>2, <1>3

LEMMA SameKept ==
  ASSUME NEW acks, NEW m, NEW n, NEW v, n.kept = m.kept, RetainsAfter(acks, m, v)
  PROVE  RetainsAfter(acks, n, v)
BY DEF RetainsAfter, HasOpLog

LEMMA AcknowledgedKeepsFor ==
  ASSUME PushTypeOK, AllRetained, NEW c \in Clients, NEW s \in Servers, NEW v \in Versions,
         acknowledged'[c] = Acks(c, s, v),
         \A d \in Clients, i \in Servers : acknowledged[d][i] <= acknowledged'[d][i]
  PROVE  RetainsAfter(acknowledged'[c], ServerAcknowledgeVersion(c, s, v), version[c])
<1> DEFINE acks == acknowledged[c]
           new  == Acks(c, s, v)
           m    == pushMgr[c]
<1>1. acks \in [Servers -> Int] /\ m \in Managers /\ version[c] \in Nat
  BY DEF PushTypeOK, PushTypeBg, TypeBg, Versions
<1>2. new \in [Servers -> Int]
  BY DEF PushTypeOK, PushTypeBg, Acks, Versions
<1>3. \A i \in Servers : acks[i] <= new[i]
  OBVIOUS
<1>4. RetainsAfter(acks, m, version[c])
  BY DEF AllRetained
<1> HIDE DEF acks, new, m
<1>5. RetainsAfter(new, AcknowledgedByAll(c, new, m), version[c])
  BY <1>1, <1>2, <1>3, <1>4, AcknowledgedKeeps
<1>. QED
  BY <1>5 DEF new, m, ServerAcknowledgeVersion

LEMMA BatchVersion ==
  ASSUME TypeBg, NEW c \in Clients, NEW advanced, NEW clk, NEW ack, NEW on,
         HandleClockMsg(c, advanced, clk, ack, on)
  PROVE  /\ version'[c] = version[c] \/ version'[c] = version[c] + 1
         /\ \A d \in Clients \ {c} : version'[d] = version[d]
<1>1. UNCHANGED version \/ version' = [version EXCEPT ![c] = @ + 1]
  BY DEF HandleClockMsg
<1>. QED
  BY <1>1 DEF TypeBg

OthersRetain(c) ==
  \A d \in Clients \ {c} : /\ acknowledged'[d] = acknowledged[d]
                           /\ pushMgr'[d] = pushMgr[d] /\ version'[d] = version[d]

LEMMA RetainedOf ==
  ASSUME AllRetained, NEW c \in Clients, OthersRetain(c),
         RetainsAfter(acknowledged'[c], pushMgr'[c], version'[c])
  PROVE  AllRetained'
<1>1. ASSUME NEW d \in Clients
      PROVE  RetainsAfter(acknowledged'[d], pushMgr'[d], version'[d])
  <2>1. CASE d = c
    BY <2>1
  <2>2. CASE d # c
    <3>1. RetainsAfter(acknowledged[d], pushMgr[d], version[d])
      BY DEF AllRetained
    <3>. QED
      BY <2>2, <3>1 DEF OthersRetain
  <2>. QED
    BY <2>1, <2>2
<1>. QED
  BY <1>1 DEF AllRetained

LEMMA PushBgBatchRetains ==
  ASSUME PushTypeOK, NEW t \in Threads, PushBgBatch(t), AllRetained
  PROVE  AllRetained'
<1> USE DEF PushTypeOK
<1> DEFINE c == ClientOf[t]
<1>1. c \in Clients
  BY SSPAssumption
<1>2. /\ acknowledged' = acknowledged
      /\ pushMgr' = [pushMgr EXCEPT ![c] = Tracked(c, pushMgr[c])]
      /\ \/ HandleClockMsg(c, TRUE, bgClock[c] + 1, acked[c], pend[c].on)
         \/ HandleClockMsg(c, FALSE, bgClock[c], acked[c], pend[c].on)
  BY DEF PushBgBatch, BgClock, BgSendOpLog
<1> HIDE DEF c
<1>3. /\ version'[c] = version[c] \/ version'[c] = version[c] + 1
      /\ \A d \in Clients \ {c} : version'[d] = version[d]
  BY <1>1, <1>2, BatchVersion
<1>4. pushMgr[c] \in Managers /\ pushMgr'[c] = Tracked(c, pushMgr[c])
  BY <1>1, <1>2 DEF PushTypeBg
<1>5. OthersRetain(c)
  BY <1>2, <1>3 DEF OthersRetain, PushTypeBg
<1>6. RetainsAfter(acknowledged[c], pushMgr[c], version[c])
  BY <1>1 DEF AllRetained
<1>7. RetainsAfter(acknowledged[c], Tracked(c, pushMgr[c]), version'[c])
  BY <1>1, <1>3, <1>4, <1>6, TrackedKeeps
<1>8. RetainsAfter(acknowledged'[c], pushMgr'[c], version'[c])
  BY <1>2, <1>4, <1>7
<1>. QED
  BY <1>1, <1>5, <1>8, RetainedOf

LEMMA PushBgOpLogAckRetains ==
  ASSUME PushTypeOK, PushTypeOK', NEW s \in Servers, NEW c \in Clients, PushBgOpLogAck(s, c),
         VersionsRise, AllRetained
  PROVE  VersionsRise' /\ AllRetained'
<1> USE DEF PushTypeOK
<1> DEFINE v     == Head(toClient[s][c]).version
           keeps == ServerAcknowledgeVersion(c, s, v)
<1>1. /\ toClient[s][c] # << >> /\ Taken(c, s) /\ Acknowledges(c, s) /\ UNCHANGED sVersion
      /\ pushMgr' = [pushMgr EXCEPT ![c] = Tracked(c, keeps)]
  BY DEF PushBgOpLogAck, BgOpLogAck, Taken, Acknowledges, serverVars
<1>2. /\ VersionsRise'
      /\ \A d \in Clients, i \in Servers : acknowledged[d][i] <= acknowledged'[d][i]
  BY <1>1, RisesWhenTaken
<1>3. acknowledged' = [acknowledged EXCEPT ![c] = Acks(c, s, v)]
  BY <1>1 DEF Acknowledges
<1>4. v \in Versions
  <2>1. v \in Int /\ Head(toClient[s][c]) \in PushToClientMsgs
    BY <1>1, PushHeadToClient, PushMsgFields
  <2>. QED
    BY <2>1 DEF PushToClientMsgs, RowReplyMsgs, AckMsgs, PushedMsgs, Versions
<1>5. /\ version'[c] = version[c] \/ version'[c] = version[c] + 1
      /\ \A d \in Clients \ {c} : version'[d] = version[d]
  <2>1. \/ UNCHANGED version
        \/ HandleClockMsg(c, pend[c].advanced, bgClock[c],
                          [acked[c] EXCEPT ![s] = Head(toClient[s][c]).seq], FALSE)
    BY DEF PushBgOpLogAck, BgOpLogAck
  <2>2. CASE UNCHANGED version
    BY <2>2
  <2> DEFINE ack == [acked[c] EXCEPT ![s] = Head(toClient[s][c]).seq]
             advanced == pend[c].advanced
             clk == bgClock[c]
  <2>3. CASE HandleClockMsg(c, advanced, clk, ack, FALSE)
    <3> HIDE DEF ack, advanced, clk
    <3>. QED
      BY <2>3, BatchVersion
  <2>. QED
    BY <2>1, <2>2, <2>3
<1> HIDE DEF v
<1>6. keeps \in Managers /\ Acks(c, s, v) \in [Servers -> Versions]
  BY <1>4, ServerAcknowledgeVersionType
<1>7. pushMgr'[c] = Tracked(c, keeps) /\ acknowledged'[c] = Acks(c, s, v)
  BY <1>1, <1>3 DEF PushTypeBg
<1>8. OthersRetain(c)
  BY <1>1, <1>3, <1>5 DEF OthersRetain, PushTypeBg
<1>9. RetainsAfter(acknowledged'[c], keeps, version[c])
  BY <1>2, <1>4, <1>7, AcknowledgedKeepsFor
<1> HIDE DEF keeps
<1>10. RetainsAfter(acknowledged'[c], Tracked(c, keeps), version'[c])
  BY <1>5, <1>6, <1>9, TrackedKeeps
<1>11. RetainsAfter(acknowledged'[c], pushMgr'[c], version'[c])
  BY <1>7, <1>10
<1>. QED
  BY <1>2, <1>8, <1>11, RetainedOf

LEMMA PushBgRowRequestRetains ==
  ASSUME PushTypeOK, NEW t \in Threads, PushBgRowRequest(t), AllRetained
  PROVE  AllRetained'
<1> USE DEF PushTypeOK
<1> DEFINE c == ClientOf[t]
           m == Head(toBg[t])
<1>1. c \in Clients
  BY SSPAssumption
<1>2. /\ UNCHANGED <<acknowledged, version>>
      /\ \/ UNCHANGED pushMgr
         \/ \E garbage \in BOOLEAN :
              pushMgr' = [pushMgr EXCEPT ![c] =
                AddRowRequest(pushMgr[c], m.row, t, m.clock, version[c] - 1, garbage)]
  BY DEF PushBgRowRequest
<1> HIDE DEF c, m
<1>3. CASE UNCHANGED pushMgr
  BY <1>2, <1>3 DEF AllRetained
<1>4. ASSUME NEW garbage \in BOOLEAN,
             pushMgr' = [pushMgr EXCEPT ![c] =
               AddRowRequest(pushMgr[c], m.row, t, m.clock, version[c] - 1, garbage)]
      PROVE  AllRetained'
  <2> DEFINE new == AddRowRequest(pushMgr[c], m.row, t, m.clock, version[c] - 1, garbage)
  <2>1. new.kept = pushMgr[c].kept
    BY <1>1 DEF AddRowRequest, PushTypeBg, Managers
  <2> HIDE DEF new
  <2>2. pushMgr'[c] = new /\ OthersRetain(c)
    BY <1>1, <1>2, <1>4 DEF new, OthersRetain, PushTypeBg
  <2>3. RetainsAfter(acknowledged[c], pushMgr[c], version[c])
    BY <1>1 DEF AllRetained
  <2>4. RetainsAfter(acknowledged[c], new, version[c])
    BY <2>1, <2>3, SameKept
  <2>5. RetainsAfter(acknowledged'[c], pushMgr'[c], version'[c])
    BY <1>2, <2>2, <2>4
  <2>. QED
    BY <1>1, <2>2, <2>5, RetainedOf
<1>. QED
  BY <1>2, <1>3, <1>4

LEMMA PushBgRowReplyRetains ==
  ASSUME PushTypeOK, PushTypeOK', NEW s \in Servers, NEW c \in Clients, PushBgRowReply(s, c),
         Running', VersionsRise, AllRetained
  PROVE  VersionsRise' /\ AllRetained'
<1> USE DEF PushTypeOK
<1> DEFINE m     == Head(toClient[s][c])
           v     == m.version
           keeps == ServerAcknowledgeVersion(c, s, v)
           left  == Popped(keeps, m.row, NumServed(keeps.reqs[m.row], m.clock))
           next  == ClockToRequest(left, m.row)
           new   == IF next < 0 THEN left ELSE [left EXCEPT !.reqs[m.row][1].sent = TRUE]
<1>1. /\ toClient[s][c] # << >> /\ m.type = "RowReply" /\ Taken(c, s) /\ Acknowledges(c, s)
      /\ UNCHANGED <<sVersion, version>>
      /\ pushMgr' = [pushMgr EXCEPT ![c] = new]
  BY DEF PushBgRowReply, Taken, Acknowledges, Running, serverVars
<1>2. /\ VersionsRise'
      /\ \A d \in Clients, i \in Servers : acknowledged[d][i] <= acknowledged'[d][i]
  BY <1>1, RisesWhenTaken
<1>3. acknowledged' = [acknowledged EXCEPT ![c] = Acks(c, s, v)]
  BY <1>1 DEF Acknowledges
<1>4. m \in RowReplyMsgs
  BY <1>1, PushHeadToClient DEF PushToClientMsgs, AckMsgs, PushedMsgs
<1> HIDE DEF m
<1>5. v \in Versions /\ m.row \in Rows /\ m.clock \in Nat
  BY <1>4 DEF RowReplyMsgs
<1> HIDE DEF v
<1>6. keeps \in Managers /\ Acks(c, s, v) \in [Servers -> Versions]
  BY <1>5, ServerAcknowledgeVersionType
<1>7. RetainsAfter(acknowledged'[c], keeps, version[c])
  BY <1>2, <1>3, <1>5, AcknowledgedKeepsFor DEF PushTypeBg
<1> HIDE DEF keeps
<1>8. left \in Managers /\ left.kept = keeps.kept
  BY <1>5, <1>6, PoppedType DEF Popped, Managers
<1> HIDE DEF left
<1>9. new.kept = keeps.kept
  <2> HIDE DEF next
  <2>. QED
    BY <1>8 DEF Managers
<1> HIDE DEF new
<1>10. pushMgr'[c] = new /\ OthersRetain(c)
  BY <1>1, <1>3 DEF OthersRetain, PushTypeBg
<1>11. RetainsAfter(acknowledged'[c], new, version[c])
  BY <1>7, <1>9, SameKept
<1>12. RetainsAfter(acknowledged'[c], pushMgr'[c], version'[c])
  BY <1>1, <1>10, <1>11
<1>. QED
  BY <1>2, <1>10, <1>12, RetainedOf

LEMMA PushBgRowsRetains ==
  ASSUME PushTypeOK, PushTypeOK', NEW s \in Servers, NEW c \in Clients, PushBgRows(s, c),
         VersionsRise, AllRetained
  PROVE  VersionsRise' /\ AllRetained'
<1> USE DEF PushTypeOK
<1> DEFINE m     == Head(toClient[s][c])
           v     == m.version
           keeps == ServerAcknowledgeVersion(c, s, v)
<1>1. /\ toClient[s][c] # << >> /\ Taken(c, s) /\ Acknowledges(c, s)
      /\ UNCHANGED <<sVersion, version>>
      /\ pushMgr' = [pushMgr EXCEPT ![c] = keeps]
      /\ m.type = "PushRow"
  BY DEF PushBgRows, Taken, Acknowledges, serverVars, bgVars
<1>2. /\ VersionsRise'
      /\ \A d \in Clients, i \in Servers : acknowledged[d][i] <= acknowledged'[d][i]
  BY <1>1, RisesWhenTaken
<1>3. acknowledged' = [acknowledged EXCEPT ![c] = Acks(c, s, v)]
  BY <1>1 DEF Acknowledges
<1>4. v \in Versions
  BY <1>1, PushHeadToClient DEF PushToClientMsgs, AckMsgs, RowReplyMsgs, PushedMsgs
<1> HIDE DEF m, v
<1>5. RetainsAfter(acknowledged'[c], keeps, version[c])
  BY <1>2, <1>3, <1>4, AcknowledgedKeepsFor DEF PushTypeBg
<1> HIDE DEF keeps
<1>6. pushMgr'[c] = keeps /\ OthersRetain(c)
  BY <1>1, <1>3 DEF OthersRetain, PushTypeBg
<1>7. RetainsAfter(acknowledged'[c], pushMgr'[c], version'[c])
  BY <1>1, <1>5, <1>6
<1>. QED
  BY <1>2, <1>6, <1>7, RetainedOf

LEMMA StepReplay ==
  ASSUME PushTypeOK, PushTypeOK', PushStep, PushReplayInv
  PROVE  PushReplayInv'
<1>1. SUFFICES ASSUME Running' PROVE VersionsRise' /\ AllRetained'
  BY DEF PushReplayInv
<1>2. VersionsRise /\ AllRetained
  BY StepRuns DEF PushReplayInv
<1>3. CASE ThreadStep
  <2>1. UNCHANGED <<toClient, acknowledged, sVersion, pushMgr, version>>
    BY <1>3, ThreadStepIs DEF bgVars, serverVars
  <2>. QED
    BY <1>2, <2>1 DEF VersionsRise, AllRetained
<1>4. ASSUME NEW t \in Threads, PushBgBatch(t) \/ PushBgRowRequest(t)
      PROVE  VersionsRise' /\ AllRetained'
  <2>1. UNCHANGED <<toClient, acknowledged, sVersion>>
    BY <1>4, BatchSends, BgRowRequestSends DEF serverVars
  <2>2. VersionsRise'
    BY <1>2, <2>1 DEF VersionsRise
  <2>3. AllRetained'
    BY <1>2, <1>4, PushBgBatchRetains, PushBgRowRequestRetains
  <2>. QED
    BY <2>2, <2>3
<1>5. ASSUME NEW c \in Clients, NEW s \in Servers,
             PushBgOpLogAck(s, c) \/ PushBgRowReply(s, c) \/ PushBgRows(s, c)
      PROVE  VersionsRise' /\ AllRetained'
  BY <1>1, <1>2, <1>5, PushBgOpLogAckRetains, PushBgRowReplyRetains, PushBgRowsRetains
<1>6. ASSUME NEW c \in Clients, NEW s \in Servers, FromServer(c, s)
      PROVE  VersionsRise' /\ AllRetained'
  <2>1. /\ \E out : Sends(s, out)
        /\ UNCHANGED <<acknowledged, pushMgr, version>>
        /\ \A i \in Servers : \A d \in Clients : sVersion'[i][d] >= sVersion[i][d]
    BY <1>1, <1>6, FromServerIs DEF bgVars, pushClientVars
  <2>2. VersionsRise'
    BY <1>2, <2>1, RisesWhenSent
  <2>3. AllRetained'
    BY <1>2, <2>1 DEF AllRetained
  <2>. QED
    BY <2>2, <2>3
<1>. QED
  BY <1>3, <1>4, <1>5, <1>6, StepCases

(* Every step keeps the versions in order and the batches retained.        *)
LEMMA PushReplayKept == PushSpec => [](PushTypeOK /\ PushReplayInv)
<1>1. PushTypeOK /\ PushTypeOK' /\ PushReplayInv /\ [PushNext]_pushVars => PushReplayInv'
  <2>1. SUFFICES ASSUME PushTypeOK, PushTypeOK', PushReplayInv, [PushNext]_pushVars
                 PROVE  PushReplayInv'
    OBVIOUS
  <2>2. CASE PushStep
    BY <2>1, <2>2, StepReplay
  <2>3. CASE UNCHANGED pushVars
    <3>1. UNCHANGED <<failed, toClient, acknowledged, sVersion, pushMgr, version>>
      BY <2>3 DEF pushVars, vars, netVars, histVars, bgVars, serverVars, pushClientVars
    <3>. QED
      BY <2>1, <3>1 DEF PushReplayInv, Running, VersionsRise, AllRetained
  <2>. QED
    BY <2>1, <2>2, <2>3 DEF PushNext, PushRest
<1>2. PushTypeOK /\ [PushNext]_pushVars => PushTypeOK'
  BY PushStepType, PushStutterType DEF PushNext, PushRest
<1>. QED
  BY InitPushType, InitPushReplay, <1>1, <1>2, PTL DEF PushSpec

(* Every value on its way to a client can be brought up to date when it    *)
(* arrives, for every configuration: the batches it lacks are retained,    *)
(* although whatever all servers have acknowledged is given up.            *)
THEOREM RetainedWhenNeeded == PushSpec => []RetainedForReplay
<1>1. PushTypeOK /\ PushReplayInv => RetainedForReplay
  <2>1. SUFFICES ASSUME PushTypeOK, PushReplayInv, Running, NEW c \in Clients,
                        NEW s \in Servers, NEW i \in DOMAIN toClient[s][c],
                        NEW w \in (toClient[s][c][i].version + 1) .. (version[c] - 1)
                 PROVE  HasOpLog(pushMgr[c], w)
    BY DEF RetainedForReplay, CannotReplay
  <2>2. VersionsRise /\ AllRetained
    BY <2>1 DEF PushReplayInv
  <2>3. /\ acknowledged[c] \in [Servers -> Int] /\ acknowledged[c][s] \in Versions
        /\ toClient[s][c] \in Seq(PushToClientMsgs) /\ version[c] \in Nat
    BY <2>1 DEF PushTypeOK, PushTypeBg, PushTypeNet, TypeBg, Versions
  <2>4. i \in 1 .. Len(toClient[s][c]) /\ toClient[s][c][i] \in PushToClientMsgs
    BY <2>3
  <2>5. toClient[s][c][i].version \in Int
    BY <2>4, PushMsgFields
  <2>6. acknowledged[c][s] <= toClient[s][c][i].version
    BY <2>2, <2>4 DEF VersionsRise, Rising
  <2>7. Min(Range(acknowledged[c])) \in Int /\ Min(Range(acknowledged[c])) <= acknowledged[c][s]
    BY <2>3, LowestIs
  <2>8. w \in Nat /\ Min(Range(acknowledged[c])) < w /\ w < version[c]
    BY <2>1, <2>3, <2>5, <2>6, <2>7 DEF Versions
  <2>. QED
    BY <2>2, <2>8 DEF AllRetained, RetainsAfter
<1>. QED
  BY <1>1, PushReplayKept, PTL
-----------------------------------------------------------------------------
(* Requests, as in SSP: a thread waits for one request, which is on its    *)
(* way to the worker or listed by its pushMgr, and for no other.  A thread *)
(* in WaitSystemClock has asked for nothing yet, so nothing wakes it.      *)
PushUnlisted(t) == \A e \in Entries(pushMgr[ClientOf[t]]) : e.thread # t

PushListedWait ==
  \A c \in Clients : ListedOnce(pushMgr[c]) /\ \A e \in Entries(pushMgr[c]) : Awaits(c, e)

PushAskersWait ==
  \A t \in Threads : Asks(t) => pc[t] = "waiting" /\ PushUnlisted(t) /\ AsksOnce(t)

PushRequestsInv == PushListedWait /\ PushAskersWait

LEMMA PushInitRequests == PushInit => PushRequestsInv
<1>1. SUFFICES ASSUME PushInit PROVE PushListedWait /\ PushAskersWait
  BY DEF PushRequestsInv
<1>2. \A c \in Clients : Places(pushMgr[c]) = {}
  BY <1>1 DEF PushInit, NoRequests, Places
<1>3. \A t \in Threads : ~Asks(t)
  BY <1>1 DEF PushInit, Init, Asks
<1>. QED
  BY <1>2, <1>3 DEF PushListedWait, PushAskersWait, ListedOnce, Entries

LEMMA PushOthersFree ==
  ASSUME PushRequestsInv, NEW t \in Threads, pc[t] # "waiting"
  PROVE  ~Asks(t) /\ PushUnlisted(t)
<1>1. ClientOf[t] \in Clients
  BY SSPAssumption
<1>. QED
  BY <1>1 DEF PushRequestsInv, PushAskersWait, PushListedWait, Awaits, PushUnlisted

(* A step that lists no request.                                           *)
PushUnlisting ==
  \A c \in Clients : ListedOnce(pushMgr'[c]) /\ Entries(pushMgr'[c]) \subseteq Entries(pushMgr[c])

LEMMA PushRequestsKept ==
  ASSUME PushTypeOK, PushRequestsInv, PushUnlisting,
         \A t \in Threads :
           \/ Unmoved(t)
           \/ PushUnlisted(t)' /\ (Asks(t)' => pc'[t] = "waiting" /\ AsksOnce(t)')
  PROVE  PushRequestsInv'
<1>1. PushListedWait'
  <2>1. ASSUME NEW c \in Clients, NEW e \in Entries(pushMgr'[c])
        PROVE  Awaits(c, e)'
    <3>1. Awaits(c, e)
      BY DEF PushUnlisting, PushRequestsInv, PushListedWait
    <3>2. ~PushUnlisted(e.thread)'
      BY <3>1 DEF Awaits, PushUnlisted
    <3>3. Unmoved(e.thread)
      BY <3>1, <3>2 DEF Awaits
    <3>. QED
      BY <3>1, <3>3 DEF Awaits, Unmoved
  <2>. QED
    BY <2>1 DEF PushListedWait, PushUnlisting
<1>2. ASSUME NEW t \in Threads, Unmoved(t), Asks(t)'
      PROVE  pc'[t] = "waiting" /\ PushUnlisted(t)' /\ AsksOnce(t)'
  <2>1. toBg[t] \in Seq(ToBgMsgs)
    BY DEF PushTypeOK, PushTypeNet, ToBgMsgs
  <2>2. Asks(t) /\ AsksOnce(t)'
    <3>1. Asks(t) => AsksOnce(t)
      BY DEF PushRequestsInv, PushAskersWait
    <3>. QED
      BY <1>2, <2>1, <3>1, AsksKept
  <2>3. ClientOf[t] \in Clients
    BY SSPAssumption
  <2>. QED
    BY <1>2, <2>2, <2>3 DEF Unmoved, PushRequestsInv, PushAskersWait, PushUnlisted, PushUnlisting
<1>3. PushAskersWait'
  BY <1>2 DEF PushAskersWait
<1>. QED
  BY <1>1, <1>3 DEF PushRequestsInv

LEMMA PushSameReqs ==
  ASSUME PushRequestsInv, \A c \in Clients : pushMgr'[c].reqs = pushMgr[c].reqs
  PROVE  PushUnlisting
<1>1. ASSUME NEW c \in Clients
      PROVE  ListedOnce(pushMgr'[c]) /\ Entries(pushMgr'[c]) = Entries(pushMgr[c])
  <2>1. Places(pushMgr'[c]) = Places(pushMgr[c]) /\ \A p : EntryAt(pushMgr'[c], p) = EntryAt(pushMgr[c], p)
    BY DEF Places, EntryAt
  <2>. QED
    BY <2>1 DEF PushRequestsInv, PushListedWait, ListedOnce, Entries
<1>. QED
  BY <1>1 DEF PushUnlisting

LEMMA PushQuietRequests ==
  ASSUME PushTypeOK, PushRequestsInv, UNCHANGED <<pc, want, toBg>>,
         \A c \in Clients : pushMgr'[c].reqs = pushMgr[c].reqs
  PROVE  PushRequestsInv'
BY PushSameReqs, PushRequestsKept DEF Unmoved

(* A thread that does not wait goes on, asks for a row, or tells its       *)
(* worker something else.                                                  *)
LEMMA PushGoesOnRequests ==
  ASSUME PushTypeOK, PushRequestsInv, UNCHANGED pushMgr, NEW t \in Threads, pc[t] # "waiting",
         \A u \in Threads : u # t => Unmoved(u),
         \/ toBg'[t] = toBg[t]
         \/ \E m \in ClockMsgs : toBg'[t] = Append(toBg[t], m)
         \/ /\ pc'[t] = "waiting"
            /\ RowRequestMsg(want'[t].row, want'[t].clock) \in RowRequestMsgs
            /\ toBg'[t] = Append(toBg[t], RowRequestMsg(want'[t].row, want'[t].clock))
  PROVE  PushRequestsInv'
<1>1. ~Asks(t) /\ PushUnlisted(t)
  BY PushOthersFree
<1>2. PushUnlisted(t)' /\ PushUnlisting
  BY <1>1, PushSameReqs DEF PushUnlisted
<1>3. Asks(t)' => pc'[t] = "waiting" /\ AsksOnce(t)'
  BY <1>1, AskAppended DEF PushTypeOK, PushTypeNet, ToBgMsgs
<1>. QED
  BY <1>2, <1>3, PushRequestsKept

LEMMA PushRequestTaken ==
  ASSUME PushTypeOK, PushRequestsInv, NEW t \in Threads,
         toBg[t] # << >>, Head(toBg[t]).type = "RowRequest",
         toBg' = [toBg EXCEPT ![t] = Tail(@)]
  PROVE  /\ pc[t] = "waiting" /\ PushUnlisted(t)
         /\ Head(toBg[t]) = RowRequestMsg(want[t].row, want[t].clock)
         /\ ~Asks(t)'
<1>1. toBg[t] \in Seq(ToBgMsgs) /\ toBg'[t] = Tail(toBg[t])
  BY DEF PushTypeOK, PushTypeNet, ToBgMsgs
<1>2. Asks(t) => pc[t] = "waiting" /\ PushUnlisted(t) /\ AsksOnce(t)
  BY DEF PushRequestsInv, PushAskersWait
<1>. QED
  BY <1>1, <1>2, AskTaken
(* The requests an answer leaves are those behind the ones it meets.       *)
LEMMA PoppedLeaves ==
  ASSUME NEW m \in Managers, NEW r \in Rows, NEW k \in Nat,
         NEW left, left = Popped(m, r, NumServed(m.reqs[r], k)),
         NEW new, \/ new = left
                  \/ /\ left.reqs[r] # << >>
                     /\ new = [left EXCEPT !.reqs[r][1].sent = TRUE]
  PROVE  ServedGone(new.reqs, m.reqs, r, NumServed(m.reqs[r], k))
<1> DEFINE list == m.reqs[r]
           n    == NumServed(list, k)
           rest == SubSeq(list, n + 1, Len(list))
<1>1. list \in Seq(Requests)
  BY DEF Managers
<1>2. n \in 0 .. Len(list) /\ Len(list) \in Nat
  <2> HIDE DEF list
  <2>. QED
    BY <1>1, NumServedType
<1>3. left.reqs = [m.reqs EXCEPT ![r] = rest] /\ left \in Managers
  <2>1. left \in Managers
    BY PoppedType
  <2>. QED
    BY <2>1 DEF Popped, Managers
<1>4. left.reqs[r] = rest /\ (\A x \in Rows : x # r => left.reqs[x] = m.reqs[x])
  BY <1>3 DEF Managers
<1> HIDE DEF list, n
<1>5. /\ Len(rest) = Len(list) - n
      /\ \A i \in 1 .. Len(list) - n : rest[i] = list[n + i]
      /\ rest \in Seq(Requests)
  <2>1. \A i \in n + 1 .. Len(list) : list[i] \in Requests
    BY <1>1, <1>2, ElementOfSeq
  <2>2. /\ Len(rest) = IF n + 1 <= Len(list) THEN Len(list) - (n + 1) + 1 ELSE 0
        /\ \A i \in 1 .. Len(list) - (n + 1) + 1 : rest[i] = list[n + 1 + i - 1]
        /\ rest \in Seq(Requests)
    <3>1. n + 1 \in 1 .. Len(list) + 1 /\ Len(list) \in Nat
      BY <1>2
    <3>. QED
      BY SMTT(20), <1>1, <2>1, <3>1, SubSeqProperties
  <2> HIDE DEF rest
  <2>3. \A i \in 1 .. Len(list) - n : i \in 1 .. Len(list) - (n + 1) + 1 /\ n + 1 + i - 1 = n + i
    BY <1>2
  <2>4. Len(rest) = Len(list) - n
    BY <1>2, <2>2
  <2>. QED
    BY <2>2, <2>3, <2>4
<1> HIDE DEF rest
<1>6. CASE new = left
  BY <1>4, <1>5, <1>6 DEF ServedGone, list, n
<1>7. CASE left.reqs[r] # << >> /\ new = [left EXCEPT !.reqs[r][1].sent = TRUE]
  <2> DEFINE front == [rest[1] EXCEPT !.sent = TRUE]
  <2>1. rest[1] \in Requests /\ 1 \in 1 .. Len(rest)
    BY <1>4, <1>5, <1>7
  <2>2. front.thread = rest[1].thread /\ front.clock = rest[1].clock
    BY <2>1 DEF Requests
  <2>3. new.reqs = [left.reqs EXCEPT ![r] = [rest EXCEPT ![1] = front]]
    BY <1>3, <1>4, <1>7 DEF Managers
  <2> HIDE DEF front
  <2>4. /\ new.reqs[r] = [rest EXCEPT ![1] = front]
        /\ \A x \in Rows : x # r => new.reqs[x] = m.reqs[x]
    BY <1>3, <1>4, <2>3 DEF Managers
  <2>5. /\ Len(new.reqs[r]) = Len(rest)
        /\ \A i \in 1 .. Len(rest) : /\ new.reqs[r][i].thread = rest[i].thread
                                     /\ new.reqs[r][i].clock = rest[i].clock
    <3> DEFINE now == new.reqs[r]
    <3>1. now = [rest EXCEPT ![1] = front]
      BY <2>4
    <3> HIDE DEF now
    <3>2. Len(now) = Len(rest)
      BY <1>5, <3>1
    <3>3. now[1] = front /\ \A i \in 1 .. Len(rest) : i # 1 => now[i] = rest[i]
      BY <1>5, <2>1, <3>1
    <3>4. \A i \in 1 .. Len(rest) : now[i].thread = rest[i].thread /\ now[i].clock = rest[i].clock
      BY <2>2, <3>3
    <3>. QED
      BY <3>2, <3>4 DEF now
  <2>. QED
    BY <1>5, <2>4, <2>5 DEF ServedGone, list, n
<1>. QED
  BY <1>6, <1>7

(* What the worker asks the server for anew is what a listed thread wants. *)
LEMMA AskedAnewIsListed ==
  ASSUME NEW m \in Managers, NEW r \in Rows, ~(ClockToRequest(m, r) < 0)
  PROVE  \E e \in Entries(m) : e.row = r /\ e.clock = ClockToRequest(m, r)
<1> DEFINE list == m.reqs[r]
<1>1. ClockToRequest(m, r) \in Clocks \cup {-1} /\ (ClockToRequest(m, r) >= 0 => list # << >>)
  BY ClockToRequestType
<1>2. ClockToRequest(m, r) # -1
  OBVIOUS
<1>3. ClockToRequest(m, r) = Head(list).clock /\ list # << >>
  BY <1>1, <1>2 DEF ClockToRequest
<1>4. list \in Seq(Requests)
  BY DEF Managers
<1>5. list[1] = Head(list) /\ 1 \in 1 .. Len(list)
  <2> HIDE DEF list
  <2>. QED
    BY <1>3, <1>4
<1>6. << r, 1 >> \in Places(m)
  BY <1>5 DEF Places
<1>7. EntryAt(m, << r, 1 >>).row = r /\ EntryAt(m, << r, 1 >>).clock = ClockToRequest(m, r)
  BY <1>3, <1>5 DEF EntryAt
<1>. QED
  BY <1>6, <1>7 DEF Entries

(* Find returns a row, or its thread asks for it and waits.                *)
FoundOrAsked(t, r, k) ==
  \/ pc'[t] = "run" /\ toBg'[t] = toBg[t]
  \/ /\ pc'[t] = "waiting" /\ want'[t].row = r /\ want'[t].clock = k
     /\ toBg'[t] = Append(toBg[t], RowRequestMsg(r, k))

LEMMA FindOrRequestAsks ==
  ASSUME PushTypeOK, NEW t \in Threads, NEW r, NEW k, NEW n, FindOrRequest(t, r, k, n)
  PROVE  FoundOrAsked(t, r, k) /\ \A u \in Threads : u # t => Unmoved(u)
<1>1. /\ pc \in [Threads -> {"run", "flushed", "blocked", "waiting", "woken"}]
      /\ want \in [Threads -> [row : Rows, clock : Clocks, fetches : 0 .. 3, since : 0 .. MaxEvict]]
      /\ toBg \in [Threads -> Seq(RowRequestMsgs \cup ClockMsgs)]
  BY DEF PushTypeOK, PushTypeApp, PushTypeNet
<1>2. CASE /\ pc' = [pc EXCEPT ![t] = "run"] /\ want' = [want EXCEPT ![t] = NoWant]
           /\ UNCHANGED toBg
  BY <1>1, <1>2 DEF FoundOrAsked, Unmoved
<1>3. CASE /\ pc' = [pc EXCEPT ![t] = "waiting"]
           /\ want' = [want EXCEPT ![t] = [row |-> r, clock |-> k, fetches |-> n, since |-> 0]]
           /\ toBg' = [toBg EXCEPT ![t] = Append(@, RowRequestMsg(r, k))]
  <2>1. \A u \in Threads : u # t => Unmoved(u)
    BY <1>1, <1>3 DEF Unmoved
  <2>2. want'[t].row = r /\ want'[t].clock = k /\ pc'[t] = "waiting"
        /\ toBg'[t] = Append(toBg[t], RowRequestMsg(r, k))
    BY <1>1, <1>3
  <2>. QED
    BY <2>1, <2>2 DEF FoundOrAsked
<1>. QED
  BY <1>2, <1>3 DEF FindOrRequest

(* How a step of a thread leaves the threads, their requests and what they *)
(* know of the clocks: a thread asks for a row only when the system clock  *)
(* it has read has reached the clock it wants, or when it was woken.       *)
ThreadGoesOn(t) ==
  /\ pc[t] # "waiting"
  /\ \A u \in Threads : u # t => Unmoved(u) /\ cached'[u] = cached[u]
  /\ cached'[t] = cached[t] \/ cached'[t] = systemClock[ClientOf[t]]
  /\ \/ toBg'[t] = toBg[t] /\ pc'[t] \in {"run", "flushed", "blocked"}
     \/ /\ \E m \in ClockMsgs : toBg'[t] = Append(toBg[t], m)
        /\ pc'[t] = "run"
     \/ \E r \in Rows, k \in Clocks :
          /\ FoundOrAsked(t, r, k)
          /\ \/ k <= cached'[t]
             \/ pc[t] = "woken" /\ k = want[t].clock

LEMMA GetGoesOn ==
  ASSUME PushTypeOK, NEW t \in Threads,
         \/ \E r \in Rows : PushGet(t, r) \/ PushGetBlock(t, r)
         \/ PushGetUnblock(t) \/ PushGetResume(t)
  PROVE  UNCHANGED <<pc, want, toBg, cached>> \/ ThreadGoesOn(t)
<1>1. /\ pc \in [Threads -> {"run", "flushed", "blocked", "waiting", "woken"}]
      /\ want \in [Threads -> [row : Rows, clock : Clocks, fetches : 0 .. 3, since : 0 .. MaxEvict]]
      /\ cached \in [Threads -> Int] /\ systemClock[ClientOf[t]] \in Int
      /\ StalestClock(t) \in Clocks
  BY SSPAssumption, PushStalestClockType DEF PushTypeOK, PushTypeApp, PushTypeBg
<1>2. \A k \in Clocks : k \in Int
  BY SSPAssumption DEF Clocks
<1>3. want[t].row \in Rows /\ want[t].clock \in Clocks
  BY <1>1
<1>4. ASSUME NEW r \in Rows, PushGet(t, r)
      PROVE  ThreadGoesOn(t)
  <2>1. /\ pc[t] = "run" /\ FindOrRequest(t, r, StalestClock(t), 0)
        /\ cached[t] >= StalestClock(t) \/ systemClock[ClientOf[t]] >= StalestClock(t)
        /\ cached' = [cached EXCEPT ![t] = IF @ < StalestClock(t) THEN systemClock[ClientOf[t]] ELSE @]
    BY <1>4 DEF PushGet, SystemClock
  <2>2. /\ \A u \in Threads : u # t => cached'[u] = cached[u]
        /\ cached'[t] = IF cached[t] < StalestClock(t) THEN systemClock[ClientOf[t]] ELSE cached[t]
    BY <1>1, <2>1
  <2>3. StalestClock(t) <= cached'[t] /\ (cached'[t] = cached[t] \/ cached'[t] = systemClock[ClientOf[t]])
    BY <1>1, <1>2, <2>1, <2>2
  <2>4. FoundOrAsked(t, r, StalestClock(t)) /\ \A u \in Threads : u # t => Unmoved(u)
    BY <2>1, FindOrRequestAsks
  <2>. QED
    BY <1>1, <2>1, <2>2, <2>3, <2>4 DEF ThreadGoesOn
<1>5. ASSUME NEW r \in Rows, PushGetBlock(t, r)
      PROVE  ThreadGoesOn(t)
  <2> DEFINE w == [row |-> r, clock |-> StalestClock(t), fetches |-> 0, since |-> 0]
  <2>1. /\ pc[t] = "run" /\ pc' = [pc EXCEPT ![t] = "blocked"]
        /\ want' = [want EXCEPT ![t] = w] /\ UNCHANGED <<toBg, cached>>
    BY <1>5 DEF PushGetBlock
  <2> HIDE DEF w
  <2>2. pc'[t] = "blocked" /\ \A u \in Threads : u # t => Unmoved(u)
    BY <1>1, <2>1 DEF Unmoved
  <2>. QED
    BY <2>1, <2>2 DEF ThreadGoesOn
<1>6. CASE PushGetUnblock(t)
  <2>1. /\ pc[t] = "blocked" /\ FindOrRequest(t, want[t].row, want[t].clock, 0)
        /\ systemClock[ClientOf[t]] >= want[t].clock
        /\ cached' = [cached EXCEPT ![t] = systemClock[ClientOf[t]]]
    BY <1>6 DEF PushGetUnblock, SystemClock
  <2>2. /\ \A u \in Threads : u # t => cached'[u] = cached[u]
        /\ cached'[t] = systemClock[ClientOf[t]]
    BY <1>1, <2>1
  <2>3. want[t].clock <= cached'[t]
    BY <1>1, <1>2, <1>3, <2>1, <2>2
  <2>4. FoundOrAsked(t, want[t].row, want[t].clock) /\ \A u \in Threads : u # t => Unmoved(u)
    BY <2>1, FindOrRequestAsks
  <2>. QED
    BY <1>3, <2>1, <2>2, <2>3, <2>4 DEF ThreadGoesOn
<1>7. CASE PushGetResume(t)
  <2>1. /\ pc[t] = "woken" /\ UNCHANGED cached
        /\ \/ UNCHANGED <<pc, want, toBg>>
           \/ FindOrRequest(t, want[t].row, want[t].clock, want[t].fetches + 1)
    BY <1>7 DEF PushGetResume
  <2>2. CASE FindOrRequest(t, want[t].row, want[t].clock, want[t].fetches + 1)
    <3>1. FoundOrAsked(t, want[t].row, want[t].clock) /\ \A u \in Threads : u # t => Unmoved(u)
      BY <2>2, FindOrRequestAsks
    <3>. QED
      BY <1>3, <2>1, <3>1 DEF ThreadGoesOn
  <2>. QED
    BY <2>1, <2>2
<1>. QED
  BY <1>4, <1>5, <1>6, <1>7

LEMMA ThreadStepGoesOn ==
  ASSUME PushTypeOK, ThreadStep
  PROVE  UNCHANGED <<pc, want, toBg, cached>> \/ \E t \in Threads : ThreadGoesOn(t)
<1>1. /\ pc \in [Threads -> {"run", "flushed", "blocked", "waiting", "woken"}]
      /\ want \in [Threads -> [row : Rows, clock : Clocks, fetches : 0 .. 3, since : 0 .. MaxEvict]]
      /\ toBg \in [Threads -> Seq(RowRequestMsgs \cup ClockMsgs)]
  BY DEF PushTypeOK, PushTypeApp, PushTypeNet
<1>2. ASSUME NEW t \in Threads, NEW r \in Rows, PushInc(t, r)
      PROVE  UNCHANGED <<pc, want, toBg, cached>>
  BY <1>2 DEF PushInc, Inc, UnchangedByBase, netVars
<1>3. ASSUME NEW c \in Clients, NEW r \in Rows, PushEvict(c, r)
      PROVE  UNCHANGED <<pc, want, toBg, cached>>
  BY <1>3 DEF PushEvict, Evict, UnchangedByBase, appVars, netVars
<1>4. ASSUME NEW t \in Threads, PushClockFlush(t)
      PROVE  ThreadGoesOn(t)
  <2>1. /\ UNCHANGED <<toBg, want, cached>> /\ pc[t] = "run" /\ pc' = [pc EXCEPT ![t] = "flushed"]
    BY <1>4 DEF PushClockFlush, ClockFlush, UnchangedByBase, netVars
  <2>2. pc'[t] = "flushed" /\ \A u \in Threads : u # t => Unmoved(u)
    BY <1>1, <2>1 DEF Unmoved
  <2>. QED
    BY <2>1, <2>2 DEF ThreadGoesOn
<1>5. ASSUME NEW t \in Threads, PushClockTick(t)
      PROVE  ThreadGoesOn(t)
  <2>1. /\ UNCHANGED <<want, cached>> /\ pc[t] = "flushed" /\ pc' = [pc EXCEPT ![t] = "run"]
        /\ \/ UNCHANGED toBg
           \/ \E m \in ClockMsgs : toBg' = [toBg EXCEPT ![t] = Append(@, m)]
    BY <1>5 DEF PushClockTick, ClockTick, UnchangedByBase, ClockMsgs
  <2>2. pc'[t] = "run" /\ \A u \in Threads : u # t => Unmoved(u)
    BY <1>1, <2>1 DEF Unmoved
  <2>3. toBg'[t] = toBg[t] \/ \E m \in ClockMsgs : toBg'[t] = Append(toBg[t], m)
    BY <1>1, <2>1
  <2>. QED
    BY <2>1, <2>2, <2>3 DEF ThreadGoesOn
<1>. QED
  BY <1>2, <1>3, <1>4, <1>5, GetGoesOn DEF ThreadStep

LEMMA ThreadRequests ==
  ASSUME PushTypeOK, PushRequestsInv, ThreadStep
  PROVE  PushRequestsInv'
<1>1. UNCHANGED pushMgr
  BY ThreadStepIs
<1>2. CASE UNCHANGED <<pc, want, toBg, cached>>
  BY <1>1, <1>2, PushQuietRequests
<1>3. ASSUME NEW t \in Threads, ThreadGoesOn(t)
      PROVE  PushRequestsInv'
  <2>1. pc[t] # "waiting" /\ \A u \in Threads : u # t => Unmoved(u)
    BY <1>3 DEF ThreadGoesOn
  <2>2. \/ toBg'[t] = toBg[t]
        \/ \E m \in ClockMsgs : toBg'[t] = Append(toBg[t], m)
        \/ /\ pc'[t] = "waiting"
           /\ RowRequestMsg(want'[t].row, want'[t].clock) \in RowRequestMsgs
           /\ toBg'[t] = Append(toBg[t], RowRequestMsg(want'[t].row, want'[t].clock))
    BY <1>3, RowRequestMsgType DEF ThreadGoesOn, FoundOrAsked
  <2>. QED
    BY <1>1, <2>1, <2>2, PushGoesOnRequests
<1>. QED
  BY <1>2, <1>3, ThreadStepGoesOn

(* The steps of the worker.                                                *)
LEMMA PushSameEntries ==
  ASSUME NEW c, NEW acks, NEW m \in Managers
  PROVE  /\ Tracked(c, m).reqs = m.reqs
         /\ AcknowledgedByAll(c, acks, m).reqs = m.reqs
BY DEF Tracked, AcknowledgedByAll, Managers

LEMMA PushBgBatchRequests ==
  ASSUME PushTypeOK, PushRequestsInv, NEW t \in Threads, PushBgBatch(t)
  PROVE  PushRequestsInv'
<1>1. /\ UNCHANGED <<pc, want>> /\ toBg[t] # << >>
      /\ toBg' = [toBg EXCEPT ![t] = Tail(@)]
  BY DEF PushBgBatch, BgClock, BgSendOpLog, appVars
<1>2. \A c \in Clients : pushMgr'[c].reqs = pushMgr[c].reqs
  <2>1. pushMgr' = [pushMgr EXCEPT ![ClientOf[t]] = Tracked(ClientOf[t], @)]
    BY DEF PushBgBatch
  <2>2. pushMgr \in [Clients -> Managers]
    BY DEF PushTypeOK, PushTypeBg
  <2>. QED
    BY <2>1, <2>2, PushSameEntries
<1>3. \A u \in Threads : Unmoved(u)
  BY <1>1 DEF Unmoved, PushTypeOK, PushTypeNet
<1>. QED
  BY <1>2, <1>3, PushSameReqs, PushRequestsKept

LEMMA PushBgOpLogAckRequests ==
  ASSUME PushTypeOK, PushRequestsInv, NEW s \in Servers, NEW c \in Clients, PushBgOpLogAck(s, c)
  PROVE  PushRequestsInv'
<1> DEFINE v == Head(toClient[s][c]).version
<1>1. UNCHANGED <<pc, want, toBg>>
  BY DEF PushBgOpLogAck, BgOpLogAck, appVars
<1>2. pushMgr' = [pushMgr EXCEPT ![c] = Tracked(c, ServerAcknowledgeVersion(c, s, v))]
  BY DEF PushBgOpLogAck
<1>3. pushMgr \in [Clients -> Managers]
  BY DEF PushTypeOK, PushTypeBg
<1>4. AcknowledgedByAll(c, Acks(c, s, v), pushMgr[c]) \in Managers
  BY <1>3, AcknowledgedByAllType
<1> HIDE DEF v
<1>5. Tracked(c, ServerAcknowledgeVersion(c, s, v)).reqs = pushMgr[c].reqs
  BY <1>3, <1>4, PushSameEntries DEF ServerAcknowledgeVersion
<1>6. \A d \in Clients : pushMgr'[d].reqs = pushMgr[d].reqs
  BY <1>2, <1>3, <1>5
<1>. QED
  BY <1>1, <1>6, PushQuietRequests

LEMMA PushBgRowsRequests ==
  ASSUME PushTypeOK, PushRequestsInv, NEW s \in Servers, NEW c \in Clients, PushBgRows(s, c)
  PROVE  PushRequestsInv'
<1> DEFINE v == Head(toClient[s][c]).version
<1>1. UNCHANGED <<pc, want, toBg>>
  BY DEF PushBgRows, appVars
<1>2. pushMgr' = [pushMgr EXCEPT ![c] = ServerAcknowledgeVersion(c, s, v)]
  BY DEF PushBgRows
<1>3. pushMgr \in [Clients -> Managers]
  BY DEF PushTypeOK, PushTypeBg
<1> HIDE DEF v
<1>4. ServerAcknowledgeVersion(c, s, v).reqs = pushMgr[c].reqs
  BY <1>3, PushSameEntries DEF ServerAcknowledgeVersion
<1>5. \A d \in Clients : pushMgr'[d].reqs = pushMgr[d].reqs
  BY <1>2, <1>3, <1>4
<1>. QED
  BY <1>1, <1>5, PushQuietRequests

LEMMA PushBgRowRequestRequests ==
  ASSUME PushTypeOK, PushRequestsInv, NEW t \in Threads, PushBgRowRequest(t)
  PROVE  PushRequestsInv'
<1> DEFINE c == ClientOf[t]
<1>0. PICK r \in Rows, k \in Clocks : r = want[t].row /\ k = want[t].clock
  <2>1. want[t].row \in Rows /\ want[t].clock \in Clocks
    BY DEF PushTypeOK, PushTypeApp
  <2>. QED
    BY <2>1
<1>1. /\ toBg[t] # << >> /\ Head(toBg[t]).type = "RowRequest" /\ UNCHANGED want
      /\ toBg' = [toBg EXCEPT ![t] = Tail(@)]
  BY DEF PushBgRowRequest
<1>2. /\ pc[t] = "waiting" /\ PushUnlisted(t) /\ ~Asks(t)'
      /\ Head(toBg[t]) = RowRequestMsg(r, k)
  BY <1>0, <1>1, PushRequestTaken
<1>3. c \in Clients /\ r \in Rows /\ k \in Clocks /\ pushMgr \in [Clients -> Managers]
      /\ version[c] - 1 \in Versions
  BY SSPAssumption DEF PushTypeOK, PushTypeApp, TypeBg, PushTypeBg, Versions
<1>4. Head(toBg[t]).row = r /\ Head(toBg[t]).clock = k
  BY <1>2 DEF RowRequestMsg
<1>5. \/ UNCHANGED pushMgr /\ pc' = [pc EXCEPT ![t] = "woken"]
      \/ /\ UNCHANGED pc
         /\ \E garbage \in BOOLEAN :
              pushMgr' = [pushMgr EXCEPT ![c] = AddRowRequest(@, r, t, k, version[c] - 1, garbage)]
  BY <1>4 DEF PushBgRowRequest
<1>6. \A u \in Threads : u # t => toBg'[u] = toBg[u]
  BY <1>1 DEF PushTypeOK, PushTypeNet
<1>7. CASE UNCHANGED pushMgr /\ pc' = [pc EXCEPT ![t] = "woken"]
  <2>1. \A u \in Threads : u # t => Unmoved(u)
    BY <1>1, <1>6, <1>7 DEF Unmoved, PushTypeOK, PushTypeApp
  <2>2. PushUnlisted(t)' /\ PushUnlisting
    BY <1>2, <1>7, PushSameReqs DEF PushUnlisted
  <2>. QED
    BY <1>2, <2>1, <2>2, PushRequestsKept
<1>8. CASE /\ UNCHANGED pc
           /\ \E garbage \in BOOLEAN :
                pushMgr' = [pushMgr EXCEPT ![c] = AddRowRequest(@, r, t, k, version[c] - 1, garbage)]
  <2> DEFINE new == [row |-> r, thread |-> t, clock |-> k]
  <2>1. PICK garbage \in BOOLEAN :
          pushMgr' = [pushMgr EXCEPT ![c] = AddRowRequest(@, r, t, k, version[c] - 1, garbage)]
    BY <1>8
  <2>2. pushMgr[c] \in Managers /\ ListedOnce(pushMgr[c]) /\ \A e \in Entries(pushMgr[c]) : e.thread # t
    BY <1>2, <1>3 DEF PushRequestsInv, PushListedWait, PushUnlisted
  <2>3. pushMgr'[c] = AddRowRequest(pushMgr[c], r, t, k, version[c] - 1, garbage)
        /\ \A d \in Clients : d # c => pushMgr'[d] = pushMgr[d]
    BY <1>3, <2>1
  <2> HIDE DEF c
  <2>4. ListedOnce(pushMgr'[c]) /\ Entries(pushMgr'[c]) \subseteq Entries(pushMgr[c]) \cup {new}
    BY <1>3, <2>2, <2>3, AddRowRequestEntries
  <2>5. Awaits(c, new)'
    <3>1. new.thread = t /\ new.row = r /\ new.clock = k
      OBVIOUS
    <3> HIDE DEF new
    <3>. QED
      BY <1>0, <1>1, <1>2, <1>8, <3>1 DEF Awaits, c
  <2>6. \A d \in Clients : \A e \in Entries(pushMgr[d]) : Awaits(d, e) => Awaits(d, e)'
    BY <1>1, <1>8 DEF Awaits
  <2> HIDE DEF new
  <2>7. ASSUME NEW d \in Clients
        PROVE  ListedOnce(pushMgr'[d]) /\ \A e \in Entries(pushMgr'[d]) : Awaits(d, e)'
    <3>1. CASE d = c
      BY <1>3, <2>4, <2>5, <2>6, <3>1 DEF PushRequestsInv, PushListedWait
    <3>2. CASE d # c
      BY <2>3, <2>6, <3>2 DEF PushRequestsInv, PushListedWait
    <3>. QED
      BY <3>1, <3>2
  <2>8. ASSUME NEW u \in Threads, Asks(u)'
        PROVE  pc'[u] = "waiting" /\ PushUnlisted(u)' /\ AsksOnce(u)'
    <3>1. u # t /\ toBg'[u] = toBg[u]
      BY <1>2, <1>6, <2>8
    <3>2. Asks(u)
      BY <2>8, <3>1 DEF Asks
    <3>3. pc[u] = "waiting" /\ PushUnlisted(u) /\ AsksOnce(u) /\ ClientOf[u] \in Clients
      BY <3>2, SSPAssumption DEF PushRequestsInv, PushAskersWait
    <3>4. AsksOnce(u)'
      BY <1>1, <3>1, <3>3 DEF AsksOnce
    <3>5. new.thread = t
      BY DEF new
    <3>6. PushUnlisted(u)'
      <4>1. CASE ClientOf[u] = c
        BY <2>4, <3>1, <3>3, <3>5, <4>1 DEF PushUnlisted
      <4>2. CASE ClientOf[u] # c
        BY <2>3, <3>3, <4>2 DEF PushUnlisted
      <4>. QED
        BY <4>1, <4>2
    <3>. QED
      BY <1>8, <3>3, <3>4, <3>6
  <2>. QED
    BY <2>7, <2>8 DEF PushRequestsInv, PushListedWait, PushAskersWait
<1>. QED
  BY <1>5, <1>7, <1>8

(* An answer wakes threads it takes off the list.                          *)
LEMMA PushBgRowReplyRequests ==
  ASSUME PushTypeOK, PushRequestsInv, NEW s \in Servers, NEW c \in Clients,
         PushBgRowReply(s, c), Running'
  PROVE  /\ PushRequestsInv'
         /\ \A t \in Threads :
              \/ Unmoved(t)
              \/ pc[t] = "waiting" /\ pc'[t] = "woken" /\ want'[t] = want[t]
         /\ Entries(pushMgr'[c]) \subseteq Entries(pushMgr[c])
<1> DEFINE m      == Head(toClient[s][c])
           keeps  == ServerAcknowledgeVersion(c, s, m.version)
           served == ServedThreads(keeps, m.row, m.clock)
           left   == Popped(keeps, m.row, NumServed(keeps.reqs[m.row], m.clock))
           next   == ClockToRequest(left, m.row)
           new    == IF next < 0 THEN left ELSE [left EXCEPT !.reqs[m.row][1].sent = TRUE]
<1>1. /\ UNCHANGED <<want, toBg>> /\ toClient[s][c] # << >> /\ m.type = "RowReply"
      /\ pushMgr' = [pushMgr EXCEPT ![c] = new]
      /\ pc' = [t \in Threads |-> IF t \in served THEN "woken" ELSE pc[t]]
  BY DEF PushBgRowReply, Running
<1>2. m \in RowReplyMsgs
  BY <1>1, PushHeadToClient, PushMsgFields DEF PushTypeOK
<1>3. m.row \in Rows /\ m.clock \in Nat /\ m.version \in Versions /\ pushMgr \in [Clients -> Managers]
  BY <1>2 DEF RowReplyMsgs, PushTypeOK, PushTypeBg
<1> HIDE DEF m
<1>4. keeps \in Managers /\ keeps.reqs = pushMgr[c].reqs
  BY <1>3, ServerAcknowledgeVersionType, PushSameEntries DEF PushTypeOK, ServerAcknowledgeVersion
<1>5. ListedOnce(keeps) /\ Entries(keeps) = Entries(pushMgr[c])
  <2>1. Places(keeps) = Places(pushMgr[c]) /\ \A p : EntryAt(keeps, p) = EntryAt(pushMgr[c], p)
    BY <1>4 DEF Places, EntryAt
  <2>. QED
    BY <2>1 DEF PushRequestsInv, PushListedWait, ListedOnce, Entries
<1> HIDE DEF keeps
<1>6. ServedGone(new.reqs, keeps.reqs, m.row, NumServed(keeps.reqs[m.row], m.clock))
  <2>1. left \in Managers
    BY <1>3, <1>4, PoppedType
  <2>2. ~(next < 0) => left.reqs[m.row] # << >>
    <3> HIDE DEF left
    <3>1. next \in Clocks \cup {-1} /\ (next >= 0 => left.reqs[m.row] # << >>)
      BY <1>3, <2>1, ClockToRequestType
    <3>2. next \in Int
      BY <3>1, SSPAssumption DEF Clocks
    <3>. QED
      BY <3>1, <3>2
  <2>3. new = left \/ (left.reqs[m.row] # << >> /\ new = [left EXCEPT !.reqs[m.row][1].sent = TRUE])
    BY <2>2
  <2>4. left = Popped(keeps, m.row, NumServed(keeps.reqs[m.row], m.clock))
    OBVIOUS
  <2> HIDE DEF left, new
  <2>. QED
    BY <1>3, <1>4, <2>3, <2>4, PoppedLeaves
<1> HIDE DEF new
<1>7. /\ ListedOnce(new) /\ Entries(new) \subseteq Entries(keeps)
      /\ \A t \in served : /\ \E e \in Entries(keeps) : e.thread = t
                           /\ \A e \in Entries(new) : e.thread # t
  BY <1>3, <1>4, <1>5, <1>6, ServedLeave
<1> HIDE DEF served
<1>8. pushMgr'[c] = new /\ \A d \in Clients : d # c => pushMgr'[d] = pushMgr[d]
  BY <1>1, <1>3
<1>9. PushUnlisting
  BY <1>5, <1>7, <1>8 DEF PushUnlisting, PushRequestsInv, PushListedWait
<1>10. ASSUME NEW t \in Threads
       PROVE  \/ Unmoved(t)
              \/ /\ PushUnlisted(t)' /\ ~Asks(t)'
                 /\ pc[t] = "waiting" /\ pc'[t] = "woken" /\ want'[t] = want[t]
  <2>1. CASE t \notin served
    BY <1>1, <2>1 DEF Unmoved
  <2>2. CASE t \in served
    <3>1. PICK e \in Entries(pushMgr[c]) : e.thread = t
      BY <1>5, <1>7, <2>2
    <3>2. ClientOf[t] = c /\ pc[t] = "waiting"
      BY <3>1 DEF PushRequestsInv, PushListedWait, Awaits
    <3>3. PushUnlisted(t)' /\ ~PushUnlisted(t)
      BY <1>7, <1>8, <2>2, <3>1, <3>2 DEF PushUnlisted
    <3>4. ~Asks(t)'
      <4>1. ~Asks(t)
        BY <3>3 DEF PushRequestsInv, PushAskersWait
      <4>. QED
        BY <1>1, <4>1 DEF Asks
    <3>. QED
      BY <1>1, <2>2, <3>2, <3>3, <3>4
  <2>. QED
    BY <2>1, <2>2
<1>11. PushRequestsInv'
  BY <1>9, <1>10, PushRequestsKept
<1>. QED
  BY <1>5, <1>7, <1>8, <1>10, <1>11

LEMMA StepPushRequests ==
  ASSUME PushTypeOK, PushRequestsInv, PushStep, Running'
  PROVE  PushRequestsInv'
<1>1. ASSUME NEW c \in Clients, NEW s \in Servers, FromServer(c, s)
      PROVE  PushRequestsInv'
  <2>1. UNCHANGED <<pc, want, toBg, pushMgr>>
    BY <1>1, FromServerIs DEF appVars, pushClientVars
  <2>. QED
    BY <2>1, PushQuietRequests
<1>. QED
  BY <1>1, StepCases, ThreadRequests, PushBgBatchRequests, PushBgRowRequestRequests,
     PushBgOpLogAckRequests, PushBgRowReplyRequests, PushBgRowsRequests
-----------------------------------------------------------------------------
(* Clocks: the clock a server has pushed to a client rises to its minimum  *)
(* clock, and so do the clocks in the channel between them.                *)
ClocksRise ==
  \A s \in Servers, c \in Clients :
    /\ serverClock[c][s] <= MinClock(sClock[s])
    /\ RisingClock(toClient[s][c], serverClock[c][s], MinClock(sClock[s]))

(* The system clock, and what a thread has read of it, is known to have    *)
(* been reached by every server.                                           *)
KnownClocks ==
  \A s \in Servers : /\ \A c \in Clients : systemClock[c] <= serverClock[c][s]
                     /\ \A t \in Threads : cached[t] <= serverClock[ClientOf[t]][s]

(* So is the clock of every request.                                       *)
RequestsReached ==
  \A s \in Servers :
    /\ \A t \in Threads : pc[t] \in {"waiting", "woken"} =>
         want[t].clock <= serverClock[ClientOf[t]][s]
    /\ \A c \in Clients, i \in Servers : \A m \in Range(toServer[c][i]) :
         m.type = "RowRequest" => m.clock <= serverClock[c][s]

LEMMA RisingClockWider ==
  ASSUME NEW S, NEW q \in Seq(S), \A x \in S : x.type # "OpLogAck" => x.clock \in Int,
         NEW lo \in Int, NEW hi \in Int, NEW k \in Int, RisingClock(q, lo, hi), hi <= k
  PROVE  RisingClock(q, lo, k)
<1>1. \A i \in 1 .. Len(q) : q[i] \in S
  OBVIOUS
<1>. QED
  BY <1>1 DEF RisingClock

LEMMA MinClockLowest ==
  ASSUME NEW vec \in [Clients -> Nat]
  PROVE  \A d \in Clients : MinClock(vec) <= vec[d]
<1>1. vec \in Surjection(Clients, Range(vec))
  BY DEF Surjection, Range
<1>2. IsFiniteSet(Range(vec))
  BY <1>1, SSPAssumption, FS_Surjection
<1>3. Range(vec) \subseteq Nat /\ Range(vec) # {}
  BY SSPAssumption DEF Range
<1>4. \A y \in Range(vec) : Min(Range(vec)) <= y
  BY <1>2, <1>3, MinIsLeast
<1>. QED
  BY <1>4 DEF MinClock, Range

LEMMA ClockTypes ==
  ASSUME PushTypeOK
  PROVE  /\ \A c \in Clients, s \in Servers : serverClock[c][s] \in Int
         /\ \A c \in Clients, s \in Servers : toClient[s][c] \in Seq(PushToClientMsgs)
         /\ \A s \in Servers : sClock[s] \in [Clients -> Nat] /\ MinClock(sClock[s]) \in Int
<1>1. \A s \in Servers : sClock[s] \in [Clients -> Nat]
  BY DEF PushTypeOK, TypeServer
<1>2. \A s \in Servers : MinClock(sClock[s]) \in Nat
  BY <1>1, MinClockType
<1>. QED
  BY <1>1, <1>2 DEF PushTypeOK, PushTypeBg, PushTypeNet

(* What a server sends is of the clock it now has.                         *)
LEMMA ClocksRiseWhenSent ==
  ASSUME PushTypeOK, PushTypeOK', ClocksRise, NEW s \in Servers, NEW out, Sends(s, out),
         UNCHANGED serverClock,
         \A i \in Servers : \A d \in Clients : sClock'[i][d] >= sClock[i][d]
  PROVE  ClocksRise'
<1>1. SUFFICES ASSUME NEW i \in Servers, NEW d \in Clients
               PROVE  /\ serverClock[d][i] <= MinClock(sClock'[i])
                      /\ RisingClock(toClient'[i][d], serverClock[d][i], MinClock(sClock'[i]))
  BY DEF ClocksRise
<1> DEFINE q  == toClient[i][d]
           e  == out[d]
           lo == serverClock[d][i]
           hi == MinClock(sClock[i])
           k  == MinClock(sClock'[i])
<1>2. /\ q \in Seq(PushToClientMsgs) /\ lo \in Int /\ hi \in Int /\ k \in Int
      /\ lo <= hi /\ hi <= k /\ RisingClock(q, lo, hi)
  <2>1. lo \in Int /\ hi \in Int /\ q \in Seq(PushToClientMsgs) /\ sClock[i] \in [Clients -> Nat]
    BY ClockTypes
  <2>2. sClock'[i] \in [Clients -> Nat] /\ k \in Int
    <3>1. sClock'[i] \in [Clients -> Nat]
      BY DEF PushTypeOK, TypeServer
    <3>. QED
      BY <3>1, MinClockType
  <2>3. hi <= k
    <3>1. \A x \in Clients : hi <= sClock[i][x]
      BY <2>1, MinClockLowest
    <3>2. \A x \in Clients : sClock[i][x] \in Int /\ sClock'[i][x] \in Int
      BY <2>1, <2>2
    <3>3. \A x \in Clients : hi <= sClock'[i][x]
      <4> HIDE DEF hi
      <4>. QED
        BY <2>1, <3>1, <3>2
    <3> HIDE DEF hi
    <3>. QED
      BY <2>1, <2>2, <3>3, BelowMinClock
  <2>. QED
    BY <2>1, <2>2, <2>3 DEF ClocksRise
<1>3. \A x \in PushToClientMsgs : x.type # "OpLogAck" => x.clock \in Int
  BY PushMsgFields
<1>4. CASE i = s
  <2>1. /\ e \in Seq(PushToClientMsgs)
        /\ \A x \in Range(e) : x.type # "OpLogAck" => x.clock = k
        /\ toClient'[i][d] = q \o e
    BY <1>4 DEF Sends, PushTypeOK, PushTypeNet
  <2> HIDE DEF q, e, lo, hi, k
  <2>2. RisingClock(q \o e, lo, k)
    BY <1>2, <1>3, <2>1, RisingClockConcat
  <2>3. lo <= k
    BY <1>2
  <2>. QED
    BY <2>1, <2>2, <2>3 DEF lo, k
<1>5. CASE i # s
  <2>1. toClient'[i][d] = q
    BY <1>5 DEF Sends, PushTypeOK, PushTypeNet
  <2> HIDE DEF q, lo, hi, k
  <2>2. RisingClock(q, lo, k)
    BY <1>2, <1>3, RisingClockWider
  <2>3. lo <= k
    BY <1>2
  <2>. QED
    BY <2>1, <2>2, <2>3 DEF lo, k
<1>. QED
  BY <1>4, <1>5

(* A message that is taken may say what clock its server has reached.      *)
LEMMA ClocksRiseWhenTaken ==
  ASSUME PushTypeOK, ClocksRise, NEW c \in Clients, NEW s \in Servers,
         toClient[s][c] # << >>, Taken(c, s), UNCHANGED sClock,
         \A d \in Clients, i \in Servers :
           \/ serverClock'[d][i] = serverClock[d][i]
           \/ /\ d = c /\ i = s /\ Head(toClient[s][c]).type # "OpLogAck"
              /\ serverClock'[d][i] = Head(toClient[s][c]).clock
  PROVE  /\ ClocksRise'
         /\ \A d \in Clients, i \in Servers : serverClock[d][i] <= serverClock'[d][i]
<1> DEFINE q  == toClient[s][c]
           lo == serverClock[c][s]
           hi == MinClock(sClock[s])
<1>1. /\ q \in Seq(PushToClientMsgs) /\ q # << >> /\ lo \in Int /\ hi \in Int
      /\ RisingClock(q, lo, hi) /\ lo <= hi
  BY ClockTypes DEF ClocksRise
<1>2. \A x \in PushToClientMsgs : x.type # "OpLogAck" => x.clock \in Int
  BY PushMsgFields
<1>3. /\ RisingClock(Tail(q), lo, hi)
      /\ Head(q).type # "OpLogAck" =>
           /\ RisingClock(Tail(q), Head(q).clock, hi)
           /\ lo <= Head(q).clock /\ Head(q).clock <= hi
  <2> HIDE DEF q, lo, hi
  <2>. QED
    BY <1>1, <1>2, RisingClockTail
<1>4. /\ toClient'[s][c] = Tail(q)
      /\ \A d \in Clients, i \in Servers : ~(d = c /\ i = s) => toClient'[i][d] = toClient[i][d]
  BY DEF Taken, PushTypeOK, PushTypeNet
<1>5. ASSUME NEW d \in Clients, NEW i \in Servers
      PROVE  /\ serverClock'[d][i] <= MinClock(sClock[i])
             /\ RisingClock(toClient'[i][d], serverClock'[d][i], MinClock(sClock[i]))
             /\ serverClock[d][i] <= serverClock'[d][i]
  <2>1. CASE d = c /\ i = s
    <3>1. \/ serverClock'[c][s] = lo
          \/ Head(q).type # "OpLogAck" /\ serverClock'[c][s] = Head(q).clock
      BY <2>1
    <3> HIDE DEF q
    <3>2. /\ serverClock'[c][s] <= hi /\ RisingClock(Tail(q), serverClock'[c][s], hi)
          /\ lo <= serverClock'[c][s]
      BY <1>1, <1>3, <3>1
    <3>. QED
      BY <1>4, <2>1, <3>2
  <2>2. CASE ~(d = c /\ i = s)
    <3>1. toClient'[i][d] = toClient[i][d] /\ serverClock'[d][i] = serverClock[d][i]
      BY <1>4, <2>2
    <3>2. serverClock[d][i] \in Int
      BY ClockTypes
    <3>. QED
      BY <3>1, <3>2 DEF ClocksRise
  <2>. QED
    BY <2>1, <2>2
<1>. QED
  BY <1>5 DEF ClocksRise

LEMMA MaxIsOne ==
  ASSUME NEW a \in Int, NEW b \in Int
  PROVE  Max({a, b}) \in {a, b}
<1>1. {a, b} = {a} \cup {b}
  OBVIOUS
<1>2. IsFiniteSet({a} \cup {b})
  BY FS_Singleton, FS_AddElement
<1>3. IsFiniteSet({a, b}) /\ {a, b} \subseteq Int /\ {a, b} # {}
  BY <1>1, <1>2
<1>. QED
  BY <1>3, MaxIsGreatest

(* A push raises the clock of its server to the clock it carries.          *)
LEMMA PushedClockIs ==
  ASSUME PushTypeOK, ClocksRise, NEW c \in Clients, NEW s \in Servers,
         toClient[s][c] # << >>, NEW m, m = Head(toClient[s][c]), m.type = "PushRow"
  PROVE  /\ PushedClock(c, s, m) \in [Servers -> Nat]
         /\ \A i \in Servers : \/ PushedClock(c, s, m)[i] = serverClock[c][i]
                               \/ i = s /\ PushedClock(c, s, m)[i] = m.clock
<1>1. m \in PushedMsgs
  BY PushHeadToClient, PushMsgFields DEF PushTypeOK
<1>2. serverClock[c] \in [Servers -> Nat] /\ m.clock \in Nat
  BY <1>1 DEF PushTypeOK, PushTypeBg, PushedMsgs
<1>3. PushedClock(c, s, m) \in [Servers -> Nat]
  BY <1>1, PushedClockType DEF PushTypeOK
<1>4. serverClock[c][s] \in Int /\ m.clock \in Int
  BY <1>2
<1>5. Max({serverClock[c][s], m.clock}) \in {serverClock[c][s], m.clock}
  BY <1>4, MaxIsOne
<1>. QED
  BY <1>2, <1>3, <1>5 DEF PushedClock

(* What the worker asks the server for anew, one of its threads waits for. *)
LEMMA AskedAnewIsWanted ==
  ASSUME PushRequestsInv, NEW c \in Clients, NEW m \in Managers, m.reqs = pushMgr[c].reqs,
         NEW r \in Rows, NEW k \in Nat, NEW left, left = Popped(m, r, NumServed(m.reqs[r], k)),
         ~(ClockToRequest(left, r) < 0)
  PROVE  \E t \in Threads : /\ ClientOf[t] = c /\ pc[t] = "waiting"
                            /\ want[t].clock = ClockToRequest(left, r)
<1>1. left \in Managers
  BY PoppedType
<1>2. ListedOnce(m) /\ Entries(m) = Entries(pushMgr[c])
  <2>1. Places(m) = Places(pushMgr[c]) /\ \A p : EntryAt(m, p) = EntryAt(pushMgr[c], p)
    BY DEF Places, EntryAt
  <2>. QED
    BY <2>1 DEF PushRequestsInv, PushListedWait, ListedOnce, Entries
<1>3. ServedGone(left.reqs, m.reqs, r, NumServed(m.reqs[r], k))
  BY PoppedLeaves
<1>4. Entries(left) \subseteq Entries(m)
  BY <1>2, <1>3, ServedLeave
<1>5. PICK e \in Entries(left) : e.clock = ClockToRequest(left, r)
  BY <1>1, AskedAnewIsListed
<1>6. Awaits(c, e)
  BY <1>2, <1>4 DEF PushRequestsInv, PushListedWait
<1>. QED
  BY <1>5, <1>6 DEF Awaits

LEMMA ReachedKept ==
  ASSUME PushTypeOK, PushTypeOK', KnownClocks, RequestsReached,
         \A c \in Clients, s \in Servers : serverClock[c][s] <= serverClock'[c][s],
         \A c \in Clients : \/ systemClock'[c] = systemClock[c]
                            \/ \A s \in Servers : systemClock'[c] <= serverClock'[c][s],
         \A t \in Threads : cached'[t] = cached[t] \/ cached'[t] = systemClock[ClientOf[t]],
         \A t \in Threads : pc'[t] \in {"waiting", "woken"} =>
           \/ pc[t] \in {"waiting", "woken"} /\ want'[t].clock = want[t].clock
           \/ \A s \in Servers : want'[t].clock <= serverClock[ClientOf[t]][s],
         \A c \in Clients, i \in Servers : \A m \in Range(toServer'[c][i]) :
           m.type = "RowRequest" => \/ m \in Range(toServer[c][i])
                                    \/ \A s \in Servers : m.clock <= serverClock[c][s]
  PROVE  KnownClocks' /\ RequestsReached'
<1>1. /\ \A c \in Clients, s \in Servers : serverClock[c][s] \in Int /\ serverClock'[c][s] \in Int
      /\ \A c \in Clients : systemClock[c] \in Int /\ systemClock'[c] \in Int
      /\ \A t \in Threads : cached[t] \in Int /\ cached'[t] \in Int /\ ClientOf[t] \in Clients
  BY SSPAssumption DEF PushTypeOK, PushTypeBg, PushTypeApp
<1>2. \A t \in Threads : want'[t].clock \in Int
  <2>1. \A t \in Threads : want'[t].clock \in Clocks
    BY DEF PushTypeOK, PushTypeApp
  <2>. QED
    BY <2>1, SSPAssumption DEF Clocks
<1>3. \A c \in Clients, i \in Servers : \A m \in Range(toServer'[c][i]) :
        m.type = "RowRequest" => m.clock \in Int
  <2>1. ASSUME NEW c \in Clients, NEW i \in Servers, NEW m \in Range(toServer'[c][i]),
               m.type = "RowRequest"
        PROVE  m.clock \in Int
    <3>1. toServer'[c][i] \in Seq(PushToServerMsgs)
      BY DEF PushTypeOK, PushTypeNet
    <3>2. m \in PushToServerMsgs
      BY <3>1, RangeElements
    <3>3. m \in RowRequestMsgs
      BY <2>1, <3>2, PushMsgFields
    <3>. QED
      BY <3>3, SSPAssumption DEF RowRequestMsgs, Clocks
  <2>. QED
    BY <2>1
<1>4. ASSUME NEW s \in Servers, NEW c \in Clients
      PROVE  systemClock'[c] <= serverClock'[c][s]
  <2>1. systemClock[c] <= serverClock[c][s] /\ serverClock[c][s] <= serverClock'[c][s]
    BY DEF KnownClocks
  <2>. QED
    BY <1>1, <2>1
<1>5. ASSUME NEW s \in Servers, NEW t \in Threads
      PROVE  cached'[t] <= serverClock'[ClientOf[t]][s]
  <2> DEFINE c == ClientOf[t]
  <2>1. c \in Clients
    BY <1>1
  <2>2. /\ systemClock[c] <= serverClock[c][s] /\ serverClock[c][s] <= serverClock'[c][s]
        /\ cached[t] <= serverClock[c][s]
    BY <2>1 DEF KnownClocks
  <2>3. cached'[t] <= serverClock[c][s]
    BY <2>2
  <2> HIDE DEF c
  <2>4. cached'[t] <= serverClock'[c][s]
    BY <1>1, <2>1, <2>2, <2>3
  <2>. QED
    BY <2>4 DEF c
<1>6. ASSUME NEW s \in Servers, NEW t \in Threads, pc'[t] \in {"waiting", "woken"}
      PROVE  want'[t].clock <= serverClock'[ClientOf[t]][s]
  <2> DEFINE c == ClientOf[t]
  <2>1. c \in Clients
    BY <1>1
  <2>2. want'[t].clock <= serverClock[c][s]
    BY <1>6 DEF RequestsReached
  <2>3. serverClock[c][s] <= serverClock'[c][s]
    BY <2>1
  <2> HIDE DEF c
  <2>4. want'[t].clock <= serverClock'[c][s]
    BY <1>1, <1>2, <2>1, <2>2, <2>3
  <2>. QED
    BY <2>4 DEF c
<1>7. ASSUME NEW s \in Servers, NEW c \in Clients, NEW i \in Servers,
             NEW m \in Range(toServer'[c][i]), m.type = "RowRequest"
      PROVE  m.clock <= serverClock'[c][s]
  <2>1. m.clock <= serverClock[c][s]
    BY <1>7 DEF RequestsReached
  <2>2. serverClock[c][s] <= serverClock'[c][s]
    OBVIOUS
  <2>. QED
    BY <1>1, <1>3, <1>7, <2>1, <2>2
<1>. QED
  BY <1>4, <1>5, <1>6, <1>7 DEF KnownClocks, RequestsReached

PushAnswerInv ==
  Running => PushRequestsInv /\ ClocksRise /\ KnownClocks /\ RequestsReached

LEMMA InitAnswer ==
  ASSUME \A k \in Uninitialised : k <= 0, PushInit
  PROVE  PushAnswerInv
<1>1. PushRequestsInv
  BY PushInitRequests
<1>2. /\ \A c \in Clients, s \in Servers : serverClock[c][s] = 0 /\ Len(toClient[s][c]) = 0
      /\ \A s \in Servers : sClock[s] \in [Clients -> Nat]
  BY DEF PushInit, Init
<1>3. ClocksRise
  <2>1. \A s \in Servers : MinClock(sClock[s]) \in Nat
    BY <1>2, MinClockType
  <2>. QED
    BY <1>2, <2>1 DEF ClocksRise, RisingClock
<1>4. KnownClocks
  BY <1>2, SSPAssumption DEF KnownClocks, PushInit
<1>5. RequestsReached
  <2>1. \A c \in Clients, s \in Servers : Range(toServer[c][s]) = {}
    BY DEF PushInit, Init, Range
  <2>2. \A t \in Threads : pc[t] = "run"
    BY DEF PushInit, Init
  <2>. QED
    BY <2>1, <2>2 DEF RequestsReached
<1>. QED
  BY <1>1, <1>3, <1>4, <1>5 DEF PushAnswerInv

LEMMA ThreadReached ==
  ASSUME PushTypeOK, PushTypeOK', ClocksRise, KnownClocks, RequestsReached, ThreadStep
  PROVE  ClocksRise' /\ KnownClocks' /\ RequestsReached'
<1>1. UNCHANGED <<toServer, toClient, sClock, systemClock, serverClock>>
  BY ThreadStepIs DEF serverVars
<1>2. ClocksRise'
  BY <1>1 DEF ClocksRise
<1>3. \A c \in Clients, s \in Servers : serverClock[c][s] \in Int
  BY ClockTypes
<1>4. CASE UNCHANGED <<pc, want, toBg, cached>>
  BY <1>1, <1>2, <1>3, <1>4, ReachedKept
<1>5. ASSUME NEW t \in Threads, ThreadGoesOn(t)
      PROVE  KnownClocks' /\ RequestsReached'
  <2>1. /\ \A u \in Threads : u # t => Unmoved(u) /\ cached'[u] = cached[u]
        /\ cached'[t] = cached[t] \/ cached'[t] = systemClock[ClientOf[t]]
    BY <1>5 DEF ThreadGoesOn
  <2>2. ClientOf[t] \in Clients
    BY SSPAssumption
  <2>3. \A s \in Servers : cached'[t] <= serverClock[ClientOf[t]][s]
    BY <2>1, <2>2 DEF KnownClocks
  <2>4. ASSUME pc'[t] \in {"waiting", "woken"}
        PROVE  \/ pc[t] \in {"waiting", "woken"} /\ want'[t].clock = want[t].clock
               \/ \A s \in Servers : want'[t].clock <= serverClock[ClientOf[t]][s]
    <3>1. PICK r \in Rows, k \in Clocks :
            /\ FoundOrAsked(t, r, k)
            /\ k <= cached'[t] \/ (pc[t] = "woken" /\ k = want[t].clock)
      BY <1>5, <2>4 DEF ThreadGoesOn
    <3>2. want'[t].clock = k
      BY <2>4, <3>1 DEF FoundOrAsked
    <3>3. CASE k <= cached'[t]
      <4>1. k \in Int /\ cached'[t] \in Int
        BY SSPAssumption DEF Clocks, PushTypeOK, PushTypeApp
      <4>2. \A s \in Servers : serverClock[ClientOf[t]][s] \in Int
        BY <1>3, <2>2
      <4>3. ASSUME NEW s \in Servers PROVE k <= serverClock[ClientOf[t]][s]
        BY <2>3, <3>3, <4>1, <4>2
      <4>. QED
        BY <3>2, <4>3
    <3>. QED
      BY <3>1, <3>2, <3>3
  <2>5. \A u \in Threads : pc'[u] \in {"waiting", "woken"} =>
          \/ pc[u] \in {"waiting", "woken"} /\ want'[u].clock = want[u].clock
          \/ \A s \in Servers : want'[u].clock <= serverClock[ClientOf[u]][s]
    BY <2>1, <2>4 DEF Unmoved
  <2>6. \A u \in Threads : cached'[u] = cached[u] \/ cached'[u] = systemClock[ClientOf[u]]
    BY <2>1
  <2>. QED
    BY <1>1, <1>3, <2>5, <2>6, ReachedKept
<1>. QED
  BY <1>2, <1>4, <1>5, ThreadStepGoesOn

LEMMA WorkerReached ==
  ASSUME PushTypeOK, PushTypeOK', PushRequestsInv, ClocksRise, KnownClocks, RequestsReached,
         NEW t \in Threads, PushBgBatch(t) \/ PushBgRowRequest(t)
  PROVE  ClocksRise' /\ KnownClocks' /\ RequestsReached'
<1>1. UNCHANGED <<toClient, sClock, systemClock, serverClock, cached, want>>
  BY BatchSends, BgRowRequestSends
  DEF serverVars, PushBgRowRequest, PushBgBatch, BgClock, BgSendOpLog, appVars
<1>2. ClocksRise'
  BY <1>1 DEF ClocksRise
<1>3. \A c \in Clients, s \in Servers : serverClock[c][s] \in Int
  BY ClockTypes
<1>4. CASE PushBgBatch(t)
  <2>1. UNCHANGED pc
    BY <1>4 DEF PushBgBatch, BgClock, BgSendOpLog, appVars
  <2>2. \A d \in Clients, i \in Servers : \A x \in Range(toServer'[d][i]) :
          x \in Range(toServer[d][i]) \/ x.type = "OpLog"
    BY <1>4, BatchSends
  <2>. QED
    BY <1>1, <1>2, <1>3, <2>1, <2>2, ReachedKept
<1>5. CASE PushBgRowRequest(t)
  <2>1. /\ toBg[t] # << >> /\ Head(toBg[t]).type = "RowRequest"
        /\ toBg' = [toBg EXCEPT ![t] = Tail(@)]
        /\ UNCHANGED pc \/ pc' = [pc EXCEPT ![t] = "woken"]
    BY <1>5 DEF PushBgRowRequest
  <2>2. pc[t] = "waiting" /\ Head(toBg[t]) = RowRequestMsg(want[t].row, want[t].clock)
    BY <2>1, PushRequestTaken
  <2>3. \A u \in Threads : pc'[u] = pc[u] \/ u = t
    BY <2>1 DEF PushTypeOK, PushTypeApp
  <2>4. Head(toBg[t]).clock = want[t].clock
    BY <2>2 DEF RowRequestMsg
  <2>5. \A s \in Servers : Head(toBg[t]).clock <= serverClock[ClientOf[t]][s]
    BY <2>2, <2>4 DEF RequestsReached
  <2>6. \A d \in Clients, i \in Servers : \A x \in Range(toServer'[d][i]) :
          x \in Range(toServer[d][i]) \/ (x = Head(toBg[t]) /\ d = ClientOf[t])
    BY <1>5, BgRowRequestSends
  <2>7. \A d \in Clients, i \in Servers : \A x \in Range(toServer'[d][i]) :
          x \in Range(toServer[d][i]) \/ \A s \in Servers : x.clock <= serverClock[d][s]
    BY <2>5, <2>6
  <2>8. \A u \in Threads : pc'[u] \in {"waiting", "woken"} =>
          pc[u] \in {"waiting", "woken"} /\ want'[u].clock = want[u].clock
    BY <1>1, <2>2, <2>3
  <2>. QED
    BY <1>1, <1>2, <1>3, <2>7, <2>8, ReachedKept
<1>. QED
  BY <1>4, <1>5

LEMMA PushBgOpLogAckReached ==
  ASSUME PushTypeOK, PushTypeOK', ClocksRise, KnownClocks, RequestsReached,
         NEW s \in Servers, NEW c \in Clients, PushBgOpLogAck(s, c)
  PROVE  ClocksRise' /\ KnownClocks' /\ RequestsReached'
<1>1. /\ toClient[s][c] # << >>
      /\ toClient' = [toClient EXCEPT ![s][c] = Tail(@)]
      /\ UNCHANGED <<pc, want, sClock, cached, systemClock, serverClock>>
      /\ \A d \in Clients, i \in Servers : \A x \in Range(toServer'[d][i]) :
           x \in Range(toServer[d][i]) \/ x.type = "OpLog"
  BY OpLogAckSends DEF appVars, serverVars
<1>2. Taken(c, s)
  BY <1>1 DEF Taken
<1>3. \A d \in Clients, i \in Servers : serverClock'[d][i] = serverClock[d][i]
  BY <1>1
<1>4. /\ ClocksRise'
      /\ \A d \in Clients, i \in Servers : serverClock[d][i] <= serverClock'[d][i]
  <2>1. UNCHANGED sClock
    BY <1>1
  <2>. QED
    BY <1>1, <1>2, <1>3, <2>1, ClocksRiseWhenTaken
<1>. QED
  BY <1>1, <1>4, ReachedKept

LEMMA PushBgRowReplyReached ==
  ASSUME PushTypeOK, PushTypeOK', PushRequestsInv, ClocksRise, KnownClocks, RequestsReached,
         NEW s \in Servers, NEW c \in Clients, PushBgRowReply(s, c), Running'
  PROVE  ClocksRise' /\ KnownClocks' /\ RequestsReached'
<1> DEFINE m     == Head(toClient[s][c])
           keeps == ServerAcknowledgeVersion(c, s, m.version)
           left  == Popped(keeps, m.row, NumServed(keeps.reqs[m.row], m.clock))
           next  == ClockToRequest(left, m.row)
<1>1. /\ toClient[s][c] # << >> /\ m.type = "RowReply"
      /\ toClient' = [toClient EXCEPT ![s][c] = Tail(@)]
      /\ UNCHANGED <<sClock, want, cached, systemClock, serverClock>>
      /\ \A d \in Clients, i \in Servers : \A x \in Range(toServer'[d][i]) :
           \/ x \in Range(toServer[d][i])
           \/ d = c /\ ~(next < 0) /\ x = RowRequestMsg(m.row, next)
  BY RowReplySends DEF serverVars
<1>2. m \in RowReplyMsgs
  BY <1>1, PushHeadToClient, PushMsgFields DEF PushTypeOK
<1>3. m.row \in Rows /\ m.clock \in Nat /\ m.version \in Versions
  BY <1>2 DEF RowReplyMsgs
<1>4. keeps \in Managers
  BY <1>3, ServerAcknowledgeVersionType DEF PushTypeOK
<1>5. keeps.reqs = pushMgr[c].reqs
  <2>1. pushMgr[c] \in Managers
    BY DEF PushTypeOK, PushTypeBg
  <2>. QED
    BY <2>1, PushSameEntries DEF ServerAcknowledgeVersion
<1> HIDE DEF keeps
<1>6. ASSUME ~(next < 0)
      PROVE  \A i \in Servers : next <= serverClock[c][i]
  <2>1. PICK t \in Threads : ClientOf[t] = c /\ pc[t] = "waiting" /\ want[t].clock = next
    BY <1>3, <1>4, <1>5, <1>6, AskedAnewIsWanted
  <2>. QED
    BY <2>1 DEF RequestsReached
<1>7. Taken(c, s)
  BY <1>1 DEF Taken
<1>8. \A d \in Clients, i \in Servers : serverClock'[d][i] = serverClock[d][i]
  BY <1>1
<1>9. UNCHANGED sClock
  BY <1>1
<1>10. /\ ClocksRise'
       /\ \A d \in Clients, i \in Servers : serverClock[d][i] <= serverClock'[d][i]
  BY <1>1, <1>7, <1>8, <1>9, ClocksRiseWhenTaken
<1>11. \A t \in Threads : pc'[t] \in {"waiting", "woken"} =>
         pc[t] \in {"waiting", "woken"} /\ want'[t].clock = want[t].clock
  <2>1. \A t \in Threads : Unmoved(t) \/ (pc[t] = "waiting" /\ want'[t] = want[t])
    BY PushBgRowReplyRequests
  <2>. QED
    BY <2>1 DEF Unmoved
<1>12. \A d \in Clients, i \in Servers : \A x \in Range(toServer'[d][i]) :
         \/ x \in Range(toServer[d][i])
         \/ \A j \in Servers : x.clock <= serverClock[d][j]
  <2> HIDE DEF m, next
  <2>. QED
    BY <1>1, <1>6 DEF RowRequestMsg
<1>. QED
  BY <1>1, <1>10, <1>11, <1>12, ReachedKept

LEMMA PushBgRowsReached ==
  ASSUME PushTypeOK, PushTypeOK', ClocksRise, KnownClocks, RequestsReached,
         NEW s \in Servers, NEW c \in Clients, PushBgRows(s, c), Running'
  PROVE  ClocksRise' /\ KnownClocks' /\ RequestsReached'
<1> DEFINE m      == Head(toClient[s][c])
           clocks == PushedClock(c, s, m)
<1>1. /\ toClient[s][c] # << >> /\ m.type = "PushRow"
      /\ toClient' = [toClient EXCEPT ![s][c] = Tail(@)]
      /\ serverClock' = [serverClock EXCEPT ![c] = clocks]
      /\ systemClock' = [systemClock EXCEPT ![c] =
           IF MinClock(clocks) # MinClock(serverClock[c]) THEN MinClock(clocks) ELSE @]
      /\ UNCHANGED <<pc, want, sClock, cached>>
      /\ \A d \in Clients, i \in Servers : \A x \in Range(toServer'[d][i]) :
           x \in Range(toServer[d][i]) \/ x = PushAckMsg(m.seq)
  BY PushedRowsSends DEF appVars, serverVars
<1>2. /\ clocks \in [Servers -> Nat]
      /\ \A i \in Servers : clocks[i] = serverClock[c][i] \/ (i = s /\ clocks[i] = m.clock)
  BY <1>1, PushedClockIs
<1> HIDE DEF clocks
<1>3. \A d \in Clients, i \in Servers :
        \/ serverClock'[d][i] = serverClock[d][i]
        \/ /\ d = c /\ i = s /\ m.type # "OpLogAck"
           /\ serverClock'[d][i] = m.clock
  <2>1. TAKE d \in Clients, i \in Servers
  <2>2. CASE d = c
    <3>1. serverClock'[c] = clocks
      BY <1>1 DEF PushTypeOK, PushTypeBg
    <3>2. clocks[i] = serverClock[c][i] \/ (i = s /\ clocks[i] = m.clock)
      BY <1>2
    <3>3. m.type # "OpLogAck"
      BY <1>1
    <3> HIDE DEF m
    <3>. QED
      BY <2>2, <3>1, <3>2, <3>3
  <2>3. CASE d # c
    <3>1. serverClock'[d] = serverClock[d]
      BY <1>1, <2>3 DEF PushTypeOK, PushTypeBg
    <3>. QED
      BY <3>1
  <2>. QED
    BY <2>2, <2>3
<1>4. Taken(c, s) /\ UNCHANGED sClock
  BY <1>1 DEF Taken
<1>5. /\ ClocksRise'
      /\ \A d \in Clients, i \in Servers : serverClock[d][i] <= serverClock'[d][i]
  BY <1>1, <1>3, <1>4, ClocksRiseWhenTaken
<1>6. \A d \in Clients : \/ systemClock'[d] = systemClock[d]
                         \/ \A i \in Servers : systemClock'[d] <= serverClock'[d][i]
  <2>1. TAKE d \in Clients
  <2>2. CASE d = c
    <3>1. serverClock'[c] = clocks
      BY <1>1 DEF PushTypeOK, PushTypeBg
    <3>2. systemClock'[c] = systemClock[c] \/ systemClock'[c] = MinClock(clocks)
      BY <1>1 DEF PushTypeOK, PushTypeBg
    <3>3. \A i \in Servers : MinClock(clocks) <= clocks[i]
      BY <1>2, PushedMinType
    <3>. QED
      BY <2>2, <3>1, <3>2, <3>3
  <2>3. CASE d # c
    BY <1>1, <2>3 DEF PushTypeOK, PushTypeBg
  <2>. QED
    BY <2>2, <2>3
<1>7. \A d \in Clients, i \in Servers : \A x \in Range(toServer'[d][i]) :
        x.type = "RowRequest" => x \in Range(toServer[d][i])
  <2> HIDE DEF m
  <2>. QED
    BY <1>1 DEF PushAckMsg
<1>. QED
  BY <1>1, <1>5, <1>6, <1>7, ReachedKept

LEMMA FromServerReached ==
  ASSUME PushTypeOK, PushTypeOK', ClocksRise, KnownClocks, RequestsReached,
         NEW c \in Clients, NEW s \in Servers, FromServer(c, s), Running'
  PROVE  ClocksRise' /\ KnownClocks' /\ RequestsReached'
<1>1. /\ toServer[c][s] # << >> /\ toServer' = [toServer EXCEPT ![c][s] = Tail(@)]
      /\ UNCHANGED <<pc, want, cached, systemClock, serverClock>>
      /\ \A i \in Servers : \A d \in Clients : sClock'[i][d] >= sClock[i][d]
  BY FromServerIs DEF appVars, pushClientVars
<1>2. PICK out : Sends(s, out)
  BY FromServerIs
<1>3. ClocksRise'
  <2>1. UNCHANGED serverClock
    BY <1>1
  <2>. QED
    BY <1>1, <1>2, <2>1, ClocksRiseWhenSent
<1>4. \A d \in Clients, i \in Servers : serverClock[d][i] <= serverClock'[d][i]
  BY <1>1, ClockTypes
<1>5. \A d \in Clients, i \in Servers : \A x \in Range(toServer'[d][i]) :
        x \in Range(toServer[d][i])
  <2>1. TAKE d \in Clients, i \in Servers
  <2>2. toServer[d][i] \in Seq(PushToServerMsgs)
    BY DEF PushTypeOK, PushTypeNet
  <2>3. CASE d = c /\ i = s
    <3>1. toServer'[d][i] = Tail(toServer[d][i])
      BY <1>1, <2>3 DEF PushTypeOK, PushTypeNet
    <3>. QED
      BY <1>1, <2>2, <2>3, <3>1, RangeTail
  <2>4. CASE ~(d = c /\ i = s)
    BY <1>1, <2>4 DEF PushTypeOK, PushTypeNet
  <2>. QED
    BY <2>3, <2>4
<1>. QED
  BY <1>1, <1>3, <1>4, <1>5, ReachedKept

LEMMA StepAnswer ==
  ASSUME PushTypeOK, PushTypeOK', PushStep, PushAnswerInv
  PROVE  PushAnswerInv'
<1> SUFFICES ASSUME Running' PROVE PushAnswerInv'
  BY DEF PushAnswerInv
<1>1. PushRequestsInv /\ ClocksRise /\ KnownClocks /\ RequestsReached
  BY StepRuns DEF PushAnswerInv
<1>2. PushRequestsInv'
  BY <1>1, StepPushRequests
<1>3. CASE ThreadStep
  BY <1>1, <1>2, <1>3, ThreadReached DEF PushAnswerInv
<1>4. ASSUME NEW t \in Threads, PushBgBatch(t) \/ PushBgRowRequest(t)
      PROVE  PushAnswerInv'
  BY <1>1, <1>2, <1>4, WorkerReached DEF PushAnswerInv
<1>5. ASSUME NEW c \in Clients, NEW s \in Servers,
             PushBgOpLogAck(s, c) \/ PushBgRowReply(s, c) \/ PushBgRows(s, c)
      PROVE  PushAnswerInv'
  BY <1>1, <1>2, <1>5, PushBgOpLogAckReached, PushBgRowReplyReached, PushBgRowsReached
  DEF PushAnswerInv
<1>6. ASSUME NEW c \in Clients, NEW s \in Servers, FromServer(c, s)
      PROVE  PushAnswerInv'
  BY <1>1, <1>2, <1>6, FromServerReached DEF PushAnswerInv
<1>. QED
  BY <1>3, <1>4, <1>5, <1>6, StepCases

LEMMA PushAnswerKept ==
  ASSUME \A k \in Uninitialised : k <= 0
  PROVE  PushSpec => [](PushTypeOK /\ PushAnswerInv)
<1>1. PushTypeOK /\ PushTypeOK' /\ PushAnswerInv /\ [PushNext]_pushVars => PushAnswerInv'
  <2>1. SUFFICES ASSUME PushTypeOK, PushTypeOK', PushAnswerInv, [PushNext]_pushVars
                 PROVE  PushAnswerInv'
    OBVIOUS
  <2>2. CASE PushStep
    BY <2>1, <2>2, StepAnswer
  <2>3. CASE UNCHANGED pushVars
    <3>1. UNCHANGED <<failed, pc, want, toBg, pushMgr, cached, systemClock, serverClock,
                      sClock, toClient, toServer>>
      BY <2>3 DEF pushVars, vars, appVars, netVars, histVars, bgVars, serverVars, pushClientVars
    <3>2. Running' = Running
      BY <3>1 DEF Running
    <3>3. PushRequestsInv => PushRequestsInv'
      BY <2>1, <3>1, PushQuietRequests
    <3>4. ClocksRise => ClocksRise'
      BY <3>1 DEF ClocksRise
    <3>5. KnownClocks => KnownClocks'
      BY <3>1 DEF KnownClocks
    <3>6. RequestsReached => RequestsReached'
      BY <3>1 DEF RequestsReached
    <3>. QED
      BY <2>1, <3>2, <3>3, <3>4, <3>5, <3>6 DEF PushAnswerInv
  <2>. QED
    BY <2>1, <2>2, <2>3 DEF PushNext, PushRest
<1>2. PushTypeOK /\ [PushNext]_pushVars => PushTypeOK'
  BY PushStepType, PushStutterType DEF PushNext, PushRest
<1>3. PushInit => PushAnswerInv
  BY InitAnswer
<1>. QED
  BY InitPushType, <1>1, <1>2, <1>3, PTL DEF PushSpec

(* Where no thread starts with a system clock that nobody has reached, a   *)
(* server can answer every row request at once, and every answer serves    *)
(* all requests listed for its row, for every configuration: the tables of *)
(* waiting requests that SSPPush inherits are never used.                  *)
THEOREM RequestsAlwaysAnswerable ==
  (\A k \in Uninitialised : k <= 0) => (PushSpec => []RequestsAnswerable)
<1>1. SUFFICES ASSUME \A k \in Uninitialised : k <= 0
               PROVE  PushSpec => []RequestsAnswerable
  OBVIOUS
<1>2. PushTypeOK /\ PushAnswerInv => RequestsAnswerable
  <2>1. SUFFICES ASSUME PushTypeOK, PushAnswerInv, Running, NEW c \in Clients, NEW s \in Servers
                 PROVE  /\ \A m \in Range(toServer[c][s]) :
                             m.type = "RowRequest" => Fresh(s, m.clock)
                        /\ \A m \in Range(toClient[s][c]) : m.type = "RowReply" =>
                             \A i \in DOMAIN pushMgr[c].reqs[m.row] :
                               pushMgr[c].reqs[m.row][i].clock <= m.clock
    BY DEF RequestsAnswerable
  <2>2. PushRequestsInv /\ ClocksRise /\ KnownClocks /\ RequestsReached
    BY <2>1 DEF PushAnswerInv
  <2>3. /\ serverClock[c][s] \in Int /\ MinClock(sClock[s]) \in Int
        /\ toClient[s][c] \in Seq(PushToClientMsgs)
    BY <2>1, ClockTypes
  <2>4. ASSUME NEW m \in Range(toServer[c][s]), m.type = "RowRequest"
        PROVE  Fresh(s, m.clock)
    <3>1. m.clock <= serverClock[c][s] /\ serverClock[c][s] <= MinClock(sClock[s])
      BY <2>2, <2>4 DEF RequestsReached, ClocksRise
    <3>2. m \in RowRequestMsgs
      <4>1. toServer[c][s] \in Seq(PushToServerMsgs)
        BY <2>1 DEF PushTypeOK, PushTypeNet
      <4>2. m \in PushToServerMsgs
        BY <4>1, RangeElements
      <4>. QED
        BY <2>4, <4>2, PushMsgFields
    <3>3. m.clock \in Int
      BY <3>2, SSPAssumption DEF RowRequestMsgs, Clocks
    <3>. QED
      BY <2>3, <3>1, <3>3 DEF Fresh
  <2>5. ASSUME NEW m \in Range(toClient[s][c]), m.type = "RowReply",
               NEW i \in DOMAIN pushMgr[c].reqs[m.row]
        PROVE  pushMgr[c].reqs[m.row][i].clock <= m.clock
    <3>1. m \in PushToClientMsgs
      BY <2>3, RangeElements
    <3>2. m \in RowReplyMsgs
      BY <2>5, <3>1, PushMsgFields
    <3>3. m.row \in Rows /\ m.clock \in Int
      BY <3>2 DEF RowReplyMsgs
    <3>4. serverClock[c][s] <= m.clock
      <4>1. PICK j \in 1 .. Len(toClient[s][c]) : toClient[s][c][j] = m
        BY <2>3, RangeElements
      <4>. QED
        BY <2>2, <2>5, <4>1 DEF ClocksRise, RisingClock
    <3>5. pushMgr[c] \in Managers
      BY <2>1 DEF PushTypeOK, PushTypeBg
    <3>6. <<m.row, i>> \in Places(pushMgr[c])
      <4>1. pushMgr[c].reqs \in [Rows -> Seq(Requests)]
        BY <3>5 DEF Managers
      <4>2. i \in 1 .. Len(pushMgr[c].reqs[m.row])
        BY <2>5, <3>3, <4>1
      <4>. QED
        BY <3>3, <4>2 DEF Places
    <3>7. Awaits(c, EntryAt(pushMgr[c], <<m.row, i>>))
      BY <2>2, <3>6 DEF PushRequestsInv, PushListedWait, Entries
    <3>8. EntryAt(pushMgr[c], <<m.row, i>>).clock = pushMgr[c].reqs[m.row][i].clock
      BY DEF EntryAt
    <3>9. PICK t \in Threads : /\ ClientOf[t] = c /\ pc[t] = "waiting"
                               /\ want[t].clock = pushMgr[c].reqs[m.row][i].clock
      BY <3>7, <3>8 DEF Awaits
    <3>10. want[t].clock <= serverClock[c][s]
      BY <2>2, <3>9 DEF RequestsReached
    <3>11. want[t].clock \in Int
      <4>1. want[t].clock \in Clocks
        BY <2>1 DEF PushTypeOK, PushTypeApp
      <4>. QED
        BY <4>1, SSPAssumption DEF Clocks
    <3>. QED
      BY <2>3, <3>3, <3>4, <3>9, <3>10, <3>11
  <2>. QED
    BY <2>4, <2>5
<1>3. PushSpec => [](PushTypeOK /\ PushAnswerInv)
  BY <1>1, PushAnswerKept
<1>. QED
  BY <1>2, <1>3, PTL
-----------------------------------------------------------------------------
(* What SSPStoreProofs counts of clocks holds under SSPPush too.           *)
LEMMA PushTickTypes == PushTypeOK => TickTypes
BY DEF PushTypeOK, PushTypeApp, PushTypeNet, TickTypes, ThreadStates, ToBgMsgs

LEMMA PushTickTypesNext == PushTypeOK' => TickTypes'
BY PushTickTypes, PTL

LEMMA GetTick ==
  ASSUME PushTypeOK, TickInv, NEW t \in Threads,
         \/ \E r \in Rows : PushGet(t, r) \/ PushGetBlock(t, r)
         \/ PushGetUnblock(t) \/ PushGetResume(t)
  PROVE  TickInv'
<1>1. UNCHANGED <<tick, clock, bgClock, oplog, index, dirty>>
  BY DEF PushGet, PushGetBlock, PushGetUnblock, PushGetResume, UnchangedByGet, clientVars, bgVars
<1>2. \/ UNCHANGED toBg /\ (pc' = pc \/ pc' = [pc EXCEPT ![t] = "blocked"])
      \/ \E r \in Rows, k \in Clocks : \E n : FindOrRequest(t, r, k, n)
  <2>1. StalestClock(t) \in Clocks
    BY PushStalestClockType DEF PushTypeOK
  <2>2. want[t].row \in Rows /\ want[t].clock \in Clocks
    BY DEF PushTypeOK, PushTypeApp
  <2>3. ASSUME NEW r \in Rows, PushGet(t, r)
        PROVE  FindOrRequest(t, r, StalestClock(t), 0)
    BY <2>3 DEF PushGet
  <2>4. ASSUME NEW r \in Rows, PushGetBlock(t, r)
        PROVE  UNCHANGED toBg /\ pc' = [pc EXCEPT ![t] = "blocked"]
    BY <2>4 DEF PushGetBlock
  <2>5. PushGetUnblock(t) => FindOrRequest(t, want[t].row, want[t].clock, 0)
    BY DEF PushGetUnblock
  <2>6. PushGetResume(t) => \/ UNCHANGED <<toBg, pc>>
                            \/ FindOrRequest(t, want[t].row, want[t].clock, want[t].fetches + 1)
    BY DEF PushGetResume
  <2>. QED
    BY <2>1, <2>2, <2>3, <2>4, <2>5, <2>6
<1>3. pc \in [Threads -> ThreadStates]
  BY PushTickTypes DEF TickTypes
<1>4. CASE UNCHANGED toBg /\ (pc' = pc \/ pc' = [pc EXCEPT ![t] = "blocked"])
  <2>1. \A u \in Threads : pc'[u] = "flushed" => pc[u] = "flushed"
    BY <1>3, <1>4
  <2>. QED
    BY <1>1, <1>4, <2>1, OtherTick
<1>5. ASSUME NEW r \in Rows, NEW k \in Clocks, NEW n, FindOrRequest(t, r, k, n)
      PROVE  TickInv'
  <2>1. /\ pc' = [pc EXCEPT ![t] = "run"] \/ pc' = [pc EXCEPT ![t] = "waiting"]
        /\ UNCHANGED toBg \/ toBg' = [toBg EXCEPT ![t] = Append(@, RowRequestMsg(r, k))]
    BY <1>5 DEF FindOrRequest
  <2>2. \A u \in Threads : pc'[u] = "flushed" => pc[u] = "flushed"
    BY <1>3, <2>1
  <2>3. RowRequestMsg(r, k) \in ToBgMsgs /\ RowRequestMsg(r, k).type # "BgClock"
    BY RowRequestMsgType DEF ToBgMsgs, RowRequestMsg
  <2>4. ClocksCounted'
    BY <1>1, <2>1, <2>3, PushTickTypes, CountsOfOther, CountsSame DEF TickInv
  <2>. QED
    BY <1>1, <2>2, <2>4, SameTick, SameUnsent DEF TickInv
<1>. QED
  BY <1>2, <1>4, <1>5

LEMMA StepPushTick ==
  ASSUME PushTypeOK, OplogsOwn, TickInv, PushStep
  PROVE  TickInv'
<1>0. TickTypes /\ pc \in [Threads -> ThreadStates]
  BY PushTickTypes DEF TickTypes
<1>1. ASSUME NEW t \in Writers, NEW r \in Rows, PushInc(t, r)
      PROVE  TickInv'
  BY <1>0, <1>1, SSPAssumption, IncTick DEF PushInc
<1>2. ASSUME NEW t \in Threads,
             \/ \E r \in Rows : PushGet(t, r) \/ PushGetBlock(t, r)
             \/ PushGetUnblock(t) \/ PushGetResume(t)
      PROVE  TickInv'
  BY <1>2, GetTick
<1>3. ASSUME NEW t \in Threads
      PROVE  /\ PushClockFlush(t) => TickInv'
             /\ PushClockTick(t) => TickInv'
             /\ PushBgBatch(t) => TickInv'
  BY <1>0, FlushTick, ClockTickTick, BatchTick DEF PushClockFlush, PushClockTick, PushBgBatch
<1>4. ASSUME NEW t \in Threads, PushBgRowRequest(t)
      PROVE  TickInv'
  <2>1. /\ UNCHANGED <<tick, clock, dirty, oplog, index, bgClock>> /\ toBg[t] # << >>
        /\ toBg' = [toBg EXCEPT ![t] = Tail(@)]
        /\ Head(toBg[t]).type = "RowRequest"
        /\ pc' = [pc EXCEPT ![t] = "woken"] \/ UNCHANGED pc
    BY <1>4 DEF PushBgRowRequest, clientVars
  <2>2. \A u \in Threads : pc'[u] = "flushed" => pc[u] = "flushed"
    BY <1>0, <2>1
  <2>3. ClocksCounted'
    BY <1>0, <2>1, CountsOfTaken DEF TickInv
  <2>. QED
    BY <2>1, <2>2, <2>3, SameTick, SameUnsent DEF TickInv
<1>5. ASSUME NEW c \in Clients, NEW r \in Rows, PushEvict(c, r)
      PROVE  TickInv'
  BY <1>5, OtherTick DEF PushEvict, Evict, appVars, bgVars, netVars
<1>6. ASSUME NEW c \in Clients, NEW s \in Servers, PushBgOpLogAck(s, c)
      PROVE  TickInv'
  BY <1>0, <1>6, BgOpLogAckTick DEF PushBgOpLogAck
<1>7. ASSUME NEW c \in Clients, NEW s \in Servers, PushBgRowReply(s, c)
      PROVE  TickInv'
  <2>1. UNCHANGED <<tick, clock, dirty, oplog, index, bgClock, toBg>>
    BY <1>7 DEF PushBgRowReply
  <2>2. \A t \in Threads : pc'[t] = "flushed" => pc[t] = "flushed"
    <3>1. \/ pc' = pc
          \/ \E S : pc' = [t \in Threads |-> IF t \in S THEN "woken" ELSE pc[t]]
      BY <1>7 DEF PushBgRowReply
    <3>. QED
      BY <3>1
  <2>. QED
    BY <2>1, <2>2, OtherTick
<1>8. ASSUME NEW c \in Clients, NEW s \in Servers, PushBgRows(s, c)
      PROVE  TickInv'
  <2>1. UNCHANGED <<tick, clock, dirty, oplog, index, bgClock, toBg, pc>>
    BY <1>8 DEF PushBgRows, appVars, bgVars
  <2>. QED
    BY <2>1, OtherTick
<1>9. ASSUME NEW c \in Clients, NEW s \in Servers, FromServer(c, s)
      PROVE  TickInv'
  <2>1. UNCHANGED <<tick, clock, dirty, oplog, index, bgClock, toBg, pc>>
    BY <1>9 DEF FromServer, PushServerRowRequest, ServerRowRequest, PushServerOpLog, ServerPushAck,
                appVars, clientVars, bgVars
  <2>. QED
    BY <2>1, OtherTick
<1>. QED
  BY <1>1, <1>2, <1>3, <1>4, <1>5, <1>6, <1>7, <1>8, <1>9, SSPAssumption DEF PushStep, FromServer

(* The clock of a worker, and the clocks of its threads when it moves.     *)
LEMMA StepPushBgAdvances ==
  ASSUME PushTypeOK, PushTypeOK', TickInv, TickInv', PushStep
  PROVE  BgAdvances
<1>1. \/ UNCHANGED bgClock
      \/ /\ UNCHANGED clock
         /\ \E t \in Threads : bgClock' = [bgClock EXCEPT ![ClientOf[t]] = @ + 1]
  <2>1. ASSUME ThreadStep
        PROVE  UNCHANGED bgClock
    BY <2>1, ThreadStepIs DEF bgVars
  <2>2. ASSUME NEW t \in Threads, PushBgBatch(t)
        PROVE  \/ UNCHANGED bgClock
               \/ UNCHANGED clock /\ bgClock' = [bgClock EXCEPT ![ClientOf[t]] = @ + 1]
    BY <2>2 DEF PushBgBatch, BgClock, BgSendOpLog, appVars
  <2>3. ASSUME NEW t \in Threads, PushBgRowRequest(t)
        PROVE  UNCHANGED bgClock
    BY <2>3 DEF PushBgRowRequest
  <2>4. ASSUME NEW c \in Clients, NEW s \in Servers,
               PushBgOpLogAck(s, c) \/ PushBgRowReply(s, c) \/ PushBgRows(s, c)
        PROVE  UNCHANGED bgClock
    BY <2>4 DEF PushBgOpLogAck, BgOpLogAck, PushBgRowReply, PushBgRows, bgVars
  <2>5. ASSUME NEW c \in Clients, NEW s \in Servers, FromServer(c, s)
        PROVE  UNCHANGED bgClock
    BY <2>5 DEF FromServer, PushServerRowRequest, ServerRowRequest, PushServerOpLog, ServerPushAck,
                bgVars
  <2>. QED
    BY <2>1, <2>2, <2>3, <2>4, <2>5, StepCases
<1>2. bgClock \in [Clients -> Nat]
  BY DEF PushTypeOK, TypeBg
<1>3. \A c \in Clients : \A t \in ThreadsOf(c) : bgClock'[c] <= clock'[t]
  BY PushTickTypesNext, BgNextBehind DEF TickInv, NoneBehindBg
<1>4. CASE UNCHANGED bgClock
  <2>1. ASSUME NEW c \in Clients
        PROVE  bgClock[c] <= bgClock'[c] /\ \A t \in ThreadsOf(c) : bgClock'[c] <= clock[t]
    BY <1>2, <1>4, PushTickTypes, BgBehind DEF TickInv
  <2>. QED
    BY <2>1 DEF BgAdvances
<1>5. CASE /\ UNCHANGED clock
           /\ \E t \in Threads : bgClock' = [bgClock EXCEPT ![ClientOf[t]] = @ + 1]
  <2>1. \A c \in Clients : bgClock[c] <= bgClock'[c]
    BY <1>2, <1>5
  <2>. QED
    BY <1>3, <1>5, <2>1 DEF BgAdvances
<1>. QED
  BY <1>1, <1>4, <1>5
=============================================================================
