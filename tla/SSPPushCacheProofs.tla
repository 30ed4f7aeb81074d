------------------------- MODULE SSPPushCacheProofs -------------------------
(***************************************************************************)
(* What the clocks that reach a process cache promise of the rows in it,   *)
(* and what a Get() returns of them, for any number of clients, threads,   *)
(* servers and rows, and every window, staleness and bound.  Three layers  *)
(* on top of SSPPushProofs:                                                *)
(*                                                                         *)
(*   PushFlowInv      no update is lost on its way to its server, and no   *)
(*                    clock overtakes one made before it                   *)
(*   PushCoverInv     what a server has applied, or a clock on its way     *)
(*                    promises, the caches hold or are still sent          *)
(*   PushOwnInv       a value on its way and the batches that will be      *)
(*                    replayed on it are apart and hold all that the       *)
(*                    client made; what a thread has seen lasts            *)
(***************************************************************************)
EXTENDS SSPPushProofs

-----------------------------------------------------------------------------
(* Sequences by their elements.                                            *)
Extended(p, q, m) ==
  /\ Len(p) = Len(q) + 1 /\ p[Len(q) + 1] = m
  /\ \A i \in 1 .. Len(q) : p[i] = q[i]

Shortened(p, q) ==
  /\ Len(q) = Len(p) + 1
  /\ \A i \in 1 .. Len(p) : p[i] = q[i + 1]

LEMMA AppendExtends ==
  ASSUME NEW S, NEW q \in Seq(S), NEW m \in S
  PROVE  Append(q, m) \in Seq(S) /\ Extended(Append(q, m), q, m)
BY AppendProperties DEF Extended

LEMMA TailShortens ==
  ASSUME NEW S, NEW q \in Seq(S), q # << >>
  PROVE  Tail(q) \in Seq(S) /\ Shortened(Tail(q), q) /\ q[1] = Head(q) /\ Head(q) \in S
<1>1. Len(q) \in Nat /\ Len(q) # 0
  BY EmptySeq
<1>. QED
  BY <1>1, HeadTailProperties, ElementOfSeq DEF Shortened

(* The batches on their way to a server, q, the updates of row r that are  *)
(* still in the oplog, log, the client's clock at the server, clk, and at  *)
(* the worker, bg, the last version the server has, had, and the next one  *)
(* of the worker, next: a clock on its way is followed by no update made   *)
(* before it.                                                              *)
Orderly(q, r, log, clk, bg, had, next) ==
  /\ clk <= bg /\ had < next
  /\ \A u \in log : clk <= u[2]
  /\ \A i \in 1 .. Len(q) : q[i].type = "OpLog" =>
       /\ q[i].bgClock <= bg /\ q[i].version < next
       /\ \A u \in q[i].log[r] : clk <= u[2]
       /\ q[i].isClock =>
            /\ \A u \in log : q[i].bgClock <= u[2]
            /\ \A j \in 1 .. Len(q) : i < j /\ q[j].type = "OpLog" =>
                 \A u \in q[j].log[r] : q[i].bgClock <= u[2]

LEMMA OrderlyOther ==
  ASSUME NEW S, NEW q \in Seq(S), NEW p \in Seq(S), NEW m, Extended(p, q, m), m.type # "OpLog",
         NEW r, NEW log, NEW clk, NEW bg, NEW had, NEW next,
         Orderly(q, r, log, clk, bg, had, next)
  PROVE  Orderly(p, r, log, clk, bg, had, next)
<1>1. Len(q) \in Nat
  OBVIOUS
<1>2. \A i \in 1 .. Len(p) : p[i].type = "OpLog" => i \in 1 .. Len(q) /\ p[i] = q[i]
  BY <1>1 DEF Extended
<1>. QED
  BY <1>2 DEF Orderly

LEMMA OrderlyTaken ==
  ASSUME NEW S, NEW q \in Seq(S), NEW p \in Seq(S), Shortened(p, q),
         NEW r, NEW log, NEW clk, NEW bg, NEW had, NEW next,
         Orderly(q, r, log, clk, bg, had, next)
  PROVE  Orderly(p, r, log, clk, bg, had, next)
<1>1. Len(p) \in Nat
  OBVIOUS
<1>2. \A i \in 1 .. Len(p) : i + 1 \in 1 .. Len(q) /\ p[i] = q[i + 1]
  BY <1>1 DEF Shortened
<1>3. ASSUME NEW i \in 1 .. Len(p), p[i].type = "OpLog"
      PROVE  /\ p[i].bgClock <= bg /\ p[i].version < next
             /\ \A u \in p[i].log[r] : clk <= u[2]
             /\ p[i].isClock =>
                  /\ \A u \in log : p[i].bgClock <= u[2]
                  /\ \A j \in 1 .. Len(p) : i < j /\ p[j].type = "OpLog" =>
                       \A u \in p[j].log[r] : p[i].bgClock <= u[2]
  <2> DEFINE k == i + 1
  <2>1. k \in 1 .. Len(q) /\ p[i] = q[k]
    BY <1>2
  <2>2. \A j \in 1 .. Len(p) : i < j => k < j + 1 /\ j + 1 \in 1 .. Len(q) /\ p[j] = q[j + 1]
    BY <1>2
  <2> HIDE DEF k
  <2>3. /\ q[k].bgClock <= bg /\ q[k].version < next
        /\ \A u \in q[k].log[r] : clk <= u[2]
        /\ q[k].isClock =>
             /\ \A u \in log : q[k].bgClock <= u[2]
             /\ \A j \in 1 .. Len(q) : k < j /\ q[j].type = "OpLog" =>
                  \A u \in q[j].log[r] : q[k].bgClock <= u[2]
    BY <1>3, <2>1 DEF Orderly
  <2>. QED
    BY <2>1, <2>2, <2>3
<1>. QED
  BY <1>3 DEF Orderly

(* The server takes a batch.                                               *)
LEMMA OrderlyApplied ==
  ASSUME NEW S, NEW q \in Seq(S), NEW p \in Seq(S), Shortened(p, q), q[1].type = "OpLog",
         NEW r, NEW log, NEW clk, NEW bg, NEW had, NEW next,
         Orderly(q, r, log, clk, bg, had, next),
         NEW now, now = clk \/ (q[1].isClock /\ now = q[1].bgClock)
  PROVE  Orderly(p, r, log, now, bg, q[1].version, next)
<1>1. Len(p) \in Nat /\ 1 \in 1 .. Len(q)
  BY DEF Shortened
<1>2. \A i \in 1 .. Len(p) : i + 1 \in 1 .. Len(q) /\ p[i] = q[i + 1] /\ 1 < i + 1
  BY <1>1 DEF Shortened
<1>3. Orderly(p, r, log, clk, bg, had, next)
  BY OrderlyTaken
<1>4. q[1].version < next
  BY <1>1 DEF Orderly
<1>5. CASE now = clk
  BY <1>3, <1>4, <1>5 DEF Orderly
<1>6. CASE q[1].isClock /\ now = q[1].bgClock
  <2>1. /\ now <= bg /\ \A u \in log : now <= u[2]
        /\ \A i \in 1 .. Len(p) : p[i].type = "OpLog" => \A u \in p[i].log[r] : now <= u[2]
    BY SMTT(20), <1>1, <1>2, <1>6 DEF Orderly
  <2>. QED
    BY <1>3, <1>4, <2>1 DEF Orderly
<1>. QED
  BY <1>5, <1>6

(* The worker sends a batch, and keeps newer updates only if it carries a  *)
(* clock.                                                                  *)
LEMMA OrderlySent ==
  ASSUME NEW S, NEW q \in Seq(S), NEW p \in Seq(S), NEW m, Extended(p, q, m), m.type = "OpLog",
         NEW r, NEW log, NEW clk \in Int, NEW bg \in Int, NEW had \in Int, NEW next \in Int,
         Orderly(q, r, log, clk, bg, had, next),
         \A i \in 1 .. Len(q) : q[i].type = "OpLog" => q[i].bgClock \in Int /\ q[i].version \in Int,
         NEW left, left \subseteq log, m.log[r] \subseteq log,
         NEW now \in Int, bg <= now, m.bgClock = now, m.version = next,
         m.isClock => \A u \in left : now <= u[2]
  PROVE  Orderly(p, r, left, clk, now, had, next + 1)
<1>1. Len(q) \in Nat
  OBVIOUS
<1>2. \A i \in 1 .. Len(p) :
        \/ i \in 1 .. Len(q) /\ p[i] = q[i]
        \/ i = Len(q) + 1 /\ p[i] = m
  BY <1>1 DEF Extended
<1>3. clk <= now /\ had < next + 1 /\ \A u \in left : clk <= u[2]
  BY DEF Orderly
<1>4. ASSUME NEW i \in 1 .. Len(p), p[i].type = "OpLog"
      PROVE  /\ p[i].bgClock <= now /\ p[i].version < next + 1
             /\ \A u \in p[i].log[r] : clk <= u[2]
             /\ p[i].isClock =>
                  /\ \A u \in left : p[i].bgClock <= u[2]
                  /\ \A j \in 1 .. Len(p) : i < j /\ p[j].type = "OpLog" =>
                       \A u \in p[j].log[r] : p[i].bgClock <= u[2]
  <2>1. CASE i \in 1 .. Len(q) /\ p[i] = q[i]
    <3>1. /\ q[i].bgClock \in Int /\ q[i].version \in Int
          /\ q[i].bgClock <= bg /\ q[i].version < next
      BY <1>4, <2>1 DEF Orderly
    <3>2. ASSUME p[i].isClock, NEW j \in 1 .. Len(p), i < j, p[j].type = "OpLog",
                 NEW u \in p[j].log[r]
          PROVE  p[i].bgClock <= u[2]
      <4>1. CASE j \in 1 .. Len(q) /\ p[j] = q[j]
        BY <1>4, <2>1, <3>2, <4>1 DEF Orderly
      <4>2. CASE p[j] = m
        BY <1>4, <2>1, <3>2, <4>2 DEF Orderly
      <4>. QED
        BY <1>2, <4>1, <4>2
    <3>3. /\ \A u \in p[i].log[r] : clk <= u[2]
          /\ p[i].isClock => \A u \in left : p[i].bgClock <= u[2]
      BY <1>4, <2>1 DEF Orderly
    <3>. QED
      BY <2>1, <3>1, <3>2, <3>3
  <2>2. CASE i = Len(q) + 1 /\ p[i] = m
    <3>1. \A j \in 1 .. Len(p) : ~(i < j)
      BY <1>1, <2>2 DEF Extended
    <3>2. \A u \in m.log[r] : clk <= u[2]
      BY DEF Orderly
    <3>. QED
      BY <2>2, <3>1, <3>2
  <2>. QED
    BY <1>2, <2>1, <2>2
<1>. QED
  BY <1>3, <1>4 DEF Orderly

(* Updates are made in clocks the worker has not reached yet.              *)
LEMMA OrderlyMade ==
  ASSUME NEW q, NEW r, NEW log, NEW clk \in Int, NEW bg \in Int, NEW had, NEW next,
         Orderly(q, r, log, clk, bg, had, next),
         \A i \in 1 .. Len(q) : q[i].type = "OpLog" => q[i].bgClock \in Int,
         NEW u, u[2] \in Int, bg <= u[2]
  PROVE  Orderly(q, r, log \cup {u}, clk, bg, had, next)
<1>1. clk <= u[2]
  BY DEF Orderly
<1>2. \A i \in 1 .. Len(q) : q[i].type = "OpLog" => q[i].bgClock <= u[2]
  <2>1. TAKE i \in 1 .. Len(q)
  <2>2. HAVE q[i].type = "OpLog"
  <2>3. q[i].bgClock \in Int /\ q[i].bgClock <= bg
    BY <2>2 DEF Orderly
  <2>. QED
    BY <2>3
<1>. QED
  BY <1>1, <1>2 DEF Orderly

LEMMA OrderlyLater ==
  ASSUME NEW q, NEW r, NEW log, NEW clk \in Int, NEW bg \in Int, NEW had, NEW next,
         Orderly(q, r, log, clk, bg, had, next),
         \A i \in 1 .. Len(q) : q[i].type = "OpLog" => q[i].bgClock \in Int,
         NEW now \in Int, bg <= now
  PROVE  Orderly(q, r, log, clk, now, had, next)
<1>1. clk <= now
  BY DEF Orderly
<1>2. \A i \in 1 .. Len(q) : q[i].type = "OpLog" => q[i].bgClock <= now
  <2>1. TAKE i \in 1 .. Len(q)
  <2>2. HAVE q[i].type = "OpLog"
  <2>3. q[i].bgClock \in Int /\ q[i].bgClock <= bg
    BY <2>2 DEF Orderly
  <2>. QED
    BY <2>3
<1>. QED
  BY <1>1, <1>2 DEF Orderly

-----------------------------------------------------------------------------
(* No update is lost on its way to its server, and none is overtaken by a  *)
(* clock after it (Orderly); what has not arrived was made in a clock that *)
(* its client has not told the server.                                     *)
BatchesOrdered ==
  \A c \in Clients, r \in Rows :
    Orderly(toServer[c][ServerOf[r]], r, oplog[c][r], sClock[ServerOf[r]][c], bgClock[c],
            sVersion[ServerOf[r]][c], version[c])

PushFlowInv == Running => OplogsOwn /\ TickInv /\ Accounted /\ BatchesOrdered

LEMMA InitPushFlow == PushInit => PushFlowInv
<1>1. SUFFICES ASSUME PushInit PROVE OplogsOwn /\ Accounted /\ BatchesOrdered
  BY InitTick DEF PushInit, PushFlowInv
<1>2. OplogsOwn /\ Accounted
  BY <1>1 DEF PushInit, Init, OplogsOwn, Accounted
<1>3. ASSUME NEW c \in Clients, NEW r \in Rows
      PROVE  Orderly(toServer[c][ServerOf[r]], r, oplog[c][r], sClock[ServerOf[r]][c], bgClock[c],
                     sVersion[ServerOf[r]][c], version[c])
  <2>1. ServerOf[r] \in Servers
    BY SSPAssumption
  <2>2. /\ toServer[c][ServerOf[r]] = << >> /\ oplog[c][r] = {} /\ sClock[ServerOf[r]][c] = 0
        /\ bgClock[c] = 0 /\ sVersion[ServerOf[r]][c] = -1 /\ version[c] = 0
    BY <1>1, <2>1 DEF PushInit, Init
  <2>. QED
    BY <2>2 DEF Orderly
<1>. QED
  BY <1>2, <1>3 DEF BatchesOrdered

LEMMA FlowTypes ==
  ASSUME PushTypeOK, NEW c \in Clients, NEW r \in Rows
  PROVE  /\ ServerOf[r] \in Servers
         /\ toServer[c][ServerOf[r]] \in Seq(PushToServerMsgs)
         /\ oplog[c][r] \subseteq Updates
         /\ sClock[ServerOf[r]][c] \in Int /\ bgClock[c] \in Int
         /\ sVersion[ServerOf[r]][c] \in Int /\ version[c] \in Int
         /\ \A i \in 1 .. Len(toServer[c][ServerOf[r]]) :
              LET m == toServer[c][ServerOf[r]][i]
              IN  m.type = "OpLog" => m \in OpLogMsgs /\ m.bgClock \in Int /\ m.version \in Int
<1>1. ServerOf[r] \in Servers
  BY SSPAssumption
<1>2. toServer[c][ServerOf[r]] \in Seq(PushToServerMsgs)
  BY <1>1 DEF PushTypeOK, PushTypeNet
<1>3. \A i \in 1 .. Len(toServer[c][ServerOf[r]]) :
        LET m == toServer[c][ServerOf[r]][i]
        IN  m.type = "OpLog" => m \in OpLogMsgs /\ m.bgClock \in Int /\ m.version \in Int
  <2>1. \A i \in 1 .. Len(toServer[c][ServerOf[r]]) : toServer[c][ServerOf[r]][i] \in PushToServerMsgs
    BY <1>2, ElementOfSeq
  <2>2. \A m \in OpLogMsgs : m.bgClock \in Int /\ m.version \in Int
    BY DEF OpLogMsgs
  <2>. QED
    BY <2>1, <2>2, PushMsgFields
<1>4. /\ oplog[c][r] \subseteq Updates
      /\ sClock[ServerOf[r]][c] \in Int /\ bgClock[c] \in Int
      /\ sVersion[ServerOf[r]][c] \in Int /\ version[c] \in Int
  BY <1>1 DEF PushTypeOK, TypeClient, TypeBg, TypeServer, Logs, Versions
<1>. QED
  BY <1>1, <1>2, <1>3, <1>4

(* What a step does to the channels to the servers.                        *)
OtherSent(d, i) ==
  \E m \in PushToServerMsgs : m.type # "OpLog" /\ toServer'[d][i] = Append(toServer[d][i], m)
OtherTaken(d, i) ==
  /\ toServer[d][i] # << >> /\ Head(toServer[d][i]).type # "OpLog"
  /\ toServer'[d][i] = Tail(toServer[d][i])

BatchesStay ==
  /\ UNCHANGED <<made, oplog, data, sClock, sVersion, version>>
  /\ \A d \in Clients, i \in Servers :
       toServer'[d][i] = toServer[d][i] \/ OtherSent(d, i) \/ OtherTaken(d, i)

BatchSent(c, advanced) ==
  /\ UNCHANGED <<made, data, sClock, sVersion>>
  /\ oplog' = [oplog EXCEPT ![c] = Remaining(c)]
  /\ index' = [index EXCEPT ![c] = {}]
  /\ version' = [version EXCEPT ![c] = @ + 1]
  /\ toServer' = [toServer EXCEPT ![c] = [s \in Servers |->
                    Append(@[s], OpLogMsg(c, s, advanced, bgClock'[c]))]]

BatchTaken(c, s) ==
  /\ UNCHANGED <<made, oplog, version, bgClock>>
  /\ toServer[c][s] # << >> /\ Head(toServer[c][s]).type = "OpLog"
  /\ toServer' = [toServer EXCEPT ![c][s] = Tail(@)]
  /\ data' = OpLogRows(c, s)
  /\ sVersion' = [sVersion EXCEPT ![s] = OpLogVers(c, s)]
  /\ sClock' = [sClock EXCEPT ![s] = OpLogClocks(c, s)]

LEMMA OtherSentKeeps ==
  ASSUME PushTypeOK, NEW d \in Clients, NEW i \in Servers, OtherSent(d, i)
  PROVE  /\ OpLogsTo(d, i)' = OpLogsTo(d, i)
         /\ \E m : m.type # "OpLog" /\ Extended(toServer'[d][i], toServer[d][i], m)
<1>1. toServer[d][i] \in Seq(PushToServerMsgs)
  BY DEF PushTypeOK, PushTypeNet
<1>2. PICK m \in PushToServerMsgs : m.type # "OpLog" /\ toServer'[d][i] = Append(toServer[d][i], m)
  BY DEF OtherSent
<1>3. Extended(Append(toServer[d][i], m), toServer[d][i], m)
  BY <1>1, AppendExtends
<1>4. OfType(Append(toServer[d][i], m), "OpLog") = OfType(toServer[d][i], "OpLog")
  BY <1>1, <1>2, OfTypeAppend
<1>. QED
  BY <1>2, <1>3, <1>4 DEF OpLogsTo

LEMMA OtherTakenKeeps ==
  ASSUME PushTypeOK, NEW d \in Clients, NEW i \in Servers, OtherTaken(d, i)
  PROVE  /\ OpLogsTo(d, i)' = OpLogsTo(d, i)
         /\ Shortened(toServer'[d][i], toServer[d][i])
<1>1. toServer[d][i] \in Seq(PushToServerMsgs)
  BY DEF PushTypeOK, PushTypeNet
<1>2. /\ toServer[d][i] # << >> /\ Head(toServer[d][i]).type # "OpLog"
      /\ toServer'[d][i] = Tail(toServer[d][i])
  BY DEF OtherTaken
<1>3. Shortened(Tail(toServer[d][i]), toServer[d][i])
  BY <1>1, <1>2, TailShortens
<1>4. OfType(Tail(toServer[d][i]), "OpLog") = OfType(toServer[d][i], "OpLog")
  BY <1>1, <1>2, OfTypeTail
<1>. QED
  BY <1>2, <1>3, <1>4 DEF OpLogsTo

LEMMA StayFlow ==
  ASSUME PushTypeOK, PushTypeOK', OplogsOwn, Accounted, BatchesOrdered, BgAdvances, BatchesStay
  PROVE  OplogsOwn' /\ Accounted' /\ BatchesOrdered'
<1>1. UNCHANGED <<made, oplog, data, sClock, sVersion, version>>
  BY DEF BatchesStay
<1>2. ASSUME NEW d \in Clients, NEW i \in Servers
      PROVE  OpLogsTo(d, i)' = OpLogsTo(d, i)
  BY OtherSentKeeps, OtherTakenKeeps DEF BatchesStay, OpLogsTo
<1>3. OplogsOwn' /\ Accounted'
  <2>1. Accounted'
    <3>1. SUFFICES ASSUME NEW r \in Rows, NEW u \in made[r], NEW c, c = ClientOf[u[1]],
                          u \notin data[r], u \notin oplog[c][r]
                   PROVE  \E m \in OpLogsTo(c, ServerOf[r])' : u \in m.log[r]
      BY <1>1 DEF Accounted
    <3>2. c \in Clients /\ ServerOf[r] \in Servers
      BY <3>1, SSPAssumption DEF PushTypeOK, TypeHistory, Logs, Updates
    <3>. QED
      BY <1>2, <3>1, <3>2 DEF Accounted
  <2>. QED
    BY <1>1, <2>1 DEF OplogsOwn
<1>4. ASSUME NEW c \in Clients, NEW r \in Rows
      PROVE  Orderly(toServer'[c][ServerOf[r]], r, oplog[c][r], sClock[ServerOf[r]][c], bgClock'[c],
                     sVersion[ServerOf[r]][c], version[c])
  <2> DEFINE s == ServerOf[r]
             q == toServer[c][s]
             p == toServer'[c][s]
  <2>1. /\ s \in Servers /\ q \in Seq(PushToServerMsgs) /\ p \in Seq(PushToServerMsgs)
        /\ sClock[s][c] \in Int /\ bgClock[c] \in Int
        /\ \A i \in 1 .. Len(q) : q[i].type = "OpLog" => q[i].bgClock \in Int
    BY FlowTypes DEF PushTypeOK, PushTypeNet
  <2>2. bgClock'[c] \in Int /\ bgClock[c] <= bgClock'[c]
    BY DEF PushTypeOK, TypeBg, BgAdvances
  <2>3. Orderly(q, r, oplog[c][r], sClock[s][c], bgClock[c], sVersion[s][c], version[c])
    BY DEF BatchesOrdered
  <2>4. Orderly(q, r, oplog[c][r], sClock[s][c], bgClock'[c], sVersion[s][c], version[c])
    <3> HIDE DEF q, s
    <3>. QED
      BY <2>1, <2>2, <2>3, OrderlyLater
  <2>5. CASE p = q
    BY <2>4, <2>5
  <2>6. CASE OtherSent(c, s)
    <3>1. PICK m : m.type # "OpLog" /\ Extended(p, q, m)
      BY <2>1, <2>6, OtherSentKeeps
    <3> HIDE DEF p, q, s
    <3>. QED
      BY <2>1, <2>4, <3>1, OrderlyOther DEF p, q, s
  <2>7. CASE OtherTaken(c, s)
    <3>1. Shortened(p, q)
      BY <2>1, <2>7, OtherTakenKeeps
    <3> HIDE DEF p, q, s
    <3>2. Orderly(p, r, oplog[c][r], sClock[s][c], bgClock'[c], sVersion[s][c], version[c])
      BY <2>1, <2>4, <3>1, OrderlyTaken
    <3>. QED
      BY <3>2 DEF p, s
  <2>. QED
    BY <2>1, <2>5, <2>6, <2>7 DEF BatchesStay
<1>. QED
  BY <1>1, <1>3, <1>4 DEF BatchesOrdered

LEMMA IncFlow ==
  ASSUME PushTypeOK, OplogsOwn, TickInv, Accounted, BatchesOrdered,
         NEW t \in Threads, NEW r \in Rows, Inc(t, r)
  PROVE  OplogsOwn' /\ Accounted' /\ BatchesOrdered'
<1> DEFINE c == ClientOf[t]
<1>1. PICK n \in 1 .. MaxIncs :
        /\ oplog' = [oplog EXCEPT ![c][r] = @ \cup {<<t, clock[t], n>>}]
        /\ made'  = [made EXCEPT ![r] = @ \cup {<<t, clock[t], n>>}]
        /\ UNCHANGED <<bgVars, serverVars, netVars>>
  BY DEF Inc, FindInsertOpLog
<1> DEFINE u == <<t, clock[t], n>>
<1>2. c \in Clients /\ t \in ThreadsOf(c)
  BY SSPAssumption DEF ThreadsOf
<1>3. /\ oplog \in [Clients -> Logs] /\ made \in Logs
      /\ UNCHANGED <<data, toServer, sClock, sVersion, bgClock, version>>
      /\ clock[t] \in Int
  <2>1. UNCHANGED <<data, toServer, sClock, sVersion, bgClock, version>>
    BY <1>1 DEF serverVars, bgVars, netVars
  <2>2. clock[t] \in Int
    <3>1. clock[t] \in Clocks
      BY DEF PushTypeOK, PushTypeApp
    <3>. QED
      BY <3>1, SSPAssumption DEF Clocks
  <2>3. oplog \in [Clients -> Logs] /\ made \in Logs
    BY DEF PushTypeOK, TypeClient, TypeHistory
  <2> HIDE DEF u, c
  <2>. QED
    BY <2>1, <2>2, <2>3
<1>4. /\ \A d \in Clients, x \in Rows :
           oplog'[d][x] = IF d = c /\ x = r THEN oplog[d][x] \cup {u} ELSE oplog[d][x]
      /\ \A x \in Rows : made'[x] = IF x = r THEN made[x] \cup {u} ELSE made[x]
  BY <1>1, <1>2, <1>3 DEF Logs
<1>5. u[1] = t /\ u[2] = clock[t] /\ ClientOf[u[1]] = c
  OBVIOUS
<1> HIDE DEF u, c
<1>6. OplogsOwn'
  <2>1. ASSUME NEW d \in Clients, NEW x \in Rows, NEW v \in oplog'[d][x]
        PROVE  v[1] \in ThreadsOf(d)
    <3>1. v \in oplog[d][x] \/ (d = c /\ v = u)
      BY <1>4, <2>1
    <3>. QED
      BY <1>2, <1>5, <3>1 DEF OplogsOwn
  <2>. QED
    BY <2>1 DEF OplogsOwn
<1>7. Accounted'
  <2>1. ASSUME NEW x \in Rows, NEW v \in made'[x], NEW d, d = ClientOf[v[1]]
        PROVE  \/ v \in data[x] \/ v \in oplog'[d][x]
               \/ \E m \in OpLogsTo(d, ServerOf[x]) : v \in m.log[x]
    <3>1. CASE v \in made[x]
      <4>1. \/ v \in data[x] \/ v \in oplog[d][x]
            \/ \E m \in OpLogsTo(d, ServerOf[x]) : v \in m.log[x]
        BY <2>1, <3>1 DEF Accounted
      <4>2. d \in Clients
        BY <2>1, <3>1, <1>3, SSPAssumption DEF Logs, Updates
      <4>3. oplog[d][x] \subseteq oplog'[d][x]
        BY <1>4, <4>2
      <4>. QED
        BY <4>1, <4>3
    <3>2. CASE v = u /\ x = r
      <4>1. d = c
        BY <1>5, <2>1, <3>2
      <4>2. oplog'[c][r] = oplog[c][r] \cup {u}
        BY <1>2, <1>4
      <4>. QED
        BY <3>2, <4>1, <4>2
    <3>3. v \in made[x] \/ (v = u /\ x = r)
      BY <1>4, <2>1
    <3>. QED
      BY <3>1, <3>2, <3>3
  <2>2. \A d, s : OpLogsTo(d, s)' = OpLogsTo(d, s)
    BY <1>3 DEF OpLogsTo
  <2>. QED
    BY <1>3, <2>1, <2>2 DEF Accounted
<1>8. BatchesOrdered'
  <2>1. ASSUME NEW d \in Clients, NEW x \in Rows
        PROVE  Orderly(toServer[d][ServerOf[x]], x, oplog'[d][x], sClock[ServerOf[x]][d], bgClock[d],
                       sVersion[ServerOf[x]][d], version[d])
    <3>1. Orderly(toServer[d][ServerOf[x]], x, oplog[d][x], sClock[ServerOf[x]][d], bgClock[d],
                  sVersion[ServerOf[x]][d], version[d])
      BY DEF BatchesOrdered
    <3>2. CASE d = c /\ x = r
      <4>1. bgClock[d] <= u[2]
        BY <1>2, <1>5, <3>2, PushTickTypes, BgBehind DEF TickInv
      <4> DEFINE q == toServer[d][ServerOf[x]]
      <4>2. /\ sClock[ServerOf[x]][d] \in Int /\ bgClock[d] \in Int
            /\ \A i \in 1 .. Len(q) : q[i].type = "OpLog" => q[i].bgClock \in Int
        BY FlowTypes
      <4> HIDE DEF q
      <4>3. Orderly(q, x, oplog[d][x] \cup {u}, sClock[ServerOf[x]][d], bgClock[d],
                       sVersion[ServerOf[x]][d], version[d])
        BY <1>3, <1>5, <3>1, <4>1, <4>2, OrderlyMade DEF q
      <4>. QED
        BY <1>4, <3>2, <4>3 DEF q
    <3>3. CASE ~(d = c /\ x = r)
      BY <1>4, <3>1, <3>3
    <3>. QED
      BY <3>2, <3>3
  <2>. QED
    BY <1>3, <2>1 DEF BatchesOrdered
<1>. QED
  BY <1>6, <1>7, <1>8

(* A batch that is sent: what is left in the oplog is of a later clock.    *)
LEMMA SentIs ==
  ASSUME PushTypeOK, PushTypeOK', NEW c \in Clients, NEW advanced \in BOOLEAN,
         BatchSent(c, advanced), NEW s \in Servers
  PROVE  LET m == OpLogMsg(c, s, advanced, bgClock'[c])
         IN  /\ m \in PushToServerMsgs
             /\ Extended(toServer'[c][s], toServer[c][s], m)
             /\ OpLogsTo(c, s)' = OpLogsTo(c, s) \cup {m}
<1> DEFINE m == OpLogMsg(c, s, advanced, bgClock'[c])
           q == toServer[c][s]
<1>1. m \in PushToServerMsgs
  <2>1. bgClock'[c] \in Nat
    BY DEF PushTypeOK, TypeBg
  <2>2. m \in OpLogMsgs
    BY <2>1, OpLogMsgType DEF PushTypeOK
  <2>. QED
    BY <2>2 DEF PushToServerMsgs
<1>2. q \in Seq(PushToServerMsgs)
  BY DEF PushTypeOK, PushTypeNet
<1>3. toServer'[c][s] = Append(q, m)
  BY DEF BatchSent, PushTypeOK, PushTypeNet
<1>4. m.type = "OpLog"
  BY DEF OpLogMsg
<1> HIDE DEF m, q
<1>5. /\ Extended(Append(q, m), q, m)
      /\ OfType(Append(q, m), "OpLog") = OfType(q, "OpLog") \cup {m}
  BY <1>1, <1>2, <1>4, AppendExtends, OfTypeAppend
<1>. QED
  BY <1>1, <1>3, <1>5 DEF OpLogsTo, m, q

LEMMA SentFlow ==
  ASSUME PushTypeOK, PushTypeOK', OplogsOwn, TickInv, TickInv', Accounted, BatchesOrdered,
         BgAdvances, NEW c \in Clients, NEW advanced \in BOOLEAN, BatchSent(c, advanced)
  PROVE  OplogsOwn' /\ Accounted' /\ BatchesOrdered'
<1> DEFINE M(s) == OpLogMsg(c, s, advanced, bgClock'[c])
<1>1. /\ UNCHANGED <<made, data, sClock, sVersion>>
      /\ \A r \in Rows : oplog'[c][r] = oplog[c][r] \ Batch(c)[r]
      /\ \A r \in Rows : Batch(c)[r] \subseteq oplog[c][r]
      /\ index'[c] = {} /\ version'[c] = version[c] + 1
      /\ \A d \in Clients \ {c} : /\ oplog'[d] = oplog[d] /\ version'[d] = version[d]
                                  /\ toServer'[d] = toServer[d]
  <2>1. /\ UNCHANGED <<made, data, sClock, sVersion>>
        /\ oplog'[c] = Remaining(c) /\ index'[c] = {} /\ version'[c] = version[c] + 1
        /\ \A d \in Clients \ {c} : /\ oplog'[d] = oplog[d] /\ version'[d] = version[d]
                                    /\ toServer'[d] = toServer[d]
    BY DEF BatchSent, PushTypeOK, PushTypeNet, TypeClient, TypeBg
  <2>. QED
    BY <2>1 DEF Remaining, Batch
<1>2. \A r \in Rows : M(ServerOf[r]).log[r] = Batch(c)[r]
  BY DEF OpLogMsg
<1>3. \A s \in Servers : /\ M(s).type = "OpLog" /\ M(s).bgClock = bgClock'[c]
                         /\ M(s).version = version[c]
  BY DEF OpLogMsg
<1>4. \A s \in Servers : /\ Extended(toServer'[c][s], toServer[c][s], M(s))
                         /\ OpLogsTo(c, s)' = OpLogsTo(c, s) \cup {M(s)}
  BY SentIs
<1> HIDE DEF M
<1>5. OplogsOwn'
  <2>1. ASSUME NEW d \in Clients, NEW r \in Rows
        PROVE  oplog'[d][r] \subseteq oplog[d][r]
    BY <1>1
  <2>. QED
    BY <2>1 DEF OplogsOwn
<1>6. Accounted'
  <2>1. SUFFICES ASSUME NEW r \in Rows, NEW u \in made[r], NEW d, d = ClientOf[u[1]]
                 PROVE  \/ u \in data[r] \/ u \in oplog'[d][r]
                        \/ \E m \in OpLogsTo(d, ServerOf[r])' : u \in m.log[r]
    BY <1>1 DEF Accounted
  <2>2. d \in Clients /\ ServerOf[r] \in Servers
    BY <2>1, SSPAssumption DEF PushTypeOK, TypeHistory, Logs, Updates
  <2>3. OpLogsTo(d, ServerOf[r]) \subseteq OpLogsTo(d, ServerOf[r])'
    BY <1>1, <1>4, <2>2 DEF OpLogsTo
  <2>4. \/ u \in data[r] \/ u \in oplog[d][r]
        \/ \E m \in OpLogsTo(d, ServerOf[r]) : u \in m.log[r]
    BY <2>1 DEF Accounted
  <2>5. u \in oplog[d][r] => u \in oplog'[d][r] \/ (d = c /\ u \in M(ServerOf[r]).log[r])
    BY <1>1, <1>2, <2>2
  <2>6. M(ServerOf[r]) \in OpLogsTo(c, ServerOf[r])'
    BY <1>4, <2>2
  <2>. QED
    BY <2>3, <2>4, <2>5, <2>6
<1>7. BatchesOrdered'
  <2>1. SUFFICES ASSUME NEW d \in Clients, NEW r \in Rows
                 PROVE  Orderly(toServer'[d][ServerOf[r]], r, oplog'[d][r], sClock[ServerOf[r]][d],
                                bgClock'[d], sVersion[ServerOf[r]][d], version'[d])
    BY <1>1 DEF BatchesOrdered
  <2> DEFINE s   == ServerOf[r]
             q   == toServer[d][s]
             clk == sClock[s][d]
             bg  == bgClock[d]
             now == bgClock'[d]
             had == sVersion[s][d]
  <2>2. /\ s \in Servers /\ q \in Seq(PushToServerMsgs)
        /\ clk \in Int /\ bg \in Int /\ had \in Int /\ version[d] \in Int
        /\ \A i \in 1 .. Len(q) : q[i].type = "OpLog" => q[i].bgClock \in Int /\ q[i].version \in Int
    BY FlowTypes
  <2>3. now \in Int /\ bg <= now
    BY DEF PushTypeOK, TypeBg, BgAdvances
  <2>4. Orderly(q, r, oplog[d][r], clk, bg, had, version[d])
    BY DEF BatchesOrdered
  <2>5. CASE d # c
    <3>1. Orderly(q, r, oplog[d][r], clk, now, had, version[d])
      <4> HIDE DEF q, clk, bg, now, had
      <4>. QED
        BY <2>2, <2>3, <2>4, OrderlyLater
    <3>. QED
      BY <1>1, <2>5, <3>1
  <2>6. CASE d = c
    <3>1. \A u \in oplog'[c][r] : now <= u[2]
      <4>1. TAKE u \in oplog'[c][r]
      <4>2. u[1] \in ThreadsOf(c)
        BY <1>5, <4>1 DEF OplogsOwn
      <4>3. bgClock'[c] <= clock'[u[1]]
        BY <4>2, PushTickTypesNext, BgNextBehind DEF TickInv, NoneBehindBg
      <4>4. u[2] = clock'[u[1]]
        BY <1>1, <4>1 DEF TickInv, UnsentIndexed
      <4>. QED
        BY <2>6, <4>3, <4>4
    <3>2. q \in Seq(PushToServerMsgs) /\ toServer'[c][s] \in Seq(PushToServerMsgs)
      BY <2>2 DEF PushTypeOK, PushTypeNet
    <3> DEFINE p == toServer'[c][s]
               m == M(s)
    <3>3. /\ Extended(p, q, m) /\ m.type = "OpLog" /\ m.bgClock = now /\ m.version = version[d]
          /\ m.log[r] \subseteq oplog[d][r] /\ oplog'[c][r] \subseteq oplog[d][r]
      BY <1>1, <1>2, <1>3, <1>4, <2>2, <2>6
    <3> HIDE DEF p, q, m, clk, bg, now, had
    <3>4. Orderly(p, r, oplog'[c][r], clk, now, had, version[d] + 1)
      BY <2>2, <2>3, <2>4, <3>1, <3>2, <3>3, OrderlySent DEF p
    <3>. QED
      BY <1>1, <2>6, <3>4 DEF p, clk, now, had
  <2>. QED
    BY <2>5, <2>6
<1>. QED
  BY <1>5, <1>6, <1>7

(* A batch that is applied: nothing that is still to come is of a clock    *)
(* before the one it carries.                                              *)
LEMMA TakenFlow ==
  ASSUME PushTypeOK, PushTypeOK', OplogsOwn, Accounted, BatchesOrdered,
         NEW c \in Clients, NEW s \in Servers, BatchTaken(c, s)
  PROVE  OplogsOwn' /\ Accounted' /\ BatchesOrdered'
<1> DEFINE m == Head(toServer[c][s])
<1>1. /\ UNCHANGED <<made, oplog, version, bgClock>>
      /\ toServer[c][s] # << >> /\ m.type = "OpLog"
      /\ toServer'[c][s] = Tail(toServer[c][s])
      /\ \A d \in Clients, i \in Servers :
           ~(d = c /\ i = s) => /\ toServer'[d][i] = toServer[d][i]
                                /\ sClock'[i][d] = sClock[i][d] /\ sVersion'[i][d] = sVersion[i][d]
      /\ sVersion'[s][c] = m.version
      /\ sClock'[s][c] = OpLogClocks(c, s)[c]
      /\ \A r \in Rows : data'[r] = data[r] \cup m.log[r]
  <2>1. /\ UNCHANGED <<made, oplog, version, bgClock>>
        /\ toServer[c][s] # << >> /\ m.type = "OpLog"
    BY DEF BatchTaken
  <2>2. /\ toServer'[c][s] = Tail(toServer[c][s])
        /\ \A d \in Clients, i \in Servers : ~(d = c /\ i = s) => toServer'[d][i] = toServer[d][i]
    BY DEF BatchTaken, PushTypeOK, PushTypeNet
  <2>3. /\ sVersion' = [sVersion EXCEPT ![s] = OpLogVers(c, s)]
        /\ sClock' = [sClock EXCEPT ![s] = OpLogClocks(c, s)]
        /\ sVersion \in [Servers -> [Clients -> Versions]] /\ sClock \in [Servers -> [Clients -> Nat]]
    BY DEF BatchTaken, PushTypeOK, TypeServer
  <2>4. /\ OpLogVers(c, s)[c] = m.version
        /\ \A d \in Clients \ {c} : OpLogVers(c, s)[d] = sVersion[s][d]
    BY <2>3 DEF OpLogVers
  <2>5. \A d \in Clients \ {c} : OpLogClocks(c, s)[d] = sClock[s][d]
    BY <2>3 DEF OpLogClocks, ClockUntil
  <2>6. /\ sVersion'[s][c] = m.version /\ sClock'[s][c] = OpLogClocks(c, s)[c]
        /\ \A d \in Clients, i \in Servers :
             ~(d = c /\ i = s) => sClock'[i][d] = sClock[i][d] /\ sVersion'[i][d] = sVersion[i][d]
    BY <2>3, <2>4, <2>5
  <2>7. \A r \in Rows : data'[r] = data[r] \cup m.log[r]
    BY DEF BatchTaken, OpLogRows, Applied
  <2>. QED
    BY <2>1, <2>2, <2>6, <2>7
<1>2. /\ toServer[c][s] \in Seq(PushToServerMsgs) /\ m \in OpLogMsgs
      /\ sClock[s][c] \in Int /\ m.bgClock \in Int
  BY <1>1, PushHeadToServer, PushMsgFields DEF PushTypeOK, PushTypeNet, TypeServer, OpLogMsgs
<1>3. OpLogClocks(c, s)[c] = sClock[s][c] \/ (m.isClock /\ OpLogClocks(c, s)[c] = m.bgClock)
  <2>1. CASE m.isClock
    <3>1. OpLogClocks(c, s)[c] = Max({sClock[s][c], m.bgClock})
      BY <2>1 DEF OpLogClocks, ClockUntil, PushTypeOK, TypeServer
    <3>. QED
      BY <1>2, <2>1, <3>1, MaxIsOne
  <2>2. CASE ~m.isClock
    BY <2>2 DEF OpLogClocks
  <2>. QED
    BY <2>1, <2>2
<1>4. /\ Shortened(toServer'[c][s], toServer[c][s]) /\ toServer[c][s][1] = m
      /\ OpLogsTo(c, s) = OpLogsTo(c, s)' \cup {m}
  <2>1. Shortened(Tail(toServer[c][s]), toServer[c][s]) /\ toServer[c][s][1] = m
    BY <1>1, <1>2, TailShortens
  <2>2. OfType(toServer[c][s], "OpLog") = OfType(Tail(toServer[c][s]), "OpLog") \cup {m}
    BY <1>1, <1>2, OfTypeTail
  <2>. QED
    BY <1>1, <2>1, <2>2 DEF OpLogsTo
<1> HIDE DEF m
<1>5. OplogsOwn'
  BY <1>1 DEF OplogsOwn
<1>6. Accounted'
  <2>1. SUFFICES ASSUME NEW r \in Rows, NEW u \in made[r], NEW d, d = ClientOf[u[1]]
                 PROVE  \/ u \in data'[r] \/ u \in oplog[d][r]
                        \/ \E x \in OpLogsTo(d, ServerOf[r])' : u \in x.log[r]
    BY <1>1 DEF Accounted
  <2>2. d \in Clients /\ ServerOf[r] \in Servers
    BY <2>1, SSPAssumption DEF PushTypeOK, TypeHistory, Logs, Updates
  <2>3. \A x \in OpLogsTo(d, ServerOf[r]) : x \in OpLogsTo(d, ServerOf[r])' \/ x = m
    BY <1>1, <1>4, <2>2 DEF OpLogsTo
  <2>4. \/ u \in data[r] \/ u \in oplog[d][r]
        \/ \E x \in OpLogsTo(d, ServerOf[r]) : u \in x.log[r]
    BY <2>1 DEF Accounted
  <2>. QED
    BY <1>1, <2>3, <2>4
<1>7. BatchesOrdered'
  <2>1. SUFFICES ASSUME NEW d \in Clients, NEW r \in Rows
                 PROVE  Orderly(toServer'[d][ServerOf[r]], r, oplog[d][r], sClock'[ServerOf[r]][d],
                                bgClock[d], sVersion'[ServerOf[r]][d], version[d])
    BY <1>1 DEF BatchesOrdered
  <2>2. ServerOf[r] \in Servers
    BY SSPAssumption
  <2>3. Orderly(toServer[d][ServerOf[r]], r, oplog[d][r], sClock[ServerOf[r]][d], bgClock[d],
                sVersion[ServerOf[r]][d], version[d])
    BY DEF BatchesOrdered
  <2>4. CASE ~(d = c /\ ServerOf[r] = s)
    BY <1>1, <2>2, <2>3, <2>4
  <2>5. CASE d = c /\ ServerOf[r] = s
    <3> DEFINE q   == toServer[c][s]
               p   == toServer'[c][s]
               now == sClock'[s][c]
    <3>1. /\ q \in Seq(PushToServerMsgs) /\ p \in Seq(PushToServerMsgs) /\ Shortened(p, q)
          /\ q[1] = m /\ m.type = "OpLog"
          /\ now = sClock[s][c] \/ (m.isClock /\ now = m.bgClock)
      BY <1>1, <1>2, <1>3, <1>4 DEF PushTypeOK, PushTypeNet
    <3>2. Orderly(q, r, oplog[c][r], sClock[s][c], bgClock[c], sVersion[s][c], version[c])
      BY <2>3, <2>5
    <3> HIDE DEF p, q, now
    <3>3. Orderly(p, r, oplog[c][r], now, bgClock[c], m.version, version[c])
      BY <3>1, <3>2, OrderlyApplied
    <3>. QED
      BY <1>1, <2>5, <3>3 DEF p, now
  <2>. QED
    BY <2>4, <2>5
<1>. QED
  BY <1>5, <1>6, <1>7

(* Every step of SSPPush is one of these.                                  *)
LEMMA AppendedIs ==
  ASSUME NEW S, NEW q \in Seq(S), NEW m, Append(q, m) \in Seq(S)
  PROVE  m \in S
<1>1. Append(q, m)[Len(q) + 1] = m /\ Len(Append(q, m)) = Len(q) + 1 /\ Len(q) \in Nat
  OBVIOUS
<1>2. Len(q) + 1 \in 1 .. Len(Append(q, m))
  BY <1>1
<1>. QED
  BY <1>1, <1>2, ElementOfSeq

LEMMA OneOtherSent ==
  ASSUME PushTypeOK, PushTypeOK', NEW c \in Clients, NEW s \in Servers, NEW m, m.type # "OpLog",
         OneSent(c, s, m)
  PROVE  \A d \in Clients, i \in Servers : toServer'[d][i] = toServer[d][i] \/ OtherSent(d, i)
<1>1. toServer \in [Clients -> [Servers -> Seq(PushToServerMsgs)]]
  BY DEF PushTypeOK, PushTypeNet
<1>2. toServer'[c][s] = Append(toServer[c][s], m)
  BY <1>1 DEF OneSent
<1>3. toServer[c][s] \in Seq(PushToServerMsgs) /\ toServer'[c][s] \in Seq(PushToServerMsgs)
  BY DEF PushTypeOK, PushTypeNet
<1>4. m \in PushToServerMsgs
  BY <1>2, <1>3, AppendedIs
<1>5. OtherSent(c, s)
  BY <1>2, <1>4 DEF OtherSent
<1>6. ASSUME NEW d \in Clients, NEW i \in Servers, ~(d = c /\ i = s)
      PROVE  toServer'[d][i] = toServer[d][i]
  BY <1>1, <1>6 DEF OneSent
<1>. QED
  BY <1>5, <1>6

LEMMA ThreadStays ==
  ASSUME ThreadStep
  PROVE  \/ BatchesStay
         \/ \E t \in Threads, r \in Rows : Inc(t, r)
<1>1. UNCHANGED <<toServer, toClient, bgVars, serverVars>>
  BY ThreadStepIs
<1>2. \/ UNCHANGED <<made, oplog>>
      \/ \E t \in Threads, r \in Rows : Inc(t, r)
  BY DEF ThreadStep, PushInc, PushGet, PushGetBlock, PushGetUnblock, PushGetResume, PushClockFlush,
         PushClockTick, PushEvict, ClockFlush, ClockTick, Evict, UnchangedByGet, clientVars, histVars
<1>. QED
  BY <1>1, <1>2 DEF BatchesStay, bgVars, serverVars

LEMMA HandledFlow ==
  ASSUME NEW c \in Clients, NEW advanced \in BOOLEAN, NEW ack, NEW on,
         HandleClockMsg(c, advanced, bgClock'[c], ack, on), UNCHANGED <<made, serverVars>>
  PROVE  BatchesStay \/ BatchSent(c, advanced)
<1>1. CASE ~CheckSendAll(c, ack)
  BY <1>1 DEF HandleClockMsg, BatchesStay, serverVars
<1>2. CASE CheckSendAll(c, ack)
  BY <1>2 DEF HandleClockMsg, BatchSent, serverVars, ResetPartition
<1>. QED
  BY <1>1, <1>2

LEMMA WorkerFlow ==
  ASSUME PushTypeOK, PushTypeOK', NEW t \in Threads, PushBgBatch(t) \/ PushBgRowRequest(t)
  PROVE  \/ BatchesStay
         \/ \E c \in Clients, advanced \in BOOLEAN : BatchSent(c, advanced)
<1> DEFINE c == ClientOf[t]
<1>1. c \in Clients
  BY SSPAssumption
<1>2. CASE PushBgBatch(t)
  <2>1. \E advanced \in BOOLEAN : \E ack, on :
          /\ HandleClockMsg(c, advanced, bgClock'[c], ack, on)
          /\ UNCHANGED <<made, serverVars>>
    <3>1. CASE BgClock(t)
      <4>1. bgClock'[c] = bgClock[c] + 1
        BY <1>1, <3>1 DEF BgClock, PushTypeOK, TypeBg
      <4>. QED
        BY <3>1, <4>1 DEF BgClock, histVars
    <3>2. CASE BgSendOpLog(t)
      BY <3>2 DEF BgSendOpLog, histVars
    <3>. QED
      BY <1>2, <3>1, <3>2 DEF PushBgBatch
  <2>. QED
    BY <1>1, <2>1, HandledFlow
<1>3. CASE PushBgRowRequest(t)
  <2> DEFINE m == Head(toBg[t])
  <2>1. /\ UNCHANGED <<made, oplog, data, sClock, sVersion, version>>
        /\ toBg[t] # << >> /\ m.type = "RowRequest"
        /\ UNCHANGED toServer \/ OneSent(c, ServerOf[m.row], m)
    BY <1>3 DEF PushBgRowRequest, clientVars, serverVars, histVars, OneSent
  <2>2. m.row \in Rows
    BY <2>1, PushHeadToBg DEF PushTypeOK, RowRequestMsgs, ClockMsgs
  <2>3. ServerOf[m.row] \in Servers
    BY <2>2, SSPAssumption
  <2>. QED
    BY <1>1, <2>1, <2>3, OneOtherSent DEF BatchesStay
<1>. QED
  BY <1>2, <1>3

LEMMA AnswersFlow ==
  ASSUME PushTypeOK, PushTypeOK', NEW s \in Servers, NEW c \in Clients, Running',
         PushBgOpLogAck(s, c) \/ PushBgRowReply(s, c) \/ PushBgRows(s, c)
  PROVE  \/ BatchesStay
         \/ \E advanced \in BOOLEAN : BatchSent(c, advanced)
<1>1. CASE PushBgOpLogAck(s, c)
  <2>1. BgOpLogAck(s, c)
    BY <1>1 DEF PushBgOpLogAck
  <2>2. UNCHANGED <<made, serverVars, bgClock>>
    BY <2>1 DEF BgOpLogAck
  <2>3. \/ UNCHANGED <<oplog, version, toServer>>
        \/ \E ack : HandleClockMsg(c, pend[c].advanced, bgClock[c], ack, FALSE)
    BY <2>1 DEF BgOpLogAck
  <2>4. pend[c].advanced \in BOOLEAN
    BY DEF PushTypeOK, TypeBg
  <2>5. CASE UNCHANGED <<oplog, version, toServer>>
    BY <2>2, <2>5 DEF BatchesStay, serverVars
  <2>. QED
    BY <2>2, <2>3, <2>4, <2>5, HandledFlow
<1>2. CASE PushBgRowReply(s, c)
  <2> DEFINE m     == Head(toClient[s][c])
             keeps == ServerAcknowledgeVersion(c, s, m.version)
             left  == Popped(keeps, m.row, NumServed(keeps.reqs[m.row], m.clock))
             next  == ClockToRequest(left, m.row)
             x     == RowRequestMsg(m.row, next)
  <2>1. /\ UNCHANGED <<made, oplog, data, sClock, sVersion, version>>
        /\ toClient[s][c] # << >> /\ m.type = "RowReply"
    BY ZenonT(30), <1>2 DEF PushBgRowReply, serverVars
  <2>2. UNCHANGED toServer \/ OneSent(c, ServerOf[m.row], x)
    BY Zenon, <1>2 DEF PushBgRowReply, OneSent, Running
  <2>3. m.row \in Rows
    BY <2>1, PushHeadToClient, PushMsgFields DEF PushTypeOK, RowReplyMsgs
  <2>4. ServerOf[m.row] \in Servers /\ x.type # "OpLog"
    BY <2>3, SSPAssumption DEF RowRequestMsg
  <2> HIDE DEF x, m
  <2>. QED
    <3>1. \A d \in Clients, i \in Servers : toServer'[d][i] = toServer[d][i] \/ OtherSent(d, i)
      BY <2>2, <2>4, OneOtherSent
    <3>. QED
      BY <2>1, <3>1 DEF BatchesStay
<1>3. CASE PushBgRows(s, c)
  <2> DEFINE x == PushAckMsg(Head(toClient[s][c]).seq)
  <2>1. UNCHANGED <<made, oplog, data, sClock, sVersion, version>>
    BY Zenon, <1>3 DEF PushBgRows, serverVars, bgVars
  <2>2. UNCHANGED toServer \/ OneSent(c, s, x)
    BY Zenon, <1>3 DEF PushBgRows, OneSent
  <2>3. x.type # "OpLog"
    BY DEF PushAckMsg
  <2> HIDE DEF x
  <2>. QED
    <3>1. \A d \in Clients, i \in Servers : toServer'[d][i] = toServer[d][i] \/ OtherSent(d, i)
      BY <2>2, <2>3, OneOtherSent
    <3>. QED
      BY <2>1, <3>1 DEF BatchesStay
<1>. QED
  BY <1>1, <1>2, <1>3

LEMMA ServerFlow ==
  ASSUME PushTypeOK, NEW c \in Clients, NEW s \in Servers, FromServer(c, s), Running'
  PROVE  BatchesStay \/ BatchTaken(c, s)
<1>1. CASE PushServerOpLog(c, s)
  <2>1. failed' # "bg_version"
    BY DEF Running
  <2>. QED
    BY <1>1, <2>1, PushServerOpLogIs DEF BatchTaken, clientVars, bgVars
<1>2. CASE PushServerRowRequest(c, s) \/ ServerPushAck(c, s)
  <2>1. /\ UNCHANGED <<made, oplog, data, sClock, sVersion, version>>
        /\ toServer[c][s] # << >> /\ Head(toServer[c][s]).type # "OpLog"
        /\ toServer' = [toServer EXCEPT ![c][s] = Tail(@)]
    BY <1>2 DEF PushServerRowRequest, ServerRowRequest, ServerPushAck, clientVars, bgVars, serverVars,
                histVars
  <2>2. toServer'[c][s] = Tail(toServer[c][s])
    BY <2>1 DEF PushTypeOK, PushTypeNet
  <2>3. \A d \in Clients, i \in Servers : ~(d = c /\ i = s) => toServer'[d][i] = toServer[d][i]
    BY <2>1 DEF PushTypeOK, PushTypeNet
  <2>4. OtherTaken(c, s)
    BY <2>1, <2>2 DEF OtherTaken
  <2>. QED
    BY SMTT(20), <2>1, <2>3, <2>4 DEF BatchesStay
<1>. QED
  BY <1>1, <1>2 DEF FromServer

LEMMA StepPushFlow ==
  ASSUME PushTypeOK, PushTypeOK', PushStep, PushFlowInv
  PROVE  PushFlowInv'
<1>1. SUFFICES ASSUME Running'
               PROVE  OplogsOwn' /\ TickInv' /\ Accounted' /\ BatchesOrdered'
  BY DEF PushFlowInv
<1>2. OplogsOwn /\ TickInv /\ Accounted /\ BatchesOrdered
  BY StepRuns DEF PushFlowInv
<1>3. TickInv'
  BY <1>2, StepPushTick
<1>4. BgAdvances
  BY <1>2, <1>3, StepPushBgAdvances
<1>5. \/ BatchesStay
      \/ \E t \in Threads, r \in Rows : Inc(t, r)
      \/ \E c \in Clients, advanced \in BOOLEAN : BatchSent(c, advanced)
      \/ \E c \in Clients, s \in Servers : BatchTaken(c, s)
  BY <1>1, StepCases, ThreadStays, WorkerFlow, AnswersFlow, ServerFlow
<1>6. OplogsOwn' /\ Accounted' /\ BatchesOrdered'
  BY <1>2, <1>3, <1>4, <1>5, StayFlow, IncFlow, SentFlow, TakenFlow
<1>. QED
  BY <1>3, <1>6

LEMMA PushFlowKept == PushSpec => [](PushTypeOK /\ PushFlowInv)
<1>1. PushInit => PushFlowInv
  BY InitPushFlow
<1>2. PushTypeOK /\ PushTypeOK' /\ PushFlowInv /\ [PushNext]_pushVars => PushFlowInv'
  <2>1. ASSUME PushTypeOK, PushTypeOK', PushFlowInv, UNCHANGED pushVars
        PROVE  PushFlowInv'
    <3>1. UNCHANGED vars
      BY <2>1 DEF pushVars
    <3>2. PushFlowInv' <=> PushFlowInv
      BY <3>1 DEF vars, appVars, clientVars, bgVars, serverVars, netVars, histVars, PushFlowInv,
                  Running, OplogsOwn, TickInv, ClocksCounted, ClockCounted, Pending, ClockMsgsIn,
                  TickBehind, UnsentIndexed, Accounted, OpLogsTo, BatchesOrdered
    <3>. QED
      BY <2>1, <3>2
  <2>. QED
    BY <2>1, StepPushFlow DEF PushNext, PushRest
<1>. QED
  BY <1>1, <1>2, PushTypeCorrect, PTL DEF PushSpec

-----------------------------------------------------------------------------
(* What a client's cached row holds, or will once it has taken the first n *)
(* messages of a channel q: X is in the last value for the row that it     *)
(* will have, the cached one, val, if the row is cached and no message of  *)
(* q is for the row; and in every value after that.                        *)
Touches(m, r) ==
  \/ m.type = "RowReply" /\ m.row = r
  \/ m.type = "PushRow" /\ r \in DOMAIN m.data
ValueOf(m, r) == IF m.type = "RowReply" THEN m.data ELSE m.data[r]
Has(m, r, X)  == Touches(m, r) /\ X \subseteq ValueOf(m, r)
Keeps(m, r, X) == Touches(m, r) => X \subseteq ValueOf(m, r)

Covers(q, r, n, on, val, X) ==
  \E i \in 0 .. n :
    /\ i = 0 => (on => X \subseteq val)
    /\ i > 0 => Has(q[i], r, X)
    /\ \A j \in 1 .. n : i < j => Keeps(q[j], r, X)

LEMMA CoversSame ==
  ASSUME NEW q, NEW p, NEW n \in Nat, \A i \in 1 .. n : p[i] = q[i],
         NEW r, NEW on, NEW val, NEW X, Covers(q, r, n, on, val, X)
  PROVE  Covers(p, r, n, on, val, X)
<1>1. PICK i \in 0 .. n : /\ i = 0 => (on => X \subseteq val)
                          /\ i > 0 => Has(q[i], r, X)
                          /\ \A j \in 1 .. n : i < j => Keeps(q[j], r, X)
  BY DEF Covers
<1>2. i > 0 => Has(p[i], r, X)
  BY <1>1
<1>3. \A j \in 1 .. n : i < j => Keeps(p[j], r, X)
  BY <1>1
<1>. QED
  BY <1>1, <1>2, <1>3 DEF Covers

LEMMA CoversWeaker ==
  ASSUME NEW q, NEW n \in Nat, NEW r, NEW on, NEW val, NEW X, Covers(q, r, n, on, val, X),
         NEW on2, NEW val2, NEW Y, Y \subseteq X, on2 => on /\ val \subseteq val2
  PROVE  Covers(q, r, n, on2, val2, Y)
<1>1. PICK i \in 0 .. n : /\ i = 0 => (on => X \subseteq val)
                          /\ i > 0 => Has(q[i], r, X)
                          /\ \A j \in 1 .. n : i < j => Keeps(q[j], r, X)
  BY DEF Covers
<1>2. /\ \A m : Has(m, r, X) => Has(m, r, Y)
      /\ \A m : Keeps(m, r, X) => Keeps(m, r, Y)
  BY DEF Has, Keeps
<1>3. i = 0 => (on2 => Y \subseteq val2)
  BY <1>1
<1>4. /\ i > 0 => Has(q[i], r, Y)
      /\ \A j \in 1 .. n : i < j => Keeps(q[j], r, Y)
  BY <1>1, <1>2
<1>. QED
  BY <1>1, <1>3, <1>4 DEF Covers

LEMMA CoversMore ==
  ASSUME NEW q, NEW n \in Nat, NEW k \in Nat, n <= k, NEW r, NEW on, NEW val, NEW X,
         Covers(q, r, n, on, val, X), \A j \in 1 .. k : n < j => Keeps(q[j], r, X)
  PROVE  Covers(q, r, k, on, val, X)
<1>1. PICK i \in 0 .. n : /\ i = 0 => (on => X \subseteq val)
                          /\ i > 0 => Has(q[i], r, X)
                          /\ \A j \in 1 .. n : i < j => Keeps(q[j], r, X)
  BY DEF Covers
<1>2. i \in 0 .. k
  OBVIOUS
<1>3. ASSUME NEW j \in 1 .. k, i < j
      PROVE  Keeps(q[j], r, X)
  <2>1. CASE j \in 1 .. n
    BY <1>1, <1>3, <2>1
  <2>2. CASE n < j
    BY <2>2
  <2>. QED
    BY <2>1, <2>2
<1>. QED
  BY <1>1, <1>2, <1>3 DEF Covers

LEMMA CoversFrom ==
  ASSUME NEW q, NEW n \in Nat, NEW r, NEW on, NEW val, NEW X, NEW i \in 1 .. n,
         Has(q[i], r, X), \A j \in 1 .. n : i < j => Keeps(q[j], r, X)
  PROVE  Covers(q, r, n, on, val, X)
<1>1. i \in 0 .. n /\ i # 0
  OBVIOUS
<1>. QED
  BY <1>1 DEF Covers

LEMMA CoversNone ==
  ASSUME NEW q, NEW n \in Nat, NEW r, NEW on, NEW val, NEW X, ~on,
         \A j \in 1 .. n : ~Touches(q[j], r)
  PROVE  Covers(q, r, n, on, val, X)
<1>1. 0 \in 0 .. n
  OBVIOUS
<1>. QED
  BY <1>1 DEF Covers, Keeps

LEMMA CoversNow ==
  ASSUME NEW q, NEW r, NEW on, NEW val, NEW X, Covers(q, r, 0, on, val, X), on
  PROVE  X \subseteq val
BY DEF Covers

(* The first message is taken.                                             *)
LEMMA CoversTail ==
  ASSUME NEW q, NEW p, NEW n \in Nat \ {0}, \A i \in 1 .. n - 1 : p[i] = q[i + 1],
         NEW r, NEW on, NEW val, NEW X, Covers(q, r, n, on, val, X),
         NEW on2, NEW val2,
         Touches(q[1], r) /\ on2 => ValueOf(q[1], r) \subseteq val2,
         ~Touches(q[1], r) => (on2 => on) /\ val2 = val
  PROVE  Covers(p, r, n - 1, on2, val2, X)
<1>1. PICK i \in 0 .. n : /\ i = 0 => (on => X \subseteq val)
                          /\ i > 0 => Has(q[i], r, X)
                          /\ \A j \in 1 .. n : i < j => Keeps(q[j], r, X)
  BY DEF Covers
<1>2. \A j \in 1 .. n - 1 : j + 1 \in 1 .. n /\ p[j] = q[j + 1]
  OBVIOUS
<1>3. 0 \in 0 .. n - 1 /\ 1 \in 1 .. n
  OBVIOUS
<1>4. CASE i \in {0, 1}
  <2>1. \A j \in 1 .. n - 1 : i < j + 1
    BY <1>4
  <2>2. \A j \in 1 .. n - 1 : Keeps(p[j], r, X)
    BY <1>1, <1>2, <2>1
  <2>3. on2 => X \subseteq val2
    <3>1. CASE i = 0
      <4>1. Keeps(q[1], r, X) /\ (on => X \subseteq val)
        BY <1>1, <1>3, <3>1
      <4>. QED
        BY <4>1 DEF Keeps
    <3>2. CASE i = 1
      BY <1>1, <3>2 DEF Has
    <3>. QED
      BY <1>4, <3>1, <3>2
  <2>. QED
    BY <1>3, <2>2, <2>3 DEF Covers
<1>5. CASE i \notin {0, 1}
  <2>1. i - 1 \in 0 .. n - 1 /\ i - 1 # 0 /\ i - 1 > 0 /\ p[i - 1] = q[i] /\ i > 0
    BY <1>5
  <2>2. \A j \in 1 .. n - 1 : i - 1 < j => i < j + 1
    OBVIOUS
  <2>3. \A j \in 1 .. n - 1 : i - 1 < j => Keeps(p[j], r, X)
    BY <1>1, <1>2, <2>2
  <2>4. Has(p[i - 1], r, X)
    BY <1>1, <2>1
  <2>. QED
    BY <2>1, <2>3, <2>4 DEF Covers
<1>. QED
  BY <1>4, <1>5

(* The updates of M made before clock k.                                   *)
Before(M, k) == { u \in M : u[2] < k }

(* How a channel q and the cached value of a row hold what has been made,  *)
(* M, and what the server has, D.  A message that carries the clock finds  *)
(* all updates before it in the cache when it is taken; when the row is    *)
(* settled, with nothing left to push, the client has or gets all of D;    *)
(* the cached value holds what was made before the clock the client knows, *)
(* and every value on its way what was made before its own clock.          *)
RowCovers(q, r, on, val, M, D, settled, known) ==
  /\ \A n \in 1 .. Len(q) : q[n].type = "PushRow" /\ q[n].isClock =>
       Covers(q, r, n, on, val, Before(M, q[n].clock))
  /\ settled => Covers(q, r, Len(q), on, val, D)
  /\ on => Before(M, known) \subseteq val
  /\ \A n \in 1 .. Len(q) : Keeps(q[n], r, Before(M, q[n].clock))

(* A cached row gains updates or goes, and updates are made of a clock     *)
(* that is not on its way yet.                                             *)
LEMMA RowCoversStay ==
  ASSUME NEW S, NEW q \in Seq(S), NEW r, NEW on, NEW val, NEW M, NEW D, NEW settled, NEW known,
         RowCovers(q, r, on, val, M, D, settled, known),
         NEW on2, NEW val2, on2 => on /\ val \subseteq val2,
         NEW M2, Before(M2, known) = Before(M, known),
         \A n \in 1 .. Len(q) : q[n].type # "OpLogAck" =>
           Before(M2, q[n].clock) = Before(M, q[n].clock)
  PROVE  RowCovers(q, r, on2, val2, M2, D, settled, known)
<1>1. ASSUME NEW n \in 1 .. Len(q), q[n].type = "PushRow", q[n].isClock
      PROVE  Covers(q, r, n, on2, val2, Before(M2, q[n].clock))
  <2> DEFINE X == Before(M, q[n].clock)
  <2>1. Before(M2, q[n].clock) = X /\ Covers(q, r, n, on, val, X) /\ n \in Nat
    BY <1>1 DEF RowCovers
  <2> HIDE DEF X
  <2>2. Covers(q, r, n, on2, val2, X)
    BY <2>1, CoversWeaker
  <2>. QED
    BY <2>1, <2>2
<1>2. ASSUME settled
      PROVE  Covers(q, r, Len(q), on2, val2, D)
  <2>1. Covers(q, r, Len(q), on, val, D) /\ Len(q) \in Nat
    BY <1>2 DEF RowCovers
  <2>. QED
    BY <2>1, CoversWeaker
<1>3. on2 => Before(M2, known) \subseteq val2
  BY DEF RowCovers
<1>4. ASSUME NEW n \in 1 .. Len(q)
      PROVE  Keeps(q[n], r, Before(M2, q[n].clock))
  <2>1. Keeps(q[n], r, Before(M, q[n].clock))
    BY DEF RowCovers
  <2>2. Touches(q[n], r) => q[n].type # "OpLogAck"
    BY DEF Touches
  <2>. QED
    BY <2>1, <2>2 DEF Keeps
<1>. QED
  BY <1>1, <1>2, <1>3, <1>4 DEF RowCovers

(* The client takes the first message.                                     *)
LEMMA RowCoversTaken ==
  ASSUME NEW S, NEW q \in Seq(S), NEW p \in Seq(S), Shortened(p, q),
         \A x \in S : x.type # "OpLogAck" => x.clock \in Int,
         NEW r, NEW on, NEW val, NEW M, NEW D, NEW settled, NEW known \in Int,
         \A u \in M : u[2] \in Int,
         RowCovers(q, r, on, val, M, D, settled, known),
         q[1].type # "OpLogAck" => known <= q[1].clock,
         NEW on2, NEW val2, NEW known2,
         Touches(q[1], r) /\ on2 => ValueOf(q[1], r) \subseteq val2,
         ~Touches(q[1], r) => (on2 => on) /\ val2 = val,
         \/ known2 = known
         \/ q[1].type = "PushRow" /\ q[1].isClock /\ known2 = q[1].clock
  PROVE  RowCovers(p, r, on2, val2, M, D, settled, known2)
<1>1. /\ Len(p) \in Nat /\ Len(q) = Len(p) + 1 /\ 1 \in 1 .. Len(q)
      /\ \A n \in 1 .. Len(p) : n + 1 \in 1 .. Len(q) /\ p[n] = q[n + 1]
  BY DEF Shortened
<1>2. ASSUME NEW n \in Nat \ {0}, n <= Len(q), NEW X, Covers(q, r, n, on, val, X)
      PROVE  Covers(p, r, n - 1, on2, val2, X)
  <2>1. \A i \in 1 .. n - 1 : p[i] = q[i + 1]
    BY <1>1, <1>2
  <2>. QED
    BY <1>2, <2>1, CoversTail
<1>3. ASSUME NEW n \in 1 .. Len(p), p[n].type = "PushRow", p[n].isClock
      PROVE  Covers(p, r, n, on2, val2, Before(M, p[n].clock))
  <2>1. n + 1 \in 1 .. Len(q) /\ q[n + 1] = p[n] /\ n + 1 \in Nat \ {0} /\ n + 1 - 1 = n
    BY <1>1, <1>3
  <2>2. Covers(q, r, n + 1, on, val, Before(M, p[n].clock))
    BY <1>3, <2>1 DEF RowCovers
  <2>3. Covers(p, r, n + 1 - 1, on2, val2, Before(M, p[n].clock))
    BY <1>1, <1>2, <2>1, <2>2
  <2>. QED
    BY <2>1, <2>3
<1>4. ASSUME settled
      PROVE  Covers(p, r, Len(p), on2, val2, D)
  <2>1. Covers(q, r, Len(q), on, val, D) /\ Len(q) \in Nat \ {0} /\ Len(q) - 1 = Len(p)
    BY <1>1, <1>4 DEF RowCovers
  <2>2. Covers(p, r, Len(q) - 1, on2, val2, D)
    BY <1>1, <1>2, <2>1
  <2>. QED
    BY <2>1, <2>2
<1>5. ASSUME on2
      PROVE  Before(M, known2) \subseteq val2
  <2>1. CASE q[1].type = "PushRow" /\ q[1].isClock /\ known2 = q[1].clock
    <3>1. Covers(q, r, 1, on, val, Before(M, known2))
      BY <1>1, <2>1 DEF RowCovers
    <3>2. Covers(p, r, 1 - 1, on2, val2, Before(M, known2))
      BY <1>1, <1>2, <3>1
    <3>3. 1 - 1 = 0
      OBVIOUS
    <3>4. Covers(p, r, 0, on2, val2, Before(M, known2))
      BY <3>2, <3>3
    <3>. QED
      BY <1>5, <3>4, CoversNow
  <2>2. CASE known2 = known
    <3>1. CASE ~Touches(q[1], r)
      BY <1>5, <2>2, <3>1 DEF RowCovers
    <3>2. CASE Touches(q[1], r)
      <4>1. q[1].type # "OpLogAck"
        BY <3>2 DEF Touches
      <4>2. q[1] \in S
        BY <1>1, ElementOfSeq
      <4>3. Before(M, known) \subseteq Before(M, q[1].clock)
        BY <4>1, <4>2 DEF Before
      <4>4. Before(M, q[1].clock) \subseteq ValueOf(q[1], r)
        BY <1>1, <3>2 DEF RowCovers, Keeps
      <4>. QED
        BY <1>5, <2>2, <3>2, <4>3, <4>4
    <3>. QED
      BY <3>1, <3>2
  <2>. QED
    BY <2>1, <2>2
<1>6. ASSUME NEW n \in 1 .. Len(p)
      PROVE  Keeps(p[n], r, Before(M, p[n].clock))
  BY <1>1 DEF RowCovers
<1>. QED
  BY <1>3, <1>4, <1>5, <1>6 DEF RowCovers

(* What a server sends is of the value D2 and the clock, now, that it has; *)
(* and a message with the clock follows the value of the row, or the row   *)
(* stays settled, or the client has nothing of it.                         *)
ValuesSent(e, r, D2, now) ==
  \A i \in 1 .. Len(e) : Touches(e[i], r) => ValueOf(e[i], r) = D2 /\ e[i].clock = now

ClockSent(q, e, r, on, stays, now) ==
  \A n \in 1 .. Len(e) : e[n].type = "PushRow" /\ e[n].isClock =>
    /\ e[n].clock = now
    /\ \/ stays
       \/ \E i \in 1 .. n : Touches(e[i], r)
       \/ /\ ~on
          /\ \A j \in 1 .. Len(q) : ~Touches(q[j], r)
          /\ \A j \in 1 .. Len(e) : ~Touches(e[j], r)

LEMMA RowCoversSent ==
  ASSUME NEW S, NEW q \in Seq(S), NEW e \in Seq(S),
         NEW r, NEW on, NEW val, NEW M, NEW D, NEW settled, NEW known,
         RowCovers(q, r, on, val, M, D, settled, known),
         NEW D2, NEW settled2, NEW now, Before(M, now) \subseteq D2,
         NEW stays, stays => settled /\ D2 = D,
         ValuesSent(e, r, D2, now),
         settled2 => stays \/ \E i \in 1 .. Len(e) : Touches(e[i], r),
         ClockSent(q, e, r, on, stays, now)
  PROVE  RowCovers(q \o e, r, on, val, M, D2, settled2, known)
<1> DEFINE p == q \o e
           m == Len(q)
<1>1. /\ m \in Nat /\ Len(e) \in Nat /\ Len(p) = m + Len(e)
      /\ \A i \in 1 .. m : p[i] = q[i]
      /\ \A i \in 1 .. Len(e) : p[m + i] = e[i]
  OBVIOUS
<1> HIDE DEF p, m
<1>2. ASSUME NEW n \in 1 .. Len(p), m < n
      PROVE  n - m \in 1 .. Len(e) /\ p[n] = e[n - m] /\ m + (n - m) = n
  <2>1. n - m \in 1 .. Len(e) /\ m + (n - m) = n
    BY <1>1, <1>2
  <2>. QED
    BY <1>1, <2>1
<1>3. \A n \in 1 .. Len(p) : m < n => Keeps(p[n], r, D2)
  BY <1>2 DEF Keeps, ValuesSent
<1>4. ASSUME NEW n \in 0 .. Len(e),
             \/ stays
             \/ \E i \in 1 .. n : Touches(e[i], r)
             \/ /\ ~on
                /\ \A j \in 1 .. Len(q) : ~Touches(q[j], r)
                /\ \A j \in 1 .. Len(e) : ~Touches(e[j], r)
      PROVE  Covers(p, r, m + n, on, val, D2)
  <2>1. m + n \in Nat /\ m <= m + n /\ m + n <= Len(p)
    BY <1>1
  <2>2. CASE stays
    <3>1. Covers(q, r, m, on, val, D2)
      BY <2>2 DEF RowCovers, m
    <3>2. Covers(p, r, m, on, val, D2)
      BY <1>1, <3>1, CoversSame
    <3>3. \A j \in 1 .. m + n : m < j => Keeps(p[j], r, D2)
      BY <1>1, <1>3, <2>1
    <3>. QED
      BY <1>1, <2>1, <3>2, <3>3, CoversMore
  <2>3. CASE \E i \in 1 .. n : Touches(e[i], r)
    <3>1. PICK i \in 1 .. n : Touches(e[i], r)
      BY <2>3
    <3>2. i \in 1 .. Len(e) /\ m + i \in 1 .. m + n
      BY <1>1, <3>1
    <3>3. Has(p[m + i], r, D2)
      BY <1>1, <3>1, <3>2 DEF Has, ValuesSent
    <3>4. \A j \in 1 .. m + n : m + i < j => Keeps(p[j], r, D2)
      BY <1>1, <1>3, <2>1
    <3>. QED
      BY <2>1, <3>2, <3>3, <3>4, CoversFrom
  <2>4. CASE /\ ~on
             /\ \A j \in 1 .. Len(q) : ~Touches(q[j], r)
             /\ \A j \in 1 .. Len(e) : ~Touches(e[j], r)
    <3>1. ASSUME NEW j \in 1 .. m + n
          PROVE  ~Touches(p[j], r)
      <4>1. CASE j \in 1 .. m
        BY <1>1, <2>4, <4>1 DEF m
      <4>2. CASE m < j
        <5>1. j \in 1 .. Len(p)
          BY <1>1, <2>1
        <5>. QED
          BY <1>2, <2>4, <4>2, <5>1
      <4>. QED
        BY <1>1, <4>1, <4>2
    <3>. QED
      BY <2>1, <2>4, <3>1, CoversNone
  <2>. QED
    BY <1>4, <2>2, <2>3, <2>4
<1>5. ASSUME NEW n \in 1 .. Len(p), p[n].type = "PushRow", p[n].isClock
      PROVE  Covers(p, r, n, on, val, Before(M, p[n].clock))
  <2>1. CASE n \in 1 .. m
    <3> DEFINE X == Before(M, q[n].clock)
    <3>1. Covers(q, r, n, on, val, X) /\ p[n] = q[n] /\ n \in Nat
      BY <1>1, <1>5, <2>1 DEF RowCovers, m
    <3>2. \A i \in 1 .. n : p[i] = q[i]
      BY <1>1, <2>1
    <3> HIDE DEF X
    <3>3. Covers(p, r, n, on, val, X)
      BY <3>1, <3>2, CoversSame
    <3>. QED
      BY <3>1, <3>3 DEF X
  <2>2. CASE m < n
    <3>1. n - m \in 1 .. Len(e) /\ p[n] = e[n - m] /\ m + (n - m) = n
      BY <1>2, <2>2
    <3>2. p[n].clock = now
      BY <1>5, <3>1 DEF ClockSent
    <3>3. Covers(p, r, m + (n - m), on, val, D2)
      <4>1. \/ stays
            \/ \E i \in 1 .. n - m : Touches(e[i], r)
            \/ /\ ~on
               /\ \A j \in 1 .. Len(q) : ~Touches(q[j], r)
               /\ \A j \in 1 .. Len(e) : ~Touches(e[j], r)
        BY <1>5, <3>1 DEF ClockSent
      <4>2. n - m \in 0 .. Len(e)
        BY <3>1
      <4>. QED
        BY <1>4, <4>1, <4>2
    <3>4. Covers(p, r, n, on, val, D2) /\ n \in Nat
      BY <3>1, <3>3
    <3>5. Covers(p, r, n, on, val, Before(M, now))
      BY <3>4, CoversWeaker
    <3>. QED
      BY <3>2, <3>5
  <2>. QED
    BY <1>1, <2>1, <2>2
<1>6. ASSUME settled2
      PROVE  Covers(p, r, Len(p), on, val, D2)
  <2>1. Len(e) \in 0 .. Len(e)
    BY <1>1
  <2>2. Covers(p, r, m + Len(e), on, val, D2)
    BY <1>4, <1>6, <2>1
  <2>. QED
    BY <1>1, <2>2
<1>7. on => Before(M, known) \subseteq val
  BY DEF RowCovers
<1>8. ASSUME NEW n \in 1 .. Len(p)
      PROVE  Keeps(p[n], r, Before(M, p[n].clock))
  <2>1. CASE n \in 1 .. m
    BY <1>1, <2>1 DEF RowCovers, m
  <2>2. CASE m < n
    <3>1. n - m \in 1 .. Len(e) /\ p[n] = e[n - m]
      BY <1>2, <2>2
    <3>. QED
      BY <3>1 DEF Keeps, ValuesSent
  <2>. QED
    BY <1>1, <2>1, <2>2
<1>9. RowCovers(p, r, on, val, M, D2, settled2, known)
  BY <1>5, <1>6, <1>7, <1>8 DEF RowCovers
<1>. QED
  BY <1>9 DEF p

(* No request waits at a server; requests are with the server of their     *)
(* row, and values come from it, to a client that it will push the row to. *)
NoneWait == \A s \in Servers, c \in Clients, k \in Clocks : queued[s][c][k] = << >>

RequestsPlaced ==
  \A c \in Clients, s \in Servers : \A m \in Range(toServer[c][s]) :
    m.type = "RowRequest" => ServerOf[m.row] = s

ValuesPlaced ==
  \A s \in Servers, c \in Clients, r \in Rows : \A m \in Range(toClient[s][c]) :
    Touches(m, r) => ServerOf[r] = s /\ c \in subscribed[r]

CachedSubscribed == \A c \in Clients, r \in Rows : Cached(c, r) => c \in subscribed[r]

RowsCovered ==
  \A c \in Clients, r \in Rows :
    RowCovers(toClient[ServerOf[r]][c], r, Cached(c, r), storage[c][r].data, made[r], data[r],
              c \in subscribed[r] /\ r \notin changed, serverClock[c][ServerOf[r]])

PushCoverInv ==
  Running => /\ NoneWait /\ RequestsPlaced
             /\ ValuesPlaced /\ CachedSubscribed /\ RowsCovered

LEMMA InitCover == PushInit => PushCoverInv
<1>1. SUFFICES ASSUME PushInit
               PROVE  /\ NoneWait /\ RequestsPlaced
                      /\ ValuesPlaced /\ CachedSubscribed /\ RowsCovered
  BY DEF PushCoverInv
<1>2. ASSUME NEW c \in Clients, NEW s \in Servers
      PROVE  /\ toServer[c][s] = << >> /\ toClient[s][c] = << >>
             /\ \A k \in Clocks : queued[s][c][k] = << >>
  BY <1>1 DEF PushInit, Init
<1>3. \A c \in Clients, r \in Rows : ~Cached(c, r) /\ subscribed[r] = {}
  BY <1>1 DEF PushInit, Init, Cached
<1>4. Range(<< >>) = {} /\ Len(<< >>) = 0
  BY DEF Range
<1>5. NoneWait /\ RequestsPlaced /\ ValuesPlaced /\ CachedSubscribed
  BY <1>2, <1>3, <1>4 DEF NoneWait, RequestsPlaced, ValuesPlaced, CachedSubscribed
<1>6. RowsCovered
  <2>1. ASSUME NEW c \in Clients, NEW r \in Rows
        PROVE  toClient[ServerOf[r]][c] = << >>
    BY <1>2, SSPAssumption
  <2>. QED
    BY <1>3, <1>4, <2>1 DEF RowsCovered, RowCovers
<1>. QED
  BY <1>5, <1>6

(* What a server has reached of the clocks, it has applied.                *)
AppliedBefore ==
  \A r \in Rows : Before(made[r], MinClock(sClock[ServerOf[r]])) \subseteq data[r]

LEMMA BeforeApplied ==
  ASSUME PushTypeOK, Accounted, BatchesOrdered, NEW r \in Rows
  PROVE  Before(made[r], MinClock(sClock[ServerOf[r]])) \subseteq data[r]
<1> DEFINE s == ServerOf[r]
           k == MinClock(sClock[s])
<1>1. SUFFICES ASSUME NEW u \in made[r], u[2] < k, u \notin data[r]
               PROVE  FALSE
  BY DEF Before
<1> DEFINE c == ClientOf[u[1]]
<1>2. u \in Updates /\ s \in Servers
  BY SSPAssumption DEF PushTypeOK, TypeHistory, Logs
<1>3. c \in Clients /\ u[2] \in Int
  BY <1>2, SSPAssumption DEF Updates, Clocks
<1>4. sClock[s] \in [Clients -> Nat]
  BY <1>2 DEF PushTypeOK, TypeServer
<1>5. k <= sClock[s][c] /\ k \in Int
  BY <1>2, <1>3, <1>4, MinClockLowest, ClockTypes
<1> HIDE DEF k
<1>6. sClock[s][c] \in Int
  BY <1>3, <1>4
<1>7. Orderly(toServer[c][s], r, oplog[c][r], sClock[s][c], bgClock[c], sVersion[s][c], version[c])
  BY <1>3 DEF BatchesOrdered
<1>8. CASE u \in oplog[c][r]
  <2>1. sClock[s][c] <= u[2]
    BY Zenon, <1>7, <1>8 DEF Orderly
  <2>. QED
    BY SMTT(20), <1>1, <1>3, <1>5, <1>6, <2>1
<1>9. CASE \E m \in OpLogsTo(c, s) : u \in m.log[r]
  <2>1. PICK m \in OpLogsTo(c, s) : u \in m.log[r]
    BY <1>9
  <2>2. toServer[c][s] \in Seq(PushToServerMsgs)
    BY <1>2, <1>3 DEF PushTypeOK, PushTypeNet
  <2>3. PICK i \in 1 .. Len(toServer[c][s]) : m = toServer[c][s][i]
    BY <2>1, <2>2, RangeElements DEF OpLogsTo, OfType
  <2>4. m.type = "OpLog"
    BY SMTT(20), <2>1 DEF OpLogsTo, OfType
  <2>5. sClock[s][c] <= u[2]
    BY Zenon, <1>7, <2>1, <2>3, <2>4 DEF Orderly
  <2>. QED
    BY <1>1, <1>3, <1>5, <1>6, <2>5
<1>. QED
  BY <1>1, <1>8, <1>9 DEF Accounted

LEMMA BeforeAppliedNext == PushTypeOK' /\ Accounted' /\ BatchesOrdered' => AppliedBefore'
<1>1. PushTypeOK /\ Accounted /\ BatchesOrdered => AppliedBefore
  BY BeforeApplied DEF AppliedBefore
<1>. QED
  BY <1>1, PTL

(* The channel and the values of one row, with their types.                *)
LEMMA CoverTypes ==
  ASSUME PushTypeOK, ClocksRise, NEW c \in Clients, NEW r \in Rows
  PROVE  LET s == ServerOf[r]
             q == toClient[s][c]
         IN  /\ s \in Servers /\ q \in Seq(PushToClientMsgs)
             /\ \A x \in PushToClientMsgs : x.type # "OpLogAck" => x.clock \in Int
             /\ \A u \in made[r] : u[2] \in Int
             /\ serverClock[c][s] \in Int /\ MinClock(sClock[s]) \in Int
             /\ serverClock[c][s] <= MinClock(sClock[s])
             /\ \A n \in 1 .. Len(q) : q[n].type # "OpLogAck" =>
                  serverClock[c][s] <= q[n].clock /\ q[n].clock <= MinClock(sClock[s])
<1> DEFINE s == ServerOf[r]
           q == toClient[s][c]
<1>1. s \in Servers
  BY SSPAssumption
<1>2. /\ q \in Seq(PushToClientMsgs) /\ serverClock[c][s] \in Int /\ MinClock(sClock[s]) \in Int
  BY <1>1, ClockTypes
<1>3. \A u \in made[r] : u[2] \in Int
  <2>1. made[r] \subseteq Updates
    BY DEF PushTypeOK, TypeHistory, Logs
  <2>. QED
    BY <2>1, SSPAssumption DEF Updates, Clocks
<1>4. /\ serverClock[c][s] <= MinClock(sClock[s])
      /\ \A n \in 1 .. Len(q) : q[n].type # "OpLogAck" =>
           serverClock[c][s] <= q[n].clock /\ q[n].clock <= MinClock(sClock[s])
  BY <1>1 DEF ClocksRise, RisingClock
<1>. QED
  BY <1>1, <1>2, <1>3, <1>4, PushMsgFields

(* A step that leaves the channels to the clients and the servers' rows:   *)
(* cached rows gain updates or go, and updates are made of a clock that no *)
(* server has reached.                                                     *)
LEMMA QuietCovered ==
  ASSUME PushTypeOK, ClocksRise, ValuesPlaced, CachedSubscribed, RowsCovered,
         UNCHANGED <<toClient, data, subscribed, changed, serverClock>>,
         \A c \in Clients, r \in Rows :
           Cached(c, r)' => Cached(c, r) /\ storage[c][r].data \subseteq storage'[c][r].data,
         \A r \in Rows : /\ made[r] \subseteq made'[r]
                         /\ \A u \in made'[r] \ made[r] :
                              u[2] \in Int /\ MinClock(sClock[ServerOf[r]]) <= u[2]
  PROVE  ValuesPlaced' /\ CachedSubscribed' /\ RowsCovered'
<1>1. ValuesPlaced' /\ CachedSubscribed'
  BY DEF ValuesPlaced, CachedSubscribed
<1>2. ASSUME NEW c \in Clients, NEW r \in Rows
      PROVE  RowCovers(toClient[ServerOf[r]][c], r, Cached(c, r)', storage'[c][r].data, made'[r],
                       data[r], c \in subscribed[r] /\ r \notin changed,
                       serverClock[c][ServerOf[r]])
  <2> DEFINE s == ServerOf[r]
             q == toClient[s][c]
             k == MinClock(sClock[s])
             known == serverClock[c][s]
             on == Cached(c, r)
             on2 == Cached(c, r)'
             val == storage[c][r].data
             val2 == storage'[c][r].data
             settled == c \in subscribed[r] /\ r \notin changed
  <2>1. /\ q \in Seq(PushToClientMsgs) /\ k \in Int /\ known \in Int /\ known <= k
        /\ \A n \in 1 .. Len(q) : q[n].type # "OpLogAck" => q[n].clock \in Int /\ q[n].clock <= k
    BY CoverTypes, ElementOfSeq
  <2>2. /\ made[r] \subseteq made'[r]
        /\ \A u \in made'[r] \ made[r] : u[2] \in Int /\ k <= u[2]
    OBVIOUS
  <2>3. RowCovers(q, r, on, val, made[r], data[r], settled, known)
    BY DEF RowsCovered
  <2>4. on2 => on /\ val \subseteq val2
    OBVIOUS
  <2> HIDE DEF q, k, known, on, on2, val, val2, settled
  <2>5. ASSUME NEW j \in Int, j <= k
        PROVE  Before(made'[r], j) = Before(made[r], j)
    BY <2>1, <2>2, <2>5 DEF Before
  <2>6. RowCovers(q, r, on2, val2, made'[r], data[r], settled, known)
    BY <2>1, <2>3, <2>4, <2>5, RowCoversStay
  <2>. QED
    BY <2>6 DEF q, known, on2, val2, settled, s
<1>. QED
  BY <1>1, <1>2 DEF RowsCovered

(* A client takes the first message from a server.                         *)
LEMMA TakenCovered ==
  ASSUME PushTypeOK, ClocksRise, ValuesPlaced, CachedSubscribed, RowsCovered,
         NEW c \in Clients, NEW s \in Servers, toClient[s][c] # << >>, Taken(c, s),
         UNCHANGED <<data, made, subscribed, changed>>,
         NEW m, m = Head(toClient[s][c]),
         \A d \in Clients, r \in Rows :
           ~(d = c /\ Touches(m, r)) => storage'[d][r] = storage[d][r],
         \A r \in Rows : Touches(m, r) /\ Cached(c, r)' => ValueOf(m, r) \subseteq storage'[c][r].data,
         \A d \in Clients, i \in Servers :
           ~(d = c /\ i = s) => serverClock'[d][i] = serverClock[d][i],
         \/ serverClock'[c][s] = serverClock[c][s]
         \/ m.type = "PushRow" /\ m.isClock /\ serverClock'[c][s] = m.clock
  PROVE  ValuesPlaced' /\ CachedSubscribed' /\ RowsCovered'
<1> DEFINE old == toClient[s][c]
<1>1. /\ old \in Seq(PushToClientMsgs) /\ toClient'[s][c] = Tail(old)
      /\ \A d \in Clients, i \in Servers : ~(d = c /\ i = s) => toClient'[i][d] = toClient[i][d]
  BY DEF PushTypeOK, PushTypeNet, Taken
<1>2. /\ Tail(old) \in Seq(PushToClientMsgs) /\ Shortened(Tail(old), old) /\ old[1] = m
  BY <1>1, TailShortens
<1>3. Range(Tail(old)) \subseteq Range(old) /\ m \in Range(old)
  BY <1>1, RangeTail
<1> HIDE DEF old
<1>4. \A d \in Clients, i \in Servers : Range(toClient'[i][d]) \subseteq Range(toClient[i][d])
  BY <1>1, <1>3 DEF old
<1>5. ValuesPlaced'
  BY <1>4 DEF ValuesPlaced
<1>6. \A r \in Rows : Touches(m, r) => ServerOf[r] = s /\ c \in subscribed[r]
  BY <1>3 DEF ValuesPlaced, old
<1>7. \A d \in Clients, r \in Rows :
        ~(d = c /\ Touches(m, r)) => (Cached(d, r)' <=> Cached(d, r))
  BY DEF Cached
<1>8. CachedSubscribed'
  BY <1>6, <1>7 DEF CachedSubscribed
<1>9. ASSUME NEW d \in Clients, NEW r \in Rows
      PROVE  RowCovers(toClient'[ServerOf[r]][d], r, Cached(d, r)', storage'[d][r].data, made[r],
                       data[r], d \in subscribed[r] /\ r \notin changed,
                       serverClock'[d][ServerOf[r]])
  <2>1. ServerOf[r] \in Servers
    BY SSPAssumption
  <2>2. RowCovers(toClient[ServerOf[r]][d], r, Cached(d, r), storage[d][r].data, made[r],
                  data[r], d \in subscribed[r] /\ r \notin changed, serverClock[d][ServerOf[r]])
    BY DEF RowsCovered
  <2>3. CASE ~(d = c /\ ServerOf[r] = s)
    <3>1. ~(d = c /\ Touches(m, r))
      BY <1>6, <2>3
    <3>2. /\ toClient'[ServerOf[r]][d] = toClient[ServerOf[r]][d]
          /\ storage'[d][r] = storage[d][r]
          /\ serverClock'[d][ServerOf[r]] = serverClock[d][ServerOf[r]]
      BY <1>1, <2>1, <2>3, <3>1
    <3>3. Cached(d, r)' = Cached(d, r)
      BY <3>2 DEF Cached
    <3>. QED
      BY <2>2, <3>2, <3>3
  <2>4. CASE d = c /\ ServerOf[r] = s
    <3> DEFINE known == serverClock[c][s]
               known2 == serverClock'[c][s]
               on == Cached(c, r)
               on2 == Cached(c, r)'
               val == storage[c][r].data
               val2 == storage'[c][r].data
               settled == c \in subscribed[r] /\ r \notin changed
               p == Tail(old)
    <3>1. /\ known \in Int /\ \A u \in made[r] : u[2] \in Int
          /\ \A x \in PushToClientMsgs : x.type # "OpLogAck" => x.clock \in Int
          /\ \A n \in 1 .. Len(old) : old[n].type # "OpLogAck" => known <= old[n].clock
      BY <2>4, CoverTypes DEF old
    <3>2. RowCovers(old, r, on, val, made[r], data[r], settled, known)
      BY <2>2, <2>4 DEF old
    <3>3. /\ Touches(m, r) /\ on2 => ValueOf(m, r) \subseteq val2
          /\ ~Touches(m, r) => (on2 => on) /\ val2 = val
      BY <1>7
    <3>4. known2 = known \/ (m.type = "PushRow" /\ m.isClock /\ known2 = m.clock)
      OBVIOUS
    <3>5. p \in Seq(PushToClientMsgs) /\ Shortened(p, old) /\ 1 \in 1 .. Len(old)
      BY <1>1, <1>2 DEF Shortened
    <3> HIDE DEF known, known2, on, on2, val, val2, settled, p
    <3>6. old[1].type # "OpLogAck" => known <= old[1].clock
      BY <3>1, <3>5
    <3>7. /\ Touches(old[1], r) /\ on2 => ValueOf(old[1], r) \subseteq val2
          /\ ~Touches(old[1], r) => (on2 => on) /\ val2 = val
          /\ known2 = known \/ (old[1].type = "PushRow" /\ old[1].isClock /\ known2 = old[1].clock)
      BY <1>2, <3>3, <3>4
    <3>8. RowCovers(p, r, on2, val2, made[r], data[r], settled, known2)
      BY <1>1, <3>1, <3>2, <3>5, <3>6, <3>7, RowCoversTaken
    <3>. QED
      BY <1>1, <2>4, <3>8 DEF known2, on2, val2, settled, p
  <2>. QED
    BY <2>3, <2>4
<1>. QED
  BY <1>5, <1>8, <1>9 DEF RowsCovered

(* What a server sends a client in one step, e: values that the server now *)
(* has, of rows that the client is subscribed to, and among them every row *)
(* that has changed and is no more marked so; when a push is made, every   *)
(* row that has changed, before the message that carries the clock.        *)
StaysSettled(d, r) == r \notin changed /\ d \in subscribed[r] /\ data'[r] = data[r]

Carries(s, d, e) ==
  /\ \A i \in 1 .. Len(e) : \A r \in Rows : Touches(e[i], r) =>
       /\ ServerOf[r] = s /\ d \in subscribed'[r]
       /\ ValueOf(e[i], r) = data'[r] /\ e[i].clock = MinClock(sClock'[s])
  /\ \A r \in Rows : ServerOf[r] = s /\ d \in subscribed'[r] /\ r \notin changed' =>
       StaysSettled(d, r) \/ \E i \in 1 .. Len(e) : Touches(e[i], r)
  /\ \A n \in 1 .. Len(e) : e[n].type = "PushRow" /\ e[n].isClock =>
       /\ e[n].clock = MinClock(sClock'[s])
       /\ \A r \in Rows : ServerOf[r] = s /\ d \in subscribed'[r] =>
            StaysSettled(d, r) \/ \E i \in 1 .. n : Touches(e[i], r)

SendsTo(s, d, e) ==
  e \in Seq(PushToClientMsgs) /\ toClient'[s][d] = toClient[s][d] \o e

LEMMA SentCovered ==
  ASSUME PushTypeOK, PushTypeOK', ClocksRise, Accounted', BatchesOrdered',
         ValuesPlaced, CachedSubscribed, RowsCovered, NEW s \in Servers,
         UNCHANGED <<made, storage, serverClock>>,
         \A r \in Rows : subscribed[r] \subseteq subscribed'[r],
         \A d \in Clients : \E e : SendsTo(s, d, e) /\ Carries(s, d, e),
         \A d \in Clients, i \in Servers : i # s => toClient'[i][d] = toClient[i][d],
         \A d \in Clients, r \in Rows :
           ServerOf[r] # s /\ d \in subscribed'[r] /\ r \notin changed' => StaysSettled(d, r)
  PROVE  ValuesPlaced' /\ CachedSubscribed' /\ RowsCovered'
<1>1. \A d \in Clients, r \in Rows : Cached(d, r)' = Cached(d, r)
  BY DEF Cached
<1>2. CachedSubscribed'
  BY <1>1 DEF CachedSubscribed
<1>3. ValuesPlaced'
  <2>1. SUFFICES ASSUME NEW i \in Servers, NEW d \in Clients, NEW r \in Rows,
                        NEW m \in Range(toClient'[i][d]), Touches(m, r)
                 PROVE  ServerOf[r] = i /\ d \in subscribed'[r]
    BY DEF ValuesPlaced
  <2>2. CASE m \in Range(toClient[i][d])
    BY <2>1, <2>2 DEF ValuesPlaced
  <2>3. CASE i = s /\ m \notin Range(toClient[i][d])
    <3>1. PICK e : SendsTo(s, d, e) /\ Carries(s, d, e)
      OBVIOUS
    <3>2. /\ toClient[s][d] \in Seq(PushToClientMsgs) /\ e \in Seq(PushToClientMsgs)
          /\ toClient'[s][d] = toClient[s][d] \o e
      BY <3>1 DEF SendsTo, PushTypeOK, PushTypeNet
    <3>3. Range(toClient'[s][d]) = Range(toClient[s][d]) \cup Range(e)
      BY <3>2, RangeConcat
    <3>4. m \in Range(e)
      BY <2>1, <2>3, <3>3
    <3>5. PICK n \in 1 .. Len(e) : m = e[n]
      BY <3>2, <3>4, RangeElements
    <3>. QED
      BY <2>1, <2>3, <3>1, <3>5 DEF Carries
  <2>. QED
    BY <2>1, <2>2, <2>3
<1>4. ASSUME NEW d \in Clients, NEW r \in Rows
      PROVE  RowCovers(toClient'[ServerOf[r]][d], r, Cached(d, r), storage[d][r].data, made[r],
                       data'[r], d \in subscribed'[r] /\ r \notin changed',
                       serverClock[d][ServerOf[r]])
  <2> DEFINE known    == serverClock[d][ServerOf[r]]
             on       == Cached(d, r)
             val      == storage[d][r].data
             settled  == d \in subscribed[r] /\ r \notin changed
             settled2 == d \in subscribed'[r] /\ r \notin changed'
             stays    == StaysSettled(d, r)
  <2>1. ServerOf[r] \in Servers
    BY SSPAssumption
  <2>2. RowCovers(toClient[ServerOf[r]][d], r, on, val, made[r], data[r], settled, known)
    BY DEF RowsCovered
  <2>3. CASE ServerOf[r] # s
    <3>1. toClient'[ServerOf[r]][d] = toClient[ServerOf[r]][d]
      BY <2>1, <2>3
    <3>2. settled2 => settled /\ data'[r] = data[r]
      BY <2>3 DEF StaysSettled
    <3> HIDE DEF known, on, val, settled, settled2
    <3>3. RowCovers(toClient[ServerOf[r]][d], r, on, val, made[r], data'[r], settled2, known)
      BY <2>2, <3>2 DEF RowCovers
    <3>. QED
      BY <3>1, <3>3 DEF known, on, val, settled2
  <2>4. CASE ServerOf[r] = s
    <3> DEFINE q   == toClient[s][d]
               now == MinClock(sClock'[s])
    <3>1. PICK e : SendsTo(s, d, e) /\ Carries(s, d, e)
      OBVIOUS
    <3>2. q \in Seq(PushToClientMsgs) /\ e \in Seq(PushToClientMsgs) /\ toClient'[s][d] = q \o e
      BY <3>1 DEF SendsTo, PushTypeOK, PushTypeNet
    <3>3. Before(made[r], now) \subseteq data'[r]
      BY <2>4, BeforeAppliedNext DEF AppliedBefore
    <3>4. ValuesSent(e, r, data'[r], now)
      BY <3>1 DEF Carries, ValuesSent
    <3>5. /\ settled2 => stays \/ \E i \in 1 .. Len(e) : Touches(e[i], r)
          /\ stays => settled /\ data'[r] = data[r]
      BY <2>4, <3>1 DEF Carries, StaysSettled
    <3>6. CASE d \in subscribed'[r]
      <4>1. ClockSent(q, e, r, on, stays, now)
        BY <2>4, <3>1, <3>6 DEF Carries, ClockSent
      <4>2. RowCovers(q, r, on, val, made[r], data[r], settled, known)
        BY <2>2, <2>4
      <4> HIDE DEF q, now, known, on, val, settled, settled2, stays
      <4>3. RowCovers(q \o e, r, on, val, made[r], data'[r], settled2, known)
        BY <3>2, <3>3, <3>4, <3>5, <4>1, <4>2, RowCoversSent
      <4>. QED
        BY <2>4, <3>2, <4>3 DEF known, on, val, settled2
    <3>7. CASE d \notin subscribed'[r]
      <4>1. ~on
        BY <3>7 DEF CachedSubscribed
      <4>2. \A j \in 1 .. Len(q) : ~Touches(q[j], r)
        BY <2>4, <3>2, <3>7, RangeElements DEF ValuesPlaced
      <4>3. \A j \in 1 .. Len(e) : ~Touches(e[j], r)
        BY <3>1, <3>7 DEF Carries
      <4>4. ClockSent(q, e, r, on, stays, now)
        BY <3>1, <4>1, <4>2, <4>3 DEF Carries, ClockSent
      <4>5. RowCovers(q, r, on, val, made[r], data[r], settled, known)
        BY <2>2, <2>4
      <4> HIDE DEF q, now, known, on, val, settled, settled2, stays
      <4>6. RowCovers(q \o e, r, on, val, made[r], data'[r], settled2, known)
        BY <3>2, <3>3, <3>4, <3>5, <4>4, <4>5, RowCoversSent
      <4>. QED
        BY <2>4, <3>2, <4>6 DEF known, on, val, settled2
    <3>. QED
      BY <3>6, <3>7
  <2>. QED
    BY <2>3, <2>4
<1>. QED
  BY <1>1, <1>2, <1>3, <1>4 DEF RowsCovered

-----------------------------------------------------------------------------
(* The rows of a push: those of the client among the ones to push, in the  *)
(* order that leaves the clock for the last message.                       *)
LEMMA PushRowMsgsCarry ==
  ASSUME NEW rows \in SUBSET Rows, NEW value \in Logs, NEW clk, NEW v, NEW seq \in Nat
  PROVE  LET p == PushRowMsgs(rows, value, clk, v, seq)
         IN  /\ \A i \in 1 .. Len(p) : \A r : Touches(p[i], r) => r \in rows /\ ValueOf(p[i], r) = value[r]
             /\ \A r \in rows : \E i \in 1 .. Len(p) : Touches(p[i], r)
             /\ \A n \in 1 .. Len(p) : p[n].isClock => n = Len(p)
<1> DEFINE parts == IF rows \cap Fill = {} THEN << rows >>
                    ELSE << rows \cap Fill, rows \ Fill >>
           msg(i) == [type |-> "PushRow", isClock |-> i = Len(parts), clock |-> clk,
                      version |-> v, seq |-> seq + i,
                      data |-> [r \in parts[i] |-> value[r]]]
           msgs  == [i \in DOMAIN parts |-> msg(i)]
<1>1. /\ parts \in Seq(SUBSET Rows) /\ DOMAIN parts = 1 .. Len(parts) /\ Len(parts) \in Nat
      /\ \A i \in 1 .. Len(parts) : parts[i] \subseteq rows
      /\ \A r \in rows : \E i \in 1 .. Len(parts) : r \in parts[i]
  <2>1. CASE rows \cap Fill = {}
    BY <2>1
  <2>2. CASE rows \cap Fill # {}
    <3> DEFINE two == << rows \cap Fill, rows \ Fill >>
    <3>1. parts = two
      BY <2>2
    <3>2. /\ two \in Seq(SUBSET Rows) /\ Len(two) = 2 /\ DOMAIN two = 1 .. 2
          /\ two[1] = rows \cap Fill /\ two[2] = rows \ Fill
      OBVIOUS
    <3>3. 1 \in 1 .. 2 /\ 2 \in 1 .. 2 /\ \A i \in 1 .. 2 : i = 1 \/ i = 2
      OBVIOUS
    <3> HIDE DEF two
    <3>4. /\ \A i \in 1 .. 2 : two[i] \subseteq rows
          /\ \A r \in rows : \E i \in 1 .. 2 : r \in two[i]
      BY <3>2, <3>3
    <3> HIDE DEF parts
    <3>. QED
      BY <3>1, <3>2, <3>4
  <2>. QED
    BY <2>1, <2>2
<1> HIDE DEF parts
<1>2. Len(msgs) = Len(parts) /\ \A i \in 1 .. Len(parts) : msgs[i] = msg(i)
  <2>1. msgs = [i \in 1 .. Len(parts) |-> msg(i)]
    BY <1>1
  <2> HIDE DEF msg, msgs
  <2>. QED
    BY <1>1, <2>1
<1>3. ASSUME NEW i \in 1 .. Len(msgs)
      PROVE  /\ msgs[i].type = "PushRow" /\ (msgs[i].isClock => i = Len(msgs))
             /\ DOMAIN msgs[i].data = parts[i] /\ \A r \in parts[i] : msgs[i].data[r] = value[r]
  <2> DEFINE d == [r \in parts[i] |-> value[r]]
             b == i = Len(parts)
             rec == [type |-> "PushRow", isClock |-> b, clock |-> clk,
                     version |-> v, seq |-> seq + i, data |-> d]
  <2>1. msgs[i] = rec /\ Len(msgs) = Len(parts)
    BY Zenon, <1>2
  <2>2. DOMAIN d = parts[i] /\ \A r \in parts[i] : d[r] = value[r]
    OBVIOUS
  <2>3. b => i = Len(msgs)
    BY <2>1
  <2> HIDE DEF msgs, d, b
  <2>4. rec.type = "PushRow" /\ rec.data = d
    OBVIOUS
  <2>5. rec.isClock => b
    OBVIOUS
  <2> HIDE DEF rec
  <2>. QED
    BY SMTT(20), <2>1, <2>2, <2>3, <2>4, <2>5
<1>4. PushRowMsgs(rows, value, clk, v, seq) = msgs
  BY DEF PushRowMsgs, parts
<1> HIDE DEF msgs
<1>5. \A i \in 1 .. Len(msgs) : \A r :
        /\ Touches(msgs[i], r) <=> r \in parts[i]
        /\ r \in parts[i] => ValueOf(msgs[i], r) = value[r]
  BY SMTT(20), <1>3 DEF Touches, ValueOf
<1>6. \A i \in 1 .. Len(msgs) : \A r : Touches(msgs[i], r) => r \in rows /\ ValueOf(msgs[i], r) = value[r]
  BY ZenonT(30), <1>1, <1>2, <1>5
<1>7. \A r \in rows : \E i \in 1 .. Len(msgs) : Touches(msgs[i], r)
  BY <1>1, <1>2, <1>5
<1>8. \A n \in 1 .. Len(msgs) : msgs[n].isClock => n = Len(msgs)
  BY <1>3
<1>. QED
  BY <1>4, <1>6, <1>7, <1>8

LEMMA PushedCarry ==
  ASSUME PushTypeOK, NEW s \in Servers, NEW d \in Clients, NEW value \in Logs, NEW clk \in Nat,
         NEW vers \in [Clients -> Versions], NEW subs, NEW dirtyRows \in SUBSET Rows,
         value = data', clk = MinClock(sClock'[s]), subs = subscribed',
         changed' = ResetDirty(s, subs, dirtyRows),
         \A r \in Rows : ServerOf[r] = s /\ d \in subs[r] /\ r \notin dirtyRows => StaysSettled(d, r)
  PROVE  LET p == Pushed(s, d, value, clk, vers, subs, dirtyRows)
         IN  p \in Seq(PushToClientMsgs) /\ Carries(s, d, p)
<1> DEFINE rows == { r \in ToPush(s, subs, dirtyRows) : d \in subs[r] }
           p    == Pushed(s, d, value, clk, vers, subs, dirtyRows)
<1>1. p \in Seq(PushedMsgs) /\ \A i \in 1 .. Len(p) : p[i].clock = clk
  BY PushedAre DEF PushTypeOK
<1>2. p \in Seq(PushToClientMsgs) /\ Len(p) \in Nat
  BY <1>1 DEF PushToClientMsgs
<1>3. rows \in SUBSET Rows /\ pushSent[s][d] \in Nat
  BY DEF ToPush, PushTypeOK, PushTypeServer
<1>4. p = PushRowMsgs(rows, value, clk, vers[d], pushSent[s][d])
  BY DEF Pushed
<1>5. \A r \in rows : ServerOf[r] = s /\ d \in subs[r]
  BY DEF ToPush
<1>6. \A r \in Rows : ServerOf[r] = s /\ d \in subs[r] => StaysSettled(d, r) \/ r \in rows
  BY DEF ToPush
<1>7. \A r \in Rows : ServerOf[r] = s /\ d \in subs[r] /\ r \in rows => r \notin changed'
  BY DEF ResetDirty
<1> HIDE DEF p, rows
<1>8. /\ \A i \in 1 .. Len(p) : \A r : Touches(p[i], r) => r \in rows /\ ValueOf(p[i], r) = value[r]
      /\ \A r \in rows : \E i \in 1 .. Len(p) : Touches(p[i], r)
      /\ \A n \in 1 .. Len(p) : p[n].isClock => n = Len(p)
  <2> DEFINE v  == vers[d]
             sq == pushSent[s][d]
  <2>1. sq \in Nat /\ p = PushRowMsgs(rows, value, clk, v, sq)
    BY <1>3, <1>4
  <2> HIDE DEF v, sq
  <2>2. LET q == PushRowMsgs(rows, value, clk, v, sq)
        IN  /\ \A i \in 1 .. Len(q) : \A r : Touches(q[i], r) => r \in rows /\ ValueOf(q[i], r) = value[r]
            /\ \A r \in rows : \E i \in 1 .. Len(q) : Touches(q[i], r)
            /\ \A n \in 1 .. Len(q) : q[n].isClock => n = Len(q)
    BY <1>3, <2>1, PushRowMsgsCarry
  <2>. QED
    BY <2>1, <2>2
<1>9. \A i \in 1 .. Len(p) : \A r \in Rows : Touches(p[i], r) =>
        /\ ServerOf[r] = s /\ d \in subscribed'[r]
        /\ ValueOf(p[i], r) = data'[r] /\ p[i].clock = MinClock(sClock'[s])
  BY <1>1, <1>5, <1>8
<1>10. \A r \in Rows : ServerOf[r] = s /\ d \in subscribed'[r] =>
         StaysSettled(d, r) \/ \E i \in 1 .. Len(p) : Touches(p[i], r)
  BY <1>6, <1>8
<1>11. \A n \in 1 .. Len(p) : p[n].type = "PushRow" /\ p[n].isClock =>
         /\ p[n].clock = MinClock(sClock'[s])
         /\ \A r \in Rows : ServerOf[r] = s /\ d \in subscribed'[r] =>
              StaysSettled(d, r) \/ \E i \in 1 .. n : Touches(p[i], r)
  BY <1>1, <1>8, <1>10
<1>12. Carries(s, d, p)
  BY <1>9, <1>10, <1>11 DEF Carries
<1>. QED
  BY <1>2, <1>12 DEF p

(* Nothing is sent where nothing is settled anew.                          *)
LEMMA NothingCarried ==
  ASSUME NEW s, NEW d,
         \A r \in Rows : ServerOf[r] = s /\ d \in subscribed'[r] /\ r \notin changed' =>
           StaysSettled(d, r)
  PROVE  << >> \in Seq(PushToClientMsgs) /\ Carries(s, d, << >>)
<1>1. Len(<< >>) = 0 /\ << >> \in Seq(PushToClientMsgs)
  OBVIOUS
<1>. QED
  BY <1>1 DEF Carries

(* An acknowledgement after them changes nothing.                          *)
LEMMA CarriesMore ==
  ASSUME NEW s, NEW d, NEW p \in Seq(PushToClientMsgs), Carries(s, d, p), NEW a \in Seq(AckMsgs)
  PROVE  p \o a \in Seq(PushToClientMsgs) /\ Carries(s, d, p \o a)
<1> DEFINE q == p \o a
           now == MinClock(sClock'[s])
<1>1. /\ a \in Seq(PushToClientMsgs) /\ Len(p) \in Nat /\ Len(a) \in Nat
  BY DEF PushToClientMsgs
<1>2. /\ q \in Seq(PushToClientMsgs) /\ Len(q) = Len(p) + Len(a)
      /\ \A i \in 1 .. Len(p) : q[i] = p[i]
      /\ \A i \in 1 .. Len(a) : q[Len(p) + i] = a[i]
  BY <1>1, ConcatProperties
<1>3. \A i \in 1 .. Len(a) : a[i].type = "OpLogAck"
  <2>1. \A i \in 1 .. Len(a) : a[i] \in AckMsgs
    BY ElementOfSeq
  <2>. QED
    BY <2>1 DEF AckMsgs
<1> HIDE DEF q, now
<1>4. \A i \in 1 .. Len(q) : \/ i \in 1 .. Len(p) /\ q[i] = p[i]
                            \/ q[i].type = "OpLogAck"
  <2>1. TAKE i \in 1 .. Len(q)
  <2>2. CASE i <= Len(p)
    BY <1>1, <1>2, <2>2
  <2>3. CASE ~(i <= Len(p))
    <3>1. i - Len(p) \in 1 .. Len(a) /\ Len(p) + (i - Len(p)) = i
      BY <1>1, <1>2, <2>3
    <3>. QED
      BY <1>2, <1>3, <3>1
  <2>. QED
    BY <2>2, <2>3
<1>5. \A m, r : m.type = "OpLogAck" => ~Touches(m, r)
  BY DEF Touches
<1>6. \A i \in 1 .. Len(q) : \A r \in Rows : Touches(q[i], r) =>
        /\ ServerOf[r] = s /\ d \in subscribed'[r]
        /\ ValueOf(q[i], r) = data'[r] /\ q[i].clock = MinClock(sClock'[s])
  <2>1. TAKE i \in 1 .. Len(q)
  <2>2. CASE i \in 1 .. Len(p) /\ q[i] = p[i]
    BY <2>2 DEF Carries
  <2>3. CASE q[i].type = "OpLogAck"
    BY <1>5, <2>3
  <2>. QED
    BY <1>4, <2>2, <2>3
<1>7. \A n \in 1 .. Len(p) : n \in 1 .. Len(q)
  BY <1>1, <1>2
<1>8. \A r \in Rows : ServerOf[r] = s /\ d \in subscribed'[r] /\ r \notin changed' =>
        StaysSettled(d, r) \/ \E i \in 1 .. Len(q) : Touches(q[i], r)
  <2>1. TAKE r \in Rows
  <2>2. HAVE ServerOf[r] = s /\ d \in subscribed'[r] /\ r \notin changed'
  <2>3. StaysSettled(d, r) \/ \E i \in 1 .. Len(p) : Touches(p[i], r)
    BY <2>2 DEF Carries
  <2>. QED
    BY <1>2, <1>7, <2>3
<1>9. \A n \in 1 .. Len(q) : q[n].type = "PushRow" /\ q[n].isClock =>
        /\ q[n].clock = MinClock(sClock'[s])
        /\ \A r \in Rows : ServerOf[r] = s /\ d \in subscribed'[r] =>
             StaysSettled(d, r) \/ \E i \in 1 .. n : Touches(q[i], r)
  <2>1. TAKE n \in 1 .. Len(q)
  <2>2. HAVE q[n].type = "PushRow" /\ q[n].isClock
  <2>3. n \in 1 .. Len(p) /\ q[n] = p[n]
    BY <1>4, <2>2
  <2>4. /\ p[n].clock = MinClock(sClock'[s])
        /\ \A r \in Rows : ServerOf[r] = s /\ d \in subscribed'[r] =>
             StaysSettled(d, r) \/ \E i \in 1 .. n : Touches(p[i], r)
    BY <2>2, <2>3 DEF Carries
  <2>5. \A i \in 1 .. n : q[i] = p[i]
    BY <1>1, <1>2, <2>3
  <2>. QED
    BY <2>3, <2>4, <2>5
<1>10. Carries(s, d, q)
  BY <1>6, <1>8, <1>9 DEF Carries
<1>. QED
  BY <1>2, <1>10 DEF q

(* A step of server s: what it sends carries what it has.                  *)
CarriesOn(s) ==
  /\ UNCHANGED <<made, storage, serverClock>>
  /\ \A r \in Rows : subscribed[r] \subseteq subscribed'[r]
  /\ \A d \in Clients : \E e : SendsTo(s, d, e) /\ Carries(s, d, e)
  /\ \A d \in Clients, i \in Servers : i # s => toClient'[i][d] = toClient[i][d]
  /\ \A d \in Clients, r \in Rows :
       ServerOf[r] # s /\ d \in subscribed'[r] /\ r \notin changed' => StaysSettled(d, r)

LEMMA NoneAnswered ==
  ASSUME PushTypeOK, NoneWait, NEW c \in Clients, NEW s \in Servers,
         toServer[c][s] # << >>, Head(toServer[c][s]).type = "OpLog"
  PROVE  /\ \A d \in Clients : OpLogReplies(c, s, d) = << >>
         /\ OpLogSubs(c, s) = subscribed
<1>1. \A d \in Clients : OpLogWaiting(c, s, d) = << >>
  BY DEF OpLogWaiting, Fulfilled, NoneWait, PushTypeOK, TypeServer
<1>2. ASSUME NEW d \in Clients PROVE OpLogReplies(c, s, d) = << >>
  <2>1. DOMAIN OpLogWaiting(c, s, d) = {}
    BY <1>1
  <2>2. DOMAIN OpLogReplies(c, s, d) = {}
    BY <2>1 DEF OpLogReplies
  <2>3. OpLogReplies(c, s, d) \in Seq(RowReplyMsgs)
    BY OpLogSendsAre
  <2> DEFINE q == OpLogReplies(c, s, d)
  <2> HIDE DEF q
  <2>4. DOMAIN q = {} /\ q \in Seq(RowReplyMsgs)
    BY <2>2, <2>3 DEF q
  <2>5. DOMAIN q = 1 .. Len(q) /\ Len(q) \in Nat
    BY <2>4, LenProperties
  <2>6. Len(q) = 0
    <3>1. Len(q) # 0 => 1 \in 1 .. Len(q)
      BY <2>5
    <3>. QED
      BY <2>4, <2>5, <3>1
  <2>. QED
    BY <2>4, <2>6, EmptySeq DEF q
<1>3. OpLogSubs(c, s) = subscribed
  <2>1. subscribed \in [Rows -> SUBSET Clients]
    BY DEF PushTypeOK, PushTypeServer
  <2>2. Range(<< >>) = {}
    BY DEF Range
  <2>3. ASSUME NEW r \in Rows
        PROVE  subscribed[r] \cup { d \in Clients : r \in Range(OpLogWaiting(c, s, d)) } = subscribed[r]
    BY <1>1, <2>2
  <2>. QED
    BY <2>1, <2>3 DEF OpLogSubs
<1>. QED
  BY <1>2, <1>3

LEMMA OpLogCarries ==
  ASSUME PushTypeOK, PushTypeOK', NoneWait, NEW c \in Clients, NEW s \in Servers,
         PushServerOpLog(c, s), Running'
  PROVE  NoneWait' /\ CarriesOn(s)
<1> DEFINE m == Head(toServer[c][s])
           dirtyRows == OpLogDirty(c, s)
<1>1. /\ toServer[c][s] # << >> /\ m.type = "OpLog"
      /\ UNCHANGED <<appVars, clientVars, bgVars, toBg, made, pushClientVars>>
      /\ data'     = OpLogRows(c, s)
      /\ sVersion' = [sVersion EXCEPT ![s] = OpLogVers(c, s)]
      /\ sClock'   = [sClock EXCEPT ![s] = OpLogClocks(c, s)]
      /\ queued'   = IF OpLogMoved(c, s)
                     THEN [queued EXCEPT ![s] = [d \in Clients |->
                             [@[d] EXCEPT ![OpLogNow(c, s)] = << >>]]]
                     ELSE queued
      /\ subscribed' = OpLogSubs(c, s)
      /\ changed' = IF OpLogPush(c, s)
                    THEN ResetDirty(s, OpLogSubs(c, s), OpLogDirty(c, s))
                    ELSE OpLogDirty(c, s)
      /\ toClient' = [toClient EXCEPT ![s] = [d \in Clients |->
           @[d] \o OpLogReplies(c, s, d) \o OpLogPushes(c, s, d)
                \o OpLogAcks(c, s, d)]]
  BY PushServerOpLogIs DEF Running
<1>2. /\ m \in OpLogMsgs /\ OpLogNow(c, s) \in Nat /\ OpLogRows(c, s) \in Logs
      /\ OpLogVers(c, s) \in [Clients -> Versions] /\ dirtyRows \in SUBSET Rows
  BY <1>1, OpLogTypes
<1>3. /\ \A d \in Clients : OpLogReplies(c, s, d) = << >>
      /\ subscribed' = subscribed /\ OpLogSubs(c, s) = subscribed
  BY <1>1, NoneAnswered
<1>4. NoneWait'
  <2>1. queued \in [Servers -> [Clients -> [Clocks -> Seq(Rows)]]]
    BY DEF PushTypeOK, TypeServer
  <2>2. \A i \in Servers, d \in Clients, k \in Clocks : queued'[i][d][k] = << >>
    <3>1. TAKE i \in Servers, d \in Clients, k \in Clocks
    <3>2. queued[i][d][k] = << >>
      BY DEF NoneWait
    <3>3. CASE OpLogMoved(c, s) /\ i = s
      <4>1. queued'[i][d] = [queued[s][d] EXCEPT ![OpLogNow(c, s)] = << >>]
        BY <1>1, <2>1, <3>3
      <4>. QED
        BY <2>1, <3>2, <3>3, <4>1
    <3>4. CASE ~(OpLogMoved(c, s) /\ i = s)
      BY <1>1, <2>1, <3>2, <3>4
    <3>. QED
      BY <3>3, <3>4
  <2>. QED
    BY <2>2 DEF NoneWait
<1>5. ASSUME NEW d \in Clients, NEW r \in Rows, r \notin dirtyRows, d \in subscribed'[r]
      PROVE  StaysSettled(d, r)
  <2>1. r \notin changed /\ m.log[r] = {}
    BY <1>5 DEF OpLogDirty
  <2>2. data'[r] = data[r] \cup m.log[r]
    BY <1>1 DEF OpLogRows, Applied
  <2>. QED
    BY <1>3, <1>5, <2>1, <2>2 DEF StaysSettled
<1>6. ASSUME NEW d \in Clients, NEW r \in Rows, ServerOf[r] # s, d \in subscribed'[r],
             r \notin changed'
      PROVE  StaysSettled(d, r)
  <2>1. r \notin dirtyRows
    BY <1>1, <1>6 DEF ResetDirty, ToPush
  <2>. QED
    BY <1>5, <1>6, <2>1
<1>7. MinClock(sClock'[s]) = OpLogNow(c, s)
  BY <1>1 DEF OpLogNow, PushTypeOK, TypeServer
<1>8. ASSUME NEW d \in Clients
      PROVE  \E e : SendsTo(s, d, e) /\ Carries(s, d, e)
  <2> DEFINE p == OpLogPushes(c, s, d)
             a == OpLogAcks(c, s, d)
             q == toClient[s][d]
  <2>1. p \in Seq(PushToClientMsgs) /\ Carries(s, d, p)
    <3>1. CASE OpLogPush(c, s)
      <4>1. p = Pushed(s, d, OpLogRows(c, s), OpLogNow(c, s), OpLogVers(c, s),
                       OpLogSubs(c, s), OpLogDirty(c, s))
        BY <3>1 DEF OpLogPushes
      <4>2. changed' = ResetDirty(s, OpLogSubs(c, s), dirtyRows)
        BY <1>1, <3>1
      <4>3. \A r \in Rows : ServerOf[r] = s /\ d \in OpLogSubs(c, s)[r] /\ r \notin dirtyRows =>
              StaysSettled(d, r)
        BY <1>1, <1>5
      <4> DEFINE value == OpLogRows(c, s)
                 clk   == OpLogNow(c, s)
                 vers  == OpLogVers(c, s)
                 subs  == OpLogSubs(c, s)
      <4>4. /\ value \in Logs /\ clk \in Nat /\ vers \in [Clients -> Versions]
            /\ dirtyRows \in SUBSET Rows /\ value = data' /\ clk = MinClock(sClock'[s])
            /\ subs = subscribed' /\ changed' = ResetDirty(s, subs, dirtyRows)
            /\ \A r \in Rows : ServerOf[r] = s /\ d \in subs[r] /\ r \notin dirtyRows =>
                 StaysSettled(d, r)
            /\ p = Pushed(s, d, value, clk, vers, subs, dirtyRows)
        BY <1>1, <1>2, <1>7, <4>1, <4>2, <4>3
      <4> HIDE DEF p, value, clk, vers, subs, dirtyRows
      <4>. QED
        BY <4>4, PushedCarry
    <3>2. CASE ~OpLogPush(c, s)
      <4>1. p = << >> /\ changed' = dirtyRows
        BY <1>1, <3>2 DEF OpLogPushes
      <4>2. \A r \in Rows : ServerOf[r] = s /\ d \in subscribed'[r] /\ r \notin changed' =>
              StaysSettled(d, r)
        BY <1>5, <4>1
      <4>. QED
        BY <4>1, <4>2, NothingCarried
    <3>. QED
      BY <3>1, <3>2
  <2>2. a \in Seq(AckMsgs) /\ q \in Seq(PushToClientMsgs)
    BY <1>1, OpLogSendsAre DEF PushTypeOK, PushTypeNet
  <2>3. toClient'[s][d] = q \o << >> \o p \o a
    BY <1>1, <1>3 DEF PushTypeOK, PushTypeNet
  <2> HIDE DEF p, a, q
  <2>4. p \o a \in Seq(PushToClientMsgs) /\ Carries(s, d, p \o a)
    BY <2>1, <2>2, CarriesMore
  <2>5. a \in Seq(PushToClientMsgs)
    BY <2>2 DEF PushToClientMsgs
  <2>6. q \o << >> = q
    BY <2>2
  <2>7. (q \o p) \o a = q \o (p \o a)
    BY <2>1, <2>2, <2>5, ConcatAssociative
  <2>8. SendsTo(s, d, p \o a)
    BY <2>3, <2>4, <2>6, <2>7 DEF SendsTo, q
  <2>. QED
    BY <2>4, <2>8
<1>9. \A d \in Clients, i \in Servers : i # s => toClient'[i][d] = toClient[i][d]
  BY <1>1 DEF PushTypeOK, PushTypeNet
<1>10. UNCHANGED <<made, storage, serverClock>>
  BY <1>1 DEF clientVars, pushClientVars
<1>. QED
  BY <1>3, <1>4, <1>6, <1>8, <1>9, <1>10 DEF CarriesOn

LEMMA PushAckCarries ==
  ASSUME PushTypeOK, PushTypeOK', NoneWait, NEW c \in Clients, NEW s \in Servers,
         ServerPushAck(c, s), Running'
  PROVE  NoneWait' /\ CarriesOn(s)
<1> DEFINE m    == Head(toServer[c][s])
           ack  == [pushAcked[s] EXCEPT ![c] = m.seq]
           push == DuePush(s, ack)
           clk  == MinClock(sClock[s])
           vers == sVersion[s]
           pushes(d) == IF push THEN Pushed(s, d, data, clk, vers, subscribed, changed)
                        ELSE << >>
<1>1. /\ UNCHANGED <<appVars, clientVars, serverVars, made, pushClientVars, subscribed>>
      /\ changed' = IF push THEN ResetDirty(s, subscribed, changed) ELSE changed
      /\ toClient' = [toClient EXCEPT ![s] = [d \in Clients |-> @[d] \o pushes(d)]]
  BY DEF ServerPushAck, Running
<1>2. /\ UNCHANGED <<made, storage, serverClock, queued, data, sClock, sVersion>>
  BY <1>1 DEF clientVars, pushClientVars, serverVars
<1>3. /\ data \in Logs /\ clk \in Nat /\ vers \in [Clients -> Versions]
      /\ changed \in SUBSET Rows
  BY MinClockType DEF PushTypeOK, TypeServer, PushTypeServer
<1> HIDE DEF ack, push, m
<1>4. NoneWait'
  BY <1>2 DEF NoneWait
<1>5. \A d \in Clients, r \in Rows : r \notin changed /\ d \in subscribed[r] => StaysSettled(d, r)
  BY <1>2 DEF StaysSettled
<1>6. \A d \in Clients, r \in Rows :
        ServerOf[r] # s /\ d \in subscribed'[r] /\ r \notin changed' => StaysSettled(d, r)
  BY <1>1, <1>5 DEF ResetDirty, ToPush
<1>7. ASSUME NEW d \in Clients
      PROVE  \E e : SendsTo(s, d, e) /\ Carries(s, d, e)
  <2>1. pushes(d) \in Seq(PushToClientMsgs) /\ Carries(s, d, pushes(d))
    <3>1. CASE push
      <4>1. changed' = ResetDirty(s, subscribed, changed) /\ subscribed = subscribed'
            /\ data = data' /\ clk = MinClock(sClock'[s])
        BY <1>1, <1>2, <3>1
      <4>2. \A r \in Rows : ServerOf[r] = s /\ d \in subscribed[r] /\ r \notin changed =>
              StaysSettled(d, r)
        BY <1>5
      <4>3. pushes(d) = Pushed(s, d, data, clk, vers, subscribed, changed)
        BY <3>1
      <4> HIDE DEF clk, vers
      <4>. QED
        BY <1>3, <4>1, <4>2, <4>3, PushedCarry
    <3>2. CASE ~push
      <4>1. \A r \in Rows : ServerOf[r] = s /\ d \in subscribed'[r] /\ r \notin changed' =>
              StaysSettled(d, r)
        BY <1>1, <1>5, <3>2
      <4>. QED
        BY <3>2, <4>1, NothingCarried
    <3>. QED
      BY <3>1, <3>2
  <2> HIDE DEF pushes
  <2>2. toClient'[s][d] = toClient[s][d] \o pushes(d)
    BY <1>1 DEF PushTypeOK, PushTypeNet
  <2>3. SendsTo(s, d, pushes(d))
    BY <2>1, <2>2 DEF SendsTo
  <2>. QED
    BY <2>1, <2>3
<1> HIDE DEF pushes
<1>8. \A d \in Clients, i \in Servers : i # s => toClient'[i][d] = toClient[i][d]
  BY <1>1 DEF PushTypeOK, PushTypeNet
<1>. QED
  BY <1>1, <1>2, <1>4, <1>6, <1>7, <1>8 DEF CarriesOn

LEMMA AnswerCarries ==
  ASSUME PushTypeOK, PushTypeOK', NoneWait, RequestsPlaced, ClocksRise, RequestsReached,
         NEW c \in Clients, NEW s \in Servers, PushServerRowRequest(c, s)
  PROVE  NoneWait' /\ CarriesOn(s)
<1> DEFINE m     == Head(toServer[c][s])
           now   == MinClock(sClock[s])
           reply == RowReplyMsg(m.row, now, sVersion[s][c], data[m.row])
<1>1. toServer[c][s] # << >> /\ m.type = "RowRequest"
  BY DEF PushServerRowRequest, ServerRowRequest
<1>2. m \in Range(toServer[c][s])
  BY <1>1, RangeTail DEF PushTypeOK, PushTypeNet
<1>3. m \in RowRequestMsgs
  BY <1>1, PushHeadToServer, PushMsgFields DEF PushTypeOK
<1>4. /\ m.row \in Rows /\ m.clock \in Int /\ ServerOf[m.row] = s
  BY <1>1, <1>2, <1>3, SSPAssumption DEF RowRequestMsgs, RequestsPlaced, Clocks
<1>5. Fresh(s, m.clock)
  <2>1. m.clock <= serverClock[c][s]
    BY <1>1, <1>2 DEF RequestsReached
  <2>2. /\ serverClock[c][s] <= now /\ serverClock[c][s] \in Int /\ now \in Int
    BY ClockTypes DEF ClocksRise, RisingClock
  <2> HIDE DEF m, now
  <2>3. now >= m.clock
    BY <1>4, <2>1, <2>2
  <2>. QED
    BY <2>3 DEF Fresh, now
<1>6. /\ UNCHANGED <<appVars, clientVars, bgVars, data, sClock, sVersion, toBg, histVars>>
      /\ UNCHANGED <<pushClientVars, changed, queued>>
      /\ subscribed' = [subscribed EXCEPT ![m.row] = @ \cup {c}]
      /\ toClient' = [toClient EXCEPT ![s][c] = Append(@, reply)]
  BY <1>5 DEF PushServerRowRequest, ServerRowRequest, Subscribed
<1>7. UNCHANGED <<made, storage, serverClock, data, sClock, changed, queued>>
  BY <1>6 DEF clientVars, histVars, pushClientVars
<1>8. NoneWait'
  BY <1>7 DEF NoneWait
<1>9. /\ subscribed \in [Rows -> SUBSET Clients]
      /\ \A r \in Rows : subscribed'[r] = IF r = m.row THEN subscribed[r] \cup {c} ELSE subscribed[r]
  BY <1>6 DEF PushTypeOK, PushTypeServer
<1>10. reply \in RowReplyMsgs /\ reply.type = "RowReply" /\ reply.row = m.row
       /\ reply.clock = now /\ reply.data = data[m.row]
  <2>1. now \in Nat /\ sVersion[s][c] \in Versions /\ data[m.row] \in SUBSET Updates
    BY <1>4, MinClockType DEF PushTypeOK, TypeServer, Logs
  <2>2. reply \in RowReplyMsgs
    BY <1>4, <2>1, RowReplyMsgType
  <2>. QED
    BY <2>2 DEF RowReplyMsg
<1> HIDE DEF m, now, reply
<1>11. /\ \A r : Touches(reply, r) <=> r = m.row
       /\ ValueOf(reply, m.row) = data[m.row]
  BY <1>10 DEF Touches, ValueOf
<1>12. ASSUME NEW d \in Clients, NEW r \in Rows, d # c \/ r # m.row, d \in subscribed'[r],
              r \notin changed'
       PROVE  StaysSettled(d, r)
  BY <1>7, <1>9, <1>12 DEF StaysSettled
<1>13. ASSUME NEW d \in Clients
       PROVE  \E e : SendsTo(s, d, e) /\ Carries(s, d, e)
  <2>1. CASE d = c
    <3> DEFINE e == << reply >>
    <3>1. /\ e \in Seq(PushToClientMsgs) /\ Len(e) = 1 /\ e[1] = reply
          /\ \A i \in 1 .. Len(e) : i = 1
      BY <1>10 DEF PushToClientMsgs
    <3>2. toClient'[s][c] = Append(toClient[s][c], reply) /\ toClient[s][c] \in Seq(PushToClientMsgs)
      BY <1>6 DEF PushTypeOK, PushTypeNet
    <3>3. reply \in PushToClientMsgs
      BY <1>10 DEF PushToClientMsgs
    <3>4. toClient'[s][c] = toClient[s][c] \o e
      BY <3>2, <3>3
    <3> HIDE DEF e
    <3>5. SendsTo(s, d, e)
      BY <2>1, <3>1, <3>4 DEF SendsTo
    <3>6. \A r \in Rows : Touches(reply, r) =>
            /\ ServerOf[r] = s /\ d \in subscribed'[r]
            /\ ValueOf(reply, r) = data'[r] /\ reply.clock = MinClock(sClock'[s])
      BY <1>4, <1>7, <1>9, <1>10, <1>11, <2>1 DEF now
    <3>7. \A i \in 1 .. Len(e) : e[i] = reply /\ e[i].type # "PushRow"
      BY <1>10, <3>1
    <3>8. \A r \in Rows : ServerOf[r] = s /\ d \in subscribed'[r] /\ r \notin changed' =>
            StaysSettled(d, r) \/ \E i \in 1 .. Len(e) : Touches(e[i], r)
      <4>1. TAKE r \in Rows
      <4>2. HAVE ServerOf[r] = s /\ d \in subscribed'[r] /\ r \notin changed'
      <4>3. CASE r = m.row
        <5>1. Touches(e[1], r) /\ 1 \in 1 .. Len(e)
          BY <1>11, <3>1, <4>3
        <5>. QED
          BY <5>1
      <4>4. CASE r # m.row
        BY <1>12, <4>2, <4>4
      <4>. QED
        BY <4>3, <4>4
    <3>9. Carries(s, d, e)
      BY <3>6, <3>7, <3>8 DEF Carries
    <3>. QED
      BY <3>5, <3>9
  <2>2. CASE d # c
    <3>1. toClient'[s][d] = toClient[s][d] /\ toClient[s][d] \in Seq(PushToClientMsgs)
      BY <1>6, <2>2 DEF PushTypeOK, PushTypeNet
    <3> DEFINE q == toClient[s][d]
    <3> HIDE DEF q
    <3>2. q \o << >> = q
      BY <3>1 DEF q
    <3>3. << >> \in Seq(PushToClientMsgs) /\ Carries(s, d, << >>)
      BY <1>12, <2>2, NothingCarried
    <3>. QED
      BY <3>1, <3>2, <3>3 DEF SendsTo, q
  <2>. QED
    BY <2>1, <2>2
<1>14. \A d \in Clients, i \in Servers : i # s => toClient'[i][d] = toClient[i][d]
  BY <1>6 DEF PushTypeOK, PushTypeNet
<1>15. \A d \in Clients, r \in Rows :
         ServerOf[r] # s /\ d \in subscribed'[r] /\ r \notin changed' => StaysSettled(d, r)
  BY <1>4, <1>12
<1>. QED
  BY <1>7, <1>8, <1>9, <1>13, <1>14, <1>15 DEF CarriesOn

(* No step of a server takes anything from what the caches have or get.    *)
LEMMA FromServerCovered ==
  ASSUME PushTypeOK, PushTypeOK', ClocksRise, RequestsReached, Accounted', BatchesOrdered',
         NoneWait, RequestsPlaced, ValuesPlaced, CachedSubscribed, RowsCovered,
         NEW c \in Clients, NEW s \in Servers, FromServer(c, s), Running'
  PROVE  NoneWait' /\ RequestsPlaced' /\ ValuesPlaced' /\ CachedSubscribed' /\ RowsCovered'
<1>1. NoneWait' /\ CarriesOn(s)
  BY AnswerCarries, OpLogCarries, PushAckCarries DEF FromServer
<1>2. ValuesPlaced' /\ CachedSubscribed' /\ RowsCovered'
  BY <1>1, SentCovered DEF CarriesOn
<1>3. toServer[c][s] # << >> /\ toServer' = [toServer EXCEPT ![c][s] = Tail(@)]
  BY FromServerIs
<1>4. \A d \in Clients, i \in Servers : Range(toServer'[d][i]) \subseteq Range(toServer[d][i])
  <2>1. TAKE d \in Clients, i \in Servers
  <2>2. CASE d = c /\ i = s
    <3>1. toServer'[d][i] = Tail(toServer[d][i])
      BY <1>3, <2>2 DEF PushTypeOK, PushTypeNet
    <3>. QED
      BY <1>3, <2>2, <3>1, RangeTail DEF PushTypeOK, PushTypeNet
  <2>3. CASE ~(d = c /\ i = s)
    BY <1>3, <2>3 DEF PushTypeOK, PushTypeNet
  <2>. QED
    BY <2>2, <2>3
<1>5. RequestsPlaced'
  BY <1>4 DEF RequestsPlaced
<1>. QED
  BY <1>1, <1>2, <1>5

(* The steps of a client.                                                  *)
LEMMA MorePlaced ==
  ASSUME RequestsPlaced,
         \A d \in Clients, i \in Servers : \A x \in Range(toServer'[d][i]) :
           x \in Range(toServer[d][i]) \/ x.type # "RowRequest"
  PROVE  RequestsPlaced'
BY DEF RequestsPlaced

LEMMA OnePlaced ==
  ASSUME PushTypeOK, PushTypeOK', RequestsPlaced, NEW c \in Clients, NEW s \in Servers, NEW m,
         m.type = "RowRequest" => ServerOf[m.row] = s, OneSent(c, s, m)
  PROVE  RequestsPlaced'
<1>1. /\ toServer \in [Clients -> [Servers -> Seq(PushToServerMsgs)]]
      /\ toServer'[c][s] \in Seq(PushToServerMsgs)
  BY DEF PushTypeOK, PushTypeNet
<1>2. toServer'[c][s] = Append(toServer[c][s], m)
  BY <1>1 DEF OneSent
<1>3. m \in PushToServerMsgs
  BY <1>1, <1>2, AppendedIs
<1>4. /\ Range(toServer'[c][s]) = Range(toServer[c][s]) \cup {m}
      /\ \A d \in Clients, i \in Servers :
           ~(d = c /\ i = s) => toServer'[d][i] = toServer[d][i]
  BY <1>3, AppendKeeps DEF PushTypeOK
<1>5. ASSUME NEW d \in Clients, NEW i \in Servers, NEW x \in Range(toServer'[d][i]),
             x.type = "RowRequest"
      PROVE  ServerOf[x.row] = i
  <2>1. CASE d = c /\ i = s
    BY <1>4, <1>5, <2>1 DEF RequestsPlaced
  <2>2. CASE ~(d = c /\ i = s)
    BY <1>4, <1>5, <2>2 DEF RequestsPlaced
  <2>. QED
    BY <2>1, <2>2
<1>. QED
  BY <1>5 DEF RequestsPlaced

(* Updates are made of a clock that no server has reached.                 *)
LEMMA MadeLater ==
  ASSUME PushTypeOK, TickInv, BatchesOrdered, NEW t \in Threads, NEW r \in Rows,
         NEW n, NEW u, u = <<t, clock[t], n>>
  PROVE  u[2] \in Int /\ MinClock(sClock[ServerOf[r]]) <= u[2]
<1> DEFINE c == ClientOf[t]
           s == ServerOf[r]
<1>1. c \in Clients /\ t \in ThreadsOf(c) /\ s \in Servers
  BY SSPAssumption DEF ThreadsOf
<1>2. clock[t] \in Int
  BY SSPAssumption DEF PushTypeOK, PushTypeApp, Clocks
<1>3. u[2] = clock[t]
  OBVIOUS
<1>4. bgClock[c] <= clock[t]
  BY <1>1, PushTickTypes, BgBehind DEF TickInv
<1>5. sClock[s][c] <= bgClock[c] /\ sClock[s][c] \in Int /\ bgClock[c] \in Int
  <2>1. Orderly(toServer[c][s], r, oplog[c][r], sClock[s][c], bgClock[c], sVersion[s][c], version[c])
    BY SMTT(20), <1>1 DEF BatchesOrdered
  <2>2. sClock[s][c] <= bgClock[c]
    BY <2>1 DEF Orderly
  <2>. QED
    BY <1>1, <2>2, FlowTypes
<1>6. sClock[s] \in [Clients -> Nat]
  BY <1>1 DEF PushTypeOK, TypeServer
<1>7. MinClock(sClock[s]) <= sClock[s][c] /\ MinClock(sClock[s]) \in Int
  BY <1>1, <1>6, MinClockLowest, ClockTypes
<1> HIDE DEF c, s
<1>8. MinClock(sClock[s]) <= clock[t]
  BY <1>2, <1>4, <1>5, <1>7
<1>. QED
  BY <1>2, <1>3, <1>8 DEF s

LEMMA IncCovered ==
  ASSUME PushTypeOK, TickInv, BatchesOrdered, ClocksRise,
         ValuesPlaced, CachedSubscribed, RowsCovered,
         NEW t \in Threads, NEW r \in Rows, PushInc(t, r)
  PROVE  ValuesPlaced' /\ CachedSubscribed' /\ RowsCovered'
<1> DEFINE c == ClientOf[t]
<1>1. PICK n \in 1 .. MaxIncs :
        /\ storage' = IF Cached(c, r)
                      THEN [storage EXCEPT ![c][r].data = @ \cup {<<t, clock[t], n>>}]
                      ELSE storage
        /\ made' = [made EXCEPT ![r] = @ \cup {<<t, clock[t], n>>}]
  BY DEF PushInc, Inc
<1>2. UNCHANGED <<toClient, data, subscribed, changed, serverClock>>
  BY DEF PushInc, Inc, serverVars, netVars, UnchangedByBase, pushServerVars
<1> DEFINE u == <<t, clock[t], n>>
<1>3. \A x \in Rows : u[2] \in Int /\ MinClock(sClock[ServerOf[x]]) <= u[2]
  BY MadeLater
<1>4. c \in Clients /\ storage \in [Clients -> [Rows -> CachedRows]] /\ made \in Logs
  BY SSPAssumption DEF PushTypeOK, TypeClient, TypeHistory
<1>5. /\ storage' = IF Cached(c, r) THEN [storage EXCEPT ![c][r].data = @ \cup {u}] ELSE storage
      /\ made' = [made EXCEPT ![r] = @ \cup {u}]
  BY <1>1
<1> HIDE DEF u, c
<1>6. \A x \in Rows : /\ made[x] \subseteq made'[x]
                      /\ \A v \in made'[x] \ made[x] :
                           v[2] \in Int /\ MinClock(sClock[ServerOf[x]]) <= v[2]
  <2>1. \A x \in Rows : made'[x] = IF x = r THEN made[x] \cup {u} ELSE made[x]
    BY <1>4, <1>5 DEF Logs
  <2>. QED
    BY <1>3, <2>1
<1>7. ASSUME NEW d \in Clients, NEW x \in Rows, Cached(d, x)'
      PROVE  Cached(d, x) /\ storage[d][x].data \subseteq storage'[d][x].data
  <2>1. CASE Cached(c, r) /\ d = c /\ x = r
    <3>1. storage' = [storage EXCEPT ![c][r].data = @ \cup {u}]
      BY <1>5, <2>1
    <3>2. storage'[c][r].data = storage[c][r].data \cup {u}
      BY <1>4, <3>1 DEF CachedRows
    <3>. QED
      BY <2>1, <3>2
  <2>2. CASE ~(Cached(c, r) /\ d = c /\ x = r)
    <3>1. storage'[d][x] = storage[d][x]
      BY <1>4, <1>5, <2>2
    <3>. QED
      BY <1>7, <3>1 DEF Cached
  <2>. QED
    BY <2>1, <2>2
<1>. QED
  BY <1>2, <1>6, <1>7, QuietCovered

LEMMA EvictCovered ==
  ASSUME PushTypeOK, ClocksRise, ValuesPlaced, CachedSubscribed, RowsCovered,
         NEW c \in Clients, NEW r \in Rows, PushEvict(c, r)
  PROVE  ValuesPlaced' /\ CachedSubscribed' /\ RowsCovered'
<1>1. /\ UNCHANGED <<toClient, data, subscribed, changed, serverClock, made>>
      /\ storage' = [storage EXCEPT ![c][r] = NoRow]
  BY DEF PushEvict, Evict, serverVars, netVars, histVars, UnchangedByBase, pushServerVars
<1>2. storage \in [Clients -> [Rows -> CachedRows]]
  BY DEF PushTypeOK, TypeClient
<1>3. ASSUME NEW d \in Clients, NEW x \in Rows, Cached(d, x)'
      PROVE  Cached(d, x) /\ storage[d][x].data \subseteq storage'[d][x].data
  <2>1. CASE d = c /\ x = r
    BY <1>1, <1>2, <1>3, <2>1 DEF Cached
  <2>2. CASE ~(d = c /\ x = r)
    <3>1. storage'[d][x] = storage[d][x]
      BY <1>1, <1>2, <2>2
    <3>. QED
      BY <1>3, <3>1 DEF Cached
  <2>. QED
    BY <2>1, <2>2
<1>. QED
  BY <1>1, <1>3, QuietCovered

(* A step that leaves the rows, everywhere.                                *)
LEMMA StillCovered ==
  ASSUME PushTypeOK, ClocksRise, ValuesPlaced, CachedSubscribed, RowsCovered,
         UNCHANGED <<toClient, data, subscribed, changed, serverClock, storage, made>>
  PROVE  ValuesPlaced' /\ CachedSubscribed' /\ RowsCovered'
BY QuietCovered DEF Cached

LEMMA ThreadCovered ==
  ASSUME PushTypeOK, TickInv, BatchesOrdered, ClocksRise, NoneWait, RequestsPlaced,
         ValuesPlaced, CachedSubscribed, RowsCovered, ThreadStep
  PROVE  NoneWait' /\ RequestsPlaced' /\ ValuesPlaced' /\ CachedSubscribed' /\ RowsCovered'
<1>1. UNCHANGED <<toServer, toClient, data, subscribed, changed, serverClock, queued>>
  BY ThreadStepIs DEF serverVars, pushServerVars
<1>2. NoneWait' /\ RequestsPlaced'
  BY <1>1 DEF NoneWait, RequestsPlaced
<1>3. \/ UNCHANGED <<storage, made>>
      \/ \E t \in Threads, r \in Rows : PushInc(t, r)
      \/ \E c \in Clients, r \in Rows : PushEvict(c, r)
  BY DEF ThreadStep, PushGet, PushGetBlock, PushGetUnblock, PushGetResume, PushClockFlush,
         PushClockTick, ClockFlush, ClockTick, UnchangedByGet, clientVars, histVars
<1>. QED
  BY <1>1, <1>2, <1>3, StillCovered, IncCovered, EvictCovered

LEMMA WorkerCovered ==
  ASSUME PushTypeOK, PushTypeOK', ClocksRise, NoneWait, RequestsPlaced,
         ValuesPlaced, CachedSubscribed, RowsCovered,
         NEW t \in Threads, PushBgBatch(t) \/ PushBgRowRequest(t)
  PROVE  NoneWait' /\ RequestsPlaced' /\ ValuesPlaced' /\ CachedSubscribed' /\ RowsCovered'
<1> DEFINE c == ClientOf[t]
           m == Head(toBg[t])
<1>1. UNCHANGED <<toClient, data, queued, subscribed, changed, serverClock>>
  BY BatchSends, BgRowRequestSends DEF serverVars, pushServerVars
<1>2. UNCHANGED <<storage, made>>
  BY DEF PushBgBatch, PushBgRowRequest, BgClock, BgSendOpLog, clientVars, histVars
<1>3. ValuesPlaced' /\ CachedSubscribed' /\ RowsCovered'
  BY SMTT(20), <1>1, <1>2, StillCovered
<1>4. NoneWait'
  BY <1>1 DEF NoneWait
<1>5. CASE PushBgBatch(t)
  <2>1. \A d \in Clients, i \in Servers : \A x \in Range(toServer'[d][i]) :
          x \in Range(toServer[d][i]) \/ x.type # "RowRequest"
    BY <1>5, BatchSends
  <2>2. RequestsPlaced'
    BY <2>1, MorePlaced
  <2>. QED
    BY <1>3, <1>4, <2>2
<1>6. CASE PushBgRowRequest(t)
  <2>1. /\ toBg[t] # << >> /\ m.type = "RowRequest"
        /\ UNCHANGED toServer \/ OneSent(c, ServerOf[m.row], m)
    BY <1>6 DEF PushBgRowRequest, OneSent
  <2>2. m.row \in Rows
    BY <2>1, PushHeadToBg DEF PushTypeOK, RowRequestMsgs, ClockMsgs
  <2>3. ServerOf[m.row] \in Servers /\ c \in Clients
    BY <2>2, SSPAssumption
  <2>4. RequestsPlaced'
    <3>1. CASE UNCHANGED toServer
      BY <3>1 DEF RequestsPlaced
    <3>2. CASE OneSent(c, ServerOf[m.row], m)
      BY <2>3, <3>2, OnePlaced
    <3>. QED
      BY <2>1, <3>1, <3>2
  <2>. QED
    BY <1>3, <1>4, <2>4
<1>. QED
  BY <1>5, <1>6

LEMMA BgOpLogAckCovered ==
  ASSUME PushTypeOK, PushTypeOK', ClocksRise, NoneWait, RequestsPlaced,
         ValuesPlaced, CachedSubscribed, RowsCovered,
         NEW s \in Servers, NEW c \in Clients, PushBgOpLogAck(s, c)
  PROVE  NoneWait' /\ RequestsPlaced' /\ ValuesPlaced' /\ CachedSubscribed' /\ RowsCovered'
<1> DEFINE m == Head(toClient[s][c])
<1>1. /\ toClient[s][c] # << >> /\ m.type = "OpLogAck" /\ Taken(c, s)
      /\ UNCHANGED <<data, queued, subscribed, changed, serverClock>>
      /\ \A d \in Clients, i \in Servers : \A x \in Range(toServer'[d][i]) :
           x \in Range(toServer[d][i]) \/ x.type # "RowRequest"
  BY OpLogAckSends DEF serverVars, pushServerVars, Taken
<1>2. UNCHANGED <<storage, made>>
  BY DEF PushBgOpLogAck, BgOpLogAck
<1>3. NoneWait' /\ RequestsPlaced'
  BY <1>1, MorePlaced DEF NoneWait
<1>4. \A r : ~Touches(m, r)
  BY <1>1 DEF Touches
<1> HIDE DEF m
<1>5. ValuesPlaced' /\ CachedSubscribed' /\ RowsCovered'
  BY <1>1, <1>2, <1>4, TakenCovered DEF m
<1>. QED
  BY <1>3, <1>5

(* A server's value of a row is in what it is replayed to.                 *)
LEMMA ReplayedHolds ==
  ASSUME NEW c, NEW m, NEW v \in Int, NEW r, NEW value, version[c] \in Int, v <= version[c]
  PROVE  value \subseteq UNION Range(Replayed(c, m, v, r, value))
<1> DEFINE f == Replayed(c, m, v, r, value)
<1>1. v \in v .. version[c]
  OBVIOUS
<1>2. v \in DOMAIN f /\ f[v] = value
  BY <1>1 DEF Replayed
<1> HIDE DEF f
<1>3. value \in Range(f)
  BY <1>2 DEF Range
<1>. QED
  BY <1>3 DEF f

(* What a server sends is of a version before the next one of the worker.  *)
LEMMA TakenVersion ==
  ASSUME PushTypeOK, VersionsRise, BatchesOrdered, ValuesPlaced,
         NEW c \in Clients, NEW s \in Servers, toClient[s][c] # << >>,
         NEW m, m = Head(toClient[s][c]), NEW r \in Rows, Touches(m, r)
  PROVE  m.version \in Int /\ version[c] \in Int /\ m.version <= version[c]
<1> DEFINE q == toClient[s][c]
<1>1. q \in Seq(PushToClientMsgs) /\ m \in PushToClientMsgs
  BY PushHeadToClient DEF PushTypeOK, PushTypeNet
<1>2. q[1] = m /\ 1 \in 1 .. Len(q)
  BY <1>1, TailShortens DEF Shortened
<1>3. m \in Range(q)
  BY <1>1, RangeTail
<1>4. ServerOf[r] = s
  BY <1>3 DEF ValuesPlaced
<1>5. sVersion[s][c] < version[c] /\ sVersion[s][c] \in Int /\ version[c] \in Int
  <2>1. Orderly(toServer[c][s], r, oplog[c][r], sClock[s][c], bgClock[c], sVersion[s][c], version[c])
    BY <1>4 DEF BatchesOrdered
  <2>2. sVersion[s][c] < version[c]
    BY <2>1 DEF Orderly
  <2>. QED
    BY <1>4, <2>2, FlowTypes
<1>6. m.version \in Int
  BY <1>1, PushMsgFields
<1>7. m.version <= sVersion[s][c]
  <2>1. Rising(q, acknowledged[c][s], sVersion[s][c])
    BY DEF VersionsRise
  <2> HIDE DEF q
  <2>2. q[1].version <= sVersion[s][c]
    BY <1>2, <2>1 DEF Rising
  <2>. QED
    BY <1>2, <2>2
<1>. QED
  BY <1>5, <1>6, <1>7

LEMMA BgRowReplyCovered ==
  ASSUME PushTypeOK, PushTypeOK', VersionsRise, ClocksRise, BatchesOrdered,
         NoneWait, RequestsPlaced, ValuesPlaced, CachedSubscribed, RowsCovered,
         NEW s \in Servers, NEW c \in Clients, PushBgRowReply(s, c), Running'
  PROVE  NoneWait' /\ RequestsPlaced' /\ ValuesPlaced' /\ CachedSubscribed' /\ RowsCovered'
<1> DEFINE m     == Head(toClient[s][c])
           keeps == ServerAcknowledgeVersion(c, s, m.version)
           left  == Popped(keeps, m.row, NumServed(keeps.reqs[m.row], m.clock))
           next  == ClockToRequest(left, m.row)
           x     == RowRequestMsg(m.row, next)
           all   == UNION Range(Replayed(c, keeps, m.version, m.row, m.data))
<1>1. /\ toClient[s][c] # << >> /\ m.type = "RowReply" /\ Taken(c, s)
      /\ UNCHANGED <<made, serverVars, pushServerVars, serverClock>>
      /\ storage' = [storage EXCEPT ![c][m.row] = [clock |-> m.clock, data |-> all]]
  BY ZenonT(30) DEF PushBgRowReply, Taken, Running
<1>2. UNCHANGED toServer \/ OneSent(c, ServerOf[m.row], x)
  BY Zenon DEF PushBgRowReply, OneSent, Running
<1>3. UNCHANGED <<data, queued, subscribed, changed>>
  BY <1>1 DEF serverVars, pushServerVars
<1>4. m \in RowReplyMsgs
  BY <1>1, PushHeadToClient, PushMsgFields DEF PushTypeOK
<1>5. m.row \in Rows /\ ServerOf[m.row] \in Servers
  BY <1>4, SSPAssumption DEF RowReplyMsgs
<1>6. x.row = m.row
  BY DEF RowRequestMsg
<1> HIDE DEF x, m
<1>7. NoneWait'
  BY <1>3 DEF NoneWait
<1>8. RequestsPlaced'
  <2>1. CASE UNCHANGED toServer
    BY <2>1 DEF RequestsPlaced
  <2>2. CASE OneSent(c, ServerOf[m.row], x)
    BY <1>5, <1>6, <2>2, OnePlaced
  <2>. QED
    BY <1>2, <2>1, <2>2
<1>9. /\ Touches(m, m.row) /\ ValueOf(m, m.row) = m.data
      /\ \A r : Touches(m, r) => r = m.row
  BY <1>1 DEF Touches, ValueOf
<1>10. m.data \subseteq all
  <2>1. m.version \in Int /\ version[c] \in Int /\ m.version <= version[c]
    BY <1>1, <1>5, <1>9, TakenVersion DEF m
  <2>. QED
    BY <2>1, ReplayedHolds
<1>11. storage \in [Clients -> [Rows -> CachedRows]]
  BY DEF PushTypeOK, TypeClient
<1> HIDE DEF all
<1>12. \A d \in Clients, r \in Rows :
         ~(d = c /\ Touches(m, r)) => storage'[d][r] = storage[d][r]
  <2>1. TAKE d \in Clients, r \in Rows
  <2>2. HAVE ~(d = c /\ Touches(m, r))
  <2>3. ~(d = c /\ r = m.row)
    BY <1>9, <2>2
  <2>. QED
    BY <1>1, <1>11, <2>3
<1>13. \A r \in Rows : Touches(m, r) /\ Cached(c, r)' => ValueOf(m, r) \subseteq storage'[c][r].data
  <2>1. storage'[c][m.row].data = all
    BY <1>1, <1>5, <1>11
  <2>. QED
    BY <1>9, <1>10, <2>1
<1>14. ValuesPlaced' /\ CachedSubscribed' /\ RowsCovered'
  BY <1>1, <1>3, <1>12, <1>13, TakenCovered DEF m
<1>. QED
  BY SMTT(20), <1>7, <1>8, <1>14

LEMMA BgRowsCovered ==
  ASSUME PushTypeOK, PushTypeOK', VersionsRise, ClocksRise, BatchesOrdered,
         NoneWait, RequestsPlaced, ValuesPlaced, CachedSubscribed, RowsCovered,
         NEW s \in Servers, NEW c \in Clients, PushBgRows(s, c), Running'
  PROVE  NoneWait' /\ RequestsPlaced' /\ ValuesPlaced' /\ CachedSubscribed' /\ RowsCovered'
<1> DEFINE m      == Head(toClient[s][c])
           keeps  == ServerAcknowledgeVersion(c, s, m.version)
           rows   == { r \in DOMAIN m.data : Cached(c, r) }
           all(r) == UNION Range(Replayed(c, keeps, m.version, r, m.data[r]))
           clocks == PushedClock(c, s, m)
<1>1. /\ toClient[s][c] # << >> /\ m.type = "PushRow" /\ Taken(c, s)
      /\ UNCHANGED <<made, serverVars, pushServerVars>>
      /\ storage' = [storage EXCEPT ![c] = [r \in Rows |->
           IF r \in rows THEN [@[r] EXCEPT !.data = all(r)] ELSE @[r]]]
      /\ serverClock' = [serverClock EXCEPT ![c] = clocks]
  BY DEF PushBgRows, Taken, Running
<1>2. \A d \in Clients, i \in Servers : \A x \in Range(toServer'[d][i]) :
        x \in Range(toServer[d][i]) \/ x.type # "RowRequest"
  <2>1. \A d \in Clients, i \in Servers : \A x \in Range(toServer'[d][i]) :
          x \in Range(toServer[d][i]) \/ x = PushAckMsg(m.seq)
    <3>1. TAKE d \in Clients, i \in Servers

    <3>. QED
      BY PushedRowsSends
  <2> HIDE DEF m
  <2>2. PushAckMsg(m.seq).type = "PushAck"
    BY DEF PushAckMsg
  <2>. QED
    BY <2>1, <2>2
<1>3. UNCHANGED <<data, queued, subscribed, changed>>
  BY <1>1 DEF serverVars, pushServerVars
<1>4. NoneWait' /\ RequestsPlaced'
  BY <1>2, <1>3, MorePlaced DEF NoneWait
<1>5. /\ storage \in [Clients -> [Rows -> CachedRows]]
      /\ serverClock \in [Clients -> [Servers -> Nat]]
  BY DEF PushTypeOK, TypeClient, PushTypeBg
<1>6. /\ \A i \in Servers : i # s => clocks[i] = serverClock[c][i]
      /\ clocks[s] = serverClock[c][s] \/ (m.isClock /\ clocks[s] = m.clock)
  <2>1. \A i \in Servers : \/ clocks[i] = serverClock[c][i]
                           \/ i = s /\ clocks[i] = m.clock
    BY <1>1, PushedClockIs
  <2>2. ~m.isClock => clocks = serverClock[c]
    BY DEF PushedClock
  <2> HIDE DEF clocks, m
  <2>. QED
    BY <2>1, <2>2
<1>7. \A r \in Rows : Touches(m, r) /\ Cached(c, r) <=> r \in rows
  BY <1>1 DEF Touches
<1>8. \A r \in Rows : Touches(m, r) => ValueOf(m, r) = m.data[r]
  BY <1>1 DEF ValueOf
<1>9. \A r \in Rows : Touches(m, r) => m.data[r] \subseteq all(r)
  <2>1. TAKE r \in Rows
  <2>2. HAVE Touches(m, r)
  <2>3. m.version \in Int /\ version[c] \in Int /\ m.version <= version[c]
    BY <1>1, <2>2, TakenVersion
  <2>. QED
    BY <2>3, ReplayedHolds
<1> HIDE DEF m, rows, all, clocks
<1>10. ASSUME NEW d \in Clients, NEW r \in Rows
       PROVE  storage'[d][r] = IF d = c /\ r \in rows THEN [storage[c][r] EXCEPT !.data = all(r)]
                               ELSE storage[d][r]
  BY <1>1, <1>5
<1>11. \A d \in Clients, r \in Rows :
         ~(d = c /\ Touches(m, r)) => storage'[d][r] = storage[d][r]
  BY <1>7, <1>10
<1>12. ASSUME NEW r \in Rows, Touches(m, r), Cached(c, r)'
       PROVE  ValueOf(m, r) \subseteq storage'[c][r].data
  <2>1. r \in rows
    <3>1. CASE r \notin rows
      <4>1. storage'[c][r] = storage[c][r]
        BY <1>10, <3>1
      <4>2. Cached(c, r)
        BY <1>12, <4>1 DEF Cached
      <4>. QED
        BY <1>7, <1>12, <4>2
    <3>. QED
      BY <3>1
  <2>2. storage'[c][r].data = all(r)
    <3>1. storage'[c][r] = [storage[c][r] EXCEPT !.data = all(r)]
      BY <1>10, <2>1
    <3>2. storage[c][r] \in CachedRows
      BY <1>5
    <3>. QED
      BY <3>1, <3>2 DEF CachedRows
  <2>. QED
    BY <1>8, <1>9, <1>12, <2>2
<1>13. \A r \in Rows : Touches(m, r) /\ Cached(c, r)' => ValueOf(m, r) \subseteq storage'[c][r].data
  BY <1>12
<1>14. \A d \in Clients, i \in Servers :
         ~(d = c /\ i = s) => serverClock'[d][i] = serverClock[d][i]
  BY <1>1, <1>5, <1>6
<1>15. \/ serverClock'[c][s] = serverClock[c][s]
       \/ m.type = "PushRow" /\ m.isClock /\ serverClock'[c][s] = m.clock
  BY <1>1, <1>5, <1>6
<1>16. ValuesPlaced' /\ CachedSubscribed' /\ RowsCovered'
  BY <1>1, <1>3, <1>11, <1>13, <1>14, <1>15, TakenCovered DEF m
<1>. QED
  BY <1>4, <1>16

LEMMA StepCover ==
  ASSUME PushTypeOK, PushTypeOK', PushStep, PushReplayInv, PushAnswerInv,
         PushFlowInv, PushFlowInv', PushCoverInv
  PROVE  PushCoverInv'
<1>1. SUFFICES ASSUME Running'
               PROVE  /\ NoneWait' /\ RequestsPlaced'
                      /\ ValuesPlaced' /\ CachedSubscribed' /\ RowsCovered'
  BY DEF PushCoverInv
<1>2. Running
  BY StepRuns
<1>3. /\ VersionsRise /\ ClocksRise /\ RequestsReached /\ TickInv /\ BatchesOrdered
      /\ NoneWait /\ RequestsPlaced /\ ValuesPlaced /\ CachedSubscribed /\ RowsCovered
  BY <1>2 DEF PushReplayInv, PushAnswerInv, PushFlowInv, PushCoverInv
<1>4. Accounted' /\ BatchesOrdered'
  BY <1>1 DEF PushFlowInv
<1>5. CASE ThreadStep
  BY <1>3, <1>5, ThreadCovered
<1>6. CASE \E t \in Threads : PushBgBatch(t) \/ PushBgRowRequest(t)
  BY <1>3, <1>6, WorkerCovered
<1>7. ASSUME NEW c \in Clients, NEW s \in Servers,
             \/ PushBgOpLogAck(s, c) \/ PushBgRowReply(s, c)
             \/ PushBgRows(s, c) \/ FromServer(c, s)
      PROVE  /\ NoneWait' /\ RequestsPlaced'
             /\ ValuesPlaced' /\ CachedSubscribed' /\ RowsCovered'
  BY <1>1, <1>3, <1>4, <1>7, BgOpLogAckCovered, BgRowReplyCovered, BgRowsCovered, FromServerCovered
<1>. QED
  BY <1>5, <1>6, <1>7, StepCases

LEMMA PushCoverKept ==
  ASSUME \A k \in Uninitialised : k <= 0
  PROVE  PushSpec => [](PushTypeOK /\ PushAnswerInv /\ PushCoverInv)
<1> DEFINE Base == PushTypeOK /\ PushReplayInv /\ PushAnswerInv /\ PushFlowInv
<1>1. PushInit => PushCoverInv
  BY InitCover
<1>2. Base /\ Base' /\ PushCoverInv /\ [PushNext]_pushVars => PushCoverInv'
  <2>1. ASSUME PushCoverInv, UNCHANGED pushVars
        PROVE  PushCoverInv'
    <3>1. PushCoverInv' <=> PushCoverInv
      BY <2>1 DEF pushVars, vars, appVars, clientVars, bgVars, serverVars, netVars, histVars,
                  pushClientVars, pushServerVars, PushCoverInv, Running, NoneWait, RequestsPlaced,
                  ValuesPlaced, CachedSubscribed, Cached, RowsCovered
    <3>. QED
      BY <2>1, <3>1
  <2>. QED
    BY <2>1, StepCover DEF PushNext, PushRest
<1>3. PushSpec => []Base
  BY PushReplayKept, PushAnswerKept, PushFlowKept, PTL
<1> HIDE DEF Base
<1>4. PushSpec => [](Base /\ PushCoverInv)
  BY <1>1, <1>2, <1>3, PTL DEF PushSpec
<1>5. Base => PushTypeOK /\ PushAnswerInv
  BY DEF Base
<1>. QED
  BY <1>4, <1>5, PTL

(* Where no thread starts with a system clock that nobody has reached, the *)
(* caches are as fresh as the system clock says, for every configuration:  *)
(* a cached row holds every update made before it, so a Get() that checks  *)
(* no more than the system clock reads what its staleness promises.        *)
THEOREM CacheAlwaysCovered ==
  (\A k \in Uninitialised : k <= 0) => (PushSpec => []SystemClockCoversCache)
<1>1. PushTypeOK /\ PushAnswerInv /\ PushCoverInv => SystemClockCoversCache
  <2>1. SUFFICES ASSUME PushTypeOK, PushAnswerInv, PushCoverInv, Running,
                        NEW c \in Clients, NEW r \in Rows, Cached(c, r),
                        NEW u \in made[r], u[2] < systemClock[c]
                 PROVE  u \in storage[c][r].data
    BY DEF SystemClockCoversCache
  <2> DEFINE s == ServerOf[r]
  <2>2. s \in Servers
    BY SSPAssumption
  <2>3. ClocksRise /\ KnownClocks /\ RowsCovered
    BY <2>1 DEF PushAnswerInv, PushCoverInv
  <2>4. systemClock[c] <= serverClock[c][s]
    BY <2>2, <2>3 DEF KnownClocks
  <2>5. systemClock[c] \in Int /\ serverClock[c][s] \in Int /\ u[2] \in Int
    <3>1. systemClock[c] \in Int
      BY <2>1 DEF PushTypeOK, PushTypeBg
    <3>. QED
      BY <2>1, <2>3, <3>1, CoverTypes
  <2>6. Before(made[r], serverClock[c][s]) \subseteq storage[c][r].data
    BY <2>1, <2>3 DEF RowsCovered, RowCovers
  <2> HIDE DEF s
  <2>7. u[2] < serverClock[c][s]
    BY <2>1, <2>4, <2>5
  <2>. QED
    BY <2>6, <2>7 DEF Before
<1>2. ASSUME \A k \in Uninitialised : k <= 0
      PROVE  PushSpec => []SystemClockCoversCache
  BY <1>1, <1>2, PushCoverKept, PTL
<1>. QED
  BY <1>2

-----------------------------------------------------------------------------
(* What a step does to the retained batches: the one it sends, if any, is  *)
(* added, and what every server is then known to have may go.              *)
NewBatch(c) ==
  IF version'[c] = version[c] THEN {} ELSE {[version |-> version[c], log |-> Batch(c)]}

KeptMoves ==
  \A c \in Clients :
    /\ pushMgr'[c].kept \subseteq pushMgr[c].kept \cup NewBatch(c)
    /\ NewBatch(c) \subseteq pushMgr'[c].kept
    /\ \A k \in pushMgr[c].kept \ pushMgr'[c].kept :
         \A s \in Servers : k.version <= acknowledged'[c][s]

LEMMA TrackedIs ==
  ASSUME NEW c, NEW m \in Managers
  PROVE  Tracked(c, m).kept = m.kept \cup NewBatch(c)
BY DEF Tracked, NewBatch, Managers

LEMMA ForgottenAre ==
  ASSUME PushTypeOK, PushTypeOK', NEW c \in Clients, NEW s \in Servers, NEW v \in Versions,
         acknowledged' = [acknowledged EXCEPT ![c] = Acks(c, s, v)]
  PROVE  LET keeps == ServerAcknowledgeVersion(c, s, v)
         IN  /\ keeps \in Managers /\ keeps.kept \subseteq pushMgr[c].kept
             /\ \A k \in pushMgr[c].kept \ keeps.kept :
                  \A i \in Servers : k.version <= acknowledged'[c][i]
<1> DEFINE acks  == Acks(c, s, v)
           keeps == ServerAcknowledgeVersion(c, s, v)
           m     == pushMgr[c]
<1>1. keeps \in Managers /\ acks \in [Servers -> Int]
  BY ServerAcknowledgeVersionType DEF PushTypeOK, Versions
<1>2. m \in Managers /\ acknowledged'[c] = acks
  BY DEF PushTypeOK, PushTypeBg
<1>3. keeps.kept = { k \in m.kept : k.version > Min(Range(acks)) }
  BY <1>2 DEF ServerAcknowledgeVersion, AcknowledgedByAll, Managers
<1> HIDE DEF acks, keeps, m
<1>4. Min(Range(acks)) \in Int /\ \A i \in Servers : Min(Range(acks)) <= acks[i]
  BY <1>1, LowestIs
<1>5. \A k \in m.kept : k.version \in Int
  BY <1>2 DEF Managers, Retained
<1>6. ASSUME NEW k \in m.kept \ keeps.kept, NEW i \in Servers
      PROVE  k.version <= acks[i]
  BY <1>1, <1>3, <1>4, <1>5, <1>6
<1>7. /\ keeps \in Managers /\ keeps.kept \subseteq m.kept
      /\ \A k \in m.kept \ keeps.kept : \A i \in Servers : k.version <= acknowledged'[c][i]
  BY <1>1, <1>2, <1>3, <1>6
<1>. QED
  BY <1>7 DEF keeps, m

LEMMA KeptOf ==
  ASSUME NEW c \in Clients,
         \A d \in Clients \ {c} : pushMgr'[d].kept = pushMgr[d].kept /\ version'[d] = version[d],
         pushMgr'[c].kept \subseteq pushMgr[c].kept \cup NewBatch(c),
         NewBatch(c) \subseteq pushMgr'[c].kept,
         \A k \in pushMgr[c].kept \ pushMgr'[c].kept :
           \A s \in Servers : k.version <= acknowledged'[c][s]
  PROVE  KeptMoves
<1>1. ASSUME NEW d \in Clients
      PROVE  /\ pushMgr'[d].kept \subseteq pushMgr[d].kept \cup NewBatch(d)
             /\ NewBatch(d) \subseteq pushMgr'[d].kept
             /\ \A k \in pushMgr[d].kept \ pushMgr'[d].kept :
                  \A s \in Servers : k.version <= acknowledged'[d][s]
  <2>1. CASE d = c
    BY <2>1
  <2>2. CASE d # c
    <3>1. pushMgr'[d].kept = pushMgr[d].kept /\ NewBatch(d) = {}
      BY <2>2 DEF NewBatch
    <3>. QED
      BY <3>1
  <2>. QED
    BY <2>1, <2>2
<1>. QED
  BY <1>1 DEF KeptMoves

LEMMA KeptStay ==
  ASSUME \A c \in Clients : pushMgr'[c].kept = pushMgr[c].kept, UNCHANGED version
  PROVE  KeptMoves
BY DEF KeptMoves, NewBatch

LEMMA BatchKeptMoves ==
  ASSUME PushTypeOK, NEW t \in Threads, PushBgBatch(t)
  PROVE  KeptMoves
<1> DEFINE c == ClientOf[t]
<1>1. c \in Clients
  BY SSPAssumption
<1>2. /\ pushMgr' = [pushMgr EXCEPT ![c] = Tracked(c, pushMgr[c])]
      /\ \/ HandleClockMsg(c, TRUE, bgClock[c] + 1, acked[c], pend[c].on)
         \/ HandleClockMsg(c, FALSE, bgClock[c], acked[c], pend[c].on)
  BY DEF PushBgBatch, BgClock, BgSendOpLog
<1> HIDE DEF c
<1>3. \A d \in Clients \ {c} : version'[d] = version[d]
  BY <1>1, <1>2, BatchVersion DEF PushTypeOK
<1>4. pushMgr[c] \in Managers /\ pushMgr'[c] = Tracked(c, pushMgr[c])
      /\ \A d \in Clients \ {c} : pushMgr'[d] = pushMgr[d]
  BY <1>1, <1>2 DEF PushTypeOK, PushTypeBg
<1>5. pushMgr'[c].kept = pushMgr[c].kept \cup NewBatch(c)
  BY <1>4, TrackedIs
<1>. QED
  BY <1>1, <1>3, <1>4, <1>5, KeptOf

LEMMA AckKeptMoves ==
  ASSUME PushTypeOK, PushTypeOK', NEW s \in Servers, NEW c \in Clients, PushBgOpLogAck(s, c)
  PROVE  KeptMoves
<1> DEFINE v     == Head(toClient[s][c]).version
           keeps == ServerAcknowledgeVersion(c, s, v)
<1>1. /\ toClient[s][c] # << >>
      /\ acknowledged' = [acknowledged EXCEPT ![c] = Acks(c, s, v)]
      /\ pushMgr' = [pushMgr EXCEPT ![c] = Tracked(c, keeps)]
  BY DEF PushBgOpLogAck, BgOpLogAck
<1>2. v \in Versions
  <2>1. v \in Int /\ Head(toClient[s][c]) \in PushToClientMsgs
    BY <1>1, PushHeadToClient, PushMsgFields DEF PushTypeOK
  <2>. QED
    BY <2>1 DEF PushToClientMsgs, RowReplyMsgs, AckMsgs, PushedMsgs, Versions
<1>3. \A d \in Clients \ {c} : version'[d] = version[d]
  <2>1. \/ UNCHANGED version
        \/ HandleClockMsg(c, pend[c].advanced, bgClock[c],
                          [acked[c] EXCEPT ![s] = Head(toClient[s][c]).seq], FALSE)
    BY DEF PushBgOpLogAck, BgOpLogAck
  <2>2. CASE UNCHANGED version
    BY <2>2
  <2> DEFINE ack == [acked[c] EXCEPT ![s] = Head(toClient[s][c]).seq]
             advanced == pend[c].advanced
             clk == bgClock[c]
  <2>3. CASE HandleClockMsg(c, advanced, clk, ack, FALSE)
    <3> HIDE DEF ack, advanced, clk
    <3>. QED
      BY <2>3, BatchVersion DEF PushTypeOK
  <2>. QED
    BY <2>1, <2>2, <2>3
<1> HIDE DEF v
<1>4. /\ keeps \in Managers /\ keeps.kept \subseteq pushMgr[c].kept
      /\ \A k \in pushMgr[c].kept \ keeps.kept :
           \A i \in Servers : k.version <= acknowledged'[c][i]
  BY <1>1, <1>2, ForgottenAre
<1> HIDE DEF keeps
<1>5. /\ pushMgr'[c] = Tracked(c, keeps) /\ \A d \in Clients \ {c} : pushMgr'[d] = pushMgr[d]
  BY <1>1 DEF PushTypeOK, PushTypeBg
<1>6. pushMgr'[c].kept = keeps.kept \cup NewBatch(c)
  BY <1>4, <1>5, TrackedIs
<1>. QED
  BY <1>3, <1>4, <1>5, <1>6, KeptOf

LEMMA RequestKeptMoves ==
  ASSUME PushTypeOK, NEW t \in Threads, PushBgRowRequest(t)
  PROVE  KeptMoves
<1> DEFINE c == ClientOf[t]
           m == Head(toBg[t])
<1>1. c \in Clients
  BY SSPAssumption
<1>2. /\ UNCHANGED version
      /\ \/ UNCHANGED pushMgr
         \/ \E garbage \in BOOLEAN :
              pushMgr' = [pushMgr EXCEPT ![c] =
                AddRowRequest(pushMgr[c], m.row, t, m.clock, version[c] - 1, garbage)]
  BY DEF PushBgRowRequest
<1> HIDE DEF c, m
<1>3. CASE UNCHANGED pushMgr
  BY <1>2, <1>3, KeptStay
<1>4. ASSUME NEW garbage \in BOOLEAN,
             pushMgr' = [pushMgr EXCEPT ![c] =
               AddRowRequest(pushMgr[c], m.row, t, m.clock, version[c] - 1, garbage)]
      PROVE  KeptMoves
  <2> DEFINE new == AddRowRequest(pushMgr[c], m.row, t, m.clock, version[c] - 1, garbage)
  <2>1. new.kept = pushMgr[c].kept
    BY <1>1 DEF AddRowRequest, PushTypeOK, PushTypeBg, Managers
  <2> HIDE DEF new
  <2>2. pushMgr' = [pushMgr EXCEPT ![c] = new] /\ pushMgr \in [Clients -> Managers]
    BY <1>4 DEF new, PushTypeOK, PushTypeBg
  <2>3. \A d \in Clients : pushMgr'[d].kept = pushMgr[d].kept
    BY <2>1, <2>2
  <2>. QED
    BY <1>2, <2>3, KeptStay
<1>. QED
  BY <1>2, <1>3, <1>4

LEMMA ReplyKeptMoves ==
  ASSUME PushTypeOK, PushTypeOK', NEW s \in Servers, NEW c \in Clients, PushBgRowReply(s, c),
         Running'
  PROVE  KeptMoves
<1> DEFINE m     == Head(toClient[s][c])
           v     == m.version
           keeps == ServerAcknowledgeVersion(c, s, v)
           left  == Popped(keeps, m.row, NumServed(keeps.reqs[m.row], m.clock))
           next  == ClockToRequest(left, m.row)
           new   == IF next < 0 THEN left ELSE [left EXCEPT !.reqs[m.row][1].sent = TRUE]
<1>1. /\ toClient[s][c] # << >> /\ m.type = "RowReply" /\ UNCHANGED version
      /\ acknowledged' = [acknowledged EXCEPT ![c] = Acks(c, s, v)]
      /\ pushMgr' = [pushMgr EXCEPT ![c] = new]
  BY ZenonT(30) DEF PushBgRowReply, Running
<1>2. m \in RowReplyMsgs
  BY Zenon, <1>1, PushHeadToClient DEF PushTypeOK, PushToClientMsgs, AckMsgs, PushedMsgs
<1> HIDE DEF m
<1>3. v \in Versions /\ m.row \in Rows /\ m.clock \in Nat
  BY SMTT(20), <1>2 DEF RowReplyMsgs
<1> HIDE DEF v
<1>4. /\ keeps \in Managers /\ keeps.kept \subseteq pushMgr[c].kept
      /\ \A k \in pushMgr[c].kept \ keeps.kept :
           \A i \in Servers : k.version <= acknowledged'[c][i]
  BY <1>1, <1>3, ForgottenAre
<1> HIDE DEF keeps
<1>5. left \in Managers /\ left.kept = keeps.kept
  BY <1>3, <1>4, PoppedType DEF Popped, Managers
<1> HIDE DEF left
<1>6. new.kept = keeps.kept
  <2> HIDE DEF next
  <2>. QED
    BY <1>5 DEF Managers
<1> HIDE DEF new
<1>7. /\ pushMgr'[c] = new /\ \A d \in Clients \ {c} : pushMgr'[d] = pushMgr[d]
  BY <1>1 DEF PushTypeOK, PushTypeBg
<1>8. NewBatch(c) = {}
  BY <1>1 DEF NewBatch
<1>. QED
  BY <1>1, <1>4, <1>6, <1>7, <1>8, KeptOf

LEMMA RowsKeptMoves ==
  ASSUME PushTypeOK, PushTypeOK', NEW s \in Servers, NEW c \in Clients, PushBgRows(s, c)
  PROVE  KeptMoves
<1> DEFINE m     == Head(toClient[s][c])
           v     == m.version
           keeps == ServerAcknowledgeVersion(c, s, v)
<1>1. /\ toClient[s][c] # << >> /\ m.type = "PushRow" /\ UNCHANGED version
      /\ acknowledged' = [acknowledged EXCEPT ![c] = Acks(c, s, v)]
      /\ pushMgr' = [pushMgr EXCEPT ![c] = keeps]
  BY DEF PushBgRows, bgVars
<1>2. v \in Versions
  BY <1>1, PushHeadToClient DEF PushTypeOK, PushToClientMsgs, AckMsgs, RowReplyMsgs, PushedMsgs
<1> HIDE DEF m, v
<1>3. /\ keeps \in Managers /\ keeps.kept \subseteq pushMgr[c].kept
      /\ \A k \in pushMgr[c].kept \ keeps.kept :
           \A i \in Servers : k.version <= acknowledged'[c][i]
  BY <1>1, <1>2, ForgottenAre
<1> HIDE DEF keeps
<1>4. /\ pushMgr'[c] = keeps /\ \A d \in Clients \ {c} : pushMgr'[d] = pushMgr[d]
  BY <1>1 DEF PushTypeOK, PushTypeBg
<1>5. NewBatch(c) = {}
  BY <1>1 DEF NewBatch
<1>. QED
  BY <1>1, <1>3, <1>4, <1>5, KeptOf

LEMMA StepKeptMoves ==
  ASSUME PushTypeOK, PushTypeOK', PushStep, Running'
  PROVE  KeptMoves
<1>1. CASE ThreadStep
  <2>1. UNCHANGED <<pushMgr, version>>
    BY <1>1, ThreadStepIs DEF bgVars
  <2>. QED
    BY <2>1, KeptStay
<1>2. ASSUME NEW t \in Threads, PushBgBatch(t) \/ PushBgRowRequest(t)
      PROVE  KeptMoves
  BY <1>2, BatchKeptMoves, RequestKeptMoves
<1>3. ASSUME NEW c \in Clients, NEW s \in Servers,
             PushBgOpLogAck(s, c) \/ PushBgRowReply(s, c) \/ PushBgRows(s, c)
      PROVE  KeptMoves
  BY <1>3, AckKeptMoves, ReplyKeptMoves, RowsKeptMoves
<1>4. ASSUME NEW c \in Clients, NEW s \in Servers, FromServer(c, s)
      PROVE  KeptMoves
  <2>1. UNCHANGED <<pushMgr, version>>
    BY <1>4, FromServerIs DEF bgVars, pushClientVars
  <2>. QED
    BY <2>1, KeptStay
<1>. QED
  BY <1>1, <1>2, <1>3, <1>4, StepCases

-----------------------------------------------------------------------------
(* The updates of client c that a step makes to row r.                     *)
New(c, r) == Own(c, r)' \ Own(c, r)

(* What a step does to the updates that have not reached a server: new     *)
(* ones join the oplog, or a batch leaves it; a message that is added is a *)
(* part of the batch; what a row gains was in a message.                   *)
LogsMove ==
  /\ \A r \in Rows : /\ made[r] \subseteq made'[r]
                     /\ \A u \in data'[r] \ data[r] :
                          \E d \in Clients, s \in Servers : \E m \in OpLogsTo(d, s) : u \in m.log[r]
  /\ \A c \in Clients, r \in Rows :
       /\ \/ version'[c] = version[c] /\ oplog'[c][r] = oplog[c][r] \cup New(c, r)
          \/ /\ version'[c] = version[c] + 1 /\ New(c, r) = {}
             /\ Batch(c)[r] \subseteq oplog[c][r] /\ oplog'[c][r] = oplog[c][r] \ Batch(c)[r]
       /\ \A s \in Servers : \A m \in OpLogsTo(c, s)' :
            \/ m \in OpLogsTo(c, s)
            \/ \E k \in NewBatch(c) : /\ m.version = k.version
                                      /\ m.log[r] = IF ServerOf[r] = s THEN k.log[r] ELSE {}

LEMMA StayLogs ==
  ASSUME PushTypeOK, BatchesStay
  PROVE  LogsMove
<1>1. \A c, r : New(c, r) = {}
  BY DEF New, Own, BatchesStay
<1>2. \A d \in Clients, i \in Servers : OpLogsTo(d, i)' = OpLogsTo(d, i)
  <2>1. TAKE d \in Clients, i \in Servers
  <2>2. toServer'[d][i] = toServer[d][i] \/ OtherSent(d, i) \/ OtherTaken(d, i)
    BY DEF BatchesStay
  <2>. QED
    BY <2>2, OtherSentKeeps, OtherTakenKeeps DEF OpLogsTo
<1>. QED
  BY <1>1, <1>2 DEF LogsMove, BatchesStay

(* An Inc makes one update.                                                *)
IncMakes(c, r, u) ==
  /\ oplog' = [oplog EXCEPT ![c][r] = @ \cup {u}]
  /\ made'  = [made EXCEPT ![r] = @ \cup {u}]
  /\ storage' = IF Cached(c, r) THEN [storage EXCEPT ![c][r].data = @ \cup {u}] ELSE storage
  /\ UNCHANGED <<data, toServer, version>>
  /\ Numbered(made[r] \cup {u}) /\ IsFiniteSet(made[r] \cup {u})
  /\ \A d \in Clients, x \in Rows : New(d, x) = IF d = c /\ x = r THEN {u} ELSE {}

LEMMA IncIs ==
  ASSUME PushTypeOK, MadeNumbered, MadeFinite, NEW t \in Threads, NEW r \in Rows, Inc(t, r)
  PROVE  \E u : IncMakes(ClientOf[t], r, u)
<1> DEFINE c == ClientOf[t]
           k == clock[t]
<1>1. PICK n \in 1 .. MaxIncs :
        /\ n = Cardinality({ v \in made[r] : v[1] = t /\ v[2] = k }) + 1
        /\ oplog' = [oplog EXCEPT ![c][r] = @ \cup {<<t, k, n>>}]
        /\ made'  = [made EXCEPT ![r] = @ \cup {<<t, k, n>>}]
        /\ storage' = IF Cached(c, r) THEN [storage EXCEPT ![c][r].data = @ \cup {<<t, k, n>>}]
                      ELSE storage
        /\ UNCHANGED <<bgVars, serverVars, netVars>>
  BY DEF Inc, FindInsertOpLog
<1> DEFINE u == <<t, k, n>>
           S == made[r]
<1>2. c \in Clients /\ k \in Clocks /\ S \in SUBSET Updates /\ Numbered(S) /\ IsFiniteSet(S)
  BY SSPAssumption DEF PushTypeOK, PushTypeApp, TypeHistory, Logs, MadeNumbered, MadeFinite
<1>3. u \notin S /\ Numbered(S \cup {u})
  <2>1. n = Cardinality({ v \in S : v[1] = t /\ v[2] = k }) + 1
    BY <1>1
  <2> HIDE DEF S, k
  <2>. QED
    BY <1>2, <2>1, NextNumber
<1>4. u[1] = t /\ ClientOf[u[1]] = c
  OBVIOUS
<1>5. /\ oplog' = [oplog EXCEPT ![c][r] = @ \cup {u}]
      /\ made'  = [made EXCEPT ![r] = @ \cup {u}]
      /\ storage' = IF Cached(c, r) THEN [storage EXCEPT ![c][r].data = @ \cup {u}] ELSE storage
      /\ UNCHANGED <<data, toServer, version>>
  BY <1>1 DEF serverVars, bgVars, netVars
<1>6. IsFiniteSet(S \cup {u})
  BY <1>2, FS_AddElement
<1> HIDE DEF u, c, k
<1>7. \A x \in Rows : made'[x] = IF x = r THEN made[x] \cup {u} ELSE made[x]
  BY <1>2, <1>5 DEF PushTypeOK, TypeHistory, Logs
<1>8. ASSUME NEW d \in Clients, NEW x \in Rows
      PROVE  New(d, x) = IF d = c /\ x = r THEN {u} ELSE {}
  <2>1. New(d, x) = { v \in made'[x] : ClientOf[v[1]] = d } \ { v \in made[x] : ClientOf[v[1]] = d }
    BY DEF New, Own
  <2>2. CASE d = c /\ x = r
    <3>1. made'[x] = made[x] \cup {u}
      BY <1>7, <2>2
    <3>. QED
      BY <1>3, <1>4, <2>1, <2>2, <3>1
  <2>3. CASE x # r
    <3>1. made'[x] = made[x]
      BY <1>7, <2>3
    <3>. QED
      BY <2>1, <2>3, <3>1
  <2>4. CASE d # c /\ x = r
    <3>1. made'[x] = made[x] \cup {u}
      BY <1>7, <2>4
    <3>. QED
      BY <1>4, <2>1, <2>4, <3>1
  <2>. QED
    BY <2>2, <2>3, <2>4
<1>9. IncMakes(c, r, u)
  BY <1>3, <1>5, <1>6, <1>8 DEF IncMakes
<1>. QED
  BY <1>9 DEF c

LEMMA IncLogs ==
  ASSUME PushTypeOK, MadeNumbered, MadeFinite, NEW t \in Threads, NEW r \in Rows, Inc(t, r)
  PROVE  LogsMove /\ MadeNumbered' /\ MadeFinite'
<1> DEFINE c == ClientOf[t]
<1>1. PICK u : IncMakes(c, r, u)
  BY IncIs
<1>2. c \in Clients
  BY SSPAssumption
<1> HIDE DEF c
<1>3. /\ \A d \in Clients, x \in Rows :
           oplog'[d][x] = IF d = c /\ x = r THEN oplog[d][x] \cup {u} ELSE oplog[d][x]
      /\ \A x \in Rows : made'[x] = IF x = r THEN made[x] \cup {u} ELSE made[x]
  BY <1>1, <1>2 DEF IncMakes, PushTypeOK, TypeClient, TypeHistory, Logs
<1>4. \A d \in Clients, x \in Rows : New(d, x) = IF d = c /\ x = r THEN {u} ELSE {}
  BY <1>1 DEF IncMakes
<1>5. UNCHANGED <<data, version>> /\ \A d, s : OpLogsTo(d, s)' = OpLogsTo(d, s)
  BY <1>1 DEF IncMakes, OpLogsTo
<1>6. LogsMove
  BY <1>3, <1>4, <1>5 DEF LogsMove
<1>7. Numbered(made[r] \cup {u}) /\ IsFiniteSet(made[r] \cup {u})
  BY <1>1 DEF IncMakes
<1>. QED
  BY <1>3, <1>6, <1>7 DEF MadeNumbered, MadeFinite

LEMMA SentLogs ==
  ASSUME PushTypeOK, PushTypeOK', NEW c \in Clients, NEW advanced \in BOOLEAN,
         BatchSent(c, advanced)
  PROVE  LogsMove
<1> DEFINE M(s) == OpLogMsg(c, s, advanced, bgClock'[c])
<1>1. /\ UNCHANGED <<made, data>>
      /\ oplog'[c] = Remaining(c) /\ version'[c] = version[c] + 1
      /\ \A d \in Clients \ {c} : /\ oplog'[d] = oplog[d] /\ version'[d] = version[d]
                                  /\ toServer'[d] = toServer[d]
  BY DEF BatchSent, PushTypeOK, PushTypeNet, TypeClient, TypeBg
<1>2. \A r \in Rows : /\ oplog'[c][r] = oplog[c][r] \ Batch(c)[r]
                      /\ Batch(c)[r] \subseteq oplog[c][r]
  BY <1>1 DEF Remaining, Batch
<1>3. \A d, r : New(d, r) = {}
  BY <1>1 DEF New, Own
<1>4. version[c] \in Nat
  BY DEF PushTypeOK, TypeBg
<1>5. NewBatch(c) = {[version |-> version[c], log |-> Batch(c)]}
  BY <1>1, <1>4 DEF NewBatch
<1>6. \A s \in Servers : OpLogsTo(c, s)' = OpLogsTo(c, s) \cup {M(s)}
  BY SentIs
<1>7. \A s \in Servers, r \in Rows :
        M(s).version = version[c] /\ M(s).log[r] = IF ServerOf[r] = s THEN Batch(c)[r] ELSE {}
  BY DEF OpLogMsg
<1> HIDE DEF M
<1>8. ASSUME NEW d \in Clients, NEW r \in Rows, NEW s \in Servers, NEW m \in OpLogsTo(d, s)'
      PROVE  \/ m \in OpLogsTo(d, s)
             \/ \E k \in NewBatch(d) : /\ m.version = k.version
                                       /\ m.log[r] = IF ServerOf[r] = s THEN k.log[r] ELSE {}
  <2>1. CASE d = c
    <3>1. m \in OpLogsTo(d, s) \/ m = M(s)
      BY <1>6, <1>8, <2>1
    <3>2. [version |-> version[c], log |-> Batch(c)] \in NewBatch(c)
      BY <1>5
    <3>. QED
      BY <1>7, <2>1, <3>1, <3>2
  <2>2. CASE d # c
    BY <1>1, <1>8, <2>2 DEF OpLogsTo
  <2>. QED
    BY <2>1, <2>2
<1>9. ASSUME NEW d \in Clients, NEW r \in Rows
      PROVE  \/ version'[d] = version[d] /\ oplog'[d][r] = oplog[d][r] \cup New(d, r)
             \/ /\ version'[d] = version[d] + 1 /\ New(d, r) = {}
                /\ Batch(d)[r] \subseteq oplog[d][r] /\ oplog'[d][r] = oplog[d][r] \ Batch(d)[r]
  BY <1>1, <1>2, <1>3
<1>. QED
  BY <1>1, <1>8, <1>9 DEF LogsMove

LEMMA TakenLogs ==
  ASSUME PushTypeOK, NEW c \in Clients, NEW s \in Servers, BatchTaken(c, s)
  PROVE  LogsMove
<1> DEFINE m == Head(toServer[c][s])
<1>1. /\ UNCHANGED <<made, oplog, version>>
      /\ toServer[c][s] # << >> /\ m.type = "OpLog"
      /\ toServer'[c][s] = Tail(toServer[c][s])
      /\ \A d \in Clients, i \in Servers : ~(d = c /\ i = s) => toServer'[d][i] = toServer[d][i]
      /\ \A r \in Rows : data'[r] = data[r] \cup m.log[r]
  BY DEF BatchTaken, PushTypeOK, PushTypeNet, OpLogRows, Applied
<1>2. toServer[c][s] \in Seq(PushToServerMsgs)
  BY DEF PushTypeOK, PushTypeNet
<1>3. OpLogsTo(c, s) = OpLogsTo(c, s)' \cup {m}
  <2>1. OfType(toServer[c][s], "OpLog") = OfType(Tail(toServer[c][s]), "OpLog") \cup {m}
    BY <1>1, <1>2, OfTypeTail
  <2>. QED
    BY <1>1, <2>1 DEF OpLogsTo
<1> HIDE DEF m
<1>4. \A d \in Clients, i \in Servers : OpLogsTo(d, i)' \subseteq OpLogsTo(d, i)
  <2>1. TAKE d \in Clients, i \in Servers
  <2>2. CASE d = c /\ i = s
    BY <1>3, <2>2
  <2>3. CASE ~(d = c /\ i = s)
    BY <1>1, <2>3 DEF OpLogsTo
  <2>. QED
    BY <2>2, <2>3
<1>5. \A d, r : New(d, r) = {}
  BY <1>1 DEF New, Own
<1>6. \A r \in Rows : \A u \in data'[r] \ data[r] : m \in OpLogsTo(c, s) /\ u \in m.log[r]
  BY <1>1, <1>3
<1>. QED
  BY <1>1, <1>4, <1>5, <1>6 DEF LogsMove

-----------------------------------------------------------------------------
(* The updates of a client that have left it, those that have not, and the *)
(* batches it retains.                                                     *)
PushLogsOwned ==
  /\ \A r \in Rows : data[r] \subseteq made[r]
  /\ \A c \in Clients, r \in Rows :
       /\ oplog[c][r] \subseteq Own(c, r)
       /\ \A s \in Servers : \A m \in OpLogsTo(c, s) :
            m.log[r] \subseteq Own(c, r) /\ (ServerOf[r] # s => m.log[r] = {})

RetainedApart ==
  \A c \in Clients, r \in Rows : \A k \in pushMgr[c].kept :
    /\ k.version < version[c]
    /\ k.log[r] \subseteq Own(c, r) /\ k.log[r] \cap oplog[c][r] = {}
    /\ \A b \in pushMgr[c].kept \ {k} : b.version # k.version /\ b.log[r] \cap k.log[r] = {}

SentIsRetained ==
  \A c \in Clients, r \in Rows : \A m \in OpLogsTo(c, ServerOf[r]), k \in pushMgr[c].kept :
    k.version = m.version => k.log[r] = m.log[r]

LEMMA SentBefore ==
  ASSUME PushTypeOK, BatchesOrdered, NEW c \in Clients, NEW r \in Rows,
         NEW m \in OpLogsTo(c, ServerOf[r])
  PROVE  m.version \in Int /\ m.version < version[c]
<1> DEFINE q == toServer[c][ServerOf[r]]
<1>1. /\ q \in Seq(PushToServerMsgs)
      /\ \A i \in 1 .. Len(q) : q[i].type = "OpLog" => q[i].version \in Int
  BY FlowTypes
<1>2. \A i \in 1 .. Len(q) : q[i].type = "OpLog" => q[i].version < version[c]
  BY DEF BatchesOrdered, Orderly
<1>3. OpLogsTo(c, ServerOf[r]) = OfType(q, "OpLog")
  BY DEF OpLogsTo
<1> HIDE DEF q
<1>4. \E i \in 1 .. Len(q) : m = q[i] /\ q[i].type = "OpLog"
  BY <1>1, <1>3, OfTypeBySome
<1>. QED
  BY <1>1, <1>2, <1>4

LEMMA MovedOwn ==
  ASSUME LogsMove, NEW c \in Clients, NEW r \in Rows
  PROVE  /\ Own(c, r)' = Own(c, r) \cup New(c, r)
         /\ New(c, r) \cap made[r] = {}
  BY DEF LogsMove, New, Own

LEMMA OwnedKept ==
  ASSUME PushTypeOK, LogsMove, PushLogsOwned
  PROVE  PushLogsOwned'
<1>1. ASSUME NEW r \in Rows, NEW u \in data'[r]
      PROVE  u \in made'[r]
  <2>2. CASE u \in data[r]
    BY <2>2 DEF PushLogsOwned, LogsMove
  <2>3. CASE u \notin data[r]
    <3>1. PICK d \in Clients, s \in Servers : \E m \in OpLogsTo(d, s) : u \in m.log[r]
      BY <1>1, <2>3 DEF LogsMove
    <3>2. u \in Own(d, r)
      BY <3>1 DEF PushLogsOwned
    <3>. QED
      BY <3>2 DEF Own, LogsMove
  <2>. QED
    BY <2>2, <2>3
<1>2. ASSUME NEW c \in Clients, NEW r \in Rows
      PROVE  oplog'[c][r] \subseteq Own(c, r)'
  <2>1. oplog[c][r] \subseteq Own(c, r)
    BY DEF PushLogsOwned
  <2>2. oplog'[c][r] \subseteq oplog[c][r] \cup New(c, r)
    BY DEF LogsMove
  <2>. QED
    BY <2>1, <2>2, MovedOwn
<1>3. ASSUME NEW c \in Clients, NEW r \in Rows, NEW s \in Servers, NEW m \in OpLogsTo(c, s)'
      PROVE  m.log[r] \subseteq Own(c, r)' /\ (ServerOf[r] # s => m.log[r] = {})
  <2>1. Own(c, r) \subseteq Own(c, r)'
    BY MovedOwn
  <2>2. CASE m \in OpLogsTo(c, s)
    BY <2>1, <2>2 DEF PushLogsOwned
  <2>3. CASE m \notin OpLogsTo(c, s)
    <3>1. PICK k \in NewBatch(c) : m.log[r] = IF ServerOf[r] = s THEN k.log[r] ELSE {}
      BY <1>3, <2>3 DEF LogsMove
    <3>2. k.log[r] \subseteq oplog[c][r]
      BY <3>1 DEF NewBatch, Batch
    <3>. QED
      BY <2>1, <3>1, <3>2 DEF PushLogsOwned
  <2>. QED
    BY <2>2, <2>3
<1>. QED
  BY <1>1, <1>2, <1>3 DEF PushLogsOwned

(* What a new batch is.                                                    *)
LEMMA NewBatchIs ==
  ASSUME PushTypeOK, LogsMove, NEW c \in Clients, NEW r \in Rows, NEW k \in NewBatch(c)
  PROVE  /\ version[c] \in Int /\ k.version = version[c] /\ version'[c] = version[c] + 1
         /\ k.log[r] \subseteq oplog[c][r] /\ oplog'[c][r] = oplog[c][r] \ k.log[r]
         /\ \A b \in NewBatch(c) : b = k
<1>1. /\ version'[c] # version[c]
      /\ NewBatch(c) = {[version |-> version[c], log |-> Batch(c)]}
  BY DEF NewBatch
<1>2. version[c] \in Int
  BY DEF PushTypeOK, TypeBg
<1>3. k = [version |-> version[c], log |-> Batch(c)]
  BY <1>1
<1>. QED
  BY <1>1, <1>2, <1>3 DEF LogsMove

LEMMA RetainedApartKept ==
  ASSUME PushTypeOK, LogsMove, KeptMoves, PushLogsOwned, RetainedApart
  PROVE  RetainedApart'
<1>1. SUFFICES ASSUME NEW c \in Clients, NEW r \in Rows, NEW k \in pushMgr'[c].kept
               PROVE  /\ k.version < version'[c]
                      /\ k.log[r] \subseteq Own(c, r)' /\ k.log[r] \cap oplog'[c][r] = {}
                      /\ \A b \in pushMgr'[c].kept \ {k} :
                           b.version # k.version /\ b.log[r] \cap k.log[r] = {}
  BY DEF RetainedApart
<1>2. \A b \in pushMgr'[c].kept : b \in pushMgr[c].kept \/ b \in NewBatch(c)
  BY DEF KeptMoves
<1>3. \A b \in pushMgr[c].kept :
        /\ b.version \in Int /\ b.version < version[c] /\ version[c] \in Int
        /\ b.log[r] \subseteq Own(c, r) /\ b.log[r] \cap oplog[c][r] = {}
        /\ \A d \in pushMgr[c].kept \ {b} : d.version # b.version /\ d.log[r] \cap b.log[r] = {}
  <2>1. /\ \A b \in pushMgr[c].kept : b.version \in Int
        /\ version[c] \in Int
    <3>1. pushMgr[c] \in Managers /\ version[c] \in Nat
      BY DEF PushTypeOK, PushTypeBg, TypeBg
    <3>. QED
      BY <3>1 DEF Managers, Retained
  <2>. QED
    BY <2>1 DEF RetainedApart
<1>4. \A b \in NewBatch(c) :
        /\ version[c] \in Int /\ b.version = version[c] /\ version'[c] = version[c] + 1
        /\ b.log[r] \subseteq oplog[c][r] /\ oplog'[c][r] = oplog[c][r] \ b.log[r]
        /\ \A d \in NewBatch(c) : d = b
  BY NewBatchIs
<1>5. /\ oplog[c][r] \subseteq Own(c, r) /\ Own(c, r) \subseteq Own(c, r)'
      /\ oplog'[c][r] \subseteq oplog[c][r] \cup New(c, r)
      /\ New(c, r) \cap Own(c, r) = {}
      /\ version'[c] = version[c] \/ version'[c] = version[c] + 1
  <2>1. /\ oplog[c][r] \subseteq Own(c, r)
        /\ oplog'[c][r] \subseteq oplog[c][r] \cup New(c, r)
        /\ version'[c] = version[c] \/ version'[c] = version[c] + 1
    BY DEF LogsMove, PushLogsOwned
  <2>2. New(c, r) \cap Own(c, r) = {}
    BY DEF New
  <2>. QED
    BY <2>1, <2>2, MovedOwn
<1>6. CASE k \in pushMgr[c].kept
  <2>1. k.version < version'[c]
    BY <1>3, <1>5, <1>6
  <2>2. k.log[r] \subseteq Own(c, r)' /\ k.log[r] \cap oplog'[c][r] = {}
    BY <1>3, <1>5, <1>6
  <2>3. ASSUME NEW b \in pushMgr'[c].kept \ {k}
        PROVE  b.version # k.version /\ b.log[r] \cap k.log[r] = {}
    <3>1. CASE b \in pushMgr[c].kept
      BY <1>3, <1>6, <2>3, <3>1
    <3>2. CASE b \in NewBatch(c)
      <4>1. b.version = version[c] /\ b.log[r] \subseteq oplog[c][r]
        BY <1>4, <3>2
      <4>. QED
        BY <1>3, <1>6, <4>1
    <3>. QED
      BY <1>2, <2>3, <3>1, <3>2
  <2>. QED
    BY <2>1, <2>2, <2>3
<1>7. CASE k \in NewBatch(c)
  <2>1. k.version = version[c] /\ k.version < version'[c]
    BY <1>4, <1>7
  <2>2. k.log[r] \subseteq oplog[c][r] /\ oplog'[c][r] = oplog[c][r] \ k.log[r]
    BY <1>4, <1>7
  <2>3. ASSUME NEW b \in pushMgr'[c].kept \ {k}
        PROVE  b.version # k.version /\ b.log[r] \cap k.log[r] = {}
    <3>1. b \in pushMgr[c].kept
      BY <1>2, <1>4, <1>7, <2>3
    <3>. QED
      BY <1>3, <2>1, <2>2, <3>1
  <2>. QED
    BY <1>5, <2>1, <2>2, <2>3
<1>. QED
  BY <1>1, <1>2, <1>6, <1>7

LEMMA SentIsRetainedKept ==
  ASSUME PushTypeOK, BatchesOrdered, LogsMove, KeptMoves, RetainedApart, SentIsRetained
  PROVE  SentIsRetained'
<1>1. SUFFICES ASSUME NEW c \in Clients, NEW r \in Rows, NEW m \in OpLogsTo(c, ServerOf[r])',
                      NEW k \in pushMgr'[c].kept, k.version = m.version
               PROVE  k.log[r] = m.log[r]
  BY DEF SentIsRetained
<1>2. ServerOf[r] \in Servers
  BY SSPAssumption
<1>3. k \in pushMgr[c].kept \/ k \in NewBatch(c)
  BY DEF KeptMoves
<1>4. \/ m \in OpLogsTo(c, ServerOf[r])
      \/ \E b \in NewBatch(c) : m.version = b.version /\ m.log[r] = b.log[r]
  BY <1>2 DEF LogsMove
<1>5. k \in pushMgr[c].kept => k.version < version[c]
  BY DEF RetainedApart
<1>6. m \in OpLogsTo(c, ServerOf[r]) => m.version \in Int /\ m.version < version[c]
  BY SentBefore
<1>7. \A b \in NewBatch(c) : b.version = version[c] /\ \A d \in NewBatch(c) : d = b
  BY NewBatchIs
<1>8. version[c] \in Int
  BY DEF PushTypeOK, TypeBg
<1>9. CASE m \in OpLogsTo(c, ServerOf[r])
  <2>1. k \notin NewBatch(c)
    BY <1>1, <1>6, <1>7, <1>8, <1>9
  <2>. QED
    BY <1>1, <1>3, <1>9, <2>1 DEF SentIsRetained
<1>10. ASSUME NEW b \in NewBatch(c), m.version = b.version, m.log[r] = b.log[r]
       PROVE  k.log[r] = m.log[r]
  <2>1. k.version = version[c]
    BY <1>1, <1>7, <1>10
  <2>2. k \notin pushMgr[c].kept
    BY <1>5, <1>8, <2>1
  <2>. QED
    BY <1>3, <1>7, <1>10, <2>2
<1>. QED
  BY <1>4, <1>9, <1>10

-----------------------------------------------------------------------------
(* The updates of client c that a value of row r of version v lacks, and a *)
(* value that lacks these, and of the client's only these.                 *)
Lacks(c, r, v) ==
  oplog[c][r] \cup UNION { k.log[r] : k \in { b \in pushMgr[c].kept : v < b.version } }

Whole(c, r, v, D) ==
  /\ D \subseteq made[r]
  /\ Own(c, r) \subseteq D \cup Lacks(c, r, v)
  /\ D \cap Lacks(c, r, v) = {}

LEMMA LacksOwn ==
  ASSUME PushLogsOwned, RetainedApart, NEW c \in Clients, NEW r \in Rows, NEW v
  PROVE  Lacks(c, r, v) \subseteq Own(c, r)
BY DEF Lacks, PushLogsOwned, RetainedApart

LEMMA KeptTypes ==
  ASSUME PushTypeOK, NEW c \in Clients
  PROVE  version[c] \in Nat /\ \A k \in pushMgr[c].kept : k.version \in Nat
<1>1. pushMgr[c] \in Managers /\ version[c] \in Nat
  BY DEF PushTypeOK, PushTypeBg, TypeBg
<1>. QED
  BY <1>1 DEF Managers, Retained

LEMMA LacksMoves ==
  ASSUME PushTypeOK, PushTypeOK', LogsMove, KeptMoves, NEW c \in Clients, NEW r \in Rows,
         NEW v \in Int, v < version[c], \E s \in Servers : acknowledged'[c][s] <= v
  PROVE  Lacks(c, r, v)' = Lacks(c, r, v) \cup New(c, r)
<1> DEFINE L == { k.log[r] : k \in { b \in pushMgr[c].kept : v < b.version } }
           M == { k.log[r] : k \in { b \in pushMgr'[c].kept : v < b.version } }
           N == NewBatch(c)
<1>1. \A k \in pushMgr[c].kept \ pushMgr'[c].kept : ~(v < k.version)
  <2>1. TAKE k \in pushMgr[c].kept \ pushMgr'[c].kept
  <2>2. PICK s \in Servers : acknowledged'[c][s] <= v
    OBVIOUS
  <2>3. k.version <= acknowledged'[c][s] /\ k.version \in Int
    BY KeptTypes DEF KeptMoves
  <2>4. acknowledged'[c][s] \in Int
    BY DEF PushTypeOK, PushTypeBg, Versions
  <2>. QED
    BY <2>2, <2>3, <2>4
<1>2. pushMgr'[c].kept \subseteq pushMgr[c].kept \cup N /\ N \subseteq pushMgr'[c].kept
  BY DEF KeptMoves
<1>3. Lacks(c, r, v) = oplog[c][r] \cup UNION L /\ Lacks(c, r, v)' = oplog'[c][r] \cup UNION M
  BY DEF Lacks
<1>4. CASE version'[c] = version[c]
  <2>1. N = {} /\ oplog'[c][r] = oplog[c][r] \cup New(c, r)
    <3>1. oplog'[c][r] = oplog[c][r] \cup New(c, r)
      BY <1>4, KeptTypes DEF LogsMove
    <3>. QED
      BY <1>4, <3>1 DEF NewBatch
  <2>2. M = L
    <3>1. \A k : k \in pushMgr'[c].kept /\ v < k.version <=> k \in pushMgr[c].kept /\ v < k.version
      BY <1>1, <1>2, <2>1
    <3>. QED
      BY <3>1
  <2> HIDE DEF L, M
  <2>. QED
    BY <1>3, <2>1, <2>2
<1>5. CASE version'[c] # version[c]
  <2>1. PICK b \in N : TRUE
    BY <1>5 DEF NewBatch
  <2>2. /\ b.version = version[c] /\ b.log[r] \subseteq oplog[c][r]
        /\ oplog'[c][r] = oplog[c][r] \ b.log[r] /\ \A d \in N : d = b
    BY <2>1, NewBatchIs
  <2>3. New(c, r) = {}
    BY <1>5 DEF LogsMove
  <2> HIDE DEF N
  <2>4. \A k : k \in pushMgr'[c].kept /\ v < k.version <=>
                 k = b \/ (k \in pushMgr[c].kept /\ v < k.version)
    BY <1>1, <1>2, <2>1, <2>2
  <2>5. UNION M = (UNION L) \cup b.log[r]
    BY <2>4
  <2> HIDE DEF L, M
  <2>. QED
    BY <1>3, <2>2, <2>3, <2>5
<1>. QED
  BY <1>4, <1>5

LEMMA WholeKept ==
  ASSUME PushTypeOK, PushTypeOK', LogsMove, KeptMoves, NEW c \in Clients, NEW r \in Rows,
         NEW v \in Int, v < version[c], \E s \in Servers : acknowledged'[c][s] <= v,
         NEW D, Whole(c, r, v, D)
  PROVE  Whole(c, r, v, D)'
<1>1. Lacks(c, r, v)' = Lacks(c, r, v) \cup New(c, r)
  BY LacksMoves
<1>2. Own(c, r)' = Own(c, r) \cup New(c, r) /\ New(c, r) \cap made[r] = {}
  BY MovedOwn
<1>3. made[r] \subseteq made'[r]
  BY DEF LogsMove
<1>. QED
  BY <1>1, <1>2, <1>3 DEF Whole

(* What a value becomes in the cache: nothing is added twice, and what it  *)
(* lacked is added.                                                        *)
LEMMA ReplayedIs ==
  ASSUME PushTypeOK, RetainedApart, NEW c \in Clients, NEW r \in Rows, NEW v \in Int,
         v < version[c], NEW m, m.kept \subseteq pushMgr[c].kept,
         \A k \in pushMgr[c].kept \ m.kept : k.version <= v,
         ~CannotReplay(c, m, v), NEW value, value \cap Lacks(c, r, v) = {}
  PROVE  /\ UNION Range(Replayed(c, m, v, r, value)) = value \cup Lacks(c, r, v)
         /\ AddedTwice(Replayed(c, m, v, r, value)) = {}
<1> DEFINE f == Replayed(c, m, v, r, value)
           n == version[c]
           kept == pushMgr[c].kept
<1>1. n \in Int /\ \A k \in kept : k.version \in Int /\ k.version < n
  BY KeptTypes DEF RetainedApart
<1>2. \A k \in kept : /\ k.log[r] \cap oplog[c][r] = {}
                      /\ \A b \in kept : b # k => b.version # k.version /\ b.log[r] \cap k.log[r] = {}
  BY DEF RetainedApart
<1>3. /\ DOMAIN f = v .. n /\ f[v] = value /\ f[n] = oplog[c][r]
      /\ \A w \in v .. n : w # v /\ w # n =>
           \E k \in kept : k.version = w /\ v < k.version /\ f[w] = k.log[r]
  <2>1. DOMAIN f = v .. n /\ f[v] = value /\ f[n] = oplog[c][r]
    BY <1>1 DEF Replayed
  <2>2. ASSUME NEW w \in v .. n, w # v, w # n
        PROVE  \E k \in kept : k.version = w /\ v < k.version /\ f[w] = k.log[r]
    <3> DEFINE k == CHOOSE k \in m.kept : k.version = w
    <3>1. w \in (v + 1) .. (n - 1) /\ v < w
      BY <1>1, <2>2
    <3>2. \E b \in m.kept : b.version = w
      BY <3>1 DEF CannotReplay, HasOpLog
    <3>3. k \in m.kept /\ k.version = w
      BY <3>2
    <3>4. f[w] = k.log[r]
      BY <2>2 DEF Replayed, GetOpLog
    <3> HIDE DEF k, f
    <3>. QED
      BY <3>1, <3>3, <3>4
  <2>. QED
    BY <2>1, <2>2
<1> HIDE DEF f, n
<1>4. \A u : u \in Lacks(c, r, v) <=>
               u \in oplog[c][r] \/ \E k \in kept : v < k.version /\ u \in k.log[r]
  BY DEF Lacks
<1> HIDE DEF kept
<1>5. \A k \in kept : v < k.version => f[k.version] = k.log[r]
  <2>1. TAKE k \in kept
  <2>2. HAVE v < k.version
  <2>3. k.version \in v .. n /\ k.version # v /\ k.version # n
    BY <1>1, <2>2
  <2>4. PICK b \in kept : b.version = k.version /\ f[k.version] = b.log[r]
    BY <1>3, <2>3
  <2>5. b = k
    BY <1>2, <2>4
  <2>. QED
    BY <2>4, <2>5
<1>6. \A w \in v .. n : w # v => f[w] \subseteq Lacks(c, r, v)
  <2>1. TAKE w \in v .. n
  <2>2. HAVE w # v
  <2>3. CASE w = n
    BY <1>3, <1>4, <2>3
  <2>4. CASE w # n
    <3>1. PICK k \in kept : v < k.version /\ f[w] = k.log[r]
      BY <1>3, <2>2, <2>4
    <3>. QED
      BY <1>4, <3>1
  <2>. QED
    BY <2>3, <2>4
<1>7. UNION Range(f) = value \cup Lacks(c, r, v)
  <2>1. ASSUME NEW u \in UNION Range(f)
        PROVE  u \in value \cup Lacks(c, r, v)
    <3>1. PICK w \in v .. n : u \in f[w]
      BY <1>3, <2>1 DEF Range
    <3>. QED
      BY <1>3, <1>6, <3>1
  <2>2. \A w \in v .. n : f[w] \in Range(f)
    BY <1>3 DEF Range
  <2>3. value \in Range(f) /\ oplog[c][r] \in Range(f)
    <3>1. v \in v .. n /\ n \in v .. n
      BY <1>1 DEF n
    <3>. QED
      BY <1>3, <2>2, <3>1
  <2>4. ASSUME NEW u \in Lacks(c, r, v)
        PROVE  u \in UNION Range(f)
    <3>1. CASE u \in oplog[c][r]
      BY <2>3, <3>1
    <3>2. ASSUME NEW k \in kept, v < k.version, u \in k.log[r]
          PROVE  u \in UNION Range(f)
      <4>1. k.version \in v .. n
        BY <1>1, <3>2
      <4>. QED
        BY <1>5, <2>2, <3>2, <4>1
    <3>. QED
      BY <1>4, <2>4, <3>1, <3>2
  <2>. QED
    BY <2>1, <2>3, <2>4
<1>8. \A i \in v .. n : \A j \in v .. n : i # j => f[i] \cap f[j] = {}
  <2>1. ASSUME NEW i \in v .. n, NEW j \in v .. n, i # j
        PROVE  f[i] \cap f[j] = {}
    <3>1. CASE i = v
      <4>1. f[i] = value /\ f[j] \subseteq Lacks(c, r, v)
        BY <1>3, <1>6, <2>1, <3>1
      <4>. QED
        BY <4>1
    <3>2. CASE j = v
      <4>1. f[j] = value /\ f[i] \subseteq Lacks(c, r, v)
        BY <1>3, <1>6, <2>1, <3>2
      <4>. QED
        BY <4>1
    <3>3. CASE i # v /\ j # v /\ i = n
      <4>1. f[i] = oplog[c][r]
        BY <1>3, <3>3
      <4>2. PICK k \in kept : f[j] = k.log[r]
        BY <1>3, <2>1, <3>3
      <4>. QED
        BY <1>2, <4>1, <4>2
    <3>4. CASE i # v /\ j # v /\ j = n
      <4>1. f[j] = oplog[c][r]
        BY <1>3, <3>4
      <4>2. PICK k \in kept : f[i] = k.log[r]
        BY <1>3, <2>1, <3>4
      <4>. QED
        BY <1>2, <4>1, <4>2
    <3>5. CASE i # v /\ j # v /\ i # n /\ j # n
      <4>1. PICK k \in kept : k.version = i /\ f[i] = k.log[r]
        BY <1>3, <3>5
      <4>2. PICK b \in kept : b.version = j /\ f[j] = b.log[r]
        BY <1>3, <3>5
      <4>. QED
        BY <1>2, <2>1, <4>1, <4>2
    <3>. QED
      BY <3>1, <3>2, <3>3, <3>4, <3>5
  <2>. QED
    BY <2>1
<1>9. AddedTwice(f) = {}
  BY <1>3, <1>8 DEF AddedTwice
<1>. QED
  BY <1>7, <1>9 DEF f

-----------------------------------------------------------------------------
LEMMA StepLogs ==
  ASSUME PushTypeOK, PushTypeOK', PushStep, Running', MadeNumbered, MadeFinite
  PROVE  LogsMove /\ MadeNumbered' /\ MadeFinite'
<1>1. \/ BatchesStay
      \/ \E t \in Threads, r \in Rows : Inc(t, r)
      \/ \E c \in Clients, advanced \in BOOLEAN : BatchSent(c, advanced)
      \/ \E c \in Clients, s \in Servers : BatchTaken(c, s)
  BY StepCases, ThreadStays, WorkerFlow, AnswersFlow, ServerFlow
<1>2. CASE \E t \in Threads, r \in Rows : Inc(t, r)
  BY <1>2, IncLogs
<1>3. ASSUME UNCHANGED made
      PROVE  MadeNumbered' /\ MadeFinite'
  BY <1>3 DEF MadeNumbered, MadeFinite
<1>4. CASE BatchesStay
  BY <1>3, <1>4, StayLogs DEF BatchesStay
<1>5. ASSUME NEW c \in Clients, NEW advanced \in BOOLEAN, BatchSent(c, advanced)
      PROVE  LogsMove /\ MadeNumbered' /\ MadeFinite'
  BY <1>3, <1>5, SentLogs DEF BatchSent
<1>6. ASSUME NEW c \in Clients, NEW s \in Servers, BatchTaken(c, s)
      PROVE  LogsMove /\ MadeNumbered' /\ MadeFinite'
  BY <1>3, <1>6, TakenLogs DEF BatchTaken
<1>. QED
  BY <1>1, <1>2, <1>4, <1>5, <1>6

(* What a step does to the rows: it applies the next batch of a client, or *)
(* nothing.                                                                *)
NextTaken(c, s) ==
  /\ BatchTaken(c, s) /\ Head(toServer[c][s]).version = sVersion[s][c] + 1
  /\ UNCHANGED <<acknowledged, pushMgr>>
  /\ twice' = twice \cup UNION { data[r] \cap Head(toServer[c][s]).log[r] : r \in Rows }

DataMoves ==
  UNCHANGED <<data, sVersion>> \/ \E c \in Clients, s \in Servers : NextTaken(c, s)

LEMMA StepDataMoves ==
  ASSUME PushStep, Running'
  PROVE  DataMoves
<1>1. ASSUME NEW c \in Clients, NEW s \in Servers, PushServerOpLog(c, s)
      PROVE  NextTaken(c, s)
  <2>1. failed' # "bg_version"
    BY DEF Running
  <2>. QED
    BY <1>1, <2>1, PushServerOpLogIs DEF NextTaken, BatchTaken, clientVars, bgVars, pushClientVars
<1>2. CASE ThreadStep
  BY SMTT(20), <1>2, ThreadStepIs DEF DataMoves, serverVars
<1>3. ASSUME NEW t \in Threads, PushBgBatch(t) \/ PushBgRowRequest(t)
      PROVE  UNCHANGED <<data, sVersion>>
  BY ZenonT(30), <1>3 DEF PushBgBatch, BgClock, BgSendOpLog, PushBgRowRequest, serverVars
<1>4. ASSUME NEW c \in Clients, NEW s \in Servers,
             \/ PushBgOpLogAck(s, c) \/ PushBgRowReply(s, c) \/ PushBgRows(s, c)
             \/ PushServerRowRequest(c, s) \/ ServerPushAck(c, s)
      PROVE  UNCHANGED <<data, sVersion>>
  BY Zenon, <1>4 DEF PushBgOpLogAck, BgOpLogAck, PushBgRowReply, PushBgRows, PushServerRowRequest,
              ServerRowRequest, ServerPushAck, serverVars
<1>. QED
  BY <1>1, <1>2, <1>3, <1>4, StepCases DEF DataMoves, FromServer

(* What a step does to the channel from a server to a client: messages     *)
(* leave in front, and the values of those that are added are the server's *)
(* new ones.                                                               *)
Shifted(s, c, n, l) ==
  \A j \in 1 .. Len(toClient'[s][c]) :
    IF j <= l
    THEN j + n \in 1 .. Len(toClient[s][c]) /\ toClient'[s][c][j] = toClient[s][c][j + n]
    ELSE \A r \in Rows : Touches(toClient'[s][c][j], r) =>
           /\ ServerOf[r] = s /\ ValueOf(toClient'[s][c][j], r) = data'[r]
           /\ toClient'[s][c][j].version = sVersion'[s][c]

ChannelMove(s, c) == \E n \in 0 .. 1, l \in Nat : Shifted(s, c, n, l)

ChannelsMove == \A s \in Servers, c \in Clients : ChannelMove(s, c)

LEMMA SameMove ==
  ASSUME PushTypeOK, NEW s \in Servers, NEW c \in Clients, toClient'[s][c] = toClient[s][c]
  PROVE  ChannelMove(s, c)
<1>1. Len(toClient[s][c]) \in Nat /\ 0 \in 0 .. 1
  BY DEF PushTypeOK, PushTypeNet
<1>2. Shifted(s, c, 0, Len(toClient[s][c]))
  <2> DEFINE q == toClient[s][c]
  <2>1. toClient'[s][c] = q /\ toClient[s][c] = q /\ Len(q) \in Nat
    BY <1>1
  <2> HIDE DEF q
  <2>2. \A j \in 1 .. Len(q) : j <= Len(q) /\ j + 0 \in 1 .. Len(q) /\ q[j] = q[j + 0]
    BY <2>1
  <2>. QED
    BY <2>1, <2>2 DEF Shifted
<1>. QED
  BY <1>1, <1>2 DEF ChannelMove

LEMMA TailMove ==
  ASSUME PushTypeOK, NEW s \in Servers, NEW c \in Clients, toClient[s][c] # << >>,
         toClient'[s][c] = Tail(toClient[s][c])
  PROVE  ChannelMove(s, c)
<1> DEFINE q == toClient[s][c]
           p == Tail(q)
<1>1. q \in Seq(PushToClientMsgs) /\ p \in Seq(PushToClientMsgs) /\ Shortened(p, q)
  BY TailShortens DEF PushTypeOK, PushTypeNet
<1>2. toClient'[s][c] = p /\ toClient[s][c] = q
  OBVIOUS
<1> HIDE DEF p, q
<1>3. Len(p) \in Nat /\ \A j \in 1 .. Len(p) : j <= Len(p) /\ j + 1 \in 1 .. Len(q) /\ p[j] = q[j + 1]
  BY <1>1 DEF Shortened
<1>4. Shifted(s, c, 1, Len(p)) /\ 1 \in 0 .. 1
  BY <1>2, <1>3 DEF Shifted
<1>. QED
  BY <1>3, <1>4 DEF ChannelMove

LEMMA SentMove ==
  ASSUME PushTypeOK, PushTypeOK', NEW s \in Servers, NEW c \in Clients, NEW out, Sends(s, out),
         NEW e, SendsTo(s, c, e), Carries(s, c, e)
  PROVE  ChannelMove(s, c)
<1> DEFINE q == toClient[s][c]
           p == toClient'[s][c]
           o == out[c]
<1>1. /\ q \in Seq(PushToClientMsgs) /\ e \in Seq(PushToClientMsgs) /\ o \in Seq(PushToClientMsgs)
      /\ p = q \o e /\ p = q \o o
      /\ \A x \in Range(o) : x.version = sVersion'[s][c]
  BY DEF PushTypeOK, PushTypeNet, Sends, SendsTo
<1>2. \A i \in 1 .. Len(e) : \A r \in Rows : Touches(e[i], r) =>
        ServerOf[r] = s /\ ValueOf(e[i], r) = data'[r]
  BY DEF Carries
<1>3. toClient'[s][c] = p /\ toClient[s][c] = q
  OBVIOUS
<1> HIDE DEF p, q, o
<1>4. /\ Len(q) \in Nat /\ Len(e) \in Nat /\ Len(p) = Len(q) + Len(e)
      /\ \A j \in 1 .. Len(q) : p[j] = q[j]
      /\ \A i \in 1 .. Len(e) : p[Len(q) + i] = e[i]
  <2>1. p = q \o e
    BY <1>1
  <2>. QED
    BY <1>1, <2>1
<1>5. Len(p) = Len(q) + Len(o) /\ \A i \in 1 .. Len(o) : p[Len(q) + i] = o[i]
  <2>1. p = q \o o
    BY <1>1
  <2>. QED
    BY <1>1, <2>1
<1>6. Len(o) = Len(e)
  <2>1. Len(o) \in Nat
    BY <1>1
  <2>. QED
    BY <1>4, <1>5, <2>1
<1>7. ASSUME NEW j \in 1 .. Len(p), ~(j <= Len(q)), NEW r \in Rows, Touches(p[j], r)
      PROVE  ServerOf[r] = s /\ ValueOf(p[j], r) = data'[r] /\ p[j].version = sVersion'[s][c]
  <2> DEFINE i == j - Len(q)
  <2>1. i \in 1 .. Len(e) /\ Len(q) + i = j
    BY <1>4, <1>7
  <2> HIDE DEF i
  <2>2. p[j] = e[i] /\ p[j] = o[i] /\ i \in 1 .. Len(o)
    BY <1>4, <1>5, <1>6, <2>1
  <2>3. o[i] \in Range(o)
    BY <1>1, <2>2, RangeElements
  <2>. QED
    BY <1>1, <1>2, <1>7, <2>1, <2>2, <2>3
<1>8. \A j \in 1 .. Len(p) : j <= Len(q) => j + 0 \in 1 .. Len(q) /\ p[j] = q[j + 0]
  BY <1>4
<1>9. Shifted(s, c, 0, Len(q)) /\ 0 \in 0 .. 1
  BY <1>3, <1>7, <1>8 DEF Shifted
<1>. QED
  BY <1>4, <1>9 DEF ChannelMove

LEMMA TakenMoves ==
  ASSUME PushTypeOK, NEW c \in Clients, NEW s \in Servers, toClient[s][c] # << >>, Taken(c, s)
  PROVE  ChannelsMove
<1>1. /\ toClient'[s][c] = Tail(toClient[s][c])
      /\ \A i \in Servers, d \in Clients : ~(d = c /\ i = s) => toClient'[i][d] = toClient[i][d]
  BY DEF Taken, PushTypeOK, PushTypeNet
<1>2. ASSUME NEW i \in Servers, NEW d \in Clients
      PROVE  ChannelMove(i, d)
  BY <1>1, TailMove, SameMove
<1>. QED
  BY <1>2 DEF ChannelsMove

LEMMA StepChannelsMove ==
  ASSUME PushTypeOK, PushTypeOK', PushStep, Running', NoneWait, RequestsPlaced, ClocksRise,
         RequestsReached
  PROVE  ChannelsMove
<1>1. ASSUME UNCHANGED toClient
      PROVE  ChannelsMove
  BY <1>1, SameMove DEF ChannelsMove
<1>2. CASE ThreadStep
  BY SMTT(20), <1>1, <1>2, ThreadStepIs
<1>3. ASSUME NEW t \in Threads, PushBgBatch(t) \/ PushBgRowRequest(t)
      PROVE  ChannelsMove
  BY <1>1, <1>3 DEF PushBgBatch, BgClock, BgSendOpLog, PushBgRowRequest
<1>4. ASSUME NEW c \in Clients, NEW s \in Servers,
             PushBgOpLogAck(s, c) \/ PushBgRowReply(s, c) \/ PushBgRows(s, c)
      PROVE  ChannelsMove
  <2>1. toClient[s][c] # << >> /\ Taken(c, s)
    BY Zenon, <1>4 DEF PushBgOpLogAck, BgOpLogAck, PushBgRowReply, PushBgRows, Taken
  <2>. QED
    BY <2>1, TakenMoves
<1>5. ASSUME NEW c \in Clients, NEW s \in Servers, FromServer(c, s)
      PROVE  ChannelsMove
  <2>1. PICK out : Sends(s, out)
    BY <1>5, FromServerIs
  <2>2. CarriesOn(s)
    BY <1>5, AnswerCarries, OpLogCarries, PushAckCarries DEF FromServer
  <2>3. ASSUME NEW i \in Servers, NEW d \in Clients
        PROVE  ChannelMove(i, d)
    <3>1. CASE i = s
      <4>1. PICK e : SendsTo(s, d, e) /\ Carries(s, d, e)
        BY <2>2 DEF CarriesOn
      <4>. QED
        BY <2>1, <3>1, <4>1, SentMove
    <3>2. CASE i # s
      BY <2>2, <3>2, SameMove DEF CarriesOn
    <3>. QED
      BY <3>1, <3>2
  <2>. QED
    BY <2>3 DEF ChannelsMove
<1>. QED
  BY <1>2, <1>3, <1>4, <1>5, StepCases

-----------------------------------------------------------------------------
(* A server's value of a row is whole for every client.                    *)
RowsWhole == \A c \in Clients, r \in Rows : Whole(c, r, sVersion[ServerOf[r]][c], data[r])

LEMMA RowVersions ==
  ASSUME PushTypeOK, BatchesOrdered, VersionsRise, NEW c \in Clients, NEW r \in Rows
  PROVE  /\ ServerOf[r] \in Servers /\ sVersion[ServerOf[r]][c] \in Int /\ version[c] \in Int
         /\ acknowledged[c][ServerOf[r]] \in Int
         /\ acknowledged[c][ServerOf[r]] <= sVersion[ServerOf[r]][c]
         /\ sVersion[ServerOf[r]][c] < version[c]
<1>1. ServerOf[r] \in Servers /\ sVersion[ServerOf[r]][c] \in Int /\ version[c] \in Int
  BY FlowTypes
<1>2. acknowledged[c][ServerOf[r]] \in Int
  BY <1>1 DEF PushTypeOK, PushTypeBg, Versions
<1>3. acknowledged[c][ServerOf[r]] <= sVersion[ServerOf[r]][c]
  BY <1>1 DEF VersionsRise
<1>4. sVersion[ServerOf[r]][c] < version[c]
  BY DEF BatchesOrdered, Orderly
<1>. QED
  BY <1>1, <1>2, <1>3, <1>4

LEMMA LacksNext ==
  ASSUME PushTypeOK, RetainedApart, NEW c \in Clients, NEW r \in Rows, NEW v \in Int,
         NEW k \in pushMgr[c].kept, k.version = v + 1
  PROVE  /\ Lacks(c, r, v) = Lacks(c, r, v + 1) \cup k.log[r]
         /\ k.log[r] \cap Lacks(c, r, v + 1) = {}
<1> DEFINE kept == pushMgr[c].kept
<1>1. \A b \in kept : b.version \in Int /\ (b.version = v + 1 => b = k)
  BY KeptTypes DEF RetainedApart
<1>2. /\ k.log[r] \cap oplog[c][r] = {}
      /\ \A b \in kept : b # k => b.log[r] \cap k.log[r] = {}
  BY DEF RetainedApart
<1>3. \A w, u : u \in Lacks(c, r, w) <=>
                  u \in oplog[c][r] \/ \E b \in kept : w < b.version /\ u \in b.log[r]
  BY DEF Lacks
<1> HIDE DEF kept
<1>4. k \in kept
  BY DEF kept
<1>5. \A b \in kept : v < b.version <=> v + 1 < b.version \/ b = k
  BY <1>1
<1>6. \A b \in kept : v + 1 < b.version => b # k
  OBVIOUS
<1>7. \A u : u \in Lacks(c, r, v) <=> u \in Lacks(c, r, v + 1) \/ u \in k.log[r]
  BY <1>3, <1>4, <1>5
<1>8. \A u : ~(u \in k.log[r] /\ u \in Lacks(c, r, v + 1))
  BY <1>2, <1>3, <1>6
<1>. QED
  BY <1>7, <1>8

LEMMA HeadIsSent ==
  ASSUME PushTypeOK, NEW c \in Clients, NEW s \in Servers, toServer[c][s] # << >>,
         Head(toServer[c][s]).type = "OpLog"
  PROVE  Head(toServer[c][s]) \in OpLogsTo(c, s)
<1> DEFINE q == toServer[c][s]
<1>1. q \in Seq(PushToServerMsgs)
  BY DEF PushTypeOK, PushTypeNet
<1>2. OpLogsTo(c, s) = OfType(q, "OpLog")
  BY DEF OpLogsTo
<1> HIDE DEF q
<1>3. OfType(q, "OpLog") = OfType(Tail(q), "OpLog") \cup {Head(q)}
  <2>1. q # << >> /\ Head(q).type = "OpLog"
    BY DEF q
  <2>. QED
    BY <1>1, <2>1, OfTypeTail
<1>. QED
  BY <1>2, <1>3 DEF q

(* The batch a server applies next is still retained.                      *)
LEMMA TakenIsRetained ==
  ASSUME PushTypeOK, BatchesOrdered, VersionsRise, AllRetained, SentIsRetained,
         NEW c \in Clients, NEW s \in Servers, NextTaken(c, s), NEW r \in Rows, ServerOf[r] = s
  PROVE  \E k \in pushMgr[c].kept :
           k.version = sVersion[s][c] + 1 /\ k.log[r] = Head(toServer[c][s]).log[r]
<1> DEFINE m == Head(toServer[c][s])
<1>1. /\ toServer[c][s] # << >> /\ m.type = "OpLog" /\ m.version = sVersion[s][c] + 1
  BY DEF NextTaken, BatchTaken
<1>2. m \in OpLogsTo(c, s)
  BY <1>1, HeadIsSent
<1>3. m \in OpLogMsgs
  BY <1>1, PushHeadToServer, PushMsgFields DEF PushTypeOK
<1>4. m.version \in Nat
  BY <1>3 DEF OpLogMsgs
<1> HIDE DEF m
<1>5. m.version < version[c]
  BY <1>2, SentBefore
<1>6. Min(Range(acknowledged[c])) \in Int /\ Min(Range(acknowledged[c])) <= acknowledged[c][s]
  <2>1. acknowledged[c] \in [Servers -> Int]
    BY DEF PushTypeOK, PushTypeBg, Versions
  <2>. QED
    BY <2>1, LowestIs
<1>7. /\ sVersion[s][c] \in Int /\ acknowledged[c][s] \in Int /\ acknowledged[c][s] <= sVersion[s][c]
  BY RowVersions
<1>8. Min(Range(acknowledged[c])) < m.version
  BY <1>1, <1>4, <1>6, <1>7
<1>9. PICK k \in pushMgr[c].kept : k.version = m.version
  BY <1>4, <1>5, <1>8 DEF AllRetained, RetainsAfter, HasOpLog
<1>10. k.log[r] = m.log[r]
  BY <1>2, <1>9 DEF SentIsRetained
<1>. QED
  BY <1>1, <1>9, <1>10 DEF m

LEMMA NextTakenIs ==
  ASSUME PushTypeOK, PushLogsOwned, NEW c \in Clients, NEW s \in Servers, NextTaken(c, s)
  PROVE  LET m == Head(toServer[c][s])
         IN  /\ m.version = sVersion[s][c] + 1
             /\ \A r \in Rows : /\ data'[r] = data[r] \cup m.log[r]
                                /\ m.log[r] \subseteq Own(c, r)
                                /\ ServerOf[r] # s => m.log[r] = {}
             /\ \A d \in Clients, i \in Servers :
                  sVersion'[i][d] = IF d = c /\ i = s THEN m.version ELSE sVersion[i][d]
             /\ UNCHANGED <<acknowledged, made>>
             /\ twice' = twice \cup UNION { data[r] \cap m.log[r] : r \in Rows }
<1> DEFINE m == Head(toServer[c][s])
<1>1. /\ toServer[c][s] # << >> /\ m.type = "OpLog" /\ m.version = sVersion[s][c] + 1
      /\ UNCHANGED <<acknowledged, made>>
      /\ twice' = twice \cup UNION { data[r] \cap m.log[r] : r \in Rows }
  BY DEF NextTaken, BatchTaken
<1>2. m \in OpLogsTo(c, s)
  BY <1>1, HeadIsSent
<1>3. \A r \in Rows : data'[r] = data[r] \cup m.log[r]
  BY DEF NextTaken, BatchTaken, OpLogRows, Applied
<1>4. \A d \in Clients, i \in Servers :
        sVersion'[i][d] = IF d = c /\ i = s THEN m.version ELSE sVersion[i][d]
  <2>1. /\ sVersion' = [sVersion EXCEPT ![s] = OpLogVers(c, s)]
        /\ sVersion \in [Servers -> [Clients -> Versions]]
    BY DEF NextTaken, BatchTaken, PushTypeOK, TypeServer
  <2>2. /\ OpLogVers(c, s)[c] = m.version
        /\ \A d \in Clients \ {c} : OpLogVers(c, s)[d] = sVersion[s][d]
    BY <2>1 DEF OpLogVers
  <2> HIDE DEF m
  <2>. QED
    BY <2>1, <2>2
<1> HIDE DEF m
<1>5. \A r \in Rows : m.log[r] \subseteq Own(c, r) /\ (ServerOf[r] # s => m.log[r] = {})
  BY <1>2 DEF PushLogsOwned
<1>. QED
  BY <1>1, <1>3, <1>4, <1>5 DEF m

LEMMA OwnApart ==
  ASSUME NEW c, NEW d, c # d, NEW r
  PROVE  Own(c, r) \cap Own(d, r) = {}
BY DEF Own

(* What a server applies was lacking, and no other client lacks it.        *)
LEMMA NextTakenApart ==
  ASSUME PushTypeOK, BatchesOrdered, VersionsRise, AllRetained, PushLogsOwned, RetainedApart,
         SentIsRetained, RowsWhole, NEW c \in Clients, NEW s \in Servers, NextTaken(c, s),
         NEW r \in Rows
  PROVE  /\ data[r] \cap Head(toServer[c][s]).log[r] = {}
         /\ \A d \in Clients : Whole(d, r, sVersion'[ServerOf[r]][d], data'[r])
<1> DEFINE m == Head(toServer[c][s])
<1>1. /\ m.version = sVersion[s][c] + 1 /\ data'[r] = data[r] \cup m.log[r]
      /\ m.log[r] \subseteq Own(c, r)
      /\ ServerOf[r] # s => m.log[r] = {}
      /\ \A d \in Clients, i \in Servers :
           sVersion'[i][d] = IF d = c /\ i = s THEN m.version ELSE sVersion[i][d]
  BY NextTakenIs
<1> HIDE DEF m
<1>2. ServerOf[r] \in Servers /\ \A d \in Clients : Whole(d, r, sVersion[ServerOf[r]][d], data[r])
  BY SSPAssumption DEF RowsWhole
<1>3. Own(c, r) \subseteq made[r]
  BY DEF Own
<1>4. CASE ServerOf[r] # s
  <2>1. m.log[r] = {} /\ data'[r] = data[r]
    BY <1>1, <1>4
  <2>2. \A d \in Clients : sVersion'[ServerOf[r]][d] = sVersion[ServerOf[r]][d]
    BY <1>1, <1>2, <1>4
  <2>. QED
    BY <1>2, <2>1, <2>2 DEF m
<1>5. CASE ServerOf[r] = s
  <2>1. PICK k \in pushMgr[c].kept : k.version = sVersion[s][c] + 1 /\ k.log[r] = m.log[r]
    BY <1>5, TakenIsRetained DEF m
  <2>2. sVersion[s][c] \in Int
    BY <1>5, RowVersions
  <2> DEFINE v == sVersion[s][c]
             D == data'[r]
  <2>3. /\ Lacks(c, r, v) = Lacks(c, r, v + 1) \cup m.log[r]
        /\ m.log[r] \cap Lacks(c, r, v + 1) = {}
    BY <2>1, <2>2, LacksNext
  <2>4. Whole(c, r, v, data[r])
    BY <1>2, <1>5
  <2>5. sVersion'[s][c] = v + 1
    BY <1>1
  <2>6. D = data[r] \cup m.log[r]
    BY <1>1
  <2> HIDE DEF v, D
  <2>7. data[r] \cap m.log[r] = {} /\ Whole(c, r, v + 1, D)
    BY <1>1, <1>3, <2>3, <2>4, <2>6 DEF Whole
  <2>8. ASSUME NEW d \in Clients, d # c
        PROVE  Whole(d, r, sVersion[s][d], D)
    <3>1. Own(c, r) \cap Own(d, r) = {}
      BY <2>8, OwnApart
    <3> DEFINE w == sVersion[s][d]
    <3>2. Lacks(d, r, w) \subseteq Own(d, r)
      BY LacksOwn
    <3>3. Whole(d, r, w, data[r])
      BY <1>2, <1>5
    <3> HIDE DEF w
    <3>4. Whole(d, r, w, D)
      BY <1>1, <1>3, <2>6, <3>1, <3>2, <3>3 DEF Whole
    <3>. QED
      BY <3>4 DEF w
  <2>9. \A d \in Clients : d # c => sVersion'[s][d] = sVersion[s][d]
    BY <1>1
  <2>10. ASSUME NEW d \in Clients
         PROVE  Whole(d, r, sVersion'[s][d], D)
    <3>1. CASE d = c
      BY <2>5, <2>7, <3>1
    <3>2. CASE d # c
      BY <2>8, <2>9, <3>2
    <3>. QED
      BY <3>1, <3>2
  <2>. QED
    BY <1>5, <2>7, <2>10 DEF D, m
<1>. QED
  BY <1>4, <1>5

LEMMA RowsWholeKept ==
  ASSUME PushTypeOK, PushTypeOK', LogsMove, KeptMoves, DataMoves, BatchesOrdered, BatchesOrdered',
         VersionsRise, VersionsRise', AllRetained, PushLogsOwned, RetainedApart, SentIsRetained,
         RowsWhole
  PROVE  RowsWhole'
<1>1. SUFFICES ASSUME NEW c \in Clients, NEW r \in Rows, NEW v, NEW D,
                      v = sVersion'[ServerOf[r]][c], D = data'[r]
               PROVE  Whole(c, r, v, D)'
  BY DEF RowsWhole, Whole, Lacks
<1>2. ServerOf[r] \in Servers /\ v \in Int
  BY <1>1, SSPAssumption DEF PushTypeOK, TypeServer, Versions
<1>3. acknowledged'[c][ServerOf[r]] <= v
  BY <1>1, <1>2 DEF VersionsRise
<1>4. v < version[c]
  <2>1. CASE UNCHANGED <<data, sVersion>>
    BY <1>1, <2>1, RowVersions
  <2>2. CASE UNCHANGED version
    BY <1>1, <2>2 DEF BatchesOrdered, Orderly
  <2>. QED
    BY <2>1, <2>2 DEF DataMoves, NextTaken, BatchTaken
<1>5. Whole(c, r, v, D)
  <2>1. CASE UNCHANGED <<data, sVersion>>
    BY <1>1, <2>1 DEF RowsWhole
  <2>2. ASSUME NEW d \in Clients, NEW s \in Servers, NextTaken(d, s)
        PROVE  Whole(c, r, v, D)
    BY <1>1, <2>2, NextTakenApart
  <2>. QED
    BY <2>1, <2>2 DEF DataMoves
<1>. QED
  BY <1>2, <1>3, <1>4, <1>5, WholeKept

-----------------------------------------------------------------------------
(* So is every value on its way, and a later one holds an earlier one.     *)
WholeValue(c, r, m) == Touches(m, r) => Whole(c, r, m.version, ValueOf(m, r))

ValuesWhole ==
  \A c \in Clients, r \in Rows : \A i \in 1 .. Len(toClient[ServerOf[r]][c]) :
    WholeValue(c, r, toClient[ServerOf[r]][c][i])

ValuesGrow ==
  \A c \in Clients, r \in Rows :
    \A i \in 1 .. Len(toClient[ServerOf[r]][c]) : Touches(toClient[ServerOf[r]][c][i], r) =>
      /\ ValueOf(toClient[ServerOf[r]][c][i], r) \subseteq data[r]
      /\ \A j \in 1 .. Len(toClient[ServerOf[r]][c]) :
           i < j => Keeps(toClient[ServerOf[r]][c][j], r, ValueOf(toClient[ServerOf[r]][c][i], r))

LEMMA DataGrows ==
  ASSUME PushTypeOK, PushLogsOwned, DataMoves, NEW r \in Rows
  PROVE  data[r] \subseteq data'[r]
BY NextTakenIs DEF DataMoves

LEMMA ValuesWholeKept ==
  ASSUME PushTypeOK, PushTypeOK', LogsMove, KeptMoves, ChannelsMove, BatchesOrdered, VersionsRise,
         VersionsRise', RowsWhole', ValuesWhole
  PROVE  ValuesWhole'
<1>0. SUFFICES ASSUME NEW c \in Clients, NEW r \in Rows, NEW j \in 1 .. Len(toClient'[ServerOf[r]][c]),
                      NEW m, m = toClient'[ServerOf[r]][c][j]
               PROVE  WholeValue(c, r, m)'
  BY ZenonT(30) DEF ValuesWhole
<1>1. SUFFICES ASSUME Touches(m, r), NEW v, v = m.version, NEW D, D = ValueOf(m, r)
               PROVE  Whole(c, r, v, D)'
  BY <1>0 DEF WholeValue, Whole, Lacks
<1> DEFINE s == ServerOf[r]
           q == toClient[s][c]
           p == toClient'[s][c]
<1>2. /\ s \in Servers /\ q \in Seq(PushToClientMsgs) /\ p \in Seq(PushToClientMsgs)
      /\ sVersion[s][c] \in Int /\ version[c] \in Int /\ sVersion[s][c] < version[c]
  BY RowVersions DEF PushTypeOK, PushTypeNet
<1>3. PICK n \in 0 .. 1, l \in Nat : Shifted(s, c, n, l)
  BY <1>2 DEF ChannelsMove, ChannelMove
<1>4. IF j <= l THEN j + n \in 1 .. Len(q) /\ m = q[j + n]
      ELSE D = data'[r] /\ v = sVersion'[s][c]
  BY <1>0, <1>1, <1>3 DEF Shifted
<1>5. /\ Rising(q, acknowledged[c][s], sVersion[s][c])
      /\ Rising(p, acknowledged'[c][s], sVersion'[s][c])
  BY <1>2 DEF VersionsRise
<1>6. \A i \in 1 .. Len(q) : Touches(q[i], r) => Whole(c, r, q[i].version, ValueOf(q[i], r))
  BY DEF ValuesWhole, WholeValue
<1>7. j \in 1 .. Len(p) /\ m = p[j]
  BY <1>0
<1> HIDE DEF q, p
<1>8. v \in Int /\ acknowledged'[c][s] <= v
  <2>1. m \in PushToClientMsgs
    BY <1>2, <1>7, ElementOfSeq
  <2>2. m.version \in Int
    BY <2>1, PushMsgFields
  <2>. QED
    BY <1>1, <1>5, <1>7, <2>2 DEF Rising
<1>9. CASE j <= l
  <2>1. j + n \in 1 .. Len(q) /\ m = q[j + n]
    BY <1>4, <1>9
  <2>2. v <= sVersion[s][c]
    BY <1>1, <1>5, <2>1 DEF Rising
  <2>3. Whole(c, r, v, D)
    BY <1>1, <1>6, <2>1
  <2>4. v < version[c]
    BY <1>2, <1>8, <2>2
  <2>. QED
    BY <1>2, <1>8, <2>3, <2>4, WholeKept
<1>10. CASE ~(j <= l)
  <2>1. D = data'[r] /\ v = sVersion'[s][c]
    BY <1>4, <1>10
  <2>. QED
    BY <2>1 DEF RowsWhole, Whole, Lacks
<1>. QED
  BY <1>9, <1>10

LEMMA ValuesGrowKept ==
  ASSUME PushTypeOK, PushLogsOwned, DataMoves, ChannelsMove, ValuesGrow
  PROVE  ValuesGrow'
<1>1. SUFFICES ASSUME NEW c \in Clients, NEW r \in Rows, NEW i \in 1 .. Len(toClient'[ServerOf[r]][c]),
                      Touches(toClient'[ServerOf[r]][c][i], r)
               PROVE  /\ ValueOf(toClient'[ServerOf[r]][c][i], r) \subseteq data'[r]
                      /\ \A j \in 1 .. Len(toClient'[ServerOf[r]][c]) :
                           i < j => Keeps(toClient'[ServerOf[r]][c][j], r,
                                          ValueOf(toClient'[ServerOf[r]][c][i], r))
  BY DEF ValuesGrow, Keeps
<1> DEFINE s == ServerOf[r]
           q == toClient[s][c]
           p == toClient'[s][c]
<1>2. s \in Servers
  BY SSPAssumption
<1>3. PICK n \in 0 .. 1, l \in Nat : Shifted(s, c, n, l)
  BY <1>2 DEF ChannelsMove, ChannelMove
<1>4. \A j \in 1 .. Len(p) :
        IF j <= l THEN j + n \in 1 .. Len(q) /\ p[j] = q[j + n]
        ELSE Touches(p[j], r) => ValueOf(p[j], r) = data'[r]
  BY <1>3 DEF Shifted
<1>5. \A k \in 1 .. Len(q) : Touches(q[k], r) =>
        /\ ValueOf(q[k], r) \subseteq data[r]
        /\ \A j \in 1 .. Len(q) : k < j => Keeps(q[j], r, ValueOf(q[k], r))
  BY DEF ValuesGrow
<1>6. data[r] \subseteq data'[r]
  BY DataGrows
<1>7. i \in 1 .. Len(p) /\ Touches(p[i], r)
  BY <1>1
<1> HIDE DEF q, p
<1>8. ValueOf(p[i], r) \subseteq data'[r]
  BY <1>4, <1>5, <1>6, <1>7
<1>9. ASSUME NEW j \in 1 .. Len(p), i < j
      PROVE  Keeps(p[j], r, ValueOf(p[i], r))
  <2>1. CASE j <= l
    <3>1. i <= l
      BY <1>7, <1>9, <2>1
    <3>2. j + n \in 1 .. Len(q) /\ p[j] = q[j + n]
      BY <1>4, <2>1
    <3>3. i + n \in 1 .. Len(q) /\ p[i] = q[i + n]
      BY <1>4, <1>7, <3>1
    <3>4. i + n < j + n
      BY <1>7, <1>9
    <3>. QED
      BY <1>5, <1>7, <3>2, <3>3, <3>4
  <2>2. CASE ~(j <= l)
    <3>1. Touches(p[j], r) => ValueOf(p[j], r) = data'[r]
      BY <1>4, <2>2
    <3>. QED
      BY <1>8, <3>1 DEF Keeps
  <2>. QED
    BY <2>1, <2>2
<1>. QED
  BY <1>8, <1>9 DEF p

-----------------------------------------------------------------------------
(* What a step does to a cached row: the updates made join it, or a value  *)
(* from the channel takes its place, with what that value lacks.           *)
Grows(c, r) == Cached(c, r) /\ storage'[c][r].data = storage[c][r].data \cup New(c, r)

Replaced(c, r, q) ==
  /\ q # << >> /\ toClient'[ServerOf[r]][c] = Tail(q)
  /\ Touches(Head(q), r) /\ UNCHANGED <<data, made>>
  /\ storage'[c][r].data = ValueOf(Head(q), r) \cup Lacks(c, r, Head(q).version)

CacheMove(c, r) == Cached(c, r)' => Grows(c, r) \/ Replaced(c, r, toClient[ServerOf[r]][c])

CacheMoves == \A c \in Clients, r \in Rows : CacheMove(c, r)

LEMMA TakenReplays ==
  ASSUME PushTypeOK, PushTypeOK', VersionsRise, BatchesOrdered, ValuesPlaced, RetainedApart,
         ValuesWhole, NEW c \in Clients, NEW s \in Servers, toClient[s][c] # << >>,
         NEW m, m = Head(toClient[s][c]), NEW r \in Rows, Touches(m, r),
         Acknowledges(c, s), NEW keeps, keeps = ServerAcknowledgeVersion(c, s, m.version),
         ~CannotReplay(c, keeps, m.version), NEW value, value = ValueOf(m, r),
         NEW parts, parts = Replayed(c, keeps, m.version, r, value)
  PROVE  /\ UNION Range(parts) = ValueOf(m, r) \cup Lacks(c, r, m.version)
         /\ AddedTwice(parts) = {} /\ ServerOf[r] = s
<1> DEFINE q == toClient[s][c]
<1>1. q \in Seq(PushToClientMsgs) /\ m \in PushToClientMsgs
  BY PushHeadToClient DEF PushTypeOK, PushTypeNet
<1>2. q[1] = m /\ 1 \in 1 .. Len(q)
  BY <1>1, TailShortens DEF Shortened
<1>3. m \in Range(q)
  BY <1>1, RangeTail
<1>4. ServerOf[r] = s
  BY <1>3 DEF ValuesPlaced
<1>5. m.version \in Versions /\ m.version \in Int
  <2>1. m.version \in Versions
    BY <1>1 DEF PushToClientMsgs, RowReplyMsgs, AckMsgs, PushedMsgs, Versions
  <2>. QED
    BY <2>1 DEF Versions
<1>6. m.version < version[c]
  <2>1. Rising(q, acknowledged[c][s], sVersion[s][c])
    BY DEF VersionsRise
  <2> HIDE DEF q
  <2>2. q[1].version <= sVersion[s][c]
    BY <1>2, <2>1 DEF Rising
  <2>3. sVersion[s][c] \in Int /\ version[c] \in Int /\ sVersion[s][c] < version[c]
    BY <1>4, RowVersions
  <2>. QED
    BY <1>2, <1>5, <2>2, <2>3
<1>7. WholeValue(c, r, q[1])
  BY <1>2, <1>4 DEF ValuesWhole
<1>8. ValueOf(m, r) \cap Lacks(c, r, m.version) = {}
  BY SMTT(20), <1>2, <1>7 DEF WholeValue, Whole
<1>9. /\ keeps.kept \subseteq pushMgr[c].kept
      /\ \A k \in pushMgr[c].kept \ keeps.kept : \A i \in Servers : k.version <= acknowledged'[c][i]
  <2>1. acknowledged' = [acknowledged EXCEPT ![c] = Acks(c, s, m.version)]
    BY DEF Acknowledges
  <2>. QED
    BY <1>5, <2>1, ForgottenAre
<1>10. acknowledged'[c][s] = m.version
  BY DEF PushTypeOK, PushTypeBg, Acknowledges, Acks
<1>11. \A k \in pushMgr[c].kept \ keeps.kept : k.version <= m.version
  BY <1>9, <1>10
<1> HIDE DEF q
<1>. QED
  BY <1>4, <1>5, <1>6, <1>8, <1>9, <1>11, ReplayedIs

LEMMA RowReplyReplays ==
  ASSUME PushTypeOK, PushTypeOK', VersionsRise, BatchesOrdered, ValuesPlaced, RetainedApart,
         ValuesWhole, NEW s \in Servers, NEW c \in Clients, PushBgRowReply(s, c), Running'
  PROVE  twice' = twice /\ CacheMoves
<1> DEFINE m     == Head(toClient[s][c])
           keeps == ServerAcknowledgeVersion(c, s, m.version)
           parts == Replayed(c, keeps, m.version, m.row, m.data)
           all   == UNION Range(parts)
<1>1. /\ toClient[s][c] # << >> /\ m.type = "RowReply" /\ Taken(c, s) /\ Acknowledges(c, s)
      /\ UNCHANGED <<made, data>> /\ ~CannotReplay(c, keeps, m.version)
      /\ storage' = [storage EXCEPT ![c][m.row] = [clock |-> m.clock, data |-> all]]
      /\ twice' = twice \cup AddedTwice(parts)
  BY Zenon DEF PushBgRowReply, Taken, Acknowledges, Running, serverVars
<1>2. m \in RowReplyMsgs
  BY <1>1, PushHeadToClient, PushMsgFields DEF PushTypeOK
<1>3. m.row \in Rows /\ Touches(m, m.row) /\ ValueOf(m, m.row) = m.data
  BY SMTT(20), <1>1, <1>2 DEF RowReplyMsgs, Touches, ValueOf
<1>4. all = m.data \cup Lacks(c, m.row, m.version) /\ AddedTwice(parts) = {} /\ ServerOf[m.row] = s
  <2> DEFINE r == m.row
  <2>1. /\ m = Head(toClient[s][c]) /\ keeps = ServerAcknowledgeVersion(c, s, m.version)
        /\ parts = Replayed(c, keeps, m.version, r, m.data) /\ all = UNION Range(parts)
    OBVIOUS
  <2>2. r \in Rows /\ Touches(m, r) /\ m.data = ValueOf(m, r)
    BY <1>3
  <2>3. toClient[s][c] # << >> /\ Acknowledges(c, s) /\ ~CannotReplay(c, keeps, m.version)
    BY <1>1
  <2> HIDE DEF m, keeps, parts, all, r
  <2>4. /\ UNION Range(parts) = ValueOf(m, r) \cup Lacks(c, r, m.version)
        /\ AddedTwice(parts) = {} /\ ServerOf[r] = s
    BY <2>1, <2>2, <2>3, TakenReplays
  <2>. QED
    BY <2>1, <2>2, <2>4 DEF r
<1>5. toClient'[s][c] = Tail(toClient[s][c])
  BY <1>1 DEF Taken, PushTypeOK, PushTypeNet
<1>6. storage \in [Clients -> [Rows -> CachedRows]]
  BY DEF PushTypeOK, TypeClient
<1> HIDE DEF all, parts, keeps
<1>7. ASSUME NEW d \in Clients, NEW r \in Rows
      PROVE  CacheMove(d, r)
  <2>1. CASE d = c /\ r = m.row
    <3>1. storage'[c][r].data = all
      BY SMTT(20), <1>1, <1>3, <1>6, <2>1
    <3>2. Replaced(c, r, toClient[ServerOf[r]][c])
      BY Zenon, <1>1, <1>3, <1>4, <1>5, <2>1, <3>1 DEF Replaced
    <3>. QED
      BY <2>1, <3>2 DEF CacheMove
  <2>2. CASE ~(d = c /\ r = m.row)
    <3>1. storage'[d][r] = storage[d][r]
      BY <1>1, <1>6, <2>2
    <3>2. New(d, r) = {}
      BY <1>1 DEF New, Own
    <3>. QED
      BY <3>1, <3>2 DEF CacheMove, Grows, Cached
  <2>. QED
    BY SMTT(20), <2>1, <2>2
<1>. QED
  BY SMTT(20), <1>1, <1>4, <1>7 DEF CacheMoves

LEMMA RowsReplays ==
  ASSUME PushTypeOK, PushTypeOK', VersionsRise, BatchesOrdered, ValuesPlaced, RetainedApart,
         ValuesWhole, NEW s \in Servers, NEW c \in Clients, PushBgRows(s, c), Running'
  PROVE  twice' = twice /\ CacheMoves
<1> DEFINE m        == Head(toClient[s][c])
           keeps    == ServerAcknowledgeVersion(c, s, m.version)
           rows     == { r \in DOMAIN m.data : Cached(c, r) }
           parts(r) == Replayed(c, keeps, m.version, r, m.data[r])
           all(r)   == UNION Range(parts(r))
<1>1. /\ toClient[s][c] # << >> /\ m.type = "PushRow" /\ Taken(c, s) /\ Acknowledges(c, s)
      /\ UNCHANGED <<made, data>>
      /\ rows # {} => ~CannotReplay(c, keeps, m.version)
      /\ storage' = [storage EXCEPT ![c] = [r \in Rows |->
           IF r \in rows THEN [@[r] EXCEPT !.data = all(r)] ELSE @[r]]]
      /\ twice' = twice \cup UNION { AddedTwice(parts(r)) : r \in rows }
  BY DEF PushBgRows, Taken, Acknowledges, Running, serverVars
<1>2. \A r \in Rows : Touches(m, r) /\ Cached(c, r) <=> r \in rows
  BY <1>1 DEF Touches
<1>3. \A r \in rows : ValueOf(m, r) = m.data[r] /\ r \in Rows
  <2>1. m \in PushedMsgs
    BY <1>1, PushHeadToClient, PushMsgFields DEF PushTypeOK
  <2>2. DOMAIN m.data \subseteq Rows
    BY <2>1 DEF PushedMsgs, RowValues
  <2>. QED
    BY <1>1, <2>2 DEF ValueOf
<1>4. ASSUME NEW r \in rows
      PROVE  /\ all(r) = ValueOf(m, r) \cup Lacks(c, r, m.version)
             /\ AddedTwice(parts(r)) = {} /\ ServerOf[r] = s
  <2>1. Touches(m, r) /\ r \in Rows /\ ValueOf(m, r) = m.data[r]
    BY <1>2, <1>3
  <2>2. ~CannotReplay(c, keeps, m.version)
    BY <1>1
  <2>3. /\ m = Head(toClient[s][c]) /\ keeps = ServerAcknowledgeVersion(c, s, m.version)
        /\ parts(r) = Replayed(c, keeps, m.version, r, m.data[r])
        /\ all(r) = UNION Range(parts(r))
    OBVIOUS
  <2>4. toClient[s][c] # << >> /\ Acknowledges(c, s)
    BY <1>1
  <2> HIDE DEF m, keeps, rows, parts, all
  <2>5. /\ UNION Range(parts(r)) = ValueOf(m, r) \cup Lacks(c, r, m.version)
        /\ AddedTwice(parts(r)) = {} /\ ServerOf[r] = s
    BY <2>1, <2>2, <2>3, <2>4, TakenReplays
  <2>. QED
    BY <2>3, <2>5
<1>5. toClient'[s][c] = Tail(toClient[s][c])
  BY <1>1 DEF Taken, PushTypeOK, PushTypeNet
<1>6. storage \in [Clients -> [Rows -> CachedRows]]
  BY DEF PushTypeOK, TypeClient
<1> HIDE DEF rows, all, parts, keeps
<1>7. ASSUME NEW d \in Clients, NEW r \in Rows
      PROVE  storage'[d][r] = IF d = c /\ r \in rows THEN [storage[c][r] EXCEPT !.data = all(r)]
                              ELSE storage[d][r]
  BY <1>1, <1>6
<1>8. ASSUME NEW d \in Clients, NEW r \in Rows
      PROVE  CacheMove(d, r)
  <2>1. CASE d = c /\ r \in rows
    <3>1. storage'[c][r].data = all(r)
      <4>1. storage'[c][r] = [storage[c][r] EXCEPT !.data = all(r)]
        BY <1>7, <2>1
      <4>2. storage[c][r] \in CachedRows
        BY <1>6
      <4>. QED
        BY <4>1, <4>2 DEF CachedRows
    <3>2. Touches(m, r)
      BY <1>2, <2>1
    <3>3. Replaced(c, r, toClient[ServerOf[r]][c])
      BY <1>1, <1>4, <1>5, <2>1, <3>1, <3>2 DEF Replaced
    <3>. QED
      BY <2>1, <3>3 DEF CacheMove
  <2>2. CASE ~(d = c /\ r \in rows)
    <3>1. storage'[d][r] = storage[d][r]
      BY <1>7, <2>2
    <3>2. New(d, r) = {}
      BY <1>1 DEF New, Own
    <3>. QED
      BY <3>1, <3>2 DEF CacheMove, Grows, Cached
  <2>. QED
    BY <2>1, <2>2
<1>9. UNION { AddedTwice(parts(r)) : r \in rows } = {}
  BY <1>4
<1>. QED
  BY <1>1, <1>8, <1>9 DEF CacheMoves

-----------------------------------------------------------------------------
LEMMA StillMoves ==
  ASSUME UNCHANGED <<storage, made>>
  PROVE  CacheMoves
BY DEF CacheMoves, CacheMove, Grows, New, Own, Cached

LEMMA IncMoves ==
  ASSUME PushTypeOK, MadeNumbered, MadeFinite, NEW t \in Threads, NEW r \in Rows, Inc(t, r)
  PROVE  CacheMoves
<1> DEFINE c == ClientOf[t]
<1>1. PICK u : IncMakes(c, r, u)
  BY IncIs
<1>2. c \in Clients /\ storage \in [Clients -> [Rows -> CachedRows]]
  BY SSPAssumption DEF PushTypeOK, TypeClient
<1> HIDE DEF c
<1>3. ASSUME NEW d \in Clients, NEW x \in Rows
      PROVE  CacheMove(d, x)
  <2>1. New(d, x) = IF d = c /\ x = r THEN {u} ELSE {}
    BY <1>1 DEF IncMakes
  <2>2. CASE Cached(c, r) /\ d = c /\ x = r
    <3>1. storage' = [storage EXCEPT ![c][r].data = @ \cup {u}]
      BY <1>1, <2>2 DEF IncMakes
    <3>2. storage'[c][r].data = storage[c][r].data \cup {u}
      BY <1>2, <3>1 DEF CachedRows
    <3>. QED
      BY <2>1, <2>2, <3>2 DEF CacheMove, Grows
  <2>3. CASE ~Cached(c, r)
    <3>1. storage' = storage
      BY <1>1, <2>3 DEF IncMakes
    <3>2. CASE d = c /\ x = r
      BY <2>3, <3>1, <3>2 DEF CacheMove, Cached
    <3>3. CASE ~(d = c /\ x = r)
      BY <2>1, <3>1, <3>3 DEF CacheMove, Grows, Cached
    <3>. QED
      BY <3>2, <3>3
  <2>4. CASE Cached(c, r) /\ ~(d = c /\ x = r)
    <3>1. storage' = [storage EXCEPT ![c][r].data = @ \cup {u}]
      BY <1>1, <2>4 DEF IncMakes
    <3>2. storage'[d][x] = storage[d][x]
      BY <1>2, <2>4, <3>1
    <3>. QED
      BY <2>1, <2>4, <3>2 DEF CacheMove, Grows, Cached
  <2>. QED
    BY <2>2, <2>3, <2>4
<1>. QED
  BY <1>3 DEF CacheMoves

LEMMA CacheEvicts ==
  ASSUME PushTypeOK, NEW c \in Clients, NEW r \in Rows, PushEvict(c, r)
  PROVE  CacheMoves
<1>1. UNCHANGED made /\ storage' = [storage EXCEPT ![c][r] = NoRow]
  BY DEF PushEvict, Evict, histVars
<1>2. storage \in [Clients -> [Rows -> CachedRows]]
  BY DEF PushTypeOK, TypeClient
<1>3. ASSUME NEW d \in Clients, NEW x \in Rows
      PROVE  CacheMove(d, x)
  <2>1. New(d, x) = {}
    BY <1>1 DEF New, Own
  <2>2. CASE d = c /\ x = r
    BY <1>1, <1>2, <2>2 DEF CacheMove, Cached
  <2>3. CASE ~(d = c /\ x = r)
    <3>1. storage'[d][x] = storage[d][x]
      BY <1>1, <1>2, <2>3
    <3>. QED
      BY <2>1, <3>1 DEF CacheMove, Grows, Cached
  <2>. QED
    BY <2>2, <2>3
<1>. QED
  BY <1>3 DEF CacheMoves

(* Only a server's batch and the replay of a worker's add anything.        *)
AddsNothing == UNCHANGED <<storage, made, twice>>

LEMMA ThreadMoves ==
  ASSUME PushTypeOK, MadeNumbered, MadeFinite, ThreadStep
  PROVE  twice' = twice /\ CacheMoves
<1>1. ASSUME NEW t \in Threads, NEW r \in Rows, PushInc(t, r)
      PROVE  twice' = twice /\ CacheMoves
  BY <1>1, IncMoves DEF PushInc, Inc
<1>2. ASSUME NEW t \in Threads, NEW r \in Rows, PushGet(t, r) \/ PushGetBlock(t, r)
      PROVE  AddsNothing
  BY <1>2 DEF PushGet, PushGetBlock, UnchangedByGet, AddsNothing, clientVars
<1>3. ASSUME NEW t \in Threads,
             \/ PushGetUnblock(t) \/ PushGetResume(t) \/ PushClockFlush(t) \/ PushClockTick(t)
      PROVE  AddsNothing
  BY <1>3 DEF PushGetUnblock, PushGetResume, PushClockFlush, PushClockTick, ClockFlush, ClockTick,
              UnchangedByGet, AddsNothing, clientVars, histVars
<1>4. ASSUME NEW c \in Clients, NEW r \in Rows, PushEvict(c, r)
      PROVE  twice' = twice /\ CacheMoves
  BY <1>4, CacheEvicts DEF PushEvict, Evict, histVars
<1>5. AddsNothing => twice' = twice /\ CacheMoves
  BY StillMoves DEF AddsNothing
<1>. QED
  BY <1>1, <1>2, <1>3, <1>4, <1>5 DEF ThreadStep

LEMMA WorkerMoves ==
  ASSUME NEW t \in Threads, PushBgBatch(t) \/ PushBgRowRequest(t)
  PROVE  AddsNothing
BY Zenon DEF PushBgBatch, BgClock, BgSendOpLog, HandleClockMsg, PushBgRowRequest, AddsNothing,
       clientVars, histVars

LEMMA OpLogAckMoves ==
  ASSUME NEW s \in Servers, NEW c \in Clients, PushBgOpLogAck(s, c)
  PROVE  AddsNothing
BY DEF PushBgOpLogAck, BgOpLogAck, HandleClockMsg, AddsNothing, clientVars, histVars

LEMMA FromServerMoves ==
  ASSUME PushTypeOK, BatchesOrdered, VersionsRise, AllRetained, PushLogsOwned, RetainedApart,
         SentIsRetained, RowsWhole, NEW c \in Clients, NEW s \in Servers, FromServer(c, s), Running'
  PROVE  twice' = twice /\ CacheMoves
<1>1. UNCHANGED <<clientVars, made>>
  BY FromServerIs
<1>2. CacheMoves
  BY <1>1, StillMoves DEF clientVars
<1>3. CASE PushServerRowRequest(c, s) \/ ServerPushAck(c, s)
  BY <1>2, <1>3 DEF PushServerRowRequest, ServerRowRequest, ServerPushAck, histVars
<1>4. CASE PushServerOpLog(c, s)
  <2>1. NextTaken(c, s)
    <3>1. failed' # "bg_version"
      BY DEF Running
    <3>. QED
      BY <1>4, <3>1, PushServerOpLogIs DEF NextTaken, BatchTaken, clientVars, bgVars, pushClientVars
  <2>2. twice' = twice \cup UNION { data[r] \cap Head(toServer[c][s]).log[r] : r \in Rows }
    BY <2>1 DEF NextTaken
  <2>3. \A r \in Rows : data[r] \cap Head(toServer[c][s]).log[r] = {}
    BY <2>1, NextTakenApart
  <2>4. UNION { data[r] \cap Head(toServer[c][s]).log[r] : r \in Rows } = {}
    BY <2>3
  <2>. QED
    BY <1>2, <2>2, <2>4
<1>. QED
  BY <1>3, <1>4 DEF FromServer

LEMMA StepMoves ==
  ASSUME PushTypeOK, PushTypeOK', PushStep, Running', MadeNumbered, MadeFinite, BatchesOrdered,
         VersionsRise, AllRetained, PushLogsOwned, RetainedApart, SentIsRetained, RowsWhole,
         ValuesPlaced, ValuesWhole
  PROVE  twice' = twice /\ CacheMoves
<1>1. AddsNothing => twice' = twice /\ CacheMoves
  BY StillMoves DEF AddsNothing
<1>. QED
  BY <1>1, StepCases, ThreadMoves, WorkerMoves, OpLogAckMoves, RowReplyReplays, RowsReplays,
     FromServerMoves

-----------------------------------------------------------------------------
(* What client c may have seen of row r: every value that is still to come *)
(* holds it, but for what the client made itself.                          *)
Lasts(c, r, S) ==
  /\ S \subseteq data[r] \cup Own(c, r)
  /\ \A i \in 1 .. Len(toClient[ServerOf[r]][c]) :
       LET m == toClient[ServerOf[r]][c][i]
       IN  Touches(m, r) => S \subseteq ValueOf(m, r) \cup Own(c, r)

CacheLasts ==
  \A c \in Clients, r \in Rows : Cached(c, r) => Lasts(c, r, storage[c][r].data)

SeenStays ==
  \A t \in Threads, r \in Rows :
    /\ Lasts(ClientOf[t], r, got[t][r].seen)
    /\ Cached(ClientOf[t], r) => got[t][r].seen \subseteq storage[ClientOf[t]][r].data

LEMMA LastsKept ==
  ASSUME PushTypeOK, LogsMove, PushLogsOwned, DataMoves, ChannelsMove, NEW c \in Clients,
         NEW r \in Rows, NEW S, Lasts(c, r, S), NEW T, S \subseteq T, T \subseteq S \cup Own(c, r)'
  PROVE  Lasts(c, r, T)'
<1> DEFINE s == ServerOf[r]
           q == toClient[s][c]
           p == toClient'[s][c]
<1>1. s \in Servers
  BY SSPAssumption
<1>2. PICK n \in 0 .. 1, l \in Nat : Shifted(s, c, n, l)
  BY <1>1 DEF ChannelsMove, ChannelMove
<1>3. \A j \in 1 .. Len(p) :
        IF j <= l THEN j + n \in 1 .. Len(q) /\ p[j] = q[j + n]
        ELSE Touches(p[j], r) => ValueOf(p[j], r) = data'[r]
  BY <1>2 DEF Shifted
<1>4. /\ S \subseteq data[r] \cup Own(c, r)
      /\ \A i \in 1 .. Len(q) : Touches(q[i], r) => S \subseteq ValueOf(q[i], r) \cup Own(c, r)
  BY DEF Lasts
<1>5. data[r] \subseteq data'[r] /\ Own(c, r) \subseteq Own(c, r)'
  BY DataGrows, MovedOwn
<1>6. T \subseteq data'[r] \cup Own(c, r)'
  BY <1>4, <1>5
<1> HIDE DEF q, p
<1>7. ASSUME NEW j \in 1 .. Len(p), Touches(p[j], r)
      PROVE  T \subseteq ValueOf(p[j], r) \cup Own(c, r)'
  <2>1. CASE j <= l
    <3>1. S \subseteq ValueOf(p[j], r) \cup Own(c, r)
      BY <1>3, <1>4, <1>7, <2>1
    <3>. QED
      BY <1>5, <3>1
  <2>2. CASE ~(j <= l)
    BY <1>3, <1>6, <1>7, <2>2
  <2>. QED
    BY <2>1, <2>2
<1>. QED
  BY <1>6, <1>7 DEF Lasts, p

(* A value that replaces a cached row.                                     *)
LEMMA ReplacedIs ==
  ASSUME PushTypeOK, ValuesWhole, ValuesGrow, NEW c \in Clients, NEW r \in Rows,
         NEW q, q = toClient[ServerOf[r]][c], Replaced(c, r, q)
  PROVE  /\ WholeValue(c, r, Head(q)) /\ ValueOf(Head(q), r) \subseteq data[r]
         /\ Len(q) \in Nat \ {0} /\ q[1] = Head(q)
         /\ Len(Tail(q)) = Len(q) - 1
         /\ \A j \in 1 .. Len(Tail(q)) :
              Tail(q)[j] = q[j + 1] /\ Keeps(Tail(q)[j], r, ValueOf(Head(q), r))
<1>1. q # << >> /\ Touches(Head(q), r)
  BY DEF Replaced
<1>2. ServerOf[r] \in Servers /\ q \in Seq(PushToClientMsgs)
  BY SSPAssumption DEF PushTypeOK, PushTypeNet
<1>3. Shortened(Tail(q), q) /\ q[1] = Head(q) /\ Tail(q) \in Seq(PushToClientMsgs)
  BY <1>1, <1>2, TailShortens
<1>4. Len(q) \in Nat \ {0} /\ Len(Tail(q)) = Len(q) - 1 /\ 1 \in 1 .. Len(q)
  BY <1>2, <1>3 DEF Shortened
<1>5. WholeValue(c, r, q[1])
  BY <1>4 DEF ValuesWhole
<1>6. /\ ValueOf(q[1], r) \subseteq data[r]
      /\ \A j \in 1 .. Len(q) : 1 < j => Keeps(q[j], r, ValueOf(q[1], r))
  BY <1>1, <1>3, <1>4 DEF ValuesGrow
<1>7. \A j \in 1 .. Len(Tail(q)) : Tail(q)[j] = q[j + 1] /\ j + 1 \in 1 .. Len(q) /\ 1 < j + 1
  BY <1>3, <1>4 DEF Shortened
<1>. QED
  BY <1>3, <1>4, <1>5, <1>6, <1>7

LEMMA CacheLastsKept ==
  ASSUME PushTypeOK, LogsMove, PushLogsOwned, RetainedApart, DataMoves, ChannelsMove, CacheMoves,
         ValuesWhole, ValuesGrow, CacheLasts
  PROVE  CacheLasts'
<1>1. SUFFICES ASSUME NEW c \in Clients, NEW r \in Rows, Cached(c, r)',
                      NEW T, T = storage'[c][r].data
               PROVE  Lasts(c, r, T)'
  BY DEF CacheLasts, Lasts
<1>2. CASE Grows(c, r)
  <2>1. T = storage[c][r].data \cup New(c, r) /\ Cached(c, r)
    BY <1>1, <1>2 DEF Grows
  <2>2. Lasts(c, r, storage[c][r].data)
    BY <2>1 DEF CacheLasts
  <2>3. New(c, r) \subseteq Own(c, r)'
    BY DEF New
  <2> DEFINE S == storage[c][r].data
  <2>4. Lasts(c, r, S) /\ S \subseteq T /\ T \subseteq S \cup Own(c, r)'
    BY <2>1, <2>2, <2>3
  <2> HIDE DEF S
  <2>. QED
    BY <2>4, LastsKept
<1>3. ASSUME NEW q, q = toClient[ServerOf[r]][c], Replaced(c, r, q)
      PROVE  Lasts(c, r, T)'
  <2> DEFINE V == ValueOf(Head(q), r)
             p == Tail(q)
  <2>1. /\ toClient'[ServerOf[r]][c] = p /\ UNCHANGED <<data, made>>
        /\ T = V \cup Lacks(c, r, Head(q).version)
    BY <1>1, <1>3 DEF Replaced
  <2>2. /\ V \subseteq data[r]
        /\ \A j \in 1 .. Len(p) : Keeps(p[j], r, V)
    BY <1>3, ReplacedIs
  <2>3. Lacks(c, r, Head(q).version) \subseteq Own(c, r)
    BY LacksOwn
  <2> HIDE DEF V, p
  <2>4. Own(c, r)' = Own(c, r) /\ data'[r] = data[r]
    BY <2>1 DEF Own
  <2>5. T \subseteq data'[r] \cup Own(c, r)'
    BY <2>1, <2>2, <2>3, <2>4
  <2>6. \A j \in 1 .. Len(p) : Touches(p[j], r) => T \subseteq ValueOf(p[j], r) \cup Own(c, r)'
    BY <2>1, <2>2, <2>3, <2>4 DEF Keeps
  <2>. QED
    BY <2>1, <2>5, <2>6 DEF Lasts
<1>4. Grows(c, r) \/ Replaced(c, r, toClient[ServerOf[r]][c])
  BY <1>1 DEF CacheMoves, CacheMove
<1>. QED
  BY <1>2, <1>3, <1>4

(* What a step does to what a thread has seen.                             *)
SeenMove(t, r) ==
  \/ got'[t][r] = got[t][r]
  \/ /\ Cached(ClientOf[t], r) /\ got'[t][r].seen = storage[ClientOf[t]][r].data
     /\ UNCHANGED storage

SeenMoves == \A t \in Threads, r \in Rows : SeenMove(t, r)

LEMMA SeenStaysKept ==
  ASSUME PushTypeOK, LogsMove, PushLogsOwned, DataMoves, ChannelsMove, CacheMoves, SeenMoves,
         ValuesWhole, ValuesGrow, CacheLasts', SeenStays
  PROVE  SeenStays'
<1>1. SUFFICES ASSUME NEW t \in Threads, NEW r \in Rows, NEW c, c = ClientOf[t],
                      NEW T, T = got'[t][r].seen
               PROVE  Lasts(c, r, T)' /\ (Cached(c, r)' => T \subseteq storage'[c][r].data)
  BY DEF SeenStays, Lasts
<1>2. c \in Clients
  BY <1>1, SSPAssumption
<1>3. CASE got'[t][r] = got[t][r]
  <2>1. Lasts(c, r, T) /\ (Cached(c, r) => T \subseteq storage[c][r].data)
    BY <1>1, <1>3 DEF SeenStays
  <2>2. Lasts(c, r, T)'
    BY <1>2, <2>1, LastsKept
  <2>3. CASE Grows(c, r)
    BY <2>1, <2>2, <2>3 DEF Grows
  <2>4. ASSUME NEW q, q = toClient[ServerOf[r]][c], Replaced(c, r, q)
        PROVE  T \subseteq storage'[c][r].data
    <3> DEFINE V == ValueOf(Head(q), r)
               L == Lacks(c, r, Head(q).version)
    <3>1. /\ WholeValue(c, r, Head(q)) /\ 1 \in 1 .. Len(q) /\ q[1] = Head(q)
      BY <1>2, <2>4, ReplacedIs
    <3>2. Touches(Head(q), r) /\ storage'[c][r].data = V \cup L
      BY <2>4 DEF Replaced
    <3>3. Own(c, r) \subseteq V \cup L
      BY <3>1, <3>2 DEF WholeValue, Whole
    <3>4. T \subseteq V \cup Own(c, r)
      BY <2>1, <2>4, <3>1, <3>2 DEF Lasts
    <3> HIDE DEF V, L
    <3>. QED
      BY <3>2, <3>3, <3>4
  <2>5. Cached(c, r)' => Grows(c, r) \/ Replaced(c, r, toClient[ServerOf[r]][c])
    BY <1>2 DEF CacheMoves, CacheMove
  <2>. QED
    BY <2>2, <2>3, <2>4, <2>5
<1>4. CASE Cached(c, r) /\ got'[t][r].seen = storage[c][r].data /\ UNCHANGED storage
  <2>1. Cached(c, r)' /\ T = storage'[c][r].data
    BY <1>1, <1>4 DEF Cached
  <2>2. Lasts(c, r, T)'
    BY <1>2, <2>1 DEF CacheLasts, Lasts
  <2>. QED
    BY <2>1, <2>2
<1>. QED
  BY <1>1, <1>3, <1>4 DEF SeenMoves, SeenMove

-----------------------------------------------------------------------------
(* A thread inside Get() wants the stalest clock that its own clock allows *)
(* it to read, which nothing changes before it returns.                    *)
InGet(t) == pc[t] \in {"blocked", "waiting", "woken"}

PushWantStalest == \A t \in Threads : InGet(t) => want[t].clock = StalestClock(t)

WantMoves(t) ==
  InGet(t)' => /\ clock'[t] = clock[t]
               /\ \/ InGet(t) /\ want'[t].clock = want[t].clock
                  \/ want'[t].clock = StalestClock(t)

(* A Get() returns a cached row when all servers have reached the clock.   *)
Returns(t, r) ==
  /\ Cached(ClientOf[t], r) /\ got' = [got EXCEPT ![t][r] = Seen(t, r)]
  /\ UNCHANGED <<made, clock, storage>>
  /\ \A s \in Servers : StalestClock(t) <= serverClock[ClientOf[t]][s]

MayReturn == UNCHANGED got \/ \E t \in Threads, r \in Rows : Returns(t, r)

GetMoves == (\A t \in Threads : WantMoves(t)) /\ MayReturn

LEMMA WantStaysStalest ==
  ASSUME PushWantStalest, GetMoves
  PROVE  PushWantStalest'
<1>1. SUFFICES ASSUME NEW t \in Threads, InGet(t)'
               PROVE  want'[t].clock = StalestClock(t)'
  BY DEF PushWantStalest
<1>2. WantMoves(t) /\ (InGet(t) => want[t].clock = StalestClock(t))
  BY DEF GetMoves, PushWantStalest
<1>3. clock'[t] = clock[t] => StalestClock(t)' = StalestClock(t)
  BY DEF StalestClock
<1>. QED
  BY <1>1, <1>2, <1>3 DEF WantMoves

LEMMA GetStays ==
  ASSUME UNCHANGED <<pc, want, clock, got>>
  PROVE  GetMoves
BY DEF GetMoves, WantMoves, InGet, MayReturn

LEMMA FindReturns ==
  ASSUME PushTypeOK, NEW t \in Threads, NEW r \in Rows, NEW k, NEW n, FindOrRequest(t, r, k, n),
         k = StalestClock(t), UNCHANGED <<made, clock, storage>>,
         \A s \in Servers : k <= serverClock[ClientOf[t]][s]
  PROVE  GetMoves
<1>1. FoundOrAsked(t, r, k) /\ \A u \in Threads : u # t => Unmoved(u)
  BY FindOrRequestAsks
<1>2. \A u \in Threads : WantMoves(u)
  <2>1. TAKE u \in Threads
  <2>2. CASE u = t
    BY <1>1, <2>2 DEF FoundOrAsked, WantMoves, InGet
  <2>3. CASE u # t
    BY <1>1, <2>3 DEF Unmoved, WantMoves, InGet
  <2>. QED
    BY <2>2, <2>3
<1>3. MayReturn
  <2>1. UNCHANGED got \/ (Cached(ClientOf[t], r) /\ got' = [got EXCEPT ![t][r] = Seen(t, r)])
    BY DEF FindOrRequest
  <2>. QED
    BY <2>1 DEF MayReturn, Returns
<1>. QED
  BY <1>2, <1>3 DEF GetMoves

LEMMA GetReturns ==
  ASSUME PushTypeOK, KnownClocks, RequestsReached, PushWantStalest, NEW t \in Threads,
         \/ \E r \in Rows : PushGet(t, r) \/ PushGetBlock(t, r)
         \/ PushGetUnblock(t) \/ PushGetResume(t)
  PROVE  GetMoves
<1> DEFINE c == ClientOf[t]
           k == StalestClock(t)
<1>1. /\ c \in Clients /\ k \in Int /\ want[t].row \in Rows
      /\ cached[t] \in Int /\ systemClock[c] \in Int
  BY PushStalestClockType, SSPAssumption DEF Clocks, PushTypeOK, PushTypeApp, PushTypeBg
<1>2. \A s \in Servers : serverClock[c][s] \in Int
  BY <1>1, ClockTypes
<1>3. UNCHANGED <<made, clock, storage>>
  BY DEF PushGet, PushGetBlock, PushGetUnblock, PushGetResume, UnchangedByGet, clientVars
<1>4. InGet(t) => want[t].clock = k
  BY DEF PushWantStalest
<1>5. \A s \in Servers : cached[t] <= serverClock[c][s] /\ systemClock[c] <= serverClock[c][s]
  BY <1>1 DEF KnownClocks
<1> HIDE DEF c, k
<1>6. cached[t] >= k \/ systemClock[c] >= k => \A s \in Servers : k <= serverClock[c][s]
  BY <1>1, <1>2, <1>5
<1>7. ASSUME NEW r \in Rows, PushGet(t, r)
      PROVE  GetMoves
  <2>1. FindOrRequest(t, r, k, 0) /\ (cached[t] >= k \/ systemClock[c] >= k)
    BY <1>7 DEF PushGet, SystemClock, c, k
  <2>. QED
    BY <1>3, <1>6, <2>1, FindReturns DEF c, k
<1>8. ASSUME NEW r \in Rows, PushGetBlock(t, r)
      PROVE  GetMoves
  <2> DEFINE w == [row |-> r, clock |-> k, fetches |-> 0, since |-> 0]
  <2>1. /\ pc' = [pc EXCEPT ![t] = "blocked"] /\ want' = [want EXCEPT ![t] = w]
        /\ UNCHANGED <<got, clock>>
    BY <1>3, <1>8 DEF PushGetBlock, k
  <2>2. w.clock = k
    OBVIOUS
  <2> HIDE DEF w
  <2>3. /\ want'[t] = w
        /\ \A u \in Threads : u # t => pc'[u] = pc[u] /\ want'[u] = want[u]
    BY <2>1 DEF PushTypeOK, PushTypeApp
  <2>4. \A u \in Threads : WantMoves(u)
    BY <2>1, <2>2, <2>3 DEF WantMoves, InGet, k
  <2>. QED
    BY <2>1, <2>4 DEF GetMoves, MayReturn
<1>9. CASE PushGetUnblock(t)
  <2>1. /\ pc[t] = "blocked" /\ FindOrRequest(t, want[t].row, want[t].clock, 0)
        /\ systemClock[c] >= want[t].clock
    BY <1>9 DEF PushGetUnblock, SystemClock, c
  <2>2. want[t].clock = k
    BY <1>4, <2>1 DEF InGet
  <2>. QED
    BY <1>1, <1>3, <1>6, <2>1, <2>2, FindReturns DEF c, k
<1>10. CASE PushGetResume(t)
  <2>1. /\ pc[t] = "woken"
        /\ \/ UNCHANGED <<pc, want, got>>
           \/ FindOrRequest(t, want[t].row, want[t].clock, want[t].fetches + 1)
    BY <1>10 DEF PushGetResume
  <2>2. want[t].clock = k /\ \A s \in Servers : want[t].clock <= serverClock[c][s]
    BY <1>4, <2>1 DEF InGet, RequestsReached, c
  <2>3. CASE UNCHANGED <<pc, want, got>>
    BY <1>3, <2>3, GetStays
  <2>4. CASE FindOrRequest(t, want[t].row, want[t].clock, want[t].fetches + 1)
    BY <1>1, <1>3, <2>2, <2>4, FindReturns DEF c, k
  <2>. QED
    BY <2>1, <2>3, <2>4
<1>. QED
  BY <1>7, <1>8, <1>9, <1>10

LEMMA ThreadReturns ==
  ASSUME PushTypeOK, KnownClocks, RequestsReached, PushWantStalest, ThreadStep
  PROVE  GetMoves
<1>1. ASSUME NEW t \in Threads, NEW r \in Rows, PushInc(t, r)
      PROVE  UNCHANGED <<pc, want, clock, got>>
  BY <1>1 DEF PushInc, Inc
<1>2. ASSUME NEW c \in Clients, NEW r \in Rows, PushEvict(c, r)
      PROVE  UNCHANGED <<pc, want, clock, got>>
  BY <1>2 DEF PushEvict, Evict, appVars
<1>3. ASSUME NEW t \in Threads, PushClockFlush(t) \/ PushClockTick(t)
      PROVE  GetMoves
  <2>1. /\ UNCHANGED <<want, got>>
        /\ \/ pc' = [pc EXCEPT ![t] = "flushed"] /\ clock' = [clock EXCEPT ![t] = @ + 1]
           \/ pc' = [pc EXCEPT ![t] = "run"] /\ UNCHANGED clock
    BY <1>3 DEF PushClockFlush, ClockFlush, PushClockTick, ClockTick
  <2>2. ~InGet(t)' /\ \A u \in Threads : u # t => pc'[u] = pc[u] /\ clock'[u] = clock[u]
    BY <2>1 DEF PushTypeOK, PushTypeApp, InGet
  <2>3. \A u \in Threads : WantMoves(u)
    BY <2>1, <2>2 DEF WantMoves, InGet
  <2>. QED
    BY <2>1, <2>3 DEF GetMoves, MayReturn
<1>. QED
  BY <1>1, <1>2, <1>3, GetStays, GetReturns DEF ThreadStep

LEMMA StepReturns ==
  ASSUME PushTypeOK, PushRequestsInv, KnownClocks, RequestsReached, PushWantStalest, PushStep,
         Running'
  PROVE  GetMoves
<1>1. ASSUME NEW t \in Threads, PushBgBatch(t)
      PROVE  UNCHANGED <<pc, want, clock, got>>
  BY <1>1 DEF PushBgBatch, BgClock, BgSendOpLog, appVars
<1>2. ASSUME NEW t \in Threads, PushBgRowRequest(t)
      PROVE  GetMoves
  <2>1. /\ toBg[t] # << >> /\ Head(toBg[t]).type = "RowRequest"
        /\ toBg' = [toBg EXCEPT ![t] = Tail(@)]
        /\ UNCHANGED pc \/ pc' = [pc EXCEPT ![t] = "woken"]
        /\ UNCHANGED <<want, clock, got>>
    BY <1>2 DEF PushBgRowRequest
  <2>2. pc[t] = "waiting"
    BY <2>1, PushRequestTaken
  <2>3. \A u \in Threads : pc'[u] = pc[u] \/ u = t
    BY <2>1 DEF PushTypeOK, PushTypeApp
  <2>4. \A u \in Threads : WantMoves(u)
    <3>1. ASSUME NEW u \in Threads, InGet(u)'
          PROVE  InGet(u)
      BY <2>2, <2>3, <3>1 DEF InGet
    <3>. QED
      BY <2>1, <3>1 DEF WantMoves
  <2>. QED
    BY <2>1, <2>4 DEF GetMoves, MayReturn
<1>3. ASSUME NEW c \in Clients, NEW s \in Servers,
             PushBgOpLogAck(s, c) \/ PushBgRows(s, c) \/ FromServer(c, s)
      PROVE  UNCHANGED <<pc, want, clock, got>>
  <2>1. FromServer(c, s) => UNCHANGED <<pc, want, clock, got>>
    BY FromServerIs DEF appVars
  <2>. QED
    BY <1>3, <2>1 DEF PushBgOpLogAck, BgOpLogAck, PushBgRows, appVars
<1>4. ASSUME NEW c \in Clients, NEW s \in Servers, PushBgRowReply(s, c)
      PROVE  GetMoves
  <2>1. \A t \in Threads : \/ Unmoved(t)
                           \/ pc[t] = "waiting" /\ pc'[t] = "woken" /\ want'[t] = want[t]
    BY SMTT(20), <1>4, PushBgRowReplyRequests
  <2>2. UNCHANGED <<clock, got>>
    BY Zenon, <1>4 DEF PushBgRowReply
  <2>3. \A t \in Threads : WantMoves(t)
    BY <2>1, <2>2 DEF WantMoves, InGet, Unmoved
  <2>. QED
    BY <2>2, <2>3 DEF GetMoves, MayReturn
<1>. QED
  BY <1>1, <1>2, <1>3, <1>4, ThreadReturns, GetStays, StepCases

(* A CHECK that fails does so before anything was changed.                 *)
LEMMA FailsFirst ==
  ASSUME PushStep, ~Running'
  PROVE  UNCHANGED <<storage, made, twice, clock, got>>
<1>1. UNCHANGED failed => Running'
  BY StepRuns DEF Running
<1>2. ~(UNCHANGED failed)
  BY <1>1
<1>3. ASSUME ThreadStep
      PROVE  \E t \in Threads : PushGetResume(t)
  <2>1. ASSUME NEW t \in Threads, NEW r \in Rows,
               PushInc(t, r) \/ PushGet(t, r) \/ PushGetBlock(t, r)
        PROVE  UNCHANGED failed
    <3>1. PushInc(t, r) => UNCHANGED failed
      BY DEF PushInc, Inc
    <3>2. PushGet(t, r) => UNCHANGED failed
      BY DEF PushGet
    <3>3. PushGetBlock(t, r) => UNCHANGED failed
      BY DEF PushGetBlock
    <3>. QED
      BY <2>1, <3>1, <3>2, <3>3
  <2>2. ASSUME NEW t \in Threads, PushGetUnblock(t) \/ PushClockFlush(t) \/ PushClockTick(t)
        PROVE  UNCHANGED failed
    <3>1. PushGetUnblock(t) => UNCHANGED failed
      BY DEF PushGetUnblock
    <3>2. PushClockFlush(t) \/ PushClockTick(t) => UNCHANGED failed
      BY DEF PushClockFlush, ClockFlush, PushClockTick, ClockTick, histVars
    <3>. QED
      BY <2>2, <3>1, <3>2
  <2>3. ASSUME NEW c \in Clients, NEW r \in Rows, PushEvict(c, r)
        PROVE  UNCHANGED failed
    BY <2>3 DEF PushEvict, Evict, histVars
  <2>. QED
    BY <1>2, <1>3, <2>1, <2>2, <2>3 DEF ThreadStep
<1>4. ASSUME NEW t \in Threads, PushGetResume(t)
      PROVE  UNCHANGED <<storage, made, twice, clock, got>>
  <2>1. UNCHANGED got
    BY SMTT(20), <1>2, <1>4 DEF PushGetResume
  <2>. QED
    BY <1>4, <2>1 DEF PushGetResume, UnchangedByGet, clientVars
<1>5. ASSUME NEW t \in Threads, PushBgBatch(t) \/ PushBgRowRequest(t)
      PROVE  UNCHANGED failed
  BY Zenon, <1>5 DEF PushBgBatch, BgClock, BgSendOpLog, PushBgRowRequest, histVars
<1>6. ASSUME NEW c \in Clients, NEW s \in Servers, PushBgOpLogAck(s, c)
      PROVE  UNCHANGED <<storage, made, twice, clock, got>>
  BY SMTT(20), <1>6 DEF PushBgOpLogAck, BgOpLogAck, appVars
<1>7. ASSUME NEW c \in Clients, NEW s \in Servers, PushBgRowReply(s, c)
      PROVE  UNCHANGED <<storage, made, twice, clock, got>>
  <2>1. UNCHANGED <<storage, twice>>
    BY Zenon, <1>2, <1>7 DEF PushBgRowReply
  <2>. QED
    BY ZenonT(30), <1>7, <2>1 DEF PushBgRowReply
<1>8. ASSUME NEW c \in Clients, NEW s \in Servers, PushBgRows(s, c)
      PROVE  UNCHANGED <<storage, made, twice, clock, got>>
  <2>1. UNCHANGED <<storage, twice>>
    BY <1>2, <1>8 DEF PushBgRows
  <2>. QED
    BY <1>8, <2>1 DEF PushBgRows, appVars
<1>9. ASSUME NEW c \in Clients, NEW s \in Servers, FromServer(c, s)
      PROVE  UNCHANGED <<storage, made, twice, clock, got>>
  <2>1. ~PushServerRowRequest(c, s)
    BY <1>2 DEF PushServerRowRequest, ServerRowRequest, histVars
  <2>2. PushServerOpLog(c, s) => UNCHANGED <<storage, made, twice, clock, got>>
    <3>1. PushServerOpLog(c, s) => UNCHANGED <<appVars, clientVars, made>> /\ UNCHANGED twice
      BY <1>2, PushServerOpLogIs
    <3>. QED
      BY <3>1 DEF appVars, clientVars
  <2>3. ServerPushAck(c, s) => UNCHANGED <<storage, made, twice, clock, got>>
    BY DEF ServerPushAck, appVars, clientVars
  <2>. QED
    BY <1>9, <2>1, <2>2, <2>3 DEF FromServer
<1>. QED
  BY <1>2, <1>3, <1>4, <1>5, <1>6, <1>7, <1>8, <1>9, StepCases

-----------------------------------------------------------------------------
(* What a process did itself, its cache holds: while a CHECK holds, by the *)
(* layers above; and a CHECK that fails changes nothing of it.             *)
PushOwnInv ==
  Running => /\ MadeNumbered /\ MadeFinite
             /\ PushLogsOwned /\ RetainedApart /\ SentIsRetained
             /\ RowsWhole /\ ValuesWhole /\ ValuesGrow
             /\ CacheLasts /\ SeenStays /\ PushWantStalest

PushReadInv == PushOwnInv /\ ReadMyWrites /\ NoDoubleApply

LEMMA InitPushRead == PushInit => PushReadInv
<1>1. SUFFICES ASSUME PushInit PROVE PushReadInv
  OBVIOUS
<1>2. /\ \A r \in Rows : made[r] = {} /\ data[r] = {}
      /\ \A c \in Clients, r \in Rows : oplog[c][r] = {} /\ ~Cached(c, r)
      /\ \A c \in Clients : pushMgr[c].kept = {}
      /\ \A c \in Clients, s \in Servers : toServer[c][s] = << >> /\ toClient[s][c] = << >>
      /\ \A t \in Threads, r \in Rows : got[t][r].seen = {}
      /\ \A t \in Threads : pc[t] = "run"
      /\ twice = {}
  BY <1>1, SSPAssumption DEF PushInit, Init, NoRequests, Cached, Store!NothingRead
<1>3. MadeNumbered /\ MadeFinite
  BY <1>2, FS_EmptySet DEF MadeNumbered, MadeFinite, Numbered
<1>4. \A c \in Clients, r \in Rows : Own(c, r) = {}
  BY <1>2 DEF Own
<1>5. \A c \in Clients, s \in Servers : OpLogsTo(c, s) = {}
  BY <1>2 DEF OpLogsTo, OfType, Range
<1>6. \A r \in Rows : ServerOf[r] \in Servers
  BY SSPAssumption
<1>7. PushLogsOwned /\ RetainedApart /\ SentIsRetained
  BY <1>2, <1>5, <1>6 DEF PushLogsOwned, RetainedApart, SentIsRetained
<1>8. RowsWhole
  BY <1>2, <1>4 DEF RowsWhole, Whole
<1>9. ValuesWhole /\ ValuesGrow
  BY <1>2, <1>6 DEF ValuesWhole, ValuesGrow
<1>10. CacheLasts
  BY <1>2 DEF CacheLasts
<1>11. SeenStays
  <2>1. \A t \in Threads : ClientOf[t] \in Clients
    BY SSPAssumption
  <2>2. \A c \in Clients, r \in Rows : Lasts(c, r, {})
    BY DEF Lasts
  <2>. QED
    BY <1>2, <2>1, <2>2 DEF SeenStays
<1>12. PushWantStalest
  BY <1>2 DEF PushWantStalest, InGet
<1>13. ReadMyWrites /\ NoDoubleApply
  BY <1>2 DEF ReadMyWrites, NoDoubleApply
<1>. QED
  BY <1>3, <1>7, <1>8, <1>9, <1>10, <1>11, <1>12, <1>13 DEF PushReadInv, PushOwnInv

LEMMA OwnStaysCached ==
  ASSUME PushTypeOK, LogsMove, CacheMoves, ValuesWhole, ValuesGrow, ReadMyWrites
  PROVE  ReadMyWrites'
<1>1. SUFFICES ASSUME NEW c \in Clients, NEW r \in Rows, Cached(c, r)'
               PROVE  Own(c, r)' \subseteq storage'[c][r].data
  BY DEF ReadMyWrites, Own
<1>2. CASE Grows(c, r)
  <2>1. Own(c, r) \subseteq storage[c][r].data
    BY <1>2 DEF Grows, ReadMyWrites, Own
  <2>. QED
    BY <1>2, <2>1, MovedOwn DEF Grows
<1>3. ASSUME NEW q, q = toClient[ServerOf[r]][c], Replaced(c, r, q)
      PROVE  Own(c, r)' \subseteq storage'[c][r].data
  <2> DEFINE V == ValueOf(Head(q), r)
             L == Lacks(c, r, Head(q).version)
  <2>1. WholeValue(c, r, Head(q))
    BY <1>3, ReplacedIs
  <2>2. Touches(Head(q), r) /\ UNCHANGED made /\ storage'[c][r].data = V \cup L
    BY <1>3 DEF Replaced
  <2>3. Own(c, r) \subseteq V \cup L
    BY <2>1, <2>2 DEF WholeValue, Whole
  <2>4. Own(c, r)' = Own(c, r)
    BY <2>2 DEF Own
  <2>. QED
    BY <2>2, <2>3, <2>4
<1>. QED
  BY <1>1, <1>2, <1>3 DEF CacheMoves, CacheMove

LEMMA ReturnsMove ==
  ASSUME PushTypeOK, MayReturn
  PROVE  SeenMoves
<1>1. SUFFICES ASSUME NEW u \in Threads, NEW x \in Rows
               PROVE  SeenMove(u, x)
  BY DEF SeenMoves
<1>2. CASE UNCHANGED got
  BY <1>2 DEF SeenMove
<1>3. ASSUME NEW t \in Threads, NEW r \in Rows, Returns(t, r)
      PROVE  SeenMove(u, x)
  <2>1. /\ Cached(ClientOf[t], r) /\ got' = [got EXCEPT ![t][r] = Seen(t, r)]
        /\ UNCHANGED storage
    BY <1>3 DEF Returns
  <2>2. got \in [Threads -> [Rows -> Reads]]
    BY DEF PushTypeOK, PushTypeApp
  <2>3. Seen(t, r).seen = storage[ClientOf[t]][r].data
    BY DEF Seen
  <2>4. CASE u = t /\ x = r
    <3>1. got'[u][x] = Seen(t, r)
      BY <2>1, <2>2, <2>4
    <3>. QED
      BY <2>1, <2>3, <2>4, <3>1 DEF SeenMove
  <2>5. CASE ~(u = t /\ x = r)
    BY <2>1, <2>2, <2>5 DEF SeenMove
  <2>. QED
    BY <2>4, <2>5
<1>. QED
  BY <1>2, <1>3 DEF MayReturn

(* The invariants the ones here are proved over.                           *)
PushBaseInv ==
  PushTypeOK /\ PushReplayInv /\ PushAnswerInv /\ PushFlowInv /\ PushCoverInv

LEMMA StepPushRead ==
  ASSUME PushBaseInv, PushBaseInv', PushStep, PushReadInv
  PROVE  PushReadInv'
<1>1. Running /\ PushTypeOK /\ PushTypeOK' /\ ReadMyWrites /\ NoDoubleApply
  BY StepRuns DEF PushBaseInv, PushReadInv
<1>2. CASE ~Running'
  <2>1. UNCHANGED <<storage, made, twice>>
    BY <1>2, FailsFirst
  <2>2. ReadMyWrites' /\ NoDoubleApply'
    BY <1>1, <2>1 DEF ReadMyWrites, NoDoubleApply, Cached
  <2>. QED
    BY <1>2, <2>2 DEF PushReadInv, PushOwnInv
<1>3. CASE Running'
  <2>1. /\ MadeNumbered /\ MadeFinite /\ PushLogsOwned /\ RetainedApart /\ SentIsRetained
        /\ RowsWhole /\ ValuesWhole /\ ValuesGrow /\ CacheLasts /\ SeenStays /\ PushWantStalest
    BY <1>1 DEF PushReadInv, PushOwnInv
  <2>2. VersionsRise /\ AllRetained /\ VersionsRise' /\ AllRetained'
    BY <1>1, <1>3 DEF PushBaseInv, PushReplayInv
  <2>3. PushRequestsInv /\ ClocksRise /\ KnownClocks /\ RequestsReached
    BY <1>1 DEF PushBaseInv, PushAnswerInv
  <2>4. BatchesOrdered /\ BatchesOrdered'
    BY <1>1, <1>3 DEF PushBaseInv, PushFlowInv
  <2>5. NoneWait /\ RequestsPlaced /\ ValuesPlaced
    BY <1>1 DEF PushBaseInv, PushCoverInv
  <2>6. LogsMove /\ MadeNumbered' /\ MadeFinite'
    BY <1>1, <1>3, <2>1, StepLogs
  <2>7. KeptMoves /\ DataMoves /\ ChannelsMove
    BY <1>1, <1>3, <2>3, <2>5, StepKeptMoves, StepDataMoves, StepChannelsMove
  <2>8. twice' = twice /\ CacheMoves
    BY <1>1, <1>3, <2>1, <2>2, <2>4, <2>5, StepMoves
  <2>9. GetMoves
    BY <1>1, <1>3, <2>1, <2>3, StepReturns
  <2>10. PushLogsOwned' /\ RetainedApart' /\ SentIsRetained'
    BY <1>1, <2>1, <2>4, <2>6, <2>7, OwnedKept, RetainedApartKept, SentIsRetainedKept
  <2>11. RowsWhole'
    BY <1>1, <2>1, <2>2, <2>4, <2>6, <2>7, RowsWholeKept
  <2>12. ValuesWhole'
    BY <1>1, <2>1, <2>2, <2>4, <2>6, <2>7, <2>11, ValuesWholeKept
  <2>13. ValuesGrow'
    BY <1>1, <2>1, <2>7, ValuesGrowKept
  <2>14. CacheLasts'
    BY <1>1, <2>1, <2>6, <2>7, <2>8, CacheLastsKept
  <2>15. SeenMoves
    BY <1>1, <2>9, ReturnsMove DEF GetMoves
  <2>16. SeenStays'
    BY <1>1, <2>1, <2>6, <2>7, <2>8, <2>14, <2>15, SeenStaysKept
  <2>17. PushWantStalest'
    BY <2>1, <2>9, WantStaysStalest
  <2>18. ReadMyWrites'
    BY <1>1, <2>1, <2>6, <2>8, OwnStaysCached
  <2>19. NoDoubleApply'
    BY <1>1, <2>8 DEF NoDoubleApply
  <2>. QED
    BY <2>6, <2>10, <2>11, <2>12, <2>13, <2>14, <2>16, <2>17, <2>18, <2>19
    DEF PushReadInv, PushOwnInv
<1>. QED
  BY <1>2, <1>3

LEMMA PushReadStays ==
  ASSUME PushReadInv, UNCHANGED pushVars
  PROVE  PushReadInv'
<1>1. UNCHANGED <<failed, made, data, oplog, toServer, toClient, pushMgr, version, sVersion,
                  storage, got, pc, want, clock, twice>>
  BY DEF pushVars, vars, appVars, clientVars, bgVars, serverVars, netVars, histVars,
         pushClientVars
<1>2. /\ MadeNumbered' <=> MadeNumbered
      /\ MadeFinite' <=> MadeFinite
  BY <1>1 DEF MadeNumbered, MadeFinite
<1>3. /\ PushLogsOwned' <=> PushLogsOwned
      /\ RetainedApart' <=> RetainedApart
      /\ SentIsRetained' <=> SentIsRetained
  BY <1>1 DEF PushLogsOwned, RetainedApart, SentIsRetained, Own, OpLogsTo
<1>4. /\ RowsWhole' <=> RowsWhole
      /\ ValuesWhole' <=> ValuesWhole
      /\ ValuesGrow' <=> ValuesGrow
  BY <1>1 DEF RowsWhole, ValuesWhole, ValuesGrow, WholeValue, Whole, Lacks, Own
<1>5. /\ CacheLasts' <=> CacheLasts
      /\ SeenStays' <=> SeenStays
  BY <1>1 DEF CacheLasts, SeenStays, Lasts, Own, Cached
<1>6. PushWantStalest' <=> PushWantStalest
  BY <1>1 DEF PushWantStalest, InGet, StalestClock
<1>7. ReadMyWrites' /\ NoDoubleApply'
  BY <1>1 DEF PushReadInv, ReadMyWrites, NoDoubleApply, Cached
<1>8. Running' <=> Running
  BY <1>1 DEF Running
<1>. QED
  BY <1>2, <1>3, <1>4, <1>5, <1>6, <1>7, <1>8 DEF PushReadInv, PushOwnInv

LEMMA PushReadKept ==
  ASSUME \A k \in Uninitialised : k <= 0
  PROVE  PushSpec => [](PushBaseInv /\ PushReadInv)
<1>1. PushInit => PushReadInv
  BY InitPushRead
<1>2. PushBaseInv /\ PushBaseInv' /\ PushReadInv /\ [PushNext]_pushVars => PushReadInv'
  BY StepPushRead, PushReadStays DEF PushNext, PushRest
<1>3. PushSpec => []PushBaseInv
  <2>1. PushSpec => [](PushTypeOK /\ PushAnswerInv /\ PushCoverInv)
    BY PushCoverKept
  <2>2. PushTypeOK /\ PushAnswerInv /\ PushCoverInv /\ PushReplayInv /\ PushFlowInv => PushBaseInv
    BY DEF PushBaseInv
  <2>. QED
    BY <2>1, <2>2, PushReplayKept, PushFlowKept, PTL
<1>. QED
  BY <1>1, <1>2, <1>3, PTL DEF PushSpec

(* Under SSPPush too a process reads its own updates: the rows that a      *)
(* server pushes or answers with get what the process has not yet sent, or *)
(* the server not yet applied (HandleServerPushRow and                     *)
(* HandleServerRowRequestReply replay the retained batches).               *)
THEOREM PushOwnWritesRead ==
  (\A k \in Uninitialised : k <= 0) => (PushSpec => []ReadMyWrites)
<1>1. PushBaseInv /\ PushReadInv => ReadMyWrites
  BY DEF PushReadInv
<1>2. ASSUME \A k \in Uninitialised : k <= 0
      PROVE  PushSpec => []ReadMyWrites
  BY <1>1, <1>2, PushReadKept, PTL
<1>. QED
  BY <1>2

(* And nothing is added to a row twice: a pushed value and the batches     *)
(* replayed on it are disjoint, whichever of them the server applied while *)
(* the value was on its way, and so are a batch and the server's row.      *)
THEOREM PushNothingAppliedTwice ==
  (\A k \in Uninitialised : k <= 0) => (PushSpec => []NoDoubleApply)
<1>1. PushBaseInv /\ PushReadInv => NoDoubleApply
  BY DEF PushReadInv
<1>2. ASSUME \A k \in Uninitialised : k <= 0
      PROVE  PushSpec => []NoDoubleApply
  BY <1>1, <1>2, PushReadKept, PTL
<1>. QED
  BY <1>2

-----------------------------------------------------------------------------
(* The store: every step under SSPPush is a step of SSPStore or none.      *)
LEMMA PushGetRefines ==
  ASSUME PushTypeOK, PushLogsOwned, ClocksRise, RowsCovered, CacheLasts, SeenStays, ReadMyWrites,
         NEW t \in Threads, NEW r \in Rows, Returns(t, r)
  PROVE  Store!Get(t, r)
<1> DEFINE c == ClientOf[t]
           D == storage[c][r].data
           s == ServerOf[r]
<1>1. c \in Clients /\ s \in Servers
  BY SSPAssumption
<1>2. /\ Cached(c, r) /\ got' = [got EXCEPT ![t][r] = Seen(t, r)] /\ UNCHANGED <<made, clock>>
      /\ StalestClock(t) <= serverClock[c][s]
  BY <1>1 DEF Returns
<1>3. D \subseteq made[r]
  BY <1>1, <1>2 DEF CacheLasts, Lasts, PushLogsOwned, Own
<1>4. { u \in made[r] : ClientOf[u[1]] = c } \subseteq D
  BY <1>1, <1>2 DEF ReadMyWrites
<1>5. got[t][r].seen \subseteq D
  BY <1>2 DEF SeenStays
<1>6. ASSUME NEW u \in made[r], u[2] < clock[t] - Staleness
      PROVE  u \in D
  <2>1. clock[t] \in Clocks
    BY DEF PushTypeOK, PushTypeApp
  <2>2. /\ clock[t] - Staleness <= StalestClock(t) /\ StalestClock(t) \in Int
        /\ clock[t] - Staleness \in Int
    BY <2>1, StalestClockLeast, PushStalestClockType, SSPAssumption DEF PushTypeOK, Clocks
  <2>3. u[2] \in Int /\ serverClock[c][s] \in Int
    BY <1>1, CoverTypes
  <2>4. Before(made[r], serverClock[c][s]) \subseteq D
    BY <1>1, <1>2 DEF RowsCovered, RowCovers
  <2> HIDE DEF c, s, D
  <2>5. u[2] < serverClock[c][s]
    BY <1>2, <1>6, <2>2, <2>3
  <2>. QED
    BY <2>4, <2>5 DEF Before
<1>7. Store!Due(t, r) \subseteq D
  BY <1>4, <1>6 DEF Store!Due
<1>8. Seen(t, r) = [due |-> Store!Due(t, r), seen |-> D]
  BY DEF Seen
<1>9. D \in SUBSET made[r] /\ Store!Due(t, r) \cup got[t][r].seen \subseteq D
  BY <1>3, <1>5, <1>7
<1> HIDE DEF D
<1>. QED
  BY <1>2, <1>8, <1>9 DEF Store!Get

(* What the application makes: an Inc, a Clock, or nothing.                *)
AppMoves ==
  \/ \E t \in Threads, r \in Rows : Inc(t, r)
  \/ \E t \in Threads : ClockFlush(t)
  \/ UNCHANGED <<made, clock>>

LEMMA StepAppMoves == PushStep => AppMoves
<1>1. ASSUME ThreadStep
      PROVE  AppMoves
  <2>1. ASSUME NEW t \in Threads, NEW r \in Rows, PushGet(t, r) \/ PushGetBlock(t, r)
        PROVE  UNCHANGED <<made, clock>>
    BY <2>1 DEF PushGet, PushGetBlock, UnchangedByGet
  <2>2. ASSUME NEW t \in Threads, PushGetUnblock(t) \/ PushGetResume(t)
        PROVE  UNCHANGED <<made, clock>>
    BY <2>2 DEF PushGetUnblock, PushGetResume, UnchangedByGet
  <2>3. ASSUME NEW t \in Threads, PushClockTick(t)
        PROVE  UNCHANGED <<made, clock>>
    BY <2>3 DEF PushClockTick, ClockTick, histVars
  <2>4. ASSUME NEW c \in Clients, NEW r \in Rows, PushEvict(c, r)
        PROVE  UNCHANGED <<made, clock>>
    BY SMTT(20), <2>4 DEF PushEvict, Evict, appVars, histVars
  <2>. QED
    BY <1>1, <2>1, <2>2, <2>3, <2>4 DEF ThreadStep, AppMoves, PushInc, PushClockFlush
<1>2. ASSUME NEW t \in Threads, PushBgBatch(t) \/ PushBgRowRequest(t)
      PROVE  UNCHANGED <<made, clock>>
  BY ZenonT(30), <1>2 DEF PushBgBatch, BgClock, BgSendOpLog, PushBgRowRequest, appVars, histVars
<1>3. ASSUME NEW c \in Clients, NEW s \in Servers,
             PushBgOpLogAck(s, c) \/ PushBgRowReply(s, c) \/ PushBgRows(s, c)
      PROVE  UNCHANGED <<made, clock>>
  BY Zenon, <1>3 DEF PushBgOpLogAck, BgOpLogAck, PushBgRowReply, PushBgRows, appVars
<1>4. ASSUME NEW c \in Clients, NEW s \in Servers, FromServer(c, s)
      PROVE  UNCHANGED <<made, clock>>
  <2>1. PushServerRowRequest(c, s) => UNCHANGED <<made, clock>>
    BY DEF PushServerRowRequest, ServerRowRequest, appVars, histVars
  <2>2. PushServerOpLog(c, s) => UNCHANGED <<made, clock>>
    BY PushServerOpLogIs DEF appVars
  <2>3. ServerPushAck(c, s) => UNCHANGED <<made, clock>>
    BY DEF ServerPushAck, appVars
  <2>. QED
    BY <1>4, <2>1, <2>2, <2>3 DEF FromServer
<1>. QED
  BY <1>1, <1>2, <1>3, <1>4, StepCases DEF AppMoves

LEMMA PushStepRefines ==
  ASSUME PushBaseInv, PushReadInv, PushStep
  PROVE  [Store!Next]_(Store!svars)
<1>1. /\ PushTypeOK /\ ReadMyWrites
      /\ PushRequestsInv /\ ClocksRise /\ KnownClocks /\ RequestsReached /\ RowsCovered
      /\ MadeNumbered /\ MadeFinite /\ PushLogsOwned /\ CacheLasts /\ SeenStays
      /\ PushWantStalest
  BY StepRuns DEF PushBaseInv, PushAnswerInv, PushCoverInv, PushReadInv, PushOwnInv
<1>2. ASSUME UNCHANGED <<made, clock, got>>
      PROVE  [Store!Next]_(Store!svars)
  BY <1>2 DEF Store!svars
<1>3. ASSUME NEW t \in Threads, NEW r \in Rows, Inc(t, r)
      PROVE  Store!Next
  <2>1. made[r] \in SUBSET Updates /\ clock[t] \in Clocks
    BY <1>1 DEF PushTypeOK, PushTypeApp, TypeHistory, Logs
  <2>2. Store!Inc(t, r)
    BY <1>1, <1>3, <2>1, IncRefines
  <2>. QED
    BY <2>2 DEF Store!Next
<1>4. ASSUME NEW t \in Threads, ClockFlush(t)
      PROVE  Store!Next
  <2>1. \E r \in Rows : TRUE
    BY SSPAssumption
  <2>. QED
    BY <1>4, <2>1 DEF ClockFlush, histVars, Store!Next, Store!Clock
<1>5. ASSUME NEW t \in Threads, NEW r \in Rows, Returns(t, r)
      PROVE  Store!Next
  <2>1. Store!Get(t, r)
    BY <1>1, <1>5, PushGetRefines
  <2>. QED
    BY <2>1 DEF Store!Next
<1>6. CASE ~Running'
  BY <1>2, <1>6, FailsFirst
<1>7. CASE Running' /\ UNCHANGED <<made, clock>>
  BY <1>1, <1>2, <1>5, <1>7, StepReturns DEF GetMoves, MayReturn
<1>. QED
  BY <1>3, <1>4, <1>6, <1>7, StepAppMoves DEF AppMoves

(* SSPPush is a parameter server as SSPStore promises one, though a Get()  *)
(* looks at nothing but the system clock: it returns all updates made      *)
(* before the stalest clock allowed, all of its own process, and never     *)
(* fewer than it returned before (SSPPushConsistencyController::Get).      *)
THEOREM PushStoreImplemented ==
  (\A k \in Uninitialised : k <= 0) => (PushSpec => StoreSpec)
<1>1. PushInit => Store!Init
  BY DEF PushInit, Init, Store!Init
<1>2. PushBaseInv /\ PushReadInv /\ [PushNext]_pushVars => [Store!Next]_(Store!svars)
  <2>1. UNCHANGED pushVars => UNCHANGED Store!svars
    BY DEF pushVars, vars, appVars, histVars, Store!svars
  <2>. QED
    BY <2>1, PushStepRefines DEF PushNext, PushRest
<1>3. ASSUME \A k \in Uninitialised : k <= 0
      PROVE  PushSpec => StoreSpec
  <2>1. PushSpec => [](PushBaseInv /\ PushReadInv)
    BY <1>3, PushReadKept
  <2>2. PushSpec => Store!Init /\ [][Store!Next]_(Store!svars)
    BY <1>1, <1>2, <2>1, PTL DEF PushSpec
  <2>. QED
    BY <2>2 DEF StoreSpec, Store!Spec
<1>. QED
  BY <1>3
=============================================================================
