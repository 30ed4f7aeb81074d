--------------------------- MODULE SSPStoreProofs ---------------------------
(***************************************************************************)
(* Bounded staleness, and that the system implements SSPStore, for any     *)
(* number of clients, threads, servers and rows; and no clock is lost on   *)
(* its way to the servers.  The layers on top of ReplayInv:                *)
(*                                                                         *)
(*   TickInv       the clocks of threads, process and worker fit together, *)
(*                 and so do updates and the rows the next batch takes;    *)
(*   StaleInv      what a client's clock at a server says of the updates   *)
(*                 the server has not applied yet, and a reply's clock of  *)
(*                 those the reply holds;                                  *)
(*   RequestsInv   a thread waits for one request, which is on its way to  *)
(*                 the worker or listed by it, and for no other;           *)
(*   SeenInv       what a thread has read of a row, its server and every   *)
(*                 answer still to come have too (Lasting), because the    *)
(*                 answers come in the order the server gave them          *)
(*                 (RepliesOrdered); a thread is woken with a row that is  *)
(*                 fresh enough (WokenLasts);                              *)
(*   GetInv        a thread that asks again has seen rows evicted;         *)
(*   ArriveInv     the last clock of a worker is known to a server, on its *)
(*                 way to it or held back.                                 *)
(***************************************************************************)
EXTENDS SSPProofs

-----------------------------------------------------------------------------
ToBgMsgs == RowRequestMsgs \cup ClockMsgs

(* The clock messages on their way from the threads of a client.           *)
ClockMsgsIn(queues, c) ==
  { p \in ThreadsOf(c) \X Nat :
      p[2] \in 1 .. Len(queues[p[1]]) /\ queues[p[1]][p[2]].type = "BgClock" }

LEMMA ClockMsgsAppend ==
  ASSUME NEW c \in Clients, NEW t \in ThreadsOf(c), NEW m \in ToBgMsgs, NEW q, NEW p,
         q[t] \in Seq(ToBgMsgs), p[t] = Append(q[t], m),
         \A u \in ThreadsOf(c) : u # t => p[u] = q[u],
         IsFiniteSet(ClockMsgsIn(q, c))
  PROVE  /\ IsFiniteSet(ClockMsgsIn(p, c))
         /\ m.type # "BgClock" =>
              Cardinality(ClockMsgsIn(p, c)) = Cardinality(ClockMsgsIn(q, c))
         /\ m.type = "BgClock" =>
              Cardinality(ClockMsgsIn(p, c)) = Cardinality(ClockMsgsIn(q, c)) + 1
<1> DEFINE n == Len(q[t])
           A == ClockMsgsIn(q, c)
           B == ClockMsgsIn(p, c)
<1>1. /\ n \in Nat /\ Len(p[t]) = n + 1
      /\ \A i \in 1 .. n : p[t][i] = q[t][i]
      /\ p[t][n + 1] = m
  BY AppendProperties
<1> HIDE DEF n
<1>2. \A i \in 1 .. n + 1 : i \in 1 .. n \/ i = n + 1
  BY <1>1
<1>3. n + 1 \notin 1 .. n /\ n + 1 \in 1 .. n + 1 /\ n + 1 \in Nat
  BY <1>1
<1>4. \A i \in 1 .. n : i \in 1 .. n + 1
  BY <1>1
<1>5. ASSUME NEW x \in ThreadsOf(c) \X Nat
      PROVE  x \in B <=> x \in A \/ (x = <<t, n + 1>> /\ m.type = "BgClock")
  <2>1. PICK u \in ThreadsOf(c), i \in Nat : x = <<u, i>>
    OBVIOUS
  <2>2. CASE u # t
    <3>1. p[u] = q[u]
      BY <2>2
    <3>. QED
      BY <2>1, <2>2, <3>1 DEF ClockMsgsIn
  <2>3. CASE u = t
    <3>1. x \in A <=> i \in 1 .. n /\ q[t][i].type = "BgClock"
      BY <2>1, <2>3 DEF ClockMsgsIn, n
    <3>2. x \in B <=> i \in 1 .. n + 1 /\ p[t][i].type = "BgClock"
      BY <1>1, <2>1, <2>3 DEF ClockMsgsIn
    <3>. QED
      BY <1>1, <1>2, <1>3, <1>4, <2>1, <2>3, <3>1, <3>2
  <2>. QED
    BY <2>2, <2>3
<1>6. <<t, n + 1>> \notin A
  BY <1>3 DEF ClockMsgsIn, n
<1>7. A \subseteq ThreadsOf(c) \X Nat /\ B \subseteq ThreadsOf(c) \X Nat
  BY DEF ClockMsgsIn
<1>8. CASE m.type # "BgClock"
  <2>1. B = A
    BY <1>5, <1>7, <1>8
  <2>. QED
    BY <1>8, <2>1
<1>9. CASE m.type = "BgClock"
  <2>1. B = A \cup {<<t, n + 1>>}
    BY <1>3, <1>5, <1>7, <1>9
  <2>. QED
    BY <1>6, <1>9, <2>1, FS_AddElement
<1>. QED
  BY <1>8, <1>9

LEMMA ClockMsgsTail ==
  ASSUME NEW c \in Clients, NEW t \in ThreadsOf(c), NEW q, NEW p,
         q[t] \in Seq(ToBgMsgs), q[t] # << >>, p[t] = Tail(q[t]),
         \A u \in ThreadsOf(c) : u # t => p[u] = q[u],
         IsFiniteSet(ClockMsgsIn(q, c))
  PROVE  /\ IsFiniteSet(ClockMsgsIn(p, c))
         /\ Head(q[t]).type # "BgClock" =>
              Cardinality(ClockMsgsIn(p, c)) = Cardinality(ClockMsgsIn(q, c))
         /\ Head(q[t]).type = "BgClock" =>
              Cardinality(ClockMsgsIn(p, c)) = Cardinality(ClockMsgsIn(q, c)) - 1
<1> DEFINE n == Len(q[t])
           A == ClockMsgsIn(q, c)
           B == ClockMsgsIn(p, c)
           C == A \ {<<t, 1>>}
           f == [x \in B |-> IF x[1] = t THEN <<t, x[2] + 1>> ELSE x]
<1>1. /\ n \in Nat \ {0} /\ Len(p[t]) = n - 1
      /\ \A i \in 1 .. n - 1 : p[t][i] = q[t][i + 1]
      /\ Head(q[t]) = q[t][1]
  BY HeadTailProperties
<1> HIDE DEF n
<1>2. /\ \A i \in 1 .. n - 1 : i + 1 \in 1 .. n /\ i + 1 # 1
      /\ \A i \in 1 .. n : i # 1 => i - 1 \in 1 .. n - 1 /\ (i - 1) + 1 = i /\ i - 1 \in Nat
      /\ 1 \in 1 .. n
  BY <1>1
<1>3. \A x \in A : x \in ThreadsOf(c) \X Nat
  BY DEF ClockMsgsIn
<1>4. \A x \in B : x \in ThreadsOf(c) \X Nat
  BY DEF ClockMsgsIn
<1>5. \A i : <<t, i>> \in A <=> i \in 1 .. n /\ q[t][i].type = "BgClock"
  BY <1>1 DEF ClockMsgsIn, n
<1>6. ASSUME NEW i
      PROVE  <<t, i>> \in B <=> i \in 1 .. n - 1 /\ q[t][i + 1].type = "BgClock"
  <2>1. <<t, i>> \in B <=> i \in 1 .. n - 1 /\ p[t][i].type = "BgClock"
    <3>1. Len(p[t]) = n - 1 /\ \A j \in 1 .. n - 1 : j \in Nat
      BY <1>1
    <3>2. <<t, i>> \in B <=> /\ <<t, i>> \in ThreadsOf(c) \X Nat
                            /\ i \in 1 .. Len(p[t]) /\ p[t][i].type = "BgClock"
      BY DEF ClockMsgsIn
    <3> HIDE DEF B
    <3>. QED
      BY <3>1, <3>2
  <2>2. i \in 1 .. n - 1 => p[t][i] = q[t][i + 1]
    BY <1>1
  <2>. QED
    BY <2>1, <2>2
<1>7. \A u, i : u # t => (<<u, i>> \in A <=> <<u, i>> \in B)
  BY DEF ClockMsgsIn
<1> HIDE DEF A, B
<1>8. ASSUME NEW x \in B
      PROVE  f[x] \in C
  <2>1. PICK u \in ThreadsOf(c), i \in Nat : x = <<u, i>>
    BY <1>4
  <2>2. CASE u = t
    BY <1>2, <1>5, <1>6, <2>1, <2>2
  <2>3. CASE u # t
    BY <1>7, <2>1, <2>3
  <2>. QED
    BY <2>2, <2>3
<1>9. \A x, y \in B : f[x] = f[y] => x = y
  <2>1. SUFFICES ASSUME NEW x \in B, NEW y \in B, f[x] = f[y] PROVE x = y
    OBVIOUS
  <2>2. PICK u \in ThreadsOf(c), i \in Nat : x = <<u, i>>
    BY <1>4
  <2>3. PICK v \in ThreadsOf(c), j \in Nat : y = <<v, j>>
    BY <1>4
  <2>4. f[x] = IF u = t THEN <<t, i + 1>> ELSE <<u, i>>
    BY <2>2
  <2>5. f[y] = IF v = t THEN <<t, j + 1>> ELSE <<v, j>>
    BY <2>3
  <2>. QED
    BY <2>1, <2>2, <2>3, <2>4, <2>5
<1>10. ASSUME NEW y \in C
       PROVE  \E x \in B : f[x] = y
  <2>1. PICK u \in ThreadsOf(c), i \in Nat : y = <<u, i>>
    BY <1>3
  <2>2. CASE u = t
    <3>1. i \in 1 .. n /\ i # 1 /\ q[t][i].type = "BgClock"
      BY <1>5, <2>1, <2>2
    <3>2. <<t, i - 1>> \in B
      BY <1>2, <1>6, <3>1
    <3>3. f[<<t, i - 1>>] = y
      BY <1>2, <2>1, <2>2, <3>1, <3>2
    <3>. QED
      BY <3>2, <3>3
  <2>3. CASE u # t
    BY <1>7, <2>1, <2>3
  <2>. QED
    BY <2>2, <2>3
<1>11. f \in Bijection(B, C)
  BY <1>8, <1>9, <1>10 DEF Bijection, Injection, Surjection, IsInjective
<1>12. IsFiniteSet(C) /\ Cardinality(C) = IF <<t, 1>> \in A THEN Cardinality(A) - 1 ELSE Cardinality(A)
  BY FS_RemoveElement DEF A
<1> HIDE DEF f, C
<1>13. IsFiniteSet(B) /\ Cardinality(B) = Cardinality(C)
  <2>1. f \in Injection(B, C) /\ f \in Surjection(B, C)
    BY <1>11 DEF Bijection
  <2>. QED
    BY <1>12, <2>1, FS_Injection
<1>14. <<t, 1>> \in A <=> Head(q[t]).type = "BgClock"
  BY <1>1, <1>2, <1>5
<1>. QED
  BY <1>12, <1>13, <1>14 DEF A, B

LEMMA ClockMsgsSame ==
  ASSUME NEW c \in Clients, NEW q, NEW p, \A u \in ThreadsOf(c) : p[u] = q[u]
  PROVE  ClockMsgsIn(p, c) = ClockMsgsIn(q, c)
BY DEF ClockMsgsIn
-----------------------------------------------------------------------------
(* Clocks: what the worker has not read of its threads' clocks is on its   *)
(* way, and no thread's clock is behind what it told.                      *)
Pending(c) == Cardinality(ClockMsgsIn(toBg, c))

ClockCounted(c) ==
  /\ IsFiniteSet(ClockMsgsIn(toBg, c))
  /\ \A t \in ThreadsOf(c) : bgClock[c] + Pending(c) <= tick[t]
  /\ \E t \in ThreadsOf(c) : tick[t] <= bgClock[c] + Pending(c)

ClocksCounted == \A c \in Clients : ClockCounted(c)

TickBehind ==
  \A t \in Threads : tick[t] <= clock[t] /\ (pc[t] = "flushed" => tick[t] < clock[t])

(* An update the next batch does not take was made in the present clock.   *)
UnsentIndexed ==
  \A c \in Clients, r \in Rows : \A u \in oplog[c][r] :
    r \in index[c] \/ (u[2] = clock[u[1]] /\ r \in dirty[u[1]])

TickInv == ClocksCounted /\ TickBehind /\ UnsentIndexed

(* The types these are about, which hold under SSPPush too.                *)
ThreadStates == {"run", "flushed", "blocked", "waiting", "woken"}

TickTypes ==
  /\ pc \in [Threads -> ThreadStates]
  /\ clock \in [Threads -> Clocks]
  /\ dirty \in [Threads -> SUBSET Rows]
  /\ toBg \in [Threads -> Seq(ToBgMsgs)]
  /\ TypeClient /\ TypeBg

(* The oplogs of a client hold its own threads' updates.                   *)
OplogsOwn == \A c \in Clients, r \in Rows : \A u \in oplog[c][r] : u[1] \in ThreadsOf(c)

LEMMA TickTypesHold == TypeOK => TickTypes
BY DEF TypeOK, TypeApp, TypeNet, TickTypes, ThreadStates, ToBgMsgs

LEMMA TickTypesNext == TypeOK' => TickTypes'
BY TickTypesHold, PTL

LEMMA InitTick == Init => TickInv
<1>1. SUFFICES ASSUME Init PROVE TickInv
  OBVIOUS
<1>2. ASSUME NEW c \in Clients
      PROVE  ClockCounted(c)
  <2>1. \A t \in ThreadsOf(c) : toBg[t] = << >> /\ tick[t] = 0
    BY <1>1 DEF Init, ThreadsOf
  <2>2. ClockMsgsIn(toBg, c) = {}
    BY <2>1 DEF ClockMsgsIn
  <2>3. IsFiniteSet(ClockMsgsIn(toBg, c)) /\ Pending(c) = 0
    BY <2>2, FS_EmptySet DEF Pending
  <2>4. ThreadsOf(c) # {}
    BY SSPAssumption DEF ThreadsOf
  <2>5. bgClock[c] = 0
    BY <1>1 DEF Init
  <2>. QED
    BY <2>1, <2>3, <2>4, <2>5 DEF ClockCounted
<1>. QED
  BY <1>1, <1>2 DEF TickInv, ClocksCounted, TickBehind, UnsentIndexed, Init

(* The counts, by what a step does to a thread's channel.                  *)
LEMMA CountsSame ==
  ASSUME ClocksCounted, UNCHANGED <<toBg, tick, bgClock>>
  PROVE  ClocksCounted'
BY DEF ClocksCounted, ClockCounted, Pending

LEMMA CountsOfOther ==
  ASSUME TickTypes, ClocksCounted, NEW t \in Threads, NEW m \in ToBgMsgs,
         m.type # "BgClock", toBg' = [toBg EXCEPT ![t] = Append(@, m)],
         UNCHANGED <<tick, bgClock>>
  PROVE  ClocksCounted'
<1>1. SUFFICES ASSUME NEW c \in Clients PROVE ClockCounted(c)'
  BY DEF ClocksCounted
<1>2. ClockCounted(c)
  BY DEF ClocksCounted
<1>3. toBg \in [Threads -> Seq(ToBgMsgs)]
  BY DEF TickTypes
<1>4. CASE t \in ThreadsOf(c)
  <2>1. /\ toBg'[t] = Append(toBg[t], m)
        /\ \A u \in ThreadsOf(c) : u # t => toBg'[u] = toBg[u]
    BY <1>3 DEF ThreadsOf
  <2>2. /\ IsFiniteSet(ClockMsgsIn(toBg', c))
        /\ Cardinality(ClockMsgsIn(toBg', c)) = Cardinality(ClockMsgsIn(toBg, c))
    <3> DEFINE q == toBg
               p == toBg'
    <3>1. /\ q[t] \in Seq(ToBgMsgs) /\ IsFiniteSet(ClockMsgsIn(q, c))
          /\ p[t] = Append(q[t], m) /\ \A u \in ThreadsOf(c) : u # t => p[u] = q[u]
          /\ t \in ThreadsOf(c) /\ m.type # "BgClock"
      BY <1>2, <1>3, <1>4, <2>1 DEF ClockCounted
    <3> HIDE DEF q, p
    <3>2. /\ IsFiniteSet(ClockMsgsIn(p, c))
          /\ Cardinality(ClockMsgsIn(p, c)) = Cardinality(ClockMsgsIn(q, c))
      BY <3>1, ClockMsgsAppend
    <3>. QED
      BY <3>2 DEF q, p
  <2>. QED
    BY <1>2, <2>2 DEF ClockCounted, Pending
<1>5. CASE t \notin ThreadsOf(c)
  <2>1. \A u \in ThreadsOf(c) : toBg'[u] = toBg[u]
    BY <1>3, <1>5 DEF ThreadsOf
  <2>2. ClockMsgsIn(toBg', c) = ClockMsgsIn(toBg, c)
    BY <2>1, ClockMsgsSame
  <2>. QED
    BY <1>2, <2>2 DEF ClockCounted, Pending
<1>. QED
  BY <1>4, <1>5

LEMMA CountsOfTaken ==
  ASSUME TickTypes, ClocksCounted, NEW t \in Threads, toBg[t] # << >>,
         toBg' = [toBg EXCEPT ![t] = Tail(@)], UNCHANGED tick,
         \/ Head(toBg[t]).type # "BgClock" /\ UNCHANGED bgClock
         \/ /\ Head(toBg[t]).type = "BgClock"
            /\ bgClock' = [bgClock EXCEPT ![ClientOf[t]] = @ + 1]
  PROVE  ClocksCounted'
<1>1. SUFFICES ASSUME NEW c \in Clients PROVE ClockCounted(c)'
  BY DEF ClocksCounted
<1>2. ClockCounted(c)
  BY DEF ClocksCounted
<1>3. /\ toBg \in [Threads -> Seq(ToBgMsgs)]
      /\ bgClock \in [Clients -> Nat]
  BY DEF TickTypes, TypeBg
<1>4. CASE t \in ThreadsOf(c)
  <2>1. /\ toBg'[t] = Tail(toBg[t])
        /\ \A u \in ThreadsOf(c) : u # t => toBg'[u] = toBg[u]
    BY <1>3 DEF ThreadsOf
  <2>2. /\ IsFiniteSet(ClockMsgsIn(toBg', c))
        /\ Head(toBg[t]).type # "BgClock" =>
             Cardinality(ClockMsgsIn(toBg', c)) = Cardinality(ClockMsgsIn(toBg, c))
        /\ Head(toBg[t]).type = "BgClock" =>
             Cardinality(ClockMsgsIn(toBg', c)) = Cardinality(ClockMsgsIn(toBg, c)) - 1
    <3> DEFINE q == toBg
               p == toBg'
    <3>1. /\ q[t] \in Seq(ToBgMsgs) /\ IsFiniteSet(ClockMsgsIn(q, c))
          /\ q[t] # << >> /\ p[t] = Tail(q[t])
          /\ \A u \in ThreadsOf(c) : u # t => p[u] = q[u]
          /\ t \in ThreadsOf(c)
      BY <1>2, <1>3, <1>4, <2>1 DEF ClockCounted
    <3> HIDE DEF q, p
    <3>2. /\ IsFiniteSet(ClockMsgsIn(p, c))
          /\ Head(q[t]).type # "BgClock" =>
               Cardinality(ClockMsgsIn(p, c)) = Cardinality(ClockMsgsIn(q, c))
          /\ Head(q[t]).type = "BgClock" =>
               Cardinality(ClockMsgsIn(p, c)) = Cardinality(ClockMsgsIn(q, c)) - 1
      BY <3>1, ClockMsgsTail
    <3>. QED
      BY <3>2 DEF q, p
  <2>3. Cardinality(ClockMsgsIn(toBg, c)) \in Nat /\ ClientOf[t] = c
    BY <1>2, <1>4, FS_CardinalityType DEF ClockCounted, ThreadsOf
  <2>4. bgClock'[c] + Pending(c)' = bgClock[c] + Pending(c)
    BY <1>3, <2>2, <2>3 DEF Pending
  <2>. QED
    BY <1>2, <2>2, <2>4 DEF ClockCounted
<1>5. CASE t \notin ThreadsOf(c)
  <2>1. \A u \in ThreadsOf(c) : toBg'[u] = toBg[u]
    BY <1>3, <1>5 DEF ThreadsOf
  <2>2. ClockMsgsIn(toBg', c) = ClockMsgsIn(toBg, c)
    BY <2>1, ClockMsgsSame
  <2>3. bgClock'[c] = bgClock[c]
    BY <1>3, <1>5 DEF ThreadsOf
  <2>. QED
    BY <1>2, <2>2, <2>3 DEF ClockCounted, Pending
<1>. QED
  BY <1>4, <1>5

LEMMA CountsOfTick ==
  ASSUME TickTypes, ClocksCounted, NEW t \in Threads, ClockTick(t)
  PROVE  ClocksCounted'
<1> DEFINE moved == \A o \in ThreadsOf(ClientOf[t]) \ {t} : tick[o] > tick[t]
           msg   == [type |-> IF moved THEN "BgClock" ELSE "BgSendOpLog"]
<1>1. /\ tick' = [tick EXCEPT ![t] = @ + 1]
      /\ toBg' = IF moved \/ Aggressive THEN [toBg EXCEPT ![t] = Append(@, msg)] ELSE toBg
      /\ UNCHANGED bgClock
  BY DEF ClockTick, bgVars
<1>2. SUFFICES ASSUME NEW c \in Clients PROVE ClockCounted(c)'
  BY DEF ClocksCounted
<1>3. ClockCounted(c)
  BY DEF ClocksCounted
<1>4. /\ toBg \in [Threads -> Seq(ToBgMsgs)]
      /\ tick \in [Threads -> Nat]
      /\ bgClock[c] \in Nat
  BY DEF TickTypes, TypeClient, TypeBg
<1>5. ThreadsOf(c) \subseteq Threads /\ \A u \in ThreadsOf(c) : ClientOf[u] = c
  BY DEF ThreadsOf
<1>6. /\ Pending(c) \in Nat
      /\ \A u \in ThreadsOf(c) : bgClock[c] + Pending(c) <= tick[u]
  BY <1>3, FS_CardinalityType DEF ClockCounted, Pending
<1>7. PICK x \in ThreadsOf(c) : tick[x] <= bgClock[c] + Pending(c)
  BY <1>3 DEF ClockCounted
<1>8. msg \in ToBgMsgs
  BY DEF ClockMsgs, ToBgMsgs
<1>9. CASE t \notin ThreadsOf(c)
  <2>1. \A u \in ThreadsOf(c) : toBg'[u] = toBg[u] /\ tick'[u] = tick[u]
    <3>1. \A u \in ThreadsOf(c) : u \in Threads /\ u # t
      BY <1>5, <1>9
    <3> HIDE DEF msg, moved
    <3>2. \A u \in ThreadsOf(c) : tick'[u] = tick[u]
      BY <1>1, <1>4, <3>1
    <3>. QED
      BY <1>1, <1>4, <3>1, <3>2
  <2>2. ClockMsgsIn(toBg', c) = ClockMsgsIn(toBg, c)
    BY <2>1, ClockMsgsSame
  <2>. QED
    BY <1>1, <1>3, <2>1, <2>2 DEF ClockCounted, Pending
<1>10. CASE t \in ThreadsOf(c) /\ moved
  <2>1. msg.type = "BgClock"
    BY <1>10
  <2>2. toBg' = [toBg EXCEPT ![t] = Append(@, msg)]
    BY <1>1, <1>10
  <2>3. ClientOf[t] = c
    BY <1>5, <1>10
  <2> HIDE DEF msg
  <2>4. /\ IsFiniteSet(ClockMsgsIn(toBg', c))
        /\ Cardinality(ClockMsgsIn(toBg', c)) = Cardinality(ClockMsgsIn(toBg, c)) + 1
    <3>1. /\ toBg'[t] = Append(toBg[t], msg)
          /\ \A u \in ThreadsOf(c) : u # t => toBg'[u] = toBg[u]
      BY <1>4, <1>5, <2>2
    <3>2. toBg[t] \in Seq(ToBgMsgs) /\ IsFiniteSet(ClockMsgsIn(toBg, c))
      BY <1>3, <1>4 DEF ClockCounted
    <3>3. t \in ThreadsOf(c)
      BY <1>10
    <3>. QED
      BY <1>8, <2>1, <3>1, <3>2, <3>3, ClockMsgsAppend
  <2>5. Pending(c)' = Pending(c) + 1 /\ bgClock'[c] = bgClock[c]
    BY <1>1, <2>4 DEF Pending
  <2>6. \A u \in ThreadsOf(c) : u # t => tick[u] > tick[t] /\ tick'[u] = tick[u]
    BY <1>1, <1>4, <1>5, <1>10, <2>3
  <2>7. tick'[t] = tick[t] + 1
    BY <1>1, <1>4
  <2>8. \A u \in ThreadsOf(c) : bgClock[c] + (Pending(c) + 1) <= tick'[u]
    BY SMTT(20), <1>4, <1>5, <1>6, <1>10, <2>6, <2>7
  <2>9. tick'[t] <= bgClock[c] + (Pending(c) + 1)
    <3>1. t \in Threads /\ x \in Threads /\ tick[t] \in Nat /\ tick[x] \in Nat
      BY <1>4, <1>5
    <3>2. tick[t] <= tick[x]
      BY <2>6, <3>1
    <3>. QED
      BY <1>4, <1>6, <1>7, <2>7, <3>1, <3>2
  <2>. QED
    BY <1>10, <2>4, <2>5, <2>8, <2>9 DEF ClockCounted
<1>11. CASE t \in ThreadsOf(c) /\ ~moved
  <2>1. PICK o \in ThreadsOf(c) : o # t /\ tick[o] <= tick[t]
    <3>1. PICK o \in ThreadsOf(ClientOf[t]) \ {t} : ~(tick[o] > tick[t])
      BY <1>11
    <3>2. ClientOf[t] = c
      BY <1>5, <1>11
    <3>. QED
      BY <1>4, <1>5, <3>1, <3>2
  <2>2. msg.type # "BgClock"
    BY <1>11
  <2> HIDE DEF msg, moved
  <2>3. /\ IsFiniteSet(ClockMsgsIn(toBg', c))
        /\ Cardinality(ClockMsgsIn(toBg', c)) = Cardinality(ClockMsgsIn(toBg, c))
    <3>1. CASE toBg' = toBg
      BY <1>3, <3>1 DEF ClockCounted
    <3>2. CASE toBg' = [toBg EXCEPT ![t] = Append(@, msg)]
      <4>1. /\ toBg'[t] = Append(toBg[t], msg)
            /\ \A u \in ThreadsOf(c) : u # t => toBg'[u] = toBg[u]
        BY <1>4, <1>5, <3>2
      <4>2. toBg[t] \in Seq(ToBgMsgs) /\ IsFiniteSet(ClockMsgsIn(toBg, c))
        BY <1>3, <1>4 DEF ClockCounted
      <4>3. t \in ThreadsOf(c)
        BY <1>11
      <4>. QED
        BY <1>8, <2>2, <4>1, <4>2, <4>3, ClockMsgsAppend
    <3>. QED
      BY <1>1, <3>1, <3>2
  <2>4. Pending(c)' = Pending(c) /\ bgClock'[c] = bgClock[c]
    BY <1>1, <2>3 DEF Pending
  <2>5. \A u \in ThreadsOf(c) : tick'[u] = IF u = t THEN tick[u] + 1 ELSE tick[u]
    BY <1>1, <1>4, <1>5
  <2>6. ASSUME NEW u \in ThreadsOf(c)
        PROVE  bgClock[c] + Pending(c) <= tick'[u]
    <3>1. tick[u] \in Nat /\ bgClock[c] + Pending(c) <= tick[u]
      BY <1>4, <1>5, <1>6
    <3>2. tick'[u] = tick[u] \/ tick'[u] = tick[u] + 1
      BY <2>5
    <3>. QED
      BY <1>4, <1>6, <3>1, <3>2
  <2>7. \E u \in ThreadsOf(c) : tick'[u] <= bgClock[c] + Pending(c)
    <3>1. CASE x = t
      BY <1>4, <1>5, <1>6, <1>7, <2>1, <2>5, <3>1
    <3>2. CASE x # t
      BY <1>7, <2>5, <3>2
    <3>. QED
      BY <3>1, <3>2
  <2>. QED
    BY <2>3, <2>4, <2>6, <2>7 DEF ClockCounted
<1>. QED
  BY <1>9, <1>10, <1>11
-----------------------------------------------------------------------------
(* TickInv under each action.                                              *)
LEMMA SameTick ==
  ASSUME TickBehind, UNCHANGED <<tick, clock>>,
         \A t \in Threads : pc'[t] = "flushed" => pc[t] = "flushed"
  PROVE  TickBehind'
BY DEF TickBehind

LEMMA SameUnsent ==
  ASSUME UnsentIndexed, UNCHANGED <<oplog, index, clock, dirty>>
  PROVE  UnsentIndexed'
BY DEF UnsentIndexed

LEMMA OplogUpdates ==
  ASSUME TypeOK, OwnLogs, NEW c \in Clients, NEW r \in Rows, NEW u \in oplog[c][r]
  PROVE  u[1] \in ThreadsOf(c) /\ u[2] \in Clocks /\ u \in made[r]
<1>1. u \in Updates
  BY DEF TypeOK, TypeClient, Logs
<1>2. ClientOf[u[1]] = c /\ u \in made[r]
  BY DEF OwnLogs, Own
<1>. QED
  BY <1>1, <1>2 DEF Updates, ThreadsOf

LEMMA IncTick ==
  ASSUME TickTypes, TickInv, NEW t \in Threads, NEW r \in Rows, Inc(t, r)
  PROVE  TickInv'
<1> DEFINE c == ClientOf[t]
<1>1. /\ UNCHANGED <<toBg, tick, bgClock, pc, clock, index>>
      /\ dirty' = [dirty EXCEPT ![t] = @ \cup {r}]
      /\ \E n \in 1 .. MaxIncs : oplog' = [oplog EXCEPT ![c][r] = @ \cup {<<t, clock[t], n>>}]
  BY DEF Inc, FindInsertOpLog, bgVars, netVars
<1>2. PICK n \in 1 .. MaxIncs : oplog' = [oplog EXCEPT ![c][r] = @ \cup {<<t, clock[t], n>>}]
  BY <1>1
<1>3. c \in Clients /\ oplog \in [Clients -> Logs] /\ dirty \in [Threads -> SUBSET Rows]
  BY SSPAssumption DEF TickTypes, TypeClient
<1>4. ClocksCounted' /\ TickBehind'
  BY <1>1, CountsSame, SameTick DEF TickInv
<1>5. ASSUME NEW d \in Clients, NEW x \in Rows, NEW u \in oplog'[d][x]
      PROVE  x \in index'[d] \/ (u[2] = clock'[u[1]] /\ x \in dirty'[u[1]])
  <2>1. CASE u \in oplog[d][x]
    <3>1. x \in index[d] \/ (u[2] = clock[u[1]] /\ x \in dirty[u[1]])
      BY <2>1 DEF TickInv, UnsentIndexed
    <3>2. u \in Updates
      BY <1>3, <2>1 DEF Logs
    <3>3. u[1] \in Threads
      BY <3>2 DEF Updates
    <3>4. dirty[u[1]] \subseteq dirty'[u[1]]
      BY <1>1, <1>3, <3>3
    <3>. QED
      BY <1>1, <3>1, <3>4
  <2>2. CASE u \notin oplog[d][x]
    <3>1. d = c /\ x = r /\ u = <<t, clock[t], n>>
      BY <1>2, <1>3, <2>2 DEF Logs
    <3>2. r \in dirty'[t] /\ clock' = clock
      BY <1>1, <1>3
    <3>. QED
      BY <3>1, <3>2
  <2>. QED
    BY <2>1, <2>2
<1>6. UnsentIndexed'
  BY <1>5 DEF UnsentIndexed
<1>. QED
  BY <1>4, <1>6 DEF TickInv

LEMMA FlushTick ==
  ASSUME TickTypes, OplogsOwn, TickInv, NEW t \in Threads, ClockFlush(t)
  PROVE  TickInv'
<1> DEFINE c == ClientOf[t]
<1>1. /\ UNCHANGED <<toBg, tick, bgClock, oplog>>
      /\ pc' = [pc EXCEPT ![t] = "flushed"]
      /\ clock' = [clock EXCEPT ![t] = @ + 1]
      /\ index' = [index EXCEPT ![c] = @ \cup dirty[t]]
      /\ dirty' = [dirty EXCEPT ![t] = {}]
  BY DEF ClockFlush, AddIndex, bgVars, netVars
<1>2. /\ c \in Clients /\ index \in [Clients -> SUBSET Rows]
      /\ pc \in [Threads -> ThreadStates]
      /\ clock \in [Threads -> Clocks] /\ dirty \in [Threads -> SUBSET Rows]
      /\ tick \in [Threads -> Nat]
  BY SSPAssumption DEF TickTypes, TypeClient
<1>3. ClocksCounted'
  BY <1>1, CountsSame DEF TickInv
<1>4. ASSUME NEW u \in Threads
      PROVE  tick'[u] <= clock'[u] /\ (pc'[u] = "flushed" => tick'[u] < clock'[u])
  <2>1. tick[u] \in Nat /\ clock[u] \in Nat /\ tick[u] <= clock[u]
        /\ (pc[u] = "flushed" => tick[u] < clock[u])
    BY <1>2, ClocksAreNat DEF TickInv, TickBehind
  <2>2. CASE u = t
    <3>1. clock'[u] = clock[u] + 1 /\ tick'[u] = tick[u]
      BY <1>1, <1>2, <2>2
    <3>. QED
      BY <2>1, <3>1
  <2>3. CASE u # t
    <3>1. clock'[u] = clock[u] /\ tick'[u] = tick[u] /\ pc'[u] = pc[u]
      BY <1>1, <1>2, <2>3
    <3>. QED
      BY <2>1, <3>1
  <2>. QED
    BY <2>2, <2>3
<1>5. ASSUME NEW d \in Clients, NEW r \in Rows, NEW u \in oplog'[d][r]
      PROVE  r \in index'[d] \/ (u[2] = clock'[u[1]] /\ r \in dirty'[u[1]])
  <2>1. u \in oplog[d][r] /\ u[1] \in Threads /\ ClientOf[u[1]] = d
    BY <1>1 DEF OplogsOwn, ThreadsOf
  <2>2. r \in index[d] \/ (u[2] = clock[u[1]] /\ r \in dirty[u[1]])
    BY <2>1 DEF TickInv, UnsentIndexed
  <2>3. CASE r \in index[d]
    BY <1>1, <1>2, <2>3
  <2>4. CASE u[1] = t /\ r \in dirty[t]
    BY <1>1, <1>2, <2>1, <2>4
  <2>5. CASE u[1] # t /\ u[2] = clock[u[1]] /\ r \in dirty[u[1]]
    BY <1>1, <1>2, <2>1, <2>5
  <2>. QED
    BY <2>2, <2>3, <2>4, <2>5
<1>. QED
  BY <1>3, <1>4, <1>5 DEF TickInv, TickBehind, UnsentIndexed

LEMMA ClockTickTick ==
  ASSUME TickTypes, TickInv, NEW t \in Threads, ClockTick(t)
  PROVE  TickInv'
<1>1. /\ UNCHANGED <<clock, dirty, oplog, index>> /\ pc[t] = "flushed"
      /\ pc' = [pc EXCEPT ![t] = "run"]
      /\ tick' = [tick EXCEPT ![t] = @ + 1]
  BY DEF ClockTick
<1>2. /\ pc \in [Threads -> ThreadStates]
      /\ clock \in [Threads -> Clocks] /\ tick \in [Threads -> Nat]
  BY DEF TickTypes, TypeClient
<1>3. ASSUME NEW u \in Threads
      PROVE  tick'[u] <= clock'[u] /\ (pc'[u] = "flushed" => tick'[u] < clock'[u])
  <2>1. tick[u] \in Nat /\ clock[u] \in Nat /\ tick[u] <= clock[u]
        /\ (pc[u] = "flushed" => tick[u] < clock[u])
    BY <1>2, ClocksAreNat DEF TickInv, TickBehind
  <2>2. CASE u = t
    <3>1. clock'[u] = clock[u] /\ tick'[u] = tick[u] + 1 /\ pc'[u] = "run" /\ pc[u] = "flushed"
      BY <1>1, <1>2, <2>2
    <3>. QED
      BY <2>1, <3>1
  <2>3. CASE u # t
    <3>1. clock'[u] = clock[u] /\ tick'[u] = tick[u] /\ pc'[u] = pc[u]
      BY <1>1, <1>2, <2>3
    <3>. QED
      BY <2>1, <3>1
  <2>. QED
    BY <2>2, <2>3
<1>4. UnsentIndexed'
  BY <1>1, SameUnsent DEF TickInv
<1>. QED
  BY <1>3, <1>4, CountsOfTick DEF TickInv, TickBehind

(* A batch leaves behind only what was made in the present clock.          *)
LEMMA BatchUnsent ==
  ASSUME TickTypes, UnsentIndexed, UNCHANGED <<clock, dirty>>,
         NEW c \in Clients, NEW advanced, NEW clk, NEW ack, NEW on,
         HandleClockMsg(c, advanced, clk, ack, on)
  PROVE  UnsentIndexed'
<1>1. \/ UNCHANGED <<oplog, index>>
      \/ /\ oplog' = [oplog EXCEPT ![c] = Remaining(c)]
         /\ index' = [index EXCEPT ![c] = {}]
  BY DEF HandleClockMsg, ResetPartition
<1>2. CASE UNCHANGED <<oplog, index>>
  BY <1>2, SameUnsent
<1>3. CASE /\ oplog' = [oplog EXCEPT ![c] = Remaining(c)]
           /\ index' = [index EXCEPT ![c] = {}]
  <2>1. ASSUME NEW d \in Clients, NEW r \in Rows, NEW u \in oplog'[d][r]
        PROVE  r \in index'[d] \/ (u[2] = clock[u[1]] /\ r \in dirty[u[1]])
    <3>1. CASE d = c
      <4>1. oplog'[d][r] = oplog[c][r] \ Batch(c)[r]
        BY <1>3, <3>1 DEF Remaining, TickTypes, TypeClient
      <4>2. u \in oplog[c][r] /\ r \notin index[c]
        BY <4>1 DEF Batch
      <4>. QED
        BY <3>1, <4>2 DEF UnsentIndexed
    <3>2. CASE d # c
      <4>1. oplog'[d][r] = oplog[d][r] /\ index'[d] = index[d]
        BY <1>3, <3>2 DEF TickTypes, TypeClient
      <4>. QED
        BY <4>1 DEF UnsentIndexed
    <3>. QED
      BY <3>1, <3>2
  <2>. QED
    BY <2>1 DEF UnsentIndexed
<1>. QED
  BY <1>1, <1>2, <1>3
LEMMA RequestTick ==
  ASSUME TypeOK, TickInv, NEW t \in Threads, NEW r \in Rows, GetFetch(t, r) \/ GetResume(t)
  PROVE  TickInv'
<1>1. /\ UNCHANGED <<tick, clock, bgClock, oplog, index, dirty>>
      /\ \/ UNCHANGED toBg
         \/ toBg' = [toBg EXCEPT ![t] = Append(@, RowRequestMsg(r, StalestClock(t)))]
         \/ toBg' = [toBg EXCEPT ![t] = Append(@, RowRequestMsg(want[t].row, want[t].clock))]
  BY DEF GetFetch, GetResume, clientVars, bgVars
<1>2. ASSUME NEW u \in Threads, pc'[u] = "flushed"
      PROVE  pc[u] = "flushed"
  <2>1. pc' \in {pc, [pc EXCEPT ![t] = "waiting"], [pc EXCEPT ![t] = "run"]}
    BY DEF GetFetch, GetResume
  <2>. QED
    BY <1>2, <2>1 DEF TypeOK, TypeApp
<1>3. /\ RowRequestMsg(r, StalestClock(t)) \in RowRequestMsgs
      /\ RowRequestMsg(want[t].row, want[t].clock) \in RowRequestMsgs
  <2>1. want[t].row \in Rows /\ want[t].clock \in Clocks /\ StalestClock(t) \in Clocks
    BY StalestClockType DEF TypeOK, TypeApp
  <2>. QED
    BY <2>1, RowRequestMsgType
<1>4. ClocksCounted'
  <2>1. CASE UNCHANGED toBg
    BY <1>1, <2>1, CountsSame DEF TickInv
  <2>2. ASSUME NEW m \in RowRequestMsgs, toBg' = [toBg EXCEPT ![t] = Append(@, m)]
        PROVE  ClocksCounted'
    <3>1. m \in ToBgMsgs /\ m.type # "BgClock"
      BY <2>2 DEF ToBgMsgs, RowRequestMsgs
    <3>. QED
      BY <1>1, <2>2, <3>1, TickTypesHold, CountsOfOther DEF TickInv
  <2>. QED
    BY <1>1, <1>3, <2>1, <2>2
<1>. QED
  BY <1>1, <1>2, <1>4, SameTick, SameUnsent DEF TickInv

LEMMA BatchTick ==
  ASSUME TickTypes, TickInv, NEW t \in Threads, BgClock(t) \/ BgSendOpLog(t)
  PROVE  TickInv'
<1> DEFINE c == ClientOf[t]
<1>1. /\ UNCHANGED <<tick, clock, dirty, pc>> /\ toBg[t] # << >>
      /\ toBg' = [toBg EXCEPT ![t] = Tail(@)]
      /\ \/ Head(toBg[t]).type = "BgClock" /\ bgClock' = [bgClock EXCEPT ![c] = @ + 1]
         \/ Head(toBg[t]).type = "BgSendOpLog" /\ UNCHANGED bgClock
  BY DEF BgClock, BgSendOpLog, appVars
<1>2. \E advanced, clk : HandleClockMsg(c, advanced, clk, acked[c], pend[c].on)
  BY DEF BgClock, BgSendOpLog
<1>3. c \in Clients
  BY SSPAssumption
<1>4. UnsentIndexed'
  BY <1>1, <1>2, <1>3, BatchUnsent DEF TickInv
<1>5. ClocksCounted'
  BY <1>1, CountsOfTaken DEF TickInv
<1>. QED
  BY <1>1, <1>4, <1>5, SameTick DEF TickInv

LEMMA BgRowRequestTick ==
  ASSUME TypeOK, TickInv, NEW t \in Threads, BgRowRequest(t)
  PROVE  TickInv'
<1>1. /\ UNCHANGED <<tick, clock, dirty, oplog, index, bgClock>> /\ toBg[t] # << >>
      /\ toBg' = [toBg EXCEPT ![t] = Tail(@)]
      /\ Head(toBg[t]).type = "RowRequest"
      /\ pc' = [pc EXCEPT ![t] = "woken"] \/ UNCHANGED pc
  BY DEF BgRowRequest, clientVars
<1>2. \A u \in Threads : pc'[u] = "flushed" => pc[u] = "flushed"
  BY <1>1 DEF TypeOK, TypeApp
<1>3. ClocksCounted'
  BY <1>1, TickTypesHold, CountsOfTaken DEF TickInv
<1>. QED
  BY <1>1, <1>2, <1>3, SameTick, SameUnsent DEF TickInv

LEMMA BgOpLogAckTick ==
  ASSUME TickTypes, TickInv, NEW s \in Servers, NEW c \in Clients, BgOpLogAck(s, c)
  PROVE  TickInv'
<1>1. UNCHANGED <<tick, clock, dirty, pc, bgClock, toBg>>
  BY DEF BgOpLogAck, appVars
<1>2. \/ UNCHANGED <<oplog, index>>
      \/ \E advanced, clk, ack, on : HandleClockMsg(c, advanced, clk, ack, on)
  BY DEF BgOpLogAck
<1>3. UnsentIndexed'
  BY <1>1, <1>2, SameUnsent, BatchUnsent DEF TickInv
<1>. QED
  BY <1>1, <1>3, SameTick, CountsSame DEF TickInv

(* The remaining actions.                                                  *)
LEMMA OtherTick ==
  ASSUME TickInv, UNCHANGED <<tick, clock, dirty, oplog, index, bgClock, toBg>>,
         \A t \in Threads : pc'[t] = "flushed" => pc[t] = "flushed"
  PROVE  TickInv'
BY SameTick, SameUnsent, CountsSame DEF TickInv

LEMMA StepTick ==
  ASSUME TypeOK, OwnInv, TickInv, [Next]_vars
  PROVE  TickInv'
<1>0. TickTypes /\ OplogsOwn
  BY TickTypesHold, OplogUpdates DEF OplogsOwn, OwnInv
<1>1. ASSUME NEW t \in Writers, NEW r \in Rows, Inc(t, r)
      PROVE  TickInv'
  BY <1>0, <1>1, SSPAssumption, IncTick
<1>2. ASSUME NEW t \in Readers, NEW r \in Rows, GetCached(t, r)
      PROVE  TickInv'
  BY <1>2, OtherTick DEF GetCached, clientVars, bgVars, netVars
<1>3. ASSUME NEW t \in Readers, NEW r \in Rows, GetFetch(t, r)
      PROVE  TickInv'
  BY <1>3, SSPAssumption, RequestTick
<1>4. ASSUME NEW t \in Threads
      PROVE  /\ GetResume(t) => TickInv'
             /\ ClockFlush(t) => TickInv'
             /\ ClockTick(t) => TickInv'
             /\ BgClock(t) \/ BgSendOpLog(t) => TickInv'
             /\ BgRowRequest(t) => TickInv'
  <2>1. \E r \in Rows : TRUE
    BY SSPAssumption
  <2>2. GetResume(t) => TickInv'
    BY <2>1, RequestTick
  <2>. QED
    BY <1>0, <2>2, FlushTick, ClockTickTick, BatchTick, BgRowRequestTick
<1>5. ASSUME NEW c \in Clients, NEW r \in Rows, Evict(c, r)
      PROVE  TickInv'
  BY <1>5, OtherTick DEF Evict, appVars, bgVars, netVars
<1>6. ASSUME NEW c \in Clients, NEW s \in Servers, BgRowReply(s, c)
      PROVE  TickInv'
  <2>1. UNCHANGED <<tick, clock, dirty, oplog, index, bgClock, toBg>>
    BY <1>6 DEF BgRowReply
  <2>2. \A t \in Threads : pc'[t] = "flushed" => pc[t] = "flushed"
    <3>1. \/ pc' = pc
          \/ \E S : pc' = [t \in Threads |-> IF t \in S THEN "woken" ELSE pc[t]]
      BY <1>6 DEF BgRowReply
    <3>. QED
      BY <3>1
  <2>. QED
    BY <2>1, <2>2, OtherTick
<1>7. ASSUME NEW c \in Clients, NEW s \in Servers, BgOpLogAck(s, c)
      PROVE  TickInv'
  BY <1>0, <1>7, BgOpLogAckTick
<1>8. ASSUME NEW c \in Clients, NEW s \in Servers, ServerRowRequest(c, s) \/ ServerOpLog(c, s)
      PROVE  TickInv'
  <2>1. UNCHANGED <<tick, clock, dirty, oplog, index, bgClock, toBg, pc>>
    BY <1>8 DEF ServerRowRequest, ServerOpLog, appVars, clientVars, bgVars
  <2>. QED
    BY <2>1, OtherTick
<1>9. ASSUME UNCHANGED vars
      PROVE  TickInv'
  BY <1>9, OtherTick DEF vars, appVars, clientVars, bgVars, netVars
<1>. QED
  BY <1>1, <1>2, <1>3, <1>4, <1>5, <1>6, <1>7, <1>8, <1>9 DEF Next, Step, Rest

(* The process clock a worker has seen is behind its threads'.             *)
NoneBehindBg == \A c \in Clients : \A t \in ThreadsOf(c) : bgClock[c] <= clock[t]
LEMMA BgBehind ==
  ASSUME TickTypes, ClocksCounted, TickBehind, NEW c \in Clients, NEW t \in ThreadsOf(c)
  PROVE  bgClock[c] <= clock[t]
<1>1. t \in Threads
  BY DEF ThreadsOf
<1>2. ClockCounted(c)
  BY DEF ClocksCounted
<1>3. Pending(c) \in Nat /\ bgClock[c] + Pending(c) <= tick[t]
  BY <1>2, FS_CardinalityType DEF ClockCounted, Pending
<1>4. tick[t] \in Nat /\ clock[t] \in Nat /\ bgClock[c] \in Nat /\ tick[t] <= clock[t]
  BY <1>1, ClocksAreNat DEF TickTypes, TypeClient, TypeBg, TickBehind
<1>. QED
  BY <1>3, <1>4

(* Also the one it sees next: then no thread's clock moves.                *)
BgAdvances ==
  \A c \in Clients : /\ bgClock[c] <= bgClock'[c]
                     /\ \A t \in ThreadsOf(c) : bgClock'[c] <= clock[t]

LEMMA BgNextBehind == TickTypes' /\ ClocksCounted' /\ TickBehind' => NoneBehindBg'
<1>1. TickTypes /\ ClocksCounted /\ TickBehind => NoneBehindBg
  BY BgBehind DEF NoneBehindBg
<1>. QED
  BY <1>1, PTL

LEMMA StepBgAdvances ==
  ASSUME TypeOK, TickInv, TypeOK', TickInv', [Next]_vars
  PROVE  BgAdvances
<1>1. \/ UNCHANGED bgClock
      \/ /\ UNCHANGED clock
         /\ \E t \in Threads : bgClock' = [bgClock EXCEPT ![ClientOf[t]] = @ + 1]
  <2>1. ASSUME NEW t \in Threads, BgClock(t)
        PROVE  UNCHANGED clock /\ bgClock' = [bgClock EXCEPT ![ClientOf[t]] = @ + 1]
    BY <2>1 DEF BgClock, appVars
  <2>2. ASSUME NEW t \in Threads,
               \/ GetResume(t) \/ ClockFlush(t) \/ ClockTick(t)
               \/ BgSendOpLog(t) \/ BgRowRequest(t)
        PROVE  UNCHANGED bgClock
    BY <2>2 DEF GetResume, ClockFlush, ClockTick, BgSendOpLog, BgRowRequest, bgVars
  <2>3. ASSUME NEW t \in Threads, NEW r \in Rows, Inc(t, r) \/ GetCached(t, r) \/ GetFetch(t, r)
        PROVE  UNCHANGED bgClock
    BY <2>3 DEF Inc, GetCached, GetFetch, bgVars
  <2>4. ASSUME NEW c \in Clients, NEW r \in Rows, Evict(c, r)
        PROVE  UNCHANGED bgClock
    BY <2>4 DEF Evict, bgVars
  <2>5. ASSUME NEW c \in Clients, NEW s \in Servers,
               \/ BgRowReply(s, c) \/ BgOpLogAck(s, c)
               \/ ServerRowRequest(c, s) \/ ServerOpLog(c, s)
        PROVE  UNCHANGED bgClock
    BY <2>5 DEF BgRowReply, BgOpLogAck, ServerRowRequest, ServerOpLog, bgVars
  <2>6. UNCHANGED vars => UNCHANGED bgClock
    BY DEF vars, bgVars
  <2>. QED
    BY <2>1, <2>2, <2>3, <2>4, <2>5, <2>6, SSPAssumption DEF Next, Step, Rest
<1>2. bgClock \in [Clients -> Nat]
  BY DEF TypeOK, TypeBg
<1>3. \A c \in Clients : \A t \in ThreadsOf(c) : bgClock'[c] <= clock'[t]
  BY TickTypesNext, BgNextBehind DEF TickInv, NoneBehindBg
<1>4. CASE UNCHANGED bgClock
  <2>1. ASSUME NEW c \in Clients
        PROVE  bgClock[c] <= bgClock'[c] /\ \A t \in ThreadsOf(c) : bgClock'[c] <= clock[t]
    BY <1>2, <1>4, TickTypesHold, BgBehind DEF TickInv
  <2>. QED
    BY <2>1 DEF BgAdvances
<1>5. CASE /\ UNCHANGED clock
           /\ \E t \in Threads : bgClock' = [bgClock EXCEPT ![ClientOf[t]] = @ + 1]
  <2>1. \A c \in Clients : bgClock[c] <= bgClock'[c]
    BY <1>2, <1>5
  <2>. QED
    BY <1>3, <1>5, <2>1 DEF BgAdvances
<1>. QED
  BY <1>1, <1>4, <1>5
-----------------------------------------------------------------------------
(* Staleness: the clock a server knows of a client is behind the client's, *)
(* and what is not yet in a row was made in that clock or later.           *)
ServersBehind ==
  \A c \in Clients, s \in Servers :
    /\ sClock[s][c] <= bgClock[c]
    /\ \A m \in OpLogsTo(c, s) : m.bgClock <= bgClock[c]

Recent(c, r, s) ==
  /\ \A u \in oplog[c][r] : sClock[s][c] <= u[2]
  /\ \A m \in OpLogsTo(c, s) : \A u \in m.log[r] : sClock[s][c] <= u[2]
  /\ \A m \in OpLogsTo(c, s) : m.isClock =>
       /\ \A u \in oplog[c][r] : m.bgClock <= u[2]
       /\ \A n \in OpLogsTo(c, s) : n.version > m.version =>
            \A u \in n.log[r] : m.bgClock <= u[2]

UnappliedRecent == \A c \in Clients, r \in Rows : Recent(c, r, ServerOf[r])

(* A reply has all updates made before its clock.                          *)
Current(s, m) ==
  /\ \A d \in Clients : m.clock <= sClock[s][d]
  /\ \A u \in made[m.row] : u[2] < m.clock => u \in m.data

RepliesCurrent == \A c \in Clients, s \in Servers : \A m \in RepliesTo(s, c) : Current(s, m)

RowsBehind ==
  \A c \in Clients, r \in Rows : \A d \in Clients : storage[c][r].clock <= sClock[ServerOf[r]][d]

StaleInv == /\ ServersBehind /\ UnappliedRecent /\ RepliesCurrent
            /\ RowsBehind /\ BoundedStaleness

LEMMA InitStale == Init => StaleInv
<1>1. SUFFICES ASSUME Init PROVE StaleInv
  OBVIOUS
<1>2. /\ \A c \in Clients, s \in Servers : toServer[c][s] = << >> /\ toClient[s][c] = << >>
      /\ \A c \in Clients, s \in Servers : sClock[s][c] = 0 /\ bgClock[c] = 0
      /\ \A r \in Rows : made[r] = {}
      /\ \A c \in Clients, r \in Rows : oplog[c][r] = {} /\ storage[c][r] = NoRow
  BY <1>1 DEF Init
<1>3. \A c \in Clients, s \in Servers : OpLogsTo(c, s) = {} /\ RepliesTo(s, c) = {}
  BY <1>2 DEF OpLogsTo, RepliesTo, OfType, Range
<1>4. RowsBehind
  <2>1. NoRow.clock = -1
    BY DEF NoRow
  <2>2. \A r \in Rows : ServerOf[r] \in Servers
    BY SSPAssumption
  <2>3. \A c \in Clients, r \in Rows : storage[c][r].clock = -1
    BY <1>2, <2>1
  <2>. QED
    BY <1>2, <2>2, <2>3 DEF RowsBehind
<1>5. ServersBehind /\ RepliesCurrent /\ BoundedStaleness
  BY <1>2, <1>3 DEF ServersBehind, RepliesCurrent, BoundedStaleness
<1>6. ASSUME NEW c \in Clients, NEW r \in Rows
      PROVE  Recent(c, r, ServerOf[r])
  <2>1. oplog[c][r] = {} /\ OpLogsTo(c, ServerOf[r]) = {}
    BY <1>2, <1>3, SSPAssumption
  <2>. QED
    BY <2>1 DEF Recent
<1>. QED
  BY <1>4, <1>5, <1>6 DEF StaleInv, UnappliedRecent

LEMMA MinClockLeast ==
  ASSUME NEW vec \in [Clients -> Nat], NEW c \in Clients
  PROVE  MinClock(vec) <= vec[c]
<1>1. vec \in Surjection(Clients, Range(vec))
  BY DEF Surjection, Range
<1>2. IsFiniteSet(Range(vec))
  BY <1>1, SSPAssumption, FS_Surjection
<1>3. Range(vec) \subseteq Int /\ vec[c] \in Range(vec)
  BY DEF Range
<1>. QED
  BY <1>2, <1>3, MinIsLeast DEF MinClock

(* What a server's clocks say has been applied is in its rows.             *)
LEMMA ClockedIsApplied ==
  ASSUME TypeOK, Accounted, UnappliedRecent, NEW r \in Rows, NEW u \in made[r],
         u[2] < sClock[ServerOf[r]][ClientOf[u[1]]]
  PROVE  u \in data[r]
<1> DEFINE c == ClientOf[u[1]]
           s == ServerOf[r]
<1>1. u \in Updates
  BY DEF TypeOK, TypeHistory, Logs
<1>2. c \in Clients /\ s \in Servers /\ u[2] \in Nat
  BY <1>1, SSPAssumption, ClocksAreNat DEF Updates
<1>3. sClock[s][c] \in Nat
  BY <1>2 DEF TypeOK, TypeServer
<1>4. ~(sClock[s][c] <= u[2])
  BY <1>2, <1>3
<1>5. Recent(c, r, s)
  BY <1>2 DEF UnappliedRecent
<1>6. u \notin oplog[c][r] /\ ~\E m \in OpLogsTo(c, s) : u \in m.log[r]
  BY <1>4, <1>5 DEF Recent
<1>. QED
  BY <1>6 DEF Accounted

FreshCurrent == \A c \in Clients, s \in Servers : \A m \in FreshReplies(s, c) : Current(s, m)

LEMMA FreshRepliesCurrent == TypeOK /\ Accounted /\ UnappliedRecent => FreshCurrent
<1>1. SUFFICES ASSUME TypeOK, Accounted, UnappliedRecent,
                      NEW c \in Clients, NEW s \in Servers, NEW m \in FreshReplies(s, c)
               PROVE  Current(s, m)
  BY DEF FreshCurrent
<1>2. PICK r \in Rows : /\ ServerOf[r] = s
                        /\ m = RowReplyMsg(r, MinClock(sClock[s]), sVersion[s][c], data[r])
  BY DEF FreshReplies
<1>3. m.row = r /\ m.clock = MinClock(sClock[s]) /\ m.data = data[r]
  BY <1>2 DEF RowReplyMsg
<1>4. sClock[s] \in [Clients -> Nat]
  BY <1>1 DEF TypeOK, TypeServer
<1>5. \A d \in Clients : m.clock <= sClock[s][d]
  BY <1>3, <1>4, MinClockLeast
<1>6. ASSUME NEW u \in made[r], u[2] < m.clock
      PROVE  u \in data[r]
  <2>1. u \in Updates
    BY <1>1 DEF TypeOK, TypeHistory, Logs
  <2>2. ClientOf[u[1]] \in Clients /\ u[2] \in Nat
    BY <2>1, SSPAssumption, ClocksAreNat DEF Updates
  <2>3. sClock[s][ClientOf[u[1]]] \in Nat /\ MinClock(sClock[s]) \in Nat
    BY <1>4, <2>2, MinClockType
  <2>4. u[2] < sClock[ServerOf[r]][ClientOf[u[1]]]
    BY <1>2, <1>3, <1>5, <1>6, <2>2, <2>3
  <2>. QED
    BY <1>1, <2>4, ClockedIsApplied
<1>. QED
  BY <1>3, <1>5, <1>6 DEF Current

LEMMA FreshNextCurrent == TypeOK' /\ Accounted' /\ UnappliedRecent' => FreshCurrent'
BY FreshRepliesCurrent, PTL

LEMMA IncStale ==
  ASSUME TypeOK, OwnInv, StaleInv, NoneBehindBg, UNCHANGED bgClock,
         NEW t \in Threads, NEW r \in Rows, Inc(t, r)
  PROVE  StaleInv'
<1> DEFINE c == ClientOf[t]
<1>1. PICK u \in Updates : IncEffect(c, r, u)
  BY IncIsEffect DEF OwnInv
<1>2. u[2] = clock[t]
  <2>1. \E n \in 1 .. MaxIncs : made' = [made EXCEPT ![r] = @ \cup {<<t, clock[t], n>>}]
    BY DEF Inc
  <2>2. PICK n \in 1 .. MaxIncs : made' = [made EXCEPT ![r] = @ \cup {<<t, clock[t], n>>}]
    BY <2>1
  <2>3. made'[r] = made[r] \cup {<<t, clock[t], n>>}
    BY <2>2 DEF TypeOK, TypeHistory, Logs
  <2>4. u \in made'[r] /\ u \notin made[r]
    BY <1>1 DEF IncEffect
  <2>. QED
    BY <2>3, <2>4
<1>3. c \in Clients /\ t \in ThreadsOf(c) /\ clock[t] \in Nat /\ u[2] \in Nat
  BY <1>2, SSPAssumption, ClocksAreNat DEF TypeOK, TypeApp, ThreadsOf
<1>4. bgClock[c] <= u[2] /\ bgClock[c] \in Nat
  BY <1>2, <1>3 DEF NoneBehindBg, TypeOK, TypeBg
<1> HIDE DEF c
<1>5. ASSUME NEW s \in Servers
      PROVE  sClock[s][c] <= u[2] /\ \A m \in OpLogsTo(c, s) : m.bgClock <= u[2]
  <2>1. sClock[s][c] \in Nat /\ sClock[s][c] <= bgClock[c]
    BY <1>3 DEF TypeOK, TypeServer, StaleInv, ServersBehind
  <2>2. ASSUME NEW m \in OpLogsTo(c, s)
        PROVE  m.bgClock <= u[2]
    <3>1. m.bgClock \in Nat /\ m.bgClock <= bgClock[c]
      BY <1>3, ChannelTypes DEF OpLogMsgs, StaleInv, ServersBehind
    <3>. QED
      BY <1>3, <1>4, <3>1
  <2>. QED
    BY <1>3, <1>4, <2>1, <2>2
<1>6. /\ UNCHANGED <<sClock, bgClock>>
      /\ \A d \in Clients, s \in Servers : OpLogsTo(d, s)' = OpLogsTo(d, s)
      /\ \A d \in Clients, s \in Servers : RepliesTo(s, d)' = RepliesTo(s, d)
  BY <1>1 DEF IncEffect, SameOpLogs
<1>7. ServersBehind'
  BY <1>6 DEF StaleInv, ServersBehind
<1>8. ASSUME NEW d \in Clients, NEW x \in Rows
      PROVE  Recent(d, x, ServerOf[x])'
  <2> DEFINE s == ServerOf[x]
  <2>1. s \in Servers /\ Recent(d, x, s)
    BY SSPAssumption DEF StaleInv, UnappliedRecent
  <2>2. \A v \in oplog'[d][x] : v \in oplog[d][x] \/ (d = c /\ v = u)
    <3>1. oplog'[d][x] = IF d = c /\ x = r THEN oplog[d][x] \cup {u} ELSE oplog[d][x]
      BY <1>1 DEF IncEffect
    <3>. QED
      BY <3>1
  <2> HIDE DEF s
  <2>3. \A v \in oplog'[d][x] : sClock[s][d] <= v[2]
    BY <1>5, <2>1, <2>2 DEF Recent
  <2>4. \A m \in OpLogsTo(d, s) : m.isClock => \A v \in oplog'[d][x] : m.bgClock <= v[2]
    BY <1>5, <2>1, <2>2 DEF Recent
  <2>5. Recent(d, x, s)'
    <3>1. OpLogsTo(d, s)' = OpLogsTo(d, s) /\ sClock' = sClock
      BY <1>6, <2>1
    <3>2. \A m \in OpLogsTo(d, s) : \A v \in m.log[x] : sClock[s][d] <= v[2]
      BY <2>1 DEF Recent
    <3>3. \A m \in OpLogsTo(d, s) : m.isClock =>
            \A n \in OpLogsTo(d, s) : n.version > m.version => \A v \in n.log[x] : m.bgClock <= v[2]
      BY <2>1 DEF Recent
    <3>4. s' = s
      BY DEF s
    <3>. QED
      BY <2>3, <2>4, <3>1, <3>2, <3>3, <3>4 DEF Recent
  <2>. QED
    BY <2>5 DEF s
<1>9. ASSUME NEW k, NEW x \in Rows, NEW s \in Servers, k \in Int, k <= sClock[s][c],
             NEW S, \A v \in made[x] : v[2] < k => v \in S
      PROVE  \A v \in made'[x] : v[2] < k => v \in S
  <2>1. \A v \in made'[x] : v \in made[x] \/ v = u
    <3>1. made'[x] = IF x = r THEN made[x] \cup {u} ELSE made[x]
      BY <1>1 DEF IncEffect
    <3>. QED
      BY <3>1
  <2>2. ~(u[2] < k)
    <3>1. sClock[s][c] \in Nat
      BY <1>3 DEF TypeOK, TypeServer
    <3>. QED
      BY <1>3, <1>5, <1>9, <3>1
  <2>. QED
    BY <1>9, <2>1, <2>2
<1>10. ASSUME NEW d \in Clients, NEW s \in Servers, NEW m \in RepliesTo(s, d)
       PROVE  Current(s, m)'
  <2>1. Current(s, m) /\ m.clock \in Int /\ m.row \in Rows
    BY ChannelTypes DEF StaleInv, RepliesCurrent, RowReplyMsgs
  <2>2. \A v \in made'[m.row] : v[2] < m.clock => v \in m.data
    <3>1. m.clock <= sClock[s][c] /\ \A v \in made[m.row] : v[2] < m.clock => v \in m.data
      BY <1>3, <2>1 DEF Current
    <3>. QED
      BY <1>9, <2>1, <3>1
  <2>. QED
    BY <1>6, <2>1, <2>2 DEF Current
<1>11. RepliesCurrent'
  BY <1>6, <1>10 DEF RepliesCurrent
<1>12. \A d \in Clients, x \in Rows :
         storage'[d][x].clock = storage[d][x].clock /\ storage[d][x].data \subseteq storage'[d][x].data
  BY <1>1 DEF IncEffect
<1>13. RowsBehind'
  BY <1>6, <1>12 DEF StaleInv, RowsBehind
<1>14. ASSUME NEW d \in Clients, NEW x \in Rows, NEW v \in made'[x], v[2] < storage'[d][x].clock
       PROVE  v \in storage'[d][x].data
  <2>1. storage[d][x].clock \in Int /\ ServerOf[x] \in Servers
    BY SSPAssumption DEF TypeOK, TypeClient, CachedRows, Versions
  <2>2. storage[d][x].clock <= sClock[ServerOf[x]][c]
    BY <1>3 DEF StaleInv, RowsBehind
  <2>3. \A w \in made[x] : w[2] < storage[d][x].clock => w \in storage[d][x].data
    BY DEF StaleInv, BoundedStaleness
  <2>4. v \in storage[d][x].data
    BY <1>9, <1>12, <1>14, <2>1, <2>2, <2>3
  <2>. QED
    BY <1>12, <2>4
<1>. QED
  BY <1>7, <1>8, <1>11, <1>13, <1>14 DEF StaleInv, UnappliedRecent, BoundedStaleness
(* The replies, when no update is made and the servers' clocks only grow.  *)
LEMMA FreshOrOldCurrent ==
  ASSUME TypeOK, TypeOK', RepliesCurrent, FreshCurrent', UNCHANGED made, FewerOrFreshReplies,
         \A s \in Servers, d \in Clients : sClock[s][d] <= sClock'[s][d]
  PROVE  RepliesCurrent'
<1>1. SUFFICES ASSUME NEW c \in Clients, NEW s \in Servers, NEW m \in RepliesTo(s, c)'
               PROVE  Current(s, m)'
  BY DEF RepliesCurrent
<1>2. CASE m \in FreshReplies(s, c)'
  BY <1>2 DEF FreshCurrent
<1>3. CASE m \in RepliesTo(s, c)
  <2>1. Current(s, m) /\ m.clock \in Nat
    BY <1>3, ChannelTypes DEF RepliesCurrent, RowReplyMsgs
  <2>2. ASSUME NEW d \in Clients
        PROVE  m.clock <= sClock'[s][d]
    <3>1. sClock[s][d] \in Nat /\ sClock'[s][d] \in Nat
      BY DEF TypeOK, TypeServer
    <3>2. m.clock <= sClock[s][d] /\ sClock[s][d] <= sClock'[s][d]
      BY <2>1 DEF Current
    <3>. QED
      BY <2>1, <3>1, <3>2
  <2>3. \A u \in made'[m.row] : u[2] < m.clock => u \in m.data
    BY <2>1 DEF Current
  <2>. QED
    BY <2>2, <2>3 DEF Current
<1>. QED
  BY <1>2, <1>3 DEF FewerOrFreshReplies

LEMMA FewerCurrent ==
  ASSUME RepliesCurrent, UNCHANGED <<made, sClock>>, FewerReplies
  PROVE  RepliesCurrent'
<1>1. SUFFICES ASSUME NEW c \in Clients, NEW s \in Servers, NEW m \in RepliesTo(s, c)'
               PROVE  Current(s, m)'
  BY DEF RepliesCurrent
<1>2. Current(s, m)
  BY DEF RepliesCurrent, FewerReplies
<1>. QED
  BY <1>2 DEF Current

LEMMA SentBehind ==
  ASSUME TypeOK, TypeOK', ServersBehind, BgAdvances, UNCHANGED sClock,
         \A c \in Clients, s \in Servers : \A m \in OpLogsTo(c, s)' :
           m \in OpLogsTo(c, s) \/ m.bgClock = bgClock'[c]
  PROVE  ServersBehind'
<1>1. SUFFICES ASSUME NEW c \in Clients, NEW s \in Servers
               PROVE  /\ sClock'[s][c] <= bgClock'[c]
                      /\ \A m \in OpLogsTo(c, s)' : m.bgClock <= bgClock'[c]
  BY DEF ServersBehind
<1>2. /\ bgClock[c] \in Nat /\ bgClock'[c] \in Nat /\ bgClock[c] <= bgClock'[c]
      /\ sClock[s][c] \in Nat /\ sClock[s][c] <= bgClock[c]
  BY DEF TypeOK, TypeBg, TypeServer, BgAdvances, ServersBehind
<1>3. ASSUME NEW m \in OpLogsTo(c, s)'
      PROVE  m.bgClock <= bgClock'[c]
  <2>1. CASE m \in OpLogsTo(c, s)
    <3>1. m.bgClock \in Nat /\ m.bgClock <= bgClock[c]
      BY <2>1, ChannelTypes DEF OpLogMsgs, ServersBehind
    <3>. QED
      BY <1>2, <3>1
  <2>2. CASE m.bgClock = bgClock'[c]
    BY <1>2, <2>2
  <2>. QED
    BY <2>1, <2>2
<1>4. sClock'[s][c] <= bgClock'[c]
  BY <1>2
<1>. QED
  BY <1>3, <1>4

LEMMA QuietStale ==
  ASSUME TypeOK, TypeOK', OwnInv', StaleInv, BgAdvances, Quiet
  PROVE  StaleInv'
<1>1. /\ UNCHANGED <<made, oplog, sClock>> /\ FewerOrFreshReplies
      /\ \A c \in Clients, s \in Servers : OpLogsTo(c, s)' = OpLogsTo(c, s)
      /\ \A c \in Clients, r \in Rows : storage'[c][r] \in {storage[c][r], NoRow}
  BY DEF Quiet, SameOpLogs
<1>2. ServersBehind'
  BY <1>1, SentBehind DEF StaleInv
<1>3. ASSUME NEW c \in Clients, NEW r \in Rows
      PROVE  Recent(c, r, ServerOf[r])'
  <2>1. ServerOf[r] \in Servers /\ Recent(c, r, ServerOf[r])
    BY SSPAssumption DEF StaleInv, UnappliedRecent
  <2>2. OpLogsTo(c, ServerOf[r])' = OpLogsTo(c, ServerOf[r]) /\ oplog' = oplog /\ sClock' = sClock
    BY <1>1, <2>1
  <2>. QED
    BY <2>1, <2>2 DEF Recent
<1>4. UnappliedRecent'
  BY <1>3 DEF UnappliedRecent
<1>5. \A s \in Servers, d \in Clients : sClock[s][d] <= sClock'[s][d]
  BY <1>1 DEF TypeOK, TypeServer
<1>6. RepliesCurrent'
  BY <1>1, <1>4, <1>5, FreshNextCurrent, FreshOrOldCurrent DEF StaleInv, OwnInv
<1>7. NoRow.clock = -1
  BY DEF NoRow
<1>8. ASSUME NEW c \in Clients, NEW r \in Rows
      PROVE  /\ \A d \in Clients : storage'[c][r].clock <= sClock'[ServerOf[r]][d]
             /\ \A u \in made'[r] : u[2] < storage'[c][r].clock => u \in storage'[c][r].data
  <2>1. CASE storage'[c][r] = storage[c][r]
    BY <1>1, <2>1 DEF StaleInv, RowsBehind, BoundedStaleness
  <2>2. CASE storage'[c][r] = NoRow
    <3>1. \A u \in made'[r] : u[2] \in Nat
      <4>1. made'[r] \subseteq Updates
        BY DEF TypeOK, TypeHistory, Logs
      <4>. QED
        BY <4>1, ClocksAreNat DEF Updates
    <3>2. \A d \in Clients : sClock'[ServerOf[r]][d] \in Nat
      BY SSPAssumption DEF TypeOK, TypeServer
    <3>. QED
      BY <1>7, <2>2, <3>1, <3>2
  <2>. QED
    BY <1>1, <2>1, <2>2
<1>. QED
  BY <1>2, <1>4, <1>6, <1>8 DEF StaleInv, RowsBehind, BoundedStaleness

LEMMA BatchedStale ==
  ASSUME TypeOK, TypeOK', ChannelInv, OwnInv, StaleInv, UnsentIndexed, BgAdvances,
         NEW c \in Clients, NEW advanced, Batched(c, advanced)
  PROVE  StaleInv'
<1> DEFINE clk == bgClock'[c]
<1>1. /\ UNCHANGED <<made, storage, sClock>> /\ FewerReplies
      /\ Sent(c, advanced, clk)
  BY DEF Batched
<1>2. clk \in Nat /\ \A t \in ThreadsOf(c) : clk <= clock[t]
  BY DEF TypeOK, TypeBg, BgAdvances
<1> HIDE DEF clk
<1>3. /\ \A r \in Rows : /\ Batch(c)[r] \subseteq oplog[c][r]
                         /\ oplog'[c][r] = oplog[c][r] \ Batch(c)[r]
      /\ \A s \in Servers :
           LET m == OpLogMsg(c, s, advanced, clk)
           IN  /\ OpLogsTo(c, s)' = OpLogsTo(c, s) \cup {m}
               /\ m.version = version[c] /\ m.isClock = advanced /\ m.bgClock = clk
               /\ \A r \in Rows : m.log[r] = IF ServerOf[r] = s THEN Batch(c)[r] ELSE {}
  BY <1>1, SentEffect
<1>4. \A d \in Clients : d # c =>
        /\ oplog'[d] = oplog[d]
        /\ \A s \in Servers : OpLogsTo(d, s)' = OpLogsTo(d, s)
  BY <1>1 DEF Sent
<1>5. ServersBehind'
  <2>1. \A d \in Clients, s \in Servers : \A m \in OpLogsTo(d, s)' :
          m \in OpLogsTo(d, s) \/ m.bgClock = bgClock'[d]
    BY <1>3, <1>4 DEF clk
  <2>. QED
    BY <1>1, <2>1, SentBehind DEF StaleInv
<1>6. RepliesCurrent' /\ RowsBehind' /\ BoundedStaleness'
  BY <1>1, FewerCurrent DEF StaleInv, RowsBehind, BoundedStaleness
<1>7. ASSUME NEW d \in Clients, NEW r \in Rows, d # c
      PROVE  Recent(d, r, ServerOf[r])'
  <2>1. ServerOf[r] \in Servers /\ Recent(d, r, ServerOf[r])
    BY SSPAssumption DEF StaleInv, UnappliedRecent
  <2>2. OpLogsTo(d, ServerOf[r])' = OpLogsTo(d, ServerOf[r]) /\ oplog'[d] = oplog[d] /\ sClock' = sClock
    BY <1>1, <1>4, <1>7, <2>1
  <2>. QED
    BY <2>1, <2>2 DEF Recent
<1>8. ASSUME NEW r \in Rows
      PROVE  Recent(c, r, ServerOf[r])'
  <2> DEFINE s == ServerOf[r]
             m == OpLogMsg(c, s, advanced, clk)
  <2>1. s \in Servers /\ Recent(c, r, s) /\ s' = s
    BY SSPAssumption DEF StaleInv, UnappliedRecent
  <2>2. /\ OpLogsTo(c, s)' = OpLogsTo(c, s) \cup {m}
        /\ m.version = version[c] /\ m.isClock = advanced /\ m.bgClock = clk
        /\ m.log[r] = Batch(c)[r]
    BY <1>3, <2>1
  <2>3. ASSUME NEW u \in oplog'[c][r]
        PROVE  u \in oplog[c][r] /\ clk <= u[2]
    <3>1. u \in oplog[c][r] /\ u \notin Batch(c)[r]
      BY <1>3
    <3>2. r \notin index[c]
      BY <3>1 DEF Batch
    <3>3. u[2] = clock[u[1]] /\ u[1] \in ThreadsOf(c)
      BY <3>1, <3>2, OplogUpdates DEF UnsentIndexed, OwnInv
    <3>. QED
      BY <1>2, <3>1, <3>3
  <2>4. \A n \in OpLogsTo(c, s) : n.version < version[c] /\ n.version \in Nat /\ version[c] \in Nat
    <3>1. InOrder(toServer[c][s], "OpLog", sVersion[s][c], version[c])
      BY <2>1 DEF ChannelInv, ToServerInv
    <3>2. \A n \in OpLogsTo(c, s) : n \in OpLogMsgs
      BY <2>1, ChannelTypes
    <3>3. toServer[c][s] \in Seq(ToServerMsgs)
      BY <2>1 DEF TypeOK, TypeNet, ToServerMsgs
    <3>4. \A n \in OpLogsTo(c, s) : \E i \in 1 .. Len(toServer[c][s]) :
            toServer[c][s][i] = n /\ n.type = "OpLog"
      BY <3>3, OfTypeBySome DEF OpLogsTo
    <3>. QED
      BY ZenonT(30), <3>1, <3>2, <3>4 DEF InOrder, OpLogMsgs, TypeOK, TypeBg
  <2>5. Batch(c)[r] \subseteq oplog[c][r]
    BY <1>3
  <2> HIDE DEF m, s
  <2>6. \A u \in oplog'[c][r] : sClock[s][c] <= u[2]
    BY <2>1, <2>3 DEF Recent
  <2>7. \A n \in OpLogsTo(c, s)' : \A u \in n.log[r] : sClock[s][c] <= u[2]
    BY <2>1, <2>2, <2>5 DEF Recent
  <2>8. ASSUME NEW k \in OpLogsTo(c, s)', k.isClock
        PROVE  /\ \A u \in oplog'[c][r] : k.bgClock <= u[2]
               /\ \A n \in OpLogsTo(c, s)' : n.version > k.version => \A u \in n.log[r] : k.bgClock <= u[2]
    <3>1. CASE k = m
      <4>1. \A n \in OpLogsTo(c, s)' : ~(n.version > k.version)
        <5>1. version[c] \in Nat /\ k.version = version[c]
          BY <2>2, <3>1 DEF TypeOK, TypeBg
        <5>2. \A n \in OpLogsTo(c, s)' : n \in OpLogsTo(c, s) \/ n.version = version[c]
          BY <2>2
        <5>. QED
          BY <2>4, <5>1, <5>2
      <4>. QED
        BY <2>2, <2>3, <3>1, <4>1
    <3>2. CASE k \in OpLogsTo(c, s)
      <4>1. \A u \in oplog[c][r] : k.bgClock <= u[2]
        BY <2>1, <2>8, <3>2 DEF Recent
      <4>2. \A n \in OpLogsTo(c, s) : n.version > k.version => \A u \in n.log[r] : k.bgClock <= u[2]
        BY <2>1, <2>8, <3>2 DEF Recent
      <4>. QED
        BY <2>2, <2>3, <2>5, <4>1, <4>2
    <3>. QED
      BY <2>2, <3>1, <3>2
  <2>9. Recent(c, r, s)'
    BY <1>1, <2>1, <2>6, <2>7, <2>8 DEF Recent
  <2>. QED
    BY <2>9 DEF s
<1>. QED
  BY <1>5, <1>6, <1>7, <1>8 DEF StaleInv, UnappliedRecent

LEMMA ReplayedStale ==
  ASSUME TypeOK, TypeOK', ChannelInv, StaleInv, RepliesApart, BgAdvances,
         NEW c \in Clients, NEW s \in Servers, NEW m, RowRebuilt(s, c, m)
  PROVE  StaleInv'
<1>1. /\ UNCHANGED <<made, oplog, sClock>> /\ FewerReplies
      /\ \A d \in Clients, x \in Servers : OpLogsTo(d, x)' = OpLogsTo(d, x)
      /\ m \in RepliesTo(s, c)
  BY DEF RowRebuilt, SameOpLogs
<1>2. ServersBehind'
  BY <1>1, SentBehind DEF StaleInv
<1>3. ASSUME NEW d \in Clients, NEW r \in Rows
      PROVE  Recent(d, r, ServerOf[r])'
  <2>1. ServerOf[r] \in Servers /\ Recent(d, r, ServerOf[r])
    BY SSPAssumption DEF StaleInv, UnappliedRecent
  <2>2. OpLogsTo(d, ServerOf[r])' = OpLogsTo(d, ServerOf[r]) /\ oplog' = oplog /\ sClock' = sClock
    BY <1>1, <2>1
  <2>. QED
    BY <2>1, <2>2 DEF Recent
<1>4. RepliesCurrent'
  BY <1>1, FewerCurrent DEF StaleInv
<1>5. /\ m.row \in Rows /\ m.version \in Int /\ version[c] \in Nat
      /\ Current(s, m) /\ m.version < version[c] /\ ServerOf[m.row] = s
  <2>1. m.row \in Rows /\ m.version \in Int /\ version[c] \in Nat
    BY <1>1, ChannelTypes DEF RowReplyMsgs, Versions, TypeOK, TypeBg
  <2>2. Current(s, m) /\ m.version < version[c]
    BY <1>1 DEF StaleInv, RepliesCurrent, RepliesApart, ReplyApart
  <2>3. ServerOf[m.row] = s
    BY <1>1 DEF ChannelInv, ToClientInv
  <2>. QED
    BY <2>1, <2>2, <2>3
<1>6. m.data \subseteq NewRow(c, m).data /\ NewRow(c, m).clock = m.clock
  <2> DEFINE parts == Addends(c, m)
  <2>1. m.version \in DOMAIN parts /\ parts[m.version] = m.data
    BY <1>5 DEF Addends
  <2>2. NewRow(c, m).data = UNION Range(parts) /\ NewRow(c, m).clock = m.clock
    BY DEF NewRow
  <2> HIDE DEF parts
  <2>. QED
    BY <2>1, <2>2 DEF Range
<1>7. ASSUME NEW d \in Clients, NEW r \in Rows
      PROVE  /\ \A x \in Clients : storage'[d][r].clock <= sClock'[ServerOf[r]][x]
             /\ \A u \in made'[r] : u[2] < storage'[d][r].clock => u \in storage'[d][r].data
  <2>1. CASE d = c /\ r = m.row
    <3>1. storage'[d][r] = NewRow(c, m)
      BY <2>1, ReplayedRow
    <3>. QED
      BY <1>1, <1>5, <1>6, <2>1, <3>1 DEF Current
  <2>2. CASE ~(d = c /\ r = m.row)
    <3>1. storage'[d][r] = storage[d][r]
      BY <2>2, ReplayedRow
    <3>. QED
      BY <1>1, <3>1 DEF StaleInv, RowsBehind, BoundedStaleness
  <2>. QED
    BY <2>1, <2>2
<1>. QED
  BY <1>2, <1>3, <1>4, <1>7 DEF StaleInv, UnappliedRecent, RowsBehind, BoundedStaleness

(* The batch a server applies is the first of those on their way.          *)
LEMMA FirstBatch ==
  ASSUME TypeOK, ChannelInv, NEW c \in Clients, NEW s \in Servers,
         NEW m \in OpLogsTo(c, s), m.version = sVersion[s][c] + 1,
         NEW n \in OpLogsTo(c, s), n # m
  PROVE  n.version > m.version
<1>1. /\ InOrder(toServer[c][s], "OpLog", sVersion[s][c], version[c])
      /\ toServer[c][s] \in Seq(ToServerMsgs)
      /\ sVersion[s][c] \in Int
  BY DEF ChannelInv, ToServerInv, TypeOK, TypeNet, ToServerMsgs, TypeServer, Versions
<1>2. m \in OpLogMsgs /\ n \in OpLogMsgs
  BY ChannelTypes
<1>3. \A k \in OpLogsTo(c, s) : \E i \in 1 .. Len(toServer[c][s]) :
        toServer[c][s][i] = k /\ k.type = "OpLog"
  BY <1>1, OfTypeBySome DEF OpLogsTo
<1>4. PICK i \in 1 .. Len(toServer[c][s]) : toServer[c][s][i] = m /\ m.type = "OpLog"
  BY <1>3
<1>5. PICK j \in 1 .. Len(toServer[c][s]) : toServer[c][s][j] = n /\ n.type = "OpLog"
  BY <1>3
<1>6. sVersion[s][c] < n.version
  BY <1>1, <1>5 DEF InOrder
<1>7. i # j
  BY <1>4, <1>5
<1>8. i < j \/ j < i
  BY <1>7
<1>9. m.version < n.version \/ n.version < m.version
  BY <1>1, <1>4, <1>5, <1>8 DEF InOrder
<1>. QED
  BY <1>1, <1>2, <1>6, <1>9 DEF OpLogMsgs

(* The clock of the batch is the client's new clock, or is behind it.      *)
LEMMA AppliedClocks ==
  ASSUME TypeOK, NEW c \in Clients, NEW s \in Servers, NEW m, AppliedBatch(c, s, m)
  PROVE  /\ \A d \in Clients, x \in Servers : ~(d = c /\ x = s) => sClock'[x][d] = sClock[x][d]
         /\ \/ sClock'[s][c] = sClock[s][c]
            \/ m.isClock /\ sClock'[s][c] = m.bgClock /\ sClock[s][c] <= m.bgClock
         /\ \A x \in Servers, d \in Clients : sClock[x][d] <= sClock'[x][d]
         /\ m.isClock => m.bgClock <= sClock'[s][c]
<1>1. /\ m \in OpLogsTo(c, s)
      /\ sClock' = [sClock EXCEPT ![s] = IF m.isClock THEN ClockUntil(s, c, m.bgClock) ELSE @]
  BY DEF AppliedBatch
<1>2. m \in OpLogMsgs /\ m.bgClock \in Nat /\ sClock \in [Servers -> [Clients -> Nat]]
  BY <1>1, ChannelTypes DEF OpLogMsgs, TypeOK, TypeServer
<1>3. \A d \in Clients, x \in Servers : ~(d = c /\ x = s) => sClock'[x][d] = sClock[x][d]
  <2>1. CASE m.isClock
    <3>1. sClock'[s] = [sClock[s] EXCEPT ![c] = Max({@, m.bgClock})]
      BY <1>1, <1>2, <2>1 DEF ClockUntil
    <3>. QED
      BY <1>1, <1>2, <3>1
  <2>2. CASE ~m.isClock
    BY <1>1, <1>2, <2>2
  <2>. QED
    BY <2>1, <2>2
<1>4. /\ \/ sClock'[s][c] = sClock[s][c]
         \/ m.isClock /\ sClock'[s][c] = m.bgClock /\ sClock[s][c] <= m.bgClock
      /\ m.isClock => m.bgClock <= sClock'[s][c]
  <2>1. CASE m.isClock
    <3> DEFINE a == sClock[s][c]
               b == m.bgClock
    <3>1. sClock'[s][c] = Max({a, b})
      BY <1>1, <1>2, <2>1 DEF ClockUntil
    <3>2. a \in Nat /\ b \in Nat
      BY <1>2
    <3> HIDE DEF a, b
    <3>3. IsFiniteSet({a, b})
      <4>1. {a, b} = {a} \cup {b}
        OBVIOUS
      <4>2. IsFiniteSet({a} \cup {b})
        BY FS_Singleton, FS_AddElement
      <4>. QED
        BY <4>1, <4>2
    <3>4. Max({a, b}) \in {a, b} /\ \A y \in {a, b} : Max({a, b}) >= y
      BY <3>2, <3>3, MaxIsGreatest
    <3>5. /\ Max({a, b}) = a \/ (Max({a, b}) = b /\ a <= b)
          /\ b <= Max({a, b})
      BY <3>2, <3>4
    <3>. QED
      BY <2>1, <3>1, <3>5 DEF a, b
  <2>2. CASE ~m.isClock
    BY <1>1, <1>2, <2>2
  <2>. QED
    BY <2>1, <2>2
<1>5. \A x \in Servers, d \in Clients : sClock[x][d] <= sClock'[x][d]
  BY <1>2, <1>3, <1>4
<1>. QED
  BY <1>3, <1>4, <1>5

LEMMA AppliedStale ==
  ASSUME TypeOK, TypeOK', ChannelInv, OwnInv', StaleInv, BgAdvances,
         NEW c \in Clients, NEW s \in Servers, NEW m, AppliedBatch(c, s, m)
  PROVE  StaleInv'
<1>1. /\ UNCHANGED <<made, oplog, storage>> /\ FewerOrFreshReplies
      /\ m \in OpLogsTo(c, s) /\ m.version = sVersion[s][c] + 1
      /\ \A d \in Clients, x \in Servers :
           OpLogsTo(d, x)' = IF d = c /\ x = s THEN OpLogsTo(d, x) \ {m} ELSE OpLogsTo(d, x)
  BY DEF AppliedBatch
<1>2. /\ m \in OpLogMsgs /\ m.bgClock \in Nat /\ sClock \in [Servers -> [Clients -> Nat]]
      /\ m.bgClock <= bgClock[c] /\ sClock[s][c] <= bgClock[c] /\ bgClock[c] \in Nat
  BY SMTT(20), <1>1, ChannelTypes DEF OpLogMsgs, TypeOK, TypeServer, TypeBg, StaleInv, ServersBehind
<1>3. /\ \A d \in Clients, x \in Servers : ~(d = c /\ x = s) => sClock'[x][d] = sClock[x][d]
      /\ \/ sClock'[s][c] = sClock[s][c]
         \/ m.isClock /\ sClock'[s][c] = m.bgClock /\ sClock[s][c] <= m.bgClock
      /\ \A x \in Servers, d \in Clients : sClock[x][d] <= sClock'[x][d]
  BY AppliedClocks
<1>6. \A d \in Clients, x \in Servers : OpLogsTo(d, x)' \subseteq OpLogsTo(d, x)
  BY <1>1
<1>7. ASSUME NEW d \in Clients, NEW x \in Servers
      PROVE  /\ sClock'[x][d] <= bgClock'[d]
             /\ \A n \in OpLogsTo(d, x)' : n.bgClock <= bgClock'[d]
  <2>1. bgClock[d] \in Nat /\ bgClock'[d] \in Nat /\ bgClock[d] <= bgClock'[d]
    BY DEF TypeOK, TypeBg, BgAdvances
  <2>2. sClock'[x][d] <= bgClock[d] /\ sClock'[x][d] \in Nat
    BY <1>2, <1>3 DEF StaleInv, ServersBehind, TypeOK, TypeServer
  <2>3. \A n \in OpLogsTo(d, x)' : n.bgClock <= bgClock[d] /\ n.bgClock \in Nat
    BY <1>6, ChannelTypes DEF OpLogMsgs, StaleInv, ServersBehind
  <2>. QED
    BY <2>1, <2>2, <2>3
<1>8. ASSUME NEW d \in Clients, NEW r \in Rows
      PROVE  Recent(d, r, ServerOf[r])'
  <2> DEFINE x == ServerOf[r]
  <2>1. x \in Servers /\ Recent(d, r, x) /\ x' = x
    BY SSPAssumption DEF StaleInv, UnappliedRecent
  <2> HIDE DEF x
  <2>2. OpLogsTo(d, x)' \subseteq OpLogsTo(d, x) /\ oplog' = oplog
    BY <1>1, <1>6, <2>1
  <2>3. ASSUME sClock'[x][d] = sClock[x][d]
        PROVE  Recent(d, r, x)'
    BY <2>1, <2>2, <2>3 DEF Recent
  <2>4. ASSUME x = s, d = c, m.isClock, sClock'[x][d] = m.bgClock
        PROVE  Recent(d, r, x)'
    <3>1. \A u \in oplog[d][r] : m.bgClock <= u[2]
      BY <1>1, <2>1, <2>4 DEF Recent
    <3>2. \A n \in OpLogsTo(d, x)' : \A u \in n.log[r] : m.bgClock <= u[2]
      <4>1. \A n \in OpLogsTo(d, x)' : n \in OpLogsTo(c, s) /\ n # m
        BY <1>1, <2>4
      <4>2. \A n \in OpLogsTo(d, x)' : n.version > m.version
        BY <1>1, <4>1, FirstBatch
      <4>. QED
        BY <1>1, <2>1, <2>4, <4>1, <4>2 DEF Recent
    <3>3. \A k \in OpLogsTo(d, x)' : k.isClock =>
            /\ \A u \in oplog[d][r] : k.bgClock <= u[2]
            /\ \A n \in OpLogsTo(d, x)' : n.version > k.version => \A u \in n.log[r] : k.bgClock <= u[2]
      BY <2>1, <2>2 DEF Recent
    <3>. QED
      BY <2>1, <2>2, <2>4, <3>1, <3>2, <3>3 DEF Recent
  <2>5. Recent(d, r, x)'
    BY <1>3, <2>1, <2>3, <2>4
  <2>. QED
    BY <2>5 DEF x
<1>9. UnappliedRecent'
  BY <1>8 DEF UnappliedRecent
<1>10. RepliesCurrent'
  BY <1>1, <1>3, <1>9, FreshNextCurrent, FreshOrOldCurrent DEF StaleInv, OwnInv
<1>11. ASSUME NEW d \in Clients, NEW r \in Rows, NEW e \in Clients
       PROVE  storage'[d][r].clock <= sClock'[ServerOf[r]][e]
  <2>1. /\ storage[d][r].clock \in Int /\ storage'[d][r] = storage[d][r]
        /\ ServerOf[r] \in Servers
    BY <1>1, SSPAssumption DEF TypeOK, TypeClient, CachedRows, Versions
  <2>2. sClock[ServerOf[r]][e] \in Nat /\ sClock'[ServerOf[r]][e] \in Nat
    BY <2>1 DEF TypeOK, TypeServer
  <2>3. storage[d][r].clock <= sClock[ServerOf[r]][e]
    BY DEF StaleInv, RowsBehind
  <2>4. sClock[ServerOf[r]][e] <= sClock'[ServerOf[r]][e]
    BY <1>3, <2>1
  <2>. QED
    BY <2>1, <2>2, <2>3, <2>4
<1>12. BoundedStaleness'
  BY <1>1 DEF StaleInv, BoundedStaleness
<1>. QED
  BY <1>7, <1>9, <1>10, <1>11, <1>12 DEF StaleInv, ServersBehind, RowsBehind
-----------------------------------------------------------------------------
ClocksInv == ReplayInv /\ TickInv /\ StaleInv

LEMMA InitClocks == Init => ClocksInv
BY InitReplay, InitTick, InitStale DEF ClocksInv

LEMMA ClocksStep == ClocksInv /\ [Next]_vars => ClocksInv' /\ Effect
<1>1. SUFFICES ASSUME ClocksInv, [Next]_vars PROVE ClocksInv' /\ Effect
  OBVIOUS
<1>2. ReplayInv /\ ReplayInv' /\ Effect /\ TickInv /\ StaleInv
  BY <1>1, ReplayStep DEF ClocksInv
<1>3. /\ TypeOK /\ ChannelInv /\ OwnInv /\ RepliesApart
      /\ TypeOK' /\ OwnInv'
  BY <1>2 DEF ReplayInv, ApartInv
<1>4. TickInv'
  BY <1>1, <1>2, <1>3, StepTick
<1>5. BgAdvances
  BY <1>1, <1>2, <1>3, <1>4, StepBgAdvances
<1>6. ASSUME NEW t \in Writers, NEW r \in Rows, Inc(t, r)
      PROVE  StaleInv'
  <2>1. t \in Threads /\ UNCHANGED bgClock
    BY <1>6, SSPAssumption DEF Inc, bgVars
  <2>2. NoneBehindBg
    BY <1>2, <1>3, TickTypesHold, BgBehind DEF TickInv, NoneBehindBg
  <2>. QED
    BY <1>2, <1>3, <1>6, <2>1, <2>2, IncStale
<1>7. StaleInv'
  BY <1>2, <1>3, <1>5, <1>6, QuietStale, BatchedStale, ReplayedStale, AppliedStale
  DEF Effect, TickInv
<1>. QED
  BY <1>2, <1>4, <1>7 DEF ClocksInv

(* SSP's promise, kept by the clocks a server gives the rows it answers    *)
(* with (HandleRowRequest, GetFulfilledRowRequests): a cached row of clock *)
(* k holds every update that any thread of any client made before it       *)
(* reached clock k.                                                        *)
THEOREM StalenessBounded == Spec => []BoundedStaleness
<1>1. ClocksInv => BoundedStaleness
  BY DEF ClocksInv, StaleInv
<1>. QED
  BY <1>1, InitClocks, ClocksStep, PTL DEF Spec

-----------------------------------------------------------------------------
(* Requests: a thread waits for one request, which is on its way to the    *)
(* worker or listed by it, and for no other.                               *)
Places(m) == { p \in Rows \X Nat : p[2] \in 1 .. Len(m.reqs[p[1]]) }

EntryAt(m, p) ==
  LET e == m.reqs[p[1]][p[2]]
  IN  [row |-> p[1], thread |-> e.thread, clock |-> e.clock]

Entries(m) == { EntryAt(m, p) : p \in Places(m) }

ListedOnce(m) ==
  \A p, q \in Places(m) : EntryAt(m, p).thread = EntryAt(m, q).thread => p = q

Unlisted(t) == \A e \in Entries(mgr[ClientOf[t]]) : e.thread # t

(* A reply takes the requests it meets, and leaves the others as they are. *)
LEMMA ServedAreMet ==
  ASSUME NEW list \in Seq(Requests), NEW k \in Nat, NEW i \in 1 .. NumServed(list, k)
  PROVE  list[i].clock <= k
<1> DEFINE n == NumServed(list, k)
           served == { j \in DOMAIN list : \A h \in 1 .. j : list[h].clock <= k }
<1>1. n \in 0 .. Len(list) /\ Len(list) \in Nat /\ i \in Nat /\ i <= n /\ 1 <= i
  BY NumServedType
<1>2. n = Cardinality(served)
  BY DEF NumServed
<1>3. SUFFICES ASSUME i \notin served PROVE FALSE
  <2>1. i \in 1 .. i
    BY <1>1
  <2>. QED
    BY <1>3, <2>1
<1>4. PICK h \in 1 .. i : ~(list[h].clock <= k)
  BY <1>1, <1>3
<1>5. served \subseteq 1 .. i - 1
  <2>1. ASSUME NEW j \in served PROVE j \in 1 .. i - 1
    <3>1. j \in 1 .. Len(list) /\ h \notin 1 .. j
      BY <1>4
    <3>. QED
      BY <1>1, <3>1
  <2>. QED
    BY <2>1
<1>6. IsFiniteSet(1 .. i - 1) /\ Cardinality(1 .. i - 1) = i - 1
  <2>1. i - 1 \in Nat /\ 1 \in Int /\ i - 1 \in Int /\ (1 > i - 1 => i - 1 = 0)
        /\ i - 1 - 1 + 1 = i - 1
    BY <1>1
  <2>2. IsFiniteSet(1 .. i - 1)
    BY <2>1, FS_Interval
  <2>3. Cardinality(1 .. i - 1) = IF 1 > i - 1 THEN 0 ELSE (i - 1) - 1 + 1
    BY <2>1, FS_Interval
  <2>. QED
    BY <2>1, <2>2, <2>3
<1> HIDE DEF served
<1>7. Cardinality(served) <= i - 1
  BY ZenonT(30), <1>5, <1>6, FS_Subset
<1>. QED
  BY <1>1, <1>2, <1>7

LEMMA PopServedReqs ==
  ASSUME NEW m \in Managers, NEW r \in Rows, NEW k, NEW v
  PROVE  PopServed(m, r, k, v).reqs =
           [m.reqs EXCEPT ![r] = SubSeq(@, NumServed(@, k) + 1, Len(@))]
<1> DEFINE n == NumServed(m.reqs[r], k)
           gone == ReleasedByPops(m, r, n, v)
<1>1. Popped(m, r, n).reqs = [m.reqs EXCEPT ![r] = SubSeq(@, n + 1, Len(@))]
  BY DEF Popped, Managers
<1>2. Without(Popped(m, r, n), gone).reqs = Popped(m, r, n).reqs
  <2> HIDE DEF gone, n
  <2>. QED
    BY DEF Without, Popped, Managers
<1>3. PopServed(m, r, k, v) = Without(Popped(m, r, n), gone)
  BY DEF PopServed
<1>. QED
  BY <1>1, <1>2, <1>3

LEMMA InformReplyReqs ==
  ASSUME NEW m \in Managers, NEW r \in Rows, NEW k \in Nat, NEW v \in Nat,
         NEW list, list = m.reqs[r], NEW n, n = NumServed(list, k),
         NEW reqs, reqs = InformReply(m, r, k, v).reqs
  PROVE  /\ \A x \in Rows : x # r => reqs[x] = m.reqs[x]
         /\ Len(reqs[r]) = Len(list) - n
         /\ \A i \in 1 .. Len(list) - n : /\ reqs[r][i].thread = list[n + i].thread
                                          /\ reqs[r][i].clock = list[n + i].clock
<1> DEFINE popped  == PopServed(m, r, k, v)
           rest    == SubSeq(list, n + 1, Len(list))
           renewed == Renewed(popped, r, v)
<1>1. list \in Seq(Requests) /\ n \in 0 .. Len(list) /\ Len(list) \in Nat
  <2>1. list \in Seq(Requests)
    BY DEF Managers
  <2>2. n \in 0 .. Len(list)
    BY ONLY n = NumServed(list, k), k \in Nat, <2>1, NumServedType
  <2>. QED
    BY <2>1, <2>2
<1>2. /\ Len(rest) = Len(list) - n
      /\ \A i \in 1 .. Len(list) - n : rest[i] = list[n + i]
      /\ rest \in Seq(Requests)
  <2>1. \A i \in n + 1 .. Len(list) : list[i] \in Requests
    BY <1>1, ElementOfSeq
  <2>2. /\ Len(rest) = IF n + 1 <= Len(list) THEN Len(list) - (n + 1) + 1 ELSE 0
        /\ \A i \in 1 .. Len(list) - (n + 1) + 1 : rest[i] = list[n + 1 + i - 1]
        /\ rest \in Seq(Requests)
    <3>1. n + 1 \in 1 .. Len(list) + 1 /\ Len(list) \in Nat
      BY <1>1
    <3>. QED
      BY SMTT(20), <1>1, <2>1, <3>1, SubSeqProperties
  <2> HIDE DEF rest
  <2>3. \A i \in 1 .. Len(list) - n : i \in 1 .. Len(list) - (n + 1) + 1 /\ n + 1 + i - 1 = n + i
    BY <1>1
  <2>4. Len(rest) = Len(list) - n
    BY <1>1, <2>2
  <2>. QED
    BY <2>2, <2>3, <2>4
<1>3. popped.reqs = [m.reqs EXCEPT ![r] = rest] /\ popped \in Managers
  <2>1. popped \in Managers
    BY PopServedType
  <2>2. popped.reqs = [m.reqs EXCEPT ![r] = SubSeq(@, NumServed(@, k) + 1, Len(@))]
    BY PopServedReqs
  <2>. QED
    BY <2>1, <2>2
<1>4. popped.reqs[r] = rest /\ \A x \in Rows : x # r => popped.reqs[x] = m.reqs[x]
  BY <1>3 DEF Managers
<1> HIDE DEF rest, popped
<1>5. CASE ClockToRequest(popped, r) < 0
  <2>1. reqs = popped.reqs
    BY <1>5 DEF InformReply, popped
  <2>. QED
    BY <1>2, <1>4, <2>1
<1>6. CASE ~(ClockToRequest(popped, r) < 0)
  <2> DEFINE front == [Head(rest) EXCEPT !.sent = TRUE, !.version = v - 1]
             gone  == Released(renewed, Head(popped.reqs[r]).version, v)
  <2>1. rest # << >>
    <3>1. ClockToRequest(popped, r) \in Clocks \cup {-1}
      BY <1>3, ClockToRequestType
    <3>2. ClockToRequest(popped, r) \in Int
      BY <3>1, SSPAssumption DEF Clocks
    <3>3. ClockToRequest(popped, r) >= 0 => popped.reqs[r] # << >>
      BY <1>3, ClockToRequestType
    <3>. QED
      BY <1>4, <1>6, <3>2, <3>3
  <2>2. /\ Head(rest) = rest[1] /\ Tail(rest) \in Seq(Requests)
        /\ Len(Tail(rest)) = Len(rest) - 1
        /\ \A i \in 1 .. Len(rest) - 1 : Tail(rest)[i] = rest[i + 1]
        /\ Head(rest) \in Requests
    BY <1>2, <2>1, HeadTailProperties
  <2>3. front.thread = rest[1].thread /\ front.clock = rest[1].clock /\ front \in Requests
    <3>1. v - 1 \in Versions
      BY DEF Versions
    <3>. QED
      BY <2>2, <3>1 DEF Requests
  <2>4. renewed.reqs = [popped.reqs EXCEPT ![r] = << front >> \o Tail(rest)]
    BY <1>3, <1>4 DEF Renewed, Managers
  <2>5. reqs = renewed.reqs
    <3>1. InformReply(m, r, k, v) = Without(renewed, gone)
      BY <1>6 DEF InformReply, popped
    <3>2. Without(renewed, gone).reqs = renewed.reqs
      <4> HIDE DEF gone
      <4>. QED
        BY <1>3 DEF Without, Renewed, Managers
    <3>. QED
      BY <3>1, <3>2
  <2> HIDE DEF front, renewed
  <2>6. /\ Len(<< front >> \o Tail(rest)) = Len(rest)
        /\ (<< front >> \o Tail(rest))[1] = front
        /\ \A i \in 2 .. Len(rest) : (<< front >> \o Tail(rest))[i] = rest[i]
    <3>1. << front >> \in Seq(Requests) /\ Len(<< front >>) = 1 /\ << front >>[1] = front
      BY <2>3
    <3>2. Len(rest) \in Nat
      BY <1>2
    <3>3. /\ Len(<< front >> \o Tail(rest)) = 1 + (Len(rest) - 1)
          /\ \A i \in 1 .. 1 + (Len(rest) - 1) : (<< front >> \o Tail(rest))[i] =
                IF i <= 1 THEN << front >>[i] ELSE Tail(rest)[i - 1]
      BY <2>2, <3>1, ConcatProperties
    <3>4. Len(rest) >= 1
      BY <1>2, <2>1
    <3>5. (<< front >> \o Tail(rest))[1] = front
      BY <3>1, <3>2, <3>3, <3>4
    <3>6. ASSUME NEW i \in 2 .. Len(rest)
          PROVE  (<< front >> \o Tail(rest))[i] = rest[i]
      <4>1. i - 1 \in 1 .. Len(rest) - 1 /\ (i - 1) + 1 = i /\ i \in 1 .. 1 + (Len(rest) - 1) /\ ~(i <= 1)
        BY <3>2
      <4>. QED
        BY <2>2, <3>3, <4>1
    <3>. QED
      BY <3>2, <3>3, <3>4, <3>5, <3>6
  <2>7. reqs[r] = << front >> \o Tail(rest) /\ \A x \in Rows : x # r => reqs[x] = m.reqs[x]
    BY <1>3, <1>4, <2>4, <2>5 DEF Managers
  <2>8. ASSUME NEW i \in 1 .. Len(list) - n
        PROVE  reqs[r][i].thread = list[n + i].thread /\ reqs[r][i].clock = list[n + i].clock
    <3>1. i = 1 \/ i \in 2 .. Len(rest)
      BY <1>1, <1>2
    <3>. QED
      BY <1>2, <2>3, <2>6, <2>7, <3>1
  <2>. QED
    BY <1>2, <2>6, <2>7, <2>8
<1>. QED
  BY <1>5, <1>6

(* Listing a request moves the ones behind its place by one.               *)
ListedAt(reqs, before, r, place, t, k) ==
  LET n == Len(before[r])
  IN  /\ \A x \in Rows : x # r => reqs[x] = before[x]
      /\ n \in Nat /\ Len(reqs[r]) = n + 1 /\ place \in 1 .. n + 1
      /\ reqs[r][place].thread = t /\ reqs[r][place].clock = k
      /\ \A i \in 1 .. place - 1 : reqs[r][i] = before[r][i]
      /\ \A i \in place + 1 .. n + 1 : reqs[r][i] = before[r][i - 1]

LEMMA AddRowRequestReqs ==
  ASSUME NEW m \in Managers, NEW r \in Rows, NEW t \in Threads,
         NEW k \in Clocks, NEW v \in Versions, NEW garbage \in BOOLEAN
  PROVE  ListedAt(AddRowRequest(m, r, t, k, v, garbage).reqs, m.reqs, r,
                  SortedPlace(m.reqs[r], k) + 1, t, k)
<1> DEFINE list  == m.reqs[r]
           place == SortedPlace(list, k) + 1
           reqs  == AddRowRequest(m, r, t, k, v, garbage).reqs
           entry == [thread |-> t, clock |-> k, version |-> v, sent |-> garbage]
           front == SubSeq(list, 1, place - 1)
           back  == SubSeq(list, place, Len(list))
           n     == Len(list)
           one   == << entry >>
<1>1. list \in Seq(Requests) /\ n \in Nat
  BY DEF Managers
<1>2. place \in 1 .. n + 1 /\ place \in Int
  BY <1>1, SortedPlaceType
<1>3. \A i \in 1 .. n : list[i] \in Requests
  BY <1>1, ElementOfSeq
<1>4. /\ front \in Seq(Requests) /\ Len(front) = place - 1
      /\ \A i \in 1 .. place - 1 : front[i] = list[i]
  <2>1. \A i \in 1 .. place - 1 : list[i] \in Requests
    BY <1>1, <1>2, <1>3
  <2>2. /\ front \in Seq(Requests)
        /\ Len(front) = IF 1 <= place - 1 THEN (place - 1) - 1 + 1 ELSE 0
        /\ \A i \in 1 .. (place - 1) - 1 + 1 : front[i] = list[1 + i - 1]
    BY <1>2, <2>1, SubSeqProperties
  <2> HIDE DEF front
  <2>3. \A i \in 1 .. place - 1 : i \in 1 .. (place - 1) - 1 + 1 /\ 1 + i - 1 = i
    BY <1>2
  <2>4. Len(front) = place - 1
    BY <1>1, <1>2, <2>2
  <2>. QED
    BY <2>2, <2>3, <2>4
<1>5. /\ back \in Seq(Requests) /\ Len(back) = n - place + 1
      /\ \A i \in 1 .. n - place + 1 : back[i] = list[place + i - 1]
  <2>1. \A i \in place .. n : list[i] \in Requests
    BY <1>1, <1>2, <1>3
  <2>2. /\ back \in Seq(Requests)
        /\ Len(back) = IF place <= n THEN n - place + 1 ELSE 0
        /\ \A i \in 1 .. n - place + 1 : back[i] = list[place + i - 1]
    BY <1>1, <1>2, <2>1, SubSeqProperties
  <2> HIDE DEF back
  <2>3. Len(back) = n - place + 1
    BY <1>1, <1>2, <2>2
  <2>. QED
    BY <2>2, <2>3
<1>6. reqs = [m.reqs EXCEPT ![r] = front \o one \o back]
  BY DEF AddRowRequest, InsertAt, Managers
<1>7. one \in Seq(Requests) /\ Len(one) = 1 /\ one[1] = entry
  BY DEF Requests
<1>8. entry.thread = t /\ entry.clock = k
  OBVIOUS
<1> SUFFICES ListedAt(reqs, m.reqs, r, place, t, k)
  OBVIOUS
<1> HIDE DEF front, back, entry, one, n, reqs, place
<1> DEFINE both == front \o one
           whole == both \o back
<1>9. /\ both \in Seq(Requests) /\ Len(both) = place
      /\ \A i \in 1 .. place - 1 : both[i] = list[i]
      /\ both[place] = entry
  <2>1. /\ both \in Seq(Requests) /\ Len(both) = Len(front) + Len(one)
        /\ \A i \in 1 .. Len(front) + Len(one) :
             both[i] = IF i <= Len(front) THEN front[i] ELSE one[i - Len(front)]
    BY <1>4, <1>7, ConcatProperties
  <2> HIDE DEF both
  <2>2. Len(front) + Len(one) = place /\ place - Len(front) = 1 /\ place \in 1 .. place
        /\ ~(place <= Len(front))
    BY <1>1, <1>2, <1>4, <1>7
  <2>3. both[place] = one[1] /\ Len(both) = place
    BY <2>1, <2>2
  <2>4. ASSUME NEW i \in 1 .. place - 1 PROVE both[i] = list[i]
    <3>1. i \in 1 .. place /\ i <= Len(front)
      BY <1>2, <1>4
    <3>2. both[i] = front[i]
      BY <2>1, <2>2, <3>1
    <3>. QED
      BY <1>4, <3>2
  <2>. QED
    BY <1>7, <2>1, <2>3, <2>4
<1>10. reqs[r] = whole /\ \A x \in Rows : x # r => reqs[x] = m.reqs[x]
  BY <1>6 DEF Managers
<1> HIDE DEF both
<1>11. /\ Len(whole) = Len(both) + Len(back)
       /\ \A i \in 1 .. Len(both) + Len(back) :
            whole[i] = IF i <= Len(both) THEN both[i] ELSE back[i - Len(both)]
  BY <1>5, <1>9, ConcatProperties
<1> HIDE DEF whole
<1>12. Len(both) + Len(back) = n + 1
  BY <1>1, <1>2, <1>5, <1>9
<1>13. ASSUME NEW i \in 1 .. place PROVE whole[i] = both[i]
  <2>1. i \in 1 .. n + 1 /\ i <= Len(both)
    BY <1>1, <1>2, <1>9
  <2>. QED
    BY <1>11, <1>12, <2>1
<1>14. ASSUME NEW i \in place + 1 .. n + 1 PROVE whole[i] = list[i - 1]
  <2>1. i \in 1 .. n + 1 /\ ~(i <= Len(both)) /\ i - Len(both) = i - place
    BY <1>1, <1>2, <1>9
  <2>2. whole[i] = back[i - place]
    BY <1>11, <1>12, <2>1
  <2>3. i - place \in 1 .. n - place + 1 /\ place + (i - place) - 1 = i - 1
    BY <1>1, <1>2
  <2>. QED
    BY <1>5, <2>2, <2>3
<1>15. /\ whole[place] = entry
       /\ \A i \in 1 .. place - 1 : whole[i] = list[i]
  <2>1. place \in 1 .. place /\ \A i \in 1 .. place - 1 : i \in 1 .. place
    BY <1>2
  <2>. QED
    BY <1>9, <1>13, <2>1
<1>. QED
  BY <1>1, <1>2, <1>8, <1>10, <1>11, <1>12, <1>14, <1>15 DEF n, ListedAt

LEMMA AddRowRequestEntries ==
  ASSUME NEW m \in Managers, NEW r \in Rows, NEW t \in Threads,
         NEW k \in Clocks, NEW v \in Versions, NEW garbage \in BOOLEAN,
         ListedOnce(m), \A e \in Entries(m) : e.thread # t
  PROVE  /\ ListedOnce(AddRowRequest(m, r, t, k, v, garbage))
         /\ Entries(AddRowRequest(m, r, t, k, v, garbage)) \subseteq
              Entries(m) \cup {[row |-> r, thread |-> t, clock |-> k]}
<1> DEFINE list  == m.reqs[r]
           place == SortedPlace(list, k) + 1
           new   == AddRowRequest(m, r, t, k, v, garbage)
           reqs  == new.reqs
           at    == << r, place >>
           Old(p) == IF p[1] = r /\ p[2] > place THEN << r, p[2] - 1 >> ELSE p
<1>1. /\ \A x \in Rows : x # r => reqs[x] = m.reqs[x]
      /\ Len(reqs[r]) = Len(list) + 1
      /\ place \in 1 .. Len(list) + 1 /\ Len(list) \in Nat
      /\ reqs[r][place].thread = t /\ reqs[r][place].clock = k
      /\ \A i \in 1 .. place - 1 : reqs[r][i] = list[i]
      /\ \A i \in place + 1 .. Len(list) + 1 : reqs[r][i] = list[i - 1]
  <2>1. ListedAt(reqs, m.reqs, r, place, t, k)
    BY AddRowRequestReqs
  <2> HIDE DEF place, reqs, new
  <2>. QED
    BY <2>1 DEF ListedAt
<1>2. list = m.reqs[r] /\ reqs = new.reqs
  OBVIOUS
<1> HIDE DEF list, place, reqs, new
<1>3. EntryAt(new, at) = [row |-> r, thread |-> t, clock |-> k]
  BY <1>1, <1>2 DEF EntryAt
<1>4. ASSUME NEW p \in Places(new), p # at
      PROVE  Old(p) \in Places(m) /\ EntryAt(new, p) = EntryAt(m, Old(p))
  <2>1. p \in Rows \X Nat /\ p[2] \in 1 .. Len(reqs[p[1]])
    BY <1>2 DEF Places
  <2>2. CASE p[1] # r
    BY <1>1, <1>2, <2>1, <2>2 DEF Places, EntryAt
  <2>3. CASE p[1] = r /\ p[2] > place
    <3>1. p[2] \in place + 1 .. Len(list) + 1 /\ p[2] - 1 \in 1 .. Len(list) /\ p[2] - 1 \in Nat
      BY <1>1, <2>1, <2>3
    <3>2. Old(p) = << r, p[2] - 1 >> /\ reqs[r][p[2]] = list[p[2] - 1]
      BY <1>1, <2>3, <3>1
    <3>. QED
      BY <1>2, <2>3, <3>1, <3>2 DEF Places, EntryAt
  <2>4. CASE p[1] = r /\ ~(p[2] > place)
    <3>1. p[2] # place
      BY <2>1, <2>4, <1>4
    <3>2. p[2] \in 1 .. place - 1 /\ p[2] \in 1 .. Len(list)
      BY <1>1, <2>1, <2>4, <3>1
    <3>3. Old(p) = p /\ reqs[r][p[2]] = list[p[2]]
      BY <1>1, <2>4, <3>2
    <3>. QED
      BY <1>2, <2>1, <2>4, <3>2, <3>3 DEF Places, EntryAt
  <2>. QED
    BY <2>2, <2>3, <2>4
<1>5. ASSUME NEW p \in Places(new), NEW q \in Places(new), p # at, q # at, Old(p) = Old(q)
      PROVE  p = q
  <2>1. p \in Rows \X Nat /\ q \in Rows \X Nat
    BY DEF Places
  <2>2. p[1] = q[1]
    BY <1>5
  <2>3. p[1] = r => p[2] # place /\ q[2] # place
    BY <1>5, <2>1, <2>2
  <2>4. p[2] = q[2]
    BY <1>1, <1>5, <2>1, <2>2, <2>3
  <2>. QED
    BY <2>1, <2>2, <2>4
<1> HIDE DEF Old, at
<1>6. Entries(new) \subseteq Entries(m) \cup {[row |-> r, thread |-> t, clock |-> k]}
  BY <1>3, <1>4 DEF Entries
<1>7. \A p \in Places(m) : EntryAt(m, p).thread # t
  BY DEF Entries
<1>8. \A p \in Places(new) : EntryAt(new, p).thread = t => p = at
  BY <1>4, <1>7
<1>9. EntryAt(new, at).thread = t
  BY <1>3
<1>10. ListedOnce(new)
  <2>1. SUFFICES ASSUME NEW p \in Places(new), NEW q \in Places(new),
                        EntryAt(new, p).thread = EntryAt(new, q).thread
                 PROVE  p = q
    BY DEF ListedOnce
  <2>2. CASE p # at /\ q # at
    BY <1>4, <1>5, <2>1, <2>2 DEF ListedOnce
  <2>. QED
    BY <1>8, <1>9, <2>1, <2>2
<1>. QED
  BY <1>6, <1>10 DEF new

(* The requests that are left when the first n of a row have gone.         *)
ServedGone(reqs, before, r, n) ==
  /\ \A x \in Rows : x # r => reqs[x] = before[x]
  /\ Len(reqs[r]) = Len(before[r]) - n
  /\ \A i \in 1 .. Len(before[r]) - n : /\ reqs[r][i].thread = before[r][n + i].thread
                                        /\ reqs[r][i].clock = before[r][n + i].clock

LEMMA ServedLeave ==
  ASSUME NEW m \in Managers, NEW r \in Rows, NEW k \in Nat, ListedOnce(m), NEW new,
         ServedGone(new.reqs, m.reqs, r, NumServed(m.reqs[r], k))
  PROVE  /\ ListedOnce(new)
         /\ Entries(new) \subseteq Entries(m)
         /\ \A t \in ServedThreads(m, r, k) :
              /\ \E e \in Entries(m) : e.thread = t /\ e.row = r /\ e.clock <= k
              /\ \A e \in Entries(new) : e.thread # t
<1> DEFINE list  == m.reqs[r]
           n     == NumServed(list, k)
           reqs  == new.reqs
           Old(p) == IF p[1] = r THEN << r, n + p[2] >> ELSE p
<1>1. /\ \A x \in Rows : x # r => reqs[x] = m.reqs[x]
      /\ Len(reqs[r]) = Len(list) - n
      /\ \A i \in 1 .. Len(list) - n : /\ reqs[r][i].thread = list[n + i].thread
                                       /\ reqs[r][i].clock = list[n + i].clock
  BY DEF ServedGone
<1>2. list \in Seq(Requests)
  BY DEF Managers
<1>3. n \in 0 .. Len(list) /\ Len(list) \in Nat
  <2> HIDE DEF list
  <2>. QED
    BY <1>2, NumServedType
<1>4. \A i \in 1 .. n : list[i].clock <= k
  BY <1>2, ServedAreMet
<1>5. list = m.reqs[r] /\ reqs = new.reqs
  OBVIOUS
<1>6. ServedThreads(m, r, k) = { list[i].thread : i \in 1 .. n }
  BY DEF ServedThreads
<1> HIDE DEF list, n, reqs
<1>7. ASSUME NEW p \in Places(new)
      PROVE  /\ Old(p) \in Places(m) /\ EntryAt(new, p) = EntryAt(m, Old(p))
             /\ Old(p)[1] = r => Old(p)[2] > n
  <2>1. p \in Rows \X Nat /\ p[2] \in 1 .. Len(reqs[p[1]])
    BY <1>5 DEF Places
  <2>2. CASE p[1] # r
    BY <1>1, <1>5, <2>1, <2>2 DEF Places, EntryAt
  <2>3. CASE p[1] = r
    <3>1. p[2] \in 1 .. Len(list) - n /\ n + p[2] \in 1 .. Len(list) /\ n + p[2] \in Nat /\ n + p[2] > n
      BY <1>1, <1>3, <2>1, <2>3
    <3>2. Old(p) = << r, n + p[2] >>
      BY <2>3
    <3>3. /\ reqs[r][p[2]].thread = list[n + p[2]].thread
          /\ reqs[r][p[2]].clock = list[n + p[2]].clock
      BY <1>1, <3>1
    <3>. QED
      BY <1>5, <2>3, <3>1, <3>2, <3>3 DEF Places, EntryAt
  <2>. QED
    BY <2>2, <2>3
<1>8. ASSUME NEW p \in Places(new), NEW q \in Places(new), Old(p) = Old(q)
      PROVE  p = q
  <2>1. p \in Rows \X Nat /\ q \in Rows \X Nat
    BY DEF Places
  <2>2. p[1] = q[1]
    BY <1>8
  <2>3. p[2] = q[2]
    BY <1>3, <1>8, <2>1, <2>2
  <2>. QED
    BY <2>1, <2>2, <2>3
<1> HIDE DEF Old
<1>9. Entries(new) \subseteq Entries(m)
  BY <1>7 DEF Entries
<1>10. ListedOnce(new)
  BY <1>7, <1>8 DEF ListedOnce
<1>11. ASSUME NEW t \in ServedThreads(m, r, k)
       PROVE  /\ \E e \in Entries(m) : e.thread = t /\ e.row = r /\ e.clock <= k
              /\ \A e \in Entries(new) : e.thread # t
  <2>1. PICK i \in 1 .. n : t = list[i].thread
    BY <1>6
  <2>2. << r, i >> \in Places(m) /\ i \in Nat /\ i <= n
    BY <1>3, <1>5 DEF Places
  <2>3. EntryAt(m, << r, i >>) = [row |-> r, thread |-> t, clock |-> list[i].clock]
    BY <1>5, <2>1 DEF EntryAt
  <2>4. EntryAt(m, << r, i >>).clock <= k
    BY <1>4, <2>3
  <2>5. \E e \in Entries(m) : e.thread = t /\ e.row = r /\ e.clock <= k
    BY <2>2, <2>3, <2>4 DEF Entries
  <2>6. ASSUME NEW p \in Places(new), EntryAt(new, p).thread = t
        PROVE  FALSE
    <3>1. Old(p) = << r, i >>
      BY <1>7, <2>2, <2>3, <2>6 DEF ListedOnce
    <3>2. Old(p)[1] = r /\ Old(p)[2] = i
      BY <3>1
    <3>. QED
      BY <1>3, <1>7, <2>2, <3>2
  <2>. QED
    BY <2>5, <2>6 DEF Entries
<1>. QED
  BY <1>9, <1>10, <1>11

LEMMA InformReplyEntries ==
  ASSUME NEW m \in Managers, NEW r \in Rows, NEW k \in Nat, NEW v \in Nat, ListedOnce(m)
  PROVE  /\ ListedOnce(InformReply(m, r, k, v))
         /\ Entries(InformReply(m, r, k, v)) \subseteq Entries(m)
         /\ \A t \in ServedThreads(m, r, k) :
              /\ \E e \in Entries(m) : e.thread = t /\ e.row = r /\ e.clock <= k
              /\ \A e \in Entries(InformReply(m, r, k, v)) : e.thread # t
<1> DEFINE new == InformReply(m, r, k, v)
<1>1. ServedGone(new.reqs, m.reqs, r, NumServed(m.reqs[r], k))
  <2> DEFINE list == m.reqs[r]
             n    == NumServed(list, k)
             reqs == new.reqs
  <2>1. list = m.reqs[r] /\ n = NumServed(list, k) /\ reqs = InformReply(m, r, k, v).reqs
    OBVIOUS
  <2> HIDE DEF list, n, reqs, new
  <2>2. /\ \A x \in Rows : x # r => reqs[x] = m.reqs[x]
        /\ Len(reqs[r]) = Len(list) - n
        /\ \A i \in 1 .. Len(list) - n : /\ reqs[r][i].thread = list[n + i].thread
                                         /\ reqs[r][i].clock = list[n + i].clock
    BY ONLY m \in Managers, r \in Rows, k \in Nat, v \in Nat, <2>1, InformReplyReqs
  <2>. QED
    BY <2>2 DEF ServedGone, list, n, reqs
<1> HIDE DEF new
<1>2. /\ ListedOnce(new) /\ Entries(new) \subseteq Entries(m)
      /\ \A t \in ServedThreads(m, r, k) :
           /\ \E e \in Entries(m) : e.thread = t /\ e.row = r /\ e.clock <= k
           /\ \A e \in Entries(new) : e.thread # t
  BY <1>1, ServedLeave
<1>. QED
  BY <1>2 DEF new

Awaits(c, e) ==
  /\ e.thread \in Threads /\ ClientOf[e.thread] = c /\ pc[e.thread] = "waiting"
  /\ want[e.thread].row = e.row /\ want[e.thread].clock = e.clock

ListedWait ==
  \A c \in Clients : ListedOnce(mgr[c]) /\ \A e \in Entries(mgr[c]) : Awaits(c, e)

Asks(t) == \E i \in 1 .. Len(toBg[t]) : toBg[t][i].type = "RowRequest"

(* The request a thread waits for is the last thing it has told its worker.*)
AsksOnce(t) ==
  \A i \in 1 .. Len(toBg[t]) : toBg[t][i].type = "RowRequest" =>
    i = Len(toBg[t]) /\ toBg[t][i] = RowRequestMsg(want[t].row, want[t].clock)

(* A thread that stays where it is.                                        *)
Unmoved(t) ==
  /\ pc'[t] = pc[t] /\ want'[t] = want[t]
  /\ toBg'[t] = toBg[t] \/ (toBg[t] # << >> /\ toBg'[t] = Tail(toBg[t]))

(* What a thread asks for stays asked while the worker takes other messages.*)
LEMMA AsksKept ==
  ASSUME NEW t, toBg[t] \in Seq(ToBgMsgs), Unmoved(t), Asks(t)', Asks(t) => AsksOnce(t)
  PROVE  Asks(t) /\ AsksOnce(t)'
<1>1. CASE toBg'[t] = toBg[t]
  <2>1. Asks(t)
    BY <1>1 DEF Asks
  <2>2. AsksOnce(t)
    BY <2>1
  <2>. QED
    BY <1>1, <2>1, <2>2 DEF AsksOnce, Unmoved
<1>2. CASE toBg[t] # << >> /\ toBg'[t] = Tail(toBg[t])
  <2> DEFINE q == toBg[t]
             p == toBg'[t]
  <2>1. /\ Len(p) = Len(q) - 1 /\ Len(q) \in Nat
        /\ \A i \in 1 .. Len(p) : p[i] = q[i + 1]
    BY <1>2, HeadTailProperties
  <2>2. PICK i \in 1 .. Len(p) : p[i].type = "RowRequest"
    BY DEF Asks
  <2>3. Asks(t)
    <3>1. \E j \in 1 .. Len(q) : q[j].type = "RowRequest"
      <4> HIDE DEF p, q
      <4>1. i + 1 \in 1 .. Len(q)
        BY <2>1
      <4>. QED
        BY <2>1, <2>2, <4>1
    <3>. QED
      BY <3>1 DEF Asks
  <2>4. \A j \in 1 .. Len(q) : q[j].type = "RowRequest" =>
          j = Len(q) /\ q[j] = RowRequestMsg(want[t].row, want[t].clock)
    BY <2>3 DEF AsksOnce
  <2>5. \A j \in 1 .. Len(p) : p[j].type = "RowRequest" =>
          j = Len(p) /\ p[j] = RowRequestMsg(want[t].row, want[t].clock)
    <3> HIDE DEF p, q
    <3>1. \A j \in 1 .. Len(p) : j + 1 \in 1 .. Len(q)
      BY <2>1
    <3>2. ASSUME NEW j \in 1 .. Len(p), p[j].type = "RowRequest"
          PROVE  j = Len(p) /\ p[j] = RowRequestMsg(want[t].row, want[t].clock)
      <4>1. j + 1 \in 1 .. Len(q) /\ p[j] = q[j + 1]
        BY <2>1, <3>1
      <4>2. j + 1 = Len(q) /\ q[j + 1] = RowRequestMsg(want[t].row, want[t].clock)
        BY ONLY <2>4, <3>2, <4>1
      <4>. QED
        BY <2>1, <4>1, <4>2
    <3>. QED
      BY <3>2
  <2>. QED
    BY <2>3, <2>5 DEF AsksOnce, Unmoved
<1>. QED
  BY <1>1, <1>2 DEF Unmoved

(* A thread that has asked for nothing asks for a row, or tells its worker *)
(* something else.                                                         *)
LEMMA AskAppended ==
  ASSUME NEW t, toBg[t] \in Seq(ToBgMsgs), ~Asks(t),
         \/ toBg'[t] = toBg[t]
         \/ \E m \in ClockMsgs : toBg'[t] = Append(toBg[t], m)
         \/ /\ pc'[t] = "waiting"
            /\ RowRequestMsg(want'[t].row, want'[t].clock) \in RowRequestMsgs
            /\ toBg'[t] = Append(toBg[t], RowRequestMsg(want'[t].row, want'[t].clock))
  PROVE  Asks(t)' => pc'[t] = "waiting" /\ AsksOnce(t)'
<1>1. ASSUME NEW m \in ToBgMsgs, toBg'[t] = Append(toBg[t], m)
      PROVE  \A i \in 1 .. Len(toBg'[t]) : toBg'[t][i].type = "RowRequest" =>
               i = Len(toBg'[t]) /\ toBg'[t][i] = m
  <2> DEFINE q == toBg[t]
             p == toBg'[t]
  <2>1. q \in Seq(ToBgMsgs) /\ \A i \in 1 .. Len(q) : q[i].type # "RowRequest"
    BY DEF Asks
  <2>2. p = Append(q, m)
    BY <1>1
  <2> HIDE DEF p, q
  <2>3. /\ Len(q) \in Nat /\ Len(p) = Len(q) + 1 /\ p[Len(q) + 1] = m
        /\ \A i \in 1 .. Len(q) : p[i] = q[i]
    BY <2>1, <2>2, AppendProperties
  <2>4. \A i \in 1 .. Len(p) : i \in 1 .. Len(q) \/ i = Len(q) + 1
    BY <2>3
  <2>5. \A i \in 1 .. Len(p) : p[i].type = "RowRequest" => i = Len(p) /\ p[i] = m
    BY <2>1, <2>3, <2>4
  <2>. QED
    BY <2>5 DEF p
<1>2. Asks(t)' => pc'[t] = "waiting" /\ AsksOnce(t)'
  <2>1. CASE toBg'[t] = toBg[t]
    BY <2>1 DEF Asks
  <2>2. ASSUME NEW m \in ClockMsgs, toBg'[t] = Append(toBg[t], m)
        PROVE  ~Asks(t)'
    <3>1. m \in ToBgMsgs /\ m.type # "RowRequest"
      BY DEF ToBgMsgs, ClockMsgs
    <3>2. \A i \in 1 .. Len(toBg'[t]) : toBg'[t][i].type # "RowRequest"
      BY <1>1, <2>2, <3>1
    <3>. QED
      BY <3>2 DEF Asks
  <2>3. CASE /\ pc'[t] = "waiting"
             /\ RowRequestMsg(want'[t].row, want'[t].clock) \in RowRequestMsgs
             /\ toBg'[t] = Append(toBg[t], RowRequestMsg(want'[t].row, want'[t].clock))
    <3>1. RowRequestMsg(want'[t].row, want'[t].clock) \in ToBgMsgs
      BY <2>3 DEF ToBgMsgs
    <3>2. AsksOnce(t)'
      BY <1>1, <2>3, <3>1 DEF AsksOnce
    <3>. QED
      BY <2>3, <3>2
  <2>. QED
    BY <2>1, <2>2, <2>3
<1>. QED
  BY <1>2

(* The worker takes the request of a thread.                               *)
LEMMA AskTaken ==
  ASSUME NEW t, toBg[t] \in Seq(ToBgMsgs), Asks(t) => AsksOnce(t),
         toBg[t] # << >>, Head(toBg[t]).type = "RowRequest", toBg'[t] = Tail(toBg[t])
  PROVE  /\ Asks(t)
         /\ Head(toBg[t]) = RowRequestMsg(want[t].row, want[t].clock)
         /\ ~Asks(t)'
<1> DEFINE q == toBg[t]
           p == toBg'[t]
<1>1. q \in Seq(ToBgMsgs) /\ p = Tail(q) /\ q # << >>
  OBVIOUS
<1>2. q[1] = Head(q) /\ 1 \in 1 .. Len(q) /\ Len(q) \in Nat
  <2> HIDE DEF q
  <2>. QED
    BY <1>1
<1>3. Asks(t)
  BY <1>2 DEF Asks
<1>4. AsksOnce(t)
  BY <1>3
<1>5. 1 = Len(q) /\ q[1] = RowRequestMsg(want[t].row, want[t].clock)
  BY <1>2, <1>4 DEF AsksOnce
<1>6. Len(p) = 0
  <2> HIDE DEF p, q
  <2>. QED
    BY <1>1, <1>5, HeadTailProperties
<1>. QED
  BY <1>2, <1>3, <1>5, <1>6 DEF Asks

AskersWait ==
  \A t \in Threads : Asks(t) => pc[t] = "waiting" /\ Unlisted(t) /\ AsksOnce(t)

RequestsInv == ListedWait /\ AskersWait

LEMMA InitRequests == Init => RequestsInv
<1>1. SUFFICES ASSUME Init PROVE ListedWait /\ AskersWait
  BY DEF RequestsInv
<1>2. \A c \in Clients : Places(mgr[c]) = {}
  BY <1>1 DEF Init, NoRequests, Places
<1>3. \A t \in Threads : ~Asks(t)
  BY <1>1 DEF Init, Asks
<1>. QED
  BY <1>2, <1>3 DEF ListedWait, AskersWait, ListedOnce, Entries

LEMMA OthersFree ==
  ASSUME RequestsInv, NEW t \in Threads, pc[t] # "waiting"
  PROVE  ~Asks(t) /\ Unlisted(t)
<1>1. ClientOf[t] \in Clients
  BY SSPAssumption
<1>. QED
  BY <1>1 DEF RequestsInv, AskersWait, ListedWait, Awaits, Unlisted

(* A step that lists no request.                                           *)
Unlisting ==
  \A c \in Clients : ListedOnce(mgr'[c]) /\ Entries(mgr'[c]) \subseteq Entries(mgr[c])

LEMMA RequestsKept ==
  ASSUME TypeOK, RequestsInv, Unlisting,
         \A t \in Threads :
           \/ Unmoved(t)
           \/ Unlisted(t)' /\ (Asks(t)' => pc'[t] = "waiting" /\ AsksOnce(t)')
  PROVE  RequestsInv'
<1>1. ListedWait'
  <2>1. ASSUME NEW c \in Clients, NEW e \in Entries(mgr'[c])
        PROVE  Awaits(c, e)'
    <3>1. Awaits(c, e)
      BY DEF Unlisting, RequestsInv, ListedWait
    <3>2. ~Unlisted(e.thread)'
      BY <3>1 DEF Awaits, Unlisted
    <3>3. Unmoved(e.thread)
      BY <3>1, <3>2 DEF Awaits
    <3>. QED
      BY <3>1, <3>3 DEF Awaits, Unmoved
  <2>. QED
    BY <2>1 DEF ListedWait, Unlisting
<1>2. ASSUME NEW t \in Threads, Unmoved(t), Asks(t)'
      PROVE  pc'[t] = "waiting" /\ Unlisted(t)' /\ AsksOnce(t)'
  <2>1. toBg[t] \in Seq(ToBgMsgs)
    BY DEF TypeOK, TypeNet, ToBgMsgs
  <2>2. Asks(t) /\ AsksOnce(t)'
    <3>1. Asks(t) => AsksOnce(t)
      BY DEF RequestsInv, AskersWait
    <3>. QED
      BY <1>2, <2>1, <3>1, AsksKept
  <2>3. ClientOf[t] \in Clients
    BY SSPAssumption
  <2>. QED
    BY <1>2, <2>2, <2>3 DEF Unmoved, RequestsInv, AskersWait, Unlisted, Unlisting
<1>3. AskersWait'
  BY <1>2 DEF AskersWait
<1>. QED
  BY <1>1, <1>3 DEF RequestsInv

LEMMA SameReqs ==
  ASSUME RequestsInv, \A c \in Clients : mgr'[c].reqs = mgr[c].reqs
  PROVE  Unlisting
<1>1. ASSUME NEW c \in Clients
      PROVE  ListedOnce(mgr'[c]) /\ Entries(mgr'[c]) = Entries(mgr[c])
  <2>1. Places(mgr'[c]) = Places(mgr[c]) /\ \A p : EntryAt(mgr'[c], p) = EntryAt(mgr[c], p)
    BY DEF Places, EntryAt
  <2>. QED
    BY <2>1 DEF RequestsInv, ListedWait, ListedOnce, Entries
<1>. QED
  BY <1>1 DEF Unlisting

LEMMA QuietRequests ==
  ASSUME TypeOK, RequestsInv, UNCHANGED <<pc, want, toBg>>,
         \A c \in Clients : mgr'[c].reqs = mgr[c].reqs
  PROVE  RequestsInv'
BY SameReqs, RequestsKept DEF Unmoved

(* A thread that does not wait goes on, asks for a row, or tells its       *)
(* worker something else.                                                  *)
LEMMA GoesOnRequests ==
  ASSUME TypeOK, RequestsInv, UNCHANGED mgr, NEW t \in Threads, pc[t] # "waiting",
         \A u \in Threads : u # t => Unmoved(u),
         \/ toBg'[t] = toBg[t]
         \/ \E m \in ClockMsgs : toBg'[t] = Append(toBg[t], m)
         \/ /\ pc'[t] = "waiting"
            /\ RowRequestMsg(want'[t].row, want'[t].clock) \in RowRequestMsgs
            /\ toBg'[t] = Append(toBg[t], RowRequestMsg(want'[t].row, want'[t].clock))
  PROVE  RequestsInv'
<1>1. ~Asks(t) /\ Unlisted(t)
  BY OthersFree
<1>2. Unlisted(t)' /\ Unlisting
  BY <1>1, SameReqs DEF Unlisted
<1>3. Asks(t)' => pc'[t] = "waiting" /\ AsksOnce(t)'
  BY <1>1, AskAppended DEF TypeOK, TypeNet, ToBgMsgs
<1>. QED
  BY <1>2, <1>3, RequestsKept

LEMMA AppRequests ==
  ASSUME TypeOK, RequestsInv, NEW t \in Threads, NEW r \in Rows,
         GetFetch(t, r) \/ GetResume(t) \/ ClockFlush(t) \/ ClockTick(t)
  PROVE  RequestsInv'
<1>1. /\ pc \in [Threads -> {"run", "flushed", "waiting", "woken"}]
      /\ want \in [Threads -> [row : Rows, clock : Clocks, fetches : 0 .. 3, since : 0 .. MaxEvict]]
      /\ toBg \in [Threads -> Seq(RowRequestMsgs \cup ClockMsgs)]
  BY DEF TypeOK, TypeApp, TypeNet
<1>2. CASE GetFetch(t, r)
  <2>1. StalestClock(t) \in Clocks
    BY StalestClockType DEF TypeOK, TypeApp
  <2>2. /\ UNCHANGED mgr /\ pc[t] = "run" /\ pc' = [pc EXCEPT ![t] = "waiting"]
        /\ want' = [want EXCEPT ![t] = [row |-> r, clock |-> StalestClock(t), fetches |-> 0,
                                        since |-> evicted[ClientOf[t]]]]
        /\ toBg' = [toBg EXCEPT ![t] = Append(@, RowRequestMsg(r, StalestClock(t)))]
    BY <1>2 DEF GetFetch, bgVars
  <2>3. want'[t].row = r /\ want'[t].clock = StalestClock(t)
    BY <1>1, <2>2
  <2>4. /\ pc'[t] = "waiting" /\ toBg'[t] = Append(toBg[t], RowRequestMsg(r, StalestClock(t)))
        /\ \A u \in Threads : u # t => Unmoved(u)
    BY <1>1, <2>2 DEF Unmoved
  <2>. QED
    BY <2>1, <2>2, <2>3, <2>4, RowRequestMsgType, GoesOnRequests
<1>3. CASE GetResume(t)
  <2>1. /\ UNCHANGED mgr /\ pc[t] = "woken"
        /\ \/ UNCHANGED <<pc, want, toBg>>
           \/ /\ pc' = [pc EXCEPT ![t] = "run"] /\ want' = [want EXCEPT ![t] = NoWant]
              /\ UNCHANGED toBg
           \/ /\ pc' = [pc EXCEPT ![t] = "waiting"]
              /\ want' = [want EXCEPT ![t].fetches = want[t].fetches + 1]
              /\ toBg' = [toBg EXCEPT ![t] = Append(@, RowRequestMsg(want[t].row, want[t].clock))]
    BY <1>3 DEF GetResume, bgVars
  <2>2. RowRequestMsg(want[t].row, want[t].clock) \in RowRequestMsgs
    BY <1>1, RowRequestMsgType
  <2>3. CASE UNCHANGED <<pc, want, toBg>>
    BY <2>1, <2>3, QuietRequests
  <2>4. CASE /\ pc' = [pc EXCEPT ![t] = "run"] /\ want' = [want EXCEPT ![t] = NoWant]
             /\ UNCHANGED toBg
    <3>1. \A u \in Threads : u # t => Unmoved(u)
      BY <1>1, <2>4 DEF Unmoved
    <3>. QED
      BY <2>1, <2>4, <3>1, GoesOnRequests
  <2>5. CASE /\ pc' = [pc EXCEPT ![t] = "waiting"]
             /\ want' = [want EXCEPT ![t].fetches = want[t].fetches + 1]
             /\ toBg' = [toBg EXCEPT ![t] = Append(@, RowRequestMsg(want[t].row, want[t].clock))]
    <3>1. \A u \in Threads : u # t => Unmoved(u)
      BY <1>1, <2>5 DEF Unmoved
    <3>2. want'[t].row = want[t].row /\ want'[t].clock = want[t].clock
      BY <1>1, <2>5
    <3>3. pc'[t] = "waiting" /\ toBg'[t] = Append(toBg[t], RowRequestMsg(want[t].row, want[t].clock))
      BY <1>1, <2>5
    <3>. QED
      BY <2>1, <2>2, <3>1, <3>2, <3>3, GoesOnRequests
  <2>. QED
    BY <2>1, <2>3, <2>4, <2>5
<1>4. CASE ClockFlush(t)
  <2>1. /\ UNCHANGED <<mgr, toBg, want>> /\ pc[t] = "run" /\ pc' = [pc EXCEPT ![t] = "flushed"]
    BY <1>4 DEF ClockFlush, bgVars, netVars
  <2>2. \A u \in Threads : u # t => Unmoved(u)
    BY <1>1, <2>1 DEF Unmoved
  <2>. QED
    BY <2>1, <2>2, GoesOnRequests
<1>5. CASE ClockTick(t)
  <2>1. /\ UNCHANGED <<mgr, want>> /\ pc[t] = "flushed" /\ pc' = [pc EXCEPT ![t] = "run"]
        /\ \/ UNCHANGED toBg
           \/ \E m \in ClockMsgs : toBg' = [toBg EXCEPT ![t] = Append(@, m)]
    BY <1>5 DEF ClockTick, bgVars, ClockMsgs
  <2>2. \A u \in Threads : u # t => Unmoved(u)
    BY <1>1, <2>1 DEF Unmoved
  <2>3. toBg'[t] = toBg[t] \/ \E m \in ClockMsgs : toBg'[t] = Append(toBg[t], m)
    BY <1>1, <2>1
  <2>. QED
    BY <2>1, <2>2, <2>3, GoesOnRequests
<1>. QED
  BY <1>2, <1>3, <1>4, <1>5

LEMMA BatchReqs ==
  ASSUME TypeOK, NEW c \in Clients, NEW advanced, NEW clk, NEW ack, NEW on,
         HandleClockMsg(c, advanced, clk, ack, on)
  PROVE  \A d \in Clients : mgr'[d].reqs = mgr[d].reqs
<1>1. mgr \in [Clients -> Managers]
  BY DEF TypeOK, TypeBg
<1>2. UNCHANGED mgr \/ mgr' = [mgr EXCEPT ![c] = AddOpLog(@, version[c], Batch(c))]
  BY DEF HandleClockMsg
<1>3. AddOpLog(mgr[c], version[c], Batch(c)).reqs = mgr[c].reqs
  <2>1. mgr[c] \in Managers
    BY <1>1
  <2>. QED
    BY <2>1 DEF AddOpLog, Managers
<1>. QED
  BY <1>1, <1>2, <1>3

LEMMA BatchRequests ==
  ASSUME TypeOK, RequestsInv, NEW t \in Threads, BgClock(t) \/ BgSendOpLog(t)
  PROVE  RequestsInv'
<1>1. /\ UNCHANGED <<pc, want>> /\ toBg[t] # << >>
      /\ toBg' = [toBg EXCEPT ![t] = Tail(@)]
  BY DEF BgClock, BgSendOpLog, appVars
<1>2. \E advanced, clk : HandleClockMsg(ClientOf[t], advanced, clk, acked[ClientOf[t]], pend[ClientOf[t]].on)
  BY DEF BgClock, BgSendOpLog
<1>3. Unlisting
  BY <1>2, BatchReqs, SameReqs, SSPAssumption
<1>4. \A u \in Threads : Unmoved(u)
  BY <1>1 DEF Unmoved, TypeOK, TypeNet
<1>. QED
  BY <1>3, <1>4, RequestsKept

LEMMA BgOpLogAckRequests ==
  ASSUME TypeOK, RequestsInv, NEW s \in Servers, NEW c \in Clients, BgOpLogAck(s, c)
  PROVE  RequestsInv'
<1>1. UNCHANGED <<pc, want, toBg>>
  BY DEF BgOpLogAck, appVars
<1>2. UNCHANGED mgr \/ \E advanced, clk, ack, on : HandleClockMsg(c, advanced, clk, ack, on)
  BY DEF BgOpLogAck
<1>. QED
  BY <1>1, <1>2, BatchReqs, QuietRequests

(* The worker takes a request: the thread is woken, or listed.             *)
LEMMA RequestTaken ==
  ASSUME TypeOK, RequestsInv, NEW t \in Threads,
         toBg[t] # << >>, Head(toBg[t]).type = "RowRequest",
         toBg' = [toBg EXCEPT ![t] = Tail(@)]
  PROVE  /\ pc[t] = "waiting" /\ Unlisted(t)
         /\ Head(toBg[t]) = RowRequestMsg(want[t].row, want[t].clock)
         /\ ~Asks(t)'
<1>1. toBg[t] \in Seq(ToBgMsgs) /\ toBg'[t] = Tail(toBg[t])
  BY DEF TypeOK, TypeNet, ToBgMsgs
<1>2. Asks(t) => pc[t] = "waiting" /\ Unlisted(t) /\ AsksOnce(t)
  BY DEF RequestsInv, AskersWait
<1>. QED
  BY <1>1, <1>2, AskTaken

LEMMA BgRowRequestRequests ==
  ASSUME TypeOK, RequestsInv, NEW t \in Threads, BgRowRequest(t)
  PROVE  RequestsInv'
<1> DEFINE c == ClientOf[t]
<1>0. PICK r \in Rows, k \in Clocks : r = want[t].row /\ k = want[t].clock
  <2>1. want[t].row \in Rows /\ want[t].clock \in Clocks
    BY DEF TypeOK, TypeApp
  <2>. QED
    BY <2>1
<1>1. /\ toBg[t] # << >> /\ Head(toBg[t]).type = "RowRequest" /\ UNCHANGED want
      /\ toBg' = [toBg EXCEPT ![t] = Tail(@)]
  BY DEF BgRowRequest
<1>2. /\ pc[t] = "waiting" /\ Unlisted(t) /\ ~Asks(t)'
      /\ Head(toBg[t]) = RowRequestMsg(r, k)
  BY <1>0, <1>1, RequestTaken
<1>3. c \in Clients /\ r \in Rows /\ k \in Clocks /\ mgr \in [Clients -> Managers]
      /\ version[c] - 1 \in Versions
  BY SSPAssumption DEF TypeOK, TypeApp, TypeBg, Versions
<1>4. Head(toBg[t]).row = r /\ Head(toBg[t]).clock = k
  BY <1>2 DEF RowRequestMsg
<1>5. \/ UNCHANGED mgr /\ pc' = [pc EXCEPT ![t] = "woken"]
      \/ /\ UNCHANGED pc
         /\ \E garbage \in BOOLEAN :
              mgr' = [mgr EXCEPT ![c] = AddRowRequest(@, r, t, k, version[c] - 1, garbage)]
  BY <1>4 DEF BgRowRequest
<1>6. \A u \in Threads : u # t => toBg'[u] = toBg[u]
  BY <1>1 DEF TypeOK, TypeNet
<1>7. CASE UNCHANGED mgr /\ pc' = [pc EXCEPT ![t] = "woken"]
  <2>1. \A u \in Threads : u # t => Unmoved(u)
    BY <1>1, <1>6, <1>7 DEF Unmoved, TypeOK, TypeApp
  <2>2. Unlisted(t)' /\ Unlisting
    BY <1>2, <1>7, SameReqs DEF Unlisted
  <2>. QED
    BY <1>2, <2>1, <2>2, RequestsKept
<1>8. CASE /\ UNCHANGED pc
           /\ \E garbage \in BOOLEAN :
                mgr' = [mgr EXCEPT ![c] = AddRowRequest(@, r, t, k, version[c] - 1, garbage)]
  <2> DEFINE new == [row |-> r, thread |-> t, clock |-> k]
  <2>1. PICK garbage \in BOOLEAN :
          mgr' = [mgr EXCEPT ![c] = AddRowRequest(@, r, t, k, version[c] - 1, garbage)]
    BY <1>8
  <2>2. mgr[c] \in Managers /\ ListedOnce(mgr[c]) /\ \A e \in Entries(mgr[c]) : e.thread # t
    BY <1>2, <1>3 DEF RequestsInv, ListedWait, Unlisted
  <2>3. mgr'[c] = AddRowRequest(mgr[c], r, t, k, version[c] - 1, garbage)
        /\ \A d \in Clients : d # c => mgr'[d] = mgr[d]
    BY <1>3, <2>1
  <2> HIDE DEF c
  <2>4. ListedOnce(mgr'[c]) /\ Entries(mgr'[c]) \subseteq Entries(mgr[c]) \cup {new}
    BY <1>3, <2>2, <2>3, AddRowRequestEntries
  <2>5. Awaits(c, new)'
    <3>1. new.thread = t /\ new.row = r /\ new.clock = k
      OBVIOUS
    <3> HIDE DEF new
    <3>. QED
      BY <1>0, <1>1, <1>2, <1>8, <3>1 DEF Awaits, c
  <2>6. \A d \in Clients : \A e \in Entries(mgr[d]) : Awaits(d, e) => Awaits(d, e)'
    BY <1>1, <1>8 DEF Awaits
  <2> HIDE DEF new
  <2>7. ASSUME NEW d \in Clients
        PROVE  ListedOnce(mgr'[d]) /\ \A e \in Entries(mgr'[d]) : Awaits(d, e)'
    <3>1. CASE d = c
      BY <1>3, <2>4, <2>5, <2>6, <3>1 DEF RequestsInv, ListedWait
    <3>2. CASE d # c
      BY <2>3, <2>6, <3>2 DEF RequestsInv, ListedWait
    <3>. QED
      BY <3>1, <3>2
  <2>8. ASSUME NEW u \in Threads, Asks(u)'
        PROVE  pc'[u] = "waiting" /\ Unlisted(u)' /\ AsksOnce(u)'
    <3>1. u # t /\ toBg'[u] = toBg[u]
      BY <1>2, <1>6, <2>8
    <3>2. Asks(u)
      BY <2>8, <3>1 DEF Asks
    <3>3. pc[u] = "waiting" /\ Unlisted(u) /\ AsksOnce(u) /\ ClientOf[u] \in Clients
      BY <3>2, SSPAssumption DEF RequestsInv, AskersWait
    <3>4. AsksOnce(u)'
      BY <1>1, <3>1, <3>3 DEF AsksOnce
    <3>5. new.thread = t
      BY DEF new
    <3>6. Unlisted(u)'
      <4>1. CASE ClientOf[u] = c
        BY <2>4, <3>1, <3>3, <3>5, <4>1 DEF Unlisted
      <4>2. CASE ClientOf[u] # c
        BY <2>3, <3>3, <4>2 DEF Unlisted
      <4>. QED
        BY <4>1, <4>2
    <3>. QED
      BY <1>8, <3>3, <3>4, <3>6
  <2>. QED
    BY <2>7, <2>8 DEF RequestsInv, ListedWait, AskersWait
<1>. QED
  BY <1>5, <1>7, <1>8

(* A reply wakes threads it takes off the list.                            *)
LEMMA BgRowReplyRequests ==
  ASSUME TypeOK, RequestsInv, NEW s \in Servers, NEW c \in Clients, BgRowReply(s, c)
  PROVE  RequestsInv'
<1> DEFINE m == Head(toClient[s][c])
           served == ServedThreads(mgr[c], m.row, m.clock)
<1>1. /\ UNCHANGED <<want, toBg>> /\ toClient[s][c] # << >> /\ m.type = "RowReply"
      /\ \/ UNCHANGED <<mgr, pc>>
         \/ /\ mgr' = [mgr EXCEPT ![c] = InformReply(@, m.row, m.clock, version[c])]
            /\ pc' = [t \in Threads |-> IF t \in served THEN "woken" ELSE pc[t]]
  BY DEF BgRowReply
<1>2. m \in RowReplyMsgs
  BY <1>1, HeadToClient DEF TypeOK, AckMsgs
<1>3. m.row \in Rows /\ m.clock \in Nat /\ version[c] \in Nat /\ mgr \in [Clients -> Managers]
  BY <1>2 DEF RowReplyMsgs, TypeOK, TypeBg
<1> HIDE DEF m
<1>4. CASE UNCHANGED <<mgr, pc>>
  BY <1>1, <1>4, QuietRequests
<1>5. CASE /\ mgr' = [mgr EXCEPT ![c] = InformReply(@, m.row, m.clock, version[c])]
           /\ pc' = [t \in Threads |-> IF t \in served THEN "woken" ELSE pc[t]]
  <2>1. mgr[c] \in Managers /\ ListedOnce(mgr[c])
    BY <1>3 DEF RequestsInv, ListedWait
  <2>2. mgr'[c] = InformReply(mgr[c], m.row, m.clock, version[c])
        /\ \A d \in Clients : d # c => mgr'[d] = mgr[d]
    BY <1>3, <1>5
  <2>3. /\ ListedOnce(mgr'[c]) /\ Entries(mgr'[c]) \subseteq Entries(mgr[c])
        /\ \A t \in served : /\ \E e \in Entries(mgr[c]) : e.thread = t
                             /\ \A e \in Entries(mgr'[c]) : e.thread # t
    BY <1>3, <2>1, <2>2, InformReplyEntries
  <2> HIDE DEF served
  <2>4. Unlisting
    BY <2>2, <2>3 DEF Unlisting, RequestsInv, ListedWait
  <2>5. ASSUME NEW t \in Threads
        PROVE  \/ Unmoved(t)
               \/ Unlisted(t)' /\ (Asks(t)' => pc'[t] = "waiting" /\ AsksOnce(t)')
    <3>1. CASE t \notin served
      BY <1>1, <1>5, <3>1 DEF Unmoved
    <3>2. CASE t \in served
      <4>1. PICK e \in Entries(mgr[c]) : e.thread = t
        BY <2>3, <3>2
      <4>2. ClientOf[t] = c
        BY <4>1 DEF RequestsInv, ListedWait, Awaits
      <4>3. Unlisted(t)' /\ ~Unlisted(t)
        BY <2>3, <3>2, <4>1, <4>2 DEF Unlisted
      <4>4. ~Asks(t)'
        <5>1. ~Asks(t)
          BY <4>3 DEF RequestsInv, AskersWait
        <5>. QED
          BY <1>1, <5>1 DEF Asks
      <4>. QED
        BY <4>3, <4>4
    <3>. QED
      BY <3>1, <3>2
  <2>. QED
    BY <2>4, <2>5, RequestsKept
<1>. QED
  BY <1>1, <1>4, <1>5

LEMMA StepRequests ==
  ASSUME TypeOK, RequestsInv, [Next]_vars
  PROVE  RequestsInv'
<1>1. ASSUME NEW t \in Threads, NEW r \in Rows, Inc(t, r) \/ GetCached(t, r)
      PROVE  RequestsInv'
  <2>1. UNCHANGED <<pc, want, toBg, mgr>>
    BY <1>1 DEF Inc, GetCached, bgVars, netVars
  <2>. QED
    BY <2>1, QuietRequests
<1>2. ASSUME NEW t \in Readers, NEW r \in Rows, GetFetch(t, r)
      PROVE  RequestsInv'
  BY <1>2, SSPAssumption, AppRequests
<1>3. ASSUME NEW t \in Threads
      PROVE  /\ GetResume(t) \/ ClockFlush(t) \/ ClockTick(t) => RequestsInv'
             /\ BgClock(t) \/ BgSendOpLog(t) => RequestsInv'
             /\ BgRowRequest(t) => RequestsInv'
  <2>1. \E r \in Rows : TRUE
    BY SSPAssumption
  <2>. QED
    BY <2>1, AppRequests, BatchRequests, BgRowRequestRequests
<1>4. ASSUME NEW c \in Clients, NEW r \in Rows, Evict(c, r)
      PROVE  RequestsInv'
  BY <1>4, QuietRequests DEF Evict, appVars, bgVars, netVars
<1>5. ASSUME NEW c \in Clients, NEW s \in Servers, ServerRowRequest(c, s) \/ ServerOpLog(c, s)
      PROVE  RequestsInv'
  <2>1. UNCHANGED <<pc, want, toBg, mgr>>
    BY <1>5 DEF ServerRowRequest, ServerOpLog, appVars, bgVars
  <2>. QED
    BY <2>1, QuietRequests
<1>6. ASSUME UNCHANGED vars
      PROVE  RequestsInv'
  BY <1>6, QuietRequests DEF vars, appVars, bgVars, netVars
<1>7. Writers \subseteq Threads /\ Readers \subseteq Threads
  BY SSPAssumption
<1>. QED
  BY <1>1, <1>2, <1>3, <1>4, <1>5, <1>6, <1>7, BgRowReplyRequests, BgOpLogAckRequests
  DEF Next, Step, Rest

-----------------------------------------------------------------------------
(* Replies: a client receives a row's values in the order the server had   *)
(* them.                                                                   *)
LEMMA StepInTurn ==
  ASSUME TypeOK, ChannelInv, [Next]_vars
  PROVE  AllInTurn
<1>1. ASSUME UNCHANGED toClient
      PROVE  AllInTurn
  BY <1>1 DEF AllInTurn, InTurn
<1>2. ASSUME NEW t \in Threads, NEW r \in Rows,
             \/ Inc(t, r) \/ GetCached(t, r) \/ GetFetch(t, r)
             \/ GetResume(t) \/ ClockFlush(t) \/ ClockTick(t)
             \/ BgClock(t) \/ BgSendOpLog(t) \/ BgRowRequest(t)
      PROVE  UNCHANGED toClient
  BY <1>2 DEF Inc, GetCached, GetFetch, GetResume, ClockFlush, ClockTick,
              BgClock, BgSendOpLog, BgRowRequest, netVars
<1>3. ASSUME NEW c \in Clients, NEW r \in Rows, Evict(c, r)
      PROVE  UNCHANGED toClient
  BY <1>3 DEF Evict, netVars
<1>4. ASSUME NEW c \in Clients, NEW s \in Servers, BgRowReply(s, c) \/ BgOpLogAck(s, c)
      PROVE  AllInTurn
  <2>1. toClient[s][c] # << >> /\ toClient' = [toClient EXCEPT ![s][c] = Tail(@)]
    BY <1>4 DEF BgRowReply, BgOpLogAck
  <2>2. toClient \in [Servers -> [Clients -> Seq(RowReplyMsgs \cup AckMsgs)]]
    BY DEF TypeOK, TypeNet
  <2>3. ASSUME NEW d \in Clients, NEW x \in Servers
        PROVE  InTurn(x, d)
    BY <2>1, <2>2 DEF InTurn
  <2>. QED
    BY <2>3 DEF AllInTurn
<1>5. UNCHANGED vars => UNCHANGED toClient
  BY DEF vars, netVars
<1>6. \E r \in Rows : TRUE
  BY SSPAssumption
<1>7. Writers \subseteq Threads /\ Readers \subseteq Threads
  BY SSPAssumption
<1>. QED
  BY <1>1, <1>2, <1>3, <1>4, <1>5, <1>6, <1>7, ServerRowRequestStep, ServerOpLogStep
  DEF Next, Step, Rest

(* The values and the clocks of a row in a channel only grow.              *)
ReplyOrder(q) ==
  \A i, j \in 1 .. Len(q) :
    /\ i < j /\ q[i].type = "RowReply" /\ q[j].type = "RowReply" /\ q[i].row = q[j].row
    => q[i].data \subseteq q[j].data /\ q[i].clock <= q[j].clock

LEMMA ReplyOrderTail ==
  ASSUME NEW S, NEW q \in Seq(S), q # << >>, ReplyOrder(q)
  PROVE  /\ ReplyOrder(Tail(q))
         /\ Head(q).type = "RowReply" =>
              \A m \in OfType(Tail(q), "RowReply") :
                m.row = Head(q).row => Head(q).data \subseteq m.data /\ Head(q).clock <= m.clock
<1> DEFINE p == Tail(q)
<1>1. /\ p \in Seq(S) /\ Len(q) \in Nat \ {0} /\ Len(p) = Len(q) - 1
      /\ \A i \in 1 .. Len(p) : p[i] = q[i + 1]
      /\ Head(q) = q[1]
  BY HeadTailProperties
<1> HIDE DEF p
<1>2. 1 \in 1 .. Len(q) /\ \A i \in 1 .. Len(p) : i \in Int /\ i + 1 \in 1 .. Len(q) /\ 1 < i + 1
  BY <1>1
<1>3. ReplyOrder(p)
  <2>1. SUFFICES ASSUME NEW i \in 1 .. Len(p), NEW j \in 1 .. Len(p), i < j,
                        p[i].type = "RowReply", p[j].type = "RowReply", p[i].row = p[j].row
                 PROVE  p[i].data \subseteq p[j].data /\ p[i].clock <= p[j].clock
    BY DEF ReplyOrder
  <2>2. i + 1 < j + 1 /\ i + 1 \in 1 .. Len(q) /\ j + 1 \in 1 .. Len(q)
    BY <1>2, <2>1
  <2>3. p[i] = q[i + 1] /\ p[j] = q[j + 1]
    BY <1>1
  <2>. QED
    BY <2>1, <2>2, <2>3 DEF ReplyOrder
<1>4. OfType(p, "RowReply") = { p[i] : i \in { j \in 1 .. Len(p) : p[j].type = "RowReply" } }
  BY <1>1, OfTypeBySome
<1>5. ASSUME Head(q).type = "RowReply", NEW m \in OfType(p, "RowReply"), m.row = Head(q).row
      PROVE  Head(q).data \subseteq m.data /\ Head(q).clock <= m.clock
  <2>1. PICK i \in 1 .. Len(p) : m = p[i] /\ p[i].type = "RowReply"
    BY <1>4, <1>5
  <2>2. m = q[i + 1] /\ i + 1 \in 1 .. Len(q) /\ 1 < i + 1
    BY <1>1, <1>2, <2>1
  <2>. QED
    BY <1>1, <1>2, <1>5, <2>1, <2>2 DEF ReplyOrder
<1>. QED
  BY <1>3, <1>5 DEF p

(* New replies hold what the server holds, and so more than earlier ones.  *)
LEMMA ReplyOrderConcat ==
  ASSUME NEW S, NEW q \in Seq(S), NEW e \in Seq(S), NEW value, NEW k \in Int, ReplyOrder(q),
         \A m \in OfType(q, "RowReply") : m.data \subseteq value[m.row] /\ m.clock <= k,
         \A m \in OfType(e, "RowReply") : m.data = value[m.row] /\ m.clock = k
  PROVE  ReplyOrder(q \o e)
<1> DEFINE p == q \o e
           n == Len(q)
<1>1. /\ n \in Nat /\ Len(e) \in Nat /\ Len(p) = n + Len(e)
      /\ \A i \in 1 .. n + Len(e) : p[i] = IF i <= n THEN q[i] ELSE e[i - n]
  BY ConcatProperties
<1>2. /\ OfType(q, "RowReply") = { q[i] : i \in { j \in 1 .. Len(q) : q[j].type = "RowReply" } }
      /\ OfType(e, "RowReply") = { e[i] : i \in { j \in 1 .. Len(e) : e[j].type = "RowReply" } }
  BY OfTypeBySome
<1>3. n = Len(q)
  OBVIOUS
<1> HIDE DEF p, n
<1>4. ASSUME NEW i \in 1 .. Len(p), p[i].type = "RowReply"
      PROVE  \/ i \in 1 .. n /\ p[i] = q[i] /\ p[i] \in OfType(q, "RowReply")
             \/ ~(i <= n) /\ p[i] \in OfType(e, "RowReply")
  <2>1. CASE i <= n
    <3>1. i \in 1 .. n /\ p[i] = q[i]
      BY <1>1, <2>1
    <3>. QED
      BY <1>2, <1>3, <1>4, <3>1
  <2>2. CASE ~(i <= n)
    <3>1. i - n \in 1 .. Len(e) /\ p[i] = e[i - n]
      BY <1>1, <2>2
    <3>. QED
      BY <1>2, <1>4, <2>2, <3>1
  <2>. QED
    BY <2>1, <2>2
<1>5. SUFFICES ASSUME NEW i \in 1 .. Len(p), NEW j \in 1 .. Len(p), i < j,
                      p[i].type = "RowReply", p[j].type = "RowReply", p[i].row = p[j].row
               PROVE  p[i].data \subseteq p[j].data /\ p[i].clock <= p[j].clock
  BY DEF ReplyOrder, p
<1>6. CASE j \in 1 .. n /\ p[j] = q[j]
  <2>1. i \in 1 .. n /\ p[i] = q[i]
    BY <1>1, <1>4, <1>5, <1>6
  <2>. QED
    BY <1>3, <1>5, <1>6, <2>1 DEF ReplyOrder
<1>7. CASE p[j] \in OfType(e, "RowReply")
  <2>1. p[j].data = value[p[j].row] /\ p[j].clock = k
    BY <1>7
  <2>2. p[i] \in OfType(q, "RowReply") \/ p[i] \in OfType(e, "RowReply")
    BY <1>4, <1>5
  <2>3. p[i].data \subseteq value[p[i].row] /\ p[i].clock <= k
    BY <2>2
  <2>. QED
    BY <1>5, <2>1, <2>3
<1>. QED
  BY <1>4, <1>5, <1>6, <1>7

-----------------------------------------------------------------------------
(* The servers' rows and clocks only grow, and so do the answers.          *)
ServersGrow ==
  /\ \A r \in Rows : data[r] \subseteq data'[r]
  /\ \A s \in Servers, d \in Clients : sClock[s][d] <= sClock'[s][d]
  /\ FewerOrFreshReplies

LEMMA EffectGrows == TypeOK /\ OwnInv /\ Effect => ServersGrow
<1>1. SUFFICES ASSUME TypeOK, OwnInv, Effect PROVE ServersGrow
  OBVIOUS
<1>2. ASSUME UNCHANGED <<data, sClock>>, FewerOrFreshReplies
      PROVE  ServersGrow
  <2>1. \A s \in Servers, d \in Clients : sClock[s][d] \in Nat
    BY <1>1 DEF TypeOK, TypeServer
  <2>. QED
    BY <1>2, <2>1 DEF ServersGrow
<1>3. FewerReplies => FewerOrFreshReplies
  BY DEF FewerReplies, FewerOrFreshReplies
<1>4. ASSUME NEW t \in Writers, NEW r \in Rows, Inc(t, r)
      PROVE  ServersGrow
  <2>1. UNCHANGED <<data, sClock, toClient>>
    BY <1>4 DEF Inc, serverVars, netVars
  <2>. QED
    BY <1>2, <2>1 DEF FewerOrFreshReplies, RepliesTo
<1>5. ASSUME NEW c \in Clients, NEW s \in Servers, NEW m, AppliedBatch(c, s, m)
      PROVE  ServersGrow
  <2>1. \A r \in Rows : data[r] \subseteq data'[r]
    BY <1>5 DEF AppliedBatch, Applied
  <2>2. \A x \in Servers, d \in Clients : sClock[x][d] <= sClock'[x][d]
    BY <1>1, <1>5, AppliedClocks
  <2>. QED
    BY <1>5, <2>1, <2>2 DEF ServersGrow, AppliedBatch
<1>6. ASSUME NEW c \in Clients, NEW advanced \in BOOLEAN, Batched(c, advanced)
      PROVE  ServersGrow
  BY <1>2, <1>3, <1>6 DEF Batched
<1>7. ASSUME NEW c \in Clients, NEW s \in Servers, NEW m, RowRebuilt(s, c, m)
      PROVE  ServersGrow
  BY <1>2, <1>3, <1>7 DEF RowRebuilt
<1>8. Quiet => ServersGrow
  BY <1>2 DEF Quiet
<1>. QED
  BY <1>1, <1>4, <1>5, <1>6, <1>7, <1>8 DEF Effect

LEMMA BelowMinClock ==
  ASSUME NEW vec \in [Clients -> Nat], NEW k \in Int, \A d \in Clients : k <= vec[d]
  PROVE  k <= MinClock(vec)
<1>1. vec \in Surjection(Clients, Range(vec))
  BY DEF Surjection, Range
<1>2. IsFiniteSet(Range(vec))
  BY <1>1, SSPAssumption, FS_Surjection
<1>3. Range(vec) \subseteq Nat /\ Range(vec) # {}
  BY SSPAssumption DEF Range
<1>4. MinClock(vec) \in Range(vec)
  BY <1>2, <1>3, MinIsLeast DEF MinClock
<1>. QED
  BY <1>4 DEF Range

(* The row's server and every answer still to come to the client have the  *)
(* updates S and have reached clock k.                                     *)
Lasting(c, r, S, k) ==
  /\ S \subseteq data[r] /\ \A d \in Clients : k <= sClock[ServerOf[r]][d]
  /\ \A s \in Servers : \A m \in RepliesTo(s, c) :
       m.row = r => S \subseteq m.data /\ k <= m.clock

LEMMA LastingKept ==
  ASSUME TypeOK, TypeOK', ServersGrow, NEW c \in Clients, NEW r \in Rows, NEW S, NEW k \in Int,
         Lasting(c, r, S, k)
  PROVE  Lasting(c, r, S, k)'
<1> DEFINE x == ServerOf[r]
<1>1. x \in Servers
  BY SSPAssumption
<1>2. S \subseteq data'[r]
  BY DEF Lasting, ServersGrow
<1>3. /\ sClock'[x] \in [Clients -> Nat] /\ sClock[x] \in [Clients -> Nat]
  BY <1>1 DEF TypeOK, TypeServer
<1>4. \A d \in Clients : k <= sClock'[x][d]
  <2>1. \A d \in Clients : k <= sClock[x][d] /\ sClock[x][d] <= sClock'[x][d]
    BY <1>1 DEF Lasting, ServersGrow
  <2>. QED
    BY <1>3, <2>1
<1>5. ASSUME NEW s \in Servers, NEW m \in RepliesTo(s, c)', m.row = r
      PROVE  S \subseteq m.data /\ k <= m.clock
  <2>1. CASE m \in RepliesTo(s, c)
    BY <1>5, <2>1 DEF Lasting
  <2>2. CASE m \in FreshReplies(s, c)'
    <3>1. PICK y \in Rows : /\ ServerOf[y] = s
                            /\ m = RowReplyMsg(y, MinClock(sClock'[s]), sVersion'[s][c], data'[y])
      BY <2>2 DEF FreshReplies
    <3>2. m.row = y /\ m.clock = MinClock(sClock'[s]) /\ m.data = data'[y]
      BY <3>1 DEF RowReplyMsg
    <3>3. y = r /\ s = x
      BY <1>5, <3>1, <3>2
    <3>4. k <= MinClock(sClock'[x])
      BY <1>3, <1>4, BelowMinClock
    <3>. QED
      BY <1>2, <3>2, <3>3, <3>4
  <2>. QED
    BY <2>1, <2>2 DEF ServersGrow, FewerOrFreshReplies
<1>. QED
  BY <1>2, <1>4, <1>5 DEF Lasting

RepliesOrdered == \A s \in Servers, c \in Clients : ReplyOrder(toClient[s][c])
RepliesHeld == \A s \in Servers, c \in Clients : \A m \in RepliesTo(s, c) : m.data \subseteq data[m.row]

LEMMA HeldKept ==
  ASSUME TypeOK, ServersGrow, RepliesHeld
  PROVE  RepliesHeld'
<1>1. SUFFICES ASSUME NEW s \in Servers, NEW c \in Clients, NEW m \in RepliesTo(s, c)'
               PROVE  m.data \subseteq data'[m.row]
  BY DEF RepliesHeld
<1>2. CASE m \in RepliesTo(s, c)
  <2>1. m.row \in Rows
    BY <1>2, ChannelTypes DEF RowReplyMsgs
  <2>. QED
    BY <1>2, <2>1 DEF RepliesHeld, ServersGrow
<1>3. CASE m \in FreshReplies(s, c)'
  BY <1>3 DEF FreshReplies, RowReplyMsg
<1>. QED
  BY <1>2, <1>3 DEF ServersGrow, FewerOrFreshReplies

LEMMA OrderedKept ==
  ASSUME TypeOK, TypeOK', ServersGrow, AllInTurn, RepliesOrdered, RepliesHeld, RepliesCurrent
  PROVE  RepliesOrdered'
<1>1. SUFFICES ASSUME NEW s \in Servers, NEW c \in Clients PROVE ReplyOrder(toClient'[s][c])
  BY DEF RepliesOrdered
<1> DEFINE q == toClient[s][c]
           p == toClient'[s][c]
           k == MinClock(sClock'[s])
<1>2. ReplyOrder(q) /\ InTurn(s, c) /\ q \in Seq(ToClientMsgs)
  BY DEF RepliesOrdered, AllInTurn, TypeOK, TypeNet, ToClientMsgs
<1>3. CASE p = q
  BY <1>2, <1>3
<1>4. CASE q # << >> /\ p = Tail(q)
  <2> HIDE DEF p, q
  <2>1. ReplyOrder(p)
    BY <1>2, <1>4, ReplyOrderTail
  <2>. QED
    BY <2>1 DEF p
<1>5. ASSUME NEW e \in Seq(ToClientMsgs), p = q \o e,
             OfType(e, "RowReply") \subseteq FreshReplies(s, c)'
      PROVE  ReplyOrder(p)
  <2>1. sClock'[s] \in [Clients -> Nat] /\ sClock[s] \in [Clients -> Nat]
    BY DEF TypeOK, TypeServer
  <2>2. k \in Nat
    BY <2>1, MinClockType
  <2>3. ASSUME NEW m \in RepliesTo(s, c)
        PROVE  m.data \subseteq data'[m.row] /\ m.clock <= k
    <3>1. m.row \in Rows /\ m.clock \in Nat
      BY ChannelTypes DEF RowReplyMsgs
    <3>2. \A d \in Clients : m.clock <= sClock[s][d] /\ sClock[s][d] <= sClock'[s][d]
      BY DEF RepliesCurrent, Current, ServersGrow
    <3>3. \A d \in Clients : m.clock <= sClock'[s][d]
      BY <2>1, <3>1, <3>2
    <3>4. m.clock <= k
      BY <2>1, <3>1, <3>3, BelowMinClock
    <3>. QED
      BY <3>1, <3>4 DEF RepliesHeld, ServersGrow
  <2>4. \A m \in OfType(e, "RowReply") : m.data = data'[m.row] /\ m.clock = k
    BY <1>5 DEF FreshReplies, RowReplyMsg
  <2>5. RepliesTo(s, c) = OfType(q, "RowReply")
    BY DEF RepliesTo
  <2>6. PICK value : value = data'
    OBVIOUS
  <2> HIDE DEF p, q, k
  <2>7. \A m \in OfType(q, "RowReply") : m.data \subseteq value[m.row] /\ m.clock <= k
    BY <2>3, <2>5, <2>6
  <2>8. \A m \in OfType(e, "RowReply") : m.data = value[m.row] /\ m.clock = k
    BY <2>4, <2>6
  <2>9. ReplyOrder(q) /\ q \in Seq(ToClientMsgs) /\ e \in Seq(ToClientMsgs)
    BY <1>2, <1>5
  <2>10. k \in Int
    BY <2>2
  <2>11. ReplyOrder(q \o e)
    BY ONLY ReplyOrderConcat, <2>7, <2>8, <2>9, <2>10
  <2>. QED
    BY <1>5, <2>11
<1>. QED
  BY <1>2, <1>3, <1>4, <1>5 DEF InTurn

-----------------------------------------------------------------------------
(* Reads: what a thread has read of a row, the row's server and every      *)
(* answer still to come have too, the thread's own updates aside: those    *)
(* its client adds up itself.                                              *)
Others(S, c) == { u \in S : ClientOf[u[1]] # c }

StorageLasts ==
  \A c \in Clients, r \in Rows :
    Lasting(c, r, Others(storage[c][r].data, c), storage[c][r].clock)

SeenLasts ==
  \A t \in Threads, r \in Rows :
    /\ Lasting(ClientOf[t], r, Others(got[t][r].seen, ClientOf[t]), -1)
    /\ Cached(ClientOf[t], r) =>
         Others(got[t][r].seen, ClientOf[t]) \subseteq storage[ClientOf[t]][r].data

SeenMade == \A t \in Threads, r \in Rows : got[t][r].seen \subseteq made[r]

(* A thread that was woken finds a row that is fresh enough, or none.      *)
WokenLasts ==
  \A t \in Threads : pc[t] = "woken" =>
    /\ Lasting(ClientOf[t], want[t].row, {}, want[t].clock)
    /\ Cached(ClientOf[t], want[t].row) =>
         want[t].clock <= storage[ClientOf[t]][want[t].row].clock

WantStalest == \A t \in Threads : pc[t] \in {"waiting", "woken"} => want[t].clock = StalestClock(t)

LEMMA NewRowOthers ==
  ASSUME TypeOK, OwnLogs, NEW c \in Clients, NEW m \in RowReplyMsgs, ~Missing(c, m.version),
         m.version <= version[c]
  PROVE  Others(NewRow(c, m).data, c) = Others(m.data, c)
<1> DEFINE parts == Addends(c, m)
<1>1. m.version \in Int /\ version[c] \in Nat /\ m.row \in Rows
  BY DEF RowReplyMsgs, Versions, TypeOK, TypeBg
<1>2. m.version \in DOMAIN parts /\ parts[m.version] = m.data
  BY <1>1 DEF Addends
<1>3. NewRow(c, m).data = UNION Range(parts)
  BY DEF NewRow
<1>4. ASSUME NEW v \in DOMAIN parts, NEW u \in parts[v], ClientOf[u[1]] # c
      PROVE  u \in m.data
  <2>1. oplog[c][m.row] \subseteq Own(c, m.row)
        /\ \A k \in mgr[c].kept : k.log[m.row] \subseteq Own(c, m.row)
    BY <1>1 DEF OwnLogs
  <2>2. u \notin Own(c, m.row)
    BY <1>4 DEF Own
  <2>3. \/ parts[v] = m.data \/ parts[v] = oplog[c][m.row]
        \/ \E k \in mgr[c].kept : parts[v] = k.log[m.row]
    BY AddendsParts
  <2> HIDE DEF parts
  <2>. QED
    BY <1>4, <2>1, <2>2, <2>3
<1> HIDE DEF parts
<1>5. ASSUME NEW u \in NewRow(c, m).data, ClientOf[u[1]] # c
      PROVE  u \in m.data
  <2>1. PICK v \in DOMAIN parts : u \in parts[v]
    BY <1>3 DEF Range
  <2>. QED
    BY <1>4, <1>5, <2>1
<1>6. m.data \subseteq NewRow(c, m).data
  BY <1>2, <1>3 DEF Range
<1>. QED
  BY <1>5, <1>6 DEF Others

LEMMA ReplayedLasts ==
  ASSUME TypeOK, ChannelInv, RepliesCurrent, RepliesOrdered, RepliesHeld,
         NEW c \in Clients, NEW s \in Servers, NEW m, RowRebuilt(s, c, m)
  PROVE  Lasting(c, m.row, m.data, m.clock)' /\ m.row \in Rows /\ s = ServerOf[m.row]
<1>1. /\ UNCHANGED <<data, sClock>> /\ FewerReplies /\ m \in RepliesTo(s, c)
      /\ toClient[s][c] # << >> /\ m = Head(toClient[s][c])
      /\ toClient'[s][c] = Tail(toClient[s][c])
  BY DEF RowRebuilt
<1>2. m.row \in Rows /\ s = ServerOf[m.row] /\ m.type = "RowReply"
  <2>1. m \in RowReplyMsgs
    BY <1>1, ChannelTypes
  <2>. QED
    BY <1>1, <2>1 DEF RowReplyMsgs, ChannelInv, ToClientInv
<1>3. m.data \subseteq data'[m.row] /\ \A d \in Clients : m.clock <= sClock'[ServerOf[m.row]][d]
  BY <1>1, <1>2 DEF RepliesHeld, RepliesCurrent, Current
<1>4. ASSUME NEW x \in Servers, NEW n \in RepliesTo(x, c)', n.row = m.row
      PROVE  m.data \subseteq n.data /\ m.clock <= n.clock
  <2>1. n \in RepliesTo(x, c)
    BY <1>1 DEF FewerReplies
  <2>2. x = s
    BY <1>2, <1>4, <2>1 DEF ChannelInv, ToClientInv
  <2> DEFINE q == toClient[s][c]
  <2>3. q \in Seq(ToClientMsgs) /\ ReplyOrder(q)
    BY DEF TypeOK, TypeNet, ToClientMsgs, RepliesOrdered
  <2>4. n \in OfType(Tail(q), "RowReply")
    BY <1>1, <1>4, <2>2 DEF RepliesTo
  <2>5. q # << >> /\ m = Head(q)
    BY <1>1
  <2> HIDE DEF q
  <2>. QED
    BY <1>2, <1>4, <2>3, <2>4, <2>5, ReplyOrderTail
<1>. QED
  BY <1>2, <1>3, <1>4 DEF Lasting

(* How a cached row moves in a step.                                       *)
RowKept(c, r) ==
  /\ Others(storage'[c][r].data, c) = Others(storage[c][r].data, c)
  /\ storage'[c][r].clock = storage[c][r].clock
  /\ storage'[c][r] # NoRow => storage[c][r] # NoRow
  /\ storage[c][r].data \subseteq storage'[c][r].data

RowTaken(c, r) ==
  \E m \in RepliesTo(ServerOf[r], c) :
    /\ m.row = r /\ Lasting(c, r, m.data, m.clock)'
    /\ Others(storage'[c][r].data, c) = Others(m.data, c)
    /\ storage'[c][r].clock = m.clock

RowMoves == \A c \in Clients, r \in Rows :
              storage'[c][r] = NoRow \/ RowKept(c, r) \/ RowTaken(c, r)

LEMMA EffectRowMoves ==
  ASSUME TypeOK, ChannelInv, OwnInv, RepliesApart, RepliesCurrent, RepliesOrdered, RepliesHeld,
         Effect
  PROVE  RowMoves
<1>1. ASSUME NEW c \in Clients, NEW r \in Rows, storage'[c][r] = storage[c][r]
      PROVE  RowKept(c, r)
  BY <1>1 DEF RowKept
<1>2. ASSUME NEW t \in Writers, NEW r \in Rows, Inc(t, r)
      PROVE  RowMoves
  <2>1. t \in Threads /\ MadeNumbered
    BY SSPAssumption DEF OwnInv
  <2>2. PICK u \in Updates : IncEffect(ClientOf[t], r, u)
    BY <1>2, <2>1, IncIsEffect
  <2>3. ASSUME NEW c \in Clients, NEW x \in Rows
        PROVE  RowKept(c, x)
    <3>1. /\ (storage'[c][x] = NoRow) <=> (storage[c][x] = NoRow)
          /\ storage'[c][x].clock = storage[c][x].clock
          /\ \/ storage'[c][x].data = storage[c][x].data
             \/ c = ClientOf[t] /\ storage'[c][x].data = storage[c][x].data \cup {u}
          /\ ClientOf[u[1]] = ClientOf[t]
      BY <2>2 DEF IncEffect
    <3>2. Others(storage'[c][x].data, c) = Others(storage[c][x].data, c)
          /\ storage[c][x].data \subseteq storage'[c][x].data
      BY <3>1 DEF Others
    <3>. QED
      BY <3>1, <3>2 DEF RowKept
  <2>. QED
    BY <2>3 DEF RowMoves
<1>3. Quiet => RowMoves
  BY <1>1 DEF Quiet, RowMoves
<1>4. ASSUME NEW c \in Clients, NEW advanced \in BOOLEAN, Batched(c, advanced)
      PROVE  RowMoves
  BY <1>1, <1>4 DEF Batched, RowMoves
<1>5. ASSUME NEW c \in Clients, NEW s \in Servers, NEW m, AppliedBatch(c, s, m)
      PROVE  RowMoves
  BY <1>1, <1>5 DEF AppliedBatch, RowMoves
<1>6. ASSUME NEW c \in Clients, NEW s \in Servers, NEW m, RowRebuilt(s, c, m)
      PROVE  RowMoves
  <2>1. Lasting(c, m.row, m.data, m.clock)' /\ m.row \in Rows /\ s = ServerOf[m.row]
    BY <1>6, ReplayedLasts
  <2>2. /\ m \in RowReplyMsgs
        /\ \A d \in Clients, r \in Rows :
             storage'[d][r] = IF d = c /\ r = m.row THEN NewRow(c, m) ELSE storage[d][r]
    BY <1>6, ReplayedRow
  <2>3. m \in RepliesTo(s, c) /\ ~Missing(c, m.version)
    BY <1>6 DEF RowRebuilt
  <2>4. m.version <= version[c]
    <3>1. m.version < version[c]
      BY <2>3 DEF RepliesApart, ReplyApart
    <3>. QED
      BY <2>2, <3>1 DEF RowReplyMsgs, Versions, TypeOK, TypeBg
  <2>5. Others(NewRow(c, m).data, c) = Others(m.data, c)
    BY <2>2, <2>3, <2>4, NewRowOthers DEF OwnInv
  <2>6. NewRow(c, m).clock = m.clock
    BY DEF NewRow
  <2>7. RowTaken(c, m.row)
    BY <2>1, <2>2, <2>3, <2>5, <2>6 DEF RowTaken
  <2>. QED
    BY <1>1, <2>2, <2>7 DEF RowMoves
<1>. QED
  BY <1>2, <1>3, <1>4, <1>5, <1>6 DEF Effect

(* A Get() that returns leaves the cached row as it is; the others leave   *)
(* what was read.                                                          *)
GotMoves(t, r) ==
  \/ got'[t][r] = got[t][r]
  \/ /\ got'[t][r].seen = storage[ClientOf[t]][r].data
     /\ UNCHANGED storage

LEMMA StepGotMoves ==
  ASSUME TypeOK, [Next]_vars
  PROVE  \A t \in Threads, r \in Rows : GotMoves(t, r)
<1>1. got \in [Threads -> [Rows -> Reads]]
  BY DEF TypeOK, TypeApp
<1>2. ASSUME UNCHANGED got
      PROVE  \A t \in Threads, r \in Rows : GotMoves(t, r)
  BY <1>2 DEF GotMoves
<1>3. ASSUME NEW t \in Threads, NEW r \in Rows, UNCHANGED storage,
             got' = [got EXCEPT ![t][r] = Seen(t, r)]
      PROVE  \A u \in Threads, x \in Rows : GotMoves(u, x)
  <2>1. Seen(t, r).seen = storage[ClientOf[t]][r].data
    BY DEF Seen
  <2>2. \A u \in Threads, x \in Rows :
          got'[u][x] = IF u = t /\ x = r THEN Seen(t, r) ELSE got[u][x]
    BY <1>1, <1>3
  <2>. QED
    BY <1>3, <2>1, <2>2 DEF GotMoves
<1>4. ASSUME NEW t \in Readers, NEW r \in Rows, GetCached(t, r)
      PROVE  \A u \in Threads, x \in Rows : GotMoves(u, x)
  BY <1>3, <1>4, SSPAssumption DEF GetCached, clientVars
<1>5. ASSUME NEW t \in Threads, GetResume(t)
      PROVE  \A u \in Threads, x \in Rows : GotMoves(u, x)
  <2>1. want[t].row \in Rows
    BY DEF TypeOK, TypeApp
  <2>2. UNCHANGED got \/ got' = [got EXCEPT ![t][want[t].row] = Seen(t, want[t].row)]
    BY <1>5 DEF GetResume
  <2>. QED
    BY <1>2, <1>3, <1>5, <2>1, <2>2 DEF GetResume, clientVars
<1>6. ASSUME NEW t \in Threads, NEW r \in Rows,
             \/ Inc(t, r) \/ GetFetch(t, r) \/ ClockFlush(t) \/ ClockTick(t)
             \/ BgClock(t) \/ BgSendOpLog(t) \/ BgRowRequest(t)
      PROVE  UNCHANGED got
  BY <1>6 DEF Inc, GetFetch, ClockFlush, ClockTick, BgClock, BgSendOpLog, BgRowRequest, appVars
<1>7. ASSUME NEW c \in Clients, NEW r \in Rows, Evict(c, r)
      PROVE  UNCHANGED got
  BY <1>7 DEF Evict, appVars
<1>8. ASSUME NEW c \in Clients, NEW s \in Servers,
             \/ BgRowReply(s, c) \/ BgOpLogAck(s, c)
             \/ ServerRowRequest(c, s) \/ ServerOpLog(c, s)
      PROVE  UNCHANGED got
  BY <1>8 DEF BgRowReply, BgOpLogAck, ServerRowRequest, ServerOpLog, appVars
<1>9. UNCHANGED vars => UNCHANGED got
  BY DEF vars, appVars
<1>10. Writers \subseteq Threads /\ Readers \subseteq Threads /\ \E r \in Rows : TRUE
  BY SSPAssumption
<1>. QED
  BY <1>2, <1>4, <1>5, <1>6, <1>7, <1>8, <1>9, <1>10 DEF Next, Step, Rest

LEMMA LastingLess ==
  ASSUME TypeOK, NEW c \in Clients, NEW r \in Rows, NEW S, NEW T, T \subseteq S,
         NEW k \in Int, NEW j \in Int, j <= k, Lasting(c, r, S, k)
  PROVE  Lasting(c, r, T, j)
<1>1. ServerOf[r] \in Servers
  BY SSPAssumption
<1>2. \A d \in Clients : sClock[ServerOf[r]][d] \in Nat
  BY <1>1 DEF TypeOK, TypeServer
<1>3. \A s \in Servers : \A m \in RepliesTo(s, c) : m.clock \in Nat
  BY ChannelTypes DEF RowReplyMsgs
<1>. QED
  BY <1>2, <1>3 DEF Lasting

LEMMA LastingNone ==
  ASSUME TypeOK, NEW c \in Clients, NEW r \in Rows
  PROVE  Lasting(c, r, {}, -1)
<1>1. ServerOf[r] \in Servers
  BY SSPAssumption
<1>2. \A d \in Clients : sClock[ServerOf[r]][d] \in Nat
  BY <1>1 DEF TypeOK, TypeServer
<1>3. \A s \in Servers : \A m \in RepliesTo(s, c) : m.clock \in Nat
  BY ChannelTypes DEF RowReplyMsgs
<1>. QED
  BY <1>2, <1>3 DEF Lasting

NothingLasts == \A c \in Clients, r \in Rows : Lasting(c, r, {}, -1)

LEMMA NothingLastsNext == TypeOK' => NothingLasts'
<1>1. TypeOK => NothingLasts
  BY LastingNone DEF NothingLasts
<1>. QED
  BY <1>1, PTL

LEMMA StorageKept ==
  ASSUME TypeOK, TypeOK', ServersGrow, RowMoves, StorageLasts
  PROVE  StorageLasts'
<1>1. SUFFICES ASSUME NEW c \in Clients, NEW r \in Rows
               PROVE  Lasting(c, r, Others(storage[c][r].data, c), storage[c][r].clock)'
  BY DEF StorageLasts
<1>2. NothingLasts'
  BY NothingLastsNext
<1>3. CASE storage'[c][r] = NoRow
  <2>1. Others(storage'[c][r].data, c) = {} /\ storage'[c][r].clock = -1
    BY <1>3 DEF NoRow, Others
  <2>. QED
    BY <1>2, <2>1 DEF NothingLasts, Lasting
<1>4. CASE RowKept(c, r)
  <2>1. storage[c][r].clock \in Int
    BY DEF TypeOK, TypeClient, CachedRows, Versions
  <2>2. PICK S : S = Others(storage[c][r].data, c)
    OBVIOUS
  <2>3. PICK k \in Int : k = storage[c][r].clock /\ S = Others(storage[c][r].data, c)
    BY <2>1, <2>2
  <2>4. Lasting(c, r, S, k)
    BY <2>3 DEF StorageLasts
  <2>5. Lasting(c, r, S, k)'
    BY <2>4, LastingKept
  <2>6. Others(storage'[c][r].data, c) = S /\ storage'[c][r].clock = k
    BY <1>4, <2>3 DEF RowKept
  <2>. QED
    BY <2>5, <2>6 DEF Lasting
<1>5. CASE RowTaken(c, r)
  <2>1. PICK m : /\ Lasting(c, r, m.data, m.clock)'
                 /\ Others(storage'[c][r].data, c) = Others(m.data, c)
                 /\ storage'[c][r].clock = m.clock
    BY <1>5 DEF RowTaken
  <2>2. Others(m.data, c) \subseteq m.data
    BY DEF Others
  <2>. QED
    BY <2>1, <2>2 DEF Lasting
<1>. QED
  BY <1>3, <1>4, <1>5 DEF RowMoves

LEMMA SeenKept ==
  ASSUME TypeOK, TypeOK', ServersGrow, RowMoves, StorageLasts, SeenLasts,
         \A t \in Threads, r \in Rows : GotMoves(t, r)
  PROVE  SeenLasts'
<1>1. SUFFICES ASSUME NEW t \in Threads, NEW r \in Rows
               PROVE  /\ Lasting(ClientOf[t], r, Others(got[t][r].seen, ClientOf[t]), -1)'
                      /\ Cached(ClientOf[t], r)' =>
                           Others(got'[t][r].seen, ClientOf[t])
                             \subseteq storage'[ClientOf[t]][r].data
  BY DEF SeenLasts
<1>2. PICK c \in Clients : c = ClientOf[t]
  BY SSPAssumption
<1>3. CASE got'[t][r] = got[t][r]
  <2>1. PICK S : S = Others(got[t][r].seen, c)
    OBVIOUS
  <2>2. Lasting(c, r, S, -1) /\ (Cached(c, r) => S \subseteq storage[c][r].data)
    BY <1>2, <2>1 DEF SeenLasts
  <2>3. Lasting(c, r, S, -1)'
    BY <2>2, LastingKept
  <2>4. ASSUME storage'[c][r] # NoRow
        PROVE  S \subseteq storage'[c][r].data
    <3>1. CASE RowKept(c, r)
      BY <2>2, <2>4, <3>1 DEF RowKept, Cached
    <3>2. CASE RowTaken(c, r)
      <4>1. PICK m \in RepliesTo(ServerOf[r], c) :
              m.row = r /\ Others(storage'[c][r].data, c) = Others(m.data, c)
        BY <3>2 DEF RowTaken
      <4>2. S \subseteq m.data
        BY <2>2, <4>1, SSPAssumption DEF Lasting
      <4>. QED
        BY <2>1, <4>1, <4>2 DEF Others
    <3>. QED
      BY <2>4, <3>1, <3>2 DEF RowMoves
  <2>5. Others(got'[t][r].seen, c) = S
    BY <1>3, <2>1
  <2>. QED
    BY <1>2, <2>3, <2>4, <2>5 DEF Lasting, Cached
<1>4. CASE got'[t][r].seen = storage[c][r].data /\ UNCHANGED storage
  <2>1. storage[c][r].clock \in Versions
    BY DEF TypeOK, TypeClient, CachedRows
  <2>2. PICK S : S = Others(storage[c][r].data, c)
    OBVIOUS
  <2>3. Lasting(c, r, S, -1)
    <3>1. PICK k \in Int : k = storage[c][r].clock /\ -1 <= k
      BY <2>1 DEF Versions
    <3>2. Lasting(c, r, S, k)
      BY <2>2, <3>1 DEF StorageLasts
    <3>. QED
      BY <3>1, <3>2, LastingLess
  <2>4. Lasting(c, r, S, -1)'
    BY <2>3, LastingKept
  <2>5. Others(got'[t][r].seen, c) = S /\ S \subseteq storage'[c][r].data
    BY <1>4, <2>2 DEF Others
  <2>. QED
    BY <1>2, <2>4, <2>5 DEF Lasting
<1>. QED
  BY <1>2, <1>3, <1>4 DEF GotMoves

LEMMA SeenMadeKept ==
  ASSUME MadeValues, SeenMade, \A r \in Rows : made[r] \subseteq made'[r],
         \A t \in Threads, r \in Rows : GotMoves(t, r)
  PROVE  SeenMade'
<1>1. SUFFICES ASSUME NEW t \in Threads, NEW r \in Rows
               PROVE  got'[t][r].seen \subseteq made'[r]
  BY DEF SeenMade
<1>2. ClientOf[t] \in Clients
  BY SSPAssumption
<1>. QED
  BY <1>2 DEF GotMoves, SeenMade, MadeValues

-----------------------------------------------------------------------------
(* How a Get() under way moves.                                            *)
Stays(t) == pc'[t] = pc[t] /\ want'[t] = want[t] /\ clock'[t] = clock[t]
Leaves(t) == pc'[t] \in {"run", "flushed"} /\ want'[t] \in {want[t], NoWant}
Fetches(t) ==
  /\ pc'[t] = "waiting" /\ clock'[t] = clock[t]
  /\ \/ /\ want'[t].clock = StalestClock(t) /\ want'[t].fetches = 0
        /\ want'[t].since = evicted[ClientOf[t]]
     \/ /\ pc[t] = "woken" /\ ~Cached(ClientOf[t], want[t].row)
        /\ want'[t].clock = want[t].clock /\ want'[t].fetches = want[t].fetches + 1
        /\ want'[t].since = want[t].since
Wakes(t) ==
  /\ pc[t] = "waiting" /\ pc'[t] = "woken" /\ want'[t] = want[t] /\ clock'[t] = clock[t]
  /\ storage'[ClientOf[t]][want[t].row] # NoRow
  /\ want[t].clock <= storage'[ClientOf[t]][want[t].row].clock

WaitMoves == \A t \in Threads : Stays(t) \/ Leaves(t) \/ Fetches(t) \/ Wakes(t)

LEMMA AppWaits ==
  ASSUME TypeOK, NEW t \in Threads, NEW r \in Rows,
         GetFetch(t, r) \/ GetResume(t) \/ ClockFlush(t) \/ ClockTick(t)
  PROVE  WaitMoves
<1>1. /\ pc \in [Threads -> {"run", "flushed", "waiting", "woken"}]
      /\ want \in [Threads -> [row : Rows, clock : Clocks, fetches : 0 .. 3, since : 0 .. MaxEvict]]
      /\ clock \in [Threads -> Clocks]
  BY DEF TypeOK, TypeApp
<1>2. CASE GetFetch(t, r)
  <2>1. /\ pc' = [pc EXCEPT ![t] = "waiting"] /\ UNCHANGED clock
        /\ want' = [want EXCEPT ![t] = [row |-> r, clock |-> StalestClock(t), fetches |-> 0,
                                        since |-> evicted[ClientOf[t]]]]
    BY <1>2 DEF GetFetch
  <2>2. Fetches(t)
    BY <1>1, <2>1 DEF Fetches
  <2>3. \A u \in Threads : u # t => Stays(u)
    BY <1>1, <2>1 DEF Stays
  <2>. QED
    BY <2>2, <2>3 DEF WaitMoves
<1>3. CASE GetResume(t)
  <2>1. /\ UNCHANGED clock /\ pc[t] = "woken"
        /\ \/ UNCHANGED <<pc, want>>
           \/ pc' = [pc EXCEPT ![t] = "run"] /\ want' = [want EXCEPT ![t] = NoWant]
           \/ /\ ~Cached(ClientOf[t], want[t].row)
              /\ pc' = [pc EXCEPT ![t] = "waiting"]
              /\ want' = [want EXCEPT ![t].fetches = want[t].fetches + 1]
    BY <1>3 DEF GetResume
  <2>2. \A u \in Threads : u # t => Stays(u)
    BY <1>1, <2>1 DEF Stays
  <2>3. CASE UNCHANGED <<pc, want>>
    BY <2>1, <2>3 DEF WaitMoves, Stays
  <2>4. CASE pc' = [pc EXCEPT ![t] = "run"] /\ want' = [want EXCEPT ![t] = NoWant]
    <3>1. Leaves(t)
      BY <1>1, <2>4 DEF Leaves
    <3>. QED
      BY <2>2, <3>1 DEF WaitMoves
  <2>5. CASE /\ ~Cached(ClientOf[t], want[t].row)
             /\ pc' = [pc EXCEPT ![t] = "waiting"]
             /\ want' = [want EXCEPT ![t].fetches = want[t].fetches + 1]
    <3>1. Fetches(t)
      BY <1>1, <2>1, <2>5 DEF Fetches
    <3>. QED
      BY <2>2, <3>1 DEF WaitMoves
  <2>. QED
    BY <2>1, <2>3, <2>4, <2>5
<1>4. CASE ClockFlush(t) \/ ClockTick(t)
  <2>1. /\ UNCHANGED want
        /\ \/ pc' = [pc EXCEPT ![t] = "flushed"] /\ clock' = [clock EXCEPT ![t] = @ + 1]
           \/ pc' = [pc EXCEPT ![t] = "run"] /\ UNCHANGED clock
    BY <1>4 DEF ClockFlush, ClockTick
  <2>2. \A u \in Threads : u # t => Stays(u)
    BY <1>1, <2>1 DEF Stays
  <2>3. Leaves(t)
    BY <1>1, <2>1 DEF Leaves
  <2>. QED
    BY <2>2, <2>3 DEF WaitMoves
<1>. QED
  BY <1>2, <1>3, <1>4

LEMMA BgRowRequestWaits ==
  ASSUME TypeOK, RequestsInv, NEW t \in Threads, BgRowRequest(t)
  PROVE  WaitMoves
<1>1. /\ toBg[t] # << >> /\ Head(toBg[t]).type = "RowRequest"
      /\ toBg' = [toBg EXCEPT ![t] = Tail(@)]
      /\ UNCHANGED <<want, clock, storage>>
  BY DEF BgRowRequest, clientVars
<1>2. pc[t] = "waiting" /\ Head(toBg[t]) = RowRequestMsg(want[t].row, want[t].clock)
  BY <1>1, RequestTaken
<1>3. Head(toBg[t]).row = want[t].row /\ Head(toBg[t]).clock = want[t].clock
  BY <1>2 DEF RowRequestMsg
<1>4. \/ UNCHANGED pc
      \/ /\ pc' = [pc EXCEPT ![t] = "woken"] /\ Cached(ClientOf[t], want[t].row)
         /\ storage[ClientOf[t]][want[t].row].clock >= want[t].clock
  BY <1>3 DEF BgRowRequest
<1>5. CASE UNCHANGED pc
  BY <1>1, <1>5 DEF WaitMoves, Stays
<1>6. CASE /\ pc' = [pc EXCEPT ![t] = "woken"] /\ Cached(ClientOf[t], want[t].row)
           /\ storage[ClientOf[t]][want[t].row].clock >= want[t].clock
  <2>1. /\ pc \in [Threads -> {"run", "flushed", "waiting", "woken"}]
        /\ want[t].clock \in Int /\ storage[ClientOf[t]][want[t].row].clock \in Int
    BY SSPAssumption DEF TypeOK, TypeApp, TypeClient, CachedRows, Versions, Clocks
  <2>2. Wakes(t)
    BY <1>1, <1>2, <1>6, <2>1 DEF Wakes, Cached
  <2>3. \A u \in Threads : u # t => Stays(u)
    BY <1>1, <1>6, <2>1 DEF Stays
  <2>. QED
    BY <2>2, <2>3 DEF WaitMoves
<1>. QED
  BY <1>4, <1>5, <1>6

LEMMA BgRowReplyWaits ==
  ASSUME TypeOK, RequestsInv, NEW s \in Servers, NEW c \in Clients, BgRowReply(s, c)
  PROVE  WaitMoves
<1> DEFINE m == Head(toClient[s][c])
           served == ServedThreads(mgr[c], m.row, m.clock)
<1>1. /\ UNCHANGED <<want, clock>> /\ toClient[s][c] # << >> /\ m.type = "RowReply"
      /\ \/ UNCHANGED pc
         \/ /\ storage' = [storage EXCEPT ![c][m.row] = NewRow(c, m)]
            /\ pc' = [t \in Threads |-> IF t \in served THEN "woken" ELSE pc[t]]
  BY DEF BgRowReply
<1>2. m \in RowReplyMsgs
  BY <1>1, HeadToClient DEF TypeOK, AckMsgs
<1>3. m.row \in Rows /\ m.clock \in Nat /\ version[c] \in Nat
  BY <1>2 DEF RowReplyMsgs, TypeOK, TypeBg
<1>4. NewRow(c, m).clock = m.clock
  BY DEF NewRow
<1> HIDE DEF m
<1>5. CASE UNCHANGED pc
  BY <1>1, <1>5 DEF WaitMoves, Stays
<1>6. CASE /\ storage' = [storage EXCEPT ![c][m.row] = NewRow(c, m)]
           /\ pc' = [t \in Threads |-> IF t \in served THEN "woken" ELSE pc[t]]
  <2>1. mgr[c] \in Managers /\ ListedOnce(mgr[c])
    BY DEF TypeOK, TypeBg, RequestsInv, ListedWait
  <2>2. \A t \in served : \E e \in Entries(mgr[c]) :
          e.thread = t /\ e.row = m.row /\ e.clock <= m.clock
    BY <1>3, <2>1, InformReplyEntries
  <2> HIDE DEF served
  <2>3. storage'[c][m.row] = NewRow(c, m)
    BY <1>3, <1>6 DEF TypeOK, TypeClient
  <2>4. ASSUME NEW t \in Threads, t \in served
        PROVE  Wakes(t)
    <3>1. PICK e \in Entries(mgr[c]) : e.thread = t /\ e.row = m.row /\ e.clock <= m.clock
      BY <2>2, <2>4
    <3>2. /\ ClientOf[t] = c /\ pc[t] = "waiting"
          /\ want[t].row = m.row /\ want[t].clock <= m.clock
      BY <3>1 DEF RequestsInv, ListedWait, Awaits
    <3>3. NewRow(c, m) # NoRow
      BY <1>3, <1>4 DEF NoRow
    <3>. QED
      BY <1>1, <1>4, <1>6, <2>3, <2>4, <3>2, <3>3 DEF Wakes
  <2>5. ASSUME NEW t \in Threads, t \notin served
        PROVE  Stays(t)
    BY <1>1, <1>6, <2>5 DEF Stays
  <2>. QED
    BY <2>4, <2>5 DEF WaitMoves
<1>. QED
  BY <1>1, <1>5, <1>6

LEMMA StepWaits ==
  ASSUME TypeOK, RequestsInv, [Next]_vars
  PROVE  WaitMoves
<1>1. ASSUME UNCHANGED <<pc, want, clock>>
      PROVE  WaitMoves
  BY <1>1 DEF WaitMoves, Stays
<1>2. ASSUME NEW t \in Threads, NEW r \in Rows,
             Inc(t, r) \/ GetCached(t, r) \/ BgClock(t) \/ BgSendOpLog(t)
      PROVE  UNCHANGED <<pc, want, clock>>
  BY <1>2 DEF Inc, GetCached, BgClock, BgSendOpLog, appVars
<1>3. ASSUME NEW c \in Clients, NEW r \in Rows, Evict(c, r)
      PROVE  UNCHANGED <<pc, want, clock>>
  BY <1>3 DEF Evict, appVars
<1>4. ASSUME NEW c \in Clients, NEW s \in Servers,
             BgOpLogAck(s, c) \/ ServerRowRequest(c, s) \/ ServerOpLog(c, s)
      PROVE  UNCHANGED <<pc, want, clock>>
  BY <1>4 DEF BgOpLogAck, ServerRowRequest, ServerOpLog, appVars
<1>5. UNCHANGED vars => UNCHANGED <<pc, want, clock>>
  BY DEF vars, appVars
<1>6. Writers \subseteq Threads /\ Readers \subseteq Threads /\ \E r \in Rows : TRUE
  BY SSPAssumption
<1>. QED
  BY <1>1, <1>2, <1>3, <1>4, <1>5, <1>6, AppWaits, BgRowRequestWaits, BgRowReplyWaits
  DEF Next, Step, Rest

LEMMA WantKept ==
  ASSUME TypeOK, WaitMoves, WantStalest
  PROVE  WantStalest'
<1>1. SUFFICES ASSUME NEW t \in Threads, pc'[t] \in {"waiting", "woken"}
               PROVE  want'[t].clock = StalestClock(t)'
  BY DEF WantStalest
<1>2. clock'[t] = clock[t] => StalestClock(t)' = StalestClock(t)
  BY DEF StalestClock
<1>3. CASE Stays(t) \/ Wakes(t)
  BY <1>1, <1>2, <1>3 DEF WantStalest, Stays, Wakes
<1>4. CASE Fetches(t)
  BY <1>2, <1>4 DEF WantStalest, Fetches
<1>5. CASE Leaves(t)
  BY <1>1, <1>5 DEF Leaves
<1>. QED
  BY <1>3, <1>4, <1>5 DEF WaitMoves

ClocksTyped ==
  /\ \A s \in Servers, d \in Clients : sClock[s][d] \in Nat
  /\ \A s \in Servers, c \in Clients : \A m \in RepliesTo(s, c) : m.clock \in Nat

LEMMA ClocksAreTyped == TypeOK => ClocksTyped
<1>1. TypeOK => \A s \in Servers, c \in Clients : \A m \in RepliesTo(s, c) : m.clock \in Nat
  BY ChannelTypes DEF RowReplyMsgs
<1>. QED
  BY <1>1 DEF ClocksTyped, TypeOK, TypeServer

LEMMA ClocksNextTyped == TypeOK' => ClocksTyped'
BY ClocksAreTyped, PTL

LEMMA WokenKept ==
  ASSUME TypeOK, TypeOK', ServersGrow, RowMoves, WaitMoves, WokenLasts, StorageLasts'
  PROVE  WokenLasts'
<1>1. SUFFICES ASSUME NEW t \in Threads, pc'[t] = "woken"
               PROVE  /\ Lasting(ClientOf[t], want[t].row, {}, want[t].clock)'
                      /\ Cached(ClientOf[t], want[t].row)' =>
                           want'[t].clock <= storage'[ClientOf[t]][want'[t].row].clock
  BY DEF WokenLasts
<1>2. PICK c \in Clients : c = ClientOf[t]
  BY SSPAssumption
<1>3. PICK r \in Rows : r = want[t].row
  BY DEF TypeOK, TypeApp
<1>4. PICK k \in Int : k = want[t].clock
  BY SSPAssumption DEF TypeOK, TypeApp, Clocks
<1>5. want'[t] = want[t]
  BY <1>1 DEF WaitMoves, Stays, Leaves, Fetches, Wakes
<1>6. CASE Stays(t)
  <2>1. Lasting(c, r, {}, k) /\ (Cached(c, r) => k <= storage[c][r].clock)
    BY <1>1, <1>2, <1>3, <1>4, <1>6 DEF WokenLasts, Stays
  <2>2. Lasting(c, r, {}, k)'
    BY <2>1, LastingKept
  <2>3. ASSUME storage'[c][r] # NoRow
        PROVE  k <= storage'[c][r].clock
    <3>1. CASE RowKept(c, r)
      BY <2>1, <2>3, <3>1 DEF RowKept, Cached
    <3>2. CASE RowTaken(c, r)
      <4>1. PICK m \in RepliesTo(ServerOf[r], c) : m.row = r /\ storage'[c][r].clock = m.clock
        BY <3>2 DEF RowTaken
      <4>. QED
        BY <2>1, <4>1, SSPAssumption DEF Lasting
    <3>. QED
      BY <2>3, <3>1, <3>2 DEF RowMoves
  <2>. QED
    BY <1>2, <1>3, <1>4, <1>5, <2>2, <2>3 DEF Lasting, Cached
<1>7. CASE Wakes(t)
  <2>1. k <= storage'[c][r].clock /\ storage'[c][r].clock \in Int
    BY <1>2, <1>3, <1>4, <1>7 DEF Wakes, TypeOK, TypeClient, CachedRows, Versions
  <2>2. ClocksTyped' /\ ServerOf[r] \in Servers
    BY ClocksNextTyped, SSPAssumption
  <2>3. Lasting(c, r, Others(storage[c][r].data, c), storage[c][r].clock)'
    BY DEF StorageLasts
  <2>4. PICK j \in Int : j = storage'[c][r].clock
    BY <2>1
  <2>5. /\ \A d \in Clients : j <= sClock'[ServerOf[r]][d]
        /\ \A s \in Servers : \A m \in RepliesTo(s, c)' : m.row = r => j <= m.clock
    BY <2>3, <2>4 DEF Lasting
  <2>6. /\ \A d \in Clients : k <= sClock'[ServerOf[r]][d]
        /\ \A s \in Servers : \A m \in RepliesTo(s, c)' : m.row = r => k <= m.clock
    BY <2>1, <2>2, <2>4, <2>5 DEF ClocksTyped
  <2>. QED
    BY <1>2, <1>3, <1>4, <1>5, <2>1, <2>6 DEF Lasting
<1>. QED
  BY <1>1, <1>6, <1>7 DEF WaitMoves, Leaves, Fetches

-----------------------------------------------------------------------------
MadeFinite == \A r \in Rows : IsFiniteSet(made[r])

LEMMA EffectMade ==
  ASSUME TypeOK, OwnInv, MadeFinite, Effect
  PROVE  MadeFinite' /\ \A r \in Rows : made[r] \subseteq made'[r]
<1>1. ASSUME NEW t \in Writers, NEW r \in Rows, Inc(t, r)
      PROVE  MadeFinite' /\ \A x \in Rows : made[x] \subseteq made'[x]
  <2>1. t \in Threads /\ MadeNumbered
    BY SSPAssumption DEF OwnInv
  <2>2. PICK u \in Updates : IncEffect(ClientOf[t], r, u)
    BY <1>1, <2>1, IncIsEffect
  <2>3. \A x \in Rows : made'[x] = IF x = r THEN made[x] \cup {u} ELSE made[x]
    BY <2>2 DEF IncEffect
  <2>4. \A x \in Rows : IsFiniteSet(made[x] \cup {u})
    BY FS_AddElement DEF MadeFinite
  <2>. QED
    BY <2>3, <2>4 DEF MadeFinite
<1>2. ASSUME UNCHANGED made
      PROVE  MadeFinite' /\ \A x \in Rows : made[x] \subseteq made'[x]
  BY <1>2 DEF MadeFinite
<1>. QED
  BY <1>1, <1>2 DEF Effect, Quiet, Batched, RowRebuilt, AppliedBatch

SeenInv ==
  /\ RequestsInv /\ RepliesOrdered /\ RepliesHeld
  /\ StorageLasts /\ SeenLasts /\ SeenMade /\ WokenLasts /\ WantStalest /\ MadeFinite

ReadInv == ClocksInv /\ SeenInv

LEMMA InitRead == Init => ReadInv
<1>1. SUFFICES ASSUME Init PROVE ReadInv
  OBVIOUS
<1>2. ClocksInv /\ RequestsInv
  BY <1>1, InitClocks, InitRequests
<1>3. TypeOK
  BY <1>2 DEF ClocksInv, ReplayInv
<1>4. \A s \in Servers, c \in Clients : toClient[s][c] = << >> /\ RepliesTo(s, c) = {}
  <2>1. \A s \in Servers, c \in Clients : toClient[s][c] = << >>
    BY <1>1 DEF Init
  <2>. QED
    BY <2>1 DEF RepliesTo, OfType, Range
<1>5. RepliesOrdered /\ RepliesHeld
  BY <1>4 DEF RepliesOrdered, RepliesHeld, ReplyOrder
<1>6. \A c \in Clients, r \in Rows : Lasting(c, r, {}, -1)
  BY <1>3, LastingNone
<1>7. \A c \in Clients, r \in Rows : storage[c][r].data = {} /\ storage[c][r].clock = -1
  BY <1>1 DEF Init, NoRow
<1>8. \A t \in Threads, r \in Rows : got[t][r].seen = {}
  BY <1>1 DEF Init, Store!NothingRead
<1>9. \A c : Others({}, c) = {}
  BY DEF Others
<1>10. StorageLasts /\ SeenLasts /\ SeenMade
  <2>1. \A t \in Threads : ClientOf[t] \in Clients
    BY SSPAssumption
  <2>. QED
    BY <1>6, <1>7, <1>8, <1>9, <2>1 DEF StorageLasts, SeenLasts, SeenMade
<1>11. WokenLasts /\ WantStalest
  BY <1>1 DEF Init, WokenLasts, WantStalest
<1>12. MadeFinite
  BY <1>1, FS_EmptySet DEF Init, MadeFinite
<1>. QED
  BY <1>2, <1>5, <1>10, <1>11, <1>12 DEF ReadInv, SeenInv

LEMMA ReadStep == ReadInv /\ [Next]_vars => ReadInv'
<1>1. SUFFICES ASSUME ReadInv, [Next]_vars PROVE ReadInv'
  OBVIOUS
<1>2. ClocksInv /\ ClocksInv' /\ Effect /\ SeenInv
  BY <1>1, ClocksStep DEF ReadInv
<1>3. /\ TypeOK /\ TypeOK' /\ ChannelInv /\ OwnInv /\ RepliesApart /\ RepliesCurrent /\ MadeValues
      /\ RequestsInv /\ RepliesOrdered /\ RepliesHeld /\ StorageLasts /\ SeenLasts /\ SeenMade
      /\ WokenLasts /\ WantStalest /\ MadeFinite
  BY <1>2 DEF ClocksInv, ReplayInv, OwnInv, ApartInv, StaleInv, SeenInv
<1>4. ServersGrow /\ AllInTurn
  BY <1>1, <1>2, <1>3, EffectGrows, StepInTurn
<1>5. RowMoves /\ WaitMoves /\ \A t \in Threads, r \in Rows : GotMoves(t, r)
  BY <1>1, <1>2, <1>3, EffectRowMoves, StepWaits, StepGotMoves
<1>6. RequestsInv' /\ RepliesOrdered' /\ RepliesHeld'
  BY <1>1, <1>3, <1>4, StepRequests, OrderedKept, HeldKept
<1>7. MadeFinite' /\ \A r \in Rows : made[r] \subseteq made'[r]
  BY <1>2, <1>3, EffectMade
<1>8. StorageLasts' /\ SeenLasts'
  BY <1>3, <1>4, <1>5, StorageKept, SeenKept
<1>9. SeenMade' /\ WokenLasts' /\ WantStalest'
  BY <1>3, <1>4, <1>5, <1>7, <1>8, SeenMadeKept, WokenKept, WantKept
<1>. QED
  BY <1>2, <1>6, <1>7, <1>8, <1>9 DEF ReadInv, SeenInv

-----------------------------------------------------------------------------
(* The store: every step of the system is a step of SSPStore or none.      *)
LEMMA IncRefines ==
  ASSUME MadeNumbered, MadeFinite, NEW t \in Threads, NEW r \in Rows, Inc(t, r),
         made[r] \in SUBSET Updates, clock[t] \in Clocks
  PROVE  Store!Inc(t, r)
<1> DEFINE S == made[r]
           k == clock[t]
<1>1. PICK n \in 1 .. MaxIncs :
        /\ n = Cardinality({ v \in S : v[1] = t /\ v[2] = k }) + 1
        /\ made' = [made EXCEPT ![r] = @ \cup {<<t, k, n>>}]
        /\ UNCHANGED <<clock, got>>
  BY DEF Inc
<1>2. S \in SUBSET Updates /\ Numbered(S) /\ IsFiniteSet(S) /\ k \in Clocks
  BY DEF MadeNumbered, MadeFinite
<1>3. <<t, k, n>> \notin S /\ n \in 1 .. Cardinality(S) + 1
  <2> HIDE DEF S, k
  <2> DEFINE M == { v \in S : v[1] = t /\ v[2] = k }
  <2>1. <<t, k, n>> \notin S
    BY <1>1, <1>2, NextNumber
  <2>2. /\ M \subseteq S /\ Cardinality(M) \in Nat /\ Cardinality(S) \in Nat
        /\ Cardinality(M) <= Cardinality(S)
    BY <1>2, FS_Subset, FS_CardinalityType
  <2>. QED
    BY <1>1, <2>1, <2>2
<1>4. Store!Cardinality(made[r]) = Cardinality(made[r])
  BY DEF Cardinality, Store!Cardinality
<1>. QED
  BY <1>1, <1>3, <1>4 DEF Store!Inc

LEMMA StalestClockLeast ==
  ASSUME NEW t \in Threads, clock[t] \in Clocks
  PROVE  clock[t] - Staleness <= StalestClock(t)
<1> DEFINE S == {0, clock[t] - Staleness}
<1>1. clock[t] \in 0 .. MaxClock /\ Staleness \in Nat /\ MaxClock \in Nat
  BY SSPAssumption DEF Clocks
<1>2. S \subseteq Int /\ S # {} /\ IsFiniteSet(S)
  <2>1. S = {0} \cup {clock[t] - Staleness}
    OBVIOUS
  <2>2. IsFiniteSet({0} \cup {clock[t] - Staleness})
    BY FS_Singleton, FS_AddElement
  <2>. QED
    BY <1>1, <2>1, <2>2
<1>3. clock[t] - Staleness \in S
  OBVIOUS
<1>4. clock[t] - Staleness <= Max(S)
  <2> HIDE DEF S
  <2>1. \A y \in S : Max(S) >= y /\ Max(S) \in Int /\ y \in Int
    BY <1>2, MaxIsGreatest
  <2>. QED
    BY <1>3, <2>1
<1>. QED
  BY <1>4 DEF StalestClock

LEMMA GetRefines ==
  ASSUME TypeOK, MadeValues, ReadMyWrites, BoundedStaleness, SeenLasts, SeenMade,
         NEW t \in Threads, NEW r \in Rows, Cached(ClientOf[t], r),
         StalestClock(t) <= storage[ClientOf[t]][r].clock,
         got' = [got EXCEPT ![t][r] = Seen(t, r)], UNCHANGED <<made, clock>>
  PROVE  Store!Get(t, r)
<1> DEFINE c == ClientOf[t]
           row == storage[c][r]
<1>1. c \in Clients /\ row.data \subseteq made[r]
  BY SSPAssumption DEF MadeValues
<1>2. { u \in made[r] : ClientOf[u[1]] = c } \subseteq row.data
  BY <1>1 DEF ReadMyWrites
<1>3. ASSUME NEW u \in made[r], u[2] < clock[t] - Staleness
      PROVE  u \in row.data
  <2>1. u[2] \in Int /\ clock[t] \in Int /\ Staleness \in Int /\ row.clock \in Int
    <3>1. u \in Updates
      BY DEF TypeOK, TypeHistory, Logs
    <3>2. clock[t] \in Clocks /\ row \in CachedRows
      BY <1>1 DEF TypeOK, TypeApp, TypeClient
    <3>. QED
      BY <3>1, <3>2, SSPAssumption DEF Updates, Clocks, CachedRows, Versions
  <2>2. clock[t] - Staleness <= StalestClock(t) /\ StalestClock(t) \in Int
    <3>1. clock[t] \in Clocks
      BY DEF TypeOK, TypeApp
    <3>. QED
      BY <3>1, StalestClockLeast, StalestClockType, SSPAssumption DEF TypeOK, Clocks
  <2>3. u[2] < row.clock
    BY <1>3, <2>1, <2>2
  <2>. QED
    BY <1>1, <2>3 DEF BoundedStaleness
<1>4. Store!Due(t, r) \subseteq row.data
  BY <1>2, <1>3 DEF Store!Due
<1>5. ASSUME NEW u \in got[t][r].seen
      PROVE  u \in row.data
  <2>1. CASE ClientOf[u[1]] = c
    BY <1>2, <1>5, <2>1 DEF SeenMade
  <2>2. CASE ClientOf[u[1]] # c
    BY <1>5, <2>2 DEF SeenLasts, Others
  <2>. QED
    BY <2>1, <2>2
<1>6. Seen(t, r) = [due |-> Store!Due(t, r), seen |-> row.data]
  BY DEF Seen
<1>7. row.data \in SUBSET made[r] /\ Store!Due(t, r) \cup got[t][r].seen \subseteq row.data
  BY <1>1, <1>4, <1>5
<1> HIDE DEF row
<1>. QED
  BY <1>6, <1>7 DEF Store!Get

LEMMA StepRefines == ReadInv /\ [Next]_vars => [Store!Next]_(Store!svars)
<1>1. SUFFICES ASSUME ReadInv, [Next]_vars PROVE [Store!Next]_(Store!svars)
  OBVIOUS
<1>2. /\ TypeOK /\ MadeValues /\ MadeNumbered /\ ReadMyWrites /\ BoundedStaleness
      /\ SeenLasts /\ SeenMade /\ WantStalest /\ MadeFinite
  BY <1>1 DEF ReadInv, ClocksInv, ReplayInv, OwnInv, RebuiltInv, StaleInv, SeenInv
<1>3. ASSUME UNCHANGED <<made, clock, got>>
      PROVE  [Store!Next]_(Store!svars)
  BY <1>3 DEF Store!svars
<1>4. ASSUME NEW t \in Writers, NEW r \in Rows, Inc(t, r)
      PROVE  Store!Next
  <2>1. t \in Threads
    BY SSPAssumption
  <2>2. Store!Inc(t, r)
    <3>1. made[r] \in SUBSET Updates /\ clock[t] \in Clocks
      BY <1>2, <2>1 DEF TypeOK, TypeApp, TypeHistory, Logs
    <3>. QED
      BY <1>2, <1>4, <2>1, <3>1, IncRefines
  <2>. QED
    BY <2>1, <2>2 DEF Store!Next
<1>5. ASSUME NEW t \in Readers, NEW r \in Rows, GetCached(t, r)
      PROVE  Store!Next
  <2>1. t \in Threads
    BY SSPAssumption
  <2>2. /\ Cached(ClientOf[t], r) /\ storage[ClientOf[t]][r].clock >= StalestClock(t)
        /\ got' = [got EXCEPT ![t][r] = Seen(t, r)] /\ UNCHANGED <<made, clock>>
    BY <1>5 DEF GetCached, histVars
  <2>3. Store!Get(t, r)
    <3>1. StalestClock(t) <= storage[ClientOf[t]][r].clock
      BY <2>2
    <3>. QED
      BY <1>2, <2>1, <2>2, <3>1, GetRefines
  <2>. QED
    BY <2>1, <2>3 DEF Store!Next
<1>6. ASSUME NEW t \in Threads, GetResume(t)
      PROVE  [Store!Next]_(Store!svars)
  <2>1. UNCHANGED <<made, clock>>
    BY <1>6 DEF GetResume
  <2>2. CASE UNCHANGED got
    BY <1>3, <2>1, <2>2
  <2>3. CASE got' # got
    <3>1. PICK r \in Rows : r = want[t].row
      BY <1>2 DEF TypeOK, TypeApp
    <3>2. /\ pc[t] = "woken" /\ Cached(ClientOf[t], r)
          /\ ~(storage[ClientOf[t]][r].clock < want[t].clock)
          /\ got' = [got EXCEPT ![t][r] = Seen(t, r)]
      BY <1>6, <2>3, <3>1 DEF GetResume
    <3>3. want[t].clock = StalestClock(t)
      BY <1>2, <3>2 DEF WantStalest
    <3>4. storage[ClientOf[t]][r].clock \in Int /\ StalestClock(t) \in Int
      <4>1. storage[ClientOf[t]][r] \in CachedRows
        BY <1>2, SSPAssumption DEF TypeOK, TypeClient
      <4>2. StalestClock(t) \in Clocks
        BY <1>2, StalestClockType DEF TypeOK
      <4>. QED
        BY <4>1, <4>2, SSPAssumption DEF CachedRows, Versions, Clocks
    <3>5. StalestClock(t) <= storage[ClientOf[t]][r].clock
      BY <3>2, <3>3, <3>4
    <3>6. Store!Get(t, r)
      BY <1>2, <2>1, <3>2, <3>5, GetRefines
    <3>. QED
      BY <3>6 DEF Store!Next
  <2>. QED
    BY <2>2, <2>3
<1>7. ASSUME NEW t \in Threads, ClockFlush(t)
      PROVE  Store!Next
  BY <1>7 DEF ClockFlush, histVars, Store!Next, Store!Clock
<1>8. ASSUME NEW t \in Threads, NEW r \in Rows,
             \/ GetFetch(t, r) \/ ClockTick(t)
             \/ BgClock(t) \/ BgSendOpLog(t) \/ BgRowRequest(t)
      PROVE  UNCHANGED <<made, clock, got>>
  BY <1>8 DEF GetFetch, ClockTick, BgClock, BgSendOpLog, BgRowRequest, appVars, histVars
<1>9. ASSUME NEW c \in Clients, NEW r \in Rows, Evict(c, r)
      PROVE  UNCHANGED <<made, clock, got>>
  BY <1>9 DEF Evict, appVars, histVars
<1>10. ASSUME NEW c \in Clients, NEW s \in Servers,
              \/ BgRowReply(s, c) \/ BgOpLogAck(s, c)
              \/ ServerRowRequest(c, s) \/ ServerOpLog(c, s)
       PROVE  UNCHANGED <<made, clock, got>>
  BY <1>10 DEF BgRowReply, BgOpLogAck, ServerRowRequest, ServerOpLog, appVars, histVars
<1>11. UNCHANGED vars => UNCHANGED <<made, clock, got>>
  BY DEF vars, appVars, histVars
<1>12. Writers \subseteq Threads /\ Readers \subseteq Threads /\ \E r \in Rows : TRUE
  BY SSPAssumption
<1>. QED
  BY <1>1, <1>3, <1>4, <1>5, <1>6, <1>7, <1>8, <1>9, <1>10, <1>11, <1>12 DEF Next, Step, Rest

(* What the application sees is what SSPStore promises (Get, Inc and       *)
(* Clock of SSPConsistencyController and TableGroup): a Get() returns all  *)
(* updates that any thread made before the stalest clock allowed, all of   *)
(* its own process, and never fewer than it returned before.               *)
THEOREM StoreImplemented == Spec => StoreSpec
<1>1. Init => Store!Init
  BY DEF Init, Store!Init
<1>2. Spec => Store!Init /\ [][Store!Next]_(Store!svars)
  BY <1>1, InitRead, ReadStep, StepRefines, PTL DEF Spec
<1>. QED
  BY <1>2 DEF StoreSpec, Store!Spec

-----------------------------------------------------------------------------
(* A Get() asks again only for a row that was evicted meanwhile.           *)
EvictMoves ==
  \A c \in Clients :
    /\ evicted[c] <= evicted'[c]
    /\ \A r \in Rows : storage[c][r] # NoRow /\ storage'[c][r] = NoRow =>
                         evicted'[c] = evicted[c] + 1

LEMMA StepEvictMoves ==
  ASSUME TypeOK, ChannelInv, OwnInv, Effect, [Next]_vars
  PROVE  EvictMoves
<1>1. evicted \in [Clients -> Nat] /\ storage \in [Clients -> [Rows -> CachedRows]]
  BY SSPAssumption DEF TypeOK, TypeClient
<1>2. ASSUME UNCHANGED evicted,
             \A c \in Clients, r \in Rows : storage[c][r] # NoRow => storage'[c][r] # NoRow
      PROVE  EvictMoves
  BY <1>1, <1>2 DEF EvictMoves
<1>3. ASSUME NEW t \in Threads, NEW r \in Rows, Inc(t, r)
      PROVE  EvictMoves
  <2>1. UNCHANGED evicted /\ MadeNumbered
    BY <1>3 DEF Inc, OwnInv
  <2>2. PICK u \in Updates : IncEffect(ClientOf[t], r, u)
    BY <1>3, <2>1, IncIsEffect
  <2>. QED
    BY <1>2, <2>1, <2>2 DEF IncEffect
<1>4. ASSUME NEW t \in Threads, NEW r \in Rows,
             \/ GetCached(t, r) \/ GetFetch(t, r) \/ GetResume(t) \/ ClockFlush(t)
             \/ ClockTick(t) \/ BgClock(t) \/ BgSendOpLog(t) \/ BgRowRequest(t)
      PROVE  UNCHANGED <<storage, evicted>>
  BY <1>4 DEF GetCached, GetFetch, GetResume, ClockFlush, ClockTick,
              BgClock, BgSendOpLog, BgRowRequest, clientVars
<1>5. ASSUME NEW c \in Clients, NEW r \in Rows, Evict(c, r)
      PROVE  EvictMoves
  <2>1. /\ storage' = [storage EXCEPT ![c][r] = NoRow]
        /\ evicted' = [evicted EXCEPT ![c] = @ + 1]
    BY <1>5 DEF Evict
  <2>2. \A d \in Clients : evicted'[d] = IF d = c THEN evicted[d] + 1 ELSE evicted[d]
    BY <1>1, <2>1
  <2>3. \A d \in Clients, x \in Rows : d # c => storage'[d][x] = storage[d][x]
    BY <1>1, <2>1
  <2>. QED
    BY <1>1, <2>2, <2>3 DEF EvictMoves
<1>6. ASSUME NEW c \in Clients, NEW s \in Servers, BgRowReply(s, c)
      PROVE  EvictMoves
  <2> DEFINE m == Head(toClient[s][c])
  <2>1. /\ UNCHANGED evicted /\ toClient[s][c] # << >> /\ m.type = "RowReply"
        /\ UNCHANGED storage \/ storage' = [storage EXCEPT ![c][m.row] = NewRow(c, m)]
    BY <1>6 DEF BgRowReply
  <2>2. m \in RowReplyMsgs
    BY <2>1, HeadToClient DEF TypeOK, AckMsgs
  <2>3. m.row \in Rows /\ m.clock \in Nat
    BY <2>2 DEF RowReplyMsgs
  <2>4. NewRow(c, m) # NoRow
    BY <2>3 DEF NewRow, NoRow
  <2> HIDE DEF m
  <2>5. \A d \in Clients, x \in Rows : storage'[d][x] \in {storage[d][x], NewRow(c, m)}
    BY <1>1, <2>1, <2>3
  <2>. QED
    BY <1>2, <2>1, <2>4, <2>5
<1>7. ASSUME NEW c \in Clients, NEW s \in Servers,
             BgOpLogAck(s, c) \/ ServerRowRequest(c, s) \/ ServerOpLog(c, s)
      PROVE  UNCHANGED <<storage, evicted>>
  BY <1>7 DEF BgOpLogAck, ServerRowRequest, ServerOpLog, clientVars
<1>8. UNCHANGED vars => UNCHANGED <<storage, evicted>>
  BY DEF vars, clientVars
<1>9. UNCHANGED <<storage, evicted>> => EvictMoves
  BY <1>2
<1>10. Writers \subseteq Threads /\ Readers \subseteq Threads /\ \E r \in Rows : TRUE
  BY SSPAssumption
<1>. QED
  BY <1>3, <1>4, <1>5, <1>6, <1>7, <1>8, <1>9, <1>10 DEF Next, Step, Rest

FetchesEvicted ==
  \A t \in Threads :
    /\ want[t].fetches + want[t].since <= evicted[ClientOf[t]]
    /\ pc[t] = "woken" /\ ~Cached(ClientOf[t], want[t].row) =>
         want[t].fetches + want[t].since < evicted[ClientOf[t]]

LEMMA FetchesKept ==
  ASSUME TypeOK, TypeOK', EvictMoves, WaitMoves, FetchesEvicted
  PROVE  FetchesEvicted'
<1>1. SUFFICES ASSUME NEW t \in Threads
               PROVE  /\ want'[t].fetches + want'[t].since <= evicted'[ClientOf[t]]
                      /\ pc'[t] = "woken" /\ storage'[ClientOf[t]][want'[t].row] = NoRow =>
                           want'[t].fetches + want'[t].since < evicted'[ClientOf[t]]
  BY DEF FetchesEvicted, Cached
<1>2. PICK c \in Clients : c = ClientOf[t]
  BY SSPAssumption
<1>3. /\ want[t].row \in Rows /\ want[t].fetches \in Nat /\ want[t].since \in Nat
      /\ evicted[c] \in Nat /\ evicted'[c] \in Nat /\ evicted[c] <= evicted'[c]
  <2>1. want[t] \in [row : Rows, clock : Clocks, fetches : 0 .. 3, since : 0 .. MaxEvict]
    BY DEF TypeOK, TypeApp
  <2>2. evicted[c] \in 0 .. MaxEvict /\ evicted'[c] \in 0 .. MaxEvict
    BY DEF TypeOK, TypeClient
  <2>. QED
    BY <2>1, <2>2, SSPAssumption DEF EvictMoves
<1>4. /\ want[t].fetches + want[t].since <= evicted[c]
      /\ pc[t] = "woken" /\ ~Cached(c, want[t].row) =>
           want[t].fetches + want[t].since < evicted[c]
  BY <1>2 DEF FetchesEvicted
<1>5. CASE Stays(t)
  <2>1. pc'[t] = pc[t] /\ want'[t] = want[t]
    BY <1>5 DEF Stays
  <2>2. storage[c][want[t].row] # NoRow /\ storage'[c][want[t].row] = NoRow =>
          evicted'[c] = evicted[c] + 1
    BY <1>3 DEF EvictMoves
  <2>. QED
    BY <1>2, <1>3, <1>4, <2>1, <2>2 DEF Cached
<1>6. CASE Leaves(t)
  <2>1. NoWant.fetches = 0 /\ NoWant.since = 0
    BY DEF NoWant
  <2>. QED
    BY <1>2, <1>3, <1>4, <1>6, <2>1 DEF Leaves
<1>7. CASE Fetches(t)
  BY <1>2, <1>3, <1>4, <1>7 DEF Fetches
<1>8. CASE Wakes(t)
  BY <1>2, <1>3, <1>4, <1>8 DEF Wakes
<1>. QED
  BY <1>5, <1>6, <1>7, <1>8 DEF WaitMoves

(* The CHECKs of Get() fail for a thread that was woken only.              *)
LEMMA StepFails ==
  ASSUME TypeOK, [Next]_vars
  PROVE  \/ failed' = failed
         \/ failed' \in {"GetOpLog", "RecvAck", "bg_version"}
         \/ \E t \in Threads :
              /\ pc[t] = "woken"
              /\ \/ /\ failed' = "num_fetches" /\ want[t].fetches + 1 > 3
                    /\ UNCHANGED <<want, evicted>>
                 \/ /\ failed' = "row_clock" /\ Cached(ClientOf[t], want[t].row)
                    /\ storage[ClientOf[t]][want[t].row].clock < want[t].clock
<1>1. ASSUME NEW t \in Threads, NEW r \in Rows,
             \/ Inc(t, r) \/ GetCached(t, r) \/ GetFetch(t, r) \/ ClockFlush(t)
             \/ ClockTick(t) \/ BgClock(t) \/ BgSendOpLog(t) \/ BgRowRequest(t)
      PROVE  failed' = failed
  BY <1>1 DEF Inc, GetCached, GetFetch, ClockFlush, ClockTick,
              BgClock, BgSendOpLog, BgRowRequest, histVars
<1>2. ASSUME NEW t \in Threads, GetResume(t)
      PROVE  \/ failed' = failed
             \/ /\ pc[t] = "woken"
                /\ \/ /\ failed' = "num_fetches" /\ want[t].fetches + 1 > 3
                      /\ UNCHANGED <<want, evicted>>
                   \/ /\ failed' = "row_clock" /\ Cached(ClientOf[t], want[t].row)
                      /\ storage[ClientOf[t]][want[t].row].clock < want[t].clock
  BY <1>2 DEF GetResume, clientVars
<1>3. ASSUME NEW c \in Clients, NEW r \in Rows, Evict(c, r)
      PROVE  failed' = failed
  BY <1>3 DEF Evict, histVars
<1>4. ASSUME NEW c \in Clients, NEW s \in Servers,
             \/ BgRowReply(s, c) \/ BgOpLogAck(s, c)
             \/ ServerRowRequest(c, s) \/ ServerOpLog(c, s)
      PROVE  failed' = failed \/ failed' \in {"GetOpLog", "RecvAck", "bg_version"}
  BY <1>4 DEF BgRowReply, BgOpLogAck, ServerRowRequest, ServerOpLog, histVars
<1>5. UNCHANGED vars => failed' = failed
  BY DEF vars, histVars
<1>6. Writers \subseteq Threads /\ Readers \subseteq Threads /\ \E r \in Rows : TRUE
  BY SSPAssumption
<1>. QED
  BY <1>1, <1>2, <1>3, <1>4, <1>5, <1>6 DEF Next, Step, Rest

NoFetchFails ==
  /\ failed # "row_clock"
  /\ failed = "num_fetches" =>
       \E t \in Threads : /\ want[t].fetches = 3
                          /\ evicted[ClientOf[t]] - want[t].since >= 3

(* A failed CHECK ends the process: nothing moves after it.                *)
LEMMA FailedStays ==
  ASSUME failed # "none", [Next]_vars
  PROVE  UNCHANGED vars
<1>1. ~Running
  BY DEF Running
<1>2. \A t \in Threads, r \in Rows : Inc(t, r) => Running
  BY DEF Inc
<1>3. \A t \in Threads, r \in Rows : GetCached(t, r) => Running
  BY DEF GetCached
<1>4. \A t \in Threads, r \in Rows : GetFetch(t, r) => Running
  BY DEF GetFetch
<1>5. \A t \in Threads : GetResume(t) => Running
  BY DEF GetResume
<1>6. \A t \in Threads : ClockFlush(t) => Running
  BY DEF ClockFlush
<1>7. \A t \in Threads : ClockTick(t) => Running
  BY DEF ClockTick
<1>8. \A t \in Threads : BgClock(t) => Running
  BY DEF BgClock
<1>9. \A t \in Threads : BgSendOpLog(t) => Running
  BY DEF BgSendOpLog
<1>10. \A t \in Threads : BgRowRequest(t) => Running
  BY DEF BgRowRequest
<1>11. \A c \in Clients, r \in Rows : Evict(c, r) => Running
  BY DEF Evict
<1>12. \A s \in Servers, c \in Clients : BgRowReply(s, c) => Running
  BY DEF BgRowReply
<1>13. \A s \in Servers, c \in Clients : BgOpLogAck(s, c) => Running
  BY DEF BgOpLogAck
<1>14. \A c \in Clients, s \in Servers : ServerRowRequest(c, s) => Running
  BY DEF ServerRowRequest
<1>15. \A c \in Clients, s \in Servers : ServerOpLog(c, s) => Running
  <2>1. SUFFICES ASSUME NEW c \in Clients, NEW s \in Servers, ServerOpLog(c, s)
                 PROVE  failed = "none"
    BY DEF Running
  <2>. QED
    BY <2>1 DEF ServerOpLog, Running
<1>16. Writers \subseteq Threads /\ Readers \subseteq Threads
  BY SSPAssumption
<1>. QED
  BY <1>1, <1>2, <1>3, <1>4, <1>5, <1>6, <1>7, <1>8,
     <1>9, <1>10, <1>11, <1>12, <1>13, <1>14, <1>15, <1>16
  DEF Next, Step, Rest

LEMMA NoFetchFailsKept ==
  ASSUME TypeOK, TypeOK', WokenLasts, FetchesEvicted, EvictMoves, NoFetchFails, [Next]_vars
  PROVE  NoFetchFails'
<1>2. CASE failed' = failed
  <2>1. CASE failed = "num_fetches"
    <3>1. UNCHANGED <<failed, want, evicted>>
      BY <2>1, FailedStays DEF vars, appVars, clientVars, histVars
    <3>. QED
      BY <3>1 DEF NoFetchFails
  <2>2. CASE failed # "num_fetches"
    BY <1>2, <2>2 DEF NoFetchFails
  <2>. QED
    BY <2>1, <2>2
<1>3. CASE failed' \in {"GetOpLog", "RecvAck", "bg_version"}
  BY <1>3 DEF NoFetchFails
<1>4. ASSUME NEW t \in Threads, pc[t] = "woken",
             failed' = "num_fetches" /\ want[t].fetches + 1 > 3,
             UNCHANGED <<want, evicted>>
      PROVE  NoFetchFails'
  <2>1. /\ want[t].fetches \in 0 .. 3 /\ want[t].since \in Nat
        /\ want[t].fetches + want[t].since <= evicted[ClientOf[t]]
    <3>1. want[t] \in [row : Rows, clock : Clocks, fetches : 0 .. 3, since : 0 .. MaxEvict]
      BY DEF TypeOK, TypeApp
    <3>. QED
      BY <3>1, SSPAssumption DEF FetchesEvicted
  <2>2. evicted[ClientOf[t]] \in Nat
    BY SSPAssumption DEF TypeOK, TypeClient
  <2>3. want[t].fetches = 3 /\ evicted[ClientOf[t]] - want[t].since >= 3
    BY <1>4, <2>1, <2>2
  <2>. QED
    BY <1>4, <2>3 DEF NoFetchFails
<1>5. ASSUME NEW t \in Threads, pc[t] = "woken", Cached(ClientOf[t], want[t].row),
             storage[ClientOf[t]][want[t].row].clock < want[t].clock
      PROVE  FALSE
  <2>1. want[t].row \in Rows /\ want[t].clock \in Int /\ ClientOf[t] \in Clients
    BY SSPAssumption DEF TypeOK, TypeApp, Clocks
  <2>2. storage[ClientOf[t]][want[t].row].clock \in Int
    BY <2>1 DEF TypeOK, TypeClient, CachedRows, Versions
  <2>3. want[t].clock <= storage[ClientOf[t]][want[t].row].clock
    BY <1>5 DEF WokenLasts
  <2>. QED
    BY <1>5, <2>1, <2>2, <2>3
<1>. QED
  BY <1>2, <1>3, <1>4, <1>5, StepFails

GetInv == ReadInv /\ FetchesEvicted /\ NoFetchFails

LEMMA GetHolds == Spec => []GetInv
<1>1. Init => GetInv
  <2>1. SUFFICES ASSUME Init PROVE FetchesEvicted /\ NoFetchFails
    BY InitRead DEF GetInv
  <2>2. \A t \in Threads : /\ pc[t] = "run" /\ want[t].fetches = 0
                           /\ want[t].since = 0 /\ evicted[ClientOf[t]] = 0
    BY <2>1, SSPAssumption DEF Init, NoWant
  <2>3. failed = "none"
    BY <2>1 DEF Init
  <2>. QED
    BY <2>2, <2>3 DEF FetchesEvicted, NoFetchFails
<1>2. ASSUME GetInv, [Next]_vars
      PROVE  GetInv'
  <2>1. ReadInv /\ ReadInv' /\ ClocksInv
    BY <1>2, ReadStep DEF GetInv, ReadInv
  <2>2. Effect
    BY <1>2, <2>1, ClocksStep
  <2>3. TypeOK /\ TypeOK' /\ ChannelInv /\ OwnInv /\ RequestsInv /\ WokenLasts
    BY <2>1 DEF ReadInv, ClocksInv, ReplayInv, SeenInv
  <2>4. EvictMoves /\ WaitMoves
    BY <1>2, <2>2, <2>3, StepEvictMoves, StepWaits
  <2>5. FetchesEvicted' /\ NoFetchFails'
    BY <1>2, <2>3, <2>4, FetchesKept, NoFetchFailsKept DEF GetInv
  <2>. QED
    BY <2>1, <2>5 DEF GetInv
<1>. QED
  BY <1>1, <1>2, PTL DEF Spec

LEMMA FailedValues == TypeOK /\ [Next]_vars =>
  failed' \in {failed, "GetOpLog", "RecvAck", "bg_version", "num_fetches", "row_clock"}
BY StepFails

(* No CHECK of the modelled code fails but GetOpLog's and the one on       *)
(* num_fetches, and that one only in a Get() during which the process has  *)
(* evicted three rows or more.  A Get() that was woken finds a row that is *)
(* fresh enough, or none (the CHECK_GE of SSPConsistencyController::Get);  *)
(* a server gets every batch once and in order, and the worker's           *)
(* acknowledgements come in order.                                         *)
THEOREM GetFindsFreshRow == Spec => []OnlyOplogOrFetchFails
<1> DEFINE Known == failed \in {"none", "GetOpLog", "RecvAck", "bg_version",
                                "num_fetches", "row_clock"}
<1>2. Init => Known
  BY DEF Init
<1>3. GetInv /\ Known /\ [Next]_vars => Known'
  <2>1. GetInv => TypeOK
    BY DEF GetInv, ReadInv, ClocksInv, ReplayInv
  <2>. QED
    BY <2>1, FailedValues
<1>4. GetInv /\ Known => OnlyOplogOrFetchFails
  <2>1. SUFFICES ASSUME GetInv, Known PROVE OnlyOplogOrFetchFails
    OBVIOUS
  <2>2. /\ NoFetchFails /\ OrderKept
    BY <2>1 DEF GetInv, ReadInv, ClocksInv, ReplayInv, ChannelInv
  <2>. QED
    BY <2>1, <2>2 DEF NoFetchFails, OrderKept, OnlyOplogOrFetchFails
<1> HIDE DEF Known
<1>. QED
  BY <1>2, <1>3, <1>4, GetHolds, PTL DEF Spec
-----------------------------------------------------------------------------
(* Clocks arrive: unless the configuration asks for batches between clocks,*)
(* a batch that is held back remembers that it carries a clock, and the    *)
(* last clock of a worker is with every server, on its way or held back.   *)
TickIsClock ==
  \A t \in Threads : tick[t] = IF pc[t] = "flushed" THEN clock[t] - 1 ELSE clock[t]

OnlyClocksAsked ==
  \A t \in Threads : \A i \in 1 .. Len(toBg[t]) : toBg[t][i].type # "BgSendOpLog"

HeldBackClocked == \A c \in Clients : pend[c].on => pend[c].advanced

ClockKnown(c, s) ==
  \/ pend[c].on
  \/ sClock[s][c] = bgClock[c]
  \/ \E m \in OpLogsTo(c, s) : m.isClock /\ m.bgClock = bgClock[c]

ClocksKnown == \A c \in Clients, s \in Servers : ClockKnown(c, s)

ArriveInv == TickIsClock /\ OnlyClocksAsked /\ HeldBackClocked /\ ClocksKnown

LEMMA InitArrive == Init => ArriveInv
<1>1. SUFFICES ASSUME Init PROVE ArriveInv
  OBVIOUS
<1>2. TickIsClock /\ HeldBackClocked
  BY <1>1 DEF Init, TickIsClock, HeldBackClocked
<1>3. OnlyClocksAsked
  BY <1>1 DEF Init, OnlyClocksAsked
<1>4. ClocksKnown
  BY <1>1 DEF Init, ClocksKnown, ClockKnown
<1>. QED
  BY <1>2, <1>3, <1>4 DEF ArriveInv

(* A thread's entry of the vector clock follows in the second half of      *)
(* Clock(), which no other step of the thread comes between.               *)
TickMoves(t) ==
  \/ tick'[t] = tick[t] /\ clock'[t] = clock[t] /\ (pc'[t] = "flushed" <=> pc[t] = "flushed")
  \/ pc[t] # "flushed" /\ pc'[t] = "flushed" /\ tick'[t] = tick[t] /\ clock'[t] = clock[t] + 1
  \/ pc[t] = "flushed" /\ pc'[t] # "flushed" /\ tick'[t] = tick[t] + 1 /\ clock'[t] = clock[t]

LEMMA StepTickMoves ==
  ASSUME TypeOK, RequestsInv, [Next]_vars
  PROVE  \A t \in Threads : TickMoves(t)
<1>1. /\ pc \in [Threads -> {"run", "flushed", "waiting", "woken"}]
      /\ tick \in [Threads -> Nat] /\ clock \in [Threads -> Clocks]
  BY DEF TypeOK, TypeApp, TypeClient
<1>2. ASSUME UNCHANGED <<pc, tick, clock>>
      PROVE  \A t \in Threads : TickMoves(t)
  BY <1>2 DEF TickMoves
<1>3. ASSUME NEW t \in Threads, NEW r \in Rows,
             Inc(t, r) \/ GetCached(t, r) \/ BgClock(t) \/ BgSendOpLog(t)
      PROVE  UNCHANGED <<pc, tick, clock>>
  BY <1>3 DEF Inc, GetCached, BgClock, BgSendOpLog, appVars, clientVars
<1>4. ASSUME NEW c \in Clients, NEW r \in Rows, Evict(c, r)
      PROVE  UNCHANGED <<pc, tick, clock>>
  BY <1>4 DEF Evict, appVars
<1>5. ASSUME NEW c \in Clients, NEW s \in Servers,
             BgOpLogAck(s, c) \/ ServerRowRequest(c, s) \/ ServerOpLog(c, s)
      PROVE  UNCHANGED <<pc, tick, clock>>
  BY <1>5 DEF BgOpLogAck, ServerRowRequest, ServerOpLog, appVars, clientVars
<1>6. UNCHANGED vars => UNCHANGED <<pc, tick, clock>>
  BY DEF vars, appVars, clientVars
<1>7. ASSUME NEW t \in Threads, NEW r \in Rows,
             GetFetch(t, r) \/ GetResume(t) \/ ClockFlush(t) \/ ClockTick(t)
      PROVE  \A u \in Threads : TickMoves(u)
  <2>1. \/ /\ pc[t] # "flushed" /\ UNCHANGED <<tick, clock>>
           /\ pc' \in {pc, [pc EXCEPT ![t] = "waiting"], [pc EXCEPT ![t] = "run"]}
        \/ /\ pc[t] = "run" /\ pc' = [pc EXCEPT ![t] = "flushed"]
           /\ clock' = [clock EXCEPT ![t] = @ + 1] /\ UNCHANGED tick
        \/ /\ pc[t] = "flushed" /\ pc' = [pc EXCEPT ![t] = "run"]
           /\ tick' = [tick EXCEPT ![t] = @ + 1] /\ UNCHANGED clock
    BY <1>7 DEF GetFetch, GetResume, ClockFlush, ClockTick, clientVars
  <2>2. ASSUME NEW u \in Threads
        PROVE  TickMoves(u)
    BY <1>1, <2>1 DEF TickMoves
  <2>. QED
    BY <2>2
<1>8. ASSUME NEW t \in Threads, BgRowRequest(t)
      PROVE  \A u \in Threads : TickMoves(u)
  <2>1. /\ toBg[t] # << >> /\ Head(toBg[t]).type = "RowRequest"
        /\ toBg' = [toBg EXCEPT ![t] = Tail(@)] /\ UNCHANGED <<want, tick, clock>>
        /\ pc' = [pc EXCEPT ![t] = "woken"] \/ UNCHANGED pc
    BY <1>8 DEF BgRowRequest, clientVars
  <2>2. pc[t] = "waiting"
    BY <2>1, RequestTaken
  <2>. QED
    BY <1>1, <2>1, <2>2 DEF TickMoves
<1>9. ASSUME NEW c \in Clients, NEW s \in Servers, BgRowReply(s, c)
      PROVE  \A u \in Threads : TickMoves(u)
  <2> DEFINE m == Head(toClient[s][c])
             served == ServedThreads(mgr[c], m.row, m.clock)
  <2>1. /\ UNCHANGED <<tick, clock>> /\ toClient[s][c] # << >> /\ m.type = "RowReply"
        /\ \/ UNCHANGED pc
           \/ pc' = [t \in Threads |-> IF t \in served THEN "woken" ELSE pc[t]]
    BY <1>9 DEF BgRowReply
  <2>2. m \in RowReplyMsgs
    BY <2>1, HeadToClient DEF TypeOK, AckMsgs
  <2>3. m.row \in Rows /\ m.clock \in Nat /\ version[c] \in Nat
    BY <2>2 DEF RowReplyMsgs, TypeOK, TypeBg
  <2> HIDE DEF m
  <2>4. mgr[c] \in Managers /\ ListedOnce(mgr[c])
    BY DEF TypeOK, TypeBg, RequestsInv, ListedWait
  <2>5. \A t \in served : \E e \in Entries(mgr[c]) : e.thread = t
    BY <2>3, <2>4, InformReplyEntries
  <2>6. \A t \in served : pc[t] = "waiting"
    BY <2>5 DEF RequestsInv, ListedWait, Awaits
  <2>. QED
    BY <1>1, <2>1, <2>6 DEF TickMoves
<1>10. Writers \subseteq Threads /\ Readers \subseteq Threads /\ \E r \in Rows : TRUE
  BY SSPAssumption
<1>. QED
  BY <1>2, <1>3, <1>4, <1>5, <1>6, <1>7, <1>8, <1>9, <1>10 DEF Next, Step, Rest

LEMMA TickIsClockKept ==
  ASSUME TypeOK, TickIsClock, \A t \in Threads : TickMoves(t)
  PROVE  TickIsClock'
<1>1. SUFFICES ASSUME NEW t \in Threads
               PROVE  tick'[t] = IF pc'[t] = "flushed" THEN clock'[t] - 1 ELSE clock'[t]
  BY DEF TickIsClock
<1>2. tick[t] \in Nat /\ clock[t] \in Nat
  BY ClocksAreNat DEF TypeOK, TypeApp, TypeClient
<1>3. tick[t] = IF pc[t] = "flushed" THEN clock[t] - 1 ELSE clock[t]
  BY DEF TickIsClock
<1>. QED
  BY <1>2, <1>3 DEF TickMoves

(* What a thread may tell its worker.                                      *)
Asked(t) ==
  \/ toBg'[t] = toBg[t]
  \/ toBg[t] # << >> /\ toBg'[t] = Tail(toBg[t])
  \/ \E m \in ToBgMsgs : m.type # "BgSendOpLog" /\ toBg'[t] = Append(toBg[t], m)

LEMMA AskedKept ==
  ASSUME TypeOK, OnlyClocksAsked, \A t \in Threads : Asked(t)
  PROVE  OnlyClocksAsked'
<1>1. SUFFICES ASSUME NEW t \in Threads, NEW i \in 1 .. Len(toBg'[t])
               PROVE  toBg'[t][i].type # "BgSendOpLog"
  BY DEF OnlyClocksAsked
<1>2. toBg[t] \in Seq(ToBgMsgs)
  BY DEF TypeOK, TypeNet, ToBgMsgs
<1>3. \A j \in 1 .. Len(toBg[t]) : toBg[t][j].type # "BgSendOpLog"
  BY DEF OnlyClocksAsked
<1>4. CASE toBg'[t] = toBg[t]
  BY <1>3, <1>4
<1>5. CASE toBg[t] # << >> /\ toBg'[t] = Tail(toBg[t])
  <2>1. /\ Len(toBg[t]) \in Nat \ {0} /\ Len(toBg'[t]) = Len(toBg[t]) - 1
        /\ \A j \in 1 .. Len(toBg[t]) - 1 : toBg'[t][j] = toBg[t][j + 1]
    BY <1>2, <1>5, HeadTailProperties
  <2>2. i + 1 \in 1 .. Len(toBg[t]) /\ toBg'[t][i] = toBg[t][i + 1]
    BY <2>1
  <2>. QED
    BY <1>3, <2>2
<1>6. ASSUME NEW m \in ToBgMsgs, m.type # "BgSendOpLog", toBg'[t] = Append(toBg[t], m)
      PROVE  toBg'[t][i].type # "BgSendOpLog"
  <2>1. /\ Len(toBg[t]) \in Nat /\ Len(toBg'[t]) = Len(toBg[t]) + 1
        /\ \A j \in 1 .. Len(toBg[t]) : toBg'[t][j] = toBg[t][j]
        /\ toBg'[t][Len(toBg[t]) + 1] = m
    BY <1>2, <1>6, AppendProperties
  <2>2. i \in 1 .. Len(toBg[t]) \/ i = Len(toBg[t]) + 1
    BY <2>1
  <2>. QED
    BY <1>3, <1>6, <2>1, <2>2
<1>. QED
  BY <1>4, <1>5, <1>6 DEF Asked

LEMMA StepAsked ==
  ASSUME TypeOK, ~Aggressive, [Next]_vars
  PROVE  \A t \in Threads : Asked(t)
<1>1. toBg \in [Threads -> Seq(ToBgMsgs)]
  BY DEF TypeOK, TypeNet, ToBgMsgs
<1>2. ASSUME UNCHANGED toBg
      PROVE  \A t \in Threads : Asked(t)
  BY <1>2 DEF Asked
<1>3. ASSUME NEW t \in Threads, NEW r \in Rows, Inc(t, r) \/ GetCached(t, r) \/ ClockFlush(t)
      PROVE  UNCHANGED toBg
  BY <1>3 DEF Inc, GetCached, ClockFlush, netVars
<1>4. ASSUME NEW c \in Clients, NEW r \in Rows, Evict(c, r)
      PROVE  UNCHANGED toBg
  BY <1>4 DEF Evict, netVars
<1>5. ASSUME NEW c \in Clients, NEW s \in Servers,
             \/ BgRowReply(s, c) \/ BgOpLogAck(s, c)
             \/ ServerRowRequest(c, s) \/ ServerOpLog(c, s)
      PROVE  UNCHANGED toBg
  BY <1>5 DEF BgRowReply, BgOpLogAck, ServerRowRequest, ServerOpLog
<1>6. UNCHANGED vars => UNCHANGED toBg
  BY DEF vars, netVars
<1>7. ASSUME NEW t \in Threads, BgClock(t) \/ BgSendOpLog(t) \/ BgRowRequest(t)
      PROVE  \A u \in Threads : Asked(u)
  <2>1. toBg[t] # << >> /\ toBg' = [toBg EXCEPT ![t] = Tail(@)]
    BY <1>7 DEF BgClock, BgSendOpLog, BgRowRequest
  <2>. QED
    BY <1>1, <2>1 DEF Asked
<1>8. ASSUME NEW t \in Threads, NEW m \in ToBgMsgs, m.type # "BgSendOpLog",
             toBg' = [toBg EXCEPT ![t] = Append(@, m)]
      PROVE  \A u \in Threads : Asked(u)
  BY <1>1, <1>8 DEF Asked
<1>9. ASSUME NEW t \in Threads, NEW r \in Rows, GetFetch(t, r) \/ GetResume(t)
      PROVE  \A u \in Threads : Asked(u)
  <2>1. \/ UNCHANGED toBg
        \/ toBg' = [toBg EXCEPT ![t] = Append(@, RowRequestMsg(r, StalestClock(t)))]
        \/ toBg' = [toBg EXCEPT ![t] = Append(@, RowRequestMsg(want[t].row, want[t].clock))]
    BY <1>9 DEF GetFetch, GetResume
  <2>2. want[t].row \in Rows /\ want[t].clock \in Clocks /\ StalestClock(t) \in Clocks
    BY StalestClockType DEF TypeOK, TypeApp
  <2>3. /\ RowRequestMsg(r, StalestClock(t)) \in RowRequestMsgs
        /\ RowRequestMsg(want[t].row, want[t].clock) \in RowRequestMsgs
    BY <2>2, RowRequestMsgType
  <2>4. \A m \in RowRequestMsgs : m \in ToBgMsgs /\ m.type # "BgSendOpLog"
    BY DEF ToBgMsgs, RowRequestMsgs
  <2>. QED
    BY <1>2, <1>8, <2>1, <2>3, <2>4
<1>10. ASSUME NEW t \in Threads, ClockTick(t)
       PROVE  \A u \in Threads : Asked(u)
  <2> DEFINE m == [type |-> "BgClock"]
  <2>1. UNCHANGED toBg \/ toBg' = [toBg EXCEPT ![t] = Append(@, m)]
    BY <1>10 DEF ClockTick
  <2>2. m \in ToBgMsgs /\ m.type # "BgSendOpLog"
    BY DEF ToBgMsgs, ClockMsgs
  <2>. QED
    BY <1>2, <1>8, <2>1, <2>2
<1>11. Writers \subseteq Threads /\ Readers \subseteq Threads /\ \E r \in Rows : TRUE
  BY SSPAssumption
<1>. QED
  BY <1>2, <1>3, <1>4, <1>5, <1>6, <1>7, <1>9, <1>10, <1>11 DEF Next, Step, Rest
-----------------------------------------------------------------------------
(* The worker's last clock under each action.                              *)
LEMMA SameKnown ==
  ASSUME HeldBackClocked, ClocksKnown, SameOpLogs, UNCHANGED <<pend, bgClock, sClock>>
  PROVE  HeldBackClocked' /\ ClocksKnown'
<1>1. HeldBackClocked'
  BY DEF HeldBackClocked
<1>2. ASSUME NEW c \in Clients, NEW s \in Servers
      PROVE  ClockKnown(c, s)'
  <2>1. OpLogsTo(c, s)' = OpLogsTo(c, s) /\ ClockKnown(c, s)
    BY DEF SameOpLogs, ClocksKnown
  <2>. QED
    BY <2>1 DEF ClockKnown
<1>. QED
  BY <1>1, <1>2 DEF ClocksKnown

(* A batch with a clock is held back with it, or goes to every server.     *)
LEMMA BatchKnown ==
  ASSUME TypeOK, ToServerInv, HeldBackWaits, HeldBackClocked, ClocksKnown,
         UNCHANGED <<sVersion, sClock>>,
         NEW c \in Clients, NEW advanced \in BOOLEAN, NEW clk \in Nat, NEW ack, NEW on,
         advanced, acked' = [acked EXCEPT ![c] = ack],
         on => pend[c].on /\ ack = acked[c],
         \A d \in Clients : bgClock'[d] = IF d = c THEN clk ELSE bgClock[d],
         HandleClockMsg(c, advanced, clk, ack, on)
  PROVE  HeldBackClocked' /\ ClocksKnown'
<1>1. Sent(c, advanced, clk) \/ HeldOver
  BY BatchChannel
<1>2. pend \in [Clients -> [on : BOOLEAN, advanced : BOOLEAN]] /\ version \in [Clients -> Nat]
  BY DEF TypeOK, TypeBg
<1>3. CASE ~CheckSendAll(c, ack)
  <2>1. /\ pend' = [pend EXCEPT ![c] = [on |-> TRUE, advanced |-> advanced]]
        /\ UNCHANGED toServer
    BY <1>3 DEF HandleClockMsg, HeldBack
  <2>2. pend'[c].on /\ pend'[c].advanced /\ \A d \in Clients : d # c => pend'[d] = pend[d]
    BY <1>2, <2>1
  <2>3. ASSUME NEW d \in Clients, NEW s \in Servers, d # c
        PROVE  ClockKnown(d, s)'
    <3>1. OpLogsTo(d, s)' = OpLogsTo(d, s) /\ ClockKnown(d, s)
      BY <2>1 DEF OpLogsTo, ClocksKnown
    <3>. QED
      BY <2>2, <2>3, <3>1 DEF ClockKnown
  <2>. QED
    BY <2>2, <2>3 DEF HeldBackClocked, ClocksKnown, ClockKnown
<1>4. CASE CheckSendAll(c, ack)
  <2>1. /\ pend' = [pend EXCEPT ![c].on = on]
        /\ version' = [version EXCEPT ![c] = @ + 1]
    BY <1>4 DEF HandleClockMsg
  <2>2. Sent(c, advanced, clk)
    <3>1. version'[c] # version[c]
      BY <1>2, <2>1
    <3>. QED
      BY <1>1, <3>1 DEF HeldOver
  <2>3. ~on
    BY <1>4 DEF HeldBackWaits
  <2>4. ~pend'[c].on /\ \A d \in Clients : d # c => pend'[d] = pend[d]
    BY <1>2, <2>1, <2>3
  <2>5. HeldBackClocked'
    BY <2>4 DEF HeldBackClocked
  <2>6. ASSUME NEW d \in Clients, NEW s \in Servers, d # c
        PROVE  ClockKnown(d, s)'
    <3>1. OpLogsTo(d, s)' = OpLogsTo(d, s) /\ ClockKnown(d, s)
      BY <2>2, <2>6 DEF Sent, ClocksKnown
    <3>. QED
      BY <2>4, <2>6, <3>1 DEF ClockKnown
  <2>7. ASSUME NEW s \in Servers
        PROVE  ClockKnown(c, s)'
    <3> DEFINE m == OpLogMsg(c, s, advanced, clk)
    <3>1. m \in OpLogsTo(c, s)'
      BY <2>2 DEF Sent
    <3>2. m.isClock /\ m.bgClock = bgClock'[c]
      BY DEF OpLogMsg
    <3> HIDE DEF m
    <3>. QED
      BY <3>1, <3>2 DEF ClockKnown
  <2>. QED
    BY <2>5, <2>6, <2>7 DEF ClocksKnown
<1>. QED
  BY <1>3, <1>4

LEMMA BgClockKnown ==
  ASSUME TypeOK, ChannelInv, HeldBackClocked, ClocksKnown, NEW t \in Threads, BgClock(t)
  PROVE  HeldBackClocked' /\ ClocksKnown'
<1> DEFINE c   == ClientOf[t]
           clk == bgClock[c] + 1
           ack == acked[c]
           on  == pend[c].on
<1>1. c \in Clients /\ bgClock \in [Clients -> Nat] /\ acked \in [Clients -> [Servers -> Nat]]
  BY SSPAssumption DEF TypeOK, TypeBg
<1>2. /\ bgClock' = [bgClock EXCEPT ![c] = @ + 1]
      /\ HandleClockMsg(c, TRUE, clk, ack, on)
      /\ UNCHANGED <<acked, sVersion, sClock>>
  BY DEF BgClock, serverVars
<1>3. /\ clk \in Nat /\ acked' = [acked EXCEPT ![c] = ack] /\ (on => pend[c].on /\ ack = acked[c])
      /\ \A d \in Clients : bgClock'[d] = IF d = c THEN clk ELSE bgClock[d]
  BY <1>1, <1>2
<1> HIDE DEF c, clk, ack, on
<1>. QED
  BY <1>1, <1>2, <1>3, BatchKnown DEF ChannelInv

LEMMA BgOpLogAckKnown ==
  ASSUME TypeOK, ChannelInv, HeldBackClocked, ClocksKnown,
         NEW s \in Servers, NEW c \in Clients, BgOpLogAck(s, c)
  PROVE  HeldBackClocked' /\ ClocksKnown'
<1> DEFINE ack == [acked[c] EXCEPT ![s] = Head(toClient[s][c]).seq]
           clk == bgClock[c]
           advanced == pend[c].advanced
<1>1. /\ acked' = [acked EXCEPT ![c] = ack]
      /\ AckInOrder(c, s, Head(toClient[s][c]).seq)
  BY AckTaken
<1>2. /\ UNCHANGED <<bgClock, sVersion, sClock>>
      /\ \/ pend[c].on /\ HandleClockMsg(c, advanced, clk, ack, FALSE)
         \/ UNCHANGED <<pend, toServer>>
  BY <1>1 DEF BgOpLogAck, serverVars
<1>3. /\ clk \in Nat /\ advanced \in BOOLEAN
      /\ \A d \in Clients : bgClock'[d] = IF d = c THEN clk ELSE bgClock[d]
  BY <1>2 DEF TypeOK, TypeBg
<1>4. pend[c].on => advanced
  BY DEF HeldBackClocked
<1>5. CASE UNCHANGED <<pend, toServer>>
  BY <1>2, <1>5, SameKnown DEF SameOpLogs, OpLogsTo
<1> HIDE DEF ack, clk, advanced
<1>6. CASE pend[c].on /\ HandleClockMsg(c, advanced, clk, ack, FALSE)
  <2> DEFINE on == FALSE
  <2>1. HandleClockMsg(c, advanced, clk, ack, on) /\ (on => pend[c].on /\ ack = acked[c])
    BY <1>6
  <2>2. advanced /\ ToServerInv /\ HeldBackWaits /\ UNCHANGED <<sVersion, sClock>>
    BY <1>2, <1>4, <1>6 DEF ChannelInv
  <2> HIDE DEF on
  <2>. QED
    BY <1>1, <1>3, <2>1, <2>2, BatchKnown
<1>. QED
  BY <1>2, <1>5, <1>6

LEMMA ServerOpLogKnown ==
  ASSUME TypeOK, TypeOK', ChannelInv, HeldBackClocked, ClocksKnown, ServersBehind',
         NEW c \in Clients, NEW s \in Servers, ServerOpLog(c, s)
  PROVE  HeldBackClocked' /\ ClocksKnown'
<1>1. PICK m \in ToServerMsgs : AppliedBatch(c, s, m)
  BY ServerOpLogStep
<1>2. UNCHANGED <<pend, bgClock>>
  BY DEF ServerOpLog, bgVars
<1>3. /\ \A d \in Clients, x \in Servers : ~(d = c /\ x = s) => sClock'[x][d] = sClock[x][d]
      /\ \A x \in Servers, d \in Clients : sClock[x][d] <= sClock'[x][d]
      /\ m.isClock => m.bgClock <= sClock'[s][c]
  BY <1>1, AppliedClocks
<1>4. /\ m \in OpLogsTo(c, s)
      /\ \A d \in Clients, x \in Servers :
           OpLogsTo(d, x)' = IF d = c /\ x = s THEN OpLogsTo(d, x) \ {m} ELSE OpLogsTo(d, x)
  BY <1>1 DEF AppliedBatch
<1>5. HeldBackClocked'
  BY <1>2 DEF HeldBackClocked
<1>6. ASSUME NEW d \in Clients, NEW x \in Servers, ~(d = c /\ x = s)
      PROVE  ClockKnown(d, x)'
  <2>1. OpLogsTo(d, x)' = OpLogsTo(d, x) /\ sClock'[x][d] = sClock[x][d] /\ ClockKnown(d, x)
    BY <1>3, <1>4, <1>6 DEF ClocksKnown
  <2>. QED
    BY <1>2, <2>1 DEF ClockKnown
<1>7. ClockKnown(c, s)'
  <2>1. /\ sClock[s][c] \in Nat /\ sClock'[s][c] \in Nat /\ bgClock[c] \in Nat
        /\ sClock'[s][c] <= bgClock[c]
    BY <1>2 DEF TypeOK, TypeServer, TypeBg, ServersBehind
  <2>2. sClock[s][c] = bgClock[c] => sClock'[s][c] = bgClock[c]
    BY <1>3, <2>1
  <2>3. m.isClock /\ m.bgClock = bgClock[c] => sClock'[s][c] = bgClock[c]
    BY <1>3, <2>1
  <2>4. OpLogsTo(c, s)' = OpLogsTo(c, s) \ {m} /\ ClockKnown(c, s)
    BY <1>4 DEF ClocksKnown
  <2>5. \/ pend[c].on
        \/ sClock[s][c] = bgClock[c]
        \/ \E n \in OpLogsTo(c, s) : n.isClock /\ n.bgClock = bgClock[c]
    BY <2>4 DEF ClockKnown
  <2>. QED
    BY <1>2, <2>2, <2>3, <2>4, <2>5 DEF ClockKnown
<1>. QED
  BY <1>5, <1>6, <1>7 DEF ClocksKnown

LEMMA StepKnown ==
  ASSUME TypeOK, TypeOK', ChannelInv, OnlyClocksAsked, HeldBackClocked, ClocksKnown,
         ServersBehind', [Next]_vars
  PROVE  HeldBackClocked' /\ ClocksKnown'
<1>1. ASSUME NEW t \in Threads, NEW r \in Rows,
             \/ Inc(t, r) \/ GetCached(t, r) \/ GetFetch(t, r) \/ GetResume(t)
             \/ ClockFlush(t) \/ ClockTick(t)
      PROVE  SameOpLogs /\ UNCHANGED <<pend, bgClock, sClock>>
  BY <1>1 DEF Inc, GetCached, GetFetch, GetResume, ClockFlush, ClockTick, SameOpLogs, OpLogsTo,
              bgVars, serverVars, netVars
<1>2. ASSUME NEW c \in Clients, NEW r \in Rows, Evict(c, r)
      PROVE  SameOpLogs /\ UNCHANGED <<pend, bgClock, sClock>>
  BY <1>2 DEF Evict, SameOpLogs, OpLogsTo, bgVars, serverVars, netVars
<1>3. ASSUME NEW t \in Threads, BgRowRequest(t)
      PROVE  SameOpLogs /\ UNCHANGED <<pend, bgClock, sClock>>
  <2>1. SameOpLogs
    BY <1>3, BgRowRequestStep DEF Quiet
  <2>. QED
    BY <1>3, <2>1 DEF BgRowRequest, serverVars
<1>4. ASSUME NEW c \in Clients, NEW s \in Servers, BgRowReply(s, c)
      PROVE  SameOpLogs /\ UNCHANGED <<pend, bgClock, sClock>>
  <2>1. SameOpLogs
    BY <1>4, BgRowReplyStep DEF Quiet, RowRebuilt
  <2>. QED
    BY <1>4, <2>1 DEF BgRowReply, serverVars
<1>5. ASSUME NEW c \in Clients, NEW s \in Servers, ServerRowRequest(c, s)
      PROVE  SameOpLogs /\ UNCHANGED <<pend, bgClock, sClock>>
  <2>1. SameOpLogs
    BY <1>5, ServerRowRequestStep DEF Quiet
  <2>. QED
    BY <1>5, <2>1 DEF ServerRowRequest, bgVars
<1>6. UNCHANGED vars => SameOpLogs /\ UNCHANGED <<pend, bgClock, sClock>>
  BY DEF vars, SameOpLogs, OpLogsTo, bgVars, serverVars, netVars
<1>7. ASSUME NEW t \in Threads
      PROVE  ~BgSendOpLog(t)
  <2>1. SUFFICES ASSUME toBg[t] # << >>
                 PROVE  Head(toBg[t]).type # "BgSendOpLog"
    BY DEF BgSendOpLog
  <2>2. toBg[t] \in Seq(ToBgMsgs)
    BY DEF TypeOK, TypeNet, ToBgMsgs
  <2>3. Len(toBg[t]) \in Nat \ {0} /\ Head(toBg[t]) = toBg[t][1]
    BY <2>1, <2>2, HeadTailProperties
  <2>. QED
    BY <2>3 DEF OnlyClocksAsked
<1>8. Writers \subseteq Threads /\ Readers \subseteq Threads /\ \E r \in Rows : TRUE
  BY SSPAssumption
<1>. QED
  BY <1>1, <1>2, <1>3, <1>4, <1>5, <1>6, <1>7, <1>8, SameKnown, BgClockKnown, BgOpLogAckKnown,
     ServerOpLogKnown DEF Next, Step, Rest

LEMMA FinishedArrived ==
  ASSUME ReadInv, ArriveInv
  PROVE  AllClocksArrive
<1>1. SUFFICES ASSUME Finished, NEW s \in Servers, NEW c \in Clients
               PROVE  sClock[s][c] = MaxClock
  BY DEF AllClocksArrive
<1>2. TypeOK /\ ChannelInv /\ ClockCounted(c) /\ ClockKnown(c, s) /\ TickIsClock
  BY DEF ReadInv, ClocksInv, ReplayInv, TickInv, ClocksCounted, ArriveInv, ClocksKnown
<1>3. /\ \A d \in Clients, x \in Servers : toServer[d][x] = << >> /\ toClient[x][d] = << >>
      /\ \A t \in Threads : pc[t] = "run" /\ clock[t] = MaxClock /\ toBg[t] = << >>
  BY <1>1 DEF Finished
<1>4. ~pend[c].on
  <2>1. \A x \in Servers : Range(toServer[c][x]) = {} /\ Range(toClient[x][c]) = {}
    BY <1>3 DEF Range
  <2>. QED
    BY <1>2, <2>1, AckOwed
<1>5. OpLogsTo(c, s) = {}
  BY <1>3 DEF OpLogsTo, OfType, Range
<1>6. Pending(c) = 0
  <2>1. \A t \in ThreadsOf(c) : Len(toBg[t]) = 0
    BY <1>3 DEF ThreadsOf
  <2>2. ClockMsgsIn(toBg, c) = {}
    BY <2>1 DEF ClockMsgsIn
  <2>. QED
    BY <2>2, FS_EmptySet DEF Pending
<1>7. PICK t \in ThreadsOf(c) : tick[t] <= bgClock[c] + Pending(c) /\ bgClock[c] + Pending(c) <= tick[t]
  BY <1>2 DEF ClockCounted
<1>8. tick[t] = MaxClock /\ tick[t] \in Nat /\ bgClock[c] \in Nat
  BY <1>2, <1>3 DEF ThreadsOf, TickIsClock, TypeOK, TypeClient, TypeBg
<1>9. bgClock[c] = MaxClock
  BY <1>6, <1>7, <1>8
<1>. QED
  BY <1>2, <1>4, <1>5, <1>9 DEF ClockKnown

(* No clock is lost on its way to the servers, unless the configuration    *)
(* asks for batches between clocks: what HandleClockMsg holds back carries *)
(* the worker's last clock when an acknowledgement lets it go, and when    *)
(* everything has come to rest every server has reached the last clock of  *)
(* every client.                                                           *)
THEOREM ClocksArrive == ~Aggressive => (Spec => []AllClocksArrive)
<1>1. SUFFICES ASSUME ~Aggressive PROVE Spec => []AllClocksArrive
  OBVIOUS
<1>2. Init => ReadInv /\ ArriveInv
  BY InitRead, InitArrive
<1>3. ReadInv /\ ArriveInv /\ [Next]_vars => ReadInv' /\ ArriveInv'
  <2>1. SUFFICES ASSUME ReadInv, ArriveInv, [Next]_vars PROVE ReadInv' /\ ArriveInv'
    OBVIOUS
  <2>2. ReadInv'
    BY <2>1, ReadStep
  <2>3. TypeOK /\ ChannelInv /\ RequestsInv /\ TypeOK' /\ ServersBehind'
    BY <2>1, <2>2 DEF ReadInv, ClocksInv, ReplayInv, StaleInv, SeenInv
  <2>4. TickIsClock'
    BY <2>1, <2>3, StepTickMoves, TickIsClockKept DEF ArriveInv
  <2>5. OnlyClocksAsked'
    BY <1>1, <2>1, <2>3, StepAsked, AskedKept DEF ArriveInv
  <2>6. HeldBackClocked' /\ ClocksKnown'
    BY <2>1, <2>3, StepKnown DEF ArriveInv
  <2>. QED
    BY <2>2, <2>4, <2>5, <2>6 DEF ArriveInv
<1>4. ReadInv /\ ArriveInv => AllClocksArrive
  BY FinishedArrived
<1>. QED
  BY <1>2, <1>3, <1>4, PTL DEF Spec

=============================================================================
