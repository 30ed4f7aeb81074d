----------------------------- MODULE SSPProofs -----------------------------
(***************************************************************************)
(* Theorems about SSP, for any number of clients, threads, servers and     *)
(* rows, and every window, staleness and bound: its types, and that no     *)
(* update is lost; and what reaches a process cache, no update twice and   *)
(* every update of the process itself.  The proof of the latter has        *)
(* layers, each an invariant of its own:                                   *)
(*                                                                         *)
(*   ChannelInv  batches and acknowledgements arrive in the order of their *)
(*               versions, without gaps;                                   *)
(*   OwnInv      whose updates an oplog, a batch, a row may hold;          *)
(*   ApartInv    no update is in two of the parts a row is added up from;  *)
(*   RebuiltInv  a reply, the retained batches sent since and the unsent   *)
(*               updates together have all updates of the process.         *)
(***************************************************************************)
EXTENDS SSP, FiniteSetTheorems, SequenceTheorems, WellFoundedInduction, TLAPS

-----------------------------------------------------------------------------
(* Minima and maxima of finite sets of integers, by induction on finite    *)
(* sets (the strict subset order is well founded).                         *)

LEMMA FiniteHasLeast ==
  ASSUME NEW S, S \subseteq Int, S # {}, IsFiniteSet(S)
  PROVE  \E x \in S : \A y \in S : x <= y
<1> DEFINE Bad == { T \in SUBSET S : T # {} /\ ~\E x \in T : \A y \in T : x <= y }
<1>1. SUFFICES ASSUME Bad # {} PROVE FALSE
  OBVIOUS
<1>2. Bad \subseteq FiniteSubsetsOf(S)
  BY FS_FiniteSubsetsOfFinite
<1>3. PICK T \in Bad : \A U \in Bad : <<U, T>> \notin StrictSubsetOrdering(S)
  BY <1>1, <1>2, FS_StrictSubsetOrderingWellFounded, WFMin
<1>4. PICK x \in T : TRUE
  OBVIOUS
<1>5. T \ {x} \notin Bad
  BY <1>3, <1>4 DEF StrictSubsetOrdering
<1>6. CASE T \ {x} = {}
  BY <1>4, <1>6
<1>7. CASE T \ {x} # {}
  <2>1. PICK m \in T \ {x} : \A y \in T \ {x} : m <= y
    BY <1>5, <1>7
  <2>2. x \in Int /\ m \in Int /\ \A y \in T : y \in Int
    BY <1>4
  <2>3. \/ \A y \in T : m <= y
        \/ \A y \in T : x <= y
    BY <2>1, <2>2
  <2>. QED
    BY <2>1, <2>3, <1>4
<1>. QED
  BY <1>6, <1>7

LEMMA MinIsLeast ==
  ASSUME NEW S, S \subseteq Int, S # {}, IsFiniteSet(S)
  PROVE  Min(S) \in S /\ \A y \in S : Min(S) <= y
BY FiniteHasLeast DEF Min

LEMMA FiniteHasGreatest ==
  ASSUME NEW S, S \subseteq Int, S # {}, IsFiniteSet(S)
  PROVE  \E x \in S : \A y \in S : x >= y
<1> DEFINE Bad == { T \in SUBSET S : T # {} /\ ~\E x \in T : \A y \in T : x >= y }
<1>1. SUFFICES ASSUME Bad # {} PROVE FALSE
  OBVIOUS
<1>2. Bad \subseteq FiniteSubsetsOf(S)
  BY FS_FiniteSubsetsOfFinite
<1>3. PICK T \in Bad : \A U \in Bad : <<U, T>> \notin StrictSubsetOrdering(S)
  BY <1>1, <1>2, FS_StrictSubsetOrderingWellFounded, WFMin
<1>4. PICK x \in T : TRUE
  OBVIOUS
<1>5. T \ {x} \notin Bad
  BY <1>3, <1>4 DEF StrictSubsetOrdering
<1>6. CASE T \ {x} = {}
  BY <1>4, <1>6
<1>7. CASE T \ {x} # {}
  <2>1. PICK m \in T \ {x} : \A y \in T \ {x} : m >= y
    BY <1>5, <1>7
  <2>2. x \in Int /\ m \in Int /\ \A y \in T : y \in Int
    BY <1>4
  <2>3. \/ \A y \in T : m >= y
        \/ \A y \in T : x >= y
    BY <2>1, <2>2
  <2>. QED
    BY <2>1, <2>3, <1>4
<1>. QED
  BY <1>6, <1>7

LEMMA MaxIsGreatest ==
  ASSUME NEW S, S \subseteq Int, S # {}, IsFiniteSet(S)
  PROVE  Max(S) \in S /\ \A y \in S : Max(S) >= y
BY FiniteHasGreatest DEF Max

LEMMA MaxOfTwo ==
  ASSUME NEW a \in Nat, NEW b \in Nat
  PROVE  Max({a, b}) \in Nat /\ Max({a, b}) >= a /\ Max({a, b}) >= b
<1>1. IsFiniteSet({a, b})
  <2>1. {a, b} = {a} \cup {b}
    OBVIOUS
  <2>2. IsFiniteSet({a} \cup {b})
    BY FS_Singleton, FS_AddElement
  <2>. QED
    BY <2>1, <2>2
<1>. QED
  BY <1>1, MaxIsGreatest

(* The minimum of a vector clock is one of its entries.                    *)
LEMMA MinClockType ==
  ASSUME NEW vec \in [Clients -> Nat]
  PROVE  MinClock(vec) \in Nat
<1>1. vec \in Surjection(Clients, Range(vec))
  BY DEF Surjection, Range
<1>2. IsFiniteSet(Range(vec))
  BY <1>1, SSPAssumption, FS_Surjection
<1>3. Range(vec) \subseteq Nat /\ Range(vec) # {}
  BY SSPAssumption DEF Range
<1>. QED
  BY <1>2, <1>3, MinIsLeast DEF MinClock

-----------------------------------------------------------------------------
(* The operators of the row request manager keep its type.                 *)

LEMMA SortedPlaceType ==
  ASSUME NEW list \in Seq(Requests), NEW k \in Clocks
  PROVE  SortedPlace(list, k) \in 0 .. Len(list)
<1> DEFINE notLater == { i \in DOMAIN list : list[i].clock <= k }
<1>1. CASE notLater = {}
  BY <1>1 DEF SortedPlace
<1>2. CASE notLater # {}
  <2>1. notLater \subseteq 1 .. Len(list) /\ Len(list) \in Nat
    OBVIOUS
  <2>2. IsFiniteSet(notLater)
    BY <2>1, FS_Interval, FS_Subset
  <2>3. notLater \subseteq Int
    BY <2>1
  <2>4. Max(notLater) \in notLater
    <3> HIDE DEF notLater
    <3>. QED
      BY <1>2, <2>2, <2>3, MaxIsGreatest
  <2>. QED
    BY <1>2, <2>1, <2>4 DEF SortedPlace
<1>. QED
  BY <1>1, <1>2

LEMMA AddRowRequestType ==
  ASSUME NEW m \in Managers, NEW r \in Rows, NEW t \in Threads,
         NEW k \in Clocks, NEW v \in Versions, NEW garbage \in BOOLEAN
  PROVE  AddRowRequest(m, r, t, k, v, garbage) \in Managers
<1> DEFINE list  == m.reqs[r]
           entry == [thread |-> t, clock |-> k, version |-> v, sent |-> garbage]
           p     == SortedPlace(list, k) + 1
<1>1. list \in Seq(Requests) /\ entry \in Requests
  BY DEF Managers, Requests
<1>2. p \in 1 .. Len(list) + 1 /\ Len(list) \in Nat
  BY <1>1, SortedPlaceType
<1>3. SubSeq(list, 1, p - 1) \in Seq(Requests)
  <2>1. \A i \in 1 .. p - 1 : list[i] \in Requests
    BY <1>1, <1>2, ElementOfSeq
  <2>. QED
    BY <1>2, <2>1, SubSeqProperties
<1>4. SubSeq(list, p, Len(list)) \in Seq(Requests)
  <2>1. \A i \in p .. Len(list) : list[i] \in Requests
    BY <1>1, <1>2, ElementOfSeq
  <2>. QED
    BY <1>2, <2>1, SubSeqProperties
<1>5. InsertAt(list, p, entry) \in Seq(Requests)
  BY <1>1, <1>3, <1>4, ConcatProperties DEF InsertAt
<1>. QED
  BY <1>5 DEF AddRowRequest, Managers

LEMMA NumServedType ==
  ASSUME NEW list \in Seq(Requests), NEW k \in Nat
  PROVE  NumServed(list, k) \in 0 .. Len(list)
<1> DEFINE served == { i \in DOMAIN list : \A j \in 1 .. i : list[j].clock <= k }
<1>1. served \in SUBSET (1 .. Len(list)) /\ Len(list) \in Nat
  OBVIOUS
<1>2. IsFiniteSet(1 .. Len(list)) /\ Cardinality(1 .. Len(list)) = Len(list)
  <2>1. Len(list) \in Nat /\ 1 \in Int /\ Len(list) \in Int
    BY <1>1
  <2>. QED
    BY <2>1, FS_Interval
<1>3. IsFiniteSet(served) /\ Cardinality(served) <= Len(list)
  BY <1>1, <1>2, FS_Subset
<1>. QED
  BY <1>1, <1>3, FS_CardinalityType DEF NumServed

LEMMA PopServedType ==
  ASSUME NEW m \in Managers, NEW r \in Rows, NEW k \in Nat, NEW v \in Nat
  PROVE  PopServed(m, r, k, v) \in Managers
<1> DEFINE list == m.reqs[r]
           n    == NumServed(list, k)
           gone == ReleasedByPops(m, r, n, v)
<1>1. list \in Seq(Requests)
  BY DEF Managers
<1>2. n \in 0 .. Len(list) /\ Len(list) \in Nat
  <2> HIDE DEF list
  <2>. QED
    BY <1>1, NumServedType
<1>3. SubSeq(list, n + 1, Len(list)) \in Seq(Requests)
  <2>1. \A i \in n + 1 .. Len(list) : list[i] \in Requests
    BY <1>1, <1>2, ElementOfSeq
  <2>. QED
    BY <1>2, <2>1, SubSeqProperties
<1>4. Popped(m, r, n) \in Managers
  BY <1>3 DEF Popped, Managers
<1>5. Without(Popped(m, r, n), gone) \in Managers
  <2> HIDE DEF gone, n
  <2>. QED
    BY <1>4 DEF Without, Managers
<1>. QED
  BY <1>5 DEF PopServed

LEMMA ClockToRequestType ==
  ASSUME NEW m \in Managers, NEW r \in Rows
  PROVE  /\ ClockToRequest(m, r) \in Clocks \cup {-1}
         /\ ClockToRequest(m, r) >= 0 => m.reqs[r] # << >>
<1>1. m.reqs[r] \in Seq(Requests)
  BY DEF Managers
<1>2. ASSUME m.reqs[r] # << >>
      PROVE  Head(m.reqs[r]).clock \in Clocks
  <2>1. Head(m.reqs[r]) \in Requests
    BY <1>1, <1>2, HeadTailProperties
  <2>. QED
    BY <2>1 DEF Requests
<1>. QED
  BY <1>2, SSPAssumption DEF ClockToRequest

LEMMA InformReplyType ==
  ASSUME NEW m \in Managers, NEW r \in Rows, NEW k \in Nat, NEW v \in Nat
  PROVE  InformReply(m, r, k, v) \in Managers
<1> DEFINE popped  == PopServed(m, r, k, v)
           renewed == Renewed(popped, r, v)
           gone    == Released(renewed, Head(popped.reqs[r]).version, v)
<1>1. popped \in Managers
  BY PopServedType
<1>2. ASSUME ~(ClockToRequest(popped, r) < 0)
      PROVE  Without(renewed, gone) \in Managers
  <2> DEFINE front == [Head(popped.reqs[r]) EXCEPT !.sent = TRUE, !.version = v - 1]
  <2> HIDE DEF popped
  <2>1. ClockToRequest(popped, r) \in Int
    BY <1>1, ClockToRequestType, SSPAssumption DEF Clocks
  <2>2. popped.reqs[r] # << >>
    BY <1>1, <1>2, <2>1, ClockToRequestType
  <2>3. popped.reqs[r] \in Seq(Requests)
    BY <1>1 DEF Managers
  <2>4. Head(popped.reqs[r]) \in Requests /\ Tail(popped.reqs[r]) \in Seq(Requests)
    BY <2>2, <2>3, HeadTailProperties
  <2>5. v - 1 \in Versions
    BY DEF Versions
  <2>6. front \in Requests
    BY <2>4, <2>5 DEF Requests
  <2>7. << front >> \o Tail(popped.reqs[r]) \in Seq(Requests)
    <3> HIDE DEF front
    <3>. QED
      BY <2>4, <2>6, ConcatProperties
  <2>8. renewed \in Managers
    BY <1>1, <2>7 DEF Renewed, Managers
  <2> HIDE DEF renewed, gone
  <2>. QED
    BY <2>8 DEF Without, Managers
<1>. QED
  BY <1>1, <1>2 DEF InformReply
-----------------------------------------------------------------------------
(* Small facts about the state.                                            *)

LEMMA ClocksAreNat == Clocks \subseteq Nat /\ 0 \in Clocks
BY SSPAssumption DEF Clocks

LEMMA StalestClockType ==
  ASSUME TypeApp, NEW t \in Threads
  PROVE  StalestClock(t) \in Clocks
<1> DEFINE S == {0, clock[t] - Staleness}
<1>1. clock[t] \in 0 .. MaxClock /\ Staleness \in Nat /\ MaxClock \in Nat
  BY SSPAssumption DEF TypeApp, Clocks
<1>2. S \subseteq Int /\ S # {} /\ IsFiniteSet(S)
  <2>1. S = {0} \cup {clock[t] - Staleness}
    OBVIOUS
  <2>2. IsFiniteSet({0} \cup {clock[t] - Staleness})
    BY FS_Singleton, FS_AddElement
  <2>. QED
    BY <1>1, <2>1, <2>2
<1>3. Max(S) \in S /\ Max(S) >= 0
  <2> HIDE DEF S
  <2>1. Max(S) \in S /\ \A y \in S : Max(S) >= y
    BY <1>2, MaxIsGreatest
  <2>. QED
    BY <2>1 DEF S
<1>. QED
  BY <1>1, <1>3 DEF StalestClock, Clocks

LEMMA NoWantType == NoWant \in [row : Rows, clock : Clocks, fetches : 0 .. 3, since : 0 .. MaxEvict]
BY SSPAssumption, ClocksAreNat DEF NoWant

(* What one message at the head of a channel carries.                      *)
LEMMA HeadToBg ==
  ASSUME TypeNet, NEW t \in Threads, toBg[t] # << >>
  PROVE  /\ Tail(toBg[t]) \in Seq(RowRequestMsgs \cup ClockMsgs)
         /\ Head(toBg[t]) \in RowRequestMsgs \cup ClockMsgs
BY HeadTailProperties DEF TypeNet

LEMMA HeadToServer ==
  ASSUME TypeNet, NEW c \in Clients, NEW s \in Servers, toServer[c][s] # << >>
  PROVE  /\ Tail(toServer[c][s]) \in Seq(RowRequestMsgs \cup OpLogMsgs)
         /\ Head(toServer[c][s]) \in RowRequestMsgs \cup OpLogMsgs
BY HeadTailProperties DEF TypeNet

LEMMA HeadToClient ==
  ASSUME TypeNet, NEW c \in Clients, NEW s \in Servers, toClient[s][c] # << >>
  PROVE  /\ Tail(toClient[s][c]) \in Seq(RowReplyMsgs \cup AckMsgs)
         /\ Head(toClient[s][c]) \in RowReplyMsgs \cup AckMsgs
BY HeadTailProperties DEF TypeNet

-----------------------------------------------------------------------------
(* Type correctness, action by action.                                     *)

LEMMA InitType == Init => TypeOK
<1>1. SUFFICES ASSUME Init PROVE TypeOK
  OBVIOUS
<1>2. TypeApp
  BY <1>1, NoWantType, ClocksAreNat DEF Init, TypeApp, Reads, Store!NothingRead
<1>3. TypeClient
  BY <1>1, SSPAssumption DEF Init, TypeClient, NoRow, Logs, CachedRows, Versions
<1>4. TypeBg
  <2>1. NoRequests \in Managers
    BY DEF NoRequests, Managers
  <2>. QED
    BY <1>1, <2>1 DEF Init, TypeBg
<1>5. TypeServer
  BY <1>1 DEF Init, TypeServer, Logs, Versions
<1>6. TypeNet
  BY <1>1 DEF Init, TypeNet
<1>7. TypeHistory
  BY <1>1 DEF Init, TypeHistory, Logs
<1>. QED
  BY <1>2, <1>3, <1>4, <1>5, <1>6, <1>7 DEF TypeOK

LEMMA IncType ==
  ASSUME TypeOK, NEW t \in Threads, NEW r \in Rows, Inc(t, r)
  PROVE  TypeOK'
<1> USE DEF TypeOK
<1>1. PICK n \in 1 .. MaxIncs :
        LET c == ClientOf[t]
            u == <<t, clock[t], n>>
        IN  /\ clock[t] < MaxClock
            /\ dirty' = [dirty EXCEPT ![t] = @ \cup {r}]
            /\ oplog' = [oplog EXCEPT ![c][r] = @ \cup {u}]
            /\ storage' = IF Cached(c, r)
                          THEN [storage EXCEPT ![c][r].data = @ \cup {u}]
                          ELSE storage
            /\ made' = [made EXCEPT ![r] = @ \cup {u}]
            /\ UNCHANGED <<pc, clock, want, got, tick, index, evicted, pinned, bgVars,
                           serverVars, netVars, twice, failed>>
  BY Zenon DEF Inc, FindInsertOpLog
<1> DEFINE c == ClientOf[t]
           u == <<t, clock[t], n>>
<1>2. c \in Clients
  BY SSPAssumption
<1>3. u \in Updates
  BY DEF Updates, TypeApp
<1> HIDE DEF u, c
<1>4. TypeApp'
  BY <1>1 DEF TypeApp
<1>5. TypeClient'
  <2>1. oplog' \in [Clients -> Logs]
    BY <1>1, <1>2, <1>3 DEF TypeClient, Logs, u, c
  <2>2. [storage[c][r] EXCEPT !.data = @ \cup {u}] \in CachedRows
    <3>1. storage[c][r] \in CachedRows
      BY <1>2 DEF TypeClient
    <3>. QED
      BY <1>3, <3>1 DEF CachedRows
  <2>3. storage' \in [Clients -> [Rows -> CachedRows]]
    BY <1>1, <1>2, <2>2 DEF TypeClient, u, c
  <2>. QED
    BY <1>1, <2>1, <2>3 DEF TypeClient
<1>6. TypeHistory'
  BY <1>1, <1>3 DEF TypeHistory, Logs, u
<1>7. UNCHANGED <<bgVars, serverVars, netVars>>
  BY <1>1
<1>. QED
  BY <1>4, <1>5, <1>6, <1>7
     DEF TypeBg, TypeServer, TypeNet, bgVars, serverVars, netVars

LEMMA SeenType ==
  ASSUME TypeClient, TypeHistory, NEW t \in Threads, NEW r \in Rows
  PROVE  Seen(t, r) \in Reads
<1>1. storage[ClientOf[t]][r] \in CachedRows
  BY SSPAssumption DEF TypeClient
<1>2. storage[ClientOf[t]][r].data \in SUBSET Updates
  BY <1>1 DEF CachedRows
<1>3. Store!Due(t, r) \in SUBSET Updates
  BY DEF TypeHistory, Logs, Store!Due
<1>. QED
  BY <1>2, <1>3 DEF Seen, Reads

LEMMA GetCachedType ==
  ASSUME TypeOK, NEW t \in Threads, NEW r \in Rows, GetCached(t, r)
  PROVE  TypeOK'
<1> USE DEF TypeOK
<1>1. Seen(t, r) \in Reads
  BY SeenType
<1>2. got' = [got EXCEPT ![t][r] = Seen(t, r)] /\ UNCHANGED <<pc, clock, dirty, want>>
  BY DEF GetCached
<1>3. TypeApp'
  BY <1>1, <1>2 DEF TypeApp
<1>4. UNCHANGED <<clientVars, bgVars, serverVars, netVars, histVars>>
  BY DEF GetCached
<1>. QED
  BY <1>3, <1>4 DEF TypeClient, TypeBg, TypeServer, TypeNet, TypeHistory,
                    clientVars, bgVars, serverVars, netVars, histVars

LEMMA RowRequestMsgType ==
  ASSUME NEW r \in Rows, NEW k \in Clocks
  PROVE  RowRequestMsg(r, k) \in RowRequestMsgs
BY DEF RowRequestMsg, RowRequestMsgs

LEMMA AppendToBg ==
  ASSUME TypeNet, NEW t \in Threads, NEW m \in RowRequestMsgs \cup ClockMsgs
  PROVE  [toBg EXCEPT ![t] = Append(@, m)]
           \in [Threads -> Seq(RowRequestMsgs \cup ClockMsgs)]
BY AppendProperties DEF TypeNet

LEMMA GetFetchType ==
  ASSUME TypeOK, NEW t \in Threads, NEW r \in Rows, GetFetch(t, r)
  PROVE  TypeOK'
<1> USE DEF TypeOK
<1> DEFINE k == StalestClock(t)
           m == RowRequestMsg(r, k)
           w == [row |-> r, clock |-> k, fetches |-> 0,
                 since |-> evicted[ClientOf[t]]]
<1>1. k \in Clocks
  BY StalestClockType
<1>2. m \in RowRequestMsgs
  BY <1>1, RowRequestMsgType
<1>3. /\ pc' = [pc EXCEPT ![t] = "waiting"]
      /\ want' = [want EXCEPT ![t] = w]
      /\ toBg' = [toBg EXCEPT ![t] = Append(@, m)]
      /\ UNCHANGED <<clock, dirty, got, tick, storage, oplog, index, evicted,
                     bgVars, serverVars, toServer, toClient, histVars>>
  BY DEF GetFetch
<1> HIDE DEF k, m
<1>4. TypeApp'
  <2>1. evicted[ClientOf[t]] \in 0 .. MaxEvict
    BY SSPAssumption DEF TypeClient
  <2>2. w \in [row : Rows, clock : Clocks, fetches : 0 .. 3, since : 0 .. MaxEvict]
    BY <1>1, <2>1
  <2> HIDE DEF w
  <2>3. want' \in [Threads -> [row : Rows, clock : Clocks, fetches : 0 .. 3,
                               since : 0 .. MaxEvict]]
    BY <1>3, <2>2 DEF TypeApp
  <2>. QED
    BY <1>3, <2>3 DEF TypeApp
<1>5. TypeNet'
  <2>1. toBg' \in [Threads -> Seq(RowRequestMsgs \cup ClockMsgs)]
    BY <1>2, <1>3, AppendToBg
  <2>. QED
    BY <1>3, <2>1 DEF TypeNet
<1>6. TypeClient'
  <2>1. pinned' \in [Clients -> SUBSET Rows]
    BY SSPAssumption DEF GetFetch, TypeClient
  <2>. QED
    BY <1>3, <2>1 DEF TypeClient
<1>. QED
  BY <1>3, <1>4, <1>5, <1>6 DEF TypeBg, TypeServer, TypeHistory,
                    bgVars, serverVars, histVars

LEMMA GetResumeType ==
  ASSUME TypeOK, NEW t \in Threads, GetResume(t)
  PROVE  TypeOK'
<1> USE DEF TypeOK
<1> DEFINE c   == ClientOf[t]
           r   == want[t].row
           n   == want[t].fetches + 1
           m   == RowRequestMsg(r, want[t].clock)
<1>1. r \in Rows /\ want[t].clock \in Clocks /\ want[t].fetches \in 0 .. 3
  BY DEF TypeApp
<1>2. Seen(t, r) \in Reads
  BY <1>1, SeenType
<1>3. m \in RowRequestMsgs
  BY <1>1, RowRequestMsgType
<1>4. UNCHANGED <<clock, dirty, clientVars, bgVars, serverVars, toServer,
                  toClient, made, twice>>
  BY DEF GetResume
<1>5. \/ UNCHANGED <<pc, want, got, toBg>>
      \/ /\ pc'   = [pc EXCEPT ![t] = "run"]
         /\ want' = [want EXCEPT ![t] = NoWant]
         /\ got'  = [got EXCEPT ![t][r] = Seen(t, r)]
         /\ UNCHANGED toBg
      \/ /\ n <= 3
         /\ pc'   = [pc EXCEPT ![t] = "waiting"]
         /\ want' = [want EXCEPT ![t].fetches = n]
         /\ toBg' = [toBg EXCEPT ![t] = Append(@, m)]
         /\ UNCHANGED got
  BY <1>1 DEF GetResume
<1> HIDE DEF c, m
<1>6. TypeApp'
  <2>1. CASE UNCHANGED <<pc, want, got, toBg>>
    BY <1>4, <2>1 DEF TypeApp
  <2>2. CASE /\ pc'   = [pc EXCEPT ![t] = "run"]
             /\ want' = [want EXCEPT ![t] = NoWant]
             /\ got'  = [got EXCEPT ![t][r] = Seen(t, r)]
    BY <1>1, <1>2, <1>4, <2>2, NoWantType DEF TypeApp
  <2>3. CASE /\ n <= 3
             /\ pc'   = [pc EXCEPT ![t] = "waiting"]
             /\ want' = [want EXCEPT ![t].fetches = n]
             /\ UNCHANGED got
    <3>1. n \in 0 .. 3
      BY <1>1, <2>3
    <3>2. [want[t] EXCEPT !.fetches = n] \in [row : Rows, clock : Clocks,
                                              fetches : 0 .. 3, since : 0 .. MaxEvict]
      <4> HIDE DEF n
      <4>. QED
        BY <3>1 DEF TypeApp
    <3>3. want' \in [Threads -> [row : Rows, clock : Clocks, fetches : 0 .. 3, since : 0 .. MaxEvict]]
      BY <2>3, <3>2 DEF TypeApp
    <3>. QED
      BY <1>4, <2>3, <3>3 DEF TypeApp
  <2>. QED
    BY <1>5, <2>1, <2>2, <2>3
<1>7. TypeNet'
  <2>1. toBg' \in [Threads -> Seq(RowRequestMsgs \cup ClockMsgs)]
    <3>1. [toBg EXCEPT ![t] = Append(@, m)]
            \in [Threads -> Seq(RowRequestMsgs \cup ClockMsgs)]
      BY <1>3, AppendToBg
    <3>. QED
      BY <1>5, <3>1 DEF TypeNet
  <2>. QED
    BY <1>4, <2>1 DEF TypeNet
<1>. QED
  BY <1>4, <1>6, <1>7 DEF TypeClient, TypeBg, TypeServer, TypeHistory,
                    clientVars, bgVars, serverVars

LEMMA ClockFlushType ==
  ASSUME TypeOK, NEW t \in Threads, ClockFlush(t)
  PROVE  TypeOK'
<1> USE DEF TypeOK
<1>1. TypeApp'
  BY SSPAssumption DEF ClockFlush, AddIndex, TypeApp, Clocks
<1>2. TypeClient'
  BY SSPAssumption DEF ClockFlush, AddIndex, TypeClient, TypeApp
<1>3. UNCHANGED <<bgVars, serverVars, netVars, histVars>>
  BY DEF ClockFlush, AddIndex
<1>. QED
  BY <1>1, <1>2, <1>3 DEF TypeBg, TypeServer, TypeNet, TypeHistory,
                          bgVars, serverVars, netVars, histVars

LEMMA ClockTickType ==
  ASSUME TypeOK, NEW t \in Threads, ClockTick(t)
  PROVE  TypeOK'
<1> USE DEF TypeOK
<1> DEFINE moved == \A o \in ThreadsOf(ClientOf[t]) \ {t} : tick[o] > tick[t]
           m     == [type |-> IF moved THEN "BgClock" ELSE "BgSendOpLog"]
<1>1. m \in ClockMsgs
  BY DEF ClockMsgs
<1>2. \/ UNCHANGED toBg
      \/ toBg' = [toBg EXCEPT ![t] = Append(@, m)]
  BY DEF ClockTick
<1> HIDE DEF m
<1>3. TypeApp' /\ TypeClient'
  BY DEF ClockTick, TypeApp, TypeClient
<1>4. UNCHANGED <<bgVars, serverVars, toServer, toClient, histVars>>
  BY DEF ClockTick
<1>5. TypeNet'
  <2>1. toBg' \in [Threads -> Seq(RowRequestMsgs \cup ClockMsgs)]
    <3>1. [toBg EXCEPT ![t] = Append(@, m)]
            \in [Threads -> Seq(RowRequestMsgs \cup ClockMsgs)]
      BY <1>1, AppendToBg
    <3>. QED
      BY <1>2, <3>1 DEF TypeNet
  <2>. QED
    BY <1>4, <2>1 DEF TypeNet
<1>. QED
  BY <1>3, <1>4, <1>5 DEF TypeBg, TypeServer, TypeHistory,
                          bgVars, serverVars, histVars

LEMMA EvictType ==
  ASSUME TypeOK, NEW c \in Clients, NEW r \in Rows, Evict(c, r)
  PROVE  TypeOK'
<1> USE DEF TypeOK
<1>1. NoRow \in CachedRows
  BY DEF NoRow, CachedRows, Versions
<1>2. TypeClient'
  BY <1>1, SSPAssumption DEF Evict, TypeClient
<1>3. UNCHANGED <<appVars, bgVars, serverVars, netVars, histVars>>
  BY DEF Evict
<1>. QED
  BY <1>2, <1>3 DEF TypeApp, TypeBg, TypeServer, TypeNet, TypeHistory,
                    appVars, bgVars, serverVars, netVars, histVars

(* Sending a batch, at once or not at all.                                 *)

LEMMA BatchType ==
  ASSUME TypeClient, NEW c \in Clients
  PROVE  /\ Batch(c) \in Logs
         /\ Remaining(c) \in Logs
BY DEF TypeClient, Batch, Remaining, Logs

LEMMA OpLogMsgType ==
  ASSUME TypeClient, TypeBg, NEW c \in Clients, NEW s \in Servers,
         NEW advanced \in BOOLEAN, NEW clk \in Nat
  PROVE  OpLogMsg(c, s, advanced, clk) \in OpLogMsgs
<1>1. Batch(c) \in Logs
  BY BatchType
<1>2. version[c] \in Nat /\ sent[c][s] + 1 \in Nat
  BY DEF TypeBg
<1>3. [r \in Rows |-> IF ServerOf[r] = s THEN Batch(c)[r] ELSE {}] \in Logs
  BY <1>1 DEF Logs
<1>. QED
  BY <1>2, <1>3 DEF OpLogMsg, OpLogMsgs, IncGetSeq

LEMMA AddOpLogType ==
  ASSUME NEW m \in Managers, NEW v \in Nat, NEW log \in Logs
  PROVE  AddOpLog(m, v, log) \in Managers
<1>1. [version |-> v, log |-> log] \in Retained
  BY DEF Retained
<1>. QED
  BY <1>1 DEF AddOpLog, Managers

LEMMA HandleClockMsgType ==
  ASSUME TypeClient, TypeBg, TypeNet, NEW c \in Clients,
         NEW advanced \in BOOLEAN, NEW clk \in Nat, NEW ack,
         NEW on \in BOOLEAN,
         HandleClockMsg(c, advanced, clk, ack, on)
  PROVE  /\ oplog' \in [Clients -> Logs] /\ index' \in [Clients -> SUBSET Rows]
         /\ version' \in [Clients -> Nat]
         /\ pend' \in [Clients -> [on : BOOLEAN, advanced : BOOLEAN]]
         /\ sent' \in [Clients -> [Servers -> Nat]]
         /\ mgr' \in [Clients -> Managers]
         /\ toServer' \in [Clients -> [Servers -> Seq(RowRequestMsgs \cup OpLogMsgs)]]
<1>1. CASE ~CheckSendAll(c, ack)
  <2>1. /\ pend' = [pend EXCEPT ![c] = [on |-> TRUE, advanced |-> advanced]]
        /\ UNCHANGED <<oplog, index, version, sent, mgr, toServer>>
    BY <1>1 DEF HandleClockMsg, HeldBack, ResetPartition, IncGetSeq
  <2>. QED
    BY <2>1 DEF TypeClient, TypeBg, TypeNet
<1>2. CASE CheckSendAll(c, ack)
  <2> DEFINE left   == Remaining(c)
             Msg(s) == OpLogMsg(c, s, advanced, clk)
             kept   == AddOpLog(mgr[c], version[c], Batch(c))
  <2>1. /\ pend'     = [pend EXCEPT ![c].on = on]
        /\ oplog'    = [oplog EXCEPT ![c] = left]
        /\ index'    = [index EXCEPT ![c] = {}]
        /\ toServer' = [toServer EXCEPT ![c] =
                          [s \in Servers |-> Append(toServer[c][s], Msg(s))]]
        /\ sent'     = [sent EXCEPT ![c] = [s \in Servers |-> sent[c][s] + 1]]
        /\ mgr'      = [mgr EXCEPT ![c] = kept]
        /\ version'  = [version EXCEPT ![c] = @ + 1]
    BY <1>2 DEF HandleClockMsg, HeldBack, ResetPartition, IncGetSeq
  <2>2. Batch(c) \in Logs /\ left \in Logs
    BY BatchType
  <2>3. \A s \in Servers : Append(toServer[c][s], Msg(s))
                             \in Seq(RowRequestMsgs \cup OpLogMsgs)
    <3>1. TAKE s \in Servers
    <3>2. Msg(s) \in OpLogMsgs
      BY OpLogMsgType
    <3>3. toServer[c][s] \in Seq(RowRequestMsgs \cup OpLogMsgs)
      BY DEF TypeNet
    <3>. QED
      BY <3>2, <3>3, AppendProperties
  <2>4. kept \in Managers
    BY <2>2, AddOpLogType DEF TypeBg
  <2> HIDE DEF left, Msg, kept
  <2>5. oplog' \in [Clients -> Logs] /\ index' \in [Clients -> SUBSET Rows]
    BY <2>1, <2>2 DEF TypeClient
  <2>6. toServer' \in [Clients -> [Servers -> Seq(RowRequestMsgs \cup OpLogMsgs)]]
    BY <2>1, <2>3 DEF TypeNet
  <2>7. version' \in [Clients -> Nat] /\ mgr' \in [Clients -> Managers]
    BY <2>1, <2>4 DEF TypeBg
  <2>8. pend' \in [Clients -> [on : BOOLEAN, advanced : BOOLEAN]]
    BY <2>1 DEF TypeBg
  <2>9. sent' \in [Clients -> [Servers -> Nat]]
    BY <2>1 DEF TypeBg
  <2>. QED
    BY <2>5, <2>6, <2>7, <2>8, <2>9
<1>. QED
  BY <1>1, <1>2

LEMMA BgClockType ==
  ASSUME TypeOK, NEW t \in Threads, BgClock(t) \/ BgSendOpLog(t)
  PROVE  TypeOK'
<1> USE DEF TypeOK
<1> DEFINE c == ClientOf[t]
<1>1. c \in Clients
  BY SSPAssumption
<1>2. \/ HandleClockMsg(c, TRUE, bgClock[c] + 1, acked[c], pend[c].on)
      \/ HandleClockMsg(c, FALSE, bgClock[c], acked[c], pend[c].on)
  BY DEF BgClock, BgSendOpLog
<1>3. bgClock[c] \in Nat /\ bgClock[c] + 1 \in Nat /\ pend[c].on \in BOOLEAN
  BY <1>1 DEF TypeBg
<1>4. /\ oplog' \in [Clients -> Logs] /\ index' \in [Clients -> SUBSET Rows]
      /\ version' \in [Clients -> Nat]
      /\ pend' \in [Clients -> [on : BOOLEAN, advanced : BOOLEAN]]
      /\ sent' \in [Clients -> [Servers -> Nat]]
      /\ mgr' \in [Clients -> Managers]
      /\ toServer' \in [Clients -> [Servers -> Seq(RowRequestMsgs \cup OpLogMsgs)]]
  BY <1>1, <1>2, <1>3, HandleClockMsgType
<1>5. /\ toBg[t] # << >> /\ toBg' = [toBg EXCEPT ![t] = Tail(@)]
      /\ UNCHANGED <<appVars, tick, storage, evicted, pinned, acked, serverVars,
                     toClient, histVars>>
  BY DEF BgClock, BgSendOpLog
<1>6. bgClock' \in [Clients -> Nat]
  BY <1>1, <1>3 DEF BgClock, BgSendOpLog, TypeBg
<1>7. TypeClient' /\ TypeBg'
  BY <1>4, <1>5, <1>6 DEF TypeClient, TypeBg
<1>8. TypeNet'
  <2>1. Tail(toBg[t]) \in Seq(RowRequestMsgs \cup ClockMsgs)
    BY <1>5, HeadToBg
  <2>. QED
    BY <1>4, <1>5, <2>1 DEF TypeNet
<1>. QED
  BY <1>5, <1>7, <1>8 DEF TypeApp, TypeServer, TypeHistory, appVars,
                          serverVars, histVars

LEMMA BgRowRequestType ==
  ASSUME TypeOK, NEW t \in Threads, BgRowRequest(t)
  PROVE  TypeOK'
<1> USE DEF TypeOK
<1> DEFINE c == ClientOf[t]
           m == Head(toBg[t])
<1>1. c \in Clients
  BY SSPAssumption
<1>2. /\ toBg[t] # << >> /\ m.type = "RowRequest"
      /\ toBg' = [toBg EXCEPT ![t] = Tail(@)]
      /\ UNCHANGED <<clock, dirty, want, got, clientVars, version, bgClock,
                     pend, sent, acked, serverVars, toClient, histVars>>
  BY DEF BgRowRequest
<1>3. /\ m \in RowRequestMsgs
      /\ Tail(toBg[t]) \in Seq(RowRequestMsgs \cup ClockMsgs)
  BY <1>2, HeadToBg DEF ClockMsgs
<1>4. m.row \in Rows /\ m.clock \in Clocks /\ version[c] - 1 \in Versions
  BY <1>1, <1>3 DEF RowRequestMsgs, TypeBg, Versions
<1>5. \/ /\ pc' = [pc EXCEPT ![t] = "woken"]
         /\ UNCHANGED <<mgr, toServer>>
      \/ /\ \E garbage \in BOOLEAN :
              mgr' = [mgr EXCEPT ![c] =
                        AddRowRequest(@, m.row, t, m.clock, version[c] - 1, garbage)]
         /\ \/ UNCHANGED toServer
            \/ toServer' = [toServer EXCEPT ![c][ServerOf[m.row]] = Append(@, m)]
         /\ UNCHANGED pc
  BY DEF BgRowRequest
<1> HIDE DEF c, m
<1>6. mgr' \in [Clients -> Managers]
  <2>1. mgr \in [Clients -> Managers]
    BY DEF TypeBg
  <2>2. ASSUME NEW garbage \in BOOLEAN
        PROVE  AddRowRequest(mgr[c], m.row, t, m.clock, version[c] - 1, garbage)
                 \in Managers
    BY <1>1, <1>4, <2>1, AddRowRequestType
  <2>. QED
    BY <1>5, <2>1, <2>2
<1>7. toServer' \in [Clients -> [Servers -> Seq(RowRequestMsgs \cup OpLogMsgs)]]
  <2> DEFINE s == ServerOf[m.row]
  <2>1. s \in Servers
    BY <1>4, SSPAssumption
  <2>2. Append(toServer[c][s], m) \in Seq(RowRequestMsgs \cup OpLogMsgs)
    BY <1>1, <1>3, <2>1, AppendProperties DEF TypeNet
  <2> HIDE DEF s
  <2>3. [toServer EXCEPT ![c][s] = Append(@, m)]
          \in [Clients -> [Servers -> Seq(RowRequestMsgs \cup OpLogMsgs)]]
    BY <1>1, <2>1, <2>2 DEF TypeNet
  <2>. QED
    BY <1>5, <2>3 DEF TypeNet, s
<1>8. TypeApp'
  BY <1>2, <1>5 DEF TypeApp
<1>9. TypeBg'
  BY <1>2, <1>6 DEF TypeBg
<1>10. TypeNet'
  BY <1>2, <1>3, <1>7 DEF TypeNet
<1>. QED
  BY <1>2, <1>8, <1>9, <1>10 DEF TypeClient, TypeServer, TypeHistory,
                                 clientVars, serverVars, histVars

(* The value of a row made up of the server's and the worker's parts.      *)
LEMMA AddendsType ==
  ASSUME TypeClient, TypeBg, NEW c \in Clients, NEW m \in RowReplyMsgs,
         ~Missing(c, m.version)
  PROVE  \A v \in DOMAIN Addends(c, m) : Addends(c, m)[v] \in SUBSET Updates
<1>1. /\ m.row \in Rows /\ m.version \in Versions /\ m.data \in SUBSET Updates
      /\ version[c] \in Nat
  BY DEF RowReplyMsgs, TypeBg
<1>2. SUFFICES ASSUME NEW v \in m.version .. version[c]
               PROVE  Addends(c, m)[v] \in SUBSET Updates
  BY DEF Addends
<1>3. CASE v = m.version
  BY <1>1, <1>3 DEF Addends
<1>4. CASE v # m.version /\ v = version[c]
  <2>1. oplog[c][m.row] \in SUBSET Updates
    BY <1>1 DEF TypeClient, Logs
  <2>. QED
    BY <1>1, <1>4, <2>1 DEF Addends
<1>5. CASE v # m.version /\ v # version[c]
  <2>1. v \in (m.version + 1) .. (version[c] - 1)
    BY <1>1, <1>2, <1>5 DEF Versions
  <2>2. HasOpLog(mgr[c], v)
    BY <2>1 DEF Missing
  <2>3. GetOpLog(mgr[c], v) \in Logs
    <3>1. mgr[c].kept \subseteq Retained
      BY DEF TypeBg, Managers
    <3>2. (CHOOSE k \in mgr[c].kept : k.version = v) \in mgr[c].kept
      BY <2>2 DEF HasOpLog
    <3>. QED
      BY <3>1, <3>2 DEF GetOpLog, Retained
  <2>4. Addends(c, m)[v] = GetOpLog(mgr[c], v)[m.row]
    BY <1>5 DEF Addends
  <2>. QED
    BY <1>1, <2>3, <2>4 DEF Logs
<1>. QED
  BY <1>3, <1>4, <1>5

LEMMA BgRowReplyType ==
  ASSUME TypeOK, NEW s \in Servers, NEW c \in Clients, BgRowReply(s, c)
  PROVE  TypeOK'
<1> USE DEF TypeOK
<1> DEFINE m     == Head(toClient[s][c])
           parts == Addends(c, m)
           next  == ClockToRequest(PopServed(mgr[c], m.row, m.clock, version[c]),
                                   m.row)
           sum   == UNION Range(parts)
<1>1. /\ toClient[s][c] # << >> /\ m.type = "RowReply"
      /\ toClient' = [toClient EXCEPT ![s][c] = Tail(@)]
      /\ UNCHANGED <<clock, dirty, want, got, tick, oplog, index, evicted, pinned,
                     version, bgClock, pend, sent, acked, serverVars, toBg,
                     made>>
  BY DEF BgRowReply, NewRow
<1>2. \/ UNCHANGED <<storage, mgr, pc, toServer, twice>>
      \/ /\ ~Missing(c, m.version)
         /\ storage' = [storage EXCEPT ![c][m.row] =
                          [clock |-> m.clock, data |-> sum]]
         /\ twice'   = twice \cup AddedTwice(parts)
         /\ mgr'     = [mgr EXCEPT ![c] =
                          InformReply(@, m.row, m.clock, version[c])]
         /\ pc'      = [t \in Threads |->
                          IF t \in ServedThreads(mgr[c], m.row, m.clock)
                          THEN "woken" ELSE pc[t]]
         /\ \/ UNCHANGED toServer
            \/ /\ next >= 0
               /\ toServer' = [toServer EXCEPT ![c][ServerOf[m.row]] =
                                 Append(@, RowRequestMsg(m.row, next))]
  BY DEF BgRowReply, NewRow
<1>3. /\ m \in RowReplyMsgs
      /\ Tail(toClient[s][c]) \in Seq(RowReplyMsgs \cup AckMsgs)
  BY <1>1, HeadToClient DEF AckMsgs
<1>4. m.row \in Rows /\ m.clock \in Nat /\ version[c] \in Nat /\ mgr[c] \in Managers
  BY <1>3 DEF RowReplyMsgs, TypeBg
<1>5. ~Missing(c, m.version) => sum \in SUBSET Updates
                             /\ AddedTwice(parts) \in SUBSET Updates
  <2>1. ASSUME ~Missing(c, m.version)
        PROVE  sum \in SUBSET Updates
    <3>1. \A v \in DOMAIN parts : parts[v] \in SUBSET Updates
      <4> HIDE DEF m
      <4>. QED
        BY <1>3, <2>1, AddendsType
    <3> HIDE DEF parts
    <3>. QED
      BY <3>1 DEF Range
  <2>2. AddedTwice(parts) \subseteq sum
    BY DEF AddedTwice
  <2>. QED
    BY <2>1, <2>2
<1> HIDE DEF m, parts, sum
<1>6. storage' \in [Clients -> [Rows -> CachedRows]]
  <2>1. ~Missing(c, m.version) => [clock |-> m.clock, data |-> sum] \in CachedRows
    BY <1>4, <1>5 DEF CachedRows, Versions
  <2>2. CASE UNCHANGED storage
    BY <2>2 DEF TypeClient
  <2>3. CASE /\ ~Missing(c, m.version)
             /\ storage' = [storage EXCEPT ![c][m.row] =
                              [clock |-> m.clock, data |-> sum]]
    <3> DEFINE row == [clock |-> m.clock, data |-> sum]
    <3>1. row \in CachedRows
      BY <2>1, <2>3
    <3>2. storage' = [storage EXCEPT ![c][m.row] = row]
      BY <2>3
    <3> HIDE DEF row
    <3>. QED
      BY <1>4, <3>1, <3>2 DEF TypeClient
  <2>. QED
    BY <1>2, <2>2, <2>3
<1>7. mgr' \in [Clients -> Managers]
  <2>1. InformReply(mgr[c], m.row, m.clock, version[c]) \in Managers
    BY <1>4, InformReplyType
  <2>. QED
    BY <1>2, <2>1 DEF TypeBg
<1>8. pc' \in [Threads -> {"run", "flushed", "waiting", "woken"}]
  BY <1>2 DEF TypeApp
<1>9. toServer' \in [Clients -> [Servers -> Seq(RowRequestMsgs \cup OpLogMsgs)]]
  <2>1. CASE /\ next >= 0
             /\ toServer' = [toServer EXCEPT ![c][ServerOf[m.row]] =
                               Append(@, RowRequestMsg(m.row, next))]
    <3>1. next \in Clocks
      <4>1. PopServed(mgr[c], m.row, m.clock, version[c]) \in Managers
        BY <1>4, PopServedType
      <4>2. next \in Clocks \cup {-1}
        BY <1>4, <4>1, ClockToRequestType
      <4>. QED
        BY <2>1, <4>2
    <3> HIDE DEF next
    <3>2. RowRequestMsg(m.row, next) \in RowRequestMsgs
      BY <1>4, <3>1, RowRequestMsgType
    <3>3. ServerOf[m.row] \in Servers
      BY <1>4, SSPAssumption
    <3>4. Append(toServer[c][ServerOf[m.row]], RowRequestMsg(m.row, next))
            \in Seq(RowRequestMsgs \cup OpLogMsgs)
      <4>1. toServer[c][ServerOf[m.row]] \in Seq(RowRequestMsgs \cup OpLogMsgs)
        BY <3>3 DEF TypeNet
      <4>. QED
        BY <3>2, <4>1, AppendProperties
    <3>. QED
      BY <2>1, <3>3, <3>4 DEF TypeNet
  <2>2. CASE UNCHANGED toServer
    BY <2>2 DEF TypeNet
  <2>. QED
    BY <1>2, <2>1, <2>2
<1>10. twice' \in SUBSET Updates
  BY <1>2, <1>5 DEF TypeHistory
<1>11. TypeApp' /\ TypeClient'
  BY <1>1, <1>6, <1>8 DEF TypeApp, TypeClient
<1>12. TypeBg' /\ TypeServer' /\ TypeHistory'
  BY <1>1, <1>7, <1>10 DEF TypeBg, TypeServer, TypeHistory, serverVars
<1>13. TypeNet'
  BY <1>1, <1>3, <1>9 DEF TypeNet
<1>. QED
  BY <1>11, <1>12, <1>13

LEMMA BgOpLogAckType ==
  ASSUME TypeOK, NEW s \in Servers, NEW c \in Clients, BgOpLogAck(s, c)
  PROVE  TypeOK'
<1> USE DEF TypeOK
<1> DEFINE m   == Head(toClient[s][c])
           ack == [acked[c] EXCEPT ![s] = m.seq]
<1>1. /\ toClient[s][c] # << >> /\ m.type = "OpLogAck"
      /\ toClient' = [toClient EXCEPT ![s][c] = Tail(@)]
      /\ UNCHANGED <<appVars, tick, storage, evicted, pinned, bgClock, serverVars,
                     toBg, made, twice>>
  BY DEF BgOpLogAck, AckInOrder
<1>2. /\ acked' = [acked EXCEPT ![c] = ack] \/ UNCHANGED acked
      /\ \/ HandleClockMsg(c, pend[c].advanced, bgClock[c], ack, FALSE)
         \/ UNCHANGED <<pend, oplog, index, version, sent, mgr, toServer>>
  BY DEF BgOpLogAck, AckInOrder
<1>3. /\ m.seq \in Nat
      /\ Tail(toClient[s][c]) \in Seq(RowReplyMsgs \cup AckMsgs)
  BY <1>1, HeadToClient DEF RowReplyMsgs, AckMsgs
<1>4. ack \in [Servers -> Nat] /\ bgClock[c] \in Nat /\ pend[c].advanced \in BOOLEAN
  BY <1>3 DEF TypeBg
<1> HIDE DEF m, ack
<1>5. acked' \in [Clients -> [Servers -> Nat]]
  BY <1>2, <1>4 DEF TypeBg
<1>6. /\ oplog' \in [Clients -> Logs] /\ index' \in [Clients -> SUBSET Rows]
      /\ version' \in [Clients -> Nat]
      /\ pend' \in [Clients -> [on : BOOLEAN, advanced : BOOLEAN]]
      /\ sent' \in [Clients -> [Servers -> Nat]]
      /\ mgr' \in [Clients -> Managers]
      /\ toServer' \in [Clients -> [Servers -> Seq(RowRequestMsgs \cup OpLogMsgs)]]
  <2>1. CASE HandleClockMsg(c, pend[c].advanced, bgClock[c], ack, FALSE)
    BY <1>4, <2>1, HandleClockMsgType
  <2>2. CASE UNCHANGED <<pend, oplog, index, version, sent, mgr, toServer>>
    BY <2>2 DEF TypeClient, TypeBg, TypeNet
  <2>. QED
    BY <1>2, <2>1, <2>2
<1>7. TypeClient' /\ TypeBg'
  BY <1>1, <1>5, <1>6 DEF TypeClient, TypeBg
<1>8. TypeNet'
  BY <1>1, <1>3, <1>6 DEF TypeNet
<1>. QED
  BY <1>1, <1>7, <1>8 DEF TypeApp, TypeServer, TypeHistory, appVars, serverVars

(* Servers.                                                                *)

LEMMA RowReplyMsgType ==
  ASSUME NEW r \in Rows, NEW clk \in Nat, NEW v \in Versions,
         NEW value \in SUBSET Updates
  PROVE  RowReplyMsg(r, clk, v, value) \in RowReplyMsgs
BY DEF RowReplyMsg, RowReplyMsgs

LEMMA ServerRowRequestType ==
  ASSUME TypeOK, NEW c \in Clients, NEW s \in Servers, ServerRowRequest(c, s)
  PROVE  TypeOK'
<1> USE DEF TypeOK
<1> DEFINE m     == Head(toServer[c][s])
           now   == MinClock(sClock[s])
           reply == RowReplyMsg(m.row, now, sVersion[s][c], data[m.row])
<1>1. /\ toServer[c][s] # << >> /\ m.type = "RowRequest"
      /\ toServer' = [toServer EXCEPT ![c][s] = Tail(@)]
      /\ \/ /\ queued' = [queued EXCEPT ![s][c][m.clock] = Append(@, m.row)]
            /\ UNCHANGED toClient
         \/ /\ toClient' = [toClient EXCEPT ![s][c] = Append(@, reply)]
            /\ UNCHANGED queued
      /\ UNCHANGED <<appVars, clientVars, bgVars, data, sClock, sVersion,
                     toBg, histVars>>
  BY DEF ServerRowRequest, Waiting
<1>2. /\ m \in RowRequestMsgs
      /\ Tail(toServer[c][s]) \in Seq(RowRequestMsgs \cup OpLogMsgs)
  BY <1>1, HeadToServer DEF OpLogMsgs
<1>3. m.row \in Rows /\ m.clock \in Clocks
  BY <1>2 DEF RowRequestMsgs
<1>4. reply \in RowReplyMsgs
  <2>1. now \in Nat
    BY MinClockType DEF TypeServer
  <2>2. sVersion[s][c] \in Versions /\ data[m.row] \in SUBSET Updates
    BY <1>3 DEF TypeServer, Logs
  <2>. QED
    BY <1>3, <2>1, <2>2, RowReplyMsgType
<1> HIDE DEF m, reply
<1>5. queued' \in [Servers -> [Clients -> [Clocks -> Seq(Rows)]]]
  <2>1. queued[s][c][m.clock] \in Seq(Rows)
    BY <1>3 DEF TypeServer
  <2>2. Append(queued[s][c][m.clock], m.row) \in Seq(Rows)
    BY <1>3, <2>1, AppendProperties
  <2>3. [queued EXCEPT ![s][c][m.clock] = Append(@, m.row)]
          \in [Servers -> [Clients -> [Clocks -> Seq(Rows)]]]
    BY <1>3, <2>2 DEF TypeServer
  <2>. QED
    BY <1>1, <2>3 DEF TypeServer
<1>6. toClient' \in [Servers -> [Clients -> Seq(RowReplyMsgs \cup AckMsgs)]]
  <2>1. Append(toClient[s][c], reply) \in Seq(RowReplyMsgs \cup AckMsgs)
    BY <1>4, AppendProperties DEF TypeNet
  <2>2. CASE UNCHANGED toClient
    BY <2>2 DEF TypeNet
  <2>3. CASE toClient' = [toClient EXCEPT ![s][c] = Append(@, reply)]
    BY <2>1, <2>3 DEF TypeNet
  <2>. QED
    BY <1>1, <2>2, <2>3
<1>7. TypeServer'
  BY <1>1, <1>5 DEF TypeServer
<1>8. TypeNet'
  BY <1>1, <1>2, <1>6 DEF TypeNet
<1>. QED
  BY <1>1, <1>7, <1>8 DEF TypeApp, TypeClient, TypeBg, TypeHistory, appVars,
                          clientVars, bgVars, histVars

LEMMA ServerOpLogType ==
  ASSUME TypeOK, NEW c \in Clients, NEW s \in Servers, ServerOpLog(c, s)
  PROVE  TypeOK'
<1> USE DEF TypeOK
<1> DEFINE m       == Head(toServer[c][s])
           clocks  == IF m.isClock
                      THEN [sClock[s] EXCEPT ![c] = Max({@, m.bgClock})]
                      ELSE sClock[s]
           now     == MinClock(clocks)
           changed == now # MinClock(sClock[s])
           rows    == [r \in Rows |-> data[r] \cup m.log[r]]
           vers    == [sVersion[s] EXCEPT ![c] = m.version]
           Replies(d) ==
             IF changed
             THEN [i \in 1 .. Len(Fulfilled(s, d, now)) |->
                     LET r == Fulfilled(s, d, now)[i]
                     IN  RowReplyMsg(r, now, vers[d], rows[r])]
             ELSE << >>
           Ack(d) == IF d = c THEN << [type |-> "OpLogAck", version |-> m.version,
                                       seq |-> m.seq] >>
                     ELSE << >>
<1>1. /\ toServer[c][s] # << >> /\ m.type = "OpLog"
      /\ toServer' = [toServer EXCEPT ![c][s] = Tail(@)]
      /\ UNCHANGED <<appVars, clientVars, bgVars, toBg, made>>
  BY DEF ServerOpLog, Applied, ClockUntil
<1>2. \/ UNCHANGED <<data, sClock, sVersion, queued, toClient, twice>>
      \/ /\ data'     = rows
         /\ twice'    = twice \cup UNION { data[r] \cap m.log[r] : r \in Rows }
         /\ sVersion' = [sVersion EXCEPT ![s] = vers]
         /\ sClock'   = [sClock EXCEPT ![s] = clocks]
         /\ \/ UNCHANGED queued
            \/ queued' = [queued EXCEPT ![s] = [d \in Clients |->
                            [queued[s][d] EXCEPT ![now] = << >>]]]
         /\ toClient' = [toClient EXCEPT ![s] = [d \in Clients |->
                           toClient[s][d] \o Replies(d) \o Ack(d)]]
  BY DEF ServerOpLog, Applied, ClockUntil
<1>3. /\ m \in OpLogMsgs
      /\ Tail(toServer[c][s]) \in Seq(RowRequestMsgs \cup OpLogMsgs)
  BY <1>1, HeadToServer DEF RowRequestMsgs
<1>4. /\ m.bgClock \in Nat /\ m.version \in Nat /\ m.seq \in Nat
      /\ m.log \in Logs
  BY <1>3 DEF OpLogMsgs
<1>5. clocks \in [Clients -> Nat]
  <2>1. sClock[s] \in [Clients -> Nat]
    BY DEF TypeServer
  <2>2. Max({sClock[s][c], m.bgClock}) \in Nat
    BY <1>4, <2>1, MaxOfTwo
  <2>. QED
    BY <2>1, <2>2
<1>6. now \in Nat
  <2> HIDE DEF clocks
  <2>. QED
    BY <1>5, MinClockType
<1>7. rows \in Logs
  BY <1>4 DEF TypeServer, Logs
<1>8. vers \in [Clients -> Versions]
  BY <1>4 DEF TypeServer, Versions
<1> HIDE DEF m, clocks, now, changed, rows, vers
<1>9. ASSUME NEW d \in Clients
      PROVE  Fulfilled(s, d, now) \in Seq(Rows)
  BY DEF Fulfilled, TypeServer
<1>10. ASSUME NEW d \in Clients
       PROVE  Replies(d) \in Seq(RowReplyMsgs \cup AckMsgs)
  <2>1. ASSUME NEW i \in 1 .. Len(Fulfilled(s, d, now))
        PROVE  LET r == Fulfilled(s, d, now)[i]
               IN  RowReplyMsg(r, now, vers[d], rows[r]) \in RowReplyMsgs
    <3> DEFINE r == Fulfilled(s, d, now)[i]
    <3>1. r \in Rows
      BY <1>9, <2>1, ElementOfSeq
    <3> HIDE DEF r
    <3>2. rows[r] \in SUBSET Updates
      BY <1>7, <3>1 DEF Logs
    <3>3. RowReplyMsg(r, now, vers[d], rows[r]) \in RowReplyMsgs
      BY <1>6, <1>8, <3>1, <3>2, RowReplyMsgType
    <3>. QED
      BY <3>3 DEF r
  <2>2. Len(Fulfilled(s, d, now)) \in Nat
    BY <1>9, LenProperties
  <2>. QED
    BY <2>1, <2>2
<1>11. ASSUME NEW d \in Clients
       PROVE  Ack(d) \in Seq(RowReplyMsgs \cup AckMsgs)
  <2> DEFINE a == [type |-> "OpLogAck", version |-> m.version, seq |-> m.seq]
  <2>1. a \in AckMsgs
    BY <1>4 DEF AckMsgs
  <2>2. Ack(d) = IF d = c THEN << a >> ELSE << >>
    OBVIOUS
  <2> HIDE DEF a, Ack
  <2>3. << a >> \in Seq(RowReplyMsgs \cup AckMsgs)
    BY <2>1
  <2>4. << >> \in Seq(RowReplyMsgs \cup AckMsgs)
    OBVIOUS
  <2>5. CASE d = c
    BY <2>2, <2>3, <2>5, Zenon
  <2>6. CASE d # c
    BY <2>2, <2>4, <2>6, Zenon
  <2>. QED
    BY <2>5, <2>6
<1> HIDE DEF Replies, Ack
<1>12. toClient' \in [Servers -> [Clients -> Seq(RowReplyMsgs \cup AckMsgs)]]
  <2>1. ASSUME NEW d \in Clients
        PROVE  toClient[s][d] \o Replies(d) \o Ack(d)
                 \in Seq(RowReplyMsgs \cup AckMsgs)
    <3>1. toClient[s][d] \in Seq(RowReplyMsgs \cup AckMsgs)
      BY DEF TypeNet
    <3>2. toClient[s][d] \o Replies(d) \in Seq(RowReplyMsgs \cup AckMsgs)
      BY <1>10, <3>1, ConcatProperties
    <3>. QED
      BY <1>11, <3>2, ConcatProperties
  <2> DEFINE out == [d \in Clients |-> toClient[s][d] \o Replies(d) \o Ack(d)]
  <2>2. out \in [Clients -> Seq(RowReplyMsgs \cup AckMsgs)]
    BY <2>1
  <2>3. UNCHANGED toClient \/ toClient' = [toClient EXCEPT ![s] = out]
    BY <1>2
  <2> HIDE DEF out
  <2>. QED
    BY <2>2, <2>3 DEF TypeNet
<1>13. queued' \in [Servers -> [Clients -> [Clocks -> Seq(Rows)]]]
  <2> DEFINE left == [d \in Clients |-> [queued[s][d] EXCEPT ![now] = << >>]]
  <2>1. left \in [Clients -> [Clocks -> Seq(Rows)]]
    <3>1. ASSUME NEW d \in Clients
          PROVE  [queued[s][d] EXCEPT ![now] = << >>] \in [Clocks -> Seq(Rows)]
      <4>1. queued[s][d] \in [Clocks -> Seq(Rows)] /\ << >> \in Seq(Rows)
        BY DEF TypeServer
      <4>. QED
        BY <4>1
    <3>. QED
      BY <3>1
  <2>2. UNCHANGED queued \/ queued' = [queued EXCEPT ![s] = left]
    BY <1>2
  <2> HIDE DEF left
  <2>. QED
    BY <2>1, <2>2 DEF TypeServer
<1>14. TypeServer'
  BY <1>2, <1>5, <1>7, <1>8, <1>13 DEF TypeServer
<1>15. TypeHistory'
  <2>1. UNION { data[r] \cap m.log[r] : r \in Rows } \in SUBSET Updates
    BY DEF TypeServer, Logs
  <2>. QED
    BY <1>1, <1>2, <2>1 DEF TypeHistory
<1>16. TypeNet'
  BY <1>1, <1>3, <1>12 DEF TypeNet
<1>. QED
  BY <1>1, <1>14, <1>15, <1>16 DEF TypeApp, TypeClient, TypeBg, appVars,
                                   clientVars, bgVars

(* Every step keeps the types.                                             *)
LEMMA StepType == TypeOK /\ Step => TypeOK'
<1>1. SUFFICES ASSUME TypeOK, Step PROVE TypeOK'
  OBVIOUS
<1>2. ASSUME NEW t \in Threads, NEW r \in Rows, Inc(t, r)
      PROVE  TypeOK'
  BY <1>1, <1>2, IncType
<1>3. ASSUME NEW t \in Threads, NEW r \in Rows, GetCached(t, r) \/ GetFetch(t, r)
      PROVE  TypeOK'
  BY <1>1, <1>3, GetCachedType, GetFetchType
<1>4. ASSUME NEW t \in Threads, GetResume(t) \/ ClockFlush(t) \/ ClockTick(t)
      PROVE  TypeOK'
  BY <1>1, <1>4, GetResumeType, ClockFlushType, ClockTickType
<1>5. ASSUME NEW t \in Threads, BgClock(t) \/ BgSendOpLog(t) \/ BgRowRequest(t)
      PROVE  TypeOK'
  BY <1>1, <1>5, BgClockType, BgRowRequestType
<1>6. ASSUME NEW c \in Clients, NEW r \in Rows, Evict(c, r)
      PROVE  TypeOK'
  BY <1>1, <1>6, EvictType
<1>7. ASSUME NEW c \in Clients, NEW s \in Servers,
             BgRowReply(s, c) \/ BgOpLogAck(s, c)
      PROVE  TypeOK'
  BY <1>1, <1>7, BgRowReplyType, BgOpLogAckType
<1>8. ASSUME NEW c \in Clients, NEW s \in Servers,
             ServerRowRequest(c, s) \/ ServerOpLog(c, s)
      PROVE  TypeOK'
  BY <1>1, <1>8, ServerRowRequestType, ServerOpLogType
<1>9. Writers \subseteq Threads /\ Readers \subseteq Threads
  BY SSPAssumption
<1>. QED
  BY <1>1, <1>2, <1>3, <1>4, <1>5, <1>6, <1>7, <1>8, <1>9 DEF Step

LEMMA StutterType == TypeOK /\ UNCHANGED vars => TypeOK'
BY DEF TypeOK, TypeApp, TypeClient, TypeBg, TypeServer, TypeNet, TypeHistory,
       vars, appVars, clientVars, bgVars, serverVars, netVars, histVars

(* Types: whatever the numbers of clients, threads, servers and rows, each *)
(* variable and each channel of the system holds only values of its type;  *)
(* in particular a thread asks for a row at most four times in one Get().  *)
THEOREM TypeCorrect == Spec => []TypeOK
<1>1. TypeOK /\ [Next]_vars => TypeOK'
  BY StepType, StutterType DEF Next, Rest
<1>. QED
  BY InitType, <1>1, PTL DEF Spec

-----------------------------------------------------------------------------
(* No update is lost: an update leaves an oplog only into a batch, the     *)
(* batch's message for the server of the row carries it, and that server   *)
(* adds it.                                                                *)

(* The updates of row r that the messages of a channel carry.              *)

Carried(q, r) ==
  UNION { m.log[r] : m \in { x \in Range(q) : x.type = "OpLog" } }

LoadOf(m, r) == IF m.type = "OpLog" THEN m.log[r] ELSE {}

LEMMA CarriedBySome ==
  ASSUME NEW S, NEW q \in Seq(S), NEW r, NEW u
  PROVE  u \in Carried(q, r) <=> \E i \in 1 .. Len(q) : u \in LoadOf(q[i], r)
<1>1. DOMAIN q = 1 .. Len(q)
  OBVIOUS
<1>. QED
  BY <1>1 DEF Carried, LoadOf, Range

LEMMA CarriedAppend ==
  ASSUME NEW S, NEW q \in Seq(S), NEW m \in S, NEW r
  PROVE  Carried(Append(q, m), r) = Carried(q, r) \cup LoadOf(m, r)
<1> DEFINE p == Append(q, m)
<1>1. /\ p \in Seq(S) /\ Len(q) \in Nat /\ Len(p) = Len(q) + 1
      /\ \A i \in 1 .. Len(q) : p[i] = q[i]
      /\ p[Len(q) + 1] = m
  BY AppendProperties
<1> HIDE DEF p
<1>2. ASSUME NEW u
      PROVE  u \in Carried(p, r) <=> u \in Carried(q, r) \cup LoadOf(m, r)
  <2>1. u \in Carried(p, r) <=> \E i \in 1 .. Len(p) : u \in LoadOf(p[i], r)
    BY <1>1, CarriedBySome
  <2>2. u \in Carried(q, r) <=> \E i \in 1 .. Len(q) : u \in LoadOf(q[i], r)
    BY CarriedBySome
  <2>3. 1 .. Len(p) = (1 .. Len(q)) \cup {Len(q) + 1}
    BY <1>1
  <2>. QED
    BY <1>1, <2>1, <2>2, <2>3
<1>. QED
  BY <1>2 DEF p

LEMMA CarriedTail ==
  ASSUME NEW S, NEW q \in Seq(S), q # << >>, NEW r
  PROVE  Carried(q, r) = LoadOf(Head(q), r) \cup Carried(Tail(q), r)
<1> DEFINE p == Tail(q)
<1>1. /\ p \in Seq(S) /\ Len(q) \in Nat \ {0} /\ Len(p) = Len(q) - 1
      /\ \A i \in 1 .. Len(p) : p[i] = q[i + 1]
      /\ Head(q) = q[1]
  BY HeadTailProperties
<1> HIDE DEF p
<1>2. ASSUME NEW u
      PROVE  u \in Carried(q, r) <=> u \in LoadOf(Head(q), r) \cup Carried(p, r)
  <2>1. u \in Carried(p, r) <=> \E i \in 1 .. Len(p) : u \in LoadOf(p[i], r)
    BY <1>1, CarriedBySome
  <2>2. u \in Carried(q, r) <=> \E i \in 1 .. Len(q) : u \in LoadOf(q[i], r)
    BY CarriedBySome
  <2>3. ASSUME NEW i \in 1 .. Len(q), u \in LoadOf(q[i], r)
        PROVE  u \in LoadOf(Head(q), r) \cup Carried(p, r)
    <3>1. CASE i = 1
      BY <1>1, <2>3, <3>1
    <3>2. CASE i # 1
      <4>1. i - 1 \in 1 .. Len(p) /\ (i - 1) + 1 = i
        BY <1>1, <3>2
      <4>2. u \in LoadOf(p[i - 1], r)
        BY <1>1, <2>3, <4>1
      <4>. QED
        BY <2>1, <4>1, <4>2
    <3>. QED
      BY <3>1, <3>2
  <2>4. ASSUME NEW i \in 1 .. Len(p), u \in LoadOf(p[i], r)
        PROVE  u \in Carried(q, r)
    <3>1. i + 1 \in 1 .. Len(q) /\ u \in LoadOf(q[i + 1], r)
      BY <1>1, <2>4
    <3>. QED
      BY <2>2, <3>1
  <2>5. 1 \in 1 .. Len(q)
    BY <1>1
  <2>. QED
    BY <1>1, <2>1, <2>2, <2>3, <2>4, <2>5
<1>. QED
  BY <1>2 DEF p

-----------------------------------------------------------------------------
(* The inductive invariant: NoUpdateLost, and that a message to a server   *)
(* carries updates of that server's rows only, so applying it to all rows  *)
(* changes no others.                                                      *)

OwnRowsOnly(m, s) ==
  m.type = "OpLog" => \A r \in Rows : ServerOf[r] # s => m.log[r] = {}

RightServer ==
  \A c \in Clients, s \in Servers :
    \A i \in 1 .. Len(toServer[c][s]) : OwnRowsOnly(toServer[c][s][i], s)

(* What client c has still to bring to row r's server.                     *)
Owed(c, r) == oplog[c][r] \cup Carried(toServer[c][ServerOf[r]], r)

UpdatesInv == TypeOK /\ RightServer /\ NoUpdateLost

LEMMA OwedIsInFlight ==
  NoUpdateLost <=>
    (Running => \A r \in Rows : made[r] = data[r] \cup UNION { Owed(c, r) : c \in Clients })
BY DEF NoUpdateLost, Owed, InFlight, Carried

LEMMA OwedIsInFlightNext ==
  NoUpdateLost' <=>
    (Running' => \A r \in Rows :
       made'[r] = data'[r] \cup UNION { Owed(c, r)' : c \in Clients })
BY DEF NoUpdateLost, Owed, InFlight, Carried

(* A step that makes no update and moves none.                             *)
LEMMA NothingMoved ==
  ASSUME NoUpdateLost, Running, UNCHANGED <<made, data>>,
         \A c \in Clients, r \in Rows : Owed(c, r)' = Owed(c, r)
  PROVE  NoUpdateLost'
<1>1. \A r \in Rows : { Owed(c, r)' : c \in Clients } = { Owed(c, r) : c \in Clients }
  OBVIOUS
<1>. QED
  BY <1>1, OwedIsInFlight, OwedIsInFlightNext

(* Messages of a channel that grows or shrinks at its ends.                *)
LEMMA RightServerAppend ==
  ASSUME NEW S, NEW q \in Seq(S), NEW m \in S, NEW s,
         \A i \in 1 .. Len(q) : OwnRowsOnly(q[i], s), OwnRowsOnly(m, s)
  PROVE  \A i \in 1 .. Len(Append(q, m)) : OwnRowsOnly(Append(q, m)[i], s)
<1> DEFINE p == Append(q, m)
<1>1. /\ Len(q) \in Nat /\ Len(p) = Len(q) + 1
      /\ \A i \in 1 .. Len(q) : p[i] = q[i]
      /\ p[Len(q) + 1] = m
  BY AppendProperties
<1> HIDE DEF p
<1>2. 1 .. Len(p) = (1 .. Len(q)) \cup {Len(q) + 1}
  BY <1>1
<1>3. \A i \in 1 .. Len(p) : OwnRowsOnly(p[i], s)
  BY <1>1, <1>2
<1>. QED
  BY <1>3 DEF p

LEMMA RightServerTail ==
  ASSUME NEW S, NEW q \in Seq(S), q # << >>, NEW s,
         \A i \in 1 .. Len(q) : OwnRowsOnly(q[i], s)
  PROVE  /\ OwnRowsOnly(Head(q), s)
         /\ \A i \in 1 .. Len(Tail(q)) : OwnRowsOnly(Tail(q)[i], s)
<1> DEFINE p == Tail(q)
<1>1. /\ Len(q) \in Nat \ {0} /\ Len(p) = Len(q) - 1
      /\ \A i \in 1 .. Len(p) : p[i] = q[i + 1]
      /\ Head(q) = q[1]
  BY HeadTailProperties
<1> HIDE DEF p
<1>2. \A i \in 1 .. Len(p) : i + 1 \in 1 .. Len(q)
  BY <1>1
<1>3. 1 \in 1 .. Len(q)
  BY <1>1
<1>4. \A i \in 1 .. Len(p) : OwnRowsOnly(p[i], s)
  BY <1>1, <1>2
<1>. QED
  BY <1>1, <1>3, <1>4 DEF p
-----------------------------------------------------------------------------
(* Initially nothing has been made.                                        *)
LEMMA InitUpdates == Init => RightServer /\ NoUpdateLost
<1>1. SUFFICES ASSUME Init PROVE RightServer /\ NoUpdateLost
  OBVIOUS
<1>2. \A c \in Clients, s \in Servers : toServer[c][s] = << >>
  BY <1>1 DEF Init
<1>3. RightServer
  BY <1>2 DEF RightServer
<1>4. \A c \in Clients, r \in Rows : Owed(c, r) = {}
  <2>1. \A r : Carried(<< >>, r) = {}
    BY DEF Carried, Range
  <2>2. \A r \in Rows : ServerOf[r] \in Servers
    BY SSPAssumption
  <2>. QED
    BY <1>1, <1>2, <2>1, <2>2 DEF Owed, Init
<1>5. \A r \in Rows : made[r] = {} /\ data[r] = {}
  BY <1>1 DEF Init
<1>. QED
  BY <1>3, <1>4, <1>5, OwedIsInFlight

(* Steps that touch neither updates nor the channels to the servers.       *)
LEMMA QuietUpdates ==
  ASSUME UpdatesInv, Running, UNCHANGED <<made, data, oplog, toServer>>
  PROVE  RightServer' /\ NoUpdateLost'
<1>1. RightServer'
  BY DEF UpdatesInv, RightServer
<1>2. \A c \in Clients, r \in Rows : Owed(c, r)' = Owed(c, r)
  BY DEF Owed
<1>. QED
  BY <1>1, <1>2, NothingMoved DEF UpdatesInv

LEMMA IncUpdates ==
  ASSUME UpdatesInv, NEW t \in Threads, NEW r \in Rows, Inc(t, r)
  PROVE  RightServer' /\ NoUpdateLost'
<1>1. PICK n \in 1 .. MaxIncs :
        LET c == ClientOf[t]
            u == <<t, clock[t], n>>
        IN  /\ oplog' = [oplog EXCEPT ![c][r] = @ \cup {u}]
            /\ made' = [made EXCEPT ![r] = @ \cup {u}]
            /\ UNCHANGED <<serverVars, netVars, failed>>
  BY Zenon DEF Inc, FindInsertOpLog
<1> DEFINE c == ClientOf[t]
           u == <<t, clock[t], n>>
<1>2. /\ oplog' = [oplog EXCEPT ![c][r] = @ \cup {u}]
      /\ made' = [made EXCEPT ![r] = @ \cup {u}]
      /\ UNCHANGED <<data, toServer>>
      /\ Running
  BY <1>1 DEF serverVars, netVars, Inc, FindInsertOpLog
<1> HIDE DEF u, c
<1>3. c \in Clients
  BY SSPAssumption DEF c
<1>4. RightServer'
  BY <1>2 DEF UpdatesInv, RightServer
<1>5. \A d \in Clients, q \in Rows :
        Owed(d, q)' = IF d = c /\ q = r THEN Owed(d, q) \cup {u} ELSE Owed(d, q)
  BY <1>2, <1>3 DEF Owed, UpdatesInv, TypeOK, TypeClient, Logs
<1>6. \A q \in Rows : made'[q] = IF q = r THEN made[q] \cup {u} ELSE made[q]
  BY <1>2 DEF UpdatesInv, TypeOK, TypeHistory, Logs
<1>7. ASSUME NEW q \in Rows
      PROVE  made'[q] = data[q] \cup UNION { Owed(d, q)' : d \in Clients }
  <2>1. made[q] = data[q] \cup UNION { Owed(d, q) : d \in Clients }
    BY <1>2, OwedIsInFlight DEF UpdatesInv
  <2>2. CASE q = r
    <3>1. UNION { Owed(d, q)' : d \in Clients }
            = {u} \cup UNION { Owed(d, q) : d \in Clients }
      BY <1>3, <1>5, <2>2
    <3>. QED
      BY <1>6, <2>1, <2>2, <3>1
  <2>3. CASE q # r
    <3>1. { Owed(d, q)' : d \in Clients } = { Owed(d, q) : d \in Clients }
      BY <1>5, <2>3
    <3>. QED
      BY <1>6, <2>1, <2>3, <3>1
  <2>. QED
    BY <2>2, <2>3
<1>. QED
  BY <1>2, <1>4, <1>7, OwedIsInFlightNext

(* Sending a row request.                                                  *)
LEMMA RequestUpdates ==
  ASSUME UpdatesInv, Running, UNCHANGED <<made, data, oplog>>,
         NEW c \in Clients, NEW s \in Servers, NEW m \in RowRequestMsgs,
         toServer' = [toServer EXCEPT ![c][s] = Append(@, m)]
  PROVE  RightServer' /\ NoUpdateLost'
<1> DEFINE S == RowRequestMsgs \cup OpLogMsgs
<1>1. toServer[c][s] \in Seq(S) /\ m \in S /\ m.type = "RowRequest"
  BY DEF UpdatesInv, TypeOK, TypeNet, RowRequestMsgs
<1>2. \A d \in Clients, x \in Servers :
        toServer'[d][x] = IF d = c /\ x = s THEN Append(toServer[c][s], m)
                          ELSE toServer[d][x]
  BY DEF UpdatesInv, TypeOK, TypeNet
<1>3. RightServer'
  <2>1. OwnRowsOnly(m, s)
    BY <1>1 DEF OwnRowsOnly
  <2>2. \A i \in 1 .. Len(toServer[c][s]) : OwnRowsOnly(toServer[c][s][i], s)
    BY DEF UpdatesInv, RightServer
  <2>3. \A i \in 1 .. Len(Append(toServer[c][s], m)) :
          OwnRowsOnly(Append(toServer[c][s], m)[i], s)
    <3> HIDE DEF S
    <3>. QED
      BY <1>1, <2>1, <2>2, RightServerAppend
  <2>4. ASSUME NEW d \in Clients, NEW x \in Servers
        PROVE  \A i \in 1 .. Len(toServer'[d][x]) : OwnRowsOnly(toServer'[d][x][i], x)
    BY <1>2, <2>3 DEF UpdatesInv, RightServer
  <2>. QED
    BY <2>4 DEF RightServer, OwnRowsOnly
<1>4. \A d \in Clients, r \in Rows : Owed(d, r)' = Owed(d, r)
  <2>1. ASSUME NEW r \in Rows
        PROVE  Carried(Append(toServer[c][s], m), r) = Carried(toServer[c][s], r)
    <3> DEFINE q == toServer[c][s]
    <3>1. LoadOf(m, r) = {}
      BY <1>1 DEF LoadOf
    <3> HIDE DEF S
    <3>2. q \in Seq(S) /\ m \in S
      BY <1>1
    <3> HIDE DEF q
    <3>3. Carried(Append(q, m), r) = Carried(q, r) \cup LoadOf(m, r)
      BY <3>2, CarriedAppend
    <3>. QED
      BY <3>1, <3>3 DEF q
  <2>2. \A r \in Rows : ServerOf[r] \in Servers
    BY SSPAssumption
  <2>. QED
    BY <1>2, <2>1, <2>2 DEF Owed
<1>. QED
  BY <1>3, <1>4, NothingMoved DEF UpdatesInv

(* Sending a batch: what leaves the oplog of a row is in the message for   *)
(* the row's server.                                                       *)
LEMMA BatchUpdates ==
  ASSUME UpdatesInv, Running, UNCHANGED <<made, data>>,
         NEW c \in Clients, NEW advanced \in BOOLEAN, NEW clk \in Nat,
         NEW ack, NEW on,
         HandleClockMsg(c, advanced, clk, ack, on)
  PROVE  RightServer' /\ NoUpdateLost'
<1>1. CASE ~CheckSendAll(c, ack)
  <2>1. UNCHANGED <<oplog, toServer>>
    BY <1>1 DEF HandleClockMsg, HeldBack, ResetPartition, IncGetSeq
  <2>. QED
    BY <2>1, QuietUpdates
<1>2. CASE CheckSendAll(c, ack)
  <2> DEFINE S    == RowRequestMsgs \cup OpLogMsgs
             q(s) == toServer[c][s]
             m(s) == OpLogMsg(c, s, advanced, clk)
  <2>1. /\ oplog' = [oplog EXCEPT ![c] = Remaining(c)]
        /\ toServer' = [toServer EXCEPT ![c] =
                          [s \in Servers |-> Append(toServer[c][s], m(s))]]
    BY <1>2 DEF HandleClockMsg, HeldBack, ResetPartition, IncGetSeq
  <2>2. \A s \in Servers : q(s) \in Seq(S)
    BY DEF UpdatesInv, TypeOK, TypeNet
  <2>3. Batch(c) \in Logs
    BY DEF UpdatesInv, TypeOK, TypeClient, Batch, Logs
  <2>4. \A s \in Servers : m(s) \in S
    BY <2>3, OpLogMsgType DEF UpdatesInv, TypeOK
  <2>5. \A s \in Servers : /\ m(s).type = "OpLog"
                           /\ m(s).log = [r \in Rows |-> IF ServerOf[r] = s
                                            THEN Batch(c)[r] ELSE {}]
    BY DEF OpLogMsg
  <2>6. \A d \in Clients, s \in Servers :
          toServer'[d][s] = IF d = c THEN Append(q(s), m(s)) ELSE toServer[d][s]
    BY <2>1 DEF UpdatesInv, TypeOK, TypeNet
  <2> HIDE DEF S, m
  <2>7. RightServer'
    <3>1. \A s \in Servers : OwnRowsOnly(m(s), s)
      BY <2>5 DEF OwnRowsOnly
    <3>2. ASSUME NEW s \in Servers
          PROVE  \A i \in 1 .. Len(Append(q(s), m(s))) :
                   OwnRowsOnly(Append(q(s), m(s))[i], s)
      <4>1. \A i \in 1 .. Len(q(s)) : OwnRowsOnly(q(s)[i], s)
        BY DEF UpdatesInv, RightServer
      <4> HIDE DEF q
      <4>. QED
        BY <2>2, <2>4, <3>1, <4>1, RightServerAppend
    <3>3. ASSUME NEW d \in Clients, NEW s \in Servers
          PROVE  \A i \in 1 .. Len(toServer'[d][s]) : OwnRowsOnly(toServer'[d][s][i], s)
      BY <2>6, <3>2 DEF UpdatesInv, RightServer
    <3>. QED
      BY <3>3 DEF RightServer, OwnRowsOnly
  <2>8. ASSUME NEW d \in Clients, NEW r \in Rows
        PROVE  Owed(d, r)' = Owed(d, r)
    <3> DEFINE s == ServerOf[r]
    <3>1. s \in Servers
      BY SSPAssumption
    <3> HIDE DEF s
    <3>2. CASE d # c
      BY <2>1, <2>6, <3>1, <3>2 DEF Owed, UpdatesInv, TypeOK, TypeClient, s
    <3>3. CASE d = c
      <4>1. Carried(Append(q(s), m(s)), r) = Carried(q(s), r) \cup Batch(c)[r]
        <5>1. LoadOf(m(s), r) = Batch(c)[r]
          BY <2>5, <3>1 DEF LoadOf, s
        <5> HIDE DEF q
        <5>. QED
          BY <2>2, <2>4, <3>1, <5>1, CarriedAppend
      <4>2. oplog'[c][r] = oplog[c][r] \ Batch(c)[r]
        BY <2>1 DEF UpdatesInv, TypeOK, TypeClient, Remaining
      <4>3. Batch(c)[r] \subseteq oplog[c][r]
        BY DEF Batch
      <4>4. Owed(c, r)' = oplog'[c][r] \cup Carried(toServer'[c][s], r)
        BY DEF Owed, Carried, s
      <4>5. Owed(c, r) = oplog[c][r] \cup Carried(q(s), r)
        BY DEF Owed, s
      <4>6. toServer'[c][s] = Append(q(s), m(s))
        BY <2>6, <3>1
      <4>. QED
        BY <3>3, <4>1, <4>2, <4>3, <4>4, <4>5, <4>6
    <3>. QED
      BY <3>2, <3>3
  <2>. QED
    BY <2>7, <2>8, NothingMoved DEF UpdatesInv
<1>. QED
  BY <1>1, <1>2

LEMMA BgClockUpdates ==
  ASSUME UpdatesInv, NEW t \in Threads, BgClock(t) \/ BgSendOpLog(t)
  PROVE  RightServer' /\ NoUpdateLost'
<1> DEFINE c == ClientOf[t]
<1>1. c \in Clients /\ bgClock[c] \in Nat /\ pend[c].on \in BOOLEAN
  BY SSPAssumption DEF UpdatesInv, TypeOK, TypeBg
<1>2. Running /\ UNCHANGED <<made, data>>
  BY DEF BgClock, BgSendOpLog, serverVars, histVars
<1>3. \/ HandleClockMsg(c, TRUE, bgClock[c] + 1, acked[c], pend[c].on)
      \/ HandleClockMsg(c, FALSE, bgClock[c], acked[c], pend[c].on)
  BY DEF BgClock, BgSendOpLog
<1> HIDE DEF c
<1>4. CASE HandleClockMsg(c, TRUE, bgClock[c] + 1, acked[c], pend[c].on)
  <2>1. bgClock[c] + 1 \in Nat
    BY <1>1
  <2>. QED
    BY <1>1, <1>2, <1>4, <2>1, BatchUpdates
<1>5. CASE HandleClockMsg(c, FALSE, bgClock[c], acked[c], pend[c].on)
  BY <1>1, <1>2, <1>5, BatchUpdates
<1>. QED
  BY <1>3, <1>4, <1>5

LEMMA BgOpLogAckUpdates ==
  ASSUME UpdatesInv, NEW s \in Servers, NEW c \in Clients, BgOpLogAck(s, c)
  PROVE  RightServer' /\ NoUpdateLost'
<1> DEFINE ack == [acked[c] EXCEPT ![s] = Head(toClient[s][c]).seq]
<1>1. bgClock[c] \in Nat /\ pend[c].advanced \in BOOLEAN
  BY DEF UpdatesInv, TypeOK, TypeBg
<1>2. Running /\ UNCHANGED <<made, data>>
  BY DEF BgOpLogAck, serverVars
<1>3. \/ HandleClockMsg(c, pend[c].advanced, bgClock[c], ack, FALSE)
      \/ UNCHANGED <<oplog, toServer>>
  BY DEF BgOpLogAck, AckInOrder
<1> HIDE DEF ack
<1>. QED
  BY <1>1, <1>2, <1>3, BatchUpdates, QuietUpdates

LEMMA BgRowRequestUpdates ==
  ASSUME UpdatesInv, NEW t \in Threads, BgRowRequest(t)
  PROVE  RightServer' /\ NoUpdateLost'
<1> DEFINE c == ClientOf[t]
           m == Head(toBg[t])
           s == ServerOf[m.row]
<1>1. /\ Running /\ toBg[t] # << >> /\ m.type = "RowRequest"
      /\ UNCHANGED <<made, data, oplog>>
  BY DEF BgRowRequest, clientVars, serverVars, histVars
<1>2. UNCHANGED toServer \/ toServer' = [toServer EXCEPT ![c][s] = Append(@, m)]
  BY DEF BgRowRequest
<1>3. m \in RowRequestMsgs
  BY <1>1, HeadToBg DEF UpdatesInv, TypeOK, ClockMsgs
<1>4. s \in Servers /\ c \in Clients
  BY <1>3, SSPAssumption DEF RowRequestMsgs
<1> HIDE DEF c, m, s
<1>. QED
  BY <1>1, <1>2, <1>3, <1>4, QuietUpdates, RequestUpdates

LEMMA BgRowReplyUpdates ==
  ASSUME UpdatesInv, NEW s \in Servers, NEW c \in Clients, BgRowReply(s, c)
  PROVE  RightServer' /\ NoUpdateLost'
<1> DEFINE m    == Head(toClient[s][c])
           next == ClockToRequest(PopServed(mgr[c], m.row, m.clock,
                                            version[c]), m.row)
           req  == RowRequestMsg(m.row, next)
           srv  == ServerOf[m.row]
<1>1. /\ Running /\ toClient[s][c] # << >> /\ m.type = "RowReply"
      /\ UNCHANGED <<made, data, oplog>>
  BY DEF BgRowReply, serverVars
<1>2. \/ UNCHANGED toServer
      \/ next >= 0 /\ toServer' = [toServer EXCEPT ![c][srv] = Append(@, req)]
  BY DEF BgRowReply, NewRow
<1>3. m \in RowReplyMsgs
  BY <1>1, HeadToClient DEF UpdatesInv, TypeOK, AckMsgs
<1>4. m.row \in Rows /\ m.clock \in Nat /\ mgr[c] \in Managers /\ version[c] \in Nat
  BY <1>3 DEF RowReplyMsgs, UpdatesInv, TypeOK, TypeBg
<1>5. srv \in Servers
  BY <1>4, SSPAssumption
<1>6. next \in Clocks \cup {-1}
  <2>1. PopServed(mgr[c], m.row, m.clock, version[c]) \in Managers
    BY <1>4, PopServedType
  <2>. QED
    BY <1>4, <2>1, ClockToRequestType
<1> HIDE DEF m, next, srv
<1>7. next >= 0 => req \in RowRequestMsgs
  BY <1>4, <1>6, RowRequestMsgType
<1> HIDE DEF req
<1>. QED
  BY <1>1, <1>2, <1>5, <1>7, QuietUpdates, RequestUpdates

LEMMA ServerRowRequestUpdates ==
  ASSUME UpdatesInv, NEW c \in Clients, NEW s \in Servers, ServerRowRequest(c, s)
  PROVE  RightServer' /\ NoUpdateLost'
<1> DEFINE S == RowRequestMsgs \cup OpLogMsgs
           q == toServer[c][s]
<1>1. /\ Running /\ q # << >> /\ Head(q).type = "RowRequest"
      /\ toServer' = [toServer EXCEPT ![c][s] = Tail(@)]
      /\ UNCHANGED <<made, data, oplog>>
  BY DEF ServerRowRequest, clientVars, histVars
<1>2. q \in Seq(S)
  BY DEF UpdatesInv, TypeOK, TypeNet
<1>3. \A d \in Clients, x \in Servers :
        toServer'[d][x] = IF d = c /\ x = s THEN Tail(q) ELSE toServer[d][x]
  BY <1>1 DEF UpdatesInv, TypeOK, TypeNet
<1>4. \A i \in 1 .. Len(q) : OwnRowsOnly(q[i], s)
  BY DEF UpdatesInv, RightServer
<1> HIDE DEF q, S
<1>5. RightServer'
  <2>1. \A i \in 1 .. Len(Tail(q)) : OwnRowsOnly(Tail(q)[i], s)
    BY <1>1, <1>2, <1>4, RightServerTail
  <2>2. ASSUME NEW d \in Clients, NEW x \in Servers
        PROVE  \A i \in 1 .. Len(toServer'[d][x]) : OwnRowsOnly(toServer'[d][x][i], x)
    BY <1>3, <2>1 DEF UpdatesInv, RightServer
  <2>. QED
    BY <2>2 DEF RightServer, OwnRowsOnly
<1>6. \A d \in Clients, r \in Rows : Owed(d, r)' = Owed(d, r)
  <2>1. ASSUME NEW r \in Rows
        PROVE  Carried(Tail(q), r) = Carried(q, r)
    <3>1. LoadOf(Head(q), r) = {}
      BY <1>1 DEF LoadOf
    <3>. QED
      BY <1>1, <1>2, <3>1, CarriedTail
  <2>2. \A r \in Rows : ServerOf[r] \in Servers
    BY SSPAssumption
  <2>. QED
    BY <1>1, <1>3, <2>1, <2>2 DEF Owed, q
<1>. QED
  BY <1>1, <1>5, <1>6, NothingMoved DEF UpdatesInv

(* Applying a batch: what leaves the channel has reached the rows.         *)
LEMMA ServerOpLogUpdates ==
  ASSUME UpdatesInv, NEW c \in Clients, NEW s \in Servers, ServerOpLog(c, s)
  PROVE  RightServer' /\ NoUpdateLost'
<1> DEFINE S == RowRequestMsgs \cup OpLogMsgs
           q == toServer[c][s]
           m == Head(q)
<1>1. /\ Running /\ q # << >> /\ m.type = "OpLog"
      /\ toServer' = [toServer EXCEPT ![c][s] = Tail(@)]
      /\ UNCHANGED <<made, oplog>>
  BY DEF ServerOpLog, clientVars
<1>2. ~Running' \/ data' = [r \in Rows |-> data[r] \cup m.log[r]]
  BY DEF ServerOpLog, Applied, ClockUntil, Running
<1>3. q \in Seq(S)
  BY DEF UpdatesInv, TypeOK, TypeNet
<1>4. \A d \in Clients, x \in Servers :
        toServer'[d][x] = IF d = c /\ x = s THEN Tail(q) ELSE toServer[d][x]
  BY <1>1 DEF UpdatesInv, TypeOK, TypeNet
<1>5. \A i \in 1 .. Len(q) : OwnRowsOnly(q[i], s)
  BY DEF UpdatesInv, RightServer
<1> HIDE DEF S
<1>6. OwnRowsOnly(m, s) /\ \A i \in 1 .. Len(Tail(q)) : OwnRowsOnly(Tail(q)[i], s)
  <2> HIDE DEF q
  <2>. QED
    BY <1>1, <1>3, <1>5, RightServerTail
<1>7. RightServer'
  <2>1. ASSUME NEW d \in Clients, NEW x \in Servers
        PROVE  \A i \in 1 .. Len(toServer'[d][x]) : OwnRowsOnly(toServer'[d][x][i], x)
    BY <1>4, <1>6 DEF UpdatesInv, RightServer
  <2>. QED
    BY <2>1 DEF RightServer, OwnRowsOnly
<1>8. ASSUME NEW r \in Rows, Running'
      PROVE  made'[r] = data'[r] \cup UNION { Owed(d, r)' : d \in Clients }
  <2>1. made[r] = data[r] \cup UNION { Owed(d, r) : d \in Clients }
    BY <1>1, OwedIsInFlight DEF UpdatesInv
  <2>2. data'[r] = data[r] \cup m.log[r]
    BY <1>2, <1>8
  <2>3. ServerOf[r] \in Servers
    BY SSPAssumption
  <2>4. CASE ServerOf[r] # s
    <3>1. m.log[r] = {}
      BY <1>1, <1>6, <2>4 DEF OwnRowsOnly
    <3>2. \A d \in Clients : Owed(d, r)' = Owed(d, r)
      BY <1>1, <1>4, <2>3, <2>4 DEF Owed
    <3>3. { Owed(d, r)' : d \in Clients } = { Owed(d, r) : d \in Clients }
      BY <3>2
    <3>. QED
      BY <1>1, <2>1, <2>2, <3>1, <3>3
  <2>5. CASE ServerOf[r] = s
    <3>1. Carried(q, r) = m.log[r] \cup Carried(Tail(q), r)
      <4>1. LoadOf(m, r) = m.log[r]
        BY <1>1 DEF LoadOf
      <4> HIDE DEF q
      <4>. QED
        BY <1>1, <1>3, <4>1, CarriedTail
    <3>2. \A d \in Clients \ {c} : Owed(d, r)' = Owed(d, r)
      BY <1>1, <1>4, <2>5 DEF Owed
    <3>3. Owed(c, r) = Owed(c, r)' \cup m.log[r]
      <4>1. Owed(c, r) = oplog[c][r] \cup Carried(q, r)
        BY <2>5 DEF Owed
      <4>2. toServer'[c][ServerOf[r]] = Tail(q)
        BY <1>4, <2>5
      <4>3. Owed(c, r)' = oplog[c][r] \cup Carried(Tail(q), r)
        BY <1>1, <4>2 DEF Owed
      <4>. QED
        BY <3>1, <4>1, <4>3
    <3>4. UNION { Owed(d, r) : d \in Clients }
            = m.log[r] \cup UNION { Owed(d, r)' : d \in Clients }
      <4> HIDE DEF m, q
      <4>. QED
        BY <3>2, <3>3
    <3>. QED
      BY <1>1, <2>1, <2>2, <3>4
  <2>. QED
    BY <2>4, <2>5
<1>. QED
  BY <1>7, <1>8, OwedIsInFlightNext
-----------------------------------------------------------------------------
(* Every step keeps the invariant.                                         *)
LEMMA StepUpdates == UpdatesInv /\ Step => RightServer' /\ NoUpdateLost'
<1>1. SUFFICES ASSUME UpdatesInv, Step PROVE RightServer' /\ NoUpdateLost'
  OBVIOUS
<1>2. ASSUME NEW t \in Threads, NEW r \in Rows, Inc(t, r)
      PROVE  RightServer' /\ NoUpdateLost'
  BY <1>1, <1>2, IncUpdates
<1>3. ASSUME NEW t \in Threads, NEW r \in Rows, GetCached(t, r) \/ GetFetch(t, r)
      PROVE  RightServer' /\ NoUpdateLost'
  <2>1. Running /\ UNCHANGED <<made, data, oplog, toServer>>
    BY <1>3 DEF GetCached, GetFetch, clientVars, serverVars, netVars, histVars
  <2>. QED
    BY <1>1, <2>1, QuietUpdates
<1>4. ASSUME NEW t \in Threads, GetResume(t) \/ ClockFlush(t) \/ ClockTick(t)
      PROVE  RightServer' /\ NoUpdateLost'
  <2>1. Running /\ UNCHANGED <<made, data, oplog, toServer>>
    BY <1>4 DEF GetResume, ClockFlush, ClockTick, clientVars, serverVars, netVars,
                histVars
  <2>. QED
    BY <1>1, <2>1, QuietUpdates
<1>5. ASSUME NEW t \in Threads, BgClock(t) \/ BgSendOpLog(t) \/ BgRowRequest(t)
      PROVE  RightServer' /\ NoUpdateLost'
  BY <1>1, <1>5, BgClockUpdates, BgRowRequestUpdates
<1>6. ASSUME NEW c \in Clients, NEW r \in Rows, Evict(c, r)
      PROVE  RightServer' /\ NoUpdateLost'
  <2>1. Running /\ UNCHANGED <<made, data, oplog, toServer>>
    BY <1>6 DEF Evict, serverVars, netVars, histVars
  <2>. QED
    BY <1>1, <2>1, QuietUpdates
<1>7. ASSUME NEW c \in Clients, NEW s \in Servers,
             BgRowReply(s, c) \/ BgOpLogAck(s, c)
      PROVE  RightServer' /\ NoUpdateLost'
  BY <1>1, <1>7, BgRowReplyUpdates, BgOpLogAckUpdates
<1>8. ASSUME NEW c \in Clients, NEW s \in Servers,
             ServerRowRequest(c, s) \/ ServerOpLog(c, s)
      PROVE  RightServer' /\ NoUpdateLost'
  BY <1>1, <1>8, ServerRowRequestUpdates, ServerOpLogUpdates
<1>9. Writers \subseteq Threads /\ Readers \subseteq Threads
  BY SSPAssumption
<1>. QED
  BY <1>1, <1>2, <1>3, <1>4, <1>5, <1>6, <1>7, <1>8, <1>9 DEF Step

LEMMA StutterUpdates ==
  UpdatesInv /\ UNCHANGED vars => RightServer' /\ NoUpdateLost'
<1>1. SUFFICES ASSUME UpdatesInv, UNCHANGED vars
               PROVE  RightServer' /\ NoUpdateLost'
  OBVIOUS
<1>2. UNCHANGED <<made, data, oplog, toServer, failed>>
  BY <1>1 DEF vars, clientVars, serverVars, netVars, histVars
<1>3. CASE Running
  BY <1>1, <1>2, <1>3, QuietUpdates
<1>4. CASE ~Running
  BY <1>1, <1>2, <1>4 DEF UpdatesInv, RightServer, NoUpdateLost, Running
<1>. QED
  BY <1>3, <1>4

(* No update is lost: at any time as long as no CHECK failed, each update  *)
(* an application made is in its process's oplog, in a batch on its way to *)
(* the server of its row, or in the row there.                             *)
THEOREM UpdatesNeverLost == Spec => []NoUpdateLost
<1>1. Init => UpdatesInv
  BY InitType, InitUpdates DEF UpdatesInv
<1>2. UpdatesInv /\ [Next]_vars => UpdatesInv'
  BY StepType, StutterType, StepUpdates, StutterUpdates DEF UpdatesInv, Next, Rest
<1>3. UpdatesInv => NoUpdateLost
  BY DEF UpdatesInv
<1>. QED
  BY <1>1, <1>2, <1>3, PTL DEF Spec
-----------------------------------------------------------------------------
(* Messages of one type whose versions run from lo + 1 to hi - 1, each     *)
(* once and in this order.                                                 *)
InOrder(q, type, lo, hi) ==
  /\ \A i \in 1 .. Len(q) :
       q[i].type = type => lo < q[i].version /\ q[i].version < hi
  /\ \A i, j \in 1 .. Len(q) :
       i < j /\ q[i].type = type /\ q[j].type = type => q[i].version < q[j].version
  /\ \A v \in lo + 1 .. hi - 1 :
       \E i \in 1 .. Len(q) : q[i].type = type /\ q[i].version = v

LEMMA InOrderAppend ==
  ASSUME NEW S, NEW q \in Seq(S), NEW m \in S, NEW type,
         \A x \in S : x.type = type => x.version \in Int,
         NEW lo \in Int, NEW hi \in Int, lo < hi, InOrder(q, type, lo, hi)
  PROVE  /\ m.type # type => InOrder(Append(q, m), type, lo, hi)
         /\ m.type = type /\ m.version = hi => InOrder(Append(q, m), type, lo, hi + 1)
<1> DEFINE p == Append(q, m)
           n == Len(q)
<1>1. /\ n \in Nat /\ Len(p) = n + 1
      /\ \A i \in 1 .. n : p[i] = q[i]
      /\ p[n + 1] = m
  BY AppendProperties
<1>2. \A i \in 1 .. n : q[i] \in S
  OBVIOUS
<1> HIDE DEF p, n
<1>3. \A i \in 1 .. Len(p) : i \in 1 .. n \/ i = n + 1
  BY <1>1
<1>4. \A i \in 1 .. n : i \in 1 .. Len(p)
  BY <1>1
<1>5. n + 1 \in 1 .. Len(p)
  BY <1>1
<1>6. ASSUME m.type # type
      PROVE  InOrder(p, type, lo, hi)
  <2>1. \A i \in 1 .. Len(p) : p[i].type = type => i \in 1 .. n /\ p[i] = q[i]
    BY <1>1, <1>3, <1>6
  <2>2. \A i \in 1 .. Len(p) : p[i].type = type => lo < p[i].version /\ p[i].version < hi
    BY <2>1 DEF InOrder, n
  <2>3. \A i, j \in 1 .. Len(p) :
          i < j /\ p[i].type = type /\ p[j].type = type => p[i].version < p[j].version
    BY <2>1 DEF InOrder, n
  <2>4. ASSUME NEW v \in lo + 1 .. hi - 1
        PROVE  \E i \in 1 .. Len(p) : p[i].type = type /\ p[i].version = v
    <3>1. PICK i \in 1 .. n : q[i].type = type /\ q[i].version = v
      BY DEF InOrder, n
    <3>. QED
      BY <1>1, <1>4, <3>1
  <2>. QED
    BY <2>2, <2>3, <2>4 DEF InOrder
<1>7. ASSUME m.type = type, m.version = hi
      PROVE  InOrder(p, type, lo, hi + 1)
  <2>1. \A i \in 1 .. n : q[i].type = type =>
          q[i].version \in Int /\ lo < q[i].version /\ q[i].version < hi
    BY <1>2 DEF InOrder, n
  <2>2. \A i \in 1 .. Len(p) : p[i].type = type => lo < p[i].version /\ p[i].version < hi + 1
    BY <1>1, <1>3, <1>7, <2>1
  <2>3. ASSUME NEW i \in 1 .. Len(p), NEW j \in 1 .. Len(p),
               i < j, p[i].type = type, p[j].type = type
        PROVE  p[i].version < p[j].version
    <3>1. i \in 1 .. n
      BY <1>1, <2>3
    <3>2. CASE j = n + 1
      BY <1>1, <1>7, <2>1, <2>3, <3>1, <3>2
    <3>3. CASE j \in 1 .. n
      BY <1>1, <2>3, <3>1, <3>3 DEF InOrder, n
    <3>. QED
      BY <1>3, <3>2, <3>3
  <2>4. ASSUME NEW v \in lo + 1 .. (hi + 1) - 1
        PROVE  \E i \in 1 .. Len(p) : p[i].type = type /\ p[i].version = v
    <3>1. CASE v = hi
      BY <1>1, <1>5, <1>7, <3>1
    <3>2. CASE v # hi
      <4>1. v \in lo + 1 .. hi - 1
        BY <3>2
      <4>2. PICK i \in 1 .. n : q[i].type = type /\ q[i].version = v
        BY <4>1 DEF InOrder, n
      <4>. QED
        BY <1>1, <1>4, <4>2
    <3>. QED
      BY <3>1, <3>2
  <2>. QED
    BY <2>2, <2>3, <2>4 DEF InOrder
<1>. QED
  BY <1>6, <1>7 DEF p

LEMMA InOrderTail ==
  ASSUME NEW S, NEW q \in Seq(S), q # << >>, NEW type,
         \A x \in S : x.type = type => x.version \in Int,
         NEW lo \in Int, NEW hi \in Int, InOrder(q, type, lo, hi)
  PROVE  /\ Head(q).type # type => InOrder(Tail(q), type, lo, hi)
         /\ Head(q).type = type =>
              /\ Head(q).version = lo + 1
              /\ lo + 1 < hi
              /\ InOrder(Tail(q), type, lo + 1, hi)
<1> DEFINE p == Tail(q)
           n == Len(q)
<1>1. /\ n \in Nat \ {0} /\ Len(p) = n - 1
      /\ \A i \in 1 .. Len(p) : p[i] = q[i + 1]
      /\ Head(q) = q[1]
  BY HeadTailProperties
<1>2. \A i \in 1 .. n : q[i] \in S
  OBVIOUS
<1> HIDE DEF p, n
<1>3. \A i \in 1 .. Len(p) : i + 1 \in 1 .. n /\ 1 < i + 1
  BY <1>1
<1>4. \A i \in 1 .. n : i # 1 => i - 1 \in 1 .. Len(p) /\ q[i] = p[i - 1]
  BY <1>1
<1>5. 1 \in 1 .. n
  BY <1>1
<1>6. \A i, j \in 1 .. Len(p) :
        i < j /\ p[i].type = type /\ p[j].type = type => p[i].version < p[j].version
  <2>1. SUFFICES ASSUME NEW i \in 1 .. Len(p), NEW j \in 1 .. Len(p),
                        i < j, p[i].type = type, p[j].type = type
                 PROVE  p[i].version < p[j].version
    OBVIOUS
  <2>2. i + 1 \in 1 .. n /\ j + 1 \in 1 .. n /\ i + 1 < j + 1
    BY <1>1, <2>1
  <2>3. q[i + 1].type = type /\ q[j + 1].type = type
    BY <1>1, <2>1
  <2>4. q[i + 1].version < q[j + 1].version
    BY <2>2, <2>3 DEF InOrder, n
  <2>. QED
    BY <1>1, <2>4
<1>7. ASSUME Head(q).type # type
      PROVE  InOrder(p, type, lo, hi)
  <2>1. \A i \in 1 .. Len(p) : p[i].type = type => lo < p[i].version /\ p[i].version < hi
    BY <1>1, <1>3 DEF InOrder, n
  <2>2. ASSUME NEW v \in lo + 1 .. hi - 1
        PROVE  \E i \in 1 .. Len(p) : p[i].type = type /\ p[i].version = v
    <3>1. PICK i \in 1 .. n : q[i].type = type /\ q[i].version = v
      BY DEF InOrder, n
    <3>. QED
      BY <1>1, <1>4, <1>7, <3>1
  <2>. QED
    BY <1>6, <2>1, <2>2 DEF InOrder
<1>8. ASSUME Head(q).type = type
      PROVE  /\ Head(q).version = lo + 1
             /\ lo + 1 < hi
             /\ InOrder(p, type, lo + 1, hi)
  <2>1. /\ q[1].type = type /\ q[1].version \in Int
        /\ lo < q[1].version /\ q[1].version < hi
    BY <1>1, <1>2, <1>5, <1>8 DEF InOrder, n
  <2>2. lo + 1 \in lo + 1 .. hi - 1
    BY <2>1
  <2>3. PICK i \in 1 .. n : q[i].type = type /\ q[i].version = lo + 1
    BY <2>2 DEF InOrder, n
  <2>4. i = 1
    <3>1. CASE 1 < i
      <4>1. q[1].version < lo + 1
        BY <1>5, <2>1, <2>3, <3>1 DEF InOrder, n
      <4>. QED
        BY <2>1, <4>1
    <3>. QED
      BY <1>1, <3>1
  <2>5. q[1].version = lo + 1 /\ lo + 1 < hi
    BY <2>1, <2>3, <2>4
  <2>6. \A j \in 1 .. Len(p) : p[j].type = type => lo + 1 < p[j].version /\ p[j].version < hi
    <3>1. SUFFICES ASSUME NEW j \in 1 .. Len(p), p[j].type = type
                   PROVE  lo + 1 < p[j].version /\ p[j].version < hi
      OBVIOUS
    <3>2. j + 1 \in 1 .. n /\ 1 < j + 1 /\ q[j + 1].type = type
      BY <1>1, <1>3, <3>1
    <3>3. q[1].version < q[j + 1].version /\ q[j + 1].version < hi
      BY <1>5, <2>1, <3>2 DEF InOrder, n
    <3>. QED
      BY <1>1, <2>5, <3>3
  <2>7. ASSUME NEW v \in (lo + 1) + 1 .. hi - 1
        PROVE  \E j \in 1 .. Len(p) : p[j].type = type /\ p[j].version = v
    <3>1. v \in lo + 1 .. hi - 1 /\ v # lo + 1
      OBVIOUS
    <3>2. PICK j \in 1 .. n : q[j].type = type /\ q[j].version = v
      BY <3>1 DEF InOrder, n
    <3>3. j # 1
      BY <2>5, <3>1, <3>2
    <3>. QED
      BY <1>4, <3>2, <3>3
  <2>. QED
    BY <1>1, <1>6, <2>5, <2>6, <2>7 DEF InOrder
<1>. QED
  BY <1>7, <1>8 DEF p

LEMMA InOrderConcat ==
  ASSUME NEW S, NEW q \in Seq(S), NEW e \in Seq(S), NEW type,
         \A i \in 1 .. Len(e) : e[i].type # type,
         NEW lo, NEW hi, InOrder(q, type, lo, hi)
  PROVE  InOrder(q \o e, type, lo, hi)
<1> DEFINE p == q \o e
           n == Len(q)
<1>1. /\ n \in Nat /\ Len(e) \in Nat /\ Len(p) = n + Len(e)
      /\ \A i \in 1 .. n + Len(e) : p[i] = IF i <= n THEN q[i] ELSE e[i - n]
  BY ConcatProperties
<1> HIDE DEF p, n
<1>2. \A i \in 1 .. Len(p) : i \notin 1 .. n => i - n \in 1 .. Len(e) /\ p[i] = e[i - n]
  BY <1>1
<1>3. \A i \in 1 .. n : i \in 1 .. Len(p) /\ p[i] = q[i]
  BY <1>1
<1>4. \A i \in 1 .. Len(p) : p[i].type = type => i \in 1 .. n /\ p[i] = q[i]
  BY <1>2, <1>3
<1>5. \A i \in 1 .. Len(p) : p[i].type = type => lo < p[i].version /\ p[i].version < hi
  BY <1>4 DEF InOrder, n
<1>6. \A i, j \in 1 .. Len(p) :
        i < j /\ p[i].type = type /\ p[j].type = type => p[i].version < p[j].version
  BY <1>4 DEF InOrder, n
<1>7. ASSUME NEW v \in lo + 1 .. hi - 1
      PROVE  \E i \in 1 .. Len(p) : p[i].type = type /\ p[i].version = v
  <2>1. PICK i \in 1 .. n : q[i].type = type /\ q[i].version = v
    BY DEF InOrder, n
  <2>. QED
    BY <1>3, <2>1
<1>. QED
  BY <1>5, <1>6, <1>7 DEF InOrder, p


-----------------------------------------------------------------------------
(* The messages of one type in a channel.                                  *)
OfType(q, type) == { x \in Range(q) : x.type = type }

LEMMA OfTypeBySome ==
  ASSUME NEW S, NEW q \in Seq(S), NEW type
  PROVE  OfType(q, type) = { q[i] : i \in { j \in 1 .. Len(q) : q[j].type = type } }
<1>1. DOMAIN q = 1 .. Len(q)
  OBVIOUS
<1>. QED
  BY <1>1 DEF OfType, Range

LEMMA OfTypeAppend ==
  ASSUME NEW S, NEW q \in Seq(S), NEW m \in S, NEW type
  PROVE  OfType(Append(q, m), type)
           = IF m.type = type THEN OfType(q, type) \cup {m} ELSE OfType(q, type)
<1> DEFINE p == Append(q, m)
<1>1. /\ p \in Seq(S) /\ Len(q) \in Nat /\ Len(p) = Len(q) + 1
      /\ \A i \in 1 .. Len(q) : p[i] = q[i]
      /\ p[Len(q) + 1] = m
  BY AppendProperties
<1> HIDE DEF p
<1>2. 1 .. Len(p) = (1 .. Len(q)) \cup {Len(q) + 1}
  BY <1>1
<1>3. /\ OfType(p, type) = { p[i] : i \in { j \in 1 .. Len(p) : p[j].type = type } }
      /\ OfType(q, type) = { q[i] : i \in { j \in 1 .. Len(q) : q[j].type = type } }
  BY <1>1, OfTypeBySome
<1>4. ASSUME NEW x
      PROVE  x \in OfType(p, type) <=> x \in OfType(q, type) \/ (x = m /\ m.type = type)
  BY <1>1, <1>2, <1>3
<1>. QED
  BY <1>4 DEF p

LEMMA OfTypeTail ==
  ASSUME NEW S, NEW q \in Seq(S), q # << >>, NEW type
  PROVE  OfType(q, type) = IF Head(q).type = type THEN OfType(Tail(q), type) \cup {Head(q)}
                           ELSE OfType(Tail(q), type)
<1> DEFINE p == Tail(q)
<1>1. /\ p \in Seq(S) /\ Len(q) \in Nat \ {0} /\ Len(p) = Len(q) - 1
      /\ \A i \in 1 .. Len(p) : p[i] = q[i + 1]
      /\ Head(q) = q[1]
  BY HeadTailProperties
<1> HIDE DEF p
<1>2. /\ \A i \in 1 .. Len(p) : i + 1 \in 1 .. Len(q)
      /\ \A i \in 1 .. Len(q) : i = 1 \/ (i - 1 \in 1 .. Len(p) /\ q[i] = p[i - 1])
      /\ 1 \in 1 .. Len(q)
  BY <1>1
<1>3. /\ OfType(p, type) = { p[i] : i \in { j \in 1 .. Len(p) : p[j].type = type } }
      /\ OfType(q, type) = { q[i] : i \in { j \in 1 .. Len(q) : q[j].type = type } }
  BY <1>1, OfTypeBySome
<1>4. ASSUME NEW x \in OfType(q, type)
      PROVE  x \in OfType(p, type) \/ (x = Head(q) /\ Head(q).type = type)
  BY <1>1, <1>2, <1>3
<1>5. ASSUME NEW x \in OfType(p, type)
      PROVE  x \in OfType(q, type)
  BY <1>1, <1>2, <1>3
<1>6. Head(q).type = type => Head(q) \in OfType(q, type)
  BY <1>1, <1>2, <1>3
<1>. QED
  BY <1>4, <1>5, <1>6 DEF p

(* The first of messages in order is not among the others.                 *)
LEMMA OfTypeTailInOrder ==
  ASSUME NEW S, NEW q \in Seq(S), q # << >>, NEW type,
         \A x \in S : x.type = type => x.version \in Int,
         NEW lo \in Int, NEW hi \in Int, InOrder(q, type, lo, hi),
         Head(q).type = type
  PROVE  /\ OfType(Tail(q), type) = OfType(q, type) \ {Head(q)}
         /\ \A x \in OfType(Tail(q), type) : Head(q).version < x.version
<1>1. InOrder(Tail(q), type, lo + 1, hi) /\ Head(q).version = lo + 1
  BY InOrderTail
<1>2. Tail(q) \in Seq(S)
  BY HeadTailProperties
<1>3. ASSUME NEW x \in OfType(Tail(q), type)
      PROVE  Head(q).version < x.version /\ x.version \in Int
  <2> DEFINE p == Tail(q)
  <2> HIDE DEF p
  <2>0. OfType(p, type) = { p[i] : i \in { j \in 1 .. Len(p) : p[j].type = type } }
    <3>1. p \in Seq(S)
      BY <1>2 DEF p
    <3>. QED
      BY <3>1, OfTypeBySome
  <2>1. PICK i \in 1 .. Len(p) : x = p[i] /\ p[i].type = type
    BY <1>3, <2>0 DEF p
  <2>2. lo + 1 < x.version
    BY <1>1, <2>1 DEF InOrder, p
  <2>3. x \in S
    BY <1>2, <2>1, ElementOfSeq DEF p
  <2>. QED
    BY <1>1, <2>1, <2>2, <2>3
<1>4. Head(q) \notin OfType(Tail(q), type)
  BY <1>1, <1>3
<1>. QED
  BY <1>3, <1>4, OfTypeTail

LEMMA OfTypeConcat ==
  ASSUME NEW S, NEW q \in Seq(S), NEW e \in Seq(S), NEW type
  PROVE  OfType(q \o e, type) = OfType(q, type) \cup OfType(e, type)
<1> DEFINE p == q \o e
           n == Len(q)
<1>1. /\ n \in Nat /\ Len(e) \in Nat /\ Len(p) = n + Len(e) /\ p \in Seq(S)
      /\ \A i \in 1 .. n + Len(e) : p[i] = IF i <= n THEN q[i] ELSE e[i - n]
  BY ConcatProperties
<1> HIDE DEF p
<1>2. /\ OfType(p, type) = { p[i] : i \in { j \in 1 .. Len(p) : p[j].type = type } }
      /\ OfType(q, type) = { q[i] : i \in { j \in 1 .. n : q[j].type = type } }
      /\ OfType(e, type) = { e[i] : i \in { j \in 1 .. Len(e) : e[j].type = type } }
  <2>1. OfType(p, type) = { p[i] : i \in { j \in 1 .. Len(p) : p[j].type = type } }
    <3>1. p \in Seq(S)
      BY <1>1
    <3>. QED
      BY <3>1, OfTypeBySome
  <2>2. OfType(q, type) = { q[i] : i \in { j \in 1 .. n : q[j].type = type } }
    BY OfTypeBySome
  <2>3. OfType(e, type) = { e[i] : i \in { j \in 1 .. Len(e) : e[j].type = type } }
    BY OfTypeBySome
  <2>. QED
    BY <2>1, <2>2, <2>3
<1> HIDE DEF n
<1>3. \A i \in 1 .. Len(p) : i \notin 1 .. n => i - n \in 1 .. Len(e) /\ p[i] = e[i - n]
  BY <1>1
<1>4. \A i \in 1 .. n : i \in 1 .. Len(p) /\ p[i] = q[i]
  BY <1>1
<1>5. \A i \in 1 .. Len(e) : n + i \in 1 .. Len(p) /\ p[n + i] = e[i]
  BY <1>1
<1>6. ASSUME NEW x
      PROVE  x \in OfType(p, type) <=> x \in OfType(q, type) \/ x \in OfType(e, type)
  <2>1. ASSUME NEW i \in 1 .. Len(p), p[i].type = type
        PROVE  p[i] \in OfType(q, type) \/ p[i] \in OfType(e, type)
    BY <1>2, <1>3, <1>4, <2>1
  <2>2. ASSUME NEW i \in 1 .. n, q[i].type = type
        PROVE  q[i] \in OfType(p, type)
    BY <1>2, <1>4, <2>2
  <2>3. ASSUME NEW i \in 1 .. Len(e), e[i].type = type
        PROVE  e[i] \in OfType(p, type)
    BY <1>2, <1>5, <2>3
  <2>. QED
    BY <1>2, <2>1, <2>2, <2>3
<1>. QED
  BY <1>6 DEF p

-----------------------------------------------------------------------------
(* What sending and taking a message does to the channels of this system.  *)
ToServerMsgs == RowRequestMsgs \cup OpLogMsgs
ToClientMsgs == RowReplyMsgs \cup AckMsgs

LEMMA ToServerMsgTypes ==
  \A x \in ToServerMsgs :
    /\ x.type = "OpLog" => x \in OpLogMsgs /\ x.version \in Int
    /\ x.type = "RowRequest" => x \in RowRequestMsgs
    /\ x.type \in {"OpLog", "RowRequest"}
BY DEF ToServerMsgs, RowRequestMsgs, OpLogMsgs

LEMMA ToClientMsgTypes ==
  \A x \in ToClientMsgs :
    /\ x.type = "OpLogAck" => x \in AckMsgs /\ x.version \in Int
    /\ x.type = "RowReply" => x \in RowReplyMsgs
    /\ x.type \in {"OpLogAck", "RowReply"}
BY DEF ToClientMsgs, RowReplyMsgs, AckMsgs

LEMMA AppendRequest ==
  ASSUME NEW q \in Seq(ToServerMsgs), NEW m \in RowRequestMsgs
  PROVE  /\ OfType(Append(q, m), "OpLog") = OfType(q, "OpLog")
         /\ OfType(Append(q, m), "RowRequest") = OfType(q, "RowRequest") \cup {m}
         /\ \A lo, hi \in Int : lo < hi /\ InOrder(q, "OpLog", lo, hi)
              => InOrder(Append(q, m), "OpLog", lo, hi)
<1>1. m \in ToServerMsgs /\ m.type = "RowRequest"
  BY DEF ToServerMsgs, RowRequestMsgs
<1>2. \A x \in ToServerMsgs : x.type = "OpLog" => x.version \in Int
  BY ToServerMsgTypes
<1>3. ASSUME NEW lo \in Int, NEW hi \in Int, lo < hi, InOrder(q, "OpLog", lo, hi)
      PROVE  InOrder(Append(q, m), "OpLog", lo, hi)
  BY <1>1, <1>2, <1>3, InOrderAppend
<1>4. /\ OfType(Append(q, m), "OpLog") = OfType(q, "OpLog")
      /\ OfType(Append(q, m), "RowRequest") = OfType(q, "RowRequest") \cup {m}
  BY <1>1, OfTypeAppend
<1>. QED
  BY <1>3, <1>4

LEMMA AppendOpLog ==
  ASSUME NEW q \in Seq(ToServerMsgs), NEW m \in OpLogMsgs
  PROVE  /\ OfType(Append(q, m), "OpLog") = OfType(q, "OpLog") \cup {m}
         /\ OfType(Append(q, m), "RowRequest") = OfType(q, "RowRequest")
         /\ \A lo \in Int : lo < m.version /\ InOrder(q, "OpLog", lo, m.version)
              => InOrder(Append(q, m), "OpLog", lo, m.version + 1)
<1>1. m \in ToServerMsgs /\ m.type = "OpLog" /\ m.version \in Int
  BY DEF ToServerMsgs, OpLogMsgs
<1>2. \A x \in ToServerMsgs : x.type = "OpLog" => x.version \in Int
  BY ToServerMsgTypes
<1>3. ASSUME NEW lo \in Int, lo < m.version, InOrder(q, "OpLog", lo, m.version)
      PROVE  InOrder(Append(q, m), "OpLog", lo, m.version + 1)
  <2> DEFINE hi == m.version
  <2>1. hi \in Int /\ lo < hi /\ InOrder(q, "OpLog", lo, hi) /\ m.version = hi
    BY <1>1, <1>3
  <2> HIDE DEF hi
  <2>. QED
    BY <1>1, <1>2, <2>1, InOrderAppend
<1>4. /\ OfType(Append(q, m), "OpLog") = OfType(q, "OpLog") \cup {m}
      /\ OfType(Append(q, m), "RowRequest") = OfType(q, "RowRequest")
  BY <1>1, OfTypeAppend
<1>. QED
  BY <1>3, <1>4

LEMMA TakeRequest ==
  ASSUME NEW q \in Seq(ToServerMsgs), q # << >>, Head(q).type = "RowRequest"
  PROVE  /\ OfType(Tail(q), "OpLog") = OfType(q, "OpLog")
         /\ OfType(Tail(q), "RowRequest") \subseteq OfType(q, "RowRequest")
         /\ Head(q) \in OfType(q, "RowRequest")
         /\ \A lo, hi \in Int : InOrder(q, "OpLog", lo, hi)
              => InOrder(Tail(q), "OpLog", lo, hi)
<1>1. \A x \in ToServerMsgs : x.type = "OpLog" => x.version \in Int
  BY ToServerMsgTypes
<1>2. ASSUME NEW lo \in Int, NEW hi \in Int, InOrder(q, "OpLog", lo, hi)
      PROVE  InOrder(Tail(q), "OpLog", lo, hi)
  BY <1>1, <1>2, InOrderTail
<1>3. /\ OfType(q, "OpLog") = OfType(Tail(q), "OpLog")
      /\ OfType(q, "RowRequest") = OfType(Tail(q), "RowRequest") \cup {Head(q)}
  BY OfTypeTail
<1>. QED
  BY <1>2, <1>3

LEMMA TakeOpLog ==
  ASSUME NEW q \in Seq(ToServerMsgs), q # << >>, Head(q).type = "OpLog",
         NEW lo \in Int, NEW hi \in Int, InOrder(q, "OpLog", lo, hi)
  PROVE  /\ Head(q).version = lo + 1 /\ lo + 1 < hi
         /\ InOrder(Tail(q), "OpLog", lo + 1, hi)
         /\ Head(q) \in OfType(q, "OpLog")
         /\ OfType(Tail(q), "OpLog") = OfType(q, "OpLog") \ {Head(q)}
         /\ OfType(Tail(q), "RowRequest") = OfType(q, "RowRequest")
<1>1. \A x \in ToServerMsgs : x.type = "OpLog" => x.version \in Int
  BY ToServerMsgTypes
<1>2. OfType(Tail(q), "OpLog") = OfType(q, "OpLog") \ {Head(q)}
  BY <1>1, OfTypeTailInOrder
<1>3. /\ Head(q).version = lo + 1 /\ lo + 1 < hi
      /\ InOrder(Tail(q), "OpLog", lo + 1, hi)
  BY <1>1, InOrderTail
<1>4. /\ OfType(q, "OpLog") = OfType(Tail(q), "OpLog") \cup {Head(q)}
      /\ OfType(q, "RowRequest") = OfType(Tail(q), "RowRequest")
  BY OfTypeTail
<1>. QED
  BY <1>2, <1>3, <1>4

LEMMA TakeReply ==
  ASSUME NEW q \in Seq(ToClientMsgs), q # << >>, Head(q).type = "RowReply"
  PROVE  /\ OfType(Tail(q), "OpLogAck") = OfType(q, "OpLogAck")
         /\ OfType(Tail(q), "RowReply") \subseteq OfType(q, "RowReply")
         /\ Head(q) \in OfType(q, "RowReply")
         /\ \A lo, hi \in Int : InOrder(q, "OpLogAck", lo, hi)
              => InOrder(Tail(q), "OpLogAck", lo, hi)
<1>1. \A x \in ToClientMsgs : x.type = "OpLogAck" => x.version \in Int
  BY ToClientMsgTypes
<1>2. ASSUME NEW lo \in Int, NEW hi \in Int, InOrder(q, "OpLogAck", lo, hi)
      PROVE  InOrder(Tail(q), "OpLogAck", lo, hi)
  BY <1>1, <1>2, InOrderTail
<1>3. /\ OfType(q, "OpLogAck") = OfType(Tail(q), "OpLogAck")
      /\ OfType(q, "RowReply") = OfType(Tail(q), "RowReply") \cup {Head(q)}
  BY OfTypeTail
<1>. QED
  BY <1>2, <1>3

LEMMA TakeAck ==
  ASSUME NEW q \in Seq(ToClientMsgs), q # << >>, Head(q).type = "OpLogAck",
         NEW lo \in Int, NEW hi \in Int, InOrder(q, "OpLogAck", lo, hi)
  PROVE  /\ Head(q).version = lo + 1 /\ lo + 1 < hi
         /\ InOrder(Tail(q), "OpLogAck", lo + 1, hi)
         /\ Head(q) \in OfType(q, "OpLogAck")
         /\ OfType(Tail(q), "OpLogAck") \subseteq OfType(q, "OpLogAck")
         /\ OfType(Tail(q), "RowReply") = OfType(q, "RowReply")
<1>1. \A x \in ToClientMsgs : x.type = "OpLogAck" => x.version \in Int
  BY ToClientMsgTypes
<1>2. /\ Head(q).version = lo + 1 /\ lo + 1 < hi
      /\ InOrder(Tail(q), "OpLogAck", lo + 1, hi)
  BY <1>1, InOrderTail
<1>3. /\ OfType(q, "OpLogAck") = OfType(Tail(q), "OpLogAck") \cup {Head(q)}
      /\ OfType(q, "RowReply") = OfType(Tail(q), "RowReply")
  BY OfTypeTail
<1>. QED
  BY <1>2, <1>3

(* Replies, then perhaps an acknowledgement, at the end of a channel.      *)
LEMMA ConcatReplies ==
  ASSUME NEW q \in Seq(ToClientMsgs), NEW e \in Seq(RowReplyMsgs)
  PROVE  /\ q \o e \in Seq(ToClientMsgs)
         /\ OfType(q \o e, "OpLogAck") = OfType(q, "OpLogAck")
         /\ OfType(q \o e, "RowReply") = OfType(q, "RowReply") \cup Range(e)
         /\ \A lo, hi : InOrder(q, "OpLogAck", lo, hi)
              => InOrder(q \o e, "OpLogAck", lo, hi)
<1>1. /\ e \in Seq(ToClientMsgs)
      /\ \A i \in 1 .. Len(e) : e[i] \in RowReplyMsgs
  <2>1. RowReplyMsgs \subseteq ToClientMsgs
    BY DEF ToClientMsgs
  <2>. QED
    BY <2>1, SeqMonotonic
<1>2. \A i \in 1 .. Len(e) : e[i].type = "RowReply"
  BY <1>1 DEF RowReplyMsgs
<1>3. ASSUME NEW lo, NEW hi, InOrder(q, "OpLogAck", lo, hi)
      PROVE  InOrder(q \o e, "OpLogAck", lo, hi)
  <2>1. \A i \in 1 .. Len(e) : e[i].type # "OpLogAck"
    BY <1>2
  <2>. QED
    BY <1>1, <1>3, <2>1, InOrderConcat
<1>4. DOMAIN e = 1 .. Len(e)
  OBVIOUS
<1>5. OfType(e, "OpLogAck") = {} /\ OfType(e, "RowReply") = Range(e)
  BY <1>2, <1>4 DEF OfType, Range
<1>6. /\ OfType(q \o e, "OpLogAck") = OfType(q, "OpLogAck") \cup OfType(e, "OpLogAck")
      /\ OfType(q \o e, "RowReply") = OfType(q, "RowReply") \cup OfType(e, "RowReply")
  BY <1>1, OfTypeConcat
<1>7. q \o e \in Seq(ToClientMsgs)
  BY <1>1, ConcatProperties
<1>. QED
  BY <1>3, <1>5, <1>6, <1>7

LEMMA AppendAck ==
  ASSUME NEW q \in Seq(ToClientMsgs), NEW m \in AckMsgs
  PROVE  /\ q \o << m >> = Append(q, m)
         /\ OfType(q \o << m >>, "OpLogAck") = OfType(q, "OpLogAck") \cup {m}
         /\ OfType(q \o << m >>, "RowReply") = OfType(q, "RowReply")
         /\ \A lo \in Int : lo < m.version /\ InOrder(q, "OpLogAck", lo, m.version)
              => InOrder(q \o << m >>, "OpLogAck", lo, m.version + 1)
<1>1. m \in ToClientMsgs /\ m.type = "OpLogAck" /\ m.version \in Int
  BY DEF ToClientMsgs, AckMsgs
<1>2. \A x \in ToClientMsgs : x.type = "OpLogAck" => x.version \in Int
  BY ToClientMsgTypes
<1>3. q \o << m >> = Append(q, m)
  BY <1>1, AppendIsConcat
<1>4. ASSUME NEW lo \in Int, lo < m.version, InOrder(q, "OpLogAck", lo, m.version)
      PROVE  InOrder(Append(q, m), "OpLogAck", lo, m.version + 1)
  <2> DEFINE hi == m.version
  <2>1. hi \in Int /\ lo < hi /\ InOrder(q, "OpLogAck", lo, hi) /\ m.version = hi
    BY <1>1, <1>4
  <2> HIDE DEF hi
  <2>. QED
    BY <1>1, <1>2, <2>1, InOrderAppend
<1>5. /\ OfType(Append(q, m), "OpLogAck") = OfType(q, "OpLogAck") \cup {m}
      /\ OfType(Append(q, m), "RowReply") = OfType(q, "RowReply")
  BY <1>1, OfTypeAppend
<1>. QED
  BY <1>3, <1>4, <1>5

-----------------------------------------------------------------------------
(* The channels: batches and acknowledgements in order.                    *)
OpLogsTo(c, s)   == OfType(toServer[c][s], "OpLog")
RequestsTo(c, s) == OfType(toServer[c][s], "RowRequest")
RepliesTo(s, c)  == OfType(toClient[s][c], "RowReply")
AcksTo(s, c)     == OfType(toClient[s][c], "OpLogAck")

(* The batches on their way are those after the one the server has         *)
(* applied, up to the worker's last; sequence numbers run with versions.   *)
ToServerInv ==
  \A c \in Clients, s \in Servers :
    /\ InOrder(toServer[c][s], "OpLog", sVersion[s][c], version[c])
    /\ sVersion[s][c] < version[c]
    /\ sent[c][s] = version[c]
    /\ \A m \in OpLogsTo(c, s) : m.seq = m.version + 1
    /\ \A m \in RequestsTo(c, s) : ServerOf[m.row] = s

(* The acknowledgements on their way are those after the last received, up *)
(* to the batch the server has applied.                                    *)
ToClientInv ==
  \A c \in Clients, s \in Servers :
    /\ InOrder(toClient[s][c], "OpLogAck", acked[c][s] - 1, sVersion[s][c] + 1)
    /\ acked[c][s] <= sVersion[s][c] + 1
    /\ \A m \in AcksTo(s, c) : m.seq = m.version + 1
    /\ \A m \in RepliesTo(s, c) : ServerOf[m.row] = s

QueueInv ==
  \A c \in Clients, s \in Servers, k \in Clocks :
    \A r \in Range(queued[s][c][k]) : ServerOf[r] = s

HeldBackWaits == \A c \in Clients : pend[c].on => ~CheckSendAll(c, acked[c])

(* The CHECKs of HandleOpLogMsg and of RecvAck hold.                       *)
OrderKept == failed \notin {"bg_version", "RecvAck"}

ChannelInv == ToServerInv /\ ToClientInv /\ QueueInv /\ HeldBackWaits /\ OrderKept

LEMMA InitChannel == Init => ChannelInv
<1>1. SUFFICES ASSUME Init PROVE ChannelInv
  OBVIOUS
<1>2. \A type, lo \in Int : InOrder(<< >>, type, lo, lo + 1)
  BY DEF InOrder
<1>3. \A type : OfType(<< >>, type) = {}
  BY DEF OfType, Range
<1>4. ToServerInv
  <2>1. ASSUME NEW c \in Clients, NEW s \in Servers
        PROVE  /\ toServer[c][s] = << >> /\ sVersion[s][c] = -1 /\ version[c] = 0
               /\ sent[c][s] = 0
    BY <1>1 DEF Init
  <2>2. InOrder(<< >>, "OpLog", -1, 0)
    BY DEF InOrder
  <2>. QED
    BY <1>3, <2>1, <2>2 DEF ToServerInv, OpLogsTo, RequestsTo
<1>5. ToClientInv
  <2>1. ASSUME NEW c \in Clients, NEW s \in Servers
        PROVE  /\ toClient[s][c] = << >> /\ sVersion[s][c] = -1 /\ acked[c][s] = 0
    BY <1>1 DEF Init
  <2>2. InOrder(<< >>, "OpLogAck", 0 - 1, -1 + 1)
    BY DEF InOrder
  <2>. QED
    BY <1>3, <2>1, <2>2 DEF ToClientInv, AcksTo, RepliesTo
<1>6. QueueInv
  <2>1. \A c \in Clients, s \in Servers, k \in Clocks : queued[s][c][k] = << >>
    BY <1>1 DEF Init
  <2>2. Range(<< >>) = {}
    BY DEF Range
  <2>. QED
    BY <2>1, <2>2 DEF QueueInv
<1>7. HeldBackWaits /\ OrderKept
  BY <1>1 DEF Init, HeldBackWaits, OrderKept
<1>. QED
  BY <1>4, <1>5, <1>6, <1>7 DEF ChannelInv

(* What the channels' invariants depend on.                                *)
LEMMA SameToServer ==
  ASSUME ToServerInv, UNCHANGED <<toServer, sVersion, version, sent>>
  PROVE  ToServerInv'
BY DEF ToServerInv, OpLogsTo, RequestsTo

LEMMA SameToClient ==
  ASSUME ToClientInv, UNCHANGED <<toClient, sVersion, acked>>
  PROVE  ToClientInv'
BY DEF ToClientInv, AcksTo, RepliesTo

LEMMA SameHeldBack ==
  ASSUME HeldBackWaits, UNCHANGED <<pend, sent, acked>>
  PROVE  HeldBackWaits'
BY DEF HeldBackWaits, CheckSendAll

LEMMA QuietChannel ==
  ASSUME ChannelInv, failed' \notin {"bg_version", "RecvAck"},
         UNCHANGED <<toServer, toClient, sVersion, version, sent, acked, pend, queued>>
  PROVE  ChannelInv'
<1>1. QueueInv' /\ OrderKept'
  BY DEF ChannelInv, QueueInv, OrderKept
<1>. QED
  BY <1>1, SameToServer, SameToClient, SameHeldBack DEF ChannelInv

(* A row request is sent to the server of its row.                         *)
LEMMA RequestChannel ==
  ASSUME TypeOK, ToServerInv, UNCHANGED <<sVersion, version, sent>>,
         NEW c \in Clients, NEW m \in RowRequestMsgs,
         toServer' = [toServer EXCEPT ![c][ServerOf[m.row]] = Append(@, m)]
  PROVE  ToServerInv' /\ \A d \in Clients, s \in Servers : OpLogsTo(d, s)' = OpLogsTo(d, s)
<1> DEFINE x == ServerOf[m.row]
           q == toServer[c][x]
<1>1. x \in Servers
  BY SSPAssumption DEF RowRequestMsgs
<1>2. q \in Seq(ToServerMsgs)
  BY <1>1 DEF TypeOK, TypeNet, ToServerMsgs
<1>3. \A d \in Clients, s \in Servers :
        toServer'[d][s] = IF d = c /\ s = x THEN Append(q, m) ELSE toServer[d][s]
  BY <1>1 DEF TypeOK, TypeNet
<1>4. /\ sVersion[x][c] \in Int /\ version[c] \in Int
      /\ InOrder(q, "OpLog", sVersion[x][c], version[c])
      /\ sVersion[x][c] < version[c]
  BY <1>1 DEF TypeOK, TypeServer, TypeBg, Versions, ToServerInv
<1> HIDE DEF q
<1>5. /\ OfType(Append(q, m), "OpLog") = OfType(q, "OpLog")
      /\ OfType(Append(q, m), "RowRequest") = OfType(q, "RowRequest") \cup {m}
      /\ InOrder(Append(q, m), "OpLog", sVersion[x][c], version[c])
  BY <1>2, <1>4, AppendRequest
<1>6. \A d \in Clients, s \in Servers : OpLogsTo(d, s)' = OpLogsTo(d, s)
  BY <1>3, <1>5 DEF OpLogsTo, q
<1>7. ASSUME NEW d \in Clients, NEW s \in Servers
      PROVE  \/ RequestsTo(d, s)' = RequestsTo(d, s)
             \/ s = x /\ RequestsTo(d, s)' = RequestsTo(d, s) \cup {m}
  <2>1. CASE d = c /\ s = x
    BY <1>3, <1>5, <2>1 DEF RequestsTo, q
  <2>2. CASE ~(d = c /\ s = x)
    BY <1>3, <2>2 DEF RequestsTo
  <2>. QED
    BY <2>1, <2>2
<1>8. ASSUME NEW d \in Clients, NEW s \in Servers, NEW r \in RequestsTo(d, s)'
      PROVE  ServerOf[r.row] = s
  <2>1. \A y \in RequestsTo(d, s) : ServerOf[y.row] = s
    BY DEF ToServerInv
  <2>. QED
    BY <1>7, <2>1
<1>9. \A d \in Clients, s \in Servers :
        InOrder(toServer'[d][s], "OpLog", sVersion[s][d], version[d])
  BY <1>3, <1>5 DEF ToServerInv
<1>10. ToServerInv'
  BY <1>6, <1>8, <1>9 DEF ToServerInv
<1>. QED
  BY <1>6, <1>10
(* What a batch that is sent does to its client and to the channels.       *)
Sent(c, advanced, clk) ==
  /\ \A d \in Clients : d # c => UNCHANGED <<oplog[d], version[d], mgr[d]>>
  /\ oplog'[c] = Remaining(c)
  /\ version'[c] = version[c] + 1
  /\ mgr'[c] = AddOpLog(mgr[c], version[c], Batch(c))
  /\ \A d \in Clients, s \in Servers :
       OpLogsTo(d, s)' = IF d = c THEN OpLogsTo(d, s) \cup {OpLogMsg(c, s, advanced, clk)}
                         ELSE OpLogsTo(d, s)

HeldOver == UNCHANGED <<oplog, version, mgr, toServer>>

LEMMA BatchChannel ==
  ASSUME TypeOK, ToServerInv, HeldBackWaits, UNCHANGED sVersion,
         NEW c \in Clients, NEW advanced \in BOOLEAN, NEW clk \in Nat,
         NEW ack, NEW on,
         acked' = [acked EXCEPT ![c] = ack],
         on => pend[c].on /\ ack = acked[c],
         HandleClockMsg(c, advanced, clk, ack, on)
  PROVE  ToServerInv' /\ HeldBackWaits' /\ (Sent(c, advanced, clk) \/ HeldOver)
<1>0. \A d \in Clients : acked'[d] = IF d = c THEN ack ELSE acked[d]
  BY DEF TypeOK, TypeBg
<1>1. CASE ~CheckSendAll(c, ack)
  <2>1. /\ pend' = [pend EXCEPT ![c] = [on |-> TRUE, advanced |-> advanced]]
        /\ UNCHANGED <<oplog, version, sent, mgr, toServer>>
    BY <1>1 DEF HandleClockMsg, HeldBack, ResetPartition, IncGetSeq
  <2>2. ToServerInv'
    BY <2>1, SameToServer
  <2>3. \A d \in Clients : d # c => pend'[d] = pend[d]
    BY <2>1 DEF TypeOK, TypeBg
  <2>4. HeldBackWaits'
    BY <1>0, <1>1, <2>1, <2>3 DEF HeldBackWaits, CheckSendAll
  <2>. QED
    BY <2>1, <2>2, <2>4 DEF HeldOver
<1>2. CASE CheckSendAll(c, ack)
  <2> DEFINE m(s) == OpLogMsg(c, s, advanced, clk)
             q(s) == toServer[c][s]
             kept == AddOpLog(mgr[c], version[c], Batch(c))
             left == Remaining(c)
  <2>1. /\ pend'     = [pend EXCEPT ![c].on = on]
        /\ oplog'    = [oplog EXCEPT ![c] = left]
        /\ toServer' = [toServer EXCEPT ![c] = [s \in Servers |-> Append(toServer[c][s], m(s))]]
        /\ sent'     = [sent EXCEPT ![c] = [s \in Servers |-> sent[c][s] + 1]]
        /\ mgr'      = [mgr EXCEPT ![c] = kept]
        /\ version'  = [version EXCEPT ![c] = @ + 1]
    BY <1>2 DEF HandleClockMsg, HeldBack, ResetPartition, IncGetSeq
  <2>2. \A s \in Servers : m(s) \in OpLogMsgs
    BY OpLogMsgType DEF TypeOK
  <2>3. \A s \in Servers : /\ m(s).version = version[c]
                           /\ m(s).seq = sent[c][s] + 1
    BY DEF OpLogMsg, IncGetSeq
  <2> HIDE DEF m, kept, left
  <2>4. /\ oplog'[c] = left /\ mgr'[c] = kept /\ version'[c] = version[c] + 1
        /\ \A d \in Clients : d # c => UNCHANGED <<oplog[d], version[d], mgr[d]>>
    BY <2>1 DEF TypeOK, TypeBg, TypeClient
  <2>5. \A d \in Clients, s \in Servers :
          toServer'[d][s] = IF d = c THEN Append(q(s), m(s)) ELSE toServer[d][s]
    BY <2>1 DEF TypeOK, TypeNet
  <2>6. \A d \in Clients, s \in Servers :
          sent'[d][s] = IF d = c THEN sent[c][s] + 1 ELSE sent[d][s]
    BY <2>1 DEF TypeOK, TypeBg
  <2>7. \A s \in Servers : q(s) \in Seq(ToServerMsgs)
    BY DEF TypeOK, TypeNet, ToServerMsgs
  <2>8. \A s \in Servers : /\ sVersion[s][c] \in Int /\ version[c] \in Int
                           /\ InOrder(q(s), "OpLog", sVersion[s][c], version[c])
                           /\ sVersion[s][c] < version[c]
                           /\ sent[c][s] = version[c]
    BY DEF TypeOK, TypeServer, TypeBg, Versions, ToServerInv
  <2> HIDE DEF q
  <2>9. ASSUME NEW s \in Servers
        PROVE  /\ OfType(Append(q(s), m(s)), "OpLog") = OfType(q(s), "OpLog") \cup {m(s)}
               /\ OfType(Append(q(s), m(s)), "RowRequest") = OfType(q(s), "RowRequest")
               /\ InOrder(Append(q(s), m(s)), "OpLog", sVersion[s][c], version[c] + 1)
    <3>1. InOrder(q(s), "OpLog", sVersion[s][c], m(s).version) /\ sVersion[s][c] < m(s).version
      BY <2>3, <2>8
    <3>2. InOrder(Append(q(s), m(s)), "OpLog", sVersion[s][c], m(s).version + 1)
      BY <2>2, <2>7, <2>8, <3>1, AppendOpLog
    <3>3. /\ OfType(Append(q(s), m(s)), "OpLog") = OfType(q(s), "OpLog") \cup {m(s)}
          /\ OfType(Append(q(s), m(s)), "RowRequest") = OfType(q(s), "RowRequest")
      BY <2>2, <2>7, AppendOpLog
    <3>. QED
      BY <2>3, <3>2, <3>3
  <2>10. ASSUME NEW d \in Clients, NEW s \in Servers
         PROVE  /\ OpLogsTo(d, s)' = IF d = c THEN OpLogsTo(d, s) \cup {m(s)}
                                     ELSE OpLogsTo(d, s)
                /\ RequestsTo(d, s)' = RequestsTo(d, s)
    <3>1. CASE d = c
      BY <2>5, <2>9, <3>1 DEF OpLogsTo, RequestsTo, q
    <3>2. CASE d # c
      BY <2>5, <3>2 DEF OpLogsTo, RequestsTo
    <3>. QED
      BY <3>1, <3>2
  <2>11. ToServerInv'
    <3>1. ASSUME NEW d \in Clients, NEW s \in Servers
          PROVE  /\ InOrder(toServer'[d][s], "OpLog", sVersion[s][d], version'[d])
                 /\ sVersion[s][d] < version'[d]
                 /\ sent'[d][s] = version'[d]
      <4>1. CASE d = c
        BY <2>4, <2>5, <2>6, <2>8, <2>9, <4>1
      <4>2. CASE d # c
        BY <2>4, <2>5, <2>6, <4>2 DEF ToServerInv
      <4>. QED
        BY <4>1, <4>2
    <3>2. ASSUME NEW d \in Clients, NEW s \in Servers
          PROVE  /\ \A x \in OpLogsTo(d, s)' : x.seq = x.version + 1
                 /\ \A x \in RequestsTo(d, s)' : ServerOf[x.row] = s
      BY <2>3, <2>8, <2>10 DEF ToServerInv
    <3>. QED
      BY <3>1, <3>2 DEF ToServerInv
  <2>12. HeldBackWaits'
    <3>1. ~on
      BY <1>2 DEF HeldBackWaits
    <3>2. ~pend'[c].on
      BY <2>1, <3>1 DEF TypeOK, TypeBg
    <3>3. \A d \in Clients : d # c => pend'[d] = pend[d]
      BY <2>1 DEF TypeOK, TypeBg
    <3>. QED
      BY <1>0, <2>6, <3>2, <3>3 DEF HeldBackWaits, CheckSendAll
  <2>13. Sent(c, advanced, clk)
    BY <2>4, <2>10 DEF Sent, m, kept, left
  <2>. QED
    BY <2>11, <2>12, <2>13
<1>. QED
  BY <1>1, <1>2
-----------------------------------------------------------------------------
(* What a step does, as far as the values of rows are concerned: it makes  *)
(* an update (Inc), sends a batch, replays batches on a row, applies a     *)
(* batch, or none of these.  A reply a server sends has its row's value.   *)
SameOpLogs == \A c \in Clients, s \in Servers : OpLogsTo(c, s)' = OpLogsTo(c, s)

FreshReplies(s, c) ==
  { RowReplyMsg(r, MinClock(sClock[s]), sVersion[s][c], data[r]) :
      r \in { x \in Rows : ServerOf[x] = s } }

FewerReplies ==
  \A c \in Clients, s \in Servers : RepliesTo(s, c)' \subseteq RepliesTo(s, c)

FewerOrFreshReplies ==
  \A c \in Clients, s \in Servers :
    RepliesTo(s, c)' \subseteq RepliesTo(s, c) \cup FreshReplies(s, c)'

(* A channel to a client loses its first message or gains some at its end, *)
(* whose replies are fresh.                                                *)
InTurn(s, c) ==
  \/ toClient'[s][c] = toClient[s][c]
  \/ toClient[s][c] # << >> /\ toClient'[s][c] = Tail(toClient[s][c])
  \/ \E p \in Seq(ToClientMsgs) : /\ toClient'[s][c] = toClient[s][c] \o p
                                  /\ OfType(p, "RowReply") \subseteq FreshReplies(s, c)'

AllInTurn == \A c \in Clients, s \in Servers : InTurn(s, c)

Quiet ==
  /\ UNCHANGED <<made, data, oplog, version, sClock, sVersion, twice>>
  /\ \A c \in Clients : mgr'[c].kept = mgr[c].kept
  /\ \A c \in Clients, r \in Rows : storage'[c][r] \in {storage[c][r], NoRow}
  /\ SameOpLogs /\ FewerOrFreshReplies

Batched(c, advanced) ==
  /\ UNCHANGED <<made, data, storage, sClock, sVersion, twice>>
  /\ Sent(c, advanced, bgClock'[c])
  /\ FewerReplies

RowRebuilt(s, c, m) ==
  /\ UNCHANGED <<made, data, oplog, version, sClock, sVersion>>
  /\ m \in RepliesTo(s, c) /\ ~Missing(c, m.version)
  /\ toClient[s][c] # << >> /\ m = Head(toClient[s][c])
  /\ toClient'[s][c] = Tail(toClient[s][c])
  /\ storage' = [storage EXCEPT ![c][m.row] = NewRow(c, m)]
  /\ twice' = twice \cup AddedTwice(Addends(c, m))
  /\ mgr' = [mgr EXCEPT ![c] = InformReply(@, m.row, m.clock, version[c])]
  /\ SameOpLogs /\ FewerReplies

AppliedBatch(c, s, m) ==
  /\ UNCHANGED <<made, oplog, version, storage, mgr>>
  /\ m \in OpLogsTo(c, s) /\ m.version = sVersion[s][c] + 1
  /\ \A d \in Clients, x \in Servers :
       OpLogsTo(d, x)' = IF d = c /\ x = s THEN OpLogsTo(d, x) \ {m} ELSE OpLogsTo(d, x)
  /\ data' = Applied(m.log)
  /\ twice' = twice \cup UNION { data[r] \cap m.log[r] : r \in Rows }
  /\ sVersion' = [sVersion EXCEPT ![s][c] = m.version]
  /\ sClock' = [sClock EXCEPT ![s] = IF m.isClock THEN ClockUntil(s, c, m.bgClock) ELSE @]
  /\ FewerOrFreshReplies

Effect ==
  \/ \E t \in Writers, r \in Rows : Inc(t, r)
  \/ Quiet
  \/ \E c \in Clients, advanced \in BOOLEAN : Batched(c, advanced)
  \/ \E c \in Clients, s \in Servers, m \in ToClientMsgs : RowRebuilt(s, c, m)
  \/ \E c \in Clients, s \in Servers, m \in ToServerMsgs : AppliedBatch(c, s, m)

(* Actions that leave the channels' messages about values alone.           *)
LEMMA QuietStep ==
  ASSUME ChannelInv, failed' \notin {"bg_version", "RecvAck"},
         UNCHANGED <<toServer, toClient, made, data, oplog, version, mgr, sClock, sVersion,
                     sent, acked, pend, queued, twice>>,
         \A c \in Clients, r \in Rows : storage'[c][r] \in {storage[c][r], NoRow}
  PROVE  ChannelInv' /\ Quiet
<1>1. ChannelInv'
  BY QuietChannel
<1>2. SameOpLogs /\ FewerOrFreshReplies
  BY DEF SameOpLogs, FewerOrFreshReplies, OpLogsTo, RepliesTo
<1>. QED
  BY <1>1, <1>2 DEF Quiet

LEMMA AppStep ==
  ASSUME ChannelInv, NEW t \in Threads, NEW r \in Rows,
         GetCached(t, r) \/ GetFetch(t, r) \/ GetResume(t) \/ ClockFlush(t) \/ ClockTick(t)
  PROVE  ChannelInv' /\ Quiet
<1>1. /\ failed' \notin {"bg_version", "RecvAck"}
      /\ UNCHANGED <<toServer, toClient, made, data, oplog, version, mgr, sClock, sVersion,
                     sent, acked, pend, queued, twice, storage>>
  BY DEF GetCached, GetFetch, GetResume, ClockFlush, ClockTick, ChannelInv, OrderKept,
         clientVars, bgVars, serverVars, netVars, histVars
<1>. QED
  BY <1>1, QuietStep

LEMMA EvictStep ==
  ASSUME TypeOK, ChannelInv, NEW c \in Clients, NEW r \in Rows, Evict(c, r)
  PROVE  ChannelInv' /\ Quiet
<1>1. /\ failed' \notin {"bg_version", "RecvAck"}
      /\ UNCHANGED <<toServer, toClient, made, data, oplog, version, mgr, sClock, sVersion,
                     sent, acked, pend, queued, twice>>
      /\ storage' = [storage EXCEPT ![c][r] = NoRow]
  BY DEF Evict, ChannelInv, OrderKept, bgVars, serverVars, netVars, histVars
<1>2. \A d \in Clients, x \in Rows : storage'[d][x] \in {storage[d][x], NoRow}
  BY <1>1 DEF TypeOK, TypeClient
<1>. QED
  BY <1>1, <1>2, QuietStep

LEMMA IncStep ==
  ASSUME ChannelInv, NEW t \in Threads, NEW r \in Rows, Inc(t, r)
  PROVE  ChannelInv'
<1>1. /\ failed' \notin {"bg_version", "RecvAck"}
      /\ UNCHANGED <<toServer, toClient, sVersion, version, sent, acked, pend, queued>>
  BY DEF Inc, ChannelInv, OrderKept, bgVars, serverVars, netVars
<1>. QED
  BY <1>1, QuietChannel

(* The background worker.                                                  *)
LEMMA BgClockStep ==
  ASSUME TypeOK, ChannelInv, NEW t \in Threads, BgClock(t) \/ BgSendOpLog(t)
  PROVE  ChannelInv' /\ (Quiet \/ \E c \in Clients, advanced \in BOOLEAN : Batched(c, advanced))
<1> DEFINE c == ClientOf[t]
<1>1. /\ c \in Clients /\ bgClock[c] \in Nat /\ bgClock[c] + 1 \in Nat
      /\ bgClock \in [Clients -> Nat] /\ acked \in [Clients -> [Servers -> Nat]]
  BY SSPAssumption DEF TypeOK, TypeBg
<1>2. UNCHANGED <<failed, made, data, storage, sClock, sVersion, twice, acked, toClient, queued>>
  BY DEF BgClock, BgSendOpLog, serverVars, histVars
<1>3. \/ HandleClockMsg(c, TRUE, bgClock[c] + 1, acked[c], pend[c].on)
         /\ bgClock' = [bgClock EXCEPT ![c] = @ + 1]
      \/ HandleClockMsg(c, FALSE, bgClock[c], acked[c], pend[c].on) /\ UNCHANGED bgClock
  BY DEF BgClock, BgSendOpLog
<1> HIDE DEF c
<1>4. \E advanced \in BOOLEAN : HandleClockMsg(c, advanced, bgClock'[c], acked[c], pend[c].on)
  BY <1>1, <1>3
<1>5. PICK advanced \in BOOLEAN :
        HandleClockMsg(c, advanced, bgClock'[c], acked[c], pend[c].on)
  BY <1>4
<1>6. bgClock'[c] \in Nat /\ acked' = [acked EXCEPT ![c] = acked[c]]
  BY <1>1, <1>2, <1>3
<1>7. ToServerInv' /\ HeldBackWaits' /\ (Sent(c, advanced, bgClock'[c]) \/ HeldOver)
  <2> DEFINE clk == bgClock'[c]
             on  == pend[c].on
             ack == acked[c]
  <2>1. clk \in Nat /\ (on => pend[c].on /\ ack = acked[c]) /\ sVersion' = sVersion
        /\ acked' = [acked EXCEPT ![c] = ack] /\ HandleClockMsg(c, advanced, clk, ack, on)
    BY <1>2, <1>5, <1>6
  <2> HIDE DEF clk, on, ack
  <2>2. ToServerInv' /\ HeldBackWaits' /\ (Sent(c, advanced, clk) \/ HeldOver)
    BY <1>1, <2>1, BatchChannel DEF ChannelInv
  <2>. QED
    BY <2>2 DEF clk
<1>8. ToClientInv' /\ QueueInv' /\ OrderKept'
  BY <1>2, SameToClient DEF ChannelInv, QueueInv, OrderKept
<1>9. FewerReplies /\ FewerOrFreshReplies
  BY <1>2 DEF FewerReplies, FewerOrFreshReplies, RepliesTo
<1>10. HeldOver => Quiet
  <2>1. HeldOver => SameOpLogs
    BY DEF HeldOver, SameOpLogs, OpLogsTo
  <2>. QED
    BY <1>2, <1>9, <2>1 DEF HeldOver, Quiet
<1>11. Sent(c, advanced, bgClock'[c]) => Batched(c, advanced)
  BY <1>2, <1>9 DEF Batched
<1>. QED
  BY <1>1, <1>7, <1>8, <1>10, <1>11 DEF ChannelInv

LEMMA BgRowRequestStep ==
  ASSUME TypeOK, ChannelInv, NEW t \in Threads, BgRowRequest(t)
  PROVE  ChannelInv' /\ Quiet
<1> DEFINE c == ClientOf[t]
           m == Head(toBg[t])
           s == ServerOf[m.row]
<1>1. /\ toBg[t] # << >> /\ m.type = "RowRequest"
      /\ UNCHANGED <<failed, made, data, oplog, storage, version, sClock, sVersion, twice,
                     sent, acked, pend, queued, toClient>>
  BY DEF BgRowRequest, clientVars, serverVars, histVars
<1>2. UNCHANGED toServer \/ toServer' = [toServer EXCEPT ![c][s] = Append(@, m)]
  BY DEF BgRowRequest
<1>3. \/ UNCHANGED mgr
      \/ \E garbage \in BOOLEAN :
           mgr' = [mgr EXCEPT ![c] =
                     AddRowRequest(@, m.row, t, m.clock, version[c] - 1, garbage)]
  BY DEF BgRowRequest
<1>4. m \in RowRequestMsgs
  BY <1>1, HeadToBg DEF TypeOK, ClockMsgs
<1>5. c \in Clients /\ mgr \in [Clients -> Managers] /\ m.row \in Rows
  BY <1>4, SSPAssumption DEF TypeOK, TypeBg, RowRequestMsgs
<1> HIDE DEF c, m
<1>6. \A d \in Clients : mgr'[d].kept = mgr[d].kept
  BY <1>3, <1>5, ZenonT(30) DEF AddRowRequest, Managers
<1>7. ToServerInv' /\ SameOpLogs
  <2>1. CASE UNCHANGED toServer
    BY <1>1, <2>1, SameToServer DEF ChannelInv, SameOpLogs, OpLogsTo
  <2>2. CASE toServer' = [toServer EXCEPT ![c][s] = Append(@, m)]
    BY <1>1, <1>4, <1>5, <2>2, RequestChannel DEF ChannelInv, SameOpLogs
  <2>. QED
    BY <1>2, <2>1, <2>2
<1>8. ToClientInv' /\ QueueInv' /\ OrderKept' /\ HeldBackWaits'
  BY <1>1, SameToClient, SameHeldBack DEF ChannelInv, QueueInv, OrderKept
<1>9. FewerOrFreshReplies
  BY <1>1 DEF FewerOrFreshReplies, RepliesTo
<1>. QED
  BY <1>1, <1>6, <1>7, <1>8, <1>9 DEF ChannelInv, Quiet
(* RecvAck's CHECKs hold: the acknowledgement is of the next batch.        *)
LEMMA AckTaken ==
  ASSUME TypeOK, ChannelInv, NEW s \in Servers, NEW c \in Clients, BgOpLogAck(s, c)
  PROVE  /\ AckInOrder(c, s, Head(toClient[s][c]).seq)
         /\ acked' = [acked EXCEPT ![c] = [acked[c] EXCEPT ![s] = Head(toClient[s][c]).seq]]
         /\ ToClientInv' /\ FewerReplies
<1> DEFINE q == toClient[s][c]
           m == Head(q)
<1>1. /\ q # << >> /\ m.type = "OpLogAck"
      /\ toClient' = [toClient EXCEPT ![s][c] = Tail(@)]
      /\ UNCHANGED sVersion
      /\ AckInOrder(c, s, m.seq) => acked' = [acked EXCEPT ![c] = [acked[c] EXCEPT ![s] = m.seq]]
  BY DEF BgOpLogAck, serverVars
<1>2. q \in Seq(ToClientMsgs)
  BY DEF TypeOK, TypeNet, ToClientMsgs
<1>3. /\ acked[c][s] \in Nat /\ sVersion[s][c] \in Int /\ version[c] \in Nat
      /\ sVersion[s][c] < version[c] /\ sent[c][s] = version[c]
      /\ InOrder(q, "OpLogAck", acked[c][s] - 1, sVersion[s][c] + 1)
      /\ \A x \in OfType(q, "OpLogAck") : x.seq = x.version + 1
      /\ \A x \in OfType(q, "RowReply") : ServerOf[x.row] = s
  BY DEF TypeOK, TypeBg, TypeServer, Versions, ChannelInv, ToServerInv, ToClientInv,
         AcksTo, RepliesTo
<1>4. \A x \in Servers, d \in Clients :
        toClient'[x][d] = IF x = s /\ d = c THEN Tail(q) ELSE toClient[x][d]
  BY <1>1 DEF TypeOK, TypeNet
<1> HIDE DEF q
<1> DEFINE lo == acked[c][s] - 1
           hi == sVersion[s][c] + 1
<1>5. lo \in Int /\ hi \in Int /\ lo + 1 = acked[c][s] /\ InOrder(q, "OpLogAck", lo, hi)
  BY <1>3
<1> HIDE DEF lo, hi
<1>6. /\ m.version = lo + 1 /\ lo + 1 < hi
      /\ InOrder(Tail(q), "OpLogAck", lo + 1, hi)
      /\ m \in OfType(q, "OpLogAck")
      /\ OfType(Tail(q), "OpLogAck") \subseteq OfType(q, "OpLogAck")
      /\ OfType(Tail(q), "RowReply") = OfType(q, "RowReply")
  BY <1>1, <1>2, <1>5, TakeAck
<1>7. m.seq = acked[c][s] + 1 /\ acked[c][s] <= sVersion[s][c]
  BY <1>3, <1>5, <1>6 DEF hi
<1>8. AckInOrder(c, s, m.seq)
  BY <1>3, <1>7 DEF AckInOrder
<1>9. \A d \in Clients, x \in Servers :
        acked'[d][x] = IF d = c /\ x = s THEN acked[c][s] + 1 ELSE acked[d][x]
  BY <1>1, <1>7, <1>8 DEF TypeOK, TypeBg
<1>10. ASSUME NEW d \in Clients, NEW x \in Servers
       PROVE  /\ InOrder(toClient'[x][d], "OpLogAck", acked'[d][x] - 1, sVersion'[x][d] + 1)
              /\ acked'[d][x] <= sVersion'[x][d] + 1
              /\ \A y \in AcksTo(x, d)' : y.seq = y.version + 1
              /\ RepliesTo(x, d)' = RepliesTo(x, d)
              /\ \A y \in RepliesTo(x, d)' : ServerOf[y.row] = x
  <2>1. CASE d = c /\ x = s
    <3>0. acked'[d][x] = acked[c][s] + 1 /\ sVersion'[x][d] = sVersion[s][c]
      BY <1>1, <1>9, <2>1
    <3>1. toClient'[x][d] = Tail(q) /\ acked'[d][x] - 1 = lo + 1 /\ sVersion'[x][d] + 1 = hi
      <4>1. toClient'[x][d] = Tail(q)
        BY <1>4, <2>1
      <4>2. acked'[d][x] - 1 = lo + 1
        BY <1>3, <1>5, <3>0
      <4>. QED
        BY <3>0, <4>1, <4>2 DEF hi
    <3>2. AcksTo(x, d)' = OfType(Tail(q), "OpLogAck") /\ RepliesTo(x, d)' = OfType(q, "RowReply")
      BY <1>6, <3>1 DEF AcksTo, RepliesTo
    <3>3. RepliesTo(x, d) = OfType(q, "RowReply")
      BY <2>1 DEF RepliesTo, q
    <3>4. acked'[d][x] <= sVersion'[x][d] + 1
      BY <1>1, <1>3, <1>7, <1>9, <2>1
    <3>. QED
      BY <1>3, <1>6, <2>1, <3>1, <3>2, <3>3, <3>4
  <2>2. CASE ~(d = c /\ x = s)
    <3>1. toClient'[x][d] = toClient[x][d] /\ acked'[d][x] = acked[d][x] /\ sVersion' = sVersion
      BY <1>1, <1>4, <1>9, <2>2
    <3>2. AcksTo(x, d)' = AcksTo(x, d) /\ RepliesTo(x, d)' = RepliesTo(x, d)
      BY <3>1 DEF AcksTo, RepliesTo
    <3>. QED
      BY <3>1, <3>2 DEF ChannelInv, ToClientInv
  <2>. QED
    BY <2>1, <2>2
<1>11. ToClientInv' /\ FewerReplies
  BY <1>10 DEF ToClientInv, FewerReplies
<1>. QED
  BY <1>1, <1>8, <1>11 DEF q

LEMMA BgOpLogAckStep ==
  ASSUME TypeOK, ChannelInv, NEW s \in Servers, NEW c \in Clients, BgOpLogAck(s, c)
  PROVE  ChannelInv' /\ (Quiet \/ \E advanced \in BOOLEAN : Batched(c, advanced))
<1> DEFINE ack == [acked[c] EXCEPT ![s] = Head(toClient[s][c]).seq]
<1>1. /\ acked' = [acked EXCEPT ![c] = ack]
      /\ ToClientInv' /\ FewerReplies
      /\ AckInOrder(c, s, Head(toClient[s][c]).seq)
  BY AckTaken
<1>2. /\ UNCHANGED <<failed, made, data, storage, sClock, sVersion, twice, queued, bgClock>>
      /\ \/ HandleClockMsg(c, pend[c].advanced, bgClock[c], ack, FALSE)
         \/ ~(pend[c].on /\ CheckSendAll(c, ack))
            /\ UNCHANGED <<pend, oplog, index, version, sent, mgr, toServer>>
  BY <1>1 DEF BgOpLogAck, serverVars
<1>3. bgClock[c] \in Nat /\ pend[c].advanced \in BOOLEAN /\ bgClock'[c] = bgClock[c]
      /\ \A d \in Clients : acked'[d] = IF d = c THEN ack ELSE acked[d]
  BY <1>1, <1>2 DEF TypeOK, TypeBg
<1> HIDE DEF ack
<1>4. FewerOrFreshReplies
  BY <1>1 DEF FewerReplies, FewerOrFreshReplies
<1>5. QueueInv' /\ OrderKept'
  BY <1>2 DEF ChannelInv, QueueInv, OrderKept
<1>6. CASE HandleClockMsg(c, pend[c].advanced, bgClock[c], ack, FALSE)
  <2>1. ToServerInv' /\ HeldBackWaits' /\ (Sent(c, pend[c].advanced, bgClock[c]) \/ HeldOver)
    BY <1>1, <1>2, <1>3, <1>6, BatchChannel DEF ChannelInv
  <2>2. HeldOver => SameOpLogs
    BY DEF HeldOver, SameOpLogs, OpLogsTo
  <2>3. HeldOver => Quiet
    BY <1>2, <1>4, <2>2 DEF HeldOver, Quiet
  <2>4. Sent(c, pend[c].advanced, bgClock[c]) => Batched(c, pend[c].advanced)
    BY <1>1, <1>2, <1>3 DEF Batched
  <2>. QED
    BY <1>1, <1>3, <1>5, <2>1, <2>3, <2>4 DEF ChannelInv
<1>7. CASE ~(pend[c].on /\ CheckSendAll(c, ack))
           /\ UNCHANGED <<pend, oplog, index, version, sent, mgr, toServer>>
  <2>1. ToServerInv' /\ SameOpLogs
    BY <1>2, <1>7, SameToServer DEF ChannelInv, SameOpLogs, OpLogsTo
  <2>2. HeldBackWaits'
    BY <1>3, <1>7 DEF ChannelInv, HeldBackWaits, CheckSendAll
  <2>3. Quiet
    BY <1>2, <1>4, <1>7, <2>1 DEF Quiet
  <2>. QED
    BY <1>1, <1>5, <2>1, <2>2, <2>3 DEF ChannelInv
<1>. QED
  BY <1>2, <1>6, <1>7

LEMMA BgRowReplyStep ==
  ASSUME TypeOK, ChannelInv, NEW s \in Servers, NEW c \in Clients, BgRowReply(s, c)
  PROVE  ChannelInv' /\ (Quiet \/ \E m \in ToClientMsgs : RowRebuilt(s, c, m))
<1> DEFINE q    == toClient[s][c]
           m    == Head(q)
           next == ClockToRequest(PopServed(mgr[c], m.row, m.clock, version[c]), m.row)
           req  == RowRequestMsg(m.row, next)
<1>1. /\ q # << >> /\ m.type = "RowReply"
      /\ toClient' = [toClient EXCEPT ![s][c] = Tail(@)]
      /\ UNCHANGED <<made, data, oplog, version, sClock, sVersion, sent, acked, pend, queued>>
  BY DEF BgRowReply, serverVars
<1>2. \/ /\ UNCHANGED <<storage, mgr, toServer, twice>>
         /\ failed' = "GetOpLog"
      \/ /\ ~Missing(c, m.version) /\ UNCHANGED failed
         /\ storage' = [storage EXCEPT ![c][m.row] = NewRow(c, m)]
         /\ twice'   = twice \cup AddedTwice(Addends(c, m))
         /\ mgr'     = [mgr EXCEPT ![c] = InformReply(@, m.row, m.clock, version[c])]
         /\ \/ UNCHANGED toServer
            \/ /\ next >= 0
               /\ toServer' = [toServer EXCEPT ![c][ServerOf[m.row]] = Append(@, req)]
  BY DEF BgRowReply
<1>3. q \in Seq(ToClientMsgs) /\ m \in ToClientMsgs /\ m \in RowReplyMsgs
  <2>1. q \in Seq(ToClientMsgs)
    BY DEF TypeOK, TypeNet, ToClientMsgs
  <2>2. m \in ToClientMsgs
    BY <1>1, <2>1, HeadTailProperties
  <2>. QED
    BY <1>1, <2>1, <2>2, ToClientMsgTypes
<1>4. \A x \in Servers, d \in Clients :
        toClient'[x][d] = IF x = s /\ d = c THEN Tail(q) ELSE toClient[x][d]
  BY <1>1 DEF TypeOK, TypeNet
<1>5. m \in RepliesTo(s, c)
  <2> HIDE DEF q
  <2>1. m \in OfType(q, "RowReply")
    BY <1>1, <1>3, TakeReply
  <2>. QED
    BY <2>1 DEF RepliesTo, q
<1>6. ToClientInv' /\ FewerReplies /\ FewerOrFreshReplies
  <2>1. /\ InOrder(q, "OpLogAck", acked[c][s] - 1, sVersion[s][c] + 1)
        /\ acked[c][s] - 1 \in Int /\ sVersion[s][c] + 1 \in Int
    <3>1. InOrder(q, "OpLogAck", acked[c][s] - 1, sVersion[s][c] + 1)
      BY DEF ChannelInv, ToClientInv
    <3>2. acked[c][s] \in Nat /\ sVersion[s][c] \in Versions
      BY DEF TypeOK, TypeBg, TypeServer
    <3>. QED
      BY <3>1, <3>2 DEF Versions
  <2>2. AcksTo(s, c) = OfType(q, "OpLogAck") /\ RepliesTo(s, c) = OfType(q, "RowReply")
    BY DEF AcksTo, RepliesTo
  <2> HIDE DEF q
  <2>3. /\ InOrder(Tail(q), "OpLogAck", acked[c][s] - 1, sVersion[s][c] + 1)
        /\ OfType(Tail(q), "OpLogAck") = OfType(q, "OpLogAck")
        /\ OfType(Tail(q), "RowReply") \subseteq OfType(q, "RowReply")
    BY <1>1, <1>3, <2>1, TakeReply
  <2>4. ASSUME NEW x \in Servers, NEW d \in Clients
        PROVE  /\ InOrder(toClient'[x][d], "OpLogAck", acked[d][x] - 1, sVersion[x][d] + 1)
               /\ AcksTo(x, d)' = AcksTo(x, d)
               /\ RepliesTo(x, d)' \subseteq RepliesTo(x, d)
    <3>1. CASE x = s /\ d = c
      <4>1. toClient'[x][d] = Tail(q)
        BY <1>4, <3>1
      <4>2. AcksTo(x, d)' = OfType(Tail(q), "OpLogAck")
            /\ RepliesTo(x, d)' = OfType(Tail(q), "RowReply")
        BY <4>1 DEF AcksTo, RepliesTo
      <4>. QED
        BY <2>2, <2>3, <3>1, <4>1, <4>2
    <3>2. CASE ~(x = s /\ d = c)
      <4>1. toClient'[x][d] = toClient[x][d]
        BY <1>4, <3>2
      <4>. QED
        BY <4>1 DEF AcksTo, RepliesTo, ChannelInv, ToClientInv
    <3>. QED
      BY <3>1, <3>2
  <2>5. ToClientInv'
    BY <1>1, <2>4 DEF ChannelInv, ToClientInv
  <2>. QED
    BY <2>4, <2>5 DEF FewerReplies, FewerOrFreshReplies
<1>7. QueueInv' /\ HeldBackWaits'
  BY <1>1, SameHeldBack DEF ChannelInv, QueueInv
<1>8. OrderKept'
  BY <1>2 DEF ChannelInv, OrderKept
<1>9. m.row \in Rows /\ m.clock \in Nat /\ mgr[c] \in Managers /\ version[c] \in Nat
  BY <1>3 DEF RowReplyMsgs, TypeOK, TypeBg
<1>10. next >= 0 => req \in RowRequestMsgs /\ req.row = m.row
  <2>1. PopServed(mgr[c], m.row, m.clock, version[c]) \in Managers
    BY <1>9, PopServedType
  <2>2. next \in Clocks \cup {-1}
    BY <1>9, <2>1, ClockToRequestType
  <2> HIDE DEF next, m
  <2>. QED
    BY <1>9, <2>2, RowRequestMsgType DEF RowRequestMsg
<1> HIDE DEF next, req, m
<1>11. ToServerInv' /\ SameOpLogs
  <2>1. CASE UNCHANGED toServer
    BY <1>1, <2>1, SameToServer DEF ChannelInv, SameOpLogs, OpLogsTo
  <2>2. CASE /\ next >= 0
             /\ toServer' = [toServer EXCEPT ![c][ServerOf[m.row]] = Append(@, req)]
    BY <1>1, <1>10, <2>2, RequestChannel DEF ChannelInv, SameOpLogs
  <2>. QED
    BY <1>2, <2>1, <2>2
<1>12. Quiet \/ RowRebuilt(s, c, m)
  <2>1. q # << >> /\ m = Head(q) /\ toClient'[s][c] = Tail(q) /\ q = toClient[s][c]
    BY <1>1, <1>4 DEF m
  <2> HIDE DEF q
  <2>. QED
    BY <1>1, <1>2, <1>5, <1>6, <1>11, <2>1 DEF Quiet, RowRebuilt
<1>. QED
  BY <1>3, <1>6, <1>7, <1>8, <1>11, <1>12 DEF ChannelInv
(* The servers.                                                            *)
LEMMA AppendReply ==
  ASSUME NEW q \in Seq(ToClientMsgs), NEW m \in RowReplyMsgs
  PROVE  /\ OfType(Append(q, m), "OpLogAck") = OfType(q, "OpLogAck")
         /\ OfType(Append(q, m), "RowReply") = OfType(q, "RowReply") \cup {m}
         /\ \A lo, hi \in Int : lo < hi /\ InOrder(q, "OpLogAck", lo, hi)
              => InOrder(Append(q, m), "OpLogAck", lo, hi)
<1>1. m \in ToClientMsgs /\ m.type = "RowReply"
  BY DEF ToClientMsgs, RowReplyMsgs
<1>2. \A x \in ToClientMsgs : x.type = "OpLogAck" => x.version \in Int
  BY ToClientMsgTypes
<1>3. ASSUME NEW lo \in Int, NEW hi \in Int, lo < hi, InOrder(q, "OpLogAck", lo, hi)
      PROVE  InOrder(Append(q, m), "OpLogAck", lo, hi)
  BY <1>1, <1>2, <1>3, InOrderAppend
<1>4. /\ OfType(Append(q, m), "OpLogAck") = OfType(q, "OpLogAck")
      /\ OfType(Append(q, m), "RowReply") = OfType(q, "RowReply") \cup {m}
  BY <1>1, OfTypeAppend
<1>. QED
  BY <1>3, <1>4

LEMMA RangeAppend ==
  ASSUME NEW S, NEW q \in Seq(S), NEW m \in S
  PROVE  Range(Append(q, m)) \subseteq Range(q) \cup {m}
<1> DEFINE p == Append(q, m)
<1>1. /\ DOMAIN p = 1 .. Len(q) + 1 /\ Len(q) \in Nat
      /\ \A i \in 1 .. Len(q) : p[i] = q[i]
      /\ p[Len(q) + 1] = m
      /\ DOMAIN q = 1 .. Len(q)
  BY AppendProperties
<1> HIDE DEF p
<1>2. \A i \in 1 .. Len(q) + 1 : i \in 1 .. Len(q) \/ i = Len(q) + 1
  BY <1>1
<1>. QED
  BY <1>1, <1>2 DEF Range, p

(* What a server reads from a client leaves only the batches and requests  *)
(* behind it.                                                              *)
LEMMA ServerRowRequestStep ==
  ASSUME TypeOK, ChannelInv, NEW c \in Clients, NEW s \in Servers, ServerRowRequest(c, s)
  PROVE  ChannelInv' /\ Quiet /\ AllInTurn
<1> DEFINE q     == toServer[c][s]
           m     == Head(q)
           reply == RowReplyMsg(m.row, MinClock(sClock[s]), sVersion[s][c], data[m.row])
<1>1. /\ q # << >> /\ m.type = "RowRequest"
      /\ toServer' = [toServer EXCEPT ![c][s] = Tail(@)]
      /\ UNCHANGED <<failed, made, data, oplog, version, sClock, sVersion, sent, acked, pend,
                     twice, storage, mgr>>
      /\ \/ /\ queued' = [queued EXCEPT ![s][c][m.clock] = Append(@, m.row)]
            /\ UNCHANGED toClient
         \/ /\ toClient' = [toClient EXCEPT ![s][c] = Append(@, reply)]
            /\ UNCHANGED queued
  BY DEF ServerRowRequest, Waiting, clientVars, bgVars, histVars
<1>2. q \in Seq(ToServerMsgs)
  BY DEF TypeOK, TypeNet, ToServerMsgs
<1>3. \A d \in Clients, x \in Servers :
        toServer'[d][x] = IF d = c /\ x = s THEN Tail(q) ELSE toServer[d][x]
  BY <1>1 DEF TypeOK, TypeNet
<1>4. OpLogsTo(c, s) = OfType(q, "OpLog") /\ RequestsTo(c, s) = OfType(q, "RowRequest")
  BY DEF OpLogsTo, RequestsTo
<1>5. InOrder(q, "OpLog", sVersion[s][c], version[c])
  BY DEF ChannelInv, ToServerInv
<1>6. sVersion[s][c] \in Int /\ version[c] \in Int
  BY DEF TypeOK, TypeBg, TypeServer, Versions
<1>7. m \in RowRequestMsgs
  BY <1>1, HeadToServer DEF TypeOK, OpLogMsgs
<1> HIDE DEF q
<1>8. /\ OfType(Tail(q), "OpLog") = OfType(q, "OpLog")
      /\ OfType(Tail(q), "RowRequest") \subseteq OfType(q, "RowRequest")
      /\ m \in OfType(q, "RowRequest")
      /\ InOrder(Tail(q), "OpLog", sVersion[s][c], version[c])
  BY <1>1, <1>2, <1>5, <1>6, TakeRequest
<1>9. m.row \in Rows /\ m.clock \in Clocks /\ ServerOf[m.row] = s
  BY <1>4, <1>7, <1>8 DEF ChannelInv, ToServerInv, RowRequestMsgs
<1>10. ASSUME NEW d \in Clients, NEW x \in Servers
       PROVE  /\ InOrder(toServer'[d][x], "OpLog", sVersion[x][d], version[d])
              /\ OpLogsTo(d, x)' = OpLogsTo(d, x)
              /\ RequestsTo(d, x)' \subseteq RequestsTo(d, x)
  <2>1. CASE d = c /\ x = s
    <3>1. toServer'[d][x] = Tail(q)
      BY <1>3, <2>1
    <3>2. OpLogsTo(d, x)' = OfType(Tail(q), "OpLog")
          /\ RequestsTo(d, x)' = OfType(Tail(q), "RowRequest")
      BY <3>1 DEF OpLogsTo, RequestsTo
    <3>. QED
      BY <1>4, <1>8, <2>1, <3>1, <3>2
  <2>2. CASE ~(d = c /\ x = s)
    <3>1. toServer'[d][x] = toServer[d][x]
      BY <1>3, <2>2
    <3>. QED
      BY <3>1 DEF OpLogsTo, RequestsTo, ChannelInv, ToServerInv
  <2>. QED
    BY <2>1, <2>2
<1>11. ToServerInv' /\ SameOpLogs
  <2>1. \A d \in Clients, x \in Servers : \A y \in RequestsTo(d, x)' : ServerOf[y.row] = x
    BY <1>10 DEF ChannelInv, ToServerInv
  <2>2. \A d \in Clients, x \in Servers : \A y \in OpLogsTo(d, x)' : y.seq = y.version + 1
    BY <1>10 DEF ChannelInv, ToServerInv
  <2>3. \A d \in Clients, x \in Servers :
          InOrder(toServer'[d][x], "OpLog", sVersion'[x][d], version'[d])
    BY <1>1, <1>10
  <2>4. \A d \in Clients, x \in Servers : sVersion'[x][d] < version'[d] /\ sent'[d][x] = version'[d]
    BY <1>1 DEF ChannelInv, ToServerInv
  <2>. QED
    BY <1>10, <2>1, <2>2, <2>3, <2>4 DEF ToServerInv, SameOpLogs
<1>12. HeldBackWaits' /\ OrderKept'
  BY <1>1, SameHeldBack DEF ChannelInv, OrderKept
<1> HIDE DEF m
<1>13. QueueInv'
  <2>1. CASE UNCHANGED queued
    BY <2>1 DEF ChannelInv, QueueInv
  <2>2. CASE queued' = [queued EXCEPT ![s][c][m.clock] = Append(@, m.row)]
    <3>1. queued[s][c][m.clock] \in Seq(Rows)
      BY <1>9 DEF TypeOK, TypeServer
    <3>2. Range(Append(queued[s][c][m.clock], m.row)) \subseteq Range(queued[s][c][m.clock]) \cup {m.row}
      BY <1>9, <3>1, RangeAppend
    <3>3. \A d \in Clients, x \in Servers, k \in Clocks :
            queued'[x][d][k] = IF x = s /\ d = c /\ k = m.clock
                               THEN Append(queued[s][c][m.clock], m.row) ELSE queued[x][d][k]
      BY <1>9, <2>2 DEF TypeOK, TypeServer
    <3>4. ASSUME NEW d \in Clients, NEW x \in Servers, NEW k \in Clocks, NEW r \in Range(queued'[x][d][k])
          PROVE  ServerOf[r] = x
      <4>1. CASE x = s /\ d = c /\ k = m.clock
        BY <1>9, <3>2, <3>3, <3>4, <4>1 DEF ChannelInv, QueueInv
      <4>2. CASE ~(x = s /\ d = c /\ k = m.clock)
        BY <3>3, <3>4, <4>2 DEF ChannelInv, QueueInv
      <4>. QED
        BY <4>1, <4>2
    <3>. QED
      BY <3>4 DEF QueueInv
  <2>. QED
    BY <1>1, <2>1, <2>2
<1>14. ToClientInv' /\ FewerOrFreshReplies /\ AllInTurn
  <2>1. CASE UNCHANGED toClient
    BY <1>1, <2>1, SameToClient DEF ChannelInv, FewerOrFreshReplies, RepliesTo, AllInTurn, InTurn
  <2>2. CASE toClient' = [toClient EXCEPT ![s][c] = Append(@, reply)]
    <3> DEFINE b == toClient[s][c]
    <3>1. reply \in RowReplyMsgs /\ reply.row = m.row
      <4>1. MinClock(sClock[s]) \in Nat
        BY MinClockType DEF TypeOK, TypeServer
      <4>2. sVersion[s][c] \in Versions /\ data[m.row] \in SUBSET Updates
        BY <1>9 DEF TypeOK, TypeServer, Logs
      <4>3. reply \in RowReplyMsgs
        BY <1>9, <4>1, <4>2, RowReplyMsgType
      <4>. QED
        BY <4>3 DEF RowReplyMsg
    <3>2. reply \in FreshReplies(s, c)'
      BY <1>1, <1>9 DEF FreshReplies
    <3>3. b \in Seq(ToClientMsgs)
      BY DEF TypeOK, TypeNet, ToClientMsgs
    <3>4. /\ acked[c][s] - 1 \in Int /\ sVersion[s][c] + 1 \in Int
          /\ acked[c][s] - 1 < sVersion[s][c] + 1
          /\ InOrder(b, "OpLogAck", acked[c][s] - 1, sVersion[s][c] + 1)
      <4>1. acked[c][s] \in Nat /\ sVersion[s][c] \in Int
        BY DEF TypeOK, TypeBg, TypeServer, Versions
      <4>2. acked[c][s] <= sVersion[s][c] + 1
        BY DEF ChannelInv, ToClientInv
      <4>3. InOrder(b, "OpLogAck", acked[c][s] - 1, sVersion[s][c] + 1)
        BY DEF ChannelInv, ToClientInv
      <4>. QED
        BY <4>1, <4>2, <4>3
    <3>5. \A x \in Servers, d \in Clients :
            toClient'[x][d] = IF x = s /\ d = c THEN Append(b, reply) ELSE toClient[x][d]
      BY <2>2 DEF TypeOK, TypeNet
    <3>6. AcksTo(s, c) = OfType(b, "OpLogAck") /\ RepliesTo(s, c) = OfType(b, "RowReply")
      BY DEF AcksTo, RepliesTo
    <3> HIDE DEF b, reply
    <3>7. /\ OfType(Append(b, reply), "OpLogAck") = OfType(b, "OpLogAck")
          /\ OfType(Append(b, reply), "RowReply") = OfType(b, "RowReply") \cup {reply}
          /\ InOrder(Append(b, reply), "OpLogAck", acked[c][s] - 1, sVersion[s][c] + 1)
      BY <3>1, <3>3, <3>4, AppendReply
    <3>8. ASSUME NEW x \in Servers, NEW d \in Clients
          PROVE  /\ InOrder(toClient'[x][d], "OpLogAck", acked[d][x] - 1, sVersion[x][d] + 1)
                 /\ AcksTo(x, d)' = AcksTo(x, d)
                 /\ \/ RepliesTo(x, d)' = RepliesTo(x, d)
                    \/ x = s /\ d = c /\ RepliesTo(x, d)' = RepliesTo(x, d) \cup {reply}
      <4>1. CASE x = s /\ d = c
        <5>1. toClient'[x][d] = Append(b, reply)
          BY <3>5, <4>1
        <5>2. AcksTo(x, d)' = OfType(Append(b, reply), "OpLogAck")
              /\ RepliesTo(x, d)' = OfType(Append(b, reply), "RowReply")
          BY <5>1 DEF AcksTo, RepliesTo
        <5>. QED
          BY <3>6, <3>7, <4>1, <5>1, <5>2
      <4>2. CASE ~(x = s /\ d = c)
        <5>1. toClient'[x][d] = toClient[x][d]
          BY <3>5, <4>2
        <5>. QED
          BY <5>1 DEF AcksTo, RepliesTo, ChannelInv, ToClientInv
      <4>. QED
        BY <4>1, <4>2
    <3>9. FewerOrFreshReplies
      BY <3>2, <3>8 DEF FewerOrFreshReplies
    <3>10. ASSUME NEW x \in Servers, NEW d \in Clients
           PROVE  /\ \A y \in AcksTo(x, d)' : y.seq = y.version + 1
                  /\ \A y \in RepliesTo(x, d)' : ServerOf[y.row] = x
                  /\ acked'[d][x] <= sVersion'[x][d] + 1
                  /\ InOrder(toClient'[x][d], "OpLogAck", acked'[d][x] - 1, sVersion'[x][d] + 1)
      <4>1. /\ \A y \in AcksTo(x, d) : y.seq = y.version + 1
            /\ \A y \in RepliesTo(x, d) : ServerOf[y.row] = x
            /\ acked[d][x] <= sVersion[x][d] + 1
        BY DEF ChannelInv, ToClientInv
      <4>. QED
        BY <1>1, <1>9, <3>1, <3>8, <4>1
    <3>11. ToClientInv'
      BY <3>10 DEF ToClientInv
    <3>12. ASSUME NEW x \in Servers, NEW d \in Clients
           PROVE  InTurn(x, d)
      <4>1. CASE x = s /\ d = c
        <5>1. toClient'[x][d] = Append(b, reply) /\ toClient[x][d] = b
          BY <3>5, <4>1 DEF b
        <5>2. << >> \in Seq(ToClientMsgs) /\ reply \in ToClientMsgs
          BY <3>1 DEF ToClientMsgs
        <5>3. Append(b, reply) = b \o << reply >> /\ << reply >> \in Seq(ToClientMsgs)
          BY <3>3, <5>2, AppendIsConcat
        <5>4. OfType(<< reply >>, "RowReply") \subseteq {reply}
          BY DEF OfType, Range
        <5>5. OfType(<< reply >>, "RowReply") \subseteq FreshReplies(x, d)'
          BY <3>2, <4>1, <5>4
        <5>. QED
          BY <5>1, <5>3, <5>5 DEF InTurn
      <4>2. CASE ~(x = s /\ d = c)
        BY <3>5, <4>2 DEF InTurn
      <4>. QED
        BY <4>1, <4>2
    <3>. QED
      BY <3>9, <3>11, <3>12 DEF AllInTurn
  <2>. QED
    BY <1>1, <2>1, <2>2
<1>15. Quiet
  BY <1>1, <1>11, <1>14 DEF Quiet
<1>. QED
  BY <1>11, <1>12, <1>13, <1>14, <1>15 DEF ChannelInv
(* The replies a server sends when its clock moves.                        *)
LEMMA FulfilledReplies ==
  ASSUME NEW s \in Servers, NEW clk \in Nat, NEW v \in Versions, NEW rows \in Logs,
         NEW list \in Seq(Rows), \A r \in Range(list) : ServerOf[r] = s,
         NEW replies,
         \/ replies = [i \in 1 .. Len(list) |-> LET r == list[i]
                                                IN  RowReplyMsg(r, clk, v, rows[r])]
         \/ replies = << >>
  PROVE  /\ replies \in Seq(RowReplyMsgs)
         /\ Range(replies) \subseteq { RowReplyMsg(r, clk, v, rows[r]) :
                                         r \in { x \in Rows : ServerOf[x] = s } }
<1>1. CASE replies = << >>
  BY <1>1 DEF Range
<1>2. CASE replies = [i \in 1 .. Len(list) |-> LET r == list[i]
                                                IN  RowReplyMsg(r, clk, v, rows[r])]
  <2>1. \A i \in 1 .. Len(list) : list[i] \in Rows /\ ServerOf[list[i]] = s
    <3>1. DOMAIN list = 1 .. Len(list)
      OBVIOUS
    <3>. QED
      BY <3>1 DEF Range
  <2>2. \A r \in Rows : RowReplyMsg(r, clk, v, rows[r]) \in RowReplyMsgs
    <3>1. \A r \in Rows : rows[r] \in SUBSET Updates
      BY DEF Logs
    <3>. QED
      BY <3>1, RowReplyMsgType
  <2>3. \A i \in 1 .. Len(list) : replies[i] = RowReplyMsg(list[i], clk, v, rows[list[i]])
    BY <1>2
  <2>4. Len(list) \in Nat /\ DOMAIN replies = 1 .. Len(list)
    BY <1>2
  <2>5. replies \in [1 .. Len(list) -> RowReplyMsgs]
    BY <1>2, <2>1, <2>2
  <2>6. replies \in Seq(RowReplyMsgs)
    BY <2>4, <2>5
  <2>7. Range(replies) \subseteq { RowReplyMsg(r, clk, v, rows[r]) :
                                     r \in { x \in Rows : ServerOf[x] = s } }
    BY <2>1, <2>3, <2>4 DEF Range
  <2>. QED
    BY <2>6, <2>7
<1>. QED
  BY <1>1, <1>2

(* A channel to a client, lengthened by replies and an acknowledgement.    *)
LEMMA ReplyAndAck ==
  ASSUME NEW q \in Seq(ToClientMsgs), NEW e \in Seq(RowReplyMsgs), NEW m \in AckMsgs,
         NEW lo \in Int, NEW hi \in Int, lo < hi, InOrder(q, "OpLogAck", lo, hi)
  PROVE  /\ InOrder(q \o e \o << >>, "OpLogAck", lo, hi)
         /\ OfType(q \o e \o << >>, "OpLogAck") = OfType(q, "OpLogAck")
         /\ OfType(q \o e \o << >>, "RowReply") = OfType(q, "RowReply") \cup Range(e)
         /\ m.version = hi => InOrder(q \o e \o << m >>, "OpLogAck", lo, hi + 1)
         /\ OfType(q \o e \o << m >>, "OpLogAck") = OfType(q, "OpLogAck") \cup {m}
         /\ OfType(q \o e \o << m >>, "RowReply") = OfType(q, "RowReply") \cup Range(e)
<1> DEFINE p == q \o e
<1>1. /\ p \in Seq(ToClientMsgs)
      /\ OfType(p, "OpLogAck") = OfType(q, "OpLogAck")
      /\ OfType(p, "RowReply") = OfType(q, "RowReply") \cup Range(e)
      /\ InOrder(p, "OpLogAck", lo, hi)
  BY ConcatReplies
<1> HIDE DEF p
<1>2. p \o << >> = p
  BY <1>1, ConcatEmptySeq
<1>3. /\ OfType(p \o << m >>, "OpLogAck") = OfType(p, "OpLogAck") \cup {m}
      /\ OfType(p \o << m >>, "RowReply") = OfType(p, "RowReply")
  BY <1>1, AppendAck
<1>4. ASSUME m.version = hi
      PROVE  InOrder(p \o << m >>, "OpLogAck", lo, hi + 1)
  <2>1. lo < m.version /\ InOrder(p, "OpLogAck", lo, m.version)
    BY <1>1, <1>4
  <2>2. InOrder(p \o << m >>, "OpLogAck", lo, m.version + 1)
    BY <1>1, <2>1, AppendAck
  <2>. QED
    BY <1>4, <2>2
<1>5. /\ InOrder(p \o << >>, "OpLogAck", lo, hi)
      /\ OfType(p \o << >>, "OpLogAck") = OfType(q, "OpLogAck")
      /\ OfType(p \o << >>, "RowReply") = OfType(q, "RowReply") \cup Range(e)
  BY <1>1, <1>2
<1>6. /\ m.version = hi => InOrder(p \o << m >>, "OpLogAck", lo, hi + 1)
      /\ OfType(p \o << m >>, "OpLogAck") = OfType(q, "OpLogAck") \cup {m}
      /\ OfType(p \o << m >>, "RowReply") = OfType(q, "RowReply") \cup Range(e)
  BY <1>1, <1>3, <1>4
<1>. QED
  BY <1>5, <1>6 DEF p

LEMMA ServerOpLogStep ==
  ASSUME TypeOK, ChannelInv, NEW c \in Clients, NEW s \in Servers, ServerOpLog(c, s)
  PROVE  ChannelInv' /\ AllInTurn /\ \E m \in ToServerMsgs : AppliedBatch(c, s, m)
<1> DEFINE q       == toServer[c][s]
           m       == Head(q)
           clocks  == IF m.isClock THEN ClockUntil(s, c, m.bgClock) ELSE sClock[s]
           now     == MinClock(clocks)
           changed == now # MinClock(sClock[s])
           rows    == Applied(m.log)
           vers    == [sVersion[s] EXCEPT ![c] = m.version]
           ack     == [type |-> "OpLogAck", version |-> m.version, seq |-> m.seq]
           Replies(d) ==
             IF changed
             THEN [i \in 1 .. Len(Fulfilled(s, d, now)) |->
                     LET r == Fulfilled(s, d, now)[i]
                     IN  RowReplyMsg(r, now, vers[d], rows[r])]
             ELSE << >>
           Ack(d) == IF d = c THEN << ack >> ELSE << >>
<1>1. /\ q # << >> /\ m.type = "OpLog"
      /\ toServer' = [toServer EXCEPT ![c][s] = Tail(@)]
      /\ UNCHANGED <<made, oplog, version, sent, acked, pend, storage, mgr>>
      /\ m.version = sVersion[s][c] + 1 =>
           /\ UNCHANGED failed
           /\ data'     = rows
           /\ twice'    = twice \cup UNION { data[r] \cap m.log[r] : r \in Rows }
           /\ sVersion' = [sVersion EXCEPT ![s] = vers]
           /\ sClock'   = [sClock EXCEPT ![s] = clocks]
           /\ \/ UNCHANGED queued
              \/ queued' = [queued EXCEPT ![s] = [d \in Clients |->
                              [queued[s][d] EXCEPT ![now] = << >>]]]
           /\ toClient' = [toClient EXCEPT ![s] = [d \in Clients |->
                             toClient[s][d] \o Replies(d) \o Ack(d)]]
  BY DEF ServerOpLog, clientVars, bgVars
<1>2. q \in Seq(ToServerMsgs)
  BY DEF TypeOK, TypeNet, ToServerMsgs
<1>3. \A d \in Clients, x \in Servers :
        toServer'[d][x] = IF d = c /\ x = s THEN Tail(q) ELSE toServer[d][x]
  BY <1>1 DEF TypeOK, TypeNet
<1>4. OpLogsTo(c, s) = OfType(q, "OpLog") /\ RequestsTo(c, s) = OfType(q, "RowRequest")
  BY DEF OpLogsTo, RequestsTo
<1>5. /\ InOrder(q, "OpLog", sVersion[s][c], version[c])
      /\ \A y \in OpLogsTo(c, s) : y.seq = y.version + 1
  BY DEF ChannelInv, ToServerInv
<1>6. sVersion[s][c] \in Int /\ version[c] \in Int
  BY DEF TypeOK, TypeBg, TypeServer, Versions
<1>7. m \in OpLogMsgs /\ m \in ToServerMsgs
  BY <1>1, HeadToServer DEF TypeOK, RowRequestMsgs, ToServerMsgs
<1>8. /\ m.bgClock \in Nat /\ m.version \in Nat /\ m.seq \in Nat /\ m.log \in Logs
      /\ ack \in AckMsgs /\ ack.version = m.version /\ ack.seq = m.seq
  BY <1>7 DEF OpLogMsgs, AckMsgs
<1>9. clocks \in [Clients -> Nat] /\ now \in Nat
  <2>1. sClock[s] \in [Clients -> Nat]
    BY DEF TypeOK, TypeServer
  <2>2. Max({sClock[s][c], m.bgClock}) \in Nat
    BY <1>8, <2>1, MaxOfTwo
  <2>3. clocks \in [Clients -> Nat]
    BY <2>1, <2>2 DEF ClockUntil
  <2> HIDE DEF clocks
  <2>. QED
    BY <2>3, MinClockType
<1>10. rows \in Logs
  BY <1>8 DEF TypeOK, TypeServer, Logs, Applied
<1>11. /\ vers \in [Clients -> Versions] /\ vers[c] = m.version
       /\ \A d \in Clients : d # c => vers[d] = sVersion[s][d]
  BY <1>8 DEF TypeOK, TypeServer, Versions
<1>12. rows = Applied(m.log) /\ clocks = IF m.isClock THEN ClockUntil(s, c, m.bgClock) ELSE sClock[s]
  OBVIOUS
<1> HIDE DEF q
<1>13. /\ m.version = sVersion[s][c] + 1 /\ m.version < version[c]
       /\ InOrder(Tail(q), "OpLog", m.version, version[c])
       /\ m \in OfType(q, "OpLog")
       /\ OfType(Tail(q), "OpLog") = OfType(q, "OpLog") \ {m}
       /\ OfType(Tail(q), "RowRequest") = OfType(q, "RowRequest")
  BY <1>1, <1>2, <1>5, <1>6, TakeOpLog, SMTT(30)
<1>14. m.seq = m.version + 1
  BY <1>4, <1>5, <1>13
<1>15. /\ UNCHANGED failed
       /\ data'     = rows
       /\ twice'    = twice \cup UNION { data[r] \cap m.log[r] : r \in Rows }
       /\ sVersion' = [sVersion EXCEPT ![s] = vers]
       /\ sClock'   = [sClock EXCEPT ![s] = clocks]
       /\ \/ UNCHANGED queued
          \/ queued' = [queued EXCEPT ![s] = [d \in Clients |->
                          [queued[s][d] EXCEPT ![now] = << >>]]]
       /\ toClient' = [toClient EXCEPT ![s] = [d \in Clients |->
                         toClient[s][d] \o Replies(d) \o Ack(d)]]
  BY <1>1, <1>13
<1> HIDE DEF m, clocks, now, rows, vers, ack
<1>16. /\ \A d \in Clients, x \in Servers :
            sVersion'[x][d] = IF x = s THEN vers[d] ELSE sVersion[x][d]
       /\ sClock'[s] = clocks
  BY <1>15 DEF TypeOK, TypeServer
<1>17. ASSUME NEW d \in Clients
       PROVE  Replies(d) \in Seq(RowReplyMsgs) /\ Range(Replies(d)) \subseteq FreshReplies(s, d)'
  <2> DEFINE list == Fulfilled(s, d, now)
             v    == vers[d]
  <2>1. list \in Seq(Rows) /\ \A r \in Range(list) : ServerOf[r] = s
    <3>1. CASE now \in DOMAIN queued[s][d]
      <4>1. now \in Clocks /\ list = queued[s][d][now]
        BY <3>1 DEF Fulfilled, TypeOK, TypeServer
      <4>. QED
        BY <4>1 DEF ChannelInv, QueueInv, TypeOK, TypeServer
    <3>2. CASE now \notin DOMAIN queued[s][d]
      BY <3>2 DEF Fulfilled, Range
    <3>. QED
      BY <3>1, <3>2
  <2>2. v \in Versions
    BY <1>11
  <2>3. \/ Replies(d) = [i \in 1 .. Len(list) |-> LET r == list[i]
                                                   IN  RowReplyMsg(r, now, v, rows[r])]
        \/ Replies(d) = << >>
    OBVIOUS
  <2>4. FreshReplies(s, d)' = { RowReplyMsg(r, now, v, rows[r]) :
                                  r \in { x \in Rows : ServerOf[x] = s } }
    BY <1>15, <1>16 DEF FreshReplies, now
  <2> DEFINE reps == Replies(d)
  <2>5. \/ reps = [i \in 1 .. Len(list) |-> LET r == list[i]
                                             IN  RowReplyMsg(r, now, v, rows[r])]
        \/ reps = << >>
    BY <2>3
  <2> HIDE DEF list, v, reps
  <2>6. /\ reps \in Seq(RowReplyMsgs)
        /\ Range(reps) \subseteq { RowReplyMsg(r, now, v, rows[r]) :
                                     r \in { x \in Rows : ServerOf[x] = s } }
    BY <1>9, <1>10, <2>1, <2>2, <2>5, FulfilledReplies
  <2>. QED
    BY <2>4, <2>6 DEF reps
<1>18. \A d \in Clients, x \in Servers :
         toClient'[x][d] = IF x = s THEN toClient[s][d] \o Replies(d) \o Ack(d) ELSE toClient[x][d]
  <2> HIDE DEF Replies, Ack
  <2>. QED
    BY <1>15 DEF TypeOK, TypeNet
<1> HIDE DEF Replies
<1>19. ASSUME NEW d \in Clients, NEW x \in Servers
       PROVE  /\ InOrder(toServer'[d][x], "OpLog", sVersion'[x][d], version[d])
              /\ sVersion'[x][d] < version[d]
              /\ OpLogsTo(d, x)' = IF d = c /\ x = s THEN OpLogsTo(d, x) \ {m} ELSE OpLogsTo(d, x)
              /\ RequestsTo(d, x)' = RequestsTo(d, x)
  <2>1. CASE d = c /\ x = s
    <3>1. toServer'[d][x] = Tail(q) /\ sVersion'[x][d] = m.version
      BY <1>3, <1>11, <1>16, <2>1
    <3>2. OpLogsTo(d, x)' = OfType(Tail(q), "OpLog")
          /\ RequestsTo(d, x)' = OfType(Tail(q), "RowRequest")
      BY <3>1 DEF OpLogsTo, RequestsTo
    <3>. QED
      BY <1>4, <1>13, <2>1, <3>1, <3>2
  <2>2. CASE ~(d = c /\ x = s)
    <3>1. toServer'[d][x] = toServer[d][x] /\ sVersion'[x][d] = sVersion[x][d]
      BY <1>3, <1>11, <1>16, <2>2
    <3>2. OpLogsTo(d, x)' = OpLogsTo(d, x) /\ RequestsTo(d, x)' = RequestsTo(d, x)
      BY <3>1 DEF OpLogsTo, RequestsTo
    <3>. QED
      BY <2>2, <3>1, <3>2 DEF ChannelInv, ToServerInv
  <2>. QED
    BY <2>1, <2>2
<1>20. ToServerInv'
  <2>1. \A d \in Clients, x \in Servers : \A y \in RequestsTo(d, x)' : ServerOf[y.row] = x
    BY <1>19 DEF ChannelInv, ToServerInv
  <2>2. \A d \in Clients, x \in Servers : \A y \in OpLogsTo(d, x)' : y.seq = y.version + 1
    BY <1>19 DEF ChannelInv, ToServerInv
  <2>3. \A d \in Clients, x \in Servers :
          InOrder(toServer'[d][x], "OpLog", sVersion'[x][d], version'[d])
    BY <1>1, <1>19
  <2>4. \A d \in Clients, x \in Servers : sVersion'[x][d] < version'[d] /\ sent'[d][x] = version'[d]
    BY <1>1, <1>19 DEF ChannelInv, ToServerInv
  <2>. QED
    BY <2>1, <2>2, <2>3, <2>4 DEF ToServerInv
<1>21. HeldBackWaits' /\ OrderKept'
  BY <1>1, <1>15, SameHeldBack DEF ChannelInv, OrderKept
<1>22. QueueInv'
  <2>1. CASE UNCHANGED queued
    BY <2>1 DEF ChannelInv, QueueInv
  <2>2. CASE queued' = [queued EXCEPT ![s] = [d \in Clients |->
                          [queued[s][d] EXCEPT ![now] = << >>]]]
    <3>1. \A d \in Clients, x \in Servers, k \in Clocks :
            queued'[x][d][k] = queued[x][d][k] \/ queued'[x][d][k] = << >>
      BY <2>2 DEF TypeOK, TypeServer
    <3>2. Range(<< >>) = {}
      BY DEF Range
    <3>. QED
      BY <3>1, <3>2 DEF ChannelInv, QueueInv
  <2>. QED
    BY <1>15, <2>1, <2>2
<1>23. ASSUME NEW d \in Clients, NEW x \in Servers
       PROVE  /\ InOrder(toClient'[x][d], "OpLogAck", acked[d][x] - 1, sVersion'[x][d] + 1)
              /\ acked[d][x] <= sVersion'[x][d] + 1
              /\ AcksTo(x, d)' \subseteq AcksTo(x, d) \cup {ack}
              /\ \/ RepliesTo(x, d)' = RepliesTo(x, d)
                 \/ x = s /\ RepliesTo(x, d)' = RepliesTo(x, d) \cup Range(Replies(d))
  <2> DEFINE b  == toClient[x][d]
             lo == acked[d][x] - 1
             hi == sVersion[x][d] + 1
  <2>1. /\ lo \in Int /\ hi \in Int /\ lo < hi
        /\ InOrder(b, "OpLogAck", lo, hi)
        /\ acked[d][x] <= hi
    <3>1. acked[d][x] \in Nat /\ sVersion[x][d] \in Int
      BY DEF TypeOK, TypeBg, TypeServer, Versions
    <3>2. acked[d][x] <= sVersion[x][d] + 1 /\ InOrder(b, "OpLogAck", lo, hi)
      BY DEF ChannelInv, ToClientInv
    <3>. QED
      BY <3>1, <3>2
  <2>2. b \in Seq(ToClientMsgs)
    BY DEF TypeOK, TypeNet, ToClientMsgs
  <2>3. AcksTo(x, d) = OfType(b, "OpLogAck") /\ RepliesTo(x, d) = OfType(b, "RowReply")
    BY DEF AcksTo, RepliesTo
  <2>4. AcksTo(x, d)' = OfType(toClient'[x][d], "OpLogAck")
        /\ RepliesTo(x, d)' = OfType(toClient'[x][d], "RowReply")
    BY DEF AcksTo, RepliesTo
  <2>5. CASE x # s
    <3>1. toClient'[x][d] = b /\ sVersion'[x][d] + 1 = hi
      BY <1>16, <1>18, <2>5
    <3>. QED
      BY <2>1, <2>3, <2>4, <3>1
  <2>6. CASE x = s
    <3> DEFINE e == Replies(d)
    <3>1. e \in Seq(RowReplyMsgs)
      BY <1>17
    <3>2. toClient'[x][d] = b \o e \o (IF d = c THEN << ack >> ELSE << >>)
      BY <1>18, <2>6
    <3>3. d = c => hi = m.version /\ ack.version = hi /\ sVersion'[x][d] + 1 = hi + 1
      BY <1>8, <1>11, <1>13, <1>16, <2>6
    <3>4. d # c => sVersion'[x][d] + 1 = hi
      BY <1>11, <1>16, <2>6
    <3> HIDE DEF b, e, hi, lo
    <3>5. /\ InOrder(b \o e \o << >>, "OpLogAck", lo, hi)
          /\ OfType(b \o e \o << >>, "OpLogAck") = OfType(b, "OpLogAck")
          /\ OfType(b \o e \o << >>, "RowReply") = OfType(b, "RowReply") \cup Range(e)
          /\ ack.version = hi => InOrder(b \o e \o << ack >>, "OpLogAck", lo, hi + 1)
          /\ OfType(b \o e \o << ack >>, "OpLogAck") = OfType(b, "OpLogAck") \cup {ack}
          /\ OfType(b \o e \o << ack >>, "RowReply") = OfType(b, "RowReply") \cup Range(e)
      BY <1>8, <2>1, <2>2, <3>1, ReplyAndAck
    <3>6. acked[d][x] <= sVersion'[x][d] + 1
      <4>1. acked[d][x] \in Nat
        BY DEF TypeOK, TypeBg
      <4>. QED
        BY <2>1, <3>3, <3>4, <4>1
    <3>7. CASE d = c
      <4>1. toClient'[x][d] = b \o e \o << ack >>
        BY <3>2, <3>7
      <4>2. InOrder(toClient'[x][d], "OpLogAck", acked[d][x] - 1, sVersion'[x][d] + 1)
        BY <3>3, <3>5, <3>7, <4>1 DEF lo
      <4>3. RepliesTo(x, d)' = RepliesTo(x, d) \cup Range(Replies(d))
        BY <2>3, <2>4, <3>5, <4>1 DEF e
      <4>. QED
        BY <2>3, <2>4, <2>6, <3>5, <3>6, <4>1, <4>2, <4>3
    <3>8. CASE d # c
      <4>1. toClient'[x][d] = b \o e \o << >>
        BY <3>2, <3>8
      <4>2. InOrder(toClient'[x][d], "OpLogAck", acked[d][x] - 1, sVersion'[x][d] + 1)
        BY <3>4, <3>5, <3>8, <4>1 DEF lo
      <4>3. RepliesTo(x, d)' = RepliesTo(x, d) \cup Range(Replies(d))
        BY <2>3, <2>4, <3>5, <4>1 DEF e
      <4>. QED
        BY <2>3, <2>4, <2>6, <3>5, <3>6, <4>1, <4>2, <4>3
    <3>. QED
      BY <3>7, <3>8
  <2>. QED
    BY <2>5, <2>6
<1>24. FewerOrFreshReplies
  BY <1>17, <1>23 DEF FewerOrFreshReplies
<1>25. ToClientInv'
  <2>1. \A x \in Servers, d \in Clients : \A y \in FreshReplies(x, d)' : ServerOf[y.row] = x
    BY DEF FreshReplies, RowReplyMsg
  <2>2. ASSUME NEW x \in Servers, NEW d \in Clients
        PROVE  /\ \A y \in AcksTo(x, d)' : y.seq = y.version + 1
               /\ \A y \in RepliesTo(x, d)' : ServerOf[y.row] = x
    <3>1. /\ \A y \in AcksTo(x, d) : y.seq = y.version + 1
          /\ \A y \in RepliesTo(x, d) : ServerOf[y.row] = x
      BY DEF ChannelInv, ToClientInv
    <3>. QED
      BY <1>8, <1>14, <1>23, <1>24, <2>1, <3>1 DEF FewerOrFreshReplies
  <2>. QED
    BY <1>1, <1>23, <2>2 DEF ToClientInv
<1>26. AppliedBatch(c, s, m)
  <2>1. sVersion' = [sVersion EXCEPT ![s][c] = m.version]
    BY <1>15 DEF vers, TypeOK, TypeServer
  <2>2. sClock' = [sClock EXCEPT ![s] = IF m.isClock THEN ClockUntil(s, c, m.bgClock) ELSE @]
    BY <1>12, <1>15
  <2>3. data' = Applied(m.log)
    BY <1>12, <1>15
  <2>4. m \in OpLogsTo(c, s)
    BY <1>4, <1>13
  <2>. QED
    BY <1>1, <1>13, <1>15, <1>19, <1>24, <2>1, <2>2, <2>3, <2>4 DEF AppliedBatch
<1>27. ASSUME NEW x \in Servers, NEW d \in Clients
       PROVE  InTurn(x, d)
  <2>1. CASE x # s
    BY <1>18, <2>1 DEF InTurn
  <2>2. CASE x = s
    <3> DEFINE b == toClient[s][d]
               e == Replies(d)
               a == Ack(d)
    <3>1. e \in Seq(RowReplyMsgs) /\ Range(e) \subseteq FreshReplies(s, d)'
      BY <1>17
    <3>2. b \in Seq(ToClientMsgs)
      BY DEF TypeOK, TypeNet, ToClientMsgs
    <3>3. a \in Seq(ToClientMsgs) /\ OfType(a, "RowReply") = {}
      <4>1. ack.type = "OpLogAck" /\ ack \in ToClientMsgs
        BY <1>8 DEF AckMsgs, ToClientMsgs
      <4>2. a = << ack >> \/ a = << >>
        OBVIOUS
      <4>3. OfType(<< ack >>, "RowReply") = {} /\ << ack >> \in Seq(ToClientMsgs)
        BY <4>1 DEF OfType, Range
      <4>4. OfType(<< >>, "RowReply") = {} /\ << >> \in Seq(ToClientMsgs)
        BY DEF OfType, Range
      <4> HIDE DEF a
      <4>. QED
        BY <4>2, <4>3, <4>4
    <3>4. toClient'[x][d] = b \o e \o a
      BY <1>18, <2>2
    <3> HIDE DEF b, e, a
    <3>5. e \in Seq(ToClientMsgs)
      <4>1. RowReplyMsgs \subseteq ToClientMsgs
        BY DEF ToClientMsgs
      <4>. QED
        BY <3>1, <4>1, SeqMonotonic
    <3>6. e \o a \in Seq(ToClientMsgs) /\ b \o e \o a = b \o (e \o a)
      BY <3>2, <3>3, <3>5, ConcatAssociative, ConcatProperties
    <3>7. OfType(e \o a, "RowReply") = OfType(e, "RowReply") \cup OfType(a, "RowReply")
      BY <3>3, <3>5, OfTypeConcat
    <3>8. OfType(e, "RowReply") \subseteq Range(e)
      BY DEF OfType
    <3>9. OfType(e \o a, "RowReply") \subseteq FreshReplies(x, d)'
      BY <2>2, <3>1, <3>3, <3>7, <3>8
    <3>10. toClient[x][d] = b
      BY <2>2 DEF b
    <3>. QED
      BY <3>4, <3>6, <3>9, <3>10 DEF InTurn
  <2>. QED
    BY <2>1, <2>2
<1>. QED
  BY <1>7, <1>20, <1>21, <1>22, <1>25, <1>26, <1>27 DEF ChannelInv, AllInTurn
-----------------------------------------------------------------------------
(* Every step keeps the channels in order and has one of the effects.      *)
LEMMA StepEffect == TypeOK /\ ChannelInv /\ [Next]_vars => ChannelInv' /\ Effect
<1>1. SUFFICES ASSUME TypeOK, ChannelInv, [Next]_vars
               PROVE  ChannelInv' /\ Effect
  OBVIOUS
<1>2. Writers \subseteq Threads /\ Readers \subseteq Threads
  BY SSPAssumption
<1>3. ASSUME NEW t \in Writers, NEW r \in Rows, Inc(t, r)
      PROVE  ChannelInv' /\ Effect
  BY <1>1, <1>2, <1>3, IncStep DEF Effect
<1>4. ASSUME NEW t \in Threads, NEW r \in Rows,
             GetCached(t, r) \/ GetFetch(t, r) \/ GetResume(t) \/ ClockFlush(t) \/ ClockTick(t)
      PROVE  ChannelInv' /\ Effect
  BY <1>1, <1>4, AppStep DEF Effect
<1>5. ASSUME NEW t \in Threads, BgClock(t) \/ BgSendOpLog(t)
      PROVE  ChannelInv' /\ Effect
  BY <1>1, <1>5, BgClockStep DEF Effect
<1>6. ASSUME NEW t \in Threads, BgRowRequest(t)
      PROVE  ChannelInv' /\ Effect
  BY <1>1, <1>6, BgRowRequestStep DEF Effect
<1>7. ASSUME NEW c \in Clients, NEW r \in Rows, Evict(c, r)
      PROVE  ChannelInv' /\ Effect
  BY <1>1, <1>7, EvictStep DEF Effect
<1>8. ASSUME NEW c \in Clients, NEW s \in Servers, BgRowReply(s, c)
      PROVE  ChannelInv' /\ Effect
  BY <1>1, <1>8, BgRowReplyStep DEF Effect
<1>9. ASSUME NEW c \in Clients, NEW s \in Servers, BgOpLogAck(s, c)
      PROVE  ChannelInv' /\ Effect
  BY <1>1, <1>9, BgOpLogAckStep DEF Effect
<1>10. ASSUME NEW c \in Clients, NEW s \in Servers, ServerRowRequest(c, s)
       PROVE  ChannelInv' /\ Effect
  BY <1>1, <1>10, ServerRowRequestStep DEF Effect
<1>11. ASSUME NEW c \in Clients, NEW s \in Servers, ServerOpLog(c, s)
       PROVE  ChannelInv' /\ Effect
  BY <1>1, <1>11, ServerOpLogStep DEF Effect
<1>12. CASE UNCHANGED vars
  <2>1. /\ failed' \notin {"bg_version", "RecvAck"}
        /\ UNCHANGED <<toServer, toClient, made, data, oplog, version, mgr, sClock, sVersion,
                       sent, acked, pend, queued, twice, storage>>
    BY <1>1, <1>12 DEF vars, ChannelInv, OrderKept, clientVars, bgVars, serverVars, netVars,
                       histVars
  <2>. QED
    BY <1>1, <2>1, QuietStep DEF Effect
<1>13. Rows # {}
  BY SSPAssumption
<1>. QED
  BY <1>1, <1>2, <1>3, <1>4, <1>5, <1>6, <1>7, <1>8, <1>9, <1>10, <1>11, <1>12, <1>13
     DEF Next, Step, Rest

LEMMA TypeNext == TypeOK /\ [Next]_vars => TypeOK'
BY StepType, StutterType DEF Next, Rest

(* Batches reach a server, and acknowledgements the worker, in the order   *)
(* of their versions and without gaps, so the CHECKs of HandleOpLogMsg and *)
(* of MsgTracker::RecvAck never fail.                                      *)
THEOREM BatchesInOrder == Spec => []OrderKept
<1>1. Init => TypeOK /\ ChannelInv
  BY InitType, InitChannel
<1>2. TypeOK /\ ChannelInv /\ [Next]_vars => TypeOK' /\ ChannelInv'
  BY TypeNext, StepEffect
<1>3. ChannelInv => OrderKept
  BY DEF ChannelInv
<1>. QED
  BY <1>1, <1>2, <1>3, PTL DEF Spec

(* Who still owes an acknowledgement when a batch waits.                   *)
LEMMA AckOwed ==
  ASSUME TypeOK, ChannelInv, NEW c \in Clients, pend[c].on
  PROVE  \E s \in Servers :
           /\ sent[c][s] - acked[c][s] >= MaxPending
           /\ \/ \E m \in Range(toServer[c][s]) : m.type = "OpLog"
              \/ \E m \in Range(toClient[s][c]) : m.type = "OpLogAck"
<1>1. TypeOK /\ ChannelInv /\ pend[c].on
  OBVIOUS
<1>2. PICK s \in Servers : ~(sent[c][s] - acked[c][s] < MaxPending)
  BY <1>1 DEF ChannelInv, HeldBackWaits, CheckSendAll
<1>3. /\ sent[c][s] \in Nat /\ acked[c][s] \in Nat /\ sVersion[s][c] \in Int
      /\ MaxPending \in Nat /\ MaxPending > 0
  BY <1>1, SSPAssumption DEF TypeOK, TypeBg, TypeServer, Versions
<1>4. sent[c][s] - acked[c][s] >= MaxPending /\ acked[c][s] < sent[c][s]
  BY <1>2, <1>3
<1>5. sent[c][s] = version[c] /\ acked[c][s] <= sVersion[s][c] + 1
  BY <1>1 DEF ChannelInv, ToServerInv, ToClientInv
<1>6. CASE acked[c][s] <= sVersion[s][c]
  <2>1. acked[c][s] \in (acked[c][s] - 1) + 1 .. (sVersion[s][c] + 1) - 1
    BY <1>3, <1>6
  <2>2. PICK i \in 1 .. Len(toClient[s][c]) : toClient[s][c][i].type = "OpLogAck"
    BY <1>1, <2>1 DEF ChannelInv, ToClientInv, InOrder
  <2>3. DOMAIN toClient[s][c] = 1 .. Len(toClient[s][c])
    BY <1>1 DEF TypeOK, TypeNet
  <2>. QED
    BY <1>4, <2>2, <2>3 DEF Range
<1>7. CASE acked[c][s] = sVersion[s][c] + 1
  <2>1. acked[c][s] \in sVersion[s][c] + 1 .. version[c] - 1
    BY <1>3, <1>4, <1>5, <1>7
  <2>2. PICK i \in 1 .. Len(toServer[c][s]) : toServer[c][s][i].type = "OpLog"
    BY <1>1, <2>1 DEF ChannelInv, ToServerInv, InOrder
  <2>3. DOMAIN toServer[c][s] = 1 .. Len(toServer[c][s])
    BY <1>1 DEF TypeOK, TypeNet
  <2>. QED
    BY <1>4, <2>2, <2>3 DEF Range
<1>. QED
  BY <1>3, <1>5, <1>6, <1>7

LEMMA HeldBackAck == TypeOK /\ ChannelInv => HeldBackAwaitsAck
BY AckOwed DEF HeldBackAwaitsAck

(* A batch that waits is not forgotten: some server has not acknowledged   *)
(* MaxPending batches, and one of them or its acknowledgement is on its    *)
(* way, which lets the worker send (HandleClockMsg, kServerOpLogAck).      *)
THEOREM HeldBackIsSent == Spec => []HeldBackAwaitsAck
<1>1. Init => TypeOK /\ ChannelInv
  BY InitType, InitChannel
<1>2. TypeOK /\ ChannelInv /\ [Next]_vars => TypeOK' /\ ChannelInv'
  BY TypeNext, StepEffect
<1>. QED
  BY <1>1, <1>2, HeldBackAck, PTL DEF Spec
-----------------------------------------------------------------------------
(* The updates of a thread in a clock are numbered from 1 without gaps, so *)
(* an Inc() makes an update that was not there.                            *)
Numbered(S) == \A u \in S : \A i \in 1 .. u[3] : <<u[1], u[2], i>> \in S

LEMMA NextNumber ==
  ASSUME NEW S \in SUBSET Updates, Numbered(S), NEW t \in Threads, NEW k \in Clocks,
         NEW n \in 1 .. MaxIncs,
         n = Cardinality({ v \in S : v[1] = t /\ v[2] = k }) + 1
  PROVE  /\ <<t, k, n>> \notin S
         /\ \A i \in 1 .. n - 1 : <<t, k, i>> \in S
         /\ Numbered(S \cup {<<t, k, n>>})
<1> DEFINE M == { v \in S : v[1] = t /\ v[2] = k }
           N == { i \in 1 .. MaxIncs : <<t, k, i>> \in S }
           f == [i \in N |-> <<t, k, i>>]
<1>1. IsFiniteSet(N) /\ N \subseteq 1 .. MaxIncs
  <2>1. MaxIncs \in Int /\ IsFiniteSet(1 .. MaxIncs)
    BY SSPAssumption, FS_Interval
  <2>. QED
    BY <2>1, FS_Subset
<1>2. f \in Bijection(N, M)
  <2>1. f \in [N -> M]
    OBVIOUS
  <2>2. IsInjective(f)
    BY DEF IsInjective
  <2>3. ASSUME NEW v \in M
        PROVE  \E i \in N : f[i] = v
    <3>1. v \in Threads \X Clocks \X (1 .. MaxIncs) /\ v[1] = t /\ v[2] = k /\ v \in S
      BY DEF Updates
    <3>2. v = <<t, k, v[3]>> /\ v[3] \in 1 .. MaxIncs
      BY <3>1
    <3>. QED
      BY <3>1, <3>2
  <2> HIDE DEF M, N, f
  <2>. QED
    BY <2>1, <2>2, <2>3 DEF Bijection, Injection, Surjection
<1>3. Cardinality(M) = Cardinality(N)
  <2>1. ExistsBijection(N, M)
    BY <1>2 DEF ExistsBijection
  <2>. QED
    BY <1>1, <2>1, FS_Bijection
<1>4. n = Cardinality(N) + 1 /\ MaxIncs \in Nat
  BY <1>3, SSPAssumption
<1> HIDE DEF M, f
<1>5. \E g \in Nat : N = 1 .. g
  <2>1. CASE N = {}
    BY <2>1
  <2>2. CASE N # {}
    <3>1. N \subseteq Int
      BY <1>1
    <3>2. PICK g \in N : \A y \in N : g >= y
      <4> HIDE DEF N
      <4>. QED
        BY <1>1, <2>2, <3>1, FiniteHasGreatest
    <3>3. g \in 1 .. MaxIncs /\ <<t, k, g>> \in S
      BY <3>2
    <3>4. \A i \in 1 .. g : <<t, k, i>> \in S
      BY <3>3 DEF Numbered
    <3>5. \A i \in 1 .. g : i \in 1 .. MaxIncs
      BY <1>4, <3>3
    <3>6. N = 1 .. g
      BY <1>4, <3>2, <3>3, <3>4, <3>5
    <3>. QED
      BY <3>3, <3>6
  <2>. QED
    BY <2>1, <2>2
<1>6. PICK g \in Nat : N = 1 .. g
  BY <1>5
<1>7. \A i \in 1 .. MaxIncs : i \in N <=> <<t, k, i>> \in S
  OBVIOUS
<1> HIDE DEF N
<1>8. Cardinality(N) = g
  <2>1. g \in Int /\ 1 \in Int
    OBVIOUS
  <2>2. Cardinality(1 .. g) = IF 1 > g THEN 0 ELSE g - 1 + 1
    BY <2>1, FS_Interval
  <2>. QED
    BY <1>6, <2>2
<1>9. n = g + 1 /\ \A i \in 1 .. n - 1 : i \in 1 .. MaxIncs
  BY <1>4, <1>8
<1>10. <<t, k, n>> \notin S /\ \A i \in 1 .. n - 1 : <<t, k, i>> \in S
  <2>1. n \notin N /\ \A i \in 1 .. n - 1 : i \in N
    <3>1. n = g + 1 /\ N = 1 .. g /\ g \in Nat
      BY <1>6, <1>9
    <3>2. \A i \in 1 .. n - 1 : i \in 1 .. g
      BY <3>1
    <3>3. n \notin 1 .. g
      BY <3>1
    <3>. QED
      BY <3>1, <3>2, <3>3
  <2>2. <<t, k, n>> \notin S
    BY <1>7, <2>1
  <2>3. ASSUME NEW i \in 1 .. n - 1
        PROVE  <<t, k, i>> \in S
    BY <1>7, <1>9, <2>1
  <2>. QED
    BY <2>2, <2>3
<1>11. Numbered(S \cup {<<t, k, n>>})
  <2>1. SUFFICES ASSUME NEW u \in S \cup {<<t, k, n>>}, NEW i \in 1 .. u[3]
                 PROVE  <<u[1], u[2], i>> \in S \cup {<<t, k, n>>}
    BY DEF Numbered
  <2>2. CASE u \in S
    BY <2>2 DEF Numbered
  <2>3. CASE u = <<t, k, n>>
    <3>1. i = n \/ i \in 1 .. n - 1
      BY <2>3
    <3>. QED
      BY <1>10, <2>3, <3>1
  <2>. QED
    BY <2>2, <2>3
<1>. QED
  BY <1>10, <1>11

-----------------------------------------------------------------------------
(* The manager gives up batches and remembers the one just sent, no other. *)
LEMMA AddOpLogKept ==
  ASSUME NEW m \in Managers, NEW v, NEW log
  PROVE  /\ m.kept \subseteq AddOpLog(m, v, log).kept
         /\ AddOpLog(m, v, log).kept \subseteq m.kept \cup {[version |-> v, log |-> log]}
BY DEF AddOpLog, Managers

LEMMA InformReplyKept ==
  ASSUME NEW m \in Managers, NEW r \in Rows, NEW k, NEW v
  PROVE  InformReply(m, r, k, v).kept \subseteq m.kept
<1> DEFINE popped == PopServed(m, r, k, v)
<1>1. \A n : Popped(m, r, n).kept = m.kept /\ DOMAIN Popped(m, r, n) = {"reqs", "kept"}
  BY DEF Popped, Managers
<1>2. \A x, gone : DOMAIN x = {"reqs", "kept"} =>
        /\ Without(x, gone).kept \subseteq x.kept
        /\ DOMAIN Without(x, gone) = {"reqs", "kept"}
  BY DEF Without
<1>3. popped.kept \subseteq m.kept /\ DOMAIN popped = {"reqs", "kept"}
  BY <1>1, <1>2 DEF PopServed
<1> HIDE DEF popped
<1>4. /\ Renewed(popped, r, v).kept = popped.kept
      /\ DOMAIN Renewed(popped, r, v) = {"reqs", "kept"}
  BY <1>3 DEF Renewed
<1>5. InformReply(m, r, k, v).kept \subseteq popped.kept
  BY <1>2, <1>3, <1>4 DEF InformReply, popped
<1>. QED
  BY <1>3, <1>5
-----------------------------------------------------------------------------
(* Whose updates a part of the state may hold, and that every update made  *)
(* is in one of them.                                                      *)
Own(c, r) == { u \in made[r] : ClientOf[u[1]] = c }

OwnLogs ==
  \A c \in Clients, r \in Rows :
    /\ oplog[c][r] \subseteq Own(c, r)
    /\ \A k \in mgr[c].kept : k.log[r] \subseteq Own(c, r)
    /\ \A s \in Servers : \A m \in OpLogsTo(c, s) :
         /\ m.log[r] \subseteq Own(c, r)
         /\ ServerOf[r] # s => m.log[r] = {}

MadeValues ==
  /\ \A r \in Rows : data[r] \subseteq made[r]
  /\ \A c \in Clients, r \in Rows : storage[c][r].data \subseteq made[r]
  /\ \A c \in Clients, s \in Servers : \A m \in RepliesTo(s, c) : m.data \subseteq made[m.row]

MadeNumbered == \A r \in Rows : Numbered(made[r])

Accounted ==
  \A r \in Rows : \A u \in made[r] :
    LET c == ClientOf[u[1]]
    IN  \/ u \in data[r]
        \/ u \in oplog[c][r]
        \/ \E m \in OpLogsTo(c, ServerOf[r]) : u \in m.log[r]

OwnInv == OwnLogs /\ MadeValues /\ MadeNumbered /\ Accounted

LEMMA ChannelTypes ==
  ASSUME TypeOK, NEW c \in Clients, NEW s \in Servers
  PROVE  /\ OpLogsTo(c, s) \subseteq OpLogMsgs
         /\ RepliesTo(s, c) \subseteq RowReplyMsgs
<1>1. /\ \A m \in Range(toServer[c][s]) : m \in ToServerMsgs
      /\ \A m \in Range(toClient[s][c]) : m \in ToClientMsgs
  BY DEF TypeOK, TypeNet, Range, ToServerMsgs, ToClientMsgs
<1>. QED
  BY <1>1, ToServerMsgTypes, ToClientMsgTypes DEF OpLogsTo, RepliesTo, OfType

LEMMA InitOwn == Init => OwnInv
<1>1. SUFFICES ASSUME Init PROVE OwnInv
  OBVIOUS
<1>2. /\ \A c \in Clients, s \in Servers : toServer[c][s] = << >> /\ toClient[s][c] = << >>
      /\ \A r \in Rows : made[r] = {} /\ data[r] = {}
      /\ \A c \in Clients, r \in Rows : oplog[c][r] = {} /\ storage[c][r] = NoRow
      /\ \A c \in Clients : mgr[c] = NoRequests
  BY <1>1 DEF Init
<1>3. \A c \in Clients, s \in Servers : OpLogsTo(c, s) = {} /\ RepliesTo(s, c) = {}
  BY <1>2 DEF OpLogsTo, RepliesTo, OfType, Range
<1>. QED
  BY <1>2, <1>3 DEF OwnInv, OwnLogs, MadeValues, MadeNumbered, Numbered, Accounted,
                    NoRequests, NoRow

(* An Inc() makes a new update, into the oplog of its client and into the  *)
(* cached row.                                                             *)
IncEffect(c, r, u) ==
  /\ ClientOf[u[1]] = c /\ u \notin made[r]
  /\ \A x \in Rows : made'[x] = IF x = r THEN made[x] \cup {u} ELSE made[x]
  /\ \A d \in Clients, x \in Rows :
       oplog'[d][x] = IF d = c /\ x = r THEN oplog[d][x] \cup {u} ELSE oplog[d][x]
  /\ \A d \in Clients, x \in Rows :
       /\ (storage'[d][x] = NoRow) <=> (storage[d][x] = NoRow)
       /\ storage'[d][x].data = IF d = c /\ x = r /\ Cached(d, x)
                                THEN storage[d][x].data \cup {u} ELSE storage[d][x].data
       /\ storage'[d][x].clock = storage[d][x].clock
  /\ UNCHANGED <<data, mgr, version, sClock, sVersion, twice>>
  /\ SameOpLogs /\ \A d \in Clients, s \in Servers : RepliesTo(s, d)' = RepliesTo(s, d)

LEMMA IncIsEffect ==
  ASSUME TypeOK, MadeNumbered, NEW t \in Threads, NEW r \in Rows, Inc(t, r)
  PROVE  \E u \in Updates : IncEffect(ClientOf[t], r, u) /\ Numbered(made'[r])
<1> DEFINE c == ClientOf[t]
<1>1. PICK n \in 1 .. MaxIncs :
        /\ n = Cardinality({ v \in made[r] : v[1] = t /\ v[2] = clock[t] }) + 1
        /\ oplog'   = [oplog EXCEPT ![c][r] = @ \cup {<<t, clock[t], n>>}]
        /\ storage' = IF Cached(c, r)
                      THEN [storage EXCEPT ![c][r].data = @ \cup {<<t, clock[t], n>>}]
                      ELSE storage
        /\ made'    = [made EXCEPT ![r] = @ \cup {<<t, clock[t], n>>}]
        /\ UNCHANGED <<data, mgr, version, sClock, sVersion, twice, toServer, toClient>>
  BY DEF Inc, FindInsertOpLog, bgVars, serverVars, netVars
<1> DEFINE u == <<t, clock[t], n>>
<1>2. c \in Clients /\ clock[t] \in Clocks /\ made[r] \in SUBSET Updates /\ Numbered(made[r])
  BY SSPAssumption DEF TypeOK, TypeApp, TypeHistory, Logs, MadeNumbered
<1>3. u \notin made[r] /\ Numbered(made[r] \cup {u})
  <2> DEFINE S == made[r]
             k == clock[t]
  <2>1. /\ n = Cardinality({ v \in S : v[1] = t /\ v[2] = k }) + 1
        /\ S \in SUBSET Updates /\ Numbered(S) /\ k \in Clocks
    BY <1>1, <1>2
  <2> HIDE DEF S, k
  <2>2. <<t, k, n>> \notin S /\ Numbered(S \cup {<<t, k, n>>})
    BY <2>1, NextNumber
  <2>. QED
    BY <2>2 DEF S, k
<1>4. u \in Updates /\ ClientOf[u[1]] = c
  BY <1>2 DEF Updates
<1>5. SameOpLogs /\ \A d \in Clients, s \in Servers : RepliesTo(s, d)' = RepliesTo(s, d)
  BY <1>1 DEF SameOpLogs, OpLogsTo, RepliesTo
<1> DEFINE v == u
<1>6. /\ oplog'   = [oplog EXCEPT ![c][r] = @ \cup {v}]
      /\ storage' = IF Cached(c, r) THEN [storage EXCEPT ![c][r].data = @ \cup {v}] ELSE storage
      /\ made'    = [made EXCEPT ![r] = @ \cup {v}]
  BY <1>1
<1>7. v \in Updates /\ ClientOf[v[1]] = c /\ v \notin made[r] /\ Numbered(made[r] \cup {v})
  BY <1>3, <1>4
<1> HIDE DEF v, c
<1>8. \A x \in Rows : made'[x] = IF x = r THEN made[x] \cup {v} ELSE made[x]
  BY <1>6 DEF TypeOK, TypeHistory, Logs
<1>9. \A d \in Clients, x \in Rows :
        oplog'[d][x] = IF d = c /\ x = r THEN oplog[d][x] \cup {v} ELSE oplog[d][x]
  BY <1>2, <1>6 DEF TypeOK, TypeClient, Logs
<1>10. ASSUME NEW d \in Clients, NEW x \in Rows
       PROVE  /\ (storage'[d][x] = NoRow) <=> (storage[d][x] = NoRow)
              /\ storage'[d][x].data = IF d = c /\ x = r /\ Cached(d, x)
                                       THEN storage[d][x].data \cup {v} ELSE storage[d][x].data
              /\ storage'[d][x].clock = storage[d][x].clock
  <2>1. CASE d = c /\ x = r /\ Cached(d, x)
    <3>1. storage' = [storage EXCEPT ![c][r].data = @ \cup {v}]
      BY <1>6, <2>1
    <3>2. storage[d][x] \in CachedRows /\ storage \in [Clients -> [Rows -> CachedRows]]
      BY DEF TypeOK, TypeClient
    <3>3. storage'[d][x] = [storage[d][x] EXCEPT !.data = @ \cup {v}]
      BY <1>2, <2>1, <3>1, <3>2
    <3>4. /\ storage'[d][x].data = storage[d][x].data \cup {v}
          /\ storage'[d][x].clock = storage[d][x].clock
      BY <3>2, <3>3 DEF CachedRows
    <3>5. storage'[d][x] # NoRow
      BY <3>4 DEF NoRow
    <3>. QED
      BY <2>1, <3>4, <3>5 DEF Cached
  <2>2. CASE ~(d = c /\ x = r /\ Cached(d, x))
    <3>1. storage'[d][x] = storage[d][x]
      BY <1>2, <1>6, <2>2 DEF TypeOK, TypeClient
    <3>. QED
      BY <2>2, <3>1
  <2>. QED
    BY <2>1, <2>2
<1>11. IncEffect(c, r, v) /\ Numbered(made'[r])
  BY <1>1, <1>5, <1>7, <1>8, <1>9, <1>10 DEF IncEffect
<1>. QED
  BY <1>7, <1>11 DEF c
(* What a batch takes with it.                                             *)
LEMMA SentEffect ==
  ASSUME TypeOK, NEW c \in Clients, NEW advanced, NEW clk, Sent(c, advanced, clk)
  PROVE  /\ \A r \in Rows : /\ Batch(c)[r] \subseteq oplog[c][r]
                            /\ oplog'[c][r] = oplog[c][r] \ Batch(c)[r]
         /\ mgr[c].kept \subseteq mgr'[c].kept
         /\ mgr'[c].kept \subseteq mgr[c].kept \cup {[version |-> version[c], log |-> Batch(c)]}
         /\ \A s \in Servers :
              LET m == OpLogMsg(c, s, advanced, clk)
              IN  /\ OpLogsTo(c, s)' = OpLogsTo(c, s) \cup {m}
                  /\ m.version = version[c] /\ m.isClock = advanced /\ m.bgClock = clk
                  /\ \A r \in Rows : m.log[r] = IF ServerOf[r] = s THEN Batch(c)[r] ELSE {}
<1>1. mgr[c] \in Managers
  BY DEF TypeOK, TypeBg
<1>2. /\ mgr[c].kept \subseteq mgr'[c].kept
      /\ mgr'[c].kept \subseteq mgr[c].kept \cup {[version |-> version[c], log |-> Batch(c)]}
  BY <1>1, AddOpLogKept DEF Sent
<1>3. \A r \in Rows : /\ Batch(c)[r] \subseteq oplog[c][r]
                      /\ oplog'[c][r] = oplog[c][r] \ Batch(c)[r]
  BY DEF Sent, Batch, Remaining
<1>4. ASSUME NEW s \in Servers
      PROVE  LET m == OpLogMsg(c, s, advanced, clk)
             IN  /\ OpLogsTo(c, s)' = OpLogsTo(c, s) \cup {m}
                 /\ m.version = version[c] /\ m.isClock = advanced /\ m.bgClock = clk
                 /\ \A r \in Rows : m.log[r] = IF ServerOf[r] = s THEN Batch(c)[r] ELSE {}
  BY DEF Sent, OpLogMsg
<1>. QED
  BY <1>2, <1>3, <1>4

(* The parts a row is added up from.                                       *)
LEMMA AddendsParts ==
  ASSUME TypeOK, NEW c \in Clients, NEW m \in RowReplyMsgs, ~Missing(c, m.version),
         NEW v \in DOMAIN Addends(c, m)
  PROVE  /\ v \in m.version .. version[c]
         /\ \/ v = m.version /\ Addends(c, m)[v] = m.data
            \/ v # m.version /\ v = version[c] /\ Addends(c, m)[v] = oplog[c][m.row]
            \/ /\ m.version < v /\ v < version[c]
               /\ \E k \in mgr[c].kept : k.version = v /\ Addends(c, m)[v] = k.log[m.row]
<1>1. m.version \in Int /\ version[c] \in Nat
  BY DEF RowReplyMsgs, Versions, TypeOK, TypeBg
<1>2. v \in m.version .. version[c]
  BY DEF Addends
<1>3. CASE v = m.version
  BY <1>2, <1>3 DEF Addends
<1>4. CASE v # m.version /\ v = version[c]
  BY <1>2, <1>4 DEF Addends
<1>5. CASE v # m.version /\ v # version[c]
  <2>1. v \in (m.version + 1) .. (version[c] - 1)
    BY <1>1, <1>2, <1>5
  <2>2. HasOpLog(mgr[c], v)
    BY <2>1 DEF Missing
  <2> DEFINE k == CHOOSE x \in mgr[c].kept : x.version = v
  <2>3. k \in mgr[c].kept /\ k.version = v
    BY <2>2 DEF HasOpLog
  <2>4. Addends(c, m)[v] = k.log[m.row]
    BY <1>2, <1>5 DEF Addends, GetOpLog
  <2>5. m.version < v /\ v < version[c]
    BY <1>1, <2>1
  <2> HIDE DEF k
  <2>. QED
    BY <1>2, <2>3, <2>4, <2>5
<1>. QED
  BY <1>2, <1>3, <1>4, <1>5

LEMMA ReplayedRow ==
  ASSUME TypeOK, NEW c \in Clients, NEW s \in Servers, NEW m, RowRebuilt(s, c, m)
  PROVE  /\ m \in RowReplyMsgs /\ m.row \in Rows
         /\ \A d \in Clients, r \in Rows :
              storage'[d][r] = IF d = c /\ r = m.row THEN NewRow(c, m) ELSE storage[d][r]
         /\ \A d \in Clients : mgr'[d].kept \subseteq mgr[d].kept
<1>1. m \in RowReplyMsgs /\ m.row \in Rows
  BY ChannelTypes DEF RowRebuilt, RowReplyMsgs
<1>2. \A d \in Clients, r \in Rows :
        storage'[d][r] = IF d = c /\ r = m.row THEN NewRow(c, m) ELSE storage[d][r]
  BY <1>1 DEF RowRebuilt, TypeOK, TypeClient
<1>3. ASSUME NEW d \in Clients
      PROVE  mgr'[d].kept \subseteq mgr[d].kept
  <2>1. mgr[c] \in Managers /\ mgr \in [Clients -> Managers]
    BY DEF TypeOK, TypeBg
  <2>2. InformReply(mgr[c], m.row, m.clock, version[c]).kept \subseteq mgr[c].kept
    BY <1>1, <2>1, InformReplyKept
  <2>. QED
    BY <2>1, <2>2 DEF RowRebuilt
<1>. QED
  BY <1>1, <1>2, <1>3

-----------------------------------------------------------------------------
(* OwnInv under each effect.                                               *)
LEMMA IncOwn ==
  ASSUME TypeOK, OwnInv, NEW c \in Clients, NEW r \in Rows, NEW u,
         IncEffect(c, r, u), Numbered(made'[r])
  PROVE  OwnInv'
<1>1. \A x \in Rows : made[x] \subseteq made'[x] /\ (u \in made'[x] \/ x # r)
  BY DEF IncEffect
<1>2. \A d \in Clients, x \in Rows : Own(d, x) \subseteq Own(d, x)'
  BY <1>1 DEF Own
<1>3. u \in Own(c, r)'
  BY <1>1 DEF Own, IncEffect
<1>4. OwnLogs'
  <2>1. SUFFICES ASSUME NEW d \in Clients, NEW x \in Rows
                 PROVE  /\ oplog'[d][x] \subseteq Own(d, x)'
                        /\ \A k \in mgr'[d].kept : k.log[x] \subseteq Own(d, x)'
                        /\ \A s \in Servers : \A m \in OpLogsTo(d, s)' :
                             /\ m.log[x] \subseteq Own(d, x)'
                             /\ ServerOf[x] # s => m.log[x] = {}
    BY DEF OwnLogs
  <2>2. /\ oplog[d][x] \subseteq Own(d, x)
        /\ \A k \in mgr[d].kept : k.log[x] \subseteq Own(d, x)
        /\ \A s \in Servers : \A m \in OpLogsTo(d, s) :
             /\ m.log[x] \subseteq Own(d, x)
             /\ ServerOf[x] # s => m.log[x] = {}
    BY DEF OwnInv, OwnLogs
  <2>3. oplog'[d][x] \subseteq Own(d, x)'
    <3>1. \/ oplog'[d][x] = oplog[d][x]
          \/ d = c /\ x = r /\ oplog'[d][x] = oplog[d][x] \cup {u}
      BY ZenonT(30) DEF IncEffect
    <3>. QED
      BY <1>2, <1>3, <2>2, <3>1
  <2>4. \A k \in mgr'[d].kept : k.log[x] \subseteq Own(d, x)'
    BY <1>2, <2>2 DEF IncEffect
  <2>5. \A s \in Servers : OpLogsTo(d, s)' = OpLogsTo(d, s)
    BY DEF IncEffect, SameOpLogs
  <2>. QED
    BY <1>2, <2>2, <2>3, <2>4, <2>5
<1>5. MadeValues'
  <2>1. \A x \in Rows : data'[x] \subseteq made'[x]
    BY <1>1 DEF OwnInv, MadeValues, IncEffect
  <2>2. ASSUME NEW d \in Clients, NEW x \in Rows
        PROVE  storage'[d][x].data \subseteq made'[x]
    <3>1. storage[d][x].data \subseteq made[x]
      BY DEF OwnInv, MadeValues
    <3>2. \/ storage'[d][x].data = storage[d][x].data
          \/ x = r /\ storage'[d][x].data = storage[d][x].data \cup {u}
      BY ZenonT(30) DEF IncEffect
    <3>. QED
      BY <1>1, <3>1, <3>2
  <2>3. ASSUME NEW d \in Clients, NEW s \in Servers, NEW m \in RepliesTo(s, d)'
        PROVE  m.data \subseteq made'[m.row]
    <3>1. m \in RepliesTo(s, d)
      BY <2>3 DEF IncEffect
    <3>2. m.data \subseteq made[m.row] /\ m.row \in Rows
      BY <3>1, ChannelTypes DEF OwnInv, MadeValues, RowReplyMsgs
    <3>. QED
      BY <1>1, <3>2
  <2>. QED
    BY <2>1, <2>2, <2>3 DEF MadeValues
<1>6. MadeNumbered'
  BY DEF OwnInv, MadeNumbered, IncEffect
<1>7. Accounted'
  <2>1. SUFFICES ASSUME NEW x \in Rows, NEW v \in made'[x]
                 PROVE  LET d == ClientOf[v[1]]
                        IN  \/ v \in data'[x]
                            \/ v \in oplog'[d][x]
                            \/ \E m \in OpLogsTo(d, ServerOf[x])' : v \in m.log[x]
    BY DEF Accounted
  <2>2. CASE v \in made[x]
    <3> DEFINE d == ClientOf[v[1]]
    <3>1. d \in Clients /\ ServerOf[x] \in Servers
      BY <2>2, SSPAssumption DEF TypeOK, TypeHistory, Logs, Updates
    <3>2. \/ v \in data[x]
          \/ v \in oplog[d][x]
          \/ \E m \in OpLogsTo(d, ServerOf[x]) : v \in m.log[x]
      BY <2>2 DEF OwnInv, Accounted
    <3> HIDE DEF d
    <3>3. data' = data /\ oplog[d][x] \subseteq oplog'[d][x]
          /\ OpLogsTo(d, ServerOf[x])' = OpLogsTo(d, ServerOf[x])
      BY <3>1 DEF IncEffect, SameOpLogs
    <3>4. \/ v \in data'[x]
          \/ v \in oplog'[d][x]
          \/ \E m \in OpLogsTo(d, ServerOf[x])' : v \in m.log[x]
      BY <3>2, <3>3
    <3>. QED
      BY <3>4 DEF d
  <2>3. CASE v \notin made[x]
    <3>1. made'[x] = IF x = r THEN made[x] \cup {u} ELSE made[x]
      BY DEF IncEffect
    <3>2. x = r /\ v = u
      BY <2>3, <3>1
    <3>3. oplog'[c][r] = oplog[c][r] \cup {u}
      BY DEF IncEffect
    <3>4. ClientOf[u[1]] = c
      BY DEF IncEffect
    <3>5. ClientOf[v[1]] = c
      BY <3>2, <3>4
    <3>6. v \in oplog'[ClientOf[v[1]]][x]
      BY <3>2, <3>3, <3>5
    <3>. QED
      BY <3>6
  <2>. QED
    BY <2>2, <2>3
<1>. QED
  BY <1>4, <1>5, <1>6, <1>7 DEF OwnInv

LEMMA QuietOwn ==
  ASSUME TypeOK, OwnInv, Quiet
  PROVE  OwnInv'
<1>1. \A d \in Clients, x \in Rows : Own(d, x)' = Own(d, x)
  BY DEF Own, Quiet
<1>2. OwnLogs'
  BY <1>1 DEF OwnInv, OwnLogs, Quiet, SameOpLogs
<1>3. MadeValues'
  <2>1. \A x \in Rows : data'[x] \subseteq made'[x]
    BY DEF OwnInv, MadeValues, Quiet
  <2>2. \A d \in Clients, x \in Rows : storage'[d][x].data \subseteq made'[x]
    BY DEF OwnInv, MadeValues, Quiet, NoRow
  <2>3. ASSUME NEW d \in Clients, NEW s \in Servers, NEW m \in RepliesTo(s, d)'
        PROVE  m.data \subseteq made'[m.row]
    <3>1. CASE m \in RepliesTo(s, d)
      BY <3>1 DEF OwnInv, MadeValues, Quiet
    <3>2. CASE m \in FreshReplies(s, d)'
      BY <2>1, <3>2 DEF FreshReplies, RowReplyMsg
    <3>. QED
      BY <2>3, <3>1, <3>2 DEF Quiet, FewerOrFreshReplies
  <2>. QED
    BY <2>1, <2>2, <2>3 DEF MadeValues
<1>4. MadeNumbered'
  BY DEF OwnInv, MadeNumbered, Quiet
<1>5. Accounted'
  <2>1. ServerOf \in [Rows -> Servers] /\ ClientOf \in [Threads -> Clients]
    BY SSPAssumption
  <2>2. \A r \in Rows : \A u \in made[r] : ClientOf[u[1]] \in Clients
    BY <2>1 DEF TypeOK, TypeHistory, Logs, Updates
  <2>. QED
    BY <2>1, <2>2 DEF OwnInv, Accounted, Quiet, SameOpLogs
<1>. QED
  BY <1>2, <1>3, <1>4, <1>5 DEF OwnInv
LEMMA BatchedOwn ==
  ASSUME TypeOK, OwnInv, NEW c \in Clients, NEW advanced, Batched(c, advanced)
  PROVE  OwnInv'
<1> DEFINE clk == bgClock'[c]
           M(s) == OpLogMsg(c, s, advanced, clk)
<1>1. /\ \A r \in Rows : /\ Batch(c)[r] \subseteq oplog[c][r]
                         /\ oplog'[c][r] = oplog[c][r] \ Batch(c)[r]
      /\ mgr'[c].kept \subseteq mgr[c].kept \cup {[version |-> version[c], log |-> Batch(c)]}
      /\ \A s \in Servers :
           /\ OpLogsTo(c, s)' = OpLogsTo(c, s) \cup {M(s)}
           /\ \A r \in Rows : M(s).log[r] = IF ServerOf[r] = s THEN Batch(c)[r] ELSE {}
  BY SentEffect DEF Batched
<1> HIDE DEF M
<1>2. \A d \in Clients : d # c =>
        /\ UNCHANGED <<oplog[d], mgr[d]>>
        /\ \A s \in Servers : OpLogsTo(d, s)' = OpLogsTo(d, s)
  BY DEF Batched, Sent
<1>3. UNCHANGED <<made, data, storage>>
  BY DEF Batched
<1>4. \A d \in Clients, x \in Rows : Own(d, x)' = Own(d, x)
  BY <1>3 DEF Own
<1>5. OwnLogs'
  <2>1. SUFFICES ASSUME NEW d \in Clients, NEW x \in Rows
                 PROVE  /\ oplog'[d][x] \subseteq Own(d, x)
                        /\ \A k \in mgr'[d].kept : k.log[x] \subseteq Own(d, x)
                        /\ \A s \in Servers : \A m \in OpLogsTo(d, s)' :
                             /\ m.log[x] \subseteq Own(d, x)
                             /\ ServerOf[x] # s => m.log[x] = {}
    BY <1>4 DEF OwnLogs
  <2>2. /\ oplog[d][x] \subseteq Own(d, x)
        /\ \A k \in mgr[d].kept : k.log[x] \subseteq Own(d, x)
        /\ \A s \in Servers : \A m \in OpLogsTo(d, s) :
             /\ m.log[x] \subseteq Own(d, x)
             /\ ServerOf[x] # s => m.log[x] = {}
    BY DEF OwnInv, OwnLogs
  <2>3. CASE d # c
    BY <1>2, <2>2, <2>3
  <2>4. CASE d = c
    <3>1. Batch(c)[x] \subseteq Own(c, x)
      BY <1>1, <2>2, <2>4
    <3>2. oplog'[c][x] \subseteq Own(c, x)
      BY <1>1, <2>2, <2>4
    <3>3. \A k \in mgr'[c].kept : k.log[x] \subseteq Own(c, x)
      BY <1>1, <2>2, <2>4, <3>1
    <3>4. ASSUME NEW s \in Servers, NEW m \in OpLogsTo(c, s)'
          PROVE  /\ m.log[x] \subseteq Own(c, x)
                 /\ ServerOf[x] # s => m.log[x] = {}
      <4>1. m \in OpLogsTo(c, s) \/ m = M(s)
        BY <1>1, <3>4
      <4>2. CASE m = M(s)
        BY <1>1, <3>1, <4>2
      <4>. QED
        BY <2>2, <2>4, <4>1, <4>2
    <3>. QED
      BY <2>4, <3>2, <3>3, <3>4
  <2>. QED
    BY <2>3, <2>4
<1>6. MadeValues'
  BY <1>3 DEF OwnInv, MadeValues, Batched, FewerReplies
<1>7. MadeNumbered'
  BY <1>3 DEF OwnInv, MadeNumbered
<1>8. Accounted'
  <2>1. SUFFICES ASSUME NEW x \in Rows, NEW v \in made[x]
                 PROVE  LET d == ClientOf[v[1]]
                        IN  \/ v \in data[x]
                            \/ v \in oplog'[d][x]
                            \/ \E m \in OpLogsTo(d, ServerOf[x])' : v \in m.log[x]
    BY <1>3 DEF Accounted
  <2> DEFINE d == ClientOf[v[1]]
             s == ServerOf[x]
  <2>2. d \in Clients /\ s \in Servers
    BY SSPAssumption DEF TypeOK, TypeHistory, Logs, Updates
  <2>3. \/ v \in data[x]
        \/ v \in oplog[d][x]
        \/ \E m \in OpLogsTo(d, s) : v \in m.log[x]
    BY DEF OwnInv, Accounted
  <2>4. s = ServerOf[x]
    OBVIOUS
  <2> HIDE DEF d, s
  <2>5. OpLogsTo(d, s) \subseteq OpLogsTo(d, s)'
    BY <1>1, <1>2, <2>2
  <2>6. v \in oplog[d][x] => v \in oplog'[d][x] \/ \E m \in OpLogsTo(d, s)' : v \in m.log[x]
    <3>1. CASE d # c
      BY <1>2, <2>2, <3>1
    <3>2. CASE d = c
      <4>1. M(s) \in OpLogsTo(c, s)' /\ M(s).log[x] = Batch(c)[x]
        BY <1>1, <2>2, <2>4
      <4>2. oplog'[c][x] = oplog[c][x] \ Batch(c)[x]
        BY <1>1
      <4>. QED
        BY <3>2, <4>1, <4>2
    <3>. QED
      BY <3>1, <3>2
  <2>7. \/ v \in data[x]
        \/ v \in oplog'[d][x]
        \/ \E m \in OpLogsTo(d, s)' : v \in m.log[x]
    BY <2>3, <2>5, <2>6
  <2>. QED
    BY <2>7 DEF d, s
<1>. QED
  BY <1>5, <1>6, <1>7, <1>8 DEF OwnInv

LEMMA NewRowMade ==
  ASSUME TypeOK, OwnInv, NEW c \in Clients, NEW s \in Servers, NEW m \in RepliesTo(s, c),
         ~Missing(c, m.version)
  PROVE  NewRow(c, m).data \subseteq made[m.row]
<1>1. m \in RowReplyMsgs /\ m.row \in Rows
  BY ChannelTypes DEF RowReplyMsgs
<1>2. /\ m.data \subseteq made[m.row]
      /\ oplog[c][m.row] \subseteq made[m.row]
      /\ \A k \in mgr[c].kept : k.log[m.row] \subseteq made[m.row]
  BY <1>1 DEF OwnInv, MadeValues, OwnLogs, Own
<1>3. \A v \in DOMAIN Addends(c, m) : Addends(c, m)[v] \subseteq made[m.row]
  BY <1>1, <1>2, AddendsParts
<1>. QED
  BY <1>3 DEF NewRow, Range

LEMMA ReplayedOwn ==
  ASSUME TypeOK, OwnInv, NEW c \in Clients, NEW s \in Servers, NEW m, RowRebuilt(s, c, m)
  PROVE  OwnInv'
<1>1. /\ m \in RowReplyMsgs /\ m.row \in Rows
      /\ \A d \in Clients, r \in Rows :
           storage'[d][r] = IF d = c /\ r = m.row THEN NewRow(c, m) ELSE storage[d][r]
      /\ \A d \in Clients : mgr'[d].kept \subseteq mgr[d].kept
  BY ReplayedRow
<1>2. /\ UNCHANGED <<made, data, oplog>>
      /\ m \in RepliesTo(s, c) /\ ~Missing(c, m.version)
      /\ SameOpLogs /\ FewerReplies
  BY DEF RowRebuilt
<1>3. \A d \in Clients, x \in Rows : Own(d, x)' = Own(d, x)
  BY <1>2 DEF Own
<1>4. OwnLogs'
  BY <1>1, <1>2, <1>3 DEF OwnInv, OwnLogs, SameOpLogs
<1>5. NewRow(c, m).data \subseteq made[m.row]
  BY <1>2, NewRowMade
<1>6. MadeValues'
  <2>1. \A d \in Clients, x \in Rows : storage'[d][x].data \subseteq made[x]
    BY <1>1, <1>5 DEF OwnInv, MadeValues
  <2>. QED
    BY <1>2, <2>1 DEF OwnInv, MadeValues, FewerReplies
<1>7. MadeNumbered'
  BY <1>2 DEF OwnInv, MadeNumbered
<1>8. Accounted'
  <2>1. ServerOf \in [Rows -> Servers] /\ ClientOf \in [Threads -> Clients]
    BY SSPAssumption
  <2>2. \A r \in Rows : \A u \in made[r] : ClientOf[u[1]] \in Clients
    BY <2>1 DEF TypeOK, TypeHistory, Logs, Updates
  <2>. QED
    BY <1>2, <2>1, <2>2 DEF OwnInv, Accounted, SameOpLogs
<1>. QED
  BY <1>4, <1>6, <1>7, <1>8 DEF OwnInv

LEMMA AppliedOwn ==
  ASSUME TypeOK, OwnInv, NEW c \in Clients, NEW s \in Servers, NEW m, AppliedBatch(c, s, m)
  PROVE  OwnInv'
<1>1. /\ UNCHANGED <<made, oplog, storage, mgr>>
      /\ m \in OpLogsTo(c, s)
      /\ \A d \in Clients, x \in Servers :
           OpLogsTo(d, x)' = IF d = c /\ x = s THEN OpLogsTo(d, x) \ {m} ELSE OpLogsTo(d, x)
      /\ FewerOrFreshReplies
  BY DEF AppliedBatch
<1>2. \A r \in Rows : data'[r] = data[r] \cup m.log[r]
  BY DEF AppliedBatch, Applied
<1>3. \A d \in Clients, x \in Rows : Own(d, x)' = Own(d, x)
  BY <1>1 DEF Own
<1>4. \A d \in Clients, x \in Servers : OpLogsTo(d, x)' \subseteq OpLogsTo(d, x)
  BY <1>1
<1>5. OwnLogs'
  BY <1>1, <1>3, <1>4 DEF OwnInv, OwnLogs
<1>6. MadeValues'
  <2>1. \A x \in Rows : data'[x] \subseteq made'[x]
    BY <1>1, <1>2 DEF OwnInv, MadeValues, OwnLogs, Own
  <2>2. ASSUME NEW d \in Clients, NEW x \in Servers, NEW n \in RepliesTo(x, d)'
        PROVE  n.data \subseteq made'[n.row]
    <3>1. CASE n \in RepliesTo(x, d)
      BY <1>1, <3>1 DEF OwnInv, MadeValues
    <3>2. CASE n \in FreshReplies(x, d)'
      BY <2>1, <3>2 DEF FreshReplies, RowReplyMsg
    <3>. QED
      BY <1>1, <2>2, <3>1, <3>2 DEF FewerOrFreshReplies
  <2>. QED
    BY <1>1, <2>1, <2>2 DEF OwnInv, MadeValues
<1>7. MadeNumbered'
  BY <1>1 DEF OwnInv, MadeNumbered
<1>8. Accounted'
  <2>1. SUFFICES ASSUME NEW x \in Rows, NEW v \in made[x]
                 PROVE  LET d == ClientOf[v[1]]
                        IN  \/ v \in data'[x]
                            \/ v \in oplog[d][x]
                            \/ \E n \in OpLogsTo(d, ServerOf[x])' : v \in n.log[x]
    BY <1>1 DEF Accounted
  <2> DEFINE d == ClientOf[v[1]]
             z == ServerOf[x]
  <2>2. d \in Clients /\ z \in Servers
    BY SSPAssumption DEF TypeOK, TypeHistory, Logs, Updates
  <2>3. \/ v \in data[x]
        \/ v \in oplog[d][x]
        \/ \E n \in OpLogsTo(d, z) : v \in n.log[x]
    BY DEF OwnInv, Accounted
  <2> HIDE DEF d, z
  <2>4. ASSUME NEW n \in OpLogsTo(d, z), v \in n.log[x], n \notin OpLogsTo(d, z)'
        PROVE  v \in data'[x]
    <3>1. n = m
      BY <1>1, <2>2, <2>4
    <3>. QED
      BY <1>2, <2>4, <3>1
  <2>5. v \in data[x] => v \in data'[x]
    BY <1>2
  <2>6. \/ v \in data'[x]
        \/ v \in oplog[d][x]
        \/ \E n \in OpLogsTo(d, z)' : v \in n.log[x]
    BY <2>3, <2>4, <2>5
  <2>. QED
    BY <2>6 DEF d, z
<1>. QED
  BY <1>5, <1>6, <1>7, <1>8 DEF OwnInv

LEMMA EffectOwn == TypeOK /\ OwnInv /\ Effect => OwnInv'
<1>1. SUFFICES ASSUME TypeOK, OwnInv, Effect PROVE OwnInv'
  OBVIOUS
<1>2. ASSUME NEW t \in Writers, NEW r \in Rows, Inc(t, r)
      PROVE  OwnInv'
  <2>1. t \in Threads /\ ClientOf[t] \in Clients /\ MadeNumbered
    BY <1>1, SSPAssumption DEF OwnInv
  <2>2. PICK u \in Updates : IncEffect(ClientOf[t], r, u) /\ Numbered(made'[r])
    BY <1>1, <1>2, <2>1, IncIsEffect
  <2>. QED
    BY <1>1, <2>1, <2>2, IncOwn
<1>. QED
  BY <1>1, <1>2, QuietOwn, BatchedOwn, ReplayedOwn, AppliedOwn DEF Effect
-----------------------------------------------------------------------------
(* No update is in two of the places it passes through on its way to the   *)
(* server, and the batches the worker retains are those it sent.           *)
LogsApart(c, r) ==
  LET s == ServerOf[r]
  IN  /\ oplog[c][r] \cap data[r] = {}
      /\ \A m \in OpLogsTo(c, s) : m.log[r] \cap oplog[c][r] = {} /\ m.log[r] \cap data[r] = {}
      /\ \A m, n \in OpLogsTo(c, s) : m # n => m.log[r] \cap n.log[r] = {}

KeptApart(c, r) ==
  /\ \A k \in mgr[c].kept : k.log[r] \cap oplog[c][r] = {} /\ k.version < version[c]
  /\ \A k, l \in mgr[c].kept : k # l => k.log[r] \cap l.log[r] = {} /\ k.version # l.version
  /\ \A k \in mgr[c].kept, m \in OpLogsTo(c, ServerOf[r]) :
       k.version = m.version => k.log[r] = m.log[r]

(* What a reply brings is neither unsent nor in a batch that is replayed.  *)
ReplyApart(c, m) ==
  /\ m.version < version[c]
  /\ m.data \cap oplog[c][m.row] = {}
  /\ \A k \in mgr[c].kept : k.version > m.version => k.log[m.row] \cap m.data = {}

PartsApart == \A c \in Clients, r \in Rows : LogsApart(c, r) /\ KeptApart(c, r)
RepliesApart == \A c \in Clients, s \in Servers : \A m \in RepliesTo(s, c) : ReplyApart(c, m)
ApartInv == PartsApart /\ RepliesApart /\ NoDoubleApply

LEMMA InitApart == Init => ApartInv
<1>1. SUFFICES ASSUME Init PROVE ApartInv
  OBVIOUS
<1>2. /\ \A c \in Clients, s \in Servers : toServer[c][s] = << >> /\ toClient[s][c] = << >>
      /\ \A r \in Rows : data[r] = {}
      /\ \A c \in Clients, r \in Rows : oplog[c][r] = {}
      /\ \A c \in Clients : mgr[c] = NoRequests
      /\ twice = {}
  BY <1>1 DEF Init
<1>3. \A c \in Clients, s \in Servers : OpLogsTo(c, s) = {} /\ RepliesTo(s, c) = {}
  BY <1>2 DEF OpLogsTo, RepliesTo, OfType, Range
<1>4. ServerOf \in [Rows -> Servers]
  BY SSPAssumption
<1>. QED
  BY <1>2, <1>3, <1>4 DEF ApartInv, PartsApart, LogsApart, KeptApart, RepliesApart,
                          NoDoubleApply, NoRequests

(* A batch between the one the server has applied and the worker's last is *)
(* on its way.                                                             *)
LEMMA BatchOnItsWay ==
  ASSUME TypeOK, ChannelInv, NEW c \in Clients, NEW s \in Servers, NEW v \in Int,
         sVersion[s][c] < v, v < version[c]
  PROVE  \E m \in OpLogsTo(c, s) : m.version = v
<1>1. sVersion[s][c] \in Int /\ version[c] \in Int
  BY DEF TypeOK, TypeServer, TypeBg, Versions
<1>2. v \in sVersion[s][c] + 1 .. version[c] - 1
  BY <1>1
<1>3. PICK i \in 1 .. Len(toServer[c][s]) :
        toServer[c][s][i].type = "OpLog" /\ toServer[c][s][i].version = v
  BY <1>2 DEF ChannelInv, ToServerInv, InOrder
<1>4. DOMAIN toServer[c][s] = 1 .. Len(toServer[c][s])
  BY DEF TypeOK, TypeNet
<1>. QED
  BY <1>3, <1>4 DEF OpLogsTo, OfType, Range

FreshApart == \A c \in Clients, s \in Servers : \A m \in FreshReplies(s, c) : ReplyApart(c, m)

LEMMA FreshRepliesApart == TypeOK /\ ChannelInv /\ PartsApart => FreshApart
<1>1. SUFFICES ASSUME TypeOK, ChannelInv, PartsApart,
                      NEW c \in Clients, NEW s \in Servers, NEW m \in FreshReplies(s, c)
               PROVE  ReplyApart(c, m)
  BY DEF FreshApart
<1>2. /\ m.row \in Rows /\ ServerOf[m.row] = s
      /\ m.version = sVersion[s][c] /\ m.data = data[m.row]
  BY DEF FreshReplies, RowReplyMsg
<1>3. m.version < version[c]
  BY <1>1, <1>2 DEF ChannelInv, ToServerInv
<1>4. LogsApart(c, m.row) /\ KeptApart(c, m.row)
  BY <1>1, <1>2 DEF PartsApart
<1>5. m.data \cap oplog[c][m.row] = {}
  BY <1>2, <1>4 DEF LogsApart
<1>6. ASSUME NEW k \in mgr[c].kept, k.version > m.version
      PROVE  k.log[m.row] \cap m.data = {}
  <2>1. k.version \in Nat
    BY <1>1 DEF TypeOK, TypeBg, Managers, Retained
  <2>2. m.version \in Int
    BY <1>1, <1>2 DEF TypeOK, TypeServer, Versions
  <2>3. k.version < version[c]
    BY <1>4 DEF KeptApart
  <2>4. PICK n \in OpLogsTo(c, s) : n.version = k.version
    BY <1>1, <1>2, <1>6, <2>1, <2>2, <2>3, BatchOnItsWay
  <2>5. k.log[m.row] = n.log[m.row]
    BY <1>2, <1>4, <2>4 DEF KeptApart
  <2>. QED
    BY <1>2, <1>4, <2>4, <2>5 DEF LogsApart
<1>. QED
  BY <1>3, <1>5, <1>6 DEF ReplyApart

LEMMA FreshNextApart == TypeOK' /\ ChannelInv' /\ PartsApart' => FreshApart'
BY FreshRepliesApart, PTL

LEMMA IncApart ==
  ASSUME TypeOK, OwnInv, ApartInv, NEW c \in Clients, NEW r \in Rows, NEW u, IncEffect(c, r, u)
  PROVE  ApartInv'
<1>1. /\ u \notin made[r]
      /\ \A d \in Clients, x \in Rows :
           oplog'[d][x] = IF d = c /\ x = r THEN oplog[d][x] \cup {u} ELSE oplog[d][x]
      /\ UNCHANGED <<data, mgr, version, twice>>
      /\ \A d \in Clients, s \in Servers : OpLogsTo(d, s)' = OpLogsTo(d, s)
      /\ \A d \in Clients, s \in Servers : RepliesTo(s, d)' = RepliesTo(s, d)
  BY DEF IncEffect, SameOpLogs
<1>2. \A d \in Clients, x \in Rows : \A S :
        S \subseteq made[x] /\ S \cap oplog[d][x] = {} => S \cap oplog'[d][x] = {}
  BY <1>1, ZenonT(30)
<1>3. ServerOf \in [Rows -> Servers]
  BY SSPAssumption
<1>4. ASSUME NEW d \in Clients, NEW x \in Rows
      PROVE  LogsApart(d, x)' /\ KeptApart(d, x)'
  <2> DEFINE s == ServerOf[x]
  <2>1. LogsApart(d, x) /\ KeptApart(d, x) /\ s \in Servers
    BY <1>3 DEF ApartInv, PartsApart
  <2>2. /\ data[x] \subseteq made[x]
        /\ \A k \in mgr[d].kept : k.log[x] \subseteq made[x]
        /\ \A m \in OpLogsTo(d, s) : m.log[x] \subseteq made[x]
    BY <2>1 DEF OwnInv, OwnLogs, MadeValues, Own
  <2>3. LogsApart(d, x)'
    <3>1. data[x] \cap oplog'[d][x] = {}
      BY <1>2, <2>1, <2>2 DEF LogsApart
    <3>2. \A m \in OpLogsTo(d, s) : m.log[x] \cap oplog'[d][x] = {}
      BY <1>2, <2>1, <2>2 DEF LogsApart
    <3>3. data' = data /\ OpLogsTo(d, s)' = OpLogsTo(d, s)
      BY <1>1, <2>1
    <3>. QED
      BY <2>1, <3>1, <3>2, <3>3 DEF LogsApart
  <2>4. KeptApart(d, x)'
    <3>1. \A k \in mgr[d].kept : k.log[x] \cap oplog'[d][x] = {}
      BY <1>2, <2>1, <2>2 DEF KeptApart
    <3>2. mgr' = mgr /\ version' = version /\ OpLogsTo(d, s)' = OpLogsTo(d, s)
      BY <1>1, <2>1
    <3>. QED
      BY <2>1, <3>1, <3>2 DEF KeptApart
  <2>. QED
    BY <2>3, <2>4
<1>5. ASSUME NEW d \in Clients, NEW s \in Servers, NEW m \in RepliesTo(s, d)'
      PROVE  ReplyApart(d, m)'
  <2>1. m \in RepliesTo(s, d)
    BY <1>1, <1>5
  <2>2. m.row \in Rows /\ m.data \subseteq made[m.row]
    BY <2>1, ChannelTypes DEF OwnInv, MadeValues, RowReplyMsgs
  <2>3. ReplyApart(d, m)
    BY <2>1 DEF ApartInv, RepliesApart
  <2>4. m.data \cap oplog'[d][m.row] = {}
    BY <1>2, <2>2, <2>3 DEF ReplyApart
  <2>5. mgr' = mgr /\ version' = version
    BY <1>1
  <2>. QED
    BY <2>3, <2>4, <2>5 DEF ReplyApart
<1>. QED
  BY <1>1, <1>4, <1>5 DEF ApartInv, PartsApart, RepliesApart, NoDoubleApply

LEMMA QuietApart ==
  ASSUME TypeOK, ChannelInv, ApartInv, Quiet
  PROVE  ApartInv'
<1>1. /\ UNCHANGED <<data, oplog, version, sClock, sVersion, twice>>
      /\ \A c \in Clients : mgr'[c].kept = mgr[c].kept
      /\ \A c \in Clients, s \in Servers : OpLogsTo(c, s)' = OpLogsTo(c, s)
      /\ FewerOrFreshReplies
  BY DEF Quiet, SameOpLogs
<1>2. ServerOf \in [Rows -> Servers]
  BY SSPAssumption
<1>3. PartsApart'
  BY <1>1, <1>2 DEF ApartInv, PartsApart, LogsApart, KeptApart
<1>4. \A c \in Clients, s \in Servers : FreshReplies(s, c)' = FreshReplies(s, c)
  BY <1>1 DEF FreshReplies
<1>5. \A c \in Clients, s \in Servers : \A m \in FreshReplies(s, c) : ReplyApart(c, m)
  BY FreshRepliesApart DEF ApartInv, FreshApart
<1>6. \A c \in Clients : \A m : ReplyApart(c, m) => ReplyApart(c, m)'
  BY <1>1 DEF ReplyApart
<1>7. RepliesApart'
  BY <1>1, <1>4, <1>5, <1>6 DEF ApartInv, RepliesApart, FewerOrFreshReplies
<1>. QED
  BY <1>1, <1>3, <1>7 DEF ApartInv, NoDoubleApply
LEMMA BatchedApart ==
  ASSUME TypeOK, ChannelInv, OwnInv, ApartInv, NEW c \in Clients, NEW advanced,
         Batched(c, advanced)
  PROVE  ApartInv'
<1> DEFINE clk == bgClock'[c]
           M(s) == OpLogMsg(c, s, advanced, clk)
           k0   == [version |-> version[c], log |-> Batch(c)]
<1>1. /\ \A r \in Rows : /\ Batch(c)[r] \subseteq oplog[c][r]
                         /\ oplog'[c][r] = oplog[c][r] \ Batch(c)[r]
      /\ mgr'[c].kept \subseteq mgr[c].kept \cup {k0}
      /\ \A s \in Servers :
           /\ OpLogsTo(c, s)' = OpLogsTo(c, s) \cup {M(s)}
           /\ M(s).version = version[c]
           /\ \A r \in Rows : M(s).log[r] = IF ServerOf[r] = s THEN Batch(c)[r] ELSE {}
  BY SentEffect DEF Batched
<1>2. k0.version = version[c] /\ k0.log = Batch(c)
  OBVIOUS
<1> HIDE DEF M, k0
<1>3. \A d \in Clients : d # c =>
        /\ UNCHANGED <<oplog[d], version[d], mgr[d]>>
        /\ \A s \in Servers : OpLogsTo(d, s)' = OpLogsTo(d, s)
  BY DEF Batched, Sent
<1>4. data' = data /\ twice' = twice /\ FewerReplies /\ version'[c] = version[c] + 1
  BY DEF Batched, Sent
<1>5. version[c] \in Nat /\ ServerOf \in [Rows -> Servers]
  BY SSPAssumption DEF TypeOK, TypeBg
<1>6. \A k \in mgr[c].kept : k.version \in Nat
  BY DEF TypeOK, TypeBg, Managers, Retained
<1>7. \A s \in Servers : \A m \in OpLogsTo(c, s) : m.version < version[c]
  <2>1. SUFFICES ASSUME NEW s \in Servers, NEW m \in OpLogsTo(c, s)
                 PROVE  m.version < version[c]
    OBVIOUS
  <2>2. PICK i \in DOMAIN toServer[c][s] : m = toServer[c][s][i] /\ m.type = "OpLog"
    BY DEF OpLogsTo, OfType, Range
  <2>3. DOMAIN toServer[c][s] = 1 .. Len(toServer[c][s])
    BY DEF TypeOK, TypeNet
  <2>. QED
    BY <2>2, <2>3 DEF ChannelInv, ToServerInv, InOrder
<1>8. ASSUME NEW x \in Rows
      PROVE  LogsApart(c, x)' /\ KeptApart(c, x)'
  <2> DEFINE s == ServerOf[x]
  <2>1. LogsApart(c, x) /\ KeptApart(c, x) /\ s \in Servers
    BY <1>5 DEF ApartInv, PartsApart
  <2>2. /\ OpLogsTo(c, s)' = OpLogsTo(c, s) \cup {M(s)}
        /\ M(s).log[x] = Batch(c)[x] /\ M(s).version = version[c]
    BY <1>1, <2>1
  <2>3. Batch(c)[x] \subseteq oplog[c][x] /\ oplog'[c][x] = oplog[c][x] \ Batch(c)[x]
    BY <1>1
  <2>4. LogsApart(c, x)'
    <3>1. oplog'[c][x] \cap data[x] = {}
      BY <2>1, <2>3 DEF LogsApart
    <3>2. \A m \in OpLogsTo(c, s)' : m.log[x] \cap oplog'[c][x] = {} /\ m.log[x] \cap data[x] = {}
      BY <2>1, <2>2, <2>3 DEF LogsApart
    <3>3. \A m \in OpLogsTo(c, s) : m.log[x] \cap M(s).log[x] = {}
      BY <2>1, <2>2, <2>3 DEF LogsApart
    <3>4. \A m, n \in OpLogsTo(c, s) : m # n => m.log[x] \cap n.log[x] = {}
      BY <2>1 DEF LogsApart
    <3>5. \A m, n \in OpLogsTo(c, s)' : m # n => m.log[x] \cap n.log[x] = {}
      BY <2>2, <3>3, <3>4
    <3>. QED
      BY <1>4, <3>1, <3>2, <3>5 DEF LogsApart
  <2>5. KeptApart(c, x)'
    <3>1. ASSUME NEW k \in mgr'[c].kept
          PROVE  k.log[x] \cap oplog'[c][x] = {} /\ k.version < version'[c]
      BY <1>1, <1>2, <1>4, <1>5, <1>6, <2>1, <2>3 DEF KeptApart
    <3>2. \A k \in mgr[c].kept : k.log[x] \cap k0.log[x] = {} /\ k.version # k0.version
      BY <1>2, <1>5, <1>6, <2>1, <2>3 DEF KeptApart
    <3>3. \A k, l \in mgr[c].kept : k # l => k.log[x] \cap l.log[x] = {} /\ k.version # l.version
      BY <2>1 DEF KeptApart
    <3>4. \A k, l \in mgr'[c].kept : k # l => k.log[x] \cap l.log[x] = {} /\ k.version # l.version
      BY <1>1, <3>2, <3>3
    <3>5. ASSUME NEW k \in mgr'[c].kept, NEW m \in OpLogsTo(c, s)', k.version = m.version
          PROVE  k.log[x] = m.log[x]
      <4>1. m.version \in Int
        BY <1>5, <2>1, <2>2, ChannelTypes DEF OpLogMsgs
      <4>2. CASE m = M(s)
        <5>1. k \notin mgr[c].kept
          BY <1>5, <1>6, <2>1, <2>2, <3>5, <4>2 DEF KeptApart
        <5>. QED
          BY <1>1, <1>2, <2>2, <4>2, <5>1
      <4>3. CASE m \in OpLogsTo(c, s)
        <5>1. m.version < version[c]
          BY <1>7, <2>1, <4>3
        <5>2. k \in mgr[c].kept
          BY <1>1, <1>2, <1>5, <3>5, <4>1, <5>1
        <5>. QED
          BY <2>1, <3>5, <4>3, <5>2 DEF KeptApart
      <4>. QED
        BY <2>2, <3>5, <4>2, <4>3
    <3>. QED
      BY <3>1, <3>4, <3>5 DEF KeptApart
  <2>. QED
    BY <2>4, <2>5
<1>9. PartsApart'
  <2>1. ASSUME NEW d \in Clients, NEW x \in Rows, d # c
        PROVE  LogsApart(d, x)' /\ KeptApart(d, x)'
    <3>1. LogsApart(d, x) /\ KeptApart(d, x) /\ ServerOf[x] \in Servers
      BY <1>5 DEF ApartInv, PartsApart
    <3>. QED
      BY <1>3, <1>4, <2>1, <3>1 DEF LogsApart, KeptApart
  <2>. QED
    BY <1>8, <2>1 DEF PartsApart
<1>10. ASSUME NEW d \in Clients, NEW s \in Servers, NEW m \in RepliesTo(s, d)'
       PROVE  ReplyApart(d, m)'
  <2>1. m \in RepliesTo(s, d)
    BY <1>4, <1>10 DEF FewerReplies
  <2>2. m.row \in Rows /\ m.version \in Int
    BY <2>1, ChannelTypes DEF RowReplyMsgs, Versions
  <2>3. ReplyApart(d, m)
    BY <2>1 DEF ApartInv, RepliesApart
  <2>4. CASE d # c
    BY <1>3, <2>3, <2>4 DEF ReplyApart
  <2>5. CASE d = c
    <3>1. m.version < version'[c]
      BY <1>4, <1>5, <2>2, <2>3, <2>5 DEF ReplyApart
    <3>2. m.data \cap oplog'[c][m.row] = {}
      BY <1>1, <2>2, <2>3, <2>5 DEF ReplyApart
    <3>3. k0.log[m.row] \cap m.data = {}
      BY <1>1, <1>2, <2>2, <2>3, <2>5 DEF ReplyApart
    <3>4. \A k \in mgr'[c].kept : k.version > m.version => k.log[m.row] \cap m.data = {}
      BY <1>1, <2>3, <2>5, <3>3 DEF ReplyApart
    <3>. QED
      BY <2>5, <3>1, <3>2, <3>4 DEF ReplyApart
  <2>. QED
    BY <2>4, <2>5
<1>. QED
  BY <1>4, <1>9, <1>10 DEF ApartInv, RepliesApart, NoDoubleApply

LEMMA ReplyAddsOnce ==
  ASSUME TypeOK, ApartInv, NEW c \in Clients, NEW s \in Servers, NEW m \in RepliesTo(s, c),
         ~Missing(c, m.version)
  PROVE  AddedTwice(Addends(c, m)) = {}
<1>1. m \in RowReplyMsgs /\ m.row \in Rows
  BY ChannelTypes DEF RowReplyMsgs
<1>2. KeptApart(c, m.row) /\ ReplyApart(c, m)
  BY <1>1 DEF ApartInv, PartsApart, RepliesApart
<1> DEFINE parts == Addends(c, m)
<1>3. \A v \in DOMAIN parts :
        /\ v \in m.version .. version[c]
        /\ \/ v = m.version /\ parts[v] = m.data
           \/ v # m.version /\ v = version[c] /\ parts[v] = oplog[c][m.row]
           \/ /\ m.version < v /\ v < version[c]
              /\ \E k \in mgr[c].kept : k.version = v /\ parts[v] = k.log[m.row]
  BY <1>1, AddendsParts
<1> HIDE DEF parts
<1>4. /\ m.data \cap oplog[c][m.row] = {}
      /\ \A k \in mgr[c].kept :
           /\ k.version > m.version => k.log[m.row] \cap m.data = {}
           /\ k.log[m.row] \cap oplog[c][m.row] = {}
      /\ \A k, l \in mgr[c].kept : k # l => k.log[m.row] \cap l.log[m.row] = {}
  BY <1>2 DEF KeptApart, ReplyApart
<1>5. m.version \in Int /\ version[c] \in Int
  BY <1>1 DEF RowReplyMsgs, Versions, TypeOK, TypeBg
<1>6. ASSUME NEW v \in DOMAIN parts, NEW w \in DOMAIN parts, v # w
      PROVE  parts[v] \cap parts[w] = {}
  <2>1. CASE parts[v] = m.data /\ v = m.version
    BY <1>3, <1>4, <1>5, <1>6, <2>1
  <2>2. CASE parts[v] = oplog[c][m.row] /\ v = version[c]
    BY <1>3, <1>4, <1>5, <1>6, <2>2
  <2>3. ASSUME m.version < v, v < version[c],
               NEW k \in mgr[c].kept, k.version = v, parts[v] = k.log[m.row]
        PROVE  parts[v] \cap parts[w] = {}
    <3>1. k.version > m.version
      BY <1>3, <1>5, <2>3
    <3>2. CASE parts[w] = m.data
      BY <1>4, <2>3, <3>1, <3>2
    <3>3. CASE parts[w] = oplog[c][m.row]
      BY <1>4, <2>3, <3>3
    <3>4. ASSUME NEW l \in mgr[c].kept, l.version = w, parts[w] = l.log[m.row]
          PROVE  parts[v] \cap parts[w] = {}
      BY <1>4, <1>6, <2>3, <3>4
    <3>. QED
      BY <1>3, <3>2, <3>3, <3>4
  <2>. QED
    BY <1>3, <2>1, <2>2, <2>3
<1>. QED
  BY <1>6 DEF AddedTwice, parts

LEMMA ReplayedApart ==
  ASSUME TypeOK, ApartInv, NEW c \in Clients, NEW s \in Servers, NEW m, RowRebuilt(s, c, m)
  PROVE  ApartInv'
<1>1. \A d \in Clients : mgr'[d].kept \subseteq mgr[d].kept
  BY ReplayedRow
<1>2. /\ UNCHANGED <<data, oplog, version>>
      /\ \A d \in Clients, x \in Servers : OpLogsTo(d, x)' = OpLogsTo(d, x)
      /\ FewerReplies
  BY DEF RowRebuilt, SameOpLogs
<1>3. twice' = twice
  BY ReplyAddsOnce DEF RowRebuilt
<1>4. ServerOf \in [Rows -> Servers]
  BY SSPAssumption
<1>5. ASSUME NEW d \in Clients, NEW x \in Rows
      PROVE  LogsApart(d, x)' /\ KeptApart(d, x)'
  <2>1. LogsApart(d, x) /\ KeptApart(d, x) /\ ServerOf[x] \in Servers
    BY <1>4 DEF ApartInv, PartsApart
  <2>2. LogsApart(d, x)'
    BY <1>2, <2>1 DEF LogsApart
  <2>3. KeptApart(d, x)'
    BY <1>1, <1>2, <2>1 DEF KeptApart
  <2>. QED
    BY <2>2, <2>3
<1>6. \A d \in Clients : \A n : ReplyApart(d, n) => ReplyApart(d, n)'
  BY <1>1, <1>2 DEF ReplyApart
<1>. QED
  BY <1>2, <1>3, <1>5, <1>6 DEF ApartInv, PartsApart, RepliesApart, NoDoubleApply, FewerReplies

LEMMA AppliedApart ==
  ASSUME TypeOK, TypeOK', ChannelInv', OwnInv, ApartInv,
         NEW c \in Clients, NEW s \in Servers, NEW m, AppliedBatch(c, s, m)
  PROVE  ApartInv'
<1>1. /\ UNCHANGED <<oplog, version, mgr>>
      /\ m \in OpLogsTo(c, s)
      /\ \A d \in Clients, x \in Servers :
           OpLogsTo(d, x)' = IF d = c /\ x = s THEN OpLogsTo(d, x) \ {m} ELSE OpLogsTo(d, x)
      /\ FewerOrFreshReplies
  BY DEF AppliedBatch
<1>2. \A r \in Rows : data'[r] = data[r] \cup m.log[r]
  BY DEF AppliedBatch, Applied
<1>3. \A r \in Rows : m.log[r] \subseteq Own(c, r) /\ (ServerOf[r] # s => m.log[r] = {})
  BY <1>1 DEF OwnInv, OwnLogs
<1>4. ServerOf \in [Rows -> Servers]
  BY SSPAssumption
<1>5. ASSUME NEW d \in Clients, NEW x \in Rows
      PROVE  LogsApart(d, x)' /\ KeptApart(d, x)'
  <2> DEFINE z == ServerOf[x]
  <2>1. LogsApart(d, x) /\ KeptApart(d, x) /\ z \in Servers
    BY <1>4 DEF ApartInv, PartsApart
  <2>2. OpLogsTo(d, z)' \subseteq OpLogsTo(d, z)
    BY <1>1, <2>1
  <2>3. /\ oplog[d][x] \subseteq Own(d, x)
        /\ \A n \in OpLogsTo(d, z) : n.log[x] \subseteq Own(d, x)
    BY <2>1 DEF OwnInv, OwnLogs
  <2>4. oplog[d][x] \cap m.log[x] = {}
    <3>1. CASE d # c
      BY <1>3, <2>3, <3>1 DEF Own
    <3>2. CASE d = c /\ z = s
      BY <1>1, <2>1, <3>2 DEF LogsApart
    <3>. QED
      BY <1>3, <3>1, <3>2
  <2>5. ASSUME NEW n \in OpLogsTo(d, z)'
        PROVE  n.log[x] \cap m.log[x] = {}
    <3>1. CASE d # c
      BY <1>3, <2>2, <2>3, <3>1 DEF Own
    <3>2. CASE d = c /\ z = s
      <4>1. n # m /\ n \in OpLogsTo(d, z) /\ m \in OpLogsTo(d, z)
        BY <1>1, <2>5, <3>2
      <4>. QED
        BY <2>1, <4>1 DEF LogsApart
    <3>. QED
      BY <1>3, <3>1, <3>2
  <2>6. LogsApart(d, x)'
    <3>1. oplog[d][x] \cap data'[x] = {}
      BY <1>2, <2>1, <2>4 DEF LogsApart
    <3>2. \A n \in OpLogsTo(d, z)' : n.log[x] \cap oplog[d][x] = {} /\ n.log[x] \cap data'[x] = {}
      BY <1>2, <2>1, <2>2, <2>5 DEF LogsApart
    <3>3. \A n, k \in OpLogsTo(d, z)' : n # k => n.log[x] \cap k.log[x] = {}
      BY <2>1, <2>2 DEF LogsApart
    <3>. QED
      BY <1>1, <3>1, <3>2, <3>3 DEF LogsApart
  <2>7. KeptApart(d, x)'
    BY <1>1, <2>1, <2>2 DEF KeptApart
  <2>. QED
    BY <2>6, <2>7
<1>6. PartsApart'
  BY <1>5 DEF PartsApart
<1>7. \A d \in Clients, x \in Servers : \A n \in FreshReplies(x, d)' : ReplyApart(d, n)'
  BY <1>6, FreshNextApart DEF FreshApart
<1>8. \A d \in Clients : \A n : ReplyApart(d, n) => ReplyApart(d, n)'
  BY <1>1 DEF ReplyApart
<1>9. RepliesApart'
  BY <1>1, <1>7, <1>8 DEF ApartInv, RepliesApart, FewerOrFreshReplies
<1>10. \A r \in Rows : data[r] \cap m.log[r] = {}
  BY <1>1, <1>3, <1>4 DEF ApartInv, PartsApart, LogsApart
<1>11. twice' = twice
  BY <1>10 DEF AppliedBatch
<1>. QED
  BY <1>6, <1>9, <1>11 DEF ApartInv, NoDoubleApply

LEMMA EffectApart ==
  TypeOK /\ TypeOK' /\ ChannelInv /\ ChannelInv' /\ OwnInv /\ ApartInv /\ Effect => ApartInv'
<1>1. SUFFICES ASSUME TypeOK, TypeOK', ChannelInv, ChannelInv', OwnInv, ApartInv, Effect
               PROVE  ApartInv'
  OBVIOUS
<1>2. ASSUME NEW t \in Writers, NEW r \in Rows, Inc(t, r)
      PROVE  ApartInv'
  <2>1. t \in Threads /\ ClientOf[t] \in Clients /\ MadeNumbered
    BY <1>1, SSPAssumption DEF OwnInv
  <2>2. PICK u \in Updates : IncEffect(ClientOf[t], r, u)
    BY <1>1, <1>2, <2>1, IncIsEffect
  <2>. QED
    BY <1>1, <2>1, <2>2, IncApart
<1>. QED
  BY <1>1, <1>2, QuietApart, BatchedApart, ReplayedApart, AppliedApart DEF Effect
(* No update is added twice to a row: not by a server that applies a       *)
(* batch (ApplyOpLogUpdateVersion), nor by a worker that adds the batches  *)
(* it retains and the unsent updates to a row it receives                  *)
(* (CheckAndApplyOldOpLogsToRowData).                                      *)
THEOREM NothingAppliedTwice == Spec => []NoDoubleApply
<1> DEFINE I == TypeOK /\ ChannelInv /\ OwnInv /\ ApartInv
<1>1. Init => I
  BY InitType, InitChannel, InitOwn, InitApart
<1>2. I /\ [Next]_vars => I'
  BY TypeNext, StepEffect, EffectOwn, EffectApart
<1>3. I => NoDoubleApply
  BY DEF ApartInv
<1>. QED
  BY <1>1, <1>2, <1>3, PTL DEF Spec
-----------------------------------------------------------------------------
(* From a reply, the retained batches it lacks and the unsent updates the  *)
(* worker can rebuild all updates of its process, unless a batch is        *)
(* missing, which GetOpLog's CHECK finds.                                  *)
Rebuildable(c, m) ==
  \A u \in Own(c, m.row) :
    \/ u \in m.data
    \/ u \in oplog[c][m.row]
    \/ \E k \in mgr[c].kept : k.version > m.version /\ u \in k.log[m.row]
    \/ Missing(c, m.version)

RepliesRebuildable == \A c \in Clients, s \in Servers : \A m \in RepliesTo(s, c) : Rebuildable(c, m)
RebuiltInv == RepliesRebuildable /\ ReadMyWrites

LEMMA InitRebuilt == Init => RebuiltInv
<1>1. SUFFICES ASSUME Init PROVE RebuiltInv
  OBVIOUS
<1>2. /\ \A c \in Clients, s \in Servers : toClient[s][c] = << >>
      /\ \A r \in Rows : made[r] = {}
  BY <1>1 DEF Init
<1>3. \A c \in Clients, s \in Servers : RepliesTo(s, c) = {}
  BY <1>2 DEF RepliesTo, OfType, Range
<1>. QED
  BY <1>2, <1>3 DEF RebuiltInv, RepliesRebuildable, ReadMyWrites

FreshRebuildable == \A c \in Clients, s \in Servers : \A m \in FreshReplies(s, c) : Rebuildable(c, m)

LEMMA BatchRange ==
  ASSUME TypeOK, ChannelInv, NEW c \in Clients, NEW s \in Servers, NEW m \in OpLogsTo(c, s)
  PROVE  /\ m.version \in Int /\ sVersion[s][c] \in Int /\ version[c] \in Int
         /\ m.version \in (sVersion[s][c] + 1) .. (version[c] - 1)
<1>1. PICK i \in DOMAIN toServer[c][s] : m = toServer[c][s][i] /\ m.type = "OpLog"
  BY DEF OpLogsTo, OfType, Range
<1>2. DOMAIN toServer[c][s] = 1 .. Len(toServer[c][s])
  BY DEF TypeOK, TypeNet
<1>3. sVersion[s][c] < m.version /\ m.version < version[c]
  BY <1>1, <1>2 DEF ChannelInv, ToServerInv, InOrder
<1>4. m.version \in Int /\ sVersion[s][c] \in Int /\ version[c] \in Int
  BY ChannelTypes DEF OpLogMsgs, TypeOK, TypeServer, TypeBg, Versions
<1>. QED
  BY <1>3, <1>4

LEMMA FreshRepliesRebuildable ==
  TypeOK /\ ChannelInv /\ OwnInv /\ PartsApart => FreshRebuildable
<1>1. SUFFICES ASSUME TypeOK, ChannelInv, OwnInv, PartsApart,
                      NEW c \in Clients, NEW s \in Servers, NEW m \in FreshReplies(s, c),
                      NEW u \in Own(c, m.row), u \notin m.data, u \notin oplog[c][m.row],
                      ~Missing(c, m.version)
               PROVE  \E k \in mgr[c].kept : k.version > m.version /\ u \in k.log[m.row]
  BY DEF FreshRebuildable, Rebuildable
<1>2. /\ m.row \in Rows /\ ServerOf[m.row] = s
      /\ m.version = sVersion[s][c] /\ m.data = data[m.row]
  BY DEF FreshReplies, RowReplyMsg
<1>3. u \in made[m.row] /\ ClientOf[u[1]] = c
  BY DEF Own
<1>4. PICK n \in OpLogsTo(c, s) : u \in n.log[m.row]
  BY <1>1, <1>2, <1>3 DEF OwnInv, Accounted
<1>5. n.version \in (m.version + 1) .. (version[c] - 1) /\ n.version > m.version
  BY <1>1, <1>2, BatchRange
<1>6. PICK k \in mgr[c].kept : k.version = n.version
  BY <1>1, <1>5 DEF Missing, HasOpLog
<1>7. k.log[m.row] = n.log[m.row]
  BY <1>1, <1>2, <1>6 DEF PartsApart, KeptApart
<1>. QED
  BY <1>4, <1>5, <1>6, <1>7

LEMMA FreshNextRebuildable ==
  TypeOK' /\ ChannelInv' /\ OwnInv' /\ PartsApart' => FreshRebuildable'
BY FreshRepliesRebuildable, PTL

LEMMA IncRebuilt ==
  ASSUME TypeOK, RebuiltInv, NEW c \in Clients, NEW r \in Rows, NEW u, IncEffect(c, r, u)
  PROVE  RebuiltInv'
<1>1. /\ \A x \in Rows : made'[x] = IF x = r THEN made[x] \cup {u} ELSE made[x]
      /\ \A d \in Clients, x \in Rows :
           oplog'[d][x] = IF d = c /\ x = r THEN oplog[d][x] \cup {u} ELSE oplog[d][x]
      /\ UNCHANGED <<mgr, version>>
      /\ \A d \in Clients, s \in Servers : RepliesTo(s, d)' = RepliesTo(s, d)
      /\ ClientOf[u[1]] = c
  BY DEF IncEffect
<1>2. \A d \in Clients, x \in Rows :
        /\ (storage'[d][x] = NoRow) <=> (storage[d][x] = NoRow)
        /\ storage'[d][x].data = IF d = c /\ x = r /\ Cached(d, x)
                                 THEN storage[d][x].data \cup {u} ELSE storage[d][x].data
  BY DEF IncEffect
<1>3. \A d \in Clients, x \in Rows : \A v \in Own(d, x)' :
        v \in Own(d, x) \/ (d = c /\ x = r /\ v = u)
  <2>1. SUFFICES ASSUME NEW d \in Clients, NEW x \in Rows, NEW v \in Own(d, x)',
                        v \notin Own(d, x)
                 PROVE  d = c /\ x = r /\ v = u
    OBVIOUS
  <2>2. v \in made'[x] /\ v \notin made[x] /\ ClientOf[v[1]] = d
    BY <2>1 DEF Own
  <2>3. x = r /\ v = u
    BY <1>1, <2>2, ZenonT(30)
  <2>4. ClientOf[v[1]] = c
    BY <1>1, <2>3
  <2>. QED
    BY <2>2, <2>3, <2>4
<1>4. ReadMyWrites'
  <2>1. SUFFICES ASSUME NEW d \in Clients, NEW x \in Rows, Cached(d, x)', NEW v \in Own(d, x)'
                 PROVE  v \in storage'[d][x].data
    BY DEF ReadMyWrites, Own
  <2>2. Cached(d, x)
    BY <1>2, <2>1 DEF Cached
  <2>3. CASE v \in Own(d, x)
    BY <1>2, <2>2, <2>3 DEF RebuiltInv, ReadMyWrites, Own
  <2>4. CASE d = c /\ x = r /\ v = u
    BY <1>2, <2>2, <2>4
  <2>. QED
    BY <1>3, <2>3, <2>4
<1>5. ASSUME NEW d \in Clients, NEW s \in Servers, NEW m \in RepliesTo(s, d)'
      PROVE  Rebuildable(d, m)'
  <2>1. m \in RepliesTo(s, d)
    BY <1>1, <1>5
  <2>2. m.row \in Rows
    BY <2>1, ChannelTypes DEF RowReplyMsgs
  <2>3. Rebuildable(d, m)
    BY <2>1 DEF RebuiltInv, RepliesRebuildable
  <2>4. Missing(d, m.version)' <=> Missing(d, m.version)
    BY <1>1 DEF Missing
  <2>5. ASSUME NEW v \in Own(d, m.row)'
        PROVE  \/ v \in m.data
               \/ v \in oplog'[d][m.row]
               \/ \E k \in mgr'[d].kept : k.version > m.version /\ v \in k.log[m.row]
               \/ Missing(d, m.version)'
    <3>1. CASE v \in Own(d, m.row)
      <4>1. oplog[d][m.row] \subseteq oplog'[d][m.row] /\ mgr' = mgr
        BY <1>1, <2>2
      <4>. QED
        BY <2>3, <2>4, <3>1, <4>1 DEF Rebuildable
    <3>2. CASE d = c /\ m.row = r /\ v = u
      BY <1>1, <3>2
    <3>. QED
      BY <1>3, <2>2, <3>1, <3>2
  <2>. QED
    BY <2>5 DEF Rebuildable
<1>. QED
  BY <1>4, <1>5 DEF RebuiltInv, RepliesRebuildable

LEMMA QuietRebuilt ==
  ASSUME TypeOK, ChannelInv, OwnInv, ApartInv, RebuiltInv, Quiet
  PROVE  RebuiltInv'
<1>1. /\ UNCHANGED <<made, data, oplog, version, sClock, sVersion>>
      /\ \A c \in Clients : mgr'[c].kept = mgr[c].kept
      /\ \A c \in Clients, r \in Rows : storage'[c][r] \in {storage[c][r], NoRow}
      /\ FewerOrFreshReplies
  BY DEF Quiet
<1>2. ReadMyWrites'
  BY <1>1 DEF RebuiltInv, ReadMyWrites, Cached
<1>3. \A c \in Clients : \A v : Missing(c, v)' <=> Missing(c, v)
  BY <1>1 DEF Missing, HasOpLog
<1>4. \A c \in Clients : \A m : Rebuildable(c, m) => Rebuildable(c, m)'
  BY <1>1, <1>3 DEF Rebuildable, Own
<1>5. \A c \in Clients, s \in Servers : FreshReplies(s, c)' = FreshReplies(s, c)
  BY <1>1 DEF FreshReplies
<1>6. \A c \in Clients, s \in Servers : \A m \in FreshReplies(s, c) : Rebuildable(c, m)
  BY FreshRepliesRebuildable DEF ApartInv, FreshRebuildable
<1>7. RepliesRebuildable'
  BY <1>1, <1>4, <1>5, <1>6 DEF RebuiltInv, RepliesRebuildable, FewerOrFreshReplies
<1>. QED
  BY <1>2, <1>7 DEF RebuiltInv
LEMMA BatchedRebuilt ==
  ASSUME TypeOK, ApartInv, RebuiltInv, NEW c \in Clients, NEW advanced, Batched(c, advanced)
  PROVE  RebuiltInv'
<1> DEFINE k0 == [version |-> version[c], log |-> Batch(c)]
<1>1. /\ \A r \in Rows : oplog'[c][r] = oplog[c][r] \ Batch(c)[r]
      /\ mgr[c].kept \subseteq mgr'[c].kept
      /\ mgr'[c].kept \subseteq mgr[c].kept \cup {k0}
  BY SentEffect DEF Batched
<1>2. k0.version = version[c] /\ k0.log = Batch(c)
  OBVIOUS
<1> HIDE DEF k0
<1>3. \A d \in Clients : d # c => UNCHANGED <<oplog[d], version[d], mgr[d]>>
  BY DEF Batched, Sent
<1>4. UNCHANGED <<made, storage>> /\ FewerReplies /\ version'[c] = version[c] + 1
  BY DEF Batched, Sent
<1>5. version[c] \in Nat
  BY DEF TypeOK, TypeBg
<1>6. ReadMyWrites'
  BY <1>4 DEF RebuiltInv, ReadMyWrites, Cached
<1>7. ASSUME NEW d \in Clients, NEW s \in Servers, NEW m \in RepliesTo(s, d)'
      PROVE  Rebuildable(d, m)'
  <2>1. m \in RepliesTo(s, d)
    BY <1>4, <1>7 DEF FewerReplies
  <2>2. m.row \in Rows /\ m.version \in Int
    BY <2>1, ChannelTypes DEF RowReplyMsgs, Versions
  <2>3. Rebuildable(d, m) /\ ReplyApart(d, m) /\ KeptApart(d, m.row)
    BY <2>1, <2>2 DEF RebuiltInv, RepliesRebuildable, ApartInv, RepliesApart, PartsApart
  <2>4. CASE d # c
    <3>1. Missing(d, m.version)' <=> Missing(d, m.version)
      BY <1>3, <2>4 DEF Missing
    <3>. QED
      BY <1>3, <1>4, <2>3, <2>4, <3>1 DEF Rebuildable, Own
  <2>5. CASE d = c
    <3>1. m.version < version[c]
      BY <2>3, <2>5 DEF ReplyApart
    <3>2. ASSUME Missing(c, m.version)
          PROVE  Missing(c, m.version)'
      <4>1. PICK w \in (m.version + 1) .. (version[c] - 1) : ~HasOpLog(mgr[c], w)
        BY <3>2 DEF Missing
      <4>2. w \in (m.version + 1) .. (version'[c] - 1) /\ w # version[c]
        BY <1>4, <1>5, <2>2, <4>1
      <4>3. ~HasOpLog(mgr'[c], w)
        BY <1>1, <1>2, <4>1, <4>2 DEF HasOpLog
      <4>. QED
        BY <4>2, <4>3 DEF Missing
    <3>3. ASSUME k0 \notin mgr'[c].kept
          PROVE  Missing(c, m.version)'
      <4>1. version[c] \in (m.version + 1) .. (version'[c] - 1)
        BY <1>4, <1>5, <2>2, <3>1
      <4>2. \A k \in mgr[c].kept : k.version # version[c]
        <5>1. \A k \in mgr[c].kept : k.version \in Nat /\ k.version < version[c]
          BY <2>3, <2>5 DEF KeptApart, TypeOK, TypeBg, Managers, Retained
        <5>. QED
          BY <1>5, <5>1
      <4>3. ~HasOpLog(mgr'[c], version[c])
        BY <1>1, <3>3, <4>2 DEF HasOpLog
      <4>. QED
        BY <4>1, <4>3 DEF Missing
    <3>4. SUFFICES ASSUME NEW u \in Own(c, m.row), u \notin m.data, ~Missing(c, m.version)'
                   PROVE  \/ u \in oplog'[c][m.row]
                          \/ \E k \in mgr'[c].kept : k.version > m.version /\ u \in k.log[m.row]
      BY <1>4, <2>5 DEF Rebuildable, Own
    <3>5. CASE u \in oplog[c][m.row]
      <4>1. u \in oplog'[c][m.row] \/ u \in k0.log[m.row]
        BY <1>1, <1>2, <2>2, <3>5
      <4>2. k0 \in mgr'[c].kept /\ k0.version > m.version
        BY <1>2, <1>5, <2>2, <3>1, <3>3, <3>4
      <4>. QED
        BY <4>1, <4>2
    <3>6. CASE \E k \in mgr[c].kept : k.version > m.version /\ u \in k.log[m.row]
      BY <1>1, <3>6
    <3>. QED
      BY <2>3, <2>5, <3>2, <3>4, <3>5, <3>6 DEF Rebuildable
  <2>. QED
    BY <2>4, <2>5
<1>. QED
  BY <1>6, <1>7 DEF RebuiltInv, RepliesRebuildable

LEMMA NewRowRebuilt ==
  ASSUME TypeOK, ApartInv, RebuiltInv, NEW c \in Clients, NEW s \in Servers,
         NEW m \in RepliesTo(s, c), ~Missing(c, m.version)
  PROVE  Own(c, m.row) \subseteq NewRow(c, m).data
<1>1. m.row \in Rows /\ m.version \in Int /\ version[c] \in Nat
  BY ChannelTypes DEF RowReplyMsgs, Versions, TypeOK, TypeBg
<1>2. Rebuildable(c, m) /\ ReplyApart(c, m) /\ KeptApart(c, m.row)
  BY <1>1 DEF RebuiltInv, RepliesRebuildable, ApartInv, RepliesApart, PartsApart
<1>3. m.version < version[c]
  BY <1>2 DEF ReplyApart
<1> DEFINE parts == Addends(c, m)
<1>4. DOMAIN parts = m.version .. version[c]
  BY DEF Addends
<1>5. m.version \in DOMAIN parts /\ parts[m.version] = m.data
  BY <1>1, <1>3 DEF Addends
<1>6. version[c] \in DOMAIN parts /\ parts[version[c]] = oplog[c][m.row]
  BY <1>1, <1>3 DEF Addends
<1>7. ASSUME NEW k \in mgr[c].kept, k.version > m.version
      PROVE  k.version \in DOMAIN parts /\ parts[k.version] = k.log[m.row]
  <2>1. k.version \in Nat /\ k.version < version[c]
    BY <1>2 DEF KeptApart, TypeOK, TypeBg, Managers, Retained
  <2>2. k.version \in m.version .. version[c] /\ k.version # m.version /\ k.version # version[c]
    BY <1>1, <1>7, <2>1
  <2> DEFINE l == CHOOSE x \in mgr[c].kept : x.version = k.version
  <2>3. l \in mgr[c].kept /\ l.version = k.version
    OBVIOUS
  <2>4. parts[k.version] = l.log[m.row]
    BY <2>2 DEF Addends, GetOpLog
  <2> HIDE DEF l, parts
  <2>5. l = k
    BY <1>2, <2>3 DEF KeptApart
  <2>. QED
    BY <1>4, <2>2, <2>4, <2>5
<1> HIDE DEF parts
<1>8. SUFFICES ASSUME NEW u \in Own(c, m.row) PROVE \E v \in DOMAIN parts : u \in parts[v]
  BY DEF NewRow, Range, parts
<1>. QED
  BY <1>2, <1>5, <1>6, <1>7 DEF Rebuildable

LEMMA ReplayedRebuilt ==
  ASSUME TypeOK, ApartInv, RebuiltInv, NEW c \in Clients, NEW s \in Servers, NEW m,
         RowRebuilt(s, c, m)
  PROVE  RebuiltInv'
<1>1. /\ m.row \in Rows
      /\ \A d \in Clients, r \in Rows :
           storage'[d][r] = IF d = c /\ r = m.row THEN NewRow(c, m) ELSE storage[d][r]
      /\ \A d \in Clients : mgr'[d].kept \subseteq mgr[d].kept
  BY ReplayedRow
<1>2. /\ UNCHANGED <<made, oplog, version>>
      /\ m \in RepliesTo(s, c) /\ ~Missing(c, m.version)
      /\ FewerReplies
  BY DEF RowRebuilt
<1>3. Own(c, m.row) \subseteq NewRow(c, m).data
  BY <1>2, NewRowRebuilt
<1>4. ReadMyWrites'
  <2>1. SUFFICES ASSUME NEW d \in Clients, NEW x \in Rows, Cached(d, x)'
                 PROVE  Own(d, x) \subseteq storage'[d][x].data
    BY <1>2 DEF ReadMyWrites, Own
  <2>2. CASE d = c /\ x = m.row
    BY <1>1, <1>3, <2>2
  <2>3. CASE ~(d = c /\ x = m.row)
    BY <1>1, <2>1, <2>3 DEF RebuiltInv, ReadMyWrites, Cached, Own
  <2>. QED
    BY <2>2, <2>3
<1>5. ASSUME NEW d \in Clients, NEW z \in Servers, NEW n \in RepliesTo(z, d)'
      PROVE  Rebuildable(d, n)'
  <2>1. n \in RepliesTo(z, d)
    BY <1>2, <1>5 DEF FewerReplies
  <2>2. n.row \in Rows /\ n.version \in Int
    BY <2>1, ChannelTypes DEF RowReplyMsgs, Versions
  <2>3. Rebuildable(d, n) /\ KeptApart(d, n.row)
    BY <2>1, <2>2 DEF RebuiltInv, RepliesRebuildable, ApartInv, PartsApart
  <2>4. ASSUME Missing(d, n.version)
        PROVE  Missing(d, n.version)'
    BY <1>1, <1>2, <2>4 DEF Missing, HasOpLog
  <2>5. ASSUME NEW k \in mgr[d].kept, k \notin mgr'[d].kept, k.version > n.version
        PROVE  Missing(d, n.version)'
    <3>1. k.version \in Nat /\ k.version < version[d] /\ version[d] \in Nat
      BY <2>3 DEF KeptApart, TypeOK, TypeBg, Managers, Retained
    <3>2. k.version \in (n.version + 1) .. (version[d] - 1)
      BY <2>2, <2>5, <3>1
    <3>3. ~HasOpLog(mgr'[d], k.version)
      BY <1>1, <2>3, <2>5 DEF HasOpLog, KeptApart
    <3>. QED
      BY <1>2, <3>2, <3>3 DEF Missing
  <2>. QED
    BY <1>2, <2>3, <2>4, <2>5 DEF Rebuildable, Own
<1>. QED
  BY <1>4, <1>5 DEF RebuiltInv, RepliesRebuildable

LEMMA AppliedRebuilt ==
  ASSUME TypeOK', ChannelInv', OwnInv', ApartInv', RebuiltInv,
         NEW c \in Clients, NEW s \in Servers, NEW m, AppliedBatch(c, s, m)
  PROVE  RebuiltInv'
<1>1. UNCHANGED <<made, oplog, version, storage, mgr>> /\ FewerOrFreshReplies
  BY DEF AppliedBatch
<1>2. ReadMyWrites'
  BY <1>1 DEF RebuiltInv, ReadMyWrites, Cached
<1>3. \A d \in Clients : \A v : Missing(d, v)' <=> Missing(d, v)
  BY <1>1 DEF Missing
<1>4. \A d \in Clients : \A n : Rebuildable(d, n) => Rebuildable(d, n)'
  BY <1>1, <1>3 DEF Rebuildable, Own
<1>5. PartsApart'
  BY DEF ApartInv
<1>6. \A d \in Clients, x \in Servers : \A n \in FreshReplies(x, d)' : Rebuildable(d, n)'
  BY <1>5, FreshNextRebuildable DEF FreshRebuildable
<1>7. RepliesRebuildable'
  BY <1>1, <1>4, <1>6 DEF RebuiltInv, RepliesRebuildable, FewerOrFreshReplies
<1>. QED
  BY <1>2, <1>7 DEF RebuiltInv

(* What the store's values need: the layers together.                      *)
ReplayInv == TypeOK /\ ChannelInv /\ OwnInv /\ ApartInv /\ RebuiltInv

LEMMA EffectRebuilt == ReplayInv /\ TypeOK' /\ ChannelInv' /\ OwnInv' /\ ApartInv' /\ Effect
                         => RebuiltInv'
<1>1. SUFFICES ASSUME TypeOK, ChannelInv, OwnInv, ApartInv, RebuiltInv,
                      TypeOK', ChannelInv', OwnInv', ApartInv', Effect
               PROVE  RebuiltInv'
  BY DEF ReplayInv
<1>2. ASSUME NEW t \in Writers, NEW r \in Rows, Inc(t, r)
      PROVE  RebuiltInv'
  <2>1. t \in Threads /\ ClientOf[t] \in Clients /\ MadeNumbered
    BY <1>1, SSPAssumption DEF OwnInv
  <2>2. PICK u \in Updates : IncEffect(ClientOf[t], r, u)
    BY <1>1, <1>2, <2>1, IncIsEffect
  <2>. QED
    BY <1>1, <2>1, <2>2, IncRebuilt
<1>. QED
  BY <1>1, <1>2, QuietRebuilt, BatchedRebuilt, ReplayedRebuilt, AppliedRebuilt DEF Effect

LEMMA InitReplay == Init => ReplayInv
BY InitType, InitChannel, InitOwn, InitApart, InitRebuilt DEF ReplayInv

LEMMA ReplayStep == ReplayInv /\ [Next]_vars => ReplayInv' /\ Effect
<1>1. SUFFICES ASSUME ReplayInv, [Next]_vars PROVE ReplayInv' /\ Effect
  OBVIOUS
<1>2. TypeOK' /\ ChannelInv' /\ Effect
  BY <1>1, TypeNext, StepEffect DEF ReplayInv
<1>3. OwnInv'
  BY <1>1, <1>2, EffectOwn DEF ReplayInv
<1>4. ApartInv'
  BY <1>1, <1>2, <1>3, EffectApart DEF ReplayInv
<1>5. RebuiltInv'
  BY <1>1, <1>2, <1>3, <1>4, EffectRebuilt
<1>. QED
  BY <1>2, <1>3, <1>4, <1>5 DEF ReplayInv

LEMMA ReplayHolds == Spec => []ReplayInv
BY InitReplay, ReplayStep, PTL DEF Spec

(* A cached row holds every update of its own process: those the server    *)
(* has not applied when it answers are replayed from the retained batches, *)
(* or the worker stops at the CHECK of GetOpLog.                           *)
THEOREM OwnWritesRead == Spec => []ReadMyWrites
<1>1. ReplayInv => ReadMyWrites
  BY DEF ReplayInv, RebuiltInv
<1>. QED
  BY <1>1, ReplayHolds, PTL

=============================================================================
