------------------------- MODULE SystemClockProofs -------------------------
(***************************************************************************)
(* Theorems about VectorClock, for any participants and clocks, and about  *)
(* SystemClock, for any workers, threads, staleness and clocks.            *)
(***************************************************************************)
EXTENDS SystemClock, TLAPS
-----------------------------------------------------------------------------
(* The vector clock.                                                       *)

(* While TickUntil loops, the minimum only grows and new_clock already     *)
(* tells whether it has moved; before the first AddClock there is no       *)
(* minimum and no loop.                                                    *)
LoopTellsMove ==
  ~Idle => start <= min /\ loop.new = IF min # start THEN min ELSE 0
EmptyIsIdle   == DOMAIN vec = {} => Idle /\ min = -1

IInv == TypeOK /\ MinIsExact /\ EmptyIsIdle /\ LoopTellsMove /\ AnswerTellsMove

LEMMA InitIInv == Init => IInv
BY DEF Init, IInv, TypeOK, MinIsExact, EmptyIsIdle, LoopTellsMove,
       AnswerTellsMove, Idle

(* One tick of any participant keeps the minimum exact, and its result is  *)
(* the new minimum or, when that did not move, 0.                          *)
LEMMA TickKeepsMin ==
  ASSUME TypeOK, MinIsExact, NEW id \in DOMAIN vec,
         vec' = Ticked(id), min' = MinAfter(id)
  PROVE  /\ DOMAIN vec' = DOMAIN vec /\ vec' \in [DOMAIN vec -> Nat]
         /\ min \in Nat /\ min' \in Nat /\ min' >= min
         /\ MinIsExact'
         /\ Returned(id) = IF min' # min THEN min' ELSE 0
<1>1. /\ DOMAIN vec' = DOMAIN vec /\ vec' \in [DOMAIN vec -> Nat]
      /\ vec'[id] = vec[id] + 1
      /\ \A i \in DOMAIN vec \ {id} : vec'[i] = vec[i]
  BY DEF TypeOK, Ticked
<1>2. min \in Nat
  BY DEF TypeOK, MinIsExact
<1>3. CASE IsUniqueMin(id)
  <2>1. min' = min + 1 /\ Returned(id) = min + 1
    BY <1>3 DEF MinAfter, Returned
  <2>2. vec'[id] = min'
    BY <1>1, <1>3, <2>1 DEF IsUniqueMin
  <2>3. \A i \in DOMAIN vec \ {id} : vec[i] >= min + 1
    BY <1>2, <1>3 DEF IsUniqueMin, MinIsExact, TypeOK
  <2>4. \A i \in DOMAIN vec' : vec'[i] >= min'
    BY <1>1, <1>2, <2>1, <2>2, <2>3
  <2>. QED
    BY <1>1, <1>2, <2>1, <2>2, <2>4 DEF MinIsExact
<1>4. CASE ~IsUniqueMin(id)
  <2>1. min' = min /\ Returned(id) = 0
    BY <1>4 DEF MinAfter, Returned
  <2>2. PICK o \in DOMAIN vec \ {id} : vec[o] = min
    BY <1>4 DEF IsUniqueMin, MinIsExact
  <2>3. vec'[o] = min'
    BY <1>1, <2>1, <2>2
  <2>4. \A i \in DOMAIN vec' : vec'[i] >= min'
    BY <1>1, <1>2, <2>1 DEF MinIsExact, TypeOK
  <2>. QED
    BY <1>1, <1>2, <2>1, <2>2, <2>3, <2>4 DEF MinIsExact
<1>. QED
  BY <1>3, <1>4

LEMMA AddClockIInv ==
  ASSUME IInv, NEW id \in Ids, NEW clock \in 0 .. MaxValue, AddClock(id, clock)
  PROVE  IInv'
<1> USE DEF IInv
<1>1. /\ Idle /\ Idle' /\ loop' = loop
      /\ id \notin DOMAIN vec /\ DOMAIN vec' = DOMAIN vec \cup {id}
      /\ vec'[id] = clock /\ \A i \in DOMAIN vec : vec'[i] = vec[i]
      /\ clock \in Nat
      /\ min' = IF min = -1 \/ clock < min THEN clock ELSE min
      /\ start' = min' /\ answer' = 0
  BY VectorClockAssumption DEF AddClock, Idle
<1>2. TypeOK'
  BY <1>1 DEF TypeOK, AddClock
<1>3. MinIsExact'
  <2>1. CASE DOMAIN vec = {}
    BY <1>1, <2>1 DEF MinIsExact, EmptyIsIdle
  <2>2. CASE DOMAIN vec # {}
    <3>1. min \in Nat
      BY <2>2 DEF MinIsExact, TypeOK
    <3>2. \A i \in DOMAIN vec' : vec'[i] >= min'
      BY <1>1, <2>2, <3>1 DEF MinIsExact, TypeOK
    <3>3. \E i \in DOMAIN vec' : vec'[i] = min'
      BY <1>1, <2>2, <3>1 DEF MinIsExact
    <3>. QED
      BY <3>2, <3>3 DEF MinIsExact
  <2>. QED
    BY <2>1, <2>2
<1>. QED
  BY <1>1, <1>2, <1>3 DEF EmptyIsIdle, LoopTellsMove, AnswerTellsMove

LEMMA TickIInv ==
  ASSUME IInv, NEW id \in Ids, Tick(id)
  PROVE  IInv'
<1> USE DEF IInv
<1>1. /\ Idle /\ Idle' /\ loop' = loop
      /\ id \in DOMAIN vec
      /\ vec' = Ticked(id) /\ min' = MinAfter(id)
      /\ start' = min /\ answer' = Returned(id)
  BY DEF Tick, Idle
<1>2. /\ DOMAIN vec' = DOMAIN vec /\ vec' \in [DOMAIN vec -> Nat]
      /\ min \in Nat /\ min' \in Nat
      /\ MinIsExact'
      /\ Returned(id) = IF min' # min THEN min' ELSE 0
  BY <1>1, TickKeepsMin
<1>. QED
  BY <1>1, <1>2 DEF TypeOK, EmptyIsIdle, LoopTellsMove, AnswerTellsMove

LEMMA TickUntilIInv ==
  ASSUME IInv, NEW id \in Ids, NEW clock \in 0 .. MaxValue,
         TickUntil(id, clock) \/ TickUntilNothing(id, clock)
  PROVE  IInv'
<1> USE DEF IInv
<1>1. id \in DOMAIN vec /\ vec[id] \in Nat /\ clock \in Nat
  BY VectorClockAssumption DEF TickUntil, TickUntilNothing, TypeOK
<1>2. CASE TickUntil(id, clock)
  <2>1. /\ loop' = [id |-> id, left |-> clock - vec[id], new |-> 0]
        /\ clock - vec[id] \in Nat
        /\ UNCHANGED <<vec, min, answer>> /\ start' = min
    BY <1>1, <1>2 DEF TickUntil
  <2>2. loop' \in [id : DOMAIN vec, left : Nat, new : Nat] /\ loop'.new = 0
    BY <1>1, <2>1
  <2>3. ~Idle'
    BY <1>1, <2>1, VectorClockAssumption DEF Idle, NoLoop, TypeOK
  <2>. QED
    BY <1>1, <2>1, <2>2, <2>3
       DEF TypeOK, MinIsExact, EmptyIsIdle, LoopTellsMove, AnswerTellsMove
<1>3. CASE TickUntilNothing(id, clock)
  <2>1. /\ Idle /\ UNCHANGED <<vec, min, loop>>
        /\ start' = min /\ answer' = 0
    BY <1>3 DEF TickUntilNothing
  <2>. QED
    BY <2>1 DEF TypeOK, MinIsExact, EmptyIsIdle, LoopTellsMove,
                AnswerTellsMove, Idle
<1>. QED
  BY <1>2, <1>3

LEMMA TickUntilStepIInv == IInv /\ TickUntilStep => IInv'
<1> USE DEF IInv
<1>1. SUFFICES ASSUME IInv, TickUntilStep PROVE IInv'
  OBVIOUS
<1> DEFINE id == loop.id
<1>2. /\ ~Idle /\ loop \in [id : DOMAIN vec, left : Nat, new : Nat]
      /\ loop.left > 0 /\ id \in DOMAIN vec
      /\ vec' = Ticked(id) /\ min' = MinAfter(id)
      /\ loop' = [loop EXCEPT !.left = @ - 1, !.new = NewClock(@, Returned(id))]
      /\ UNCHANGED <<start, answer>>
  BY <1>1 DEF TickUntilStep, TypeOK
<1>3. /\ DOMAIN vec' = DOMAIN vec /\ vec' \in [DOMAIN vec -> Nat]
      /\ min \in Nat /\ min' \in Nat /\ min' >= min
      /\ MinIsExact'
      /\ Returned(id) = IF min' # min THEN min' ELSE 0
  BY <1>1, <1>2, TickKeepsMin
<1>4. start <= min /\ loop.new = IF min # start THEN min ELSE 0
  BY <1>1, <1>2 DEF LoopTellsMove
<1>5. /\ loop'.id = loop.id /\ loop'.left = loop.left - 1
      /\ loop'.new = NewClock(loop.new, Returned(id))
      /\ loop' = [id |-> loop'.id, left |-> loop'.left, new |-> loop'.new]
  <2> DEFINE n == NewClock(loop.new, Returned(id))
  <2>1. loop' = [loop EXCEPT !.left = loop.left - 1, !.new = n]
    BY <1>2
  <2> HIDE DEF n
  <2>2. loop' = [id |-> loop.id, left |-> loop.left - 1, new |-> n]
    BY <1>2, <2>1
  <2>. QED
    BY <2>2 DEF n
<1>6. /\ start \in Nat \cup {-1} /\ start' = start
      /\ loop.left - 1 \in Nat
  BY <1>1, <1>2 DEF TypeOK
<1>7. /\ start' <= min'
      /\ loop'.new = IF min' # start' THEN min' ELSE 0
  BY <1>3, <1>4, <1>5, <1>6 DEF NewClock
<1>8. loop' \in [id : DOMAIN vec, left : Nat, new : Nat]
  BY <1>2, <1>3, <1>5, <1>6, <1>7
<1>9. loop'.id # "none"
  BY <1>1, <1>2, <1>5, VectorClockAssumption DEF TypeOK
<1>10. ~Idle'
  BY <1>9 DEF Idle, NoLoop
<1>. QED
  BY <1>1, <1>2, <1>3, <1>6, <1>7, <1>8, <1>10
     DEF TypeOK, EmptyIsIdle, LoopTellsMove, AnswerTellsMove

LEMMA TickUntilReturnIInv == IInv /\ TickUntilReturn => IInv'
<1> USE DEF IInv
<1>1. SUFFICES ASSUME IInv, TickUntilReturn PROVE IInv'
  OBVIOUS
<1>2. /\ ~Idle /\ Idle'
      /\ loop \in [id : DOMAIN vec, left : Nat, new : Nat]
      /\ answer' = loop.new
      /\ UNCHANGED <<vec, min, start>>
  BY <1>1 DEF TickUntilReturn, TypeOK, Idle
<1>. QED
  BY <1>1, <1>2 DEF TypeOK, MinIsExact, EmptyIsIdle, LoopTellsMove,
                    AnswerTellsMove

LEMMA StutterIInv == IInv /\ UNCHANGED vcvars => IInv'
BY DEF IInv, TypeOK, MinIsExact, EmptyIsIdle, LoopTellsMove, AnswerTellsMove,
       Idle, vcvars

(* The inductive invariant holds throughout.                               *)
LEMMA AlwaysIInv == Spec => []IInv
<1>1. IInv /\ [Next]_vcvars => IInv'
  BY AddClockIInv, TickIInv, TickUntilIInv, TickUntilStepIInv,
     TickUntilReturnIInv, StutterIInv DEF Next
<1>. QED
  BY InitIInv, <1>1, PTL DEF Spec

(* min_clock_, which VectorClock updates and never recomputes, is the      *)
(* minimum of the participants' clocks at every moment, for any number of  *)
(* participants, also between two ticks of TickUntil's loop.               *)
THEOREM MinAlwaysExact == Spec => []MinIsExact
BY AlwaysIInv, PTL DEF IInv

(* Tick and TickUntil return the new minimum when the operation moved it   *)
(* and 0 when it did not, however many ticks TickUntil took: a caller that *)
(* acts on a result other than 0 misses no advance and invents none.       *)
THEOREM AnswerAlwaysTells == Spec => []AnswerTellsMove
BY AlwaysIInv, PTL DEF IInv
-----------------------------------------------------------------------------
(* The system clock.                                                       *)

(* What the variables beside the vector clock hold.                        *)
SysTypeOK ==
  /\ step \in [Ids -> {"idle", "ticking", "storing", "notifying"}]
  /\ new \in [Ids -> Int]
  /\ systemClock \in Int
  /\ mutex \in Threads \cup {"none"}
  /\ pc \in [Threads -> {"run", "locking", "checking", "falling", "asleep", "leaving"}]
  /\ threadClock \in [Threads -> Nat]
  /\ cached \in [Threads -> Int]
  /\ served \in [Threads -> BOOLEAN]

(* A value that is no clock yet, or a clock that the minimum has reached.  *)
Reached(v) == v <= 0 \/ v <= min

(* Nothing is ticked before every worker has its clock; every value that   *)
(* is, was or will be stored has been the minimum.                         *)
ReachedInv ==
  /\ ~Started => Idle /\ min <= 0 /\ \A w \in Ids : step[w] # "storing"
  /\ Reached(systemClock)
  /\ \A t \in Threads : Reached(cached[t])
  /\ \A w \in Ids : step[w] = "storing" => Reached(new[w])

(* A thread that has found the clock too low keeps the mutex until it      *)
(* sleeps; if it should not sleep, some worker has still to notify.        *)
WakeInv ==
  /\ \A t \in Threads : pc[t] \in {"checking", "falling"} => mutex = t
  /\ \A t \in Threads :
       pc[t] \in {"falling", "asleep"} /\ systemClock >= Needed(t) =>
         \E w \in Ids : step[w] = "notifying"

SysIInv == IInv /\ SysTypeOK /\ ReachedInv /\ WakeInv

sysvars == <<vcvars, scvars>>
-----------------------------------------------------------------------------
(* Each step of the workers and threads is a step of the vector clock or   *)
(* leaves it alone.                                                        *)
LEMMA SysNextIsNext == [SysNext]_sysvars => [Next]_vcvars
<1>1. SUFFICES ASSUME [SysNext]_sysvars PROVE [Next]_vcvars
  OBVIOUS
<1>2. 0 \in 0 .. MaxValue /\ \A k \in 1 .. MaxValue : k \in 0 .. MaxValue
  BY VectorClockAssumption
<1>3. ASSUME NEW w \in Ids, Construct(w) PROVE Next
  BY <1>2, <1>3 DEF Construct, Next
<1>4. ASSUME NEW w \in Ids, WorkerStep(w) PROVE [Next]_vcvars
  BY <1>2, <1>4 DEF WorkerStep, Pushed, TickEnds, Store, Notify, Next
<1>5. ASSUME Ticks PROVE Next
  BY <1>5 DEF Ticks, Next
<1>6. ASSUME NEW t \in Threads,
             Get(t) \/ WaitStep(t) \/ WakeSpuriously(t) \/ Clock(t)
      PROVE  UNCHANGED vcvars
  BY <1>6 DEF Get, WaitStep, Lock, Check, Sleep, Leave, WakeSpuriously, Clock,
              UnchangedByThread
<1>7. UNCHANGED sysvars => UNCHANGED vcvars
  BY DEF sysvars
<1>. QED
  BY <1>1, <1>3, <1>4, <1>5, <1>6, <1>7 DEF SysNext

LEMMA IInvStep == IInv /\ [Next]_vcvars => IInv'
BY AddClockIInv, TickIInv, TickUntilIInv, TickUntilStepIInv,
   TickUntilReturnIInv, StutterIInv DEF Next

(* The workers use the vector clock as VectorClock specifies it.           *)
THEOREM SystemClockImplementsVectorClock == SysSpec => Spec
<1>1. SysInit => Init
  BY DEF SysInit
<1>. QED
  BY <1>1, SysNextIsNext, PTL DEF SysSpec, Spec, sysvars

-----------------------------------------------------------------------------
LEMMA SysInitIInv ==
  ASSUME \A v \in Uninitialised : v <= 0
  PROVE  SysInit => SysIInv
<1>1. SUFFICES ASSUME SysInit PROVE SysIInv
  OBVIOUS
<1>2. IInv
  BY <1>1, InitIInv DEF SysInit
<1>3. SysTypeOK
  BY <1>1, SystemClockAssumption DEF SysInit, SysTypeOK
<1>4. ReachedInv
  BY <1>1 DEF SysInit, Init, ReachedInv, Reached, Idle
<1>5. WakeInv
  BY <1>1 DEF SysInit, WakeInv
<1>. QED
  BY <1>2, <1>3, <1>4, <1>5 DEF SysIInv

LEMMA SysTypeOKStep ==
  ASSUME IInv, SysTypeOK, [SysNext]_sysvars
  PROVE  SysTypeOK'
<1> USE DEF SysTypeOK
<1>1. ASSUME NEW w \in Ids, NEW k \in 1 .. MaxValue, Pushed(w, k)
      PROVE  SysTypeOK'
  BY <1>1 DEF Pushed, UnchangedByWorker
<1>2. ASSUME NEW w \in Ids, TickEnds(w)
      PROVE  SysTypeOK'
  <2>1. loop.new \in Int
    BY <1>2 DEF TickEnds, TickUntilReturn, IInv, TypeOK
  <2>. QED
    BY <1>2, <2>1 DEF TickEnds, UnchangedByWorker
<1>3. ASSUME NEW w \in Ids, Store(w)
      PROVE  SysTypeOK'
  BY <1>3 DEF Store, NewSystemClock, UnchangedByWorker
<1>4. ASSUME NEW w \in Ids, Notify(w)
      PROVE  SysTypeOK'
  BY <1>4 DEF Notify, UnchangedByWorker
<1>5. ASSUME NEW t \in Threads, Get(t)
      PROVE  SysTypeOK'
  BY <1>5 DEF Get, UnchangedByThread
<1>6. ASSUME NEW t \in Threads, WaitStep(t) \/ WakeSpuriously(t)
      PROVE  SysTypeOK'
  BY <1>6 DEF WaitStep, Lock, Check, Sleep, Leave, WakeSpuriously, UnchangedByThread
<1>7. ASSUME NEW t \in Threads, Clock(t)
      PROVE  SysTypeOK'
  BY <1>7 DEF Clock, UnchangedByThread
<1>8. UNCHANGED scvars => SysTypeOK'
  BY DEF scvars
<1>. QED
  BY <1>1, <1>2, <1>3, <1>4, <1>5, <1>6, <1>7, <1>8
  DEF SysNext, WorkerStep, Construct, Ticks, sysvars

(* A tick does not lower the minimum, and gives what it tells.             *)
LEMMA TicksKeepsMin ==
  ASSUME IInv, TickUntilStep
  PROVE  min \in Nat /\ min' \in Nat /\ min <= min'
<1> DEFINE id == loop.id
<1>1. loop \in [id : DOMAIN vec, left : Nat, new : Nat]
  BY DEF IInv, TypeOK, TickUntilStep
<1>2. id \in DOMAIN vec /\ vec' = Ticked(id) /\ min' = MinAfter(id)
  BY <1>1 DEF TickUntilStep
<1>3. TypeOK /\ MinIsExact
  BY DEF IInv
<1> HIDE DEF id
<1>. QED
  BY <1>2, <1>3, TickKeepsMin

(* What has been reached stays so: the minimum only grows, and while       *)
(* workers are still added it is at most 0.                                *)
LEMMA ReachedStays ==
  ASSUME IInv, ReachedInv, [SysNext]_sysvars, NEW v \in Int, Reached(v)
  PROVE  Reached(v)'
<1>1. min \in Int
  BY DEF IInv, TypeOK
<1>2. ASSUME NEW w \in Ids, Construct(w) PROVE Reached(v)'
  <2>1. ~Started
    BY <1>2 DEF Construct, AddClock, Started
  <2>2. min <= 0
    BY <2>1 DEF ReachedInv
  <2>3. min' = IF min = -1 \/ 0 < min THEN 0 ELSE min
    BY <1>2 DEF Construct, AddClock
  <2>. QED
    BY <1>1, <2>2, <2>3 DEF Reached
<1>3. ASSUME Ticks PROVE Reached(v)'
  <2>1. min \in Nat /\ min' \in Nat /\ min <= min'
    BY <1>3, TicksKeepsMin DEF Ticks
  <2>. QED
    BY <2>1 DEF Reached
<1>4. ASSUME NEW w \in Ids, WorkerStep(w) PROVE min' = min
  BY <1>4 DEF WorkerStep, Pushed, TickEnds, Store, Notify, TickUntil,
              TickUntilReturn, vcvars
<1>5. ASSUME NEW t \in Threads,
             Get(t) \/ WaitStep(t) \/ WakeSpuriously(t) \/ Clock(t)
      PROVE  min' = min
  BY <1>5 DEF Get, WaitStep, Lock, Check, Sleep, Leave, WakeSpuriously, Clock,
              UnchangedByThread, vcvars
<1>6. UNCHANGED sysvars => min' = min
  BY DEF sysvars, vcvars
<1>7. min' = min => Reached(v)'
  BY DEF Reached
<1>. QED
  BY <1>2, <1>3, <1>4, <1>5, <1>6, <1>7 DEF SysNext

LEMMA ReachedInvStep ==
  ASSUME IInv, SysTypeOK, ReachedInv, [SysNext]_sysvars
  PROVE  ReachedInv'
<1>1. \A v \in Int : Reached(v) => Reached(v)'
  BY ReachedStays
<1>2. ASSUME NEW w \in Ids, Construct(w) PROVE ReachedInv'
  <2>1. ~Started /\ UNCHANGED scvars
    BY <1>2 DEF Construct, AddClock, Started
  <2>2. Idle' /\ min' <= 0
    BY <1>2, <2>1 DEF Construct, AddClock, ReachedInv, Idle
  <2>3. \A w2 \in Ids : step'[w2] # "storing"
    BY <2>1 DEF ReachedInv, scvars
  <2>4. Reached(systemClock)' /\ \A t \in Threads : Reached(cached[t])'
    BY <1>1, <2>1 DEF ReachedInv, SysTypeOK, scvars, Reached
  <2>. QED
    BY <2>2, <2>3, <2>4 DEF ReachedInv
<1>3. ASSUME Ticks PROVE ReachedInv'
  <2>1. Started /\ DOMAIN vec' = DOMAIN vec /\ UNCHANGED scvars
    BY <1>3 DEF Ticks, TickUntilStep, Ticked, ReachedInv
  <2>2. Started'
    BY <2>1 DEF Started
  <2>. QED
    BY <1>1, <2>1, <2>2 DEF ReachedInv, SysTypeOK, scvars, Reached
<1>4. ASSUME NEW w \in Ids, NEW k \in 1 .. MaxValue, Pushed(w, k)
      PROVE  ReachedInv'
  <2>1. Started /\ vec' = vec /\ min' = min /\ UNCHANGED <<systemClock, cached, new>>
    BY <1>4 DEF Pushed, TickUntil, UnchangedByWorker
  <2>2. Started' /\ \A w2 \in Ids : step'[w2] = "storing" => step[w2] = "storing"
    BY <1>4, <2>1 DEF Started, Pushed, SysTypeOK
  <2>. QED
    BY <2>1, <2>2 DEF ReachedInv, Reached
<1>5. ASSUME NEW w \in Ids, TickEnds(w) PROVE ReachedInv'
  <2>1. Started /\ vec' = vec /\ min' = min /\ UNCHANGED <<systemClock, cached>>
    BY <1>5 DEF TickEnds, TickUntilReturn, UnchangedByWorker, ReachedInv
  <2>2. Started'
    BY <2>1 DEF Started
  <2>3. loop.new \in Int /\ Reached(loop.new)
    BY <1>5 DEF TickEnds, TickUntilReturn, IInv, TypeOK, LoopTellsMove, Reached
  <2>4. ASSUME NEW w2 \in Ids, step'[w2] = "storing" PROVE Reached(new[w2])'
    BY <1>5, <2>1, <2>3, <2>4 DEF TickEnds, SysTypeOK, ReachedInv, Reached
  <2>. QED
    BY <2>1, <2>2, <2>4 DEF ReachedInv, Reached
<1>6. ASSUME NEW w \in Ids, Store(w) \/ Notify(w) PROVE ReachedInv'
  <2>1. UNCHANGED vcvars /\ UNCHANGED <<cached, new>>
    BY <1>6 DEF Store, Notify, UnchangedByWorker
  <2>2. Reached(systemClock)'
    BY <1>1, <1>6, <2>1 DEF Store, Notify, NewSystemClock, ReachedInv, SysTypeOK,
                           Reached, vcvars
  <2>3. \A w2 \in Ids : step'[w2] = "storing" => step[w2] = "storing"
    BY <1>6 DEF Store, Notify, SysTypeOK
  <2>. QED
    BY <2>1, <2>2, <2>3 DEF ReachedInv, Reached, Started, Idle, vcvars
<1>7. ASSUME NEW t \in Threads,
             Get(t) \/ WaitStep(t) \/ WakeSpuriously(t) \/ Clock(t)
      PROVE  ReachedInv'
  <2>1. UNCHANGED vcvars /\ UNCHANGED <<step, new, systemClock>>
    BY <1>7 DEF Get, WaitStep, Lock, Check, Sleep, Leave, WakeSpuriously, Clock,
                UnchangedByThread
  <2>2. \A u \in Threads : cached'[u] = cached[u] \/ cached'[u] = systemClock
    BY <1>7 DEF Get, WaitStep, Lock, Check, Sleep, Leave, WakeSpuriously, Clock,
                SysTypeOK
  <2>. QED
    BY <2>1, <2>2 DEF ReachedInv, Reached, Started, Idle, vcvars
<1>8. UNCHANGED sysvars => ReachedInv'
  BY DEF sysvars, scvars, vcvars, ReachedInv, Reached, Started, Idle
<1>. QED
  BY <1>2, <1>3, <1>4, <1>5, <1>6, <1>7, <1>8 DEF SysNext, WorkerStep

LEMMA NeededIsInt ==
  ASSUME SysTypeOK, NEW t \in Threads
  PROVE  Needed(t) \in Int
<1> DEFINE S == {0, threadClock[t] - Staleness}
<1>1. threadClock[t] - Staleness \in Int
  BY SystemClockAssumption DEF SysTypeOK
<1>2. S \subseteq Int /\ \E x \in S : \A y \in S : x >= y
  BY <1>1
<1>3. Max(S) \in S
  BY <1>2 DEF Max
<1>. QED
  BY <1>2, <1>3 DEF Needed

LEMMA WakeInvStep ==
  ASSUME SysTypeOK, WakeInv, [SysNext]_sysvars
  PROVE  WakeInv'
<1> USE DEF WakeInv
<1>1. ASSUME NEW w \in Ids, Notify(w) PROVE WakeInv'
  <2>1. \A t \in Threads : pc[t] \notin {"checking", "falling"}
    BY <1>1, SystemClockAssumption DEF Notify, MayNotify
  <2>2. \A t \in Threads : pc'[t] \notin {"checking", "falling", "asleep"}
    BY <1>1, <2>1 DEF Notify, Notified, SysTypeOK
  <2>. QED
    BY <2>2
<1>2. ASSUME NEW w \in Ids, Store(w) PROVE WakeInv'
  <2>1. step'[w] = "notifying" /\ UNCHANGED <<pc, mutex>>
    BY <1>2 DEF Store, UnchangedByWorker, SysTypeOK
  <2>. QED
    BY <2>1
<1>3. ASSUME NEW w \in Ids,
             Construct(w) \/ TickEnds(w) \/ Ticks \/ (\E k \in 1 .. MaxValue : Pushed(w, k))
      PROVE  WakeInv'
  <2>1. UNCHANGED <<pc, mutex, systemClock, threadClock>>
    BY <1>3 DEF Construct, TickEnds, Ticks, Pushed, UnchangedByWorker, scvars
  <2>2. \A w2 \in Ids : step[w2] = "notifying" => step'[w2] = "notifying"
    BY <1>3 DEF Construct, TickEnds, Ticks, Pushed, scvars, SysTypeOK
  <2>3. \A t \in Threads : Needed(t)' = Needed(t)
    BY <2>1 DEF Needed
  <2>. QED
    BY <2>1, <2>2, <2>3
<1>4. ASSUME NEW t \in Threads, Clock(t) \/ Get(t) PROVE WakeInv'
  <2>1. UNCHANGED <<step, systemClock, mutex>>
    BY <1>4 DEF Clock, Get, UnchangedByThread
  <2>2. ASSUME NEW u \in Threads, pc'[u] \in {"checking", "falling", "asleep"}
        PROVE  pc'[u] = pc[u] /\ Needed(u)' = Needed(u)
    <3>1. pc'[u] = pc[u] /\ threadClock'[u] = threadClock[u]
      BY <1>4, <2>2 DEF Clock, Get, SysTypeOK
    <3>. QED
      BY <3>1 DEF Needed
  <2>. QED
    BY <2>1, <2>2
<1>5. ASSUME NEW t \in Threads, WaitStep(t) \/ WakeSpuriously(t) PROVE WakeInv'
  <2>1. UNCHANGED <<step, systemClock, threadClock>>
    BY <1>5 DEF WaitStep, Lock, Check, Sleep, Leave, WakeSpuriously, UnchangedByThread
  <2>2. \A u \in Threads : Needed(u)' = Needed(u)
    BY <2>1 DEF Needed
  <2>3. \A u \in Threads : pc'[u] \in {"checking", "falling"} => mutex' = u
    BY <1>5, SystemClockAssumption DEF WaitStep, Lock, Check, Sleep, Leave, WakeSpuriously, SysTypeOK
  <2>4. ASSUME NEW u \in Threads, pc'[u] \in {"falling", "asleep"}, systemClock >= Needed(u)
        PROVE  pc[u] \in {"falling", "asleep"}
    <3>1. Needed(u) \in Int /\ systemClock \in Int
      BY NeededIsInt DEF SysTypeOK
    <3>. QED
      BY <1>5, <2>4, <3>1 DEF WaitStep, Lock, Check, Sleep, Leave, WakeSpuriously, SysTypeOK
  <2>. QED
    BY <2>1, <2>2, <2>3, <2>4
<1>6. UNCHANGED sysvars => WakeInv'
  BY DEF sysvars, scvars, Needed
<1>. QED
  BY <1>1, <1>2, <1>3, <1>4, <1>5, <1>6, SystemClockAssumption DEF SysNext, WorkerStep

LEMMA AlwaysSysIInv ==
  ASSUME \A v \in Uninitialised : v <= 0
  PROVE  SysSpec => []SysIInv
<1>1. SysIInv /\ [SysNext]_sysvars => SysIInv'
  BY SysNextIsNext, IInvStep, SysTypeOKStep, ReachedInvStep, WakeInvStep DEF SysIInv
<1>. QED
  BY SysInitIInv, <1>1, PTL DEF SysSpec, sysvars

(* If the memory of system_clock_ holds no positive value at first, no     *)
(* thread ever reads rows by a system clock that the slowest server has    *)
(* not reached, in whatever order the workers store what they computed.    *)
THEOREM SystemClockNeverAhead ==
  ASSUME \A v \in Uninitialised : v <= 0
  PROVE  SysSpec => []NeverAhead
<1>1. ASSUME SysIInv PROVE NeverAhead
  <2>1. Started => min >= 0
    BY <1>1, SystemClockAssumption DEF SysIInv, IInv, TypeOK, MinIsExact, Started
  <2>. QED
    BY <1>1, <2>1 DEF SysIInv, ReachedInv, Reached, NeverAhead, IInv, TypeOK, SysTypeOK
<1>. QED
  BY <1>1, AlwaysSysIInv, PTL

(* No wake-up is lost between a thread that finds the system clock too low *)
(* and a worker that raises it meanwhile.                                  *)
THEOREM NoWakeUpLost ==
  ASSUME \A v \in Uninitialised : v <= 0
  PROVE  SysSpec => []SleepersAreNotified
<1>1. SysIInv => SleepersAreNotified
  BY DEF SysIInv, WakeInv, SleepersAreNotified
<1>. QED
  BY <1>1, AlwaysSysIInv, PTL
=============================================================================
