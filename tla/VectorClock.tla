---------------------------- MODULE VectorClock ----------------------------
(***************************************************************************)
(* The vector clock a table group keeps of its threads and a server of its *)
(* clients: one clock per participant and, cached beside them, their       *)
(* minimum.  Tick advances one clock by one and returns the new minimum if *)
(* it moved, else 0; TickUntil repeats Tick and returns the last minimum   *)
(* that was not 0.  The callers take 0 to mean that nothing became known.  *)
(*                                                                         *)
(* TickUntil's loop is modelled step by step; VectorClockMT holds its      *)
(* write lock throughout, so no other operation starts before it returns.  *)
(***************************************************************************)
EXTENDS Integers, FiniteSets

CONSTANTS
  Ids,       (* participants: threads of a process, or clients             *)
  MaxValue   (* bound: clocks reach this value                             *)

ASSUME VectorClockAssumption ==
  MaxValue \in Nat /\ IsFiniteSet(Ids) /\ "none" \notin Ids

VARIABLES
  vec,     \* vec_clock_: the clocks of the participants added so far
  min,     \* min_clock_, -1 before the first AddClock
  loop,    \* the TickUntil under way: its participant, the ticks left, new_clock
  start,   \* history: the minimum when the last operation began
  answer   \* history: what the last Tick or TickUntil returned

vcvars == <<vec, min, loop, start, answer>>

NoLoop == [id |-> "none", left |-> 0, new |-> 0]
Idle   == loop = NoLoop

Init ==
  /\ vec    = [i \in {} |-> 0]
  /\ min    = -1
  /\ loop   = NoLoop
  /\ start  = -1
  /\ answer = 0

(* Each participant is added once, before its clock is used.               *)
AddClock(id, clock) ==
  /\ Idle
  /\ id \notin DOMAIN vec
  /\ vec'    = [i \in DOMAIN vec \cup {id} |-> IF i = id THEN clock ELSE vec[i]]
  /\ min'    = IF min = -1 \/ clock < min THEN clock ELSE min
  /\ start'  = min'
  /\ answer' = 0
  /\ UNCHANGED loop

(* Mutant: any participant at the minimum, alone there or not.             *)
IsUniqueMinShared(id) == vec[id] = min

IsUniqueMin(id) ==
  /\ vec[id] = min
  /\ \A i \in DOMAIN vec \ {id} : vec[i] # min

(* What Tick does to vec and min, and what it returns.                     *)
Ticked(id)   == [vec EXCEPT ![id] = @ + 1]
MinAfter(id) == IF IsUniqueMin(id) THEN min + 1 ELSE min
Returned(id) == IF IsUniqueMin(id) THEN min + 1 ELSE 0

Tick(id) ==
  /\ Idle
  /\ id \in DOMAIN vec /\ vec[id] < MaxValue
  /\ vec'    = Ticked(id)
  /\ min'    = MinAfter(id)
  /\ start'  = min
  /\ answer' = Returned(id)
  /\ UNCHANGED loop

(* Mutant: the result of the last tick only.                               *)
NewClockLast(new, changed) == changed
NewClock(new, changed) == IF changed # 0 THEN changed ELSE new

TickUntil(id, clock) ==
  /\ Idle
  /\ id \in DOMAIN vec
  /\ clock > vec[id]
  /\ loop'  = [id |-> id, left |-> clock - vec[id], new |-> 0]
  /\ start' = min
  /\ UNCHANGED <<vec, min, answer>>

(* The loop does not run when clock is not ahead.                          *)
TickUntilNothing(id, clock) ==
  /\ Idle
  /\ id \in DOMAIN vec
  /\ clock <= vec[id]
  /\ start'  = min
  /\ answer' = 0
  /\ UNCHANGED <<vec, min, loop>>

TickUntilStep ==
  /\ ~Idle
  /\ loop.left > 0
  /\ vec'  = Ticked(loop.id)
  /\ min'  = MinAfter(loop.id)
  /\ loop' = [loop EXCEPT !.left = @ - 1,
                          !.new  = NewClock(@, Returned(loop.id))]
  /\ UNCHANGED <<start, answer>>

TickUntilReturn ==
  /\ ~Idle
  /\ loop.left = 0
  /\ answer' = loop.new
  /\ loop'   = NoLoop
  /\ UNCHANGED <<vec, min, start>>

Next ==
  \/ \E id \in Ids : Tick(id)
  \/ \E id \in Ids, clock \in 0 .. MaxValue : \/ AddClock(id, clock)
                                              \/ TickUntil(id, clock)
                                              \/ TickUntilNothing(id, clock)
  \/ TickUntilStep
  \/ TickUntilReturn

Spec == Init /\ [][Next]_vcvars
-----------------------------------------------------------------------------
(* Properties.                                                             *)

(* What the variables hold; a loop under way has its participant added.    *)
TypeOK ==
  /\ DOMAIN vec \subseteq Ids
  /\ vec \in [DOMAIN vec -> Nat]
  /\ min \in Nat \cup {-1} /\ start \in Nat \cup {-1} /\ answer \in Nat
  /\ Idle \/ loop \in [id : DOMAIN vec, left : Nat, new : Nat]

(* min_clock_ is the minimum of the entries: VectorClock never recomputes  *)
(* it, so a tick that fails to move it, or moves it too early, would stay. *)
MinIsExact ==
  DOMAIN vec # {} =>
    /\ \E i \in DOMAIN vec : vec[i] = min
    /\ \A i \in DOMAIN vec : vec[i] >= min

(* The return value tells the caller exactly whether the minimum moved     *)
(* during the operation, and where to: TableGroup sends kBgClock, and a    *)
(* server answers the waiting requests, on nothing else.                   *)
AnswerTellsMove ==
  Idle => answer = IF min # start THEN min ELSE 0
=============================================================================
