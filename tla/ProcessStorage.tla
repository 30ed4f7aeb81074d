--------------------------- MODULE ProcessStorage ---------------------------
(***************************************************************************)
(* BoundedSparseProcessStorage, the cache of rows of one table in one      *)
(* process: a map from rows to slots of a ClockLRU, whose hand gives each  *)
(* recently used row a second chance before it is evicted.  Application    *)
(* threads find rows and hold references to them; the background workers,  *)
(* one per communication channel, update the rows they receive or insert   *)
(* them, evicting another row when the storage is full.                    *)
(*                                                                         *)
(* A worker's step says where in Insert() it is.  The locks need no        *)
(* variable: a slot is locked by the worker that holds it as candidate for *)
(* eviction, a stripe of rows by a worker that has claimed a slot for a    *)
(* row of that stripe and not yet put the row into the map.  A critical    *)
(* section in which nobody can be kept waiting is one step.                *)
(***************************************************************************)
EXTENDS Integers, Sequences, FiniteSets

CONSTANTS
  Rows,        (* row ids that are ever asked for                          *)
  Workers,     (* background workers                                       *)
  Getters,     (* application threads that call Get()                      *)
  WorkerOf,    (* GetPartitionCommChannelIndex: the worker of a row        *)
  Capacity,    (* capacity_, also the size of both pools of locks          *)
  MaxRounds,   (* MAX_NUM_ROUNDS, 20 in the code                           *)
  MaxGets      (* bound: calls of Get() by one thread                      *)

ASSUME StorageAssumption ==
  /\ Rows \subseteq Nat /\ Rows # {}
  /\ IsFiniteSet(Workers) /\ IsFiniteSet(Getters)
  /\ WorkerOf \in [Rows -> Workers]
  /\ Capacity \in Nat \ {0} /\ MaxRounds \in Nat \ {0}
  /\ MaxGets \in Nat

None  == -1
Slots == 0 .. Capacity - 1

VARIABLES
  \* BoundedSparseProcessStorage
  numRows,     \* num_rows_
  map,         \* storage_map_: the slot of a cached row
  refs,        \* num_refs_ of each cached ClientRow
  \* ClockLRU
  rowIds,      \* row_ids_: the row in a slot
  stale,       \* stale_: not used since the hand came by
  evictHand,   \* evict_hand_, modulo the capacity
  insertHand,  \* insert_hand_
  emptySlots,  \* empty_slots_
  \* background workers
  step, row, slot, tries,
  victim,      \* the row it has evicted and whose lock it still holds
  \* application threads
  get, acc, want, gets,
  \* history: the CHECK or FATAL that ended the process, or "none"
  failed

storageVars == <<numRows, map, refs>>
lruVars     == <<rowIds, stale, evictHand, insertHand, emptySlots>>
workerVars  == <<step, row, slot, tries, victim>>
getterVars  == <<get, acc, want, gets>>
vars == <<storageVars, lruVars, workerVars, getterVars, failed>>

Running == failed = "none"

Stripe(r)      == r % Capacity
RowLocked(r)   ==
  \E w \in Workers :
    \/ step[w] \in {"fill", "put"} /\ Stripe(row[w]) = Stripe(r)
    \/ step[w] = "evicted" /\ Stripe(victim[w]) = Stripe(r)
SlotLocked(s)  ==
  \E w \in Workers : step[w] \in {"candidate", "evicted"} /\ slot[w] = s

Init ==
  /\ numRows = 0
  /\ map  = [r \in Rows |-> None]
  /\ refs = [r \in Rows |-> 0]
  /\ rowIds = [s \in Slots |-> None]
  /\ stale  = [s \in Slots |-> TRUE]
  /\ evictHand = 0 /\ insertHand = 0 /\ emptySlots = << >>
  /\ step  = [w \in Workers |-> "idle"]
  /\ row   = [w \in Workers |-> None]
  /\ slot  = [w \in Workers |-> None]
  /\ tries = [w \in Workers |-> 0]
  /\ victim = [w \in Workers |-> None]
  /\ get  = [t \in Getters |-> "idle"]
  /\ acc  = [t \in Getters |-> None]
  /\ want = [t \in Getters |-> None]
  /\ gets = [t \in Getters |-> 0]
  /\ failed = "none"
-----------------------------------------------------------------------------
(* Application threads.                                                    *)

(* Find and RowAccessor::SetClientRow, which does not Clear() what the     *)
(* accessor held: one more reference, and the slot is recently used.       *)
Reference(r) ==
  /\ refs'  = [refs EXCEPT ![r] = @ + 1]
  /\ stale' = [stale EXCEPT ![map[r]] = FALSE]

(* The accessor's destructor gives back one reference.                     *)
DecRef(r) == [refs EXCEPT ![r] = @ - 1]

(* Get() of a row: found and fresh, found but stale, or not found; in the  *)
(* last two cases the row's worker is asked for it.                        *)
Get(t, r) ==
  /\ Running
  /\ get[t] = "idle" /\ gets[t] < MaxGets /\ ~RowLocked(r)
  /\ gets' = [gets EXCEPT ![t] = @ + 1]
  /\ want' = [want EXCEPT ![t] = r]
  /\ \/ /\ map[r] # None
        /\ Reference(r)
        /\ acc' = [acc EXCEPT ![t] = r]
        /\ \E now \in {"holding", "fetching"} : get' = [get EXCEPT ![t] = now]
     \/ /\ map[r] = None
        /\ get' = [get EXCEPT ![t] = "fetching"]
        /\ UNCHANGED <<refs, stale, acc>>
  /\ UNCHANGED <<numRows, map, rowIds, evictHand, insertHand, emptySlots,
                 workerVars, failed>>

(* After the reply the same accessor is given to Find again; a row that is *)
(* gone again is asked for again.                                          *)
GetAgain(t) ==
  LET r == want[t]
  IN  /\ Running
      /\ get[t] = "woken" /\ ~RowLocked(r)
      /\ \/ /\ map[r] # None
            /\ Reference(r)
            /\ acc' = [acc EXCEPT ![t] = r]
            /\ get' = [get EXCEPT ![t] = "holding"]
         \/ /\ map[r] = None
            /\ get' = [get EXCEPT ![t] = "fetching"]
            /\ UNCHANGED <<refs, stale, acc>>
      /\ UNCHANGED <<numRows, map, rowIds, evictHand, insertHand, emptySlots,
                     workerVars, want, gets, failed>>

Release(t) ==
  /\ Running
  /\ get[t] = "holding"
  /\ refs' = DecRef(acc[t])
  /\ acc'  = [acc EXCEPT ![t] = None]
  /\ want' = [want EXCEPT ![t] = None]
  /\ get'  = [get EXCEPT ![t] = "idle"]
  /\ UNCHANGED <<numRows, map, lruVars, workerVars, gets, failed>>
-----------------------------------------------------------------------------
(* Background workers.                                                     *)

Awaited(w) == { r \in Rows : WorkerOf[r] = w /\
                  \E t \in Getters : get[t] = "fetching" /\ want[t] = r }

Woken(r) == [t \in Getters |-> IF get[t] = "fetching" /\ want[t] = r
                               THEN "woken" ELSE get[t]]

(* A reply for a row that is cached: UpdateExistingRow, which holds a      *)
(* reference meanwhile.                                                    *)
Update(w) ==
  \E r \in Awaited(w) :
    /\ Running
    /\ step[w] = "idle" /\ ~RowLocked(r) /\ map[r] # None
    /\ Reference(r)
    /\ step' = [step EXCEPT ![w] = "update"]
    /\ row'  = [row EXCEPT ![w] = r]
    /\ UNCHANGED <<numRows, map, rowIds, evictHand, insertHand, emptySlots,
                   slot, tries, victim, getterVars, failed>>

Updated(w) ==
  /\ Running
  /\ step[w] = "update"
  /\ get'  = Woken(row[w])
  /\ refs' = DecRef(row[w])
  /\ step' = [step EXCEPT ![w] = "idle"]
  /\ row'  = [row EXCEPT ![w] = None]
  /\ UNCHANGED <<numRows, map, lruVars, slot, tries, victim, acc, want, gets,
                 failed>>

(* A reply for any other row: Insert counts it first.                      *)
(* Mutant: one row too many.                                               *)
OverCapacityByOne(n) == Capacity < n - 1
OverCapacity(n) == Capacity < n

Insert(w) ==
  \E r \in Awaited(w) :
    /\ Running
    /\ step[w] = "idle" /\ ~RowLocked(r) /\ map[r] = None
    /\ numRows' = numRows + 1
    /\ step' = [step EXCEPT ![w] =
                  IF OverCapacity(numRows + 1) THEN "full" ELSE "claim"]
    /\ row'  = [row EXCEPT ![w] = r]
    /\ UNCHANGED <<map, refs, lruVars, slot, tries, victim, getterVars, failed>>

(* EvictOneRow takes the row back from the count.                          *)
(* Mutant: it does not.                                                    *)
UncountedNot == numRows
Uncounted == numRows - 1

EvictOneRow(w) ==
  /\ Running
  /\ step[w] = "full"
  /\ numRows' = Uncounted
  /\ step'  = [step EXCEPT ![w] = "probe"]
  /\ tries' = [tries EXCEPT ![w] = 0]
  /\ UNCHANGED <<map, refs, lruVars, row, slot, victim, getterVars, failed>>

(* FindOneToEvict looks at the slot under the hand.  A recently used slot  *)
(* becomes stale; a stale one that is neither locked nor empty becomes the *)
(* candidate and stays locked.                                             *)
Probe(w) ==
  LET s == evictHand
      found == stale[s] /\ ~SlotLocked(s) /\ rowIds[s] # None
  IN  /\ Running
      /\ step[w] = "probe"
      /\ IF tries[w] = MaxRounds * Capacity
         THEN /\ failed' = "rounds"
              /\ UNCHANGED <<evictHand, stale, step, slot, tries>>
         ELSE /\ evictHand' = (evictHand + 1) % Capacity
              /\ stale' = [stale EXCEPT ![s] = TRUE]
              /\ step'  = [step EXCEPT ![w] = IF found THEN "candidate" ELSE @]
              /\ slot'  = [slot EXCEPT ![w] = IF found THEN s ELSE @]
              /\ tries' = [tries EXCEPT ![w] = IF found THEN 0 ELSE @ + 1]
              /\ UNCHANGED failed
      /\ UNCHANGED <<storageVars, rowIds, insertHand, emptySlots, row, victim,
                     getterVars>>

(* Under the row's lock the candidate is evicted, unless it is referred    *)
(* to.  Mutants: references are not looked at; the copy in the storage is  *)
(* taken for one of them.                                                  *)
HasZeroRefAlways(r) == TRUE
HasZeroRefButStorage(r) == refs[r] = 1
HasZeroRef(r) == refs[r] = 0

(* ClockLRU::Evict empties the slot and puts it into the queue, from where *)
(* another worker may take it before Evict and EvictOneRow have released   *)
(* their locks.  Mutant: the slot keeps its row.                           *)
EmptiedNot(s) == rowIds
Emptied(s) == [rowIds EXCEPT ![s] = None]

Candidate(w) ==
  LET r == rowIds[slot[w]]
  IN  /\ Running
      /\ step[w] = "candidate" /\ ~RowLocked(r)
      /\ \/ /\ map[r] = None
            /\ failed' = "evicted_before"
            /\ UNCHANGED <<map, rowIds, emptySlots, step, slot, victim>>
         \/ /\ map[r] # None /\ HasZeroRef(r)
            /\ map'    = [map EXCEPT ![r] = None]
            /\ rowIds' = Emptied(map[r])
            /\ emptySlots' = Append(emptySlots, map[r])
            /\ step'   = [step EXCEPT ![w] = "evicted"]
            /\ victim' = [victim EXCEPT ![w] = r]
            /\ UNCHANGED <<slot, failed>>
         \/ /\ map[r] # None /\ ~HasZeroRef(r)
            /\ step' = [step EXCEPT ![w] = "probe"]
            /\ slot' = [slot EXCEPT ![w] = None]
            /\ UNCHANGED <<map, rowIds, emptySlots, victim, failed>>
      /\ UNCHANGED <<numRows, refs, stale, evictHand, insertHand, row, tries,
                     getterVars>>

(* The locks of the slot and of the evicted row are released.              *)
Evicted(w) ==
  /\ Running
  /\ step[w] = "evicted"
  /\ step'   = [step EXCEPT ![w] = "claim"]
  /\ slot'   = [slot EXCEPT ![w] = None]
  /\ victim' = [victim EXCEPT ![w] = None]
  /\ UNCHANGED <<storageVars, lruVars, row, tries, getterVars, failed>>

(* Under the lock of the new row: FindEmptySlot takes a slot that was      *)
(* evicted, or else one that was never used.                               *)
Claim(w) ==
  /\ Running
  /\ step[w] = "claim" /\ ~RowLocked(row[w])
  /\ \/ /\ map[row[w]] # None
        /\ step' = [step EXCEPT ![w] = "idle"]
        /\ row'  = [row EXCEPT ![w] = None]
        /\ get'  = Woken(row[w])
        /\ UNCHANGED <<slot, emptySlots, insertHand, failed>>
     \/ /\ map[row[w]] = None /\ emptySlots # << >>
        /\ slot' = [slot EXCEPT ![w] = Head(emptySlots)]
        /\ emptySlots' = Tail(emptySlots)
        /\ step' = [step EXCEPT ![w] = "fill"]
        /\ UNCHANGED <<row, get, insertHand, failed>>
     \/ /\ map[row[w]] = None /\ emptySlots = << >>
        /\ insertHand' = insertHand + 1
        /\ IF insertHand >= Capacity
           THEN /\ failed' = "lru_full"
                /\ UNCHANGED <<slot, step>>
           ELSE /\ slot' = [slot EXCEPT ![w] = insertHand]
                /\ step' = [step EXCEPT ![w] = "fill"]
                /\ UNCHANGED failed
        /\ UNCHANGED <<row, get, emptySlots>>
  /\ UNCHANGED <<storageVars, rowIds, stale, evictHand, tries, victim, acc,
                 want, gets>>

(* ClockLRU::Insert fills the slot, which nobody else may have locked.     *)
Fill(w) ==
  LET s == slot[w]
  IN  /\ Running
      /\ step[w] = "fill" /\ ~SlotLocked(s)
      /\ IF rowIds[s] # None
         THEN /\ failed' = "slot_taken"
              /\ UNCHANGED <<rowIds, stale, step>>
         ELSE /\ rowIds' = [rowIds EXCEPT ![s] = row[w]]
              /\ stale'  = [stale EXCEPT ![s] = FALSE]
              /\ step'   = [step EXCEPT ![w] = "put"]
              /\ UNCHANGED failed
      /\ UNCHANGED <<storageVars, evictHand, insertHand, emptySlots, row, slot,
                     tries, victim, getterVars>>

(* The row enters the map, its lock is released and the threads that wait  *)
(* for it are told.                                                        *)
Put(w) ==
  /\ Running
  /\ step[w] = "put"
  /\ map'  = [map EXCEPT ![row[w]] = slot[w]]
  /\ step' = [step EXCEPT ![w] = "idle"]
  /\ row'  = [row EXCEPT ![w] = None]
  /\ slot' = [slot EXCEPT ![w] = None]
  /\ get'  = Woken(row[w])
  /\ UNCHANGED <<numRows, refs, lruVars, tries, victim, acc, want, gets, failed>>
-----------------------------------------------------------------------------
(* All threads have made their calls.                                      *)
Rest ==
  /\ \A t \in Getters : get[t] = "idle" /\ gets[t] = MaxGets
  /\ \A w \in Workers : step[w] = "idle"
  /\ UNCHANGED vars

WorkerStep(w) ==
  \/ Update(w)      \/ Updated(w)
  \/ Insert(w)      \/ EvictOneRow(w)
  \/ Probe(w)       \/ Candidate(w)     \/ Evicted(w)
  \/ Claim(w)       \/ Fill(w)          \/ Put(w)

Next ==
  \/ \E t \in Getters : \/ \E r \in Rows : Get(t, r)
                        \/ GetAgain(t)
                        \/ Release(t)
  \/ \E w \in Workers : WorkerStep(w)
  \/ Rest

Spec == Init /\ [][Next]_vars

(* Every worker is a thread of its own that never stops by itself, and a   *)
(* thread inside Get() runs on; how long the application keeps its         *)
(* accessors and whether it calls Get() is up to it.                       *)
FairSpec ==
  /\ Spec
  /\ \A w \in Workers : WF_vars(WorkerStep(w))
  /\ \A t \in Getters : WF_vars(GetAgain(t))
-----------------------------------------------------------------------------
(* Properties.                                                             *)

Referred  == { acc[t] : t \in Getters } \ {None}
Occupied  == { s \in Slots : rowIds[s] # None }
Inserting(w) == step[w] \notin {"idle", "update"}

(* What the variables hold.  num_rows_ exceeds the capacity by no more     *)
(* than the workers that have counted a row and not yet taken it back.     *)
TypeOK ==
  /\ numRows \in 0 .. Capacity + Cardinality(Workers)
  /\ map \in [Rows -> Slots \cup {None}]
  /\ refs \in [Rows -> Nat]
  /\ rowIds \in [Slots -> Rows \cup {None}]
  /\ stale \in [Slots -> BOOLEAN]
  /\ evictHand \in Slots
  /\ insertHand \in 0 .. Capacity
  /\ emptySlots \in Seq(Slots)
  /\ step \in [Workers -> {"idle", "update", "full", "probe", "candidate",
                           "evicted", "claim", "fill", "put"}]
  /\ row \in [Workers -> Rows \cup {None}]
  /\ slot \in [Workers -> Slots \cup {None}]
  /\ victim \in [Workers -> Rows \cup {None}]
  /\ tries \in [Workers -> 0 .. MaxRounds * Capacity]
  /\ get \in [Getters -> {"idle", "fetching", "woken", "holding"}]
  /\ acc \in [Getters -> Rows \cup {None}]
  /\ want \in [Getters -> Rows \cup {None}]
  /\ gets \in [Getters -> 0 .. MaxGets]

(* "Eviction can only happen to rows that no RowAccessor refers to."       *)
ReferredStay ==
  /\ \A r \in Referred : map[r] # None
  /\ \A w \in Workers : step[w] = "update" => map[row[w]] # None

(* The map and the slots of the LRU agree, but for a row that a worker has *)
(* put into its slot and not yet into the map.                             *)
SlotsAgree ==
  /\ \A r \in Rows : map[r] # None => rowIds[map[r]] = r
  /\ \A s \in Occupied :
       \/ map[rowIds[s]] = s
       \/ \E w \in Workers : step[w] = "put" /\ row[w] = rowIds[s] /\ slot[w] = s

(* "The number of occupied slots plus the number of ongoing Insert()       *)
(* should be less or equal to capacity": what ClockLRU asks of its user.   *)
InsertsFit ==
  Cardinality(Occupied)
    + Cardinality({ w \in Workers : step[w] \in {"evicted", "claim", "fill"} })
      <= Capacity

(* "Report bug": no worker is given a slot that holds a row, or finds none *)
(* left, or its candidate evicted, whoever takes which slot from the queue *)
(* before it is unlocked.  (The search for a candidate may be given up.)   *)
ReportNoBug == failed \in {"none", "rounds"}

(* "Eviction may only happen to rows that are not being referenced,        *)
(* therefore we require that capacity - number of referenced rows to be    *)
(* larger than or equal to the number of concurrent insertion threads":    *)
(* if that is so from some time on, every Insert() ends, by num_refs_.     *)
Room(referenced) ==
  Cardinality(referenced)
    + Cardinality({ w \in Workers : Inserting(w) }) <= Capacity

InsertsEnd ==
  <>[](Room({ r \in Rows : refs[r] > 0 }) /\ Running)
    => \A w \in Workers : []<>~Inserting(w)

(* The same, by the application's accessors: "Reference Counting: number   *)
(* of references used by application".                                     *)
InsertsEndWithinAccessors ==
  <>[](Room(Referred) /\ Running) => \A w \in Workers : []<>~Inserting(w)
=============================================================================
