------------------------ MODULE ProcessStorageProofs ------------------------
(***************************************************************************)
(* Theorems about ProcessStorage, for any rows, workers, threads and       *)
(* capacity.                                                               *)
(***************************************************************************)
EXTENDS ProcessStorage, FiniteSetTheorems, TLAPS

Steps == {"idle", "update", "full", "probe", "candidate", "evicted", "claim", "fill", "put"}

(* What the map, the slots and the workers hold.                           *)
SlotTypes ==
  /\ map \in [Rows -> Slots \cup {None}]
  /\ rowIds \in [Slots -> Rows \cup {None}]
  /\ evictHand \in Slots /\ insertHand \in Nat
  /\ emptySlots \in Seq(Slots)
  /\ step \in [Workers -> Steps]
  /\ row \in [Workers -> Rows \cup {None}]
  /\ slot \in [Workers -> Slots \cup {None}]

(* What a worker's place in Insert() and EvictOneRow() says of the row and *)
(* the slot it works on.                                                   *)
WorkerPlaces ==
  \A w \in Workers :
    /\ step[w] # "idle" => row[w] \in Rows
    /\ step[w] \in {"fill", "put"} => slot[w] \in Slots /\ map[row[w]] = None
    /\ step[w] = "put" => rowIds[slot[w]] = row[w]
    /\ step[w] = "candidate" => slot[w] \in Slots /\ rowIds[slot[w]] # None

(* Nobody shares the lock of a row or of a slot.                           *)
LocksExclusive ==
  \A v, w \in Workers : v # w =>
    /\ step[v] \in {"fill", "put"} /\ step[w] \in {"fill", "put"} =>
         Stripe(row[v]) # Stripe(row[w])
    /\ step[v] = "candidate" /\ step[w] = "candidate" => slot[v] # slot[w]

Holders(r)  == {t \in Getters : acc[t] = r}
Updaters(r) == {w \in Workers : step[w] = "update" /\ row[w] = r}

(* What the accessors hold, and that num_refs_ counts them and the workers *)
(* that update the row.                                                    *)
RefTypes ==
  /\ refs \in [Rows -> Int]
  /\ get \in [Getters -> {"idle", "fetching", "woken", "holding"}]
  /\ acc \in [Getters -> Rows \cup {None}]
  /\ want \in [Getters -> Rows \cup {None}]

AccessorsWanted ==
  \A t \in Getters :
    /\ get[t] = "idle" => acc[t] = None
    /\ get[t] # "idle" => want[t] \in Rows /\ acc[t] \in {None, want[t]}
    /\ get[t] = "holding" => acc[t] # None

RefsCover ==
  \A r \in Rows : Cardinality(Holders(r)) + Cardinality(Updaters(r)) <= refs[r]

Claimers == {w \in Workers : step[w] \in {"evicted", "claim", "fill"}}
Counting == {w \in Workers : step[w] = "full"}

RowsCounted ==
  /\ numRows \in Int
  /\ Cardinality(Occupied) + Cardinality(Claimers) + Cardinality(Counting) <= numRows

SlotInv   == SlotTypes /\ WorkerPlaces /\ LocksExclusive /\ SlotsAgree
slotStateVars == <<map, rowIds, evictHand, insertHand, emptySlots, step, row, slot>>
-----------------------------------------------------------------------------
LEMMA NoneIsNoRow == None \notin Rows /\ None \notin Slots
BY StorageAssumption DEF None, Slots

LEMMA InitSlotInv == Init => SlotInv
<1>1. SUFFICES ASSUME Init PROVE SlotInv
  OBVIOUS
<1>2. SlotTypes
  BY <1>1, StorageAssumption DEF Init, SlotTypes, Slots, Steps
<1>3. WorkerPlaces /\ LocksExclusive
  BY <1>1 DEF Init, WorkerPlaces, LocksExclusive
<1>4. SlotsAgree
  BY <1>1 DEF Init, SlotsAgree, Occupied
<1>. QED
  BY <1>2, <1>3, <1>4 DEF SlotInv

(* Application threads touch neither map nor slots.                        *)
LEMMA SlotInvUnchanged == SlotInv /\ UNCHANGED slotStateVars => SlotInv'
BY DEF SlotInv, slotStateVars, SlotTypes, WorkerPlaces, LocksExclusive, SlotsAgree, Occupied

(* A worker that begins or ends, or counts a row, takes no lock.           *)
LEMMA LockFreeSlotInv ==
  ASSUME SlotInv, NEW w \in Workers,
         Update(w) \/ Updated(w) \/ Insert(w) \/ EvictOneRow(w)
  PROVE  SlotInv'
<1> USE DEF SlotInv
<1>1. /\ UNCHANGED <<map, rowIds, evictHand, insertHand, emptySlots, slot>>
      /\ step[w] \in {"idle", "update", "full"}
      /\ \E new \in {"idle", "update", "full", "claim", "probe"} :
           step' = [step EXCEPT ![w] = new] /\ (new # "idle" => row'[w] \in Rows)
      /\ \E r \in Rows \cup {None} : row' = [row EXCEPT ![w] = r]
  <2>1. CASE Update(w) \/ Insert(w)
    BY <2>1 DEF Update, Insert, Awaited, Reference, SlotTypes, lruVars
  <2>2. CASE Updated(w)
    BY <2>2 DEF Updated, lruVars, SlotTypes
  <2>3. CASE EvictOneRow(w)
    BY <2>3 DEF EvictOneRow, lruVars, SlotTypes, WorkerPlaces
  <2>. QED
    BY <2>1, <2>2, <2>3
<1>2. SlotTypes'
  BY <1>1 DEF SlotTypes, Steps
<1>3. WorkerPlaces'
  BY <1>1 DEF WorkerPlaces, SlotTypes
<1>4. LocksExclusive'
  BY <1>1 DEF LocksExclusive, SlotTypes
<1>5. SlotsAgree'
  BY <1>1 DEF SlotsAgree, SlotTypes, Occupied
<1>. QED
  BY <1>2, <1>3, <1>4, <1>5

LEMMA ProbeSlotInv ==
  ASSUME SlotInv, NEW w \in Workers, Probe(w)
  PROVE  SlotInv'
<1> USE DEF SlotInv
<1>1. CASE UNCHANGED <<evictHand, step, slot>>
  BY <1>1, SlotInvUnchanged DEF Probe, storageVars, slotStateVars
<1>2. CASE evictHand' = (evictHand + 1) % Capacity
  <2>1. /\ UNCHANGED <<map, rowIds, insertHand, emptySlots, row>>
        /\ evictHand' \in Slots
        /\ step[w] = "probe"
        /\ \/ UNCHANGED <<step, slot>>
           \/ /\ ~SlotLocked(evictHand) /\ rowIds[evictHand] # None
              /\ step' = [step EXCEPT ![w] = "candidate"]
              /\ slot' = [slot EXCEPT ![w] = evictHand]
    BY <1>2, StorageAssumption DEF Probe, storageVars, SlotTypes, Slots
  <2>2. SlotTypes'
    BY <2>1 DEF SlotTypes, Steps
  <2>3. WorkerPlaces'
    BY <2>1 DEF WorkerPlaces, SlotTypes
  <2>4. LocksExclusive'
    BY <2>1 DEF LocksExclusive, SlotTypes, SlotLocked
  <2>5. SlotsAgree'
    BY <2>1 DEF SlotsAgree, SlotTypes, Occupied
  <2>. QED
    BY <2>2, <2>3, <2>4, <2>5
<1>. QED
  BY <1>1, <1>2 DEF Probe

(* A candidate is a row in the map, in the slot the worker has locked; it  *)
(* stays, or it goes with its slot if nobody refers to it.                 *)
LEMMA CandidateOutcome ==
  ASSUME SlotInv, NEW w \in Workers, Candidate(w)
  PROVE  LET r == rowIds[slot[w]] IN
         /\ step[w] = "candidate" /\ slot[w] \in Slots /\ r \in Rows
         /\ map[r] = slot[w]
         /\ \A v \in Workers : step[v] \in {"fill", "put"} => row[v] # r
         /\ UNCHANGED <<insertHand, evictHand, row>>
         /\ \/ /\ step' = [step EXCEPT ![w] = "probe"]
               /\ slot' = [slot EXCEPT ![w] = None]
               /\ UNCHANGED <<map, rowIds, emptySlots>>
            \/ /\ refs[r] = 0
               /\ map' = [map EXCEPT ![r] = None]
               /\ rowIds' = [rowIds EXCEPT ![slot[w]] = None]
               /\ emptySlots' = Append(emptySlots, slot[w])
               /\ step' = [step EXCEPT ![w] = "evicted"]
               /\ UNCHANGED slot
<1> USE DEF SlotInv
<1> DEFINE r == rowIds[slot[w]]
<1>1. /\ step[w] = "candidate" /\ slot[w] \in Slots /\ r \in Rows
      /\ \A v \in Workers : step[v] \in {"fill", "put"} => row[v] # r
      /\ UNCHANGED <<insertHand, evictHand, row>>
  BY DEF Candidate, WorkerPlaces, SlotTypes, RowLocked
<1>2. map[r] = slot[w]
  BY <1>1 DEF SlotsAgree, Occupied, WorkerPlaces
<1>. QED
  BY <1>1, <1>2, NoneIsNoRow DEF Candidate, Emptied, HasZeroRef

(* A slot and the row in it are emptied together: the row's lock keeps out *)
(* the workers that put it into the map.                                   *)
LEMMA CandidateSlotInv ==
  ASSUME SlotInv, NEW w \in Workers, Candidate(w)
  PROVE  SlotInv'
<1> USE DEF SlotInv
<1> DEFINE r == rowIds[slot[w]]
<1>1. /\ step[w] = "candidate" /\ slot[w] \in Slots /\ r \in Rows
      /\ \A v \in Workers : step[v] \in {"fill", "put"} => row[v] # r
      /\ UNCHANGED <<insertHand, evictHand, row>>
  BY CandidateOutcome
<1>2. map[r] = slot[w]
  BY CandidateOutcome
<1>3. CASE /\ step' = [step EXCEPT ![w] = "probe"]
           /\ slot' = [slot EXCEPT ![w] = None]
           /\ UNCHANGED <<map, rowIds, emptySlots>>
  <2>1. SlotTypes'
    BY <1>1, <1>3 DEF SlotTypes, Steps
  <2>2. WorkerPlaces'
    BY <1>1, <1>3 DEF WorkerPlaces, SlotTypes
  <2>3. LocksExclusive'
    BY <1>1, <1>3 DEF LocksExclusive, SlotTypes
  <2>4. SlotsAgree'
    BY <1>1, <1>3 DEF SlotsAgree, SlotTypes, Occupied
  <2>. QED
    BY <2>1, <2>2, <2>3, <2>4
<1>4. CASE /\ map' = [map EXCEPT ![r] = None]
           /\ rowIds' = [rowIds EXCEPT ![slot[w]] = None]
           /\ emptySlots' = Append(emptySlots, slot[w])
           /\ step' = [step EXCEPT ![w] = "evicted"]
           /\ UNCHANGED slot
  <2>1. SlotTypes'
    BY <1>1, <1>4 DEF SlotTypes, Steps
  <2>2. WorkerPlaces'
    BY <1>1, <1>4, NoneIsNoRow DEF WorkerPlaces, LocksExclusive, SlotTypes
  <2>3. LocksExclusive'
    BY <1>1, <1>4 DEF LocksExclusive, SlotTypes
  <2>4. ASSUME NEW q \in Rows, map'[q] # None PROVE rowIds'[map'[q]] = q
    <3>1. q # r /\ map'[q] = map[q]
      BY <1>1, <1>4, <2>4 DEF SlotTypes
    <3>2. rowIds[map[q]] = q /\ map[q] \in Slots
      BY <2>4, <3>1 DEF SlotsAgree, SlotTypes
    <3>. QED
      BY <1>4, <3>1, <3>2 DEF SlotTypes
  <2>5. ASSUME NEW s \in Slots, rowIds'[s] # None
        PROVE  \/ map'[rowIds'[s]] = s
               \/ \E v \in Workers : step'[v] = "put" /\ row'[v] = rowIds'[s] /\ slot'[v] = s
    <3>1. s # slot[w] /\ rowIds'[s] = rowIds[s]
      BY <1>1, <1>4, <2>5 DEF SlotTypes
    <3>2. CASE map[rowIds[s]] = s
      BY <1>1, <1>2, <1>4, <3>1, <3>2 DEF SlotTypes
    <3>3. ASSUME NEW v \in Workers, step[v] = "put", row[v] = rowIds[s], slot[v] = s
          PROVE  step'[v] = "put" /\ row'[v] = rowIds'[s] /\ slot'[v] = s
      BY <1>1, <1>4, <3>1, <3>3 DEF SlotTypes
    <3>. QED
      BY <2>5, <3>1, <3>2, <3>3 DEF SlotsAgree, Occupied
  <2>6. SlotsAgree'
    BY <2>4, <2>5 DEF SlotsAgree, Occupied
  <2>. QED
    BY <2>1, <2>2, <2>3, <2>6
<1>. QED
  BY <1>3, <1>4, CandidateOutcome

(* Releasing the locks touches neither.                                    *)
LEMMA EvictedSlotInv ==
  ASSUME SlotInv, NEW w \in Workers, Evicted(w)
  PROVE  SlotInv'
<1> USE DEF SlotInv
<1>1. /\ step[w] = "evicted"
      /\ step' = [step EXCEPT ![w] = "claim"]
      /\ slot' = [slot EXCEPT ![w] = None]
      /\ UNCHANGED <<map, rowIds, evictHand, insertHand, emptySlots, row>>
  BY DEF Evicted, storageVars, lruVars
<1>2. SlotTypes'
  BY <1>1 DEF SlotTypes, Steps
<1>3. WorkerPlaces'
  BY <1>1 DEF WorkerPlaces, SlotTypes
<1>4. LocksExclusive'
  BY <1>1 DEF LocksExclusive, SlotTypes
<1>5. SlotsAgree'
  BY <1>1 DEF SlotsAgree, SlotTypes, Occupied
<1>. QED
  BY <1>2, <1>3, <1>4, <1>5

LEMMA ClaimSlotInv ==
  ASSUME SlotInv, NEW w \in Workers, Claim(w)
  PROVE  SlotInv'
<1> USE DEF SlotInv
<1>1. /\ step[w] = "claim" /\ row[w] \in Rows
      /\ \A v \in Workers : step[v] \in {"fill", "put"} => Stripe(row[v]) # Stripe(row[w])
      /\ UNCHANGED <<map, rowIds, evictHand>>
  BY DEF Claim, storageVars, WorkerPlaces, RowLocked
<1>2. CASE /\ step' = [step EXCEPT ![w] = "idle"]
           /\ row' = [row EXCEPT ![w] = None]
           /\ UNCHANGED <<slot, emptySlots, insertHand>>
  <2>1. SlotTypes' /\ WorkerPlaces' /\ LocksExclusive'
    BY <1>1, <1>2 DEF SlotTypes, Steps, WorkerPlaces, LocksExclusive
  <2>2. SlotsAgree'
    BY <1>1, <1>2 DEF SlotsAgree, SlotTypes, Occupied
  <2>. QED
    BY <2>1, <2>2
<1>3. CASE /\ map[row[w]] = None
           /\ \E s \in Slots : slot' = [slot EXCEPT ![w] = s]
           /\ step' = [step EXCEPT ![w] = "fill"]
           /\ emptySlots' \in Seq(Slots) /\ insertHand' \in Nat
           /\ UNCHANGED row
  <2>1. SlotTypes' /\ WorkerPlaces'
    BY <1>1, <1>3 DEF SlotTypes, Steps, WorkerPlaces
  <2>2. LocksExclusive'
    BY <1>1, <1>3 DEF SlotTypes, LocksExclusive
  <2>3. SlotsAgree'
    BY <1>1, <1>3 DEF SlotsAgree, SlotTypes, Occupied
  <2>. QED
    BY <2>1, <2>2, <2>3
<1>4. CASE /\ insertHand' = insertHand + 1
           /\ UNCHANGED <<slot, step, row, emptySlots>>
  <2>1. SlotTypes' /\ WorkerPlaces' /\ LocksExclusive'
    BY <1>1, <1>4 DEF SlotTypes, WorkerPlaces, LocksExclusive
  <2>2. SlotsAgree'
    BY <1>1, <1>4 DEF SlotsAgree, SlotTypes, Occupied
  <2>. QED
    BY <2>1, <2>2
<1>5. CASE map[row[w]] # None
  BY <1>2, <1>5 DEF Claim
<1>6. CASE map[row[w]] = None /\ emptySlots # << >>
  <2>1. Head(emptySlots) \in Slots /\ Tail(emptySlots) \in Seq(Slots)
    BY <1>6 DEF SlotTypes
  <2>. QED
    BY <1>3, <1>6, <2>1 DEF Claim, SlotTypes
<1>7. CASE map[row[w]] = None /\ emptySlots = << >>
  <2>1. CASE insertHand >= Capacity
    BY <1>4, <1>7, <2>1 DEF Claim
  <2>2. CASE ~(insertHand >= Capacity)
    <3>1. insertHand \in Slots /\ insertHand + 1 \in Nat
      BY <2>2, StorageAssumption DEF SlotTypes, Slots
    <3>2. /\ slot' = [slot EXCEPT ![w] = insertHand]
          /\ step' = [step EXCEPT ![w] = "fill"]
          /\ emptySlots' = emptySlots /\ insertHand' = insertHand + 1
          /\ UNCHANGED row
      BY <1>7, <2>2 DEF Claim
    <3>. QED
      BY <1>3, <1>7, <3>1, <3>2 DEF SlotTypes
  <2>. QED
    BY <2>1, <2>2
<1>. QED
  BY <1>5, <1>6, <1>7

LEMMA FillSlotInv ==
  ASSUME SlotInv, NEW w \in Workers, Fill(w)
  PROVE  SlotInv'
<1> USE DEF SlotInv
<1>1. /\ step[w] = "fill" /\ row[w] \in Rows /\ slot[w] \in Slots
      /\ ~SlotLocked(slot[w])
      /\ UNCHANGED <<map, evictHand, insertHand, emptySlots, row, slot>>
  BY DEF Fill, storageVars, WorkerPlaces
<1>2. CASE rowIds[slot[w]] # None
  BY <1>1, <1>2, SlotInvUnchanged DEF Fill, slotStateVars
<1>3. CASE rowIds[slot[w]] = None
  <2>1. /\ rowIds' = [rowIds EXCEPT ![slot[w]] = row[w]]
        /\ step' = [step EXCEPT ![w] = "put"]
    BY <1>3 DEF Fill
  <2>2. SlotTypes'
    BY <1>1, <2>1 DEF SlotTypes, Steps
  <2>3. WorkerPlaces'
    BY <1>1, <1>3, <2>1, NoneIsNoRow DEF WorkerPlaces, SlotTypes, SlotLocked
  <2>4. LocksExclusive'
    BY <1>1, <2>1 DEF LocksExclusive, SlotTypes
  <2>5. SlotsAgree'
    BY <1>1, <1>3, <2>1, NoneIsNoRow DEF SlotsAgree, SlotTypes, Occupied
  <2>. QED
    BY <2>2, <2>3, <2>4, <2>5
<1>. QED
  BY <1>2, <1>3

LEMMA PutSlotInv ==
  ASSUME SlotInv, NEW w \in Workers, Put(w)
  PROVE  SlotInv'
<1> USE DEF SlotInv
<1>1. /\ step[w] = "put" /\ row[w] \in Rows /\ slot[w] \in Slots
      /\ map[row[w]] = None /\ rowIds[slot[w]] = row[w]
      /\ map' = [map EXCEPT ![row[w]] = slot[w]]
      /\ step' = [step EXCEPT ![w] = "idle"]
      /\ row' = [row EXCEPT ![w] = None]
      /\ slot' = [slot EXCEPT ![w] = None]
      /\ UNCHANGED <<rowIds, evictHand, insertHand, emptySlots>>
  BY DEF Put, lruVars, WorkerPlaces
<1>2. \A v \in Workers : v # w /\ step[v] \in {"fill", "put"} => row[v] # row[w]
  BY <1>1 DEF LocksExclusive
<1>3. SlotTypes'
  BY <1>1 DEF SlotTypes, Steps
<1>4. WorkerPlaces'
  BY <1>1, <1>2 DEF WorkerPlaces, SlotTypes
<1>5. LocksExclusive'
  BY <1>1 DEF LocksExclusive, SlotTypes
<1>6. SlotsAgree'
  BY <1>1, <1>2, NoneIsNoRow DEF SlotsAgree, SlotTypes, Occupied
<1>. QED
  BY <1>3, <1>4, <1>5, <1>6

LEMMA SlotInvStep == SlotInv /\ [Next]_vars => SlotInv'
<1>1. SUFFICES ASSUME SlotInv, [Next]_vars PROVE SlotInv'
  OBVIOUS
<1>2. ASSUME NEW w \in Workers, WorkerStep(w) PROVE SlotInv'
  BY <1>1, <1>2, LockFreeSlotInv, ProbeSlotInv, CandidateSlotInv, EvictedSlotInv,
     ClaimSlotInv, FillSlotInv, PutSlotInv DEF WorkerStep
<1>3. ASSUME NEW t \in Getters,
             (\E r \in Rows : Get(t, r)) \/ GetAgain(t) \/ Release(t)
      PROVE  UNCHANGED slotStateVars
  BY <1>3 DEF Get, GetAgain, Release, slotStateVars, workerVars, lruVars, Reference
<1>4. UNCHANGED vars => UNCHANGED slotStateVars
  BY DEF vars, slotStateVars, workerVars, lruVars, storageVars
<1>. QED
  BY <1>1, <1>2, <1>3, <1>4, SlotInvUnchanged DEF Next, Rest

(* Map and slots agree at all times: no row is cached twice and no slot is *)
(* given to two rows, whatever the workers evict and insert at once.       *)
THEOREM SlotsAlwaysAgree == Spec => []SlotsAgree
<1>1. SlotInv => SlotsAgree
  BY DEF SlotInv
<1>. QED
  BY <1>1, InitSlotInv, SlotInvStep, PTL DEF Spec
-----------------------------------------------------------------------------
FitInv == RowsCounted /\ InsertsFit

(* Sets that differ in one element at most.                                *)
LEMMA OneElement ==
  ASSUME NEW S, IsFiniteSet(S), NEW T, NEW x,
         \A y : y # x => (y \in S <=> y \in T)
  PROVE  /\ Cardinality(S) \in Nat
         /\ (x \in S <=> x \in T) => Cardinality(T) = Cardinality(S)
         /\ x \notin S /\ x \in T => Cardinality(T) = Cardinality(S) + 1
         /\ x \in S /\ x \notin T => Cardinality(T) = Cardinality(S) - 1
<1>1. (x \in S <=> x \in T) => T = S
  OBVIOUS
<1>2. x \notin S /\ x \in T => T = S \cup {x}
  OBVIOUS
<1>3. x \in S /\ x \notin T => T = S \ {x}
  OBVIOUS
<1>. QED
  BY <1>1, <1>2, <1>3, FS_CardinalityType, FS_AddElement, FS_RemoveElement

LEMMA FiniteParts ==
  /\ IsFiniteSet(Occupied) /\ Cardinality(Occupied) \in Nat
  /\ IsFiniteSet(Claimers) /\ Cardinality(Claimers) \in Nat
  /\ IsFiniteSet(Counting) /\ Cardinality(Counting) \in Nat
<1>1. IsFiniteSet(Slots)
  BY StorageAssumption, FS_Interval DEF Slots
<1>2. IsFiniteSet(Occupied)
  BY <1>1, FS_Subset DEF Occupied
<1>3. IsFiniteSet(Claimers) /\ IsFiniteSet(Counting)
  BY StorageAssumption, FS_Subset DEF Claimers, Counting
<1>. QED
  BY <1>2, <1>3, FS_CardinalityType

(* What a worker's step does to the number of workers that are to claim a  *)
(* slot, and of those that have counted a row too many.                    *)
LEMMA StepCounts ==
  ASSUME SlotTypes, NEW w \in Workers, NEW new \in Steps,
         step' = [step EXCEPT ![w] = new]
  PROVE  LET was == step[w] IN
         /\ (was \in {"evicted", "claim", "fill"} <=> new \in {"evicted", "claim", "fill"}) =>
              Cardinality(Claimers') = Cardinality(Claimers)
         /\ was \notin {"evicted", "claim", "fill"} /\ new \in {"evicted", "claim", "fill"} =>
              Cardinality(Claimers') = Cardinality(Claimers) + 1
         /\ was \in {"evicted", "claim", "fill"} /\ new \notin {"evicted", "claim", "fill"} =>
              Cardinality(Claimers') = Cardinality(Claimers) - 1
         /\ (was = "full" <=> new = "full") => Cardinality(Counting') = Cardinality(Counting)
         /\ was # "full" /\ new = "full" =>
              Cardinality(Counting') = Cardinality(Counting) + 1
         /\ was = "full" /\ new # "full" =>
              Cardinality(Counting') = Cardinality(Counting) - 1
<1>1. /\ \A y : y # w => (y \in Claimers <=> y \in Claimers')
      /\ \A y : y # w => (y \in Counting <=> y \in Counting')
  BY DEF Claimers, Counting, SlotTypes
<1>2. /\ w \in Claimers <=> step[w] \in {"evicted", "claim", "fill"}
      /\ w \in Claimers' <=> new \in {"evicted", "claim", "fill"}
      /\ w \in Counting <=> step[w] = "full"
      /\ w \in Counting' <=> new = "full"
  BY DEF Claimers, Counting, SlotTypes
<1>3. /\ (w \in Claimers <=> w \in Claimers') => Cardinality(Claimers') = Cardinality(Claimers)
      /\ w \notin Claimers /\ w \in Claimers' =>
           Cardinality(Claimers') = Cardinality(Claimers) + 1
      /\ w \in Claimers /\ w \notin Claimers' =>
           Cardinality(Claimers') = Cardinality(Claimers) - 1
  BY <1>1, FiniteParts, OneElement
<1>4. /\ (w \in Counting <=> w \in Counting') => Cardinality(Counting') = Cardinality(Counting)
      /\ w \notin Counting /\ w \in Counting' =>
           Cardinality(Counting') = Cardinality(Counting) + 1
      /\ w \in Counting /\ w \notin Counting' =>
           Cardinality(Counting') = Cardinality(Counting) - 1
  BY <1>1, FiniteParts, OneElement
<1>. QED
  BY <1>2, <1>3, <1>4

LEMMA OccupiedCount ==
  ASSUME SlotTypes, NEW s \in Slots, NEW r \in Rows \cup {None},
         rowIds' = [rowIds EXCEPT ![s] = r]
  PROVE  /\ rowIds[s] = None /\ r # None => Cardinality(Occupied') = Cardinality(Occupied) + 1
         /\ rowIds[s] # None /\ r = None => Cardinality(Occupied') = Cardinality(Occupied) - 1
<1>1. \A y : y # s => (y \in Occupied <=> y \in Occupied')
  BY DEF Occupied, SlotTypes
<1>2. /\ s \in Occupied <=> rowIds[s] # None
      /\ s \in Occupied' <=> r # None
  BY DEF Occupied, SlotTypes
<1>3. /\ s \notin Occupied /\ s \in Occupied' =>
           Cardinality(Occupied') = Cardinality(Occupied) + 1
      /\ s \in Occupied /\ s \notin Occupied' =>
           Cardinality(Occupied') = Cardinality(Occupied) - 1
  BY <1>1, FiniteParts, OneElement
<1>. QED
  BY <1>2, <1>3

LEMMA InitFitInv == Init => FitInv
<1>1. SUFFICES ASSUME Init PROVE FitInv
  OBVIOUS
<1>2. Occupied = {} /\ Claimers = {} /\ Counting = {}
  BY <1>1 DEF Init, Occupied, Claimers, Counting
<1>3. /\ Cardinality(Occupied) = 0 /\ Cardinality(Claimers) = 0
      /\ Cardinality(Counting) = 0
  BY <1>2, FS_EmptySet
<1>4. RowsCounted
  BY <1>1, <1>3 DEF Init, RowsCounted
<1>5. InsertsFit
  BY <1>3, StorageAssumption DEF InsertsFit, Claimers
<1>. QED
  BY <1>4, <1>5 DEF FitInv

LEMMA FitInvUnchanged ==
  FitInv /\ UNCHANGED <<numRows, rowIds, step>> => FitInv'
BY DEF FitInv, RowsCounted, InsertsFit, Occupied, Claimers, Counting

LEMMA FitInvStep == SlotInv /\ FitInv /\ [Next]_vars => FitInv'
<1>1. SUFFICES ASSUME SlotInv, FitInv, [Next]_vars PROVE FitInv'
  OBVIOUS
<1>2. SlotTypes /\ WorkerPlaces
  BY <1>1 DEF SlotInv
<1>3. /\ numRows \in Int
      /\ Cardinality(Occupied) + Cardinality(Claimers) + Cardinality(Counting) <= numRows
      /\ Cardinality(Occupied) + Cardinality(Claimers) <= Capacity
  BY <1>1 DEF FitInv, RowsCounted, InsertsFit, Claimers
<1>4. ASSUME /\ numRows' \in Int
             /\ Cardinality(Occupied') + Cardinality(Claimers') + Cardinality(Counting')
                  <= numRows'
             /\ Cardinality(Occupied') + Cardinality(Claimers') <= Capacity
      PROVE  FitInv'
  BY <1>4 DEF FitInv, RowsCounted, InsertsFit, Claimers
<1>5. UNCHANGED rowIds => Occupied' = Occupied
  BY DEF Occupied
<1>6. ASSUME NEW w \in Workers, WorkerStep(w)
      PROVE  FitInv'
  <2> USE FiniteParts, StorageAssumption
  <2>1. CASE Update(w) \/ Updated(w)
    <3>1. \E new \in {"idle", "update"} :
            /\ step[w] \in {"idle", "update"} /\ step' = [step EXCEPT ![w] = new]
            /\ UNCHANGED <<numRows, rowIds>>
      BY <2>1 DEF Update, Updated, lruVars
    <3>2. Cardinality(Claimers') = Cardinality(Claimers)
            /\ Cardinality(Counting') = Cardinality(Counting)
      BY <1>2, <3>1, StepCounts DEF Steps
    <3>. QED
      BY <1>3, <1>4, <1>5, <3>1, <3>2
  <2>2. CASE Insert(w)
    <3>1. /\ step[w] = "idle" /\ UNCHANGED rowIds /\ numRows' = numRows + 1
          /\ step' = [step EXCEPT ![w] = IF Capacity < numRows + 1 THEN "full" ELSE "claim"]
      BY <2>2 DEF Insert, lruVars, OverCapacity
    <3>2. CASE Capacity < numRows + 1
      <4>1. Cardinality(Claimers') = Cardinality(Claimers)
              /\ Cardinality(Counting') = Cardinality(Counting) + 1
        BY <1>2, <3>1, <3>2, StepCounts DEF Steps
      <4>. QED
        BY <1>3, <1>4, <1>5, <3>1, <4>1
    <3>3. CASE ~(Capacity < numRows + 1)
      <4>1. Cardinality(Claimers') = Cardinality(Claimers) + 1
              /\ Cardinality(Counting') = Cardinality(Counting)
        BY <1>2, <3>1, <3>3, StepCounts DEF Steps
      <4>. QED
        BY <1>3, <1>4, <1>5, <3>1, <3>3, <4>1
    <3>. QED
      BY <3>2, <3>3
  <2>3. CASE EvictOneRow(w)
    <3>1. /\ step[w] = "full" /\ UNCHANGED rowIds /\ numRows' = numRows - 1
          /\ step' = [step EXCEPT ![w] = "probe"]
      BY <2>3 DEF EvictOneRow, lruVars, Uncounted
    <3>2. Cardinality(Claimers') = Cardinality(Claimers)
            /\ Cardinality(Counting') = Cardinality(Counting) - 1
      BY <1>2, <3>1, StepCounts DEF Steps
    <3>. QED
      BY <1>3, <1>4, <1>5, <3>1, <3>2
  <2>4. CASE Probe(w)
    <3>1. /\ step[w] = "probe" /\ UNCHANGED <<numRows, rowIds>>
          /\ step' = step \/ step' = [step EXCEPT ![w] = "candidate"]
      BY <1>2, <2>4 DEF Probe, storageVars, SlotTypes
    <3>2. CASE step' = step
      BY <1>1, <3>1, <3>2, FitInvUnchanged
    <3>3. CASE step' = [step EXCEPT ![w] = "candidate"]
      <4>1. Cardinality(Claimers') = Cardinality(Claimers)
              /\ Cardinality(Counting') = Cardinality(Counting)
        BY <1>2, <3>1, <3>3, StepCounts DEF Steps
      <4>. QED
        BY <1>3, <1>4, <1>5, <3>1, <4>1
    <3>. QED
      BY <3>1, <3>2, <3>3
  <2>5. CASE Candidate(w)
    <3> DEFINE r == rowIds[slot[w]]
    <3>1. /\ step[w] = "candidate" /\ slot[w] \in Slots /\ r # None
          /\ UNCHANGED numRows
      BY <1>1, <2>5, CandidateOutcome, NoneIsNoRow DEF Candidate
    <3>2. CASE step' = [step EXCEPT ![w] = "probe"] /\ UNCHANGED rowIds
      <4>1. Cardinality(Claimers') = Cardinality(Claimers)
              /\ Cardinality(Counting') = Cardinality(Counting)
        BY <1>2, <3>1, <3>2, StepCounts DEF Steps
      <4>. QED
        BY <1>3, <1>4, <1>5, <3>1, <3>2, <4>1
    <3>3. CASE /\ step' = [step EXCEPT ![w] = "evicted"]
               /\ rowIds' = [rowIds EXCEPT ![slot[w]] = None]
      <4>1. Cardinality(Claimers') = Cardinality(Claimers) + 1
              /\ Cardinality(Counting') = Cardinality(Counting)
        BY <1>2, <3>1, <3>3, StepCounts DEF Steps
      <4>2. Cardinality(Occupied') = Cardinality(Occupied) - 1
        BY <1>2, <3>1, <3>3, OccupiedCount
      <4>. QED
        BY <1>3, <1>4, <3>1, <4>1, <4>2
    <3>. QED
      BY <1>1, <2>5, <3>2, <3>3, CandidateOutcome
  <2>6. CASE Claim(w)
    <3>1. step[w] = "claim" /\ UNCHANGED <<numRows, rowIds>>
      BY <2>6 DEF Claim, storageVars
    <3>2. \/ step' = step \/ step' = [step EXCEPT ![w] = "idle"]
          \/ step' = [step EXCEPT ![w] = "fill"]
      BY <2>6 DEF Claim
    <3>3. CASE step' = step
      BY <1>1, <3>1, <3>3, FitInvUnchanged
    <3>4. CASE step' = [step EXCEPT ![w] = "idle"]
      <4>1. Cardinality(Claimers') = Cardinality(Claimers) - 1
              /\ Cardinality(Counting') = Cardinality(Counting)
        BY <1>2, <3>1, <3>4, StepCounts DEF Steps
      <4>. QED
        BY <1>3, <1>4, <1>5, <3>1, <4>1
    <3>5. CASE step' = [step EXCEPT ![w] = "fill"]
      <4>1. Cardinality(Claimers') = Cardinality(Claimers)
              /\ Cardinality(Counting') = Cardinality(Counting)
        BY <1>2, <3>1, <3>5, StepCounts DEF Steps
      <4>. QED
        BY <1>3, <1>4, <1>5, <3>1, <4>1
    <3>. QED
      BY <3>2, <3>3, <3>4, <3>5
  <2>7. CASE Fill(w)
    <3>1. /\ step[w] = "fill" /\ slot[w] \in Slots /\ row[w] \in Rows
          /\ UNCHANGED numRows
      BY <1>2, <2>7 DEF Fill, WorkerPlaces, storageVars
    <3>2. CASE rowIds[slot[w]] # None
      BY <1>1, <2>7, <3>1, <3>2, FitInvUnchanged DEF Fill
    <3>3. CASE rowIds[slot[w]] = None
      <4>1. /\ step' = [step EXCEPT ![w] = "put"]
            /\ rowIds' = [rowIds EXCEPT ![slot[w]] = row[w]]
        BY <2>7, <3>3 DEF Fill
      <4>2. Cardinality(Claimers') = Cardinality(Claimers) - 1
              /\ Cardinality(Counting') = Cardinality(Counting)
        BY <1>2, <3>1, <4>1, StepCounts DEF Steps
      <4>3. Cardinality(Occupied') = Cardinality(Occupied) + 1
        BY <1>2, <3>1, <3>3, <4>1, OccupiedCount, NoneIsNoRow
      <4>. QED
        BY <1>3, <1>4, <3>1, <4>2, <4>3
    <3>. QED
      BY <3>2, <3>3
  <2>8. CASE Put(w)
    <3>1. /\ step[w] = "put" /\ step' = [step EXCEPT ![w] = "idle"]
          /\ UNCHANGED <<numRows, rowIds>>
      BY <2>8 DEF Put, lruVars
    <3>2. Cardinality(Claimers') = Cardinality(Claimers)
            /\ Cardinality(Counting') = Cardinality(Counting)
      BY <1>2, <3>1, StepCounts DEF Steps
    <3>. QED
      BY <1>3, <1>4, <1>5, <3>1, <3>2
  <2>9. CASE Evicted(w)
    <3>1. /\ step[w] = "evicted" /\ step' = [step EXCEPT ![w] = "claim"]
          /\ UNCHANGED <<numRows, rowIds>>
      BY <2>9 DEF Evicted, storageVars, lruVars
    <3>2. Cardinality(Claimers') = Cardinality(Claimers)
            /\ Cardinality(Counting') = Cardinality(Counting)
      BY <1>2, <3>1, StepCounts DEF Steps
    <3>. QED
      BY <1>3, <1>4, <1>5, <3>1, <3>2
  <2>. QED
    BY <1>6, <2>1, <2>2, <2>3, <2>4, <2>5, <2>6, <2>7, <2>8, <2>9 DEF WorkerStep
<1>7. ASSUME NEW t \in Getters,
             (\E r \in Rows : Get(t, r)) \/ GetAgain(t) \/ Release(t)
      PROVE  UNCHANGED <<numRows, rowIds, step>>
  BY <1>7 DEF Get, GetAgain, Release, workerVars, lruVars
<1>8. UNCHANGED vars => UNCHANGED <<numRows, rowIds, step>>
  BY DEF vars, workerVars, lruVars, storageVars
<1>. QED
  BY <1>1, <1>6, <1>7, <1>8, FitInvUnchanged DEF Next, Rest

(* Occupied slots and insertions that are to claim one never exceed the    *)
(* capacity: what ClockLRU asks of BoundedSparseProcessStorage.            *)
THEOREM InsertsAlwaysFit == Spec => []InsertsFit
<1>1. SlotInv /\ FitInv => InsertsFit
  BY DEF FitInv
<1>. QED
  BY <1>1, InitSlotInv, SlotInvStep, InitFitInv, FitInvStep, PTL DEF Spec
-----------------------------------------------------------------------------
RefInv == RefTypes /\ AccessorsWanted /\ RefsCover /\ ReferredStay

refStateVars == <<refs, get, acc, want, map, step, row>>

LEMMA FiniteReferrers ==
  \A r \in Rows : /\ IsFiniteSet(Holders(r)) /\ Cardinality(Holders(r)) \in Nat
                  /\ IsFiniteSet(Updaters(r)) /\ Cardinality(Updaters(r)) \in Nat
<1>1. SUFFICES ASSUME NEW r \in Rows
               PROVE  /\ IsFiniteSet(Holders(r)) /\ Cardinality(Holders(r)) \in Nat
                      /\ IsFiniteSet(Updaters(r)) /\ Cardinality(Updaters(r)) \in Nat
  OBVIOUS
<1>2. IsFiniteSet(Holders(r)) /\ IsFiniteSet(Updaters(r))
  BY StorageAssumption, FS_Subset DEF Holders, Updaters
<1>. QED
  BY <1>2, FS_CardinalityType

(* Nobody refers to a row without references.                              *)
LEMMA NoRefNobody ==
  ASSUME RefInv, NEW r \in Rows, refs[r] <= 0
  PROVE  Holders(r) = {} /\ Updaters(r) = {}
<1>1. refs[r] \in Int /\ Cardinality(Holders(r)) + Cardinality(Updaters(r)) <= refs[r]
  BY DEF RefInv, RefsCover, RefTypes
<1>2. /\ IsFiniteSet(Holders(r)) /\ Cardinality(Holders(r)) \in Nat
      /\ IsFiniteSet(Updaters(r)) /\ Cardinality(Updaters(r)) \in Nat
  BY FiniteReferrers
<1>3. Cardinality(Holders(r)) = 0 /\ Cardinality(Updaters(r)) = 0
  BY <1>1, <1>2
<1>. QED
  BY <1>2, <1>3, FS_EmptySet

(* An accessor takes or gives back a reference, or a worker does.          *)
LEMMA HoldersCount ==
  ASSUME RefTypes, NEW t \in Getters, NEW x \in Rows \cup {None},
         acc' = [acc EXCEPT ![t] = x], UNCHANGED <<step, row>>, NEW q \in Rows
  PROVE  /\ Updaters(q)' = Updaters(q)
         /\ (acc[t] = q <=> x = q) => Cardinality(Holders(q)') = Cardinality(Holders(q))
         /\ acc[t] # q /\ x = q => Cardinality(Holders(q)') = Cardinality(Holders(q)) + 1
         /\ acc[t] = q /\ x # q => Cardinality(Holders(q)') = Cardinality(Holders(q)) - 1
<1>1. /\ \A y : y # t => (y \in Holders(q) <=> y \in Holders(q)')
      /\ t \in Holders(q) <=> acc[t] = q
      /\ t \in Holders(q)' <=> x = q
  BY DEF Holders, RefTypes
<1>2. /\ (t \in Holders(q) <=> t \in Holders(q)') =>
           Cardinality(Holders(q)') = Cardinality(Holders(q))
      /\ t \notin Holders(q) /\ t \in Holders(q)' =>
           Cardinality(Holders(q)') = Cardinality(Holders(q)) + 1
      /\ t \in Holders(q) /\ t \notin Holders(q)' =>
           Cardinality(Holders(q)') = Cardinality(Holders(q)) - 1
  BY <1>1, FiniteReferrers, OneElement
<1>3. Updaters(q)' = Updaters(q)
  BY DEF Updaters
<1>. QED
  BY <1>1, <1>2, <1>3

LEMMA UpdatersCount ==
  ASSUME SlotTypes, NEW w \in Workers, NEW new \in Steps, NEW x \in Rows \cup {None},
         step' = [step EXCEPT ![w] = new], row' = [row EXCEPT ![w] = x],
         UNCHANGED acc, NEW q \in Rows
  PROVE  /\ Holders(q)' = Holders(q)
         /\ (step[w] # "update" \/ row[w] # q) /\ (new # "update" \/ x # q) =>
              Cardinality(Updaters(q)') = Cardinality(Updaters(q))
         /\ step[w] # "update" /\ new = "update" /\ x = q =>
              Cardinality(Updaters(q)') = Cardinality(Updaters(q)) + 1
         /\ step[w] = "update" /\ row[w] = q /\ new # "update" =>
              Cardinality(Updaters(q)') = Cardinality(Updaters(q)) - 1
<1>1. /\ \A y : y # w => (y \in Updaters(q) <=> y \in Updaters(q)')
      /\ w \in Updaters(q) <=> step[w] = "update" /\ row[w] = q
      /\ w \in Updaters(q)' <=> new = "update" /\ x = q
  BY DEF Updaters, SlotTypes
<1>2. /\ (w \in Updaters(q) <=> w \in Updaters(q)') =>
           Cardinality(Updaters(q)') = Cardinality(Updaters(q))
      /\ w \notin Updaters(q) /\ w \in Updaters(q)' =>
           Cardinality(Updaters(q)') = Cardinality(Updaters(q)) + 1
      /\ w \in Updaters(q) /\ w \notin Updaters(q)' =>
           Cardinality(Updaters(q)') = Cardinality(Updaters(q)) - 1
  BY <1>1, FiniteReferrers, OneElement
<1>3. Holders(q)' = Holders(q)
  BY DEF Holders
<1>. QED
  BY <1>1, <1>2, <1>3

LEMMA InitRefInv == Init => RefInv
<1>1. SUFFICES ASSUME Init PROVE RefInv
  OBVIOUS
<1>2. RefTypes /\ AccessorsWanted
  BY <1>1 DEF Init, RefTypes, AccessorsWanted
<1>3. \A r \in Rows : Holders(r) = {} /\ Updaters(r) = {}
  BY <1>1, NoneIsNoRow DEF Init, Holders, Updaters
<1>4. ASSUME NEW r \in Rows
      PROVE  Cardinality(Holders(r)) + Cardinality(Updaters(r)) <= refs[r]
  <2>1. Cardinality(Holders(r)) = 0 /\ Cardinality(Updaters(r)) = 0
    BY <1>3, FS_EmptySet
  <2>. QED
    BY <1>1, <2>1 DEF Init
<1>5. ReferredStay
  BY <1>1 DEF Init, ReferredStay, Referred
<1>. QED
  BY <1>2, <1>4, <1>5 DEF RefInv, RefsCover

LEMMA RefInvUnchanged == RefInv /\ UNCHANGED refStateVars => RefInv'
BY DEF RefInv, refStateVars, RefTypes, AccessorsWanted, RefsCover, Holders, Updaters,
       ReferredStay, Referred

(* Find gives an accessor the row it wants.                                *)
LEMMA ReferenceTaken ==
  ASSUME RefInv, NEW t \in Getters, NEW r \in Rows, acc[t] \in {None, r}, map[r] # None,
         acc' = [acc EXCEPT ![t] = r], refs' = [refs EXCEPT ![r] = @ + 1],
         UNCHANGED <<map, step, row>>
  PROVE  RefsCover' /\ ReferredStay'
<1>1. ASSUME NEW q \in Rows
      PROVE  Cardinality(Holders(q)') + Cardinality(Updaters(q)') <= refs'[q]
  <2>1. /\ refs[q] \in Int
        /\ Cardinality(Holders(q)) + Cardinality(Updaters(q)) <= refs[q]
        /\ refs'[q] = IF q = r THEN refs[q] + 1 ELSE refs[q]
    BY DEF RefInv, RefsCover, RefTypes
  <2>2. Cardinality(Holders(q)) \in Nat /\ Cardinality(Updaters(q)) \in Nat
    BY FiniteReferrers
  <2>3. /\ Updaters(q)' = Updaters(q)
        /\ q # r => Cardinality(Holders(q)') = Cardinality(Holders(q))
        /\ q = r => \/ Cardinality(Holders(q)') = Cardinality(Holders(q))
                    \/ Cardinality(Holders(q)') = Cardinality(Holders(q)) + 1
    BY HoldersCount, NoneIsNoRow DEF RefInv
  <2>. QED
    BY <2>1, <2>2, <2>3
<1>2. RefsCover'
  BY <1>1 DEF RefsCover
<1>3. ReferredStay'
  BY DEF RefInv, RefTypes, ReferredStay, Referred
<1>. QED
  BY <1>2, <1>3

LEMMA GetRefInv ==
  ASSUME SlotInv, RefInv, NEW t \in Getters, NEW r \in Rows, Get(t, r)
  PROVE  RefInv'
<1>1. /\ get[t] = "idle" /\ acc[t] = None /\ want' = [want EXCEPT ![t] = r]
      /\ UNCHANGED <<map, step, row>>
  BY DEF Get, RefInv, AccessorsWanted, workerVars
<1>2. CASE /\ map[r] # None /\ Reference(r) /\ acc' = [acc EXCEPT ![t] = r]
           /\ \E now \in {"holding", "fetching"} : get' = [get EXCEPT ![t] = now]
  <2>1. RefTypes' /\ AccessorsWanted'
    BY <1>1, <1>2, NoneIsNoRow DEF RefInv, RefTypes, AccessorsWanted, Reference
  <2>2. RefsCover' /\ ReferredStay'
    BY <1>1, <1>2, ReferenceTaken DEF Reference
  <2>. QED
    BY <2>1, <2>2 DEF RefInv
<1>3. CASE get' = [get EXCEPT ![t] = "fetching"] /\ UNCHANGED <<refs, stale, acc>>
  <2>1. RefTypes' /\ AccessorsWanted'
    BY <1>1, <1>3 DEF RefInv, RefTypes, AccessorsWanted
  <2>2. RefsCover' /\ ReferredStay'
    BY <1>1, <1>3 DEF RefInv, RefsCover, Holders, Updaters, ReferredStay, Referred
  <2>. QED
    BY <2>1, <2>2 DEF RefInv
<1>. QED
  BY <1>2, <1>3 DEF Get

LEMMA GetAgainRefInv ==
  ASSUME SlotInv, RefInv, NEW t \in Getters, GetAgain(t)
  PROVE  RefInv'
<1> DEFINE r == want[t]
<1>1. /\ get[t] = "woken" /\ r \in Rows /\ acc[t] \in {None, r}
      /\ UNCHANGED <<map, step, row, want>>
  BY DEF GetAgain, RefInv, AccessorsWanted, workerVars
<1>2. CASE /\ map[r] # None /\ Reference(r) /\ acc' = [acc EXCEPT ![t] = r]
           /\ get' = [get EXCEPT ![t] = "holding"]
  <2>1. RefTypes' /\ AccessorsWanted'
    BY <1>1, <1>2, NoneIsNoRow DEF RefInv, RefTypes, AccessorsWanted, Reference
  <2>2. RefsCover' /\ ReferredStay'
    BY <1>1, <1>2, ReferenceTaken DEF Reference
  <2>. QED
    BY <2>1, <2>2 DEF RefInv
<1>3. CASE get' = [get EXCEPT ![t] = "fetching"] /\ UNCHANGED <<refs, stale, acc>>
  <2>1. RefTypes' /\ AccessorsWanted'
    BY <1>1, <1>3 DEF RefInv, RefTypes, AccessorsWanted
  <2>2. RefsCover' /\ ReferredStay'
    BY <1>1, <1>3 DEF RefInv, RefsCover, Holders, Updaters, ReferredStay, Referred
  <2>. QED
    BY <2>1, <2>2 DEF RefInv
<1>. QED
  BY <1>2, <1>3 DEF GetAgain

LEMMA ReleaseRefInv ==
  ASSUME SlotInv, RefInv, NEW t \in Getters, Release(t)
  PROVE  RefInv'
<1> DEFINE r == acc[t]
<1>1. /\ r \in Rows /\ UNCHANGED <<map, step, row>>
      /\ refs' = [refs EXCEPT ![r] = @ - 1]
      /\ acc' = [acc EXCEPT ![t] = None] /\ want' = [want EXCEPT ![t] = None]
      /\ get' = [get EXCEPT ![t] = "idle"]
  BY DEF Release, DecRef, RefInv, AccessorsWanted, workerVars
<1>2. RefTypes' /\ AccessorsWanted'
  BY <1>1 DEF RefInv, RefTypes, AccessorsWanted
<1>3. ASSUME NEW q \in Rows
      PROVE  Cardinality(Holders(q)') + Cardinality(Updaters(q)') <= refs'[q]
  <2>1. /\ refs[q] \in Int
        /\ Cardinality(Holders(q)) + Cardinality(Updaters(q)) <= refs[q]
        /\ refs'[q] = IF q = r THEN refs[q] - 1 ELSE refs[q]
    BY <1>1 DEF RefInv, RefsCover, RefTypes
  <2>2. Cardinality(Holders(q)) \in Nat /\ Cardinality(Updaters(q)) \in Nat
    BY FiniteReferrers
  <2>3. /\ Updaters(q)' = Updaters(q)
        /\ q # r => Cardinality(Holders(q)') = Cardinality(Holders(q))
        /\ q = r => Cardinality(Holders(q)') = Cardinality(Holders(q)) - 1
    BY <1>1, HoldersCount, NoneIsNoRow DEF RefInv
  <2>. QED
    BY <2>1, <2>2, <2>3
<1>4. ReferredStay'
  BY <1>1 DEF RefInv, RefTypes, ReferredStay, Referred
<1>. QED
  BY <1>2, <1>3, <1>4 DEF RefInv, RefsCover

(* Waking the threads that wait for a row leaves the accessors alone.      *)
LEMMA WokenWanted ==
  ASSUME RefInv, UNCHANGED <<acc, want>>, refs' \in [Rows -> Int],
         get' = get \/ \E q \in Rows : get' = Woken(q)
  PROVE  RefTypes' /\ AccessorsWanted'
BY DEF RefInv, RefTypes, AccessorsWanted, Woken

LEMMA UpdateRefInv ==
  ASSUME SlotInv, RefInv, NEW w \in Workers, Update(w)
  PROVE  RefInv'
<1>1. PICK r \in Rows :
        /\ step[w] = "idle" /\ map[r] # None
        /\ refs' = [refs EXCEPT ![r] = @ + 1]
        /\ step' = [step EXCEPT ![w] = "update"] /\ row' = [row EXCEPT ![w] = r]
        /\ UNCHANGED <<map, get, acc, want>>
  BY DEF Update, Awaited, Reference, getterVars
<1>2. RefTypes' /\ AccessorsWanted'
  BY <1>1, WokenWanted DEF RefInv, RefTypes
<1>3. ASSUME NEW q \in Rows
      PROVE  Cardinality(Holders(q)') + Cardinality(Updaters(q)') <= refs'[q]
  <2>1. /\ refs[q] \in Int
        /\ Cardinality(Holders(q)) + Cardinality(Updaters(q)) <= refs[q]
        /\ refs'[q] = IF q = r THEN refs[q] + 1 ELSE refs[q]
    BY <1>1 DEF RefInv, RefsCover, RefTypes
  <2>2. Cardinality(Holders(q)) \in Nat /\ Cardinality(Updaters(q)) \in Nat
    BY FiniteReferrers
  <2>3. /\ Holders(q)' = Holders(q)
        /\ q # r => Cardinality(Updaters(q)') = Cardinality(Updaters(q))
        /\ q = r => Cardinality(Updaters(q)') = Cardinality(Updaters(q)) + 1
    <3>1. SlotTypes /\ "update" \in Steps /\ r \in Rows \cup {None}
      BY DEF SlotInv, Steps
    <3>2. CASE q # r
      BY <1>1, <3>1, <3>2, UpdatersCount
    <3>3. CASE q = r
      BY <1>1, <3>1, <3>3, UpdatersCount
    <3>. QED
      BY <3>2, <3>3
  <2>. QED
    BY <2>1, <2>2, <2>3
<1>4. ReferredStay'
  BY <1>1 DEF SlotInv, SlotTypes, RefInv, RefTypes, ReferredStay, Referred
<1>. QED
  BY <1>2, <1>3, <1>4 DEF RefInv, RefsCover

LEMMA UpdatedRefInv ==
  ASSUME SlotInv, RefInv, NEW w \in Workers, Updated(w)
  PROVE  RefInv'
<1> DEFINE r == row[w]
<1>1. /\ step[w] = "update" /\ r \in Rows
      /\ refs' = [refs EXCEPT ![r] = @ - 1]
      /\ step' = [step EXCEPT ![w] = "idle"] /\ row' = [row EXCEPT ![w] = None]
      /\ get' = Woken(r) /\ UNCHANGED <<map, acc, want>>
  BY DEF Updated, DecRef, SlotInv, WorkerPlaces
<1>2. RefTypes' /\ AccessorsWanted'
  BY <1>1, WokenWanted DEF RefInv, RefTypes
<1>3. ASSUME NEW q \in Rows
      PROVE  Cardinality(Holders(q)') + Cardinality(Updaters(q)') <= refs'[q]
  <2>1. /\ refs[q] \in Int
        /\ Cardinality(Holders(q)) + Cardinality(Updaters(q)) <= refs[q]
        /\ refs'[q] = IF q = r THEN refs[q] - 1 ELSE refs[q]
    BY <1>1 DEF RefInv, RefsCover, RefTypes
  <2>2. Cardinality(Holders(q)) \in Nat /\ Cardinality(Updaters(q)) \in Nat
    BY FiniteReferrers
  <2>3. /\ Holders(q)' = Holders(q)
        /\ q # r => Cardinality(Updaters(q)') = Cardinality(Updaters(q))
        /\ q = r => Cardinality(Updaters(q)') = Cardinality(Updaters(q)) - 1
    <3>1. SlotTypes /\ "idle" \in Steps /\ None \in Rows \cup {None}
      BY NoneIsNoRow DEF SlotInv, Steps
    <3>2. "idle" # "update" /\ None # q
      BY NoneIsNoRow
    <3>. QED
      BY <1>1, <3>1, <3>2, UpdatersCount
  <2>. QED
    BY <2>1, <2>2, <2>3
<1>4. ReferredStay'
  BY <1>1 DEF SlotInv, SlotTypes, RefInv, RefTypes, ReferredStay, Referred
<1>. QED
  BY <1>2, <1>3, <1>4 DEF RefInv, RefsCover

(* Any other step of a worker: no reference changes, and no row with a     *)
(* reference leaves the map.                                               *)
LEMMA QuietRefInv ==
  ASSUME SlotInv, RefInv, NEW w \in Workers,
         step[w] # "update", step' \in [Workers -> Steps], step'[w] # "update",
         \A v \in Workers : v # w => step'[v] = step[v] /\ row'[v] = row[v],
         UNCHANGED <<refs, acc, want>>,
         get' = get \/ \E q \in Rows : get' = Woken(q),
         \A q \in Rows : map'[q] # None \/ map[q] = None \/ refs[q] <= 0
  PROVE  RefInv'
<1>1. RefTypes' /\ AccessorsWanted'
  BY WokenWanted DEF RefInv, RefTypes
<1>2. \A q \in Rows : Updaters(q)' = Updaters(q) /\ Holders(q)' = Holders(q)
  BY DEF Updaters, Holders
<1>3. RefsCover'
  BY <1>2 DEF RefInv, RefsCover
<1>4. ASSUME NEW q \in Rows, Holders(q) # {} \/ Updaters(q) # {}, map[q] # None
      PROVE  map'[q] # None
  BY <1>4, NoRefNobody
<1>5. ASSUME NEW t \in Getters, acc[t] # None
      PROVE  map'[acc[t]] # None
  <2>1. acc[t] \in Rows /\ map[acc[t]] # None
    BY <1>5 DEF RefInv, RefTypes, ReferredStay, Referred
  <2>2. t \in Holders(acc[t])
    BY DEF Holders
  <2>. QED
    BY <1>4, <2>1, <2>2
<1>6. ASSUME NEW v \in Workers, step'[v] = "update"
      PROVE  map'[row'[v]] # None
  <2>1. v # w /\ step[v] = "update" /\ row'[v] = row[v]
    BY <1>6
  <2>2. row[v] \in Rows /\ map[row[v]] # None
    BY <2>1 DEF SlotInv, WorkerPlaces, RefInv, ReferredStay
  <2>3. v \in Updaters(row[v])
    BY <2>1 DEF Updaters
  <2>. QED
    BY <1>4, <2>1, <2>2, <2>3
<1>7. ReferredStay'
  BY <1>5, <1>6 DEF ReferredStay, Referred
<1>. QED
  BY <1>1, <1>3, <1>7 DEF RefInv

LEMMA RefInvStep == SlotInv /\ RefInv /\ [Next]_vars => RefInv'
<1>1. SUFFICES ASSUME SlotInv, RefInv, [Next]_vars PROVE RefInv'
  OBVIOUS
<1>2. SlotTypes /\ WorkerPlaces
  BY <1>1 DEF SlotInv
<1>3. ASSUME NEW w \in Workers, WorkerStep(w)
      PROVE  RefInv'
  <2>1. CASE Update(w) \/ Updated(w)
    BY <1>1, <2>1, UpdateRefInv, UpdatedRefInv
  <2>2. CASE Insert(w) \/ EvictOneRow(w) \/ Probe(w) \/ Evicted(w) \/ Fill(w)
    <3>1. /\ step[w] # "update" /\ step' \in [Workers -> Steps] /\ step'[w] # "update"
          /\ \A v \in Workers : v # w => step'[v] = step[v] /\ row'[v] = row[v]
          /\ UNCHANGED <<map, refs, get, acc, want>>
      BY <1>2, <2>2 DEF Insert, EvictOneRow, Probe, Evicted, Fill, storageVars, getterVars,
                        SlotTypes, Steps
    <3>. QED
      BY <1>1, <3>1, QuietRefInv
  <2>3. CASE Candidate(w)
    <3>1. UNCHANGED <<refs, row, get, acc, want>>
      BY <2>3 DEF Candidate, getterVars
    <3>2. /\ step[w] # "update" /\ step' \in [Workers -> Steps] /\ step'[w] # "update"
          /\ \A v \in Workers : v # w => step'[v] = step[v]
          /\ \A q \in Rows : map'[q] # None \/ map[q] = None \/ refs[q] <= 0
      BY <1>1, <1>2, <2>3, CandidateOutcome DEF SlotTypes, Steps
    <3>. QED
      BY <1>1, <3>1, <3>2, QuietRefInv
  <2>4. CASE Claim(w) \/ Put(w)
    <3>1. row[w] \in Rows
      BY <1>2, <2>4 DEF Claim, Put, WorkerPlaces
    <3>2. /\ step[w] # "update" /\ step' \in [Workers -> Steps] /\ step'[w] # "update"
          /\ \A v \in Workers : v # w => step'[v] = step[v] /\ row'[v] = row[v]
          /\ UNCHANGED <<refs, acc, want>>
          /\ get' = get \/ get' = Woken(row[w])
      BY <1>2, <2>4 DEF Claim, Put, storageVars, SlotTypes, Steps
    <3>3. \A q \in Rows : map'[q] # None \/ map[q] = None
      BY <1>2, <2>4, NoneIsNoRow DEF Claim, Put, storageVars, SlotTypes, WorkerPlaces
    <3>. QED
      BY <1>1, <3>1, <3>2, <3>3, QuietRefInv
  <2>. QED
    BY <1>3, <2>1, <2>2, <2>3, <2>4 DEF WorkerStep
<1>4. ASSUME NEW t \in Getters,
             (\E r \in Rows : Get(t, r)) \/ GetAgain(t) \/ Release(t)
      PROVE  RefInv'
  BY <1>1, <1>4, GetRefInv, GetAgainRefInv, ReleaseRefInv
<1>5. UNCHANGED vars => UNCHANGED refStateVars
  BY DEF vars, refStateVars, workerVars, getterVars, storageVars
<1>. QED
  BY <1>1, <1>3, <1>4, <1>5, RefInvUnchanged DEF Next, Rest

(* A row that an accessor refers to, or that a worker is updating, stays   *)
(* cached: EvictOneRow never takes it.                                     *)
THEOREM ReferredAlwaysStay == Spec => []ReferredStay
<1>1. SlotInv /\ RefInv => ReferredStay
  BY DEF RefInv
<1>. QED
  BY <1>1, InitSlotInv, SlotInvStep, InitRefInv, RefInvStep, PTL DEF Spec
-----------------------------------------------------------------------------
(* Where the slots are: above the insert hand nothing was ever inserted;   *)
(* below it a slot holds a row, waits in the queue of empty slots, or is   *)
(* with a worker that is about to fill it, and is in one of these places   *)
(* only.                                                                   *)
Filling == {w \in Workers : step[w] = "fill"}
Queued(s) == \E i \in DOMAIN emptySlots : emptySlots[i] = s

SlotsDistinct ==
  /\ \A i, j \in DOMAIN emptySlots : emptySlots[i] = emptySlots[j] => i = j
  /\ \A v, w \in Filling : slot[v] = slot[w] => v = w
  /\ \A w \in Filling : ~Queued(slot[w]) /\ slot[w] \notin Occupied
  /\ \A s \in Occupied : ~Queued(s)

SlotsBelowHand ==
  /\ insertHand <= Capacity
  /\ \A s \in Slots : s < insertHand <=>
       s \in Occupied \/ Queued(s) \/ \E w \in Filling : slot[w] = s

FreeInv == SlotsDistinct /\ SlotsBelowHand

freeVars == <<rowIds, emptySlots, insertHand, step, slot>>

LEMMA InitFreeInv == Init => FreeInv
BY StorageAssumption DEF Init, FreeInv, SlotsDistinct, SlotsBelowHand, Filling, Queued, Occupied, Slots

LEMMA FreeInvUnchanged ==
  ASSUME FreeInv, UNCHANGED <<rowIds, emptySlots, insertHand, slot>>, Filling' = Filling
  PROVE  FreeInv'
BY DEF FreeInv, SlotsDistinct, SlotsBelowHand, Filling, Queued, Occupied

(* Any other step of a worker.                                             *)
LEMMA QuietFreeInv ==
  ASSUME SlotTypes, FreeInv, NEW w \in Workers, NEW new \in Steps,
         step[w] # "fill", new # "fill", step' = [step EXCEPT ![w] = new],
         \A v \in Workers : v # w => slot'[v] = slot[v],
         UNCHANGED <<rowIds, emptySlots, insertHand>>
  PROVE  FreeInv'
<1>1. Filling' = Filling /\ \A v \in Filling : slot'[v] = slot[v]
  BY DEF Filling, SlotTypes
<1>2. Occupied' = Occupied /\ \A q : Queued(q)' <=> Queued(q)
  BY DEF Occupied, Queued
<1>. QED
  BY <1>1, <1>2 DEF FreeInv, SlotsDistinct, SlotsBelowHand, Queued, Occupied

(* A slot that is evicted goes to the end of the queue.                    *)
LEMMA EvictedFreeInv ==
  ASSUME SlotTypes, FreeInv, NEW w \in Workers, NEW s \in Slots, rowIds[s] # None,
         step[w] # "fill", step' = [step EXCEPT ![w] = "evicted"], UNCHANGED slot,
         rowIds' = [rowIds EXCEPT ![s] = None],
         emptySlots' = Append(emptySlots, s), UNCHANGED insertHand
  PROVE  FreeInv'
<1>1. Filling' = Filling /\ \A v \in Filling : slot'[v] = slot[v]
  BY DEF Filling, SlotTypes
<1>2. Occupied' = Occupied \ {s} /\ s \in Occupied
  BY DEF Occupied, SlotTypes
<1>3. emptySlots \in Seq(Slots)
  BY DEF SlotTypes
<1>4. /\ DOMAIN emptySlots = 1 .. Len(emptySlots) /\ Len(emptySlots) \in Nat
      /\ DOMAIN emptySlots' = 1 .. Len(emptySlots) + 1
      /\ \A i \in DOMAIN emptySlots : emptySlots'[i] = emptySlots[i]
      /\ emptySlots'[Len(emptySlots) + 1] = s
  BY <1>3
<1>5. \A q : Queued(q)' <=> Queued(q) \/ q = s
  BY <1>4 DEF Queued
<1>6. ~Queued(s) /\ \A v \in Filling : slot[v] # s
  BY <1>2 DEF FreeInv, SlotsDistinct
<1>7. \A i, j \in DOMAIN emptySlots' : emptySlots'[i] = emptySlots'[j] => i = j
  BY <1>4, <1>6 DEF Queued, FreeInv, SlotsDistinct
<1>8. SlotsDistinct'
  BY <1>1, <1>2, <1>5, <1>6, <1>7 DEF FreeInv, SlotsDistinct
<1>9. SlotsBelowHand'
  <2>1. ASSUME NEW q \in Slots
        PROVE  q < insertHand' <=>
                 q \in Occupied' \/ Queued(q)' \/ \E v \in Filling' : slot'[v] = q
    BY <1>1, <1>2, <1>5 DEF FreeInv, SlotsBelowHand
  <2>. QED
    BY <2>1 DEF FreeInv, SlotsBelowHand
<1>. QED
  BY <1>8, <1>9 DEF FreeInv

(* A worker takes the first slot of the queue.                             *)
LEMMA DequeuedFreeInv ==
  ASSUME SlotTypes, FreeInv, NEW w \in Workers, step[w] = "claim",
         emptySlots # << >>, emptySlots' = Tail(emptySlots),
         step' = [step EXCEPT ![w] = "fill"],
         slot' = [slot EXCEPT ![w] = Head(emptySlots)],
         UNCHANGED <<rowIds, insertHand>>
  PROVE  FreeInv'
<1> DEFINE s == Head(emptySlots)
<1>1. emptySlots \in Seq(Slots) /\ s \in Slots
  BY DEF SlotTypes
<1>2. /\ DOMAIN emptySlots = 1 .. Len(emptySlots) /\ Len(emptySlots) \in Nat \ {0}
      /\ DOMAIN emptySlots' = 1 .. Len(emptySlots) - 1
      /\ \A i \in DOMAIN emptySlots' : emptySlots'[i] = emptySlots[i + 1]
      /\ emptySlots[1] = s
  BY <1>1
<1>3. Queued(s)
  BY <1>2 DEF Queued
<1>4. \A i \in DOMAIN emptySlots : emptySlots[i] = s => i = 1
  BY <1>2 DEF FreeInv, SlotsDistinct
<1>5. \A q : Queued(q)' <=> Queued(q) /\ q # s
  <2>1. ASSUME NEW q, Queued(q)' PROVE Queued(q) /\ q # s
    <3>1. PICK i \in DOMAIN emptySlots' : emptySlots'[i] = q
      BY <2>1 DEF Queued
    <3>2. i + 1 \in DOMAIN emptySlots /\ emptySlots[i + 1] = q /\ i + 1 # 1
      BY <1>2, <3>1
    <3>. QED
      BY <1>4, <3>2 DEF Queued
  <2>2. ASSUME NEW q, Queued(q), q # s PROVE Queued(q)'
    <3>1. PICK i \in DOMAIN emptySlots : emptySlots[i] = q
      BY <2>2 DEF Queued
    <3>2. i # 1
      BY <1>2, <2>2, <3>1
    <3>3. i - 1 \in DOMAIN emptySlots' /\ emptySlots'[i - 1] = q
      <4>1. i - 1 \in DOMAIN emptySlots' /\ (i - 1) + 1 = i
        BY <1>2, <3>2
      <4>. QED
        BY <1>2, <3>1, <4>1
    <3>. QED
      BY <3>3 DEF Queued
  <2>. QED
    BY <2>1, <2>2
<1>6. /\ Filling' = Filling \cup {w} /\ w \notin Filling
      /\ slot'[w] = s /\ \A v \in Filling : slot'[v] = slot[v]
  BY DEF Filling, SlotTypes
<1>7. Occupied' = Occupied /\ s \notin Occupied
  BY <1>3 DEF Occupied, FreeInv, SlotsDistinct
<1>8. \A i, j \in DOMAIN emptySlots' : emptySlots'[i] = emptySlots'[j] => i = j
  <2>1. SUFFICES ASSUME NEW i \in DOMAIN emptySlots', NEW j \in DOMAIN emptySlots',
                        emptySlots'[i] = emptySlots'[j]
                 PROVE  i = j
    OBVIOUS
  <2>2. /\ i + 1 \in DOMAIN emptySlots /\ j + 1 \in DOMAIN emptySlots
        /\ i \in Int /\ j \in Int
        /\ emptySlots[i + 1] = emptySlots[j + 1]
    BY <1>2, <2>1
  <2>3. i + 1 = j + 1
    BY <2>2 DEF FreeInv, SlotsDistinct
  <2>. QED
    BY <2>2, <2>3
<1>9. SlotsDistinct'
  <2>1. \A v \in Filling : slot[v] # s
    BY <1>3 DEF FreeInv, SlotsDistinct
  <2>. QED
    BY <1>5, <1>6, <1>7, <1>8, <2>1 DEF FreeInv, SlotsDistinct
<1>10. SlotsBelowHand'
  <2>1. ASSUME NEW q \in Slots
        PROVE  q < insertHand' <=>
                 q \in Occupied' \/ Queued(q)' \/ \E v \in Filling' : slot'[v] = q
    BY <1>3, <1>5, <1>6, <1>7 DEF FreeInv, SlotsBelowHand
  <2>. QED
    BY <2>1 DEF FreeInv, SlotsBelowHand
<1>. QED
  BY <1>9, <1>10 DEF FreeInv
(* While an insertion that fits has not claimed its slot, there is one: in *)
(* the queue, or above the insert hand.                                    *)
LEMMA SlotToClaim ==
  ASSUME SlotTypes, FreeInv, InsertsFit, NEW w \in Workers, step[w] = "claim",
         emptySlots = << >>
  PROVE  insertHand < Capacity
<1>1. SUFFICES ASSUME insertHand >= Capacity PROVE FALSE
  BY StorageAssumption DEF SlotTypes
<1>2. \A s \in Slots : s \in Occupied \/ \E v \in Filling : slot[v] = s
  BY <1>1, StorageAssumption DEF FreeInv, SlotsBelowHand, Queued, Slots, SlotTypes
<1> DEFINE given == {slot[v] : v \in Filling}
<1>3. /\ IsFiniteSet(Filling) /\ Cardinality(Filling) \in Nat
      /\ Filling \subseteq Claimers /\ w \in Claimers /\ w \notin Filling
  <2>1. IsFiniteSet(Filling)
    BY StorageAssumption, FS_Subset DEF Filling
  <2>. QED
    BY <2>1, FS_CardinalityType DEF Filling, Claimers
<1>4. IsFiniteSet(given) /\ Cardinality(given) <= Cardinality(Filling)
  <2> DEFINE f == [v \in Filling |-> slot[v]]
  <2>1. f \in Surjection(Filling, given)
    BY DEF Surjection
  <2>. QED
    BY <1>3, <2>1, FS_Surjection
<1>5. Cardinality(Filling) + 1 <= Cardinality(Claimers)
  <2>1. Cardinality(Filling \cup {w}) = Cardinality(Filling) + 1
    BY <1>3, FS_AddElement
  <2>2. Cardinality(Filling \cup {w}) <= Cardinality(Claimers)
    <3>1. Filling \cup {w} \subseteq Claimers
      BY <1>3
    <3>. QED
      BY <3>1, FiniteParts, FS_Subset
  <2>. QED
    BY <2>1, <2>2
<1>6. Cardinality(Slots) = Capacity
  <2>1. 0 \in Int /\ Capacity - 1 \in Int /\ 0 <= Capacity - 1
    BY StorageAssumption
  <2>2. Cardinality(0 .. Capacity - 1) = (Capacity - 1) - 0 + 1
    BY <2>1, FS_Interval
  <2>. QED
    BY <2>2, StorageAssumption DEF Slots
<1>7. Cardinality(Slots) <= Cardinality(Occupied) + Cardinality(given)
  <2>1. Slots \subseteq Occupied \cup given
    BY <1>2
  <2>2. IsFiniteSet(Occupied \cup given)
    BY <1>4, FiniteParts, FS_Union
  <2>3. Cardinality(Slots) <= Cardinality(Occupied \cup given)
    BY <2>1, <2>2, FS_Subset
  <2>4. /\ Cardinality(Occupied \cup given) =
             Cardinality(Occupied) + Cardinality(given) - Cardinality(Occupied \cap given)
        /\ IsFiniteSet(Occupied \cap given)
    <3>1. IsFiniteSet(Occupied \cap given)
      BY FiniteParts, FS_Intersection, <1>4
    <3>. QED
      BY <1>4, <3>1, FiniteParts, FS_Union
  <2>5. /\ Cardinality(Occupied \cap given) \in Nat /\ Cardinality(given) \in Nat
        /\ Cardinality(Slots) \in Nat
    BY <2>4, <1>4, <1>6, StorageAssumption, FS_CardinalityType
  <2>. QED
    BY <2>3, <2>4, <2>5, FiniteParts
<1>8. Cardinality(Occupied) + Cardinality(Claimers) <= Capacity
  BY DEF InsertsFit, Claimers
<1>9. Cardinality(given) \in Nat
  BY <1>4, FS_CardinalityType
<1>. QED
  BY <1>3, <1>4, <1>5, <1>6, <1>7, <1>8, <1>9, FiniteParts, StorageAssumption

(* A worker takes the slot at the insert hand.                             *)
LEMMA FreshFreeInv ==
  ASSUME SlotTypes, FreeInv, NEW w \in Workers, step[w] = "claim",
         insertHand < Capacity, insertHand' = insertHand + 1,
         step' = [step EXCEPT ![w] = "fill"],
         slot' = [slot EXCEPT ![w] = insertHand],
         UNCHANGED <<rowIds, emptySlots>>
  PROVE  FreeInv'
<1>1. insertHand \in Slots /\ insertHand \in Nat
  BY StorageAssumption DEF SlotTypes, Slots
<1>2. /\ insertHand \notin Occupied /\ ~Queued(insertHand)
      /\ \A v \in Filling : slot[v] # insertHand
  BY <1>1 DEF FreeInv, SlotsBelowHand
<1>3. /\ Filling' = Filling \cup {w} /\ w \notin Filling
      /\ slot'[w] = insertHand /\ \A v \in Filling : slot'[v] = slot[v]
  BY DEF Filling, SlotTypes
<1>4. Occupied' = Occupied /\ \A q : Queued(q)' <=> Queued(q)
  BY DEF Occupied, Queued
<1>5. SlotsDistinct'
  BY <1>2, <1>3, <1>4 DEF FreeInv, SlotsDistinct
<1>6. SlotsBelowHand'
  <2>1. ASSUME NEW q \in Slots
        PROVE  q < insertHand' <=>
                 q \in Occupied' \/ Queued(q)' \/ \E v \in Filling' : slot'[v] = q
    <3>1. q < insertHand + 1 <=> q < insertHand \/ q = insertHand
      BY <1>1, StorageAssumption DEF Slots
    <3>. QED
      BY <1>3, <1>4, <3>1 DEF FreeInv, SlotsBelowHand
  <2>2. insertHand' <= Capacity
    BY <1>1, StorageAssumption
  <2>. QED
    BY <2>1, <2>2 DEF SlotsBelowHand
<1>. QED
  BY <1>5, <1>6 DEF FreeInv

(* A worker fills its slot.                                                *)
LEMMA FilledFreeInv ==
  ASSUME SlotTypes, FreeInv, NEW w \in Workers, step[w] = "fill",
         slot[w] \in Slots, row[w] \in Rows,
         rowIds' = [rowIds EXCEPT ![slot[w]] = row[w]],
         step' = [step EXCEPT ![w] = "put"],
         UNCHANGED <<slot, emptySlots, insertHand>>
  PROVE  FreeInv'
<1>1. Filling' = Filling \ {w} /\ w \in Filling
  BY DEF Filling, SlotTypes
<1>2. Occupied' = Occupied \cup {slot[w]}
  BY NoneIsNoRow DEF Occupied, SlotTypes
<1>3. \A q : Queued(q)' <=> Queued(q)
  BY DEF Queued
<1>4. SlotsDistinct'
  BY <1>1, <1>2, <1>3 DEF FreeInv, SlotsDistinct
<1>5. SlotsBelowHand'
  BY <1>1, <1>2, <1>3 DEF FreeInv, SlotsBelowHand
<1>. QED
  BY <1>4, <1>5 DEF FreeInv

LEMMA FreeInvStep ==
  ASSUME SlotInv, FitInv, FreeInv, [Next]_vars
  PROVE  FreeInv' /\ (ReportNoBug => ReportNoBug')
<1>1. SlotTypes /\ WorkerPlaces /\ InsertsFit
  BY DEF SlotInv, FitInv
<1>2. ASSUME NEW w \in Workers, WorkerStep(w)
      PROVE  FreeInv' /\ (ReportNoBug => ReportNoBug')
  <2>1. CASE Update(w) \/ Updated(w) \/ Insert(w) \/ EvictOneRow(w) \/ Evicted(w) \/ Put(w)
    <3>1. /\ UNCHANGED <<rowIds, emptySlots, insertHand, failed>>
          /\ step[w] # "fill"
          /\ \E new \in Steps \ {"fill"} : step' = [step EXCEPT ![w] = new]
          /\ slot' = slot \/ slot' = [slot EXCEPT ![w] = None]
      BY <2>1 DEF Update, Updated, Insert, EvictOneRow, Evicted, Put, Reference, lruVars, Steps
    <3>2. \A v \in Workers : v # w => slot'[v] = slot[v]
      BY <1>1, <3>1 DEF SlotTypes
    <3>. QED
      BY <1>1, <3>1, <3>2, QuietFreeInv DEF ReportNoBug
  <2>2. CASE Probe(w)
    <3>1. /\ UNCHANGED <<rowIds, emptySlots, insertHand>>
          /\ step[w] = "probe" /\ (failed' = failed \/ failed' = "rounds")
          /\ \/ UNCHANGED <<step, slot>>
             \/ /\ \E new \in {"probe", "candidate"} : step' = [step EXCEPT ![w] = new]
                /\ \E s \in Slots \cup {None} : slot' = [slot EXCEPT ![w] = s]
      BY <1>1, <2>2 DEF Probe, storageVars, SlotTypes
    <3>2. CASE UNCHANGED <<step, slot>>
      <4>1. Filling' = Filling
        BY <3>2 DEF Filling
      <4>. QED
        BY <3>1, <3>2, <4>1, FreeInvUnchanged DEF ReportNoBug
    <3>3. CASE /\ \E new \in {"probe", "candidate"} : step' = [step EXCEPT ![w] = new]
               /\ \E s \in Slots \cup {None} : slot' = [slot EXCEPT ![w] = s]
      <4>1. \A v \in Workers : v # w => slot'[v] = slot[v]
        BY <1>1, <3>3 DEF SlotTypes
      <4>. QED
        BY <1>1, <3>1, <3>3, <4>1, QuietFreeInv DEF ReportNoBug, Steps
    <3>. QED
      BY <3>1, <3>2, <3>3
  <2>3. CASE Candidate(w)
    <3> DEFINE s == slot[w]
               r == rowIds[s]
    <3>1. /\ step[w] = "candidate" /\ s \in Slots /\ r \in Rows /\ map[r] = s
          /\ UNCHANGED insertHand
          /\ \/ /\ step' = [step EXCEPT ![w] = "probe"]
                /\ slot' = [slot EXCEPT ![w] = None]
                /\ UNCHANGED <<rowIds, emptySlots>>
             \/ /\ rowIds' = [rowIds EXCEPT ![s] = None]
                /\ emptySlots' = Append(emptySlots, s)
                /\ step' = [step EXCEPT ![w] = "evicted"]
                /\ UNCHANGED slot
      BY <2>3, CandidateOutcome
    <3>2. failed' = failed /\ r # None
      BY <2>3, <3>1, NoneIsNoRow DEF Candidate
    <3>3. \A v \in Workers : v # w => slot'[v] = slot[v]
      BY <1>1, <3>1 DEF SlotTypes
    <3>4. CASE step' = [step EXCEPT ![w] = "probe"] /\ UNCHANGED <<rowIds, emptySlots>>
      BY <1>1, <3>1, <3>2, <3>3, <3>4, QuietFreeInv DEF ReportNoBug, Steps
    <3>5. CASE /\ rowIds' = [rowIds EXCEPT ![s] = None]
               /\ emptySlots' = Append(emptySlots, s)
               /\ step' = [step EXCEPT ![w] = "evicted"]
               /\ UNCHANGED slot
      BY <1>1, <3>1, <3>2, <3>5, EvictedFreeInv DEF ReportNoBug
    <3>. QED
      BY <3>1, <3>4, <3>5
  <2>4. CASE Claim(w)
    <3>1. step[w] = "claim" /\ UNCHANGED rowIds
      BY <2>4 DEF Claim
    <3>2. CASE map[row[w]] # None
      <4>1. /\ step' = [step EXCEPT ![w] = "idle"]
            /\ UNCHANGED <<slot, emptySlots, insertHand, failed>>
        BY <2>4, <3>2 DEF Claim
      <4>. QED
        BY <1>1, <3>1, <4>1, QuietFreeInv DEF ReportNoBug, Steps
    <3>3. CASE map[row[w]] = None /\ emptySlots # << >>
      <4>1. /\ emptySlots' = Tail(emptySlots)
            /\ step' = [step EXCEPT ![w] = "fill"]
            /\ slot' = [slot EXCEPT ![w] = Head(emptySlots)]
            /\ UNCHANGED <<insertHand, failed>>
        BY <2>4, <3>3 DEF Claim
      <4>. QED
        BY <1>1, <3>1, <3>3, <4>1, DequeuedFreeInv DEF ReportNoBug
    <3>4. CASE map[row[w]] = None /\ emptySlots = << >>
      <4>1. insertHand < Capacity /\ ~(insertHand >= Capacity)
        BY <1>1, <3>1, <3>4, SlotToClaim, StorageAssumption DEF SlotTypes
      <4>2. /\ insertHand' = insertHand + 1
            /\ step' = [step EXCEPT ![w] = "fill"]
            /\ slot' = [slot EXCEPT ![w] = insertHand]
            /\ UNCHANGED <<emptySlots, failed>>
        BY <2>4, <3>4, <4>1 DEF Claim
      <4>. QED
        BY <1>1, <3>1, <4>1, <4>2, FreshFreeInv DEF ReportNoBug
    <3>. QED
      BY <3>2, <3>3, <3>4
  <2>5. CASE Fill(w)
    <3>1. /\ step[w] = "fill" /\ slot[w] \in Slots /\ row[w] \in Rows
          /\ UNCHANGED <<slot, emptySlots, insertHand>>
      BY <1>1, <2>5 DEF Fill, WorkerPlaces
    <3>2. rowIds[slot[w]] = None
      BY <3>1 DEF FreeInv, SlotsDistinct, Filling, Occupied
    <3>3. /\ rowIds' = [rowIds EXCEPT ![slot[w]] = row[w]]
          /\ step' = [step EXCEPT ![w] = "put"] /\ UNCHANGED failed
      BY <2>5, <3>2 DEF Fill
    <3>. QED
      BY <1>1, <3>1, <3>3, FilledFreeInv DEF ReportNoBug
  <2>. QED
    BY <1>2, <2>1, <2>2, <2>3, <2>4, <2>5 DEF WorkerStep
<1>3. ASSUME NEW t \in Getters,
             (\E r \in Rows : Get(t, r)) \/ GetAgain(t) \/ Release(t)
      PROVE  UNCHANGED <<rowIds, emptySlots, insertHand, step, slot, failed>>
  BY <1>3 DEF Get, GetAgain, Release, workerVars, lruVars, Reference
<1>4. UNCHANGED vars => UNCHANGED <<rowIds, emptySlots, insertHand, step, slot, failed>>
  BY DEF vars, workerVars, lruVars, storageVars
<1>5. ASSUME UNCHANGED <<rowIds, emptySlots, insertHand, step, slot, failed>>
      PROVE  FreeInv' /\ (ReportNoBug => ReportNoBug')
  BY <1>5, FreeInvUnchanged DEF Filling, ReportNoBug
<1>. QED
  BY <1>2, <1>3, <1>4, <1>5 DEF Next, Rest

(* None of the checks of ClockLRU and EvictOneRow that say "Report bug"    *)
(* ever fails: there is a slot for every insertion, nobody else has put a  *)
(* row into it, also when it was taken from the queue before its eviction  *)
(* was over, and nobody else has evicted the candidate.                    *)
THEOREM NoBugToReport == Spec => []ReportNoBug
<1>1. Init => ReportNoBug
  BY DEF Init, ReportNoBug
<1>. QED
  BY <1>1, InitSlotInv, SlotInvStep, InitFitInv, FitInvStep, InitFreeInv, FreeInvStep,
     PTL DEF Spec
-----------------------------------------------------------------------------
(* What the variables hold beside that.                                    *)
RowsBounded == numRows <= Capacity + Cardinality(Counting)

OtherTypes ==
  /\ stale \in [Slots -> BOOLEAN]
  /\ tries \in [Workers -> 0 .. MaxRounds * Capacity]
  /\ gets \in [Getters -> 0 .. MaxGets]
  /\ victim \in [Workers -> Rows \cup {None}]

LEMMA InitOtherTypes == Init => RowsBounded /\ OtherTypes
<1>1. MaxRounds * Capacity \in Nat
  BY StorageAssumption
<1>2. Cardinality(Counting) \in Nat
  BY FiniteParts
<1>. QED
  BY <1>1, <1>2, StorageAssumption DEF Init, RowsBounded, OtherTypes

LEMMA RowsBoundedStep ==
  ASSUME SlotInv, FitInv, RowsBounded, [Next]_vars
  PROVE  RowsBounded'
<1>1. SlotTypes /\ numRows \in Int
  BY DEF SlotInv, FitInv, RowsCounted
<1> USE FiniteParts, StorageAssumption
<1>2. ASSUME UNCHANGED numRows, Cardinality(Counting') = Cardinality(Counting)
      PROVE  RowsBounded'
  BY <1>2 DEF RowsBounded
<1>3. ASSUME NEW w \in Workers, WorkerStep(w)
      PROVE  RowsBounded'
  <2>1. CASE Insert(w)
    <3>1. /\ step[w] = "idle" /\ numRows' = numRows + 1
          /\ step' = [step EXCEPT ![w] = IF Capacity < numRows + 1 THEN "full" ELSE "claim"]
      BY <2>1 DEF Insert, OverCapacity
    <3>2. CASE Capacity < numRows + 1
      <4>1. Cardinality(Counting') = Cardinality(Counting) + 1
        BY <1>1, <3>1, <3>2, StepCounts DEF Steps
      <4>. QED
        BY <1>1, <3>1, <4>1 DEF RowsBounded
    <3>3. CASE ~(Capacity < numRows + 1)
      <4>1. Cardinality(Counting') = Cardinality(Counting)
        BY <1>1, <3>1, <3>3, StepCounts DEF Steps
      <4>. QED
        BY <1>1, <3>1, <3>3, <4>1 DEF RowsBounded
    <3>. QED
      BY <3>2, <3>3
  <2>2. CASE EvictOneRow(w)
    <3>1. /\ step[w] = "full" /\ numRows' = numRows - 1
          /\ step' = [step EXCEPT ![w] = "probe"]
      BY <2>2 DEF EvictOneRow, Uncounted
    <3>2. Cardinality(Counting') = Cardinality(Counting) - 1
      BY <1>1, <3>1, StepCounts DEF Steps
    <3>. QED
      BY <1>1, <3>1, <3>2 DEF RowsBounded
  <2>3. CASE ~Insert(w) /\ ~EvictOneRow(w)
    <3>1. /\ step[w] # "full" /\ UNCHANGED numRows
          /\ step' = step \/ \E new \in Steps \ {"full"} : step' = [step EXCEPT ![w] = new]
      BY <1>1, <1>3, <2>3 DEF WorkerStep, Update, Updated, Probe, Candidate, Evicted, Claim,
         Fill, Put, storageVars, Steps, SlotTypes
    <3>2. Cardinality(Counting') = Cardinality(Counting)
      <4>1. CASE step' = step
        BY <4>1 DEF Counting
      <4>2. CASE \E new \in Steps \ {"full"} : step' = [step EXCEPT ![w] = new]
        BY <1>1, <3>1, <4>2, StepCounts
      <4>. QED
        BY <3>1, <4>1, <4>2
    <3>. QED
      BY <1>2, <3>1, <3>2
  <2>. QED
    BY <2>1, <2>2, <2>3
<1>4. ASSUME NEW t \in Getters,
             (\E r \in Rows : Get(t, r)) \/ GetAgain(t) \/ Release(t)
      PROVE  UNCHANGED <<numRows, step>>
  BY <1>4 DEF Get, GetAgain, Release, workerVars
<1>5. UNCHANGED vars => UNCHANGED <<numRows, step>>
  BY DEF vars, workerVars, storageVars
<1>6. UNCHANGED <<numRows, step>> => RowsBounded'
  BY <1>2 DEF Counting
<1>. QED
  BY <1>3, <1>4, <1>5, <1>6 DEF Next, Rest

LEMMA OtherTypesStep ==
  ASSUME SlotInv, RefInv, OtherTypes, [Next]_vars
  PROVE  OtherTypes'
<1>1. SlotTypes /\ WorkerPlaces /\ RefTypes /\ AccessorsWanted
  BY DEF SlotInv, RefInv
<1>2. MaxRounds * Capacity \in Nat /\ MaxGets \in Nat
  BY StorageAssumption
<1>3. ASSUME NEW w \in Workers, WorkerStep(w)
      PROVE  OtherTypes'
  <2>1. stale' \in [Slots -> BOOLEAN]
    BY <1>1, <1>3 DEF WorkerStep, Update, Updated, Insert, EvictOneRow, Probe, Candidate, Evicted,
       Claim, Fill, Put, Reference, Awaited, storageVars, lruVars, OtherTypes, SlotTypes
  <2>2. tries' \in [Workers -> 0 .. MaxRounds * Capacity]
    <3>1. CASE Probe(w)
      <4>1. tries[w] \in 0 .. MaxRounds * Capacity
        BY DEF OtherTypes
      <4>2. CASE tries[w] = MaxRounds * Capacity
        BY <3>1, <4>2 DEF Probe, OtherTypes
      <4>3. CASE tries[w] # MaxRounds * Capacity
        <5>1. \E n \in {0, tries[w] + 1} : tries' = [tries EXCEPT ![w] = n]
          BY <3>1, <4>3 DEF Probe, OtherTypes
        <5>2. 0 \in 0 .. MaxRounds * Capacity /\ tries[w] + 1 \in 0 .. MaxRounds * Capacity
          BY <1>2, <4>1, <4>3
        <5>. QED
          BY <5>1, <5>2 DEF OtherTypes
      <4>. QED
        BY <4>2, <4>3
    <3>2. CASE ~Probe(w)
      <4>1. tries' = tries \/ tries' = [tries EXCEPT ![w] = 0]
        BY <1>3, <3>2 DEF WorkerStep, Update, Updated, Insert, EvictOneRow, Candidate, Evicted,
           Claim, Fill, Put
      <4>2. 0 \in 0 .. MaxRounds * Capacity
        BY <1>2
      <4>. QED
        BY <4>1, <4>2 DEF OtherTypes
    <3>. QED
      BY <3>1, <3>2
  <2>3. UNCHANGED gets
    BY <1>3 DEF WorkerStep, Update, Updated, Insert, EvictOneRow, Probe, Candidate, Evicted,
       Claim, Fill, Put, getterVars
  <2>4. victim' \in [Workers -> Rows \cup {None}]
    <3>1. CASE Candidate(w)
      BY <3>1, CandidateOutcome DEF Candidate, OtherTypes
    <3>2. CASE ~Candidate(w)
      <4>1. victim' = victim \/ victim' = [victim EXCEPT ![w] = None]
        BY <1>3, <3>2 DEF WorkerStep, Update, Updated, Insert, EvictOneRow, Probe, Evicted,
           Claim, Fill, Put
      <4>. QED
        BY <4>1 DEF OtherTypes
    <3>. QED
      BY <3>1, <3>2
  <2>. QED
    BY <2>1, <2>2, <2>3, <2>4 DEF OtherTypes
<1>4. ASSUME NEW t \in Getters,
             (\E r \in Rows : Get(t, r)) \/ GetAgain(t) \/ Release(t)
      PROVE  OtherTypes'
  <2>1. UNCHANGED <<tries, victim>>
    BY <1>4 DEF Get, GetAgain, Release, workerVars
  <2>2. stale' \in [Slots -> BOOLEAN]
    BY <1>4, <1>1 DEF Get, GetAgain, Release, Reference, lruVars, OtherTypes
  <2>3. gets' = gets \/ (gets[t] < MaxGets /\ gets' = [gets EXCEPT ![t] = @ + 1])
    BY <1>4 DEF Get, GetAgain, Release
  <2>4. gets' \in [Getters -> 0 .. MaxGets]
    BY <1>2, <2>3 DEF OtherTypes
  <2>. QED
    BY <2>1, <2>2, <2>4 DEF OtherTypes
<1>5. UNCHANGED vars => OtherTypes'
  BY DEF vars, workerVars, lruVars, getterVars, OtherTypes
<1>. QED
  BY <1>3, <1>4, <1>5 DEF Next, Rest

(* What the variables hold.  The counter of rows never exceeds the slots   *)
(* by more than the workers, the insert hand never passes the last slot.   *)
THEOREM TypeCorrect == Spec => []TypeOK
<1>1. ASSUME SlotInv, FitInv, FreeInv, RefInv, RowsBounded, OtherTypes
      PROVE  TypeOK
  <2>1. numRows \in 0 .. Capacity + Cardinality(Workers)
    <3>1. Cardinality(Counting) <= Cardinality(Workers) /\ Cardinality(Workers) \in Nat
      BY StorageAssumption, FS_Subset, FS_CardinalityType DEF Counting
    <3>2. /\ numRows \in Int /\ numRows <= Capacity + Cardinality(Counting)
          /\ Cardinality(Occupied) + Cardinality(Claimers) + Cardinality(Counting) <= numRows
      BY <1>1 DEF FitInv, RowsCounted, RowsBounded
    <3>. QED
      BY <3>1, <3>2, FiniteParts, StorageAssumption
  <2>2. refs \in [Rows -> Nat]
    <3>1. ASSUME NEW r \in Rows PROVE refs[r] \in Nat
      <4>1. /\ refs[r] \in Int
            /\ Cardinality(Holders(r)) + Cardinality(Updaters(r)) <= refs[r]
        BY <1>1 DEF RefInv, RefTypes, RefsCover
      <4>2. Cardinality(Holders(r)) \in Nat /\ Cardinality(Updaters(r)) \in Nat
        BY FiniteReferrers
      <4>. QED
        BY <4>1, <4>2
    <3>. QED
      BY <1>1, <3>1 DEF RefInv, RefTypes
  <2>3. insertHand \in 0 .. Capacity
    BY <1>1, StorageAssumption DEF FreeInv, SlotsBelowHand, SlotInv, SlotTypes
  <2>. QED
    BY <1>1, <2>1, <2>2, <2>3 DEF TypeOK, SlotInv, SlotTypes, RefInv, RefTypes, OtherTypes, Steps
<1>. QED
  BY <1>1, InitSlotInv, SlotInvStep, InitFitInv, FitInvStep, InitFreeInv, FreeInvStep,
     InitRefInv, RefInvStep, InitOtherTypes, RowsBoundedStep, OtherTypesStep, PTL DEF Spec
=============================================================================
