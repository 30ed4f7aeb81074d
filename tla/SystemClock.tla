---------------------------- MODULE SystemClock ----------------------------
(***************************************************************************)
(* The system clock of one process under SSPPush: the background workers,  *)
(* one per communication channel, share a vector clock of the clocks their *)
(* servers have reached; the one whose tick moves its minimum stores the   *)
(* minimum into system_clock_ and wakes the application threads that wait  *)
(* for it in WaitSystemClock.                                              *)
(*                                                                         *)
(* The vector clock is locked while a worker ticks it, system_clock_ is    *)
(* atomic, the mutex is taken to wait and to notify: between these steps   *)
(* workers and threads overtake each other.                                *)
(*                                                                         *)
(* The other processes keep up: the servers of a channel push any clock up *)
(* to that of this process, the smallest of its threads'.                  *)
(***************************************************************************)
EXTENDS VectorClock, FiniteSetsExt, Functions

CONSTANTS
  Threads,
  Staleness,
  Uninitialised,  (* what the memory of system_clock_ may hold at first    *)
  GetsEveryClock  (* whether a thread calls Get() between any two Clock()s *)

ASSUME SystemClockAssumption ==
  /\ Ids # {}
  /\ IsFiniteSet(Threads) /\ Threads # {} /\ "none" \notin Threads
  /\ Staleness \in Nat /\ Uninitialised \subseteq Int
  /\ GetsEveryClock \in BOOLEAN

VARIABLES
  \* workers (the participants of the vector clock)
  step,         \* "idle", "ticking", "storing" or "notifying"
  new,          \* new_system_clock
  \* shared
  systemClock,  \* system_clock_
  mutex,        \* system_clock_mtx_: the thread that holds it, or "none"
  \* application threads
  pc,           \* "run", "locking", "checking", "falling", "asleep", "leaving"
  threadClock,  \* clock_ of the thread
  cached,       \* cached_system_clock_ of the thread
  served        \* whether the thread has called Get() at this clock

scvars == <<step, new, systemClock, mutex, pc, threadClock, cached, served>>

SysInit ==
  /\ Init
  /\ step        = [w \in Ids |-> "idle"]
  /\ new         = [w \in Ids |-> 0]
  /\ systemClock \in Uninitialised
  /\ mutex       = "none"
  /\ pc          = [t \in Threads |-> "run"]
  /\ threadClock = [t \in Threads |-> 0]
  /\ cached      = [t \in Threads |-> 0]
  /\ served      = [t \in Threads |-> FALSE]

(* The constructor of the worker group adds the workers' clocks.           *)
Construct(w) == AddClock(w, 0) /\ UNCHANGED scvars
Started == DOMAIN vec = Ids
-----------------------------------------------------------------------------
(* Workers.                                                                *)

ProcessClock == Min(Range(threadClock))

UnchangedByWorker == UNCHANGED <<mutex, threadClock, cached, served>>

(* HandleServerPushRow: the servers of the worker's channel have reached   *)
(* clock k; bg_server_clock_ is locked and ticked.                         *)
Pushed(w, k) ==
  /\ Started /\ step[w] = "idle"
  /\ k <= ProcessClock
  /\ TickUntil(w, k)
  /\ step' = [step EXCEPT ![w] = "ticking"]
  /\ UnchangedByWorker /\ UNCHANGED <<new, systemClock, pc>>

Ticks == TickUntilStep /\ UNCHANGED scvars

TickEnds(w) ==
  /\ step[w] = "ticking" /\ loop.id = w
  /\ TickUntilReturn
  /\ new'  = [new EXCEPT ![w] = loop.new]
  /\ step' = [step EXCEPT ![w] = IF loop.new # 0 THEN "storing" ELSE "idle"]
  /\ UnchangedByWorker /\ UNCHANGED <<systemClock, pc>>

(* Mutant: the clock of the worker's own servers.                          *)
NewSystemClockOwn(w) == vec[w]
NewSystemClock(w) == new[w]

(* *system_clock_ = new_system_clock, no lock held.                        *)
Store(w) ==
  /\ step[w] = "storing"
  /\ systemClock' = NewSystemClock(w)
  /\ step' = [step EXCEPT ![w] = "notifying"]
  /\ UnchangedByWorker /\ UNCHANGED <<vcvars, new, pc>>

(* Mutant: the mutex is not taken.                                         *)
MayNotifyAlways == TRUE
MayNotify == mutex = "none"

(* Mutant: notify_one.                                                     *)
NotifiedOne ==
  LET asleep == { t \in Threads : pc[t] = "asleep" }
  IN  IF asleep = {} THEN {} ELSE { CHOOSE t \in asleep : TRUE }
Notified == { t \in Threads : pc[t] = "asleep" }

(* notify_all under the mutex.                                             *)
Notify(w) ==
  /\ step[w] = "notifying"
  /\ MayNotify
  /\ pc'   = [t \in Threads |-> IF t \in Notified THEN "locking" ELSE pc[t]]
  /\ step' = [step EXCEPT ![w] = "idle"]
  /\ UnchangedByWorker /\ UNCHANGED <<vcvars, new, systemClock>>
-----------------------------------------------------------------------------
(* Application threads.                                                    *)

Needed(t) == Max({0, threadClock[t] - Staleness})

UnchangedByThread == UNCHANGED <<vcvars, step, new, systemClock>>

(* Get() with a cached or a newly read system clock that suffices; else it *)
(* calls WaitSystemClock.                                                  *)
Get(t) ==
  /\ Started /\ pc[t] = "run"
  /\ LET read == IF cached[t] < Needed(t) THEN systemClock ELSE cached[t]
     IN  IF read >= Needed(t)
         THEN /\ cached' = [cached EXCEPT ![t] = read]
              /\ served' = [served EXCEPT ![t] = TRUE]
              /\ UNCHANGED pc
         ELSE /\ pc' = [pc EXCEPT ![t] = "locking"]
              /\ UNCHANGED <<cached, served>>
  /\ UnchangedByThread /\ UNCHANGED <<mutex, threadClock>>

Lock(t) ==
  /\ pc[t] = "locking"
  /\ mutex = "none"
  /\ mutex' = t
  /\ pc'    = [pc EXCEPT ![t] = "checking"]
  /\ UnchangedByThread /\ UNCHANGED <<threadClock, cached, served>>

(* The condition of the loop; if it does not hold the mutex is released.   *)
Check(t) ==
  /\ pc[t] = "checking"
  /\ IF systemClock < Needed(t)
     THEN pc' = [pc EXCEPT ![t] = "falling"] /\ UNCHANGED mutex
     ELSE pc' = [pc EXCEPT ![t] = "leaving"] /\ mutex' = "none"
  /\ UnchangedByThread /\ UNCHANGED <<threadClock, cached, served>>

(* wait(lock) releases the mutex.                                          *)
Sleep(t) ==
  /\ pc[t] = "falling"
  /\ pc'    = [pc EXCEPT ![t] = "asleep"]
  /\ mutex' = "none"
  /\ UnchangedByThread /\ UNCHANGED <<threadClock, cached, served>>

(* wait may also return when nobody notified.                              *)
WakeSpuriously(t) ==
  /\ pc[t] = "asleep"
  /\ pc' = [pc EXCEPT ![t] = "locking"]
  /\ UnchangedByThread /\ UNCHANGED <<mutex, threadClock, cached, served>>

(* The system clock is read again, whatever it is by now.                  *)
Leave(t) ==
  /\ pc[t] = "leaving"
  /\ cached' = [cached EXCEPT ![t] = systemClock]
  /\ served' = [served EXCEPT ![t] = TRUE]
  /\ pc'     = [pc EXCEPT ![t] = "run"]
  /\ UnchangedByThread /\ UNCHANGED <<mutex, threadClock>>

Clock(t) ==
  /\ Started /\ pc[t] = "run"
  /\ threadClock[t] < MaxValue
  /\ GetsEveryClock => served[t]
  /\ threadClock' = [threadClock EXCEPT ![t] = @ + 1]
  /\ served'      = [served EXCEPT ![t] = FALSE]
  /\ UnchangedByThread /\ UNCHANGED <<mutex, pc, cached>>
-----------------------------------------------------------------------------
WorkerStep(w) ==
  TickEnds(w) \/ Store(w) \/ Notify(w) \/ \E k \in 1 .. MaxValue : Pushed(w, k)
WaitStep(t) == Lock(t) \/ Check(t) \/ Sleep(t) \/ Leave(t)

SysNext ==
  \/ \E w \in Ids : Construct(w) \/ WorkerStep(w)
  \/ Ticks
  \/ \E t \in Threads : Get(t) \/ WaitStep(t) \/ WakeSpuriously(t) \/ Clock(t)

SysSpec == SysInit /\ [][SysNext]_<<vcvars, scvars>>

(* Workers take what is pushed, threads run, and a mutex that is released  *)
(* again and again is got: strong fairness of the two that lock it.        *)
(* Nothing wakes a sleeping thread but a notification that is sent.        *)
Fairness ==
  /\ WF_<<vcvars, scvars>>(Ticks)
  /\ \A w \in Ids : /\ WF_<<vcvars, scvars>>(Construct(w) \/ WorkerStep(w))
                    /\ SF_<<vcvars, scvars>>(Notify(w))
  /\ \A t \in Threads : /\ WF_<<vcvars, scvars>>(WaitStep(t))
                        /\ SF_<<vcvars, scvars>>(Lock(t))
                        /\ WF_<<vcvars, scvars>>(Get(t) \/ Clock(t))

SysFairSpec == SysSpec /\ Fairness
-----------------------------------------------------------------------------
(* Properties.                                                             *)

(* No thread reads rows by a system clock that the system has not reached: *)
(* neither the shared nor a cached value runs ahead of the minimum, also   *)
(* while it is being ticked.                                               *)
NeverAhead ==
  Started => systemClock <= min /\ \A t \in Threads : cached[t] <= min

(* No wake-up is lost: if a thread sleeps although the system clock is     *)
(* high enough, a worker is about to notify it.                            *)
SleepersAreNotified ==
  \A t \in Threads :
    pc[t] = "asleep" /\ systemClock >= Needed(t) =>
      \E w \in Ids : step[w] = "notifying"

(* Every Get() that has to wait for the system clock ends, provided the    *)
(* threads call Get() at every clock.                                      *)
WaitsEnd == \A t \in Threads : pc[t] # "run" ~> pc[t] = "run"

(* "a locally shared clock to denote the minimum clock that the entire     *)
(* system has reached, which determines if a local thread may read a local *)
(* cached copy of the row": a thread that waits for a clock which that     *)
(* minimum has reached may read in the end.                                *)
ReadableOnceReached ==
  \A t \in Threads : pc[t] # "run" /\ min >= Needed(t) ~> pc[t] = "run"
=============================================================================
