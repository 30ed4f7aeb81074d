------------------------------ MODULE SSPStore ------------------------------
(***************************************************************************)
(* What the parameter server promises an application under SSP: a shared   *)
(* table whose rows are sums of updates, read with bounded staleness.  A   *)
(* Get() by a thread at clock k returns, of the updates made so far,       *)
(*                                                                         *)
(*   - all that any thread made before clock k - Staleness;                *)
(*   - all that the threads of its own process made;                       *)
(*   - all that its earlier Gets of the row returned;                      *)
(*                                                                         *)
(* and any of the others.  There are no servers, messages or caches here.  *)
(***************************************************************************)
EXTENDS Integers, FiniteSets

CONSTANTS Threads, Rows, ClientOf, Staleness

VARIABLES
  made,   \* the updates made to a row: tuples <<thread, clock, n>>
  clock,  \* the clock of a thread
  got     \* the thread's last Get() of a row: what it had to see, and what it saw

svars == <<made, clock, got>>

NothingRead == [due |-> {}, seen |-> {}]

Init ==
  /\ made  = [r \in Rows |-> {}]
  /\ clock = [t \in Threads |-> 0]
  /\ got   = [t \in Threads |-> [r \in Rows |-> NothingRead]]

Inc(t, r) ==
  \E n \in 1 .. Cardinality(made[r]) + 1 :
    /\ <<t, clock[t], n>> \notin made[r]
    /\ made' = [made EXCEPT ![r] = @ \cup {<<t, clock[t], n>>}]
    /\ UNCHANGED <<clock, got>>

(* The updates a Get() must not miss.                                      *)
Due(t, r) ==
  { u \in made[r] : \/ u[2] < clock[t] - Staleness
                    \/ ClientOf[u[1]] = ClientOf[t] }

(* A Get() that returns what the last one did is no step, but only if it   *)
(* had to see no more either: got records both.                            *)
Get(t, r) ==
  \E seen \in SUBSET made[r] :
    /\ Due(t, r) \cup got[t][r].seen \subseteq seen
    /\ got' = [got EXCEPT ![t][r] = [due |-> Due(t, r), seen |-> seen]]
    /\ UNCHANGED <<made, clock>>

Clock(t) ==
  /\ clock' = [clock EXCEPT ![t] = @ + 1]
  /\ UNCHANGED <<made, got>>

Next == \E t \in Threads : \/ Clock(t)
                           \/ \E r \in Rows : Inc(t, r) \/ Get(t, r)

Spec == Init /\ [][Next]_svars
=============================================================================
