---------------------------- MODULE RowRequests ----------------------------
(***************************************************************************)
(* The bookkeeping object of one background worker: which row requests are *)
(* waiting for a server, and which batches of updates that were already    *)
(* sent must be kept so that they can be replayed on a row the server      *)
(* answers later (class SSPRowRequestOpLogMgr).  The object is a value m   *)
(* with two fields:                                                        *)
(*                                                                         *)
(*   m.reqs   for each row the list pending_row_requests_, in increasing   *)
(*            order of clock;                                              *)
(*   m.kept   the set of retained batches version_oplog_map_, each with    *)
(*            its version and its updates.                                 *)
(*                                                                         *)
(* version_request_cnt_map_ holds, for each version, the number of listed  *)
(* requests with that version; it is recomputed from m.reqs here.          *)
(***************************************************************************)
EXTENDS Integers, Sequences, FiniteSets, SequencesExt

CONSTANT Rows   (* the rows of one table *)

NoRequests == [reqs |-> [r \in Rows |-> << >>], kept |-> {}]

(* The versions v with version_request_cnt_map_[v] > 0.                    *)
RequestVersions(m) ==
  UNION { { m.reqs[r][i].version : i \in DOMAIN m.reqs[r] } : r \in Rows }

(***************************************************************************)
(* AddRowRequest sets request.sent, looks from the end of the list for the *)
(* first request whose clock is not larger, and inserts behind it with     *)
(* sent cleared, or at the front when there is none.  The copy constructor *)
(* of RowRequestInfo does not copy sent, so the field of the listed copy   *)
(* is whatever the list node's memory holds: the parameter garbage.        *)
(***************************************************************************)
SortedPlace(list, clock) ==
  LET notLater == { i \in DOMAIN list : list[i].clock <= clock }
  IN  IF notLater = {} THEN 0 ELSE Max(notLater)

ShouldBeSent(m, row, clock) == SortedPlace(m.reqs[row], clock) = 0

AddRowRequest(m, row, thread, clock, version, garbage) ==
  LET list  == m.reqs[row]
      entry == [thread |-> thread, clock |-> clock, version |-> version,
                sent |-> garbage]
  IN  [m EXCEPT !.reqs[row] =
         InsertAt(list, SortedPlace(list, clock) + 1, entry)]

(* AddOpLog retains the batch only while some request is pending.          *)
(* Mutant: nothing is retained.                                            *)
AddOpLogNever(m, version, log) == m
AddOpLog(m, version, log) ==
  IF RequestVersions(m) = {}
  THEN m
  ELSE [m EXCEPT !.kept = @ \cup {[version |-> version, log |-> log]}]

HasOpLog(m, version) == \E k \in m.kept : k.version = version

GetOpLog(m, version) == (CHOOSE k \in m.kept : k.version = version).log

(***************************************************************************)
(* CleanVersionOpLogs, called when the last request of version v is gone:  *)
(* the versions it deletes.  A retained batch v shows that an older        *)
(* request still waits.  Otherwise the batches after v go, up to and       *)
(* including the next version that a request has (the do-while loop stops  *)
(* there, or at the current version).                                      *)
(***************************************************************************)
(* Mutant: nothing is deleted.                                             *)
CleanVersionOpLogsNothing(m, v, current) == {}
CleanVersionOpLogs(m, v, current) ==
  IF v + 1 = current \/ HasOpLog(m, v)
  THEN {}
  ELSE (v + 1) .. Min({ w \in RequestVersions(m) : w > v } \cup {current})

(* What is deleted when a request of version v has just left m.            *)
Released(m, v, current) ==
  IF v \in RequestVersions(m) THEN {} ELSE CleanVersionOpLogs(m, v, current)

Without(m, versions) ==
  [m EXCEPT !.kept = { k \in @ : k.version \notin versions }]

(***************************************************************************)
(* The loop of InformReply: it removes the requests in front, up to the    *)
(* reply's clock, one by one.                                              *)
(***************************************************************************)
(* Mutant: every request counts as answered.                               *)
NumServedAll(list, clock) == Len(list)
NumServed(list, clock) ==
  Cardinality({ i \in DOMAIN list : \A j \in 1 .. i : list[j].clock <= clock })

ServedThreads(m, row, clock) ==
  { m.reqs[row][i].thread : i \in 1 .. NumServed(m.reqs[row], clock) }

Popped(m, row, n) ==
  [m EXCEPT !.reqs[row] = SubSeq(@, n + 1, Len(@))]

(* The versions deleted by n removals.                                     *)
ReleasedByPops(m, row, n, current) ==
  FoldLeft(LAMBDA gone, i :
             gone \cup Released(Without(Popped(m, row, i), gone),
                               m.reqs[row][i].version, current),
           {}, [i \in 1 .. n |-> i])

PopServed(m, row, clock, current) ==
  LET n == NumServed(m.reqs[row], clock)
  IN  Without(Popped(m, row, n), ReleasedByPops(m, row, n, current))

(* After the pops, a front request that does not look sent is requested    *)
(* from the server anew: its clock is clock_to_request, else -1.           *)
ClockToRequest(m, row) ==
  IF m.reqs[row] # << >> /\ ~Head(m.reqs[row]).sent
  THEN Head(m.reqs[row]).clock ELSE -1

(* That request now counts for the version sent last.                      *)
Renewed(m, row, current) ==
  LET front == [Head(m.reqs[row]) EXCEPT !.sent = TRUE, !.version = current - 1]
  IN  [m EXCEPT !.reqs[row] = << front >> \o Tail(@)]

InformReply(m, row, clock, current) ==
  LET popped  == PopServed(m, row, clock, current)
      renewed == Renewed(popped, row, current)
  IN  IF ClockToRequest(popped, row) < 0
      THEN popped
      ELSE Without(renewed, Released(renewed, Head(popped.reqs[row]).version,
                                     current))
=============================================================================
