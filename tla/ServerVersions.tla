--------------------------- MODULE ServerVersions ---------------------------
(***************************************************************************)
(* How a background worker under SSPPush decides, from 32-bit versions     *)
(* that wrap around, which of its batches it still has to retain, and      *)
(* which of them it replays on a row that a server sent.                   *)
(*                                                                         *)
(* ServerVersionMgr keeps the version each server has last reported, their *)
(* minimum and an upper bound, the version of the last batch; a version    *)
(* above the upper bound is taken to be one from before the wrap-around.   *)
(* SSPPush has the same worker with versions that do not wrap.             *)
(***************************************************************************)
EXTENDS Integers, Sequences, FiniteSets, SequencesExt

CONSTANTS
  Servers,
  Width,       (* bits of a version: 32 in the code                        *)
  MaxPending,  (* unacknowledged batches a server may have                 *)
  MaxBatches,  (* bound: batches sent                                      *)
  MaxReports   (* bound: messages on their way to the worker, per server   *)

Modulus == 2 ^ Width

(* "Assume that (#versions per iteration) * staleness < 2^32 -1": the      *)
(* versions under way are told apart.                                      *)
ASSUME ServerVersionsAssumption ==
  /\ IsFiniteSet(Servers) /\ Servers # {}
  /\ Width \in Nat \ {0} /\ MaxBatches \in Nat /\ MaxReports \in Nat
  /\ MaxPending \in 1 .. Modulus - 1

VARIABLES
  versionMap,   \* version_map_: the version each server reported last
  upperBound,   \* version_upper_bound_: the version of the last batch
  minVersion,   \* min_version_
  oplogs,       \* version_oplog_list_; its batches by their number
  acked,        \* the last batch whose acknowledgement came, per server
  applied,      \* the last batch each server has applied
  toWorker,     \* messages of each server: acknowledgements, rows
  failed,       \* the CHECK or LOG(FATAL) that failed, or "no"
  sent,         \* history: how many batches were sent
  known         \* history: the batch whose version each server reported last

vvars == <<versionMap, upperBound, minVersion, oplogs, acked, applied,
           toWorker, failed, sent, known>>

(* The version of the n-th batch; that of no batch is (uint32_t)-1.        *)
Version(n) == n % Modulus

(* version_: the version of the next batch.                                *)
version == Version(sent)

Running == failed = "no"

Init ==
  /\ versionMap = [s \in Servers |-> Version(-1)]
  /\ upperBound = Version(-1)
  /\ minVersion = Version(-1)
  /\ oplogs     = << >>
  /\ acked      = [s \in Servers |-> -1]
  /\ applied    = [s \in Servers |-> -1]
  /\ toWorker   = [s \in Servers |-> << >>]
  /\ failed     = "no"
  /\ sent       = 0
  /\ known      = [s \in Servers |-> -1]
-----------------------------------------------------------------------------
(* The window of no server is full.                                        *)
CheckSendAll == \A s \in Servers : sent - 1 - acked[s] < MaxPending

(* TrackBgOpLog: AddOpLog, ++version_ and IncVersionUpperBound.            *)
SendBatch ==
  /\ Running
  /\ sent < MaxBatches
  /\ CheckSendAll
  /\ oplogs'     = Append(oplogs, sent)
  /\ upperBound' = (upperBound + 1) % Modulus
  /\ sent'       = sent + 1
  /\ UNCHANGED <<versionMap, minVersion, acked, applied, toWorker, failed,
                 known>>

Report(s, ack) ==
  /\ Len(toWorker[s]) < MaxReports
  /\ toWorker' = [toWorker EXCEPT ![s] =
                    Append(@, [ack |-> ack, no |-> applied'[s]])]

(* A server applies the next batch, and acknowledges it.                   *)
ServerApply(s) ==
  /\ Running
  /\ applied[s] < sent - 1
  /\ applied' = [applied EXCEPT ![s] = @ + 1]
  /\ Report(s, TRUE)
  /\ UNCHANGED <<versionMap, upperBound, minVersion, oplogs, acked, failed,
                 sent, known>>

(* A server sends a row, asked for or pushed, with the version of the last *)
(* batch in it.                                                            *)
ServerSendRow(s) ==
  /\ Running
  /\ UNCHANGED applied
  /\ Report(s, FALSE)
  /\ UNCHANGED <<versionMap, upperBound, minVersion, oplogs, acked, failed,
                 sent, known>>
-----------------------------------------------------------------------------
IsUniqueMin(s) ==
  /\ versionMap[s] = minVersion
  /\ \A d \in Servers \ {s} : versionMap[d] # minVersion

(* Version a is older than b: versions above the upper bound come first.   *)
(* Mutant: the smaller one is.                                             *)
OlderPlain(a, b) == a < b
Older(a, b) ==
  \/ a > upperBound /\ b <= upperBound
  \/ (a > upperBound <=> b > upperBound) /\ a < b

(* The new minimum: by the numbers as long as the old one is below the     *)
(* upper bound, else by age.                                               *)
NewMin(map) ==
  IF minVersion < upperBound THEN Min(Range(map))
  ELSE CHOOSE v \in Range(map) :
         \A u \in Range(map) : u # v => Older(v, u)

(* Which batches ServerAcknowledgeVersion deletes from the front.          *)
(* Mutant: the minimum itself is not deleted.                              *)
DeletableBelow(n, min) ==
  LET v == Version(n)
  IN  IF min > upperBound THEN v > upperBound /\ v < min
      ELSE v > upperBound \/ v < min
Deletable(n, min) ==
  LET v == Version(n)
  IN  IF min > upperBound THEN v > upperBound /\ v <= min
      ELSE v > upperBound \/ v <= min

(* From the front, up to the first batch that must stay.                   *)
Deleted(list, min) ==
  LET stay == { i \in DOMAIN list : ~Deletable(list[i], min) }
  IN  IF stay = {} THEN << >> ELSE SubSeq(list, Min(stay), Len(list))

(* ServerAcknowledgeVersion with SetServerVersion: the new map, minimum    *)
(* and list.                                                               *)
Acknowledged(s, v) ==
  LET map   == [versionMap EXCEPT ![s] = v]
      moved == v # versionMap[s] /\ IsUniqueMin(s)
      min   == IF moved THEN NewMin(map) ELSE minVersion
  IN  [map |-> map, min |-> min,
       list |-> IF moved THEN Deleted(oplogs, min) ELSE oplogs,
       check |-> moved /\ minVersion < upperBound => v <= upperBound]

(* CheckAndApplyOldOpLogsToRowData, OpLogIterInit and OpLogIterNext: the   *)
(* versions from after v up to the last one, unless none seems to be newer *)
(* Mutant: the row's own version too.                                      *)
FirstReplayedSame(v) == v
FirstReplayed(v) == (v + 1) % Modulus
Replays(v) == FirstReplayed(v) < version
ReplayCheck(list, v) ==
  Replays(v) => \E i \in DOMAIN list :
    \A k \in FirstReplayed(v) .. version - 1 :
      LET j == i + k - FirstReplayed(v)
      IN  j \in DOMAIN list /\ Version(list[j]) = k
Replayed(list, v) ==
  IF Replays(v)
  THEN { n \in Range(list) : Version(n) \in FirstReplayed(v) .. version - 1 }
  ELSE {}

(* The worker takes a message: acknowledgement, row reply or pushed rows.  *)
Receive(s) ==
  LET m == Head(toWorker[s])
      a == Acknowledged(s, Version(m.no))
  IN  /\ Running
      /\ toWorker[s] # << >>
      /\ toWorker'   = [toWorker EXCEPT ![s] = Tail(@)]
      /\ versionMap' = a.map
      /\ minVersion' = a.min
      /\ oplogs'     = a.list
      /\ known'      = [known EXCEPT ![s] = m.no]
      /\ acked'      = IF m.ack THEN [acked EXCEPT ![s] = m.no] ELSE acked
      /\ failed' = CASE ~a.check -> "version_upper_bound"
                     [] a.check /\ ~m.ack /\ ~ReplayCheck(a.list, Version(m.no))
                          -> "OpLogIter"
                     [] OTHER -> "no"
      /\ UNCHANGED <<upperBound, applied, sent>>

Next == \/ SendBatch
        \/ \E s \in Servers : ServerApply(s) \/ ServerSendRow(s) \/ Receive(s)

Spec == Init /\ [][Next]_vvars
-----------------------------------------------------------------------------
(* Properties.                                                             *)

(* The kept minimum is the version of the batch that all servers are known *)
(* to have, although it is only updated when the slowest server reports,   *)
(* and although versions wrap.                                             *)
MinIsOldest == minVersion = Version(Min(Range(known)))

(* A row has come from s that the server read after batch RowNo(s).        *)
RowArrives(s) == Running /\ toWorker[s] # << >> /\ ~Head(toWorker[s]).ack
RowNo(s) == Head(toWorker[s]).no

(* The batches the row lacks, and those that are replayed on it.           *)
Lacking(s) == (RowNo(s) + 1) .. (sent - 1)
ReplayedOn(s) ==
  LET v == Version(RowNo(s)) IN Replayed(Acknowledged(s, v).list, v)

(* "OpLogs that are after (exclusively) version should be applied": a row  *)
(* that arrives gets all batches it lacks and no other (ApplyOldOpLogs-    *)
(* ToRowData).  Versions wrap, and then it does not: CheckAndApply-        *)
(* OldOpLogsToRowData compares version + 1 < version_ as plain numbers.    *)
ReplayExact ==
  \A s \in Servers : RowArrives(s) => ReplayedOn(s) = Lacking(s)

(* What the code achieves: a row never gets a batch that its server had    *)
(* applied, and gets all those it lacks unless a version has wrapped       *)
(* between the first of them and the worker's next batch.                  *)
SameLap(n) == (n + 1) \div Modulus = sent \div Modulus
ReplayExactInLap ==
  \A s \in Servers : RowArrives(s) =>
    /\ ReplayedOn(s) \subseteq Lacking(s)
    /\ SameLap(RowNo(s)) => ReplayedOn(s) = Lacking(s)

(* The list holds exactly the batches that some server is not known to     *)
(* have applied.                                                           *)
Retained == INSTANCE RetainedBatches WITH retained <- Range(oplogs)
RetainedSpec == Retained!Spec
=============================================================================
