---------------------------- MODULE ScanControl ----------------------------
(***************************************************************************)
(* The dashboard's scan control center (internal/api/handlers/             *)
(* scan_control.go): one in-memory record of the current run, a bounded    *)
(* history of ended runs, and one goroutine (runScanAsync) per accepted    *)
(* start request.  Every access to the record takes scanControlCenter.mu,  *)
(* so an action below is one critical section, or several of one goroutine *)
(* between which no other writer can be enabled.                           *)
(*                                                                         *)
(* The pipeline is modelled here as far as it drives the control center:   *)
(* its progress callbacks, where it fails, and whether the scan directory  *)
(* is on disk.  Run ids (time in nanoseconds) are numbered in the order of *)
(* the starts; a run's scan id is the run's own number.                    *)
(***************************************************************************)
EXTENDS Naturals, Sequences, FiniteSets

CONSTANTS
  Requests,      \* start requests operators make: a set of Request
  MaxRuns,       \* bound: start requests accepted, over all restarts
  MaxRestarts,   \* bound: crashes of the dashboard process
  MaxWarnings,   \* bound: diagnostics and progress of the collectors, per run
  HistoryLimit,  \* runHistoryLimit, 10 in the code
  LogLimit       \* scanLogLimit, 500 in the code

ASSUME BoundsAssumption ==
  /\ MaxRuns \in Nat /\ MaxRestarts \in Nat /\ MaxWarnings \in Nat
ASSUME LimitsAssumption ==
  /\ HistoryLimit \in Nat \ {0}
  /\ LogLimit \in Nat \ {0}

VARIABLES
  current,    \* scanControlCenter.current
  history,    \* scanControlCenter.history, newest first
  pc,         \* pc[r]: where the goroutine of run r is
  request,    \* request[r]: the ScanStartRequest the goroutine captured
  coverageWarning, \* coverageWarning[r]: local of runScanAsync, "" = FALSE
  warnings,   \* warnings[r]: what the collectors of run r have reported so far
  partial,    \* partial[r]: the collection of run r missed some account
  onDisk,     \* runs whose scan directory was written completely
  exported,   \* runs whose scan was exported to Neo4j by their goroutine
  alerted,    \* runs whose scan the alert rules were evaluated for
  started,    \* number of runs accepted so far; the last run id given out
  booted,     \* value of started when the process last started
  restarts    \* number of crashes so far

control == <<current, history>>
disk    == <<onDisk, exported, alerted>>
locals  == <<request, coverageWarning, warnings, partial>>
process == <<started, booted, restarts>>
vars    == <<current, history, pc, request, coverageWarning, warnings, partial,
             onDisk, exported, alerted, started, booted, restarts>>

Runs    == 1..MaxRuns
NoRun   == 0
Modules == {"orphaned_edge", "external_access"}
Request == [neo4j : BOOLEAN, modules : {Modules} \cup {{m} : m \in Modules}]

\* The goroutine's program counter; the first and the last line are the
\* positions at which no goroutine exists.
LivePc  == {"spawned", "validating_profile", "run", "collecting", "coverage",
            "edge", "trust", "announce", "persist", "persisted",
            "scan_complete", "export", "exporting", "alerts", "finish"}
EndedPc == {"completed", "failed", "killed"}
Pc      == {"none"} \cup LivePc \cup EndedPc

Status  == {"idle", "running", "completed", "failed"}
Stage   == {"idle", "starting", "validating_profile", "scanning", "collecting",
            "coverage", "validating", "scoring", "persisting", "done",
            "scan_complete", "neo4j_export", "completed", "failed"}
Message == {"none", "progress", "error", "scan completed",
            "scan completed - partial coverage"}
LogLine == Stage \cup {"warning", "DONE", "FAILED"}
HistoryItem == [runID : Runs, status : {"completed", "failed"}]

Record  == [runID : Runs \cup {NoRun}, status : Status, stage : Stage,
            message : Message, scanID : Runs \cup {NoRun}, log : Seq(LogLine)]

ASSUME RequestsAssumption == Requests \subseteq Request

Live(r) == pc[r] \in LivePc

TypeOK ==
  /\ current \in Record
  /\ history \in Seq(HistoryItem)
  /\ pc \in [Runs -> Pc]
  /\ request \in [Runs -> Request]
  /\ coverageWarning \in [Runs -> BOOLEAN]
  /\ warnings \in [Runs -> 0..MaxWarnings]
  /\ partial \in [Runs -> BOOLEAN]
  /\ onDisk \subseteq Runs /\ exported \subseteq Runs /\ alerted \subseteq Runs
  /\ started \in 0..MaxRuns /\ booted \in 0..started
  /\ restarts \in 0..MaxRestarts

-----------------------------------------------------------------------------
(* The critical sections: each returns the record after the call.          *)

\* The newest n elements, for a list that keeps its newest element last.
KeepLast(s, n)  == IF Len(s) > n THEN SubSeq(s, Len(s) - n + 1, Len(s)) ELSE s

\* The newest n elements, for a list that keeps its newest element first.
KeepFirst(s, n) == IF Len(s) > n THEN SubSeq(s, 1, n) ELSE s

idleRecord == [runID |-> NoRun, status |-> "idle", stage |-> "idle",
               message |-> "none", scanID |-> NoRun, log |-> << >>]

startRecord(r) == [runID |-> r, status |-> "running", stage |-> "starting",
                   message |-> "progress", scanID |-> NoRun, log |-> << >>]

\* Mutant: the cap is one too large.
appendLogOffByOne(c, r, line) ==
  IF c.runID # r THEN c
  ELSE [c EXCEPT !.log = KeepLast(Append(@, line), LogLimit + 1)]

appendLog(c, r, line) ==
  IF c.runID # r THEN c
  ELSE [c EXCEPT !.log = KeepLast(Append(@, line), LogLimit)]

updateRun(c, r, stage) ==
  IF c.runID # r THEN c
  ELSE [c EXCEPT !.status = "running", !.stage = stage, !.message = "progress"]

\* Mutant: the run is shown as completed while its goroutine goes on.
updateRunWithScanIDEarly(c, r, stage, scanID) ==
  [updateRun(c, r, stage) EXCEPT !.scanID = scanID, !.status = "completed"]

updateRunWithScanID(c, r, stage, scanID) ==
  IF c.runID # r THEN c
  ELSE [updateRun(c, r, stage) EXCEPT !.scanID = scanID]

\* Mutant: the status is left at "running".
failRecordKeepsStatus(c) ==
  [c EXCEPT !.stage = "failed", !.message = "error", !.log = Append(@, "FAILED")]

\* The FAILED and DONE lines are appended without the cap of appendLog.
failRecord(c) ==
  [c EXCEPT !.status = "failed", !.stage = "failed", !.message = "error",
            !.log = Append(@, "FAILED")]

finishRecord(c, scanID, message) ==
  [c EXCEPT !.status = "completed", !.stage = "completed",
            !.message = message, !.scanID = scanID, !.log = Append(@, "DONE")]

\* Mutants: the ring drops its newest items; the ring is not cut.
appendHistoryKeepsOldest(h, item) == KeepLast(<<item>> \o h, HistoryLimit)
appendHistoryUncut(h, item) == <<item>> \o h

appendHistory(h, item) == KeepFirst(<<item>> \o h, HistoryLimit)

-----------------------------------------------------------------------------
(* Goroutine steps.                                                        *)

Goto(r, from, to) == pc[r] = from /\ pc' = [pc EXCEPT ![r] = to]

\* Mutant: every later stage overwrites the captured coverage warning.
ProgressOverwrites(r, stage) ==
  /\ current' = updateRun(appendLog(current, r, stage), r, stage)
  /\ coverageWarning' = [coverageWarning EXCEPT ![r] = stage = "coverage"]
  /\ UNCHANGED history

\* The Progress callback of runScanAsync for every stage but "warning".
Progress(r, stage) ==
  /\ current' = updateRun(appendLog(current, r, stage), r, stage)
  /\ coverageWarning' = [coverageWarning EXCEPT ![r] = @ \/ stage = "coverage"]
  /\ UNCHANGED history

failRun(r, from) ==
  /\ Goto(r, from, "failed")
  /\ IF current.runID # r
     THEN UNCHANGED control
     ELSE /\ current' = failRecord(current)
          /\ history' = appendHistory(history, [runID |-> r, status |-> "failed"])
  /\ UNCHANGED <<locals, disk, process>>

BeginValidation(r) ==
  /\ Goto(r, "spawned", "validating_profile")
  /\ current' = updateRun(current, r, "validating_profile")
  /\ UNCHANGED <<history, locals, disk, process>>

\* validateCredentialSource: STS answers, or the run fails.
ProfileValid(r) ==
  /\ Goto(r, "validating_profile", "run")
  /\ current' = updateRun(current, r, "scanning")
  /\ UNCHANGED <<history, locals, disk, process>>

\* Mutant: the goroutine returns without recording the failure.
ProfileInvalidSilently(r) ==
  /\ Goto(r, "validating_profile", "failed")
  /\ UNCHANGED <<control, locals, disk, process>>

ProfileInvalid(r) == failRun(r, "validating_profile")

StartCollecting(r) ==
  /\ Goto(r, "run", "collecting")
  /\ Progress(r, "collecting")
  /\ UNCHANGED <<request, warnings, partial, disk, process>>

\* Mutant: a warning is treated as a stage.
CollectorWarningIsStage(r) ==
  /\ pc[r] = "collecting" /\ warnings[r] < MaxWarnings
  /\ warnings' = [warnings EXCEPT ![r] = @ + 1]
  /\ Progress(r, "warning")
  /\ UNCHANGED <<pc, request, partial, disk, process>>

\* warnPartial of a collector: a log line that leaves stage and message alone.
CollectorWarning(r) ==
  /\ pc[r] = "collecting" /\ warnings[r] < MaxWarnings
  /\ warnings' = [warnings EXCEPT ![r] = @ + 1]
  /\ current' = appendLog(current, r, "warning")
  /\ UNCHANGED <<history, pc, request, coverageWarning, partial, disk, process>>

\* Collect reports the collector it comes to, under the same stage.
CollectorProgress(r) ==
  /\ pc[r] = "collecting" /\ warnings[r] < MaxWarnings
  /\ warnings' = [warnings EXCEPT ![r] = @ + 1]
  /\ Progress(r, "collecting")
  /\ UNCHANGED <<pc, request, partial, disk, process>>

CollectFails(r) == failRun(r, "collecting")

\* Collect returns; whether Coverage.Complete() holds is the environment's.
CollectReturns(r) ==
  /\ \E incomplete \in BOOLEAN :
        /\ partial' = [partial EXCEPT ![r] = incomplete]
        /\ Goto(r, "collecting", IF incomplete THEN "coverage" ELSE "edge")
  /\ warnings' = [warnings EXCEPT ![r] = 0]
  /\ UNCHANGED <<control, request, coverageWarning, disk, process>>

ReportCoverage(r) ==
  /\ Goto(r, "coverage", "edge")
  /\ Progress(r, "coverage")
  /\ UNCHANGED <<request, warnings, partial, disk, process>>

\* A module's part of pipeline.Run, skipped when the module is not selected.
RunModule(r, module, stage, from, to) ==
  /\ Goto(r, from, to)
  /\ IF module \in request[r].modules
     THEN Progress(r, stage)
     ELSE UNCHANGED <<control, coverageWarning>>
  /\ UNCHANGED <<request, warnings, partial, disk, process>>

ValidateEdge(r) == RunModule(r, "orphaned_edge", "validating", "edge", "trust")
ScoreTrust(r)   == RunModule(r, "external_access", "scoring", "trust", "announce")

\* Mutant: the scan id is published before the scan is written.
AnnouncePersistWithID(r) ==
  /\ Goto(r, "announce", "persist")
  /\ current' = updateRunWithScanID(current, r, "persisting", r)
  /\ UNCHANGED <<history, locals, disk, process>>

AnnouncePersist(r) ==
  /\ Goto(r, "announce", "persist")
  /\ Progress(r, "persisting")
  /\ UNCHANGED <<request, warnings, partial, disk, process>>

PersistFails(r) == failRun(r, "persist")

PersistReturns(r) ==
  /\ Goto(r, "persist", "persisted")
  /\ onDisk' = onDisk \cup {r}
  /\ UNCHANGED <<control, locals, exported, alerted, process>>

AnnounceDone(r) ==
  /\ Goto(r, "persisted", "scan_complete")
  /\ Progress(r, "done")
  /\ UNCHANGED <<request, warnings, partial, disk, process>>

ScanComplete(r) ==
  /\ Goto(r, "scan_complete", IF request[r].neo4j THEN "export" ELSE "alerts")
  /\ current' = updateRunWithScanID(current, r, "scan_complete", r)
  /\ UNCHANGED <<history, locals, disk, process>>

BeginExport(r) ==
  /\ Goto(r, "export", "exporting")
  /\ current' = updateRun(current, r, "neo4j_export")
  /\ UNCHANGED <<history, locals, disk, process>>

\* Mutant: the goroutine returns without recording the failure.
ExportFailsSilently(r) ==
  /\ Goto(r, "exporting", "failed")
  /\ UNCHANGED <<control, locals, disk, process>>

ExportFails(r) == failRun(r, "exporting")

ExportReturns(r) ==
  /\ Goto(r, "exporting", "alerts")
  /\ exported' = exported \cup {r}
  /\ UNCHANGED <<control, locals, onDisk, alerted, process>>

\* EvaluateEnabledRulesForScan; its error is dropped.
EvaluateAlerts(r) ==
  /\ Goto(r, "alerts", "finish")
  /\ alerted' = alerted \cup {r}
  /\ UNCHANGED <<control, locals, onDisk, exported, process>>

finishRun(r) ==
  /\ Goto(r, "finish", "completed")
  /\ LET message == IF coverageWarning[r]
                    THEN "scan completed - partial coverage"
                    ELSE "scan completed"
     IN  IF current.runID # r
         THEN UNCHANGED control
         ELSE /\ current' = finishRecord(current, r, message)
              /\ history' = appendHistory(history,
                                [runID |-> r, status |-> "completed"])
  /\ UNCHANGED <<locals, disk, process>>

Step(r) ==
  \/ BeginValidation(r) \/ ProfileValid(r) \/ ProfileInvalid(r)
  \/ StartCollecting(r) \/ CollectorWarning(r) \/ CollectorProgress(r)
  \/ CollectFails(r)    \/ CollectReturns(r)   \/ ReportCoverage(r)
  \/ ValidateEdge(r)    \/ ScoreTrust(r)
  \/ AnnouncePersist(r) \/ PersistFails(r) \/ PersistReturns(r)
  \/ AnnounceDone(r)    \/ ScanComplete(r)
  \/ BeginExport(r)     \/ ExportFails(r) \/ ExportReturns(r)
  \/ EvaluateAlerts(r)  \/ finishRun(r)

-----------------------------------------------------------------------------
(* The StartScan handler and the process itself.                           *)

\* Mutant: the 409 check is dropped.
StartScanUnchecked(req) ==
  /\ started < MaxRuns
  /\ started' = started + 1
  /\ current' = startRecord(started + 1)
  /\ pc' = [pc EXCEPT ![started + 1] = "spawned"]
  /\ request' = [request EXCEPT ![started + 1] = req]
  /\ UNCHANGED <<history, coverageWarning, warnings, partial, disk, booted, restarts>>

\* An accepted start: the check, the new record and the new run id are one
\* critical section.  While a run is active the handler answers 409 and
\* changes nothing.
StartScan(req) ==
  /\ started < MaxRuns
  /\ current.status # "running"
  /\ started' = started + 1
  /\ current' = startRecord(started + 1)
  /\ pc' = [pc EXCEPT ![started + 1] = "spawned"]
  /\ request' = [request EXCEPT ![started + 1] = req]
  /\ UNCHANGED <<history, coverageWarning, warnings, partial, disk, booted, restarts>>

\* The process dies and is started again: NewScanControlCenter builds an idle
\* record and an empty history; what the goroutines had written stays.
Restart ==
  /\ restarts < MaxRestarts
  /\ restarts' = restarts + 1
  /\ booted' = started
  /\ current' = idleRecord
  /\ history' = << >>
  /\ pc' = [r \in Runs |-> IF Live(r) THEN "killed" ELSE pc[r]]
  /\ UNCHANGED <<locals, disk, started>>

Init ==
  /\ current = idleRecord
  /\ history = << >>
  /\ pc = [r \in Runs |-> "none"]
  /\ request = [r \in Runs |-> [neo4j |-> FALSE, modules |-> Modules]]
  /\ coverageWarning = [r \in Runs |-> FALSE]
  /\ warnings = [r \in Runs |-> 0]
  /\ partial = [r \in Runs |-> FALSE]
  /\ onDisk = {} /\ exported = {} /\ alerted = {}
  /\ started = 0 /\ booted = 0 /\ restarts = 0

Next ==
  \/ \E req \in Requests : StartScan(req)
  \/ \E r \in Runs : Step(r)
  \/ Restart

\* A started goroutine keeps running: every call it waits for returns.
Fairness == \A r \in Runs : WF_vars(Step(r))

Spec     == Init /\ [][Next]_vars
FairSpec == Spec /\ Fairness

-----------------------------------------------------------------------------
(* Properties.                                                             *)

\* Runs ended since the process started, newest run first.
lastEnded == IF \E r \in Runs : Live(r) THEN started - 1 ELSE started

(* At most one scan goroutine exists, and the record belongs to it: the    *)
(* 409 check on status is enough because a run's status leaves "running"   *)
(* only in the goroutine's last critical section (StartScan, failRun,      *)
(* finishRun).                                                             *)
SingleFlight ==
  \A r \in Runs : Live(r) => current.runID = r /\ current.status = "running"

(* The control center never wedges: status "running", which refuses every  *)
(* new start, always has a goroutine behind it that can still end the run. *)
RunningHasWorker ==
  current.status = "running" =>
    current.runID \in Runs /\ Live(current.runID)

(* The history is exactly the runs that ended since the process started,   *)
(* newest first, each with its own outcome, cut to the limit: no outcome   *)
(* is lost to the runID guards of failRun and finishRun.                   *)
HistoryComplete ==
  /\ Len(history) = IF lastEnded - booted > HistoryLimit
                    THEN HistoryLimit ELSE lastEnded - booted
  /\ \A i \in 1..Len(history) :
        /\ history[i].runID = lastEnded - i + 1
        /\ pc[history[i].runID] = history[i].status

(* "completed" is honest: the scan is on disk, the alert rules saw it, the *)
(* requested export was done, and the message mentions partial coverage    *)
(* exactly when the collection was partial.                                *)
CompletionHonest ==
  current.status = "completed" =>
    LET r == current.runID IN
      /\ current.scanID = r
      /\ r \in onDisk /\ r \in alerted
      /\ request[r].neo4j => r \in exported
      /\ (current.message = "scan completed - partial coverage") = partial[r]

(* The status payload's log is bounded by the limit plus the final line,   *)
(* and the outcome of an ended run is the last line of its log.            *)
LogBounded ==
  /\ Len(current.log) <= LogLimit + (IF current.status = "running" THEN 0 ELSE 1)
  /\ current.status = "completed" => current.log[Len(current.log)] = "DONE"
  /\ current.status = "failed"    => current.log[Len(current.log)] = "FAILED"

(* A scan id shown to the operator names a complete scan directory, in     *)
(* every state of the run, failed ones included.                           *)
ShownScanIsOnDisk == current.scanID # NoRun => current.scanID \in onDisk

(* What the catalog of alert types says of the scan completion rule        *)
(* (alerting/service.go:147): once a run has ended, a scan it completed    *)
(* was put to the alert rules.                                             *)
CompletedScanIsAlerted ==
  \A r \in Runs : pc[r] \in {"completed", "failed"} /\ r \in onDisk => r \in alerted

(* Every accepted run ends: the record leaves "running" again, so the      *)
(* control center accepts another start.                                   *)
RunsEnd == current.status = "running" ~> current.status # "running"

(* Run ids only grow, and a started run is never reopened: once its        *)
(* goroutine has ended, nothing changes the record of that run but the     *)
(* next start or a restart.                                                *)
EndedRecordIsFinal ==
  [][current.status \in {"completed", "failed"} =>
       \/ current' = idleRecord
       \/ current' = startRecord(current.runID + 1)]_current

-----------------------------------------------------------------------------
(* Refinement: the goroutine that exists is the register's active run.     *)

activeRun == IF \E r \in Runs : Live(r) THEN CHOOSE r \in Runs : Live(r) ELSE NoRun

Register == INSTANCE ScanRegister WITH
  active <- activeRun, accepted <- started, shown <- current.status,
  outcomes <- history, Limit <- HistoryLimit

(* The control center implements the register: a start is accepted only    *)
(* when no goroutine is at work, and each ending writes its one outcome    *)
(* (docs/cloudrift-docs.md:1348, "Single active run").                     *)
ImplementsRegister == Register!RSpec

(* ... and the register's promise that an active run ends.                 *)
ImplementsFairRegister == Register!RFairSpec
=============================================================================
