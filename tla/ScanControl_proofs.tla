------------------------- MODULE ScanControl_proofs -------------------------
(***************************************************************************)
(* Proofs about the scan control center, for any number of runs, restarts  *)
(* and warnings and any history and log limit: that one run works at a     *)
(* time and no outcome is lost, what the record, the scan id and the log   *)
(* tell of a run, and that all of it implements the register.              *)
(***************************************************************************)
EXTENDS ScanControl, SequenceTheorems, TLAPS

USE BoundsAssumption, LimitsAssumption, RequestsAssumption

-----------------------------------------------------------------------------
(* What the critical sections return.                                      *)

\* KeepLast returns a suffix no longer than the limit.
LEMMA KeepLastType ==
  ASSUME NEW S, NEW s \in Seq(S), NEW n \in Nat \ {0}
  PROVE  /\ KeepLast(s, n) \in Seq(S)
         /\ Len(KeepLast(s, n)) = IF Len(s) > n THEN n ELSE Len(s)
<1>1. CASE Len(s) > n
  <2>1. /\ Len(s) \in Nat
        /\ \A i \in (Len(s) - n + 1)..Len(s) : s[i] \in S
    BY <1>1
  <2>2. QED BY <1>1, <2>1, SubSeqProperties DEF KeepLast
<1>2. CASE ~ (Len(s) > n)
  BY <1>2 DEF KeepLast
<1>3. QED BY <1>1, <1>2

\* KeepFirst returns a prefix no longer than the limit.
LEMMA KeepFirstType ==
  ASSUME NEW S, NEW s \in Seq(S), NEW n \in Nat \ {0}
  PROVE  /\ KeepFirst(s, n) \in Seq(S)
         /\ Len(KeepFirst(s, n)) = IF Len(s) > n THEN n ELSE Len(s)
         /\ \A i \in 1..Len(KeepFirst(s, n)) : KeepFirst(s, n)[i] = s[i]
<1>1. CASE Len(s) > n
  <2>1. /\ Len(s) \in Nat
        /\ \A i \in 1..n : s[i] \in S
    BY <1>1
  <2>2. QED BY <1>1, <2>1, SubSeqProperties DEF KeepFirst
<1>2. CASE ~ (Len(s) > n)
  BY <1>2 DEF KeepFirst
<1>3. QED BY <1>1, <1>2

\* appendLog touches nothing but the log.
LEMMA AppendLogType ==
  ASSUME NEW c \in Record, NEW r \in Runs, NEW line \in LogLine
  PROVE  /\ appendLog(c, r, line) \in Record
         /\ appendLog(c, r, line).runID = c.runID
         /\ appendLog(c, r, line).status = c.status
         /\ appendLog(c, r, line).scanID = c.scanID
<1>1. c.log \in Seq(LogLine)
  BY DEF Record
<1>2. Append(c.log, line) \in Seq(LogLine)
  BY <1>1, AppendProperties
<1>3. KeepLast(Append(c.log, line), LogLimit) \in Seq(LogLine)
  BY <1>2, KeepLastType
<1>4. QED
  BY <1>3 DEF appendLog, Record

\* updateRun keeps the run id and never takes a record out of "running".
LEMMA UpdateRunType ==
  ASSUME NEW c \in Record, NEW r \in Runs, NEW stage \in Stage
  PROVE  /\ updateRun(c, r, stage) \in Record
         /\ updateRun(c, r, stage).runID = c.runID
         /\ updateRun(c, r, stage).status
              = IF c.runID = r THEN "running" ELSE c.status
BY DEF updateRun, Record, Status, Message

\* Naming the scan keeps a record one, and changes the status of no other run.
LEMMA UpdateRunWithScanIDType ==
  ASSUME NEW c \in Record, NEW r \in Runs, NEW stage \in Stage, NEW id \in Runs
  PROVE  /\ updateRunWithScanID(c, r, stage, id) \in Record
         /\ updateRunWithScanID(c, r, stage, id).runID = c.runID
         /\ updateRunWithScanID(c, r, stage, id).status
              = IF c.runID = r THEN "running" ELSE c.status
<1> DEFINE u == updateRun(c, r, stage)
<1>1. /\ u \in Record /\ u.runID = c.runID
      /\ u.status = IF c.runID = r THEN "running" ELSE c.status
  BY UpdateRunType
<1>2. updateRunWithScanID(c, r, stage, id)
        = IF c.runID = r THEN [u EXCEPT !.scanID = id] ELSE c
  BY DEF updateRunWithScanID
<1> HIDE DEF u
<1>3. [u EXCEPT !.scanID = id] \in Record
  BY <1>1 DEF Record
<1>4. /\ [u EXCEPT !.scanID = id].runID = u.runID
      /\ [u EXCEPT !.scanID = id].status = u.status
  BY <1>1 DEF Record
<1>5. QED
  BY <1>1, <1>2, <1>3, <1>4

\* The two ways a record ends.
LEMMA EndRecordType ==
  ASSUME NEW c \in Record, NEW id \in Runs,
         NEW message \in {"scan completed", "scan completed - partial coverage"}
  PROVE  /\ failRecord(c) \in Record
         /\ failRecord(c).runID = c.runID /\ failRecord(c).status = "failed"
         /\ finishRecord(c, id, message) \in Record
         /\ finishRecord(c, id, message).runID = c.runID
         /\ finishRecord(c, id, message).status = "completed"
<1>1. /\ Append(c.log, "FAILED") \in Seq(LogLine)
      /\ Append(c.log, "DONE") \in Seq(LogLine)
  BY AppendProperties DEF Record, LogLine
<1>2. QED
  BY <1>1 DEF failRecord, finishRecord, Record, Status, Stage, Message

\* A new item is in front; the items kept behind it keep their order.
LEMMA AppendHistoryType ==
  ASSUME NEW h \in Seq(HistoryItem), NEW item \in HistoryItem
  PROVE  /\ appendHistory(h, item) \in Seq(HistoryItem)
         /\ Len(appendHistory(h, item)) = IF Len(h) + 1 > HistoryLimit
                                          THEN HistoryLimit ELSE Len(h) + 1
         /\ \A i \in 1..Len(appendHistory(h, item)) :
               appendHistory(h, item)[i] = IF i = 1 THEN item ELSE h[i - 1]
<1> DEFINE all == <<item>> \o h
<1>1. /\ all \in Seq(HistoryItem)
      /\ Len(all) = Len(h) + 1
      /\ \A i \in 1..Len(all) : all[i] = IF i = 1 THEN item ELSE h[i - 1]
  <2>1. <<item>> \in Seq(HistoryItem) /\ Len(<<item>>) = 1 /\ <<item>>[1] = item
    OBVIOUS
  <2>2. QED BY <2>1, ConcatProperties
<1> HIDE DEF all
<1>2. /\ KeepFirst(all, HistoryLimit) \in Seq(HistoryItem)
      /\ Len(KeepFirst(all, HistoryLimit)) = IF Len(all) > HistoryLimit
                                             THEN HistoryLimit ELSE Len(all)
      /\ \A i \in 1..Len(KeepFirst(all, HistoryLimit)) :
            KeepFirst(all, HistoryLimit)[i] = all[i]
  BY <1>1, KeepFirstType
<1>3. appendHistory(h, item) = KeepFirst(all, HistoryLimit)
  BY DEF appendHistory, all
<1>4. \A i \in 1..Len(KeepFirst(all, HistoryLimit)) : i \in 1..Len(all)
  BY <1>1, <1>2
<1>5. QED
  BY <1>1, <1>2, <1>3, <1>4

-----------------------------------------------------------------------------
(* Type correctness.                                                       *)

\* The Progress callback, for every stage the goroutine reports.
LEMMA ProgressType ==
  ASSUME TypeOK, NEW r \in Runs, NEW stage \in Stage, Progress(r, stage)
  PROVE  /\ current' \in Record
         /\ current'.runID = current.runID
         /\ current'.status = IF current.runID = r THEN "running" ELSE current.status
         /\ history' = history
         /\ coverageWarning' \in [Runs -> BOOLEAN]
<1>1. current \in Record /\ coverageWarning \in [Runs -> BOOLEAN]
  BY DEF TypeOK
<1> DEFINE logged == appendLog(current, r, stage)
<1>2. logged \in Record /\ logged.runID = current.runID /\ logged.status = current.status
  BY <1>1, AppendLogType DEF LogLine
<1>3. current' = updateRun(logged, r, stage)
  BY DEF Progress
<1> HIDE DEF logged
<1>4. /\ current' \in Record
      /\ current'.runID = current.runID
      /\ current'.status = IF current.runID = r THEN "running" ELSE current.status
  BY <1>2, <1>3, UpdateRunType
<1>5. history' = history /\ coverageWarning' \in [Runs -> BOOLEAN]
  BY <1>1 DEF Progress
<1>6. QED
  BY <1>4, <1>5

\* failRun, from any position of the goroutine.
LEMMA FailRunType ==
  ASSUME TypeOK, NEW r \in Runs, NEW from, failRun(r, from)
  PROVE  TypeOK'
<1>1. current \in Record /\ history \in Seq(HistoryItem)
  BY DEF TypeOK
<1>2. [runID |-> r, status |-> "failed"] \in HistoryItem
  BY DEF HistoryItem
<1>3. current' \in Record
  BY <1>1, EndRecordType DEF failRun, control
<1>4. history' \in Seq(HistoryItem)
  BY <1>1, <1>2, AppendHistoryType DEF failRun, control
<1>5. pc' \in [Runs -> Pc]
  BY DEF failRun, Goto, TypeOK, Pc, EndedPc
<1>6. QED
  BY <1>3, <1>4, <1>5 DEF TypeOK, failRun, locals, disk, process

\* Every step of a goroutine preserves the types.
LEMMA StepType ==
  ASSUME TypeOK, NEW r \in Runs, Step(r)
  PROVE  TypeOK'
<1> USE DEF Goto, Pc, LivePc, EndedPc, disk, process, locals, control
<1>0. current \in Record /\ history \in Seq(HistoryItem)
  BY DEF TypeOK
<1>1. CASE BeginValidation(r)
  <2>1. current' \in Record
    BY <1>0, <1>1, UpdateRunType DEF BeginValidation, Stage
  <2>2. QED BY <1>1, <2>1 DEF BeginValidation, TypeOK
<1>2. CASE ProfileValid(r)
  <2>1. current' \in Record
    BY <1>0, <1>2, UpdateRunType DEF ProfileValid, Stage
  <2>2. QED BY <1>2, <2>1 DEF ProfileValid, TypeOK
<1>3. CASE ProfileInvalid(r)
  BY <1>3, FailRunType DEF ProfileInvalid
<1>4. CASE StartCollecting(r)
  <2>1. current' \in Record /\ history' = history /\ coverageWarning' \in [Runs -> BOOLEAN]
    BY <1>4, ProgressType DEF StartCollecting, Stage
  <2>2. QED BY <1>4, <2>1 DEF StartCollecting, TypeOK
<1>5. CASE CollectorWarning(r)
  <2>1. current' \in Record
    BY <1>0, <1>5, AppendLogType DEF CollectorWarning, LogLine
  <2>2. warnings' \in [Runs -> 0..MaxWarnings]
    BY <1>5 DEF CollectorWarning, TypeOK
  <2>3. QED BY <1>5, <2>1, <2>2 DEF CollectorWarning, TypeOK
<1>5b. CASE CollectorProgress(r)
  <2>1. current' \in Record /\ history' = history /\ coverageWarning' \in [Runs -> BOOLEAN]
    BY <1>5b, ProgressType DEF CollectorProgress, Stage
  <2>2. warnings' \in [Runs -> 0..MaxWarnings]
    BY <1>5b DEF CollectorProgress, TypeOK
  <2>3. QED BY <1>5b, <2>1, <2>2 DEF CollectorProgress, TypeOK
<1>6. CASE CollectFails(r)
  BY <1>6, FailRunType DEF CollectFails
<1>7. CASE CollectReturns(r)
  <2>1. warnings' \in [Runs -> 0..MaxWarnings]
    BY <1>7 DEF CollectReturns, TypeOK
  <2>2. partial' \in [Runs -> BOOLEAN] /\ pc' \in [Runs -> Pc]
    BY <1>7 DEF CollectReturns, TypeOK
  <2>3. QED BY <1>7, <2>1, <2>2 DEF CollectReturns, TypeOK
<1>8. CASE ReportCoverage(r)
  <2>1. current' \in Record /\ history' = history /\ coverageWarning' \in [Runs -> BOOLEAN]
    BY <1>8, ProgressType DEF ReportCoverage, Stage
  <2>2. QED BY <1>8, <2>1 DEF ReportCoverage, TypeOK
<1>9. CASE ValidateEdge(r)
  <2>1. current' \in Record /\ history' = history /\ coverageWarning' \in [Runs -> BOOLEAN]
    BY <1>9, <1>0, ProgressType DEF ValidateEdge, RunModule, Stage, TypeOK
  <2>2. QED BY <1>9, <2>1 DEF ValidateEdge, RunModule, TypeOK
<1>10. CASE ScoreTrust(r)
  <2>1. current' \in Record /\ history' = history /\ coverageWarning' \in [Runs -> BOOLEAN]
    BY <1>10, <1>0, ProgressType DEF ScoreTrust, RunModule, Stage, TypeOK
  <2>2. QED BY <1>10, <2>1 DEF ScoreTrust, RunModule, TypeOK
<1>11. CASE AnnouncePersist(r)
  <2>1. current' \in Record /\ history' = history /\ coverageWarning' \in [Runs -> BOOLEAN]
    BY <1>11, ProgressType DEF AnnouncePersist, Stage
  <2>2. QED BY <1>11, <2>1 DEF AnnouncePersist, TypeOK
<1>12. CASE PersistFails(r)
  BY <1>12, FailRunType DEF PersistFails
<1>13. CASE PersistReturns(r)
  BY <1>13 DEF PersistReturns, TypeOK
<1>14. CASE AnnounceDone(r)
  <2>1. current' \in Record /\ history' = history /\ coverageWarning' \in [Runs -> BOOLEAN]
    BY <1>14, ProgressType DEF AnnounceDone, Stage
  <2>2. QED BY <1>14, <2>1 DEF AnnounceDone, TypeOK
<1>15. CASE ScanComplete(r)
  <2>1. current' \in Record
    BY <1>0, <1>15, UpdateRunWithScanIDType DEF ScanComplete, Stage
  <2>2. QED BY <1>15, <2>1 DEF ScanComplete, TypeOK
<1>16. CASE BeginExport(r)
  <2>1. current' \in Record
    BY <1>0, <1>16, UpdateRunType DEF BeginExport, Stage
  <2>2. QED BY <1>16, <2>1 DEF BeginExport, TypeOK
<1>17. CASE ExportFails(r)
  BY <1>17, FailRunType DEF ExportFails
<1>18. CASE ExportReturns(r)
  BY <1>18 DEF ExportReturns, TypeOK
<1>19. CASE EvaluateAlerts(r)
  BY <1>19 DEF EvaluateAlerts, TypeOK
<1>20. CASE finishRun(r)
  <2>1. current' \in Record
    BY <1>0, <1>20, EndRecordType DEF finishRun
  <2>2. [runID |-> r, status |-> "completed"] \in HistoryItem
    BY DEF HistoryItem
  <2>3. history' \in Seq(HistoryItem)
    BY <1>0, <1>20, <2>2, AppendHistoryType DEF finishRun
  <2>4. QED BY <1>20, <2>1, <2>3 DEF finishRun, TypeOK
<1>21. QED
  BY <1>1, <1>2, <1>3, <1>4, <1>5, <1>5b, <1>6, <1>7, <1>8, <1>9, <1>10, <1>11, <1>12,
     <1>13, <1>14, <1>15, <1>16, <1>17, <1>18, <1>19, <1>20 DEF Step

\* The types hold at the start.
LEMMA InitType == Init => TypeOK
<1> SUFFICES ASSUME Init PROVE TypeOK
  OBVIOUS
<1>1. idleRecord \in Record
  BY DEF idleRecord, Record, NoRun, Status, Stage, Message
<1>2. [neo4j |-> FALSE, modules |-> Modules] \in Request
  BY DEF Request
<1>3. QED
  BY <1>1, <1>2 DEF Init, TypeOK, Pc

\* The types are inductive.
LEMMA NextType == TypeOK /\ [Next]_vars => TypeOK'
<1> SUFFICES ASSUME TypeOK, [Next]_vars PROVE TypeOK'
  OBVIOUS
<1>1. CASE \E req \in Requests : StartScan(req)
  <2>1. PICK req \in Requests : StartScan(req)
    BY <1>1
  <2>2. started + 1 \in Runs
    BY <2>1 DEF StartScan, TypeOK, Runs
  <2>3. current' \in Record
    BY <2>1, <2>2 DEF StartScan, startRecord, Record, Status, Stage, Message
  <2>4. pc' \in [Runs -> Pc] /\ request' \in [Runs -> Request]
    BY <2>1, <2>2 DEF StartScan, TypeOK, Pc, LivePc
  <2>5. started' \in 0..MaxRuns /\ booted' \in 0..started'
    BY <2>1 DEF StartScan, TypeOK
  <2>6. QED
    BY <2>1, <2>3, <2>4, <2>5 DEF StartScan, TypeOK, disk
<1>2. CASE \E r \in Runs : Step(r)
  BY <1>2, StepType
<1>3. CASE Restart
  <2>1. current' \in Record
    BY <1>3 DEF Restart, idleRecord, Record, NoRun, Status, Stage, Message
  <2>2. pc' \in [Runs -> Pc]
    BY <1>3 DEF Restart, TypeOK, Pc, EndedPc
  <2>3. /\ history' \in Seq(HistoryItem)
        /\ restarts' \in 0..MaxRestarts
        /\ started' \in 0..MaxRuns /\ booted' \in 0..started'
    BY <1>3 DEF Restart, TypeOK
  <2>4. QED
    BY <1>3, <2>1, <2>2, <2>3 DEF Restart, TypeOK, locals, disk
<1>4. CASE UNCHANGED vars
  BY <1>4 DEF vars, TypeOK
<1>5. QED
  BY <1>1, <1>2, <1>3, <1>4 DEF Next

(* The types of the control center's state hold in every behaviour of the  *)
(* code: in particular every stage, message and log line it shows is one   *)
(* of the named ones, whatever the interleaving of runs and restarts.      *)
THEOREM TypeCorrect == Spec => []TypeOK
<1>1. QED
  BY InitType, NextType, PTL DEF Spec

-----------------------------------------------------------------------------
(* The inductive invariant.  SingleFlight alone is not inductive: that a   *)
(* start finds no goroutine needs RunningHasWorker's converse, and that    *)
(* the history misses no outcome needs the goroutine to be the latest run  *)
(* since the process started.                                              *)

ActiveIsLatest == \A r \in Runs : Live(r) => r = started /\ booted < r

IInv == SingleFlight /\ RunningHasWorker /\ ActiveIsLatest /\ HistoryComplete

\* A step of the goroutine of run r, as far as IInv sees it: it goes on,
\* leaving the record its own and running ...
Continues(r) ==
  /\ pc'[r] \in LivePc
  /\ \A q \in Runs \ {r} : pc'[q] = pc[q]
  /\ current'.runID = r /\ current'.status = "running"
  /\ UNCHANGED <<history, started, booted>>

\* ... or it ends and records its outcome.
Ends(r, outcome) ==
  /\ pc'[r] = outcome
  /\ \A q \in Runs \ {r} : pc'[q] = pc[q]
  /\ current'.runID = r /\ current'.status = outcome
  /\ history' = appendHistory(history, [runID |-> r, status |-> outcome])
  /\ UNCHANGED <<started, booted>>

\* A goroutine moves its own program counter only.
LEMMA GotoMoves ==
  ASSUME TypeOK, NEW r \in Runs, NEW from, NEW to, Goto(r, from, to)
  PROVE  pc[r] = from /\ pc'[r] = to /\ \A q \in Runs \ {r} : pc'[q] = pc[q]
BY DEF Goto, TypeOK

\* failRun by the run that owns the record.
LEMMA FailRunEnds ==
  ASSUME TypeOK, NEW r \in Runs, NEW from, failRun(r, from), current.runID = r
  PROVE  Ends(r, "failed")
<1>1. failRecord(current).runID = r /\ failRecord(current).status = "failed"
  BY EndRecordType DEF TypeOK
<1>2. pc'[r] = "failed" /\ \A q \in Runs \ {r} : pc'[q] = pc[q]
  BY GotoMoves DEF failRun
<1>3. QED
  BY <1>1, <1>2 DEF failRun, Ends, process

\* Every step of a goroutine that owns the record is one of the two.
LEMMA StepKinds ==
  ASSUME TypeOK, NEW r \in Runs, Step(r),
         Live(r) => current.runID = r /\ current.status = "running"
  PROVE  /\ Live(r)
         /\ Continues(r) \/ Ends(r, "failed") \/ Ends(r, "completed")
<1>0. Live(r)
  BY DEF Step, Live, LivePc, Goto, BeginValidation, ProfileValid, ProfileInvalid,
         StartCollecting, CollectorWarning, CollectorProgress, CollectFails, CollectReturns,
         ReportCoverage, ValidateEdge, ScoreTrust, RunModule, AnnouncePersist,
         PersistFails, PersistReturns, AnnounceDone, ScanComplete, BeginExport,
         ExportFails, ExportReturns, EvaluateAlerts, finishRun, failRun
<1> SUFFICES Continues(r) \/ Ends(r, "failed") \/ Ends(r, "completed")
  BY <1>0
<1>t. current \in Record /\ current.runID = r /\ current.status = "running"
  BY <1>0 DEF TypeOK
<1>f. ASSUME NEW from, failRun(r, from) PROVE Ends(r, "failed")
  BY <1>t, <1>f, FailRunEnds
<1>u. ASSUME NEW stage \in Stage, current' = updateRun(current, r, stage)
      PROVE  current'.runID = r /\ current'.status = "running"
  BY <1>t, <1>u, UpdateRunType
<1>p. ASSUME NEW stage \in Stage, Progress(r, stage)
      PROVE  current'.runID = r /\ current'.status = "running" /\ history' = history
  BY <1>t, <1>p, ProgressType
<1>1. CASE BeginValidation(r)
  <2>1. pc'[r] \in LivePc /\ \A q \in Runs \ {r} : pc'[q] = pc[q]
    BY <1>1, GotoMoves DEF BeginValidation, LivePc
  <2>2. current'.runID = r /\ current'.status = "running" /\ history' = history
    BY <1>t, <1>1, <1>u DEF BeginValidation, Stage
  <2>3. QED BY <1>1, <2>1, <2>2 DEF BeginValidation, Continues, process
<1>2. CASE ProfileValid(r)
  <2>1. pc'[r] \in LivePc /\ \A q \in Runs \ {r} : pc'[q] = pc[q]
    BY <1>2, GotoMoves DEF ProfileValid, LivePc
  <2>2. current'.runID = r /\ current'.status = "running" /\ history' = history
    BY <1>t, <1>2, <1>u DEF ProfileValid, Stage
  <2>3. QED BY <1>2, <2>1, <2>2 DEF ProfileValid, Continues, process
<1>3. CASE ProfileInvalid(r)
  BY <1>3, <1>f DEF ProfileInvalid
<1>4. CASE StartCollecting(r)
  <2>1. pc'[r] \in LivePc /\ \A q \in Runs \ {r} : pc'[q] = pc[q]
    BY <1>4, GotoMoves DEF StartCollecting, LivePc
  <2>2. current'.runID = r /\ current'.status = "running" /\ history' = history
    BY <1>t, <1>4, <1>p DEF StartCollecting, Stage
  <2>3. QED BY <1>4, <2>1, <2>2 DEF StartCollecting, Continues, process
<1>5. CASE CollectorWarning(r)
  <2>1. pc'[r] \in LivePc /\ \A q \in Runs \ {r} : pc'[q] = pc[q]
    BY <1>5 DEF CollectorWarning, LivePc
  <2>2. current'.runID = r /\ current'.status = "running" /\ history' = history
    BY <1>t, <1>5, AppendLogType DEF CollectorWarning, LogLine
  <2>3. QED BY <1>5, <2>1, <2>2 DEF CollectorWarning, Continues, process
<1>5b. CASE CollectorProgress(r)
  <2>1. pc'[r] \in LivePc /\ \A q \in Runs \ {r} : pc'[q] = pc[q]
    BY <1>5b DEF CollectorProgress, LivePc
  <2>2. current'.runID = r /\ current'.status = "running" /\ history' = history
    BY <1>t, <1>5b, <1>p DEF CollectorProgress, Stage
  <2>3. QED BY <1>5b, <2>1, <2>2 DEF CollectorProgress, Continues, process
<1>6. CASE CollectFails(r)
  BY <1>6, <1>f DEF CollectFails
<1>7. CASE CollectReturns(r)
  <2>1. PICK incomplete \in BOOLEAN :
          Goto(r, "collecting", IF incomplete THEN "coverage" ELSE "edge")
    BY <1>7 DEF CollectReturns
  <2>2. pc'[r] \in LivePc /\ \A q \in Runs \ {r} : pc'[q] = pc[q]
    BY <2>1, GotoMoves DEF LivePc
  <2>3. QED BY <1>t, <1>7, <2>2 DEF CollectReturns, Continues, process, control
<1>8. CASE ReportCoverage(r)
  <2>1. pc'[r] \in LivePc /\ \A q \in Runs \ {r} : pc'[q] = pc[q]
    BY <1>8, GotoMoves DEF ReportCoverage, LivePc
  <2>2. current'.runID = r /\ current'.status = "running" /\ history' = history
    BY <1>t, <1>8, <1>p DEF ReportCoverage, Stage
  <2>3. QED BY <1>8, <2>1, <2>2 DEF ReportCoverage, Continues, process
<1>9. CASE ValidateEdge(r)
  <2>1. pc'[r] \in LivePc /\ \A q \in Runs \ {r} : pc'[q] = pc[q]
    BY <1>9, GotoMoves DEF ValidateEdge, RunModule, LivePc
  <2>2. current'.runID = r /\ current'.status = "running" /\ history' = history
    BY <1>t, <1>9, <1>p DEF ValidateEdge, RunModule, Stage, control
  <2>3. QED BY <1>9, <2>1, <2>2 DEF ValidateEdge, RunModule, Continues, process
<1>10. CASE ScoreTrust(r)
  <2>1. pc'[r] \in LivePc /\ \A q \in Runs \ {r} : pc'[q] = pc[q]
    BY <1>10, GotoMoves DEF ScoreTrust, RunModule, LivePc
  <2>2. current'.runID = r /\ current'.status = "running" /\ history' = history
    BY <1>t, <1>10, <1>p DEF ScoreTrust, RunModule, Stage, control
  <2>3. QED BY <1>10, <2>1, <2>2 DEF ScoreTrust, RunModule, Continues, process
<1>11. CASE AnnouncePersist(r)
  <2>1. pc'[r] \in LivePc /\ \A q \in Runs \ {r} : pc'[q] = pc[q]
    BY <1>11, GotoMoves DEF AnnouncePersist, LivePc
  <2>2. current'.runID = r /\ current'.status = "running" /\ history' = history
    BY <1>t, <1>11, <1>p DEF AnnouncePersist, Stage
  <2>3. QED BY <1>11, <2>1, <2>2 DEF AnnouncePersist, Continues, process
<1>12. CASE PersistFails(r)
  BY <1>12, <1>f DEF PersistFails
<1>13. CASE PersistReturns(r)
  <2>1. pc'[r] \in LivePc /\ \A q \in Runs \ {r} : pc'[q] = pc[q]
    BY <1>13, GotoMoves DEF PersistReturns, LivePc
  <2>2. current'.runID = r /\ current'.status = "running" /\ history' = history
    BY <1>t, <1>13 DEF PersistReturns, control
  <2>3. QED BY <1>13, <2>1, <2>2 DEF PersistReturns, Continues, process
<1>14. CASE AnnounceDone(r)
  <2>1. pc'[r] \in LivePc /\ \A q \in Runs \ {r} : pc'[q] = pc[q]
    BY <1>14, GotoMoves DEF AnnounceDone, LivePc
  <2>2. current'.runID = r /\ current'.status = "running" /\ history' = history
    BY <1>t, <1>14, <1>p DEF AnnounceDone, Stage
  <2>3. QED BY <1>14, <2>1, <2>2 DEF AnnounceDone, Continues, process
<1>15. CASE ScanComplete(r)
  <2>1. pc'[r] \in LivePc /\ \A q \in Runs \ {r} : pc'[q] = pc[q]
    BY <1>15, GotoMoves DEF ScanComplete, LivePc
  <2>2. current'.runID = r /\ current'.status = "running" /\ history' = history
    BY ZenonT(30), <1>t, <1>15, UpdateRunWithScanIDType DEF ScanComplete, Stage
  <2>3. QED BY <1>15, <2>1, <2>2 DEF ScanComplete, Continues, process
<1>16. CASE BeginExport(r)
  <2>1. pc'[r] \in LivePc /\ \A q \in Runs \ {r} : pc'[q] = pc[q]
    BY <1>16, GotoMoves DEF BeginExport, LivePc
  <2>2. current'.runID = r /\ current'.status = "running" /\ history' = history
    BY <1>t, <1>16, <1>u DEF BeginExport, Stage
  <2>3. QED BY <1>16, <2>1, <2>2 DEF BeginExport, Continues, process
<1>17. CASE ExportFails(r)
  BY <1>17, <1>f DEF ExportFails
<1>18. CASE ExportReturns(r)
  <2>1. pc'[r] \in LivePc /\ \A q \in Runs \ {r} : pc'[q] = pc[q]
    BY <1>18, GotoMoves DEF ExportReturns, LivePc
  <2>2. current'.runID = r /\ current'.status = "running" /\ history' = history
    BY <1>t, <1>18 DEF ExportReturns, control
  <2>3. QED BY <1>18, <2>1, <2>2 DEF ExportReturns, Continues, process
<1>19. CASE EvaluateAlerts(r)
  <2>1. pc'[r] \in LivePc /\ \A q \in Runs \ {r} : pc'[q] = pc[q]
    BY <1>19, GotoMoves DEF EvaluateAlerts, LivePc
  <2>2. current'.runID = r /\ current'.status = "running" /\ history' = history
    BY <1>t, <1>19 DEF EvaluateAlerts, control
  <2>3. QED BY <1>19, <2>1, <2>2 DEF EvaluateAlerts, Continues, process
<1>20. CASE finishRun(r)
  <2>1. PICK message \in {"scan completed", "scan completed - partial coverage"} :
          /\ current' = finishRecord(current, r, message)
          /\ history' = appendHistory(history, [runID |-> r, status |-> "completed"])
    BY <1>t, <1>20 DEF finishRun
  <2>2. current'.runID = r /\ current'.status = "completed"
    BY <1>t, <2>1, EndRecordType
  <2>3. pc'[r] = "completed" /\ \A q \in Runs \ {r} : pc'[q] = pc[q]
    BY <1>20, GotoMoves DEF finishRun
  <2>4. QED BY <1>20, <2>1, <2>2, <2>3 DEF finishRun, Ends, process
<1>21. QED
  BY <1>0, <1>1, <1>2, <1>3, <1>4, <1>5, <1>5b, <1>6, <1>7, <1>8, <1>9, <1>10, <1>11,
     <1>12, <1>13, <1>14, <1>15, <1>16, <1>17, <1>18, <1>19, <1>20 DEF Step

\* No goroutine outlives its step's end, and no other one appears.
LEMMA LiveAfterStep ==
  ASSUME NEW r \in Runs, \A q \in Runs \ {r} : pc'[q] = pc[q],
         \A q \in Runs : Live(q) => q = started, Live(r)
  PROVE  \A q \in Runs : Live(q)' => q = r
BY DEF Live

\* No run is there at the start.
LEMMA InitInv == Init => IInv
<1> SUFFICES ASSUME Init PROVE IInv
  OBVIOUS
<1>1. \A r \in Runs : ~ Live(r)
  BY DEF Init, Live, LivePc
<1>2. lastEnded = 0
  BY <1>1 DEF Init, lastEnded
<1>3. QED
  BY <1>1, <1>2 DEF Init, IInv, SingleFlight, RunningHasWorker, ActiveIsLatest,
                    HistoryComplete, idleRecord

\* A goroutine that goes on.
LEMMA ContinuesInv ==
  ASSUME TypeOK, IInv, NEW r \in Runs, Live(r), Continues(r)
  PROVE  IInv'
<1>1. r = started /\ booted < r /\ started \in Nat /\ booted \in Nat
  BY DEF IInv, ActiveIsLatest, TypeOK
<1>2. Live(r)' /\ \A q \in Runs : Live(q)' => q = r
  BY LiveAfterStep DEF Continues, Live, IInv, ActiveIsLatest
<1>3. SingleFlight' /\ RunningHasWorker'
  BY <1>2 DEF Continues, SingleFlight, RunningHasWorker
<1>4. ActiveIsLatest'
  BY <1>1, <1>2 DEF Continues, ActiveIsLatest
<1>5. HistoryComplete'
  <2>1. lastEnded = started - 1 /\ lastEnded' = lastEnded
    BY <1>2 DEF lastEnded, Continues
  <2>2. \A i \in 1..Len(history) :
           history[i].runID \in Runs \ {r} /\ pc'[history[i].runID] = history[i].status
    <3>1. ASSUME NEW i \in 1..Len(history)
          PROVE  /\ history[i].runID = started - i /\ history[i].runID \in Runs
                 /\ pc[history[i].runID] = history[i].status
      <4>1. history[i].runID = started - 1 - i + 1
        BY <2>1 DEF IInv, HistoryComplete
      <4>2. i \in Nat
        OBVIOUS
      <4>3. history[i] \in HistoryItem
        BY DEF TypeOK
      <4>4. QED BY <1>1, <4>1, <4>2, <4>3 DEF IInv, HistoryComplete, HistoryItem
    <3>2. QED BY <1>1, <3>1 DEF Continues, Runs
  <2>3. QED
    BY <2>1, <2>2 DEF IInv, HistoryComplete, Continues
<1>6. QED
  BY <1>3, <1>4, <1>5 DEF IInv

\* A goroutine that ends puts its outcome in front of the history.
LEMMA EndsInv ==
  ASSUME TypeOK, IInv, NEW r \in Runs, Live(r),
         NEW outcome \in {"failed", "completed"}, Ends(r, outcome)
  PROVE  IInv'
<1>1. r = started /\ booted < r /\ started \in Nat /\ booted \in Nat
  BY DEF IInv, ActiveIsLatest, TypeOK
<1>2. \A q \in Runs : ~ Live(q)'
  <2>1. ~ Live(r)'
    BY DEF Ends, Live, LivePc
  <2>2. QED BY <2>1, LiveAfterStep DEF Ends, IInv, ActiveIsLatest
<1>3. SingleFlight' /\ RunningHasWorker' /\ ActiveIsLatest'
  BY <1>2 DEF Ends, SingleFlight, RunningHasWorker, ActiveIsLatest
<1>4. HistoryComplete'
  <2>1. lastEnded = started - 1 /\ lastEnded' = started
    BY <1>2 DEF lastEnded, Ends
  <2> DEFINE item == [runID |-> r, status |-> outcome]
  <2>2. item \in HistoryItem /\ history \in Seq(HistoryItem)
    BY DEF HistoryItem, TypeOK
  <2>3. /\ Len(history') = IF Len(history) + 1 > HistoryLimit
                           THEN HistoryLimit ELSE Len(history) + 1
        /\ \A i \in 1..Len(history') :
              history'[i] = IF i = 1 THEN item ELSE history[i - 1]
    <3>1. history' = appendHistory(history, item)
      BY DEF Ends
    <3> HIDE DEF item
    <3>2. QED BY ZenonT(30), <2>2, <3>1, AppendHistoryType
  <2>4. Len(history) = IF started - 1 - booted > HistoryLimit
                       THEN HistoryLimit ELSE started - 1 - booted
    BY <2>1 DEF IInv, HistoryComplete
  <2>5. Len(history') = IF started - booted > HistoryLimit
                        THEN HistoryLimit ELSE started - booted
    BY <1>1, <2>3, <2>4
  <2>6. ASSUME NEW i \in 1..Len(history')
        PROVE  /\ history'[i].runID = started - i + 1
               /\ pc'[history'[i].runID] = history'[i].status
    <3>1. CASE i = 1
      BY <1>1, <2>3, <3>1 DEF Ends
    <3>2. CASE i # 1
      <4>1. i - 1 \in 1..Len(history) /\ history'[i] = history[i - 1]
        BY <1>1, <2>3, <2>4, <3>2
      <4>2. history[i - 1].runID = started - 1 - (i - 1) + 1
        BY <2>1, <4>1 DEF IInv, HistoryComplete
      <4>3. pc[history[i - 1].runID] = history[i - 1].status
        BY <4>1 DEF IInv, HistoryComplete
      <4>4. history[i - 1].runID \in Runs
        <5> DEFINE k == i - 1
        <5>1. k \in 1..Len(history)
          BY <4>1
        <5> HIDE DEF k
        <5>2. history[k] \in HistoryItem
          BY <2>2, <5>1
        <5>3. history[k].runID \in Runs
          BY <5>2 DEF HistoryItem
        <5>4. QED BY <5>3 DEF k
      <4>5. history[i - 1].runID = started - i + 1 /\ history[i - 1].runID # r
        BY <1>1, <3>2, <4>1, <4>2
      <4>6. QED BY <4>1, <4>3, <4>4, <4>5 DEF Ends
    <3>3. QED BY <3>1, <3>2
  <2>7. QED
    BY <2>1, <2>5, <2>6 DEF HistoryComplete, Ends
<1>5. QED
  BY <1>3, <1>4 DEF IInv

\* An accepted start found no goroutine, so the new one is alone.
LEMMA StartInv ==
  ASSUME TypeOK, IInv, NEW req \in Requests, StartScan(req)
  PROVE  IInv'
<1> DEFINE new == started + 1
<1>1. /\ started \in Nat /\ booted \in Nat /\ booted <= started
      /\ new \in Runs /\ booted < new
  BY DEF StartScan, TypeOK, Runs
<1>2. \A q \in Runs : ~ Live(q)
  BY DEF StartScan, IInv, SingleFlight
<1>3. pc'[new] = "spawned" /\ \A q \in Runs \ {new} : pc'[q] = pc[q]
  BY <1>1 DEF StartScan, TypeOK
<1>4. /\ started' = new /\ current'.runID = new /\ current'.status = "running"
      /\ UNCHANGED <<history, booted>>
  BY DEF StartScan, startRecord
<1> HIDE DEF new
<1>5. pc'[new] \in LivePc /\ \A q \in Runs : Live(q)' => q = new
  BY <1>2, <1>3 DEF Live, LivePc
<1>6. SingleFlight' /\ RunningHasWorker'
  BY <1>1, <1>4, <1>5 DEF SingleFlight, RunningHasWorker, Live
<1>7. ActiveIsLatest'
  BY <1>1, <1>4, <1>5 DEF ActiveIsLatest
<1>8. HistoryComplete'
  <2>1. lastEnded = started /\ lastEnded' = started
    <3>1. \E q \in Runs : Live(q)'
      BY <1>1, <1>5 DEF Live
    <3>2. lastEnded' = new - 1
      BY <3>1, <1>4 DEF lastEnded
    <3>3. QED BY <1>1, <1>2, <3>2 DEF lastEnded, new
  <2>2. ASSUME NEW i \in 1..Len(history)
        PROVE  pc'[history[i].runID] = history[i].status
    <3>1. history[i] \in HistoryItem /\ i \in Nat \ {0}
      BY DEF TypeOK
    <3>2. history[i].runID \in Runs /\ history[i].runID = started - i + 1
      BY <2>1, <3>1 DEF IInv, HistoryComplete, HistoryItem
    <3>3. history[i].runID # new
      BY <1>1, <3>1, <3>2 DEF new
    <3>4. QED BY <1>3, <3>2, <3>3 DEF IInv, HistoryComplete
  <2>3. QED
    BY <1>4, <2>1, <2>2 DEF IInv, HistoryComplete
<1>9. QED
  BY <1>6, <1>7, <1>8 DEF IInv

\* A restart leaves no goroutine and an empty history.
LEMMA RestartInv ==
  ASSUME TypeOK, Restart
  PROVE  IInv'
<1>1. \A q \in Runs : ~ Live(q)'
  BY DEF Restart, Live, LivePc
<1>2. lastEnded' = started /\ booted' = started /\ started \in Nat /\ history' = << >>
  BY <1>1 DEF lastEnded, Restart, TypeOK
<1>3. current'.status = "idle"
  BY DEF Restart, idleRecord
<1>4. QED
  BY <1>1, <1>2, <1>3 DEF IInv, SingleFlight, RunningHasWorker, ActiveIsLatest,
                          HistoryComplete

\* The invariant of the runs is inductive, given the types.
LEMMA NextInv == TypeOK /\ IInv /\ [Next]_vars => IInv'
<1> SUFFICES ASSUME TypeOK, IInv, [Next]_vars PROVE IInv'
  OBVIOUS
<1>1. CASE \E req \in Requests : StartScan(req)
  BY <1>1, StartInv
<1>2. CASE \E r \in Runs : Step(r)
  <2>1. PICK r \in Runs : Step(r)
    BY <1>2
  <2>2. Live(r) => current.runID = r /\ current.status = "running"
    BY DEF IInv, SingleFlight
  <2>3. Live(r) /\ (Continues(r) \/ Ends(r, "failed") \/ Ends(r, "completed"))
    BY <2>1, <2>2, StepKinds
  <2>4. QED
    BY <2>3, ContinuesInv, EndsInv
<1>3. CASE Restart
  BY <1>3, RestartInv
<1>4. CASE UNCHANGED vars
  BY <1>4 DEF vars, IInv, SingleFlight, RunningHasWorker, ActiveIsLatest,
              HistoryComplete, lastEnded, Live
<1>5. QED
  BY <1>1, <1>2, <1>3, <1>4 DEF Next

\* The invariant of the runs holds in every reachable state.
LEMMA Inductive == Spec => []IInv
<1>1. QED
  BY InitType, NextType, InitInv, NextInv, PTL DEF Spec

(* The 409 check admits one goroutine at a time, for any number of runs    *)
(* and restarts.                                                           *)
THEOREM SingleFlightHolds == Spec => []SingleFlight
<1>1. IInv => SingleFlight
  BY DEF IInv
<1>2. QED
  BY <1>1, Inductive, PTL

(* A record that refuses new starts always has a goroutine behind it, so   *)
(* the control center cannot wedge.                                        *)
THEOREM RunningHasWorkerHolds == Spec => []RunningHasWorker
<1>1. IInv => RunningHasWorker
  BY DEF IInv
<1>2. QED
  BY <1>1, Inductive, PTL

(* No outcome is lost, doubled or reordered in the history, for any        *)
(* history limit.                                                          *)
THEOREM HistoryCompleteHolds == Spec => []HistoryComplete
<1>1. IInv => HistoryComplete
  BY DEF IInv
<1>2. QED
  BY <1>1, Inductive, PTL

-----------------------------------------------------------------------------
(* The inductive invariant.  What the record says once a run has completed *)
(* is what its goroutine has done by its last step, so the invariant says  *)
(* for every position of a goroutine what is already done there.           *)

\* Up to the report of partial coverage, and after it.
Uncovered == {"none", "spawned", "validating_profile", "run", "collecting", "coverage"}
Covered   == {"edge", "trust", "announce", "persist", "persisted",
              "scan_complete", "export", "exporting", "alerts", "finish"}

\* The scan directory is written.
Written == {"persisted", "scan_complete", "export", "exporting", "alerts", "finish"}

WorkDone(r) ==
  /\ pc[r] \in Uncovered => ~ coverageWarning[r]
  /\ pc[r] = "coverage" => partial[r]
  /\ pc[r] \in Covered => coverageWarning[r] = partial[r]
  /\ pc[r] \in Written => r \in onDisk
  /\ pc[r] \in {"alerts", "finish"} /\ request[r].neo4j => r \in exported
  /\ pc[r] = "finish" => r \in alerted
  /\ r > started => pc[r] = "none"

EndedIsLatest == current.status \in {"completed", "failed"} => current.runID = started

OInv == /\ \A r \in Runs : WorkDone(r)
        /\ EndedIsLatest
        /\ CompletionHonest /\ ShownScanIsOnDisk /\ LogBounded

-----------------------------------------------------------------------------
(* What a step does to the work of the runs.                               *)

\* Nothing a goroutine has done is undone, and nothing is done for others.
Frame(r) ==
  /\ \A q \in Runs \ {r} : /\ pc'[q] = pc[q] /\ partial'[q] = partial[q]
                           /\ coverageWarning'[q] = coverageWarning[q]
  /\ onDisk \subseteq onDisk' /\ exported \subseteq exported' /\ alerted \subseteq alerted'
  /\ UNCHANGED <<request, started>>

\* The Progress callback of a run, as far as the work of the runs sees it.
LEMMA ProgressFrame ==
  ASSUME TypeOK, NEW r \in Runs, NEW stage, Progress(r, stage)
  PROVE  /\ \A q \in Runs \ {r} : coverageWarning'[q] = coverageWarning[q]
         /\ coverageWarning'[r] = (coverageWarning[r] \/ stage = "coverage")
BY DEF Progress, TypeOK

\* A step of a goroutine is framed.
LEMMA StepFrame ==
  ASSUME TypeOK, NEW r \in Runs, Step(r)
  PROVE  Frame(r)
<1> USE DEF Frame, disk, locals, process
<1>0. ASSUME NEW from, failRun(r, from) PROVE Frame(r)
  BY <1>0, GotoMoves DEF failRun
<1>1. CASE BeginValidation(r)
  BY <1>1, GotoMoves DEF BeginValidation
<1>2. CASE ProfileValid(r)
  BY <1>2, GotoMoves DEF ProfileValid
<1>3. CASE ProfileInvalid(r)
  BY <1>0, <1>3 DEF ProfileInvalid
<1>4. CASE StartCollecting(r)
  BY <1>4, GotoMoves, ProgressFrame DEF StartCollecting
<1>5. CASE CollectorWarning(r)
  BY <1>5 DEF CollectorWarning
<1>6. CASE CollectorProgress(r)
  BY <1>6, ProgressFrame DEF CollectorProgress
<1>7. CASE CollectFails(r)
  BY <1>0, <1>7 DEF CollectFails
<1>8. CASE CollectReturns(r)
  BY <1>8, GotoMoves DEF CollectReturns, TypeOK
<1>9. CASE ReportCoverage(r)
  BY <1>9, GotoMoves, ProgressFrame DEF ReportCoverage
<1>10. CASE ValidateEdge(r)
  BY <1>10, GotoMoves, ProgressFrame DEF ValidateEdge, RunModule
<1>11. CASE ScoreTrust(r)
  BY <1>11, GotoMoves, ProgressFrame DEF ScoreTrust, RunModule
<1>12. CASE AnnouncePersist(r)
  BY <1>12, GotoMoves, ProgressFrame DEF AnnouncePersist
<1>13. CASE PersistFails(r)
  BY <1>0, <1>13 DEF PersistFails
<1>14. CASE PersistReturns(r)
  BY <1>14, GotoMoves DEF PersistReturns
<1>15. CASE AnnounceDone(r)
  BY <1>15, GotoMoves, ProgressFrame DEF AnnounceDone
<1>16. CASE ScanComplete(r)
  BY <1>16, GotoMoves DEF ScanComplete
<1>17. CASE BeginExport(r)
  BY <1>17, GotoMoves DEF BeginExport
<1>18. CASE ExportFails(r)
  BY <1>0, <1>18 DEF ExportFails
<1>19. CASE ExportReturns(r)
  BY <1>19, GotoMoves DEF ExportReturns
<1>20. CASE EvaluateAlerts(r)
  BY <1>20, GotoMoves DEF EvaluateAlerts
<1>21. CASE finishRun(r)
  BY <1>21, GotoMoves DEF finishRun
<1>22. QED
  BY <1>1, <1>2, <1>3, <1>4, <1>5, <1>6, <1>7, <1>8, <1>9, <1>10, <1>11, <1>12, <1>13,
     <1>14, <1>15, <1>16, <1>17, <1>18, <1>19, <1>20, <1>21 DEF Step

\* A goroutine that moves on finds done what its next position says is done.
LEMMA StepWork ==
  ASSUME TypeOK, NEW r \in Runs, Step(r), r <= started, WorkDone(r)
  PROVE  WorkDone(r)'
<1> USE DEF WorkDone, Uncovered, Covered, Written, disk, locals, process
<1>t. /\ coverageWarning[r] \in BOOLEAN /\ partial[r] \in BOOLEAN /\ request[r] \in Request
      /\ started' = started /\ r \in Nat /\ started \in Nat
  BY StepFrame DEF TypeOK, Frame, Runs
<1>0. ASSUME NEW from, failRun(r, from) PROVE WorkDone(r)'
  <2>1. pc'[r] = "failed"
    BY <1>0, GotoMoves DEF failRun
  <2>2. QED BY <1>t, <2>1
<1>1. CASE BeginValidation(r)
  BY <1>t, <1>1, GotoMoves DEF BeginValidation
<1>2. CASE ProfileValid(r)
  BY <1>t, <1>2, GotoMoves DEF ProfileValid
<1>3. CASE ProfileInvalid(r)
  BY <1>0, <1>3 DEF ProfileInvalid
<1>4. CASE StartCollecting(r)
  BY <1>t, <1>4, GotoMoves, ProgressFrame DEF StartCollecting
<1>5. CASE CollectorWarning(r)
  BY <1>t, <1>5 DEF CollectorWarning
<1>6. CASE CollectorProgress(r)
  BY <1>t, <1>6, ProgressFrame DEF CollectorProgress
<1>7. CASE CollectFails(r)
  BY <1>0, <1>7 DEF CollectFails
<1>8. CASE CollectReturns(r)
  <2>1. PICK incomplete \in BOOLEAN :
          /\ partial' = [partial EXCEPT ![r] = incomplete]
          /\ Goto(r, "collecting", IF incomplete THEN "coverage" ELSE "edge")
    BY <1>8 DEF CollectReturns
  <2>2. partial'[r] = incomplete
    BY <2>1 DEF TypeOK
  <2>3. QED BY <1>t, <1>8, <2>1, <2>2, GotoMoves DEF CollectReturns
<1>9. CASE ReportCoverage(r)
  BY <1>t, <1>9, GotoMoves, ProgressFrame DEF ReportCoverage
<1>10. CASE ValidateEdge(r)
  BY <1>t, <1>10, GotoMoves, ProgressFrame DEF ValidateEdge, RunModule
<1>11. CASE ScoreTrust(r)
  BY <1>t, <1>11, GotoMoves, ProgressFrame DEF ScoreTrust, RunModule
<1>12. CASE AnnouncePersist(r)
  BY <1>t, <1>12, GotoMoves, ProgressFrame DEF AnnouncePersist
<1>13. CASE PersistFails(r)
  BY <1>0, <1>13 DEF PersistFails
<1>14. CASE PersistReturns(r)
  BY <1>t, <1>14, GotoMoves DEF PersistReturns
<1>15. CASE AnnounceDone(r)
  BY <1>t, <1>15, GotoMoves, ProgressFrame DEF AnnounceDone
<1>16. CASE ScanComplete(r)
  BY <1>t, <1>16, GotoMoves DEF ScanComplete
<1>17. CASE BeginExport(r)
  BY <1>t, <1>17, GotoMoves DEF BeginExport
<1>18. CASE ExportFails(r)
  BY <1>0, <1>18 DEF ExportFails
<1>19. CASE ExportReturns(r)
  BY <1>t, <1>19, GotoMoves DEF ExportReturns
<1>20. CASE EvaluateAlerts(r)
  BY <1>t, <1>20, GotoMoves DEF EvaluateAlerts
<1>21. CASE finishRun(r)
  <2>1. pc'[r] = "completed"
    BY <1>21, GotoMoves DEF finishRun
  <2>2. QED BY <1>t, <2>1
<1>22. QED
  BY <1>1, <1>2, <1>3, <1>4, <1>5, <1>6, <1>7, <1>8, <1>9, <1>10, <1>11, <1>12, <1>13,
     <1>14, <1>15, <1>16, <1>17, <1>18, <1>19, <1>20, <1>21 DEF Step

-----------------------------------------------------------------------------
(* What a step does to the record.                                         *)

\* appendLog keeps the log within the limit.
LEMMA AppendLogBound ==
  ASSUME NEW c \in Record, NEW r \in Runs, NEW line \in LogLine, Len(c.log) <= LogLimit
  PROVE  Len(appendLog(c, r, line).log) <= LogLimit
<1>1. c.log \in Seq(LogLine)
  BY DEF Record
<1>2. /\ Append(c.log, line) \in Seq(LogLine)
      /\ Len(Append(c.log, line)) \in Nat
  BY <1>1, AppendProperties
<1>3. Len(KeepLast(Append(c.log, line), LogLimit)) <= LogLimit
  <2> DEFINE s == Append(c.log, line)
  <2>1. s \in Seq(LogLine) /\ Len(s) \in Nat
    BY <1>2
  <2> HIDE DEF s
  <2>2. Len(KeepLast(s, LogLimit)) = IF Len(s) > LogLimit THEN LogLimit ELSE Len(s)
    BY <2>1, KeepLastType
  <2>3. Len(KeepLast(s, LogLimit)) <= LogLimit
    BY <2>1, <2>2
  <2>4. QED BY <2>3 DEF s
<1>4. CASE c.runID # r
  BY <1>4 DEF appendLog
<1>5. CASE c.runID = r
  <2>1. appendLog(c, r, line).log = KeepLast(Append(c.log, line), LogLimit)
    BY <1>5 DEF appendLog, Record
  <2>2. QED BY <1>3, <2>1
<1>6. QED
  BY <1>4, <1>5

\* A run that goes on: the log stays within its limit, and a scan id appears
\* only with the scan_complete stage.
GoesOn(r) ==
  /\ current'.runID = r /\ current'.status = "running"
  /\ Len(current'.log) <= LogLimit
  /\ current'.scanID = current.scanID \/ (pc[r] = "scan_complete" /\ current'.scanID = r)

\* The message the last step of a run leaves.
finalMessage(r) == IF coverageWarning[r] THEN "scan completed - partial coverage"
                                         ELSE "scan completed"

\* Every step of the goroutine that owns the record.
LEMMA RecordStep ==
  ASSUME TypeOK, NEW r \in Runs, Step(r), current.runID = r, current.status = "running",
         Len(current.log) <= LogLimit
  PROVE  \/ GoesOn(r)
         \/ current' = failRecord(current) /\ pc'[r] = "failed"
         \/ /\ pc[r] = "finish"
            /\ current' = finishRecord(current, r, finalMessage(r))
<1> DEFINE Fails == current' = failRecord(current) /\ pc'[r] = "failed"
<1>t. current \in Record
  BY DEF TypeOK
<1>f. ASSUME NEW from, failRun(r, from) PROVE Fails
  BY <1>f, GotoMoves DEF failRun
<1>u. ASSUME NEW stage \in Stage, current' = updateRun(current, r, stage)
      PROVE  GoesOn(r)
  BY <1>t, <1>u DEF updateRun, GoesOn, Record
<1>p. ASSUME NEW stage \in Stage, Progress(r, stage)
      PROVE  GoesOn(r)
  <2> DEFINE logged == appendLog(current, r, stage)
  <2>1. /\ logged \in Record /\ logged.runID = r /\ logged.scanID = current.scanID
        /\ Len(logged.log) <= LogLimit
    BY <1>t, AppendLogType, AppendLogBound DEF LogLine
  <2>2. current' = updateRun(logged, r, stage)
    BY <1>p DEF Progress
  <2> HIDE DEF logged
  <2>3. QED BY <2>1, <2>2 DEF updateRun, GoesOn, Record
<1>s. ASSUME UNCHANGED current PROVE GoesOn(r)
  BY <1>s DEF GoesOn
<1>1. CASE BeginValidation(r) \/ ProfileValid(r) \/ BeginExport(r)
  BY <1>1, <1>u DEF BeginValidation, ProfileValid, BeginExport, Stage
<1>2. CASE \/ ProfileInvalid(r) \/ CollectFails(r) \/ PersistFails(r) \/ ExportFails(r)
  BY <1>2, <1>f DEF ProfileInvalid, CollectFails, PersistFails, ExportFails
<1>3. CASE \/ StartCollecting(r) \/ CollectorProgress(r) \/ ReportCoverage(r)
           \/ AnnouncePersist(r) \/ AnnounceDone(r)
  BY <1>3, <1>p DEF StartCollecting, CollectorProgress, ReportCoverage, AnnouncePersist,
                    AnnounceDone, Stage
<1>4. CASE ValidateEdge(r) \/ ScoreTrust(r)
  BY <1>4, <1>p, <1>s DEF ValidateEdge, ScoreTrust, RunModule, Stage, control
<1>5. CASE CollectorWarning(r)
  <2>1. current' = appendLog(current, r, "warning") /\ "warning" \in LogLine
    BY <1>5 DEF CollectorWarning, LogLine
  <2>2. QED BY <1>t, <2>1, AppendLogType, AppendLogBound DEF GoesOn
<1>6. CASE \/ CollectReturns(r) \/ PersistReturns(r) \/ ExportReturns(r)
           \/ EvaluateAlerts(r)
  BY <1>6, <1>s DEF CollectReturns, PersistReturns, ExportReturns, EvaluateAlerts, control
<1>7. CASE ScanComplete(r)
  <2> DEFINE u == updateRun(current, r, "scan_complete")
  <2>1. /\ u \in Record /\ u.runID = r /\ u.status = "running" /\ u.log = current.log
    BY ZenonT(30), <1>t, UpdateRunType DEF updateRun, Record, Stage
  <2>2. current' = [u EXCEPT !.scanID = r] /\ pc[r] = "scan_complete"
    BY <1>7 DEF ScanComplete, Goto, updateRunWithScanID
  <2> HIDE DEF u
  <2>3. /\ current'.runID = r /\ current'.status = "running" /\ current'.scanID = r
        /\ current'.log = current.log
    BY <2>1, <2>2 DEF Record
  <2>4. QED BY <2>2, <2>3 DEF GoesOn
<1>8. CASE finishRun(r)
  <2>1. pc[r] = "finish"
    BY <1>8 DEF finishRun, Goto
  <2>2. current' = finishRecord(current, r, finalMessage(r))
    BY <1>8 DEF finishRun, finalMessage
  <2>3. QED BY <2>1, <2>2
<1>9. QED
  BY <1>1, <1>2, <1>3, <1>4, <1>5, <1>6, <1>7, <1>8 DEF Step

\* The line appended last is the last one.
LEMMA LastOfAppend ==
  ASSUME NEW S, NEW s \in Seq(S), NEW e \in S, NEW n \in Nat, Len(s) <= n
  PROVE  Len(Append(s, e)) <= n + 1 /\ Append(s, e)[Len(Append(s, e))] = e
<1>1. /\ Len(Append(s, e)) = Len(s) + 1
      /\ Append(s, e)[Len(s) + 1] = e
  BY AppendProperties
<1>2. QED
  BY <1>1, LenProperties

\* What the two endings leave in the record.
LEMMA FailRecordLog ==
  ASSUME NEW c \in Record, Len(c.log) <= LogLimit
  PROVE  /\ failRecord(c).runID = c.runID /\ failRecord(c).status = "failed"
         /\ failRecord(c).scanID = c.scanID
         /\ Len(failRecord(c).log) <= LogLimit + 1
         /\ failRecord(c).log[Len(failRecord(c).log)] = "FAILED"
<1>1. c.log \in Seq(LogLine) /\ "FAILED" \in LogLine
  BY DEF Record, LogLine
<1>2. failRecord(c).log = Append(c.log, "FAILED")
  BY DEF failRecord, Record
<1>3. /\ Len(failRecord(c).log) <= LogLimit + 1
      /\ failRecord(c).log[Len(failRecord(c).log)] = "FAILED"
  BY <1>1, <1>2, LastOfAppend
<1>4. QED
  BY <1>3 DEF failRecord, Record

\* The final line is added to a log within its limit.
LEMMA FinishRecordLog ==
  ASSUME NEW c \in Record, Len(c.log) <= LogLimit, NEW id, NEW message
  PROVE  /\ finishRecord(c, id, message).runID = c.runID
         /\ finishRecord(c, id, message).status = "completed"
         /\ finishRecord(c, id, message).scanID = id
         /\ finishRecord(c, id, message).message = message
         /\ Len(finishRecord(c, id, message).log) <= LogLimit + 1
         /\ finishRecord(c, id, message).log[Len(finishRecord(c, id, message).log)] = "DONE"
<1>1. c.log \in Seq(LogLine) /\ "DONE" \in LogLine
  BY DEF Record, LogLine
<1>2. finishRecord(c, id, message).log = Append(c.log, "DONE")
  BY DEF finishRecord, Record
<1>3. /\ Len(finishRecord(c, id, message).log) <= LogLimit + 1
      /\ finishRecord(c, id, message).log[Len(finishRecord(c, id, message).log)] = "DONE"
  BY <1>1, <1>2, LastOfAppend
<1>4. QED
  BY <1>3 DEF finishRecord, Record

-----------------------------------------------------------------------------
(* The invariant is inductive.                                             *)

\* While a goroutine is at work, the log has room for its last line.
LEMMA RunningLog ==
  ASSUME LogBounded, current.status = "running"
  PROVE  Len(current.log) <= LogLimit
BY DEF LogBounded

\* No run has an outcome at the start.
LEMMA InitOutcome == Init => OInv
<1> SUFFICES ASSUME Init PROVE OInv
  OBVIOUS
<1>1. \A r \in Runs : WorkDone(r)
  BY DEF Init, WorkDone, Uncovered, Covered, Written
<1>2. EndedIsLatest /\ CompletionHonest /\ ShownScanIsOnDisk /\ LogBounded
  BY DEF Init, idleRecord, EndedIsLatest, CompletionHonest, ShownScanIsOnDisk, LogBounded
<1>3. QED
  BY <1>1, <1>2 DEF OInv

\* A step of the goroutine that owns the record.
LEMMA StepOutcome ==
  ASSUME TypeOK, IInv, OInv, NEW r \in Runs, Step(r)
  PROVE  OInv'
<1>1. Live(r) /\ current.runID = r /\ current.status = "running" /\ r = started
  BY StepKinds DEF IInv, SingleFlight, ActiveIsLatest
<1>2. current \in Record /\ Len(current.log) <= LogLimit
  BY <1>1, RunningLog DEF OInv, TypeOK
<1>3. Frame(r)
  BY StepFrame
<1>4. WorkDone(r)'
  <2>1. r <= started /\ WorkDone(r)
    BY <1>1 DEF OInv, Runs
  <2>2. QED BY <2>1, StepWork
<1>5. \A q \in Runs \ {r} : WorkDone(q)'
  <2>1. ASSUME NEW q \in Runs \ {r} PROVE WorkDone(q)'
    <3>1. /\ pc'[q] = pc[q] /\ partial'[q] = partial[q] /\ started' = started
          /\ coverageWarning'[q] = coverageWarning[q] /\ request'[q] = request[q]
          /\ onDisk \subseteq onDisk' /\ exported \subseteq exported'
          /\ alerted \subseteq alerted'
      BY <1>3 DEF Frame
    <3>2. WorkDone(q)
      BY DEF OInv
    <3>3. QED BY <3>1, <3>2 DEF WorkDone
  <2>2. QED BY <2>1
<1>6. \A q \in Runs : WorkDone(q)'
  BY <1>4, <1>5
<1>7. EndedIsLatest' /\ CompletionHonest' /\ ShownScanIsOnDisk' /\ LogBounded'
  <2>1. CASE GoesOn(r)
    <3>1. current'.scanID # NoRun => current'.scanID \in onDisk'
      <4>1. CASE current'.scanID = current.scanID
        BY <1>3, <4>1 DEF OInv, ShownScanIsOnDisk, Frame
      <4>2. CASE pc[r] = "scan_complete" /\ current'.scanID = r
        BY <1>3, <4>2 DEF OInv, WorkDone, Written, Frame
      <4>3. QED BY <2>1, <4>1, <4>2 DEF GoesOn
    <3>2. QED
      BY <2>1, <3>1
      DEF GoesOn, EndedIsLatest, CompletionHonest, ShownScanIsOnDisk, LogBounded
  <2>2. CASE current' = failRecord(current) /\ pc'[r] = "failed"
    <3>1. /\ current'.runID = r /\ current'.status = "failed"
          /\ current'.scanID = current.scanID
          /\ Len(current'.log) <= LogLimit + 1 /\ current'.log[Len(current'.log)] = "FAILED"
      BY <1>1, <1>2, <2>2, FailRecordLog
    <3>2. EndedIsLatest' /\ CompletionHonest' /\ LogBounded'
      BY <1>1, <1>3, <3>1 DEF EndedIsLatest, CompletionHonest, LogBounded, Frame
    <3>3. ShownScanIsOnDisk'
      BY <1>3, <3>1 DEF OInv, ShownScanIsOnDisk, Frame
    <3>4. QED BY <3>2, <3>3
  <2>3. CASE pc[r] = "finish" /\ current' = finishRecord(current, r, finalMessage(r))
    <3>2. /\ current'.runID = r /\ current'.status = "completed" /\ current'.scanID = r
          /\ current'.message = finalMessage(r)
          /\ Len(current'.log) <= LogLimit + 1 /\ current'.log[Len(current'.log)] = "DONE"
      BY <1>1, <1>2, <2>3, FinishRecordLog
    <3>3. /\ r \in onDisk' /\ r \in alerted' /\ (request'[r].neo4j => r \in exported')
          /\ coverageWarning[r] = partial[r]
      <4>1. WorkDone(r)
        BY DEF OInv
      <4>2. /\ r \in onDisk /\ r \in alerted /\ (request[r].neo4j => r \in exported)
            /\ coverageWarning[r] = partial[r]
        BY <2>3, <4>1 DEF WorkDone, Written, Covered
      <4>3. QED BY <1>3, <4>2 DEF Frame
    <3>4. partial'[r] = partial[r]
      <4>1. finishRun(r) \/ partial'[r] = partial[r]
        BY <2>3 DEF Step, Goto, BeginValidation, ProfileValid, ProfileInvalid,
           StartCollecting, CollectorWarning, CollectorProgress, CollectFails,
           CollectReturns, ReportCoverage, ValidateEdge, ScoreTrust, RunModule,
           AnnouncePersist, PersistFails, PersistReturns, AnnounceDone, ScanComplete,
           BeginExport, ExportFails, ExportReturns, EvaluateAlerts, failRun
      <4>2. QED BY <4>1 DEF finishRun, locals
    <3>5. (current'.message = "scan completed - partial coverage") = partial'[r]
      BY <3>2, <3>3, <3>4 DEF finalMessage, TypeOK
    <3>6. CompletionHonest' /\ ShownScanIsOnDisk'
      BY <3>2, <3>3, <3>5 DEF CompletionHonest, ShownScanIsOnDisk
    <3>7. EndedIsLatest' /\ LogBounded'
      BY <1>1, <1>3, <3>2 DEF EndedIsLatest, LogBounded, Frame
    <3>8. QED BY <3>6, <3>7
  <2>4. QED
    BY <1>1, <1>2, <2>1, <2>2, <2>3, RecordStep
<1>8. QED
  BY <1>6, <1>7 DEF OInv

\* A start, of a run that no goroutine has worked on yet.
LEMMA StartOutcome ==
  ASSUME TypeOK, OInv, NEW req \in Requests, StartScan(req)
  PROVE  OInv'
<1> DEFINE new == started + 1
<1>1. new \in Runs /\ started \in Nat
  BY DEF StartScan, TypeOK, Runs
<1>2. pc[new] = "none"
  BY <1>1 DEF OInv, WorkDone
<1>3. /\ pc'[new] = "spawned" /\ started' = new
      /\ \A q \in Runs \ {new} : pc'[q] = pc[q] /\ request'[q] = request[q]
      /\ UNCHANGED <<coverageWarning, partial, onDisk, exported, alerted>>
  BY <1>1 DEF StartScan, TypeOK, disk
<1>4. current' = startRecord(new)
  BY DEF StartScan
<1> HIDE DEF new
<1>5. ASSUME NEW q \in Runs PROVE WorkDone(q)'
  <2>1. WorkDone(q) /\ q \in Nat
    BY DEF OInv, Runs
  <2>2. CASE q = new
    <3>1. ~ coverageWarning[q] /\ ~ (q > new)
      BY <1>1, <1>2, <2>1, <2>2 DEF WorkDone, Uncovered
    <3>2. QED BY <1>3, <2>2, <3>1 DEF WorkDone, Uncovered, Covered, Written
  <2>3. CASE q # new
    <3>1. q > new => q > started
      BY <1>1, <2>1 DEF new
    <3>2. QED BY <1>3, <2>1, <2>3, <3>1 DEF WorkDone
  <2>4. QED BY <2>2, <2>3
<1>6. /\ current'.status = "running" /\ current'.scanID = NoRun
      /\ current'.log = << >>
  BY <1>4 DEF startRecord
<1>7. EndedIsLatest' /\ CompletionHonest' /\ ShownScanIsOnDisk' /\ LogBounded'
  BY <1>6 DEF EndedIsLatest, CompletionHonest, ShownScanIsOnDisk, LogBounded
<1>8. QED
  BY <1>5, <1>7 DEF OInv

\* A restart kills the goroutines and forgets the record.
LEMMA RestartOutcome ==
  ASSUME TypeOK, OInv, Restart
  PROVE  OInv'
<1>1. ASSUME NEW q \in Runs PROVE WorkDone(q)'
  <2>1. /\ pc'[q] = IF Live(q) THEN "killed" ELSE pc[q]
        /\ UNCHANGED <<request, coverageWarning, partial, onDisk, exported, alerted, started>>
    BY DEF Restart, locals, disk
  <2>2. WorkDone(q)
    BY DEF OInv
  <2>3. q > started => ~ Live(q)
    BY <2>2 DEF WorkDone, Live, LivePc
  <2>4. QED BY <2>1, <2>2, <2>3 DEF WorkDone, Uncovered, Covered, Written
<1>2. /\ current'.status = "idle" /\ current'.scanID = NoRun /\ current'.log = << >>
  BY DEF Restart, idleRecord
<1>3. EndedIsLatest' /\ CompletionHonest' /\ ShownScanIsOnDisk' /\ LogBounded'
  BY <1>2 DEF EndedIsLatest, CompletionHonest, ShownScanIsOnDisk, LogBounded
<1>4. QED
  BY <1>1, <1>3 DEF OInv

\* The invariant of the outcomes is inductive, given that of the runs.
LEMMA NextOutcome == TypeOK /\ IInv /\ OInv /\ [Next]_vars => OInv'
<1> SUFFICES ASSUME TypeOK, IInv, OInv, [Next]_vars PROVE OInv'
  OBVIOUS
<1>1. CASE UNCHANGED vars
  BY <1>1 DEF vars, OInv, WorkDone, EndedIsLatest, CompletionHonest, ShownScanIsOnDisk,
              LogBounded
<1>2. QED
  BY <1>1, StepOutcome, StartOutcome, RestartOutcome DEF Next

\* The invariant of the outcomes holds in every reachable state.
LEMMA OutcomeInductive == Spec => []OInv
<1>1. QED
  BY TypeCorrect, Inductive, InitOutcome, NextOutcome, PTL DEF Spec

(* "Completed" is honest for any number of runs and restarts: the scan is  *)
(* on disk, the alert rules saw it, the export that was asked for is done, *)
(* and the message mentions partial coverage exactly when there was any.   *)
THEOREM CompletionHonestHolds == Spec => []CompletionHonest
<1>1. OInv => CompletionHonest
  BY DEF OInv
<1>2. QED
  BY <1>1, OutcomeInductive, PTL

(* A scan id is shown only once the directory behind it is complete, and   *)
(* stays good when the run fails later.                                    *)
THEOREM ShownScanIsOnDiskHolds == Spec => []ShownScanIsOnDisk
<1>1. OInv => ShownScanIsOnDisk
  BY DEF OInv
<1>2. QED
  BY <1>1, OutcomeInductive, PTL

(* The log never outgrows its limit and the final line, and ends with the  *)
(* outcome, for any limit and any number of warnings.                      *)
THEOREM LogBoundedHolds == Spec => []LogBounded
<1>1. OInv => LogBounded
  BY DEF OInv
<1>2. QED
  BY <1>1, OutcomeInductive, PTL

(* Once a run has ended nothing but the next start or a restart changes    *)
(* what is shown of it: no goroutine is left that could.                   *)
THEOREM EndedRecordIsFinalHolds == Spec => EndedRecordIsFinal
<1> DEFINE Final == current.status \in {"completed", "failed"} =>
                      \/ current' = idleRecord
                      \/ current' = startRecord(current.runID + 1)
<1>1. TypeOK /\ IInv /\ OInv /\ [Next]_vars => [Final]_current
  <2> SUFFICES ASSUME TypeOK, IInv, OInv, [Next]_vars,
                      current.status \in {"completed", "failed"}
               PROVE  \/ UNCHANGED current
                      \/ current' = idleRecord
                      \/ current' = startRecord(current.runID + 1)
    OBVIOUS
  <2>1. ASSUME NEW req \in Requests, StartScan(req)
        PROVE  current' = startRecord(current.runID + 1)
    BY <2>1 DEF StartScan, OInv, EndedIsLatest
  <2>2. ASSUME NEW r \in Runs, Step(r) PROVE FALSE
    BY <2>2, StepKinds DEF IInv, SingleFlight
  <2>3. CASE Restart
    BY <2>3 DEF Restart
  <2>4. CASE UNCHANGED vars
    BY <2>4 DEF vars
  <2>5. QED
    BY <2>1, <2>2, <2>3, <2>4 DEF Next
<1>2. QED
  BY <1>1, TypeCorrect, Inductive, OutcomeInductive, PTL DEF Spec, EndedRecordIsFinal

-----------------------------------------------------------------------------
(* Refinement.                                                             *)

\* With a goroutine at work, the register's active run is that goroutine's.
LEMMA ActiveRunIs ==
  ASSUME NEW r \in Runs, Live(r), \A q \in Runs : Live(q) => q = r
  PROVE  activeRun = r
BY DEF activeRun

\* With none, the register has no active run.
LEMMA NoActiveRun ==
  ASSUME \A q \in Runs : ~ Live(q)
  PROVE  activeRun = NoRun
BY DEF activeRun

\* The same two facts about the next state.
LEMMA ActiveRunIsPrimed ==
  ASSUME NEW r \in Runs, Live(r)', \A q \in Runs : Live(q)' => q = r
  PROVE  activeRun' = r
BY DEF activeRun

\* Without a live goroutine no run is active after the step.
LEMMA NoActiveRunPrimed ==
  ASSUME \A q \in Runs : ~ Live(q)'
  PROVE  activeRun' = NoRun
BY DEF activeRun

\* Every step of the control center is a step of the register or a stutter.
LEMMA StepSimulation ==
  TypeOK /\ IInv /\ [Next]_vars => [Register!RNext]_(Register!regvars)
<1> SUFFICES ASSUME TypeOK, IInv, [Next]_vars
             PROVE  [Register!RNext]_(Register!regvars)
  OBVIOUS
<1>1. CASE \E req \in Requests : StartScan(req)
  <2>1. PICK req \in Requests : StartScan(req)
    BY <1>1
  <2>2. PICK new \in Runs : new = started + 1
    BY <2>1 DEF StartScan, TypeOK, Runs
  <2>3. \A q \in Runs : ~ Live(q)
    BY <2>1 DEF StartScan, IInv, SingleFlight
  <2>4. /\ started' = new /\ current'.status = "running" /\ UNCHANGED history
        /\ pc'[new] = "spawned" /\ \A q \in Runs \ {new} : pc'[q] = pc[q]
    BY <2>1, <2>2 DEF StartScan, startRecord, TypeOK
  <2>5. Live(new)' /\ \A q \in Runs : Live(q)' => q = new
    <3>1. pc'[new] \in LivePc
      BY <2>4 DEF LivePc
    <3>2. QED BY <2>3, <2>4, <3>1 DEF Live
  <2>6. activeRun = 0 /\ activeRun' = new
    BY <2>2, <2>3, <2>5, NoActiveRun, ActiveRunIsPrimed DEF NoRun
  <2>7. Register!Accept
    BY <2>2, <2>4, <2>6 DEF Register!Accept
  <2>8. QED
    BY <2>7 DEF Register!RNext
<1>2. CASE \E r \in Runs : Step(r)
  <2>1. PICK r \in Runs : Step(r)
    BY <1>2
  <2>2. Live(r) /\ (Continues(r) \/ Ends(r, "failed") \/ Ends(r, "completed"))
    BY <2>1, StepKinds DEF IInv, SingleFlight
  <2>3. \A q \in Runs : Live(q) => q = r
    BY <2>2 DEF IInv, ActiveIsLatest
  <2>4. activeRun = r
    BY <2>2, <2>3, ActiveRunIs
  <2>5. CASE Continues(r)
    <3>1. Live(r)' /\ \A q \in Runs : Live(q)' => q = r
      BY <2>3, <2>5 DEF Continues, Live
    <3>2. activeRun' = r
      BY <3>1, ActiveRunIsPrimed
    <3>3. current'.status = current.status
      BY <2>2, <2>5 DEF Continues, IInv, SingleFlight
    <3>4. QED
      BY <2>4, <2>5, <3>2, <3>3 DEF Continues, Register!regvars
  <2>6. ASSUME NEW outcome \in {"failed", "completed"}, Ends(r, outcome)
        PROVE  Register!RNext
    <3>1. \A q \in Runs : ~ Live(q)'
      BY <2>3, <2>6 DEF Ends, Live, LivePc
    <3>2. activeRun' = 0
      BY <3>1, NoActiveRunPrimed DEF NoRun
    <3>3. activeRun # 0
      BY <2>4 DEF Runs
    <3>4. Register!End(outcome)
      BY <2>4, <2>6, <3>2, <3>3
      DEF Register!End, Ends, appendHistory, KeepFirst
    <3>5. QED
      BY <3>4 DEF Register!RNext
  <2>7. QED
    BY <2>2, <2>5, <2>6
<1>3. CASE Restart
  <2>1. \A q \in Runs : ~ Live(q)'
    BY <1>3 DEF Restart, Live, LivePc
  <2>2. activeRun' = 0
    BY <2>1, NoActiveRunPrimed DEF NoRun
  <2>3. Register!Forget
    BY <1>3, <2>2 DEF Restart, idleRecord, Register!Forget
  <2>4. QED
    BY <2>3 DEF Register!RNext
<1>4. CASE UNCHANGED vars
  BY <1>4 DEF vars, Register!regvars, activeRun, Live
<1>5. QED
  BY <1>1, <1>2, <1>3, <1>4 DEF Next

(* The control center, with its goroutines, locks and restarts, implements *)
(* the register: one run at a time, one outcome per run, the newest kept.  *)
THEOREM Refinement == Spec => ImplementsRegister
<1>1. Init => Register!RInit
  <2> SUFFICES ASSUME Init PROVE Register!RInit
    OBVIOUS
  <2>1. \A q \in Runs : ~ Live(q)
    BY DEF Init, Live, LivePc
  <2>2. activeRun = 0
    BY <2>1, NoActiveRun DEF NoRun
  <2>3. QED
    BY <2>2 DEF Init, idleRecord, Register!RInit
<1>2. Spec => []TypeOK /\ []IInv
  BY TypeCorrect, Inductive, PTL
<1>3. QED
  BY <1>1, <1>2, StepSimulation, PTL
  DEF Spec, ImplementsRegister, Register!RSpec
=============================================================================
