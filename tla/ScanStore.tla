----------------------------- MODULE ScanStore ------------------------------
(***************************************************************************)
(* The directory of scans: how persist (internal/pipeline/pipeline.go)     *)
(* writes one, how it is loaded, which one is the latest (internal/scans), *)
(* and which one the alert rule "new critical findings" compares a scan    *)
(* with (internal/alerting/evaluator.go).                                  *)
(*                                                                         *)
(* The dashboard and the command line scan into one directory at once; the *)
(* dashboard evaluates its rule after its own scan, the command line none. *)
(* The files of a scan are written in place, one after another: a reader   *)
(* can find any of them absent, empty or torn, and so they stay when the   *)
(* writer fails or dies.  A scan is numbered in the order of its directory *)
(* name; no two scans are named in one second, so none writes into the     *)
(* directory of another.                                                   *)
(***************************************************************************)
EXTENDS Naturals, FiniteSets, FiniteSetsExt

CONSTANTS
  Dashboard, CommandLine, \* the two processes that scan
  Visitors,   \* API requests that resolve "latest" at once
  Records,    \* DNS records that can have a finding
  MaxScans,   \* bound: scans that reach persist
  MaxFailures \* bound: writes that fail, and crashes

Writers == {Dashboard, CommandLine}
Readers == {Dashboard} \cup Visitors
Scans   == 1..MaxScans
NoScan  == 0

ASSUME ScanStoreAssumption ==
  /\ MaxScans \in Nat /\ MaxFailures \in Nat
  /\ Dashboard # CommandLine /\ Writers \cap Visitors = {}

\* What a scan finds of a record: nothing; reclaimable and critical; the same
\* downgraded by the coverage guard; dangling and high.
Found == {"nothing", "critical", "guarded", "dangling"}

\* The title of a finding names its claimability.
diffIdentity(r, found) == <<r, IF found = "dangling" THEN "dangling" ELSE "reclaimable">>

identities(content) ==
  {diffIdentity(r, content[r]) : r \in {q \in Records : content[q] # "nothing"}}

VARIABLES
  files,    \* files[s]: the states of the two files a load reads
  stamp,    \* stamp[s]: the order of the Timestamps in the metadata, 0 for none
  writing,  \* writing[w]: the scan w persists or evaluates, and how far it is
  reading,  \* reading[r]: a walk over the directories, and what it came to
  started,  \* scans that have a directory
  failures, \* counts against MaxFailures
  acked     \* history: scans whose pipeline.Run returned

disk == <<files, stamp, started>>
vars == <<files, stamp, writing, reading, started, failures, acked>>

File     == {"absent", "empty", "torn", "whole"}
Stage    == {"idle", "metadata", "stamped", "findings", "rest", "evaluate"}
Idle     == [at |-> "idle", scan |-> NoScan]
Nothing  == [r \in Records |-> "nothing"]
NoWalk   == [at |-> "idle", todo |-> {}, metadata |-> "absent", loaded |-> << >>,
             since |-> {}, answer |-> NoScan, now |-> Nothing, old |-> Nothing, fresh |-> {}]
\* Times are twice a stamp, so that a modification time fits between two.
Times    == 0..(2 * MaxScans + 1)

TypeOK ==
  /\ files \in [Scans -> [metadata : File, findings : File]]
  /\ stamp \in [Scans -> 0..MaxScans]
  /\ writing \in [Writers -> [at : Stage, scan : Scans \cup {NoScan}]]
  /\ \A r \in Readers :
        /\ reading[r].at \in {"idle", "metadata", "findings", "answered", "reported"}
        /\ reading[r].metadata \in {"absent", "empty", "whole"}
        /\ reading[r].todo \subseteq Scans /\ DOMAIN reading[r].loaded \subseteq Scans
        /\ \A s \in DOMAIN reading[r].loaded :
              reading[r].loaded[s] \in Times /\ s \notin reading[r].todo
        /\ reading[r].answer \in 0..started /\ reading[r].fresh \subseteq Records
  /\ started \in 0..MaxScans /\ failures \in 0..MaxFailures
  /\ acked \subseteq 1..started

-----------------------------------------------------------------------------
(* Writing a scan.                                                         *)

Goto(w, at) == writing' = [writing EXCEPT ![w].at = at]

\* pipeline.Run names the scan after the second.  persist makes the directory
\* some time before buildMetadata.
BeginPersist(w) ==
  /\ writing[w].at = "idle"
  /\ started < MaxScans
  /\ started' = started + 1
  /\ writing' = [writing EXCEPT ![w] = [at |-> "metadata", scan |-> started + 1]]
  /\ UNCHANGED <<files, stamp, reading, failures, acked>>

Stamps == Cardinality({s \in Scans : stamp[s] > 0})

buildMetadata(w) ==
  /\ writing[w].at = "metadata"
  /\ stamp' = [stamp EXCEPT ![writing[w].scan] = Stamps + 1]
  /\ Goto(w, "stamped")
  /\ UNCHANGED <<files, reading, started, failures, acked>>

\* The file w is at, and the stage after it.
FileAt(w)  == IF writing[w].at = "stamped" THEN "metadata" ELSE "findings"
Written(w) == files[writing[w].scan][FileAt(w)]

\* writeJSONFile: the file is created, or filled up to some byte, or finished.
writeJSONFile(w) ==
  /\ writing[w].at \in {"stamped", "findings"}
  /\ \E to \in {"empty", "torn", "whole"} :
        /\ <<Written(w), to>> \in {<<"absent", "empty">>, <<"empty", "torn">>,
                                   <<"empty", "whole">>, <<"torn", "whole">>}
        /\ files' = [files EXCEPT ![writing[w].scan][FileAt(w)] = to]
        /\ writing' = IF to # "whole" THEN writing
                      ELSE [writing EXCEPT ![w].at =
                              IF @ = "stamped" THEN "findings" ELSE "rest"]
  /\ UNCHANGED <<stamp, reading, started, failures, acked>>

\* assets.json and relationships.json are written, and Run returns; the
\* dashboard goes on to its rules.
FinishPersist(w) ==
  /\ writing[w].at = "rest"
  /\ acked' = acked \cup {writing[w].scan}
  /\ writing' = [writing EXCEPT ![w] = IF w = Dashboard THEN [@ EXCEPT !.at = "evaluate"] ELSE Idle]
  /\ UNCHANGED <<disk, reading, failures>>

\* A write fails or the process dies: what is on disk stays.
Stop(w) ==
  /\ writing[w].at # "idle" /\ failures < MaxFailures
  /\ failures' = failures + 1
  /\ writing' = [writing EXCEPT ![w] = Idle]
  /\ reading' = [r \in Readers |-> IF r = w THEN NoWalk ELSE reading[r]]
  /\ UNCHANGED <<disk, acked>>

-----------------------------------------------------------------------------
(* Loading scans.                                                          *)

\* The next directory of a walk: ListScanIDs sorts them.
Here(r) == Min(reading[r].todo)

\* Scans whose directory may not exist yet.
Unmade == {writing[w].scan : w \in {u \in Writers : writing[u].at = "metadata"}}

\* ListScanIDs: the directories there are now.
ListScanIDs(r) ==
  /\ reading[r].at = "idle"
  /\ r = Dashboard => writing[r].at = "evaluate"
  /\ \E unmade \in SUBSET Unmade :
        reading' = [reading EXCEPT ![r] =
           [NoWalk EXCEPT !.at = "metadata", !.todo = 1..started \ unmade, !.since = acked]]
  /\ UNCHANGED <<disk, writing, failures, acked>>

\* Mutant: what cannot be parsed is used.
readMetadataLax(r) ==
  /\ reading[r].at = "metadata" /\ reading[r].todo # {}
  /\ reading' = [reading EXCEPT ![r].at = "findings",
                                ![r].metadata = files[Here(r)].metadata]
  /\ UNCHANGED <<disk, writing, failures, acked>>

\* readMetadata: a torn file is an error, and the directory is skipped.
readMetadata(r) ==
  /\ reading[r].at = "metadata" /\ reading[r].todo # {}
  /\ LET file == files[Here(r)].metadata IN
     reading' = [reading EXCEPT ![r] =
        IF file = "torn" THEN [reading[r] EXCEPT !.todo = @ \ {Here(r)}]
                         ELSE [reading[r] EXCEPT !.at = "findings", !.metadata = file]]
  /\ UNCHANGED <<disk, writing, failures, acked>>

\* SortTimestamp of what was loaded: an empty file has no timestamp and is the
\* oldest; without a file it is the directory's modification time, which is
\* later than the scan's own stamp and may be later than other ones.
SortTimestamp(r, s) ==
  CASE reading[r].metadata = "whole"  -> {2 * stamp[s]}
    [] reading[r].metadata = "empty"  -> {0}
    [] reading[r].metadata = "absent" -> {2 * t + 1 : t \in stamp[s]..Stamps}

\* readFindings: an empty file holds no findings; a missing or torn one is an
\* error, and the directory is skipped.
readFindings(r) ==
  /\ reading[r].at = "findings"
  /\ LET s == Here(r) IN
     \E time \in SortTimestamp(r, s) :
        reading' = [reading EXCEPT
           ![r].at = "metadata", ![r].metadata = "absent", ![r].todo = @ \ {s},
           ![r].loaded = IF files[s].findings \notin {"empty", "whole"} THEN @
                         ELSE [q \in DOMAIN @ \cup {s} |-> IF q = s THEN time ELSE @[q]]]
  /\ UNCHANGED <<disk, writing, failures, acked>>

Walked(r) == reading[r].at = "metadata" /\ reading[r].todo = {}

\* Mutant: names decide, not timestamps.
BeforeByName(loaded, a, b) == a > b

\* Scan a comes before scan b in a list of the newest first.
Before(loaded, a, b) == loaded[a] > loaded[b] \/ (loaded[a] = loaded[b] /\ a < b)

\* The first of a set of loaded scans.
Newest(loaded, set) ==
  IF set = {} THEN NoScan
  ELSE CHOOSE a \in set : \A b \in set \ {a} : Before(loaded, a, b)

ResolveLatestScanID(v) ==
  /\ Walked(v)
  /\ reading' = [reading EXCEPT ![v] =
        [NoWalk EXCEPT !.at = "answered", !.since = reading[v].since,
                       !.answer = Newest(reading[v].loaded, DOMAIN reading[v].loaded)]]
  /\ UNCHANGED <<disk, writing, failures, acked>>

Answer(v) ==
  /\ reading[v].at = "answered" /\ v \in Visitors
  /\ reading' = [reading EXCEPT ![v] = NoWalk]
  /\ UNCHANGED <<disk, writing, failures, acked>>

-----------------------------------------------------------------------------
(* The rule "new critical findings" for the scan the dashboard has done.   *)

Current == writing[Dashboard].scan

\* Mutant: the newest of the other scans.
previousScanIDNewest(loaded) == Newest(loaded, DOMAIN loaded \ {Current})

\* The scan after the current one in a list of the newest first.
previousScanID(loaded) ==
  IF Current \notin DOMAIN loaded THEN NoScan
  ELSE Newest(loaded, {s \in DOMAIN loaded \ {Current} : Before(loaded, Current, s)})

ChooseBaseline ==
  /\ Walked(Dashboard)
  /\ reading' = [reading EXCEPT ![Dashboard] =
        [NoWalk EXCEPT !.at = "answered", !.since = reading[Dashboard].since,
                       !.answer = previousScanID(reading[Dashboard].loaded)]]
  /\ UNCHANGED <<disk, writing, failures, acked>>

\* Mutant: high findings count.
newCriticalAll(content, old) ==
  {r \in Records : content[r] # "nothing" /\ diffIdentity(r, content[r]) \notin identities(old)}

newCritical(content, old) ==
  {r \in Records : content[r] = "critical" /\ diffIdentity(r, content[r]) \notin identities(old)}

Baseline == reading[Dashboard].answer

\* Without a baseline nothing is reported; the baseline's findings are read
\* again.  No step before depends on what the two scans hold, so it is chosen
\* here.
evalNewCritical ==
  /\ reading[Dashboard].at = "answered"
  /\ Baseline # NoScan => files[Baseline].findings \in {"empty", "whole"}
  /\ \E now \in [Records -> Found], old \in [Records -> Found] :
        /\ (Baseline # NoScan /\ files[Baseline].findings = "whole") \/ old = Nothing
        /\ reading' = [reading EXCEPT
             ![Dashboard].at = "reported", ![Dashboard].now = now, ![Dashboard].old = old,
             ![Dashboard].fresh = IF Baseline = NoScan THEN {} ELSE newCritical(now, old)]
  /\ UNCHANGED <<disk, writing, failures, acked>>

\* The evaluation is over; it fails when the baseline is torn meanwhile.
EndEvaluation ==
  /\ \/ reading[Dashboard].at = "reported"
     \/ reading[Dashboard].at = "answered" /\ Baseline # NoScan /\ files[Baseline].findings = "torn"
  /\ reading' = [reading EXCEPT ![Dashboard] = NoWalk]
  /\ writing' = [writing EXCEPT ![Dashboard] = Idle]
  /\ UNCHANGED <<disk, failures, acked>>

-----------------------------------------------------------------------------

Init ==
  /\ files = [s \in Scans |-> [metadata |-> "absent", findings |-> "absent"]]
  /\ stamp = [s \in Scans |-> 0]
  /\ writing = [w \in Writers |-> Idle] /\ reading = [r \in Readers |-> NoWalk]
  /\ started = 0 /\ failures = 0 /\ acked = {}

persist(w) == BeginPersist(w) \/ buildMetadata(w) \/ writeJSONFile(w) \/ FinishPersist(w) \/ Stop(w)

LoadScanArtifacts(r) == readMetadata(r) \/ readFindings(r)

Next ==
  \/ \E w \in Writers : persist(w)
  \/ \E r \in Readers : ListScanIDs(r) \/ LoadScanArtifacts(r)
  \/ \E v \in Visitors : ResolveLatestScanID(v) \/ Answer(v)
  \/ ChooseBaseline \/ evalNewCritical \/ EndEvaluation

Spec == Init /\ [][Next]_vars

-----------------------------------------------------------------------------
(* Properties.                                                             *)

(* A scan whose Run returned before a request is never hidden from it by   *)
(* an older one: "latest" resolves to it, to a newer one, or to one whose   *)
(* Run had not returned when the request came, whatever fails or dies      *)
(* meanwhile (latest.go:10-13).                                            *)
LatestIsNotStale ==
  \A v \in Visitors : reading[v].at = "answered" =>
     \A s \in reading[v].since :
        /\ reading[v].answer # NoScan
        /\ reading[v].answer \in reading[v].since => stamp[reading[v].answer] >= stamp[s]

(* When a scan older than the evaluated one was complete before the        *)
(* evaluation began, there is a baseline, it is older than the evaluated   *)
(* scan, and unless its Run had not returned by then it is not older than  *)
(* that one: nothing that is newer than the evaluated scan, and no older   *)
(* scan the other process was slower to write, is taken for the previous   *)
(* one (evaluator.go:362-391).                                             *)
BaselineIsPrevious ==
  reading[Dashboard].at \in {"answered", "reported"} =>
     \A s \in reading[Dashboard].since : stamp[s] < stamp[Current] =>
        /\ Baseline # NoScan /\ stamp[Baseline] < stamp[Current]
        /\ Baseline \in reading[Dashboard].since => stamp[s] <= stamp[Baseline]

\* A report against a baseline that was complete when the evaluation began.
SoundReport == reading[Dashboard].at = "reported" /\ Baseline \in reading[Dashboard].since

(* Against a complete baseline, what is reported as new was not critical   *)
(* there, and a critical finding of a record that had none there is        *)
(* reported: the files of a complete scan are the ones that are read.      *)
ReportMatchesBaseline ==
  SoundReport =>
     LET report == reading[Dashboard] IN
     /\ \A r \in report.fresh : report.now[r] = "critical" /\ report.old[r] # "critical"
     /\ \A r \in Records :
           report.now[r] = "critical" /\ report.old[r] = "nothing" => r \in report.fresh

(* "Triggers when critical findings are introduced versus previous run"    *)
(* (alerting/service.go:153): a finding that is critical and was not       *)
(* critical in the complete scan before is reported.                       *)
IntroducedIsReported ==
  SoundReport =>
     LET report == reading[Dashboard] IN
     \A r \in Records :
        report.now[r] = "critical" /\ report.old[r] # "critical" => r \in report.fresh
=============================================================================
