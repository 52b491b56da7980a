# A TLA+ development for cloudrift

cloudrift scans an AWS organization for DNS records that point at resources the
organization gave up and for trust it extends to outsiders. It is a Go program:
a command line, a scan pipeline, and a dashboard server that starts scans and
sends alerts. This directory models the parts of it in which the order of steps,
failures and shared state decide whether the result is right. Paths below are
relative to the root of the repository; `internal/` is meant where none is named.

## Inventory

| Component | State it keeps | Operations | Talks to |
| --- | --- | --- | --- |
| Scan control center (`api/handlers/scan_control.go`) | the record of the current run, the last 10 ended runs, in memory | `StartScan`, `runScanAsync` and its callbacks, `failRun`, `finishRun`, status and history reads | pipeline (call, progress callback), graph export, alert service |
| Pipeline (`pipeline/`) | locals of one `Run` | collect, validate, score, guard, persist | collectors, validators, scorers, artifacts |
| Account discovery, sessions (`collectors/org.go`, `aws/session.go`) | `Coverage`, session cache | list accounts, assume a role per account | Organizations, STS |
| Collectors (`collectors/*.go`) | slices of assets and failed accounts behind a mutex | list and describe, one goroutine per account or bucket, semaphores | AWS; `warnPartial` to the progress callback |
| Validators (`validators/http.go`) | results by record | DNS, HEAD, GET, signature match | the sites |
| Scorers (`scorers/`) | none | verdict per record, role or bucket; cost; priority | – |
| Artifacts (`scans/`, `pipeline.persist`) | one directory per scan | write, list, load, latest | file system, read by every handler |
| Alerting (`alerting/`, `api/handlers/alerting.go`) | `_alerting/rules.json`, `events.json`, `routing.json` | create, update, enable, disable, test, preview a rule; evaluate after a scan; routing catalog | evaluators, Slack |
| Graph export (`graph/`) | nodes in Neo4j, a projection, embeddings | write a scan, run graph algorithms, release the projection | scan control center, a request, command line |
| Blast radius (`blastradius/`) | none; one answer is put together from several transactions | by finding, principal, entity, one hop | handlers, queries, alert rules |
| Query, retrieval (`queryv2/`, `graph/rag.go`) | none | search by similarity, answers by intent | blast radius, language model |
| API handlers, server, progress socket (`api/`) | none of their own | reads; construct the one control center and alert service | all of the above |
| Reports, synthesis, remediation, demo, configuration | none | formatting, wiring | – |
| Dashboard (`dashboard/src`) | browser state | pages | API |

What is hard: a goroutine per scan whose callbacks write a record that HTTP
handlers read and replace; read-modify-write of rules across two lock regions;
a cooldown that is read from a bounded history; semaphores nested in one
another; verdicts that rest on the *absence* of a bucket and so on every failure
on the way having been counted; files written one after another; calls to AWS,
Slack and web sites that fail or answer late; crashes between any two of them; a
database that holds all scans at once, keeps what older ones wrote, and is read in
several transactions while an export changes it; pages, searches and alerts that
compute one number each by code of their own.
`PROJECT.json` lists each hazard at its line.

What makes a component correct:

- *scan control center*: one run at a time; every accepted run ends and is
  recorded once; what the record says is true of the disk and of the alerts.
- *alerting*: each enabled rule is answered once per scan; the cooldown
  suppresses repeats and nothing else; what operators set stays set.
- *collection and verdicts*: a verdict by absence is only as confident as the
  collection was complete; an owned bucket is never called reclaimable.
- *artifacts*: a reader sees a complete scan or none.
- *trust*: whoever outside may assume a role is in a finding, as severe as what
  speaks against it; what could not be read never makes it milder.
- *export*: once a scan is written, the graph holds all of it, whatever else is
  exported; no projection is left behind.
- *blast radius*: an answer is exactly what the scan relates to its root; the paths
  offered are paths, the best first; connecting the database never makes a finding
  milder.
- *queries and pages*: an answer that does not say so is not cut short; one page
  says what another says.
- *routing*: an alert reaches the team of an account it is about, and an alert of a
  scope depends on nothing outside it.

## Modules

| Module | Models |
| --- | --- |
| `ScanRegister` | abstract: accept a run, end it with one outcome, keep the newest outcomes |
| `ScanControl` | the control center, the goroutine of each run, the pipeline as far as it reports or fails, a restart |
| `Alerting` | rules, events, catalog; the evaluation of a rule as its sequence of store operations; operators; crash |
| `EdgeVerdict` | operators: probe, signature match, verdict, coverage guard |
| `Collection` | account, storage and bucket policy collection with their semaphores; coverage; the verdicts on a set of records |
| `ScanStore` | the directory of scans: two writers, readers of "latest", the baseline of the rule "new critical findings" |
| `Order` | names in the order Go compares them; sorted rows |
| `Priority` | what a finding costs, which of several comes first |
| `Trust` | roles, policies, activity and bucket policies from AWS to findings, any call lost |
| `GraphExport` | the statements of an export one transaction each, the clustering, several exporters, failures, deadlines, crashes |
| `BlastGraph` | the working graph of an answer and what is read off it |
| `BlastPaths` | attack paths and the curated explorer, an expansion |
| `BlastRadius` | the requests that read the graph, one action per transaction |
| `Retrieval` | search by similarity, answers of the query service |
| `AlertRules` | when a rule triggers, what it tells, where it goes |
| `Views` | the pages without the database: lists page by page, entities, overview, comparison of scans |
| `Dashboard` | all of them composed over one disk and one database |
| `ScanControl_proofs` | theorems of `ScanControl`: which runs there are; what is told of one |
| `Alerting_proofs` | theorems of `Alerting`: types and edits; the history, the cooldown, the answers |
| `Collection_proofs`, `ScanStore_proofs` | theorems of `Collection` and of `ScanStore` |
| `GraphExport_proofs`, `BlastRadius_proofs` | lemmas about the statements of an export, and about the walks, the requests and the paths of an answer |
| `Dashboard_proofs`, `Views_proofs` | theorems of `Dashboard`: the database, answers, findings and alerts; the pages |
| `MC...` | values of the constants and small instances for TLC |

`Dashboard` EXTENDS `Trust`, `AlertRules`, `Retrieval` and `Views`; those extend
`BlastRadius` (which extends `BlastPaths`, `BlastGraph` and `GraphExport`) and
`Priority`; all rest on `Order`. The first five modules have specifications of their
own, and `Dashboard` takes a scan as one step where they take it apart.

### ScanControl

`current` and `history` are the two fields behind `scanControlCenter.mu`. The
operators `appendLog`, `updateRun`, `failRecord`, ... return the record a critical
section leaves, with the run id guard the code has. An action is one critical
section, or a few of one goroutine between which nobody else can write
(`Progress` is `appendLog` and then `updateRun`). `pc[r]` is where the
goroutine of run `r` is; `request[r]` and `coverageWarning[r]` are what its
closure captured. `onDisk`, `exported` and `alerted` record which effects a run
had outside the record. Run ids are start times in nanoseconds and are numbered
in their order; two starts in one nanosecond are excluded by the lock. A scan id
stands for its run. `CollectorProgress` and `CollectorWarning` are the reports a
collection makes; the error of the alert evaluation is dropped by the code and
the evaluation is one step here (`Alerting` opens it up).

`ScanRegister` is what callers may rely on. The mapping: the active run is the
run whose goroutine exists, the status and the outcomes are those of the record
and of the history.

### Alerting

Every method of `Store` takes `Store.mu` and is one action. A process is the scan
goroutine (`Scanner`), a test request or an enable request; `job[p].copy` is the copy
of the rule it works on, which `UpsertRule` writes back *whole*. An event's `kind`
folds the delivery, suppression and error fields into what the cooldown and the
properties tell apart. Time is a counter of minutes. History variables: `posts`
(messages Slack acknowledged), `due` and `answers` (who had to be and was
answered), `intent` (what operators made of a rule), `raced` (rules an operator
wrote while somebody held a copy), `cut` (evaluations an error or a crash ended).

Slack's three ways to refuse a message (no URL, a blocked URL, an unknown
channel) cannot happen for a rule that passed `validateRule`, and are left out.

The bounds of a behaviour are chosen at its start from `Limits` and kept in `limit`, so
that one run covers three instances. `CooldownWhileRemembered` excepts behaviours
in which the history was full: the cooldown looks for its anchor among the last 500
events of all rules (`alerting/store.go:113`), so other rules can push a delivery out and
its message is repeated, whatever the form says (`Alerting.tsx:1049`).

### EdgeVerdict and Collection

A bucket or an account goes `queued`, `working`, (`fanned`,) `done`; `working` and
`fanned` hold a slot. `accountSem` is made anew in every phase, `bucketSem` is shared
by the accounts. What AWS answers is chosen by the environment; `usable` are the
accounts whose credentials turn out to work, chosen at the start. In the
validation phase each record's site is chosen from `Sites`: name resolution, how
far a probe gets, and what the site serves. A site need not agree with the bucket
the record names, because the probe asks for the record's own host name.

### ScanStore

`files[s]` is what a reader finds of the two files that loading opens, `stamp[s]` the
order of the timestamps `buildMetadata` takes. `writing[w]` is the scan a process
persists; after its own scan the dashboard evaluates the rule. `reading[r]` is a walk
over the directories, one action per file read, with the times it has collected;
its `since` is a history field, the scans whose `Run` had returned when the walk
began. Readers other than the dashboard's rule are requests and commands that
resolve `latest`; a crash of the dashboard stops its rule, and requests may finish.

`os.WriteFile` truncates and then writes, so a file is absent, empty, torn or whole. A
torn one makes the directory unreadable and it is skipped. An *empty* one does not:
an empty metadata file counts as the oldest possible scan, and an empty findings file
as a scan without findings. A directory whose writer stopped at that point, or has
not got further yet, can therefore be the latest scan or the baseline, and then every
critical finding is new; the model reaches both. The properties say what is kept for
complete scans, and except a scan whose `Run` had not returned when the walk began.

`previousScanID` compares timestamps as text. The layout drops trailing zeros, so text
order and time order differ only when two timestamps fall in one second and the
fraction of one is a prefix of the other's; that is left out. So are two scans named in
the same second, which would share a directory: scans are numbered by directory name,
each name once. Naming a scan and making its directory are one step, and a
listing may miss a directory whose scan has no timestamp yet. What the findings of
two scans are does not influence any step before they are compared, so they are
chosen there.

### Trust

A policy is the set of its statements, an action the family its prefix puts it in.
`Artifacts(aws, gone, keep)` is what a scan of `aws` leaves on disk when the calls in
`gone` were lost: what could be listed, scored by `internal/scorers`, with the accounts that
failed. Two roles may name one principal; `keep` is which of two equal nodes
survives. Every call that the code tolerates can be lost, named by what it was to read.

### GraphExport

An exporter is the dashboard after a scan, a request (with a deadline) or the command
line. `export[e].todo` is the list of statements `CompileWriteScan` returns; `RunStatement`
applies the first, in a transaction of its own, `WriteFails` ends the export where it is.
Then the projection is dropped, made, analysed and released, as `gds.go` does; `Deadline`
makes everything after it fail, the deferred drop included, and `abandoned` remembers the
scans whose projection was left for that reason. `db` keeps the nodes of all scans merged
by ARN and the edges without a scan. `written` are scans whose export ran to its last
statement, `begun` those an export has started; both are history.

### BlastGraph, BlastPaths, BlastRadius

A graph is a record of nodes and edges. `Read`, `ReadContext`, `ReadExpand` and `ReadHop` are
the transactions a request reads in; between them exports go on. Scores the code keeps as
floats are integers, ten or a hundred times as large. Where a query has a LIMIT without an
order, `Limited` leaves any rows that many. Names stand for ARNs and are ordered by `Rank`, as
Go orders the strings, since ties are broken by name. `answer.settled` records that the
scan was in the database as a whole when the request began.

### Retrieval, AlertRules, Views

`Retrieval` takes the two transactions of a search apart and leaves open which embeddings
are nearest. `AlertRules` evaluates one rule of each type on findings, with the graph asked
in the middle (`alert.phase`) and the routing catalog read after it; sending and suppressing
is `Alerting`. That an alert with a scope is about that scope (`ScopedAlertIsLocal`) is
stated of the step that evaluates: afterwards a scan with an older id may still arrive on
disk and become the previous one. In `Views` rows that come out of a Go map arrive in any order the sort
allows, anew for each page; `screen` is what one browser has put together. `summarizeScan` leaves
out the count it takes from the metadata when a scan has no findings (`scans.go:258`), as both
are of one scan here. The entry points of an entity are listed by name, the code keeps the order
of the file, which could change the node in the middle of the picture and no property is about.

### Dashboard

The world is chosen at the start: the state of AWS for the scans to come, scans already on
disk, what may be asked, and the bounds (`budget`). `RunScan` reads AWS and loses some
calls; everything else is read from disk and database from then on.

## Runs

Each passing run is exhaustive for its bounds. `CHECK_DEADLOCK FALSE` is set in all
of them because each model stops when its bounds are used up or its scan is over.

| Run | Asks | Bounds |
| --- | --- | --- |
| `scan_control` | safety of the control center; every accepted run ends; it implements `ScanRegister` with its liveness | 3 runs, 1 restart, 1 collector report, history 2, log 3: a third run overflows the history, any full run the log; full scans, and single-module scans with export |
| `scan_control_alerts` | *violated*: a completed scan reaches the alert rules | 2 runs |
| `alerting` | suppression rests on a delivery; messages keep the cooldown; recorded deliveries keep their distance; edits are lost only to a concurrent copy; one event per enabled rule and scan; an evaluation ends | history of 3 events, and one of: 1 rule, 3 scans, 1 test, 1 minute; 1 rule, 2 scans, cooldown 1 or 2, 1 edit of any kind, 1 fault, 1 crash; 2 rules, enabled or not, 2 scans, 2 faults, 1 crash |
| `alerting_disable` | *violated*: a disabled rule is not evaluated | 2 edits, 2 scans |
| `collection` | gaps reach the guard; owned is not reclaimable; no deadlock | 2 accounts, 3 buckets, 3 records, 2 account slots, 1 bucket slot: both semaphores are contended |
| `collection_gap` | *violated*: a gap in the bucket enumeration downgrades critical verdicts | 1 slot each |
| `scan_store` | latest and baseline are right for complete scans | 3 scans of 2 processes, 1 reader besides the rule, 1 failed write or crash, 1 record: a baseline, a scan in between and the evaluated one |
| `scan_store_introduced` | *violated*: a finding that became critical is reported as new | 2 scans, no failure |
| `dashboard` | what the screen, a search and an alert say is what AWS said, whatever runs at the same time | the worlds below |
| `dashboard_unread` | *violated*: a role with an unread policy is classified unknown | the same |
| `dashboard_stale` | *violated*: an idle role that is an admin triggers the rule about stale trust | the world *Judging*: one role of any kind and this rule |
| `dashboard_types` | *violated*: a summary names resources by their stored type | the world *Asking* |

The worlds of `dashboard` (`MCDashboard`), each with the budget that makes its case happen:

- *Reading*: one role or bucket under every mix of trust policy (accounts, roots,
  providers, `*`, denied statements), attached and inline policies, and days since last
  use around both thresholds, one call lost.
- *Through*: two roles, a bucket and a distribution from AWS over an export to one
  request, with and without a database, one call lost.
- *Asking*: every request by finding, principal, entity and hop, in both modes, on a piece
  of what `cloudrift demo generate --dense` writes.
- *Racing*: two scans of one role and two exports at once, with one failed statement, one
  deadline or one crash; or a request or a search among them.
- *Wondering*: every intent of the query service, a transaction of which may fail.
- *Alerted*: every type of rule with every scope and several thresholds on two scans, and
  catalogs saved before or during the evaluation: double rows, unknown teams, webhooks that
  are refused, no default; the same with the database connected; and *Judging*, one role of
  any kind under the rule about stale trust.
- *Browsing*: every list, filter and page size (1, 2, 4), drill-down, overview, and the
  comparison of two scans of one role as its outsiders, permissions and age change.

| Constant | In `dashboard` | In the code |
| --- | --- | --- |
| `NodeCap`, `EdgeCap` | 7, 10 | 80, 120 |
| `MaxHops`, `AttackLimit` | 2, 9 | 4, 60 |
| `HopEdges`, `HopNeighbors` | 3, 2 | 24, 8 |
| `MaxPathDepth`, `MaxCandidates`, `MaxVariants` | 4, 8, 3 | 6, 24, 3 |
| `BroadResources`, `BroadAccounts` | 5, 3 | 12, 4 |
| `DefaultTopK`, `MaxTopK`, `QuestionTopK` | 1, 2, 2 | 10, 100, 5 |
| `ProbeFactor`, `ProbeMin`, `ProbeMax` | 1, 1, 2 | 20, 64, 2000 |
| `StaleDays`, `GhostDays` | 3, 5 | configuration |

Bounds only end a behaviour earlier. The hazards need at most two actors and one
overflow of each limit: three runs with a history of two, three scans around one
window, one more bucket than slots, a graph with one more node, edge, path or neighbour
than a cap lets pass. `HistoryLimit`, `LogLimit` and `MaxEvents` are
10, 500 and 500 in the code; only their being exceeded matters.

### Fairness

`ScanControl`: weak fairness of each goroutine. Go's scheduler runs a ready
goroutine, and each call it waits for returns: the AWS SDK gives up after its
retries, probes and Slack have client timeouts, the locks are held for memory or
file operations only. Neo4j is called with a background context; that its driver
returns is an assumption. `Alerting`: the same for the scan goroutine only;
nothing is assumed of operators. `Collection`: weak fairness of the whole next-state
relation is enough, since every action makes progress and none repeats. `Dashboard`
states no fairness: its properties are about what is said, and nothing in it waits.

### What the violated runs show

1. `scan_control_alerts`: a failed Neo4j export returns before the alert rules are
   evaluated, although the scan completed and is on disk.
2. `alerting_disable`: the scan goroutine writes back the rule as it was listed, so an
   operator's disabling is undone, and stays undone after everything is quiet.
3. `collection_gap`: a bucket whose location cannot be read vanishes without making
   the coverage incomplete.
4. `scan_store_introduced`: findings are compared by title and ARN, whatever their
   severity. The guard downgrades a verdict in an incomplete scan and keeps the title;
   when the next scan is complete and the finding critical, nobody is told.
5. `dashboard_unread`: a role of which one policy call failed is classified by the
   policies that were read; the flag that says so is set and never looked at, although
   `permission_visibility.go:183` speaks of a conservative classification.
6. `dashboard_stale`: the scorer calls every role that is an admin "admin access", whatever its
   age. The rule about stale trust first drops what has no stale verdict and then admits what
   is privileged or admin-like, so the worst of the idle roles is the one it never counts.
7. `dashboard_types`: an expansion makes a node for each end of a relationship and reads
   the stored type, account and name afterwards; adding a node that exists changes
   nothing, so what was read is lost and every resource is of type "unknown". The model
   keeps the code's order, and its other properties hold of graphs without types.

### Seen while modelling, without a run

Where the model keeps to the code and the code, or its text, is worth a second look:

- *Collection.* `bucketNameFromTarget` takes the first label of the target for the bucket
  name, so an owned bucket with a dot in its name is reported as reclaimable (the exception
  in `OwnedIsNotReclaimable`). `Coverage.Scanned`, documented as accounts "successfully
  assumed" (`collectors/org.go:23`), holds accounts whose role was never tried;
  that failure shows up later and does reach the coverage (`CriticalNeedsEveryAccount`). The
  answer to HEAD has no body (`validators/http.go:112`), so the body of a deleted bucket's page is recognized
  only at a site that fails HEAD and answers GET, the one case the validator's test sets up.
- *Trust.* A role that trusts `*` gets no finding. Deny statements, conditions and NotAction are ignored.
- *Export.* Embeddings' identity is stamped in the memory of the exporting process only
  (`export_embeddings.go:33`), so a search that requires a stored identity refuses every scan
  (`query.go:258`). A node that a newer scan has taken over is no longer found for the older one;
  edges are kept for all scans (hence `begun = {scan}` in `BlastCoversScan`).
- *Blast radius.* The one-hop query limits its rows before they are ranked. Chains that reach
  depth 6 are dropped, not cut. The driver is connected once, when the server starts.
- *Alerts.* The motif of an alert is guessed from the words of a summary, and that of a graph
  without any pivot names "trust" to say there is none (`enrichment.go:91`, `payload.go:259`): an alert about
  an idle distribution says "Assume-role trust pivot detected." "Scan completed" compares the findings of the scope with all findings of the
  previous scan (the exception in `ScopedAlertIsLocal`). A catalog that cannot be read counts as
  empty (`alerting/service.go:222`). The alerts' identity of a finding (title and ARN) does not hold
  the external principal, the identity of the diff page does.
- *Pages.* Two grants of a bucket to one principal have one id (`resource_exposure.go:53`): the
  comparison keeps the last row and the detail page shows the first, so `ViewsAgree` compares
  scans whose findings have ids of their own. `docs` give the order of findings as by ARN; the
  code sorts by severity first (`findings.go:182`).

## Proofs

`ScanControl_proofs` proves, for all values of the constants that satisfy the named
assumptions of `ScanControl` (bounds natural, limits positive, requests well formed):

- `TypeCorrect`: `Spec => []TypeOK`. The record operators get a typing lemma each, and
  one lemma covers the steps of a goroutine, case by case.
- `SingleFlightHolds`, `RunningHasWorkerHolds`, `HistoryCompleteHolds`, from
  `IInv == SingleFlight /\ RunningHasWorker /\ ActiveIsLatest /\ HistoryComplete`.
  None of the parts is inductive alone: that a start finds no goroutine needs
  `RunningHasWorker` (the status is not running) read with `SingleFlight` (a
  goroutine would keep it running); that the next outcome extends the history
  without a gap needs the active run to be the newest one (`ActiveIsLatest`).
  `StepKinds` reduces the steps of a goroutine to two kinds, going on and ending,
  so preservation is argued for four cases only: go on, end, start, restart.
- `Refinement`: `Spec => ImplementsRegister`. `ActiveRunIs` evaluates the mapped
  active run, and `StepSimulation` maps going on to a stutter, ending to `End`, a
  start to `Accept` and a restart to `Forget`.

The second half of `ScanControl_proofs` goes on from there. What the record says of a run that has completed is
what its goroutine had done by its last step, so `OInv` says of every program counter which
effects are behind it (`WorkDone`), and that an ended record is that of the newest run. Each
step gets a lemma on what it adds to the work of one run and leaves of all others (`Frame`).

- `CompletionHonestHolds`, `ShownScanIsOnDiskHolds`, `LogBoundedHolds`.
- `EndedRecordIsFinalHolds`, an action property: the run id guard of `updateRun`, `appendLog`,
  `failRun` and `finishRun` is enough only because an ended run has no goroutine any more.

`Alerting_proofs`: `AlertingTypeCorrect` from `TInv`. `TypeOK` is not inductive: that a copy can be
written back, or an event of a rule recorded, follows from whose job it is and what was
listed (`Sane`). `EditsSurviveHolds` from `EInv`: whatever copy a process holds of a rule that no operator wrote
meanwhile has the operators' configuration, but for the flag a toggle is about to set.

The second half of `Alerting_proofs`: between the decision about the cooldown and the record of its event there
are two operations in which tests, edits and time go on. `HInv` therefore says of the event
*under way* what the properties say of recorded ones, by the place the goroutine is at.

- `AnchorsSpacedHolds` and `SuppressedWasDeliveredHolds`: only the scan goroutine records anchors, in
  the order of their time (`AnchorsOrdered`), so that the newest is the one to look at.
- `CooldownWhileRememberedHolds`: while the history has room and nothing failed, each automatic message
  is in the history or about to be.
- `EveryRuleAnsweredHolds` from `AInv`: the rules before the one at hand have one event, the one at
  hand has it from its record on, those after it have none.

`Collection_proofs`: `CInv` follows the accounts that failed from the goroutines of accounts and buckets, phase by
phase, to the guard: an account that is done is among the failed ones or each of its buckets
is collected or was given up.

- `CollectionTypeCorrect`, `CriticalNeedsEveryAccountHolds`, `OwnedIsNotReclaimableHolds`.

`ScanStore_proofs`: `StoreInv` says what stamps are (given once, in order, before the first file is
written), what each writer has done of its scan, that what is whole stays whole, and of a
walk under way that it has loaded, or has still to meet, each scan that was whole when
it began, and that nothing else it loaded seems newer than it could be.

- `StoreTypeCorrect`, `LatestIsNotStaleHolds`, `BaselineIsPreviousHolds`, `ReportMatchesBaselineHolds`.

`GraphExport_proofs`, `BlastRadius_proofs` and `Dashboard_proofs`, for all artifacts, worlds, limits and
numbers of exporters:

- `ExportedScanIsTraversableHolds` and `ProjectionReleasedHolds` from `DatabaseInv` (`ExportInv` and what AWS
  is like). Of the statements an export needs, each has taken effect or is still to run, and none
  that makes a node follows one that ties nodes (`Writing`); and no statement of anybody
  undoes the effect of another (`Grown`). That the statements are these follows for any
  artifacts whose rows can be sorted (`Sortable`), which those of a scan are
  (`FindingsAreToldApart`, from the injectivity of finding ids).
- `DashboardTypeCorrect` adds `AnswerInv`: an answer is a graph through each of its transactions.
- `BlastCoversScanHolds` and `EscalationSurvivesExportHolds` from `WalkKept`, which is two invariants. `OriginInv`:
  an exporter runs statements of its scan only (`Stated`), so as long as one scan is being written
  the database has nothing that is not of that scan, and all of it once the scan is written
  (`Grown`). `WalkInv`: what a request has drawn when it is between two transactions is what the
  resources it has already expanded reach, in the database as it was in each of them; that the later
  ones see the same is because nothing is taken away and nothing foreign arrives. Under them are
  lemmas about walks: the pattern of a variable length path, which may meet a node twice and an edge
  once, reaches what the definition of `Reach`, breadth first, does (`OnPathsIsReach`), and
  what several entry points reach is what each reaches (`ReachFromEach`). The first attempt
  failed for a reason: without the premise on the LIMIT (`Undisturbed`) both are false, since a
  query that is cut does not say so.
- `ExpansionIsNewHolds`, from lemmas about the expansion alone: one relationship is taken for each
  neighbour (`OneForEachNeighbor`), it touches the node that was asked for (`HopIsAround`), and what the
  client has is taken away (`DeltaIsNew`).
- `PathVariantsSoundHolds` from `PathInv` and `FoundInv`. The walk for candidates is a function on
  paths that calls itself on longer ones. That there is such a function at all is proved for every function
  that goes down a rank (`RecursionExists`), and what it lists by going up from the bound on the
  depth (`WalkLists`): each simple path that can go no further, once. The order of candidates, by
  score, length and then edge by edge, is total on them (`BetterIsTotal`), so the first of the list is
  the best. That a finding is walked from the resource its scan has it about needs two facts from
  elsewhere: everything in the database is of some scan on disk (`FromScans`), and findings of one
  id are about one resource whichever scan they are of (`IdInv`).
- `RetrievalCompleteHolds` from `SearchInv`: what was embedded when a search began still is, and a search
  without a row had nothing to find unless its neighbours were cut off.
- `ScopedAlertIsLocalHolds` for every type of rule. `RuleInv` says that the graph answers only the rule
  that waits for it; the rest is lemmas about `Evaluate`, one per type of rule.
- `AlertReachesTeamHolds` from `RouteInv`: a saved catalog is one `ValidateRoutingCatalog` passed, and the
  hints of an alert are the accounts of the findings its rule considers, most findings first.
- `OutsidersReportedHolds` from `ScanInv`: what is on disk is what the scorers make of what AWS said and
  which calls were lost. The lemmas carry a principal from the text of a policy to its
  finding, and compare the scorers with the reference the property gives.
- `StaleTrustIsAlertedHolds` adds `AlertInv`: a verdict is about what was on disk when it was made, and
  what is on disk stays. It says when the rule must trigger and when it must not; what an idle
  admin does is left open, as the text and the code disagree on it (`dashboard_stale`). Its first proof failed for a reason: a rule for some scans only
  does not trigger on others, so the property is of the scans a rule is for.

`Views_proofs`:

- `ViewsAgreeHolds` from `ViewsInv`, which says of a list put together page by page that it is a
  beginning of the one sorted list. That there is one is because findings and entities are ordered
  totally (`FindingLessIsTotal`, `EntityLessIsTotal`), so that sorting anew for each page has one
  outcome (`SortedOneWay`). The numbers of the overview, which the code counts row by row, are sums
  over rows, and each is a sum over findings in another order (`SumOfRows`, `AccountsAddUp`,
  `GroupCounts`). The first fix is the first of the alerts' order as both sort by one priority
  (`FirstFixIsTop`). What the alerts tell of is in the comparison because two
  critical findings of one id are one finding to the alerts, too (`SameCritical`); this is where
  `PagesAssumption` is needed.

The assumptions, all evaluated by TLC in the runs: bounds are naturals and limits positive
(`BoundsAssumption`, `LimitsAssumption`, `ScanStoreAssumption`, `SearchAssumption`); requests, rules, records and
owners are of their types, accounts finite (`RequestsAssumption`, `ConfigsAssumption`, `RecordsAssumption`,
`OwnerAssumption`); processes are told apart (`ProcsAssumption`, `ScanStoreAssumption`); `Rank` is an order of the
names (`OrderIsTotal`, `NamesAssumption`), finding ids and ARNs of principals are injective
(`IdsTellApart`: an id is a hash in the code), account ids are no ARNs and a root ARN is of its
account (`NamesTellApart`); the worlds at the start have finite artifacts and clouds that AWS can be in
(`WorldsAssumption`, with `CloudSound`). Findings have ids, ARNs and roles among the names, an external
one comes with its relationship (`Traceable`), and what an id is about is the same in every scan, as
ids are hashes of module, ARN and what is found there (`scorers/trust.go:110`, `scorers/risk.go:20`,
`scorers/resource_exposure.go:52`). What pages take for granted of findings is `PagesAssumption`: a critical
one is so for one reason, the names a page shows in place of none are nobody's, page sizes are positive.

Only model-checked is liveness (`RunsEnd`, `ImplementsFairRegister`, `EvaluationEnds`, `CollectEnds`): it needs fairness
and `ENABLED`, which are out of the prover's reach. Every other property of a passing run is a theorem.

## Not modelled

Parsing of AWS answers and of configuration; formatting, reports, language model calls, the
CE cost enrichment, the browser; the demo generator (its data is an instance of `Asking`); TLS
checks; the recognition of an intent in the words of a question; the search for a text in
findings; serving, tokens and logging; labels, colours and texts of the explorer.
`PROJECT.json` gives the reason per component.

## Plan

Done, in this order: `ScanControl`, `ScanRegister` and their proofs; `Alerting`;
`EdgeVerdict` and `Collection`; `ScanStore`; `GraphExport`; `BlastGraph`, `BlastPaths`,
`BlastRadius`; `Trust`; `AlertRules`; `Retrieval`; `Views`; `Dashboard`.

Then the proofs, a module of theorems for each of `ScanControl`, `Alerting`, `Collection`, `ScanStore`,
`GraphExport`, `BlastRadius`, `Dashboard` and `Views`.

No module of the project declares a RECURSIVE operator, so none is out of the prover's reach for that.
