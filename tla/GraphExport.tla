----------------------------- MODULE GraphExport ----------------------------
(***************************************************************************)
(* The projection of scans on disk into the Neo4j database: the statements *)
(* internal/graph/writer.go compiles, run one transaction each, then the   *)
(* clustering of gds.go.  Several exporters write to one database: the     *)
(* dashboard after a scan, a request to the dashboard, the command line.   *)
(* Any statement may fail, a request is bounded by a deadline, and the     *)
(* process of an exporter may die between two statements.                  *)
(***************************************************************************)
EXTENDS Order

CONSTANTS
  Exporters,    \* the exports that may run
  Timed         \* those of them that run under a deadline

VARIABLES
  disk,         \* the artifacts of each scan
  db,           \* the contents of the database
  projections,  \* the GDS projections held in the memory of the database
  export,       \* what each exporter is doing
  written,      \* the scans of which an export has run to its last statement
  begun,        \* the scans an export has begun to write
  abandoned,    \* the scans whose projection an export could not release
  budget        \* what is left of the bounds of the instance

graphVars == <<db, projections, export, written, begun, abandoned>>

Empty == [x \in {} |-> x]
EmptyDb == [accounts |-> {}, snapshots |-> Empty, assets |-> Empty,
            findings |-> Empty, edges |-> {}, captured |-> {}, affects |-> {}]

Idle == [phase |-> "idle", scan |-> "", todo |-> <<>>, late |-> FALSE,
         result |-> "none"]

\* The bounds of the instance: what is left of each is spent by one.
Spend(what) == /\ budget[what] > 0
               /\ budget' = [budget EXCEPT ![what] = @ - 1]
-----------------------------------------------------------------------------
(* The statements of an export                                             *)

AccountIds(art) ==
  (art.accounts \cup {n.account : n \in art.assets}
                \cup {f.account : f \in art.findings}) \ {None}

\* The files of a scan are finite, and their rows told apart by what they are
\* sorted by.
Sortable(art) ==
  /\ IsFiniteSet(art.assets) /\ IsFiniteSet(art.findings) /\ IsFiniteSet(art.rels)
  /\ IsFiniteSet(AccountIds(art)) /\ AccountIds(art) \subseteq DOMAIN Rank
  /\ \A m, n \in art.assets : /\ m.arn \in DOMAIN Rank /\ m.nth \in Nat
                              /\ m.arn = n.arn /\ m.nth = n.nth => m = n
  /\ \A f, g \in art.findings : /\ f.id \in DOMAIN Rank /\ f.nth \in Nat
                                /\ f.id = g.id /\ f.nth = g.nth => f = g
  /\ art.rels \subseteq [src : DOMAIN Rank, type : DOMAIN Rank, dst : DOMAIN Rank]

SortedRels(rels) ==
  InOrder(rels, LAMBDA a, b :
    \/ Rank[a.src] < Rank[b.src]
    \/ a.src = b.src /\ Rank[a.dst] < Rank[b.dst]
    \/ a.src = b.src /\ a.dst = b.dst /\ Rank[a.type] < Rank[b.type])

RelStatement(r) ==
  IF r.type = "OWNED_BY"
  THEN [op |-> "own", arn |-> r.src, account |-> RootAccount[r.dst], create |-> TRUE]
  ELSE [op |-> "rel", edge |-> r]

CypherRelTypes == {"POINTS_TO", "USES_CERT", "FRONTS", "TRUSTS"}

\* Mutant: one relationship type is forgotten.
ProjectedWithoutFronts(r) == r.type \in {"POINTS_TO", "USES_CERT", "TRUSTS"}

Projected(r) == \/ r.type = "OWNED_BY" /\ r.dst \in DOMAIN RootAccount
                \/ r.type \in CypherRelTypes

CompileWriteScan(scan, art, embedded) ==
  LET assets(T) == SortedRows(T, LAMBDA n : n.arn)
      findings(T) == SortedRows(T, LAMBDA f : f.id)
      owned == {n \in art.assets : n.account # None}
      hanging == {f \in art.findings : f.arn \in {n.arn : n \in art.assets}}
  IN  Each(Sorted(AccountIds(art), LAMBDA a : a), LAMBDA a : [op |-> "account", account |-> a])
      \o <<[op |-> "snapshot", scan |-> scan, embedded |-> embedded]>>
      \o Each(assets(art.assets), LAMBDA n : [op |-> "asset", scan |-> scan, asset |-> n])
      \o Each(findings(art.findings), LAMBDA f : [op |-> "finding", scan |-> scan, finding |-> f,
                                                  embedded |-> embedded])
      \o Each(assets(owned), LAMBDA n : [op |-> "own", arn |-> n.arn, account |-> n.account,
                                         create |-> FALSE])
      \o Each(SortedRels({r \in art.rels : Projected(r)}), RelStatement)
      \o Each(findings(art.findings), LAMBDA f : [op |-> "captured", scan |-> scan, id |-> f.id])
      \o Each(findings(hanging), LAMBDA f : [op |-> "affects", id |-> f.id, arn |-> f.arn])

\* MERGE ... SET: the node of the key, made if it is not there, with new values.
Merge(nodes, key, value) ==
  Over([x \in {key} |-> value], nodes)

\* What an earlier export left in the embedding stays, unless this one sets it.
Embedding(nodes, key, s) ==
  IF s.embedded THEN s.scan
  ELSE IF key \in DOMAIN nodes THEN nodes[key].embedding ELSE "none"

\* The database after one statement.
Apply(g, s) ==
  CASE s.op = "account" -> [g EXCEPT !.accounts = @ \cup {s.account}]
    [] s.op = "snapshot" ->
         [g EXCEPT !.snapshots =
            Merge(@, s.scan, [embedding |-> Embedding(@, s.scan, s)])]
    [] s.op = "asset" ->
         [g EXCEPT !.assets = Merge(@, s.asset.arn,
            [type |-> s.asset.type, account |-> s.asset.account, scan |-> s.scan])]
    [] s.op = "finding" ->
         [g EXCEPT !.findings = Merge(@, s.finding.id,
            [arn |-> s.finding.arn, account |-> s.finding.account,
             severity |-> s.finding.severity, module |-> s.finding.module,
             scan |-> s.scan, embedding |-> Embedding(@, s.finding.id, s)])]
    [] s.op = "own" ->
         IF s.arn \in DOMAIN g.assets /\ (s.create \/ s.account \in g.accounts)
         THEN [g EXCEPT !.accounts = @ \cup {s.account},
                        !.edges = @ \cup {[src |-> s.arn, type |-> "OWNED_BY",
                                           dst |-> s.account]}]
         ELSE g
    [] s.op = "rel" ->
         IF {s.edge.src, s.edge.dst} \subseteq DOMAIN g.assets
         THEN [g EXCEPT !.edges = @ \cup {s.edge}] ELSE g
    [] s.op = "captured" ->
         IF s.scan \in DOMAIN g.snapshots /\ s.id \in DOMAIN g.findings
         THEN [g EXCEPT !.captured = @ \cup {<<s.scan, s.id>>}] ELSE g
    [] s.op = "affects" ->
         IF s.id \in DOMAIN g.findings /\ s.arn \in DOMAIN g.assets
         THEN [g EXCEPT !.affects = @ \cup {<<s.id, s.arn>>}] ELSE g
-----------------------------------------------------------------------------
(* The exporters                                                           *)

\* The exporter goes on to a phase, or ends with a result.
To(e, phase) == export' = [export EXCEPT ![e].phase = phase]
End(e, result) ==
  export' = [export EXCEPT ![e] = [Idle EXCEPT !.result = result]]

\* The exporter has a projection to release.
Holds(e) == export[e].phase \in {"louvain", "pagerank", "release"}

\* The artifacts are read from disk and, as far as the provider answers,
\* every finding gets an embedding; the metadata names the provider then.
BeginWrite(e, scan) ==
  /\ export[e].phase = "idle" /\ scan \in DOMAIN disk
  /\ Spend("exports")
  /\ \E embedded \in IF disk[scan].findings = {} THEN {FALSE} ELSE BOOLEAN :
       export' = [export EXCEPT ![e] =
         [Idle EXCEPT !.phase = "write", !.scan = scan,
                      !.todo = CompileWriteScan(scan, disk[scan], embedded)]]
  /\ begun' = begun \cup {scan}
  /\ UNCHANGED <<disk, db, projections, written, abandoned>>

RunStatement(e) ==
  /\ export[e].phase = "write" /\ ~export[e].late
  /\ db' = Apply(db, Head(export[e].todo))
  /\ LET rest == Tail(export[e].todo) IN
       /\ export' = [export EXCEPT ![e].todo = rest,
                       ![e].phase = IF rest = <<>> THEN "drop" ELSE "write"]
       /\ written' = IF rest = <<>> THEN written \cup {export[e].scan} ELSE written
  /\ UNCHANGED <<disk, projections, begun, abandoned, budget>>

WriteFails(e) ==
  /\ export[e].phase = "write"
  /\ IF export[e].late THEN UNCHANGED budget ELSE Spend("faults")
  /\ End(e, "failed")
  /\ UNCHANGED <<disk, db, projections, written, begun, abandoned>>

\* The error of the first drop is ignored: the projection may not exist.
DropStale(e) ==
  /\ export[e].phase = "drop" /\ To(e, "project")
  /\ \/ /\ ~export[e].late
        /\ projections' = projections \ {export[e].scan} /\ UNCHANGED budget
     \/ /\ IF export[e].late THEN UNCHANGED budget ELSE Spend("faults")
        /\ UNCHANGED projections
  /\ UNCHANGED <<disk, db, written, begun, abandoned>>

\* A projection of that name makes the call fail; nothing is to release then.
Project(e) ==
  /\ export[e].phase = "project"
  /\ \/ /\ ~export[e].late /\ export[e].scan \notin projections
        /\ projections' = projections \cup {export[e].scan}
        /\ To(e, "louvain") /\ UNCHANGED budget
     \/ /\ IF export[e].late \/ export[e].scan \in projections
           THEN UNCHANGED budget ELSE Spend("faults")
        /\ End(e, "exported") /\ UNCHANGED projections
  /\ UNCHANGED <<disk, db, written, begun, abandoned>>

\* Mutant: a failure returns without the deferred drop.
AnalyseReturns(e) ==
  /\ export[e].phase \in {"louvain", "pagerank"}
  /\ Spend("faults") /\ End(e, "exported")
  /\ UNCHANGED <<disk, db, projections, written, begun, abandoned>>

\* Louvain, then PageRank, on the projection of that name.
Analyse(e) ==
  /\ export[e].phase \in {"louvain", "pagerank"}
  /\ \/ /\ ~export[e].late /\ export[e].scan \in projections
        /\ export' = [export EXCEPT ![e].phase =
             IF export[e].phase = "louvain" THEN "pagerank" ELSE "release",
             ![e].result = IF export[e].phase = "pagerank" THEN "clustered" ELSE @]
        /\ UNCHANGED budget
     \/ /\ IF export[e].late \/ export[e].scan \notin projections
           THEN UNCHANGED budget ELSE Spend("faults")
        /\ export' = [export EXCEPT ![e].phase = "release", ![e].result = "exported"]
  /\ UNCHANGED <<disk, db, projections, written, begun, abandoned>>

\* The deferred drop: its error is ignored, and a context past its deadline
\* makes it fail.
Release(e) ==
  /\ export[e].phase = "release" /\ End(e, export[e].result)
  /\ \/ /\ ~export[e].late
        /\ projections' = projections \ {export[e].scan}
        /\ UNCHANGED <<budget, abandoned>>
     \/ /\ IF export[e].late THEN UNCHANGED budget ELSE Spend("faults")
        /\ abandoned' = abandoned \cup {export[e].scan} /\ UNCHANGED projections
  /\ UNCHANGED <<disk, db, written, begun>>

\* The deadline of a request passes, or its client goes away: every later
\* statement fails.
Deadline(e) ==
  /\ e \in Timed /\ export[e].phase # "idle" /\ ~export[e].late
  /\ Spend("deadlines")
  /\ export' = [export EXCEPT ![e].late = TRUE]
  /\ UNCHANGED <<disk, db, projections, written, begun, abandoned>>

\* The process dies: nothing is released, nothing is undone.
ExporterDies(e) ==
  /\ export[e].phase # "idle"
  /\ Spend("crashes")
  /\ End(e, "none")
  /\ abandoned' = IF Holds(e) THEN abandoned \cup {export[e].scan} ELSE abandoned
  /\ UNCHANGED <<disk, db, projections, written, begun>>

ExportStep(e) ==
  \/ \E scan \in DOMAIN disk : BeginWrite(e, scan)
  \/ RunStatement(e) \/ WriteFails(e)
  \/ DropStale(e) \/ Project(e) \/ Analyse(e) \/ Release(e)
  \/ Deadline(e) \/ ExporterDies(e)
-----------------------------------------------------------------------------
(* What an export promises                                                 *)

Edges(art) ==
  {r \in art.rels : /\ r.type \in CypherRelTypes
                    /\ {r.src, r.dst} \subseteq {n.arn : n \in art.assets}}
  \cup {[src |-> n.arn, type |-> "OWNED_BY", dst |-> n.account] :
          n \in {x \in art.assets : x.account # None}}
  \cup {[src |-> r.src, type |-> "OWNED_BY", dst |-> RootAccount[r.dst]] :
          r \in {x \in art.rels : /\ x.type = "OWNED_BY"
                                  /\ x.dst \in DOMAIN RootAccount
                                  /\ x.src \in {n.arn : n \in art.assets}}}

\* Once an export has run to its end the scan can be traversed for good,
\* whatever other exports do, fail to do or leave half done: every finding
\* hangs on its scan and on its resource, every relationship between resources
\* of the scan and every ownership is an edge (writer.go:60).
ExportedScanIsTraversable ==
  \A scan \in written :
    /\ Edges(disk[scan]) \subseteq db.edges
    /\ \A f \in disk[scan].findings :
         /\ <<scan, f.id>> \in db.captured
         /\ f.arn \in {n.arn : n \in disk[scan].assets} =>
              <<f.id, f.arn>> \in db.affects

\* "Always release the in-memory projection, even on a later failure"
\* (gds.go:56): whatever fails after it was made, a projection is in the memory
\* of the database only while an export is at work on that scan, or because the
\* drop itself could not run.  Two exports of one scan share a name, and drop
\* each other's projection.
ProjectionReleased ==
  projections \subseteq abandoned \cup {export[e].scan : e \in {x \in Exporters : Holds(x)}}
=============================================================================
