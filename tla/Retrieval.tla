------------------------------ MODULE Retrieval -----------------------------
(***************************************************************************)
(* Questions about a scan: the search by similarity of internal/graph,     *)
(* rag.go, which "cloudrift query --legacy-retrieval" shows as it is, and  *)
(* the answers internal/queryv2 puts together from the findings on disk,   *)
(* such a search and the graph around one resource.                        *)
(*                                                                         *)
(* The index of the database holds the embeddings of all scans: a search   *)
(* takes the nearest of them and keeps those of its scan.  Which are the   *)
(* nearest is left open.                                                   *)
(***************************************************************************)
EXTENDS BlastRadius, Priority

CONSTANTS
  DefaultTopK, MaxTopK,             \* 10 and 100 in rag.go
  ProbeFactor, ProbeMin, ProbeMax,  \* 20, 64 and 2000 in rag.go
  QuestionTopK                      \* 5 in queryv2/service.go

ASSUME SearchAssumption ==
  /\ {DefaultTopK, MaxTopK, QuestionTopK} \subseteq Nat \ {0}
  /\ {ProbeFactor, ProbeMin, ProbeMax} \subseteq Nat \ {0}

VARIABLE retrieval    \* the question being answered

NoRetrieval == [phase |-> "none"]

normalizeTopK(n) == IF n < 1 THEN DefaultTopK ELSE Min({n, MaxTopK})
vectorProbeSize(topK) == Min({Max({topK * ProbeFactor, ProbeMin}), ProbeMax})

TopK(q) == normalizeTopK(IF q.intent = "search" THEN q.topK ELSE QuestionTopK)
Probe(q) == vectorProbeSize(TopK(q))

\* The question as its words make it, and whether it wants a search.
NeedsSemantic(intent) == intent \in {"search", "summary", "risk_explanation", "remediation"}
-----------------------------------------------------------------------------
(* The search                                                              *)

Embedded(g) == {id \in DOMAIN g.findings : g.findings[id].embedding # "none"}
Captured(g, scan) == {id \in DOMAIN g.findings : <<scan, id>> \in g.captured}

\* queryNodes: the nearest, as many as are asked for.
Neighbors(g, probe) == Limited(Embedded(g), probe)

\* CAPTURED is matched, the resources of a finding and their owners if any.
HybridRows(g, scan, near) ==
  LET assets(id) == {a[2] : a \in {x \in g.affects : x[1] = id}}
      owners(arn) == {e.dst : e \in {x \in g.edges : x.src = arn /\ x.type = "OWNED_BY"}}
      orNone(S) == IF S = {} THEN {None} ELSE S
  IN  UNION {UNION {{<<id, arn, account>> : account \in orNone(owners(arn))} :
                       arn \in orNone(assets(id))} : id \in near \cap Captured(g, scan)}

\* Rows of one finding have one score: LIMIT cuts one finding at most in two.
TopRows(rows, topK) ==
  {top \in Limited(rows, topK) :
     Cardinality({r[1] : r \in top} \cap {r[1] : r \in rows \ top}) <= 1}

EmptyHint(hits, neighbors) ==
  IF hits # {} THEN "none"
  ELSE IF neighbors = 0 THEN "no_vector_candidates" ELSE "no_hits_after_scan_scope"

\* Mutant: the probe has to be exceeded.
SaturatedBeyond(q, neighbors) == neighbors > Probe(q)

\* Neighbours beyond the probe may exist.
Saturated(q, neighbors) == neighbors >= Probe(q)

\* What was in the database when the question came, for the scan and for all.
Known(scan) ==
  [settled |-> scan \in written, all |-> Embedded(db),
   own |-> IF scan \in written THEN Embedded(db) \cap Captured(db, scan) ELSE {}]

\* A search ends: it is the answer, or one part of it.
Retrieved(hits, neighbors, failed) ==
  LET q == retrieval.q
      found == [hits |-> hits, hint |-> EmptyHint(hits, neighbors),
                saturated |-> Saturated(q, neighbors), failed |-> failed]
  IN  retrieval' = [phase |-> IF q.intent = "search" THEN "done" ELSE "compose",
                    q |-> q, known |-> retrieval.known, found |-> found, about |-> <<>>]

RetrieveFindingContext ==
  /\ retrieval.phase = "rows"
  /\ \E near \in Neighbors(db, Probe(retrieval.q)) :
       LET rows == HybridRows(db, retrieval.q.scan, near) IN
       IF rows = {} THEN retrieval' = [retrieval EXCEPT !.phase = "count"]
       ELSE \E hits \in TopRows(rows, TopK(retrieval.q)) :
              Retrieved(hits, Cardinality(near), FALSE)
  /\ UNCHANGED <<blastVars, budget>>

\* No row says nothing of the neighbours: they are counted, in a transaction
\* of its own.
CountNeighbors ==
  /\ retrieval.phase = "count"
  /\ Retrieved({}, Min({Probe(retrieval.q), Cardinality(Embedded(db))}), FALSE)
  /\ UNCHANGED <<blastVars, budget>>

\* The embedding of the question, the index or the database fails.
RetrievalFails ==
  /\ retrieval.phase \in {"rows", "count"}
  /\ Spend("faults")
  /\ Retrieved({}, 0, TRUE)
  /\ UNCHANGED blastVars
-----------------------------------------------------------------------------
(* The answer                                                              *)

\* In cents.
riskScore(f) ==
  f.cost + (CASE f.severity = "critical" -> 100000 [] f.severity = "high" -> 50000
              [] f.severity = "medium" -> 20000 [] f.severity = "low" -> 5000 [] OTHER -> 0)
         + (CASE Claimability(f) = "reclaimable" -> 10000
              [] Claimability(f) = "dangling" -> 7500 [] OTHER -> 0)

\* The order of findings with one score is left open.
topFindings(F, account, n) ==
  LET scope == {f \in F : account \in {None, f.account}}
  IN  {top \in Limited(scope, n) :
         \A f \in top, x \in scope \ top : riskScore(f) >= riskScore(x)}

IsNamed(q) == q.finding # None \/ q.principal # None \/ q.entity # <<>>

\* The findings an answer names.
Composed(q, F) ==
  CASE q.intent \in {"blast_radius", "risk_explanation"} ->
         IF IsNamed(q) THEN {{}} ELSE topFindings(F, q.account, 1)
    [] q.intent = "ownership" -> topFindings(F, q.account, 1)
    [] q.intent = "external_reach" -> topFindings(External(F), q.account, 1)
    [] q.intent = "relationship_path" -> topFindings(External(F), None, 3)
    [] q.intent = "prioritization" -> topFindings(F, q.account, 5)
    [] q.intent \in {"impact_ranking", "remediation"} -> topFindings(F, None, 3)
    [] OTHER -> topFindings(F, None, 1)

\* What the graph is asked about: what the question names, or the first finding.
GraphQuestion(q, about) ==
  LET ask(kind, id) == [BlastOf("question", q.scan, id, q.mode) EXCEPT
                          !.kind = kind, !.entity = q.entity]
      first == {ask("finding", f.id) : f \in {x \in about : \A y \in about :
                                                riskScore(x) >= riskScore(y)}}
  IN  CASE q.intent \in {"blast_radius", "risk_explanation"} ->
             IF q.finding # None THEN {ask("finding", q.finding)}
             ELSE IF q.principal # None THEN {ask("principal", q.principal)}
             ELSE IF q.entity # <<>> THEN {ask("entity", "entity")} ELSE first
        [] q.intent = "impact_ranking" -> {[r EXCEPT !.mode = "blast_radius"] : r \in first}
        [] OTHER -> {}

Compose ==
  /\ retrieval.phase = "compose" /\ reader = NoReader /\ answer = NoAnswer
  /\ \E about \in Composed(retrieval.q, disk[retrieval.q.scan].findings) :
       LET asked == GraphQuestion(retrieval.q, about)
           next(phase) == retrieval' = [retrieval EXCEPT !.phase = phase, !.about = about]
       IN  \/ asked = {} /\ next("done") /\ UNCHANGED <<reader, answer>>
           \/ \E req \in asked : next("graph") /\ Serve(req)
  /\ UNCHANGED <<connected, budget>>

\* The graph has answered.
ComposeBlast ==
  /\ retrieval.phase = "graph" /\ answer # NoAnswer
  /\ retrieval' = [retrieval EXCEPT !.phase = "done"]
  /\ answer' = NoAnswer
  /\ UNCHANGED <<connected, reader, budget>>
-----------------------------------------------------------------------------
(* The requests                                                            *)

\* No export writes its identity to the metadata on disk: a search that
\* insists on one is refused, every other one skips the comparison.
Execute(q) ==
  /\ Free /\ retrieval = NoRetrieval /\ q.scan \in DOMAIN disk
  /\ Spend("requests")
  /\ LET nothing == [hits |-> {}, hint |-> "none", saturated |-> FALSE, failed |-> TRUE]
         semantic == NeedsSemantic(q.intent) /\ connected /\ ~q.strict
     IN  retrieval' = [phase |-> IF semantic THEN "rows"
                                 ELSE IF q.intent = "search" THEN "done" ELSE "compose",
                       q |-> q, known |-> Known(q.scan), found |-> nothing, about |-> <<>>]
  /\ UNCHANGED blastVars

Reply ==
  /\ retrieval.phase = "done"
  /\ retrieval' = NoRetrieval
  /\ UNCHANGED <<blastVars, budget>>

RetrievalStep ==
  RetrieveFindingContext \/ CountNeighbors \/ RetrievalFails \/ Compose \/ ComposeBlast \/ Reply
-----------------------------------------------------------------------------
(* What a search promises                                                  *)

\* A search that does not say it was cut short is complete: it has a row for
\* every finding of the scan that was exported with an embedding before the
\* question, or as many rows as were asked for; and when it says there was no
\* candidate at all, no scan had one.  Exports go on between its two reads.
RetrievalComplete ==
  (retrieval.phase \in {"done", "compose", "graph"} /\ ~retrieval.found.failed) =>
    LET found == retrieval.found
        known == retrieval.known
    IN  /\ ~found.saturated =>
             \/ Cardinality(found.hits) = TopK(retrieval.q)
             \/ known.own \subseteq {h[1] : h \in found.hits}
        /\ found.hint = "no_vector_candidates" => known.all = {}
        /\ \A h \in found.hits : <<retrieval.q.scan, h[1]>> \in db.captured
=============================================================================
