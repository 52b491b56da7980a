----------------------------- MODULE BlastRadius ----------------------------
(***************************************************************************)
(* The requests of the dashboard that read the graph: internal/blastradius,*)
(* service.go and expand.go, and the handlers of blastradius.go.  An       *)
(* answer is put together from several reads, each a transaction of its    *)
(* own, while exports go on writing to the database.                       *)
(***************************************************************************)
EXTENDS BlastPaths, GraphExport

CONSTANTS
  MaxHops,        \* 4 in rel_types.go
  AttackLimit,    \* 60 in expand.go
  HopEdges,       \* 24 in expand.go
  HopNeighbors    \* 8 in expand.go

ASSUME BoundsAssumption ==
  /\ MaxHops \in Nat \ {0}
  /\ {AttackLimit, HopEdges, HopNeighbors, EdgeCap} \subseteq Nat
  /\ {MaxPathDepth, MaxCandidates, MaxVariants} \subseteq Nat

VARIABLES
  connected,   \* a driver was verified when the server started
  reader,      \* the request being served
  answer       \* the last answer, until it is sent

blastVars == <<connected, reader, answer>>

NoRequest == [kind |-> "none"]
NoReader == [phase |-> "idle", req |-> NoRequest]

V1TraversalRels == {"TRUSTS", "POINTS_TO", "FRONTS", "USES_CERT", "OWNED_BY"}
-----------------------------------------------------------------------------
(* The queries                                                             *)

InScan(g, arn, scan) == arn \in DOMAIN g.assets /\ g.assets[arn].scan = scan
Walkable(g) == {e \in g.edges : e.type \in V1TraversalRels}

\* The relationships on a path of at most n steps that uses none twice, in
\* their own direction or in any.
OnPaths(edges, start, n, directed) ==
  LET step(t, e) == [at |-> IF e.src = t.at THEN e.dst ELSE e.src, used |-> t.used \cup {e}]
      Paths[k \in 0..n] ==
        IF k = 0 THEN {[at |-> start, used |-> {}]}
        ELSE UNION {{step(t, e) : e \in {x \in edges \ t.used :
                       x.src = t.at \/ (~directed /\ x.dst = t.at)}} : t \in Paths[k - 1]}
  IN  UNION {t.used : t \in UNION {Paths[k] : k \in 1..n}}

\* What LIMIT may leave of the rows of a query.
Limited(rows, n) == IF Cardinality(rows) <= n THEN {rows} ELSE kSubset(n, rows)

\* Mutant: the walk is one step short.
cypherExpandShort(g, arn, scan, mode) ==
  IF ~InScan(g, arn, scan) THEN {{}}
  ELSE {OnPaths(Walkable(g), arn, MaxHops - 1, mode = "attack_path")}

cypherExpand(g, arn, scan, mode) ==
  IF ~InScan(g, arn, scan) THEN {{}}
  ELSE LET attack == mode = "attack_path"
       IN  Limited(OnPaths(Walkable(g), arn, MaxHops, attack),
                   IF attack THEN AttackLimit ELSE EdgeCap)

\* A relationship of the node to an asset of the same scan, or to an account.
cypherExpandOneHop(g, id, scan) ==
  LET other(e) == IF e.src = id THEN e.dst ELSE e.src
  IN  IF id \in Accounts \/ InScan(g, id, scan)
      THEN Limited({e \in Walkable(g) : /\ id \in {e.src, e.dst}
                                        /\ other(e) \in Accounts \/ InScan(g, other(e), scan)},
                   HopEdges)
      ELSE {{}}

\* The stored type and account of the assets of the scan are read for every
\* asset of the graph, and addNode leaves a node that is there as it is.
hydrateAssets(w, g, scan) ==
  mergeWorking(w,
    [nodes |-> [arn \in {x \in Assets(w) : InScan(g, x, scan)} |->
                  [kind |-> "asset", assetType |-> g.assets[arn].type,
                   account |-> g.assets[arn].account]],
     edges |-> {}])

\* The outcomes of one expansion.
expandFromAsset(g, arn, scan, mode) ==
  {ensureMinimalNode(hydrateAssets(addTriples(NoGraph, triples), g, scan), arn) :
     triples \in cypherExpand(g, arn, scan, mode)}

expansionSemanticWeight(type) ==
  CASE type = "TRUSTS" -> 10 [] type \in {"POINTS_TO", "FRONTS"} -> 6
    [] type = "USES_CERT" -> 3 [] OTHER -> 1

\* One relationship for each neighbour, the heaviest, and the heaviest of those.
prioritizeOneHopTriples(id, triples, mode) ==
  LET neighbor(e) == IF e.dst = id THEN e.src ELSE e.dst
      weight(e) == 3 + expansionSemanticWeight(e.type)
                     + If(mode = "attack_path" /\ e.type = "TRUSTS", 2)
                     + If(neighbor(e) \in Accounts, 2)
                     + If(isCrossAccountEdge(NoGraph, e), 2)
                     - If(mode = "attack_path" /\ e.type = "OWNED_BY", 2)
      heavier(a, b) == \/ weight(a) > weight(b)
                       \/ weight(a) = weight(b) /\ Rank[a.src] < Rank[b.src]
                       \/ weight(a) = weight(b) /\ a.src = b.src /\ Rank[a.dst] < Rank[b.dst]
                       \/ /\ weight(a) = weight(b) /\ a.src = b.src /\ a.dst = b.dst
                          /\ Rank[a.type] < Rank[b.type]
      best == {e \in triples : \A x \in triples \ {e} : neighbor(x) = neighbor(e) => heavier(e, x)}
  IN  ToSet(FirstN(InOrder(best, heavier), HopNeighbors))

expandOneHopFromNode(g, id, scan, mode) ==
  {hydrateAssets(addTriples(NoGraph, prioritizeOneHopTriples(id, triples, mode)), g, scan) :
     triples \in cypherExpandOneHop(g, id, scan)}
-----------------------------------------------------------------------------
(* The answers                                                             *)

\* Without the graph, what the evidence of the finding says by itself.
fallbackSummary(f, reason) ==
  LET s == privilegeSignalsFromFinding(f)
  IN  [BuildSummaryPayload(NoGraph, None, s, FALSE, reason)
         EXCEPT !.escalation = s.admin \/ s.iamWrite \/ s.external]

EmptySummary == [BuildSummaryPayload(NoGraph, None, NoSignals, FALSE, None)
                   EXCEPT !.impact.action = None]

\* The first row of the file with the id.
FindingOf(req) ==
  LET rows == {f \in disk[req.scan].findings : f.id = req.id}
  IN  {f \in rows : \A x \in rows : f.nth <= x.nth}

\* An entity is a principal, its type and its account.
EntityOf(f) == <<f.external, f.ptype, f.extAccount>>

External(F) == {f \in F : f.module = "external_access"}

MatchExternalEntityFindings(findings, entity) ==
  LET key(parts) == Each(parts, LAMBDA x : IF x = None THEN "unknown" ELSE x)
  IN  {f \in External(findings) : key(EntityOf(f)) = key(entity)}

roleARNFromFinding(f) == IF f.role # None THEN f.role ELSE f.arn

Matched(req) == MatchExternalEntityFindings(disk[req.scan].findings, req.entity)

SignalsOf(req) ==
  CASE req.kind = "finding" ->
         combineSignals({privilegeSignalsFromFinding(f) : f \in FindingOf(req)})
    [] req.kind = "entity" ->
         combineSignals({privilegeSignalsFromFinding(f) : f \in Matched(req)})
    [] req.kind = "principal" ->
         privilegeSignalsForPrincipalRoot(disk[req.scan].findings, req.id)

Fallback(req, reason) ==
  IF req.kind = "finding" THEN fallbackSummary(CHOOSE f \in FindingOf(req) : TRUE, reason)
  ELSE BuildSummaryPayload(NoGraph, None, SignalsOf(req), FALSE, reason)

\* The account in the id of a principal is put before those of the graph.
WithAccount(req, summary) ==
  IF req.kind = "principal" /\ req.account # None
  THEN [summary EXCEPT !.impact.topAccounts = <<req.account>> \o @] ELSE summary

NoDelta == [applied |-> FALSE, nodes |-> {}, edges |-> {}]
NoAnswer == [req |-> NoRequest]

\* The request is answered, from the graph or without it.
Answer(req, settled, summary, graph, payload, delta) ==
  /\ answer' = [req |-> req, settled |-> settled, summary |-> WithAccount(req, summary),
                graph |-> graph, payload |-> payload, delta |-> delta]
  /\ reader' = NoReader

AnswerWithout(req, settled, summary) ==
  Answer(req, settled, summary, NoGraph, NoPayload, NoDelta)

\* It goes on to read the graph around each of the resources.
Read(req, settled, arns) ==
  /\ reader' = [phase |-> "expand", req |-> req, settled |-> settled, todo |-> arns,
                focus |-> Head(arns), graph |-> NoGraph]
  /\ UNCHANGED answer

EntryPoints(req) ==
  IF req.kind = "principal" THEN <<req.id>>
  ELSE Sorted({roleARNFromFinding(f) : f \in Matched(req)} \ {None}, LAMBDA a : a)

\* A request is begun: its root is looked up in the artifacts of the scan.
Serve(req) ==
  LET settled == req.scan \in written
      unknown == BuildSummaryPayload(NoGraph, None, NoSignals, FALSE, "unknown_root")
  IN  \/ /\ req.kind = "finding" /\ FindingOf(req) = {}
         /\ AnswerWithout(req, settled, EmptySummary)
      \/ /\ req.kind # "finding" /\ req.id = None
         /\ AnswerWithout(req, settled, unknown)
      \/ /\ IF req.kind = "finding" THEN FindingOf(req) # {} ELSE req.id # None
         /\ ~connected
         /\ AnswerWithout(req, settled, Fallback(req, "neo4j_unconfigured"))
      \/ /\ req.kind = "finding" /\ FindingOf(req) # {} /\ connected
         /\ reader' = [phase |-> "context", req |-> req, settled |-> settled,
                       todo |-> <<>>, focus |-> None, graph |-> NoGraph]
         /\ UNCHANGED answer
      \/ /\ req.kind # "finding" /\ req.id # None /\ connected
         /\ IF EntryPoints(req) = <<>>
            THEN AnswerWithout(req, settled, Fallback(req, "no_graph_projection"))
            ELSE Read(req, settled, EntryPoints(req))

\* What other parts of the server ask for themselves.
BlastOf(asker, scan, id, mode) ==
  [asker |-> asker, kind |-> "finding", scan |-> scan, id |-> id, mode |-> mode,
   view |-> "summary", node |-> None, account |-> None, entity |-> <<>>]

Free == reader = NoReader /\ answer = NoAnswer

\* The browser asks.
Ask(req) ==
  /\ Free /\ req.scan \in DOMAIN disk
  /\ Spend("requests")
  /\ Serve(req)
  /\ UNCHANGED connected

\* The resource the finding affects: as the database has it, or the artifacts.
ReadContext ==
  /\ reader.phase = "context"
  /\ LET req == reader.req
         f == CHOOSE x \in FindingOf(req) : TRUE
         inDb == req.id \in DOMAIN db.findings /\ db.findings[req.id].scan = req.scan
         affected == {a \in DOMAIN db.assets : <<req.id, a>> \in db.affects
                                               /\ InScan(db, a, req.scan)}
         start == IF ~inDb THEN {f.arn}
                  ELSE IF affected = {} THEN {db.findings[req.id].arn} ELSE affected
     IN  \E arn \in start :
           LET chosen == IF arn = None THEN f.arn ELSE arn
           IN  IF chosen = None
               THEN AnswerWithout(req, reader.settled, Fallback(req, "no_graph_projection"))
               ELSE Read(req, reader.settled, <<chosen>>)
  /\ UNCHANGED <<connected, budget>>

\* The graph of the answer is complete.
Complete(graph) ==
  LET req == reader.req
      summary == BuildSummaryPayload(graph, reader.focus, SignalsOf(req), TRUE, None)
      shown == IF req.kind = "entity" THEN Assets(graph) ELSE {reader.focus}
  IN  \/ /\ req.view = "explorer"
         /\ \E focus \in shown : \E marked \in markCritical(focus, graph, req.mode) :
              Answer(req, reader.settled, summary, graph,
                     BuildExplorerPayload(graph, focus, req.mode, marked), NoDelta)
      \/ /\ req.view = "summary"
         /\ Answer(req, reader.settled, summary, graph, NoPayload, NoDelta)
      \/ /\ req.view = "hop" /\ req.node \notin DOMAIN graph.nodes
         /\ Answer(req, reader.settled, summary, graph, NoPayload, NoDelta)
      \/ /\ req.view = "hop" /\ req.node \in DOMAIN graph.nodes
         /\ reader' = [reader EXCEPT !.phase = "hop", !.graph = graph, !.todo = <<>>]
         /\ UNCHANGED answer

\* Mutant: the edge is added and its ends are not.
WithFindingEdgeOnly(req, graph, arn) ==
  IF req.kind # "finding" THEN graph ELSE addEdge(graph, req.id, arn, "AFFECTS")

WithFinding(req, graph, arn) ==
  IF req.kind # "finding" THEN graph
  ELSE addEdge(ensureMinimalNode(ensureMinimalNode(graph, arn), req.id),
               req.id, arn, "AFFECTS")

\* One resource is expanded; after the last the answer is made.
ReadExpand ==
  /\ reader.phase = "expand"
  /\ \E g \in expandFromAsset(db, Head(reader.todo), reader.req.scan, reader.req.mode) :
       LET graph == WithFinding(reader.req, mergeWorking(reader.graph, g), reader.focus)
       IN  IF Len(reader.todo) > 1
           THEN /\ reader' = [reader EXCEPT !.graph = graph, !.todo = Tail(@)]
                /\ UNCHANGED answer
           ELSE Complete(graph)
  /\ UNCHANGED <<connected, budget>>

\* The neighbours of one node, added to the graph on the screen.
ReadHop ==
  /\ reader.phase = "hop"
  /\ LET req == reader.req IN
     \E g \in expandOneHopFromNode(db, req.node, req.scan, req.mode) :
       Answer(req, reader.settled,
              BuildSummaryPayload(reader.graph, reader.focus, SignalsOf(req), TRUE, None),
              reader.graph, NoPayload,
              BuildExplorerExpansionDelta(reader.graph, g, req.mode))
  /\ UNCHANGED <<connected, budget>>

\* A read fails, or the time of the request is over.
ReadFails ==
  /\ reader.phase \in {"context", "expand", "hop"}
  /\ Spend("faults")
  /\ AnswerWithout(reader.req, reader.settled, Fallback(reader.req, "neo4j_unavailable"))
  /\ UNCHANGED connected

Send ==
  /\ answer # NoAnswer /\ answer.req.asker = "client"
  /\ answer' = NoAnswer
  /\ UNCHANGED <<connected, reader, budget>>

BlastStep ==
  /\ ReadContext \/ ReadExpand \/ ReadHop \/ ReadFails \/ Send
  /\ UNCHANGED <<disk, graphVars>>
-----------------------------------------------------------------------------
(* What an answer promises                                                 *)

\* The findings of one id are about one resource, and one that names a principal
\* outside comes with the trust it is about; every ARN is a string.
Traceable(art) ==
  /\ \A f, g \in art.findings : f.id = g.id => f.arn = g.arn
  /\ \A f \in art.findings :
       /\ {f.arn, roleARNFromFinding(f)} \subseteq DOMAIN Rank \cup {None}
       /\ f.external # None => \E e \in Edges(art) : e.type = "TRUSTS" /\ e.src = f.arn

HasGraph == answer # NoAnswer /\ answer.summary.available

\* The resources within n steps, and the relationships that begin or, when
\* they are walked both ways, end at one within n - 1.
Reach(edges, starts, n, directed) ==
  LET Ball[k \in 0..n] ==
        IF k = 0 THEN starts
        ELSE Ball[k - 1]
             \cup {e.dst : e \in {x \in edges : x.src \in Ball[k - 1]}}
             \cup {e.src : e \in {x \in edges : ~directed /\ x.dst \in Ball[k - 1]}}
  IN  {e \in edges : e.src \in Ball[n - 1] \/ (~directed /\ e.dst \in Ball[n - 1])}

StartsOf(req) ==
  {n.arn : n \in disk[req.scan].assets}
    \cap (IF req.kind = "finding" THEN {f.arn : f \in FindingOf(req)}
          ELSE ToSet(EntryPoints(req)))

Expected(req) ==
  Reach(Edges(disk[req.scan]), StartsOf(req), MaxHops, req.mode = "attack_path")

\* The answer is about a scan that was in the database as a whole when it was
\* asked for, and that no other scan has been written over; and the LIMIT of the
\* queries, which says nothing of what it leaves out, leaves out nothing.
Undisturbed ==
  /\ HasGraph /\ answer.settled /\ begun = {answer.req.scan}
  /\ Cardinality(Expected(answer.req)) <= (IF answer.req.mode = "attack_path"
                                           THEN AttackLimit ELSE EdgeCap)

\* Such an answer holds exactly what the artifacts of the scan relate to the
\* root, up to the bounds of the walk: nothing is lost between the collectors,
\* the statements of the export, the paths of the query and the graph of the
\* answer, whatever else runs.
BlastCoversScan ==
  Undisturbed => {e \in answer.graph.edges : e.type # "AFFECTS"} = Expected(answer.req)

\* A finding that is called an escalation without the graph is one with it: a
\* principal outside in the evidence comes with a trust edge the walk meets in
\* both modes, so that connecting the database never makes a finding milder.
EscalationSurvivesExport ==
  Undisturbed /\ answer.req.kind = "finding"
    => (Fallback(answer.req, None).escalation => answer.summary.escalation)

\* The paths from a node that meet no node twice and can go no further.
SimplePaths(g, from) ==
  LET onward(p) == {e \in g.edges : /\ e.src = (IF p = <<>> THEN from ELSE Last(p).dst)
                                    /\ e.dst \notin {from} \cup {p[i].dst : i \in DOMAIN p}}
      Of[n \in 0..MaxPathDepth] ==
        IF n = 0 THEN {<<>>}
        ELSE UNION {{Append(p, e) : e \in onward(p)} : p \in Of[n - 1]}
  IN  {p \in UNION {Of[n] : n \in 1..(MaxPathDepth - 1)} : onward(p) = {}}

\* The attack paths offered for comparison: each runs along edges of the graph,
\* away from one node, as far as it can without meeting a node twice; of all
\* such paths none has a better score than the first (as long as the walk was
\* not cut), and none is offered twice.
PathVariantsSound ==
  answer # NoAnswer /\ answer.payload.variants # <<>> =>
    LET paths == answer.payload.variants
        all == SimplePaths(answer.graph, paths[1][1].src)
    IN  /\ answer.req.kind # "entity" => paths[1][1].src \in StartsOf(answer.req)
        /\ ToSet(paths) \subseteq all /\ IsInjective(paths)
        /\ Cardinality(all) <= MaxCandidates =>
             \A p \in all : PathScore(answer.graph, p) <= PathScore(answer.graph, paths[1])

\* An expansion adds what was not on the screen: no node and no edge comes
\* twice, each new edge touches the node it was asked for, both its ends are on
\* the screen afterwards, and no two lead to the same neighbour.
ExpansionIsNew ==
  answer # NoAnswer /\ answer.delta.applied =>
    LET g == answer.graph
        new == {d.edge : d \in answer.delta.edges}
        ids == {d.id : d \in answer.delta.nodes}
    IN  /\ new \cap g.edges = {} /\ ids \cap DOMAIN g.nodes = {}
        /\ EndsOf(new) \subseteq DOMAIN g.nodes \cup ids
        /\ \A e \in new : answer.req.node \in {e.src, e.dst}
        /\ \A e, x \in new : EndsOf({e}) = EndsOf({x}) => e = x

\* "TopResourceTypes from asset_type on Asset nodes." (subgraph.go:179): the
\* types a summary names are those the database has of the resources it counts.
TypesAreStored ==
  (HasGraph /\ answer.settled /\ begun = {answer.req.scan}) =>
    ToSet(answer.summary.impact.types)
      \subseteq {db.assets[arn].type : arn \in Assets(answer.graph) \cap DOMAIN db.assets}
=============================================================================
