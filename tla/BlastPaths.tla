----------------------------- MODULE BlastPaths -----------------------------
(***************************************************************************)
(* What the explorer draws of a working graph: internal/blastradius,       *)
(* path_variants.go (the attack paths offered for comparison) and          *)
(* explorer_dto.go (the curated nodes and edges, and what an expansion     *)
(* adds to them).  A path is the sequence of its edges.                    *)
(***************************************************************************)
EXTENDS BlastGraph

CONSTANTS
  MaxPathDepth,    \* 6 in path_variants.go
  MaxCandidates,   \* 24 in path_variants.go
  MaxVariants,     \* 3 in path_variants.go
  NodeCap,         \* 80 in rel_types.go
  EdgeCap          \* 120 in rel_types.go

\* The order of edge ids, which are source, type and target written together.
EdgeLess(a, b) ==
  \/ Rank[a.src] < Rank[b.src]
  \/ a.src = b.src /\ Rank[a.type] < Rank[b.type]
  \/ a.src = b.src /\ a.type = b.type /\ Rank[a.dst] < Rank[b.dst]

edgeSignalScore(meaning) ==
  CASE meaning = "CROSS_ACCOUNT_ASSUME_ROLE" -> 11 [] meaning = "EXTERNAL_TRUST" -> 10
    [] meaning = "ASSUME_ROLE" -> 8 [] meaning = "IAM_WRITE" -> 7
    [] meaning = "RESOURCE_ACCESS" -> 4 [] meaning = "CERT_LINK" -> 2 [] OTHER -> 1

\* No node of a graph the service builds has a classification.
targetNodeScore(g, id) ==
  IF id \notin DOMAIN g.nodes THEN 0
  ELSE If(g.nodes[id].kind = "account", 2) + If(g.nodes[id].assetType = "iam_role", 3)

outgoingEdges(g, src) ==
  LET signal(e) == edgeSignalScore(semanticEdgeType(g, e))
  IN  InOrder({e \in g.edges : e.src = src}, LAMBDA a, b :
        \/ signal(a) > signal(b)
        \/ signal(a) = signal(b) /\ Rank[a.dst] < Rank[b.dst]
        \/ signal(a) = signal(b) /\ a.dst = b.dst /\ EdgeLess(a, b))

Meanings(g, path) == [i \in DOMAIN path |-> semanticEdgeType(g, path[i])]

PathScore(g, path) ==
  Total([i \in DOMAIN path |-> edgeSignalScore(semanticEdgeType(g, path[i]))
                                 + targetNodeScore(g, path[i].dst)])

\* The walk emits a path where it can go no further without meeting a node
\* again; a chain that reaches the depth bound is given up.
collectPathCandidates(focus, g) ==
  LET Walk[path \in Seq(g.edges)] ==
        LET cur == IF path = <<>> THEN focus ELSE Last(path).dst
            visited == {focus} \cup {path[i].dst : i \in DOMAIN path}
            next == Kept(outgoingEdges(g, cur), {e \in g.edges : e.dst \notin visited})
        IN  IF Len(path) >= MaxPathDepth THEN <<>>
            ELSE IF next # <<>>
                 THEN FlattenSeq([i \in DOMAIN next |-> Walk[Append(path, next[i])]])
            ELSE IF path = <<>> THEN <<>> ELSE <<path>>
  IN  FirstN(Walk[<<>>], MaxCandidates)

PathLess(p, q) ==
  \E i \in 1..(Len(p) + 1) :
    /\ \A j \in 1..(i - 1) : j <= Len(q) /\ p[j] = q[j]
    /\ IF i > Len(p) THEN Len(q) >= i ELSE i <= Len(q) /\ EdgeLess(p[i], q[i])

isDistinctPath(g, primary, alt) ==
  primary[1] # alt[1] \/ Meanings(g, primary) # Meanings(g, alt)

\* Mutant: the shortest candidates are taken.
buildPathVariantsShortest(focus, g) ==
  FirstN(InOrder(ToSet(collectPathCandidates(focus, g)), LAMBDA p, q :
    Len(p) < Len(q) \/ (Len(p) = Len(q) /\ PathLess(p, q))), MaxVariants)

\* The best candidate, and the next best that differ from it.
buildPathVariants(focus, g) ==
  LET candidates == ToSet(collectPathCandidates(focus, g))
      best == InOrder(candidates, LAMBDA p, q :
        \/ PathScore(g, p) > PathScore(g, q)
        \/ PathScore(g, p) = PathScore(g, q) /\ Len(p) < Len(q)
        \/ PathScore(g, p) = PathScore(g, q) /\ Len(p) = Len(q) /\ PathLess(p, q))
  IN  IF best = <<>> THEN <<>>
      ELSE FirstN(<<Head(best)>> \o
             Kept(Tail(best), {p \in candidates : isDistinctPath(g, Head(best), p)}), MaxVariants)
-----------------------------------------------------------------------------
(* The explorer                                                            *)

SignalOf(meaning) ==
  CASE meaning = "EXTERNAL_TRUST" -> 9 [] meaning = "CROSS_ACCOUNT_ASSUME_ROLE" -> 8
    [] meaning = "ASSUME_ROLE" -> 7 [] meaning = "IAM_WRITE" -> 6
    [] meaning = "RESOURCE_ACCESS" -> 4 [] meaning = "CERT_LINK" -> 2 [] OTHER -> 1

\* The edges that may be found best: the code takes the first of equal ones in
\* the order of a Go map, which is any order.
highestSignalOutgoing(g, src) ==
  LET out == {e \in g.edges : e.src = src}
      signal(e) == SignalOf(semanticEdgeType(g, e))
  IN  {e \in out : \A x \in out : signal(x) <= signal(e)}

\* The chains of at most six such edges from the focus.
Chains(g, focus) ==
  LET From[n \in 0..6, cur \in DOMAIN g.nodes] ==
        LET best == highestSignalOutgoing(g, cur)
        IN  IF n = 0 \/ best = {} THEN {{}}
            ELSE UNION {{{e} \cup c : c \in From[n - 1, e.dst]} : e \in best}
  IN  IF focus \in DOMAIN g.nodes THEN From[6, focus] ELSE {{}}

\* The outcomes of markCritical: the edges and the nodes marked.
markCritical(focus, g, mode) ==
  LET near == {e \in g.edges : e.type = "TRUSTS" \/ focus \in {e.src, e.dst}}
      of(edges) == [edges |-> edges, nodes |-> EndsOf(edges) \cup ({focus} \ {None})]
  IN  IF mode = "attack_path" THEN {of(near \cup c) : c \in Chains(g, focus)} ELSE {of(near)}

\* In hundredths.
nodeImpactScore(g, id, critical) ==
  LET n == g.nodes[id]
      touching(types) == Cardinality({e \in g.edges : e.type \in types /\ id \in {e.src, e.dst}})
  IN  (CASE n.kind = "finding" -> 100 [] n.kind = "account" -> 35 [] OTHER -> 40)
      + If(n.assetType = "iam_role", 35) + If(n.assetType = "external_principal", 25)
      + If(id \in critical, 25)
      + 20 * touching({"TRUSTS"}) + 8 * touching({"POINTS_TO", "FRONTS"})
      + 3 * touching({"USES_CERT"})

DrawnNode(g, id, critical) ==
  [id |-> id, kind |-> g.nodes[id].kind, critical |-> id \in critical,
   external |-> g.nodes[id].assetType = "external_principal",
   impact |-> nodeImpactScore(g, id, critical)]

DrawnEdge(g, e, critical) ==
  [edge |-> e, meaning |-> semanticEdgeType(g, e), critical |-> critical]

\* Nodes and edges are cut each on its own, in the order of their ids.
BuildExplorerPayload(g, focus, mode, marked) ==
  LET ids == FirstN(InOrder(DOMAIN g.nodes, LAMBDA a, b : Rank[a] < Rank[b]), NodeCap)
      edges == FirstN(InOrder(g.edges, EdgeLess), EdgeCap)
  IN  [nodes |-> {DrawnNode(g, id, marked.nodes) : id \in ToSet(ids)},
       edges |-> {DrawnEdge(g, e, e \in marked.edges \/ e.type = "TRUSTS") :
                    e \in ToSet(edges)},
       variants |-> IF mode = "attack_path" THEN buildPathVariants(focus, g) ELSE <<>>]

NoPayload == [nodes |-> {}, edges |-> {}, variants |-> <<>>]

\* Mutant: what is on the screen is sent again.
BuildExplorerExpansionDeltaWhole(base, delta, mode) ==
  [applied |-> delta.edges # {},
   nodes |-> {DrawnNode(delta, id, {}) : id \in DOMAIN delta.nodes},
   edges |-> {DrawnEdge(delta, e, FALSE) : e \in delta.edges}]

\* What an expansion adds to the graph on the screen.
BuildExplorerExpansionDelta(base, delta, mode) ==
  LET edges == delta.edges \ base.edges
      nodes == DOMAIN delta.nodes \ DOMAIN base.nodes
      pivot(e) == semanticEdgeType(delta, e)
                    \in {"ASSUME_ROLE", "CROSS_ACCOUNT_ASSUME_ROLE", "EXTERNAL_TRUST"}
  IN  [applied |-> edges # {},
       nodes |-> IF edges = {} THEN {} ELSE {DrawnNode(delta, id, {}) : id \in nodes},
       edges |-> {DrawnEdge(delta, e, mode = "attack_path" /\ pivot(e)) : e \in edges}]
=============================================================================
