----------------------------- MODULE BlastGraph -----------------------------
(***************************************************************************)
(* The working graph of a blast-radius answer and what is read off it:     *)
(* internal/blastradius, subgraph.go, semantics.go and payload.go.         *)
(*                                                                         *)
(* A graph is [nodes, edges]: nodes maps an id to its kind and to the two  *)
(* properties the code reads of it, edges is a set of [src, type, dst].    *)
(* Scores the code keeps as floats are integers here, ten or a hundred     *)
(* times as large; the rounding of sums of floats is left out.             *)
(***************************************************************************)
EXTENDS Order

CONSTANTS
  BroadResources,  \* 12 in semantics.go: resources that make access broad
  BroadAccounts    \* 4 in semantics.go: accounts that make access broad

NoGraph == [nodes |-> [x \in {} |-> x], edges |-> {}]

addNode(g, id, props) ==
  IF id = None \/ id \in DOMAIN g.nodes THEN g
  ELSE [g EXCEPT !.nodes = Over(@, [x \in {id} |-> props])]

\* The node a bare id stands for.
MinimalNode(id) ==
  [kind |-> CASE id \in Accounts -> "account" [] id \in FindingIds -> "finding"
              [] OTHER -> "asset",
   assetType |-> None,
   account |-> IF id \in Accounts THEN id ELSE None]

ensureMinimalNode(g, id) == addNode(g, id, MinimalNode(id))

addEdge(g, src, dst, type) ==
  IF None \in {src, dst, type} THEN g
  ELSE [g EXCEPT !.edges = @ \cup {[src |-> src, type |-> type, dst |-> dst]}]

EndsOf(triples) == {t.src : t \in triples} \cup {t.dst : t \in triples}

addTriples(g, triples) ==
  [nodes |-> Over(g.nodes, [x \in EndsOf(triples) |-> MinimalNode(x)]),
   edges |-> g.edges \cup triples]

mergeWorking(dst, src) ==
  [nodes |-> Over(dst.nodes, src.nodes), edges |-> dst.edges \cup src.edges]

Assets(g) == {x \in DOMAIN g.nodes : g.nodes[x].kind = "asset"}

countReachableResources(g) == Cardinality(Assets(g))

AccountsTouched(g) ==
  {g.nodes[x].account : x \in {y \in DOMAIN g.nodes : g.nodes[y].kind # "finding"}} \ {None}

topAssetTypes(g, n) ==
  LET typeOf(x) == IF g.nodes[x].assetType = None THEN "unknown" ELSE g.nodes[x].assetType
  IN  TopBy({typeOf(x) : x \in Assets(g)},
            LAMBDA t : Cardinality({x \in Assets(g) : typeOf(x) = t}), n)
-----------------------------------------------------------------------------
(* Privilege signals: what the evidence of findings says of a principal    *)

Ranking(c) == CASE c = "admin" -> 4 [] c = "privileged" -> 3 [] c = "scoped" -> 2
                [] c = "limited" -> 1 [] OTHER -> 0

NoSignals == [class |-> None, assume |-> FALSE, iamWrite |-> FALSE,
              admin |-> FALSE, external |-> FALSE, confidence |-> 0]

\* Confidence is its rank: none 0, low 1, medium 2, high 3.
privilegeSignalsFromFinding(f) ==
  LET signalled == \/ f.vis.admin \/ f.vis.iamWrite \/ f.vis.assume
                   \/ f.vis.class # None \/ f.external # None
  IN  [class |-> f.vis.class, assume |-> f.vis.assume, iamWrite |-> f.vis.iamWrite,
       admin |-> f.vis.admin, external |-> f.external # None,
       confidence |-> IF signalled THEN 3 ELSE 0]

combineSignals(S) ==
  IF S = {} THEN NoSignals
  ELSE [class |-> (CHOOSE s \in S : \A t \in S :
                     Ranking(t.class) + If(t.class # None, 1)
                       <= Ranking(s.class) + If(s.class # None, 1)).class,
        assume |-> \E s \in S : s.assume,
        iamWrite |-> \E s \in S : s.iamWrite,
        admin |-> \E s \in S : s.admin,
        external |-> \E s \in S : s.external,
        confidence |-> Max({s.confidence : s \in S})]

\* Findings on the ARN itself count before those that name it as their role.
privilegeSignalsForPrincipalRoot(findings, arn) ==
  LET direct == {[privilegeSignalsFromFinding(f) EXCEPT !.confidence = 3] :
                   f \in {x \in findings : x.arn = arn}}
      indirect == {[privilegeSignalsFromFinding(f) EXCEPT
                      !.confidence = IF @ < 2 THEN 2 ELSE @] :
                     f \in {x \in findings : x.arn # arn /\ x.role = arn}}
  IN  IF arn = None THEN NoSignals
      ELSE IF direct # {} THEN combineSignals(direct)
      ELSE combineSignals(indirect)

Privileged(signals) == Ranking(signals.class) >= Ranking("privileged")
-----------------------------------------------------------------------------
(* What the edges mean                                                     *)

accountForNode(g, id) ==
  IF id \in Accounts THEN id
  ELSE IF id \in DOMAIN g.nodes /\ g.nodes[id].account # None THEN g.nodes[id].account
  ELSE IF id \in DOMAIN ArnAccount THEN ArnAccount[id]
  ELSE None

isCrossAccountEdge(g, e) ==
  LET src == accountForNode(g, e.src)
      dst == accountForNode(g, e.dst)
  IN  None \notin {src, dst} /\ src # dst

isExternalNode(g, id) ==
  /\ id \in DOMAIN g.nodes
  /\ g.nodes[id].assetType = "external_principal" \/ id \in DOMAIN RootAccount

isExternalTrustEdge(g, e) == isExternalNode(g, e.src) \/ isExternalNode(g, e.dst)

Trusts(g) == {e \in g.edges : e.type = "TRUSTS"}

detectGraphMotifs(g) ==
  [trust |-> Trusts(g) # {},
   cross |-> \E e \in Trusts(g) : isCrossAccountEdge(g, e),
   external |-> \E e \in Trusts(g) : isExternalTrustEdge(g, e),
   broad |-> \/ countReachableResources(g) >= BroadResources
             \/ Cardinality(AccountsTouched(g)) >= BroadAccounts]

\* Mutant: only a trust seen to be external counts.
escalationPossibleIfExternal(g, signals) ==
  signals.admin \/ signals.iamWrite \/ detectGraphMotifs(g).external

\* Every later clause of the code asks for a trust edge, which is enough.
escalationPossibleFromSignals(g, signals) ==
  signals.admin \/ signals.iamWrite \/ detectGraphMotifs(g).trust

semanticEdgeType(g, e) ==
  LET typeOf(id) == IF id \in DOMAIN g.nodes THEN g.nodes[id].assetType ELSE None
  IN  CASE e.type = "TRUSTS" ->
             (IF isExternalTrustEdge(g, e) THEN "EXTERNAL_TRUST"
              ELSE IF isCrossAccountEdge(g, e) THEN "CROSS_ACCOUNT_ASSUME_ROLE"
              ELSE "ASSUME_ROLE")
        [] e.type \in {"POINTS_TO", "FRONTS"} ->
             (IF typeOf(e.src) = "iam_role" /\ typeOf(e.dst) = "iam_role"
              THEN "IAM_WRITE" ELSE "RESOURCE_ACCESS")
        [] e.type = "USES_CERT" -> "CERT_LINK"
        [] OTHER -> e.type
-----------------------------------------------------------------------------
(* The summary                                                             *)

dominantMotif(m, signals) ==
  CASE m.cross -> "CROSS_ACCOUNT_ASSUME_ROLE"
    [] ~m.cross /\ m.external -> "EXTERNAL_TRUST"
    [] ~m.cross /\ ~m.external /\ signals.iamWrite -> "IAM_WRITE"
    [] ~m.cross /\ ~m.external /\ ~signals.iamWrite /\ m.trust -> "ASSUME_ROLE"
    [] OTHER -> IF m.broad THEN "RESOURCE_ACCESS" ELSE None

\* In tenths.
edgeWeightedRisk(g, id) ==
  LET weight(type, w) ==
        w * Cardinality({e \in g.edges : e.type = type /\ id \in {e.src, e.dst}})
  IN  weight("TRUSTS", 25) + weight("POINTS_TO", 12) + weight("FRONTS", 12)
      + weight("USES_CERT", 6) + weight("OWNED_BY", 3)

topImpactedARNS(g, focus, n, signals) ==
  TopBy(Assets(g) \ {focus}, LAMBDA id :
    10 + If(g.nodes[id].assetType = "iam_role", 20)
       + If(g.nodes[id].assetType = "external_principal", 15)
       + edgeWeightedRisk(g, id)
       + If(signals.admin, 4) + If(signals.iamWrite, 6) + If(Privileged(signals), 5), n)

\* In hundredths.
topImpactedAccounts(g, n) ==
  LET accounts == {accountForNode(g, id) : id \in DOMAIN g.nodes} \ {None}
      nodeScore(id) == 70 + If(g.nodes[id].kind = "account", 60)
                          + If(g.nodes[id].assetType = "iam_role", 80)
                          + 4 * edgeWeightedRisk(g, id)
      of(a) == {id \in DOMAIN g.nodes : accountForNode(g, id) = a}
  IN  TopBy(accounts, LAMBDA a : Total([id \in of(a) |-> nodeScore(id)]), n)

actionLabelForGraph(m, signals, escalation) ==
  LET adminLike == signals.admin \/ Privileged(signals)
  IN  CASE m.external /\ m.cross /\ adminLike -> "constrain external trust"
        [] m.cross /\ ~(m.external /\ adminLike) -> "tighten cross-account chains"
        [] ~m.cross /\ signals.iamWrite /\ adminLike -> "constrain pivot principals"
        [] OTHER -> IF m.external THEN "review external trust"
                    ELSE IF m.trust THEN "review trust pivots"
                    ELSE IF m.broad THEN "reduce broad access"
                    ELSE IF escalation THEN "review pivots in scope"
                    ELSE "harden the focal resource"

BuildSummaryPayload(g, focus, signals, available, reason) ==
  LET m == detectGraphMotifs(g)
      escalation == escalationPossibleFromSignals(g, signals)
      shown == [resources |-> countReachableResources(g),
                accounts |-> Cardinality(AccountsTouched(g)),
                types |-> topAssetTypes(g, 6),
                topAccounts |-> topImpactedAccounts(g, 6),
                topResources |-> topImpactedARNS(g, focus, 8, signals),
                motif |-> dominantMotif(m, signals),
                action |-> actionLabelForGraph(m, signals, escalation)]
      hidden == [resources |-> 0, accounts |-> 0, types |-> <<>>, topAccounts |-> <<>>,
                 topResources |-> <<>>, motif |-> None, action |-> "connect Neo4j"]
  IN  [available |-> available, reason |-> reason, escalation |-> escalation,
       impact |-> IF available THEN shown ELSE hidden]
=============================================================================
