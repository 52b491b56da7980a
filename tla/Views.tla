-------------------------------- MODULE Views -------------------------------
(***************************************************************************)
(* The pages of the dashboard that read one scan, or compare two, without  *)
(* the database: internal/api/handlers, scans.go, findings.go,             *)
(* external_entities.go, top_fixes.go and remediation_groups.go.  Every    *)
(* page is computed anew from findings.json by code of its own, and the    *)
(* browser puts a list together from several requests.                     *)
(*                                                                         *)
(* The search for a piece of text is left out.                             *)
(***************************************************************************)
EXTENDS BlastRadius, Priority

VARIABLE screen     \* what one browser has been shown

NoView == [what |-> "none"]

listRank(severity) == Max({prioritySeverityRank(severity), 1})   \* info is the least
severityRank(severity) == Max({prioritySeverityRank(severity) - 1, 1})

\* What sorting may return: every order without an inversion.  (The rows of
\* some lists come out of a Go map, in any order.)
Orders(S, less(_, _)) ==
  {s \in SetToSeqs(S) : \A i, j \in DOMAIN s : i < j => ~less(s[j], s[i])}

PageOf(rows, n, size) == SubSeq(rows, (n - 1) * size + 1, Min({n * size, Len(rows)}))

-----------------------------------------------------------------------------
(* Findings                                                                *)

\* An empty filter lets everything pass; "unknown" stands for no value.
Passes(want, got) ==
  CASE want = None -> TRUE [] want = "unknown" -> got = None [] OTHER -> got = want

NoFilter == [severity |-> None, module |-> None, account |-> None, claimability |-> None,
             class |-> None, ptype |-> None, external |-> None, extAccount |-> None,
             stale |-> FALSE, admin |-> FALSE]

filterFindings(F, q) ==
  {f \in F : /\ q.severity \in {None, f.severity} /\ q.module \in {None, f.module}
             /\ q.account \in {None, f.account} /\ q.class \in {None, f.vis.class}
             /\ q.claimability \in {None, Claimability(f)}
             /\ q.admin => f.vis.admin
             /\ q.stale => isStale(f)
             /\ Passes(q.ptype, f.ptype) /\ Passes(q.external, f.external)
             /\ Passes(q.extAccount, f.extAccount)}

findingLess(a, b) ==
  \/ listRank(a.severity) > listRank(b.severity)
  \/ listRank(a.severity) = listRank(b.severity) /\ Rank[a.arn] < Rank[b.arn]
  \/ /\ listRank(a.severity) = listRank(b.severity) /\ a.arn = b.arn
     /\ Rank[a.id] < Rank[b.id] \/ (a.id = b.id /\ a.nth < b.nth)

\* The filters the browser sets when an entity is opened.
DrillDown(entity) ==
  [NoFilter EXCEPT !.module = "external_access", !.external = entity[1],
                   !.ptype = entity[2], !.extAccount = entity[3]]

\* Of the rows with one id the last one counts.
indexFindings(F) ==
  {f \in F : \A x \in F : x.id = f.id => x.nth <= f.nth}

diffFindings(old, new) ==
  LET before == indexFindings(old)
      now == indexFindings(new)
      same(f, x) == f.id = x.id
      both == {f \in now : \E x \in before : same(f, x)}
      changed == {f \in both : \E x \in before : same(f, x) /\ f.severity # x.severity}
  IN  [new |-> now \ both, changed |-> changed, unchanged |-> Cardinality(both \ changed),
       resolved |-> {x \in before : ~\E f \in now : same(f, x)}]
-----------------------------------------------------------------------------
(* Entities outside                                                        *)

normalizeExternalEntityPart(x) == IF x = None THEN "unknown" ELSE x
entityKey(f) == Each(EntityOf(f), normalizeExternalEntityPart)

\* Roles are counted, not findings.  A principal can be opened from the row
\* when there is one role only.
aggregateExternalEntities(F) ==
  LET row(k) ==
        LET own == {f \in External(F) : entityKey(f) = k}
            roles(G) == {roleARNFromFinding(f) : f \in G}
        IN  [entity |-> k, roles |-> roles(own), accounts |-> {f.account : f \in own},
             severity |-> Max({severityRank(f.severity) : f \in own}),
             risk |-> Total([f \in own |-> f.cost]),
             stale |-> roles({f \in own : isStale(f)}),
             privileged |-> roles({f \in own : f.vis.class = "privileged"}),
             admin |-> roles({f \in own : f.vis.admin}),
             findings |-> Cardinality(own),
             principal |-> IF Cardinality(roles(own)) = 1
                           THEN CHOOSE r \in roles(own) : TRUE ELSE None]
  IN  {row(k) : k \in {entityKey(f) : f \in External(F)}}

\* Mutant: rows of one severity and one risk are not told apart.
entityLessByRisk(a, b) ==
  a.severity > b.severity \/ (a.severity = b.severity /\ a.risk > b.risk)

entityLess(a, b) ==
  \/ a.severity > b.severity
  \/ a.severity = b.severity /\ a.risk > b.risk
  \/ /\ a.severity = b.severity /\ a.risk = b.risk
     /\ \E i \in 1..3 : /\ Rank[a.entity[i]] < Rank[b.entity[i]]
                        /\ \A j \in 1..(i - 1) : a.entity[j] = b.entity[j]

applyExternalEntityFeatureFilters(rows, features) ==
  {r \in rows : /\ "stale" \in features => r.stale # {}
                /\ "privileged" \in features => r.privileged # {}
                /\ "admin" \in features => r.admin # {}}
-----------------------------------------------------------------------------
(* Numbers                                                                 *)

summarizeScan(F) ==
  LET of(severity) == Cardinality({f \in F : f.severity = severity})
      urgent == {"critical", "high", "medium"}
      rows == aggregateExternalEntities(F)
      with(feature) == Cardinality(applyExternalEntityFeatureFilters(rows, {feature}))
      own == External(F)
  IN  [findings |-> Cardinality(F), critical |-> of("critical"), high |-> of("high"),
       medium |-> of("medium"), low |-> Cardinality({f \in F : f.severity \notin urgent}),
       risk |-> Total([f \in F |-> f.cost]), external |-> Cardinality(own),
       stale |-> Cardinality({f \in own : isStale(f)}),
       privileged |-> Cardinality({f \in own : f.vis.class = "privileged"}),
       admin |-> Cardinality({f \in own : f.vis.admin}),
       entities |-> Cardinality(rows), withStale |-> with("stale"),
       withPrivileged |-> with("privileged"), withAdmin |-> with("admin")]

aggregateAccounts(F) ==
  LET of(a) == {f \in F : f.account = a}
      before(f, x) == \/ severityRank(f.severity) > severityRank(x.severity)
                      \/ severityRank(f.severity) = severityRank(x.severity) /\ f.cost > x.cost
                      \/ /\ severityRank(f.severity) = severityRank(x.severity) /\ f.cost = x.cost
                         /\ Rank[f.id] < Rank[x.id] \/ (f.id = x.id /\ f.nth < x.nth)
  IN  {[account |-> a, findings |-> Cardinality(of(a)),
        critical |-> Cardinality({f \in of(a) : f.severity = "critical"}),
        risk |-> Total([f \in of(a) |-> f.cost]),
        top |-> {f \in of(a) : \A x \in of(a) \ {f} : before(f, x)}] :
         a \in {f.account : f \in F}}

remediationGroupDefs ==
  [reclaimable |-> [NoFilter EXCEPT !.claimability = "reclaimable"],
   stale_external_trust |-> [NoFilter EXCEPT !.module = "external_access", !.stale = TRUE],
   admin_like_external |-> [NoFilter EXCEPT !.module = "external_access", !.admin = TRUE],
   dangling_edge |-> [NoFilter EXCEPT !.module = "orphaned_edge", !.claimability = "dangling"],
   broken_edge |-> [NoFilter EXCEPT !.module = "orphaned_edge", !.claimability = "broken"]]

\* The example of a group is one of the most expensive.
remediationGroups(F) ==
  {[group |-> g, findings |-> Cardinality(filterFindings(F, remediationGroupDefs[g]))] :
     g \in {x \in DOMAIN remediationGroupDefs : filterFindings(F, remediationGroupDefs[x]) # {}}}

topFixes(F, limit) ==
  FirstN(InOrder(F, LAMBDA a, b : PriorityLess(a, b)
                                  \/ (~PriorityLess(b, a) /\ a.nth < b.nth)), limit)
-----------------------------------------------------------------------------
(* The requests                                                            *)

\* One page of a list, from an order that another request need not repeat.
Listed(v, n, before) ==
  LET F == disk[v.scan].findings
      rows == applyExternalEntityFeatureFilters(aggregateExternalEntities(F), v.features)
      found == InOrder(filterFindings(F, v.filter), findingLess)
      shown(list) == screen' = [what |-> v.what, asked |-> v, page |-> n, all |-> Len(list),
                              rows |-> before \o PageOf(list, n, v.size)]
  IN  \/ v.what = "findings" /\ shown(found)
      \/ v.what = "entities" /\ \E list \in Orders(rows, entityLess) : shown(list)

ListPage(v) ==
  /\ screen = NoView /\ v.scan \in DOMAIN disk
  /\ Spend("requests") /\ Listed(v, 1, <<>>)

NextPage ==
  /\ screen.what \in {"findings", "entities"} /\ screen.page * screen.asked.size < screen.all
  /\ Listed(screen.asked, screen.page + 1, screen.rows)
  /\ UNCHANGED budget

Overview(scan) ==
  /\ screen = NoView /\ scan \in DOMAIN disk
  /\ Spend("requests")
  /\ LET F == disk[scan].findings IN
     screen' = [what |-> "overview", scan |-> scan, summary |-> summarizeScan(F),
              accounts |-> aggregateAccounts(F), groups |-> remediationGroups(F),
              fixes |-> topFixes(F, 25)]

DiffScans(old, new) ==
  /\ screen = NoView /\ {old, new} \subseteq DOMAIN disk
  /\ Spend("requests")
  /\ screen' = [what |-> "diff", old |-> old, new |-> new,
              diff |-> diffFindings(disk[old].findings, disk[new].findings)]

\* The last page of a list is there.
ListedAll(v) == v.what \in {"findings", "entities"} /\ v.page * v.asked.size >= v.all
=============================================================================
