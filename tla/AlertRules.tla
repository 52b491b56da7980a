----------------------------- MODULE AlertRules -----------------------------
(***************************************************************************)
(* What an alert rule makes of a scan, and where the alert goes:           *)
(* internal/alerting, evaluator.go with its signals, scope.go,             *)
(* enrichment.go, routing.go and routing_catalog.go.  Sending, recording   *)
(* and suppressing an alert is Alerting.                                   *)
(*                                                                         *)
(* A finding belongs to its account here; its team and the name of the     *)
(* account, which the code prefers in one line, are left out.              *)
(***************************************************************************)
EXTENDS BlastRadius, Priority

VARIABLES
  catalog,     \* routing.json
  alert        \* the last rule evaluated, on its way to its destination

ruleVars == <<catalog, alert>>

NoAlert == [phase |-> "none"]
NoCatalog == [teams |-> <<>>, bindings |-> <<>>, default |-> None]
-----------------------------------------------------------------------------
(* The routing catalog                                                     *)

\* Of two rows with one key the last one counts.
LastOf(rows, key(_), value(_)) ==
  [k \in {key(r) : r \in ToSet(rows)} |->
     value(rows[Max({i \in DOMAIN rows : key(rows[i]) = k})])]

teamByID(c) == LastOf(c.teams, LAMBDA t : t.team, LAMBDA t : t.url)
accountToTeam(c) == LastOf(c.bindings, LAMBDA b : b.account, LAMBDA b : b.team)

validSlackURL(url) == url = "https"

\* Mutant: the webhooks of the teams are not looked at.
ValidateBindingsOnly(c) ==
  /\ \A b \in ToSet(c.bindings) : b.account # None /\ b.team \in DOMAIN teamByID(c)
  /\ c.default \in {None} \cup DOMAIN teamByID(c)

ValidateRoutingCatalog(c) ==
  /\ \A b \in ToSet(c.bindings) : b.account # None /\ b.team \in DOMAIN teamByID(c)
  /\ \A t \in ToSet(c.teams) : t.team # None /\ validSlackURL(t.url)
  /\ c.default \in {None} \cup DOMAIN teamByID(c)

Destination(source, valid, team, account) ==
  [source |-> source, valid |-> valid, team |-> team, account |-> account]

\* The webhook of the rule, or the team of the first account that has one, or
\* the default team.  An account that is named twice changes nothing.
ResolveDeliveryTarget(rule, hints, cat) ==
  LET teams == teamByID(cat)
      bound == accountToTeam(cat)
      reachable(team) == team \in DOMAIN teams /\ validSlackURL(teams[team])
      named == hints \o rule.accounts
      reached == {i \in DOMAIN named : named[i] \in DOMAIN bound /\ reachable(bound[named[i]])}
      account == named[Min(reached)]
  IN  IF rule.url # None THEN Destination("explicit_rule", validSlackURL(rule.url), None, None)
      ELSE IF reached # {} THEN Destination("team_account", TRUE, bound[account], account)
      ELSE IF reachable(cat.default) THEN Destination("team_default", TRUE, cat.default, None)
      ELSE Destination("unresolved", FALSE, None, None)
-----------------------------------------------------------------------------
(* What a scan says                                                        *)

RuleTypes == {"scan_completion", "new_critical_findings", "reclaimable_findings_threshold",
              "stale_external_privileged_roles"}

RuleAppliesToScan(rule, scan) == rule.scans = {} \/ scan \in rule.scans

\* Mutant: the scope of the rule is not looked at.
FilterFindingsByNothing(rule, F) == F

FilterFindingsByAccountScope(rule, F) ==
  {f \in F : rule.accounts = <<>> \/ f.account \in ToSet(rule.accounts)}

MostFrequent(F, key(_), n) ==
  TopBy({key(f) : f \in F} \ {None}, LAMBDA k : Cardinality({f \in F : key(f) = k}), n)

routingHints(F) == MostFrequent(F, LAMBDA f : f.account, Cardinality(F))

totalMonthlyRisk(F) == Total([f \in F |-> f.cost])

\* The title of a finding is its verdict on a resource.
diffIdentity(f) == <<f.module, f.verdict, f.arn>>

\* The scan before it in time (ScanStore says how it is found).
previousScanID(scan) ==
  LET before == {s \in DOMAIN disk : Rank[s] < Rank[scan]}
  IN  {s \in before : \A x \in before : Rank[x] <= Rank[s]}

riskTrend(before, now) ==
  CASE before = 0 /\ now = 0 -> <<>>
    [] before = 0 /\ now > 0 -> <<"no baseline">>
    [] before > 0 /\ 100 * now > 108 * before -> <<"risk is up">>
    [] before > 0 /\ 100 * now < 92 * before -> <<"risk is down">>
    [] OTHER -> <<"risk is in line">>

Line(kind, values) == IF values = <<>> THEN <<>> ELSE <<kind>> \o values
cleanBullets(lines) == FirstN(SelectSeq(lines, LAMBDA l : l # <<>>), 3)

\* The findings an alert counts, the first of which the graph is asked about.
makeResult(rule, scan, triggered, counted, lines, target, mode) ==
  [rule |-> rule, scan |-> scan, triggered |-> triggered, counted |-> counted,
   bullets |-> cleanBullets(lines), hints |-> <<>>, target |-> target, mode |-> mode]

NotTriggered(rule, scan, lines) ==
  makeResult(rule, scan, FALSE, {}, lines, {}, "blast_radius")

topAccountBullet(F) == Line("account", MostFrequent(F, LAMBDA f : f.account, 1))

\* What was found before is counted in all accounts, whatever the scope.
evalScanCompletion(rule, scan, found, previous) ==
  LET urgent == {f \in found : f.severity \in {"critical", "high"}}
      now == {diffIdentity(f) : f \in found}
      old == {diffIdentity(f) : f \in UNION previous}
      delta == IF previous = {} THEN <<0, 0>>
               ELSE <<Cardinality(now \ old), Cardinality(old \ now)>>
      before == IF previous = {} THEN 0 ELSE totalMonthlyRisk(UNION previous)
  IN  makeResult(rule, scan, TRUE, found,
        << <<"found", Cardinality(found), Cardinality(urgent)>>,
           IF delta = <<0, 0>> THEN <<>> ELSE <<"delta">> \o delta,
           riskTrend(before, totalMonthlyRisk(found)), topAccountBullet(found)>>,
        topFindingByPriority(urgent), "blast_radius")

evalNewCritical(rule, scan, found, previous) ==
  LET old == {diffIdentity(f) : f \in FilterFindingsByAccountScope(rule, UNION previous)}
      new == {f \in found : f.severity = "critical" /\ diffIdentity(f) \notin old}
      top == topFindingByPriority(new)
  IN  IF previous = {} THEN NotTriggered(rule, scan, << <<"no baseline">> >>)
      ELSE makeResult(rule, scan, new # {}, new,
             << <<"new", Cardinality(new)>>, IF top = {} THEN <<>> ELSE <<"first", top>>,
                IF top = {} THEN <<>> ELSE <<"why", top>>, topAccountBullet(new)>>,
             top, "attack_path")

\* The graph is asked from fifty dollars a month on.
evalReclaimable(rule, scan, found) ==
  LET idle == {f \in found : Claimability(f) = "reclaimable"}
      n == Cardinality(idle)
      risk == totalMonthlyRisk(idle)
      top == topFindingByPriority(idle)
      triggered == \/ rule.countMin > 0 /\ n >= rule.countMin
                   \/ rule.riskMin > 0 /\ risk >= rule.riskMin
                   \/ rule.countMin = 0 /\ rule.riskMin = 0 /\ n > 0
  IN  makeResult(rule, scan, triggered, idle,
        << <<"reclaimable", n, risk>>, IF top = {} THEN <<>> ELSE <<"first", top>>,
           IF idle = {} THEN <<>> ELSE <<"remediation">>, topAccountBullet(idle)>>, {f \in top : f.cost >= 5000}, "blast_radius")

\* Mutant: only what is called admin-like counts.
evalStaleAdminLike(rule, scan, found) ==
  LET matches == {f \in found : f.module = "external_access" /\ isStale(f) /\ f.vis.admin}
  IN  makeResult(rule, scan, Cardinality(matches) >= Max({rule.countMin, 1}), matches,
                 << <<"stale", Cardinality(matches)>> >>, {}, "attack_path")

evalStaleExternalPrivileged(rule, scan, found) ==
  LET matches == {f \in found : /\ f.module = "external_access" /\ isStale(f)
                                /\ f.vis.class = "privileged" \/ f.vis.admin}
      entity(f) == IF f.external = None THEN "unknown" ELSE f.external
  IN  makeResult(rule, scan, Cardinality(matches) >= Max({rule.countMin, 1}), matches,
        << <<"stale", Cardinality(matches)>>, Line("principal", MostFrequent(matches, entity, 1)),
           topAccountBullet(matches), <<"next">> >>,
        topFindingByPriority(matches), "attack_path")

\* A scan out of the scope of a rule is not opened.  The accounts of all
\* findings in scope say where the alert goes, whichever of them it counts.
Evaluate(rule, scan, findings, previous) ==
  LET found == FilterFindingsByAccountScope(rule, findings)
      result == CASE rule.type = "scan_completion" ->
                       evalScanCompletion(rule, scan, found, previous)
                  [] rule.type = "new_critical_findings" ->
                       evalNewCritical(rule, scan, found, previous)
                  [] rule.type = "reclaimable_findings_threshold" ->
                       evalReclaimable(rule, scan, found)
                  [] rule.type = "stale_external_privileged_roles" ->
                       evalStaleExternalPrivileged(rule, scan, found)
  IN  IF RuleAppliesToScan(rule, scan) THEN [result EXCEPT !.hints = routingHints(found)]
      ELSE NotTriggered(rule, scan, << <<"out of scope">> >>)

EvaluateScan(rule, scan) ==
  Evaluate(rule, scan, disk[scan].findings, {disk[s].findings : s \in previousScanID(scan)})
-----------------------------------------------------------------------------
(* What the graph adds                                                     *)

\* Without a motif the text of the summary is searched for one.  The text of a
\* summary without any pivot says that no trust pivot was observed, which holds
\* the word "trust"; that of an escalation advises on cross-account trust.
dominantMotifFromSummary(summary) ==
  IF summary.impact.motif # None THEN summary.impact.motif
  ELSE IF summary.escalation THEN "CROSS_ACCOUNT_ASSUME_ROLE" ELSE "ASSUME_ROLE"

blastBullets(summary) ==
  << <<"reach", summary.impact.resources, summary.impact.accounts>>,
     <<dominantMotifFromSummary(summary)>> >>

\* The first line stays, those of the graph follow.
Enriched(result, summary) ==
  IF ~summary.available THEN result.bullets
  ELSE cleanBullets(FirstN(result.bullets, 1) \o blastBullets(summary))

\* The result with its destination, by the catalog as it is then.
Routed(result, bullets) ==
  [phase |-> "done", result |-> result, bullets |-> bullets,
   dest |-> ResolveDeliveryTarget(result.rule, result.hints, catalog)]
-----------------------------------------------------------------------------
(* The requests                                                            *)

PutRoutingCatalog(c) ==
  /\ ValidateRoutingCatalog(c) /\ catalog' = c
  /\ Spend("catalogs")
  /\ UNCHANGED <<alert, blastVars>>

\* A rule is evaluated on a scan, for a preview or after the scan.
EvaluateRule(rule, scan) ==
  /\ Free /\ scan \in DOMAIN disk
  /\ Spend("requests")
  /\ LET result == EvaluateScan(rule, scan) IN
     \/ /\ result.target = {}
        /\ alert' = Routed(result, result.bullets)
        /\ UNCHANGED <<reader, answer>>
     \/ \E f \in result.target :
          /\ alert' = [phase |-> "blast", result |-> result]
          /\ Serve(BlastOf("rule", scan, f.id, result.mode))
  /\ UNCHANGED <<catalog, connected>>

\* The answer of the graph is there, or that there is none.
Notify ==
  /\ answer # NoAnswer /\ answer.req.asker = "rule"
  /\ alert' = Routed(alert.result, Enriched(alert.result, answer.summary))
  /\ answer' = NoAnswer
  /\ UNCHANGED <<catalog, connected, reader, budget>>
-----------------------------------------------------------------------------
(* What an alert promises                                                  *)

\* An alert of a rule with accounts in its scope depends on nothing that was
\* found in other accounts, by the artifacts there are when it is evaluated: not
\* whether it triggers, not what it counts, not which finding it asks the graph
\* about, not where it goes.  (What was found before, which "scan completed"
\* mentions, it counts in all accounts.)  A rule that waits for the graph has
\* been evaluated before.
ScopedAlertIsLocal ==
  [][(/\ alert.phase # "blast" /\ alert'.phase # "none"
      /\ alert'.result.rule.accounts # <<>>) =>
       LET r == alert'.result
           own(F) == {f \in F : f.account \in ToSet(r.rule.accounts)}
           local == Evaluate(r.rule, r.scan, own(disk[r.scan].findings),
                             {own(disk[s].findings) : s \in previousScanID(r.scan)})
       IN  /\ r.triggered = local.triggered /\ r.counted = local.counted
           /\ r.target = local.target /\ r.hints = local.hints
           /\ r.counted \subseteq own(disk[r.scan].findings)]_alert

\* The destination of an alert of a rule about the findings F of a scan: the team
\* of an account with findings in scope or, when none of them has a team, of an
\* account of the scope; of the accounts with findings none that has a team has
\* more of them.
ReachesTeam(c, rule, scan, F, dest) ==
  LET bound == accountToTeam(c)
      applies == rule.scans = {} \/ scan \in rule.scans
      inScope(a) == rule.accounts = <<>> \/ a \in ToSet(rule.accounts)
      of(a) == Cardinality({f \in F : applies /\ f.account = a})
      found == {a \in DOMAIN bound : inScope(a) /\ of(a) > 0}
      named == ToSet(rule.accounts) \cap DOMAIN bound
  IN  IF found \cup named # {}
      THEN /\ dest.valid /\ dest.team = bound[dest.account]
           /\ dest.account \in (IF found # {} THEN found ELSE named)
           /\ \A a \in found : of(a) <= of(dest.account)
      ELSE dest.team = c.default /\ dest.valid = (c.default # None)

\* "one alert -> one Slack webhook": an alert without a webhook of its own goes
\* to a team that has to do with it.  Whatever catalog was saved, an account with
\* a team is reached, and only when no account has one does the default team
\* answer.
AlertReachesTeam ==
  [][(alert'.phase = "done" /\ alert' # alert /\ alert'.result.rule.url = None) =>
       ReachesTeam(catalog, alert'.result.rule, alert'.result.scan,
                   disk[alert'.result.scan].findings, alert'.dest)]_alert
=============================================================================
