------------------------------ MODULE Dashboard -----------------------------
(***************************************************************************)
(* The way of a fact from AWS to the screen: a scan reads the accounts     *)
(* (Trust), its artifacts are exported to the database by whoever comes    *)
(* first (GraphExport), and requests (BlastRadius), questions (Retrieval)  *)
(* and alert rules (AlertRules) are answered from artifacts and database   *)
(* together, all of it at once; the pages that need no database (Views)    *)
(* are read meanwhile.  A scan is one step here; ScanControl, Collection   *)
(* and ScanStore take it apart.                                            *)
(***************************************************************************)
EXTENDS AlertRules, Retrieval, Trust, Views

CONSTANT
  Worlds      \* the situations: the state of AWS, what is on disk, the requests

\* What AWS says is finite: an ARN is that of one role, of one bucket, of one
\* principal or of one resource at the edge, and has a name for whoever is let in.
CloudSound(aws) ==
  LET arns(S) == {x.arn : x \in S}
      nodes == Range(PrincipalArn)
  IN  /\ IsFiniteSet(aws.accounts) /\ IsFiniteSet(aws.roles) /\ IsFiniteSet(aws.buckets)
      /\ aws.accounts \subseteq DOMAIN Rank
      /\ \A r \in aws.roles :
           /\ r.arn \in DOMAIN Rank \ nodes /\ r.account \in DOMAIN Rank
           /\ IsFiniteSet(r.trust) /\ r.arn # None /\ r.days \in Int /\ None \notin r.attached
           /\ \A st \in r.trust : /\ IsFiniteSet(st.aws) /\ IsFiniteSet(st.federated)
                                 /\ st.federated \subseteq DOMAIN Federated
           /\ \A p \in extractExternalPrincipals(r.account, r.trust) :
                p \in DOMAIN PrincipalArn /\ <<r.arn, PrincipalArn[p]>> \in DOMAIN FindingId
      /\ \A b \in aws.buckets :
           /\ b.arn \in DOMAIN Rank \ nodes /\ b.account \in DOMAIN Rank
           /\ DOMAIN b.policy = 1..Len(b.policy) /\ Len(b.policy) \in Nat
           /\ \A i \in DOMAIN b.policy : IsFiniteSet(b.policy[i].aws)
           /\ \A g \in externalGrantsFromBucketPolicy(b) :
                /\ g.principal \in DOMAIN PrincipalArn
                /\ <<b.arn, PrincipalArn[g.principal]>> \in DOMAIN FindingId
      /\ \A q, r \in aws.roles : q.arn = r.arn => q = r
      /\ \A b, c \in aws.buckets : b.arn = c.arn => b = c
      /\ arns(aws.roles) \cap arns(aws.buckets) = {}
      /\ arns(aws.edge.assets) \cap (arns(aws.roles) \cup arns(aws.buckets) \cup nodes) = {}
      /\ {f.id : f \in aws.edge.findings} \cap Range(FindingId) = {}
      /\ \A f \in aws.edge.findings : /\ f.role = None /\ f.external = None
                                      /\ f.module = "orphaned_edge" /\ f.arn \in DOMAIN Rank
      /\ \A f, g \in aws.edge.findings : f.id = g.id => f.arn = g.arn
      /\ Sortable([accounts |-> {}, assets |-> aws.edge.assets, rels |-> aws.edge.rels,
                   findings |-> aws.edge.findings])

IsSequence(rows) == rows \in Seq(Range(rows))

ASSUME NamesAssumption ==
  /\ {"TRUSTS", "OWNED_BY", "AFFECTS"} \subseteq DOMAIN Rank
  /\ Range(PrincipalArn) \cup Range(FindingId) \cup Range(RootAccount) \subseteq DOMAIN Rank

\* What the ids of findings are about: those there are, and those there may be.
AboutIn(F) == {<<f.id, f.arn>> : f \in F}

AboutInAll(artifacts, clouds) ==
  (UNION {AboutIn(artifacts[scan].findings) : scan \in DOMAIN artifacts})
    \cup (UNION {AboutIn(clouds[scan].edge.findings) : scan \in DOMAIN clouds})
    \cup {<<FindingId[x], x[1]>> : x \in DOMAIN FindingId}

\* An id is a hash of what the finding is about, the same in every scan.
ASSUME WorldsAssumption ==
  \A w \in Worlds : /\ \A scan \in DOMAIN w.disk : Sortable(w.disk[scan]) /\ Traceable(w.disk[scan])
                    /\ \A scan \in DOMAIN w.cloud : CloudSound(w.cloud[scan])
                    /\ "none" \notin DOMAIN w.disk \cup DOMAIN w.cloud
                    /\ \A x, y \in AboutInAll(w.disk, w.cloud) : x[1] = y[1] => x[2] = y[2]
                    /\ \A req \in w.client.requests :
                         req.asker = "client" /\ req.kind \in {"finding", "principal", "entity"}
                    /\ \A q \in w.client.questions : q.intent = "search" => q.topK \in Int
                    /\ \A rule \in w.client.rules : /\ rule.type \in RuleTypes
                                                   /\ IsSequence(rule.accounts)
                                                   /\ rule.countMin \in Int
                    /\ \A c \in w.client.catalogs : IsSequence(c.teams) /\ IsSequence(c.bindings)

\* A critical finding is so for one reason: a record that may be claimed, a role
\* that is an admin, or a bucket everybody may write to.
CriticalVerdict(f) ==
  IF f.module = "orphaned_edge" THEN "reclaimable"
  ELSE IF f.arn \in DOMAIN ArnAccount THEN "ghost_admin_access" ELSE "public_write"

\* What the pages take for granted.  The id of a finding is a hash of its module,
\* too, and no outsider is called what a page shows in place of none.
Presentable(F) ==
  \A f \in F : /\ f.arn \in DOMAIN Rank \ {None} /\ f.cost \in Int
               /\ f.module \in {"external_access", "orphaned_edge"}
               /\ f.module = "external_access" <=> f.id \in Range(FindingId)
               /\ {f.external, f.ptype, f.extAccount} \subseteq DOMAIN Rank \ {"unknown"}
               /\ f.severity = "critical" => f.verdict = CriticalVerdict(f)

\* The ARN of a role belongs to IAM, that of a bucket does not.
CloudPresentable(aws) ==
  /\ Presentable(aws.edge.findings)
  /\ \A r \in aws.roles : r.arn \in DOMAIN ArnAccount
  /\ \A b \in aws.buckets : b.arn \notin DOMAIN ArnAccount \cup {None}

ASSUME PagesAssumption ==
  /\ {None, "unknown"} \subseteq DOMAIN Rank
  /\ \A p \in DOMAIN PrincipalArn :
       {p.type, p.value, AccountOf(p)} \subseteq DOMAIN Rank \ {"unknown"}
  /\ \A w \in Worlds : /\ \A scan \in DOMAIN w.disk : Presentable(w.disk[scan].findings)
                       /\ \A scan \in DOMAIN w.cloud : CloudPresentable(w.cloud[scan])
                       /\ \A v \in w.client.views : v.size \in Nat \ {0}

VARIABLES
  cloud,      \* the state of AWS when each scan is taken
  lost,       \* the calls each scan lost
  client      \* what may be asked: requests, questions, rules, catalogs, views

scanVars == <<cloud, lost>>
vars == <<disk, graphVars, budget, blastVars, ruleVars, retrieval, screen, scanVars, client>>

Init ==
  /\ \E w \in Worlds :
       /\ disk = w.disk /\ client = w.client /\ budget = w.budget
       /\ connected = w.connected /\ cloud = w.cloud
  /\ lost = Empty
  /\ db = EmptyDb /\ projections = {} /\ written = {} /\ begun = {} /\ abandoned = {}
  /\ export = [e \in Exporters |-> Idle]
  /\ reader = NoReader /\ answer = NoAnswer /\ retrieval = NoRetrieval
  /\ catalog = NoCatalog /\ alert = NoAlert /\ screen = NoView

\* A scan runs; some of the calls of its collectors are lost.
RunScan(scan) ==
  /\ scan \in DOMAIN cloud \ DOMAIN disk
  /\ LET aws == cloud[scan] IN
     \E n \in 0..budget.calls : \E gone \in kSubset(n, CallsFor(aws)) :
       /\ budget' = [budget EXCEPT !.calls = @ - n]
       /\ lost' = Merge(lost, scan, gone)
       /\ \E keep \in Keepers(RoleTrusts(aws, gone)) :
            disk' = Merge(disk, scan, Artifacts(aws, gone, keep))
  /\ UNCHANGED <<graphVars, blastVars, ruleVars, retrieval, screen, cloud, client>>

AlertStep ==
  \/ \E c \in client.catalogs : PutRoutingCatalog(c)
  \/ \E rule \in client.rules, scan \in DOMAIN disk : EvaluateRule(rule, scan)
  \/ Notify

ViewStep ==
  \/ \E v \in client.views : ListPage(v)
  \/ NextPage
  \/ \E scan \in client.overviews : Overview(scan)
  \/ \E old, new \in client.overviews : DiffScans(old, new)

Next ==
  \/ \E scan \in DOMAIN cloud : RunScan(scan)
  \/ /\ \E e \in Exporters : ExportStep(e)
     /\ UNCHANGED <<blastVars, ruleVars, retrieval, screen, scanVars, client>>
  \/ /\ (BlastStep \/ \E req \in client.requests : Ask(req))
     /\ UNCHANGED <<disk, graphVars, ruleVars, retrieval, screen, scanVars, client>>
  \/ /\ RetrievalStep \/ \E q \in client.questions : Execute(q)
     /\ UNCHANGED <<disk, graphVars, ruleVars, screen, scanVars, client>>
  \/ AlertStep /\ UNCHANGED <<disk, graphVars, retrieval, screen, scanVars, client>>
  \/ ViewStep /\ UNCHANGED <<disk, graphVars, blastVars, ruleVars, retrieval, scanVars, client>>

Spec == Init /\ [][Next]_vars
-----------------------------------------------------------------------------
\* The database holds no edge, capture or effect without both its ends, and no
\* answer a node of no kind.
TypeOK ==
  /\ DOMAIN lost \subseteq DOMAIN disk \cap DOMAIN cloud
  /\ written \subseteq begun /\ begun \subseteq DOMAIN disk
  /\ projections \subseteq DOMAIN disk
  /\ \A e \in db.edges : e.src \in DOMAIN db.assets
                         /\ e.dst \in DOMAIN db.assets \cup db.accounts
  /\ \A c \in db.captured : c[1] \in DOMAIN db.snapshots /\ c[2] \in DOMAIN db.findings
  /\ \A a \in db.affects : a[1] \in DOMAIN db.findings /\ a[2] \in DOMAIN db.assets
  /\ answer # NoAnswer =>
       /\ EndsOf(answer.graph.edges) \subseteq DOMAIN answer.graph.nodes
       /\ \A id \in DOMAIN answer.graph.nodes :
            answer.graph.nodes[id].kind \in {"account", "asset", "finding"}
-----------------------------------------------------------------------------
(* What a scan promises of access from outside                             *)

\* Whom the policy of a role lets in: the accounts and identity providers.
LetIn(r) ==
  LET named(field, v) == \E st \in r.trust : st.allow /\ st.assume /\ v \in st[field]
      arn(v) == IF v \in Accounts THEN RootOf[v] ELSE v
  IN  {[type |-> "aws_account", value |-> arn(v)] :
         v \in {x \in Accounts \cup DOMAIN ArnAccount : named("aws", x)}}
      \cup {[type |-> Federated[v], value |-> v] : v \in {x \in DOMAIN Federated : named("federated", x)}}

Outside(r, p) ==
  IF p.type = "aws_account" THEN AccountOf(p) # r.account ELSE p.type # "amazonaws"

\* What the policies that could be read let a role do.
IsAdmin(inputs) ==
  LET allowed(family) == \E d \in inputs.inline : d.parses /\ \E st \in d.statements :
                           st.allow /\ ~st.notAction /\ family \in st.actions
  IN  \/ "AdministratorAccess" \in inputs.attached
      \/ \E d \in inputs.inline : d.parses /\ \E st \in d.statements :
           st.allow /\ ~st.notAction /\ "all" \in st.actions /\ st.everything
      \/ /\ allowed("assume")
         /\ allowed("iam") \/ "IAMFullAccess" \in inputs.attached
         /\ allowed("cloudfront") \/ "AmazonCloudFrontFullAccess" \in inputs.attached

\* What speaks against a trust; each reason justifies a severity by itself.
Justified(r, p, inputs) ==
  LET holds == [critical |-> IsAdmin(inputs),
                high |-> \/ ~r.used \/ r.days > GhostAfter
                         \/ p.type = "aws_account" /\ AccountOf(p) \notin Approved,
                medium |-> r.days >= StaleAfter,
                low |-> TRUE]
  IN  {s \in DOMAIN holds : holds[s]}

AtLeast(severity, reasons) ==
  \A s \in reasons : SeverityRank(severity) >= SeverityRank(s)

\* Whoever outside may assume a role is in a finding of its own, as severe as
\* the worst reason there is against it; what AWS did not tell about the use of
\* a role never makes it milder, and nothing else is reported.  A bucket open
\* to everybody or to an account outside is in a finding as severe as the worst
\* that is granted, and a policy that was denied shows in the coverage.
OutsidersReported ==
  \A scan \in DOMAIN lost :
    LET aws == cloud[scan]
        gone == lost[scan]
        found == disk[scan].findings
        listed == {r \in aws.roles : <<"roles", r.account, None>> \notin gone}
        complete(r) == \A c \in gone : c[1] \in {"activity", "last_used"} =>
                                         c[2] \notin {r.arn, r.account}
        about(r) == {f \in found : f.role = r.arn}
    IN  /\ \A r \in listed :
             LET inputs == collectRolePermissionInputs(r, gone) IN
             /\ \A p \in LetIn(r) : Outside(r, p) =>
                  \E f \in about(r) :
                    /\ f.external = p.value /\ f.ptype = p.type
                    /\ AtLeast(f.severity, Justified(r, p, inputs))
                    /\ complete(r) => f.severity \in Justified(r, p, inputs)
             /\ Cardinality(about(r)) = Cardinality({p \in LetIn(r) : Outside(r, p)})
        /\ \A b \in aws.buckets : \A i \in DOMAIN b.policy :
             LET st == b.policy[i]
                 known == {<<"policy", b.arn, None>>, <<"denied", b.arn, None>>} \cap gone = {}
                 reported(severity, account) ==
                   \E f \in found : /\ f.arn = b.arn /\ f.extAccount = account
                                    /\ AtLeast(f.severity, {severity})
             IN  known /\ st.allow =>
                   /\ st.everyone \/ "*" \in st.aws =>
                        reported(IF st.write THEN "critical" ELSE "high", None)
                   /\ ~st.everyone =>
                        \A a \in {x \in Accounts \ {b.account} : {x, RootOf[x]} \cap st.aws # {}} :
                          reported(IF a \in Approved THEN "low"
                                   ELSE IF st.write THEN "high" ELSE "medium", a)
        /\ \A b \in aws.buckets : <<"denied", b.arn, None>> \in gone =>
             b.account \in disk[scan].failed

\* The stale rule has answered on a scan that it is for.
StaleRuleAnswered ==
  /\ alert.phase = "done" /\ alert.result.scan \in DOMAIN lost
  /\ alert.result.rule.type = "stale_external_privileged_roles"
  /\ alert.result.rule.accounts = <<>> /\ alert.result.rule.countMin <= 1
  /\ RuleAppliesToScan(alert.result.rule, alert.result.scan)

\* The roles somebody outside may assume that have not been used for longer than
\* the ghost threshold, or not been seen used at all.
IdleOutside(scan) ==
  LET gone == lost[scan]
      idle(r) == \/ ~r.used \/ r.days > GhostAfter
                 \/ {<<"activity", r.account, None>>, <<"last_used", r.arn, None>>} \cap gone # {}
  IN  {r \in cloud[scan].roles : /\ <<"roles", r.account, None>> \notin gone
                                 /\ \E p \in LetIn(r) : Outside(r, p)
                                 /\ idle(r)}

\* The policies are all read and let a role assume roles and write to IAM, but
\* do not make it an admin.
ReadAsPrivileged(inputs) ==
  LET may(family) == \E d \in inputs.inline : \E st \in d.statements :
                       st.allow /\ ~st.notAction /\ family \in st.actions
  IN  /\ ~IsAdmin(inputs) /\ \A d \in inputs.inline : d.parses
      /\ may("assume") /\ (may("iam") \/ "IAMFullAccess" \in inputs.attached)

\* The stale rule triggers for every idle role that is privileged, and without
\* an idle role that is privileged or an admin it does not: a call that was lost
\* hides none and makes up none.  Whether an admin is enough is not said here.
StaleTrustIsAlerted ==
  StaleRuleAnswered =>
    LET scan == alert.result.scan
        inputs(r) == collectRolePermissionInputs(r, lost[scan])
    IN  /\ (\E r \in IdleOutside(scan) : ReadAsPrivileged(inputs(r))) => alert.result.triggered
        /\ alert.result.triggered =>
             \E r \in IdleOutside(scan) : ReadAsPrivileged(inputs(r)) \/ IsAdmin(inputs(r))

\* "Triggers when stale external trust remains privileged/admin-like"
\* (service.go:165): an idle role that is an admin is enough.
StaleAdminIsAlerted ==
  StaleRuleAnswered =>
    LET scan == alert.result.scan
    IN  (\E r \in IdleOutside(scan) : IsAdmin(collectRolePermissionInputs(r, lost[scan])))
          => alert.result.triggered

\* What one page says, another one says too, although each computes it by
\* itself.  A list read page by page has every row once, whatever order the
\* rows had in each request.  "MatchExternalEntityFindings returns findings ...
\* matching the same aggregate key" (entitymatch.go:44): an entity opens onto
\* the findings it counts, for the list and for the graph, and onto its only
\* entry point.  The numbers of the overview add up to those of the lists, its
\* first fix is what an alert calls first, and what is a new critical finding
\* to the alerts is new or changed in the comparison of two scans whose
\* findings have ids of their own.
ViewsAgree ==
  /\ ListedAll(screen) =>
       LET F == disk[screen.asked.scan].findings
           whole == IF screen.what = "findings" THEN filterFindings(F, screen.asked.filter)
                    ELSE applyExternalEntityFeatureFilters(aggregateExternalEntities(F),
                                                           screen.asked.features)
       IN  IsInjective(screen.rows) /\ ToSet(screen.rows) = whole
  /\ ListedAll(screen) /\ screen.what = "entities" =>
       LET F == disk[screen.asked.scan].findings IN
       \A r \in ToSet(screen.rows) :
         LET opened == filterFindings(F, DrillDown(r.entity))
             asked == [kind |-> "entity", scan |-> screen.asked.scan, entity |-> r.entity]
         IN  /\ opened = MatchExternalEntityFindings(F, r.entity)
             /\ r.findings = Cardinality(opened) /\ ToSet(EntryPoints(asked)) = r.roles
             /\ r.principal # None => EntryPoints(asked) = <<r.principal>>
             /\ \A f \in opened : severityRank(f.severity) <= r.severity
  /\ screen.what = "overview" =>
       LET F == disk[screen.scan].findings
           s == screen.summary
           sum(field) == Total([a \in screen.accounts |-> a[field]])
           grouped(g) == Total([x \in screen.groups |-> If(x.group = g, x.findings)])
           entities(feature) == Cardinality({entityKey(f) : f \in
             filterFindings(F, [NoFilter EXCEPT !.module = "external_access",
                                  !.stale = feature = "stale", !.admin = feature = "admin"])})
       IN  /\ s.findings = s.critical + s.high + s.medium + s.low
           /\ sum("findings") = s.findings /\ sum("critical") = s.critical /\ sum("risk") = s.risk
           /\ grouped("stale_external_trust") = s.stale /\ grouped("admin_like_external") = s.admin
           /\ s.entities = entities("any") /\ s.withStale = entities("stale")
           /\ s.withAdmin = entities("admin")
           /\ F # {} => {Head(screen.fixes)} = topFindingByPriority(F)
  /\ screen.what = "diff" =>
       LET new == disk[screen.new].findings
           old == disk[screen.old].findings
           d == screen.diff
           own(F) == Cardinality({f.id : f \in F}) = Cardinality(F)
           told == evalNewCritical([accounts |-> <<>>], screen.new, new, {old}).counted
       IN  own(old) /\ own(new) => told \subseteq d.new \cup d.changed

\* "parse uncertainty forced conservative unknown classification"
\* (permission_visibility.go:183): a role of which a policy could not be read
\* is not classified by the rest, unless the rest makes it an admin.
UnreadPolicyIsUnknown ==
  \A scan \in DOMAIN lost : \A f \in disk[scan].findings :
    (\E c \in lost[scan] : c[1] \in {"attached", "inline"} /\ c[2] = f.role)
      => f.vis.class \in {"unknown", "admin"}
=============================================================================
