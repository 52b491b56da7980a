---------------------------- MODULE MCDashboard -----------------------------
(***************************************************************************)
(* Small instances of Dashboard.  The names are cut down to what tells     *)
(* them apart: "ext2" is the node of the principal "root2", the root of    *)
(* the outside account "acc3"; "oidc" is the node of the provider "okta".  *)
(***************************************************************************)
EXTENDS Dashboard

MCStrings ==
  <<"", "*", "acc1", "acc2", "acc3", "bucket", "cdn", "cert", "dns", "extOidc", "extPublic",
    "extRoot1", "extRoot2", "extRoot3", "role1", "role2", "root1", "root2", "root3", "okta",
    "f1", "f2", "f3", "f4", "f5", "f6", "f7", "f8", "f9", "fcdn", "fdns",
    "AFFECTS", "FRONTS", "OWNED_BY", "POINTS_TO", "TRUSTS", "USES_CERT", "s1", "s2",
    "cloudfront_dist", "dns_record", "external_principal", "iam_role", "s3_bucket", "aws_account", "oidc", "public", "unknown">>
MCRank == [x \in ToSet(MCStrings) |-> CHOOSE i \in DOMAIN MCStrings : MCStrings[i] = x]
MCAccounts == {"acc1", "acc2", "acc3"}
MCRootOf == [a \in MCAccounts |-> CASE a = "acc1" -> "root1" [] a = "acc2" -> "root2"
                                    [] OTHER -> "root3"]
MCArnAccount ==
  [x \in {"role1", "role2", "root1", "root2", "root3"} |->
     CASE x \in {"role1", "root1"} -> "acc1" [] x \in {"role2", "root2"} -> "acc2"
       [] OTHER -> "acc3"]
MCRootAccount == [x \in {"root1", "root2", "root3"} |-> MCArnAccount[x]]
MCFederated == [x \in {"okta", "lambda"} |-> IF x = "okta" THEN "oidc" ELSE "amazonaws"]
P(type, value) == [type |-> type, value |-> value]
Aws == P("aws_account", "root3")
MCPrincipalArn ==
  [p \in {P("aws_account", "root1"), P("aws_account", "root2"), Aws, P("oidc", "okta"),
          P("public", "*")} |->
     CASE p.value = "root1" -> "extRoot1" [] p.value = "root2" -> "extRoot2"
       [] p.value = "root3" -> "extRoot3" [] p.value = "okta" -> "extOidc"
       [] OTHER -> "extPublic"]
MCFindingId ==
  [x \in {<<"role1", "extRoot2">>, <<"role1", "extRoot3">>, <<"role1", "extOidc">>,
          <<"role2", "extRoot1">>, <<"role2", "extRoot3">>, <<"role2", "extOidc">>,
          <<"bucket", "extRoot1">>, <<"bucket", "extRoot3">>, <<"bucket", "extPublic">>} |->
     CASE x = <<"role1", "extRoot3">> -> "f1" [] x = <<"role1", "extOidc">> -> "f2"
       [] x = <<"role2", "extRoot3">> -> "f3" [] x = <<"role2", "extOidc">> -> "f4"
       [] x = <<"role1", "extRoot2">> -> "f5" [] x = <<"role2", "extRoot1">> -> "f6"
       [] x = <<"bucket", "extRoot1">> -> "f7" [] x = <<"bucket", "extRoot3">> -> "f8"
       [] OTHER -> "f9"]
-----------------------------------------------------------------------------
(* AWS                                                                     *)

Lets(aws, federated) ==
  [allow |-> TRUE, assume |-> TRUE, aws |-> aws, federated |-> federated]
Can(actions, everything) ==
  [allow |-> TRUE, notAction |-> FALSE, actions |-> actions, everything |-> everything]
Doc(name, statements) == [name |-> name, parses |-> TRUE, statements |-> statements]
Role(arn, account, trust, attached, inline, days) ==
  [arn |-> arn, account |-> account, trust |-> trust, attached |-> attached,
   inline |-> inline, used |-> days # 99, days |-> days]
Bucket(policy) == [arn |-> "bucket", account |-> "acc2", policy |-> policy]
Grant(aws, everyone, write) ==
  [allow |-> TRUE, aws |-> aws, everyone |-> everyone, write |-> write]

Edge(arn, account) ==
  [id |-> "fdns", nth |-> 1, module |-> "orphaned_edge", severity |-> "high",
   verdict |-> "dangling", arn |-> arn, account |-> account, role |-> None,
   external |-> None, ptype |-> None, extAccount |-> None, vis |-> NoVis,
   cost |-> ScoreCost("dns_record", "dangling")]
R(src, type, dst) == [src |-> src, type |-> type, dst |-> dst]
NoEdge == [assets |-> {}, rels |-> {}, findings |-> {}]
\* A distribution before the bucket, with a certificate no collector lists.
Cdn == [assets |-> {Node("cdn", "cloudfront_dist", "acc1", 1), Node("dns", "dns_record", "acc1", 1)},
        rels |-> {R("cdn", "USES_CERT", "cert"), R("cdn", "FRONTS", "bucket")},
        findings |-> {Edge("dns", "acc1")}]
Cloud(roles, buckets, edge) ==
  [accounts |-> {"acc1", "acc2"}, roles |-> roles, buckets |-> buckets, edge |-> edge]

\* What may be said about one role.
Trusts1 == {{Lets({"acc3", "root1", "*"}, {"lambda"})}, {Lets({"root3"}, {}), Lets({"acc1"}, {"okta"})},
            {Lets({"acc2"}, {"okta"}), [Lets({"acc3"}, {}) EXCEPT !.allow = FALSE]},
            {[Lets({"acc3"}, {}) EXCEPT !.assume = FALSE]}}
Inlines ==
  {{}, {Doc("d1", {Can({"read"}, TRUE)})}, {Doc("d1", {Can({"all"}, FALSE)})},
   {Doc("d1", {Can({"all"}, TRUE)})}, {Doc("d1", {Can({"assume", "iam"}, FALSE)})},
   {Doc("d1", {Can({"assume"}, TRUE)}), Doc("d2", {Can({"cloudfront", "iam"}, TRUE)})},
   {Doc("d1", {[Can({"all"}, TRUE) EXCEPT !.notAction = TRUE]}), Doc("d2", {Can({"s3"}, TRUE)})},
   {Doc("d1", {[Can({"all"}, TRUE) EXCEPT !.allow = FALSE]})},
   {[Doc("d1", {}) EXCEPT !.parses = FALSE], Doc("d2", {Can({"iam", "assume"}, TRUE)})}}
Attached == {{}, {"AdministratorAccess"}, {"IAMFullAccess", "AmazonCloudFrontFullAccess"},
             {"ReadOnlyAccess"}}
Policies1 == {<<Grant({}, TRUE, FALSE), Grant({"*", "acc3"}, FALSE, TRUE)>>,
              <<Grant({"acc1"}, FALSE, TRUE), Grant({"acc1"}, FALSE, FALSE)>>,
              <<Grant({"root3", "acc2"}, FALSE, FALSE), [Grant({}, TRUE, TRUE) EXCEPT !.allow = FALSE]>>}
RoleClouds ==
  {Cloud({Role("role1", "acc1", t, a, i, d)}, {}, NoEdge) :
     t \in Trusts1, a \in Attached, i \in Inlines, d \in {99, -1, 0, 3, 5, 6}}
BucketClouds == {Cloud({}, {Bucket(p)}, NoEdge) : p \in Policies1}
\* Two roles, an outsider both trust, a bucket that trusts it, too.
Shared == Cloud({Role("role1", "acc1", {Lets({"acc3"}, {"okta"})}, {"IAMFullAccess"},
                      {Doc("d1", {Can({"assume"}, TRUE)})}, 0),
                 Role("role2", "acc2", {Lets({"acc3", "acc1"}, {})}, {}, {}, 4)},
                {Bucket(<<Grant({"acc3"}, FALSE, TRUE), Grant({"acc3"}, FALSE, FALSE)>>)}, Cdn)
Simple(p, days) ==
  Cloud({Role("role1", "acc1", {Lets(p, {})}, {}, {}, days)}, {}, NoEdge)

\* What a scan of it leaves on disk when nothing is lost.
Scan(aws) ==
  Artifacts(aws, {}, CHOOSE keep \in Keepers(RoleTrusts(aws, {})) : TRUE)
-----------------------------------------------------------------------------
(* A piece of what "cloudrift demo generate --dense" writes                *)

F(id, arn, role, p, vis) ==
  [id |-> id, nth |-> 1, module |-> "external_access", severity |-> "high",
   verdict |-> "unknown_vendor", arn |-> arn, account |-> "acc1", role |-> role,
   external |-> p.value, ptype |-> p.type, extAccount |-> AccountOf(p), vis |-> vis, cost |-> 0]
Dense ==
  [accounts |-> {"acc1", "acc2"}, failed |-> {},
   assets |-> {Node("role1", "iam_role", "acc1", 1), Node("role2", "iam_role", "acc2", 1),
               Node("extRoot3", "external_principal", "acc1", 1),
               Node("extRoot3", "external_principal", "acc2", 2),
               Node("dns", "dns_record", "acc1", 1), Node("cdn", "cloudfront_dist", "acc1", 1),
               Node("bucket", "s3_bucket", "acc2", 1)},
   rels |-> {R("role1", "TRUSTS", "extRoot3"), R("role2", "TRUSTS", "extRoot3"),
             R("role1", "TRUSTS", "role2"), R("role1", "OWNED_BY", "acc1"),
             R("dns", "POINTS_TO", "cdn"), R("cdn", "USES_CERT", "cert"),
             R("cdn", "FRONTS", "bucket")},
   findings |-> {F("f1", "role1", "role1", Aws, [NoVis EXCEPT !.class = "privileged"]),
                 F("f3", "role2", "role2", Aws, NoVis), Edge("dns", "acc1")}]
-----------------------------------------------------------------------------
(* The situations                                                          *)

Req(kind, scan, id, mode, view, node) ==
  [asker |-> "client", kind |-> kind, scan |-> scan, id |-> id, mode |-> mode, view |-> view,
   entity |-> <<"root3", "aws_account", "acc3">>, node |-> node,
   account |-> IF kind = "principal" THEN "acc1" ELSE None]
Modes == {"blast_radius", "attack_path"}
Bounds == [calls |-> 0, exports |-> 0, faults |-> 0, deadlines |-> 0, crashes |-> 0,
           requests |-> 0, catalogs |-> 0]
Nobody == [requests |-> {}, questions |-> {}, rules |-> {}, catalogs |-> {}, views |-> {},
           overviews |-> {}]
Asks(requests) == [Nobody EXCEPT !.requests = requests]
World(w) ==
  w @@ [disk |-> Empty, cloud |-> Empty, connected |-> TRUE, client |-> Nobody, budget |-> Bounds]

Everything ==
  {Req("finding", "s1", f, m, "explorer", None) : f \in {"f1", "fdns", "f9"}, m \in Modes}
  \cup {Req("principal", "s1", a, m, "explorer", None) :
          a \in {n.arn : n \in Dense.assets} \cup {None}, m \in Modes}
  \cup {Req("principal", "s1", a, m, "hop", n) : a \in {"dns", "role1"}, m \in Modes,
          n \in {x.arn : x \in Dense.assets} \cup {"acc1", "acc2"}}
  \cup {Req("entity", "s1", e, m, "explorer", None) : m \in Modes, e \in {"entity", None}}
  \cup {[Req("entity", "s1", "entity", "blast_radius", "explorer", None)
           EXCEPT !.entity = <<"okta", "oidc", None>>]}
One == {Req("finding", "s1", "f1", "attack_path", "explorer", None)}

\* One scan, whatever its policies, and at most one call of it lost.
Reading ==
  {World([cloud |-> [s \in {"s1"} |-> c], budget |-> [Bounds EXCEPT !.calls = 1]]) :
     c \in RoleClouds \cup BucketClouds}
\* From AWS to the answer, with and without the database.
Through ==
  {World([cloud |-> [s \in {"s1"} |-> Shared], client |-> Asks(One), connected |-> c,
          budget |-> [Bounds EXCEPT !.exports = 1, !.requests = 1, !.calls = 1]]) :
     c \in BOOLEAN}
\* Every question about one scan.
Asking ==
  {World([disk |-> [s \in {"s1"} |-> Dense], client |-> Asks(Everything), connected |-> c,
          budget |-> [Bounds EXCEPT !.exports = 1, !.requests = 1]]) : c \in BOOLEAN}
\* Two scans, two exports, and one thing that goes wrong; or a request among them.
Racing(who, b) ==
  World([disk |-> [s \in {"s1", "s2"} |-> Scan(Simple(IF s = "s1" THEN {"acc3"} ELSE {"acc2"}, 3))],
         client |-> who, budget |-> [x \in DOMAIN b |-> b[x]] @@ Bounds])

\* A question by its intent.
Q(intent, topK) ==
  [intent |-> intent, scan |-> "s1", topK |-> topK, strict |-> FALSE, mode |-> "attack_path",
   account |-> None, finding |-> None, principal |-> None, entity |-> <<>>]
Searches == {Q("search", n) : n \in {0, 5}} \cup {[Q("search", 1) EXCEPT !.strict = TRUE]}
Blast == Q("blast_radius", 0)
Questions ==
  {Q(i, 0) : i \in {"summary", "risk_explanation", "external_reach", "relationship_path",
                     "prioritization", "impact_ranking", "ownership", "remediation"}}
  \cup {[Blast EXCEPT !.finding = "f1"], [Blast EXCEPT !.principal = "role2"],
         [Blast EXCEPT !.entity = <<"root3", "aws_account", "acc3">>],
         [Blast EXCEPT !.account = "acc2"]}
Wondering ==
  {Racing([Nobody EXCEPT !.questions = Searches], [exports |-> 2, requests |-> 1]),
   World([disk |-> [s \in {"s1"} |-> Dense], client |-> [Nobody EXCEPT !.questions = Questions],
          budget |-> [Bounds EXCEPT !.exports = 1, !.requests = 1, !.faults = 1]])}
-----------------------------------------------------------------------------
(* Alert rules                                                             *)

Rule(type, accounts) ==
  [type |-> type, scans |-> {}, accounts |-> accounts, url |-> None, countMin |-> 0, riskMin |-> 0]
StaleRule == Rule("stale_external_privileged_roles", <<>>)
Scopes == {<<>>, <<"acc1">>, <<"acc2", "acc1">>, <<"acc3", "acc2">>}
Rules ==
  {Rule(t, a) : t \in RuleTypes, a \in Scopes}
  \cup {[Rule(t, a) EXCEPT !.scans = {"s1"}] : t \in RuleTypes, a \in {<<>>, <<"acc1">>}}
  \cup {[Rule("reclaimable_findings_threshold", <<>>) EXCEPT !.countMin = n, !.riskMin = c] :
          n \in {0, 1, 2}, c \in {17500, 17501}}
  \cup {[StaleRule EXCEPT !.countMin = n] : n \in {1, 2}}
  \cup {[StaleRule EXCEPT !.url = "https"]}

Catalog(bindings, urls, default) ==
  [teams |-> [i \in DOMAIN urls |-> [team |-> urls[i][1], url |-> urls[i][2]]],
   bindings |-> [i \in DOMAIN bindings |-> [account |-> bindings[i][1], team |-> bindings[i][2]]],
   default |-> default]
Catalogs ==
  {Catalog(b, t, d) :
     b \in {<<>>, << <<"acc1", "blue">> >>, << <<"acc2", "red">>, <<"acc1", "blue">> >>,
            << <<"acc3", "blue">>, <<"acc3", "red">> >>},
     t \in {<< <<"blue", "https">>, <<"red", "https">> >>, << <<"blue", "https">> >>,
            << <<"red", "plain">>, <<"red", "https">>, <<"blue", "https">> >>,
            << <<"blue", "https">>, <<"red", "plain">> >>},
     d \in {None, "red", "green"}}

Reclaimable ==
  [Edge("cdn", "acc1") EXCEPT !.id = "fcdn", !.verdict = "reclaimable", !.severity = "critical",
                              !.cost = ScoreCost("cloudfront_dist", "reclaimable")]
Stale(f) == [f EXCEPT !.verdict = "stale_review_now", !.vis.class = "privileged"]
Admin(f) == [f EXCEPT !.severity = "critical", !.verdict = "ghost_admin_access", !.vis.admin = TRUE]
F1 == F("f1", "role1", "role1", Aws, NoVis)
F3 == [F("f3", "role2", "role2", Aws, NoVis) EXCEPT !.account = "acc2"]
Earlier == [Dense EXCEPT !.findings = {Stale(F1), F3, Edge("dns", "acc1")}]
Later == [Dense EXCEPT !.findings = {Admin(F1), Stale(F3), Edge("dns", "acc1"), Reclaimable}]
Watching(who, b, on) ==
  World([disk |-> [s \in {"s1", "s2"} |-> IF s = "s1" THEN Earlier ELSE Later],
         client |-> who, connected |-> on, budget |-> [x \in DOMAIN b |-> b[x]] @@ Bounds])
\* One scan, whatever its roles, and whether they are worth an alert.
Judging ==
  {World([cloud |-> [s \in {"s1"} |-> c], connected |-> FALSE,
          client |-> [Nobody EXCEPT !.rules = {StaleRule}],
          budget |-> [Bounds EXCEPT !.requests = 1]]) : c \in RoleClouds}
Alerted ==
  {Watching([Nobody EXCEPT !.rules = Rules, !.catalogs = Catalogs],
            [requests |-> 1, catalogs |-> 1], FALSE),
   Watching([Nobody EXCEPT !.rules = {Rule(t, <<>>) : t \in RuleTypes},
                           !.catalogs = {Catalog(<<>>, << <<"red", "https">> >>, d) : d \in {None, "red"}}],
            [requests |-> 1, catalogs |-> 1, exports |-> 1], TRUE)}
  \cup Judging
  \* The scan before ends later.
  \cup {World([cloud |-> [s \in {"s1"} |-> Shared], disk |-> [s \in {"s2"} |-> Later],
               client |-> [Nobody EXCEPT !.rules = {Rule("new_critical_findings", <<"acc1">>)}],
               connected |-> FALSE, budget |-> [Bounds EXCEPT !.requests = 1]])}
-----------------------------------------------------------------------------
(* Pages                                                                   *)

Lists(scan) ==
  {[what |-> "entities", scan |-> scan, features |-> f, size |-> n, filter |-> NoFilter] :
     f \in {{}, {"stale"}, {"privileged", "admin"}}, n \in 1..2}
  \cup {[what |-> "findings", scan |-> scan, features |-> {}, size |-> n, filter |-> q] :
          n \in {1, 4}, q \in {NoFilter, [NoFilter EXCEPT !.module = "external_access"],
                               [NoFilter EXCEPT !.ptype = "aws_account", !.severity = "high"],
                               [NoFilter EXCEPT !.external = "unknown"]}}
\* One role as two scans find it, and more of one scan.
Seen(p, attached, days) ==
  Cloud({Role("role1", "acc1", {Lets(p, {})}, attached, {}, days)},
        {Bucket(<<Grant({}, TRUE, days = 0)>>)}, NoEdge)
SeenClouds == {Seen(p, a, d) : p \in {{"acc3"}, {"acc2", "acc3"}},
                               a \in {{}, {"AdministratorAccess"}}, d \in {0, 6}}
Browsing ==
  {World([cloud |-> [s \in {"s1"} |-> c],
          client |-> [Nobody EXCEPT !.views = Lists("s1"), !.overviews = {"s1"}],
          budget |-> [Bounds EXCEPT !.requests = 1, !.calls = 1]]) :
     c \in {Shared} \cup BucketClouds}
  \cup {World([disk |-> ("s1" :> Scan(c[1])) @@ ("s2" :> Scan(c[2])),
               client |-> [Nobody EXCEPT !.overviews = {"s1", "s2"}],
               budget |-> [Bounds EXCEPT !.requests = 1]]) : c \in SeenClouds \X SeenClouds}
  \cup {Watching([Nobody EXCEPT !.views = Lists("s2"), !.overviews = {"s1", "s2"}],
                 [requests |-> 1], FALSE)}

MCWorlds ==
  Browsing \cup Reading \cup Through \cup Asking \cup Wondering \cup Alerted
  \cup {Racing(Nobody, [exports |-> 2, faults |-> 1]),
        Racing(Nobody, [exports |-> 2, deadlines |-> 1]),
        Racing(Nobody, [exports |-> 2, crashes |-> 1]),
        Racing(Asks(One), [exports |-> 2, requests |-> 1]),
        Racing(Asks(One), [exports |-> 1, faults |-> 1, requests |-> 1])}
=============================================================================
