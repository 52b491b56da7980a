-------------------------------- MODULE Trust -------------------------------
(***************************************************************************)
(* What a scan makes of access from outside: the trust policies of roles,  *)
(* the policies that say what a role may do, when it was used last, and    *)
(* the policies of buckets (internal/collectors, trust.go, activity.go and *)
(* bucketpolicy.go), scored by internal/scorers (trust.go,                 *)
(* permission_visibility.go and resource_exposure.go).                     *)
(*                                                                         *)
(* A policy is the set of its statements, one that cannot be parsed is     *)
(* empty.  An action is the family the code puts it in by its prefix.  Any *)
(* call to AWS may be lost, which is named by what it was to read.         *)
(***************************************************************************)
EXTENDS Priority

CONSTANTS
  StaleDays,      \* its stale_threshold_days
  GhostDays,      \* its ghost_threshold_days
  RootOf,         \* the ARN of the root of each account id
  Federated,      \* the kind of each identity provider
  PrincipalArn,   \* the node made for each type and value of a principal
  FindingId       \* the hash of a resource and a principal's node

ASSUME IdsTellApart == IsInjective(PrincipalArn) /\ IsInjective(FindingId)

\* An account id is no ARN, the ARN of its root is; a provider has a kind of
\* its own.
ASSUME NamesTellApart ==
  /\ StaleDays \in Int /\ GhostDays \in Int
  /\ {None, "*"} \cap (Accounts \cup DOMAIN ArnAccount) = {}
  /\ Accounts \cap DOMAIN ArnAccount = {} /\ None \notin DOMAIN Federated
  /\ {None, "aws_account", "public"} \cap Range(Federated) = {}
  /\ \A a \in Accounts : RootOf[a] \in DOMAIN ArnAccount /\ ArnAccount[RootOf[a]] = a
  /\ \A v \in DOMAIN ArnAccount : ArnAccount[v] # None

NoVis == [class |-> None, admin |-> FALSE, assume |-> FALSE, iamWrite |-> FALSE]

SeverityRank(s) == CASE s = "critical" -> 4 [] s = "high" -> 3 [] s = "medium" -> 2
                     [] s = "low" -> 1 [] OTHER -> 0
-----------------------------------------------------------------------------
(* Collecting                                                              *)

\* The other end of an IAM principal, unless it is the account itself.
normalizeExternalAWSPrincipal(account, v) ==
  CASE v \in Accounts -> IF v = account THEN None ELSE RootOf[v]
    [] v \in DOMAIN ArnAccount -> IF ArnAccount[v] = account THEN None ELSE v
    [] OTHER -> None

\* AWS itself is not an identity provider.
classifyFederatedPrincipal(v) == IF Federated[v] = "amazonaws" THEN None ELSE Federated[v]

statementAllowsAssumeRole(st) == st.allow /\ st.assume

extractExternalPrincipals(account, policy) ==
  LET allowed == {st \in policy : statementAllowsAssumeRole(st)}
      aws == [type : {"aws_account"},
              value : {normalizeExternalAWSPrincipal(account, v) : v \in UNION {st.aws : st \in allowed}}]
      federated == {[type |-> classifyFederatedPrincipal(v), value |-> v] :
                      v \in UNION {st.federated : st \in allowed}}
  IN  {p \in aws \cup federated : None \notin {p.type, p.value}}

\* The policies of a role as far as the calls for them were answered.
collectRolePermissionInputs(r, lost) ==
  [attached |-> {n \in r.attached : <<"attached", r.arn, n>> \notin lost},
   inline |-> {d \in r.inline : <<"inline", r.arn, d.name>> \notin lost}]

\* A role nobody outside may assume is not looked at any further.
TrustingRoles(aws, lost) ==
  {r \in aws.roles : /\ <<"roles", r.account, None>> \notin lost
                     /\ extractExternalPrincipals(r.account, r.trust) # {}}

RoleTrusts(aws, lost) ==
  UNION {{[role |-> r, principal |-> p] : p \in extractExternalPrincipals(r.account, r.trust)} :
           r \in TrustingRoles(aws, lost)}

\* The days since a role was used: -1 if never, and if there is no record of it.
CollectActivity(r, lost) ==
  LET recorded == {<<"activity", r.account, None>>, <<"last_used", r.arn, None>>} \cap lost = {}
  IN  IF recorded /\ r.used THEN Max({r.days, 0}) ELSE -1

Public == [type |-> "public", value |-> "*"]

Grantees(account, st) ==
  {p \in IF st.everyone THEN {Public}
         ELSE {IF v = "*" THEN Public
               ELSE [type |-> "aws_account", value |-> normalizeExternalAWSPrincipal(account, v)] :
                 v \in st.aws} : p.value # None}

\* One grant for each principal of each statement of a bucket's policy.
externalGrantsFromBucketPolicy(b) ==
  UNION {{[bucket |-> b, principal |-> p, write |-> b.policy[i].write, nth |-> i] :
            p \in Grantees(b.account, b.policy[i])} :
           i \in {j \in DOMAIN b.policy : b.policy[j].allow}}

\* A call that is denied is a gap in the coverage; one that fails otherwise is not.
CollectBucketPolicies(aws, lost) ==
  LET read == {b \in aws.buckets : {<<"policy", b.arn, None>>, <<"denied", b.arn, None>>}
                                     \cap lost = {}}
  IN  [grants |-> UNION {externalGrantsFromBucketPolicy(b) : b \in read},
       failed |-> {b.account : b \in {x \in aws.buckets : <<"denied", x.arn, None>> \in lost}}]

\* The calls that may be lost.
CallsFor(aws) ==
  {<<c, a, None>> : c \in {"roles", "activity"}, a \in aws.accounts}
  \cup {<<"last_used", r.arn, None>> : r \in aws.roles}
  \cup UNION {{<<"attached", r.arn, n>> : n \in r.attached} : r \in aws.roles}
  \cup UNION {{<<"inline", r.arn, d.name>> : d \in r.inline} : r \in aws.roles}
  \cup {<<c, b.arn, None>> : c \in {"policy", "denied"}, b \in aws.buckets}
-----------------------------------------------------------------------------
(* Scoring                                                                 *)

parsePermissionPolicyDocument(inputs) == {d \in inputs.inline : d.parses}

Allows(inputs) ==
  {st \in UNION {d.statements : d \in parsePermissionPolicyDocument(inputs)} :
     st.allow /\ ~st.notAction /\ st.actions # {}}

\* What the documents, and the names of a few managed policies, let a role do.
Capabilities(inputs) ==
  LET may(family, managed) == \/ \E st \in Allows(inputs) : family \in st.actions
                              \/ managed \in inputs.attached
  IN  [all |-> \/ \E st \in Allows(inputs) : "all" \in st.actions /\ st.everything
               \/ "AdministratorAccess" \in inputs.attached,
       assume |-> may("assume", None), iamWrite |-> may("iam", "IAMFullAccess"),
       s3Write |-> may("s3", "AmazonS3FullAccess"),
       cloudFront |-> may("cloudfront", "AmazonCloudFrontFullAccess")]

DeriveRolePermissionVisibility(inputs) ==
  LET can == Capabilities(inputs)
      adminLike == can.all \/ (can.assume /\ can.iamWrite /\ can.cloudFront)
      tier == CASE can.all -> "admin"
                [] ~can.all /\ can.iamWrite /\ can.assume -> "privileged"
                [] OTHER -> IF can.iamWrite \/ can.s3Write \/ can.cloudFront \/ can.assume
                            THEN "scoped" ELSE IF Allows(inputs) # {} THEN "limited" ELSE "unknown"
      parsed == parsePermissionPolicyDocument(inputs) = inputs.inline
  IN  IF inputs.attached = {} /\ inputs.inline = {} THEN [NoVis EXCEPT !.class = "unknown"]
      ELSE [class |-> IF ~parsed /\ ~can.all THEN "unknown" ELSE tier,
            admin |-> adminLike, assume |-> can.assume, iamWrite |-> can.iamWrite]

\* Mutant: no record of a use counts as a recent one.
activitySeverityTrusting(days, stale, ghost) ==
  CASE days > ghost -> <<"high", "stale_review_now">>
    [] days >= stale /\ days <= ghost -> <<"medium", "aging">>
    [] OTHER -> <<"low", "active">>

activitySeverity(days, stale, ghost) ==
  CASE days = -1 \/ days > ghost -> <<"high", "stale_review_now">>
    [] days >= stale /\ days <= ghost -> <<"medium", "aging">>
    [] OTHER -> <<"low", "active">>

\* The thresholds in force.
StaleAfter == IF StaleDays <= 0 THEN 90 ELSE StaleDays
GhostAfter == IF GhostDays <= 0 THEN 365 ELSE GhostDays

\* An account outside the approved ones, and an admin, may only raise it.
classifyTrust(admin, days, type, account) ==
  LET base == activitySeverity(days, StaleAfter, GhostAfter)
      unknown == type = "aws_account" /\ account # None /\ account \notin Approved
      raised == IF unknown /\ SeverityRank("high") > SeverityRank(base[1])
                THEN <<"high", "unknown_vendor">> ELSE base
  IN  IF admin /\ SeverityRank("critical") > SeverityRank(raised[1])
      THEN <<"critical", "ghost_admin_access">> ELSE raised

AccountOf(p) ==
  IF p.type = "aws_account" /\ p.value \in DOMAIN ArnAccount THEN ArnAccount[p.value] ELSE None

TrustFinding(t, lost) ==
  LET r == t.role
      vis == DeriveRolePermissionVisibility(collectRolePermissionInputs(r, lost))
      verdict == classifyTrust(vis.admin, CollectActivity(r, lost), t.principal.type,
                               AccountOf(t.principal))
  IN  [id |-> FindingId[<<r.arn, PrincipalArn[t.principal]>>], nth |-> 1,
       module |-> "external_access", severity |-> verdict[1], verdict |-> verdict[2],
       arn |-> r.arn, account |-> r.account, role |-> r.arn,
       external |-> t.principal.value, ptype |-> t.principal.type,
       extAccount |-> AccountOf(t.principal), vis |-> vis, cost |-> 0]

ScoreTrust(aws, lost) == {TrustFinding(t, lost) : t \in RoleTrusts(aws, lost)}

classifyResourceExposure(public, write, approved) ==
  CASE public -> IF write THEN <<"critical", "public_write">> ELSE <<"high", "public_read">>
    [] ~public /\ approved -> <<"low", "approved_vendor_grant">>
    [] OTHER -> IF write THEN <<"high", "external_write">> ELSE <<"medium", "external_read">>

\* A finding for each grant: those of one bucket to one principal share an id.
ExposureFinding(g) ==
  LET verdict == classifyResourceExposure(g.principal.type = "public", g.write,
                                          AccountOf(g.principal) \in Approved)
  IN  [id |-> FindingId[<<g.bucket.arn, PrincipalArn[g.principal]>>], nth |-> g.nth,
       module |-> "external_access", severity |-> verdict[1], verdict |-> verdict[2],
       arn |-> g.bucket.arn, account |-> g.bucket.account, role |-> None,
       external |-> None, ptype |-> g.principal.type,
       extAccount |-> AccountOf(g.principal), vis |-> NoVis, cost |-> 0]

ScoreResourceExposure(grants) == {ExposureFinding(g) : g \in grants}
-----------------------------------------------------------------------------
(* The artifacts of a scan                                                 *)

Node(arn, type, account, nth) ==
  [arn |-> arn, type |-> type, account |-> account, nth |-> nth]

Trusting(src, p) == [src |-> src, type |-> "TRUSTS", dst |-> PrincipalArn[p]]

\* Of the accounts that trust one principal, the last to be collected keeps it.
Keepers(trusts) ==
  {keep \in [{t.principal : t \in trusts} -> {t.role.account : t \in trusts}] :
     \A p \in DOMAIN keep : \E t \in trusts : t.principal = p /\ t.role.account = keep[p]}

\* A principal named by a bucket and by a role is in the file twice.
Artifacts(aws, lost, keep) ==
  LET trusts == RoleTrusts(aws, lost)
      policies == CollectBucketPolicies(aws, lost)
  IN  [accounts |-> aws.accounts, failed |-> policies.failed,
       assets |-> {Node(r.arn, "iam_role", r.account, 1) : r \in TrustingRoles(aws, lost)}
          \cup {Node(PrincipalArn[p], "external_principal", keep[p], 2) : p \in DOMAIN keep}
          \cup {Node(b.arn, "s3_bucket", b.account, 1) : b \in aws.buckets}
          \cup {Node(PrincipalArn[g.principal], "external_principal", None, 1) :
                  g \in policies.grants}
          \cup aws.edge.assets,
       rels |-> {Trusting(t.role.arn, t.principal) : t \in trusts}
          \cup {Trusting(g.bucket.arn, g.principal) : g \in policies.grants}
          \cup aws.edge.rels,
       findings |-> ScoreTrust(aws, lost) \cup ScoreResourceExposure(policies.grants)
          \cup aws.edge.findings]
=============================================================================
