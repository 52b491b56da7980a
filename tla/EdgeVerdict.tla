---------------------------- MODULE EdgeVerdict ----------------------------
(***************************************************************************)
(* What a scan makes of one DNS record: the probe of the record's host     *)
(* name (validators/http.go) and the verdict on what it found              *)
(* (scorers/risk.go, pipeline.applyCoverageGuard).  Pure operators; the    *)
(* module Collection puts them to work.                                    *)
(*                                                                         *)
(* A page is what the site behind the host name serves, and stands for the *)
(* status, Server header and body the signature catalog looks at.  A       *)
(* verdict is the claimability of a finding with its severity.             *)
(***************************************************************************)
EXTENDS Naturals

Services == {"s3_website", "cloudfront", "third_party"}
DnsStatus == {"resolved", "nxdomain", "timeout", "servfail"}
Pages    == {"plain", "bucket_deleted", "bucket_private", "controlled", "unclaimed"}

\* How far the probe gets: HEAD is answered; only the GET after it is; neither.
Reach    == {"head", "get", "silent"}

\* The pages a site can serve: the S3 website endpoint knows its buckets only.
PagesOf  == [s3_website  |-> {"plain", "bucket_deleted", "bucket_private"},
             cloudfront  |-> {"plain", "bucket_deleted", "bucket_private", "controlled"},
             third_party |-> Pages]

\* The states a record's site can be in, where they make a difference.
Sites(service) ==
  {site \in [dns : DnsStatus, reach : Reach, page : PagesOf[service]] :
     /\ site.dns # "resolved" => site.reach = "silent"
     /\ site.reach = "silent" => site.page = "plain"}

\* takeoverSignatures: what a matching response tells, and whether the
\* signature looks at the body.
Signatures ==
  [plain          |-> [fingerprint |-> "none",       claimable |-> FALSE, body |-> FALSE],
   bucket_deleted |-> [fingerprint |-> "deleted",    claimable |-> TRUE,  body |-> TRUE],
   bucket_private |-> [fingerprint |-> "private",    claimable |-> FALSE, body |-> FALSE],
   controlled     |-> [fingerprint |-> "controlled", claimable |-> FALSE, body |-> TRUE],
   unclaimed      |-> [fingerprint |-> "unclaimed",  claimable |-> TRUE,  body |-> TRUE]]

matchTakeoverSignature(page, body) ==
  LET signature == Signatures[IF Signatures[page].body /\ ~ body THEN "plain" ELSE page]
  IN  [dns |-> "resolved", fingerprint |-> signature.fingerprint, claimable |-> signature.claimable]

\* A name that does not resolve, or a site that does not answer.
Unanswered(dns) == [dns |-> dns, fingerprint |-> "none", claimable |-> FALSE]

Validations == [dns : DnsStatus, claimable : BOOLEAN,
                fingerprint : {"none", "deleted", "private", "controlled", "unclaimed"}]

\* The answer to HEAD is taken when there is one, and it has no body; GET is
\* tried only when HEAD fails.
validateNode(site, noHTTP) ==
  IF site.dns # "resolved" \/ noHTTP \/ site.reach = "silent" THEN Unanswered(site.dns)
  ELSE matchTakeoverSignature(site.page, site.reach = "get")

-----------------------------------------------------------------------------

Verdicts == {"reclaimable_critical", "reclaimable_high", "dangling_high",
             "edge_obscured", "broken", "unknown"}

\* bucketNameFromTarget: the first label of the record's value, which for a
\* bucket with a dot in its name is no bucket's name.
bucketNameFromTarget(record) == IF record.dotted THEN "first label" ELSE record.bucket

\* Mutant: the bucket set is not consulted.
classifyRiskAlways(record, v, bucketNames) ==
  IF v.fingerprint = "deleted" THEN "reclaimable_critical"
  ELSE IF v.claimable THEN "reclaimable_high" ELSE "unknown"

classifyRisk(record, v, bucketNames) ==
  CASE v.dns # "resolved" -> "broken"
    [] v.dns = "resolved" /\ v.fingerprint = "deleted" /\ record.service = "s3_website"
         -> IF bucketNameFromTarget(record) \notin bucketNames
            THEN "reclaimable_critical" ELSE "dangling_high"
    [] OTHER
         -> IF v.claimable THEN "reclaimable_high"
            ELSE IF v.fingerprint # "none" THEN "dangling_high"
            ELSE IF record.service = "cloudfront" /\ ~ record.aliased THEN "edge_obscured"
            ELSE "unknown"

\* Mutant: the guard is not applied.
applyCoverageGuardNever(verdict, complete) == verdict

applyCoverageGuard(verdict, complete) ==
  IF ~ complete /\ verdict = "reclaimable_critical" THEN "reclaimable_high" ELSE verdict
=============================================================================
