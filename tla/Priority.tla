------------------------------ MODULE Priority ------------------------------
(***************************************************************************)
(* What a finding costs and which of several comes first: internal/scorers,*)
(* cost.go and priority.go.  Costs are in cents, points in hundredths.     *)
(***************************************************************************)
EXTENDS Order, Integers

CONSTANT
  Approved        \* the external accounts of the configuration

prioritySeverityRank(s) == CASE s = "critical" -> 5 [] s = "high" -> 4 [] s = "medium" -> 3
                             [] s = "low" -> 2 [] s = "info" -> 1 [] OTHER -> 0

\* The verdict of the edge scorer is the claimability of a finding; those of
\* the scorers of external access leave it at unknown.
Claimability(f) == IF f.module = "orphaned_edge" THEN f.verdict ELSE "unknown"

\* What a month of the exposure is held to cost.
ScoreCost(type, claimability) ==
  LET direct == CASE type = "dns_record" -> 50 [] type = "s3_bucket" -> 23
                  [] type = "cloudfront_dist" -> 3500 [] type = "acm_cert" -> 700
                  [] OTHER -> 0
  IN  direct * (CASE claimability = "reclaimable" -> 5 [] claimability = "dangling" -> 3
                  [] OTHER -> 1)

isStale(f) == f.verdict = "stale_review_now"

\* The evidence of a trust says that its account is not an approved one.
UnknownVendor(f) ==
  f.role # None /\ f.ptype = "aws_account" /\ f.extAccount \notin Approved \cup {None}

severityPoints(s) ==
  CASE s = "critical" -> 10000 [] s = "high" -> 7200 [] s = "medium" -> 4800
    [] s = "low" -> 2800 [] s = "info" -> 1200 [] OTHER -> 3500

claimabilityPoints(c) ==
  CASE c = "reclaimable" -> 3800 [] c = "dangling" -> 3000 [] c = "broken" -> 2400
    [] c = "edge_obscured" -> 1800 [] OTHER -> 600

riskCostPoints(cents) == Min({4200, (12 * cents + 50) \div 100})

externalExposurePoints(f) ==
  IF f.module # "external_access" THEN 0
  ELSE Min({5200, 1000 + If(f.vis.admin, 2200) + If(isStale(f), 1400)
                       + If(f.vis.class = "privileged", 1200)
                       + If(UnknownVendor(f), 900) + If(f.ptype = None, 500)})

PriorityScore(f) ==
  severityPoints(f.severity) + claimabilityPoints(Claimability(f))
    + riskCostPoints(f.cost) + externalExposurePoints(f)

PriorityLess(a, b) ==
  LET score == <<PriorityScore(a), prioritySeverityRank(a.severity), a.cost>>
      other == <<PriorityScore(b), prioritySeverityRank(b.severity), b.cost>>
  IN  \/ \E i \in 1..3 : /\ score[i] > other[i]
                         /\ \A j \in 1..(i - 1) : score[j] = other[j]
      \/ score = other /\ Rank[a.id] < Rank[b.id]

\* The first of the findings, or none of none.
topFindingByPriority(F) ==
  {f \in F : \A x \in F \ {f} :
     PriorityLess(f, x) \/ (~PriorityLess(x, f) /\ f.nth < x.nth)}
=============================================================================
