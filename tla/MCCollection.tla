---------------------------- MODULE MCCollection ----------------------------
(***************************************************************************)
(* Instances of Collection for TLC: two accounts with two buckets and one. *)
(***************************************************************************)
EXTENDS Collection, TLC

CONSTANTS a1, a2, b1, b2, b3, f1

MCOwner == b1 :> a1 @@ b2 :> a1 @@ b3 :> a2

Website(host, b) == [host |-> host, bucket |-> b, dotted |-> FALSE,
                     service |-> "s3_website", aliased |-> FALSE]

\* Records at the website of an owned bucket, at one whose bucket has a dot in
\* its name, and at a bucket that is gone.
MCRecords ==
  {Website("owned", b1), [Website("dotted", b2) EXCEPT !.dotted = TRUE], Website("gone", f1)}

\* A bucket that is gone, a CloudFront distribution that does not list the
\* record's host, and a third party's site.
ForeignRecords ==
  {Website("gone", f1), [Website("cdn", f1) EXCEPT !.service = "cloudfront"],
   [Website("saas", f1) EXCEPT !.service = "third_party"]}
=============================================================================
