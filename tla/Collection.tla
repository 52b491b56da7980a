----------------------------- MODULE Collection -----------------------------
(***************************************************************************)
(* How a scan learns which S3 buckets the organization owns, and what the  *)
(* orphaned-edge module makes of it: account discovery (collectors/        *)
(* org.go, aws/session.go), bucket enumeration and bucket policies         *)
(* (collectors/storage.go, bucketpolicy.go), coverage                      *)
(* (pipeline/source_aws.go), and the verdicts (EdgeVerdict).               *)
(*                                                                         *)
(* One goroutine per account and one per bucket; they are held back by     *)
(* semaphores: accountSem of RoleAssumptionConcurrency slots, a new one in *)
(* every phase, and bucketSem, shared by all accounts.  An account keeps   *)
(* its slot until its last bucket is done.  Each answer of AWS is a choice *)
(* of the environment.  The CloudFront, IAM and activity collectors and    *)
(* the DNS collector run in between; their failures are warnings that      *)
(* leave the coverage alone, so they are left out and the DNS records are  *)
(* a constant.                                                             *)
(***************************************************************************)
EXTENDS FiniteSets, EdgeVerdict

CONSTANTS
  Accounts,     \* accounts Organizations lists
  Buckets,      \* buckets these accounts own
  Owner,        \* Owner[b]: the account that owns bucket b
  Records,      \* the DNS records: a set of Record
  NoHTTP,       \* the --no-http option
  AccountLimit, \* scan.role_assumption_concurrency
  BucketLimit   \* bucketMetaConcurrency, 32 in the code

\* A record's bucket is the bucket its value names; dotted, whether that name
\* has a dot; aliased, whether the distribution it points at lists its host.
IsRecord(r) == DOMAIN r = {"host", "bucket", "dotted", "service", "aliased"}
               /\ r.service \in Services /\ r.dotted \in BOOLEAN /\ r.aliased \in BOOLEAN

ASSUME OwnerAssumption   == Owner \in [Buckets -> Accounts] /\ IsFiniteSet(Accounts)
ASSUME RecordsAssumption == NoHTTP \in BOOLEAN /\ \A r \in Records : IsRecord(r)
ASSUME LimitsAssumption  == AccountLimit \in Nat \ {0} /\ BucketLimit \in Nat \ {0}

VARIABLES
  phase,     \* what the scan is doing
  acct,      \* acct[a]: the goroutine of account a in this phase
  bucket,    \* bucket[b]: the goroutine of bucket b in this phase
  usable,    \* accounts whose credentials work; AWS's secret
  coverage,  \* the Coverage value
  unlisted,  \* accounts ListBuckets failed for (the failed slice)
  denied,    \* accounts a policy read was denied in
  assets,    \* the bucket assets
  dropped,   \* history: buckets listed but not collected
  site,      \* site[r]: what the probe of record r found, once probed
  verdict    \* verdict[r]: the verdict on record r

gaps     == <<unlisted, denied>>
listing  == <<assets, dropped>>
findings == <<site, verdict>>
vars     == <<phase, acct, bucket, usable, coverage, unlisted, denied, assets,
              dropped, site, verdict>>

Phases   == {"accounts", "storage", "policies", "validate", "done", "failed"}
Progress == {"none", "queued", "working", "fanned", "done"}

TypeOK ==
  /\ phase \in Phases
  /\ acct \in [Accounts -> Progress] /\ bucket \in [Buckets -> Progress]
  /\ usable \subseteq Accounts
  /\ coverage \in [discovered : 0..Cardinality(Accounts),
                   scanned : SUBSET Accounts, failed : SUBSET Accounts]
  /\ unlisted \subseteq Accounts /\ denied \subseteq Accounts
  /\ assets \subseteq Buckets /\ dropped \subseteq Buckets \ assets
  /\ DOMAIN site \subseteq Records
  /\ \A r \in DOMAIN site : site[r] \in Sites(r.service)
  /\ verdict \in [Records -> Verdicts]

Complete(cov) == cov.failed = {}

AllDone == \A a \in Accounts : acct[a] \in {"none", "done"}

-----------------------------------------------------------------------------
(* Semaphores.                                                             *)

bucketSlots == Cardinality({b \in Buckets : bucket[b] = "working"})

\* Slots of accountSem in use; in the bucket policy phase buckets take them.
accountSlots == IF phase = "policies" THEN bucketSlots
                ELSE Cardinality({a \in Accounts : acct[a] \in {"working", "fanned"}})

AcquireAccount(a) ==
  /\ acct[a] = "queued"
  /\ accountSlots < AccountLimit
  /\ acct' = [acct EXCEPT ![a] = "working"]
  /\ UNCHANGED <<phase, bucket, usable, coverage, gaps, listing, findings>>

\* Mutant: buckets and accounts share one semaphore.
AcquireBucketShared(b) ==
  /\ bucket[b] = "queued"
  /\ accountSlots + bucketSlots < AccountLimit
  /\ bucket' = [bucket EXCEPT ![b] = "working"]
  /\ UNCHANGED <<phase, acct, usable, coverage, gaps, listing, findings>>

AcquireBucket(b) ==
  /\ bucket[b] = "queued"
  /\ IF phase = "policies" THEN accountSlots < AccountLimit ELSE bucketSlots < BucketLimit
  /\ bucket' = [bucket EXCEPT ![b] = "working"]
  /\ UNCHANGED <<phase, acct, usable, coverage, gaps, listing, findings>>

-----------------------------------------------------------------------------
(* CollectAccounts, or currentAccountOnly when no role is configured.      *)

Discovering == phase = "accounts" /\ \A a \in Accounts : acct[a] = "none"

\* The accounts cannot be listed, or the caller has no identity.
DiscoveryFails ==
  /\ Discovering
  /\ phase' = "failed"
  /\ UNCHANGED <<acct, bucket, usable, coverage, gaps, listing, findings>>

ListAccounts ==
  /\ Discovering
  /\ acct' = [a \in Accounts |-> "queued"]
  /\ UNCHANGED <<phase, bucket, usable, coverage, gaps, listing, findings>>

\* The caller's own account, with the credentials that answered for it.
currentAccountOnly(a) ==
  /\ Discovering /\ a \in usable
  /\ coverage' = [discovered |-> 1, scanned |-> {a}, failed |-> {}]
  /\ phase' = "storage"
  /\ acct' = [acct EXCEPT ![a] = "queued"]
  /\ UNCHANGED <<bucket, usable, gaps, listing, findings>>

\* AssumeAccount builds credentials that call STS when they are first used:
\* it succeeds for every account.
AssumeAccount(a) ==
  /\ phase = "accounts" /\ acct[a] = "working"
  /\ acct' = [acct EXCEPT ![a] = "done"]
  /\ coverage' = [coverage EXCEPT !.scanned = @ \cup {a}]
  /\ UNCHANGED <<phase, bucket, usable, gaps, listing, findings>>

AccountsCollected ==
  /\ phase = "accounts" /\ \A a \in Accounts : acct[a] = "done"
  /\ coverage' = [coverage EXCEPT !.discovered = Cardinality(Accounts)]
  /\ phase' = "storage"
  /\ acct' = [a \in Accounts |-> "queued"]
  /\ UNCHANGED <<bucket, usable, gaps, listing, findings>>

-----------------------------------------------------------------------------
(* CollectStorageWithConfig.                                               *)

\* One goroutine is started for each bucket listed.
ListBuckets(a) ==
  /\ phase = "storage" /\ acct[a] = "working" /\ a \in usable
  /\ acct' = [acct EXCEPT ![a] = "fanned"]
  /\ bucket' = [b \in Buckets |-> IF Owner[b] = a THEN "queued" ELSE bucket[b]]
  /\ UNCHANGED <<phase, usable, coverage, gaps, listing, findings>>

\* The role cannot be assumed, or the call is refused or throttled.
ListBucketsFails(a) ==
  /\ phase = "storage" /\ acct[a] = "working"
  /\ acct' = [acct EXCEPT ![a] = "done"]
  /\ unlisted' = unlisted \cup {a}
  /\ UNCHANGED <<phase, bucket, usable, coverage, denied, listing, findings>>

GetBucketLocation(b) ==
  /\ phase = "storage" /\ bucket[b] = "working"
  /\ bucket' = [bucket EXCEPT ![b] = "done"]
  /\ assets' = assets \cup {b}
  /\ UNCHANGED <<phase, acct, usable, coverage, gaps, dropped, findings>>

\* Mutant: the goroutine goes on after the error.
GetBucketLocationFailsGoesOn(b) ==
  /\ phase = "storage" /\ bucket[b] = "working"
  /\ bucket' = [bucket EXCEPT ![b] = "done"]
  /\ assets' = assets \cup {b} /\ dropped' = dropped \cup {b}
  /\ UNCHANGED <<phase, acct, usable, coverage, gaps, findings>>

\* The bucket is dropped without a word.
GetBucketLocationFails(b) ==
  /\ phase = "storage" /\ bucket[b] = "working"
  /\ bucket' = [bucket EXCEPT ![b] = "done"]
  /\ dropped' = dropped \cup {b}
  /\ UNCHANGED <<phase, acct, usable, coverage, gaps, assets, findings>>

\* bwg.Wait of the account's goroutine returns.
BucketsDone(a) ==
  /\ acct[a] = "fanned"
  /\ \A b \in Buckets : Owner[b] = a => bucket[b] = "done"
  /\ acct' = [acct EXCEPT ![a] = "done"]
  /\ UNCHANGED <<phase, bucket, usable, coverage, gaps, listing, findings>>

\* Mutant: the failed accounts are not folded into the coverage.
StorageCollectedUnfolded ==
  /\ phase = "storage" /\ AllDone
  /\ phase' = "policies"
  /\ bucket' = [b \in Buckets |-> IF b \in assets THEN "queued" ELSE "none"]
  /\ UNCHANGED <<acct, usable, coverage, gaps, listing, findings>>

\* The accounts whose buckets are unknown are folded into the coverage.
StorageCollected ==
  /\ phase = "storage" /\ AllDone
  /\ coverage' = [coverage EXCEPT !.failed = @ \cup unlisted]
  /\ phase' = "policies"
  /\ bucket' = [b \in Buckets |-> IF b \in assets THEN "queued" ELSE "none"]
  /\ UNCHANGED <<acct, usable, gaps, listing, findings>>

-----------------------------------------------------------------------------
(* CollectBucketPoliciesWithConfig.                                        *)

\* The policy is read, or there is none, or the read fails for another reason
\* than a missing permission.
GetBucketPolicy(b) ==
  /\ phase = "policies" /\ bucket[b] = "working"
  /\ bucket' = [bucket EXCEPT ![b] = "done"]
  /\ UNCHANGED <<phase, acct, usable, coverage, gaps, listing, findings>>

GetBucketPolicyDenied(b) ==
  /\ phase = "policies" /\ bucket[b] = "working"
  /\ bucket' = [bucket EXCEPT ![b] = "done"]
  /\ denied' = denied \cup {Owner[b]}
  /\ UNCHANGED <<phase, acct, usable, coverage, unlisted, listing, findings>>

PoliciesCollected ==
  /\ phase = "policies" /\ \A b \in assets : bucket[b] = "done"
  /\ coverage' = [coverage EXCEPT !.failed = @ \cup denied]
  /\ phase' = "validate"
  /\ UNCHANGED <<acct, bucket, usable, gaps, listing, findings>>

-----------------------------------------------------------------------------
(* The orphaned-edge module of pipeline.Run.                               *)

\* The probe asks for the record's own host name: what the site serves need
\* not tell of the bucket in the record's value, since a record may point at
\* the website of a bucket of another name.
ValidateRecord(r) ==
  /\ phase = "validate" /\ r \notin DOMAIN site
  /\ \E s \in Sites(r.service) :
        site' = [q \in DOMAIN site \cup {r} |-> IF q = r THEN s ELSE site[q]]
  /\ UNCHANGED <<phase, acct, bucket, usable, coverage, gaps, listing, verdict>>

Score ==
  /\ phase = "validate" /\ DOMAIN site = Records
  /\ verdict' = [r \in Records |->
        applyCoverageGuard(classifyRisk(r, validateNode(site[r], NoHTTP), assets),
                           Complete(coverage))]
  /\ phase' = "done"
  /\ UNCHANGED <<acct, bucket, usable, coverage, gaps, listing, site>>

-----------------------------------------------------------------------------

Init ==
  /\ phase = "accounts"
  /\ acct = [a \in Accounts |-> "none"] /\ bucket = [b \in Buckets |-> "none"]
  /\ usable \in SUBSET Accounts
  /\ coverage = [discovered |-> 0, scanned |-> {}, failed |-> {}]
  /\ unlisted = {} /\ denied = {} /\ assets = {} /\ dropped = {}
  /\ site = << >> /\ verdict = [r \in Records |-> "unknown"]

CollectAccounts ==
  \/ ListAccounts \/ DiscoveryFails \/ AccountsCollected
  \/ \E a \in Accounts : AssumeAccount(a) \/ currentAccountOnly(a)

CollectStorage ==
  \/ \E a \in Accounts : ListBuckets(a) \/ ListBucketsFails(a) \/ BucketsDone(a)
  \/ \E b \in Buckets : GetBucketLocation(b) \/ GetBucketLocationFails(b)
  \/ StorageCollected

CollectBucketPolicies ==
  \/ \E b \in Buckets : GetBucketPolicy(b) \/ GetBucketPolicyDenied(b)
  \/ PoliciesCollected

Next ==
  \/ CollectAccounts \/ CollectStorage \/ CollectBucketPolicies
  \/ \E r \in Records : ValidateRecord(r)
  \/ Score
  \/ \E a \in Accounts : AcquireAccount(a)
  \/ \E b \in Buckets : AcquireBucket(b)

\* Goroutines that can go on do: AWS calls return, a free slot is taken, the
\* probes have a timeout.
Fairness == WF_vars(Next)

Spec     == Init /\ [][Next]_vars
FairSpec == Spec /\ Fairness

-----------------------------------------------------------------------------
(* Properties.                                                             *)

(* A critical verdict rests on an uninterrupted look at every account that *)
(* was discovered: no gap found in any phase is lost on the way to the     *)
(* guard (pipeline.go:166-170).                                            *)
CriticalNeedsEveryAccount ==
  (\E r \in Records : verdict[r] = "reclaimable_critical") =>
    /\ coverage.discovered = Cardinality(coverage.scanned)
    /\ \A a \in coverage.scanned : acct[a] = "done" /\ a \in usable
    /\ unlisted = {} /\ denied = {}
    /\ \A b \in Buckets : Owner[b] \in coverage.scanned => b \in assets \cup dropped

(* A record that points at the website of a bucket the scan found is never *)
(* reported as reclaimable, whatever its host name serves ("Deleted        *)
(* fingerprint but bucket exists in scanned accounts means not             *)
(* reclaimable", risk.go:53).  Buckets with a dot in their name are         *)
(* excepted: bucketNameFromTarget cuts the name, and they are reported.    *)
OwnedIsNotReclaimable ==
  \A r \in Records : r.service = "s3_website" /\ ~ r.dotted /\ r.bucket \in assets =>
     verdict[r] \notin {"reclaimable_critical", "reclaimable_high"}

(* "a gap in bucket enumeration must downgrade that verdict's confidence"  *)
(* (storage.go:19-20).                                                     *)
GapDowngrades ==
  dropped # {} => \A r \in Records : verdict[r] # "reclaimable_critical"

(* The goroutines of a scan never wait for each other for ever, however    *)
(* many buckets share the slots with however few accounts.                 *)
CollectEnds == <>(phase \in {"done", "failed"})
=============================================================================
