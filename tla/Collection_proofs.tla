-------------------------- MODULE Collection_proofs --------------------------
(***************************************************************************)
(* Proofs about the collection of the buckets and the verdicts, for any    *)
(* number of accounts and buckets, any records and any width of the        *)
(* semaphores.                                                             *)
(***************************************************************************)
EXTENDS Collection, FiniteSetTheorems, TLAPS

USE OwnerAssumption, RecordsAssumption, LimitsAssumption

-----------------------------------------------------------------------------
(* The invariant.  What the guard is told at the end (the accounts that    *)
(* failed) has to be followed from the goroutine of each account and each  *)
(* bucket, phase by phase: CriticalNeedsEveryAccount speaks of the last    *)
(* phase only, and TypeOK of none.                                         *)

\* The account has answered, and each of its buckets is kept or given up.
Enumerated(a) ==
  /\ a \in usable
  /\ \A b \in Buckets : Owner[b] = a => b \in assets \cup dropped

\* Until the accounts are known no bucket is; an account counts as scanned
\* from the moment its goroutine is done.
BeforeStorage ==
  phase \in {"accounts", "failed"} =>
    /\ unlisted = {} /\ denied = {} /\ assets = {} /\ dropped = {}
    /\ coverage.failed = {}
    /\ \A b \in Buckets : bucket[b] = "none"
    /\ \A a \in Accounts : /\ acct[a] # "fanned"
                           /\ a \in coverage.scanned <=> acct[a] = "done"

\* From then on the scanned accounts are those that have a goroutine.
AccountsKnown ==
  phase \notin {"accounts", "failed"} =>
    /\ coverage.discovered = Cardinality(coverage.scanned)
    /\ \A a \in Accounts : a \in coverage.scanned <=> acct[a] # "none"

\* An account at work in the storage phase, and its buckets.
InStorage ==
  phase = "storage" =>
    /\ denied = {} /\ coverage.failed = {}
    /\ \A a \in Accounts :
         /\ acct[a] \in {"none", "queued", "working"} =>
              /\ a \notin unlisted
              /\ \A b \in Buckets : Owner[b] = a => bucket[b] = "none"
         /\ acct[a] = "fanned" => a \in usable
         /\ acct[a] = "done" => a \in unlisted \/ Enumerated(a)
    /\ \A b \in Buckets : bucket[b] = "done" <=> b \in assets \cup dropped

\* Afterwards an account is enumerated or among those that failed.
AfterStorage ==
  phase \in {"policies", "validate", "done"} =>
    /\ unlisted \subseteq coverage.failed
    /\ \A a \in Accounts :
         /\ acct[a] \in {"none", "done"}
         /\ acct[a] = "done" => a \in unlisted \/ Enumerated(a)

PoliciesRead == phase \in {"validate", "done"} => denied \subseteq coverage.failed

\* A verdict is the one the code computes, from the coverage at the end.
Verdict(r) ==
  applyCoverageGuard(classifyRisk(r, validateNode(site[r], NoHTTP), assets),
                     Complete(coverage))

Scored ==
  IF phase = "done" THEN DOMAIN site = Records /\ \A r \in Records : verdict[r] = Verdict(r)
  ELSE \A r \in Records : verdict[r] = "unknown"

CInv == /\ TypeOK /\ BeforeStorage /\ AccountsKnown
        /\ InStorage /\ AfterStorage /\ PoliciesRead /\ Scored

-----------------------------------------------------------------------------
(* Facts about the operators.                                              *)

\* The number of accounts is a number, and so is that of any of them.
LEMMA AccountsCounted ==
  /\ Cardinality(Accounts) \in Nat
  /\ \A S \in SUBSET Accounts : Cardinality(S) \in 0..Cardinality(Accounts)
  /\ \A a \in Accounts : Cardinality({a}) = 1
<1>1. Cardinality(Accounts) \in Nat
  BY FS_CardinalityType
<1>2. ASSUME NEW S \in SUBSET Accounts PROVE Cardinality(S) \in 0..Cardinality(Accounts)
  <2>1. IsFiniteSet(S) /\ Cardinality(S) <= Cardinality(Accounts)
    BY FS_Subset
  <2>2. Cardinality(S) \in Nat
    BY <2>1, FS_CardinalityType
  <2> QED
    BY <1>1, <2>1, <2>2
<1> QED
  BY <1>1, <1>2, FS_Singleton

\* A verdict is one of those there are.
LEMMA VerdictType ==
  ASSUME NEW record, NEW v, NEW names, NEW complete
  PROVE  applyCoverageGuard(classifyRisk(record, v, names), complete) \in Verdicts
BY DEF applyCoverageGuard, classifyRisk, Verdicts

\* An incomplete scan has no critical verdict.
LEMMA GuardWithoutCoverage ==
  ASSUME NEW verdict0 PROVE applyCoverageGuard(verdict0, FALSE) # "reclaimable_critical"
BY DEF applyCoverageGuard

\* The page of a website claims a bucket only by saying it was deleted.
LEMMA WebsiteClaims ==
  ASSUME NEW s \in Sites("s3_website"), NEW noHTTP \in BOOLEAN
  PROVE  LET v == validateNode(s, noHTTP) IN v.claimable => v.fingerprint = "deleted"
<1>1. s.page \in {"plain", "bucket_deleted", "bucket_private"}
  BY DEF Sites, PagesOf
<1>2. CASE s.page = "plain"
  BY <1>2 DEF validateNode, matchTakeoverSignature, Signatures, Unanswered
<1>3. CASE s.page = "bucket_deleted"
  BY <1>3 DEF validateNode, matchTakeoverSignature, Signatures, Unanswered
<1>4. CASE s.page = "bucket_private"
  BY <1>4 DEF validateNode, matchTakeoverSignature, Signatures, Unanswered
<1> QED
  BY <1>1, <1>2, <1>3, <1>4

\* A bucket the scan found is not reclaimable from the website it serves.
LEMMA OwnedVerdict ==
  ASSUME NEW record, record.service = "s3_website", ~ record.dotted,
         NEW names, record.bucket \in names, NEW complete \in BOOLEAN,
         NEW s \in Sites("s3_website"), NEW noHTTP \in BOOLEAN
  PROVE  applyCoverageGuard(classifyRisk(record, validateNode(s, noHTTP), names), complete)
           \notin {"reclaimable_critical", "reclaimable_high"}
<1> DEFINE v == validateNode(s, noHTTP)
<1>1. v.claimable => v.fingerprint = "deleted"
  BY WebsiteClaims
<1>2. bucketNameFromTarget(record) \in names
  BY DEF bucketNameFromTarget
<1> HIDE DEF v
<1>3. classifyRisk(record, v, names) \notin {"reclaimable_critical", "reclaimable_high"}
  BY <1>1, <1>2 DEF classifyRisk
<1>4. applyCoverageGuard(classifyRisk(record, v, names), complete)
        \notin {"reclaimable_critical", "reclaimable_high"}
  BY <1>3 DEF applyCoverageGuard
<1> QED
  BY <1>4 DEF v

-----------------------------------------------------------------------------
(* The invariant is inductive.                                             *)

\* A collection begins with its invariant.
LEMMA CInvInit == Init => CInv
<1> SUFFICES ASSUME Init PROVE CInv
  OBVIOUS
<1> USE DEF Init
<1>1. TypeOK
  <2>1. coverage \in [discovered : 0..Cardinality(Accounts),
                      scanned : SUBSET Accounts, failed : SUBSET Accounts]
    BY AccountsCounted
  <2>2. DOMAIN site = {}
    OBVIOUS
  <2> QED
    BY <2>1, <2>2 DEF TypeOK, Phases, Progress, Verdicts
<1>2. BeforeStorage /\ AccountsKnown /\ InStorage /\ AfterStorage /\ PoliciesRead /\ Scored
  BY DEF BeforeStorage, AccountsKnown, InStorage, AfterStorage, PoliciesRead, Scored
<1> QED
  BY <1>1, <1>2 DEF CInv


\* Each step keeps the invariant.
LEMMA CInvStep == CInv /\ [Next]_vars => CInv'
<1> SUFFICES ASSUME CInv, [Next]_vars PROVE CInv'
  OBVIOUS
<1> USE DEF CInv
<1>1. ASSUME ListAccounts PROVE CInv'
  <2>1. TypeOK'
    BY <1>1, AccountsCounted DEF ListAccounts, Discovering, TypeOK, gaps, listing, findings, Phases, Progress
  <2>2. BeforeStorage'
    BY <1>1 DEF ListAccounts, Discovering, TypeOK, BeforeStorage, gaps, listing, findings
  <2>3. AccountsKnown'
    BY <1>1 DEF ListAccounts, Discovering, TypeOK, BeforeStorage, AccountsKnown, gaps, listing, findings
  <2>4. InStorage'
    BY <1>1 DEF ListAccounts, Discovering, TypeOK, BeforeStorage, AccountsKnown, InStorage, Enumerated, gaps, listing, findings
  <2>5. AfterStorage'
    BY <1>1 DEF ListAccounts, Discovering, TypeOK, InStorage, AfterStorage, Enumerated, gaps, listing, findings
  <2>6. PoliciesRead'
    BY <1>1 DEF ListAccounts, Discovering, TypeOK, BeforeStorage, InStorage, PoliciesRead, gaps, listing, findings
  <2>7. Scored'
    BY <1>1 DEF ListAccounts, Discovering, TypeOK, BeforeStorage, Scored, Verdict, gaps, listing, findings
  <2> QED
    BY <2>1, <2>2, <2>3, <2>4, <2>5, <2>6, <2>7
<1>2. ASSUME DiscoveryFails PROVE CInv'
  <2>1. TypeOK'
    BY <1>2, AccountsCounted DEF DiscoveryFails, Discovering, TypeOK, gaps, listing, findings, Phases, Progress
  <2>2. BeforeStorage'
    BY <1>2 DEF DiscoveryFails, Discovering, TypeOK, BeforeStorage, gaps, listing, findings
  <2>3. AccountsKnown'
    BY <1>2 DEF DiscoveryFails, Discovering, TypeOK, BeforeStorage, AccountsKnown, gaps, listing, findings
  <2>4. InStorage'
    BY <1>2 DEF DiscoveryFails, Discovering, TypeOK, BeforeStorage, AccountsKnown, InStorage, Enumerated, gaps, listing, findings
  <2>5. AfterStorage'
    BY <1>2 DEF DiscoveryFails, Discovering, TypeOK, InStorage, AfterStorage, Enumerated, gaps, listing, findings
  <2>6. PoliciesRead'
    BY <1>2 DEF DiscoveryFails, Discovering, TypeOK, BeforeStorage, InStorage, PoliciesRead, gaps, listing, findings
  <2>7. Scored'
    BY <1>2 DEF DiscoveryFails, Discovering, TypeOK, BeforeStorage, Scored, Verdict, gaps, listing, findings
  <2> QED
    BY <2>1, <2>2, <2>3, <2>4, <2>5, <2>6, <2>7
<1>3. ASSUME AccountsCollected PROVE CInv'
  <2>1. TypeOK'
    BY <1>3, AccountsCounted DEF AccountsCollected, TypeOK, gaps, listing, findings, Phases, Progress
  <2>2. BeforeStorage'
    BY <1>3 DEF AccountsCollected, TypeOK, BeforeStorage, gaps, listing, findings
  <2>3. AccountsKnown'
    BY <1>3 DEF AccountsCollected, TypeOK, BeforeStorage, AccountsKnown, gaps, listing, findings
  <2>4. InStorage'
    BY <1>3 DEF AccountsCollected, TypeOK, BeforeStorage, AccountsKnown, InStorage, Enumerated, gaps, listing, findings
  <2>5. AfterStorage'
    BY <1>3 DEF AccountsCollected, TypeOK, InStorage, AfterStorage, Enumerated, gaps, listing, findings
  <2>6. PoliciesRead'
    BY <1>3 DEF AccountsCollected, TypeOK, BeforeStorage, InStorage, PoliciesRead, gaps, listing, findings
  <2>7. Scored'
    BY <1>3 DEF AccountsCollected, TypeOK, BeforeStorage, Scored, Verdict, gaps, listing, findings
  <2> QED
    BY <2>1, <2>2, <2>3, <2>4, <2>5, <2>6, <2>7
<1>4. ASSUME NEW a \in Accounts, AssumeAccount(a) PROVE CInv'
  <2>1. TypeOK'
    BY <1>4, AccountsCounted DEF AssumeAccount, TypeOK, gaps, listing, findings, Phases, Progress
  <2>2. BeforeStorage'
    BY <1>4 DEF AssumeAccount, TypeOK, BeforeStorage, gaps, listing, findings
  <2>3. AccountsKnown'
    BY <1>4 DEF AssumeAccount, TypeOK, BeforeStorage, AccountsKnown, gaps, listing, findings
  <2>4. InStorage'
    BY <1>4 DEF AssumeAccount, TypeOK, BeforeStorage, AccountsKnown, InStorage, Enumerated, gaps, listing, findings
  <2>5. AfterStorage'
    BY <1>4 DEF AssumeAccount, TypeOK, InStorage, AfterStorage, Enumerated, gaps, listing, findings
  <2>6. PoliciesRead'
    BY <1>4 DEF AssumeAccount, TypeOK, BeforeStorage, InStorage, PoliciesRead, gaps, listing, findings
  <2>7. Scored'
    BY <1>4 DEF AssumeAccount, TypeOK, BeforeStorage, Scored, Verdict, gaps, listing, findings
  <2> QED
    BY <2>1, <2>2, <2>3, <2>4, <2>5, <2>6, <2>7
<1>5. ASSUME NEW a \in Accounts, currentAccountOnly(a) PROVE CInv'
  <2>1. TypeOK'
    <3>1. 1 \in 0..Cardinality(Accounts)
      <4>1. Cardinality({a}) = 1 /\ Cardinality({a}) \in 0..Cardinality(Accounts)
        BY AccountsCounted
      <4> QED
        BY <4>1
    <3>2. coverage' \in [discovered : 0..Cardinality(Accounts),
                         scanned : SUBSET Accounts, failed : SUBSET Accounts]
      BY <1>5, <3>1 DEF currentAccountOnly
    <3> QED
      BY <1>5, <3>2 DEF currentAccountOnly, TypeOK, gaps, listing, findings, Phases, Progress
  <2>2. BeforeStorage'
    BY <1>5 DEF currentAccountOnly, Discovering, TypeOK, BeforeStorage, gaps, listing, findings
  <2>3. AccountsKnown'
    BY <1>5, AccountsCounted DEF currentAccountOnly, Discovering, TypeOK, BeforeStorage, AccountsKnown, gaps, listing, findings
  <2>4. InStorage'
    BY <1>5 DEF currentAccountOnly, Discovering, TypeOK, BeforeStorage, AccountsKnown, InStorage, Enumerated, gaps, listing, findings
  <2>5. AfterStorage'
    BY <1>5 DEF currentAccountOnly, Discovering, TypeOK, InStorage, AfterStorage, Enumerated, gaps, listing, findings
  <2>6. PoliciesRead'
    BY <1>5 DEF currentAccountOnly, Discovering, TypeOK, BeforeStorage, InStorage, PoliciesRead, gaps, listing, findings
  <2>7. Scored'
    BY <1>5 DEF currentAccountOnly, Discovering, TypeOK, BeforeStorage, Scored, Verdict, gaps, listing, findings
  <2> QED
    BY <2>1, <2>2, <2>3, <2>4, <2>5, <2>6, <2>7
<1>6. ASSUME NEW a \in Accounts, ListBuckets(a) PROVE CInv'
  <2>1. TypeOK'
    BY <1>6, AccountsCounted DEF ListBuckets, TypeOK, gaps, listing, findings, Phases, Progress
  <2>2. BeforeStorage'
    BY <1>6 DEF ListBuckets, TypeOK, BeforeStorage, gaps, listing, findings
  <2>3. AccountsKnown'
    BY <1>6 DEF ListBuckets, TypeOK, BeforeStorage, AccountsKnown, gaps, listing, findings
  <2>4. InStorage'
    BY <1>6 DEF ListBuckets, TypeOK, BeforeStorage, AccountsKnown, InStorage, Enumerated, gaps, listing, findings
  <2>5. AfterStorage'
    BY <1>6 DEF ListBuckets, TypeOK, InStorage, AfterStorage, Enumerated, gaps, listing, findings
  <2>6. PoliciesRead'
    BY <1>6 DEF ListBuckets, TypeOK, BeforeStorage, InStorage, PoliciesRead, gaps, listing, findings
  <2>7. Scored'
    BY <1>6 DEF ListBuckets, TypeOK, BeforeStorage, Scored, Verdict, gaps, listing, findings
  <2> QED
    BY <2>1, <2>2, <2>3, <2>4, <2>5, <2>6, <2>7
<1>7. ASSUME NEW a \in Accounts, ListBucketsFails(a) PROVE CInv'
  <2>1. TypeOK'
    BY <1>7, AccountsCounted DEF ListBucketsFails, TypeOK, gaps, listing, findings, Phases, Progress
  <2>2. BeforeStorage'
    BY <1>7 DEF ListBucketsFails, TypeOK, BeforeStorage, gaps, listing, findings
  <2>3. AccountsKnown'
    BY <1>7 DEF ListBucketsFails, TypeOK, BeforeStorage, AccountsKnown, gaps, listing, findings
  <2>4. InStorage'
    BY <1>7 DEF ListBucketsFails, TypeOK, BeforeStorage, AccountsKnown, InStorage, Enumerated, gaps, listing, findings
  <2>5. AfterStorage'
    BY <1>7 DEF ListBucketsFails, TypeOK, InStorage, AfterStorage, Enumerated, gaps, listing, findings
  <2>6. PoliciesRead'
    BY <1>7 DEF ListBucketsFails, TypeOK, BeforeStorage, InStorage, PoliciesRead, gaps, listing, findings
  <2>7. Scored'
    BY <1>7 DEF ListBucketsFails, TypeOK, BeforeStorage, Scored, Verdict, gaps, listing, findings
  <2> QED
    BY <2>1, <2>2, <2>3, <2>4, <2>5, <2>6, <2>7
<1>8. ASSUME NEW a \in Accounts, BucketsDone(a) PROVE CInv'
  <2>1. TypeOK'
    BY <1>8, AccountsCounted DEF BucketsDone, TypeOK, gaps, listing, findings, Phases, Progress
  <2>2. BeforeStorage'
    BY <1>8 DEF BucketsDone, TypeOK, BeforeStorage, gaps, listing, findings
  <2>3. AccountsKnown'
    BY <1>8 DEF BucketsDone, TypeOK, BeforeStorage, AccountsKnown, gaps, listing, findings
  <2>4. InStorage'
    BY <1>8 DEF BucketsDone, TypeOK, BeforeStorage, AccountsKnown, InStorage, Enumerated, gaps, listing, findings
  <2>5. AfterStorage'
    BY <1>8 DEF BucketsDone, TypeOK, InStorage, AfterStorage, Enumerated, gaps, listing, findings
  <2>6. PoliciesRead'
    BY <1>8 DEF BucketsDone, TypeOK, BeforeStorage, InStorage, PoliciesRead, gaps, listing, findings
  <2>7. Scored'
    BY <1>8 DEF BucketsDone, TypeOK, BeforeStorage, Scored, Verdict, gaps, listing, findings
  <2> QED
    BY <2>1, <2>2, <2>3, <2>4, <2>5, <2>6, <2>7
<1>9. ASSUME NEW b \in Buckets, GetBucketLocation(b) PROVE CInv'
  <2>1. TypeOK'
    BY <1>9, AccountsCounted DEF GetBucketLocation, TypeOK, InStorage, gaps, listing, findings, Phases, Progress
  <2>2. BeforeStorage'
    BY <1>9 DEF GetBucketLocation, TypeOK, InStorage, BeforeStorage, gaps, listing, findings
  <2>3. AccountsKnown'
    BY <1>9 DEF GetBucketLocation, TypeOK, InStorage, BeforeStorage, AccountsKnown, gaps, listing, findings
  <2>4. InStorage'
    BY <1>9 DEF GetBucketLocation, TypeOK, InStorage, BeforeStorage, AccountsKnown, InStorage, Enumerated, gaps, listing, findings
  <2>5. AfterStorage'
    BY <1>9 DEF GetBucketLocation, TypeOK, InStorage, InStorage, AfterStorage, Enumerated, gaps, listing, findings
  <2>6. PoliciesRead'
    BY <1>9 DEF GetBucketLocation, TypeOK, InStorage, BeforeStorage, InStorage, PoliciesRead, gaps, listing, findings
  <2>7. Scored'
    BY <1>9 DEF GetBucketLocation, TypeOK, InStorage, BeforeStorage, Scored, Verdict, gaps, listing, findings
  <2> QED
    BY <2>1, <2>2, <2>3, <2>4, <2>5, <2>6, <2>7
<1>10. ASSUME NEW b \in Buckets, GetBucketLocationFails(b) PROVE CInv'
  <2>1. TypeOK'
    BY <1>10, AccountsCounted DEF GetBucketLocationFails, TypeOK, InStorage, gaps, listing, findings, Phases, Progress
  <2>2. BeforeStorage'
    BY <1>10 DEF GetBucketLocationFails, TypeOK, InStorage, BeforeStorage, gaps, listing, findings
  <2>3. AccountsKnown'
    BY <1>10 DEF GetBucketLocationFails, TypeOK, InStorage, BeforeStorage, AccountsKnown, gaps, listing, findings
  <2>4. InStorage'
    BY <1>10 DEF GetBucketLocationFails, TypeOK, InStorage, BeforeStorage, AccountsKnown, InStorage, Enumerated, gaps, listing, findings
  <2>5. AfterStorage'
    BY <1>10 DEF GetBucketLocationFails, TypeOK, InStorage, InStorage, AfterStorage, Enumerated, gaps, listing, findings
  <2>6. PoliciesRead'
    BY <1>10 DEF GetBucketLocationFails, TypeOK, InStorage, BeforeStorage, InStorage, PoliciesRead, gaps, listing, findings
  <2>7. Scored'
    BY <1>10 DEF GetBucketLocationFails, TypeOK, InStorage, BeforeStorage, Scored, Verdict, gaps, listing, findings
  <2> QED
    BY <2>1, <2>2, <2>3, <2>4, <2>5, <2>6, <2>7
<1>11. ASSUME StorageCollected PROVE CInv'
  <2>1. TypeOK'
    BY <1>11, AccountsCounted DEF StorageCollected, TypeOK, gaps, listing, findings, Phases, Progress
  <2>2. BeforeStorage'
    BY <1>11 DEF StorageCollected, TypeOK, BeforeStorage, gaps, listing, findings
  <2>3. AccountsKnown'
    BY <1>11 DEF StorageCollected, TypeOK, BeforeStorage, AccountsKnown, gaps, listing, findings
  <2>4. InStorage'
    BY <1>11 DEF StorageCollected, TypeOK, BeforeStorage, AccountsKnown, InStorage, Enumerated, gaps, listing, findings
  <2>5. AfterStorage'
    BY <1>11 DEF StorageCollected, AllDone, TypeOK, InStorage, AfterStorage, Enumerated, gaps, listing, findings
  <2>6. PoliciesRead'
    BY <1>11 DEF StorageCollected, TypeOK, BeforeStorage, InStorage, PoliciesRead, gaps, listing, findings
  <2>7. Scored'
    BY <1>11 DEF StorageCollected, TypeOK, BeforeStorage, Scored, Verdict, gaps, listing, findings
  <2> QED
    BY <2>1, <2>2, <2>3, <2>4, <2>5, <2>6, <2>7
<1>12. ASSUME NEW b \in Buckets, GetBucketPolicy(b) PROVE CInv'
  <2>1. TypeOK'
    BY <1>12, AccountsCounted DEF GetBucketPolicy, TypeOK, gaps, listing, findings, Phases, Progress
  <2>2. BeforeStorage'
    BY <1>12 DEF GetBucketPolicy, TypeOK, BeforeStorage, gaps, listing, findings
  <2>3. AccountsKnown'
    BY <1>12 DEF GetBucketPolicy, TypeOK, BeforeStorage, AccountsKnown, gaps, listing, findings
  <2>4. InStorage'
    BY <1>12 DEF GetBucketPolicy, TypeOK, BeforeStorage, AccountsKnown, InStorage, Enumerated, gaps, listing, findings
  <2>5. AfterStorage'
    BY <1>12 DEF GetBucketPolicy, TypeOK, InStorage, AfterStorage, Enumerated, gaps, listing, findings
  <2>6. PoliciesRead'
    BY <1>12 DEF GetBucketPolicy, TypeOK, BeforeStorage, InStorage, PoliciesRead, gaps, listing, findings
  <2>7. Scored'
    BY <1>12 DEF GetBucketPolicy, TypeOK, BeforeStorage, Scored, Verdict, gaps, listing, findings
  <2> QED
    BY <2>1, <2>2, <2>3, <2>4, <2>5, <2>6, <2>7
<1>13. ASSUME NEW b \in Buckets, GetBucketPolicyDenied(b) PROVE CInv'
  <2>1. TypeOK'
    BY <1>13, AccountsCounted DEF GetBucketPolicyDenied, TypeOK, gaps, listing, findings, Phases, Progress
  <2>2. BeforeStorage'
    BY <1>13 DEF GetBucketPolicyDenied, TypeOK, BeforeStorage, gaps, listing, findings
  <2>3. AccountsKnown'
    BY <1>13 DEF GetBucketPolicyDenied, TypeOK, BeforeStorage, AccountsKnown, gaps, listing, findings
  <2>4. InStorage'
    BY <1>13 DEF GetBucketPolicyDenied, TypeOK, BeforeStorage, AccountsKnown, InStorage, Enumerated, gaps, listing, findings
  <2>5. AfterStorage'
    BY <1>13 DEF GetBucketPolicyDenied, TypeOK, InStorage, AfterStorage, Enumerated, gaps, listing, findings
  <2>6. PoliciesRead'
    BY <1>13 DEF GetBucketPolicyDenied, TypeOK, BeforeStorage, InStorage, PoliciesRead, gaps, listing, findings
  <2>7. Scored'
    BY <1>13 DEF GetBucketPolicyDenied, TypeOK, BeforeStorage, Scored, Verdict, gaps, listing, findings
  <2> QED
    BY <2>1, <2>2, <2>3, <2>4, <2>5, <2>6, <2>7
<1>14. ASSUME PoliciesCollected PROVE CInv'
  <2>1. TypeOK'
    BY <1>14, AccountsCounted DEF PoliciesCollected, TypeOK, gaps, listing, findings, Phases, Progress
  <2>2. BeforeStorage'
    BY <1>14 DEF PoliciesCollected, TypeOK, BeforeStorage, gaps, listing, findings
  <2>3. AccountsKnown'
    BY <1>14 DEF PoliciesCollected, TypeOK, BeforeStorage, AccountsKnown, gaps, listing, findings
  <2>4. InStorage'
    BY <1>14 DEF PoliciesCollected, TypeOK, BeforeStorage, AccountsKnown, InStorage, Enumerated, gaps, listing, findings
  <2>5. AfterStorage'
    BY <1>14 DEF PoliciesCollected, TypeOK, InStorage, AfterStorage, Enumerated, gaps, listing, findings
  <2>6. PoliciesRead'
    BY <1>14 DEF PoliciesCollected, TypeOK, BeforeStorage, InStorage, PoliciesRead, gaps, listing, findings
  <2>7. Scored'
    BY <1>14 DEF PoliciesCollected, TypeOK, BeforeStorage, Scored, Verdict, gaps, listing, findings
  <2> QED
    BY <2>1, <2>2, <2>3, <2>4, <2>5, <2>6, <2>7
<1>15. ASSUME NEW r \in Records, ValidateRecord(r) PROVE CInv'
  <2>1. TypeOK'
    BY <1>15, AccountsCounted DEF ValidateRecord, TypeOK, gaps, listing, findings, Phases, Progress
  <2>2. BeforeStorage'
    BY <1>15 DEF ValidateRecord, TypeOK, BeforeStorage, gaps, listing, findings
  <2>3. AccountsKnown'
    BY <1>15 DEF ValidateRecord, TypeOK, BeforeStorage, AccountsKnown, gaps, listing, findings
  <2>4. InStorage'
    BY <1>15 DEF ValidateRecord, TypeOK, BeforeStorage, AccountsKnown, InStorage, Enumerated, gaps, listing, findings
  <2>5. AfterStorage'
    BY <1>15 DEF ValidateRecord, TypeOK, InStorage, AfterStorage, Enumerated, gaps, listing, findings
  <2>6. PoliciesRead'
    BY <1>15 DEF ValidateRecord, TypeOK, BeforeStorage, InStorage, PoliciesRead, gaps, listing, findings
  <2>7. Scored'
    BY <1>15 DEF ValidateRecord, TypeOK, BeforeStorage, Scored, Verdict, gaps, listing, findings
  <2> QED
    BY <2>1, <2>2, <2>3, <2>4, <2>5, <2>6, <2>7
<1>16. ASSUME Score PROVE CInv'
  <2>1. TypeOK'
    <3>1. verdict' \in [Records -> Verdicts]
      BY <1>16, VerdictType DEF Score
    <3> QED
      BY <1>16, <3>1 DEF Score, TypeOK, Phases, gaps, listing
  <2>2. BeforeStorage'
    BY <1>16 DEF Score, TypeOK, BeforeStorage, gaps, listing, findings
  <2>3. AccountsKnown'
    BY <1>16 DEF Score, TypeOK, BeforeStorage, AccountsKnown, gaps, listing, findings
  <2>4. InStorage'
    BY <1>16 DEF Score, TypeOK, BeforeStorage, AccountsKnown, InStorage, Enumerated, gaps, listing, findings
  <2>5. AfterStorage'
    BY <1>16 DEF Score, TypeOK, InStorage, AfterStorage, Enumerated, gaps, listing, findings
  <2>6. PoliciesRead'
    BY <1>16 DEF Score, TypeOK, BeforeStorage, InStorage, PoliciesRead, gaps, listing, findings
  <2>7. Scored'
    BY <1>16 DEF Score, TypeOK, BeforeStorage, Scored, Verdict, gaps, listing, findings
  <2> QED
    BY <2>1, <2>2, <2>3, <2>4, <2>5, <2>6, <2>7
<1>17. ASSUME NEW a \in Accounts, AcquireAccount(a) PROVE CInv'
  <2>1. TypeOK'
    BY <1>17, AccountsCounted DEF AcquireAccount, TypeOK, gaps, listing, findings, Phases, Progress
  <2>2. BeforeStorage'
    BY <1>17 DEF AcquireAccount, TypeOK, BeforeStorage, gaps, listing, findings
  <2>3. AccountsKnown'
    BY <1>17 DEF AcquireAccount, TypeOK, BeforeStorage, AccountsKnown, gaps, listing, findings
  <2>4. InStorage'
    BY <1>17 DEF AcquireAccount, TypeOK, BeforeStorage, AccountsKnown, InStorage, Enumerated, gaps, listing, findings
  <2>5. AfterStorage'
    BY <1>17 DEF AcquireAccount, TypeOK, InStorage, AfterStorage, Enumerated, gaps, listing, findings
  <2>6. PoliciesRead'
    BY <1>17 DEF AcquireAccount, TypeOK, BeforeStorage, InStorage, PoliciesRead, gaps, listing, findings
  <2>7. Scored'
    BY <1>17 DEF AcquireAccount, TypeOK, BeforeStorage, Scored, Verdict, gaps, listing, findings
  <2> QED
    BY <2>1, <2>2, <2>3, <2>4, <2>5, <2>6, <2>7
<1>18. ASSUME NEW b \in Buckets, AcquireBucket(b) PROVE CInv'
  <2>1. TypeOK'
    BY <1>18, AccountsCounted DEF AcquireBucket, TypeOK, gaps, listing, findings, Phases, Progress
  <2>2. BeforeStorage'
    BY <1>18 DEF AcquireBucket, TypeOK, BeforeStorage, gaps, listing, findings
  <2>3. AccountsKnown'
    BY <1>18 DEF AcquireBucket, TypeOK, BeforeStorage, AccountsKnown, gaps, listing, findings
  <2>4. InStorage'
    BY <1>18 DEF AcquireBucket, TypeOK, BeforeStorage, AccountsKnown, InStorage, Enumerated, gaps, listing, findings
  <2>5. AfterStorage'
    BY <1>18 DEF AcquireBucket, TypeOK, InStorage, AfterStorage, Enumerated, gaps, listing, findings
  <2>6. PoliciesRead'
    BY <1>18 DEF AcquireBucket, TypeOK, BeforeStorage, InStorage, PoliciesRead, gaps, listing, findings
  <2>7. Scored'
    BY <1>18 DEF AcquireBucket, TypeOK, BeforeStorage, Scored, Verdict, gaps, listing, findings
  <2> QED
    BY <2>1, <2>2, <2>3, <2>4, <2>5, <2>6, <2>7
<1>19. ASSUME UNCHANGED vars PROVE CInv'
  BY <1>19 DEF vars, TypeOK, BeforeStorage, AccountsKnown, InStorage, AfterStorage,
    PoliciesRead, Scored, Enumerated, Verdict
<1> QED
  BY <1>1, <1>2, <1>3, <1>4, <1>5, <1>6, <1>7, <1>8, <1>9, <1>10, <1>11, <1>12, <1>13, <1>14, <1>15, <1>16, <1>17, <1>18, <1>19
  DEF Next, CollectAccounts, CollectStorage, CollectBucketPolicies

\* The invariant holds of every reachable state.
LEMMA CollectionInvariant == Spec => []CInv
<1>1. Init => CInv
  BY CInvInit
<1>2. CInv /\ [Next]_vars => CInv'
  BY CInvStep
<1> QED
  BY <1>1, <1>2, PTL DEF Spec

-----------------------------------------------------------------------------
(* The theorems.                                                           *)

\* Every reachable state of a collection has the declared types.
THEOREM CollectionTypeCorrect == Spec => []TypeOK
<1>1. CInv => TypeOK
  BY DEF CInv
<1> QED
  BY <1>1, CollectionInvariant, PTL

\* A critical verdict rests on an uninterrupted look at every account that was
\* discovered, whatever failed in whatever order.
THEOREM CriticalNeedsEveryAccountHolds == Spec => []CriticalNeedsEveryAccount
<1>1. ASSUME CInv PROVE CriticalNeedsEveryAccount
  <2> SUFFICES ASSUME NEW r \in Records, verdict[r] = "reclaimable_critical"
               PROVE  /\ coverage.discovered = Cardinality(coverage.scanned)
                      /\ \A a \in coverage.scanned : acct[a] = "done" /\ a \in usable
                      /\ unlisted = {} /\ denied = {}
                      /\ \A b \in Buckets : Owner[b] \in coverage.scanned
                                              => b \in assets \cup dropped
    BY DEF CriticalNeedsEveryAccount
  <2>1. phase = "done" /\ verdict[r] = Verdict(r)
    BY <1>1 DEF CInv, Scored
  <2>2. Complete(coverage)
    <3>1. Complete(coverage) \in BOOLEAN
      BY DEF Complete
    <3> QED
      BY <3>1, <2>1, GuardWithoutCoverage DEF Verdict
  <2>3. unlisted = {} /\ denied = {}
    BY <1>1, <2>1, <2>2 DEF CInv, AfterStorage, PoliciesRead, Complete
  <2>4. ASSUME NEW a \in coverage.scanned PROVE acct[a] = "done" /\ Enumerated(a)
    BY <1>1, <2>1, <2>3 DEF CInv, TypeOK, AccountsKnown, AfterStorage
  <2> QED
    BY <1>1, <2>1, <2>3, <2>4 DEF CInv, AccountsKnown, Enumerated
<1> QED
  BY <1>1, CollectionInvariant, PTL

\* A record that points at the website of a bucket the scan found is never
\* reported as reclaimable.
THEOREM OwnedIsNotReclaimableHolds == Spec => []OwnedIsNotReclaimable
<1>1. ASSUME CInv PROVE OwnedIsNotReclaimable
  <2> SUFFICES ASSUME NEW r \in Records, r.service = "s3_website", ~ r.dotted,
                      r.bucket \in assets
               PROVE  verdict[r] \notin {"reclaimable_critical", "reclaimable_high"}
    BY DEF OwnedIsNotReclaimable
  <2>1. CASE phase = "done"
    <3>1. verdict[r] = Verdict(r) /\ site[r] \in Sites("s3_website")
      BY <1>1, <2>1 DEF CInv, Scored, TypeOK
    <3>2. Complete(coverage) \in BOOLEAN
      BY DEF Complete
    <3> QED
      BY <3>1, <3>2, OwnedVerdict DEF Verdict
  <2>2. CASE phase # "done"
    BY <1>1, <2>2 DEF CInv, Scored
  <2> QED
    BY <2>1, <2>2
<1> QED
  BY <1>1, CollectionInvariant, PTL
=============================================================================
