-------------------------- MODULE Dashboard_proofs --------------------------
(***************************************************************************)
(* Proofs about the dashboard, one section after another: what a scan      *)
(* leaves on disk can be exported, and what is exported, whoever exports   *)
(* it, stays whole; an answer is a graph, holds what the scan relates to   *)
(* its root and says whether privileges escalate there; an expansion adds  *)
(* what is new; a search says when it was cut short; the attack paths on   *)
(* offer are those of the graph, the best first; an alert of a scope is    *)
(* about that scope, and reaches the team it concerns; every way in from   *)
(* outside is reported as severe as it is, and the alert about stale trust *)
(* is about what is stale.                                                 *)
(***************************************************************************)
EXTENDS Dashboard, BlastRadius_proofs

-----------------------------------------------------------------------------
(* The files of a scan are finite.                                         *)

\* A policy of finitely many statements names finitely many principals.
LEMMA PrincipalsAreFinite ==
  ASSUME NEW account, NEW policy, IsFiniteSet(policy),
         \A st \in policy : IsFiniteSet(st.aws) /\ IsFiniteSet(st.federated)
  PROVE  IsFiniteSet(extractExternalPrincipals(account, policy))
<1> PICK allowed : allowed = {st \in policy : statementAllowsAssumeRole(st)}
  OBVIOUS
<1> PICK named : named = UNION {st.aws : st \in allowed}
  OBVIOUS
<1> PICK providers : providers = UNION {st.federated : st \in allowed}
  OBVIOUS
<1>1. IsFiniteSet(allowed)
  BY FS_Subset
<1>2. IsFiniteSet(named)
  <2> PICK T : T = {st.aws : st \in allowed}
    OBVIOUS
  <2> PICK f : f = [st \in allowed |-> st.aws]
    OBVIOUS
  <2>1. f \in [allowed -> T] /\ \A y \in T : \E x \in allowed : f[x] = y
    OBVIOUS
  <2>2. IsFiniteSet(T)
    BY <1>1, <2>1, OntoIsFinite
  <2> QED
    BY <2>2, FS_UNION
<1>3. IsFiniteSet(providers)
  <2> PICK T : T = {st.federated : st \in allowed}
    OBVIOUS
  <2> PICK f : f = [st \in allowed |-> st.federated]
    OBVIOUS
  <2>1. f \in [allowed -> T] /\ \A y \in T : \E x \in allowed : f[x] = y
    OBVIOUS
  <2>2. IsFiniteSet(T)
    BY <1>1, <2>1, OntoIsFinite
  <2> QED
    BY <2>2, FS_UNION
<1> DEFINE A == {[type |-> "aws_account", value |-> normalizeExternalAWSPrincipal(account, v)] :
                   v \in named}
           F == {[type |-> classifyFederatedPrincipal(v), value |-> v] : v \in providers}
<1>4. IsFiniteSet(A)
  <2> PICK f : f = [v \in named |->
                [type |-> "aws_account", value |-> normalizeExternalAWSPrincipal(account, v)]]
    OBVIOUS
  <2>1. f \in [named -> A] /\ \A y \in A : \E x \in named : f[x] = y
    OBVIOUS
  <2> HIDE DEF A
  <2> QED
    BY <1>2, <2>1, OntoIsFinite
<1>5. IsFiniteSet(F)
  <2> PICK f : f = [v \in providers |-> [type |-> classifyFederatedPrincipal(v), value |-> v]]
    OBVIOUS
  <2>1. f \in [providers -> F] /\ \A y \in F : \E x \in providers : f[x] = y
    OBVIOUS
  <2> HIDE DEF F
  <2> QED
    BY <1>3, <2>1, OntoIsFinite
<1>6. extractExternalPrincipals(account, policy) \subseteq A \cup F
  BY DEF extractExternalPrincipals
<1> HIDE DEF A, F
<1> QED
  BY <1>4, <1>5, <1>6, FS_Union, FS_Subset

\* The union of finitely many finite sets.
LEMMA UnionIsFinite ==
  ASSUME NEW f, IsFiniteSet(DOMAIN f), \A x \in DOMAIN f : IsFiniteSet(f[x]),
         NEW U, \A y \in U : \E x \in DOMAIN f : y \in f[x]
  PROVE  IsFiniteSet(U)
<1> PICK T : T = {f[x] : x \in DOMAIN f}
  OBVIOUS
<1> PICK h : h = [x \in DOMAIN f |-> f[x]]
  OBVIOUS
<1>1. h \in [DOMAIN f -> T] /\ \A y \in T : \E x \in DOMAIN f : h[x] = y
  OBVIOUS
<1>2. IsFiniteSet(T)
  BY <1>1, OntoIsFinite
<1>3. IsFiniteSet(UNION T) /\ U \subseteq UNION T
  BY <1>2, FS_UNION
<1> QED
  BY <1>3, FS_Subset

\* The trusts of a scan are finitely many, of roles there are, and have a
\* finding id.
LEMMA TrustsAreSound ==
  ASSUME NEW aws, CloudSound(aws), NEW gone
  PROVE  /\ IsFiniteSet(RoleTrusts(aws, gone))
         /\ \A t \in RoleTrusts(aws, gone) :
              /\ t = [role |-> t.role, principal |-> t.principal] /\ t.role \in aws.roles
              /\ t.principal \in DOMAIN PrincipalArn
              /\ <<t.role.arn, PrincipalArn[t.principal]>> \in DOMAIN FindingId
<1> PICK roles : roles = TrustingRoles(aws, gone)
  OBVIOUS
<1>1. roles \subseteq aws.roles /\ IsFiniteSet(roles)
  BY FS_Subset DEF TrustingRoles, CloudSound
<1> PICK f : f = [r \in roles |-> {[role |-> r, principal |-> p] :
                                     p \in extractExternalPrincipals(r.account, r.trust)}]
  OBVIOUS
<1>2. \A t \in RoleTrusts(aws, gone) : \E r \in roles : t \in f[r]
  BY DEF RoleTrusts
<1>3. ASSUME NEW r \in roles PROVE IsFiniteSet(f[r])
  <2> PICK principals : principals = extractExternalPrincipals(r.account, r.trust)
    OBVIOUS
  <2>1. IsFiniteSet(principals)
    <3>1. /\ IsFiniteSet(r.trust)
          /\ \A st \in r.trust : IsFiniteSet(st.aws) /\ IsFiniteSet(st.federated)
      BY <1>1 DEF CloudSound
    <3> QED
      BY <3>1, PrincipalsAreFinite
  <2> PICK T : T = {[role |-> r, principal |-> p] : p \in principals}
    OBVIOUS
  <2> PICK h : h = [p \in principals |-> [role |-> r, principal |-> p]]
    OBVIOUS
  <2>2. h \in [principals -> T] /\ \A y \in T : \E x \in principals : h[x] = y
    OBVIOUS
  <2>3. IsFiniteSet(T)
    BY <2>1, <2>2, OntoIsFinite
  <2>4. f[r] = T
    OBVIOUS
  <2> QED
    BY <2>3, <2>4
<1>4. IsFiniteSet(RoleTrusts(aws, gone))
  <2>1. DOMAIN f = roles
    OBVIOUS
  <2> QED
    BY <1>1, <1>2, <1>3, <2>1, UnionIsFinite
<1>5. ASSUME NEW t \in RoleTrusts(aws, gone)
      PROVE  /\ t = [role |-> t.role, principal |-> t.principal] /\ t.role \in aws.roles
             /\ t.principal \in DOMAIN PrincipalArn
             /\ <<t.role.arn, PrincipalArn[t.principal]>> \in DOMAIN FindingId
  <2>1. PICK r \in roles : t \in f[r]
    BY <1>2
  <2>2. PICK p \in extractExternalPrincipals(r.account, r.trust) :
          t = [role |-> r, principal |-> p]
    BY <2>1
  <2>3. /\ p \in DOMAIN PrincipalArn /\ <<r.arn, PrincipalArn[p]>> \in DOMAIN FindingId
    BY <1>1 DEF CloudSound
  <2> QED
    BY <1>1, <2>2, <2>3
<1> QED
  BY <1>4, <1>5

\* The grants of one bucket, statement by statement, and those of all of them.
GrantsBy(b) ==
  [i \in {j \in DOMAIN b.policy : b.policy[j].allow} |->
     {[bucket |-> b, principal |-> p, write |-> b.policy[i].write, nth |-> i] :
        p \in Grantees(b.account, b.policy[i])}]

GrantsFrom(aws, gone) ==
  [b \in {x \in aws.buckets :
            {<<"policy", x.arn, None>>, <<"denied", x.arn, None>>} \cap gone = {}} |->
     externalGrantsFromBucketPolicy(b)]

\* A statement of a bucket policy names finitely many accounts.
LEMMA GranteesAreFinite ==
  ASSUME NEW account, NEW st, IsFiniteSet(st.aws)
  PROVE  IsFiniteSet(Grantees(account, st))
<1> PICK named : named = st.aws \cup {"*"}
  OBVIOUS
<1> DEFINE as(v) == IF v = "*" THEN Public
                    ELSE [type |-> "aws_account",
                          value |-> normalizeExternalAWSPrincipal(account, v)]
           T == {as(v) : v \in named}
<1>1. \E h \in [named -> T] : \A y \in T : \E x \in named : h[x] = y
  <2>1. [v \in named |-> as(v)] \in [named -> T]
    OBVIOUS
  <2>2. \A y \in T : \E x \in named : [v \in named |-> as(v)][x] = y
    OBVIOUS
  <2> HIDE DEF as, T
  <2> QED
    BY <2>1, <2>2
<1>2. IsFiniteSet(named)
  BY FS_AddElement
<1>3. Grantees(account, st) \subseteq T
  <2>1. Public \in T
    OBVIOUS
  <2>2. \A v \in st.aws : as(v) \in T
    OBVIOUS
  <2> HIDE DEF T
  <2> QED
    BY <2>1, <2>2 DEF Grantees
<1> HIDE DEF T
<1>4. IsFiniteSet(T)
  BY <1>1, <1>2, OntoIsFinite
<1> QED
  BY <1>3, <1>4, FS_Subset

\* A bucket policy makes finitely many grants.
LEMMA GrantsByAreFinite ==
  ASSUME NEW b, DOMAIN b.policy = 1..Len(b.policy), Len(b.policy) \in Nat,
         \A i \in DOMAIN b.policy : IsFiniteSet(b.policy[i].aws)
  PROVE  IsFiniteSet(externalGrantsFromBucketPolicy(b))
<1>1. IsFiniteSet(DOMAIN GrantsBy(b))
  <2>1. IsFiniteSet(1..Len(b.policy))
    BY FS_Interval
  <2>2. DOMAIN GrantsBy(b) \subseteq 1..Len(b.policy)
    BY DEF GrantsBy
  <2> QED
    BY <2>1, <2>2, FS_Subset
<1>2. ASSUME NEW i \in DOMAIN GrantsBy(b) PROVE IsFiniteSet(GrantsBy(b)[i])
  <2> PICK to : to = Grantees(b.account, b.policy[i])
    OBVIOUS
  <2>1. i \in DOMAIN b.policy
    BY DEF GrantsBy
  <2>2. IsFiniteSet(to)
    BY <2>1, GranteesAreFinite
  <2> PICK T : T = {[bucket |-> b, principal |-> p, write |-> b.policy[i].write, nth |-> i] :
                      p \in to}
    OBVIOUS
  <2> PICK h : h = [p \in to |->
                      [bucket |-> b, principal |-> p, write |-> b.policy[i].write, nth |-> i]]
    OBVIOUS
  <2>3. h \in [to -> T] /\ \A y \in T : \E x \in to : h[x] = y
    OBVIOUS
  <2>4. IsFiniteSet(T)
    BY <2>2, <2>3, OntoIsFinite
  <2>5. GrantsBy(b)[i] = T
    BY DEF GrantsBy
  <2> QED
    BY <2>4, <2>5
<1>3. \A g \in externalGrantsFromBucketPolicy(b) :
        \E i \in DOMAIN GrantsBy(b) : g \in GrantsBy(b)[i]
  BY DEF externalGrantsFromBucketPolicy, GrantsBy
<1> QED
  BY <1>1, <1>2, <1>3, UnionIsFinite

\* The grants of a scan are finitely many, of buckets there are, and have a
\* finding id.
LEMMA GrantsAreSound ==
  ASSUME NEW aws, CloudSound(aws), NEW gone
  PROVE  /\ IsFiniteSet(CollectBucketPolicies(aws, gone).grants)
         /\ \A g \in CollectBucketPolicies(aws, gone).grants :
              /\ g.bucket \in aws.buckets
              /\ g \in externalGrantsFromBucketPolicy(g.bucket)
              /\ g.nth \in Nat /\ g.write = g.bucket.policy[g.nth].write
              /\ g.principal \in DOMAIN PrincipalArn
              /\ <<g.bucket.arn, PrincipalArn[g.principal]>> \in DOMAIN FindingId
<1>1. \A b \in aws.buckets :
        /\ DOMAIN b.policy = 1..Len(b.policy) /\ Len(b.policy) \in Nat
        /\ \A i \in DOMAIN b.policy : IsFiniteSet(b.policy[i].aws)
  BY DEF CloudSound
<1>2. /\ DOMAIN GrantsFrom(aws, gone) \subseteq aws.buckets
      /\ \A b \in DOMAIN GrantsFrom(aws, gone) :
           GrantsFrom(aws, gone)[b] = externalGrantsFromBucketPolicy(b)
  BY DEF GrantsFrom
<1>3. \A g \in CollectBucketPolicies(aws, gone).grants :
        \E b \in DOMAIN GrantsFrom(aws, gone) : g \in GrantsFrom(aws, gone)[b]
  BY DEF CollectBucketPolicies, GrantsFrom
<1>4. IsFiniteSet(CollectBucketPolicies(aws, gone).grants)
  <2>1. IsFiniteSet(DOMAIN GrantsFrom(aws, gone))
    BY <1>2, FS_Subset DEF CloudSound
  <2>2. \A b \in DOMAIN GrantsFrom(aws, gone) : IsFiniteSet(GrantsFrom(aws, gone)[b])
    BY <1>1, <1>2, GrantsByAreFinite
  <2> QED
    BY <1>3, <2>1, <2>2, UnionIsFinite
<1>5. ASSUME NEW g \in CollectBucketPolicies(aws, gone).grants
      PROVE  /\ g.bucket \in aws.buckets
             /\ g \in externalGrantsFromBucketPolicy(g.bucket)
             /\ g.nth \in Nat /\ g.write = g.bucket.policy[g.nth].write
             /\ g.principal \in DOMAIN PrincipalArn
             /\ <<g.bucket.arn, PrincipalArn[g.principal]>> \in DOMAIN FindingId
  <2>1. PICK b \in aws.buckets : g \in externalGrantsFromBucketPolicy(b)
    BY <1>2, <1>3
  <2>2. PICK i, p : /\ i \in DOMAIN b.policy
                    /\ g = [bucket |-> b, principal |-> p, write |-> b.policy[i].write,
                            nth |-> i]
    BY <2>1 DEF externalGrantsFromBucketPolicy
  <2>3. /\ g.principal \in DOMAIN PrincipalArn
        /\ <<b.arn, PrincipalArn[g.principal]>> \in DOMAIN FindingId
    BY <2>1 DEF CloudSound
  <2> QED
    BY <1>1, <2>1, <2>2, <2>3
<1> QED
  BY <1>4, <1>5

-----------------------------------------------------------------------------
(* The rows a scan writes, class by class.                                 *)

RoleRows(aws, gone) ==
  {Node(r.arn, "iam_role", r.account, 1) : r \in TrustingRoles(aws, gone)}
EntityRows(keep) ==
  {Node(PrincipalArn[p], "external_principal", keep[p], 2) : p \in DOMAIN keep}
BucketRows(aws) == {Node(b.arn, "s3_bucket", b.account, 1) : b \in aws.buckets}
GranteeRows(aws, gone) ==
  {Node(PrincipalArn[g.principal], "external_principal", None, 1) :
     g \in CollectBucketPolicies(aws, gone).grants}

\* One node is kept of each principal, and named in the order of strings.
LEMMA KeptAreTrusted ==
  ASSUME NEW aws, CloudSound(aws), NEW gone, NEW keep \in Keepers(RoleTrusts(aws, gone))
  PROVE  /\ IsFiniteSet(DOMAIN keep) /\ DOMAIN keep \subseteq DOMAIN PrincipalArn
         /\ \A p \in DOMAIN keep : keep[p] \in DOMAIN Rank
<1> PICK trusts : trusts = RoleTrusts(aws, gone)
  OBVIOUS
<1>1. /\ IsFiniteSet(trusts)
      /\ \A t \in trusts : t.role \in aws.roles /\ t.principal \in DOMAIN PrincipalArn
  BY TrustsAreSound
<1>2. /\ DOMAIN keep = {t.principal : t \in trusts}
      /\ \A p \in DOMAIN keep : \E t \in trusts : t.principal = p /\ t.role.account = keep[p]
  BY DEF Keepers
<1>3. IsFiniteSet(DOMAIN keep)
  <2>1. \E f : \A y \in DOMAIN keep : \E t \in trusts : y = f[t]
    <3>1. \A y \in DOMAIN keep : \E t \in trusts : y = [u \in trusts |-> u.principal][t]
      BY <1>2
    <3> QED
      BY <3>1
  <2> QED
    BY <1>1, <2>1, ImageIsFinite
<1>4. ASSUME NEW p \in DOMAIN keep
      PROVE  p \in DOMAIN PrincipalArn /\ keep[p] \in DOMAIN Rank
  <2>1. PICK t \in trusts : t.principal = p /\ t.role.account = keep[p]
    BY <1>2
  <2> QED
    BY <1>1, <2>1 DEF CloudSound
<1> QED
  BY <1>3, <1>4

\* Each class of nodes of a scan is finite.
LEMMA RowsAreFinite ==
  ASSUME NEW aws, CloudSound(aws), NEW gone, NEW keep \in Keepers(RoleTrusts(aws, gone))
  PROVE  /\ IsFiniteSet(RoleRows(aws, gone)) /\ IsFiniteSet(EntityRows(keep))
         /\ IsFiniteSet(BucketRows(aws)) /\ IsFiniteSet(GranteeRows(aws, gone))
<1>1. IsFiniteSet(RoleRows(aws, gone))
  <2>1. IsFiniteSet(TrustingRoles(aws, gone))
    BY FS_Subset DEF TrustingRoles, CloudSound
  <2>2. \E f : \A y \in RoleRows(aws, gone) : \E r \in TrustingRoles(aws, gone) : y = f[r]
    <3>1. \A y \in RoleRows(aws, gone) : \E r \in TrustingRoles(aws, gone) :
            y = [q \in TrustingRoles(aws, gone) |-> Node(q.arn, "iam_role", q.account, 1)][r]
      BY DEF RoleRows
    <3> QED
      BY <3>1
  <2> QED
    BY <2>1, <2>2, ImageIsFinite
<1>2. IsFiniteSet(EntityRows(keep))
  <2>1. IsFiniteSet(DOMAIN keep)
    BY KeptAreTrusted
  <2>2. \E f : \A y \in EntityRows(keep) : \E p \in DOMAIN keep : y = f[p]
    <3>1. \A y \in EntityRows(keep) : \E p \in DOMAIN keep :
            y = [q \in DOMAIN keep |->
                   Node(PrincipalArn[q], "external_principal", keep[q], 2)][p]
      BY DEF EntityRows
    <3> QED
      BY <3>1
  <2> QED
    BY <2>1, <2>2, ImageIsFinite
<1>3. IsFiniteSet(BucketRows(aws))
  <2>1. \E f : \A y \in BucketRows(aws) : \E b \in aws.buckets : y = f[b]
    <3>1. \A y \in BucketRows(aws) : \E b \in aws.buckets :
            y = [c \in aws.buckets |-> Node(c.arn, "s3_bucket", c.account, 1)][b]
      BY DEF BucketRows
    <3> QED
      BY <3>1
  <2>2. IsFiniteSet(aws.buckets)
    BY DEF CloudSound
  <2> QED
    BY <2>1, <2>2, ImageIsFinite
<1>4. IsFiniteSet(GranteeRows(aws, gone))
  <2> PICK grants : grants = CollectBucketPolicies(aws, gone).grants
    OBVIOUS
  <2>1. \E f : \A y \in GranteeRows(aws, gone) : \E g \in grants : y = f[g]
    <3>1. \A y \in GranteeRows(aws, gone) : \E g \in grants :
            y = [h \in grants |->
                   Node(PrincipalArn[h.principal], "external_principal", None, 1)][g]
      BY DEF GranteeRows
    <3> QED
      BY <3>1
  <2>2. IsFiniteSet(grants)
    BY GrantsAreSound
  <2> QED
    BY <2>1, <2>2, ImageIsFinite
<1> QED
  BY <1>1, <1>2, <1>3, <1>4

\* The rows of resources are told apart by their ARN and their place.
LEMMA RowsAreToldApart ==
  ASSUME NEW aws, CloudSound(aws), NEW gone, NEW keep \in Keepers(RoleTrusts(aws, gone)),
         NEW rows, rows = RoleRows(aws, gone) \cup EntityRows(keep) \cup BucketRows(aws)
                            \cup GranteeRows(aws, gone) \cup aws.edge.assets
  PROVE  /\ \A n \in rows : /\ n.arn \in DOMAIN Rank /\ n.nth \in Nat
                            /\ n.account \in DOMAIN Rank \cup {None}
         /\ \A m, n \in rows : m.arn = n.arn /\ m.nth = n.nth => m = n
<1> PICK nodes : nodes = Range(PrincipalArn)
  OBVIOUS
<1> PICK roleArns : roleArns = {r.arn : r \in aws.roles}
  OBVIOUS
<1> PICK bucketArns : bucketArns = {b.arn : b \in aws.buckets}
  OBVIOUS
<1> PICK edgeArns : edgeArns = {x.arn : x \in aws.edge.assets}
  OBVIOUS
<1>1. /\ roleArns \cap bucketArns = {} /\ roleArns \cap nodes = {} /\ bucketArns \cap nodes = {}
      /\ edgeArns \cap (roleArns \cup bucketArns \cup nodes) = {}
      /\ nodes \subseteq DOMAIN Rank
  <2>1. roleArns \cap nodes = {} /\ bucketArns \cap nodes = {}
    BY DEF CloudSound
  <2>2. /\ roleArns \cap bucketArns = {}
        /\ edgeArns \cap (roleArns \cup bucketArns \cup nodes) = {}
    BY DEF CloudSound
  <2> QED
    BY <2>1, <2>2, NamesAssumption
<1>2. \A n \in RoleRows(aws, gone) :
        \E r \in aws.roles : n = Node(r.arn, "iam_role", r.account, 1)
  BY DEF RoleRows, TrustingRoles
<1>3. \A n \in RoleRows(aws, gone) :
        n.arn \in roleArns /\ n.arn \in DOMAIN Rank /\ n.nth = 1 /\ n.account \in DOMAIN Rank
  <2>1. \A r \in aws.roles : r.arn \in DOMAIN Rank /\ r.account \in DOMAIN Rank
    BY DEF CloudSound
  <2> QED
    BY <1>2, <2>1 DEF Node
<1>4. \A m, n \in RoleRows(aws, gone) : m.arn = n.arn => m = n
  <2>1. \A q, r \in aws.roles : q.arn = r.arn => q = r
    BY DEF CloudSound
  <2> QED
    BY <1>2, <2>1 DEF Node
<1>5. \A n \in EntityRows(keep) : \E p \in DOMAIN keep :
        n = Node(PrincipalArn[p], "external_principal", keep[p], 2)
  BY DEF EntityRows
<1>6. \A n \in EntityRows(keep) : n.arn \in nodes /\ n.nth = 2 /\ n.account \in DOMAIN Rank
  BY <1>5, KeptAreTrusted DEF Node, Range
<1>7. \A m, n \in EntityRows(keep) : m.arn = n.arn => m = n
  BY <1>5, KeptAreTrusted, IdsTellApart DEF Node, IsInjective
<1>8. \A n \in BucketRows(aws) :
        \E b \in aws.buckets : n = Node(b.arn, "s3_bucket", b.account, 1)
  BY DEF BucketRows
<1>9. \A n \in BucketRows(aws) :
        n.arn \in bucketArns /\ n.arn \in DOMAIN Rank /\ n.nth = 1 /\ n.account \in DOMAIN Rank
  <2>1. \A b \in aws.buckets : b.arn \in DOMAIN Rank /\ b.account \in DOMAIN Rank
    BY DEF CloudSound
  <2> QED
    BY <1>8, <2>1 DEF Node
<1>10. \A m, n \in BucketRows(aws) : m.arn = n.arn => m = n
  <2>1. \A b, c \in aws.buckets : b.arn = c.arn => b = c
    BY DEF CloudSound
  <2> QED
    BY <1>8, <2>1 DEF Node
<1>11. \A n \in GranteeRows(aws, gone) :
         n.arn \in nodes /\ n = Node(n.arn, "external_principal", None, 1)
  <2>1. \A g \in CollectBucketPolicies(aws, gone).grants : g.principal \in DOMAIN PrincipalArn
    BY GrantsAreSound
  <2> QED
    BY <2>1 DEF GranteeRows, Node, Range
<1>12. \A n \in GranteeRows(aws, gone) : n.nth = 1 /\ n.account = None
  BY <1>11 DEF Node
<1>13. \A m, n \in GranteeRows(aws, gone) : m.arn = n.arn => m = n
  BY <1>11
<1>14. /\ \A n \in aws.edge.assets :
            /\ n.arn \in edgeArns /\ n.arn \in DOMAIN Rank /\ n.nth \in Nat
            /\ n.account \in DOMAIN Rank \cup {None}
       /\ \A m, n \in aws.edge.assets : m.arn = n.arn /\ m.nth = n.nth => m = n
  <2> PICK art : art = [accounts |-> {}, assets |-> aws.edge.assets, rels |-> aws.edge.rels,
                        findings |-> aws.edge.findings]
    OBVIOUS
  <2>1. Sortable(art) /\ art.assets = aws.edge.assets
    BY DEF CloudSound
  <2>2. /\ \A n \in art.assets : n.arn \in DOMAIN Rank /\ n.nth \in Nat
        /\ \A m, n \in art.assets : m.arn = n.arn /\ m.nth = n.nth => m = n
        /\ AccountIds(art) \subseteq DOMAIN Rank
    BY <2>1 DEF Sortable
  <2>3. \A n \in art.assets : n.account \in DOMAIN Rank \cup {None}
    BY <2>2 DEF AccountIds
  <2> QED
    BY <2>1, <2>2, <2>3
<1>15. \A n \in rows : /\ n.arn \in DOMAIN Rank /\ n.nth \in Nat
                       /\ n.account \in DOMAIN Rank \cup {None}
  BY <1>1, <1>3, <1>6, <1>9, <1>11, <1>12, <1>14
<1>16. ASSUME NEW m \in rows, NEW n \in rows, m.arn = n.arn, m.nth = n.nth
       PROVE  m = n
  <2>1. CASE m \in RoleRows(aws, gone)
    BY <1>1, <1>3, <1>4, <1>6, <1>9, <1>11, <1>14, <1>16, <2>1
  <2>2. CASE m \in EntityRows(keep)
    BY <1>1, <1>3, <1>6, <1>7, <1>9, <1>12, <1>14, <1>16, <2>2
  <2>3. CASE m \in BucketRows(aws)
    BY <1>1, <1>3, <1>6, <1>9, <1>10, <1>11, <1>14, <1>16, <2>3
  <2>4. CASE m \in GranteeRows(aws, gone)
    BY <1>1, <1>3, <1>6, <1>9, <1>11, <1>12, <1>13, <1>14, <1>16, <2>4
  <2>5. CASE m \in aws.edge.assets
    BY <1>1, <1>3, <1>6, <1>9, <1>11, <1>14, <1>16, <2>5
  <2> QED
    BY <2>1, <2>2, <2>3, <2>4, <2>5
<1> QED
  BY <1>15, <1>16

\* A finding has one of the ids there are.
LEMMA FindingIdIsOne ==
  ASSUME NEW a, NEW b, <<a, b>> \in DOMAIN FindingId
  PROVE  FindingId[<<a, b>>] \in Range(FindingId)
<1> PICK x : x = <<a, b>>
  OBVIOUS
<1>1. FindingId[x] \in Range(FindingId)
  BY DEF Range
<1> QED
  BY <1>1

\* The id of a finding tells what it is about and who is let in.
LEMMA FindingIdTells ==
  ASSUME NEW a, NEW b, NEW c, NEW d,
         <<a, b>> \in DOMAIN FindingId, <<c, d>> \in DOMAIN FindingId,
         FindingId[<<a, b>>] = FindingId[<<c, d>>]
  PROVE  a = c /\ b = d
<1>1. <<a, b>> = <<c, d>>
  BY IdsTellApart DEF IsInjective
<1> QED
  BY <1>1

\* The findings are told apart by their id and their place.
LEMMA FindingsAreToldApart ==
  ASSUME NEW aws, CloudSound(aws), NEW gone,
         NEW found, found = ScoreTrust(aws, gone)
                              \cup ScoreResourceExposure(CollectBucketPolicies(aws, gone).grants)
                              \cup aws.edge.findings
  PROVE  /\ IsFiniteSet(found)
         /\ \A f \in found : /\ f.id \in DOMAIN Rank /\ f.nth \in Nat
                             /\ f.account \in DOMAIN Rank \cup {None}
         /\ \A f, g \in found : f.id = g.id /\ f.nth = g.nth => f = g
<1> PICK trusts : trusts = RoleTrusts(aws, gone)
  OBVIOUS
<1> PICK grants : grants = CollectBucketPolicies(aws, gone).grants
  OBVIOUS
<1> PICK ids : ids = Range(FindingId)
  OBVIOUS
<1>1. /\ IsFiniteSet(trusts)
      /\ \A t \in trusts :
           /\ t = [role |-> t.role, principal |-> t.principal] /\ t.role \in aws.roles
           /\ t.principal \in DOMAIN PrincipalArn
           /\ <<t.role.arn, PrincipalArn[t.principal]>> \in DOMAIN FindingId
  BY TrustsAreSound
<1>2. /\ IsFiniteSet(grants)
      /\ \A g \in grants :
           /\ g.bucket \in aws.buckets
           /\ g.nth \in Nat /\ g.write = g.bucket.policy[g.nth].write
           /\ g.principal \in DOMAIN PrincipalArn
           /\ <<g.bucket.arn, PrincipalArn[g.principal]>> \in DOMAIN FindingId
  BY GrantsAreSound
<1>3. /\ ids \subseteq DOMAIN Rank
      /\ \A x, y \in DOMAIN FindingId : FindingId[x] = FindingId[y] => x = y
      /\ \A x, y \in DOMAIN PrincipalArn : PrincipalArn[x] = PrincipalArn[y] => x = y
      /\ \A x \in DOMAIN FindingId : FindingId[x] \in ids
  BY NamesAssumption, IdsTellApart DEF IsInjective, Range
<1>4. /\ \A q, r \in aws.roles : q.arn = r.arn => q = r
      /\ \A b, c \in aws.buckets : b.arn = c.arn => b = c
      /\ \A r \in aws.roles : \A b \in aws.buckets : r.arn # b.arn
      /\ \A f \in aws.edge.findings : f.id \notin ids
      /\ \A r \in aws.roles : r.account \in DOMAIN Rank
      /\ \A b \in aws.buckets : b.account \in DOMAIN Rank
  <2>1. {r.arn : r \in aws.roles} \cap {b.arn : b \in aws.buckets} = {}
    BY DEF CloudSound
  <2>2. {f.id : f \in aws.edge.findings} \cap ids = {}
    BY DEF CloudSound
  <2>3. /\ \A r \in aws.roles : \A b \in aws.buckets : r.arn # b.arn
        /\ \A f \in aws.edge.findings : f.id \notin ids
    BY <2>1, <2>2
  <2>4. /\ \A q, r \in aws.roles : q.arn = r.arn => q = r
        /\ \A b, c \in aws.buckets : b.arn = c.arn => b = c
    BY DEF CloudSound
  <2>5. /\ \A r \in aws.roles : r.account \in DOMAIN Rank
        /\ \A b \in aws.buckets : b.account \in DOMAIN Rank
    BY DEF CloudSound
  <2> QED
    BY <2>3, <2>4, <2>5
<1>5. \A t \in trusts :
        /\ TrustFinding(t, gone).id = FindingId[<<t.role.arn, PrincipalArn[t.principal]>>]
        /\ TrustFinding(t, gone).nth = 1 /\ TrustFinding(t, gone).account = t.role.account
  BY DEF TrustFinding
<1>6. \A g \in grants :
        /\ ExposureFinding(g).id = FindingId[<<g.bucket.arn, PrincipalArn[g.principal]>>]
        /\ ExposureFinding(g).nth = g.nth /\ ExposureFinding(g).account = g.bucket.account
  BY DEF ExposureFinding
<1>7. \A f \in ScoreTrust(aws, gone) : \E t \in trusts : f = TrustFinding(t, gone)
  BY DEF ScoreTrust
<1>8. \A f \in ScoreResourceExposure(grants) : \E g \in grants : f = ExposureFinding(g)
  BY DEF ScoreResourceExposure
<1>9. ASSUME NEW f \in ScoreTrust(aws, gone), NEW g \in ScoreTrust(aws, gone), f.id = g.id
      PROVE  f = g
  <2>1. PICK t \in trusts : f = TrustFinding(t, gone)
    BY <1>7
  <2>2. PICK u \in trusts : g = TrustFinding(u, gone)
    BY <1>7
  <2>3. FindingId[<<t.role.arn, PrincipalArn[t.principal]>>]
          = FindingId[<<u.role.arn, PrincipalArn[u.principal]>>]
    BY <1>5, <1>9, <2>1, <2>2
  <2>4. t.role = u.role /\ t.principal = u.principal
    BY SMTT(30), <1>1, <1>3, <1>4, <2>3, FindingIdTells
  <2>5. t = u
    BY <1>1, <2>4
  <2> QED
    BY <2>1, <2>2, <2>5
<1>10. ASSUME NEW f \in ScoreResourceExposure(grants), NEW g \in ScoreResourceExposure(grants),
              f.id = g.id, f.nth = g.nth
       PROVE  f = g
  <2>1. PICK h \in grants : f = ExposureFinding(h)
    BY <1>8
  <2>2. PICK k \in grants : g = ExposureFinding(k)
    BY <1>8
  <2>3. FindingId[<<h.bucket.arn, PrincipalArn[h.principal]>>]
          = FindingId[<<k.bucket.arn, PrincipalArn[k.principal]>>] /\ h.nth = k.nth
    BY <1>6, <1>10, <2>1, <2>2
  <2>4. h.bucket = k.bucket /\ h.principal = k.principal /\ h.nth = k.nth
    BY <1>2, <1>3, <1>4, <2>3, FindingIdTells
  <2>5. h.write = k.write
    BY <1>2, <2>4
  <2>6. ExposureFinding(h) = ExposureFinding(k)
    BY <2>4, <2>5 DEF ExposureFinding
  <2> QED
    BY <2>1, <2>2, <2>6
<1>11. ASSUME NEW f \in ScoreTrust(aws, gone), NEW g \in ScoreResourceExposure(grants)
       PROVE  f.id # g.id
  <2>1. PICK t \in trusts : f = TrustFinding(t, gone)
    BY <1>7
  <2>2. PICK k \in grants : g = ExposureFinding(k)
    BY <1>8
  <2>3. t.role.arn # k.bucket.arn
    BY <1>1, <1>2, <1>4
  <2>4. FindingId[<<t.role.arn, PrincipalArn[t.principal]>>]
          # FindingId[<<k.bucket.arn, PrincipalArn[k.principal]>>]
    BY <1>1, <1>2, <2>3, FindingIdTells
  <2> QED
    BY <1>5, <1>6, <2>1, <2>2, <2>4
<1>12. /\ \A f \in ScoreTrust(aws, gone) :
            f.id \in ids /\ f.nth \in Nat /\ f.account \in DOMAIN Rank
       /\ \A f \in ScoreResourceExposure(grants) :
            f.id \in ids /\ f.nth \in Nat /\ f.account \in DOMAIN Rank
  <2>1. ASSUME NEW t \in trusts
        PROVE  /\ TrustFinding(t, gone).id \in ids /\ TrustFinding(t, gone).nth \in Nat
               /\ TrustFinding(t, gone).account \in DOMAIN Rank
    <3>1. FindingId[<<t.role.arn, PrincipalArn[t.principal]>>] \in ids
      BY <1>1, FindingIdIsOne
    <3> QED
      BY <1>1, <1>4, <1>5, <3>1
  <2>2. ASSUME NEW g \in grants
        PROVE  /\ ExposureFinding(g).id \in ids /\ ExposureFinding(g).nth \in Nat
               /\ ExposureFinding(g).account \in DOMAIN Rank
    <3>1. FindingId[<<g.bucket.arn, PrincipalArn[g.principal]>>] \in ids
      BY <1>2, FindingIdIsOne
    <3> QED
      BY <1>2, <1>4, <1>6, <3>1
  <2> QED
    BY <1>7, <1>8, <2>1, <2>2
<1>13. /\ IsFiniteSet(aws.edge.findings)
       /\ \A f \in aws.edge.findings : /\ f.id \in DOMAIN Rank /\ f.nth \in Nat
                                       /\ f.account \in DOMAIN Rank \cup {None}
       /\ \A f, g \in aws.edge.findings : f.id = g.id /\ f.nth = g.nth => f = g
  <2> PICK art : art = [accounts |-> {}, assets |-> aws.edge.assets, rels |-> aws.edge.rels,
                        findings |-> aws.edge.findings]
    OBVIOUS
  <2>1. Sortable(art) /\ art.findings = aws.edge.findings
    BY DEF CloudSound
  <2>2. /\ IsFiniteSet(art.findings)
        /\ \A f \in art.findings : f.id \in DOMAIN Rank /\ f.nth \in Nat
        /\ \A f, g \in art.findings : f.id = g.id /\ f.nth = g.nth => f = g
        /\ AccountIds(art) \subseteq DOMAIN Rank
    BY ZenonT(30), <2>1 DEF Sortable
  <2>3. \A f \in art.findings : f.account \in DOMAIN Rank \cup {None}
    BY <2>2 DEF AccountIds
  <2> QED
    BY <2>1, <2>2, <2>3
<1>14. IsFiniteSet(ScoreTrust(aws, gone))
  <2>1. \E h : \A f \in ScoreTrust(aws, gone) : \E t \in trusts : f = h[t]
    <3>1. \A f \in ScoreTrust(aws, gone) : \E t \in trusts :
            f = [u \in trusts |-> TrustFinding(u, gone)][t]
      BY <1>7
    <3> QED
      BY <3>1
  <2> QED
    BY <1>1, <2>1, ImageIsFinite
<1>15. IsFiniteSet(ScoreResourceExposure(grants))
  <2>1. \E h : \A f \in ScoreResourceExposure(grants) : \E g \in grants : f = h[g]
    <3>1. \A f \in ScoreResourceExposure(grants) : \E g \in grants :
            f = [k \in grants |-> ExposureFinding(k)][g]
      BY <1>8
    <3> QED
      BY <3>1
  <2> QED
    BY <1>2, <2>1, ImageIsFinite
<1>16. IsFiniteSet(found)
  BY <1>13, <1>14, <1>15, FS_Union
<1>17. \A f \in found : /\ f.id \in DOMAIN Rank /\ f.nth \in Nat
                        /\ f.account \in DOMAIN Rank \cup {None}
  BY <1>3, <1>12, <1>13
<1>18. ASSUME NEW f \in found, NEW g \in found, f.id = g.id, f.nth = g.nth
       PROVE  f = g
  <2>1. CASE f \in ScoreTrust(aws, gone)
    BY <1>4, <1>9, <1>11, <1>12, <1>18, <2>1
  <2>2. CASE f \in ScoreResourceExposure(grants)
    BY <1>4, <1>10, <1>11, <1>12, <1>18, <2>2
  <2>3. CASE f \in aws.edge.findings
    BY <1>4, <1>12, <1>13, <1>18, <2>3
  <2> QED
    BY <2>1, <2>2, <2>3
<1> QED
  BY <1>16, <1>17, <1>18

\* The relationships of a scan are finitely many, between names in order.
LEMMA RelsAreNamed ==
  ASSUME NEW aws, CloudSound(aws), NEW gone, NEW keep,
         NEW rels, rels = Artifacts(aws, gone, keep).rels
  PROVE  /\ IsFiniteSet(rels)
         /\ rels \subseteq [src : DOMAIN Rank, type : DOMAIN Rank, dst : DOMAIN Rank]
<1> PICK trusts : trusts = RoleTrusts(aws, gone)
  OBVIOUS
<1> PICK grants : grants = CollectBucketPolicies(aws, gone).grants
  OBVIOUS
<1> DEFINE R == {Trusting(t.role.arn, t.principal) : t \in trusts}
           G == {Trusting(g.bucket.arn, g.principal) : g \in grants}
<1>1. rels = R \cup G \cup aws.edge.rels
  BY DEF Artifacts
<1>2. /\ IsFiniteSet(trusts)
      /\ \A t \in trusts : t.role.arn \in DOMAIN Rank /\ t.principal \in DOMAIN PrincipalArn
  BY TrustsAreSound DEF CloudSound
<1>3. /\ IsFiniteSet(grants)
      /\ \A g \in grants : g.bucket.arn \in DOMAIN Rank /\ g.principal \in DOMAIN PrincipalArn
  BY GrantsAreSound DEF CloudSound
<1>4. /\ "TRUSTS" \in DOMAIN Rank
      /\ \A p \in DOMAIN PrincipalArn : PrincipalArn[p] \in DOMAIN Rank
  BY NamesAssumption DEF Range
<1>5. IsFiniteSet(R)
  <2>1. \E f : \A y \in R : \E t \in trusts : y = f[t]
    <3>1. \A y \in R : \E t \in trusts :
            y = [u \in trusts |-> Trusting(u.role.arn, u.principal)][t]
      OBVIOUS
    <3> HIDE DEF R
    <3> QED
      BY <3>1
  <2> HIDE DEF R
  <2> QED
    BY <1>2, <2>1, ImageIsFinite
<1>6. IsFiniteSet(G)
  <2>1. \E f : \A y \in G : \E g \in grants : y = f[g]
    <3>1. \A y \in G : \E g \in grants :
            y = [h \in grants |-> Trusting(h.bucket.arn, h.principal)][g]
      OBVIOUS
    <3> HIDE DEF G
    <3> QED
      BY <3>1
  <2> HIDE DEF G
  <2> QED
    BY <1>3, <2>1, ImageIsFinite
<1> PICK named : named = [src : DOMAIN Rank, type : DOMAIN Rank, dst : DOMAIN Rank]
  OBVIOUS
<1>7. R \subseteq named
  BY <1>2, <1>4 DEF Trusting
<1>8. G \subseteq named
  BY <1>3, <1>4 DEF Trusting
<1>9. IsFiniteSet(aws.edge.rels) /\ aws.edge.rels \subseteq named
  <2> PICK art : art = [accounts |-> {}, assets |-> aws.edge.assets, rels |-> aws.edge.rels,
                        findings |-> aws.edge.findings]
    OBVIOUS
  <2>1. Sortable(art) /\ art.rels = aws.edge.rels
    BY DEF CloudSound
  <2> QED
    BY <2>1 DEF Sortable
<1> HIDE DEF R, G
<1>10. IsFiniteSet(R \cup G \cup aws.edge.rels)
  BY <1>5, <1>6, <1>9, FS_Union
<1> QED
  BY <1>1, <1>7, <1>8, <1>9, <1>10

\* What a scan writes, whatever calls it lost, an export can put in order.
LEMMA ArtifactsAreSortable ==
  ASSUME NEW aws, CloudSound(aws), NEW gone, NEW keep \in Keepers(RoleTrusts(aws, gone))
  PROVE  Sortable(Artifacts(aws, gone, keep))
<1> PICK art : art = Artifacts(aws, gone, keep)
  OBVIOUS
<1>1. /\ art.accounts = aws.accounts
      /\ art.assets = RoleRows(aws, gone) \cup EntityRows(keep) \cup BucketRows(aws)
                        \cup GranteeRows(aws, gone) \cup aws.edge.assets
      /\ art.findings = ScoreTrust(aws, gone)
                          \cup ScoreResourceExposure(CollectBucketPolicies(aws, gone).grants)
                          \cup aws.edge.findings
  BY DEF Artifacts, RoleRows, EntityRows, BucketRows, GranteeRows
<1>2. /\ \A n \in art.assets : /\ n.arn \in DOMAIN Rank /\ n.nth \in Nat
                               /\ n.account \in DOMAIN Rank \cup {None}
      /\ \A m, n \in art.assets : m.arn = n.arn /\ m.nth = n.nth => m = n
  BY <1>1, RowsAreToldApart
<1>3. /\ IsFiniteSet(art.findings)
      /\ \A f \in art.findings : /\ f.id \in DOMAIN Rank /\ f.nth \in Nat
                                 /\ f.account \in DOMAIN Rank \cup {None}
      /\ \A f, g \in art.findings : f.id = g.id /\ f.nth = g.nth => f = g
  <2> PICK found : found = art.findings
    OBVIOUS
  <2>1. found = ScoreTrust(aws, gone)
                  \cup ScoreResourceExposure(CollectBucketPolicies(aws, gone).grants)
                  \cup aws.edge.findings
    BY <1>1
  <2>2. IsFiniteSet(found)
    BY <2>1, FindingsAreToldApart
  <2>3. \A f \in found : /\ f.id \in DOMAIN Rank /\ f.nth \in Nat
                         /\ f.account \in DOMAIN Rank \cup {None}
    BY <2>1, FindingsAreToldApart
  <2>4. \A f, g \in found : f.id = g.id /\ f.nth = g.nth => f = g
    BY ZenonT(30), <2>1, FindingsAreToldApart
  <2> QED
    BY <2>2, <2>3, <2>4
<1>4. /\ IsFiniteSet(art.rels)
      /\ art.rels \subseteq [src : DOMAIN Rank, type : DOMAIN Rank, dst : DOMAIN Rank]
  BY RelsAreNamed
<1>5. IsFiniteSet(art.assets)
  <2>1. IsFiniteSet(aws.edge.assets)
    <3> PICK edge : edge = [accounts |-> {}, assets |-> aws.edge.assets,
                            rels |-> aws.edge.rels, findings |-> aws.edge.findings]
      OBVIOUS
    <3>1. Sortable(edge) /\ edge.assets = aws.edge.assets
      BY DEF CloudSound
    <3> QED
      BY <3>1 DEF Sortable
  <2>2. /\ IsFiniteSet(RoleRows(aws, gone)) /\ IsFiniteSet(EntityRows(keep))
        /\ IsFiniteSet(BucketRows(aws)) /\ IsFiniteSet(GranteeRows(aws, gone))
    BY RowsAreFinite
  <2>3. IsFiniteSet(RoleRows(aws, gone) \cup EntityRows(keep) \cup BucketRows(aws)
                      \cup GranteeRows(aws, gone) \cup aws.edge.assets)
    BY <2>1, <2>2, FS_Union
  <2> QED
    BY <1>1, <2>3
<1>6. IsFiniteSet(AccountIds(art)) /\ AccountIds(art) \subseteq DOMAIN Rank
  <2> DEFINE A == {n.account : n \in art.assets}
             F == {f.account : f \in art.findings}
  <2>1. IsFiniteSet(A)
    <3>1. \E f : \A y \in A : \E n \in art.assets : y = f[n]
      <4>1. \A y \in A : \E n \in art.assets : y = [m \in art.assets |-> m.account][n]
        OBVIOUS
      <4> HIDE DEF A
      <4> QED
        BY <4>1
    <3> HIDE DEF A
    <3> QED
      BY <1>5, <3>1, ImageIsFinite
  <2>2. IsFiniteSet(F)
    <3>1. \E h : \A y \in F : \E f \in art.findings : y = h[f]
      <4>1. \A y \in F : \E f \in art.findings : y = [g \in art.findings |-> g.account][f]
        OBVIOUS
      <4> HIDE DEF F
      <4> QED
        BY <4>1
    <3> HIDE DEF F
    <3> QED
      BY <1>3, <3>1, ImageIsFinite
  <2>3. IsFiniteSet(art.accounts) /\ art.accounts \subseteq DOMAIN Rank
    BY <1>1 DEF CloudSound
  <2>4. A \subseteq DOMAIN Rank \cup {None} /\ F \subseteq DOMAIN Rank \cup {None}
    BY <1>2, <1>3
  <2>5. AccountIds(art) = (art.accounts \cup A \cup F) \ {None}
    BY DEF AccountIds
  <2> HIDE DEF A, F
  <2>6. IsFiniteSet(art.accounts \cup A \cup F)
    BY <2>1, <2>2, <2>3, FS_Union
  <2>7. IsFiniteSet((art.accounts \cup A \cup F) \ {None})
    BY <2>6, FS_Subset
  <2> QED
    BY <2>3, <2>4, <2>5, <2>7
<1> QED
  BY <1>2, <1>3, <1>4, <1>5, <1>6 DEF Sortable

\* What a finding says of what it is about.
IsAbout(f, trusts, edge) ==
  /\ f.arn \in DOMAIN Rank
  /\ \/ \E t \in trusts : f.arn = t.role.arn /\ f.role = t.role.arn
     \/ f.role = None /\ f.external = None
  /\ \/ \E b : <<f.arn, b>> \in DOMAIN FindingId /\ f.id = FindingId[<<f.arn, b>>]
     \/ f \in edge

\* The finding of a trust is about its role, that of a grant about its bucket.
LEMMA FindingsAreAbout ==
  ASSUME NEW aws, CloudSound(aws), NEW gone,
         NEW found, found = ScoreTrust(aws, gone)
                              \cup ScoreResourceExposure(CollectBucketPolicies(aws, gone).grants)
                              \cup aws.edge.findings,
         NEW f \in found
  PROVE  IsAbout(f, RoleTrusts(aws, gone), aws.edge.findings)
<1> PICK grants : grants = CollectBucketPolicies(aws, gone).grants
  OBVIOUS
<1>1. CASE f \in ScoreTrust(aws, gone)
  <2>1. PICK t \in RoleTrusts(aws, gone) : f = TrustFinding(t, gone)
    BY <1>1 DEF ScoreTrust
  <2>2. /\ f.id = FindingId[<<t.role.arn, PrincipalArn[t.principal]>>]
        /\ f.arn = t.role.arn /\ f.role = t.role.arn
    BY <2>1 DEF TrustFinding
  <2>3. t.role \in aws.roles /\ <<t.role.arn, PrincipalArn[t.principal]>> \in DOMAIN FindingId
    BY TrustsAreSound
  <2>4. t.role.arn \in DOMAIN Rank
    BY <2>3 DEF CloudSound
  <2> QED
    BY <2>2, <2>3, <2>4 DEF IsAbout
<1>2. CASE f \in ScoreResourceExposure(grants)
  <2>1. PICK g \in grants : f = ExposureFinding(g)
    BY <1>2 DEF ScoreResourceExposure
  <2>2. /\ f.id = FindingId[<<g.bucket.arn, PrincipalArn[g.principal]>>]
        /\ f.arn = g.bucket.arn /\ f.role = None /\ f.external = None
    BY <2>1 DEF ExposureFinding
  <2>3. g.bucket \in aws.buckets /\ <<g.bucket.arn, PrincipalArn[g.principal]>> \in DOMAIN FindingId
    BY GrantsAreSound
  <2>4. g.bucket.arn \in DOMAIN Rank
    BY <2>3 DEF CloudSound
  <2> QED
    BY <2>2, <2>3, <2>4 DEF IsAbout
<1>3. CASE f \in aws.edge.findings
  <2>1. f.role = None /\ f.external = None /\ f.arn \in DOMAIN Rank
    BY <1>3 DEF CloudSound
  <2> QED
    BY <1>3, <2>1 DEF IsAbout
<1> QED
  BY <1>1, <1>2, <1>3

\* What a scan writes of access from outside can be traced in its graph.
LEMMA ArtifactsAreTraceable ==
  ASSUME NEW aws, CloudSound(aws), NEW gone, NEW keep \in Keepers(RoleTrusts(aws, gone))
  PROVE  Traceable(Artifacts(aws, gone, keep))
<1> PICK art : art = Artifacts(aws, gone, keep)
  OBVIOUS
<1> PICK trusts : trusts = RoleTrusts(aws, gone)
  OBVIOUS
<1> PICK found : found = ScoreTrust(aws, gone)
                           \cup ScoreResourceExposure(CollectBucketPolicies(aws, gone).grants)
                           \cup aws.edge.findings
  OBVIOUS
<1>1. art.findings = found
  BY DEF Artifacts
<1>2. \A f \in found : IsAbout(f, trusts, aws.edge.findings)
  BY FindingsAreAbout
<1>3. ASSUME NEW f \in found, NEW g \in found, f.id = g.id PROVE f.arn = g.arn
  <2>1. {h.id : h \in aws.edge.findings} \cap Range(FindingId) = {}
    BY DEF CloudSound
  <2>2. CASE f \in aws.edge.findings /\ g \in aws.edge.findings
    BY <1>3, <2>2 DEF CloudSound
  <2>3. CASE f \in aws.edge.findings /\ g \notin aws.edge.findings
    <3>1. PICK b : <<g.arn, b>> \in DOMAIN FindingId /\ g.id = FindingId[<<g.arn, b>>]
      BY <1>2, <2>3 DEF IsAbout
    <3>2. g.id \in Range(FindingId)
      BY <3>1, FindingIdIsOne
    <3> QED
      BY <1>3, <2>1, <2>3, <3>2
  <2>4. CASE f \notin aws.edge.findings /\ g \in aws.edge.findings
    <3>1. PICK b : <<f.arn, b>> \in DOMAIN FindingId /\ f.id = FindingId[<<f.arn, b>>]
      BY <1>2, <2>4 DEF IsAbout
    <3>2. f.id \in Range(FindingId)
      BY <3>1, FindingIdIsOne
    <3> QED
      BY <1>3, <2>1, <2>4, <3>2
  <2>5. CASE f \notin aws.edge.findings /\ g \notin aws.edge.findings
    <3>1. PICK b : <<f.arn, b>> \in DOMAIN FindingId /\ f.id = FindingId[<<f.arn, b>>]
      BY <1>2, <2>5 DEF IsAbout
    <3>2. PICK c : <<g.arn, c>> \in DOMAIN FindingId /\ g.id = FindingId[<<g.arn, c>>]
      BY <1>2, <2>5 DEF IsAbout
    <3> PICK x : x = f.arn
      OBVIOUS
    <3> PICK y : y = g.arn
      OBVIOUS
    <3>3. x = y
      BY <1>3, <3>1, <3>2, FindingIdTells
    <3> QED
      BY <3>3
  <2> QED
    BY <2>2, <2>3, <2>4, <2>5
<1>4. ASSUME NEW f \in found PROVE {f.arn, roleARNFromFinding(f)} \subseteq DOMAIN Rank \cup {None}
  BY <1>2 DEF IsAbout, roleARNFromFinding
<1>5. ASSUME NEW f \in found, f.external # None
      PROVE  \E e \in Edges(art) : e.type = "TRUSTS" /\ e.src = f.arn
  <2>1. PICK t \in trusts : f.arn = t.role.arn
    BY <1>2, <1>5 DEF IsAbout
  <2> PICK e : e = Trusting(t.role.arn, t.principal)
    OBVIOUS
  <2>2. e.type = "TRUSTS" /\ e.src = f.arn /\ e.dst = PrincipalArn[t.principal]
    BY <2>1 DEF Trusting
  <2>3. e \in art.rels
    BY DEF Artifacts
  <2>4. t.role \in TrustingRoles(aws, gone)
    BY DEF RoleTrusts
  <2>5. t.principal \in DOMAIN keep
    BY DEF Keepers
  <2>6. /\ Node(t.role.arn, "iam_role", t.role.account, 1) \in art.assets
        /\ Node(PrincipalArn[t.principal], "external_principal", keep[t.principal], 2) \in art.assets
    BY <2>4, <2>5 DEF Artifacts
  <2>7. {e.src, e.dst} \subseteq {n.arn : n \in art.assets}
    <3>1. \A n \in art.assets : n.arn \in {m.arn : m \in art.assets}
      OBVIOUS
    <3>2. t.role.arn \in {m.arn : m \in art.assets}
      BY <2>6, <3>1 DEF Node
    <3>3. PrincipalArn[t.principal] \in {m.arn : m \in art.assets}
      BY <2>6, <3>1 DEF Node
    <3> QED
      BY <2>1, <2>2, <3>2, <3>3
  <2>8. e \in Edges(art)
    BY <2>2, <2>3, <2>7 DEF Edges, CypherRelTypes
  <2> QED
    BY <2>2, <2>8
<1> QED
  BY <1>1, <1>3, <1>4, <1>5 DEF Traceable

-----------------------------------------------------------------------------
(* The database, whoever writes to it.                                     *)

\* What the database, the disk and the exporters keep, and what AWS may say.
DatabaseInv ==
  /\ ExportInv
  /\ \A scan \in DOMAIN cloud : CloudSound(cloud[scan])
  /\ DOMAIN lost \subseteq DOMAIN disk \cap DOMAIN cloud

\* The database begins empty, and with artifacts that can be exported.
LEMMA DatabaseBegins ==
  Init => DatabaseInv
<1> SUFFICES ASSUME Init PROVE DatabaseInv
  OBVIOUS
<1>1. PICK w \in Worlds : disk = w.disk /\ cloud = w.cloud
  BY DEF Init
<1>2. /\ db = EmptyDb /\ projections = {} /\ written = {} /\ begun = {} /\ abandoned = {}
      /\ export = [e \in Exporters |-> Idle] /\ lost = Empty
  BY DEF Init
<1>3. /\ \A scan \in DOMAIN disk : Sortable(disk[scan])
      /\ \A scan \in DOMAIN cloud : CloudSound(cloud[scan])
  BY <1>1, WorldsAssumption
<1>4. DbSound(db)
  BY <1>2 DEF EmptyDb, DbSound
<1>5. \A e \in Exporters : ExporterSound(export[e], db, disk, begun)
  BY <1>2 DEF Idle, ExporterSound
<1>6. ProjectionReleased
  BY <1>2 DEF ProjectionReleased
<1>7. DOMAIN lost = {}
  BY <1>2 DEF Empty
<1>8. ExportInv
  BY <1>2, <1>3, <1>4, <1>5, <1>6 DEF ExportInv
<1> QED
  BY <1>3, <1>7, <1>8 DEF DatabaseInv

\* What a scan leaves on disk can be exported, whatever calls were lost.
LEMMA RunScanKeepsDatabase ==
  ASSUME DatabaseInv, NEW scan, RunScan(scan)
  PROVE  DatabaseInv'
<1>1. /\ scan \in DOMAIN cloud \ DOMAIN disk
      /\ UNCHANGED <<graphVars, cloud>>
  BY DEF RunScan
<1>2. PICK gone : lost' = Merge(lost, scan, gone)
              /\ \E keep \in Keepers(RoleTrusts(cloud[scan], gone)) :
                   disk' = Merge(disk, scan, Artifacts(cloud[scan], gone, keep))
  BY DEF RunScan
<1>3. PICK art : disk' = Merge(disk, scan, art) /\ Sortable(art)
  <2>1. PICK keep \in Keepers(RoleTrusts(cloud[scan], gone)) :
          disk' = Merge(disk, scan, Artifacts(cloud[scan], gone, keep))
    BY <1>2
  <2>2. CloudSound(cloud[scan])
    BY <1>1 DEF DatabaseInv
  <2> QED
    BY <2>1, <2>2, ArtifactsAreSortable
<1>4. /\ DOMAIN disk' = DOMAIN disk \cup {scan} /\ disk'[scan] = art
      /\ \A s \in DOMAIN disk : disk'[s] = disk[s]
      /\ DOMAIN lost' = DOMAIN lost \cup {scan}
  BY <1>1, <1>2, <1>3 DEF Merge, Over
<1>5. /\ UNCHANGED <<db, projections, export, written, begun, abandoned>>
      /\ ExportInv
  BY <1>1 DEF graphVars, DatabaseInv
<1>6. ASSUME NEW e \in Exporters PROVE ExporterSound(export'[e], db', disk', begun')
  <2>1. ExporterSound(export[e], db, disk, begun) /\ begun \subseteq DOMAIN disk
    BY <1>5 DEF ExportInv
  <2>2. ExporterSound(export[e], db, disk', begun)
    BY <1>4, <2>1, NothingChanged, ExporterUndisturbed
  <2> QED
    BY <1>5, <2>2
<1>7. ASSUME NEW s \in written PROVE Traversable(db, s, disk'[s])
  <2>1. s \in DOMAIN disk /\ Traversable(db, s, disk[s])
    BY <1>5 DEF ExportInv
  <2> QED
    BY <1>4, <2>1
<1>8. ProjectionReleased'
  BY <1>5 DEF ExportInv, ProjectionReleased, Holds
<1>9. \A s \in DOMAIN disk' : Sortable(disk'[s])
  BY <1>3, <1>4, <1>5 DEF ExportInv
<1>10. ExportInv'
  BY <1>4, <1>5, <1>6, <1>7, <1>8, <1>9 DEF ExportInv
<1>11. DOMAIN lost' \subseteq DOMAIN disk' \cap DOMAIN cloud'
  BY <1>1, <1>4 DEF DatabaseInv
<1> QED
  BY <1>1, <1>10, <1>11 DEF DatabaseInv

\* Whatever reads the artifacts and the database leaves them as they are.
LEMMA ReadingKeepsDatabase ==
  ASSUME DatabaseInv, UNCHANGED <<disk, graphVars, scanVars>>
  PROVE  DatabaseInv'
BY DEF DatabaseInv, ExportInv, ProjectionReleased, Holds, graphVars, scanVars

\* The invariant of the database is inductive.
LEMMA NextKeepsDatabase ==
  DatabaseInv /\ [Next]_vars => DatabaseInv'
<1> SUFFICES ASSUME DatabaseInv, [Next]_vars PROVE DatabaseInv'
  OBVIOUS
<1>1. CASE \E scan \in DOMAIN cloud : RunScan(scan)
  BY <1>1, RunScanKeepsDatabase
<1>2. CASE (\E e \in Exporters : ExportStep(e)) /\ UNCHANGED scanVars
  <2>1. PICK e \in Exporters : ExportStep(e)
    BY <1>2
  <2>2. ExportInv'
    BY <2>1, ExportStepKeeps DEF DatabaseInv
  <2>3. disk' = disk
    BY <2>1 DEF ExportStep, BeginWrite, RunStatement, WriteFails, DropStale, Project, Analyse,
                Release, Deadline, ExporterDies
  <2> QED
    BY <1>2, <2>2, <2>3 DEF DatabaseInv, scanVars
<1>3. CASE UNCHANGED <<disk, graphVars, scanVars>>
  BY <1>3, ReadingKeepsDatabase
<1>4. CASE UNCHANGED vars
  BY <1>4, ReadingKeepsDatabase DEF vars
<1> QED
  BY <1>1, <1>2, <1>3, <1>4 DEF Next

\* In every reachable state the artifacts on disk can be exported, what the
\* database holds is whole, and each exporter is in a stage its projection and
\* its statements agree with.
THEOREM DatabaseKept ==
  Spec => []DatabaseInv
<1> QED
  BY DatabaseBegins, NextKeepsDatabase, PTL DEF Spec

-----------------------------------------------------------------------------
(* The requests, among all that runs.                                      *)

\* The invariant of the answers is inductive.
LEMMA NextKeepsAnswer ==
  AnswerInv /\ [Next]_vars => AnswerInv'
<1> SUFFICES ASSUME AnswerInv, [Next]_vars PROVE AnswerInv'
  OBVIOUS
<1>1. CASE UNCHANGED blastVars
  BY <1>1, AnswerLeft DEF blastVars
<1>2. CASE BlastStep
  <2>1. CASE ReadContext
    BY <2>1, ReadContextKeeps
  <2>2. CASE ReadExpand
    BY <2>2, ReadExpandKeeps
  <2>3. CASE ReadHop
    BY <2>3, ReadHopKeeps
  <2>4. CASE ReadFails
    BY <2>4, AnswerWithoutKeeps DEF ReadFails
  <2>5. CASE Send
    BY <2>5, AnswerSent DEF Send
  <2> QED
    BY <1>2, <2>1, <2>2, <2>3, <2>4, <2>5 DEF BlastStep
<1>3. CASE \E req \in client.requests : Ask(req)
  BY <1>3, ServeKeeps DEF Ask
<1>4. CASE RetrievalStep \/ \E q \in client.questions : Execute(q)
  <2>1. CASE Compose
    <3>1. (\E req : Serve(req)) \/ UNCHANGED <<reader, answer>>
      BY <2>1 DEF Compose
    <3> QED
      BY <3>1, ServeKeeps, AnswerLeft
  <2>2. CASE ComposeBlast
    BY <2>2, AnswerSent DEF ComposeBlast
  <2>3. CASE UNCHANGED blastVars
    BY <2>3, AnswerLeft DEF blastVars
  <2>4. \/ Compose \/ ComposeBlast
        \/ UNCHANGED blastVars
    BY <1>4 DEF RetrievalStep, RetrieveFindingContext, CountNeighbors, RetrievalFails, Reply, Execute
  <2> QED
    BY <2>1, <2>2, <2>3, <2>4
<1>5. CASE AlertStep
  <2>1. CASE \E c \in client.catalogs : PutRoutingCatalog(c)
    BY <2>1, AnswerLeft DEF PutRoutingCatalog, blastVars
  <2>2. CASE \E rule \in client.rules, scan \in DOMAIN disk : EvaluateRule(rule, scan)
    <3>1. (\E req : Serve(req)) \/ UNCHANGED <<reader, answer>>
      BY <2>2 DEF EvaluateRule
    <3> QED
      BY <3>1, ServeKeeps, AnswerLeft
  <2>3. CASE Notify
    BY <2>3, AnswerSent DEF Notify
  <2> QED
    BY <1>5, <2>1, <2>2, <2>3 DEF AlertStep
<1>6. CASE \E scan \in DOMAIN cloud : RunScan(scan)
  BY <1>6, AnswerLeft DEF RunScan, blastVars
<1>7. CASE UNCHANGED vars
  BY <1>7, AnswerLeft DEF vars, blastVars
<1> QED
  BY <1>1, <1>2, <1>3, <1>4, <1>5, <1>6, <1>7 DEF Next

\* In every reachable state the graph a request works on, and the one it is
\* answered with, has both ends of every edge and a kind for every node.
THEOREM AnswerKept ==
  Spec => []AnswerInv
<1>1. Init => AnswerInv
  BY DEF Init, AnswerInv
<1> QED
  BY <1>1, NextKeepsAnswer, PTL DEF Spec
-----------------------------------------------------------------------------
(* What the walk through the graph reaches.                                *)

\* The database is from the scans on disk, whose findings can be traced.
OriginInv == SourceInv /\ \A scan \in DOMAIN disk : Traceable(disk[scan])

\* Nothing is in the database at first.
LEMMA OriginBegins ==
  Init => OriginInv
<1> SUFFICES ASSUME Init PROVE OriginInv
  OBVIOUS
<1>1. PICK w \in Worlds : disk = w.disk
  BY DEF Init
<1>2. \A scan \in DOMAIN disk : Traceable(disk[scan])
  BY <1>1, WorldsAssumption
<1>3. db = EmptyDb /\ begun = {} /\ export = [e \in Exporters |-> Idle]
  BY DEF Init
<1>4. \A e \in Exporters : export[e].phase # "write"
  BY <1>3 DEF Idle
<1>5. NothingIn(db)
  BY <1>3 DEF EmptyDb, Empty, NothingIn
<1>6. \A scan \in DOMAIN disk : OnlyFrom(db, scan, disk[scan])
  BY <1>5 DEF NothingIn, OnlyFrom
<1>7. db.edges \subseteq Named /\ IsFiniteSet(db.edges)
  BY <1>5, FS_EmptySet DEF NothingIn
<1> QED
  BY <1>2, <1>4, <1>5, <1>6, <1>7 DEF OriginInv, SourceInv

\* What a scan leaves on disk can be traced, and the scans before it are as they were.
LEMMA RunScanGrows ==
  ASSUME DatabaseInv, NEW scan, RunScan(scan)
  PROVE  /\ ScansGrow
         /\ \E art : /\ scan \notin DOMAIN disk /\ disk' = Merge(disk, scan, art)
                     /\ Traceable(art)
<1>1. scan \in DOMAIN cloud \ DOMAIN disk /\ UNCHANGED graphVars
  BY DEF RunScan
<1>2. PICK gone : \E keep \in Keepers(RoleTrusts(cloud[scan], gone)) :
                    disk' = Merge(disk, scan, Artifacts(cloud[scan], gone, keep))
  BY DEF RunScan
<1>3. PICK keep \in Keepers(RoleTrusts(cloud[scan], gone)) :
        disk' = Merge(disk, scan, Artifacts(cloud[scan], gone, keep))
  BY <1>2
<1> PICK art : art = Artifacts(cloud[scan], gone, keep)
  OBVIOUS
<1>4. CloudSound(cloud[scan])
  BY <1>1 DEF DatabaseInv
<1>5. disk' = Merge(disk, scan, art) /\ Traceable(art)
  BY <1>3, <1>4, ArtifactsAreTraceable
<1>6. DOMAIN disk' = DOMAIN disk \cup {scan} /\ \A s \in DOMAIN disk : disk'[s] = disk[s]
  BY <1>1, <1>5 DEF Merge, Over
<1>7. ScansGrow
  BY <1>1, <1>6 DEF graphVars, ScansGrow
<1> QED
  BY <1>1, <1>5, <1>7

\* A new scan on disk leaves the database to the scans it came from,
LEMMA RunScanKeepsOrigin ==
  ASSUME DatabaseInv, OriginInv, NEW scan, RunScan(scan)
  PROVE  OriginInv'
<1>1. PICK art : /\ scan \notin DOMAIN disk /\ disk' = Merge(disk, scan, art)
                 /\ Traceable(art)
  BY RunScanGrows
<1>2. UNCHANGED <<db, export, begun>>
  BY DEF RunScan, graphVars
<1>3. SourceInv'
  BY <1>1, <1>2, NewScanKeepsSource DEF DatabaseInv, OriginInv
<1>4. DOMAIN disk' = DOMAIN disk \cup {scan} /\ disk'[scan] = art
      /\ \A s \in DOMAIN disk : disk'[s] = disk[s]
  BY <1>1 DEF Merge, Over
<1>5. \A s \in DOMAIN disk' : Traceable(disk'[s])
  BY <1>1, <1>4 DEF OriginInv
<1> QED
  BY <1>3, <1>5 DEF OriginInv, Traceable

\* What an export does to what is read of the scans.
LEMMA ExportGrows ==
  ASSUME NEW e \in Exporters, ExportStep(e)
  PROVE  disk' = disk /\ ScansGrow
<1>1. disk' = disk /\ written \subseteq written' /\ begun \subseteq begun'
  BY DEF ExportStep, BeginWrite, RunStatement, WriteFails, DropStale, Project, Analyse, Release,
         Deadline, ExporterDies
<1> QED
  BY <1>1 DEF ScansGrow

\* and so does every step that touches neither disk nor database.
LEMMA OriginLeft ==
  ASSUME OriginInv, UNCHANGED <<disk, graphVars>>
  PROVE  OriginInv'
<1>1. UNCHANGED <<disk, db, begun, export>>
  BY DEF graphVars
<1>2. SourceInv'
  BY <1>1, SourceLeft DEF OriginInv
<1>3. \A scan \in DOMAIN disk' : Traceable(disk'[scan])
  BY <1>1 DEF OriginInv
<1> QED
  BY <1>2, <1>3 DEF OriginInv, Traceable

\* What the database is from does not change behind the requests.
LEMMA NextKeepsOrigin ==
  DatabaseInv /\ OriginInv /\ [Next]_vars => OriginInv'
<1> SUFFICES ASSUME DatabaseInv, OriginInv, [Next]_vars PROVE OriginInv'
  OBVIOUS
<1>1. CASE \E scan \in DOMAIN cloud : RunScan(scan)
  BY <1>1, RunScanKeepsOrigin
<1>2. CASE \E e \in Exporters : ExportStep(e)
  <2>1. PICK e \in Exporters : ExportStep(e)
    BY <1>2
  <2>2. SourceInv'
    BY <2>1, NamesAssumption, ExportStepKeepsSource DEF DatabaseInv, OriginInv
  <2>3. disk' = disk
    BY <2>1, ExportGrows
  <2>4. \A scan \in DOMAIN disk' : Traceable(disk'[scan])
    BY <2>3 DEF OriginInv
  <2> QED
    BY <2>2, <2>4 DEF OriginInv, Traceable
<1>3. CASE UNCHANGED <<disk, graphVars>>
  BY <1>3, OriginLeft
<1>4. CASE UNCHANGED vars
  BY <1>4, OriginLeft DEF vars
<1> QED
  BY <1>1, <1>2, <1>3, <1>4 DEF Next
\* What the requests have read stays true, whoever asks and whatever runs meanwhile.
LEMMA NextKeepsWalk ==
  DatabaseInv /\ OriginInv /\ AnswerInv /\ WalkInv /\ [Next]_vars => WalkInv'
<1> SUFFICES ASSUME DatabaseInv, OriginInv, AnswerInv, WalkInv, [Next]_vars PROVE WalkInv'
  OBVIOUS
<1>1. /\ ExportInv /\ SourceInv /\ \A scan \in DOMAIN disk : Traceable(disk[scan])
  BY DEF DatabaseInv, OriginInv
<1>2. ASSUME UNCHANGED <<disk, graphVars>> PROVE Reading /\ ScansGrow
  BY <1>2, ReadingGrows DEF Reading, graphVars
<1>3. ASSUME NEW req, UNCHANGED <<disk, graphVars>>, Serve(req) PROVE WalkInv'
  BY <1>1, <1>2, <1>3, ServeIsSound
<1>4. ASSUME UNCHANGED <<disk, graphVars>>, answer' = NoAnswer, UNCHANGED reader PROVE WalkInv'
  BY <1>1, <1>2, <1>4, SentIsSound
<1>5. ASSUME UNCHANGED <<disk, graphVars>>, UNCHANGED <<reader, answer>> PROVE WalkInv'
  BY <1>1, <1>2, <1>5, WalkStays
<1>6. CASE \E scan \in DOMAIN cloud : RunScan(scan)
  <2>1. PICK scan \in DOMAIN cloud : RunScan(scan)
    BY <1>6
  <2>2. UNCHANGED <<reader, answer>>
    BY <2>1 DEF RunScan, blastVars
  <2>3. ScansGrow
    BY <2>1, RunScanGrows
  <2> QED
    BY <1>1, <2>2, <2>3, WalkStays
<1>7. CASE (\E e \in Exporters : ExportStep(e)) /\ UNCHANGED blastVars
  <2>1. ScansGrow
    BY <1>7, ExportGrows
  <2>2. UNCHANGED <<reader, answer>>
    BY <1>7 DEF blastVars
  <2> QED
    BY <1>1, <2>1, <2>2, WalkStays
<1>8. CASE BlastStep
  BY <1>1, <1>8, BlastStepIsSound
<1>9. CASE (\E req \in client.requests : Ask(req)) /\ UNCHANGED <<disk, graphVars>>
  BY <1>3, <1>9 DEF Ask
<1>10. CASE /\ RetrievalStep \/ \E q \in client.questions : Execute(q)
            /\ UNCHANGED <<disk, graphVars>>
  <2>1. \/ Compose \/ ComposeBlast
        \/ UNCHANGED blastVars
    BY <1>10 DEF RetrievalStep, RetrieveFindingContext, CountNeighbors, RetrievalFails, Reply, Execute
  <2>2. CASE Compose
    <3>1. (\E req : Serve(req)) \/ UNCHANGED <<reader, answer>>
      BY <2>2 DEF Compose
    <3> QED
      BY <1>3, <1>5, <1>10, <3>1
  <2>3. CASE ComposeBlast
    BY <1>4, <1>10, <2>3 DEF ComposeBlast
  <2>4. CASE UNCHANGED blastVars
    BY <1>5, <1>10, <2>4 DEF blastVars
  <2> QED
    BY <2>1, <2>2, <2>3, <2>4
<1>11. CASE AlertStep /\ UNCHANGED <<disk, graphVars>>
  <2>1. CASE \E c \in client.catalogs : PutRoutingCatalog(c)
    BY <1>5, <1>11, <2>1 DEF PutRoutingCatalog, blastVars
  <2>2. CASE \E rule \in client.rules, scan \in DOMAIN disk : EvaluateRule(rule, scan)
    <3>1. (\E req : Serve(req)) \/ UNCHANGED <<reader, answer>>
      BY <2>2 DEF EvaluateRule
    <3> QED
      BY <1>3, <1>5, <1>11, <3>1
  <2>3. CASE Notify
    BY <1>4, <1>11, <2>3 DEF Notify
  <2> QED
    BY <1>11, <2>1, <2>2, <2>3 DEF AlertStep
<1>12. CASE UNCHANGED <<disk, graphVars, blastVars>>
  BY <1>5, <1>12 DEF blastVars
<1>13. CASE UNCHANGED vars
  BY <1>5, <1>13 DEF vars, blastVars
<1> QED
  BY <1>6, <1>7, <1>8, <1>9, <1>10, <1>11, <1>12, <1>13 DEF Next

\* In every reachable state what a request has drawn of a scan that is whole in
\* the database is what the resources it has expanded reach, and what it answers
\* is what all of them reach.
THEOREM WalkKept ==
  Spec => [](OriginInv /\ WalkInv)
<1>1. Init => WalkInv
  BY DEF Init, WalkInv
<1>2. (OriginInv /\ WalkInv) /\ DatabaseInv /\ AnswerInv /\ [Next]_vars => (OriginInv /\ WalkInv)'
  BY NextKeepsOrigin, NextKeepsWalk
<1> QED
  BY <1>1, <1>2, OriginBegins, DatabaseKept, AnswerKept, PTL DEF Spec

\* internal/blastradius: whatever exports, scans, failures and other requests
\* run meanwhile, an answer about a scan that was in the database as a whole, and
\* is all that was written to it, holds exactly the relationships of the artifacts
\* within reach of the root, as long as the LIMIT of the queries leaves room for
\* them: nothing is lost between the collectors, the statements, the paths of the
\* query and the merging of several answers, for every scan and every bound.
THEOREM BlastCoversScanHolds ==
  Spec => []BlastCoversScan
<1>1. WalkInv => BlastCoversScan
  <2> SUFFICES ASSUME WalkInv, Undisturbed
               PROVE  {e \in answer.graph.edges : e.type # "AFFECTS"} = Expected(answer.req)
    BY DEF BlastCoversScan
  <2>1. AnswerSound(answer) /\ answer.summary.available
    BY DEF WalkInv, Undisturbed, HasGraph
  <2>2. Whole(answer.req, answer.settled)
    BY DEF Undisturbed, Whole, Limit, Attack
  <2> QED
    BY <2>1, <2>2 DEF AnswerSound, Drawn
<1> QED
  BY <1>1, WalkKept, PTL

\* internal/blastradius/service.go: connecting the database never makes a finding
\* milder.  What its evidence alone makes an escalation, the answer from the graph
\* calls one too, in both modes and for every bound of the walk: the trust of a
\* principal outside begins at the resource of the finding, where the walk does.
THEOREM EscalationSurvivesExportHolds ==
  Spec => []EscalationSurvivesExport
<1>1. DatabaseInv /\ OriginInv /\ WalkInv => EscalationSurvivesExport
  <2> SUFFICES ASSUME DatabaseInv, OriginInv, WalkInv, Undisturbed, answer.req.kind = "finding",
                      Fallback(answer.req, None).escalation
               PROVE  answer.summary.escalation
    BY DEF EscalationSurvivesExport
  <2> PICK req : req = answer.req
    OBVIOUS
  <2> PICK graph : graph = answer.graph
    OBVIOUS
  <2>1. AnswerSound(answer) /\ answer.summary.available
    BY DEF WalkInv, Undisturbed, HasGraph
  <2>2. Whole(req, answer.settled)
    BY DEF Undisturbed, Whole, Limit, Attack
  <2>3. /\ Grounded(req) /\ Drawn(graph) = Expected(req)
        /\ answer.summary.escalation = escalationPossibleFromSignals(graph, SignalsOf(req))
    BY <2>1, <2>2 DEF AnswerSound
  <2>4. req.scan \in DOMAIN disk
    BY <2>2 DEF Whole, DatabaseInv, ExportInv
  <2>5. Traceable(disk[req.scan])
    BY <2>4 DEF OriginInv
  <2>6. escalationPossibleFromSignals(graph, SignalsOf(req))
    BY <2>3, <2>5, EscalationSurvives
  <2> QED
    BY <2>3, <2>6
<1> QED
  BY <1>1, DatabaseKept, WalkKept, PTL

\* Of all that runs, only the steps of a request and what makes room for the
\* next one change the answer.
LEMMA NextShowsNew ==
  OriginInv /\ ExpansionIsNew /\ [Next]_vars => ExpansionIsNew'
<1> SUFFICES ASSUME OriginInv, ExpansionIsNew, [Next]_vars PROVE ExpansionIsNew'
  OBVIOUS
<1>1. CASE UNCHANGED answer
  BY <1>1, ExpansionLeft
<1>2. CASE answer' = NoAnswer
  BY <1>2, NothingShown DEF NothingNew
<1>3. CASE \E req : Serve(req)
  BY <1>3, ServeShowsNothing
<1>4. CASE BlastStep
  BY <1>4, BlastStepShowsNew DEF OriginInv, SourceInv
<1>5. CASE RetrievalStep \/ \E q \in client.questions : Execute(q)
  <2>1. \/ \E req : Serve(req)
        \/ answer' = NoAnswer \/ UNCHANGED answer
    BY <1>5 DEF RetrievalStep, Compose, ComposeBlast, RetrieveFindingContext, CountNeighbors,
                RetrievalFails, Reply, Execute, blastVars
  <2> QED
    BY <1>1, <1>2, <1>3, <2>1
<1>6. CASE AlertStep
  <2>1. \/ \E req : Serve(req)
        \/ answer' = NoAnswer \/ UNCHANGED answer
    BY <1>6 DEF AlertStep, PutRoutingCatalog, EvaluateRule, Notify, blastVars
  <2> QED
    BY <1>1, <1>2, <1>3, <2>1
<1>7. CASE \E req \in client.requests : Ask(req)
  BY <1>3, <1>7 DEF Ask
<1>8. CASE UNCHANGED blastVars \/ UNCHANGED vars
  BY <1>1, <1>8 DEF vars, blastVars
<1>9. CASE \E scan \in DOMAIN cloud : RunScan(scan)
  BY <1>8, <1>9 DEF RunScan
<1> QED
  BY <1>4, <1>5, <1>6, <1>7, <1>8, <1>9 DEF Next

\* internal/blastradius/expand.go: whatever is written to the database between the
\* graph on the screen and the hop that is added to it, no node and no edge comes
\* twice, every new edge touches the node it was asked for and has both its ends
\* on the screen, and no two of them lead to the same neighbour.
THEOREM ExpansionIsNewHolds ==
  Spec => []ExpansionIsNew
<1>1. Init => ExpansionIsNew
  BY DEF Init, ExpansionIsNew
<1> QED
  BY <1>1, NextShowsNew, WalkKept, PTL DEF Spec

-----------------------------------------------------------------------------
(* What is exported, and what is answered.                                 *)

\* Whatever exporters do together, fail to do or leave half done when they die,
\* and whatever is asked meanwhile: no edge, capture or effect is without its
\* ends, only scans on disk are written and projected, and every answer is a
\* graph whose relationships have both their ends.
THEOREM DashboardTypeCorrect ==
  Spec => []TypeOK
<1>1. DatabaseInv /\ AnswerInv => TypeOK
  <2> SUFFICES ASSUME DatabaseInv, AnswerInv PROVE TypeOK
    OBVIOUS
  <2>1. /\ DOMAIN lost \subseteq DOMAIN disk \cap DOMAIN cloud
        /\ written \subseteq begun /\ begun \subseteq DOMAIN disk /\ projections \subseteq begun
    BY DEF DatabaseInv, ExportInv
  <2>2. DbSound(db)
    BY DEF DatabaseInv, ExportInv
  <2>3. answer # NoAnswer =>
          /\ EndsOf(answer.graph.edges) \subseteq DOMAIN answer.graph.nodes
          /\ \A id \in DOMAIN answer.graph.nodes :
               answer.graph.nodes[id].kind \in {"account", "asset", "finding"}
    BY DEF AnswerInv, GraphSound, Kinds
  <2> QED
    BY <2>1, <2>2, <2>3 DEF TypeOK, DbSound
<1> QED
  BY <1>1, DatabaseKept, AnswerKept, PTL

\* internal/graph/writer.go: once an export has run its last statement, the
\* scan can be traversed for good, for every number of exporters, scans and
\* artifacts; the deaths, failures and deadlines of other exports take nothing
\* away, and neither does a second export of the same scan.
THEOREM ExportedScanIsTraversableHolds ==
  Spec => []ExportedScanIsTraversable
<1>1. DatabaseInv => ExportedScanIsTraversable
  BY DEF DatabaseInv, ExportInv, ExportedScanIsTraversable, Traversable, ArnsOf
<1> QED
  BY <1>1, DatabaseKept, PTL

\* internal/graph/gds.go: a projection is in the memory of the database only
\* while an export is at work on its scan, or because its drop could not run.
THEOREM ProjectionReleasedHolds ==
  Spec => []ProjectionReleased
<1>1. DatabaseInv => ProjectionReleased
  BY DEF DatabaseInv, ExportInv
<1> QED
  BY <1>1, DatabaseKept, PTL

-----------------------------------------------------------------------------
(* The search, while exports go on.                                        *)

\* An embedding once written is there for good, whichever scan wrote it.
LEMMA EmbeddingsStay ==
  ASSUME NEW g, DbSound(g), NEW s, s.op \in MakingOps \cup TyingOps,
         s.op = "finding" => s.scan # "none", NEW h, h = Apply(g, s)
  PROVE  /\ Embedded(g) \subseteq Embedded(h)
         /\ IsFiniteSet(DOMAIN g.findings) => IsFiniteSet(DOMAIN h.findings)
<1>1. CASE s.op = "finding"
  <2> DEFINE key == s.finding.id
             v == [arn |-> s.finding.arn, account |-> s.finding.account,
                   severity |-> s.finding.severity, module |-> s.finding.module,
                   scan |-> s.scan, embedding |-> Embedding(g.findings, key, s)]
  <2>1. v.embedding = Embedding(g.findings, key, s)
    OBVIOUS
  <2>2. h = [g EXCEPT !.findings = Merge(g.findings, key, v)]
    BY <1>1 DEF Apply
  <2> HIDE DEF v
  <2>3. h.findings = Merge(g.findings, key, v)
    BY <2>2 DEF DbSound
  <2>4. /\ DOMAIN h.findings = DOMAIN g.findings \cup {key}
        /\ h.findings[key] = v
        /\ \A id \in DOMAIN g.findings \ {key} : h.findings[id] = g.findings[id]
    BY <2>3 DEF Merge, Over
  <2>5. key \in Embedded(g) => v.embedding # "none"
    BY <1>1, <2>1 DEF Embedding, Embedded
  <2>6. Embedded(g) \subseteq Embedded(h)
    BY <2>4, <2>5 DEF Embedded
  <2>7. ASSUME IsFiniteSet(DOMAIN g.findings) PROVE IsFiniteSet(DOMAIN h.findings)
    BY <2>4, <2>7, FS_AddElement
  <2> QED
    BY <2>6, <2>7
<1>2. CASE s.op # "finding"
  <2>1. h.findings = g.findings
    BY <1>2 DEF Apply, DbSound, MakingOps, TyingOps
  <2> QED
    BY <2>1 DEF Embedded
<1> QED
  BY <1>1, <1>2

\* The least of two numbers.
LEMMA MinOfTwo ==
  ASSUME NEW m \in Int, NEW n \in Int
  PROVE  Min({m, n}) = IF m <= n THEN m ELSE n
BY DEF Min

\* The greatest of two numbers.
LEMMA MaxOfTwo ==
  ASSUME NEW m \in Int, NEW n \in Int
  PROVE  Max({m, n}) = IF m >= n THEN m ELSE n
BY DEF Max

\* Whatever is asked for, at least one row and one neighbour is.
LEMMA SearchesAreBounded ==
  ASSUME NEW q, q.intent = "search" => q.topK \in Int
  PROVE  TopK(q) \in Nat \ {0} /\ Probe(q) \in Nat \ {0}
<1>1. /\ DefaultTopK \in Nat \ {0} /\ MaxTopK \in Nat \ {0} /\ QuestionTopK \in Nat \ {0}
      /\ ProbeFactor \in Nat \ {0} /\ ProbeMin \in Nat \ {0} /\ ProbeMax \in Nat \ {0}
  BY SearchAssumption
<1>2. ASSUME NEW n \in Int PROVE normalizeTopK(n) \in Nat \ {0}
  BY <1>1, MinOfTwo DEF normalizeTopK
<1>3. TopK(q) \in Nat \ {0}
  BY <1>1, <1>2 DEF TopK
<1>4. ASSUME NEW n \in Nat \ {0} PROVE vectorProbeSize(n) \in Nat \ {0}
  <2>1. n * ProbeFactor \in Nat \ {0}
    BY <1>1
  <2>2. Max({n * ProbeFactor, ProbeMin}) \in Nat \ {0}
    BY <1>1, <2>1, MaxOfTwo
  <2> QED
    BY <1>1, <2>2, MinOfTwo DEF vectorProbeSize
<1> QED
  BY <1>3, <1>4 DEF Probe

\* The rows are those of the neighbours that hang on the scan.
LEMMA RowsOfNeighbors ==
  ASSUME NEW g, NEW scan, NEW near
  PROVE  {r[1] : r \in HybridRows(g, scan, near)} = near \cap Captured(g, scan)
<1> DEFINE assets(id) == {a[2] : a \in {x \in g.affects : x[1] = id}}
           owners(arn) == {e.dst : e \in {x \in g.edges : x.src = arn /\ x.type = "OWNED_BY"}}
           orNone(S) == IF S = {} THEN {None} ELSE S
           rowsOf(id) == UNION {{<<id, arn, account>> : account \in orNone(owners(arn))} :
                                  arn \in orNone(assets(id))}
<1>1. HybridRows(g, scan, near) = UNION {rowsOf(id) : id \in near \cap Captured(g, scan)}
  BY DEF HybridRows
<1>2. ASSUME NEW id PROVE rowsOf(id) # {} /\ \A r \in rowsOf(id) : r[1] = id
  <2>1. \A S : orNone(S) # {}
    OBVIOUS
  <2> HIDE DEF orNone, assets, owners
  <2>2. PICK arn \in orNone(assets(id)) : TRUE
    BY <2>1
  <2>3. PICK account \in orNone(owners(arn)) : TRUE
    BY <2>1
  <2>4. <<id, arn, account>> \in rowsOf(id)
    BY <2>2, <2>3
  <2>5. \A r \in rowsOf(id) : r[1] = id
    OBVIOUS
  <2> QED
    BY <2>4, <2>5
<1> HIDE DEF rowsOf
<1> QED
  BY <1>1, <1>2

\* What LIMIT leaves: everything, or as many rows as it says.
LEMMA LimitLeaves ==
  ASSUME NEW rows, NEW n, NEW top \in Limited(rows, n)
  PROVE  top \subseteq rows /\ ((top = rows /\ Cardinality(rows) <= n) \/ Cardinality(top) = n)
BY DEF Limited, kSubset

\* What a search said when it ended: see RetrievalComplete.
FoundSound(q, known, found, captured) ==
  /\ ~found.saturated =>
       \/ Cardinality(found.hits) = TopK(q)
       \/ known.own \subseteq {h[1] : h \in found.hits}
  /\ found.hint = "no_vector_candidates" => known.all = {}
  /\ \A h \in found.hits : <<q.scan, h[1]>> \in captured

\* What was known when the question came is still there, and once no row was
\* found nothing of the scan was known, unless neighbours were cut off.
Searching(x, g) ==
  /\ x.known.all \subseteq Embedded(g)
  /\ x.known.own \subseteq Embedded(g) \cap Captured(g, x.q.scan)
  /\ x.phase = "count" => \/ x.known.own = {}
                          \/ Cardinality(Embedded(g)) > Probe(x.q)

SearchSound(x, g) ==
  \/ x = NoRetrieval
  \/ /\ x = [phase |-> x.phase, q |-> x.q, known |-> x.known, found |-> x.found,
             about |-> x.about]
     /\ x.phase \in {"rows", "count", "done", "compose", "graph"}
     /\ x.q.intent = "search" => x.q.topK \in Int
     /\ x.phase \in {"rows", "count"} => Searching(x, g)
     /\ x.phase \in {"done", "compose", "graph"} /\ ~x.found.failed =>
          FoundSound(x.q, x.known, x.found, g.captured)

SearchInv ==
  /\ IsFiniteSet(DOMAIN db.findings)
  /\ "none" \notin DOMAIN disk \cup DOMAIN cloud
  /\ \A q \in client.questions : q.intent = "search" => q.topK \in Int
  /\ SearchSound(retrieval, db)

\* No search is under way at the start.
LEMMA SearchBegins ==
  Init => SearchInv
<1> SUFFICES ASSUME Init PROVE SearchInv
  OBVIOUS
<1>1. PICK w \in Worlds : disk = w.disk /\ cloud = w.cloud /\ client = w.client
  BY DEF Init
<1>2. db = EmptyDb /\ retrieval = NoRetrieval
  BY DEF Init
<1>3. DOMAIN db.findings = {}
  BY <1>2 DEF EmptyDb, Empty
<1>4. IsFiniteSet(DOMAIN db.findings)
  BY <1>3, FS_EmptySet
<1>5. /\ "none" \notin DOMAIN disk \cup DOMAIN cloud
      /\ \A q \in client.questions : q.intent = "search" => q.topK \in Int
  BY <1>1, WorldsAssumption
<1> QED
  BY <1>2, <1>4, <1>5 DEF SearchInv, SearchSound

\* A database that grew, and kept its embeddings, takes nothing from a search.
LEMMA SearchUndisturbed ==
  ASSUME NEW x, NEW g, NEW h, SearchSound(x, g), Embedded(g) \subseteq Embedded(h),
         g.captured \subseteq h.captured, IsFiniteSet(DOMAIN h.findings)
  PROVE  SearchSound(x, h)
<1> SUFFICES ASSUME x # NoRetrieval PROVE SearchSound(x, h)
  BY DEF SearchSound
<1>1. ASSUME x.phase \in {"rows", "count"} PROVE Searching(x, h)
  <2>1. Searching(x, g) /\ (x.q.intent = "search" => x.q.topK \in Int)
    BY <1>1 DEF SearchSound
  <2>2. /\ x.known.all \subseteq Embedded(h)
        /\ x.known.own \subseteq Embedded(h) \cap Captured(h, x.q.scan)
    BY <2>1 DEF Searching, Captured, Embedded
  <2>3. IsFiniteSet(Embedded(h))
    BY FS_Subset DEF Embedded
  <2>4. /\ Cardinality(Embedded(g)) <= Cardinality(Embedded(h))
        /\ Cardinality(Embedded(g)) \in Nat /\ Cardinality(Embedded(h)) \in Nat
    BY <2>3, FS_Subset, FS_CardinalityType
  <2>5. Probe(x.q) \in Nat
    BY <2>1, SearchesAreBounded
  <2>6. x.phase = "count" => \/ x.known.own = {}
                             \/ Cardinality(Embedded(h)) > Probe(x.q)
    BY <2>1, <2>4, <2>5 DEF Searching
  <2> QED
    BY <2>2, <2>6 DEF Searching
<1>2. ASSUME x.phase \in {"done", "compose", "graph"}, ~x.found.failed
      PROVE  FoundSound(x.q, x.known, x.found, h.captured)
  BY <1>2 DEF SearchSound, FoundSound, NoRetrieval
<1> QED
  BY <1>1, <1>2 DEF SearchSound

\* What an export writes between the two reads of a search only adds to what
\* could have been found.
LEMMA RunStatementKeepsSearch ==
  ASSUME DatabaseInv, SearchInv, NEW e \in Exporters, RunStatement(e), UNCHANGED retrieval
  PROVE  /\ IsFiniteSet(DOMAIN db'.findings) /\ SearchSound(retrieval', db')
<1>1. DbSound(db) /\ ExporterSound(export[e], db, disk, begun) /\ begun \subseteq DOMAIN disk
  BY DEF DatabaseInv, ExportInv
<1> PICK todo : todo = export[e].todo
  OBVIOUS
<1> PICK s : s = Head(todo)
  OBVIOUS
<1>2. export[e].phase = "write" /\ db' = Apply(db, s)
  BY DEF RunStatement
<1>3. export[e].scan \in DOMAIN disk /\ Writing(todo, export[e].scan, db, disk[export[e].scan])
  BY <1>1, <1>2 DEF ExporterSound
<1>4. s \in Range(todo)
  BY <1>3, RestOfStages DEF Writing
<1>5. s.op \in MakingOps \cup TyingOps /\ (s.op = "finding" => s.scan # "none")
  BY <1>3, <1>4 DEF Writing, SearchInv
<1>6. db.captured \subseteq db'.captured
  BY <1>1, <1>2, <1>5, StatementGrows DEF Grown
<1>7. /\ Embedded(db) \subseteq Embedded(db')
      /\ IsFiniteSet(DOMAIN db'.findings)
  BY <1>1, <1>2, <1>5, EmbeddingsStay DEF SearchInv
<1>8. SearchSound(retrieval, db)
  BY DEF SearchInv
<1> QED
  BY <1>6, <1>7, <1>8, SearchUndisturbed

\* A search whose rows are sound is recorded as such.
LEMMA RetrievedIsSound ==
  ASSUME NEW hits, NEW neighbors, NEW failed, Retrieved(hits, neighbors, failed),
         NEW x, x = retrieval, x.q.intent = "search" => x.q.topK \in Int, NEW g,
         NEW found, found = [hits |-> hits, hint |-> EmptyHint(hits, neighbors),
                             saturated |-> Saturated(x.q, neighbors), failed |-> failed],
         ~failed => FoundSound(x.q, x.known, found, g.captured)
  PROVE  SearchSound(retrieval', g)
<1> PICK y : y = retrieval'
  OBVIOUS
<1>1. y = [phase |-> IF x.q.intent = "search" THEN "done" ELSE "compose",
           q |-> x.q, known |-> x.known, found |-> found, about |-> <<>>]
  BY DEF Retrieved
<1>2. /\ y = [phase |-> y.phase, q |-> y.q, known |-> y.known, found |-> y.found,
              about |-> y.about]
      /\ y.phase \in {"done", "compose"} /\ y.q = x.q /\ y.known = x.known /\ y.found = found
  BY <1>1
<1>3. found.failed = failed
  OBVIOUS
<1> QED
  BY <1>2, <1>3 DEF SearchSound

\* Rows of one moment: the neighbours are all embeddings there are, unless the
\* probe was filled, and the rows are all of them, unless as many were asked for.
LEMMA RowsReadKeepSearch ==
  ASSUME SearchInv, RetrieveFindingContext
  PROVE  SearchSound(retrieval', db)
<1> PICK x : x = retrieval
  OBVIOUS
<1>1. /\ x.phase = "rows"
      /\ SearchSound(x, db) /\ IsFiniteSet(DOMAIN db.findings)
  BY DEF RetrieveFindingContext, SearchInv
<1>2. /\ x = [phase |-> x.phase, q |-> x.q, known |-> x.known, found |-> x.found,
              about |-> x.about]
      /\ x.q.intent = "search" => x.q.topK \in Int
      /\ Searching(x, db)
  BY <1>1 DEF SearchSound, NoRetrieval
<1>3. TopK(x.q) \in Nat \ {0} /\ Probe(x.q) \in Nat \ {0}
  BY <1>2, SearchesAreBounded
<1>4. PICK near \in Neighbors(db, Probe(x.q)) :
        \/ /\ HybridRows(db, x.q.scan, near) = {}
           /\ retrieval' = [x EXCEPT !.phase = "count"]
        \/ /\ HybridRows(db, x.q.scan, near) # {}
           /\ \E hits \in TopRows(HybridRows(db, x.q.scan, near), TopK(x.q)) :
                Retrieved(hits, Cardinality(near), FALSE)
  BY DEF RetrieveFindingContext
<1> PICK rows : rows = HybridRows(db, x.q.scan, near)
  OBVIOUS
<1>5. {r[1] : r \in rows} = near \cap Captured(db, x.q.scan)
  BY RowsOfNeighbors
<1>6. /\ near \subseteq Embedded(db)
      /\ \/ near = Embedded(db) /\ Cardinality(Embedded(db)) <= Probe(x.q)
         \/ Cardinality(near) = Probe(x.q) /\ Cardinality(Embedded(db)) > Probe(x.q)
  <2>1. IsFiniteSet(Embedded(db))
    BY <1>1, FS_Subset DEF Embedded
  <2>2. Cardinality(Embedded(db)) \in Nat
    BY <2>1, FS_CardinalityType
  <2> QED
    BY <1>3, <2>2 DEF Neighbors, Limited, kSubset
<1>7. x.known.own \subseteq Embedded(db) \cap Captured(db, x.q.scan)
  BY <1>2 DEF Searching
<1>8. CASE rows = {} /\ retrieval' = [x EXCEPT !.phase = "count"]
  <2> PICK y : y = retrieval'
    OBVIOUS
  <2>1. /\ y = [phase |-> y.phase, q |-> y.q, known |-> y.known, found |-> y.found,
                about |-> y.about]
        /\ y.phase = "count" /\ y.q = x.q /\ y.known = x.known
    BY <1>2, <1>8
  <2>2. near \cap Captured(db, x.q.scan) = {}
    BY <1>5, <1>8
  <2>3. x.known.own = {} \/ Cardinality(Embedded(db)) > Probe(x.q)
    BY <1>6, <1>7, <2>2
  <2>4. Searching(y, db)
    BY <1>2, <2>1, <2>3 DEF Searching
  <2> QED
    BY <1>2, <2>1, <2>4 DEF SearchSound
<1>9. CASE /\ rows # {}
           /\ \E hits \in TopRows(rows, TopK(x.q)) : Retrieved(hits, Cardinality(near), FALSE)
  <2>1. PICK hits \in TopRows(rows, TopK(x.q)) : Retrieved(hits, Cardinality(near), FALSE)
    BY <1>9
  <2>2. /\ hits \subseteq rows
        /\ hits = rows \/ Cardinality(hits) = TopK(x.q)
    BY LimitLeaves DEF TopRows
  <2>3. hits # {}
    BY <1>3, <1>9, <2>2, FS_EmptySet
  <2> PICK found : found = [hits |-> hits, hint |-> EmptyHint(hits, Cardinality(near)),
                            saturated |-> Saturated(x.q, Cardinality(near)), failed |-> FALSE]
    OBVIOUS
  <2>4. /\ found.hits = hits /\ found.hint = EmptyHint(hits, Cardinality(near))
        /\ found.saturated = Saturated(x.q, Cardinality(near))
    OBVIOUS
  <2>5. found.hint = "none"
    BY <2>3, <2>4 DEF EmptyHint
  <2>6. ASSUME ~found.saturated
        PROVE  \/ Cardinality(hits) = TopK(x.q)
               \/ x.known.own \subseteq {h[1] : h \in hits}
    <3>1. ~Saturated(x.q, Cardinality(near))
      BY <2>4, <2>6, Zenon
    <3>2. near = Embedded(db)
      BY <1>3, <1>6, <3>1 DEF Saturated
    <3>3. x.known.own \subseteq {r[1] : r \in rows}
      BY <1>5, <1>7, <3>2
    <3> QED
      BY <2>2, <3>3
  <2>7. \A h \in hits : <<x.q.scan, h[1]>> \in db.captured
    <3>1. \A r \in rows : r[1] \in Captured(db, x.q.scan)
      BY <1>5
    <3> QED
      BY <2>2, <3>1 DEF Captured
  <2>8. FoundSound(x.q, x.known, found, db.captured)
    BY <2>4, <2>5, <2>6, <2>7 DEF FoundSound
  <2> QED
    BY <1>2, <2>1, <2>8, RetrievedIsSound
<1> QED
  BY <1>4, <1>8, <1>9

\* The neighbours are counted later, in a database that may have grown: fewer
\* than the probe now were fewer than the probe when no row was found.
LEMMA CountKeepsSearch ==
  ASSUME SearchInv, CountNeighbors
  PROVE  SearchSound(retrieval', db)
<1> PICK x : x = retrieval
  OBVIOUS
<1>1. /\ x.phase = "count" /\ IsFiniteSet(Embedded(db)) /\ SearchSound(x, db)
      /\ Retrieved({}, Min({Probe(x.q), Cardinality(Embedded(db))}), FALSE)
  BY FS_Subset DEF CountNeighbors, SearchInv, Embedded
<1>2. /\ x.q.intent = "search" => x.q.topK \in Int
      /\ x.known.all \subseteq Embedded(db)
      /\ x.known.own = {} \/ Cardinality(Embedded(db)) > Probe(x.q)
  BY <1>1 DEF SearchSound, Searching, NoRetrieval
<1>3. Probe(x.q) \in Nat \ {0} /\ Cardinality(Embedded(db)) \in Nat
  BY <1>1, <1>2, SearchesAreBounded, FS_CardinalityType
<1> PICK n : n = Min({Probe(x.q), Cardinality(Embedded(db))})
  OBVIOUS
<1>4. n = IF Probe(x.q) <= Cardinality(Embedded(db)) THEN Probe(x.q) ELSE Cardinality(Embedded(db))
  BY <1>3, MinOfTwo
<1> PICK found : found = [hits |-> {}, hint |-> EmptyHint({}, n),
                          saturated |-> Saturated(x.q, n), failed |-> FALSE]
  OBVIOUS
<1>5. /\ found.hits = {} /\ found.hint = EmptyHint({}, n)
      /\ found.saturated = Saturated(x.q, n)
  OBVIOUS
<1>6. ASSUME ~found.saturated PROVE x.known.own \subseteq {h[1] : h \in found.hits}
  <2>1. ~Saturated(x.q, n)
    BY <1>5, <1>6, Zenon
  <2>2. ~(Cardinality(Embedded(db)) > Probe(x.q))
    BY <1>3, <1>4, <2>1 DEF Saturated
  <2> QED
    BY <1>2, <2>2
<1>7. ASSUME found.hint = "no_vector_candidates" PROVE x.known.all = {}
  <2>1. n = 0
    BY <1>5, <1>7 DEF EmptyHint
  <2>2. Embedded(db) = {}
    BY <1>1, <1>3, <1>4, <2>1, FS_EmptySet
  <2> QED
    BY <1>2, <2>2
<1>8. FoundSound(x.q, x.known, found, db.captured)
  BY <1>5, <1>6, <1>7 DEF FoundSound
<1> QED
  BY <1>1, <1>2, <1>8, RetrievedIsSound

\* A search that fails says so.
LEMMA FailureKeepsSearch ==
  ASSUME SearchInv, RetrievalFails
  PROVE  SearchSound(retrieval', db)
<1> PICK x : x = retrieval
  OBVIOUS
<1>1. x.phase \in {"rows", "count"} /\ Retrieved({}, 0, TRUE)
  BY DEF RetrievalFails
<1>2. x.q.intent = "search" => x.q.topK \in Int
  BY <1>1 DEF SearchInv, SearchSound, NoRetrieval
<1> QED
  BY <1>1, <1>2, RetrievedIsSound

\* A search begins with what is known to be in the database then.
LEMMA AskingKeepsSearch ==
  ASSUME SearchInv, NEW q \in client.questions, Execute(q)
  PROVE  SearchSound(retrieval', db)
<1> PICK y : y = retrieval'
  OBVIOUS
<1> PICK nothing : nothing = [hits |-> {}, hint |-> "none", saturated |-> FALSE, failed |-> TRUE]
  OBVIOUS
<1>1. PICK phase \in {"rows", "done", "compose"} :
        y = [phase |-> phase, q |-> q, known |-> Known(q.scan), found |-> nothing,
             about |-> <<>>]
  BY DEF Execute
<1>2. /\ y = [phase |-> y.phase, q |-> y.q, known |-> y.known, found |-> y.found,
              about |-> y.about]
      /\ y.phase \in {"rows", "done", "compose"} /\ y.q = q /\ y.known = Known(q.scan)
      /\ y.found = nothing
  BY <1>1
<1>3. nothing.failed
  OBVIOUS
<1>4. Searching(y, db)
  BY <1>2 DEF Searching, Known
<1>5. q.intent = "search" => q.topK \in Int
  BY DEF SearchInv
<1> QED
  BY <1>2, <1>3, <1>4, <1>5 DEF SearchSound

\* Making an answer of what was found leaves it as it is.
LEMMA ComposingKeepsSearch ==
  ASSUME SearchInv, Compose \/ ComposeBlast
  PROVE  SearchSound(retrieval', db)
<1> PICK x : x = retrieval
  OBVIOUS
<1> PICK y : y = retrieval'
  OBVIOUS
<1>1. x.phase \in {"compose", "graph"}
  BY DEF Compose, ComposeBlast
<1>2. PICK phase \in {"done", "graph"}, about \in {y.about} :
        \/ y = [x EXCEPT !.phase = phase, !.about = about]
        \/ y = [x EXCEPT !.phase = phase]
  <2>1. CASE Compose
    <3>1. PICK about : \/ y = [x EXCEPT !.phase = "done", !.about = about]
                       \/ y = [x EXCEPT !.phase = "graph", !.about = about]
      BY <2>1 DEF Compose
    <3>2. x = [phase |-> x.phase, q |-> x.q, known |-> x.known, found |-> x.found,
               about |-> x.about]
      BY <1>1 DEF SearchInv, SearchSound, NoRetrieval
    <3>3. y.about = about
      BY <3>1, <3>2
    <3> QED
      BY <3>1, <3>3
  <2>2. CASE ComposeBlast
    BY <2>2 DEF ComposeBlast
  <2> QED
    BY <2>1, <2>2
<1>3. /\ x = [phase |-> x.phase, q |-> x.q, known |-> x.known, found |-> x.found,
              about |-> x.about]
      /\ x.q.intent = "search" => x.q.topK \in Int
      /\ ~x.found.failed => FoundSound(x.q, x.known, x.found, db.captured)
  BY <1>1 DEF SearchInv, SearchSound, NoRetrieval
<1>4. /\ y = [phase |-> y.phase, q |-> y.q, known |-> y.known, found |-> y.found,
              about |-> y.about]
      /\ y.phase = phase /\ y.q = x.q /\ y.known = x.known /\ y.found = x.found
  BY <1>2, <1>3
<1> QED
  BY <1>3, <1>4 DEF SearchSound

\* The invariant of the search is inductive.
LEMMA NextKeepsSearch ==
  DatabaseInv /\ SearchInv /\ [Next]_vars => SearchInv'
<1> SUFFICES ASSUME DatabaseInv, SearchInv, [Next]_vars PROVE SearchInv'
  OBVIOUS
<1>1. /\ "none" \notin DOMAIN disk \cup DOMAIN cloud
      /\ \A q \in client.questions : q.intent = "search" => q.topK \in Int
      /\ IsFiniteSet(DOMAIN db.findings) /\ SearchSound(retrieval, db)
  BY DEF SearchInv
<1>2. CASE UNCHANGED <<disk, db, cloud, client, retrieval>>
  BY <1>2 DEF SearchInv
<1>3. CASE (\E scan \in DOMAIN cloud : RunScan(scan))
  <2>1. PICK scan \in DOMAIN cloud : RunScan(scan)
    BY <1>3
  <2>2. PICK art : disk' = Merge(disk, scan, art)
    BY <2>1 DEF RunScan
  <2>3. DOMAIN disk' = DOMAIN disk \cup {scan}
    BY <2>2, MergeAdds
  <2>4. UNCHANGED <<db, cloud, client, retrieval>>
    BY <2>1 DEF RunScan, graphVars
  <2> QED
    BY <1>1, <2>3, <2>4 DEF SearchInv
<1>4. CASE (\E e \in Exporters : ExportStep(e)) /\ UNCHANGED <<retrieval, scanVars, client>>
  <2>1. PICK e \in Exporters : ExportStep(e)
    BY <1>4
  <2>2. disk' = disk /\ (RunStatement(e) \/ db' = db)
    BY <2>1 DEF ExportStep, BeginWrite, RunStatement, WriteFails, DropStale, Project, Analyse,
                Release, Deadline, ExporterDies
  <2>3. CASE RunStatement(e)
    <3>1. IsFiniteSet(DOMAIN db'.findings) /\ SearchSound(retrieval', db')
      BY <1>4, <2>3, RunStatementKeepsSearch
    <3> QED
      BY <1>1, <1>4, <2>2, <3>1 DEF SearchInv, scanVars
  <2> QED
    BY <1>2, <1>4, <2>2, <2>3 DEF scanVars
<1>5. CASE /\ RetrievalStep \/ \E q \in client.questions : Execute(q)
           /\ UNCHANGED <<disk, graphVars, scanVars, client>>
  <2>1. SearchSound(retrieval', db)
    <3>1. CASE RetrieveFindingContext
      BY <3>1, RowsReadKeepSearch
    <3>2. CASE CountNeighbors
      BY <3>2, CountKeepsSearch
    <3>3. CASE RetrievalFails
      BY <3>3, FailureKeepsSearch
    <3>4. CASE Compose \/ ComposeBlast
      BY <3>4, ComposingKeepsSearch
    <3>5. CASE Reply
      BY <3>5 DEF Reply, SearchSound
    <3>6. CASE \E q \in client.questions : Execute(q)
      BY <3>6, AskingKeepsSearch
    <3> QED
      BY <1>5, <3>1, <3>2, <3>3, <3>4, <3>5, <3>6 DEF RetrievalStep
  <2> QED
    BY <1>1, <1>5, <2>1 DEF SearchInv, graphVars, scanVars
<1>6. CASE UNCHANGED vars
  BY <1>2, <1>6 DEF vars, graphVars, scanVars
<1> QED
  BY <1>2, <1>3, <1>4, <1>5, <1>6 DEF Next, graphVars, scanVars

\* internal/graph/rag.go: a search that does not say it was cut short has a row
\* for every finding of the scan that was exported with an embedding before the
\* question came, or as many rows as were asked for, and when it says that no
\* scan had a candidate, none had; exports go on between its two reads, write
\* embeddings, and never take one away.
THEOREM RetrievalCompleteHolds ==
  Spec => []RetrievalComplete
<1>1. SearchInv => RetrievalComplete
  <2> SUFFICES ASSUME SearchInv, retrieval.phase \in {"done", "compose", "graph"},
                      ~retrieval.found.failed
               PROVE  FoundSound(retrieval.q, retrieval.known, retrieval.found, db.captured)
    BY DEF RetrievalComplete, FoundSound
  <2> QED
    BY DEF SearchInv, SearchSound, NoRetrieval
<1>2. Spec => []SearchInv
  BY SearchBegins, NextKeepsSearch, DatabaseKept, PTL DEF Spec
<1> QED
  BY <1>1, <1>2, PTL

-----------------------------------------------------------------------------
(* Alert rules.                                                            *)

\* Only rules of the types there are are evaluated.  A rule that waits for the
\* graph is the only one the graph is asked for, and gets its answer.
RuleInv ==
  /\ \A req \in client.requests : req.asker = "client"
  /\ \A rule \in client.rules : rule.type \in RuleTypes /\ IsSequence(rule.accounts)
  /\ reader = NoReader \/ answer = NoAnswer
  /\ reader # NoReader /\ reader.req.asker = "rule" => alert.phase = "blast"
  /\ answer # NoAnswer /\ answer.req.asker = "rule" => alert.phase = "blast"

\* Who asks is who is answered.
LEMMA ServedForItself ==
  ASSUME Free, NEW req, Serve(req)
  PROVE  \/ reader' = NoReader /\ answer'.req = req
         \/ reader'.req = req /\ answer' = NoAnswer
<1>1. reader = NoReader /\ answer = NoAnswer
  BY DEF Free
<1>2. \/ \E settled, summary : AnswerWithout(req, settled, summary)
      \/ \E settled, arns : Read(req, settled, arns)
      \/ /\ reader' = [phase |-> "context", req |-> req, settled |-> req.scan \in written,
                       todo |-> <<>>, focus |-> None, graph |-> NoGraph]
         /\ UNCHANGED answer
  BY DEF Serve
<1>3. CASE \E settled, summary : AnswerWithout(req, settled, summary)
  BY <1>3 DEF AnswerWithout, Answer
<1>4. CASE \E settled, arns : Read(req, settled, arns)
  BY <1>1, <1>4 DEF Read
<1>5. CASE /\ reader' = [phase |-> "context", req |-> req, settled |-> req.scan \in written,
                         todo |-> <<>>, focus |-> None, graph |-> NoGraph]
           /\ UNCHANGED answer
  BY <1>1, <1>5
<1> QED
  BY <1>2, <1>3, <1>4, <1>5

\* A reader goes on for the request it reads for, or answers it.
LEMMA ReadForItself ==
  ASSUME reader # NoReader, answer = NoAnswer, AnswerInv,
         ReadContext \/ ReadExpand \/ ReadHop \/ ReadFails
  PROVE  \/ reader' = NoReader /\ answer'.req = reader.req
         \/ reader'.req = reader.req /\ answer' = NoAnswer
<1> PICK req : req = reader.req
  OBVIOUS
<1>1. \/ \E settled, summary, graph, payload, delta :
           Answer(req, settled, summary, graph, payload, delta)
      \/ \E settled, arns : Read(req, settled, arns)
      \/ \E phase, graph, todo : /\ reader' = [reader EXCEPT !.phase = phase, !.graph = graph,
                                                             !.todo = todo]
                                 /\ UNCHANGED answer
      \/ \E graph, todo : /\ reader' = [reader EXCEPT !.graph = graph, !.todo = todo]
                          /\ UNCHANGED answer
  <2>1. CASE ReadContext
    BY <2>1 DEF ReadContext, AnswerWithout
  <2>2. CASE ReadExpand
    <3>1. PICK graph : \/ /\ reader' = [reader EXCEPT !.graph = graph, !.todo = Tail(reader.todo)]
                          /\ UNCHANGED answer
                       \/ Complete(graph)
      BY <2>2 DEF ReadExpand
    <3>2. CASE Complete(graph)
      BY <3>2 DEF Complete
    <3> QED
      BY <3>1, <3>2
  <2>3. CASE ReadHop
    BY <2>3 DEF ReadHop
  <2>4. CASE ReadFails
    BY <2>4 DEF ReadFails, AnswerWithout
  <2> QED
    BY <2>1, <2>2, <2>3, <2>4
<1>2. CASE \E settled, summary, graph, payload, delta :
             Answer(req, settled, summary, graph, payload, delta)
  BY <1>2 DEF Answer
<1>3. CASE \E settled, arns : Read(req, settled, arns)
  BY <1>3 DEF Read
<1>4. reader = [phase |-> reader.phase, req |-> reader.req, settled |-> reader.settled,
                todo |-> reader.todo, focus |-> reader.focus, graph |-> reader.graph]
  BY DEF AnswerInv
<1>5. CASE \/ \E phase, graph, todo : /\ reader' = [reader EXCEPT !.phase = phase, !.graph = graph,
                                                                  !.todo = todo]
                                      /\ UNCHANGED answer
           \/ \E graph, todo : /\ reader' = [reader EXCEPT !.graph = graph, !.todo = todo]
                               /\ UNCHANGED answer
  BY <1>4, <1>5
<1> QED
  BY <1>1, <1>2, <1>3, <1>5

\* No rule waits for the graph at the start.
LEMMA RuleBegins ==
  Init => RuleInv
<1> SUFFICES ASSUME Init PROVE RuleInv
  OBVIOUS
<1>1. PICK w \in Worlds : client = w.client
  BY DEF Init
<1>2. /\ \A req \in client.requests : req.asker = "client"
      /\ \A rule \in client.rules : rule.type \in RuleTypes /\ IsSequence(rule.accounts)
  BY <1>1, WorldsAssumption
<1>3. reader = NoReader /\ answer = NoAnswer
  BY DEF Init
<1> QED
  BY <1>2, <1>3 DEF RuleInv

\* What a question asks of the graph it asks for itself, and about its scan.
LEMMA AskedByTheQuestion ==
  ASSUME NEW q, NEW about, NEW req \in GraphQuestion(q, about)
  PROVE  /\ req.asker = "question" /\ req.scan = q.scan
         /\ req.kind \in {"finding", "principal", "entity"}
<1> DEFINE ask(kind, id) == [BlastOf("question", q.scan, id, q.mode) EXCEPT
                               !.kind = kind, !.entity = q.entity]
           first == {ask("finding", f.id) : f \in {x \in about : \A y \in about :
                                                     riskScore(x) >= riskScore(y)}}
           ranked == {[r EXCEPT !.mode = "blast_radius"] : r \in first}
           asking(r) == /\ r.asker = "question" /\ r.scan = q.scan
                        /\ r.kind \in {"finding", "principal", "entity"}
<1>1. \A kind \in {"finding", "principal", "entity"} : \A id : asking(ask(kind, id))
  BY DEF BlastOf
<1>2. \A r \in first : asking(r)
  BY <1>1
<1>3. \A r \in ranked : asking(r)
  <2>1. ASSUME NEW r \in first PROVE asking([r EXCEPT !.mode = "blast_radius"])
    <3>1. PICK f : r = ask("finding", f.id)
      OBVIOUS
    <3> QED
      BY <3>1 DEF BlastOf
  <2> QED
    BY <2>1
<1>4. \/ req \in first \cup ranked
      \/ \E kind \in {"finding", "principal", "entity"} : \E id : req = ask(kind, id)
  <2> DEFINE asked == IF q.finding # None THEN {ask("finding", q.finding)}
                      ELSE IF q.principal # None THEN {ask("principal", q.principal)}
                      ELSE IF q.entity # <<>> THEN {ask("entity", "entity")} ELSE first
  <2>1. GraphQuestion(q, about) \in {asked, ranked, {}}
    BY DEF GraphQuestion
  <2> HIDE DEF first, ranked
  <2>2. req \in asked =>
          \/ req \in first
          \/ \E kind \in {"finding", "principal", "entity"} : \E id : req = ask(kind, id)
    BY Zenon
  <2> QED
    BY <2>1, <2>2
<1>5. asking(req)
  <2> HIDE DEF ask, first, ranked, asking
  <2> QED
    BY <1>1, <1>2, <1>3, <1>4
<1> QED
  BY <1>5

\* The invariant of the rules is inductive.
LEMMA NextKeepsRules ==
  AnswerInv /\ RuleInv /\ [Next]_vars => RuleInv'
<1> SUFFICES ASSUME AnswerInv, RuleInv, [Next]_vars PROVE RuleInv'
  OBVIOUS
<1>1. client' = client
  BY DEF Next, vars, AlertStep, ViewStep, RunScan
<1>2. CASE UNCHANGED <<reader, answer, alert>>
  BY <1>1, <1>2 DEF RuleInv
<1>3. ASSUME reader # NoReader, UNCHANGED alert,
             \/ reader' = NoReader /\ answer'.req = reader.req
             \/ reader'.req = reader.req /\ answer' = NoAnswer
      PROVE  RuleInv'
  BY <1>1, <1>3 DEF RuleInv
<1>4. ASSUME NEW req, req.asker # "rule" \/ alert'.phase = "blast",
             \/ reader' = NoReader /\ answer'.req = req
             \/ reader'.req = req /\ answer' = NoAnswer
      PROVE  RuleInv'
  BY <1>1, <1>4 DEF RuleInv
<1>5. ASSUME answer # NoAnswer, answer' = NoAnswer, UNCHANGED reader
      PROVE  RuleInv'
  BY <1>1, <1>5 DEF RuleInv
<1>6. CASE /\ BlastStep \/ \E req \in client.requests : Ask(req)
           /\ UNCHANGED ruleVars
  <2>1. CASE ReadContext \/ ReadExpand \/ ReadHop \/ ReadFails
    <3>1. reader # NoReader
      <4>1. reader.phase \in {"context", "expand", "hop"}
        BY <2>1 DEF ReadContext, ReadExpand, ReadHop, ReadFails
      <4> QED
        BY <4>1 DEF NoReader
    <3>2. answer = NoAnswer
      BY <3>1 DEF RuleInv
    <3> QED
      BY <1>3, <1>6, <2>1, <3>1, <3>2, ReadForItself DEF ruleVars
  <2>2. CASE Send
    BY <1>5, <2>2 DEF Send
  <2>3. CASE \E req \in client.requests : Ask(req)
    <3>1. PICK req \in client.requests : Free /\ Serve(req)
      BY <2>3 DEF Ask
    <3>2. req.asker = "client"
      BY DEF RuleInv
    <3> QED
      BY <1>4, <3>1, <3>2, ServedForItself
  <2> QED
    BY <1>6, <2>1, <2>2, <2>3 DEF BlastStep
<1>7. CASE /\ RetrievalStep \/ \E q \in client.questions : Execute(q)
           /\ UNCHANGED ruleVars
  <2>1. CASE Compose
    <3>1. Free
      BY <2>1 DEF Compose, Free
    <3>2. \/ UNCHANGED <<reader, answer>>
          \/ \E about : \E req \in GraphQuestion(retrieval.q, about) : Serve(req)
      BY <2>1 DEF Compose
    <3>3. ASSUME NEW about, NEW req \in GraphQuestion(retrieval.q, about)
          PROVE  req.asker = "question"
      BY <3>3, AskedByTheQuestion
    <3> QED
      BY <1>2, <1>4, <1>7, <3>1, <3>2, <3>3, ServedForItself DEF ruleVars
  <2>2. CASE ComposeBlast
    BY <1>5, <2>2 DEF ComposeBlast
  <2>3. CASE UNCHANGED blastVars
    BY <1>2, <1>7, <2>3 DEF blastVars, ruleVars
  <2>4. Compose \/ ComposeBlast \/ UNCHANGED blastVars
    BY <1>7 DEF RetrievalStep, RetrieveFindingContext, CountNeighbors, RetrievalFails, Reply, Execute
  <2> QED
    BY <2>1, <2>2, <2>3, <2>4
<1>8. CASE AlertStep
  <2>1. CASE \E c \in client.catalogs : PutRoutingCatalog(c)
    BY <1>2, <2>1 DEF PutRoutingCatalog, blastVars
  <2>2. CASE \E rule \in client.rules, scan \in DOMAIN disk : EvaluateRule(rule, scan)
    <3>1. PICK rule \in client.rules, scan \in DOMAIN disk : EvaluateRule(rule, scan)
      BY <2>2
    <3>2. Free
      BY <3>1 DEF EvaluateRule
    <3>3. \/ UNCHANGED <<reader, answer>>
          \/ \E req : alert'.phase = "blast" /\ Serve(req)
      BY <3>1 DEF EvaluateRule
    <3>4. CASE UNCHANGED <<reader, answer>>
      BY <1>1, <3>2, <3>4 DEF RuleInv, Free
    <3> QED
      BY <1>4, <3>2, <3>3, <3>4, ServedForItself
  <2>3. CASE Notify
    BY <1>5, <2>3 DEF Notify
  <2> QED
    BY <1>8, <2>1, <2>2, <2>3 DEF AlertStep
<1>9. CASE \E scan \in DOMAIN cloud : RunScan(scan)
  BY <1>2, <1>9 DEF RunScan, blastVars, ruleVars
<1>10. CASE UNCHANGED vars
  BY <1>2, <1>10 DEF vars, blastVars, ruleVars
<1> QED
  BY <1>2, <1>6, <1>7, <1>8, <1>9, <1>10 DEF Next, blastVars, ruleVars

\* In every reachable state only a rule that waits for the graph has a request
\* of its own there, and gets its answer.
THEOREM RulesKept ==
  Spec => []RuleInv
<1> QED
  BY RuleBegins, NextKeepsRules, AnswerKept, PTL DEF Spec

\* The scope of a rule, as a filter: only what it keeps counts.
InScope(rule, F) == {f \in F : f.account \in ToSet(rule.accounts)}
EachInScope(rule, sets) == {InScope(rule, P) : P \in sets}

\* With accounts in its scope a rule looks at their findings only.
LEMMA ScopeIsAFilter ==
  ASSUME NEW rule, rule.accounts # <<>>, NEW F
  PROVE  FilterFindingsByAccountScope(rule, F) = InScope(rule, F)
BY DEF FilterFindingsByAccountScope, InScope

\* Of a scan out of its scope a rule says the same whatever was found.
LEMMA OutOfScope ==
  ASSUME NEW rule, NEW scan, ~RuleAppliesToScan(rule, scan)
  PROVE  \A F, G, previous, before :
           LET r == Evaluate(rule, scan, F, previous)
           IN  /\ r = Evaluate(rule, scan, G, before)
               /\ r.rule = rule /\ r.scan = scan /\ r.counted = {}
<1> TAKE F, G, previous, before
<1>1. \E lines : /\ Evaluate(rule, scan, F, previous) = NotTriggered(rule, scan, lines)
                 /\ Evaluate(rule, scan, G, before) = NotTriggered(rule, scan, lines)
  BY DEF Evaluate
<1>2. ASSUME NEW r, \E lines : r = NotTriggered(rule, scan, lines)
      PROVE  r.rule = rule /\ r.scan = scan /\ r.counted = {}
  BY <1>2 DEF NotTriggered, makeResult
<1> QED
  BY <1>1, <1>2

\* The evaluation of a rule on a scan of its scope makes one result, which the
\* hints are added to.
LEMMA EvaluatedOnce ==
  ASSUME NEW rule, rule.type \in RuleTypes, NEW scan, NEW F, NEW previous,
         RuleAppliesToScan(rule, scan)
  PROVE  \E res : /\ Evaluate(rule, scan, F, previous)
                       = [res EXCEPT !.hints = routingHints(FilterFindingsByAccountScope(rule, F))]
                  /\ \E triggered, counted, lines, target, mode :
                       res = makeResult(rule, scan, triggered, counted, lines, target, mode)
<1> DEFINE G == FilterFindingsByAccountScope(rule, F)
           eval == CASE rule.type = "scan_completion" -> evalScanCompletion(rule, scan, G, previous)
                     [] rule.type = "new_critical_findings" ->
                          evalNewCritical(rule, scan, G, previous)
                     [] rule.type = "reclaimable_findings_threshold" ->
                          evalReclaimable(rule, scan, G)
                     [] rule.type = "stale_external_privileged_roles" ->
                          evalStaleExternalPrivileged(rule, scan, G)
<1>1. Evaluate(rule, scan, F, previous) = [eval EXCEPT !.hints = routingHints(G)]
  BY DEF Evaluate
<1>2. ASSUME NEW H
      PROVE  /\ \E triggered, counted, lines, target, mode :
                   evalScanCompletion(rule, scan, H, previous)
                     = makeResult(rule, scan, triggered, counted, lines, target, mode)
             /\ \E triggered, counted, lines, target, mode :
                   evalNewCritical(rule, scan, H, previous)
                     = makeResult(rule, scan, triggered, counted, lines, target, mode)
             /\ \E triggered, counted, lines, target, mode :
                   evalReclaimable(rule, scan, H)
                     = makeResult(rule, scan, triggered, counted, lines, target, mode)
             /\ \E triggered, counted, lines, target, mode :
                   evalStaleExternalPrivileged(rule, scan, H)
                     = makeResult(rule, scan, triggered, counted, lines, target, mode)
  BY DEF evalScanCompletion, evalNewCritical, evalReclaimable, evalStaleExternalPrivileged,
         NotTriggered
<1>3. \E triggered, counted, lines, target, mode :
        eval = makeResult(rule, scan, triggered, counted, lines, target, mode)
  BY <1>2 DEF RuleTypes
<1> HIDE DEF eval
<1> QED
  BY <1>1, <1>3

\* The result of an evaluation names its rule and its scan.
LEMMA EvaluatedFor ==
  ASSUME NEW rule, rule.type \in RuleTypes, NEW scan, NEW F, NEW previous
  PROVE  /\ Evaluate(rule, scan, F, previous).rule = rule
         /\ Evaluate(rule, scan, F, previous).scan = scan
<1>1. CASE RuleAppliesToScan(rule, scan)
  BY <1>1, EvaluatedOnce DEF makeResult
<1>2. CASE ~RuleAppliesToScan(rule, scan)
  BY <1>2, OutOfScope
<1> QED
  BY <1>1, <1>2

\* What an evaluation makes of a scan is what it makes of the findings in scope
\* of that scan and of the one before it.
LEMMA EvaluatedInScope ==
  ASSUME NEW rule, rule.accounts # <<>>, rule.type \in RuleTypes, NEW scan, NEW F, NEW previous,
         NEW G, G = InScope(rule, F), NEW before, before = EachInScope(rule, previous),
         NEW r, r = Evaluate(rule, scan, F, previous),
         NEW l, l = Evaluate(rule, scan, G, before)
  PROVE  /\ r.rule = rule /\ r.scan = scan
         /\ r.triggered = l.triggered /\ r.counted = l.counted /\ r.target = l.target
         /\ r.hints = l.hints /\ r.counted \subseteq G
<1>1. FilterFindingsByAccountScope(rule, F) = G /\ FilterFindingsByAccountScope(rule, G) = G
  <2>1. InScope(rule, G) = G
    BY DEF InScope
  <2> QED
    BY <2>1, ScopeIsAFilter
<1>2. FilterFindingsByAccountScope(rule, UNION previous)
        = FilterFindingsByAccountScope(rule, UNION before)
  <2>1. \A f : f \in InScope(rule, UNION previous) <=> f \in InScope(rule, UNION before)
    BY DEF InScope, EachInScope
  <2>2. InScope(rule, UNION previous) = InScope(rule, UNION before)
    BY <2>1
  <2> QED
    BY <2>2, ScopeIsAFilter
<1>3. previous = {} <=> before = {}
  BY DEF EachInScope
<1>4. CASE ~RuleAppliesToScan(rule, scan)
  <2>1. r = l /\ r.rule = rule /\ r.scan = scan /\ r.counted = {}
    BY <1>4, OutOfScope
  <2>2. /\ r.triggered = l.triggered /\ r.counted = l.counted /\ r.target = l.target
        /\ r.hints = l.hints
    BY <2>1, Zenon
  <2>3. r.counted \subseteq G
    BY <2>1
  <2> QED
    BY <2>1, <2>2, <2>3, Zenon
<1>5. CASE RuleAppliesToScan(rule, scan)
  <2> DEFINE eval(P) ==
        CASE rule.type = "scan_completion" -> evalScanCompletion(rule, scan, G, P)
          [] rule.type = "new_critical_findings" -> evalNewCritical(rule, scan, G, P)
          [] rule.type = "reclaimable_findings_threshold" -> evalReclaimable(rule, scan, G)
          [] rule.type = "stale_external_privileged_roles" ->
               evalStaleExternalPrivileged(rule, scan, G)
  <2>1. /\ r = [eval(previous) EXCEPT !.hints = routingHints(G)]
        /\ l = [eval(before) EXCEPT !.hints = routingHints(G)]
    BY <1>1, <1>5 DEF Evaluate
  <2>2. \E triggered, counted, some, more, target, mode :
          /\ eval(previous) = makeResult(rule, scan, triggered, counted, some, target, mode)
          /\ eval(before) = makeResult(rule, scan, triggered, counted, more, target, mode)
          /\ counted \subseteq G
    <3>1. CASE rule.type = "scan_completion"
      BY <3>1 DEF evalScanCompletion
    <3>2. CASE rule.type = "new_critical_findings"
      <4>1. /\ eval(previous) = evalNewCritical(rule, scan, G, previous)
            /\ eval(before) = evalNewCritical(rule, scan, G, before)
        BY <3>2
      <4>2. CASE previous = {}
        BY <1>3, <4>1, <4>2 DEF evalNewCritical, NotTriggered
      <4>3. CASE previous # {}
        <5> DEFINE old == {diffIdentity(f) : f \in FilterFindingsByAccountScope(rule, UNION previous)}
                   new == {f \in G : f.severity = "critical" /\ diffIdentity(f) \notin old}
                   top == topFindingByPriority(new)
                   lines == << <<"new", Cardinality(new)>>, IF top = {} THEN <<>> ELSE <<"first", top>>,
                               IF top = {} THEN <<>> ELSE <<"why", top>>, topAccountBullet(new)>>
        <5>1. eval(previous) = makeResult(rule, scan, new # {}, new, lines, top, "attack_path")
          BY <4>1, <4>3 DEF evalNewCritical
        <5>2. eval(before) = makeResult(rule, scan, new # {}, new, lines, top, "attack_path")
          BY <1>2, <1>3, <4>1, <4>3 DEF evalNewCritical
        <5>3. new \subseteq G
          OBVIOUS
        <5> HIDE DEF new, top, lines, eval
        <5> QED
          BY <5>1, <5>2, <5>3
      <4> QED
        BY <4>2, <4>3
    <3>3. CASE rule.type = "reclaimable_findings_threshold"
      <4>1. /\ eval(previous) = evalReclaimable(rule, scan, G)
            /\ eval(before) = evalReclaimable(rule, scan, G)
        BY <3>3
      <4>2. \E triggered, lines, target, mode :
              evalReclaimable(rule, scan, G)
                = makeResult(rule, scan, triggered, {f \in G : Claimability(f) = "reclaimable"},
                             lines, target, mode)
        <5> DEFINE idle == {f \in G : Claimability(f) = "reclaimable"}
                   n == Cardinality(idle)
                   risk == totalMonthlyRisk(idle)
                   top == topFindingByPriority(idle)
                   triggered == \/ rule.countMin > 0 /\ n >= rule.countMin
                                \/ rule.riskMin > 0 /\ risk >= rule.riskMin
                                \/ rule.countMin = 0 /\ rule.riskMin = 0 /\ n > 0
                   lines == << <<"reclaimable", n, risk>>,
                               IF top = {} THEN <<>> ELSE <<"first", top>>,
                               IF idle = {} THEN <<>> ELSE <<"remediation">>, topAccountBullet(idle)>>
                   target == {f \in top : f.cost >= 5000}
        <5>1. evalReclaimable(rule, scan, G)
                = makeResult(rule, scan, triggered, idle, lines, target, "blast_radius")
          BY DEF evalReclaimable
        <5> HIDE DEF triggered, lines, target
        <5> QED
          BY <5>1
      <4> HIDE DEF eval
      <4> QED
        BY <4>1, <4>2
    <3>4. CASE rule.type = "stale_external_privileged_roles"
      <4>1. /\ eval(previous) = evalStaleExternalPrivileged(rule, scan, G)
            /\ eval(before) = evalStaleExternalPrivileged(rule, scan, G)
        BY <3>4
      <4>2. \E triggered, lines, target, mode :
              evalStaleExternalPrivileged(rule, scan, G)
                = makeResult(rule, scan, triggered,
                    {f \in G : /\ f.module = "external_access" /\ isStale(f)
                               /\ f.vis.class = "privileged" \/ f.vis.admin},
                    lines, target, mode)
        BY DEF evalStaleExternalPrivileged
      <4> HIDE DEF eval
      <4> QED
        BY <4>1, <4>2
    <3> QED
      BY <3>1, <3>2, <3>3, <3>4 DEF RuleTypes
  <2> HIDE DEF eval
  <2> QED
    BY <2>1, <2>2 DEF makeResult
<1> QED
  BY <1>4, <1>5

\* internal/alerting/evaluator.go and scope.go: for every rule with accounts in
\* its scope, whatever was found and whatever catalog there is, an evaluation
\* says of a scan what it would say had nothing been found in other accounts.
THEOREM ScopedAlertIsLocalHolds ==
  Spec => ScopedAlertIsLocal
<1> DEFINE Local ==
      (/\ alert.phase # "blast" /\ alert'.phase # "none"
       /\ alert'.result.rule.accounts # <<>>) =>
        LET r == alert'.result
            own(F) == {f \in F : f.account \in ToSet(r.rule.accounts)}
            local == Evaluate(r.rule, r.scan, own(disk[r.scan].findings),
                              {own(disk[s].findings) : s \in previousScanID(r.scan)})
        IN  /\ r.triggered = local.triggered /\ r.counted = local.counted
            /\ r.target = local.target /\ r.hints = local.hints
            /\ r.counted \subseteq own(disk[r.scan].findings)
<1>1. RuleInv /\ [Next]_vars => [Local]_alert
  <2> SUFFICES ASSUME RuleInv, [Next]_vars, alert' # alert, alert.phase # "blast",
                      alert'.phase # "none", alert'.result.rule.accounts # <<>>
               PROVE  Local
    BY Zenon
  <2>1. PICK rule \in client.rules, scan \in DOMAIN disk : EvaluateRule(rule, scan)
    <3>1. \/ \E rule \in client.rules, scan \in DOMAIN disk : EvaluateRule(rule, scan)
          \/ Notify \/ UNCHANGED alert
      BY DEF Next, AlertStep, PutRoutingCatalog, ruleVars, vars, RunScan
    <3>2. ~Notify
      BY DEF Notify, RuleInv
    <3> QED
      BY <3>1, <3>2
  <2> PICK r : r = EvaluateScan(rule, scan)
    OBVIOUS
  <2>2. alert'.result = r
    <3>1. \/ \E bullets : alert' = Routed(r, bullets)
          \/ alert' = [phase |-> "blast", result |-> r]
      BY <2>1 DEF EvaluateRule
    <3>2. \/ \E bullets, dest : alert' = [phase |-> "done", result |-> r, bullets |-> bullets,
                                          dest |-> dest]
          \/ alert' = [phase |-> "blast", result |-> r]
      BY <3>1 DEF Routed
    <3> QED
      BY <3>2
  <2> PICK F : F = disk[scan].findings
    OBVIOUS
  <2> PICK previous : previous = {disk[s].findings : s \in previousScanID(scan)}
    OBVIOUS
  <2> PICK G : G = InScope(rule, F)
    OBVIOUS
  <2> PICK before : before = EachInScope(rule, previous)
    OBVIOUS
  <2> PICK l : l = Evaluate(rule, scan, G, before)
    OBVIOUS
  <2>3. r = Evaluate(rule, scan, F, previous)
    BY DEF EvaluateScan
  <2>4. rule.type \in RuleTypes
    BY DEF RuleInv
  <2>5. r.rule = rule /\ r.scan = scan
    BY <2>3, <2>4, EvaluatedFor
  <2>6. rule.accounts # <<>>
    BY <2>2, <2>5
  <2>7. /\ r.triggered = l.triggered /\ r.counted = l.counted /\ r.target = l.target
        /\ r.hints = l.hints /\ r.counted \subseteq G
    BY <2>3, <2>4, <2>6, EvaluatedInScope
  <2>8. /\ G = {f \in disk[scan].findings : f.account \in ToSet(rule.accounts)}
        /\ before = {{f \in disk[s].findings : f.account \in ToSet(rule.accounts)} :
                       s \in previousScanID(scan)}
    BY DEF InScope, EachInScope
  <2> QED
    <3> DEFINE own(P) == {f \in P : f.account \in ToSet(alert'.result.rule.accounts)}
               others == {own(disk[s].findings) : s \in previousScanID(alert'.result.scan)}
    <3>1. alert'.result.rule = rule /\ alert'.result.scan = scan
      BY <2>2, <2>5
    <3>2. own(disk[alert'.result.scan].findings) = G /\ others = before
      BY <2>8, <3>1
    <3>3. Evaluate(alert'.result.rule, alert'.result.scan,
                   own(disk[alert'.result.scan].findings), others) = l
      <4> HIDE DEF own, others
      <4> QED
        BY <3>1, <3>2
    <3> QED
      BY <2>2, <2>7, <3>2, <3>3, Zenon
<1> QED
  BY <1>1, RulesKept, PTL DEF Spec, ScopedAlertIsLocal

-----------------------------------------------------------------------------
(* The attack paths that are offered.                                      *)

\* One id, one resource: in the artifacts there are, and in those there may be.
IdInv == \A x, y \in AboutInAll(disk, cloud) : x[1] = y[1] => x[2] = y[2]

\* Which findings those are.
LEMMA AmongAll ==
  ASSUME NEW artifacts, NEW clouds, NEW about
  PROVE  about \in AboutInAll(artifacts, clouds) <=>
           \/ \E scan \in DOMAIN artifacts : \E f \in artifacts[scan].findings : about = <<f.id, f.arn>>
           \/ \E scan \in DOMAIN clouds : \E f \in clouds[scan].edge.findings : about = <<f.id, f.arn>>
           \/ \E k \in DOMAIN FindingId : about = <<FindingId[k], k[1]>>
<1> DEFINE here == UNION {AboutIn(artifacts[scan].findings) : scan \in DOMAIN artifacts}
           there == UNION {AboutIn(clouds[scan].edge.findings) : scan \in DOMAIN clouds}
           ids == {<<FindingId[x], x[1]>> : x \in DOMAIN FindingId}
<1>1. AboutInAll(artifacts, clouds) = here \cup there \cup ids
  BY DEF AboutInAll
<1>2. \A F : about \in AboutIn(F) <=> \E f \in F : about = <<f.id, f.arn>>
  BY DEF AboutIn
<1>3. about \in ids <=> \E k \in DOMAIN FindingId : about = <<FindingId[k], k[1]>>
  OBVIOUS
<1> HIDE DEF ids
<1>4. about \in here <=> \E scan \in DOMAIN artifacts : about \in AboutIn(artifacts[scan].findings)
  BY Zenon
<1>5. about \in there <=> \E scan \in DOMAIN clouds : about \in AboutIn(clouds[scan].edge.findings)
  BY Zenon
<1> HIDE DEF here, there
<1> QED
  BY <1>1, <1>2, <1>3, <1>4, <1>5

\* What is found is among them.
LEMMA IdsTellArns ==
  ASSUME IdInv
  PROVE  OneArn
<1>1. ASSUME NEW id, NEW arn, Found(disk, id, arn) PROVE <<id, arn>> \in AboutInAll(disk, cloud)
  <2>1. \E scan \in DOMAIN disk : \E f \in disk[scan].findings : <<id, arn>> = <<f.id, f.arn>>
    BY <1>1 DEF Found
  <2> QED
    BY <2>1, AmongAll
<1>2. ASSUME NEW id, NEW x, NEW y, Found(disk, id, x), Found(disk, id, y) PROVE x = y
  <2>1. <<id, x>> \in AboutInAll(disk, cloud) /\ <<id, y>> \in AboutInAll(disk, cloud)
    BY <1>1, <1>2
  <2> QED
    BY <2>1 DEF IdInv
<1> QED
  BY <1>2 DEF OneArn

\* A scan adds no finding that could not have been foreseen.
LEMMA RunScanKeepsIds ==
  ASSUME DatabaseInv, IdInv, NEW scan, RunScan(scan)
  PROVE  IdInv'
<1>1. scan \in DOMAIN cloud \ DOMAIN disk /\ cloud' = cloud
  BY DEF RunScan
<1>2. PICK gone : \E keep \in Keepers(RoleTrusts(cloud[scan], gone)) :
                    disk' = Merge(disk, scan, Artifacts(cloud[scan], gone, keep))
  BY DEF RunScan
<1>3. PICK keep \in Keepers(RoleTrusts(cloud[scan], gone)) :
        disk' = Merge(disk, scan, Artifacts(cloud[scan], gone, keep))
  BY <1>2
<1> PICK aws : aws = cloud[scan]
  OBVIOUS
<1> PICK art : art = Artifacts(aws, gone, keep)
  OBVIOUS
<1>4. DOMAIN disk' = DOMAIN disk \cup {scan} /\ disk'[scan] = art
      /\ \A s \in DOMAIN disk : disk'[s] = disk[s]
  BY <1>1, <1>3 DEF Merge, Over
<1>5. ASSUME NEW f \in art.findings PROVE <<f.id, f.arn>> \in AboutInAll(disk, cloud)
  <2>1. CloudSound(aws)
    BY <1>1 DEF DatabaseInv
  <2>2. art.findings = ScoreTrust(aws, gone)
                         \cup ScoreResourceExposure(CollectBucketPolicies(aws, gone).grants)
                         \cup aws.edge.findings
    BY DEF Artifacts
  <2>3. \/ \E b : <<f.arn, b>> \in DOMAIN FindingId /\ f.id = FindingId[<<f.arn, b>>]
        \/ f \in aws.edge.findings
    BY <2>1, <2>2, FindingsAreAbout DEF IsAbout
  <2>4. \/ \E k \in DOMAIN FindingId : <<f.id, f.arn>> = <<FindingId[k], k[1]>>
        \/ \E s \in DOMAIN cloud : \E x \in cloud[s].edge.findings : <<f.id, f.arn>> = <<x.id, x.arn>>
    BY <1>1, <2>3
  <2> QED
    BY <2>4, AmongAll
<1>6. ASSUME NEW x \in AboutInAll(disk', cloud) PROVE x \in AboutInAll(disk, cloud)
  <2>1. \/ \E s \in DOMAIN disk' : \E f \in disk'[s].findings : x = <<f.id, f.arn>>
        \/ \E s \in DOMAIN cloud : \E f \in cloud[s].edge.findings : x = <<f.id, f.arn>>
        \/ \E k \in DOMAIN FindingId : x = <<FindingId[k], k[1]>>
    BY <1>6, AmongAll
  <2>2. ASSUME NEW s \in DOMAIN disk', NEW f \in disk'[s].findings, x = <<f.id, f.arn>>
        PROVE  x \in AboutInAll(disk, cloud)
    <3>1. CASE s = scan
      BY <1>4, <1>5, <2>2, <3>1
    <3>2. CASE s # scan
      <4>1. \E t \in DOMAIN disk : \E y \in disk[t].findings : x = <<y.id, y.arn>>
        BY <1>4, <2>2, <3>2
      <4> QED
        BY <4>1, AmongAll
    <3> QED
      BY <3>1, <3>2
  <2> QED
    BY <2>1, <2>2, AmongAll
<1> QED
  BY <1>1, <1>6 DEF IdInv

\* What may be asked: of the scans on disk, about what the graph has.
AskingInv ==
  /\ \A req \in client.requests : req.kind \in RootKinds
  /\ retrieval # NoRetrieval => retrieval.q.scan \in DOMAIN disk

\* Where the database is from, and who asks.
FoundInv == FromScans /\ IdInv /\ AskingInv

\* It is so at the start.
LEMMA FoundBegins ==
  Init => FoundInv
<1> SUFFICES ASSUME Init PROVE FoundInv
  OBVIOUS
<1>1. PICK w \in Worlds : disk = w.disk /\ cloud = w.cloud /\ client = w.client
  BY DEF Init
<1>2. IdInv
  BY <1>1, WorldsAssumption DEF IdInv
<1>3. \A req \in client.requests : req.kind \in RootKinds
  BY <1>1, WorldsAssumption DEF RootKinds
<1>4. retrieval = NoRetrieval
  BY DEF Init
<1>5. FromScans
  <2>1. db = EmptyDb
    BY DEF Init
  <2>2. DOMAIN db.assets = {} /\ DOMAIN db.findings = {} /\ db.affects = {}
    BY <2>1 DEF EmptyDb, Empty
  <2> QED
    BY <2>2 DEF FromScans, HasOnly
<1> QED
  BY <1>2, <1>3, <1>4, <1>5 DEF FoundInv, AskingInv

\* The search goes on about its question.
LEMMA SearchForItself ==
  ASSUME SearchInv, RetrievalStep, retrieval # NoRetrieval
  PROVE  retrieval' = NoRetrieval \/ retrieval'.q = retrieval.q
<1>0. retrieval = [phase |-> retrieval.phase, q |-> retrieval.q, known |-> retrieval.known,
                   found |-> retrieval.found, about |-> retrieval.about]
  BY DEF SearchInv, SearchSound
<1>1. CASE RetrieveFindingContext
  BY <1>0, <1>1 DEF RetrieveFindingContext, Retrieved
<1>2. CASE CountNeighbors
  BY <1>2 DEF CountNeighbors, Retrieved
<1>3. CASE RetrievalFails
  BY <1>3 DEF RetrievalFails, Retrieved
<1>4. CASE Compose
  BY <1>0, <1>4 DEF Compose
<1>5. CASE ComposeBlast
  BY <1>0, <1>5 DEF ComposeBlast
<1>6. CASE Reply
  BY <1>6 DEF Reply
<1> QED
  BY <1>1, <1>2, <1>3, <1>4, <1>5, <1>6 DEF RetrievalStep

\* The scans asked about stay on disk.
LEMMA AskingStays ==
  ASSUME AskingInv, ScansGrow, client' = client,
         \/ UNCHANGED retrieval
         \/ retrieval' = NoRetrieval
         \/ retrieval # NoRetrieval /\ retrieval'.q = retrieval.q
         \/ retrieval'.q.scan \in DOMAIN disk
  PROVE  AskingInv'
<1>1. DOMAIN disk \subseteq DOMAIN disk'
  BY DEF ScansGrow
<1> QED
  BY <1>1 DEF AskingInv

\* Where the database is from is kept, and who asks.
LEMMA NextKeepsFound ==
  DatabaseInv /\ OriginInv /\ SearchInv /\ FoundInv /\ [Next]_vars => FoundInv'
<1> SUFFICES ASSUME DatabaseInv, OriginInv, SearchInv, FoundInv, [Next]_vars PROVE FoundInv'
  OBVIOUS
<1>1. client' = client
  BY DEF Next, vars, AlertStep, ViewStep, RunScan
<1>2. ASSUME UNCHANGED <<disk, cloud>> PROVE IdInv'
  BY <1>2 DEF FoundInv, IdInv
<1>3. ASSUME ScansGrow, UNCHANGED retrieval PROVE AskingInv'
  BY <1>1, <1>3, AskingStays DEF FoundInv
<1>4. ASSUME UNCHANGED <<disk, graphVars>> PROVE ScansGrow /\ FromScans'
  <2>1. ScansGrow
    BY <1>4, ReadingGrows DEF Reading, graphVars
  <2>2. UNCHANGED db
    BY <1>4 DEF graphVars
  <2> QED
    BY <2>1, <2>2, ScansStay DEF FoundInv
<1>5. CASE \E scan \in DOMAIN cloud : RunScan(scan)
  <2>1. PICK scan \in DOMAIN cloud : RunScan(scan)
    BY <1>5
  <2>2. ScansGrow /\ UNCHANGED <<db, retrieval>>
    BY <2>1, RunScanGrows DEF RunScan, graphVars
  <2>3. IdInv'
    BY <2>1, RunScanKeepsIds DEF FoundInv
  <2> QED
    BY <1>3, <2>2, <2>3, ScansStay DEF FoundInv
<1>6. CASE (\E e \in Exporters : ExportStep(e)) /\ UNCHANGED <<retrieval, scanVars>>
  <2>1. PICK e \in Exporters : ExportStep(e)
    BY <1>6
  <2>2. disk' = disk /\ ScansGrow /\ cloud' = cloud
    BY <1>6, <2>1, ExportGrows DEF scanVars
  <2>3. FromScans'
    BY <2>1, <2>2, ExportStepKeepsScans DEF DatabaseInv, OriginInv, FoundInv
  <2> QED
    BY <1>2, <1>3, <1>6, <2>2, <2>3 DEF FoundInv
<1>7. CASE UNCHANGED <<disk, graphVars, retrieval, cloud>>
  BY <1>2, <1>3, <1>4, <1>7 DEF FoundInv
<1>8. CASE /\ RetrievalStep \/ \E q \in client.questions : Execute(q)
           /\ UNCHANGED <<disk, graphVars, scanVars>>
  <2>1. CASE RetrievalStep
    <3>1. retrieval # NoRetrieval
      <4>1. retrieval.phase \in {"rows", "count", "compose", "graph", "done"}
        BY <2>1 DEF RetrievalStep, RetrieveFindingContext, CountNeighbors, RetrievalFails, Compose,
                    ComposeBlast, Reply
      <4> QED
        BY <4>1 DEF NoRetrieval
    <3>2. retrieval' = NoRetrieval \/ retrieval'.q = retrieval.q
      BY <2>1, <3>1, SearchForItself
    <3>3. AskingInv'
      BY <1>1, <1>4, <1>8, <3>1, <3>2, AskingStays DEF FoundInv
    <3> QED
      BY <1>2, <1>4, <1>8, <3>3 DEF FoundInv, scanVars
  <2>2. CASE \E q \in client.questions : Execute(q)
    <3>1. PICK q : Execute(q)
      BY <2>2
    <3>2. retrieval'.q.scan \in DOMAIN disk
      BY <3>1 DEF Execute
    <3>3. AskingInv'
      BY <1>1, <1>4, <1>8, <3>2, AskingStays DEF FoundInv
    <3> QED
      BY <1>2, <1>4, <1>8, <3>3 DEF FoundInv, scanVars
  <2> QED
    BY <1>8, <2>1, <2>2
<1>9. CASE UNCHANGED vars
  BY <1>7, <1>9 DEF vars, scanVars
<1> QED
  BY <1>5, <1>6, <1>7, <1>8, <1>9 DEF Next, scanVars

\* Whoever asks, and whatever runs meanwhile, the paths on offer are kept.
LEMMA NextKeepsPaths ==
  DatabaseInv /\ OriginInv /\ AnswerInv /\ FoundInv /\ PathInv /\ [Next]_vars => PathInv'
<1> SUFFICES ASSUME DatabaseInv, OriginInv, AnswerInv, FoundInv, PathInv, [Next]_vars
             PROVE  PathInv'
  OBVIOUS
<1>1. ExportInv /\ SourceInv /\ FromScans /\ OneArn /\ AskingInv
      /\ \A scan \in DOMAIN disk : Traceable(disk[scan])
  BY IdsTellArns DEF DatabaseInv, OriginInv, FoundInv
<1>2. ASSUME UNCHANGED <<disk, graphVars>> PROVE Reading /\ ScansGrow
  BY <1>2, ReadingGrows DEF Reading, graphVars
<1>3. ASSUME NEW req, req.kind \in RootKinds, req.scan \in DOMAIN disk,
             UNCHANGED <<disk, graphVars>>, Serve(req)
      PROVE  PathInv'
  BY <1>2, <1>3, ServeOffers
<1>4. ASSUME UNCHANGED <<disk, graphVars>>, answer' = NoAnswer, UNCHANGED reader PROVE PathInv'
  BY <1>2, <1>4, NothingOffered
<1>5. ASSUME UNCHANGED <<disk, graphVars>>, UNCHANGED <<reader, answer>> PROVE PathInv'
  BY <1>2, <1>5, PathStays
<1>6. CASE \E scan \in DOMAIN cloud : RunScan(scan)
  <2>1. PICK scan \in DOMAIN cloud : RunScan(scan)
    BY <1>6
  <2>2. UNCHANGED <<reader, answer>>
    BY <2>1 DEF RunScan, blastVars
  <2>3. ScansGrow
    BY <2>1, RunScanGrows
  <2> QED
    BY <2>2, <2>3, PathStays
<1>7. CASE (\E e \in Exporters : ExportStep(e)) /\ UNCHANGED blastVars
  <2>1. ScansGrow
    BY <1>7, ExportGrows
  <2>2. UNCHANGED <<reader, answer>>
    BY <1>7 DEF blastVars
  <2> QED
    BY <2>1, <2>2, PathStays
<1>8. CASE BlastStep
  BY <1>1, <1>8, NamesAssumption, BlastStepOffers
<1>9. CASE (\E req \in client.requests : Ask(req)) /\ UNCHANGED <<disk, graphVars>>
  <2>1. PICK req \in client.requests : req.scan \in DOMAIN disk /\ Serve(req)
    BY <1>9 DEF Ask
  <2> QED
    BY <1>1, <1>3, <1>9, <2>1 DEF AskingInv
<1>10. CASE /\ RetrievalStep \/ \E q \in client.questions : Execute(q)
            /\ UNCHANGED <<disk, graphVars>>
  <2>1. \/ Compose \/ ComposeBlast
        \/ UNCHANGED blastVars
    BY <1>10 DEF RetrievalStep, RetrieveFindingContext, CountNeighbors, RetrievalFails, Reply, Execute
  <2>2. CASE Compose
    <3>1. \/ UNCHANGED <<reader, answer>>
          \/ \E about : \E req \in GraphQuestion(retrieval.q, about) : Serve(req)
      BY <2>2 DEF Compose
    <3>2. retrieval.q.scan \in DOMAIN disk
      BY <1>1, <2>2 DEF AskingInv, Compose, NoRetrieval
    <3>3. ASSUME NEW about, NEW req \in GraphQuestion(retrieval.q, about), Serve(req)
          PROVE  PathInv'
      <4>1. req.scan = retrieval.q.scan /\ req.kind \in RootKinds
        BY <3>3, AskedByTheQuestion DEF RootKinds
      <4> QED
        BY <1>3, <1>10, <3>2, <3>3, <4>1
    <3> QED
      BY <1>5, <1>10, <3>1, <3>3
  <2>3. CASE ComposeBlast
    BY <1>4, <1>10, <2>3 DEF ComposeBlast
  <2>4. CASE UNCHANGED blastVars
    BY <1>5, <1>10, <2>4 DEF blastVars
  <2> QED
    BY <2>1, <2>2, <2>3, <2>4
<1>11. CASE AlertStep /\ UNCHANGED <<disk, graphVars>>
  <2>1. CASE \E c \in client.catalogs : PutRoutingCatalog(c)
    BY <1>5, <1>11, <2>1 DEF PutRoutingCatalog, blastVars
  <2>2. CASE \E rule \in client.rules, scan \in DOMAIN disk : EvaluateRule(rule, scan)
    <3>1. PICK rule \in client.rules, scan \in DOMAIN disk : EvaluateRule(rule, scan)
      BY <2>2
    <3>2. \/ UNCHANGED <<reader, answer>>
          \/ \E id, mode : Serve(BlastOf("rule", scan, id, mode))
      BY <3>1 DEF EvaluateRule
    <3>3. ASSUME NEW id, NEW mode, Serve(BlastOf("rule", scan, id, mode)) PROVE PathInv'
      <4> PICK req : req = BlastOf("rule", scan, id, mode)
        OBVIOUS
      <4>1. req.scan = scan /\ req.kind \in RootKinds
        BY DEF BlastOf, RootKinds
      <4> QED
        BY <1>3, <1>11, <3>1, <3>3, <4>1
    <3> QED
      BY <1>5, <1>11, <3>2, <3>3
  <2>3. CASE Notify
    BY <1>4, <1>11, <2>3 DEF Notify
  <2> QED
    BY <1>11, <2>1, <2>2, <2>3 DEF AlertStep
<1>12. CASE UNCHANGED <<disk, graphVars, blastVars>>
  BY <1>5, <1>12 DEF blastVars
<1>13. CASE UNCHANGED vars
  BY <1>5, <1>13 DEF vars, blastVars
<1> QED
  BY <1>6, <1>7, <1>8, <1>9, <1>10, <1>11, <1>12, <1>13 DEF Next

\* internal/blastradius/attack_path.go: whatever exports, scans, failures and
\* other requests run meanwhile, the paths an answer offers begin where the scan
\* has the request begin, each is a simple path of the graph it is offered with,
\* none is offered twice, and while the bound on the candidates lets the walk see
\* all of them no path of the graph scores above the first: for every graph, and
\* whatever the bounds on the depth, the candidates and the variants.
THEOREM PathVariantsSoundHolds ==
  Spec => []PathVariantsSound
<1>1. Init => PathInv
  BY DEF Init, PathInv
<1>2. Spec => []SearchInv
  BY SearchBegins, NextKeepsSearch, DatabaseKept, PTL DEF Spec
<1>3. (FoundInv /\ PathInv) /\ DatabaseInv /\ OriginInv /\ AnswerInv /\ SearchInv /\ [Next]_vars
        => (FoundInv /\ PathInv)'
  BY NextKeepsFound, NextKeepsPaths
<1>4. PathInv => PathVariantsSound
  BY DEF PathInv, PathAnswer, PathVariantsSound
<1> QED
  BY <1>1, <1>2, <1>3, <1>4, FoundBegins, DatabaseKept, AnswerKept, WalkKept, PTL DEF Spec
-----------------------------------------------------------------------------
(* Where an alert goes.                                                    *)

\* A set of numbers that has one has a least one.
LEMMA MinIsFirst ==
  ASSUME NEW S \in SUBSET Nat, S # {}
  PROVE  Min(S) \in S /\ \A m \in S : Min(S) <= m
<1>1. \E n \in S : \A m \in S : n <= m
  BY SmallestNumber
<1> QED
  BY <1>1 DEF Min

\* A set of numbers up to n that has one has a greatest one.
LEMMA MaxIsLast ==
  ASSUME NEW n \in Nat, NEW S \in SUBSET (1..n), S # {}
  PROVE  Max(S) \in S /\ \A m \in S : Max(S) >= m
<1> DEFINE T == {n - i : i \in S}
<1>1. T \in SUBSET Nat /\ T # {}
  <2>1. \A i \in S : i \in 1..n /\ n - i \in Nat
    OBVIOUS
  <2> QED
    BY <2>1
<1>2. PICK t \in T : \A u \in T : t <= u
  BY <1>1, SmallestNumber
<1>3. PICK x \in S : t = n - x
  BY <1>2
<1>4. ASSUME NEW m \in S PROVE x >= m
  <2>1. t <= n - m
    BY <1>2
  <2>2. m \in 1..n /\ x \in 1..n
    OBVIOUS
  <2> QED
    BY <1>3, <2>1, <2>2
<1> QED
  BY <1>4 DEF Max

\* The rows of a sequence stand at the numbers up to its length.
LEMMA RowsAreNumbered ==
  ASSUME NEW rows, IsSequence(rows)
  PROVE  /\ Len(rows) \in Nat /\ DOMAIN rows = 1..Len(rows)
         /\ \A i \in 1..Len(rows) : rows[i] \in ToSet(rows)
BY LenProperties DEF IsSequence, ToSet

\* Of the catalog: teams by their id, accounts by the team they are bound to.
LEMMA TeamsOfCatalog ==
  ASSUME NEW c, IsSequence(c.teams)
  PROVE  /\ DOMAIN teamByID(c) = {t.team : t \in ToSet(c.teams)}
         /\ \A k \in DOMAIN teamByID(c) : \E t \in ToSet(c.teams) : teamByID(c)[k] = t.url
<1> PICK rows : rows = c.teams
  OBVIOUS
<1>1. /\ Len(rows) \in Nat /\ DOMAIN rows = 1..Len(rows)
      /\ \A i \in 1..Len(rows) : rows[i] \in ToSet(rows)
  BY RowsAreNumbered
<1>2. teamByID(c) = [k \in {t.team : t \in ToSet(rows)} |->
                       rows[Max({i \in DOMAIN rows : rows[i].team = k})].url]
  BY DEF teamByID, LastOf
<1>3. ASSUME NEW k \in {t.team : t \in ToSet(rows)}
      PROVE  Max({i \in DOMAIN rows : rows[i].team = k}) \in 1..Len(rows)
  <2> DEFINE S == {i \in DOMAIN rows : rows[i].team = k}
  <2>1. S \in SUBSET (1..Len(rows)) /\ S # {}
    BY <1>1 DEF ToSet
  <2> HIDE DEF S
  <2>2. Max(S) \in S
    BY <1>1, <2>1, MaxIsLast
  <2> QED
    BY <2>1, <2>2 DEF S
<1> QED
  BY <1>1, <1>2, <1>3

\* Of several rows that bind an account one counts.
LEMMA BindingsOfCatalog ==
  ASSUME NEW c, IsSequence(c.bindings)
  PROVE  /\ DOMAIN accountToTeam(c) = {b.account : b \in ToSet(c.bindings)}
         /\ \A k \in DOMAIN accountToTeam(c) :
              \E b \in ToSet(c.bindings) : accountToTeam(c)[k] = b.team
<1> PICK rows : rows = c.bindings
  OBVIOUS
<1>1. /\ Len(rows) \in Nat /\ DOMAIN rows = 1..Len(rows)
      /\ \A i \in 1..Len(rows) : rows[i] \in ToSet(rows)
  BY RowsAreNumbered
<1>2. accountToTeam(c) = [k \in {b.account : b \in ToSet(rows)} |->
                            rows[Max({i \in DOMAIN rows : rows[i].account = k})].team]
  BY DEF accountToTeam, LastOf
<1>3. ASSUME NEW k \in {b.account : b \in ToSet(rows)}
      PROVE  Max({i \in DOMAIN rows : rows[i].account = k}) \in 1..Len(rows)
  <2> DEFINE S == {i \in DOMAIN rows : rows[i].account = k}
  <2>1. S \in SUBSET (1..Len(rows)) /\ S # {}
    BY <1>1 DEF ToSet
  <2> HIDE DEF S
  <2>2. Max(S) \in S
    BY <1>1, <2>1, MaxIsLast
  <2> QED
    BY <2>1, <2>2 DEF S
<1> QED
  BY <1>1, <1>2, <1>3

\* In a catalog that may be saved every account that is bound has a team that
\* can be reached, and so is the default if there is one.
CatalogSound(c) ==
  IsSequence(c.teams) /\ IsSequence(c.bindings) /\ ValidateRoutingCatalog(c)

\* A catalog that may be saved has a webhook for every bound account and for the
\* default.
LEMMA SavedTeamsAreReached ==
  ASSUME NEW c, CatalogSound(c)
  PROVE  /\ \A a \in DOMAIN accountToTeam(c) :
              /\ a # None /\ accountToTeam(c)[a] \in DOMAIN teamByID(c)
              /\ validSlackURL(teamByID(c)[accountToTeam(c)[a]])
         /\ c.default # None => /\ c.default \in DOMAIN teamByID(c)
                                /\ validSlackURL(teamByID(c)[c.default])
         /\ None \notin DOMAIN teamByID(c)
<1>1. /\ \A b \in ToSet(c.bindings) : b.account # None /\ b.team \in DOMAIN teamByID(c)
      /\ \A t \in ToSet(c.teams) : t.team # None /\ validSlackURL(t.url)
      /\ c.default \in {None} \cup DOMAIN teamByID(c)
      /\ IsSequence(c.teams) /\ IsSequence(c.bindings)
  BY DEF CatalogSound, ValidateRoutingCatalog
<1> PICK teams, bound : teams = teamByID(c) /\ bound = accountToTeam(c)
  OBVIOUS
<1>2. /\ DOMAIN teams = {t.team : t \in ToSet(c.teams)}
      /\ \A k \in DOMAIN teams : \E t \in ToSet(c.teams) : teams[k] = t.url
  BY <1>1, TeamsOfCatalog, Zenon
<1>3. /\ DOMAIN bound = {b.account : b \in ToSet(c.bindings)}
      /\ \A k \in DOMAIN bound : \E b \in ToSet(c.bindings) : bound[k] = b.team
  BY <1>1, BindingsOfCatalog, Zenon
<1>4. (\A k \in DOMAIN teams : validSlackURL(teams[k])) /\ None \notin DOMAIN teams
  BY <1>1, <1>2
<1>5. \A a \in DOMAIN bound : a # None /\ bound[a] \in DOMAIN teams
  BY <1>1, <1>3
<1> QED
  BY <1>1, <1>4, <1>5

-----------------------------------------------------------------------------
(* The accounts of an alert, those with most findings first.               *)

CountOf(F, a) == Cardinality({f \in F : f.account = a})
AccountsIn(F) == {f.account : f \in F} \ {None}
Counted(F) == {<<CountOf(F, a), a>> : a \in AccountsIn(F)}
MoreThan(F) ==
  {p \in Counted(F) \X Counted(F) :
     p[1][1] > p[2][1] \/ (p[1][1] = p[2][1] /\ Rank[p[1][2]] < Rank[p[2][2]])}

\* An account has a number of findings, positive if it has one.
LEMMA CountsAreNumbers ==
  ASSUME NEW F, IsFiniteSet(F), NEW a
  PROVE  CountOf(F, a) \in Nat /\ (CountOf(F, a) > 0 <=> \E f \in F : f.account = a)
<1> DEFINE S == {f \in F : f.account = a}
<1>1. IsFiniteSet(S)
  BY FS_Subset
<1>2. Cardinality(S) \in Nat /\ (Cardinality(S) = 0 <=> S = {})
  <2> HIDE DEF S
  <2> QED
    BY <1>1, FS_CardinalityType, FS_EmptySet
<1>3. S = {} <=> ~\E f \in F : f.account = a
  OBVIOUS
<1>4. CountOf(F, a) = Cardinality(S)
  BY DEF CountOf
<1> HIDE DEF S
<1> QED
  BY <1>2, <1>3, <1>4

\* There are no more accounts than findings.
LEMMA CountedIsSmall ==
  ASSUME NEW F, IsFiniteSet(F)
  PROVE  IsFiniteSet(Counted(F)) /\ Cardinality(Counted(F)) <= Cardinality(F)
<1> DEFINE G == {f \in F : f.account # None}
           pair == [f \in G |-> <<CountOf(F, f.account), f.account>>]
<1>1. IsFiniteSet(G) /\ Cardinality(G) <= Cardinality(F)
  <2>1. G \in SUBSET F
    OBVIOUS
  <2> HIDE DEF G
  <2> QED
    BY <2>1, FS_Subset
<1>2. pair \in Surjection(G, Counted(F))
  BY DEF Surjection, Counted, AccountsIn
<1> HIDE DEF G, pair
<1>3. IsFiniteSet(Counted(F)) /\ Cardinality(Counted(F)) <= Cardinality(G)
  BY <1>1, <1>2, FS_Surjection
<1>4. Cardinality(F) \in Nat /\ Cardinality(G) \in Nat /\ Cardinality(Counted(F)) \in Nat
  BY <1>1, <1>3, FS_CardinalityType
<1> QED
  BY <1>1, <1>3, <1>4

\* A list no longer than the limit is kept whole.
LEMMA WholeList ==
  ASSUME NEW S, NEW seq \in Seq(S), NEW n \in Nat, Len(seq) <= n
  PROVE  FirstN(seq, n) = seq
<1>1. Len(seq) \in Nat
  BY LenProperties
<1>2. FirstN(seq, n) = SubSeq(seq, 1, Len(seq))
  BY <1>1 DEF FirstN
<1> QED
  BY <1>2, SubSeqFull

\* Accounts are ordered by their findings and then by their names, each in its
\* place.
LEMMA MoreThanIsTotal ==
  ASSUME NEW F, IsFiniteSet(F), AccountsIn(F) \subseteq DOMAIN Rank
  PROVE  /\ \A p \in Counted(F) : /\ p = <<p[1], p[2]>> /\ p[1] \in Nat /\ p[2] \in AccountsIn(F)
                                  /\ p[1] = CountOf(F, p[2]) /\ <<p, p>> \notin MoreThan(F)
         /\ \A p, q \in Counted(F) :
              p # q => <<p, q>> \in MoreThan(F) \/ <<q, p>> \in MoreThan(F)
         /\ \A p, q, r \in Counted(F) :
              <<p, q>> \in MoreThan(F) /\ <<q, r>> \in MoreThan(F) => <<p, r>> \in MoreThan(F)
         /\ \A p, q \in Counted(F) : <<p, q>> \in MoreThan(F) => p[1] >= q[1]
<1>1. ASSUME NEW p \in Counted(F)
      PROVE  /\ p = <<p[1], p[2]>> /\ p[1] \in Nat /\ p[2] \in AccountsIn(F)
             /\ p[1] = CountOf(F, p[2]) /\ Rank[p[2]] \in Nat
  <2>1. PICK a \in AccountsIn(F) : p = <<CountOf(F, a), a>>
    BY DEF Counted
  <2> QED
    BY <2>1, CountsAreNumbers, OrderIsTotal
<1>2. \A p, q \in Counted(F) : <<p, q>> \in MoreThan(F)
        <=> p[1] > q[1] \/ (p[1] = q[1] /\ Rank[p[2]] < Rank[q[2]])
  BY DEF MoreThan
<1>3. \A p \in Counted(F) : <<p, p>> \notin MoreThan(F)
  BY <1>1, <1>2
<1>4. ASSUME NEW p \in Counted(F), NEW q \in Counted(F), p # q
      PROVE  <<p, q>> \in MoreThan(F) \/ <<q, p>> \in MoreThan(F)
  <2>1. p[1] = q[1] => Rank[p[2]] # Rank[q[2]]
    BY <1>1, <1>4, OrderIsTotal
  <2> QED
    BY <1>1, <1>2, <2>1
<1>5. ASSUME NEW p \in Counted(F), NEW q \in Counted(F), NEW r \in Counted(F),
             <<p, q>> \in MoreThan(F), <<q, r>> \in MoreThan(F)
      PROVE  <<p, r>> \in MoreThan(F)
  BY <1>1, <1>2, <1>5
<1>6. \A p, q \in Counted(F) : <<p, q>> \in MoreThan(F) => p[1] >= q[1]
  BY <1>1, <1>2
<1>7. \A p \in Counted(F) : /\ p = <<p[1], p[2]>> /\ p[1] \in Nat /\ p[2] \in AccountsIn(F)
                            /\ p[1] = CountOf(F, p[2]) /\ <<p, p>> \notin MoreThan(F)
  BY <1>1, <1>3
<1> QED
  BY <1>4, <1>5, <1>6, <1>7

\* Every account with findings is a hint, and none comes before one with more.
LEMMA HintsInOrder ==
  ASSUME NEW F, IsFiniteSet(F), AccountsIn(F) \subseteq DOMAIN Rank
  PROVE  /\ Lists(routingHints(F), AccountsIn(F))
         /\ \A i, j \in 1..Len(routingHints(F)) :
              i < j => CountOf(F, routingHints(F)[i]) >= CountOf(F, routingHints(F)[j])
<1> PICK S, less : S = Counted(F) /\ less = MoreThan(F)
  OBVIOUS
<1> PICK best : best = Lined(S, less)
  OBVIOUS
<1> PICK n : n = Cardinality(S)
  OBVIOUS
<1> DEFINE hints == [i \in DOMAIN best |-> best[i][2]]
<1>1. /\ IsFiniteSet(S) /\ n <= Cardinality(F) /\ n \in Nat /\ Cardinality(F) \in Nat
  BY CountedIsSmall, FS_CardinalityType
<1>2. /\ Lists(best, S) /\ Len(best) = n
      /\ \A i, j \in 1..n : i < j => <<best[i], best[j]>> \in less
  BY <1>1, MoreThanIsTotal, PlacesAreTaken
<1>3. best \in Seq(S) /\ DOMAIN best = 1..n /\ \A i \in 1..n : best[i] \in S
  BY <1>2, LenProperties, ListedAreMembers DEF Lists
<1>4. hints \in [DOMAIN best -> AccountsIn(F)]
  BY <1>3, MoreThanIsTotal
<1>5. \A a \in AccountsIn(F) : \E p \in S : \A i \in DOMAIN best : best[i] = p => hints[i] = a
  <2> TAKE a \in AccountsIn(F)
  <2>1. <<CountOf(F, a), a>> \in S
    BY DEF Counted
  <2> WITNESS <<CountOf(F, a), a>> \in S
  <2> QED
    OBVIOUS
<1>6. Lists(hints, AccountsIn(F))
  <2> HIDE DEF hints
  <2> QED
    BY <1>2, <1>4, <1>5, EachIsListed
<1>7. Len(hints) = n /\ hints \in Seq(AccountsIn(F))
  <2>1. hints \in [1..n -> AccountsIn(F)]
    BY <1>3, <1>4
  <2> HIDE DEF hints
  <2> QED
    BY <1>1, <2>1, IsASequence
<1>8. routingHints(F) = FirstN(hints, Cardinality(F))
  BY DEF routingHints, MostFrequent, TopBy, InOrder, Each, Counted, MoreThan, AccountsIn, CountOf
<1>9. routingHints(F) = hints
  <2> HIDE DEF hints
  <2> QED
    BY <1>1, <1>7, <1>8, WholeList
<1>10. ASSUME NEW i \in 1..n, NEW j \in 1..n, i < j
       PROVE  CountOf(F, hints[i]) >= CountOf(F, hints[j])
  <2>1. best[i][1] >= best[j][1]
    BY <1>2, <1>3, <1>10, MoreThanIsTotal
  <2>2. /\ best[i][1] = CountOf(F, hints[i]) /\ best[j][1] = CountOf(F, hints[j])
    BY <1>3, MoreThanIsTotal
  <2> QED
    BY <2>1, <2>2
<1> HIDE DEF hints
<1> QED
  BY <1>6, <1>7, <1>9, <1>10

\* In two lists put together the members of the first come first.
LEMMA NamedInOrder ==
  ASSUME NEW s, IsSequence(s), NEW t, IsSequence(t)
  PROVE  /\ Len(s) \in Nat /\ Len(t) \in Nat /\ DOMAIN (s \o t) = 1..(Len(s) + Len(t))
         /\ \A i \in 1..Len(s) : (s \o t)[i] = s[i]
         /\ \A i \in 1..Len(t) : (s \o t)[Len(s) + i] = t[i]
         /\ \A i \in DOMAIN (s \o t) : i > Len(s) => (s \o t)[i] \in ToSet(t)
<1>1. /\ Len(s) \in Nat /\ DOMAIN s = 1..Len(s) /\ Len(t) \in Nat /\ DOMAIN t = 1..Len(t)
      /\ \A i \in 1..Len(t) : t[i] \in ToSet(t)
  BY RowsAreNumbered
<1>2. /\ DOMAIN (s \o t) = 1..(Len(s) + Len(t))
      /\ \A i \in 1..(Len(s) + Len(t)) :
           (s \o t)[i] = IF i <= Len(s) THEN s[i] ELSE t[i - Len(s)]
  <2> PICK S : S = Range(s) \cup Range(t)
    OBVIOUS
  <2>1. s \in Seq(S) /\ t \in Seq(S)
    BY <1>1 DEF IsSequence, Range
  <2>2. /\ s \o t \in Seq(S) /\ Len(s \o t) = Len(s) + Len(t)
        /\ \A i \in 1..Len(s) + Len(t) :
             (s \o t)[i] = IF i <= Len(s) THEN s[i] ELSE t[i - Len(s)]
    BY <2>1, ConcatProperties
  <2> QED
    BY <2>2, LenProperties
<1>3. ASSUME NEW i \in 1..(Len(s) + Len(t)), i > Len(s) PROVE (s \o t)[i] \in ToSet(t)
  <2>1. i - Len(s) \in 1..Len(t) /\ (s \o t)[i] = t[i - Len(s)]
    BY <1>1, <1>2, <1>3
  <2> QED
    BY <1>1, <2>1
<1>4. ASSUME NEW i \in 1..Len(t) PROVE (s \o t)[Len(s) + i] = t[i]
  <2>1. Len(s) + i \in 1..(Len(s) + Len(t)) /\ ~(Len(s) + i <= Len(s)) /\ Len(s) + i - Len(s) = i
    BY <1>1
  <2> QED
    BY <1>2, <2>1
<1> QED
  BY <1>1, <1>2, <1>3, <1>4

\* The accounts a destination is looked for by, in their order.
AskedFor(rule, hints) == hints \o rule.accounts

\* The n-th account is the first one that has a team, and the destination is its.
IsFirstTeam(bound, named, n, dest) ==
  /\ dest.valid = TRUE /\ dest.account = named[n] /\ dest.team = bound[named[n]]
  /\ named[n] \in DOMAIN bound
  /\ \A i \in DOMAIN named : named[i] \in DOMAIN bound => n <= i

\* The first account that has a team is taken, of the hints if there is one,
\* else of the scope, and its team can be reached.
LEMMA FirstTeamIsReached ==
  ASSUME NEW c, CatalogSound(c), NEW rule, rule.url = None, IsSequence(rule.accounts),
         NEW hints, IsSequence(hints),
         NEW bound, bound = accountToTeam(c),
         NEW named, named = AskedFor(rule, hints),
         NEW dest, dest = ResolveDeliveryTarget(rule, hints, c),
         \E i \in DOMAIN named : named[i] \in DOMAIN bound
  PROVE  \E n \in DOMAIN named : IsFirstTeam(bound, named, n, dest)
<1> PICK teams : teams = teamByID(c)
  OBVIOUS
<1>1. \A a \in DOMAIN bound : bound[a] \in DOMAIN teams /\ validSlackURL(teams[bound[a]])
  BY SavedTeamsAreReached
<1> PICK reached : reached = {i \in DOMAIN named : named[i] \in DOMAIN bound}
  OBVIOUS
<1>2. reached = {i \in DOMAIN named : /\ named[i] \in DOMAIN bound
                                     /\ bound[named[i]] \in DOMAIN teams
                                     /\ validSlackURL(teams[bound[named[i]]])}
  BY <1>1
<1>3. reached \in SUBSET Nat /\ reached # {}
  BY NamedInOrder DEF AskedFor
<1>4. PICK n : n = Min(reached)
  OBVIOUS
<1>5. n \in reached /\ \A i \in reached : n <= i
  BY <1>3, <1>4, MinIsFirst
<1>6. dest.account = named[n] /\ dest.team = bound[named[n]]
  BY <1>2, <1>3, <1>4 DEF ResolveDeliveryTarget, Destination, AskedFor
<1>7. dest.valid = TRUE
  BY <1>2, <1>3, <1>4 DEF ResolveDeliveryTarget, Destination, AskedFor
<1> QED
  BY <1>5, <1>6, <1>7 DEF IsFirstTeam

\* When no account has a team the default team is taken, if there is one.
LEMMA DefaultAnswers ==
  ASSUME NEW c, CatalogSound(c), NEW rule, rule.url = None, NEW hints,
         NEW named, named = AskedFor(rule, hints),
         NEW dest, dest = ResolveDeliveryTarget(rule, hints, c),
         \A i \in DOMAIN named : named[i] \notin DOMAIN accountToTeam(c)
  PROVE  dest.team = c.default /\ dest.valid = (c.default # None)
<1> PICK teams, bound : teams = teamByID(c) /\ bound = accountToTeam(c)
  OBVIOUS
<1>1. {i \in DOMAIN named : /\ named[i] \in DOMAIN bound
                           /\ bound[named[i]] \in DOMAIN teams
                           /\ validSlackURL(teams[bound[named[i]]])} = {}
  OBVIOUS
<1>2. /\ c.default # None => c.default \in DOMAIN teams /\ validSlackURL(teams[c.default])
      /\ None \notin DOMAIN teams
  BY SavedTeamsAreReached
<1>3. CASE c.default # None
  <2>1. dest.team = c.default
    BY <1>1, <1>2, <1>3 DEF ResolveDeliveryTarget, Destination, AskedFor
  <2>2. dest.valid = TRUE
    BY <1>1, <1>2, <1>3 DEF ResolveDeliveryTarget, Destination, AskedFor
  <2> QED
    BY <1>3, <2>1, <2>2
<1>4. CASE c.default = None
  <2>1. dest.team = None
    BY <1>1, <1>2, <1>4 DEF ResolveDeliveryTarget, Destination, AskedFor
  <2>2. dest.valid = FALSE
    BY <1>1, <1>2, <1>4 DEF ResolveDeliveryTarget, Destination, AskedFor
  <2> QED
    BY <1>4, <2>1, <2>2
<1> QED
  BY <1>3, <1>4

\* Where an alert goes that counts the findings G.
TeamIsReached(bound, default, G, accounts, dest) ==
  LET found == AccountsIn(G) \cap DOMAIN bound
      named == ToSet(accounts) \cap DOMAIN bound
  IN  IF found \cup named # {}
      THEN /\ dest.valid /\ dest.team = bound[dest.account]
           /\ dest.account \in (IF found # {} THEN found ELSE named)
           /\ \A a \in found : CountOf(G, a) <= CountOf(G, dest.account)
      ELSE dest.team = default /\ dest.valid = (default # None)

\* The destination for the hints of the findings G is the one that is meant.
LEMMA DestinationFound ==
  ASSUME NEW c, CatalogSound(c), NEW rule, rule.url = None, IsSequence(rule.accounts),
         NEW G, IsFiniteSet(G), AccountsIn(G) \subseteq DOMAIN Rank
  PROVE  TeamIsReached(accountToTeam(c), c.default, G, rule.accounts,
                       ResolveDeliveryTarget(rule, routingHints(G), c))
<1> PICK bound : bound = accountToTeam(c)
  OBVIOUS
<1> PICK hints : hints = routingHints(G)
  OBVIOUS
<1> PICK dest : dest = ResolveDeliveryTarget(rule, hints, c)
  OBVIOUS
<1> PICK named : named = AskedFor(rule, hints)
  OBVIOUS
<1>1. /\ hints \in Seq(AccountsIn(G)) /\ Range(hints) = AccountsIn(G)
      /\ \A i, j \in 1..Len(hints) : i < j => CountOf(G, hints[i]) >= CountOf(G, hints[j])
  BY HintsInOrder DEF Lists
<1>2. IsSequence(hints)
  BY <1>1 DEF IsSequence
<1>3. /\ DOMAIN hints = 1..Len(hints) /\ Len(hints) \in Nat
      /\ DOMAIN rule.accounts = 1..Len(rule.accounts) /\ Len(rule.accounts) \in Nat
  BY <1>2, RowsAreNumbered
<1>4. /\ DOMAIN named = 1..(Len(hints) + Len(rule.accounts))
      /\ \A i \in 1..Len(hints) : named[i] = hints[i]
      /\ \A i \in 1..Len(rule.accounts) : named[Len(hints) + i] = rule.accounts[i]
      /\ \A i \in DOMAIN named : i > Len(hints) => named[i] \in ToSet(rule.accounts)
  BY <1>2, NamedInOrder DEF AskedFor
<1>5. \A a \in AccountsIn(G) : \E i \in 1..Len(hints) : hints[i] = a
  BY <1>1, <1>3 DEF Range
<1>6. \A i \in 1..Len(hints) : hints[i] \in AccountsIn(G)
  BY <1>1, <1>3 DEF Range
<1>7. \A a \in ToSet(rule.accounts) : \E i \in DOMAIN named : named[i] = a
  <2> TAKE a \in ToSet(rule.accounts)
  <2>1. PICK i \in 1..Len(rule.accounts) : rule.accounts[i] = a
    BY <1>3 DEF ToSet
  <2>2. Len(hints) + i \in DOMAIN named
    BY <1>3, <1>4
  <2> QED
    BY <1>4, <2>1, <2>2
<1>8. CASE \E i \in DOMAIN named : named[i] \in DOMAIN bound
  <2>0. PICK n \in DOMAIN named : IsFirstTeam(bound, named, n, dest)
    BY <1>2, <1>8, FirstTeamIsReached
  <2>1. /\ dest.valid = TRUE /\ dest.account = named[n] /\ named[n] \in DOMAIN bound
        /\ dest.team = bound[named[n]]
        /\ \A i \in DOMAIN named : named[i] \in DOMAIN bound => n <= i
    BY <2>0 DEF IsFirstTeam
  <2>2. CASE n <= Len(hints)
    <3>1. n \in 1..Len(hints) /\ named[n] = hints[n]
      BY <1>3, <1>4, <2>2
    <3>2. named[n] \in AccountsIn(G)
      BY <1>6, <3>1
    <3>3. ASSUME NEW a \in AccountsIn(G), a \in DOMAIN bound
          PROVE  CountOf(G, a) <= CountOf(G, named[n])
      <4>1. PICK i \in 1..Len(hints) : hints[i] = a
        BY <1>5
      <4>2. i \in DOMAIN named /\ n <= i
        BY SMTT(30), <1>3, <1>4, <2>1, <3>3, <4>1
      <4>3. CountOf(G, a) \in Nat /\ CountOf(G, named[n]) \in Nat
        BY CountsAreNumbers
      <4>4. n = i \/ CountOf(G, hints[n]) >= CountOf(G, hints[i])
        BY <1>1, <1>3, <3>1, <4>2
      <4> QED
        BY <3>1, <4>1, <4>3, <4>4
    <3> QED
      BY <2>1, <3>2, <3>3 DEF TeamIsReached
  <2>3. CASE n > Len(hints)
    <3>1. named[n] \in ToSet(rule.accounts)
      BY <1>4, <2>3
    <3>2. ASSUME NEW a \in AccountsIn(G) \cap DOMAIN bound PROVE FALSE
      <4>1. PICK i \in 1..Len(hints) : hints[i] = a
        BY <1>5
      <4>2. i \in DOMAIN named /\ n <= i
        BY SMTT(30), <1>3, <1>4, <2>1, <4>1
      <4> QED
        BY <1>3, <1>4, <2>3, <4>2
    <3> QED
      BY <2>1, <3>1, <3>2 DEF TeamIsReached
  <2> QED
    BY <1>3, <1>4, <2>2, <2>3
<1>9. CASE \A i \in DOMAIN named : named[i] \notin DOMAIN bound
  <2>1. dest.team = c.default /\ dest.valid = (c.default # None)
    BY <1>9, DefaultAnswers
  <2>2. (AccountsIn(G) \cap DOMAIN bound) \cup (ToSet(rule.accounts) \cap DOMAIN bound) = {}
    <3>1. \A a \in AccountsIn(G) : a \notin DOMAIN bound
      <4> TAKE a \in AccountsIn(G)
      <4>1. PICK i \in 1..Len(hints) : hints[i] = a
        BY <1>5
      <4>2. i \in DOMAIN named /\ named[i] = a
        BY <1>3, <1>4, <4>1
      <4> QED
        BY <1>9, <4>2
    <3>2. \A a \in ToSet(rule.accounts) : a \notin DOMAIN bound
      BY <1>7, <1>9
    <3> QED
      BY <3>1, <3>2
  <2> QED
    BY <2>1, <2>2, Zenon DEF TeamIsReached
<1> QED
  BY <1>8, <1>9

\* The findings a rule looks at.
Considered(rule, scan, F) ==
  IF RuleAppliesToScan(rule, scan) THEN FilterFindingsByAccountScope(rule, F) ELSE {}

\* A rule looks at finitely many findings, of accounts in order.
LEMMA ConsideredIsPart ==
  ASSUME NEW rule, NEW scan, NEW F, IsFiniteSet(F), AccountsIn(F) \subseteq DOMAIN Rank
  PROVE  /\ IsFiniteSet(Considered(rule, scan, F))
         /\ AccountsIn(Considered(rule, scan, F)) \subseteq DOMAIN Rank
<1>1. Considered(rule, scan, F) \in SUBSET F
  BY DEF Considered, FilterFindingsByAccountScope
<1>2. IsFiniteSet(Considered(rule, scan, F))
  BY <1>1, FS_Subset
<1>3. AccountsIn(Considered(rule, scan, F)) \subseteq AccountsIn(F)
  BY <1>1 DEF AccountsIn
<1> QED
  BY <1>2, <1>3

\* What is resolved by the hints of a rule reaches the team it has to.
LEMMA AlertIsRouted ==
  ASSUME NEW c, CatalogSound(c), NEW rule, rule.url = None, IsSequence(rule.accounts), NEW scan,
         NEW F, IsFiniteSet(F), AccountsIn(F) \subseteq DOMAIN Rank,
         NEW dest,
         dest = ResolveDeliveryTarget(rule, routingHints(Considered(rule, scan, F)), c)
  PROVE  ReachesTeam(c, rule, scan, F, dest)
<1> PICK G : G = Considered(rule, scan, F)
  OBVIOUS
<1> PICK bound : bound = accountToTeam(c)
  OBVIOUS
<1> PICK accounts : accounts = rule.accounts
  OBVIOUS
<1> DEFINE applies == rule.scans = {} \/ scan \in rule.scans
           inScope(a) == accounts = <<>> \/ a \in ToSet(accounts)
           of(a) == Cardinality({f \in F : applies /\ f.account = a})
           found == {a \in DOMAIN bound : inScope(a) /\ of(a) > 0}
           named == ToSet(accounts) \cap DOMAIN bound
<1>1. IsFiniteSet(G) /\ AccountsIn(G) \subseteq DOMAIN Rank
  BY ConsideredIsPart
<1>2. TeamIsReached(bound, c.default, G, accounts, dest)
  BY <1>1, DestinationFound
<1>3. None \notin DOMAIN bound
  BY SavedTeamsAreReached
<1>4. G = {f \in F : applies /\ inScope(f.account)}
  BY DEF Considered, RuleAppliesToScan, FilterFindingsByAccountScope
<1>5. ASSUME NEW a, inScope(a)
      PROVE  of(a) = CountOf(G, a)
  <2>1. {f \in F : applies /\ f.account = a} = {f \in G : f.account = a}
    BY <1>4, <1>5
  <2> QED
    BY <2>1 DEF CountOf
<1>6. ASSUME NEW a \in DOMAIN bound
      PROVE  a \in found <=> a \in AccountsIn(G)
  <2>1. a \in AccountsIn(G) <=> \E f \in G : f.account = a
    BY <1>3 DEF AccountsIn
  <2>2. CountOf(G, a) > 0 <=> \E f \in G : f.account = a
    BY <1>1, CountsAreNumbers
  <2>3. CASE inScope(a)
    BY <1>5, <2>1, <2>2, <2>3
  <2>4. CASE ~inScope(a)
    BY <1>4, <2>1, <2>4
  <2> QED
    BY <2>3, <2>4
<1>7. found = AccountsIn(G) \cap DOMAIN bound
  <2> HIDE DEF inScope, of
  <2> QED
    BY <1>6
<1>8. \A a \in found : inScope(a) /\ of(a) = CountOf(G, a)
  BY <1>5
<1>9. CASE found \cup named # {}
  <2>1. /\ dest.valid /\ dest.team = bound[dest.account]
        /\ dest.account \in (IF found # {} THEN found ELSE named)
        /\ \A a \in found : CountOf(G, a) <= CountOf(G, dest.account)
    <3> HIDE DEF found, applies, inScope, of
    <3> QED
      BY <1>2, <1>7, <1>9, Zenon DEF TeamIsReached
  <2>2. \A a \in found : of(a) <= of(dest.account)
    <3> HIDE DEF found, applies, inScope, of, named
    <3> QED
      BY <1>8, <2>1
  <2> QED
    <3> HIDE DEF of
    <3> QED
      BY <1>9, <2>1, <2>2, Zenon DEF ReachesTeam, of
<1>10. CASE found \cup named = {}
  <2>1. dest.team = c.default /\ dest.valid = (c.default # None)
    <3> HIDE DEF found, applies, inScope, of
    <3> QED
      BY <1>2, <1>7, <1>10, Zenon DEF TeamIsReached
  <2> QED
    BY <1>10, <2>1, Zenon DEF ReachesTeam
<1> QED
  BY <1>9, <1>10

\* The hints of a result are the accounts of the findings its rule looks at,
\* which stay on disk as they are; only a catalog that may be saved is saved.
Hinted(r, D) ==
  /\ r.scan \in DOMAIN D /\ IsSequence(r.rule.accounts)
  /\ r.hints = routingHints(Considered(r.rule, r.scan, D[r.scan].findings))

RouteInv ==
  /\ \A c \in client.catalogs : IsSequence(c.teams) /\ IsSequence(c.bindings)
  /\ CatalogSound(catalog)
  /\ alert.phase = "blast" => Hinted(alert.result, disk)

\* Without findings there is no hint.
LEMMA NoHints ==
  routingHints({}) = <<>>
<1> PICK hints : hints = routingHints({})
  OBVIOUS
<1>1. IsFiniteSet({}) /\ AccountsIn({}) = {}
  BY FS_EmptySet DEF AccountsIn
<1>2. hints \in Seq({})
  BY <1>1, HintsInOrder DEF Lists
<1> QED
  BY <1>2

\* The hints are those of the findings the rule looks at, whatever it counts.
LEMMA EvaluatedHints ==
  ASSUME NEW rule, rule.type \in RuleTypes, NEW scan, NEW F, NEW previous
  PROVE  Evaluate(rule, scan, F, previous).hints = routingHints(Considered(rule, scan, F))
<1>1. CASE RuleAppliesToScan(rule, scan)
  <2>1. Considered(rule, scan, F) = FilterFindingsByAccountScope(rule, F)
    BY <1>1 DEF Considered
  <2>2. \E res : /\ Evaluate(rule, scan, F, previous)
                      = [res EXCEPT !.hints = routingHints(FilterFindingsByAccountScope(rule, F))]
                 /\ \E triggered, counted, lines, target, mode :
                      res = makeResult(rule, scan, triggered, counted, lines, target, mode)
    BY <1>1, EvaluatedOnce
  <2> QED
    BY <2>1, <2>2 DEF makeResult
<1>2. CASE ~RuleAppliesToScan(rule, scan)
  <2>1. \E lines : Evaluate(rule, scan, F, previous) = NotTriggered(rule, scan, lines)
    BY <1>2 DEF Evaluate
  <2>2. ASSUME NEW r, \E lines : r = NotTriggered(rule, scan, lines)
        PROVE  r.hints = <<>>
    BY <2>2 DEF NotTriggered, makeResult
  <2>3. Considered(rule, scan, F) = {}
    BY <1>2 DEF Considered
  <2> QED
    BY <2>1, <2>2, <2>3, NoHints
<1> QED
  BY <1>1, <1>2

\* A rule is evaluated on what is on disk; whatever comes of it, the scan, the
\* rule and the hints of the result are those of the evaluation.
LEMMA EvaluatedOnDisk ==
  ASSUME NEW rule, rule.type \in RuleTypes, IsSequence(rule.accounts), NEW scan \in DOMAIN disk
  PROVE  Hinted(EvaluateScan(rule, scan), disk) /\ EvaluateScan(rule, scan).rule = rule
<1> PICK previous : previous = {disk[s].findings : s \in previousScanID(scan)}
  OBVIOUS
<1> PICK r : r = EvaluateScan(rule, scan)
  OBVIOUS
<1> PICK F : F = disk[scan].findings
  OBVIOUS
<1>1. r = Evaluate(rule, scan, F, previous)
  BY DEF EvaluateScan
<1>2. r.rule = rule /\ r.scan = scan
  BY <1>1, EvaluatedFor
<1>3. r.hints = routingHints(Considered(rule, scan, F))
  BY <1>1, EvaluatedHints
<1> QED
  BY <1>2, <1>3 DEF Hinted

\* At the start the catalog is empty and no alert is on its way.
LEMMA RouteBegins ==
  Init => RouteInv
<1> SUFFICES ASSUME Init PROVE RouteInv
  OBVIOUS
<1>1. PICK w \in Worlds : client = w.client
  BY DEF Init
<1>2. \A c \in client.catalogs : IsSequence(c.teams) /\ IsSequence(c.bindings)
  BY <1>1, WorldsAssumption
<1>3. alert = NoAlert /\ catalog = NoCatalog
  BY DEF Init
<1>4. IsSequence(<<>>) /\ ToSet(<<>>) = {}
  BY DEF IsSequence, ToSet
<1>5. CatalogSound(NoCatalog)
  BY <1>4 DEF CatalogSound, NoCatalog, ValidateRoutingCatalog
<1>6. alert.phase # "blast"
  BY <1>3 DEF NoAlert
<1> QED
  BY <1>2, <1>3, <1>5, <1>6 DEF RouteInv

\* Hints stay true when scans are added.
LEMMA HintedForGood ==
  ASSUME NEW r, NEW D, NEW E, Hinted(r, D),
         DOMAIN D \subseteq DOMAIN E, \A scan \in DOMAIN D : E[scan] = D[scan]
  PROVE  Hinted(r, E)
BY DEF Hinted

\* No step takes a scan from disk or changes one.
LEMMA ScansStayOnDisk ==
  [Next]_vars => /\ DOMAIN disk \subseteq DOMAIN disk'
                 /\ \A scan \in DOMAIN disk : disk'[scan] = disk[scan]
<1> SUFFICES ASSUME [Next]_vars PROVE /\ DOMAIN disk \subseteq DOMAIN disk'
                                      /\ \A scan \in DOMAIN disk : disk'[scan] = disk[scan]
  OBVIOUS
<1>1. ASSUME NEW scan \in DOMAIN cloud, RunScan(scan)
      PROVE  /\ DOMAIN disk \subseteq DOMAIN disk'
             /\ \A s \in DOMAIN disk : disk'[s] = disk[s]
  <2>1. scan \notin DOMAIN disk /\ \E art : disk' = Merge(disk, scan, art)
    BY <1>1 DEF RunScan
  <2> QED
    BY <2>1 DEF Merge, Over
<1>2. CASE \E e \in Exporters : ExportStep(e)
  <2>1. disk' = disk
    BY <1>2 DEF ExportStep, BeginWrite, RunStatement, WriteFails, DropStale, Project, Analyse,
                Release, Deadline, ExporterDies
  <2> QED
    BY <2>1
<1>3. CASE UNCHANGED disk
  BY <1>3
<1> QED
  BY <1>1, <1>2, <1>3 DEF Next, vars

\* The steps that touch the catalog or the alert.
LEMMA AlertSteps ==
  ASSUME [Next]_vars
  PROVE  /\ client' = client
         /\ \/ /\ UNCHANGED disk
               /\ \/ \E c \in client.catalogs : PutRoutingCatalog(c)
                  \/ \E rule \in client.rules, scan \in DOMAIN disk : EvaluateRule(rule, scan)
                  \/ Notify
            \/ UNCHANGED <<catalog, alert>>
BY DEF Next, AlertStep, RunScan, ruleVars, vars

\* What a step does to the alert: an evaluation makes one that waits for the
\* graph or has its destination, an answer gives it one; the catalog stays.
LEMMA AlertMoves ==
  ASSUME AnswerInv, RuleInv, RouteInv, [Next]_vars,
         alert' # alert
  PROVE  /\ UNCHANGED <<disk, catalog>>
         /\ \E r : /\ Hinted(r, disk)
                   /\ \/ \E bullets : alert' = Routed(r, bullets)
                      \/ alert' = [phase |-> "blast", result |-> r]
<1>1. CASE \E c \in client.catalogs : PutRoutingCatalog(c)
  BY <1>1 DEF PutRoutingCatalog
<1>2. CASE UNCHANGED disk /\ \E rule \in client.rules, scan \in DOMAIN disk : EvaluateRule(rule, scan)
  <2>1. PICK rule \in client.rules, scan \in DOMAIN disk : EvaluateRule(rule, scan)
    BY <1>2
  <2> PICK r : r = EvaluateScan(rule, scan)
    OBVIOUS
  <2>2. Hinted(r, disk)
    BY EvaluatedOnDisk DEF RuleInv
  <2>3. \/ \E bullets : alert' = Routed(r, bullets)
        \/ alert' = [phase |-> "blast", result |-> r]
    BY <2>1 DEF EvaluateRule
  <2>4. UNCHANGED catalog
    BY <2>1 DEF EvaluateRule
  <2> QED
    BY <1>2, <2>2, <2>3, <2>4
<1>3. CASE UNCHANGED disk /\ Notify
  <2>1. alert.phase = "blast"
    BY <1>3 DEF Notify, RuleInv
  <2>2. Hinted(alert.result, disk)
    BY <2>1 DEF RouteInv
  <2>3. \E bullets : alert' = Routed(alert.result, bullets)
    BY <1>3 DEF Notify
  <2>4. UNCHANGED catalog
    BY <1>3 DEF Notify
  <2> QED
    BY <1>3, <2>2, <2>3, <2>4
<1> QED
  BY <1>1, <1>2, <1>3, AlertSteps

\* The invariant of the routes is inductive.
LEMMA NextKeepsRoutes ==
  AnswerInv /\ RuleInv /\ RouteInv /\ [Next]_vars => RouteInv'
<1> SUFFICES ASSUME AnswerInv, RuleInv, RouteInv, [Next]_vars PROVE RouteInv'
  OBVIOUS
<1>1. client' = client
  BY AlertSteps
<1>2. CatalogSound(catalog')
  <2>1. CASE catalog' = catalog
    BY <2>1 DEF RouteInv
  <2>2. CASE \E c \in client.catalogs : PutRoutingCatalog(c)
    BY <2>2 DEF PutRoutingCatalog, RouteInv, CatalogSound
  <2>3. CASE Notify \/ \E rule \in client.rules, scan \in DOMAIN disk : EvaluateRule(rule, scan)
    <3>1. catalog' = catalog
      BY <2>3 DEF Notify, EvaluateRule
    <3> QED
      BY <2>1, <3>1
  <2> QED
    BY <2>1, <2>2, <2>3, AlertSteps
<1>3. ASSUME alert'.phase = "blast" PROVE Hinted(alert'.result, disk')
  <2>1. CASE alert' = alert
    <3>1. Hinted(alert.result, disk)
      BY <1>3, <2>1 DEF RouteInv
    <3> QED
      BY <2>1, <3>1, HintedForGood, ScansStayOnDisk
  <2>2. CASE alert' # alert
    <3>1. disk' = disk /\ \E r : /\ Hinted(r, disk)
                                 /\ \/ \E bullets : alert' = Routed(r, bullets)
                                    \/ alert' = [phase |-> "blast", result |-> r]
      BY <2>2, AlertMoves
    <3>2. PICK r : Hinted(r, disk) /\ alert' = [phase |-> "blast", result |-> r]
      BY <1>3, <3>1 DEF Routed
    <3> QED
      BY <3>1, <3>2
  <2> QED
    BY <2>1, <2>2
<1> QED
  BY <1>1, <1>2, <1>3 DEF RouteInv

\* internal/alerting/routing.go and routing_catalog.go: for every rule without a
\* webhook of its own, every scan and every catalog that was saved, however late,
\* the alert goes to the team of an account with findings in scope, of those that
\* have a team one with most of them, else to that of an account of the scope,
\* and to the default team only when none has one.
THEOREM AlertReachesTeamHolds ==
  Spec => AlertReachesTeam
<1>1. DatabaseInv /\ AnswerInv /\ RuleInv /\ RouteInv /\ [Next]_vars =>
        [(alert'.phase = "done" /\ alert' # alert /\ alert'.result.rule.url = None) =>
           ReachesTeam(catalog, alert'.result.rule, alert'.result.scan,
                       disk[alert'.result.scan].findings, alert'.dest)]_alert
  <2> SUFFICES ASSUME DatabaseInv, AnswerInv, RuleInv, RouteInv, [Next]_vars,
                      alert'.phase = "done", alert' # alert, alert'.result.rule.url = None
               PROVE  ReachesTeam(catalog, alert'.result.rule, alert'.result.scan,
                                  disk[alert'.result.scan].findings, alert'.dest)
    OBVIOUS
  <2>1. \E r : /\ Hinted(r, disk)
               /\ \/ \E bullets : alert' = Routed(r, bullets)
                  \/ alert' = [phase |-> "blast", result |-> r]
    BY AlertMoves
  <2>2. PICK r : Hinted(r, disk) /\ \E bullets : alert' = Routed(r, bullets)
    BY <2>1
  <2> PICK rule, scan : rule = r.rule /\ scan = r.scan
    OBVIOUS
  <2> PICK F : F = disk[scan].findings
    OBVIOUS
  <2> PICK dest : dest = ResolveDeliveryTarget(rule, r.hints, catalog)
    OBVIOUS
  <2>3. alert'.result = r /\ alert'.dest = dest
    BY <2>2 DEF Routed
  <2>4. /\ scan \in DOMAIN disk /\ IsSequence(rule.accounts)
        /\ r.hints = routingHints(Considered(rule, scan, F))
    BY <2>2 DEF Hinted
  <2>5. Sortable(disk[scan])
    BY <2>4 DEF DatabaseInv, ExportInv
  <2>6. IsFiniteSet(F) /\ AccountsIn(F) \subseteq DOMAIN Rank
    BY <2>5 DEF Sortable, AccountIds, AccountsIn
  <2>7. ReachesTeam(catalog, rule, scan, F, dest)
    BY <2>3, <2>4, <2>6, AlertIsRouted DEF RouteInv
  <2> QED
    BY <2>3, <2>7
<1>2. Spec => []RouteInv
  BY RouteBegins, NextKeepsRoutes, AnswerKept, RulesKept, PTL DEF Spec
<1> QED
  BY <1>1, <1>2, DatabaseKept, AnswerKept, RulesKept, PTL DEF Spec, AlertReachesTeam

-----------------------------------------------------------------------------
(* What a scan says of access from outside.                                *)

\* The principals a policy names that are not of the account itself are those
\* it lets in from outside.
LEMMA OutsidersAreExtracted ==
  ASSUME NEW r, \A st \in r.trust : st.federated \subseteq DOMAIN Federated
  PROVE  extractExternalPrincipals(r.account, r.trust) = {p \in LetIn(r) : Outside(r, p)}
<1> DEFINE named == UNION {st.aws : st \in {s \in r.trust : statementAllowsAssumeRole(s)}}
           providers == UNION {st.federated : st \in {s \in r.trust : statementAllowsAssumeRole(s)}}
           normal(v) == normalizeExternalAWSPrincipal(r.account, v)
           Extracted == extractExternalPrincipals(r.account, r.trust)
           arn(v) == IF v \in Accounts THEN RootOf[v] ELSE v
           Let == LetIn(r)
<1>1. \A p : p \in Extracted <=>
        \/ \E v \in named : normal(v) # None /\ p = [type |-> "aws_account", value |-> normal(v)]
        \/ \E v \in providers : /\ classifyFederatedPrincipal(v) # None /\ v # None
                                /\ p = [type |-> classifyFederatedPrincipal(v), value |-> v]
  <2> DEFINE aws == [type : {"aws_account"}, value : {normal(v) : v \in named}]
             federated == {[type |-> classifyFederatedPrincipal(v), value |-> v] : v \in providers}
  <2>1. Extracted = {p \in aws \cup federated : None \notin {p.type, p.value}}
    BY DEF extractExternalPrincipals
  <2>2. \A p : p \in aws <=> \E v \in named : p = [type |-> "aws_account", value |-> normal(v)]
    OBVIOUS
  <2>3. \A p : p \in federated <=>
          \E v \in providers : p = [type |-> classifyFederatedPrincipal(v), value |-> v]
    OBVIOUS
  <2>4. "aws_account" # None
    BY DEF None
  <2> QED
    BY <2>1, <2>2, <2>3, <2>4
<1>2. /\ \A v : v \in named <=> \E st \in r.trust : st.allow /\ st.assume /\ v \in st.aws
      /\ \A v : v \in providers <=>
           \E st \in r.trust : st.allow /\ st.assume /\ v \in st.federated
  BY DEF statementAllowsAssumeRole
<1>3. \A p : p \in Let <=>
        \/ \E v \in Accounts \cup DOMAIN ArnAccount :
             v \in named /\ p = [type |-> "aws_account", value |-> arn(v)]
        \/ \E v \in DOMAIN Federated :
             v \in providers /\ p = [type |-> Federated[v], value |-> v]
  BY <1>2 DEF LetIn
<1>4. providers \subseteq DOMAIN Federated
  BY <1>2
<1>5. \A v : /\ normal(v) # None <=>
                  v \in Accounts \cup DOMAIN ArnAccount /\ ArnAccount[arn(v)] # r.account
             /\ normal(v) # None => normal(v) = arn(v)
             /\ v \in Accounts \cup DOMAIN ArnAccount => arn(v) \in DOMAIN ArnAccount
  BY NamesTellApart DEF normalizeExternalAWSPrincipal
<1>6. \A w \in DOMAIN ArnAccount :
        Outside(r, [type |-> "aws_account", value |-> w]) <=> ArnAccount[w] # r.account
  BY DEF Outside, AccountOf
<1>7. \A v \in DOMAIN Federated :
        /\ v # None /\ Federated[v] # None
        /\ classifyFederatedPrincipal(v) # None <=> Federated[v] # "amazonaws"
        /\ Federated[v] # "amazonaws" => classifyFederatedPrincipal(v) = Federated[v]
        /\ Outside(r, [type |-> Federated[v], value |-> v]) <=> Federated[v] # "amazonaws"
  <2>1. \A v \in DOMAIN Federated : Federated[v] \notin {None, "aws_account"} /\ v # None
    BY NamesTellApart DEF Range
  <2> QED
    BY <2>1 DEF classifyFederatedPrincipal, Outside
<1> HIDE DEF named, providers, normal, Extracted, arn, Let
<1>8. \A p : p \in Extracted <=> p \in Let /\ Outside(r, p)
  <2>1. ASSUME NEW p \in Extracted PROVE p \in Let /\ Outside(r, p)
    <3>1. CASE \E v \in named : normal(v) # None /\ p = [type |-> "aws_account", value |-> normal(v)]
      BY <1>3, <1>5, <1>6, <3>1
    <3>2. CASE \E v \in providers : /\ classifyFederatedPrincipal(v) # None /\ v # None
                                    /\ p = [type |-> classifyFederatedPrincipal(v), value |-> v]
      <4>1. PICK v \in providers : /\ classifyFederatedPrincipal(v) # None /\ v # None
                                   /\ p = [type |-> classifyFederatedPrincipal(v), value |-> v]
        BY <3>2
      <4> QED
        BY <1>3, <1>4, <1>7, <4>1
    <3> QED
      BY <1>1, <3>1, <3>2
  <2>2. ASSUME NEW p \in Let, Outside(r, p) PROVE p \in Extracted
    <3>1. CASE \E v \in Accounts \cup DOMAIN ArnAccount :
                 v \in named /\ p = [type |-> "aws_account", value |-> arn(v)]
      BY <1>1, <1>5, <1>6, <2>2, <3>1
    <3>2. CASE \E v \in DOMAIN Federated :
                 v \in providers /\ p = [type |-> Federated[v], value |-> v]
      BY <1>1, <1>7, <2>2, <3>2
    <3> QED
      BY <1>3, <2>2, <3>1, <3>2
  <2> QED
    BY <2>1, <2>2
<1> QED
  BY <1>8 DEF Extracted, Let

\* The scorer calls a role an admin exactly for what the policies that were
\* read let it do.
LEMMA AdminIsTold ==
  ASSUME NEW inputs, None \notin inputs.attached
  PROVE  /\ DeriveRolePermissionVisibility(inputs).admin \in BOOLEAN
         /\ DeriveRolePermissionVisibility(inputs).admin = TRUE <=> IsAdmin(inputs)
<1> DEFINE allows == Allows(inputs)
           allowed(family) == \E d \in inputs.inline : d.parses /\ \E st \in d.statements :
                                st.allow /\ ~st.notAction /\ family \in st.actions
           everything == \E d \in inputs.inline : d.parses /\ \E st \in d.statements :
                           st.allow /\ ~st.notAction /\ "all" \in st.actions /\ st.everything
           can == Capabilities(inputs)
           adminLike == can.all \/ (can.assume /\ can.iamWrite /\ can.cloudFront)
<1>1. \A st : st \in allows <=>
        \E d \in inputs.inline : /\ d.parses /\ st \in d.statements
                                 /\ st.allow /\ ~st.notAction /\ st.actions # {}
  BY DEF Allows, parsePermissionPolicyDocument
<1>2. /\ \A family : (\E st \in allows : family \in st.actions) <=> allowed(family)
      /\ (\E st \in allows : "all" \in st.actions /\ st.everything) <=> everything
  BY <1>1
<1>3. /\ can.all <=> everything \/ "AdministratorAccess" \in inputs.attached
      /\ can.assume <=> allowed("assume")
      /\ can.iamWrite <=> allowed("iam") \/ "IAMFullAccess" \in inputs.attached
      /\ can.cloudFront <=> allowed("cloudfront") \/ "AmazonCloudFrontFullAccess" \in inputs.attached
  BY <1>2 DEF Capabilities
<1>4. adminLike <=> IsAdmin(inputs)
  BY <1>3 DEF IsAdmin
<1>5. CASE inputs.attached = {} /\ inputs.inline = {}
  <2>1. ~ IsAdmin(inputs)
    BY <1>5 DEF IsAdmin
  <2>2. DeriveRolePermissionVisibility(inputs) = [NoVis EXCEPT !.class = "unknown"]
    BY <1>5 DEF DeriveRolePermissionVisibility
  <2> QED
    BY <2>1, <2>2 DEF NoVis
<1>6. CASE ~ (inputs.attached = {} /\ inputs.inline = {})
  <2>1. DeriveRolePermissionVisibility(inputs).admin = adminLike
    BY <1>6 DEF DeriveRolePermissionVisibility
  <2>2. adminLike \in BOOLEAN
    OBVIOUS
  <2> QED
    BY <1>4, <2>1, <2>2
<1> QED
  BY <1>5, <1>6

\* A trust is as severe as its reasons: an admin, no use for long or none that
\* is known (-1 days), an account that is not approved.
AsSevereAs(severity, admin, days, outsider) ==
  /\ severity \in {"critical", "high", "medium", "low"}
  /\ severity = "critical" <=> admin
  /\ severity = "high" <=> ~admin /\ (days = -1 \/ days > GhostAfter \/ outsider)
  /\ severity = "medium" <=> /\ ~admin /\ days >= StaleAfter
                             /\ ~ (days = -1 \/ days > GhostAfter \/ outsider)

\* What speaks against a trust, by the days since the role was used as a scan
\* knows them (-1 if it does not).
LEMMA TrustIsClassified ==
  ASSUME NEW admin \in BOOLEAN, NEW days \in Int, NEW type, NEW account,
         NEW severity, severity = classifyTrust(admin, days, type, account)[1],
         NEW outsider, outsider = (type = "aws_account" /\ account # None /\ account \notin Approved)
  PROVE  AsSevereAs(severity, admin, days, outsider)
<1>1. StaleAfter \in Nat \ {0} /\ GhostAfter \in Nat \ {0}
  BY NamesTellApart DEF StaleAfter, GhostAfter
<1> PICK base : base = activitySeverity(days, StaleAfter, GhostAfter)
  OBVIOUS
<1>2. /\ days = -1 \/ days > GhostAfter => base[1] = "high"
      /\ ~ (days = -1 \/ days > GhostAfter) /\ days >= StaleAfter => base[1] = "medium"
      /\ ~ (days = -1 \/ days > GhostAfter) /\ ~ (days >= StaleAfter) => base[1] = "low"
  BY <1>1 DEF activitySeverity
<1> PICK raised : raised = IF outsider /\ SeverityRank("high") > SeverityRank(base[1])
                           THEN <<"high", "unknown_vendor">> ELSE base
  OBVIOUS
<1>3. /\ SeverityRank("critical") = 4 /\ SeverityRank("high") = 3
      /\ SeverityRank("medium") = 2 /\ SeverityRank("low") = 1
  BY DEF SeverityRank
<1>4. raised[1] = IF outsider THEN "high" ELSE base[1]
  BY <1>2, <1>3
<1>5. severity = IF admin THEN "critical" ELSE raised[1]
  <2>1. SeverityRank("critical") > SeverityRank(raised[1])
    BY <1>2, <1>3, <1>4
  <2>2. classifyTrust(admin, days, type, account) =
          IF admin /\ SeverityRank("critical") > SeverityRank(raised[1])
          THEN <<"critical", "ghost_admin_access">> ELSE raised
    BY DEF classifyTrust
  <2> QED
    BY <2>1, <2>2
<1> PICK unseen \in BOOLEAN : unseen <=> days = -1 \/ days > GhostAfter
  OBVIOUS
<1> PICK stale \in BOOLEAN : stale <=> days >= StaleAfter
  OBVIOUS
<1>6. base[1] = IF unseen THEN "high" ELSE IF stale THEN "medium" ELSE "low"
  BY <1>2
<1>7. outsider \in BOOLEAN
  OBVIOUS
<1>8. /\ severity \in {"critical", "high", "medium", "low"}
      /\ severity = "critical" <=> admin
      /\ severity = "high" <=> ~admin /\ (unseen \/ outsider)
      /\ severity = "medium" <=> ~admin /\ stale /\ ~ (unseen \/ outsider)
  BY <1>4, <1>5, <1>6, <1>7
<1> QED
  BY <1>8 DEF AsSevereAs

\* A principal of an account outside has that account written in its ARN.
LEMMA OutsideAccountIsKnown ==
  ASSUME NEW r, NEW p \in LetIn(r), p.type = "aws_account"
  PROVE  AccountOf(p) # None
<1>1. \A v \in DOMAIN Federated : Federated[v] # "aws_account"
  BY NamesTellApart DEF Range
<1>2. \E v \in Accounts \cup DOMAIN ArnAccount :
        p = [type |-> "aws_account", value |-> IF v \in Accounts THEN RootOf[v] ELSE v]
  BY <1>1 DEF LetIn
<1>3. p.value \in DOMAIN ArnAccount
  BY <1>2, NamesTellApart
<1> QED
  BY <1>3, NamesTellApart DEF AccountOf

\* The calls for the use of a role were answered.
UseKnown(r, gone) ==
  \A c \in gone : c[1] \in {"activity", "last_used"} => c[2] \notin {r.arn, r.account}

\* The finding about a trust names role and principal; it is as severe as the
\* worst reason there is, and where the use of the role is known there is one.
LEMMA TrustIsReported ==
  ASSUME NEW r, r.days \in Int, None \notin r.attached, NEW p \in LetIn(r), NEW gone,
         NEW inputs, inputs = collectRolePermissionInputs(r, gone),
         NEW f, f = TrustFinding([role |-> r, principal |-> p], gone)
  PROVE  /\ f.role = r.arn /\ f.external = p.value /\ f.ptype = p.type
         /\ AtLeast(f.severity, Justified(r, p, inputs))
         /\ UseKnown(r, gone) => f.severity \in Justified(r, p, inputs)
<1> PICK admin : admin = DeriveRolePermissionVisibility(inputs).admin
  OBVIOUS
<1> PICK days : days = CollectActivity(r, gone)
  OBVIOUS
<1> PICK outsider : outsider = (/\ p.type = "aws_account" /\ AccountOf(p) # None
                                /\ AccountOf(p) \notin Approved)
  OBVIOUS
<1>1. /\ f.role = r.arn /\ f.external = p.value /\ f.ptype = p.type
      /\ f.severity = classifyTrust(admin, days, p.type, AccountOf(p))[1]
  BY DEF TrustFinding
<1>2. admin \in BOOLEAN /\ (admin <=> IsAdmin(inputs))
  <2>1. None \notin inputs.attached
    BY DEF collectRolePermissionInputs
  <2>2. admin \in BOOLEAN /\ (admin = TRUE <=> IsAdmin(inputs))
    BY <2>1, AdminIsTold
  <2> QED
    BY <2>2
<1>3. /\ days \in Int
      /\ days = -1 \/ (r.used /\ days = IF r.days < 0 THEN 0 ELSE r.days)
      /\ days = -1 /\ UseKnown(r, gone) => ~ r.used
  <2>1. Max({r.days, 0}) = IF r.days < 0 THEN 0 ELSE r.days
    BY MaxOfTwo
  <2>2. UseKnown(r, gone) =>
          {<<"activity", r.account, None>>, <<"last_used", r.arn, None>>} \cap gone = {}
    BY DEF UseKnown
  <2> QED
    BY <2>1, <2>2 DEF CollectActivity
<1>4. outsider <=> p.type = "aws_account" /\ AccountOf(p) \notin Approved
  BY OutsideAccountIsKnown
<1>5. /\ f.severity \in {"critical", "high", "medium", "low"}
      /\ f.severity = "critical" <=> admin
      /\ f.severity = "high" <=> ~admin /\ (days = -1 \/ days > GhostAfter \/ outsider)
      /\ f.severity = "medium" <=> /\ ~admin /\ days >= StaleAfter
                                   /\ ~ (days = -1 \/ days > GhostAfter \/ outsider)
  <2>1. AsSevereAs(f.severity, admin, days, outsider)
    BY <1>1, <1>2, <1>3, TrustIsClassified
  <2> QED
    BY <2>1 DEF AsSevereAs
<1>6. StaleAfter \in Nat \ {0} /\ GhostAfter \in Nat \ {0}
  BY NamesTellApart DEF StaleAfter, GhostAfter
<1>7. /\ Justified(r, p, inputs) \subseteq {"critical", "high", "medium", "low"}
      /\ "critical" \in Justified(r, p, inputs) <=> admin
      /\ "high" \in Justified(r, p, inputs) <=> ~r.used \/ r.days > GhostAfter \/ outsider
      /\ "medium" \in Justified(r, p, inputs) <=> r.days >= StaleAfter
      /\ "low" \in Justified(r, p, inputs)
  BY <1>2, <1>4 DEF Justified
<1>8. /\ SeverityRank("critical") = 4 /\ SeverityRank("high") = 3
      /\ SeverityRank("medium") = 2 /\ SeverityRank("low") = 1
  BY DEF SeverityRank
<1>9. ASSUME NEW s \in Justified(r, p, inputs)
      PROVE  SeverityRank(f.severity) >= SeverityRank(s)
  <2>1. CASE s = "critical"
    BY <1>5, <1>7, <1>8, <1>9, <2>1
  <2>2. CASE s = "high"
    BY <1>3, <1>5, <1>6, <1>7, <1>8, <1>9, <2>2
  <2>3. CASE s = "medium"
    BY <1>3, <1>5, <1>6, <1>7, <1>8, <1>9, <2>3
  <2>4. CASE s = "low"
    BY <1>5, <1>8, <2>4
  <2> QED
    BY <1>7, <1>9, <2>1, <2>2, <2>3, <2>4
<1>10. ASSUME UseKnown(r, gone) PROVE f.severity \in Justified(r, p, inputs)
  <2>1. CASE f.severity = "high"
    BY <1>3, <1>5, <1>6, <1>7, <1>10, <2>1
  <2>2. CASE f.severity = "medium"
    BY <1>3, <1>5, <1>6, <1>7, <1>10, <2>2
  <2> QED
    BY <1>5, <1>7, <2>1, <2>2
<1> QED
  BY <1>1, <1>9, <1>10 DEF AtLeast

FindingsOf(aws, gone) ==
  ScoreTrust(aws, gone) \cup ScoreResourceExposure(CollectBucketPolicies(aws, gone).grants)
    \cup aws.edge.findings
About(r, found) == {f \in found : f.role = r.arn}
OutsidersOf(r) == {p \in LetIn(r) : Outside(r, p)}
TrustOf(r, p, gone) == TrustFinding([role |-> r, principal |-> p], gone)

\* The findings about a role that was listed are one for each outsider.
LEMMA OneForEachOutsider ==
  ASSUME NEW aws, CloudSound(aws), NEW gone, NEW r \in aws.roles,
         <<"roles", r.account, None>> \notin gone,
         NEW about, about = About(r, FindingsOf(aws, gone))
  PROVE  /\ \A p \in OutsidersOf(r) : TrustOf(r, p, gone) \in about
         /\ Cardinality(about) = Cardinality(OutsidersOf(r))
<1> PICK out : out = OutsidersOf(r)
  OBVIOUS
<1>1. \A q \in aws.roles : extractExternalPrincipals(q.account, q.trust) = OutsidersOf(q)
  <2>1. \A q \in aws.roles : \A st \in q.trust : st.federated \subseteq DOMAIN Federated
    BY DEF CloudSound
  <2> QED
    BY <2>1, OutsidersAreExtracted DEF OutsidersOf
<1>2. /\ \A q \in aws.roles : q.arn = r.arn => q = r
      /\ r.arn # None /\ IsFiniteSet(r.trust)
      /\ \A st \in r.trust : IsFiniteSet(st.aws) /\ IsFiniteSet(st.federated)
      /\ \A f \in aws.edge.findings : f.role = None
  BY DEF CloudSound
<1>3. \A p \in out : p \in DOMAIN PrincipalArn /\ <<r.arn, PrincipalArn[p]>> \in DOMAIN FindingId
  BY <1>1 DEF CloudSound
<1>4. IsFiniteSet(out)
  BY <1>1, <1>2, PrincipalsAreFinite
<1>5. \A p : TrustOf(r, p, gone).role = r.arn
             /\ TrustOf(r, p, gone).id = FindingId[<<r.arn, PrincipalArn[p]>>]
  BY DEF TrustOf, TrustFinding
<1>6. \A t : t \in RoleTrusts(aws, gone) <=>
        \E q \in TrustingRoles(aws, gone) : \E p \in OutsidersOf(q) :
          t = [role |-> q, principal |-> p]
  <2>1. \A t : t \in RoleTrusts(aws, gone) <=>
          \E q \in TrustingRoles(aws, gone) :
            \E p \in extractExternalPrincipals(q.account, q.trust) : t = [role |-> q, principal |-> p]
    BY DEF RoleTrusts
  <2>2. TrustingRoles(aws, gone) \subseteq aws.roles
    BY DEF TrustingRoles
  <2> QED
    BY <1>1, <2>1, <2>2
<1>7. ASSUME NEW p \in out PROVE TrustOf(r, p, gone) \in about
  <2>1. r \in TrustingRoles(aws, gone)
    BY <1>1, <1>7 DEF TrustingRoles
  <2>2. [role |-> r, principal |-> p] \in RoleTrusts(aws, gone)
    BY <1>6, <2>1
  <2>3. TrustOf(r, p, gone) \in ScoreTrust(aws, gone)
    BY <2>2 DEF ScoreTrust, TrustOf
  <2> QED
    BY <1>5, <2>3 DEF FindingsOf, About
<1>8. ASSUME NEW f \in about PROVE \E p \in out : f = TrustOf(r, p, gone)
  <2>0. f \in FindingsOf(aws, gone) /\ f.role = r.arn
    BY DEF About
  <2>1. f \notin aws.edge.findings
    BY <1>2, <2>0
  <2>2. \A g : ExposureFinding(g).role = None
    BY DEF ExposureFinding
  <2>3. f \notin ScoreResourceExposure(CollectBucketPolicies(aws, gone).grants)
    BY <1>2, <2>0, <2>2 DEF ScoreResourceExposure
  <2>4. PICK t \in RoleTrusts(aws, gone) : f = TrustFinding(t, gone)
    BY <2>0, <2>1, <2>3 DEF FindingsOf, ScoreTrust
  <2>5. PICK q \in TrustingRoles(aws, gone) :
          \E p \in OutsidersOf(q) : t = [role |-> q, principal |-> p]
    BY <1>6
  <2> PICK p \in OutsidersOf(q) : t = [role |-> q, principal |-> p]
    BY <2>5
  <2>6. q \in aws.roles /\ f = TrustOf(q, p, gone) /\ TrustOf(q, p, gone).role = q.arn
    BY <2>4, <2>5 DEF TrustingRoles, TrustOf, TrustFinding
  <2>7. q = r
    BY <1>2, <2>0, <2>6
  <2> QED
    BY <2>5, <2>6, <2>7
<1> PICK h : h = [p \in out |-> TrustOf(r, p, gone)]
  OBVIOUS
<1>9. \A p, q \in out : h[p] = h[q] => p = q
  <2> SUFFICES ASSUME NEW p \in out, NEW q \in out, h[p] = h[q] PROVE p = q
    OBVIOUS
  <2>1. FindingId[<<r.arn, PrincipalArn[p]>>] = FindingId[<<r.arn, PrincipalArn[q]>>]
    BY <1>5
  <2>2. PrincipalArn[p] = PrincipalArn[q]
    BY <1>3, <2>1, FindingIdTells
  <2> QED
    BY <1>3, <2>2, IdsTellApart DEF IsInjective
<1>10. h \in Bijection(out, about)
  BY <1>7, <1>8, <1>9 DEF Bijection, Injection, Surjection, IsInjective
<1>11. Cardinality(about) = Cardinality(out)
  BY <1>4, <1>10, FS_Bijection DEF ExistsBijection
<1> QED
  BY <1>7, <1>11

\* What a grant to everybody or to an account is called.
ExposureOf(p, write) ==
  IF p.type = "public" THEN (IF write THEN "critical" ELSE "high")
  ELSE IF AccountOf(p) \in Approved THEN "low" ELSE IF write THEN "high" ELSE "medium"

\* A statement that allows something is in a finding for each principal it is
\* for.
LEMMA EachGrantIsScored ==
  ASSUME NEW aws, NEW gone, NEW b \in aws.buckets, NEW i \in DOMAIN b.policy,
         {<<"policy", b.arn, None>>, <<"denied", b.arn, None>>} \cap gone = {},
         b.policy[i].allow, NEW p \in Grantees(b.account, b.policy[i])
  PROVE  \E f \in FindingsOf(aws, gone) :
           /\ f.arn = b.arn /\ f.extAccount = AccountOf(p)
           /\ f.severity = ExposureOf(p, b.policy[i].write)
<1> PICK g : g = [bucket |-> b, principal |-> p, write |-> b.policy[i].write, nth |-> i]
  OBVIOUS
<1>1. g \in externalGrantsFromBucketPolicy(b)
  BY DEF externalGrantsFromBucketPolicy
<1>2. g \in CollectBucketPolicies(aws, gone).grants
  BY <1>1 DEF CollectBucketPolicies
<1>3. ExposureFinding(g) \in FindingsOf(aws, gone)
  BY <1>2 DEF ScoreResourceExposure, FindingsOf
<1>4. /\ ExposureFinding(g).arn = b.arn /\ ExposureFinding(g).extAccount = AccountOf(p)
      /\ ExposureFinding(g).severity = ExposureOf(p, b.policy[i].write)
  BY DEF ExposureFinding, classifyResourceExposure, ExposureOf
<1> QED
  BY <1>3, <1>4

\* Open to everybody, or to anybody who signs in.
LEMMA PublicIsGranted ==
  ASSUME NEW account, NEW st, st.everyone \/ "*" \in st.aws
  PROVE  Public \in Grantees(account, st) /\ AccountOf(Public) = None
<1>1. Public.value # None /\ AccountOf(Public) = None
  BY DEF Public, None, AccountOf
<1> QED
  BY <1>1 DEF Grantees

\* Open to an account outside, by its id or by its root.
LEMMA AccountIsGranted ==
  ASSUME NEW account, NEW st, ~ st.everyone, NEW a \in Accounts, a # account,
         {a, RootOf[a]} \cap st.aws # {}
  PROVE  LET p == [type |-> "aws_account", value |-> RootOf[a]]
         IN  p \in Grantees(account, st) /\ AccountOf(p) = a
<1> PICK p : p = [type |-> "aws_account", value |-> RootOf[a]]
  OBVIOUS
<1>1. /\ RootOf[a] \in DOMAIN ArnAccount /\ ArnAccount[RootOf[a]] = a /\ RootOf[a] \notin Accounts
      /\ a \notin DOMAIN ArnAccount /\ RootOf[a] # None /\ RootOf[a] # "*" /\ a # "*"
  BY NamesTellApart
<1>2. /\ normalizeExternalAWSPrincipal(account, a) = RootOf[a]
      /\ normalizeExternalAWSPrincipal(account, RootOf[a]) = RootOf[a]
  BY <1>1 DEF normalizeExternalAWSPrincipal
<1>3. PICK v \in st.aws : v \in {a, RootOf[a]}
  OBVIOUS
<1>4. v # "*" /\ normalizeExternalAWSPrincipal(account, v) = RootOf[a]
  BY <1>1, <1>2, <1>3
<1>5. p \in Grantees(account, st)
  BY <1>1, <1>4 DEF Grantees
<1>6. AccountOf(p) = a
  BY <1>1 DEF AccountOf
<1> QED
  BY <1>5, <1>6

\* The artifacts of a scan, and its verdict on access from outside, are those
\* of what AWS said and of the calls that were lost.
Scanned(aws, gone, art) ==
  art.findings = FindingsOf(aws, gone) /\ art.failed = CollectBucketPolicies(aws, gone).failed

ScanInv ==
  /\ \A scan \in DOMAIN cloud : CloudSound(cloud[scan])
  /\ DOMAIN lost \subseteq DOMAIN disk \cap DOMAIN cloud
  /\ \A scan \in DOMAIN lost : Scanned(cloud[scan], lost[scan], disk[scan])

\* No scan has run at the start.
LEMMA ScanBegins ==
  Init => ScanInv
<1> SUFFICES ASSUME Init PROVE ScanInv
  OBVIOUS
<1>1. lost = Empty /\ DOMAIN Empty = {}
  BY DEF Init, Empty
<1>2. \A scan \in DOMAIN cloud : CloudSound(cloud[scan])
  BY WorldsAssumption DEF Init
<1> QED
  BY <1>1, <1>2 DEF ScanInv

\* A scan is not taken twice, and nothing else touches what it left.
LEMMA NextKeepsScans ==
  ScanInv /\ [Next]_vars => ScanInv'
<1> SUFFICES ASSUME ScanInv, [Next]_vars PROVE ScanInv'
  OBVIOUS
<1>1. CASE \E scan \in DOMAIN cloud : RunScan(scan)
  <2> PICK scan : RunScan(scan)
    BY <1>1
  <2>1. scan \in DOMAIN cloud \ DOMAIN disk /\ cloud' = cloud
    BY DEF RunScan
  <2>2. PICK gone : lost' = Merge(lost, scan, gone)
                /\ \E keep \in Keepers(RoleTrusts(cloud[scan], gone)) :
                     disk' = Merge(disk, scan, Artifacts(cloud[scan], gone, keep))
    BY DEF RunScan
  <2>3. PICK art : disk' = Merge(disk, scan, art) /\ Scanned(cloud[scan], gone, art)
    <3>1. PICK keep \in Keepers(RoleTrusts(cloud[scan], gone)) :
            disk' = Merge(disk, scan, Artifacts(cloud[scan], gone, keep))
      BY <2>2
    <3>2. Scanned(cloud[scan], gone, Artifacts(cloud[scan], gone, keep))
      BY DEF Scanned, Artifacts, FindingsOf
    <3> QED
      BY <3>1, <3>2
  <2>4. /\ DOMAIN disk' = DOMAIN disk \cup {scan} /\ disk'[scan] = art
        /\ \A s \in DOMAIN disk : disk'[s] = disk[s]
        /\ DOMAIN lost' = DOMAIN lost \cup {scan} /\ lost'[scan] = gone
        /\ \A s \in DOMAIN lost : lost'[s] = lost[s]
    BY <2>1, <2>2, <2>3 DEF Merge, Over, ScanInv
  <2> QED
    BY <2>1, <2>3, <2>4 DEF ScanInv
<1>2. CASE UNCHANGED <<disk, scanVars>>
  BY <1>2 DEF ScanInv, scanVars
<1>3. CASE (\E e \in Exporters : ExportStep(e)) /\ UNCHANGED scanVars
  <2>1. UNCHANGED <<disk, scanVars>>
    BY <1>3 DEF ExportStep, BeginWrite, RunStatement, WriteFails, DropStale, Project, Analyse,
                Release, Deadline, ExporterDies
  <2> QED
    BY <1>2, <2>1
<1> QED
  BY <1>1, <1>2, <1>3 DEF Next, vars

\* Everybody outside who may assume a role is in a finding of its own, and only
\* they are.
RoleReported(r, gone, found) ==
  LET inputs == collectRolePermissionInputs(r, gone)
  IN  /\ \A p \in OutsidersOf(r) : \E f \in About(r, found) :
           /\ f.external = p.value /\ f.ptype = p.type
           /\ AtLeast(f.severity, Justified(r, p, inputs))
           /\ UseKnown(r, gone) => f.severity \in Justified(r, p, inputs)
      /\ Cardinality(About(r, found)) = Cardinality(OutsidersOf(r))

\* What a bucket is open to is in a finding.
Reported(b, severity, account, found) ==
  \E f \in found : f.arn = b.arn /\ f.extAccount = account /\ AtLeast(f.severity, {severity})

GrantReported(b, st, found) ==
  /\ st.everyone \/ "*" \in st.aws =>
       Reported(b, IF st.write THEN "critical" ELSE "high", None, found)
  /\ ~st.everyone =>
       \A a \in {x \in Accounts \ {b.account} : {x, RootOf[x]} \cap st.aws # {}} :
         Reported(b, IF a \in Approved THEN "low" ELSE IF st.write THEN "high" ELSE "medium",
                  a, found)

\* The findings about a role are as they have to be.
LEMMA RolesAreReported ==
  ASSUME NEW aws, CloudSound(aws), NEW gone, NEW r \in aws.roles,
         <<"roles", r.account, None>> \notin gone
  PROVE  RoleReported(r, gone, FindingsOf(aws, gone))
<1> PICK about : about = About(r, FindingsOf(aws, gone))
  OBVIOUS
<1> PICK inputs : inputs = collectRolePermissionInputs(r, gone)
  OBVIOUS
<1>1. /\ \A p \in OutsidersOf(r) : TrustOf(r, p, gone) \in about
      /\ Cardinality(about) = Cardinality(OutsidersOf(r))
  BY OneForEachOutsider
<1>2. r.days \in Int /\ None \notin r.attached
  BY DEF CloudSound
<1>3. ASSUME NEW p \in OutsidersOf(r), NEW f, f = TrustOf(r, p, gone)
      PROVE  /\ f.external = p.value /\ f.ptype = p.type
             /\ AtLeast(f.severity, Justified(r, p, inputs))
             /\ UseKnown(r, gone) => f.severity \in Justified(r, p, inputs)
  <2>1. p \in LetIn(r)
    BY DEF OutsidersOf
  <2> QED
    BY <1>2, <1>3, <2>1, TrustIsReported DEF TrustOf
<1> QED
  BY <1>1, <1>3 DEF RoleReported

\* The findings about a statement of a bucket are as they have to be.
LEMMA GrantsAreReported ==
  ASSUME NEW aws, NEW gone, NEW b \in aws.buckets, NEW i \in DOMAIN b.policy,
         {<<"policy", b.arn, None>>, <<"denied", b.arn, None>>} \cap gone = {},
         b.policy[i].allow
  PROVE  GrantReported(b, b.policy[i], FindingsOf(aws, gone))
<1> PICK st : st = b.policy[i]
  OBVIOUS
<1> PICK found : found = FindingsOf(aws, gone)
  OBVIOUS
<1>1. \A s : AtLeast(s, {s})
  <2>1. \A s : SeverityRank(s) \in Nat
    BY DEF SeverityRank
  <2> QED
    BY <2>1 DEF AtLeast
<1>2. ASSUME NEW p \in Grantees(b.account, st)
      PROVE  Reported(b, ExposureOf(p, st.write), AccountOf(p), found)
  BY <1>1, EachGrantIsScored DEF Reported
<1>3. ASSUME st.everyone \/ "*" \in st.aws
      PROVE  Reported(b, IF st.write THEN "critical" ELSE "high", None, found)
  <2>1. Public \in Grantees(b.account, st) /\ AccountOf(Public) = None
    BY <1>3, PublicIsGranted
  <2>2. ExposureOf(Public, st.write) = IF st.write THEN "critical" ELSE "high"
    BY DEF Public, ExposureOf
  <2> QED
    BY <1>2, <2>1, <2>2
<1>4. ASSUME ~ st.everyone, NEW a \in Accounts, a # b.account, {a, RootOf[a]} \cap st.aws # {}
      PROVE  Reported(b, IF a \in Approved THEN "low" ELSE IF st.write THEN "high" ELSE "medium",
                      a, found)
  <2> PICK p : p = [type |-> "aws_account", value |-> RootOf[a]]
    OBVIOUS
  <2>1. p \in Grantees(b.account, st) /\ AccountOf(p) = a
    BY <1>4, AccountIsGranted
  <2>2. ExposureOf(p, st.write) =
          IF a \in Approved THEN "low" ELSE IF st.write THEN "high" ELSE "medium"
    BY <2>1 DEF ExposureOf
  <2> QED
    BY <1>2, <2>1, <2>2
<1> QED
  BY <1>3, <1>4 DEF GrantReported

\* What was read of the policies of roles and buckets is told as it is.
LEMMA OutsidersAreReported ==
  ScanInv => OutsidersReported
<1> SUFFICES ASSUME ScanInv PROVE OutsidersReported
  OBVIOUS
<1> SUFFICES ASSUME NEW scan \in DOMAIN lost,
                    NEW aws, aws = cloud[scan], NEW gone, gone = lost[scan],
                    NEW found, found = disk[scan].findings
             PROVE
        /\ \A r \in {q \in aws.roles : <<"roles", q.account, None>> \notin gone} :
             LET inputs == collectRolePermissionInputs(r, gone)
                 about == {f \in found : f.role = r.arn}
             IN
             /\ \A p \in LetIn(r) : Outside(r, p) =>
                  \E f \in about :
                    /\ f.external = p.value /\ f.ptype = p.type
                    /\ AtLeast(f.severity, Justified(r, p, inputs))
                    /\ UseKnown(r, gone) => f.severity \in Justified(r, p, inputs)
             /\ Cardinality(about) = Cardinality({p \in LetIn(r) : Outside(r, p)})
        /\ \A b \in aws.buckets : \A i \in DOMAIN b.policy :
             /\ {<<"policy", b.arn, None>>, <<"denied", b.arn, None>>} \cap gone = {}
             /\ b.policy[i].allow
             => GrantReported(b, b.policy[i], found)
        /\ \A b \in aws.buckets : <<"denied", b.arn, None>> \in gone =>
             b.account \in disk[scan].failed
  BY DEF OutsidersReported, UseKnown, GrantReported, Reported
<1>1. CloudSound(aws) /\ Scanned(aws, gone, disk[scan])
  BY DEF ScanInv
<1>2. found = FindingsOf(aws, gone)
  BY <1>1 DEF Scanned
<1>3. \A r \in aws.roles : <<"roles", r.account, None>> \notin gone => RoleReported(r, gone, found)
  BY <1>1, <1>2, RolesAreReported
<1>4. \A b \in aws.buckets : \A i \in DOMAIN b.policy :
        /\ {<<"policy", b.arn, None>>, <<"denied", b.arn, None>>} \cap gone = {}
        /\ b.policy[i].allow
        => GrantReported(b, b.policy[i], found)
  BY <1>2, GrantsAreReported
<1>5. \A b \in aws.buckets : <<"denied", b.arn, None>> \in gone => b.account \in disk[scan].failed
  BY <1>1 DEF Scanned, CollectBucketPolicies
<1>6. ASSUME NEW r \in aws.roles, <<"roles", r.account, None>> \notin gone,
             NEW inputs, inputs = collectRolePermissionInputs(r, gone),
             NEW about, about = {f \in found : f.role = r.arn}
      PROVE  /\ \A p \in LetIn(r) : Outside(r, p) =>
                  \E f \in about :
                    /\ f.external = p.value /\ f.ptype = p.type
                    /\ AtLeast(f.severity, Justified(r, p, inputs))
                    /\ UseKnown(r, gone) => f.severity \in Justified(r, p, inputs)
             /\ Cardinality(about) = Cardinality({p \in LetIn(r) : Outside(r, p)})
  <2>1. RoleReported(r, gone, found) /\ about = About(r, found)
    BY <1>3, <1>6 DEF About
  <2> QED
    BY <1>6, <2>1 DEF RoleReported, OutsidersOf
<1> QED
  BY <1>4, <1>5, <1>6

\* Whatever AWS says of roles and buckets, and whatever calls are lost: whoever
\* outside may assume a role is in a finding of its own, as severe as the worst
\* reason there is against it, a bucket open to outsiders is, and a denied policy
\* shows in the coverage.
THEOREM OutsidersReportedHolds ==
  Spec => []OutsidersReported
<1>1. Spec => []ScanInv
  BY ScanBegins, NextKeepsScans, PTL DEF Spec
<1> QED
  BY <1>1, OutsidersAreReported, PTL

-----------------------------------------------------------------------------
(* The alert about stale trust.                                            *)

\* No use of a role is known, or none for long.
Unused(r, gone) ==
  \/ ~r.used \/ r.days > GhostAfter
  \/ {<<"activity", r.account, None>>, <<"last_used", r.arn, None>>} \cap gone # {}

\* What the rule counts.
StaleMatch(f) ==
  f.module = "external_access" /\ isStale(f) /\ (f.vis.class = "privileged" \/ f.vis.admin)

\* A role that is no admin is called privileged exactly for what the policies
\* let it do.
LEMMA PrivilegeIsTold ==
  ASSUME NEW inputs, None \notin inputs.attached, ~ IsAdmin(inputs)
  PROVE  DeriveRolePermissionVisibility(inputs).class = "privileged" <=> ReadAsPrivileged(inputs)
<1> DEFINE allows == Allows(inputs)
           allowed(family) == \E d \in inputs.inline : d.parses /\ \E st \in d.statements :
                                st.allow /\ ~st.notAction /\ family \in st.actions
           everything == \E d \in inputs.inline : d.parses /\ \E st \in d.statements :
                           st.allow /\ ~st.notAction /\ "all" \in st.actions /\ st.everything
           parsed == parsePermissionPolicyDocument(inputs) = inputs.inline
<1> PICK can : can = Capabilities(inputs)
  OBVIOUS
<1>1. \A st : st \in allows <=>
        \E d \in inputs.inline : /\ d.parses /\ st \in d.statements
                                 /\ st.allow /\ ~st.notAction /\ st.actions # {}
  BY DEF Allows, parsePermissionPolicyDocument
<1>2. /\ \A family : (\E st \in allows : family \in st.actions) <=> allowed(family)
      /\ (\E st \in allows : "all" \in st.actions /\ st.everything) <=> everything
  BY <1>1
<1>3. /\ can.all <=> everything \/ "AdministratorAccess" \in inputs.attached
      /\ can.assume <=> allowed("assume")
      /\ can.iamWrite <=> allowed("iam") \/ "IAMFullAccess" \in inputs.attached
      /\ can.all \in BOOLEAN /\ can.assume \in BOOLEAN /\ can.iamWrite \in BOOLEAN
  BY <1>2 DEF Capabilities
<1>4. ~ can.all
  BY <1>3 DEF IsAdmin
<1>5. parsed <=> \A d \in inputs.inline : d.parses
  BY DEF parsePermissionPolicyDocument
<1>6. ReadAsPrivileged(inputs) <=> parsed /\ can.assume /\ can.iamWrite
  BY <1>3, <1>5 DEF ReadAsPrivileged
<1>7. CASE inputs.attached = {} /\ inputs.inline = {}
  <2>1. ~ can.assume
    BY <1>3, <1>7
  <2>2. DeriveRolePermissionVisibility(inputs) = [NoVis EXCEPT !.class = "unknown"]
    BY <1>7 DEF DeriveRolePermissionVisibility
  <2>3. DeriveRolePermissionVisibility(inputs).class = "unknown"
    BY <2>2 DEF NoVis
  <2> QED
    BY <1>6, <2>1, <2>3
<1>8. CASE ~ (inputs.attached = {} /\ inputs.inline = {})
  <2> DEFINE rest == IF can.iamWrite \/ can.s3Write \/ can.cloudFront \/ can.assume
                     THEN "scoped" ELSE IF Allows(inputs) # {} THEN "limited" ELSE "unknown"
             tier == CASE can.all -> "admin"
                       [] ~can.all /\ can.iamWrite /\ can.assume -> "privileged"
                       [] OTHER -> rest
  <2>1. DeriveRolePermissionVisibility(inputs).class = IF ~parsed /\ ~can.all THEN "unknown" ELSE tier
    BY <1>8 DEF DeriveRolePermissionVisibility
  <2>2. rest # "privileged"
    OBVIOUS
  <2> HIDE DEF rest
  <2>3. tier = "privileged" <=> can.iamWrite /\ can.assume
    BY <1>3, <1>4, <2>2
  <2> HIDE DEF tier
  <2> QED
    BY <1>4, <1>6, <2>1, <2>3
<1> QED
  BY <1>7, <1>8

\* A trust is called stale for no reason but the use of the role.
LEMMA StaleIsTold ==
  ASSUME NEW admin \in BOOLEAN, NEW days \in Int, NEW type, NEW account,
         NEW verdict, verdict = classifyTrust(admin, days, type, account)[2]
  PROVE  verdict = "stale_review_now" <=> ~admin /\ (days = -1 \/ days > GhostAfter)
<1>1. StaleAfter \in Nat \ {0} /\ GhostAfter \in Nat \ {0}
  BY NamesTellApart DEF StaleAfter, GhostAfter
<1> PICK base : base = activitySeverity(days, StaleAfter, GhostAfter)
  OBVIOUS
<1> PICK unseen \in BOOLEAN : unseen <=> days = -1 \/ days > GhostAfter
  OBVIOUS
<1>2. /\ unseen => base = <<"high", "stale_review_now">>
      /\ ~unseen => base \in {<<"medium", "aging">>, <<"low", "active">>}
  BY <1>1 DEF activitySeverity
<1> PICK outsider \in BOOLEAN :
      outsider <=> type = "aws_account" /\ account # None /\ account \notin Approved
  OBVIOUS
<1> PICK raised : raised = IF outsider /\ SeverityRank("high") > SeverityRank(base[1])
                           THEN <<"high", "unknown_vendor">> ELSE base
  OBVIOUS
<1>3. /\ SeverityRank("critical") = 4 /\ SeverityRank("high") = 3
      /\ SeverityRank("medium") = 2 /\ SeverityRank("low") = 1
  BY DEF SeverityRank
<1>4. /\ unseen => raised = <<"high", "stale_review_now">>
      /\ ~unseen => raised \in {<<"high", "unknown_vendor">>, <<"medium", "aging">>,
                                <<"low", "active">>}
  BY <1>2, <1>3
<1>5. classifyTrust(admin, days, type, account) =
        IF admin /\ SeverityRank("critical") > SeverityRank(raised[1])
        THEN <<"critical", "ghost_admin_access">> ELSE raised
  BY DEF classifyTrust
<1>6. SeverityRank("critical") > SeverityRank(raised[1])
  BY <1>3, <1>4
<1>7. verdict = IF admin THEN "ghost_admin_access" ELSE raised[2]
  BY <1>5, <1>6
<1>8. verdict = "stale_review_now" <=> ~admin /\ unseen
  BY <1>4, <1>7
<1> QED
  BY <1>8

\* The finding about a trust counts exactly if the role is unused and privileged.
LEMMA StaleTrustMatches ==
  ASSUME NEW r, r.days \in Int, None \notin r.attached, NEW p, NEW gone,
         NEW inputs, inputs = collectRolePermissionInputs(r, gone)
  PROVE  StaleMatch(TrustOf(r, p, gone)) <=> Unused(r, gone) /\ ReadAsPrivileged(inputs)
<1> PICK vis : vis = DeriveRolePermissionVisibility(inputs)
  OBVIOUS
<1> PICK days : days = CollectActivity(r, gone)
  OBVIOUS
<1> PICK f : f = TrustOf(r, p, gone)
  OBVIOUS
<1>1. /\ f.module = "external_access" /\ f.vis = vis
      /\ f.verdict = classifyTrust(vis.admin, days, p.type, AccountOf(p))[2]
  BY DEF TrustOf, TrustFinding
<1>2. /\ vis.admin \in BOOLEAN /\ (vis.admin = TRUE <=> IsAdmin(inputs))
      /\ ~ IsAdmin(inputs) => (vis.class = "privileged" <=> ReadAsPrivileged(inputs))
  <2>1. None \notin inputs.attached
    BY DEF collectRolePermissionInputs
  <2> QED
    BY <2>1, AdminIsTold, PrivilegeIsTold
<1>3. days \in Int /\ (days = -1 \/ days > GhostAfter <=> Unused(r, gone))
  <2>1. Max({r.days, 0}) = IF r.days < 0 THEN 0 ELSE r.days
    BY MaxOfTwo
  <2>2. GhostAfter \in Nat \ {0}
    BY NamesTellApart DEF GhostAfter
  <2> QED
    BY <2>1, <2>2 DEF CollectActivity, Unused
<1>4. f.verdict = "stale_review_now" <=> ~ IsAdmin(inputs) /\ Unused(r, gone)
  <2>1. f.verdict = "stale_review_now" <=> ~ vis.admin /\ (days = -1 \/ days > GhostAfter)
    BY <1>1, <1>2, <1>3, StaleIsTold
  <2> QED
    BY <1>2, <1>3, <2>1
<1>5. StaleMatch(f) <=> /\ ~ IsAdmin(inputs) /\ Unused(r, gone)
                        /\ vis.class = "privileged" \/ vis.admin
  BY <1>1, <1>4 DEF StaleMatch, isStale
<1> QED
  BY <1>2, <1>5 DEF ReadAsPrivileged

\* Of what a scan found, the rule counts something exactly if somebody outside
\* may assume an unused role that is privileged.
LEMMA StaleIsCounted ==
  ASSUME NEW aws, CloudSound(aws), NEW gone
  PROVE  (\E f \in FindingsOf(aws, gone) : StaleMatch(f)) <=>
           \E r \in aws.roles : /\ <<"roles", r.account, None>> \notin gone
                                /\ OutsidersOf(r) # {} /\ Unused(r, gone)
                                /\ ReadAsPrivileged(collectRolePermissionInputs(r, gone))
<1>1. /\ \A r \in aws.roles : /\ r.arn # None /\ r.days \in Int /\ None \notin r.attached
                              /\ \A st \in r.trust : st.federated \subseteq DOMAIN Federated
      /\ \A f \in aws.edge.findings : f.module = "orphaned_edge"
  BY DEF CloudSound
<1>2. \A r \in aws.roles : \A p :
        StaleMatch(TrustOf(r, p, gone)) <=>
          Unused(r, gone) /\ ReadAsPrivileged(collectRolePermissionInputs(r, gone))
  BY <1>1, StaleTrustMatches
<1>3. ASSUME NEW f \in FindingsOf(aws, gone), StaleMatch(f)
      PROVE  \E r \in aws.roles : /\ <<"roles", r.account, None>> \notin gone
                                  /\ OutsidersOf(r) # {} /\ Unused(r, gone)
                                  /\ ReadAsPrivileged(collectRolePermissionInputs(r, gone))
  <2>1. f \notin aws.edge.findings
    BY <1>1, <1>3 DEF StaleMatch
  <2>2. ASSUME NEW g PROVE ~ isStale(ExposureFinding(g))
    <3> PICK public \in BOOLEAN : public <=> g.principal.type = "public"
      OBVIOUS
    <3> PICK approved \in BOOLEAN :
          approved <=> AccountOf(g.principal) \in Approved
      OBVIOUS
    <3> PICK verdict : verdict = classifyResourceExposure(public, g.write, approved)[2]
      OBVIOUS
    <3>1. verdict # "stale_review_now"
      BY DEF classifyResourceExposure
    <3>2. ExposureFinding(g).verdict = verdict
      BY DEF ExposureFinding
    <3> QED
      BY <3>1, <3>2 DEF isStale
  <2>3. f \notin ScoreResourceExposure(CollectBucketPolicies(aws, gone).grants)
    BY <1>3, <2>2 DEF ScoreResourceExposure, StaleMatch
  <2>4. PICK t \in RoleTrusts(aws, gone) : f = TrustFinding(t, gone)
    BY <2>1, <2>3 DEF FindingsOf, ScoreTrust
  <2>5. PICK r \in TrustingRoles(aws, gone) :
          \E p \in extractExternalPrincipals(r.account, r.trust) : t = [role |-> r, principal |-> p]
    BY DEF RoleTrusts
  <2> PICK p \in extractExternalPrincipals(r.account, r.trust) : t = [role |-> r, principal |-> p]
    BY <2>5
  <2>6. r \in aws.roles /\ <<"roles", r.account, None>> \notin gone
    BY DEF TrustingRoles
  <2>7. extractExternalPrincipals(r.account, r.trust) = OutsidersOf(r)
    BY <1>1, <2>6, OutsidersAreExtracted DEF OutsidersOf
  <2>8. StaleMatch(TrustOf(r, p, gone))
    BY <1>3, <2>4 DEF TrustOf
  <2> QED
    BY <1>2, <2>6, <2>7, <2>8
<1>4. ASSUME NEW r \in aws.roles, <<"roles", r.account, None>> \notin gone,
             NEW p \in OutsidersOf(r), Unused(r, gone),
             ReadAsPrivileged(collectRolePermissionInputs(r, gone))
      PROVE  \E f \in FindingsOf(aws, gone) : StaleMatch(f)
  <2>1. TrustOf(r, p, gone) \in About(r, FindingsOf(aws, gone))
    BY <1>4, OneForEachOutsider
  <2>2. TrustOf(r, p, gone) \in FindingsOf(aws, gone)
    BY <2>1 DEF About
  <2>3. StaleMatch(TrustOf(r, p, gone))
    BY <1>2, <1>4
  <2> QED
    BY <2>2, <2>3
<1> QED
  BY <1>3, <1>4

\* The alerts the theorem is about.
StaleAlert(r) ==
  /\ r.rule.type = "stale_external_privileged_roles"
  /\ r.rule.accounts = <<>> /\ r.rule.countMin <= 1 /\ RuleAppliesToScan(r.rule, r.scan)

\* It triggers if there is something among the findings that counts.
RightlyTriggers(r, F) == r.triggered = TRUE <=> \E f \in F : StaleMatch(f)

\* The verdict of an alert on a scan that is on disk.
Judged(r, D) ==
  /\ r.scan \in DOMAIN D
  /\ StaleAlert(r) => RightlyTriggers(r, D[r.scan].findings)

AlertInv ==
  /\ \A rule \in client.rules : rule.type \in RuleTypes /\ rule.countMin \in Int
  /\ alert.phase \in {"blast", "done"} => Judged(alert.result, disk)

\* One match is enough for a rule that asks for one.
LEMMA OneMatchTriggers ==
  ASSUME NEW rule, rule.type = "stale_external_privileged_roles", rule.accounts = <<>>,
         rule.countMin \in Int, rule.countMin <= 1, NEW scan, RuleAppliesToScan(rule, scan),
         NEW F, IsFiniteSet(F), NEW previous, NEW r, r = Evaluate(rule, scan, F, previous)
  PROVE  RightlyTriggers(r, F)
<1>1. FilterFindingsByAccountScope(rule, F) = F
  BY DEF FilterFindingsByAccountScope
<1> PICK eval : eval = evalStaleExternalPrivileged(rule, scan, F)
  OBVIOUS
<1>2. r = [eval EXCEPT !.hints = routingHints(F)]
  BY <1>1 DEF Evaluate
<1> PICK matches : matches = {f \in F : StaleMatch(f)}
  OBVIOUS
<1>3. \E lines, target : eval = makeResult(rule, scan, Cardinality(matches) >= Max({rule.countMin, 1}),
                                           matches, lines, target, "attack_path")
  BY DEF evalStaleExternalPrivileged, StaleMatch
<1>4. r.triggered = (Cardinality(matches) >= Max({rule.countMin, 1}))
  BY <1>2, <1>3 DEF makeResult
<1>5. Max({rule.countMin, 1}) = 1
  BY MaxOfTwo
<1>6. IsFiniteSet(matches) /\ Cardinality(matches) \in Nat
  BY FS_Subset, FS_CardinalityType
<1>7. Cardinality(matches) >= 1 <=> matches # {}
  <2>1. Cardinality(matches) = 0 <=> matches = {}
    BY <1>6, FS_EmptySet
  <2> QED
    BY <1>6, <2>1
<1>8. r.triggered = TRUE <=> matches # {}
  BY <1>4, <1>5, <1>7
<1> QED
  BY <1>8 DEF RightlyTriggers

\* Nobody is alerted at the start.
LEMMA AlertBegins ==
  Init => AlertInv
<1> SUFFICES ASSUME Init PROVE AlertInv
  OBVIOUS
<1>1. PICK w \in Worlds : client = w.client
  BY DEF Init
<1>2. \A rule \in client.rules : rule.type \in RuleTypes /\ rule.countMin \in Int
  BY <1>1, WorldsAssumption
<1>3. alert.phase = "none"
  BY DEF Init, NoAlert
<1> QED
  BY <1>2, <1>3 DEF AlertInv

\* An evaluation judges what is on disk.
LEMMA EvaluatedRightly ==
  ASSUME DatabaseInv, NEW rule, rule.type \in RuleTypes, rule.countMin \in Int,
         NEW scan \in DOMAIN disk
  PROVE  Judged(EvaluateScan(rule, scan), disk)
<1> PICK previous : previous = {disk[s].findings : s \in previousScanID(scan)}
  OBVIOUS
<1> PICK F : F = disk[scan].findings
  OBVIOUS
<1> PICK r : r = EvaluateScan(rule, scan)
  OBVIOUS
<1>1. r = Evaluate(rule, scan, F, previous)
  BY DEF EvaluateScan
<1>2. r.rule = rule /\ r.scan = scan
  BY <1>1, EvaluatedFor
<1>3. IsFiniteSet(F)
  BY DEF DatabaseInv, ExportInv, Sortable
<1>4. ASSUME StaleAlert(r) PROVE RightlyTriggers(r, F)
  <2>1. /\ rule.type = "stale_external_privileged_roles" /\ rule.accounts = <<>>
        /\ rule.countMin <= 1 /\ RuleAppliesToScan(rule, scan)
    BY <1>2, <1>4 DEF StaleAlert
  <2> QED
    BY <1>1, <1>3, <2>1, OneMatchTriggers
<1> QED
  BY <1>2, <1>4 DEF Judged

\* A verdict stays what it was when it was made.
LEMMA NextKeepsAlerts ==
  DatabaseInv /\ RuleInv /\ AlertInv /\ [Next]_vars => AlertInv'
<1> SUFFICES ASSUME DatabaseInv, RuleInv, AlertInv, [Next]_vars PROVE AlertInv'
  OBVIOUS
<1>1. client' = client
  BY AlertSteps
<1>2. ASSUME NEW r, Judged(r, disk) PROVE Judged(r, disk')
  BY <1>2, ScansStayOnDisk DEF Judged
<1>3. ASSUME alert'.phase \in {"blast", "done"} PROVE Judged(alert'.result, disk')
  <2>1. CASE alert' = alert
    BY <1>2, <1>3, <2>1 DEF AlertInv
  <2>2. CASE Notify
    <3>1. alert.phase = "blast"
      BY <2>2 DEF Notify, RuleInv
    <3>2. alert'.result = alert.result
      BY <2>2 DEF Notify, Routed
    <3> QED
      BY <1>2, <3>1, <3>2 DEF AlertInv
  <2>3. CASE \E rule \in client.rules, scan \in DOMAIN disk : EvaluateRule(rule, scan)
    <3>1. PICK rule \in client.rules, scan \in DOMAIN disk : EvaluateRule(rule, scan)
      BY <2>3
    <3>2. alert'.result = EvaluateScan(rule, scan)
      BY <3>1 DEF EvaluateRule, Routed
    <3>3. Judged(EvaluateScan(rule, scan), disk)
      BY EvaluatedRightly DEF AlertInv
    <3> QED
      BY <1>2, <3>2, <3>3
  <2>4. CASE \E c \in client.catalogs : PutRoutingCatalog(c)
    <3>1. alert' = alert
      BY <2>4 DEF PutRoutingCatalog
    <3> QED
      BY <2>1, <3>1
  <2> QED
    BY <2>1, <2>2, <2>3, <2>4, AlertSteps
<1> QED
  BY <1>1, <1>3 DEF AlertInv

\* internal/scorers and internal/alerting together, whatever AWS says and whatever
\* calls are lost: the rule about stale external privileged roles triggers on a
\* scan when a role that somebody outside may assume is not known to have been
\* used lately and its policies, as far as they were read, make it privileged, and
\* it does not trigger when no such role is privileged or an admin.
THEOREM StaleTrustIsAlertedHolds ==
  Spec => []StaleTrustIsAlerted
<1>1. ScanInv /\ AlertInv => StaleTrustIsAlerted
  <2> SUFFICES ASSUME ScanInv, AlertInv, StaleRuleAnswered
               PROVE  LET scan == alert.result.scan
                          inputs(r) == collectRolePermissionInputs(r, lost[scan])
                      IN  alert.result.triggered
                            <=> \E r \in IdleOutside(scan) : ReadAsPrivileged(inputs(r))
    BY DEF StaleTrustIsAlerted
  <2> PICK scan : scan = alert.result.scan
    OBVIOUS
  <2> PICK gone : gone = lost[scan]
    OBVIOUS
  <2> PICK aws : aws = cloud[scan]
    OBVIOUS
  <2>0. scan \in DOMAIN lost /\ alert.phase = "done" /\ StaleAlert(alert.result)
    BY DEF StaleRuleAnswered, StaleAlert
  <2>1. CloudSound(aws) /\ disk[scan].findings = FindingsOf(aws, gone)
    BY <2>0 DEF ScanInv, Scanned
  <2>2. alert.result.triggered = TRUE <=> \E f \in FindingsOf(aws, gone) : StaleMatch(f)
    BY <2>0, <2>1 DEF AlertInv, Judged, RightlyTriggers
  <2>3. \A r : r \in IdleOutside(scan) <=> /\ r \in aws.roles
                                          /\ <<"roles", r.account, None>> \notin gone
                                          /\ OutsidersOf(r) # {} /\ Unused(r, gone)
    BY DEF IdleOutside, OutsidersOf, Unused
  <2> QED
    BY <2>1, <2>2, <2>3, StaleIsCounted
<1>2. Spec => []ScanInv
  BY ScanBegins, NextKeepsScans, PTL DEF Spec
<1>3. Spec => []AlertInv
  BY AlertBegins, NextKeepsAlerts, DatabaseKept, RulesKept, PTL DEF Spec
<1> QED
  BY <1>1, <1>2, <1>3, PTL
=============================================================================
