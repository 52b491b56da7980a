------------------------- MODULE GraphExport_proofs --------------------------
(***************************************************************************)
(* Proofs about the export of scans: what the statements of an export do   *)
(* to the database, for any artifacts.  Dashboard_proofs puts them to work.*)
(***************************************************************************)
EXTENDS GraphExport, FiniteSetTheorems, SequenceTheorems, TLAPS

-----------------------------------------------------------------------------
(* Sequences that have every member of a set.                              *)

Lists(seq, S) == seq \in Seq(S) /\ Range(seq) = S

\* A function on the numbers up to n is a sequence.
LEMMA IsASequence ==
  ASSUME NEW S, NEW n \in Nat, NEW seq \in [1..n -> S]
  PROVE  seq \in Seq(S) /\ Len(seq) = n
<1>1. seq \in Seq(S)
  BY SeqDef
<1> QED
  BY <1>1, LenProperties

\* A sequence in S that has each of its members lists it.
LEMMA EveryMemberIsListed ==
  ASSUME NEW S, NEW seq \in Seq(S), \A x \in S : \E i \in 1..Len(seq) : seq[i] = x
  PROVE  Lists(seq, S)
<1>1. DOMAIN seq = 1..Len(seq) /\ \A i \in 1..Len(seq) : seq[i] \in S
  BY LenProperties, ElementOfSeq
<1> QED
  BY <1>1 DEF Lists, Range

\* In a strict total order a member comes after as many members as are less:
\* no two have one place, no place is left, and the lesser come first.
LEMMA PlacesAreTaken ==
  ASSUME NEW S, IsFiniteSet(S), NEW less,
         \A x, y \in S : x # y => <<x, y>> \in less \/ <<y, x>> \in less,
         \A x \in S : <<x, x>> \notin less,
         \A x, y, z \in S : <<x, y>> \in less /\ <<y, z>> \in less => <<x, z>> \in less
  PROVE  /\ Lists(Lined(S, less), S) /\ Len(Lined(S, less)) = Cardinality(S)
         /\ \A i, j \in 1..Cardinality(S) :
              i < j => <<Lined(S, less)[i], Lined(S, less)[j]>> \in less
<1> DEFINE before(x) == {y \in S : <<y, x>> \in less}
<1> PICK n : n = Cardinality(S)
  OBVIOUS
<1> PICK placed : placed = {<<Cardinality(before(x)) + 1, x>> : x \in S}
  OBVIOUS
<1> PICK seq : seq = Lined(S, less)
  OBVIOUS
<1>0. seq = [i \in 1..n |-> (CHOOSE p \in placed : p[1] = i)[2]]
  BY DEF Lined
<1> PICK at : at = [x \in S |-> Cardinality(before(x)) + 1]
  OBVIOUS
<1>1. n \in Nat
  BY FS_CardinalityType
<1>2. ASSUME NEW x \in S
      PROVE  IsFiniteSet(before(x)) /\ Cardinality(before(x)) \in Nat /\ at[x] \in 1..n
  <2>1. before(x) \in SUBSET (S \ {x})
    OBVIOUS
  <2>2. IsFiniteSet(S \ {x}) /\ Cardinality(S \ {x}) = n - 1
    BY FS_RemoveElement
  <2>3. at[x] = Cardinality(before(x)) + 1
    OBVIOUS
  <2> HIDE DEF before
  <2>4. IsFiniteSet(before(x)) /\ Cardinality(before(x)) <= Cardinality(S \ {x})
    BY <2>1, <2>2, FS_Subset
  <2>5. Cardinality(before(x)) \in Nat
    BY <2>4, FS_CardinalityType
  <2> QED
    BY <1>1, <2>2, <2>3, <2>4, <2>5
<1>3. ASSUME NEW x \in S, NEW y \in S, <<x, y>> \in less PROVE at[x] < at[y]
  <2>1. before(x) \cup {x} \in SUBSET before(y) /\ x \notin before(x)
    BY <1>3
  <2>2. Cardinality(before(x) \cup {x}) <= Cardinality(before(y))
    BY <1>2, <2>1, FS_Subset
  <2>3. Cardinality(before(x) \cup {x}) = Cardinality(before(x)) + 1
    BY <1>2, <2>1, FS_AddElement
  <2>4. at[x] = Cardinality(before(x)) + 1 /\ at[y] = Cardinality(before(y)) + 1
    OBVIOUS
  <2>5. Cardinality(before(x)) \in Nat /\ Cardinality(before(y)) \in Nat
    BY <1>2
  <2> HIDE DEF before
  <2> QED
    BY <2>2, <2>3, <2>4, <2>5
<1>4. \A x, y \in S : at[x] = at[y] => x = y
  <2> SUFFICES ASSUME NEW x \in S, NEW y \in S, x # y PROVE at[x] # at[y]
    OBVIOUS
  <2>1. at[x] \in 1..n /\ at[y] \in 1..n
    BY <1>2
  <2>2. at[x] < at[y] \/ at[y] < at[x]
    BY <1>3
  <2> QED
    BY <1>1, <2>1, <2>2
<1>5. \A i \in 1..n : \E x \in S : at[x] = i
  <2>1. IsFiniteSet(1..n) /\ Cardinality(1..n) = n
    BY <1>1, FS_Interval
  <2>2. at \in [S -> 1..n]
    BY <1>2
  <2>3. at \in Injection(S, 1..n)
    BY <1>4, <2>2 DEF Injection, IsInjective
  <2>4. Cardinality(S) = Cardinality(1..n)
    BY <2>1
  <2>5. at \in Surjection(S, 1..n)
    BY <2>1, <2>3, <2>4, FS_Injection
  <2> QED
    BY <2>5 DEF Surjection
<1>6. ASSUME NEW i \in 1..n PROVE seq[i] \in S /\ at[seq[i]] = i
  <2>1. PICK x \in S : at[x] = i
    BY <1>5
  <2>2. placed = {<<at[y], y>> : y \in S}
    OBVIOUS
  <2>3. PICK p : p = CHOOSE q \in placed : q[1] = i
    OBVIOUS
  <2>4. p \in placed /\ p[1] = i
    <3>1. <<i, x>> \in placed /\ <<i, x>>[1] = i
      BY <2>1, <2>2
    <3> QED
      BY <2>3, <3>1
  <2>5. seq[i] = p[2]
    BY <1>0, <2>3
  <2>6. PICK z \in S : p = <<at[z], z>>
    BY <2>2, <2>4
  <2> QED
    BY <2>4, <2>5, <2>6
<1>7. Len(seq) = n /\ seq \in Seq(S)
  <2>1. seq \in [1..n -> S]
    <3>1. DOMAIN seq = 1..n /\ seq = [i \in 1..n |-> seq[i]]
      BY <1>0
    <3> QED
      BY <1>6, <3>1
  <2> QED
    BY <1>1, <2>1, IsASequence
<1>8. ASSUME NEW x \in S PROVE \E i \in 1..Len(seq) : seq[i] = x
  <2>1. at[x] \in 1..n
    BY <1>2
  <2>2. seq[at[x]] \in S /\ at[seq[at[x]]] = at[x]
    BY <1>6, <2>1
  <2> QED
    BY <1>4, <1>7, <2>1, <2>2
<1>9. ASSUME NEW i \in 1..n, NEW j \in 1..n, i < j PROVE <<seq[i], seq[j]>> \in less
  <2> PICK x \in S, y \in S : x = seq[i] /\ y = seq[j]
    BY <1>6
  <2>1. at[x] = i /\ at[y] = j
    BY <1>6
  <2>2. i # j /\ ~(j < i)
    BY <1>1, <1>9
  <2>3. x # y
    BY <2>1, <2>2, Zenon
  <2>4. <<y, x>> \notin less
    <3>1. ASSUME <<y, x>> \in less PROVE at[y] < at[x]
      BY <1>3, <3>1
    <3> QED
      BY <2>1, <2>2, <3>1, Zenon
  <2>5. <<x, y>> \in less
    BY <2>3, <2>4
  <2> QED
    BY <2>5
<1> QED
  BY <1>7, <1>8, <1>9, EveryMemberIsListed

\* What is listed is a member.
LEMMA ListedAreMembers ==
  ASSUME NEW S, NEW seq, Lists(seq, S)
  PROVE  \A i \in DOMAIN seq : seq[i] \in S
BY DEF Lists, Range

\* A sequence is one of its members.
LEMMA MembersMakeAList ==
  ASSUME NEW S, NEW seq \in Seq(S)
  PROVE  seq \in Seq(Range(seq))
<1>1. Len(seq) \in Nat /\ DOMAIN seq = 1..Len(seq) /\ seq \in [1..Len(seq) -> S]
  BY LenProperties
<1>2. seq \in [1..Len(seq) -> Range(seq)]
  BY <1>1 DEF Range
<1> QED
  BY <1>1, <1>2, IsASequence

\* What is done to each member of a list is a list of what is done to the set.
LEMMA EachIsListed ==
  ASSUME NEW S, NEW seq, Lists(seq, S), NEW T, NEW each \in [DOMAIN seq -> T],
         \A y \in T : \E x \in S : \A i \in DOMAIN seq : seq[i] = x => each[i] = y
  PROVE  Lists(each, T)
<1>1. seq \in Seq(S) /\ Range(seq) = S
  BY DEF Lists
<1>2. Len(seq) \in Nat /\ DOMAIN seq = 1..Len(seq)
  BY <1>1, LenProperties
<1>3. each \in Seq(T) /\ Len(each) = Len(seq)
  BY <1>2, IsASequence
<1>4. ASSUME NEW y \in T PROVE \E i \in 1..Len(each) : each[i] = y
  <2>1. PICK x \in S : \A i \in DOMAIN seq : seq[i] = x => each[i] = y
    OBVIOUS
  <2>2. PICK i \in DOMAIN seq : seq[i] = x
    BY <1>1 DEF Range
  <2> QED
    BY <1>2, <1>3, <2>1, <2>2
<1> QED
  BY <1>3, <1>4, EveryMemberIsListed

\* Two lists put together list both sets.
LEMMA JoinedIsListed ==
  ASSUME NEW S, NEW T, NEW p, NEW q, Lists(p, S), Lists(q, T)
  PROVE  Lists(p \o q, S \cup T)
<1> DEFINE U == S \cup T
<1>1. p \in Seq(U) /\ q \in Seq(U)
  BY SeqMonotonic DEF Lists
<1>2. /\ Len(p) \in Nat /\ DOMAIN p = 1..Len(p)
      /\ Len(q) \in Nat /\ DOMAIN q = 1..Len(q)
  BY <1>1, LenProperties
<1>3. /\ p \o q \in Seq(U) /\ Len(p \o q) = Len(p) + Len(q)
      /\ \A i \in 1..(Len(p) + Len(q)) :
           (p \o q)[i] = IF i <= Len(p) THEN p[i] ELSE q[i - Len(p)]
  BY <1>1, ConcatProperties
<1>4. ASSUME NEW x \in U PROVE \E i \in 1..Len(p \o q) : (p \o q)[i] = x
  <2>1. CASE x \in S
    <3>1. PICK i \in 1..Len(p) : p[i] = x
      BY <1>2, <2>1 DEF Lists, Range
    <3>2. i \in 1..(Len(p) + Len(q)) /\ i <= Len(p)
      BY <1>2
    <3> QED
      BY <1>3, <3>1, <3>2
  <2>2. CASE x \in T
    <3>1. PICK i \in 1..Len(q) : q[i] = x
      BY <1>2, <2>2 DEF Lists, Range
    <3>2. i + Len(p) \in 1..(Len(p) + Len(q)) /\ ~(i + Len(p) <= Len(p)) /\ i + Len(p) - Len(p) = i
      BY <1>2
    <3>3. (p \o q)[i + Len(p)] = q[i + Len(p) - Len(p)]
      BY <1>3, <3>2
    <3> QED
      BY <1>3, <3>1, <3>2, <3>3
  <2> QED
    BY <2>1, <2>2
<1> QED
  BY <1>3, <1>4, EveryMemberIsListed

-----------------------------------------------------------------------------
(* The orders the statements are compiled in list every row.               *)

\* Sorting accounts loses none.
LEMMA AccountsAreListed ==
  ASSUME NEW S, IsFiniteSet(S), S \subseteq DOMAIN Rank
  PROVE  Lists(Sorted(S, LAMBDA a : a), S)
<1> PICK less : less = {p \in S \X S : Rank[p[1]] < Rank[p[2]]}
  OBVIOUS
<1>1. \A x, y \in S : <<x, y>> \in less <=> Rank[x] < Rank[y]
  OBVIOUS
<1>2. \A x \in S : Rank[x] \in Nat
  BY OrderIsTotal
<1>3. \A x, y \in S : x # y => <<x, y>> \in less \/ <<y, x>> \in less
  BY <1>1, <1>2, OrderIsTotal
<1>4. /\ \A x \in S : <<x, x>> \notin less
      /\ \A x, y, z \in S : <<x, y>> \in less /\ <<y, z>> \in less => <<x, z>> \in less
  BY <1>1, <1>2
<1>5. Lists(Lined(S, less), S)
  BY <1>3, <1>4, PlacesAreTaken
<1>6. Sorted(S, LAMBDA a : a) = Lined(S, less)
  BY DEF Sorted, InOrder
<1> QED
  BY <1>5, <1>6

\* Sorting assets loses none.
LEMMA AssetsAreListed ==
  ASSUME NEW S, IsFiniteSet(S),
         \A x \in S : x.arn \in DOMAIN Rank /\ x.nth \in Nat,
         \A x, y \in S : x.arn = y.arn /\ x.nth = y.nth => x = y
  PROVE  Lists(SortedRows(S, LAMBDA n : n.arn), S)
<1> DEFINE lt(x, y) == (\/ Rank[x.arn] < Rank[y.arn]
                        \/ x.arn = y.arn /\ x.nth < y.nth)
<1> PICK less : less = {p \in S \X S : lt(p[1], p[2])}
  OBVIOUS
<1>1. \A x, y \in S : <<x, y>> \in less <=> lt(x, y)
  OBVIOUS
<1>2. \A x \in S : x.arn \in DOMAIN Rank /\ Rank[x.arn] \in Nat /\ x.nth \in Nat
  BY OrderIsTotal
<1>3. \A x, y \in S : x # y => <<x, y>> \in less \/ <<y, x>> \in less
  BY <1>1, <1>2, OrderIsTotal
<1>4. /\ \A x \in S : <<x, x>> \notin less
      /\ \A x, y, z \in S : <<x, y>> \in less /\ <<y, z>> \in less => <<x, z>> \in less
  BY <1>1, <1>2
<1>5. Lists(Lined(S, less), S)
  BY <1>3, <1>4, PlacesAreTaken
<1>6. SortedRows(S, LAMBDA n : n.arn) = Lined(S, less)
  BY DEF SortedRows, InOrder
<1> QED
  BY <1>5, <1>6

\* Sorting findings loses none.
LEMMA FindingsAreListed ==
  ASSUME NEW S, IsFiniteSet(S),
         \A x \in S : x.id \in DOMAIN Rank /\ x.nth \in Nat,
         \A x, y \in S : x.id = y.id /\ x.nth = y.nth => x = y
  PROVE  Lists(SortedRows(S, LAMBDA f : f.id), S)
<1> DEFINE lt(x, y) == (\/ Rank[x.id] < Rank[y.id]
                        \/ x.id = y.id /\ x.nth < y.nth)
<1> PICK less : less = {p \in S \X S : lt(p[1], p[2])}
  OBVIOUS
<1>1. \A x, y \in S : <<x, y>> \in less <=> lt(x, y)
  OBVIOUS
<1>2. \A x \in S : x.id \in DOMAIN Rank /\ Rank[x.id] \in Nat /\ x.nth \in Nat
  BY OrderIsTotal
<1>3. \A x, y \in S : x # y => <<x, y>> \in less \/ <<y, x>> \in less
  BY <1>1, <1>2, OrderIsTotal
<1>4. /\ \A x \in S : <<x, x>> \notin less
      /\ \A x, y, z \in S : <<x, y>> \in less /\ <<y, z>> \in less => <<x, z>> \in less
  BY <1>1, <1>2
<1>5. Lists(Lined(S, less), S)
  BY <1>3, <1>4, PlacesAreTaken
<1>6. SortedRows(S, LAMBDA f : f.id) = Lined(S, less)
  BY DEF SortedRows, InOrder
<1> QED
  BY <1>5, <1>6

\* Sorting relationships loses none.
LEMMA RelsAreListed ==
  ASSUME NEW S, IsFiniteSet(S),
         S \subseteq [src : DOMAIN Rank, type : DOMAIN Rank, dst : DOMAIN Rank]
  PROVE  Lists(SortedRels(S), S)
<1> DEFINE lt(x, y) == (\/ Rank[x.src] < Rank[y.src]
                        \/ x.src = y.src /\ Rank[x.dst] < Rank[y.dst]
                        \/ x.src = y.src /\ x.dst = y.dst /\ Rank[x.type] < Rank[y.type])
<1> PICK less : less = {p \in S \X S : lt(p[1], p[2])}
  OBVIOUS
<1>1. \A x, y \in S : <<x, y>> \in less <=> lt(x, y)
  OBVIOUS
<1>2. \A x \in S : /\ {x.src, x.dst, x.type} \subseteq DOMAIN Rank
                   /\ {Rank[x.src], Rank[x.dst], Rank[x.type]} \subseteq Nat
  BY OrderIsTotal
<1>3. \A x, y \in S : x.src = y.src /\ x.dst = y.dst /\ x.type = y.type => x = y
  OBVIOUS
<1>4. \A x, y \in S : x # y => <<x, y>> \in less \/ <<y, x>> \in less
  BY <1>1, <1>2, <1>3, OrderIsTotal
<1>5. /\ \A x \in S : <<x, x>> \notin less
      /\ \A x, y, z \in S : <<x, y>> \in less /\ <<y, z>> \in less => <<x, z>> \in less
  BY <1>1, <1>2
<1>6. Lists(Lined(S, less), S)
  <2> HIDE DEF lt
  <2> QED
    BY <1>4, <1>5, PlacesAreTaken
<1>7. SortedRels(S) = Lined(S, less)
  BY DEF SortedRels, InOrder
<1> QED
  BY <1>6, <1>7

-----------------------------------------------------------------------------
(* The statements of an export: first those that make the nodes, in any    *)
(* order, and then those that tie them together.                           *)

MakingOps == {"account", "snapshot", "asset", "finding"}
TyingOps == {"own", "rel", "captured", "affects"}

Owned(art) == {n \in art.assets : n.account # None}
Hanging(art) == {f \in art.findings : f.arn \in {n.arn : n \in art.assets}}
Related(art) == {r \in art.rels : Projected(r)}

MakesAccounts(art) == {[op |-> "account", account |-> a] : a \in AccountIds(art)}
MakesSnapshot(scan, embedded) == {[op |-> "snapshot", scan |-> scan, embedded |-> embedded]}
MakesAssets(scan, art) ==
  {[op |-> "asset", scan |-> scan, asset |-> n] : n \in art.assets}
MakesFindings(scan, art, embedded) ==
  {[op |-> "finding", scan |-> scan, finding |-> f, embedded |-> embedded] : f \in art.findings}
TiesOwners(art) ==
  {[op |-> "own", arn |-> n.arn, account |-> n.account, create |-> FALSE] : n \in Owned(art)}
TiesRels(art) == {RelStatement(r) : r \in Related(art)}
TiesCaptured(scan, art) == {[op |-> "captured", scan |-> scan, id |-> f.id] : f \in art.findings}
TiesAffects(art) ==
  {[op |-> "affects", id |-> f.id, arn |-> f.arn] : f \in Hanging(art)}

Makes(scan, art, embedded) ==
  MakesAccounts(art) \cup MakesSnapshot(scan, embedded)
    \cup MakesAssets(scan, art) \cup MakesFindings(scan, art, embedded)
Ties(scan, art) ==
  TiesOwners(art) \cup TiesRels(art) \cup TiesCaptured(scan, art) \cup TiesAffects(art)

InStages(p) ==
  \A i, j \in 1..Len(p) : i < j /\ p[j].op \in MakingOps => p[i].op \in MakingOps

\* Statements for nodes make nodes.
LEMMA MakesAreMaking ==
  ASSUME NEW scan, NEW art, NEW embedded, NEW s \in Makes(scan, art, embedded)
  PROVE  s.op \in MakingOps
BY DEF Makes, MakesAccounts, MakesSnapshot, MakesAssets, MakesFindings, MakingOps

\* Statements for edges tie nodes.
LEMMA TiesAreTying ==
  ASSUME NEW scan, NEW art, NEW s \in Ties(scan, art)
  PROVE  s.op \in TyingOps
BY DEF Ties, TiesOwners, TiesRels, TiesCaptured, TiesAffects, RelStatement, TyingOps

\* Statements that only make nodes are in stages.
LEMMA MakingIsInStages ==
  ASSUME NEW S, NEW p, Lists(p, S), \A s \in S : s.op \in MakingOps
  PROVE  InStages(p)
BY ElementOfSeq DEF Lists, InStages

\* Statements that tie nodes may follow any in stages.
LEMMA TyingKeepsStages ==
  ASSUME NEW S, NEW T, NEW p, NEW q, Lists(p, S), Lists(q, T), InStages(p),
         \A t \in T : t.op \in TyingOps
  PROVE  InStages(p \o q)
<1> DEFINE U == S \cup T
<1>1. p \in Seq(U) /\ q \in Seq(U)
  BY SeqMonotonic DEF Lists
<1>2. Len(p) \in Nat /\ Len(q) \in Nat
  BY <1>1, LenProperties
<1>3. /\ Len(p \o q) = Len(p) + Len(q)
      /\ \A i \in 1..(Len(p) + Len(q)) :
           (p \o q)[i] = IF i <= Len(p) THEN p[i] ELSE q[i - Len(p)]
  BY <1>1, ConcatProperties
<1>4. \A i \in 1..Len(q) : q[i].op \notin MakingOps
  BY ElementOfSeq DEF Lists, MakingOps, TyingOps
<1> SUFFICES ASSUME NEW i \in 1..Len(p \o q), NEW j \in 1..Len(p \o q), i < j,
                    (p \o q)[j].op \in MakingOps
             PROVE  (p \o q)[i].op \in MakingOps
  BY DEF InStages
<1>5. j <= Len(p)
  <2> SUFFICES ASSUME ~(j <= Len(p)) PROVE FALSE
    OBVIOUS
  <2>1. j - Len(p) \in 1..Len(q)
    BY <1>2, <1>3
  <2> QED
    BY <1>3, <1>4, <2>1
<1>6. i \in 1..Len(p) /\ j \in 1..Len(p)
  BY <1>2, <1>3, <1>5
<1>7. (p \o q)[i] = p[i] /\ (p \o q)[j] = p[j]
  BY <1>2, <1>3, <1>6
<1> QED
  BY <1>6, <1>7 DEF InStages

\* What an export compiles: every statement, and the makings before the ties.
LEMMA CompiledInStages ==
  ASSUME NEW scan, NEW art, NEW embedded, Sortable(art),
         NEW p, p = CompileWriteScan(scan, art, embedded)
  PROVE  Lists(p, Makes(scan, art, embedded) \cup Ties(scan, art)) /\ InStages(p)
<1> DEFINE accounts == Sorted(AccountIds(art), LAMBDA a : a)
           assets(T) == SortedRows(T, LAMBDA n : n.arn)
           findings(T) == SortedRows(T, LAMBDA f : f.id)
           p1 == [i \in DOMAIN accounts |-> [op |-> "account", account |-> accounts[i]]]
           p2 == <<[op |-> "snapshot", scan |-> scan, embedded |-> embedded]>>
           p3 == [i \in DOMAIN assets(art.assets) |->
                   [op |-> "asset", scan |-> scan, asset |-> assets(art.assets)[i]]]
           p4 == [i \in DOMAIN findings(art.findings) |->
                   [op |-> "finding", scan |-> scan, finding |-> findings(art.findings)[i],
                    embedded |-> embedded]]
           p5 == [i \in DOMAIN assets(Owned(art)) |->
                   [op |-> "own", arn |-> assets(Owned(art))[i].arn,
                    account |-> assets(Owned(art))[i].account, create |-> FALSE]]
           p6 == [i \in DOMAIN SortedRels(Related(art)) |-> RelStatement(SortedRels(Related(art))[i])]
           p7 == [i \in DOMAIN findings(art.findings) |->
                   [op |-> "captured", scan |-> scan, id |-> findings(art.findings)[i].id]]
           p8 == [i \in DOMAIN findings(Hanging(art)) |->
                   [op |-> "affects", id |-> findings(Hanging(art))[i].id,
                    arn |-> findings(Hanging(art))[i].arn]]
<1>1. p = p1 \o p2 \o p3 \o p4 \o p5 \o p6 \o p7 \o p8
  BY DEF CompileWriteScan, Each, Owned, Hanging, Related
<1>2. /\ Lists(accounts, AccountIds(art))
      /\ Lists(assets(art.assets), art.assets)
      /\ Lists(findings(art.findings), art.findings)
  BY AccountsAreListed, AssetsAreListed, FindingsAreListed DEF Sortable
<1>3. Lists(assets(Owned(art)), Owned(art))
  <2>1. IsFiniteSet(Owned(art)) /\ Owned(art) \subseteq art.assets
    BY FS_Subset DEF Sortable, Owned, Hanging, Related
  <2> QED
    BY <2>1, AssetsAreListed DEF Sortable
<1>4. Lists(findings(Hanging(art)), Hanging(art))
  <2>1. IsFiniteSet(Hanging(art)) /\ Hanging(art) \subseteq art.findings
    BY FS_Subset DEF Sortable, Owned, Hanging, Related
  <2> QED
    BY <2>1, FindingsAreListed DEF Sortable
<1>5. Lists(SortedRels(Related(art)), Related(art))
  <2>1. IsFiniteSet(Related(art)) /\ Related(art) \subseteq art.rels
    BY FS_Subset DEF Sortable, Owned, Hanging, Related
  <2> QED
    BY <2>1, RelsAreListed DEF Sortable
<1> HIDE DEF accounts, assets, findings
<1>6. Lists(p1, MakesAccounts(art))
  <2>1. \A i \in DOMAIN accounts : accounts[i] \in AccountIds(art)
    BY <1>2, ListedAreMembers
  <2>2. p1 \in [DOMAIN accounts -> MakesAccounts(art)]
    BY <2>1 DEF MakesAccounts
  <2>3. \A y \in MakesAccounts(art) : \E x \in AccountIds(art) :
          \A i \in DOMAIN accounts : accounts[i] = x => p1[i] = y
    BY DEF MakesAccounts
  <2> HIDE DEF p1
  <2> QED
    BY <1>2, <2>2, <2>3, EachIsListed
<1>7. Lists(p3, MakesAssets(scan, art))
  <2>1. \A i \in DOMAIN assets(art.assets) : assets(art.assets)[i] \in art.assets
    BY <1>2, ListedAreMembers
  <2>2. p3 \in [DOMAIN assets(art.assets) -> MakesAssets(scan, art)]
    BY <2>1 DEF MakesAssets
  <2>3. \A y \in MakesAssets(scan, art) : \E x \in art.assets :
          \A i \in DOMAIN assets(art.assets) : assets(art.assets)[i] = x => p3[i] = y
    BY DEF MakesAssets
  <2> HIDE DEF p3
  <2> QED
    BY <1>2, <2>2, <2>3, EachIsListed
<1>8. Lists(p4, MakesFindings(scan, art, embedded))
  <2>1. \A i \in DOMAIN findings(art.findings) : findings(art.findings)[i] \in art.findings
    BY <1>2, ListedAreMembers
  <2>2. p4 \in [DOMAIN findings(art.findings) -> MakesFindings(scan, art, embedded)]
    BY <2>1 DEF MakesFindings
  <2>3. \A y \in MakesFindings(scan, art, embedded) : \E x \in art.findings :
          \A i \in DOMAIN findings(art.findings) : findings(art.findings)[i] = x => p4[i] = y
    BY DEF MakesFindings
  <2> HIDE DEF p4
  <2> QED
    BY <1>2, <2>2, <2>3, EachIsListed
<1>9. Lists(p5, TiesOwners(art))
  <2>1. \A i \in DOMAIN assets(Owned(art)) : assets(Owned(art))[i] \in Owned(art)
    BY <1>3, ListedAreMembers
  <2>2. p5 \in [DOMAIN assets(Owned(art)) -> TiesOwners(art)]
    BY <2>1 DEF TiesOwners, Owned
  <2>3. \A y \in TiesOwners(art) : \E x \in Owned(art) :
          \A i \in DOMAIN assets(Owned(art)) : assets(Owned(art))[i] = x => p5[i] = y
    BY DEF TiesOwners, Owned
  <2> HIDE DEF p5
  <2> QED
    BY <1>3, <2>2, <2>3, EachIsListed
<1>10. Lists(p6, TiesRels(art))
  <2>1. \A i \in DOMAIN SortedRels(Related(art)) : SortedRels(Related(art))[i] \in Related(art)
    BY <1>5, ListedAreMembers
  <2>2. p6 \in [DOMAIN SortedRels(Related(art)) -> TiesRels(art)]
    BY <2>1 DEF TiesRels, Related
  <2>3. \A y \in TiesRels(art) : \E x \in Related(art) :
          \A i \in DOMAIN SortedRels(Related(art)) : SortedRels(Related(art))[i] = x => p6[i] = y
    BY DEF TiesRels, Related
  <2> HIDE DEF p6
  <2> QED
    BY <1>5, <2>2, <2>3, EachIsListed
<1>11. Lists(p7, TiesCaptured(scan, art))
  <2>1. \A i \in DOMAIN findings(art.findings) : findings(art.findings)[i] \in art.findings
    BY <1>2, ListedAreMembers
  <2>2. p7 \in [DOMAIN findings(art.findings) -> TiesCaptured(scan, art)]
    BY <2>1 DEF TiesCaptured
  <2>3. \A y \in TiesCaptured(scan, art) : \E x \in art.findings :
          \A i \in DOMAIN findings(art.findings) : findings(art.findings)[i] = x => p7[i] = y
    BY DEF TiesCaptured
  <2> HIDE DEF p7
  <2> QED
    BY <1>2, <2>2, <2>3, EachIsListed
<1>12. Lists(p8, TiesAffects(art))
  <2>1. \A i \in DOMAIN findings(Hanging(art)) : findings(Hanging(art))[i] \in Hanging(art)
    BY <1>4, ListedAreMembers
  <2>2. p8 \in [DOMAIN findings(Hanging(art)) -> TiesAffects(art)]
    BY <2>1 DEF TiesAffects
  <2>3. \A y \in TiesAffects(art) : \E x \in Hanging(art) :
          \A i \in DOMAIN findings(Hanging(art)) : findings(Hanging(art))[i] = x => p8[i] = y
    BY DEF TiesAffects
  <2> HIDE DEF p8
  <2> QED
    BY <1>4, <2>2, <2>3, EachIsListed
<1>13. Lists(p2, MakesSnapshot(scan, embedded))
  BY DEF MakesSnapshot, Lists, Range
<1> HIDE DEF p1, p2, p3, p4, p5, p6, p7, p8
<1> DEFINE making == MakesAccounts(art) \cup MakesSnapshot(scan, embedded)
                       \cup MakesAssets(scan, art) \cup MakesFindings(scan, art, embedded)
<1>14. Lists(p1 \o p2 \o p3 \o p4, making) /\ InStages(p1 \o p2 \o p3 \o p4)
  <2>1. Lists(p1 \o p2 \o p3 \o p4, making)
    BY <1>6, <1>7, <1>8, <1>13, JoinedIsListed
  <2>2. making = Makes(scan, art, embedded)
    BY DEF Makes
  <2> HIDE DEF making
  <2> QED
    BY <2>1, <2>2, MakesAreMaking, MakingIsInStages
<1>15. \A s \in TiesOwners(art) \cup TiesRels(art) \cup TiesCaptured(scan, art)
                 \cup TiesAffects(art) : s.op \in TyingOps
  BY TiesAreTying DEF Ties
<1> DEFINE q4 == p1 \o p2 \o p3 \o p4
<1> HIDE DEF q4, making
<1>16. Lists(q4, making) /\ InStages(q4)
  BY <1>14 DEF q4
<1>17. Lists(q4 \o p5, making \cup TiesOwners(art)) /\ InStages(q4 \o p5)
  BY <1>9, <1>15, <1>16, JoinedIsListed, TyingKeepsStages
<1>18. /\ Lists(q4 \o p5 \o p6, making \cup TiesOwners(art) \cup TiesRels(art))
       /\ InStages(q4 \o p5 \o p6)
  BY <1>10, <1>15, <1>17, JoinedIsListed, TyingKeepsStages
<1>19. /\ Lists(q4 \o p5 \o p6 \o p7, making \cup TiesOwners(art) \cup TiesRels(art)
                                             \cup TiesCaptured(scan, art))
       /\ InStages(q4 \o p5 \o p6 \o p7)
  BY <1>11, <1>15, <1>18, JoinedIsListed, TyingKeepsStages
<1>20. /\ Lists(q4 \o p5 \o p6 \o p7 \o p8, making \cup TiesOwners(art) \cup TiesRels(art)
                                   \cup TiesCaptured(scan, art) \cup TiesAffects(art))
       /\ InStages(q4 \o p5 \o p6 \o p7 \o p8)
  BY <1>12, <1>15, <1>19, JoinedIsListed, TyingKeepsStages
<1>21. making \cup TiesOwners(art) \cup TiesRels(art) \cup TiesCaptured(scan, art)
         \cup TiesAffects(art) = Makes(scan, art, embedded) \cup Ties(scan, art)
  BY DEF Makes, Ties, making
<1> QED
  BY <1>1, <1>20, <1>21 DEF q4

-----------------------------------------------------------------------------
(* One statement.                                                          *)

\* The database holds no edge, capture or effect without both its ends.
DbSound(g) ==
  /\ g = [accounts |-> g.accounts, snapshots |-> g.snapshots, assets |-> g.assets,
          findings |-> g.findings, edges |-> g.edges, captured |-> g.captured,
          affects |-> g.affects]
  /\ \A e \in g.edges : e.src \in DOMAIN g.assets
                        /\ e.dst \in DOMAIN g.assets \cup g.accounts
  /\ \A c \in g.captured : c[1] \in DOMAIN g.snapshots /\ c[2] \in DOMAIN g.findings
  /\ \A a \in g.affects : a[1] \in DOMAIN g.findings /\ a[2] \in DOMAIN g.assets

\* Statements merge: nothing leaves the database.
Grown(g, h) ==
  /\ g.accounts \subseteq h.accounts
  /\ DOMAIN g.snapshots \subseteq DOMAIN h.snapshots
  /\ DOMAIN g.assets \subseteq DOMAIN h.assets
  /\ DOMAIN g.findings \subseteq DOMAIN h.findings
  /\ g.edges \subseteq h.edges
  /\ g.captured \subseteq h.captured
  /\ g.affects \subseteq h.affects

\* The statement has been run.
Took(g, s) ==
  /\ s.op = "account" => s.account \in g.accounts
  /\ s.op = "snapshot" => s.scan \in DOMAIN g.snapshots
  /\ s.op = "asset" => s.asset.arn \in DOMAIN g.assets
  /\ s.op = "finding" => s.finding.id \in DOMAIN g.findings
  /\ s.op = "own" => [src |-> s.arn, type |-> "OWNED_BY", dst |-> s.account] \in g.edges
  /\ s.op = "rel" => s.edge \in g.edges
  /\ s.op = "captured" => <<s.scan, s.id>> \in g.captured
  /\ s.op = "affects" => <<s.id, s.arn>> \in g.affects

\* What it matches is there.
Matches(g, s) ==
  /\ s.op = "own" => s.arn \in DOMAIN g.assets /\ (s.create \/ s.account \in g.accounts)
  /\ s.op = "rel" => {s.edge.src, s.edge.dst} \subseteq DOMAIN g.assets
  /\ s.op = "captured" => s.scan \in DOMAIN g.snapshots /\ s.id \in DOMAIN g.findings
  /\ s.op = "affects" => s.id \in DOMAIN g.findings /\ s.arn \in DOMAIN g.assets

\* What a statement did stays done while the database grows.
LEMMA TookForGood ==
  ASSUME NEW g, NEW h, NEW s, Took(g, s), Grown(g, h)
  PROVE  Took(h, s)
BY DEF Took, Grown

\* Merging a node takes away no other.
LEMMA MergeAdds ==
  ASSUME NEW nodes, NEW key, NEW value
  PROVE  DOMAIN Merge(nodes, key, value) = DOMAIN nodes \cup {key}
BY DEF Merge, Over

\* A statement keeps the database whole, adds to it, and takes effect when it
\* matches.
LEMMA StatementGrows ==
  ASSUME NEW g, DbSound(g), NEW s, s.op \in MakingOps \cup TyingOps
  PROVE  /\ DbSound(Apply(g, s)) /\ Grown(g, Apply(g, s))
         /\ Matches(g, s) => Took(Apply(g, s), s)
<1> PICK h : h = Apply(g, s)
  OBVIOUS
<1> SUFFICES DbSound(h) /\ Grown(g, h) /\ (Matches(g, s) => Took(h, s))
  OBVIOUS
<1>1. CASE s.op = "account"
  <2>1. h = [g EXCEPT !.accounts = @ \cup {s.account}]
    BY <1>1 DEF Apply
  <2> QED
    BY ZenonT(30), <1>1, <2>1 DEF DbSound, Grown, Took
<1>2. CASE s.op = "snapshot"
  <2>1. PICK nodes : /\ h = [g EXCEPT !.snapshots = nodes]
                     /\ DOMAIN nodes = DOMAIN g.snapshots \cup {s.scan}
    BY ZenonT(30), <1>2, MergeAdds DEF Apply
  <2> QED
    BY <1>2, <2>1 DEF DbSound, Grown, Took
<1>3. CASE s.op = "asset"
  <2>1. PICK nodes : /\ h = [g EXCEPT !.assets = nodes]
                     /\ DOMAIN nodes = DOMAIN g.assets \cup {s.asset.arn}
    <3> DEFINE v == [type |-> s.asset.type, account |-> s.asset.account, scan |-> s.scan]
    <3>1. h = [g EXCEPT !.assets = Merge(g.assets, s.asset.arn, v)]
      BY <1>3 DEF Apply
    <3> HIDE DEF v
    <3>2. DOMAIN Merge(g.assets, s.asset.arn, v) = DOMAIN g.assets \cup {s.asset.arn}
      BY MergeAdds
    <3> QED
      BY <3>1, <3>2
  <2> QED
    BY <1>3, <2>1 DEF DbSound, Grown, Took
<1>4. CASE s.op = "finding"
  <2>1. PICK nodes : /\ h = [g EXCEPT !.findings = nodes]
                     /\ DOMAIN nodes = DOMAIN g.findings \cup {s.finding.id}
    <3> DEFINE v == [arn |-> s.finding.arn, account |-> s.finding.account,
                      severity |-> s.finding.severity, module |-> s.finding.module,
                      scan |-> s.scan, embedding |-> Embedding(g.findings, s.finding.id, s)]
    <3>1. h = [g EXCEPT !.findings = Merge(g.findings, s.finding.id, v)]
      BY <1>4 DEF Apply
    <3> HIDE DEF v
    <3>2. DOMAIN Merge(g.findings, s.finding.id, v) = DOMAIN g.findings \cup {s.finding.id}
      BY MergeAdds
    <3> QED
      BY <3>1, <3>2
  <2> QED
    BY <1>4, <2>1 DEF DbSound, Grown, Took
<1>5. CASE s.op = "own"
  <2> PICK e : e = [src |-> s.arn, type |-> "OWNED_BY", dst |-> s.account]
    OBVIOUS
  <2>1. \/ /\ s.arn \in DOMAIN g.assets
           /\ h = [g EXCEPT !.accounts = @ \cup {s.account}, !.edges = @ \cup {e}]
        \/ h = g /\ ~Matches(g, s)
    BY <1>5 DEF Apply, Matches
  <2>2. CASE h = g /\ ~Matches(g, s)
    BY <2>2 DEF Grown
  <2>3. CASE /\ s.arn \in DOMAIN g.assets
             /\ h = [g EXCEPT !.accounts = @ \cup {s.account}, !.edges = @ \cup {e}]
    <3>1. /\ h.accounts = g.accounts \cup {s.account} /\ h.edges = g.edges \cup {e}
          /\ h.snapshots = g.snapshots /\ h.assets = g.assets /\ h.findings = g.findings
          /\ h.captured = g.captured /\ h.affects = g.affects
          /\ h = [accounts |-> h.accounts, snapshots |-> h.snapshots, assets |-> h.assets,
                  findings |-> h.findings, edges |-> h.edges, captured |-> h.captured,
                  affects |-> h.affects]
      BY <2>3 DEF DbSound
    <3>2. e.src = s.arn /\ e.dst = s.account
      OBVIOUS
    <3>3. DbSound(h)
      BY <2>3, <3>1, <3>2 DEF DbSound
    <3>4. Took(h, s)
      BY <1>5, <3>1 DEF Took
    <3> QED
      BY <3>1, <3>3, <3>4 DEF Grown
  <2> QED
    BY <2>1, <2>2, <2>3
<1>6. CASE s.op = "rel"
  <2>1. \/ /\ {s.edge.src, s.edge.dst} \subseteq DOMAIN g.assets
           /\ h = [g EXCEPT !.edges = @ \cup {s.edge}]
        \/ h = g /\ ~Matches(g, s)
    BY <1>6 DEF Apply, Matches
  <2> QED
    BY <1>6, <2>1 DEF DbSound, Grown, Took
<1>7. CASE s.op = "captured"
  <2>1. \/ /\ s.scan \in DOMAIN g.snapshots /\ s.id \in DOMAIN g.findings
           /\ h = [g EXCEPT !.captured = @ \cup {<<s.scan, s.id>>}]
        \/ h = g /\ ~Matches(g, s)
    BY <1>7 DEF Apply, Matches
  <2> QED
    BY <1>7, <2>1 DEF DbSound, Grown, Took
<1>8. CASE s.op = "affects"
  <2>1. \/ /\ s.id \in DOMAIN g.findings /\ s.arn \in DOMAIN g.assets
           /\ h = [g EXCEPT !.affects = @ \cup {<<s.id, s.arn>>}]
        \/ h = g /\ ~Matches(g, s)
    BY <1>8 DEF Apply, Matches
  <2> QED
    BY <1>8, <2>1 DEF DbSound, Grown, Took
<1> QED
  BY <1>1, <1>2, <1>3, <1>4, <1>5, <1>6, <1>7, <1>8 DEF MakingOps, TyingOps

-----------------------------------------------------------------------------
(* All statements of a scan.                                               *)

ArnsOf(art) == {n.arn : n \in art.assets}

\* The ties between resources of the scan: a relationship to anything else is
\* left out by the database.
Needed(scan, art) ==
  TiesOwners(art) \cup TiesCaptured(scan, art) \cup TiesAffects(art)
    \cup {RelStatement(r) : r \in {x \in Related(art) :
            /\ x.src \in ArnsOf(art)
            /\ x.type = "OWNED_BY" \/ x.dst \in ArnsOf(art)}}

\* What ExportedScanIsTraversable says of one scan, and that its resources are
\* there.
Traversable(g, scan, art) ==
  /\ ArnsOf(art) \subseteq DOMAIN g.assets
  /\ Edges(art) \subseteq g.edges
  /\ \A f \in art.findings :
       /\ <<scan, f.id>> \in g.captured
       /\ f.arn \in ArnsOf(art) => <<f.id, f.arn>> \in g.affects

\* What makes a scan traversable is among its ties.
LEMMA NeededAreTies ==
  ASSUME NEW scan, NEW art
  PROVE  Needed(scan, art) \subseteq Ties(scan, art)
BY DEF Needed, Ties, TiesRels

\* Once all nodes are made every needed tie finds its ends.
LEMMA NodesLetTiesMatch ==
  ASSUME NEW g, NEW scan, NEW art, NEW embedded,
         \A s \in Makes(scan, art, embedded) : Took(g, s),
         NEW t \in Needed(scan, art)
  PROVE  Matches(g, t)
<1>1. ASSUME NEW a \in AccountIds(art) PROVE a \in g.accounts
  <2>1. [op |-> "account", account |-> a] \in Makes(scan, art, embedded)
    BY DEF Makes, MakesAccounts
  <2> QED
    BY <2>1 DEF Took
<1>2. scan \in DOMAIN g.snapshots
  <2>1. [op |-> "snapshot", scan |-> scan, embedded |-> embedded] \in Makes(scan, art, embedded)
    BY DEF Makes, MakesSnapshot
  <2> QED
    BY <2>1 DEF Took
<1>3. ASSUME NEW n \in art.assets PROVE n.arn \in DOMAIN g.assets
  <2>1. [op |-> "asset", scan |-> scan, asset |-> n] \in Makes(scan, art, embedded)
    BY DEF Makes, MakesAssets
  <2> QED
    BY <2>1 DEF Took
<1>4. ASSUME NEW f \in art.findings PROVE f.id \in DOMAIN g.findings
  <2>1. [op |-> "finding", scan |-> scan, finding |-> f, embedded |-> embedded]
          \in Makes(scan, art, embedded)
    BY DEF Makes, MakesFindings
  <2> QED
    BY <2>1 DEF Took
<1>5. CASE t \in TiesOwners(art)
  <2>1. PICK n \in art.assets : /\ n.account # None
                                /\ t = [op |-> "own", arn |-> n.arn, account |-> n.account,
                                        create |-> FALSE]
    BY <1>5 DEF TiesOwners, Owned
  <2>2. n.account \in AccountIds(art)
    BY <2>1 DEF AccountIds
  <2> QED
    BY <1>1, <1>3, <2>1, <2>2 DEF Matches
<1>6. CASE t \in TiesCaptured(scan, art)
  BY <1>2, <1>4, <1>6 DEF TiesCaptured, Matches
<1>7. CASE t \in TiesAffects(art)
  BY <1>3, <1>4, <1>7 DEF TiesAffects, Hanging, Matches
<1>8. ASSUME NEW r \in Related(art), r.src \in ArnsOf(art),
             r.type = "OWNED_BY" \/ r.dst \in ArnsOf(art), t = RelStatement(r)
      PROVE  Matches(g, t)
  BY <1>3, <1>8 DEF RelStatement, Matches, ArnsOf
<1> QED
  BY <1>5, <1>6, <1>7, <1>8 DEF Needed

\* Once all nodes are made and all needed ties took effect the scan is
\* traversable.
LEMMA AllTookIsTraversable ==
  ASSUME NEW g, NEW scan, NEW art, NEW embedded,
         \A t \in Needed(scan, art) : Took(g, t),
         \A t \in Makes(scan, art, embedded) : Took(g, t)
  PROVE  Traversable(g, scan, art)
<1>1. ASSUME NEW n \in art.assets, n.account # None
      PROVE  [src |-> n.arn, type |-> "OWNED_BY", dst |-> n.account] \in g.edges
  <2>1. [op |-> "own", arn |-> n.arn, account |-> n.account, create |-> FALSE]
          \in Needed(scan, art)
    BY <1>1 DEF Needed, TiesOwners, Owned
  <2> QED
    BY <2>1 DEF Took
<1>2. ASSUME NEW r \in art.rels, r.type \in CypherRelTypes,
             {r.src, r.dst} \subseteq ArnsOf(art)
      PROVE  r \in g.edges
  <2>1. RelStatement(r) \in Needed(scan, art)
    BY <1>2 DEF Needed, Related, Projected
  <2>2. RelStatement(r) = [op |-> "rel", edge |-> r]
    BY <1>2 DEF RelStatement, CypherRelTypes
  <2>3. Took(g, [op |-> "rel", edge |-> r])
    BY <2>1, <2>2
  <2> QED
    BY <2>3 DEF Took
<1>3. ASSUME NEW r \in art.rels, r.type = "OWNED_BY", r.dst \in DOMAIN RootAccount,
             r.src \in ArnsOf(art)
      PROVE  [src |-> r.src, type |-> "OWNED_BY", dst |-> RootAccount[r.dst]] \in g.edges
  <2>1. RelStatement(r) \in Needed(scan, art)
    BY <1>3 DEF Needed, Related, Projected
  <2>2. RelStatement(r)
          = [op |-> "own", arn |-> r.src, account |-> RootAccount[r.dst], create |-> TRUE]
    BY <1>3 DEF RelStatement
  <2>3. Took(g, [op |-> "own", arn |-> r.src, account |-> RootAccount[r.dst], create |-> TRUE])
    BY <2>1, <2>2
  <2> QED
    BY <2>3 DEF Took
<1>4. ASSUME NEW f \in art.findings
      PROVE  /\ <<scan, f.id>> \in g.captured
             /\ f.arn \in ArnsOf(art) => <<f.id, f.arn>> \in g.affects
  <2>1. [op |-> "captured", scan |-> scan, id |-> f.id] \in Needed(scan, art)
    BY DEF Needed, TiesCaptured
  <2>2. f.arn \in ArnsOf(art) =>
          [op |-> "affects", id |-> f.id, arn |-> f.arn] \in Needed(scan, art)
    BY DEF Needed, TiesAffects, Hanging, ArnsOf
  <2> QED
    BY <2>1, <2>2 DEF Took
<1>5. Edges(art) \subseteq g.edges
  BY <1>1, <1>2, <1>3 DEF Edges, ArnsOf
<1>6. ASSUME NEW n \in art.assets PROVE n.arn \in DOMAIN g.assets
  <2>1. [op |-> "asset", scan |-> scan, asset |-> n] \in Makes(scan, art, embedded)
    BY DEF Makes, MakesAssets
  <2>2. Took(g, [op |-> "asset", scan |-> scan, asset |-> n])
    BY <2>1
  <2> QED
    BY <2>2 DEF Took
<1> QED
  BY <1>4, <1>5, <1>6 DEF Traversable, ArnsOf

\* A traversable scan stays so while the database grows.
LEMMA TraversableForGood ==
  ASSUME NEW g, NEW h, NEW scan, NEW art, Traversable(g, scan, art), Grown(g, h)
  PROVE  Traversable(h, scan, art)
BY DEF Traversable, Grown

\* Of statements in stages the rest is in stages, and after the first tie all
\* are ties.
LEMMA RestOfStages ==
  ASSUME NEW S, NEW p \in Seq(S), p # <<>>, InStages(p)
  PROVE  /\ Head(p) \in Range(p) /\ Tail(p) \in Seq(S) /\ InStages(Tail(p))
         /\ Range(p) = {Head(p)} \cup Range(Tail(p))
         /\ Head(p).op \notin MakingOps => \A s \in Range(p) : s.op \notin MakingOps
<1>1. Len(p) \in Nat \ {0} /\ DOMAIN p = 1..Len(p)
  BY EmptySeq, LenProperties
<1>2. /\ Tail(p) \in Seq(S) /\ Len(Tail(p)) = Len(p) - 1
      /\ \A i \in 1..Len(Tail(p)) : Tail(p)[i] = p[i + 1]
  BY HeadTailProperties
<1>3. DOMAIN Tail(p) = 1..(Len(p) - 1)
  BY <1>2, LenProperties
<1>4. Head(p) = p[1]
  BY <1>1
<1>5. Range(p) = {p[i] : i \in 1..Len(p)}
  BY <1>1 DEF Range
<1>6. Range(Tail(p)) = {p[i + 1] : i \in 1..(Len(p) - 1)}
  BY <1>2, <1>3 DEF Range
<1>7. Range(p) = {Head(p)} \cup Range(Tail(p))
  <2>1. ASSUME NEW i \in 1..Len(p) PROVE p[i] \in {Head(p)} \cup Range(Tail(p))
    <3>1. i = 1 \/ (i - 1 \in 1..(Len(p) - 1) /\ (i - 1) + 1 = i)
      BY <1>1
    <3> QED
      BY <1>4, <1>6, <3>1
  <2>2. 1 \in 1..Len(p) /\ \A i \in 1..(Len(p) - 1) : i + 1 \in 1..Len(p)
    BY <1>1
  <2> QED
    BY <1>4, <1>5, <1>6, <2>1, <2>2
<1>8. InStages(Tail(p))
  <2> SUFFICES ASSUME NEW i \in 1..Len(Tail(p)), NEW j \in 1..Len(Tail(p)), i < j,
                      Tail(p)[j].op \in MakingOps
               PROVE  Tail(p)[i].op \in MakingOps
    BY DEF InStages
  <2>1. i + 1 \in 1..Len(p) /\ j + 1 \in 1..Len(p) /\ i + 1 < j + 1
    BY <1>1, <1>2
  <2> QED
    BY <1>2, <2>1 DEF InStages
<1>9. Head(p).op \notin MakingOps => \A i \in 1..Len(p) : p[i].op \notin MakingOps
  <2> SUFFICES ASSUME NEW i \in 1..Len(p), p[i].op \in MakingOps PROVE p[1].op \in MakingOps
    BY <1>4
  <2>1. i = 1 \/ 1 < i
    BY <1>1
  <2> QED
    BY <1>1, <2>1 DEF InStages
<1> QED
  BY <1>2, <1>5, <1>7, <1>8, <1>9

-----------------------------------------------------------------------------
(* The exporters.                                                          *)

\* What is left to run: each statement a scan needs has been run or is to come,
\* and none that makes a node comes after one that ties nodes.
Writing(todo, scan, g, art) ==
  /\ todo \in Seq(Range(todo)) /\ todo # <<>> /\ InStages(todo)
  /\ \A s \in Range(todo) : s.op \in MakingOps \cup TyingOps
  /\ \A s \in Range(todo) : s.op = "finding" => s.scan = scan
  /\ \E embedded \in BOOLEAN :
       \A s \in Makes(scan, art, embedded) \cup Needed(scan, art) :
         s \in Range(todo) \/ Took(g, s)

ExporterSound(x, g, artifacts, scans) ==
  /\ x = [phase |-> x.phase, scan |-> x.scan, todo |-> x.todo, late |-> x.late,
          result |-> x.result]
  /\ x.phase \in {"idle", "write", "drop", "project", "louvain", "pagerank", "release"}
  /\ x.phase # "idle" => x.scan \in scans
  /\ x.phase = "write" => Writing(x.todo, x.scan, g, artifacts[x.scan])

ExportInv ==
  /\ DbSound(db)
  /\ \A scan \in DOMAIN disk : Sortable(disk[scan])
  /\ written \subseteq begun /\ begun \subseteq DOMAIN disk /\ projections \subseteq begun
  /\ DOMAIN export = Exporters
  /\ \A e \in Exporters : ExporterSound(export[e], db, disk, begun)
  /\ \A scan \in written : Traversable(db, scan, disk[scan])
  /\ ProjectionReleased

\* An export begins with all its statements to run.
LEMMA WritingBegins ==
  ASSUME NEW scan, NEW art, Sortable(art), NEW embedded \in BOOLEAN, NEW g
  PROVE  Writing(CompileWriteScan(scan, art, embedded), scan, g, art)
<1> DEFINE S == Makes(scan, art, embedded) \cup Ties(scan, art)
<1> PICK p : p = CompileWriteScan(scan, art, embedded)
  OBVIOUS
<1>1. p \in Seq(S) /\ Range(p) = S /\ InStages(p)
  BY CompiledInStages DEF Lists
<1>2. [op |-> "snapshot", scan |-> scan, embedded |-> embedded] \in S
  BY DEF Makes, MakesSnapshot
<1>3. \A s \in S : s.op \in MakingOps \cup TyingOps
  BY MakesAreMaking, TiesAreTying
<1>6. ASSUME NEW s \in S, s.op = "finding" PROVE s.scan = scan
  <2>1. s \in Makes(scan, art, embedded)
    BY <1>6, TiesAreTying DEF TyingOps
  <2> QED
    BY <1>6, <2>1 DEF Makes, MakesAccounts, MakesSnapshot, MakesAssets, MakesFindings
<1>4. Makes(scan, art, embedded) \cup Needed(scan, art) \subseteq S
  BY NeededAreTies
<1> HIDE DEF S
<1>5. p # <<>>
  BY <1>1, <1>2 DEF Range
<1>7. /\ p \in Seq(Range(p)) /\ InStages(p)
      /\ \A s \in Range(p) : s.op \in MakingOps \cup TyingOps
      /\ \A s \in Range(p) : s.op = "finding" => s.scan = scan
  BY <1>1, <1>3, <1>6
<1>8. \A s \in Makes(scan, art, embedded) \cup Needed(scan, art) : s \in Range(p)
  BY <1>1, <1>4
<1> QED
  BY <1>5, <1>7, <1>8 DEF Writing

\* After a statement the rest is to run, or the scan is traversable.
LEMMA StatementIsRun ==
  ASSUME NEW todo, NEW scan, NEW g, NEW art, DbSound(g), Writing(todo, scan, g, art),
         NEW h, h = Apply(g, Head(todo))
  PROVE  /\ DbSound(h) /\ Grown(g, h)
         /\ Tail(todo) # <<>> => Writing(Tail(todo), scan, h, art)
         /\ Tail(todo) = <<>> => Traversable(h, scan, art)
<1> PICK s : s = Head(todo)
  OBVIOUS
<1> PICK rest : rest = Tail(todo)
  OBVIOUS
<1>1. /\ s \in Range(todo) /\ rest \in Seq(Range(todo)) /\ InStages(rest)
      /\ Range(todo) = {s} \cup Range(rest)
      /\ s.op \notin MakingOps => \A t \in Range(todo) : t.op \notin MakingOps
  BY RestOfStages DEF Writing
<1>2. s.op \in MakingOps \cup TyingOps
  BY <1>1 DEF Writing
<1>3. DbSound(h) /\ Grown(g, h) /\ (Matches(g, s) => Took(h, s))
  BY <1>2, StatementGrows
<1>4. PICK embedded \in BOOLEAN :
        \A t \in Makes(scan, art, embedded) \cup Needed(scan, art) :
          t \in Range(todo) \/ Took(g, t)
  BY DEF Writing
<1>5. ASSUME NEW t \in Makes(scan, art, embedded) \cup Needed(scan, art)
      PROVE  t \in Range(rest) \/ Took(h, t)
  <2>1. CASE Took(g, t)
    BY <1>3, <2>1, TookForGood
  <2>2. CASE t = s /\ s.op \in MakingOps
    BY <1>3, <2>2 DEF Matches, MakingOps
  <2>3. CASE t = s /\ s.op \notin MakingOps
    <3>1. \A m \in Makes(scan, art, embedded) : Took(g, m)
      BY <1>1, <1>4, <2>3, MakesAreMaking
    <3>2. s \in Needed(scan, art)
      BY <2>3, MakesAreMaking
    <3> QED
      BY <1>3, <2>3, <3>1, <3>2, NodesLetTiesMatch
  <2> QED
    BY <1>1, <1>4, <2>1, <2>2, <2>3
<1>6. ASSUME rest # <<>> PROVE Writing(rest, scan, h, art)
  <2>1. rest \in Seq(Range(rest))
    BY <1>1, MembersMakeAList
  <2>2. /\ \A t \in Range(rest) : t.op \in MakingOps \cup TyingOps
        /\ \A t \in Range(rest) : t.op = "finding" => t.scan = scan
    BY <1>1 DEF Writing
  <2> QED
    BY <1>1, <1>5, <1>6, <2>1, <2>2 DEF Writing
<1>7. ASSUME rest = <<>> PROVE Traversable(h, scan, art)
  <2>1. Range(rest) = {}
    BY <1>7 DEF Range
  <2>2. /\ \A t \in Needed(scan, art) : Took(h, t)
        /\ \A t \in Makes(scan, art, embedded) : Took(h, t)
    BY <1>5, <2>1
  <2> QED
    BY <2>2, AllTookIsTraversable
<1> QED
  BY <1>3, <1>6, <1>7

\* What others add to the database leaves an exporter where it is.
LEMMA ExporterUndisturbed ==
  ASSUME NEW x, NEW g, NEW h, NEW artifacts, NEW more, NEW scans, NEW others,
         ExporterSound(x, g, artifacts, scans), Grown(g, h), scans \subseteq others,
         \A scan \in scans : more[scan] = artifacts[scan]
  PROVE  ExporterSound(x, h, more, others)
<1>1. ASSUME x.phase = "write" PROVE Writing(x.todo, x.scan, h, more[x.scan])
  <2>1. Writing(x.todo, x.scan, g, artifacts[x.scan]) /\ more[x.scan] = artifacts[x.scan]
    BY <1>1 DEF ExporterSound
  <2> PICK art : art = artifacts[x.scan]
    OBVIOUS
  <2>2. Writing(x.todo, x.scan, h, art)
    BY <2>1, TookForGood DEF Writing
  <2> QED
    BY <2>1, <2>2
<1> QED
  BY <1>1 DEF ExporterSound

\* A database that stays has grown.
LEMMA NothingChanged ==
  ASSUME NEW g
  PROVE  Grown(g, g)
BY DEF Grown

\* An exporter goes on, and the others go on as they were.
LEMMA OneExporterSteps ==
  ASSUME ExportInv, NEW e \in Exporters, NEW x, export' = [export EXCEPT ![e] = x],
         Grown(db, db'), disk' = disk, begun \subseteq begun',
         ExporterSound(x, db', disk, begun')
  PROVE  /\ DOMAIN export' = Exporters
         /\ \A y \in Exporters : ExporterSound(export'[y], db', disk', begun')
<1>1. DOMAIN export' = Exporters /\ export'[e] = x
  BY DEF ExportInv
<1>2. ASSUME NEW y \in Exporters, y # e PROVE ExporterSound(export'[y], db', disk', begun')
  <2>1. export'[y] = export[y] /\ ExporterSound(export[y], db, disk, begun)
    BY <1>2 DEF ExportInv
  <2> QED
    BY <2>1, ExporterUndisturbed
<1> QED
  BY <1>1, <1>2

\* An export that begins has its scan on disk.
LEMMA BeginWriteKeeps ==
  ASSUME ExportInv, NEW e \in Exporters, NEW scan \in DOMAIN disk, BeginWrite(e, scan)
  PROVE  ExportInv'
<1>1. PICK embedded \in BOOLEAN :
        export' = [export EXCEPT ![e] =
          [Idle EXCEPT !.phase = "write", !.scan = scan,
                       !.todo = CompileWriteScan(scan, disk[scan], embedded)]]
  BY DEF BeginWrite
<1> PICK todo : todo = CompileWriteScan(scan, disk[scan], embedded)
  OBVIOUS
<1> PICK x : x = [Idle EXCEPT !.phase = "write", !.scan = scan, !.todo = todo]
  OBVIOUS
<1>2. export' = [export EXCEPT ![e] = x]
  BY <1>1
<1>3. /\ x = [phase |-> x.phase, scan |-> x.scan, todo |-> x.todo, late |-> x.late,
             result |-> x.result]
      /\ x.phase = "write" /\ x.scan = scan /\ x.todo = todo
  BY DEF Idle
<1>4. /\ begun' = begun \cup {scan} /\ export[e].phase = "idle"
      /\ UNCHANGED <<disk, db, projections, written, abandoned>>
  BY DEF BeginWrite
<1>5. Writing(todo, scan, db, disk[scan])
  BY WritingBegins DEF ExportInv
<1>6. ExporterSound(x, db', disk, begun')
  BY <1>3, <1>4, <1>5 DEF ExporterSound
<1>7. /\ DOMAIN export' = Exporters
      /\ \A y \in Exporters : ExporterSound(export'[y], db', disk', begun')
  BY <1>2, <1>4, <1>6, NothingChanged, OneExporterSteps
<1>8. \A y \in Exporters : Holds(y) => y # e /\ export'[y] = export[y]
  BY <1>2, <1>4 DEF Holds
<1>9. ProjectionReleased'
  BY <1>4, <1>8 DEF ExportInv, ProjectionReleased, Holds
<1> QED
  BY <1>4, <1>7, <1>9 DEF ExportInv

\* A statement leaves every exporter and every written scan sound.
LEMMA RunStatementKeeps ==
  ASSUME ExportInv, NEW e \in Exporters, RunStatement(e)
  PROVE  ExportInv'
<1> PICK rest : rest = Tail(export[e].todo)
  OBVIOUS
<1> PICK old : old = export[e]
  OBVIOUS
<1> PICK x : x = [old EXCEPT !.todo = rest, !.phase = IF rest = <<>> THEN "drop" ELSE "write"]
  OBVIOUS
<1>1. ExporterSound(old, db, disk, begun)
  BY DEF ExportInv
<1>2. /\ old.phase = "write" /\ db' = Apply(db, Head(old.todo))
      /\ written' = IF rest = <<>> THEN written \cup {old.scan} ELSE written
      /\ UNCHANGED <<disk, projections, begun, abandoned>>
  BY DEF RunStatement
<1>3. export' = [export EXCEPT ![e] = x]
  BY DEF RunStatement
<1>4. Writing(old.todo, old.scan, db, disk[old.scan]) /\ old.scan \in begun
  BY <1>1, <1>2 DEF ExporterSound
<1>5. /\ DbSound(db') /\ Grown(db, db')
      /\ rest # <<>> => Writing(rest, old.scan, db', disk[old.scan])
      /\ rest = <<>> => Traversable(db', old.scan, disk[old.scan])
  BY <1>2, <1>4, StatementIsRun DEF ExportInv
<1>6. /\ x = [phase |-> x.phase, scan |-> x.scan, todo |-> x.todo, late |-> x.late,
             result |-> x.result]
      /\ x.phase = IF rest = <<>> THEN "drop" ELSE "write"
      /\ x.scan = old.scan /\ x.todo = rest
  BY <1>1 DEF ExporterSound
<1>7. ExporterSound(x, db', disk, begun')
  BY <1>2, <1>4, <1>5, <1>6 DEF ExporterSound
<1>8. /\ DOMAIN export' = Exporters
      /\ \A y \in Exporters : ExporterSound(export'[y], db', disk', begun')
  BY <1>2, <1>3, <1>5, <1>7, OneExporterSteps
<1>9. ASSUME NEW scan \in written' PROVE Traversable(db', scan, disk'[scan])
  <2>1. scan \in written \/ (rest = <<>> /\ scan = old.scan)
    BY <1>2
  <2> QED
    BY <1>2, <1>5, <2>1, TraversableForGood DEF ExportInv
<1>10. \A y \in Exporters : Holds(y) => y # e /\ export'[y] = export[y]
  BY <1>2, <1>3 DEF Holds
<1>11. ProjectionReleased'
  BY <1>2, <1>10 DEF ExportInv, ProjectionReleased, Holds
<1> QED
  BY <1>2, <1>4, <1>5, <1>8, <1>9, <1>11 DEF ExportInv

\* A step of one exporter that runs no statement.
LEMMA PhaseKeeps ==
  ASSUME ExportInv, NEW e \in Exporters, NEW x, export' = [export EXCEPT ![e] = x],
         UNCHANGED <<disk, db, written, begun>>,
         x = [phase |-> x.phase, scan |-> x.scan, todo |-> x.todo, late |-> x.late,
              result |-> x.result],
         x.phase \in {"idle", "write", "drop", "project", "louvain", "pagerank", "release"},
         x.phase # "idle" => export[e].phase # "idle" /\ x.scan = export[e].scan,
         x.phase = "write" => export[e].phase = "write" /\ x.todo = export[e].todo,
         projections' \subseteq projections
           \cup (IF x.phase = "louvain" THEN {export[e].scan} ELSE {}),
         abandoned \subseteq abandoned',
         Holds(e) => \/ x.phase \in {"louvain", "pagerank", "release"}
                     \/ export[e].scan \notin projections' \/ export[e].scan \in abandoned'
  PROVE  ExportInv'
<1> PICK old : old = export[e]
  OBVIOUS
<1>1. ExporterSound(old, db, disk, begun)
  BY DEF ExportInv
<1>2. ExporterSound(x, db, disk, begun)
  BY <1>1 DEF ExporterSound
<1>3. /\ DOMAIN export' = Exporters
      /\ \A y \in Exporters : ExporterSound(export'[y], db', disk', begun')
  BY <1>2, NothingChanged, OneExporterSteps
<1>4. projections' \subseteq begun'
  BY <1>1 DEF ExportInv, ExporterSound
<1>5. export'[e] = x /\ \A y \in Exporters \ {e} : export'[y] = export[y]
  BY DEF ExportInv
<1>6. ASSUME NEW scan \in projections'
      PROVE  scan \in abandoned' \/ \E y \in Exporters : Holds(y)' /\ export'[y].scan = scan
  <2>1. CASE x.phase = "louvain" /\ scan = old.scan
    BY <1>5, <2>1 DEF Holds
  <2>2. CASE scan \in projections
    <3>1. CASE scan \in abandoned
      BY <3>1
    <3>2. ASSUME NEW y \in Exporters \ {e}, Holds(y), export[y].scan = scan
          PROVE  \E z \in Exporters : Holds(z)' /\ export'[z].scan = scan
      BY <1>5, <3>2 DEF Holds
    <3>3. CASE Holds(e) /\ old.scan = scan
      BY <1>5, <3>3 DEF Holds
    <3> QED
      BY <2>2, <3>1, <3>2, <3>3 DEF ExportInv, ProjectionReleased
  <2> QED
    BY <2>1, <2>2
<1>7. ProjectionReleased'
  BY <1>6 DEF ProjectionReleased
<1> QED
  BY <1>3, <1>4, <1>7 DEF ExportInv

\* The invariant of the exports is inductive.
LEMMA ExportStepKeeps ==
  ASSUME ExportInv, NEW e \in Exporters, ExportStep(e)
  PROVE  ExportInv'
<1> PICK old : old = export[e]
  OBVIOUS
<1>1. ExporterSound(old, db, disk, begun)
  BY DEF ExportInv
<1>2. old = [phase |-> old.phase, scan |-> old.scan, todo |-> old.todo, late |-> old.late,
             result |-> old.result]
  BY <1>1 DEF ExporterSound
<1>3. ASSUME NEW result, End(e, result), UNCHANGED <<disk, db, written, begun>>,
             projections' \subseteq projections, abandoned \subseteq abandoned',
             Holds(e) => old.scan \notin projections' \/ old.scan \in abandoned'
      PROVE  ExportInv'
  <2> PICK x : x = [Idle EXCEPT !.result = result]
    OBVIOUS
  <2>1. export' = [export EXCEPT ![e] = x]
    BY <1>3 DEF End
  <2>2. /\ x = [phase |-> x.phase, scan |-> x.scan, todo |-> x.todo, late |-> x.late,
               result |-> x.result]
        /\ x.phase = "idle"
    BY DEF Idle
  <2> QED
    BY <1>3, <2>1, <2>2, PhaseKeeps
<1>4. ASSUME NEW phase, old.phase # "idle", phase # "write",
             phase \in {"drop", "project", "louvain", "pagerank", "release"},
             NEW result, export' = [export EXCEPT ![e].phase = phase, ![e].result = result],
             UNCHANGED <<disk, db, written, begun, abandoned>>,
             projections' \subseteq projections
               \cup (IF phase = "louvain" THEN {old.scan} ELSE {}),
             Holds(e) => phase \in {"louvain", "pagerank", "release"}
      PROVE  ExportInv'
  <2> PICK x : x = [old EXCEPT !.phase = phase, !.result = result]
    OBVIOUS
  <2>1. export' = [export EXCEPT ![e] = x]
    BY <1>4
  <2>2. /\ x = [phase |-> x.phase, scan |-> x.scan, todo |-> x.todo, late |-> x.late,
               result |-> x.result]
        /\ x.phase = phase /\ x.scan = old.scan
    BY <1>2
  <2>3. /\ x.phase # "idle" => export[e].phase # "idle" /\ x.scan = export[e].scan
        /\ x.phase = "write" => export[e].phase = "write" /\ x.todo = export[e].todo
        /\ projections' \subseteq projections
              \cup (IF x.phase = "louvain" THEN {export[e].scan} ELSE {})
        /\ Holds(e) => x.phase \in {"louvain", "pagerank", "release"}
        /\ x.phase \in {"idle", "write", "drop", "project", "louvain", "pagerank", "release"}
    BY <1>4, <2>2
  <2>4. UNCHANGED <<disk, db, written, begun>> /\ abandoned \subseteq abandoned'
    BY <1>4
  <2> QED
    BY <2>1, <2>2, <2>3, <2>4, PhaseKeeps
<1>5. CASE \E scan \in DOMAIN disk : BeginWrite(e, scan)
  BY <1>5, BeginWriteKeeps
<1>6. CASE RunStatement(e)
  BY <1>6, RunStatementKeeps
<1>7. CASE WriteFails(e)
  <2>1. /\ End(e, "failed") /\ UNCHANGED <<disk, db, projections, written, begun, abandoned>>
        /\ ~Holds(e)
    BY <1>7 DEF WriteFails, Holds
  <2> QED
    BY <1>3, <2>1
<1>8. CASE DropStale(e)
  <2>1. /\ old.phase = "drop" /\ export' = [export EXCEPT ![e].phase = "project"]
        /\ projections' \subseteq projections
        /\ UNCHANGED <<disk, db, written, begun, abandoned>>
    BY <1>8 DEF DropStale, To
  <2>2. export' = [export EXCEPT ![e].phase = "project", ![e].result = old.result]
    BY <1>2, <2>1
  <2> QED
    BY <1>4, <2>1, <2>2 DEF Holds
<1>9. CASE Project(e)
  <2>1. old.phase = "project" /\ UNCHANGED <<disk, db, written, begun, abandoned>>
    BY <1>9 DEF Project
  <2>2. CASE projections' = projections \cup {old.scan} /\ To(e, "louvain")
    <3>1. export' = [export EXCEPT ![e].phase = "louvain", ![e].result = old.result]
      BY <1>2, <2>2 DEF To
    <3> QED
      BY <1>4, <2>1, <2>2, <3>1 DEF Holds
  <2>3. CASE End(e, "exported") /\ UNCHANGED projections
    BY <1>3, <2>1, <2>3 DEF Holds
  <2> QED
    BY <1>9, <2>2, <2>3 DEF Project
<1>10. CASE Analyse(e)
  <2>1. /\ old.phase \in {"louvain", "pagerank"}
        /\ UNCHANGED <<disk, db, projections, written, begun, abandoned>>
    BY <1>10 DEF Analyse
  <2>2. PICK phase, result :
          /\ phase \in {"pagerank", "release"}
          /\ export' = [export EXCEPT ![e].phase = phase, ![e].result = result]
    BY <1>10 DEF Analyse
  <2> QED
    BY <1>4, <2>1, <2>2
<1>11. CASE Release(e)
  <2>1. /\ old.phase = "release" /\ End(e, old.result)
        /\ UNCHANGED <<disk, db, written, begun>>
        /\ \/ projections' = projections \ {old.scan} /\ UNCHANGED abandoned
           \/ abandoned' = abandoned \cup {old.scan} /\ UNCHANGED projections
    BY <1>11 DEF Release
  <2> QED
    BY <1>3, <2>1
<1>12. CASE Deadline(e)
  <2> PICK x : x = [old EXCEPT !.late = TRUE]
    OBVIOUS
  <2>1. /\ export' = [export EXCEPT ![e] = x] /\ old.phase # "idle"
        /\ UNCHANGED <<disk, db, projections, written, begun, abandoned>>
    BY <1>12 DEF Deadline
  <2>2. /\ x = [phase |-> x.phase, scan |-> x.scan, todo |-> x.todo, late |-> x.late,
               result |-> x.result]
        /\ x.phase = old.phase /\ x.scan = old.scan /\ x.todo = old.todo
    BY <1>2
  <2> QED
    BY <1>1, <2>1, <2>2, PhaseKeeps DEF ExporterSound, Holds
<1>13. CASE ExporterDies(e)
  <2>1. /\ End(e, "none") /\ UNCHANGED <<disk, db, projections, written, begun>>
        /\ abandoned' = IF Holds(e) THEN abandoned \cup {old.scan} ELSE abandoned
    BY <1>13 DEF ExporterDies
  <2> QED
    BY <1>3, <2>1
<1> QED
  BY <1>5, <1>6, <1>7, <1>8, <1>9, <1>10, <1>11, <1>12, <1>13 DEF ExportStep
=============================================================================
