---------------------------- MODULE Views_proofs ----------------------------
(***************************************************************************)
(* Proofs about the pages of the dashboard: what one of them says, another *)
(* one says too, although each is computed by itself.  Sorting has one     *)
(* outcome, so that the pages of a list fit together; sums over accounts,  *)
(* groups and entities are sums over findings; and what an alert tells of  *)
(* is in the comparison of the two scans.                                  *)
(***************************************************************************)
EXTENDS Dashboard_proofs

-----------------------------------------------------------------------------
(* Lists and the sums over them.                                           *)

\* In a list that goes up, a member stands behind those that are less.
LEMMA PlaceTells ==
  ASSUME NEW S, NEW less, StrictTotal(S, less), NEW seq, ListsOnce(seq, S),
         \A i, j \in DOMAIN seq : i < j => <<seq[i], seq[j]>> \in less,
         NEW i \in DOMAIN seq
  PROVE  Cardinality({y \in S : <<y, seq[i]>> \in less}) = i - 1
<1> PICK before : before = {y \in S : <<y, seq[i]>> \in less}
  OBVIOUS
<1>1. /\ Len(seq) \in Nat /\ DOMAIN seq = 1..Len(seq) /\ i \in Nat /\ i >= 1
      /\ \A k \in DOMAIN seq : seq[k] \in S /\ k \in Int
      /\ \A y \in S : \E k \in DOMAIN seq : seq[k] = y
      /\ \A j, k \in DOMAIN seq : seq[j] = seq[k] => j = k
  BY LenProperties DEF ListsOnce, Lists, Range, IsInjective
<1>2. ASSUME NEW k \in DOMAIN seq PROVE seq[k] \in before <=> k < i
  <2>1. CASE k < i
    BY <1>1, <2>1
  <2>2. CASE k = i
    BY <1>1, <2>2 DEF StrictTotal
  <2>3. CASE k > i
    <3>1. <<seq[i], seq[k]>> \in less /\ seq[i] \in S /\ seq[k] \in S
      BY <1>1, <2>3
    <3>2. <<seq[k], seq[i]>> \notin less
      BY <3>1 DEF StrictTotal
    <3> QED
      BY <1>1, <2>3, <3>2
  <2> QED
    BY <1>1, <2>1, <2>2, <2>3
<1> DEFINE f == [k \in 1..(i - 1) |-> seq[k]]
<1>3. f \in [1..(i - 1) -> before]
  BY <1>1, <1>2
<1>4. ASSUME NEW y \in before PROVE \E k \in 1..(i - 1) : f[k] = y
  <2>1. PICK k \in DOMAIN seq : seq[k] = y
    BY <1>1
  <2> QED
    BY <1>1, <1>2, <2>1
<1>5. \A j, k \in 1..(i - 1) : f[j] = f[k] => j = k
  BY <1>1
<1>6. f \in Bijection(1..(i - 1), before)
  <2> HIDE DEF f
  <2> QED
    BY <1>3, <1>4, <1>5 DEF Bijection, Injection, Surjection, IsInjective
<1>7. IsFiniteSet(1..(i - 1)) /\ Cardinality(1..(i - 1)) = i - 1
  <2>1. 1 \in Int /\ i - 1 \in Int /\ (1 > i - 1 => i - 1 = 0) /\ (i - 1) - 1 + 1 = i - 1
    BY <1>1
  <2> QED
    BY <2>1, FS_Interval
<1>8. Cardinality(before) = Cardinality(1..(i - 1))
  <2>1. ExistsBijection(1..(i - 1), before)
    BY <1>6 DEF ExistsBijection
  <2> QED
    BY <1>7, <2>1, FS_Bijection
<1> QED
  BY <1>7, <1>8

\* Two lists of one set that go up are one.
LEMMA OneWayUp ==
  ASSUME NEW S, NEW less, StrictTotal(S, less),
         NEW s, ListsOnce(s, S), \A i, j \in DOMAIN s : i < j => <<s[i], s[j]>> \in less,
         NEW t, ListsOnce(t, S), \A i, j \in DOMAIN t : i < j => <<t[i], t[j]>> \in less
  PROVE  s = t
<1>1. /\ Len(s) = Len(t) /\ Len(s) \in Nat
      /\ DOMAIN s = 1..Len(s) /\ DOMAIN t = 1..Len(t)
      /\ s = [i \in DOMAIN s |-> s[i]] /\ t = [i \in DOMAIN t |-> t[i]]
  <2>1. Len(s) = Len(t)
    BY OnceIsAsMany
  <2>2. s \in Seq(S) /\ t \in Seq(S)
    BY DEF ListsOnce, Lists
  <2> QED
    BY <2>1, <2>2, LenProperties
<1>2. ASSUME NEW i \in DOMAIN s PROVE s[i] = t[i]
  <2>1. s[i] \in S /\ \A y \in S : \E k \in DOMAIN t : t[k] = y
    BY DEF ListsOnce, Lists, Range
  <2>2. PICK k \in DOMAIN t : t[k] = s[i]
    BY <2>1
  <2> PICK n : n = Cardinality({y \in S : <<y, s[i]>> \in less})
    OBVIOUS
  <2>3. n = i - 1
    BY PlaceTells
  <2>4. n = k - 1
    BY <2>2, PlaceTells
  <2> QED
    BY <1>1, <2>2, <2>3, <2>4
<1> QED
  BY <1>1, <1>2

\* Where rows never compare as equal, sorting has one outcome.
LEMMA SortedOneWay ==
  ASSUME NEW S, IsFiniteSet(S), NEW less, StrictTotal(S, less),
         NEW s \in SetToSeqs(S), \A i, j \in DOMAIN s : i < j => <<s[j], s[i]>> \notin less
  PROVE  s = Lined(S, less)
<1> PICK n : n = Cardinality(S)
  OBVIOUS
<1>1. n \in Nat /\ s \in [1..n -> S] /\ \A i, j \in 1..n : s[i] = s[j] => i = j
  BY FS_CardinalityType DEF SetToSeqs
<1>2. s \in Seq(S)
  BY <1>1, IsASequence
<1>3. IsInjective(s)
  BY <1>1 DEF IsInjective
<1>4. Range(s) = S
  <2>1. s \in Injection(1..n, S)
    BY <1>1 DEF Injection, IsInjective
  <2>2. IsFiniteSet(1..n) /\ Cardinality(1..n) = n
    BY <1>1, FS_Interval
  <2>3. s \in Surjection(1..n, S)
    BY <2>1, <2>2, FS_Injection
  <2> QED
    BY <1>1, <2>3 DEF Surjection, Range
<1>5. ListsOnce(s, S)
  BY <1>2, <1>3, <1>4 DEF ListsOnce, Lists
<1>6. ASSUME NEW i \in DOMAIN s, NEW j \in DOMAIN s, i < j PROVE <<s[i], s[j]>> \in less
  <2>1. s[i] \in S /\ s[j] \in S /\ i \in Int /\ j \in Int
    BY <1>1
  <2>2. s[i] # s[j]
    BY <1>1, <1>6
  <2> QED
    BY <1>6, <2>1, <2>2 DEF StrictTotal
<1> PICK t : t = Lined(S, less)
  OBVIOUS
<1>7. ListsOnce(t, S) /\ \A i, j \in DOMAIN t : i < j => <<t[i], t[j]>> \in less
  BY TotalOnce
<1>8. s = t
  BY <1>5, <1>6, <1>7, OneWayUp
<1> QED
  BY <1>8

\* The pages up to one, and the next one after them.
LEMMA NextPageFollows ==
  ASSUME NEW S, NEW list \in Seq(S), NEW n \in Nat \ {0}, NEW size \in Nat \ {0},
         n * size < Len(list)
  PROVE  SubSeq(list, 1, Min({n * size, Len(list)})) \o PageOf(list, n + 1, size)
           = SubSeq(list, 1, Min({(n + 1) * size, Len(list)}))
<1> PICK len : len = Len(list)
  OBVIOUS
<1> PICK a : a = n * size
  OBVIOUS
<1> PICK b : b = Min({(n + 1) * size, len})
  OBVIOUS
<1>1. len \in Nat /\ a \in Nat /\ (n + 1) * size = a + size /\ ((n + 1) - 1) * size = a
  BY LenProperties
<1>2. Min({a, len}) = a
  BY <1>1 DEF Min
<1>3. b \in Nat /\ a <= b /\ b <= len
  <2>1. b \in {a + size, len} /\ \A y \in {a + size, len} : b <= y
    <3>1. \E x \in {a + size, len} : \A y \in {a + size, len} : x <= y
      BY <1>1
    <3>2. b = CHOOSE x \in {a + size, len} : \A y \in {a + size, len} : x <= y
      BY <1>1 DEF Min
    <3> QED
      BY <3>1, <3>2
  <2> QED
    BY <1>1, <2>1
<1>4. PageOf(list, n + 1, size) = SubSeq(list, a + 1, b)
  BY <1>1 DEF PageOf
<1>5. SubSeq(list, 1, a) \o SubSeq(list, a + 1, b) = SubSeq(list, 1, b)
  <2>1. 1 \in 1..(Len(list) + 1) /\ a \in (1 - 1)..Len(list) /\ b \in a..Len(list)
    BY <1>1, <1>3
  <2> QED
    BY <2>1, ConcatAdjacentSubSeq
<1> QED
  BY <1>1, <1>2, <1>4, <1>5

\* The sum of a function over some of its arguments.
SumOver(v, S) == Total([x \in S |-> v[x]])

\* Sums of one function agree wherever they are both defined.
LEMMA SumsAgree ==
  ASSUME NEW D, IsFiniteSet(D), NEW U \in SUBSET D,
         NEW f, NEW v, Sums(f, v, SUBSET D), NEW h, NEW w, Sums(h, w, SUBSET U),
         \A x \in U : v[x] = w[x]
  PROVE  f[U] = h[U]
<1> DEFINE good == {s \in SUBSET U : f[s] = h[s]}
<1>1. ASSUME NEW T \in SUBSET U, \A x \in T : T \ {x} \in good PROVE T \in good
  <2>1. /\ f[T] = IF T = {} THEN 0 ELSE v[Some(T)] + f[T \ {Some(T)}]
        /\ h[T] = IF T = {} THEN 0 ELSE w[Some(T)] + h[T \ {Some(T)}]
    <3>1. T \in SUBSET D
      OBVIOUS
    <3> QED
      BY <3>1 DEF Sums
  <2>2. CASE T = {}
    BY <2>1, <2>2
  <2>3. CASE T # {}
    <3>1. Some(T) \in T
      BY <2>3 DEF Some
    <3>2. f[T \ {Some(T)}] = h[T \ {Some(T)}] /\ v[Some(T)] = w[Some(T)]
      BY <1>1, <3>1
    <3> QED
      BY <2>1, <2>3, <3>2
  <2> QED
    BY <2>2, <2>3
<1> HIDE DEF good
<1>2. HandedOn(U, good)
  BY <1>1 DEF HandedOn
<1>3. IsFiniteSet(U)
  BY FS_Subset
<1>4. U \in good
  BY <1>2, <1>3, AllOfThem
<1> QED
  BY <1>4 DEF good

\* A sum is that of one argument, which is picked, and of the others.
LEMMA SumPicks ==
  ASSUME NEW S, IsFiniteSet(S), NEW v, \A x \in S : v[x] \in Int
  PROVE  /\ SumOver(v, S) \in Int
         /\ S = {} => SumOver(v, S) = 0
         /\ S # {} => \E x \in S : SumOver(v, S) = v[x] + SumOver(v, S \ {x})
<1> DEFINE all == [x \in S |-> v[x]]
<1>1. all \in [S -> Int]
  OBVIOUS
<1> HIDE DEF all
<1>2. PICK h \in [SUBSET S -> Int] : Sums(h, all, SUBSET S) /\ Total(all) = h[S]
  BY <1>1, TotalUnfolds
<1>3. SumOver(v, S) = h[S] /\ h[S] \in Int
  BY <1>2 DEF SumOver, all
<1>4. h[S] = IF S = {} THEN 0 ELSE all[Some(S)] + h[S \ {Some(S)}]
  <2>1. S \in SUBSET S
    OBVIOUS
  <2> QED
    BY <1>2, <2>1 DEF Sums
<1>5. ASSUME S # {} PROVE \E x \in S : SumOver(v, S) = v[x] + SumOver(v, S \ {x})
  <2> PICK x : x = Some(S)
    OBVIOUS
  <2>1. x \in S
    BY <1>5 DEF Some
  <2> PICK U : U = S \ {x}
    OBVIOUS
  <2> DEFINE rest == [y \in U |-> v[y]]
  <2>2. U \in SUBSET S /\ IsFiniteSet(U)
    BY FS_Subset
  <2>3. rest \in [U -> Int] /\ \A y \in U : all[y] = rest[y]
    BY DEF all
  <2> HIDE DEF rest
  <2>4. PICK g \in [SUBSET U -> Int] : Sums(g, rest, SUBSET U) /\ Total(rest) = g[U]
    <3>1. IsFiniteSet(U) /\ rest \in [U -> Int]
      BY <2>2, <2>3
    <3> QED
      BY ONLY <3>1, TotalUnfolds
  <2>5. h[U] = g[U]
    <3>1. /\ IsFiniteSet(S) /\ all \in [S -> Int] /\ h \in [SUBSET S -> Int] /\ Sums(h, all, SUBSET S)
          /\ rest \in [U -> Int] /\ g \in [SUBSET U -> Int] /\ Sums(g, rest, SUBSET U)
      BY <1>1, <1>2, <2>3, <2>4
    <3> QED
      BY ONLY <2>2, <2>3, <3>1, SumsAgree, SMTT(20)
  <2>6. SumOver(v, U) = g[U]
    BY <2>4 DEF SumOver, rest
  <2>7. all[x] = v[x]
    BY <2>1 DEF all
  <2> QED
    BY <1>3, <1>4, <1>5, <2>1, <2>5, <2>6, <2>7
<1> QED
  BY <1>3, <1>4, <1>5

\* Any argument may be picked.
LEMMA SumTakesAny ==
  ASSUME NEW S, IsFiniteSet(S), NEW v, \A x \in S : v[x] \in Int, NEW x \in S
  PROVE  SumOver(v, S) = v[x] + SumOver(v, S \ {x})
<1> DEFINE good == {T \in SUBSET S : \A y \in T : SumOver(v, T) = v[y] + SumOver(v, T \ {y})}
<1>1. ASSUME NEW T \in SUBSET S PROVE IsFiniteSet(T) /\ SumOver(v, T) \in Int
  BY FS_Subset, SumPicks
<1>2. ASSUME NEW T \in SUBSET S, \A y \in T : T \ {y} \in good PROVE T \in good
  <2> SUFFICES ASSUME NEW y \in T PROVE SumOver(v, T) = v[y] + SumOver(v, T \ {y})
    OBVIOUS
  <2>1. PICK c \in T : SumOver(v, T) = v[c] + SumOver(v, T \ {c})
    BY <1>1, SumPicks
  <2>2. CASE y = c
    BY <2>1, <2>2
  <2>3. CASE y # c
    <3>1. SumOver(v, T \ {c}) = v[y] + SumOver(v, (T \ {c}) \ {y})
      BY <1>2, <2>3
    <3>2. SumOver(v, T \ {y}) = v[c] + SumOver(v, (T \ {y}) \ {c})
      BY <1>2, <2>3
    <3>3. (T \ {c}) \ {y} = (T \ {y}) \ {c}
      OBVIOUS
    <3>4. SumOver(v, (T \ {y}) \ {c}) \in Int /\ v[y] \in Int /\ v[c] \in Int
      BY <1>1
    <3> PICK n : n = SumOver(v, (T \ {y}) \ {c})
      OBVIOUS
    <3>5. /\ SumOver(v, T) = v[c] + (v[y] + n) /\ SumOver(v, T \ {y}) = v[c] + n
          /\ n \in Int
      BY <2>1, <3>1, <3>2, <3>3, <3>4
    <3> QED
      BY <3>4, <3>5
  <2> QED
    BY <2>2, <2>3
<1>3. HandedOn(S, good)
  <2> HIDE DEF good
  <2> QED
    BY <1>2 DEF HandedOn
<1>4. S \in good
  <2> HIDE DEF good
  <2> QED
    BY <1>3, AllOfThem
<1> QED
  BY <1>4

\* A set is as large as the sum of ones over it.
LEMMA CountIsSum ==
  ASSUME NEW S, IsFiniteSet(S), NEW one, \A x \in S : one[x] = 1
  PROVE  Cardinality(S) = SumOver(one, S)
<1> DEFINE good == {T \in SUBSET S : Cardinality(T) = SumOver(one, T)}
<1>1. ASSUME NEW T \in SUBSET S, \A y \in T : T \ {y} \in good PROVE T \in good
  <2>1. IsFiniteSet(T) /\ Cardinality(T) \in Nat
    BY FS_Subset, FS_CardinalityType
  <2>2. CASE T = {}
    BY <2>1, <2>2, SumPicks, FS_EmptySet
  <2>3. CASE T # {}
    <3>1. PICK y \in T : TRUE
      BY <2>3
    <3>2. SumOver(one, T) = one[y] + SumOver(one, T \ {y})
      BY <2>1, SumTakesAny
    <3>3. Cardinality(T \ {y}) = Cardinality(T) - 1
      BY <2>1, FS_RemoveElement
    <3>4. Cardinality(T \ {y}) = SumOver(one, T \ {y})
      BY <1>1
    <3> QED
      BY <2>1, <3>2, <3>3, <3>4
  <2> QED
    BY <2>2, <2>3
<1>2. HandedOn(S, good)
  <2> HIDE DEF good
  <2> QED
    BY <1>1 DEF HandedOn
<1>3. S \in good
  <2> HIDE DEF good
  <2> QED
    BY <1>2, AllOfThem
<1> QED
  BY <1>3

\* The sum over two sets that have nothing in common.
LEMMA SumOfTwo ==
  ASSUME NEW S, IsFiniteSet(S), NEW v, \A x \in S : v[x] \in Int, NEW A
  PROVE  SumOver(v, S) = SumOver(v, S \cap A) + SumOver(v, S \ A)
<1> DEFINE good == {T \in SUBSET S : SumOver(v, T) = SumOver(v, T \cap A) + SumOver(v, T \ A)}
<1>1. ASSUME NEW T \in SUBSET S PROVE IsFiniteSet(T) /\ SumOver(v, T) \in Int
  BY FS_Subset, SumPicks
<1>2. ASSUME NEW T \in SUBSET S, \A y \in T : T \ {y} \in good PROVE T \in good
  <2>1. CASE T = {}
    <3>1. T \cap A = {} /\ T \ A = {}
      BY <2>1
    <3>2. SumOver(v, {}) = 0
      BY <1>1, SumPicks
    <3> QED
      BY <2>1, <3>1, <3>2
  <2>2. CASE T # {}
    <3>1. PICK y \in T : TRUE
      BY <2>2
    <3>2. SumOver(v, T) = v[y] + SumOver(v, T \ {y}) /\ v[y] \in Int
      BY <1>1, SumTakesAny
    <3>3. SumOver(v, T \ {y}) = SumOver(v, (T \ {y}) \cap A) + SumOver(v, (T \ {y}) \ A)
      BY <1>2
    <3>4. SumOver(v, (T \ {y}) \cap A) \in Int /\ SumOver(v, (T \ {y}) \ A) \in Int
      BY <1>1
    <3>5. CASE y \in A
      <4>1. (T \ {y}) \ A = T \ A /\ (T \ {y}) \cap A = (T \cap A) \ {y} /\ y \in T \cap A
        BY <3>5
      <4>2. SumOver(v, T \cap A) = v[y] + SumOver(v, (T \cap A) \ {y})
        BY <1>1, <4>1, SumTakesAny
      <4> PICK m, n : m = SumOver(v, (T \cap A) \ {y}) /\ n = SumOver(v, T \ A)
        OBVIOUS
      <4>3. /\ m \in Int /\ n \in Int /\ SumOver(v, T) = v[y] + (m + n)
            /\ SumOver(v, T \cap A) = v[y] + m
        BY <3>2, <3>3, <3>4, <4>1, <4>2
      <4> QED
        BY <3>2, <4>3
    <3>6. CASE y \notin A
      <4>1. (T \ {y}) \cap A = T \cap A /\ (T \ {y}) \ A = (T \ A) \ {y} /\ y \in T \ A
        BY <3>6
      <4>2. SumOver(v, T \ A) = v[y] + SumOver(v, (T \ A) \ {y})
        BY <1>1, <4>1, SumTakesAny
      <4> PICK m, n : m = SumOver(v, T \cap A) /\ n = SumOver(v, (T \ A) \ {y})
        OBVIOUS
      <4>3. /\ m \in Int /\ n \in Int /\ SumOver(v, T) = v[y] + (m + n)
            /\ SumOver(v, T \ A) = v[y] + n
        BY <3>2, <3>3, <3>4, <4>1, <4>2
      <4> QED
        BY <3>2, <4>3
    <3> QED
      BY <3>5, <3>6
  <2> QED
    BY <2>1, <2>2
<1>3. HandedOn(S, good)
  <2> HIDE DEF good
  <2> QED
    BY <1>2 DEF HandedOn
<1>4. S \in good
  <2> HIDE DEF good
  <2> QED
    BY <1>3, AllOfThem
<1> QED
  BY <1>4

\* What the rows of a table add up to: each has a part of its own.
LEMMA SumOfRows ==
  ASSUME NEW R, IsFiniteSet(R), NEW F, IsFiniteSet(F), NEW v, \A f \in F : v[f] \in Int,
         NEW own \in [R -> SUBSET F], \A q, r \in R : q # r => own[q] \cap own[r] = {},
         NEW w, \A r \in R : w[r] = SumOver(v, own[r])
  PROVE  SumOver(w, R) = SumOver(v, UNION {own[r] : r \in R})
<1> DEFINE parts(T) == UNION {own[r] : r \in T}
           good == {T \in SUBSET R : SumOver(w, T) = SumOver(v, parts(T))}
<1>1. ASSUME NEW G \in SUBSET F PROVE IsFiniteSet(G) /\ SumOver(v, G) \in Int
  BY FS_Subset, SumPicks
<1>2. \A r \in R : own[r] \in SUBSET F /\ w[r] \in Int
  BY <1>1
<1>3. ASSUME NEW T \in SUBSET R, \A y \in T : T \ {y} \in good PROVE T \in good
  <2>1. IsFiniteSet(T)
    BY FS_Subset
  <2>2. CASE T = {}
    <3>1. parts(T) = {}
      BY <2>2
    <3>2. SumOver(w, {}) = 0 /\ SumOver(v, {}) = 0
      BY <1>1, <2>1, <2>2, SumPicks
    <3> QED
      BY <2>2, <3>1, <3>2
  <2>3. CASE T # {}
    <3>1. PICK y \in T : TRUE
      BY <2>3
    <3>2. SumOver(w, T) = w[y] + SumOver(w, T \ {y})
      BY <1>2, <2>1, SumTakesAny
    <3>3. SumOver(w, T \ {y}) = SumOver(v, parts(T \ {y}))
      BY <1>3
    <3>4. parts(T) \subseteq F
      BY <1>2
    <3>5. parts(T) \cap own[y] = own[y] /\ parts(T) \ own[y] = parts(T \ {y})
      OBVIOUS
    <3> HIDE DEF parts
    <3> PICK P : P = parts(T)
      OBVIOUS
    <3>6. SumOver(v, P) = SumOver(v, P \cap own[y]) + SumOver(v, P \ own[y])
      <4>1. IsFiniteSet(P) /\ \A f \in P : v[f] \in Int
        BY <1>1, <3>4
      <4> QED
        BY ONLY <4>1, SumOfTwo
    <3> QED
      BY <3>2, <3>3, <3>5, <3>6
  <2> QED
    BY <2>2, <2>3
<1>4. HandedOn(R, good)
  <2> HIDE DEF good
  <2> QED
    BY <1>3 DEF HandedOn
<1>5. R \in good
  <2> HIDE DEF good
  <2> QED
    BY <1>4, AllOfThem
<1> QED
  BY <1>5

\* The sum over a table of which one row counts at most.
LEMMA SumOfOne ==
  ASSUME NEW R, IsFiniteSet(R), NEW w, NEW it, \A r \in R : r # it => w[r] = 0,
         it \in R => w[it] \in Int
  PROVE  SumOver(w, R) = If(it \in R, w[it])
<1> DEFINE good == {T \in SUBSET (R \ {it}) : SumOver(w, T) = 0}
<1>1. IsFiniteSet(R \ {it})
  BY FS_RemoveElement
<1>2. ASSUME NEW T \in SUBSET (R \ {it}), \A y \in T : T \ {y} \in good PROVE T \in good
  <2>1. IsFiniteSet(T) /\ \A y \in T : w[y] = 0
    BY <1>1, FS_Subset
  <2>2. CASE T = {}
    BY <2>1, <2>2, SumPicks
  <2>3. CASE T # {}
    <3>1. PICK y \in T : TRUE
      BY <2>3
    <3>2. SumOver(w, T) = w[y] + SumOver(w, T \ {y})
      BY <2>1, SumTakesAny
    <3> QED
      BY <1>2, <2>1, <3>1, <3>2
  <2> QED
    BY <2>2, <2>3
<1>3. HandedOn(R \ {it}, good)
  <2> HIDE DEF good
  <2> QED
    BY <1>2 DEF HandedOn
<1>4. R \ {it} \in good
  <2> HIDE DEF good
  <2> QED
    BY <1>1, <1>3, AllOfThem
<1>5. SumOver(w, R \ {it}) = 0
  BY <1>4
<1>6. CASE it \in R
  <2>1. SumOver(w, R) = w[it] + SumOver(w, R \ {it})
    BY <1>6, SumTakesAny
  <2> QED
    BY <1>5, <1>6, <2>1 DEF If
<1>7. CASE it \notin R
  <2>1. R \ {it} = R
    BY <1>7
  <2> QED
    BY <1>5, <1>7, <2>1 DEF If
<1> QED
  BY <1>6, <1>7

\* What the rows of a file are sorted by.
Rows(F) ==
  /\ IsFiniteSet(F)
  /\ \A f \in F : f.id \in DOMAIN Rank /\ f.nth \in Nat /\ f.arn \in DOMAIN Rank /\ f.cost \in Int
  /\ \A f, g \in F : f.id = g.id /\ f.nth = g.nth => f = g

\* Severities are numbers.
LEMMA SeveritiesAreNumbers ==
  ASSUME NEW s
  PROVE  /\ prioritySeverityRank(s) \in 0..5 /\ listRank(s) \in 1..5 /\ severityRank(s) \in 1..4
<1>1. prioritySeverityRank(s) \in 0..5
  BY DEF prioritySeverityRank
<1>2. ASSUME NEW n \in Int PROVE Max({n, 1}) \in {n, 1} /\ Max({n, 1}) >= 1
  BY <1>2, MaxOfTwo
<1> QED
  BY <1>1, <1>2 DEF listRank, severityRank

\* The list of findings has one order.
LEMMA FindingLessIsTotal ==
  ASSUME NEW F, Rows(F)
  PROVE  StrictTotal(F, {p \in F \X F : findingLess(p[1], p[2])})
<1> PICK less : less = {p \in F \X F : findingLess(p[1], p[2])}
  OBVIOUS
<1> DEFINE n(f) == listRank(f.severity)
           lt(a, b) == \/ n(a) > n(b)
                       \/ n(a) = n(b) /\ Rank[a.arn] < Rank[b.arn]
                       \/ /\ n(a) = n(b) /\ Rank[a.arn] = Rank[b.arn]
                          /\ \/ Rank[a.id] < Rank[b.id]
                             \/ Rank[a.id] = Rank[b.id] /\ a.nth < b.nth
<1>1. ASSUME NEW f \in F
      PROVE  /\ Rank[f.arn] \in Int /\ Rank[f.id] \in Int /\ f.nth \in Int /\ n(f) \in Int
             /\ f.arn \in DOMAIN Rank /\ f.id \in DOMAIN Rank
  BY SeveritiesAreNumbers, OrderIsTotal DEF Rows
<1>2. ASSUME NEW f \in F, NEW g \in F
      PROVE  /\ Rank[f.arn] = Rank[g.arn] <=> f.arn = g.arn
             /\ Rank[f.id] = Rank[g.id] <=> f.id = g.id
  BY <1>1, OrderIsTotal
<1>3. ASSUME NEW f \in F, NEW g \in F PROVE <<f, g>> \in less <=> lt(f, g)
  BY <1>2 DEF findingLess
<1> HIDE DEF n
<1>4. ASSUME NEW f \in F, NEW g \in F, f # g PROVE <<f, g>> \in less \/ <<g, f>> \in less
  <2>1. Rank[f.id] # Rank[g.id] \/ f.nth # g.nth
    BY <1>2, <1>4 DEF Rows
  <2> QED
    BY <1>1, <1>3, <2>1
<1>5. \A f \in F : <<f, f>> \notin less
  BY <1>1, <1>3
<1>6. \A f, g, h \in F : <<f, g>> \in less /\ <<g, h>> \in less => <<f, h>> \in less
  BY <1>1, <1>3
<1> QED
  BY <1>4, <1>5, <1>6 DEF StrictTotal

\* The order in which findings are to be fixed.
Fixes(F) ==
  {p \in F \X F : \/ PriorityLess(p[1], p[2])
                  \/ ~PriorityLess(p[2], p[1]) /\ p[1].nth < p[2].nth}

\* What is to be fixed first has a number.
LEMMA PriorityIsNumber ==
  ASSUME NEW f, f.cost \in Int
  PROVE  PriorityScore(f) \in Int
<1>1. \A s : severityPoints(s) \in Int
  BY DEF severityPoints
<1>2. \A c : claimabilityPoints(c) \in Int
  BY DEF claimabilityPoints
<1>3. ASSUME NEW m \in Int, NEW n \in Int PROVE Min({m, n}) \in Int
  BY <1>3, MinOfTwo
<1>4. riskCostPoints(f.cost) \in Int
  <2>1. (12 * f.cost + 50) \div 100 \in Int
    OBVIOUS
  <2> QED
    BY <1>3, <2>1 DEF riskCostPoints
<1>5. externalExposurePoints(f) \in Int
  <2>1. \A c, n : n \in Int => If(c, n) \in Int
    BY DEF If
  <2>2. 1000 + If(f.vis.admin, 2200) + If(isStale(f), 1400)
             + If(f.vis.class = "privileged", 1200)
             + If(UnknownVendor(f), 900) + If(f.ptype = None, 500) \in Int
    <3>1. /\ If(f.vis.admin, 2200) \in Int /\ If(isStale(f), 1400) \in Int
          /\ If(f.vis.class = "privileged", 1200) \in Int /\ If(UnknownVendor(f), 900) \in Int
          /\ If(f.ptype = None, 500) \in Int
      BY <2>1
    <3> QED
      BY <3>1
  <2> QED
    BY <1>3, <2>2 DEF externalExposurePoints
<1> QED
  BY <1>1, <1>2, <1>4, <1>5 DEF PriorityScore

\* That order is one, too.
LEMMA FixesAreOrdered ==
  ASSUME NEW F, Rows(F)
  PROVE  StrictTotal(F, Fixes(F))
<1> DEFINE n(f) == PriorityScore(f)
           m(f) == prioritySeverityRank(f.severity)
           lt(a, b) == \/ n(a) > n(b)
                       \/ n(a) = n(b) /\ m(a) > m(b)
                       \/ n(a) = n(b) /\ m(a) = m(b) /\ a.cost > b.cost
                       \/ /\ n(a) = n(b) /\ m(a) = m(b) /\ a.cost = b.cost
                          /\ Rank[a.id] < Rank[b.id]
           eq(a, b) == /\ n(a) = n(b) /\ m(a) = m(b) /\ a.cost = b.cost
                       /\ Rank[a.id] = Rank[b.id]
<1>1. ASSUME NEW f \in F
      PROVE  /\ n(f) \in Int /\ m(f) \in Int /\ f.cost \in Int /\ Rank[f.id] \in Int
             /\ f.nth \in Int
  BY SeveritiesAreNumbers, PriorityIsNumber, OrderIsTotal DEF Rows
<1> HIDE DEF n, m
<1>2. ASSUME NEW f \in F, NEW g \in F PROVE PriorityLess(f, g) <=> lt(f, g)
  <2> DEFINE s == <<n(f), m(f), f.cost>>
             t == <<n(g), m(g), g.cost>>
  <2>1. /\ s[1] = n(f) /\ s[2] = m(f) /\ s[3] = f.cost
        /\ t[1] = n(g) /\ t[2] = m(g) /\ t[3] = g.cost
        /\ s = t <=> n(f) = n(g) /\ m(f) = m(g) /\ f.cost = g.cost
    OBVIOUS
  <2>2. PriorityLess(f, g) <=>
          \/ \E i \in 1..3 : s[i] > t[i] /\ \A j \in 1..(i - 1) : s[j] = t[j]
          \/ s = t /\ Rank[f.id] < Rank[g.id]
    BY DEF PriorityLess, n, m
  <2> HIDE DEF s, t
  <2>3. (\E i \in 1..3 : s[i] > t[i] /\ \A j \in 1..(i - 1) : s[j] = t[j]) <=>
          \/ s[1] > t[1]
          \/ s[2] > t[2] /\ s[1] = t[1]
          \/ s[3] > t[3] /\ s[1] = t[1] /\ s[2] = t[2]
    <3>1. \A i \in 1..3 : i = 1 \/ i = 2 \/ i = 3
      OBVIOUS
    <3>2. 1..(1 - 1) = {} /\ 1..(2 - 1) = {1} /\ 1..(3 - 1) = {1, 2}
      OBVIOUS
    <3> QED
      BY <3>1, <3>2
  <2> QED
    BY <2>1, <2>2, <2>3
<1>3. ASSUME NEW f \in F, NEW g \in F
      PROVE  <<f, g>> \in Fixes(F) <=> lt(f, g) \/ (~lt(g, f) /\ f.nth < g.nth)
  BY <1>2 DEF Fixes
<1>4. ASSUME NEW f \in F, NEW g \in F
      PROVE  <<f, g>> \in Fixes(F) <=> lt(f, g) \/ (eq(f, g) /\ f.nth < g.nth)
  BY <1>1, <1>3
<1>5. ASSUME NEW f \in F, NEW g \in F, f # g
      PROVE  <<f, g>> \in Fixes(F) \/ <<g, f>> \in Fixes(F)
  <2>1. Rank[f.id] # Rank[g.id] \/ f.nth # g.nth
    <3>1. f.id = g.id \/ Rank[f.id] # Rank[g.id]
      BY OrderIsTotal DEF Rows
    <3> QED
      BY <1>5, <3>1 DEF Rows
  <2> QED
    BY <1>1, <1>4, <2>1
<1>6. \A f \in F : <<f, f>> \notin Fixes(F)
  BY <1>1, <1>4
<1>7. \A f, g, h \in F : <<f, g>> \in Fixes(F) /\ <<g, h>> \in Fixes(F) => <<f, h>> \in Fixes(F)
  BY <1>1, <1>4
<1> QED
  BY <1>5, <1>6, <1>7 DEF StrictTotal

\* The first fix is what an alert calls first.
LEMMA FirstFixIsTop ==
  ASSUME NEW F, Rows(F), F # {}
  PROVE  {Head(topFixes(F, 25))} = topFindingByPriority(F)
<1> PICK seq : seq = Lined(F, Fixes(F))
  OBVIOUS
<1>1. /\ ListsOnce(seq, F)
      /\ \A i, j \in DOMAIN seq : i < j => <<seq[i], seq[j]>> \in Fixes(F)
  BY FixesAreOrdered, TotalOnce DEF Rows
<1>2. topFixes(F, 25) = FirstN(seq, 25)
  BY DEF topFixes, InOrder, Fixes
<1>3. /\ Len(seq) \in Nat \ {0} /\ DOMAIN seq = 1..Len(seq) /\ seq \in Seq(F)
      /\ \A f \in F : \E i \in DOMAIN seq : seq[i] = f
      /\ \A i \in DOMAIN seq : seq[i] \in F
  <2>1. seq \in Seq(F) /\ Range(seq) = F /\ Len(seq) \in Nat /\ DOMAIN seq = 1..Len(seq)
    BY <1>1, LenProperties DEF ListsOnce, Lists
  <2>2. Len(seq) # 0
    BY <2>1 DEF Range
  <2> QED
    BY <2>1, <2>2 DEF Range
<1>4. Head(FirstN(seq, 25)) = seq[1]
  <2> PICK n : n = IF Len(seq) < 25 THEN Len(seq) ELSE 25
    OBVIOUS
  <2> PICK len : len = Len(seq)
    OBVIOUS
  <2>0. len \in Nat \ {0} /\ n = IF len < 25 THEN len ELSE 25
    BY <1>3
  <2>1. n \in 1..Len(seq) /\ FirstN(seq, 25) = SubSeq(seq, 1, n)
    BY <2>0 DEF FirstN
  <2>2. 1 \in Int /\ n \in Int /\ \A i \in 1..n : seq[i] \in F
    BY <1>3, <2>1
  <2> PICK t : t = SubSeq(seq, 1, n)
    OBVIOUS
  <2>3. t \in Seq(F) /\ Len(t) >= 1 /\ t[1] = seq[1]
    <3>1. /\ SubSeq(seq, 1, n) \in Seq(F)
          /\ Len(SubSeq(seq, 1, n)) = IF 1 <= n THEN n - 1 + 1 ELSE 0
          /\ \A i \in 1..(n - 1 + 1) : SubSeq(seq, 1, n)[i] = seq[1 + i - 1]
      BY ONLY <2>2, SubSeqProperties
    <3>2. n - 1 + 1 = n /\ 1 <= n /\ 1 + 1 - 1 = 1 /\ 1 \in 1..n
      BY <2>1, <2>2
    <3> QED
      BY <3>1, <3>2
  <2>4. Head(t) = t[1]
    <3>1. t # <<>>
      BY <2>3
    <3> QED
      BY <2>3, <3>1, HeadTailProperties
  <2> QED
    BY <2>1, <2>3, <2>4
<1> PICK first : first = seq[1]
  OBVIOUS
<1>5. first \in F /\ \A f \in F \ {first} : <<first, f>> \in Fixes(F)
  <2>1. 1 \in DOMAIN seq
    BY <1>3
  <2>2. ASSUME NEW f \in F \ {first} PROVE <<first, f>> \in Fixes(F)
    <3>1. PICK i \in DOMAIN seq : seq[i] = f
      BY <1>3
    <3>2. i > 1
      BY <1>3, <3>1
    <3> QED
      BY <1>1, <2>1, <3>1, <3>2
  <2> QED
    BY <1>3, <2>1, <2>2
<1>6. \A f \in F : f \in topFindingByPriority(F) <=> \A x \in F \ {f} : <<f, x>> \in Fixes(F)
  BY DEF topFindingByPriority, Fixes
<1>7. ASSUME NEW f \in topFindingByPriority(F) PROVE f = first
  <2>1. f \in F
    BY DEF topFindingByPriority
  <2>2. SUFFICES ASSUME f # first PROVE FALSE
    OBVIOUS
  <2>3. <<first, f>> \in Fixes(F) /\ <<f, first>> \in Fixes(F)
    BY <1>5, <1>6, <2>1, <2>2
  <2> QED
    BY <1>5, <2>1, <2>3, FixesAreOrdered DEF StrictTotal
<1>8. first \in topFindingByPriority(F)
  BY <1>5, <1>6
<1> QED
  BY <1>2, <1>4, <1>7, <1>8

-----------------------------------------------------------------------------
(* Entities outside.                                                       *)

\* A part of the name of an entity, and three of them.
Part(x) == IF x = None THEN "unknown" ELSE x
IsKey(k) == k = <<k[1], k[2], k[3]>>

\* An entity is called what its findings say.
LEMMA KeyIs ==
  ASSUME NEW f
  PROVE  entityKey(f) = <<Part(f.external), Part(f.ptype), Part(f.extAccount)>>
<1> PICK t : t = <<f.external, f.ptype, f.extAccount>>
  OBVIOUS
<1>1. DOMAIN t = {1, 2, 3} /\ t[1] = f.external /\ t[2] = f.ptype /\ t[3] = f.extAccount
  <2>1. DOMAIN <<f.external, f.ptype, f.extAccount>> = 1..3
    OBVIOUS
  <2>2. 1..3 = {1, 2, 3}
    OBVIOUS
  <2> QED
    BY <2>1, <2>2
<1>2. entityKey(f) = [i \in DOMAIN t |-> Part(t[i])]
  BY DEF entityKey, Each, EntityOf, normalizeExternalEntityPart, Part
<1> PICK u : u = <<Part(f.external), Part(f.ptype), Part(f.extAccount)>>
  OBVIOUS
<1>3. /\ DOMAIN u = {1, 2, 3} /\ u = [i \in DOMAIN u |-> u[i]]
      /\ u[1] = Part(f.external) /\ u[2] = Part(f.ptype) /\ u[3] = Part(f.extAccount)
  <2>1. DOMAIN <<Part(f.external), Part(f.ptype), Part(f.extAccount)>> = 1..3
    OBVIOUS
  <2>2. 1..3 = {1, 2, 3}
    OBVIOUS
  <2>3. u \in Seq({Part(f.external), Part(f.ptype), Part(f.extAccount)})
    OBVIOUS
  <2>4. u = [i \in DOMAIN u |-> u[i]]
    BY <2>3, LenProperties
  <2> QED
    BY <2>1, <2>2, <2>4
<1>4. [i \in DOMAIN t |-> Part(t[i])] = [i \in DOMAIN u |-> u[i]]
  BY <1>1, <1>3
<1> QED
  BY <1>2, <1>3, <1>4

\* The findings of an entity, the entities of a scan, and what the list says of one.
OwnOf(F, k) == {f \in External(F) : entityKey(f) = k}
KeysOf(F) == {entityKey(f) : f \in External(F)}
RolesOf(G) == {roleARNFromFinding(f) : f \in G}

Counts(r, own) ==
  /\ r.roles = RolesOf(own) /\ r.stale = RolesOf({f \in own : isStale(f)})
  /\ r.admin = RolesOf({f \in own : f.vis.admin})
  /\ r.severity = Max({severityRank(f.severity) : f \in own})
  /\ r.risk = Total([f \in own |-> f.cost]) /\ r.findings = Cardinality(own)
  /\ r.principal = IF Cardinality(RolesOf(own)) = 1 THEN CHOOSE x \in RolesOf(own) : TRUE
                   ELSE None

Row(F, r) == r.entity \in KeysOf(F) /\ Counts(r, OwnOf(F, r.entity))

\* There is one row for each entity.
LEMMA RowsAre ==
  ASSUME NEW F
  PROVE  LET rows == aggregateExternalEntities(F)
         IN  /\ \A r \in rows : Row(F, r)
             /\ \A k \in KeysOf(F) : \E r \in rows : r.entity = k
             /\ \A q, r \in rows : q.entity = r.entity => q = r
<1> PICK rows : rows = aggregateExternalEntities(F)
  OBVIOUS
<1> DEFINE row(k) ==
      [entity |-> k, roles |-> RolesOf(OwnOf(F, k)), accounts |-> {f.account : f \in OwnOf(F, k)},
       severity |-> Max({severityRank(f.severity) : f \in OwnOf(F, k)}),
       risk |-> Total([f \in OwnOf(F, k) |-> f.cost]),
       stale |-> RolesOf({f \in OwnOf(F, k) : isStale(f)}),
       privileged |-> RolesOf({f \in OwnOf(F, k) : f.vis.class = "privileged"}),
       admin |-> RolesOf({f \in OwnOf(F, k) : f.vis.admin}),
       findings |-> Cardinality(OwnOf(F, k)),
       principal |-> IF Cardinality(RolesOf(OwnOf(F, k))) = 1
                     THEN CHOOSE x \in RolesOf(OwnOf(F, k)) : TRUE ELSE None]
<1>1. rows = {row(k) : k \in KeysOf(F)}
  BY Zenon DEF aggregateExternalEntities, RolesOf, OwnOf, KeysOf
<1>2. ASSUME NEW k PROVE row(k).entity = k /\ Counts(row(k), OwnOf(F, k))
  BY DEF Counts
<1> HIDE DEF row
<1>3. ASSUME NEW k \in KeysOf(F) PROVE Row(F, row(k))
  BY <1>2 DEF Row
<1>4. \A q, r \in rows : q.entity = r.entity => q = r
  BY <1>1, <1>2
<1>5. \A r \in rows : Row(F, r)
  BY <1>1, <1>3
<1>6. \A k \in KeysOf(F) : \E r \in rows : r.entity = k
  BY <1>1, <1>2
<1> QED
  BY <1>4, <1>5, <1>6

\* What can be sorted and shown.
Shown(F) == Rows(F) /\ Presentable(F)

\* The name of an entity and its numbers.
LEMMA RowIsKnown ==
  ASSUME NEW F, Shown(F), NEW r \in aggregateExternalEntities(F),
         NEW own, own = OwnOf(F, r.entity)
  PROVE  /\ own \subseteq External(F) /\ IsFiniteSet(own) /\ own # {} /\ Counts(r, own)
         /\ IsKey(r.entity)
         /\ {r.entity[1], r.entity[2], r.entity[3]} \subseteq DOMAIN Rank
         /\ r.severity \in 1..4 /\ \A f \in own : severityRank(f.severity) <= r.severity
         /\ r.risk \in Int
<1>1. Row(F, r)
  BY RowsAre
<1>2. own \subseteq External(F) /\ IsFiniteSet(own)
  <2>1. own \subseteq External(F) /\ External(F) \subseteq F
    BY DEF OwnOf, External
  <2>2. IsFiniteSet(F)
    BY DEF Shown, Rows
  <2> QED
    BY <2>1, <2>2, FS_Subset
<1>3. PICK f \in External(F) : r.entity = entityKey(f)
  BY <1>1 DEF Row, KeysOf
<1>4. f \in own
  BY <1>3 DEF OwnOf
<1>5. Counts(r, own)
  BY <1>1 DEF Row
<1>6. IsKey(r.entity) /\ {r.entity[1], r.entity[2], r.entity[3]} \subseteq DOMAIN Rank
  <2> PICK k : k = <<Part(f.external), Part(f.ptype), Part(f.extAccount)>>
    OBVIOUS
  <2>1. r.entity = k
    BY <1>3, KeyIs
  <2>2. k[1] = Part(f.external) /\ k[2] = Part(f.ptype) /\ k[3] = Part(f.extAccount)
    OBVIOUS
  <2>3. {f.external, f.ptype, f.extAccount} \subseteq DOMAIN Rank
    BY DEF Shown, Presentable, External
  <2>4. {Part(f.external), Part(f.ptype), Part(f.extAccount)} \subseteq DOMAIN Rank
    BY <2>3, PagesAssumption DEF Part
  <2>5. IsKey(k)
    BY <2>2 DEF IsKey
  <2> QED
    BY <2>1, <2>2, <2>4, <2>5
<1>7. r.severity \in 1..4 /\ \A g \in own : severityRank(g.severity) <= r.severity
  <2> PICK S : S = {severityRank(g.severity) : g \in own}
    OBVIOUS
  <2>1. S \in SUBSET (1..4) /\ S # {}
    BY <1>4, SeveritiesAreNumbers
  <2>2. Max(S) \in S /\ \A m \in S : Max(S) >= m
    BY ONLY <2>1, MaxIsLast
  <2>3. r.severity = Max(S)
    BY <1>5 DEF Counts
  <2>4. \A g \in own : severityRank(g.severity) \in S
    OBVIOUS
  <2>5. \A m \in 1..4 : \A n \in 1..4 : m >= n => n <= m
    OBVIOUS
  <2>6. Max(S) \in 1..4 /\ \A g \in own : severityRank(g.severity) \in 1..4
    BY <2>1, <2>2, <2>4
  <2> QED
    BY <2>2, <2>3, <2>4, <2>5, <2>6
<1>8. r.risk \in Int
  <2> PICK v : v = [g \in own |-> g.cost]
    OBVIOUS
  <2>1. v \in [own -> Int]
    BY <1>2 DEF Shown, Rows, External
  <2>2. Total(v) \in Int
    BY <1>2, <2>1, TotalIsNumber
  <2> QED
    BY <1>5, <2>2 DEF Counts
<1> QED
  BY <1>2, <1>4, <1>5, <1>6, <1>7, <1>8

\* Each comes from a finding.
LEMMA RowsAreFinitelyMany ==
  ASSUME NEW F, Shown(F)
  PROVE  IsFiniteSet(aggregateExternalEntities(F))
<1> PICK rows : rows = aggregateExternalEntities(F)
  OBVIOUS
<1> PICK E : E = External(F)
  OBVIOUS
<1> PICK of : of = [f \in E |-> CHOOSE r \in rows : r.entity = entityKey(f)]
  OBVIOUS
<1>1. IsFiniteSet(E)
  BY FS_Subset DEF Shown, Rows, External
<1>2. ASSUME NEW r \in rows PROVE \E f \in E : r = of[f]
  <2>1. PICK f \in E : r.entity = entityKey(f)
    BY RowsAre DEF Row, KeysOf
  <2>2. \A q \in rows : q.entity = entityKey(f) => q = r
    BY <2>1, RowsAre
  <2>3. of[f] = r
    BY <2>1, <2>2
  <2> QED
    BY <2>3
<1> QED
  BY ONLY <1>1, <1>2, ImageIsFinite, rows = aggregateExternalEntities(F)

\* The list of entities has one order, whatever part of it is shown.
LEMMA EntityLessIsTotal ==
  ASSUME NEW F, Shown(F), NEW S \in SUBSET aggregateExternalEntities(F)
  PROVE  StrictTotal(S, {p \in S \X S : entityLess(p[1], p[2])})
<1> PICK less : less = {p \in S \X S : entityLess(p[1], p[2])}
  OBVIOUS
<1> DEFINE n(r, i) == Rank[r.entity[i]]
           same(a, b, i) == a.entity[i] = b.entity[i]
           lt(a, b) == \/ a.severity > b.severity
                       \/ a.severity = b.severity /\ a.risk > b.risk
                       \/ /\ a.severity = b.severity /\ a.risk = b.risk
                          /\ \/ n(a, 1) < n(b, 1)
                             \/ n(a, 2) < n(b, 2) /\ n(a, 1) = n(b, 1)
                             \/ n(a, 3) < n(b, 3) /\ n(a, 1) = n(b, 1) /\ n(a, 2) = n(b, 2)
<1>1. ASSUME NEW r \in S
      PROVE  /\ r.severity \in Int /\ r.risk \in Int /\ n(r, 1) \in Int /\ n(r, 2) \in Int
             /\ n(r, 3) \in Int /\ IsKey(r.entity)
             /\ {r.entity[1], r.entity[2], r.entity[3]} \subseteq DOMAIN Rank
  <2>1. /\ IsKey(r.entity) /\ r.severity \in 1..4 /\ r.risk \in Int
        /\ {r.entity[1], r.entity[2], r.entity[3]} \subseteq DOMAIN Rank
    BY RowIsKnown
  <2> QED
    BY <2>1, OrderIsTotal
<1>2. ASSUME NEW a \in S, NEW b \in S
      PROVE  /\ same(a, b, 1) <=> n(a, 1) = n(b, 1)
             /\ same(a, b, 2) <=> n(a, 2) = n(b, 2)
             /\ same(a, b, 3) <=> n(a, 3) = n(b, 3)
  BY <1>1, OrderIsTotal
<1>3. ASSUME NEW a \in S, NEW b \in S PROVE <<a, b>> \in less <=> lt(a, b)
  <2>1. <<a, b>> \in less <=> entityLess(a, b)
    OBVIOUS
  <2>2. entityLess(a, b) <=>
          \/ a.severity > b.severity
          \/ a.severity = b.severity /\ a.risk > b.risk
          \/ /\ a.severity = b.severity /\ a.risk = b.risk
             /\ \E i \in 1..3 : n(a, i) < n(b, i) /\ \A j \in 1..(i - 1) : same(a, b, j)
    BY DEF entityLess
  <2> HIDE DEF n, same
  <2>3. (\E i \in 1..3 : n(a, i) < n(b, i) /\ \A j \in 1..(i - 1) : same(a, b, j)) <=>
          \/ n(a, 1) < n(b, 1)
          \/ n(a, 2) < n(b, 2) /\ same(a, b, 1)
          \/ n(a, 3) < n(b, 3) /\ same(a, b, 1) /\ same(a, b, 2)
    <3>1. \A i \in 1..3 : i = 1 \/ i = 2 \/ i = 3
      OBVIOUS
    <3>2. 1..(1 - 1) = {} /\ 1..(2 - 1) = {1} /\ 1..(3 - 1) = {1, 2}
      OBVIOUS
    <3> QED
      BY <3>1, <3>2
  <2> QED
    BY <1>2, <2>1, <2>2, <2>3
<1>4. ASSUME NEW a \in S, NEW b \in S, a # b
      PROVE  n(a, 1) # n(b, 1) \/ n(a, 2) # n(b, 2) \/ n(a, 3) # n(b, 3)
  <2>1. a.entity # b.entity
    BY <1>4, RowsAre
  <2>2. ~(same(a, b, 1) /\ same(a, b, 2) /\ same(a, b, 3))
    BY <1>1, <2>1 DEF IsKey
  <2> QED
    BY <1>2, <2>2
<1> HIDE DEF n
<1>5. ASSUME NEW a \in S, NEW b \in S, a # b PROVE <<a, b>> \in less \/ <<b, a>> \in less
  BY <1>1, <1>3, <1>4, <1>5
<1>6. \A a \in S : <<a, a>> \notin less
  BY <1>1, <1>3
<1>7. \A a, b, c \in S : <<a, b>> \in less /\ <<b, c>> \in less => <<a, c>> \in less
  BY <1>1, <1>3
<1> QED
  BY <1>5, <1>6, <1>7 DEF StrictTotal

-----------------------------------------------------------------------------
(* What the pages are made from.                                           *)

\* What is critical about access from outside is so for one reason.
LEMMA CriticalTrust ==
  ASSUME NEW admin, NEW days, NEW type, NEW account,
         classifyTrust(admin, days, type, account)[1] = "critical"
  PROVE  classifyTrust(admin, days, type, account)[2] = "ghost_admin_access"
<1> PICK base : base = activitySeverity(days, StaleAfter, GhostAfter)
  OBVIOUS
<1>1. base[1] # "critical"
  BY DEF activitySeverity
<1> PICK raised : raised = IF (type = "aws_account" /\ account # None
                               /\ account \notin Approved)
                              /\ SeverityRank("high") > SeverityRank(base[1])
                           THEN <<"high", "unknown_vendor">> ELSE base
  OBVIOUS
<1>2. raised[1] # "critical"
  BY <1>1
<1>3. classifyTrust(admin, days, type, account)
        = IF admin /\ SeverityRank("critical") > SeverityRank(raised[1])
          THEN <<"critical", "ghost_admin_access">> ELSE raised
  BY DEF classifyTrust
<1> QED
  BY <1>2, <1>3

\* What a scan writes can be shown.
LEMMA ScanIsPresentable ==
  ASSUME NEW aws, CloudSound(aws), CloudPresentable(aws), NEW gone
  PROVE  Presentable(FindingsOf(aws, gone))
<1> PICK grants : grants = CollectBucketPolicies(aws, gone).grants
  OBVIOUS
<1> DEFINE Good(f) ==
      /\ f.arn \in DOMAIN Rank \ {None} /\ f.cost \in Int
      /\ f.module \in {"external_access", "orphaned_edge"}
      /\ f.module = "external_access" <=> f.id \in Range(FindingId)
      /\ {f.external, f.ptype, f.extAccount} \subseteq DOMAIN Rank \ {"unknown"}
      /\ f.severity = "critical" => f.verdict = CriticalVerdict(f)
<1>0. ASSUME NEW p \in DOMAIN PrincipalArn
      PROVE  {p.type, p.value, AccountOf(p)} \subseteq DOMAIN Rank \ {"unknown"}
  BY PagesAssumption
<1>1. ASSUME NEW f \in ScoreTrust(aws, gone) PROVE Good(f)
  <2>1. PICK t \in RoleTrusts(aws, gone) : f = TrustFinding(t, gone)
    BY DEF ScoreTrust
  <2> PICK admin, days : f.severity = classifyTrust(admin, days, t.principal.type,
                                                    AccountOf(t.principal))[1]
                         /\ f.verdict = classifyTrust(admin, days, t.principal.type,
                                                      AccountOf(t.principal))[2]
    BY <2>1 DEF TrustFinding
  <2>2. /\ f.id = FindingId[<<t.role.arn, PrincipalArn[t.principal]>>]
        /\ f.arn = t.role.arn /\ f.cost = 0 /\ f.module = "external_access"
        /\ f.external = t.principal.value /\ f.ptype = t.principal.type
        /\ f.extAccount = AccountOf(t.principal)
    BY <2>1 DEF TrustFinding
  <2>3. /\ t.role \in aws.roles /\ t.principal \in DOMAIN PrincipalArn
        /\ <<t.role.arn, PrincipalArn[t.principal]>> \in DOMAIN FindingId
    BY TrustsAreSound
  <2>4. t.role.arn \in DOMAIN Rank \ {None} /\ t.role.arn \in DOMAIN ArnAccount
    BY <2>3 DEF CloudSound, CloudPresentable
  <2>5. f.id \in Range(FindingId)
    BY <2>2, <2>3, FindingIdIsOne
  <2>6. f.severity = "critical" => f.verdict = CriticalVerdict(f)
    <3>1. f.severity = "critical" => f.verdict = "ghost_admin_access"
      BY CriticalTrust
    <3>2. CriticalVerdict(f) = "ghost_admin_access"
      BY <2>2, <2>4 DEF CriticalVerdict
    <3> QED
      BY <3>1, <3>2
  <2> QED
    BY <1>0, <2>2, <2>3, <2>4, <2>5, <2>6
<1>2. ASSUME NEW f \in ScoreResourceExposure(grants) PROVE Good(f)
  <2>1. PICK g \in grants : f = ExposureFinding(g)
    BY DEF ScoreResourceExposure
  <2> PICK public, approved : LET v == classifyResourceExposure(public, g.write, approved)
                              IN  f.severity = v[1] /\ f.verdict = v[2]
    BY <2>1 DEF ExposureFinding
  <2>2. /\ f.id = FindingId[<<g.bucket.arn, PrincipalArn[g.principal]>>]
        /\ f.arn = g.bucket.arn /\ f.cost = 0 /\ f.module = "external_access"
        /\ f.external = None /\ f.ptype = g.principal.type
        /\ f.extAccount = AccountOf(g.principal)
    BY <2>1 DEF ExposureFinding
  <2>3. /\ g.bucket \in aws.buckets /\ g.principal \in DOMAIN PrincipalArn
        /\ <<g.bucket.arn, PrincipalArn[g.principal]>> \in DOMAIN FindingId
    BY GrantsAreSound
  <2>4. g.bucket.arn \in DOMAIN Rank \ {None} /\ g.bucket.arn \notin DOMAIN ArnAccount
    BY <2>3 DEF CloudSound, CloudPresentable
  <2>5. f.id \in Range(FindingId)
    BY <2>2, <2>3, FindingIdIsOne
  <2>6. f.severity = "critical" => f.verdict = CriticalVerdict(f)
    <3>1. f.severity = "critical" => f.verdict = "public_write"
      BY DEF classifyResourceExposure
    <3>2. CriticalVerdict(f) = "public_write"
      BY <2>2, <2>4 DEF CriticalVerdict
    <3> QED
      BY <3>1, <3>2
  <2>7. None \in DOMAIN Rank \ {"unknown"}
    BY PagesAssumption DEF None
  <2> QED
    BY <1>0, <2>2, <2>3, <2>4, <2>5, <2>6, <2>7
<1>3. ASSUME NEW f \in aws.edge.findings PROVE Good(f)
  BY DEF CloudPresentable, Presentable
<1>4. \A f \in FindingsOf(aws, gone) : Good(f)
  <2>1. FindingsOf(aws, gone) = ScoreTrust(aws, gone) \cup ScoreResourceExposure(grants)
                                  \cup aws.edge.findings
    BY DEF FindingsOf
  <2> HIDE DEF Good
  <2> QED
    BY <1>1, <1>2, <1>3, <2>1
<1> QED
  BY <1>4 DEF Presentable

\* What is on disk can be shown, what AWS may say as well.
PagesInv ==
  /\ \A scan \in DOMAIN disk : Presentable(disk[scan].findings)
  /\ \A scan \in DOMAIN cloud : CloudPresentable(cloud[scan])
  /\ \A v \in client.views : v.size \in Nat \ {0}

\* It is so at the start,
LEMMA PagesBegin ==
  Init => PagesInv
BY PagesAssumption DEF Init, PagesInv

\* and stays so, as a scan writes what can be shown.
LEMMA NextKeepsPages ==
  DatabaseInv /\ PagesInv /\ [Next]_vars => PagesInv'
<1> SUFFICES ASSUME DatabaseInv, PagesInv, [Next]_vars PROVE PagesInv'
  OBVIOUS
<1>1. client' = client /\ cloud' = cloud
  BY DEF Next, vars, AlertStep, ViewStep, RunScan, scanVars
<1>2. CASE \E scan \in DOMAIN cloud : RunScan(scan)
  <2>1. PICK scan \in DOMAIN cloud \ DOMAIN disk : RunScan(scan)
    BY <1>2 DEF RunScan
  <2>2. PICK gone, keep : disk' = Merge(disk, scan, Artifacts(cloud[scan], gone, keep))
    BY <2>1 DEF RunScan
  <2> PICK art : art = Artifacts(cloud[scan], gone, keep)
    OBVIOUS
  <2>3. art.findings = FindingsOf(cloud[scan], gone)
    BY DEF Artifacts, FindingsOf
  <2>4. Presentable(art.findings)
    BY <2>3, ScanIsPresentable DEF DatabaseInv, PagesInv
  <2>5. DOMAIN disk' = DOMAIN disk \cup {scan} /\ disk'[scan] = art
        /\ \A s \in DOMAIN disk : disk'[s] = disk[s]
    BY <2>2 DEF Merge, Over
  <2> QED
    BY <1>1, <2>4, <2>5 DEF PagesInv
<1>3. CASE \E e \in Exporters : ExportStep(e)
  BY <1>1, <1>3, ExportGrows DEF PagesInv
<1>4. CASE UNCHANGED disk
  BY <1>1, <1>4 DEF PagesInv
<1> QED
  BY <1>2, <1>3, <1>4 DEF Next, vars

\* What can be exported and shown has rows that can be sorted and shown.
LEMMA DiskIsShown ==
  ASSUME DatabaseInv, PagesInv, NEW scan \in DOMAIN disk
  PROVE  Shown(disk[scan].findings)
<1>1. Sortable(disk[scan]) /\ Presentable(disk[scan].findings)
  BY DEF DatabaseInv, ExportInv, PagesInv
<1> QED
  BY <1>1 DEF Sortable, Presentable, Shown, Rows

-----------------------------------------------------------------------------
(* The lists.                                                              *)

\* What a list is of, and the list.
EntitiesIn(F, v) == applyExternalEntityFeatureFilters(aggregateExternalEntities(F), v.features)
RowsOf(F, v) == IF v.what = "findings" THEN filterFindings(F, v.filter) ELSE EntitiesIn(F, v)
ListOf(F, v) ==
  IF v.what = "findings" THEN InOrder(filterFindings(F, v.filter), findingLess)
  ELSE InOrder(EntitiesIn(F, v), entityLess)

\* It has each row once, and sorting has no other outcome.
LEMMA ListIsOne ==
  ASSUME NEW F, Shown(F), NEW v
  PROVE  /\ ListsOnce(ListOf(F, v), RowsOf(F, v))
         /\ v.what # "findings" => Orders(EntitiesIn(F, v), entityLess) \subseteq {ListOf(F, v)}
<1>1. CASE v.what = "findings"
  <2> PICK S : S = filterFindings(F, v.filter)
    OBVIOUS
  <2>1. S \subseteq F
    BY DEF filterFindings
  <2>2. IsFiniteSet(S) /\ Rows(S)
    <3>1. IsFiniteSet(S)
      BY <2>1, FS_Subset DEF Shown, Rows
    <3> QED
      BY <2>1, <3>1 DEF Shown, Rows
  <2>3. ListOf(F, v) = Lined(S, {p \in S \X S : findingLess(p[1], p[2])})
    BY <1>1 DEF ListOf, InOrder
  <2>4. StrictTotal(S, {p \in S \X S : findingLess(p[1], p[2])})
    BY <2>2, FindingLessIsTotal
  <2>5. ListsOnce(ListOf(F, v), S)
    BY <2>2, <2>3, <2>4, TotalOnce
  <2> QED
    BY <1>1, <2>5 DEF RowsOf
<1>2. CASE v.what # "findings"
  <2> PICK S : S = EntitiesIn(F, v)
    OBVIOUS
  <2>1. S \in SUBSET aggregateExternalEntities(F)
    BY DEF EntitiesIn, applyExternalEntityFeatureFilters
  <2>2. IsFiniteSet(S)
    BY <2>1, RowsAreFinitelyMany, FS_Subset
  <2> PICK less : less = {p \in S \X S : entityLess(p[1], p[2])}
    OBVIOUS
  <2>3. ListOf(F, v) = Lined(S, less)
    BY <1>2 DEF ListOf, InOrder
  <2>4. StrictTotal(S, less)
    BY <2>1, EntityLessIsTotal
  <2>5. ListsOnce(ListOf(F, v), S)
    BY <2>2, <2>3, <2>4, TotalOnce
  <2>6. ASSUME NEW s \in Orders(S, entityLess) PROVE s = ListOf(F, v)
    <3>1. s \in SetToSeqs(S) /\ \A i, j \in DOMAIN s : i < j => ~entityLess(s[j], s[i])
      BY DEF Orders
    <3>2. \A i, j \in DOMAIN s : i < j => <<s[j], s[i]>> \notin less
      BY <3>1
    <3> QED
      BY <2>2, <2>3, <2>4, <3>1, <3>2, SortedOneWay
  <2> QED
    BY <1>2, <2>5, <2>6 DEF RowsOf
<1> QED
  BY <1>1, <1>2

\* What has been shown of it.
Prefix(list, n, size) == SubSeq(list, 1, Min({n * size, Len(list)}))

\* A list on the screen is the beginning of the one there is.
ListSound(x, D) ==
  LET list == ListOf(D[x.asked.scan].findings, x.asked)
  IN  x.what \in {"findings", "entities"} =>
        /\ x.asked.what = x.what /\ x.asked.scan \in DOMAIN D
        /\ x.asked.size \in Nat \ {0} /\ x.page \in Nat \ {0}
        /\ x.all = Len(list) /\ x.rows = Prefix(list, x.page, x.asked.size)

\* The first page is.
LEMMA FirstPage ==
  ASSUME NEW S, NEW list \in Seq(S), NEW size \in Nat \ {0}
  PROVE  <<>> \o PageOf(list, 1, size) = Prefix(list, 1, size)
<1> PICK m : m = Min({1 * size, Len(list)})
  OBVIOUS
<1>1. PageOf(list, 1, size) = SubSeq(list, 1, m)
  <2>1. (1 - 1) * size + 1 = 1
    OBVIOUS
  <2> QED
    BY <2>1 DEF PageOf
<1>2. m \in Nat /\ m <= Len(list)
  <2>1. Len(list) \in Nat /\ 1 * size \in Nat
    BY LenProperties
  <2> PICK len : len = Len(list)
    OBVIOUS
  <2> PICK a : a = 1 * size
    OBVIOUS
  <2>2. {a, len} \in SUBSET Nat /\ {a, len} # {}
    BY <2>1
  <2>3. m \in {a, len} /\ \A x \in {a, len} : m <= x
    <3>1. m = Min({a, len})
      OBVIOUS
    <3> QED
      BY ONLY <2>2, <3>1, MinIsFirst
  <2> QED
    BY <2>1, <2>3
<1>3. SubSeq(list, 1, m) \in Seq(S)
  <2>1. \A i \in 1..m : list[i] \in S
    <3>1. \A i \in 1..m : i \in 1..Len(list)
      BY <1>2, LenProperties
    <3> QED
      BY <3>1, ElementOfSeq
  <2>2. 1 \in Int /\ m \in Int
    BY <1>2
  <2> QED
    BY ONLY <2>1, <2>2, SubSeqProperties
<1>4. <<>> \o SubSeq(list, 1, m) = SubSeq(list, 1, m)
  BY <1>3, ConcatEmptySeq
<1> QED
  BY <1>1, <1>4 DEF Prefix

\* So it is after each of its requests.
LEMMA ListedSoundly ==
  ASSUME NEW v, v.size \in Nat \ {0}, v.scan \in DOMAIN disk, Shown(disk[v.scan].findings),
         NEW n \in Nat \ {0}, NEW before,
         LET list == ListOf(disk[v.scan].findings, v)
         IN  before \o PageOf(list, n, v.size) = Prefix(list, n, v.size),
         Listed(v, n, before)
  PROVE  ListSound(screen', disk) /\ screen'.what \in {"findings", "entities"}
<1> PICK F : F = disk[v.scan].findings
  OBVIOUS
<1> DEFINE shown(list) == screen' = [what |-> v.what, asked |-> v, page |-> n, all |-> Len(list),
                                     rows |-> before \o PageOf(list, n, v.size)]
<1>1. CASE v.what = "findings" /\ shown(InOrder(filterFindings(F, v.filter), findingLess))
  <2>1. shown(ListOf(F, v))
    BY <1>1 DEF ListOf
  <2>2. screen'.what = v.what
    BY <2>1
  <2>3. ListSound(screen', disk)
    BY <2>1 DEF ListSound
  <2> QED
    BY <1>1, <2>2, <2>3
<1>2. CASE v.what = "entities" /\ \E list \in Orders(EntitiesIn(F, v), entityLess) : shown(list)
  <2>1. shown(ListOf(F, v))
    BY <1>2, ListIsOne
  <2>2. screen'.what = v.what
    BY <2>1
  <2>3. ListSound(screen', disk)
    BY <2>1 DEF ListSound
  <2> QED
    BY <1>2, <2>2, <2>3
<1>3. \/ v.what = "findings" /\ shown(InOrder(filterFindings(F, v.filter), findingLess))
      \/ v.what = "entities" /\ \E list \in Orders(EntitiesIn(F, v), entityLess) : shown(list)
  BY DEF Listed, EntitiesIn
<1> QED
  BY <1>1, <1>2, <1>3

\* The screen shows what its requests made of the artifacts there are.
ScreenSound(x, D) ==
  /\ ListSound(x, D)
  /\ x.what = "overview" =>
       LET F == D[x.scan].findings
       IN  /\ x.scan \in DOMAIN D
           /\ x.summary = summarizeScan(F) /\ x.accounts = aggregateAccounts(F)
           /\ x.groups = remediationGroups(F) /\ x.fixes = topFixes(F, 25)
  /\ x.what = "diff" => /\ {x.old, x.new} \subseteq DOMAIN D
                        /\ x.diff = diffFindings(D[x.old].findings, D[x.new].findings)

ViewsInv == PagesInv /\ ScreenSound(screen, disk)

\* Nothing is shown at first.
LEMMA ViewsBegin ==
  Init => ViewsInv
<1> SUFFICES ASSUME Init PROVE ViewsInv
  OBVIOUS
<1>1. screen = NoView
  BY DEF Init
<1>2. ScreenSound(screen, disk)
  BY <1>1 DEF NoView, ScreenSound, ListSound
<1> QED
  BY <1>2, PagesBegin DEF ViewsInv

\* Every request shows what it should,
LEMMA ViewStepIsSound ==
  ASSUME DatabaseInv, ViewsInv, ViewStep
  PROVE  ScreenSound(screen', disk)
<1>1. CASE \E v \in client.views : ListPage(v)
  <2>1. PICK v \in client.views : ListPage(v)
    BY <1>1
  <2>2. v.scan \in DOMAIN disk /\ Listed(v, 1, <<>>)
    BY <2>1 DEF ListPage
  <2>3. v.size \in Nat \ {0} /\ Shown(disk[v.scan].findings)
    BY <2>2, DiskIsShown DEF ViewsInv, PagesInv
  <2> PICK list : list = ListOf(disk[v.scan].findings, v)
    OBVIOUS
  <2>4. list \in Seq(RowsOf(disk[v.scan].findings, v))
    BY <2>3, ListIsOne DEF ListsOnce, Lists
  <2>5. <<>> \o PageOf(list, 1, v.size) = Prefix(list, 1, v.size)
    BY <2>3, <2>4, FirstPage
  <2> PICK none : none = <<>>
    OBVIOUS
  <2> PICK n \in Nat \ {0} : n = 1
    OBVIOUS
  <2>6. Listed(v, n, none) /\ none \o PageOf(list, n, v.size) = Prefix(list, n, v.size)
    BY <2>2, <2>5
  <2>7. ListSound(screen', disk) /\ screen'.what \in {"findings", "entities"}
    BY <2>2, <2>3, <2>6, ListedSoundly
  <2> QED
    BY <2>7 DEF ScreenSound
<1>2. CASE NextPage
  <2> PICK v : v = screen.asked
    OBVIOUS
  <2> PICK n : n = screen.page
    OBVIOUS
  <2>1. /\ screen.what \in {"findings", "entities"} /\ n * v.size < screen.all
        /\ Listed(v, n + 1, screen.rows)
    BY <1>2 DEF NextPage
  <2> PICK list : list = ListOf(disk[v.scan].findings, v)
    OBVIOUS
  <2>2. /\ v.scan \in DOMAIN disk /\ v.size \in Nat \ {0} /\ n \in Nat \ {0}
        /\ screen.all = Len(list) /\ screen.rows = Prefix(list, n, v.size)
    BY <2>1 DEF ViewsInv, ScreenSound, ListSound
  <2>3. Shown(disk[v.scan].findings)
    BY <2>2, DiskIsShown DEF ViewsInv
  <2>4. list \in Seq(RowsOf(disk[v.scan].findings, v))
    BY <2>3, ListIsOne DEF ListsOnce, Lists
  <2> PICK size \in Nat \ {0} : size = v.size
    BY <2>2
  <2>5. screen.rows \o PageOf(list, n + 1, v.size) = Prefix(list, n + 1, v.size)
    <3>1. n * size < Len(list)
      BY <2>1, <2>2
    <3> PICK S : list \in Seq(S)
      BY <2>4
    <3>2. n \in Nat \ {0} /\ size \in Nat \ {0}
      BY <2>2
    <3>3. Prefix(list, n, size) \o PageOf(list, n + 1, size) = Prefix(list, n + 1, size)
      BY ONLY list \in Seq(S), <3>1, <3>2, NextPageFollows DEF Prefix
    <3> QED
      BY <2>2, <3>3
  <2> PICK next \in Nat \ {0} : next = n + 1
    BY <2>2
  <2> PICK before : before = screen.rows
    OBVIOUS
  <2>6. Listed(v, next, before) /\ before \o PageOf(list, next, v.size) = Prefix(list, next, v.size)
    BY <2>1, <2>5
  <2>7. ListSound(screen', disk) /\ screen'.what \in {"findings", "entities"}
    BY <2>2, <2>3, <2>6, ListedSoundly
  <2> QED
    BY <2>7 DEF ScreenSound
<1>3. CASE \E scan \in client.overviews : Overview(scan)
  BY <1>3 DEF Overview, ScreenSound, ListSound
<1>4. CASE \E old, new \in client.overviews : DiffScans(old, new)
  BY <1>4 DEF DiffScans, ScreenSound, ListSound
<1> QED
  BY <1>1, <1>2, <1>3, <1>4 DEF ViewStep

\* and it stays true, as no scan on disk changes.
LEMMA NextKeepsViews ==
  DatabaseInv /\ ViewsInv /\ [Next]_vars => ViewsInv'
<1> SUFFICES ASSUME DatabaseInv, ViewsInv, [Next]_vars PROVE ViewsInv'
  OBVIOUS
<1>1. PagesInv'
  BY NextKeepsPages DEF ViewsInv
<1>2. CASE ViewStep /\ UNCHANGED disk
  <2>1. ScreenSound(screen', disk)
    BY <1>2, ViewStepIsSound
  <2> QED
    BY <1>1, <1>2, <2>1 DEF ViewsInv
<1>3. CASE UNCHANGED screen
  <2>1. DOMAIN disk \subseteq DOMAIN disk' /\ \A scan \in DOMAIN disk : disk'[scan] = disk[scan]
    BY ScansStayOnDisk
  <2>2. ScreenSound(screen, disk')
    BY <2>1 DEF ViewsInv, ScreenSound, ListSound
  <2> QED
    BY <1>1, <1>3, <2>2 DEF ViewsInv
<1> QED
  BY <1>2, <1>3 DEF Next, vars, RunScan

\* When the last page is there, every row is, once.
LEMMA ListIsWhole ==
  ASSUME DatabaseInv, ViewsInv, ListedAll(screen)
  PROVE  /\ IsInjective(screen.rows)
         /\ ToSet(screen.rows) = RowsOf(disk[screen.asked.scan].findings, screen.asked)
<1> PICK v : v = screen.asked
  OBVIOUS
<1> PICK F : F = disk[v.scan].findings
  OBVIOUS
<1> PICK list : list = ListOf(F, v)
  OBVIOUS
<1> PICK S : S = RowsOf(F, v)
  OBVIOUS
<1>1. /\ v.scan \in DOMAIN disk /\ v.size \in Nat \ {0} /\ screen.page \in Nat \ {0}
      /\ screen.all = Len(list) /\ screen.rows = Prefix(list, screen.page, v.size)
      /\ screen.page * v.size >= screen.all
  BY DEF ViewsInv, ScreenSound, ListSound, ListedAll
<1>2. ListsOnce(list, S)
  <2>1. Shown(F)
    BY <1>1, DiskIsShown DEF ViewsInv
  <2> QED
    BY <2>1, ListIsOne
<1>3. list \in Seq(S) /\ Range(list) = S /\ IsInjective(list)
  BY <1>2 DEF ListsOnce, Lists
<1>4. Min({screen.page * v.size, Len(list)}) = Len(list)
  <2> PICK len : len = Len(list)
    OBVIOUS
  <2> PICK a : a = screen.page * v.size
    OBVIOUS
  <2>1. len \in Nat /\ a >= len
    BY <1>1, <1>3, LenProperties
  <2>2. a \in Nat
    BY <1>1
  <2>3. Min({a, len}) \in {a, len} /\ \A x \in {a, len} : Min({a, len}) <= x
    <3>1. {a, len} \in SUBSET Nat /\ {a, len} # {}
      BY <2>1, <2>2
    <3> QED
      BY ONLY <3>1, MinIsFirst
  <2>4. Min({a, len}) = len
    BY <2>1, <2>2, <2>3
  <2> QED
    BY <2>4
<1>5. screen.rows = list
  BY <1>1, <1>3, <1>4, SubSeqFull DEF Prefix
<1>6. ToSet(list) = Range(list)
  BY DEF ToSet, Range
<1> QED
  BY <1>3, <1>5, <1>6

\* Opening an entity: in the list of findings, and in the graph.
LEMMA EntityOpens ==
  ASSUME NEW F, Shown(F), NEW r \in aggregateExternalEntities(F)
  PROVE  /\ filterFindings(F, DrillDown(r.entity)) = OwnOf(F, r.entity)
         /\ MatchExternalEntityFindings(F, r.entity) = OwnOf(F, r.entity)
<1> PICK k : k = r.entity
  OBVIOUS
<1>1. PICK g \in External(F) : k = <<Part(g.external), Part(g.ptype), Part(g.extAccount)>>
  <2>1. PICK g \in External(F) : k = entityKey(g)
    BY RowsAre DEF Row, KeysOf
  <2> QED
    BY <2>1, KeyIs
<1>2. k[1] = Part(g.external) /\ k[2] = Part(g.ptype) /\ k[3] = Part(g.extAccount)
  BY <1>1
<1>3. k[1] # None /\ k[2] # None /\ k[3] # None
  BY <1>2 DEF Part, None
<1>4. ASSUME NEW f \in F
      PROVE  f \in filterFindings(F, DrillDown(k)) <=>
               /\ f.module = "external_access" /\ Passes(k[1], f.external)
               /\ Passes(k[2], f.ptype) /\ Passes(k[3], f.extAccount)
  <2> PICK q : q = DrillDown(k)
    OBVIOUS
  <2>1. /\ q.severity = None /\ q.module = "external_access" /\ q.account = None
        /\ q.claimability = None /\ q.class = None /\ q.stale = FALSE /\ q.admin = FALSE
        /\ q.external = k[1] /\ q.ptype = k[2] /\ q.extAccount = k[3]
    BY DEF DrillDown, NoFilter
  <2>2. "external_access" \in {None, f.module} <=> f.module = "external_access"
    BY DEF None
  <2> QED
    BY <2>1, <2>2 DEF filterFindings
<1>5. ASSUME NEW x, x # "unknown", NEW i \in {1, 2, 3} PROVE Passes(k[i], x) <=> Part(x) = k[i]
  BY <1>3, <1>5 DEF Passes, Part
<1>6. ASSUME NEW f \in F
      PROVE  f \in filterFindings(F, DrillDown(k)) <=>
               f.module = "external_access"
                 /\ Part(f.external) = k[1] /\ Part(f.ptype) = k[2] /\ Part(f.extAccount) = k[3]
  <2>1. f.external # "unknown" /\ f.ptype # "unknown" /\ f.extAccount # "unknown"
    BY DEF Shown, Presentable
  <2> QED
    BY <1>4, <1>5, <2>1
<1>7. ASSUME NEW f
      PROVE  entityKey(f) = k <=>
               Part(f.external) = k[1] /\ Part(f.ptype) = k[2] /\ Part(f.extAccount) = k[3]
  BY <1>1, <1>2, KeyIs
<1>8. filterFindings(F, DrillDown(k)) = OwnOf(F, k)
  <2>1. filterFindings(F, DrillDown(k)) \subseteq F
    BY DEF filterFindings
  <2> QED
    BY <1>6, <1>7, <2>1 DEF OwnOf, External
<1>9. MatchExternalEntityFindings(F, k) = OwnOf(F, k)
  <2>1. DOMAIN k = {1, 2, 3} /\ k = [i \in DOMAIN k |-> k[i]]
    <3>1. DOMAIN k = 1..3 /\ k \in Seq({Part(g.external), Part(g.ptype), Part(g.extAccount)})
      BY <1>1
    <3>2. 1..3 = {1, 2, 3}
      OBVIOUS
    <3> QED
      BY <3>1, <3>2, LenProperties
  <2>2. Each(k, Part) = k
    <3>1. Each(k, Part) = [i \in DOMAIN k |-> Part(k[i])]
      BY DEF Each
    <3>2. \A i \in DOMAIN k : Part(k[i]) = k[i]
      BY <1>3, <2>1 DEF Part
    <3> QED
      BY <2>1, <3>1, <3>2
  <2>3. \A f : Each(EntityOf(f), Part) = entityKey(f)
    BY DEF entityKey, Each, normalizeExternalEntityPart, Part
  <2>4. MatchExternalEntityFindings(F, k)
          = {f \in External(F) : Each(EntityOf(f), Part) = Each(k, Part)}
    BY DEF MatchExternalEntityFindings, Each, Part
  <2> QED
    BY <2>2, <2>3, <2>4 DEF OwnOf
<1> QED
  BY <1>8, <1>9

\* Names in their order are listed once.
LEMMA NamesOnce ==
  ASSUME NEW S, IsFiniteSet(S), S \subseteq DOMAIN Rank
  PROVE  ListsOnce(Sorted(S, LAMBDA a : a), S)
<1> PICK less : less = {p \in S \X S : Rank[p[1]] < Rank[p[2]]}
  OBVIOUS
<1>1. \A x, y \in S : <<x, y>> \in less <=> Rank[x] < Rank[y]
  OBVIOUS
<1>2. \A x \in S : Rank[x] \in Nat
  BY OrderIsTotal
<1>3. \A x, y \in S : x # y => <<x, y>> \in less \/ <<y, x>> \in less
  BY <1>1, <1>2, OrderIsTotal
<1>4. StrictTotal(S, less)
  BY <1>1, <1>2, <1>3 DEF StrictTotal
<1>5. Sorted(S, LAMBDA a : a) = Lined(S, less)
  BY DEF Sorted, InOrder
<1> QED
  BY <1>4, <1>5, TotalOnce

\* The graph is read from the roles of the row, or from its only principal.
LEMMA EntityIsRead ==
  ASSUME NEW F, Shown(F),
         \A f \in F : roleARNFromFinding(f) \in DOMAIN Rank \cup {None},
         NEW r \in aggregateExternalEntities(F),
         NEW asked, asked.kind = "entity", Matched(asked) = OwnOf(F, r.entity)
  PROVE  /\ ToSet(EntryPoints(asked)) = r.roles
         /\ r.principal # None => EntryPoints(asked) = <<r.principal>>
<1> PICK own : own = OwnOf(F, r.entity)
  OBVIOUS
<1> PICK roles : roles = RolesOf(own)
  OBVIOUS
<1>1. own \subseteq F /\ IsFiniteSet(own) /\ Counts(r, own)
  BY RowIsKnown DEF External
<1>2. roles \subseteq DOMAIN Rank \ {None}
  <2>1. \A f \in own : roleARNFromFinding(f) # None
    BY <1>1 DEF roleARNFromFinding, Shown, Presentable
  <2> QED
    BY <1>1, <2>1 DEF RolesOf
<1>3. IsFiniteSet(roles)
  <2> PICK of : of = [g \in own |-> roleARNFromFinding(g)]
    OBVIOUS
  <2>1. \A y \in roles : \E f \in own : y = of[f]
    BY DEF RolesOf
  <2> QED
    BY <1>1, <2>1, ImageIsFinite
<1> PICK seq : seq = EntryPoints(asked)
  OBVIOUS
<1>4. seq = Sorted(roles, LAMBDA a : a)
  <2> PICK S : S = {roleARNFromFinding(f) : f \in Matched(asked)} \ {None}
    OBVIOUS
  <2>1. S = roles
    BY <1>2 DEF RolesOf
  <2>2. seq = Sorted(S, LAMBDA a : a)
    BY DEF EntryPoints
  <2> QED
    BY <2>1, <2>2
<1>5. ListsOnce(seq, roles)
  BY <1>2, <1>3, <1>4, NamesOnce
<1>6. ToSet(seq) = roles
  BY <1>5 DEF ToSet, ListsOnce, Lists, Range
<1>7. ASSUME r.principal # None PROVE seq = <<r.principal>>
  <2>1. Cardinality(roles) = 1 /\ r.principal = CHOOSE x \in roles : TRUE
    BY <1>1, <1>7 DEF Counts
  <2>2. Len(seq) = 1 /\ seq \in Seq(roles)
    BY <1>5, <2>1, OnceIsAsMany DEF ListsOnce, Lists
  <2>3. seq = <<seq[1]>> /\ seq[1] \in roles
    BY <2>2
  <2>4. PICK x : roles = {x}
    BY <1>3, <2>1, FS_Singleton
  <2> QED
    BY <2>1, <2>3, <2>4
<1> QED
  BY <1>1, <1>6, <1>7 DEF Counts

-----------------------------------------------------------------------------
(* The numbers of the overview.                                            *)

\* One for each member.
Ones(S) == [x \in S |-> 1]

\* Counting the rows that have what they have of a set.
LEMMA CountOfRows ==
  ASSUME NEW R, IsFiniteSet(R), NEW F, IsFiniteSet(F),
         NEW own \in [R -> SUBSET F], \A q, r \in R : q # r => own[q] \cap own[r] = {},
         NEW w, \A r \in R : w[r] = Cardinality(own[r])
  PROVE  SumOver(w, R) = Cardinality(UNION {own[r] : r \in R})
<1> PICK one : one = Ones(F)
  OBVIOUS
<1>1. ASSUME NEW G \in SUBSET F PROVE Cardinality(G) = SumOver(one, G)
  <2>1. IsFiniteSet(G) /\ \A x \in G : one[x] = 1
    BY FS_Subset DEF Ones
  <2> QED
    BY <2>1, CountIsSum
<1>2. \A r \in R : w[r] = SumOver(one, own[r])
  BY <1>1
<1>3. \A f \in F : one[f] \in Int
  BY DEF Ones
<1>4. SumOver(w, R) = SumOver(one, UNION {own[r] : r \in R})
  BY <1>2, <1>3, SumOfRows
<1> PICK U : U = UNION {own[r] : r \in R}
  OBVIOUS
<1>5. U \in SUBSET F
  OBVIOUS
<1> QED
  BY <1>1, <1>4, <1>5

\* The accounts of a scan: each has the findings that name it.
AccountRow(F, r) ==
  LET of == {f \in F : f.account = r.account}
  IN  /\ r.account \in {f.account : f \in F} /\ r.findings = Cardinality(of)
      /\ r.critical = Cardinality({f \in of : f.severity = "critical"})
      /\ r.risk = Total([f \in of |-> f.cost])

\* There is one row for each account.
LEMMA AccountRowsAre ==
  ASSUME NEW F
  PROVE  LET rows == aggregateAccounts(F)
         IN  /\ \A r \in rows : AccountRow(F, r)
             /\ \A f \in F : \E r \in rows : r.account = f.account
             /\ \A q, r \in rows : q.account = r.account => q = r
<1> PICK rows : rows = aggregateAccounts(F)
  OBVIOUS
<1> DEFINE of(a) == {f \in F : f.account = a}
           before(f, x) ==
             \/ severityRank(f.severity) > severityRank(x.severity)
             \/ severityRank(f.severity) = severityRank(x.severity) /\ f.cost > x.cost
             \/ /\ severityRank(f.severity) = severityRank(x.severity) /\ f.cost = x.cost
                /\ Rank[f.id] < Rank[x.id] \/ (f.id = x.id /\ f.nth < x.nth)
           best(a) == {f \in of(a) : \A x \in of(a) \ {f} : before(f, x)}
           row(a) == [account |-> a, findings |-> Cardinality(of(a)),
                      critical |-> Cardinality({f \in of(a) : f.severity = "critical"}),
                      risk |-> Total([f \in of(a) |-> f.cost]), top |-> best(a)]
<1>2. rows = {row(a) : a \in {f.account : f \in F}}
  BY DEF aggregateAccounts
<1> HIDE DEF best
<1>3. \A a : row(a).account = a
  OBVIOUS
<1>4. ASSUME NEW a \in {f.account : f \in F} PROVE AccountRow(F, row(a))
  BY DEF AccountRow
<1> HIDE DEF row
<1>5. \A r \in rows : AccountRow(F, r)
  BY <1>2, <1>4
<1>6. \A f \in F : \E r \in rows : r.account = f.account
  BY <1>2, <1>3
<1>7. \A q, r \in rows : q.account = r.account => q = r
  BY <1>2, <1>3
<1> QED
  BY <1>5, <1>6, <1>7

\* The accounts add up to the scan.
LEMMA AccountsAddUp ==
  ASSUME NEW F, Shown(F), NEW rows, rows = aggregateAccounts(F)
  PROVE  /\ Total([a \in rows |-> a.findings]) = Cardinality(F)
         /\ Total([a \in rows |-> a.critical]) = Cardinality({f \in F : f.severity = "critical"})
         /\ Total([a \in rows |-> a.risk]) = Total([f \in F |-> f.cost])
<1>1. IsFiniteSet(F) /\ \A f \in F : f.cost \in Int
  BY DEF Shown, Rows
<1>2. /\ \A r \in rows : AccountRow(F, r)
      /\ \A f \in F : \E r \in rows : r.account = f.account
      /\ \A q, r \in rows : q.account = r.account => q = r
  BY AccountRowsAre
<1>3. IsFiniteSet(rows)
  <2> PICK at : at = [f \in F |-> CHOOSE r \in rows : r.account = f.account]
    OBVIOUS
  <2>1. ASSUME NEW r \in rows PROVE \E f \in F : r = at[f]
    <3>1. PICK f \in F : r.account = f.account
      BY <1>2 DEF AccountRow
    <3>2. at[f] \in rows /\ at[f].account = f.account
      BY <1>2
    <3> QED
      BY <1>2, <3>1, <3>2
  <2> QED
    BY ONLY <1>1, <2>1, ImageIsFinite
<1> PICK own : own = [r \in rows |-> {f \in F : f.account = r.account}]
  OBVIOUS
<1>4. /\ own \in [rows -> SUBSET F]
      /\ \A q, r \in rows : q # r => own[q] \cap own[r] = {}
      /\ UNION {own[r] : r \in rows} = F
  <2>1. own \in [rows -> SUBSET F]
    OBVIOUS
  <2>2. \A q, r \in rows : q # r => own[q] \cap own[r] = {}
    BY <1>2
  <2>3. UNION {own[r] : r \in rows} = F
    BY <1>2
  <2> QED
    BY <2>1, <2>2, <2>3
<1>5. Total([a \in rows |-> a.findings]) = Cardinality(F)
  <2> PICK w : w = [a \in rows |-> a.findings]
    OBVIOUS
  <2>1. \A r \in rows : w[r] = Cardinality(own[r])
    BY <1>2 DEF AccountRow
  <2>2. SumOver(w, rows) = Cardinality(UNION {own[r] : r \in rows})
    BY ONLY <1>1, <1>3, <1>4, <2>1, CountOfRows
  <2>3. SumOver(w, rows) = Total(w)
    <3>1. [x \in rows |-> w[x]] = w
      OBVIOUS
    <3> QED
      BY <3>1 DEF SumOver
  <2> QED
    BY <1>4, <2>2, <2>3
<1>6. Total([a \in rows |-> a.critical]) = Cardinality({f \in F : f.severity = "critical"})
  <2> PICK C : C = {f \in F : f.severity = "critical"}
    OBVIOUS
  <2> PICK part : part = [r \in rows |-> own[r] \cap C]
    OBVIOUS
  <2>1. /\ part \in [rows -> SUBSET F]
        /\ \A q, r \in rows : q # r => part[q] \cap part[r] = {}
    BY <1>4
  <2>2. UNION {part[r] : r \in rows} = C
    <3>1. UNION {part[r] : r \in rows} \subseteq C
      OBVIOUS
    <3>2. ASSUME NEW f \in C PROVE \E r \in rows : f \in part[r]
      <4>1. PICK r \in rows : r.account = f.account
        BY <1>2
      <4> QED
        BY <4>1
    <3> QED
      BY <3>1, <3>2
  <2> PICK w : w = [a \in rows |-> a.critical]
    OBVIOUS
  <2>3. ASSUME NEW r \in rows PROVE w[r] = Cardinality(part[r])
    <3>1. part[r] = {f \in {x \in F : x.account = r.account} : f.severity = "critical"}
      OBVIOUS
    <3>2. r.critical = Cardinality({f \in {x \in F : x.account = r.account} : f.severity = "critical"})
      BY <1>2 DEF AccountRow
    <3>3. w[r] = r.critical
      OBVIOUS
    <3> QED
      BY ONLY <3>1, <3>2, <3>3
  <2>4. SumOver(w, rows) = Cardinality(UNION {part[r] : r \in rows})
    BY ONLY <1>1, <1>3, <2>1, <2>3, CountOfRows
  <2>5. SumOver(w, rows) = Total(w)
    <3>1. [x \in rows |-> w[x]] = w
      OBVIOUS
    <3> QED
      BY <3>1 DEF SumOver
  <2> QED
    BY <2>2, <2>4, <2>5
<1>7. Total([a \in rows |-> a.risk]) = Total([f \in F |-> f.cost])
  <2> PICK w : w = [a \in rows |-> a.risk]
    OBVIOUS
  <2> PICK v : v = [f \in F |-> f.cost]
    OBVIOUS
  <2>1. ASSUME NEW r \in rows PROVE w[r] = SumOver(v, own[r])
    <3>1. [f \in own[r] |-> v[f]] = [f \in {x \in F : x.account = r.account} |-> f.cost]
      BY <1>4
    <3> QED
      BY <1>2, <3>1 DEF AccountRow, SumOver
  <2>2. \A f \in F : v[f] \in Int
    BY <1>1
  <2>3. SumOver(w, rows) = SumOver(v, UNION {own[r] : r \in rows})
    BY ONLY <1>1, <1>3, <1>4, <2>1, <2>2, SumOfRows
  <2>4. SumOver(w, rows) = Total(w) /\ SumOver(v, F) = Total(v)
    <3>1. [x \in rows |-> w[x]] = w /\ [x \in F |-> v[x]] = v
      OBVIOUS
    <3> QED
      BY <3>1 DEF SumOver
  <2> QED
    BY <1>4, <2>3, <2>4
<1> QED
  BY <1>5, <1>6, <1>7

\* A group has the findings its filter lets pass.
LEMMA GroupCounts ==
  ASSUME NEW F, Shown(F), NEW g \in DOMAIN remediationGroupDefs
  PROVE  Total([x \in remediationGroups(F) |-> If(x.group = g, x.findings)])
           = Cardinality(filterFindings(F, remediationGroupDefs[g]))
<1> PICK rows : rows = remediationGroups(F)
  OBVIOUS
<1> PICK in : in = [x \in DOMAIN remediationGroupDefs |-> filterFindings(F, remediationGroupDefs[x])]
  OBVIOUS
<1> PICK row : row = [x \in DOMAIN in |-> [group |-> x, findings |-> Cardinality(in[x])]]
  OBVIOUS
<1>1. rows = {row[x] : x \in {y \in DOMAIN in : in[y] # {}}}
  BY DEF remediationGroups
<1>2. IsFiniteSet(rows)
  <2> PICK D : D = DOMAIN in
    OBVIOUS
  <2>1. D = {"reclaimable", "stale_external_trust", "admin_like_external", "dangling_edge",
             "broken_edge"}
    BY DEF remediationGroupDefs
  <2>2. IsFiniteSet(D)
    <3>1. IsFiniteSet({})
      BY FS_EmptySet
    <3>2. IsFiniteSet({"reclaimable"})
      BY FS_Singleton
    <3>3. IsFiniteSet({"reclaimable"} \cup {"stale_external_trust"})
      BY <3>2, FS_AddElement
    <3>4. IsFiniteSet(({"reclaimable"} \cup {"stale_external_trust"}) \cup {"admin_like_external"})
      BY <3>3, FS_AddElement
    <3>5. IsFiniteSet((({"reclaimable"} \cup {"stale_external_trust"}) \cup {"admin_like_external"})
                        \cup {"dangling_edge"})
      BY <3>4, FS_AddElement
    <3>6. IsFiniteSet(((({"reclaimable"} \cup {"stale_external_trust"}) \cup {"admin_like_external"})
                        \cup {"dangling_edge"}) \cup {"broken_edge"})
      BY <3>5, FS_AddElement
    <3>7. D = ((({"reclaimable"} \cup {"stale_external_trust"}) \cup {"admin_like_external"})
                  \cup {"dangling_edge"}) \cup {"broken_edge"}
      BY <2>1
    <3> QED
      BY <3>6, <3>7
  <2>3. \A r \in rows : \E x \in D : r = row[x]
    BY <1>1
  <2> QED
    BY ONLY <2>2, <2>3, ImageIsFinite
<1> PICK it : it = row[g]
  OBVIOUS
<1>3. g \in DOMAIN in /\ in[g] = filterFindings(F, remediationGroupDefs[g])
      /\ it.group = g /\ it.findings = Cardinality(in[g])
      /\ \A x \in DOMAIN in : row[x].group = x
  OBVIOUS
<1>4. IsFiniteSet(in[g])
  <2>1. in[g] \subseteq F
    BY <1>3 DEF filterFindings
  <2> QED
    BY <2>1, FS_Subset DEF Shown, Rows
<1> PICK w : w = [x \in rows |-> If(x.group = g, x.findings)]
  OBVIOUS
<1>5. \A r \in rows : r # it => w[r] = 0
  BY <1>1, <1>3 DEF If
<1>6. it \in rows => w[it] = Cardinality(in[g])
  BY <1>3 DEF If
<1>7. Cardinality(in[g]) \in Int
  BY <1>4, FS_CardinalityType
<1>8. SumOver(w, rows) = If(it \in rows, w[it])
  BY ONLY <1>2, <1>5, <1>6, <1>7, SumOfOne
<1>9. it \notin rows => Cardinality(in[g]) = 0
  <2>1. it \notin rows => in[g] = {}
    BY <1>1, <1>3
  <2> QED
    BY <2>1, FS_EmptySet
<1>10. SumOver(w, rows) = Total(w)
  <2>1. [x \in rows |-> w[x]] = w
    OBVIOUS
  <2> QED
    BY <2>1 DEF SumOver
<1> QED
  BY <1>3, <1>6, <1>8, <1>9, <1>10 DEF If

\* There are as many rows as entities, whichever are counted.
LEMMA EntitiesAreCounted ==
  ASSUME NEW F, Shown(F), NEW S \in SUBSET aggregateExternalEntities(F), NEW K,
         \A r \in S : r.entity \in K, \A k \in K : \E r \in S : r.entity = k
  PROVE  Cardinality(S) = Cardinality(K)
<1>1. IsFiniteSet(S)
  BY RowsAreFinitelyMany, FS_Subset
<1> PICK f : f = [r \in S |-> r.entity]
  OBVIOUS
<1>2. f \in [S -> K] /\ \A k \in K : \E r \in S : f[r] = k
  OBVIOUS
<1>3. \A q, r \in S : f[q] = f[r] => q = r
  BY RowsAre
<1>4. f \in Bijection(S, K)
  BY <1>2, <1>3 DEF Bijection, Injection, Surjection, IsInjective
<1> QED
  BY <1>1, <1>4, FS_Bijection DEF ExistsBijection

\* Every finding has one severity, or none of the urgent ones.
LEMMA SeveritiesAddUp ==
  ASSUME NEW F, IsFiniteSet(F)
  PROVE  LET s == summarizeScan(F) IN s.findings = s.critical + s.high + s.medium + s.low
<1> DEFINE of(severity) == {f \in F : f.severity = severity}
<1> PICK c : c = of("critical")
  OBVIOUS
<1> PICK h : h = of("high")
  OBVIOUS
<1> PICK m : m = of("medium")
  OBVIOUS
<1> PICK l : l = {f \in F : f.severity \notin {"critical", "high", "medium"}}
  OBVIOUS
<1>1. /\ summarizeScan(F).findings = Cardinality(F) /\ summarizeScan(F).critical = Cardinality(c)
      /\ summarizeScan(F).high = Cardinality(h) /\ summarizeScan(F).medium = Cardinality(m)
      /\ summarizeScan(F).low = Cardinality(l)
  BY DEF summarizeScan
<1>2. c \subseteq F /\ h \subseteq F /\ m \subseteq F /\ l \subseteq F
  OBVIOUS
<1>3. c \cap h = {} /\ (c \cup h) \cap m = {} /\ ((c \cup h) \cup m) \cap l = {}
      /\ ((c \cup h) \cup m) \cup l = F
  <2>1. \A f \in F : f.severity = "critical" => f.severity # "high" /\ f.severity # "medium"
    OBVIOUS
  <2>2. \A f \in F : f.severity = "high" => f.severity # "medium"
    OBVIOUS
  <2> QED
    BY <2>1, <2>2
<1> HIDE DEF of
<1>4. IsFiniteSet(c) /\ IsFiniteSet(h) /\ IsFiniteSet(m) /\ IsFiniteSet(l)
  BY <1>2, FS_Subset
<1>5. ASSUME NEW A, NEW B, IsFiniteSet(A), IsFiniteSet(B), A \cap B = {}
      PROVE  /\ IsFiniteSet(A \cup B) /\ Cardinality(A \cup B) = Cardinality(A) + Cardinality(B)
             /\ Cardinality(A) \in Nat /\ Cardinality(B) \in Nat
  <2>1. Cardinality(A) \in Nat /\ Cardinality(B) \in Nat
    BY <1>5, FS_CardinalityType
  <2>2. /\ IsFiniteSet(A \cup B)
        /\ Cardinality(A \cup B) = Cardinality(A) + Cardinality(B) - Cardinality(A \cap B)
    BY ONLY <1>5, FS_Union
  <2>3. Cardinality(A \cap B) = 0
    BY <1>5, FS_EmptySet
  <2> QED
    BY <2>1, <2>2, <2>3
<1>6. IsFiniteSet(c \cup h) /\ Cardinality(c \cup h) = Cardinality(c) + Cardinality(h)
  BY <1>3, <1>4, <1>5
<1>7. IsFiniteSet((c \cup h) \cup m)
      /\ Cardinality((c \cup h) \cup m) = Cardinality(c \cup h) + Cardinality(m)
  BY <1>3, <1>4, <1>5, <1>6
<1>8. Cardinality(((c \cup h) \cup m) \cup l) = Cardinality((c \cup h) \cup m) + Cardinality(l)
  BY <1>3, <1>4, <1>5, <1>7
<1> QED
  BY <1>1, <1>3, <1>6, <1>7, <1>8

\* The filters of the overview are for external access, and a feature of it.
ForExternal(q) ==
  /\ q.module = "external_access"
  /\ q.severity = None /\ q.account = None /\ q.claimability = None /\ q.class = None
  /\ q.ptype = None /\ q.external = None /\ q.extAccount = None

\* They let pass what is of access from outside, and has that feature.
LEMMA ExternalPasses ==
  ASSUME NEW F, NEW q, ForExternal(q)
  PROVE  filterFindings(F, q)
           = {f \in External(F) : (q.admin => f.vis.admin) /\ (q.stale => isStale(f))}
<1>1. ASSUME NEW x PROVE Passes(None, x) /\ None \in {None, x}
  BY DEF Passes, None
<1>2. ASSUME NEW f \in F
      PROVE  f \in filterFindings(F, q) <=>
               /\ f.module = "external_access"
               /\ q.admin => f.vis.admin
               /\ q.stale => isStale(f)
  <2>1. "external_access" \in {None, f.module} <=> f.module = "external_access"
    BY DEF None
  <2> QED
    BY <1>1, <2>1 DEF filterFindings, ForExternal
<1>3. filterFindings(F, q) \subseteq F
  BY DEF filterFindings
<1> QED
  BY <1>2, <1>3 DEF External

\* The groups of the overview that are about access from outside.
LEMMA GroupsOutside ==
  ASSUME NEW F
  PROVE  /\ filterFindings(F, remediationGroupDefs["stale_external_trust"])
              = {f \in External(F) : isStale(f)}
         /\ filterFindings(F, remediationGroupDefs["admin_like_external"])
              = {f \in External(F) : f.vis.admin}
<1> PICK s : s = remediationGroupDefs["stale_external_trust"]
  OBVIOUS
<1> PICK a : a = remediationGroupDefs["admin_like_external"]
  OBVIOUS
<1>1. ForExternal(s) /\ s.stale = TRUE /\ s.admin = FALSE
  BY DEF remediationGroupDefs, NoFilter, ForExternal
<1>2. ForExternal(a) /\ a.stale = FALSE /\ a.admin = TRUE
  BY DEF remediationGroupDefs, NoFilter, ForExternal
<1> QED
  BY <1>1, <1>2, ExternalPasses

\* An entity is counted with a feature when one of its findings has it.
LEMMA FeaturesAreCounted ==
  ASSUME NEW F, Shown(F)
  PROVE  LET rows == aggregateExternalEntities(F)
             with(feature) == Cardinality(applyExternalEntityFeatureFilters(rows, {feature}))
             entities(G) == Cardinality({entityKey(f) : f \in G})
         IN  /\ Cardinality(rows) = entities(External(F))
             /\ with("stale") = entities({f \in External(F) : isStale(f)})
             /\ with("admin") = entities({f \in External(F) : f.vis.admin})
<1> PICK rows : rows = aggregateExternalEntities(F)
  OBVIOUS
<1>0. /\ \A r \in rows : Row(F, r)
      /\ \A k \in KeysOf(F) : \E r \in rows : r.entity = k
  BY RowsAre
<1>1. ASSUME NEW S \in SUBSET rows, NEW G \in SUBSET External(F),
             \A r \in rows : r \in S <=> \E f \in G : entityKey(f) = r.entity
      PROVE  Cardinality(S) = Cardinality({entityKey(f) : f \in G})
  <2> PICK K : K = {entityKey(f) : f \in G}
    OBVIOUS
  <2>1. \A r \in S : r.entity \in K
    BY <1>1
  <2>2. ASSUME NEW k \in K PROVE \E r \in S : r.entity = k
    <3>1. PICK f \in G : k = entityKey(f)
      OBVIOUS
    <3>2. PICK r \in rows : r.entity = k
      BY <1>0, <3>1 DEF KeysOf
    <3> QED
      BY <1>1, <3>1, <3>2
  <2> QED
    BY <2>1, <2>2, EntitiesAreCounted
<1>2. Cardinality(rows) = Cardinality({entityKey(f) : f \in External(F)})
  <2>1. \A r \in rows : \E f \in External(F) : entityKey(f) = r.entity
    BY <1>0 DEF Row, KeysOf
  <2> QED
    BY <1>1, <2>1
<1>3. ASSUME NEW r \in rows
      PROVE  /\ r.stale = RolesOf({f \in OwnOf(F, r.entity) : isStale(f)})
             /\ r.admin = RolesOf({f \in OwnOf(F, r.entity) : f.vis.admin})
  BY <1>0 DEF Row, Counts
<1>4. \A G : RolesOf(G) # {} <=> G # {}
  BY DEF RolesOf
<1>5. Cardinality(applyExternalEntityFeatureFilters(rows, {"stale"}))
        = Cardinality({entityKey(f) : f \in {x \in External(F) : isStale(x)}})
  <2> PICK S : S = applyExternalEntityFeatureFilters(rows, {"stale"})
    OBVIOUS
  <2> PICK G : G = {x \in External(F) : isStale(x)}
    OBVIOUS
  <2>1. S \in SUBSET rows /\ \A r \in rows : r \in S <=> r.stale # {}
    BY DEF applyExternalEntityFeatureFilters
  <2>2. ASSUME NEW r \in rows PROVE r \in S <=> \E f \in G : entityKey(f) = r.entity
    <3>1. r \in S <=> {f \in OwnOf(F, r.entity) : isStale(f)} # {}
      <4>1. r \in S <=> r.stale # {}
        BY <2>1
      <4>2. r.stale = RolesOf({f \in OwnOf(F, r.entity) : isStale(f)})
        BY <1>3
      <4> QED
        BY ONLY <1>4, <4>1, <4>2
    <3>2. \A f : f \in OwnOf(F, r.entity) <=> f \in External(F) /\ entityKey(f) = r.entity
      BY DEF OwnOf
    <3>3. \A f : f \in G <=> f \in External(F) /\ isStale(f)
      OBVIOUS
    <3> QED
      BY ONLY <3>1, <3>2, <3>3
  <2>3. G \in SUBSET External(F)
    OBVIOUS
  <2>4. Cardinality(S) = Cardinality({entityKey(f) : f \in G})
    BY ONLY <1>1, <2>1, <2>2, <2>3
  <2> QED
    BY <2>4
<1>6. Cardinality(applyExternalEntityFeatureFilters(rows, {"admin"}))
        = Cardinality({entityKey(f) : f \in {x \in External(F) : x.vis.admin}})
  <2> PICK S : S = applyExternalEntityFeatureFilters(rows, {"admin"})
    OBVIOUS
  <2> PICK G : G = {x \in External(F) : x.vis.admin}
    OBVIOUS
  <2>1. S \in SUBSET rows /\ \A r \in rows : r \in S <=> r.admin # {}
    BY DEF applyExternalEntityFeatureFilters
  <2>2. ASSUME NEW r \in rows PROVE r \in S <=> \E f \in G : entityKey(f) = r.entity
    <3>1. r \in S <=> {f \in OwnOf(F, r.entity) : f.vis.admin} # {}
      <4>1. r \in S <=> r.admin # {}
        BY <2>1
      <4>2. r.admin = RolesOf({f \in OwnOf(F, r.entity) : f.vis.admin})
        BY <1>3
      <4> QED
        BY ONLY <1>4, <4>1, <4>2
    <3>2. \A f : f \in OwnOf(F, r.entity) <=> f \in External(F) /\ entityKey(f) = r.entity
      BY DEF OwnOf
    <3>3. \A f : f \in G <=> f \in External(F) /\ f.vis.admin
      OBVIOUS
    <3> QED
      BY ONLY <3>1, <3>2, <3>3
  <2>3. G \in SUBSET External(F)
    OBVIOUS
  <2>4. Cardinality(S) = Cardinality({entityKey(f) : f \in G})
    BY ONLY <1>1, <2>1, <2>2, <2>3
  <2> QED
    BY <2>4
<1> QED
  BY <1>2, <1>5, <1>6

\* What the overview counts, and what its lists have.
AddsUp(F, s, accounts, groups, fixes) ==
  LET sum(field) == Total([a \in accounts |-> a[field]])
      grouped(g) == Total([x \in groups |-> If(x.group = g, x.findings)])
      entities(feature) == Cardinality({entityKey(f) : f \in
        filterFindings(F, [NoFilter EXCEPT !.module = "external_access",
                             !.stale = feature = "stale", !.admin = feature = "admin"])})
  IN  /\ s.findings = s.critical + s.high + s.medium + s.low
      /\ sum("findings") = s.findings /\ sum("critical") = s.critical /\ sum("risk") = s.risk
      /\ grouped("stale_external_trust") = s.stale /\ grouped("admin_like_external") = s.admin
      /\ s.entities = entities("any") /\ s.withStale = entities("stale")
      /\ s.withAdmin = entities("admin")
      /\ F # {} => {Head(fixes)} = topFindingByPriority(F)

\* The one adds up to the other.
LEMMA OverviewAddsUp ==
  ASSUME NEW F, Shown(F), NEW s, s = summarizeScan(F),
         NEW accounts, accounts = aggregateAccounts(F),
         NEW groups, groups = remediationGroups(F), NEW fixes, fixes = topFixes(F, 25)
  PROVE  AddsUp(F, s, accounts, groups, fixes)
<1>1. IsFiniteSet(F) /\ Rows(F)
  BY DEF Shown, Rows
<1>2. s.findings = s.critical + s.high + s.medium + s.low
  BY <1>1, SeveritiesAddUp
<1> PICK rows : rows = aggregateExternalEntities(F)
  OBVIOUS
<1>3. /\ s.findings = Cardinality(F)
      /\ s.critical = Cardinality({f \in F : f.severity = "critical"})
      /\ s.risk = Total([f \in F |-> f.cost])
      /\ s.stale = Cardinality({f \in External(F) : isStale(f)})
      /\ s.admin = Cardinality({f \in External(F) : f.vis.admin})
      /\ s.entities = Cardinality(rows)
      /\ s.withStale = Cardinality(applyExternalEntityFeatureFilters(rows, {"stale"}))
      /\ s.withAdmin = Cardinality(applyExternalEntityFeatureFilters(rows, {"admin"}))
  BY DEF summarizeScan
<1>4. /\ Total([a \in accounts |-> a.findings]) = s.findings
      /\ Total([a \in accounts |-> a.critical]) = s.critical
      /\ Total([a \in accounts |-> a.risk]) = s.risk
  <2>1. /\ Total([a \in accounts |-> a.findings]) = Cardinality(F)
        /\ Total([a \in accounts |-> a.critical]) = Cardinality({f \in F : f.severity = "critical"})
        /\ Total([a \in accounts |-> a.risk]) = Total([f \in F |-> f.cost])
    BY AccountsAddUp
  <2> QED
    BY ONLY <1>3, <2>1
<1>5. /\ Total([x \in groups |-> If(x.group = "stale_external_trust", x.findings)]) = s.stale
      /\ Total([x \in groups |-> If(x.group = "admin_like_external", x.findings)]) = s.admin
  <2>1. {"stale_external_trust", "admin_like_external"} \subseteq DOMAIN remediationGroupDefs
    BY DEF remediationGroupDefs
  <2>2. Total([x \in groups |-> If(x.group = "stale_external_trust", x.findings)])
          = Cardinality({f \in External(F) : isStale(f)})
    BY <2>1, GroupCounts, GroupsOutside
  <2>3. Total([x \in groups |-> If(x.group = "admin_like_external", x.findings)])
          = Cardinality({f \in External(F) : f.vis.admin})
    BY <2>1, GroupCounts, GroupsOutside
  <2> QED
    BY ONLY <1>3, <2>2, <2>3
<1> DEFINE filter(feature) == [NoFilter EXCEPT !.module = "external_access",
                                 !.stale = feature = "stale", !.admin = feature = "admin"]
<1>6. ASSUME NEW feature
      PROVE  /\ ForExternal(filter(feature))
             /\ filter(feature).stale = (feature = "stale")
             /\ filter(feature).admin = (feature = "admin")
  BY DEF NoFilter, ForExternal
<1> HIDE DEF filter
<1>7. ASSUME NEW feature
      PROVE  filterFindings(F, filter(feature))
               = {f \in External(F) : (feature = "admin" => f.vis.admin)
                                     /\ (feature = "stale" => isStale(f))}
  <2> PICK q : q = filter(feature)
    OBVIOUS
  <2>1. ForExternal(q) /\ q.stale = (feature = "stale") /\ q.admin = (feature = "admin")
    BY <1>6
  <2>2. filterFindings(F, q)
          = {f \in External(F) : (q.admin => f.vis.admin) /\ (q.stale => isStale(f))}
    BY ONLY <2>1, ExternalPasses
  <2> QED
    BY <2>1, <2>2
<1>8. /\ filterFindings(F, filter("any")) = External(F)
      /\ filterFindings(F, filter("stale")) = {f \in External(F) : isStale(f)}
      /\ filterFindings(F, filter("admin")) = {f \in External(F) : f.vis.admin}
  <2> DEFINE having(feature) == {f \in External(F) : (feature = "admin" => f.vis.admin)
                                                    /\ (feature = "stale" => isStale(f))}
  <2>1. having("any") = External(F)
    OBVIOUS
  <2>2. having("stale") = {f \in External(F) : isStale(f)}
    OBVIOUS
  <2>3. having("admin") = {f \in External(F) : f.vis.admin}
    OBVIOUS
  <2>4. \A feature : filterFindings(F, filter(feature)) = having(feature)
    BY <1>7
  <2> HIDE DEF having
  <2> QED
    BY ONLY <2>1, <2>2, <2>3, <2>4
<1>9. /\ s.entities = Cardinality({entityKey(f) : f \in filterFindings(F, filter("any"))})
      /\ s.withStale = Cardinality({entityKey(f) : f \in filterFindings(F, filter("stale"))})
      /\ s.withAdmin = Cardinality({entityKey(f) : f \in filterFindings(F, filter("admin"))})
  BY <1>3, <1>8, FeaturesAreCounted
<1>10. F # {} => {Head(fixes)} = topFindingByPriority(F)
  BY <1>1, FirstFixIsTop
<1> QED
  BY <1>2, <1>4, <1>5, <1>9, <1>10 DEF filter, AddsUp

-----------------------------------------------------------------------------
(* Two scans.                                                              *)

\* When there are as many ids as findings, no row hides another one.
LEMMA IdsOfTheirOwn ==
  ASSUME NEW F, Rows(F), Cardinality({f.id : f \in F}) = Cardinality(F)
  PROVE  indexFindings(F) = F
<1> PICK T : T = {f.id : f \in F}
  OBVIOUS
<1> PICK id : id = [f \in F |-> f.id]
  OBVIOUS
<1>1. IsFiniteSet(F)
  BY DEF Rows
<1>2. id \in Surjection(F, T)
  <2>1. id \in [F -> T] /\ \A t \in T : \E f \in F : id[f] = t
    OBVIOUS
  <2> QED
    BY <2>1 DEF Surjection
<1>3. id \in Injection(F, T)
  BY <1>1, <1>2, FS_Surjection
<1>4. \A f, g \in F : f.id = g.id => f = g
  <2>1. \A f, g \in F : id[f] = id[g] => f = g
    BY <1>3 DEF Injection, IsInjective
  <2> QED
    BY <2>1
<1>5. \A f \in F : f.nth \in Nat
  BY DEF Rows
<1> QED
  BY <1>4, <1>5 DEF indexFindings

\* Two critical findings with one id are the same to an alert.
LEMMA SameCritical ==
  ASSUME OneArn, NEW s \in DOMAIN disk, NEW t \in DOMAIN disk,
         Shown(disk[s].findings), Shown(disk[t].findings),
         NEW f \in disk[s].findings, NEW g \in disk[t].findings,
         f.id = g.id, f.severity = "critical", g.severity = "critical"
  PROVE  diffIdentity(f) = diffIdentity(g)
<1>1. f.arn = g.arn
  BY DEF OneArn, Found
<1>2. f.module = g.module
  BY DEF Shown, Presentable
<1>3. f.verdict = CriticalVerdict(f) /\ g.verdict = CriticalVerdict(g)
  BY DEF Shown, Presentable
<1>4. f.verdict = g.verdict
  BY <1>1, <1>2, <1>3 DEF CriticalVerdict
<1> QED
  BY <1>1, <1>2, <1>4 DEF diffIdentity

\* What an alert tells of, the comparison has.
LEMMA ToldIsCompared ==
  ASSUME OneArn, NEW s \in DOMAIN disk, NEW t \in DOMAIN disk,
         Shown(disk[s].findings), Shown(disk[t].findings),
         NEW old, old = disk[s].findings, NEW new, new = disk[t].findings,
         Cardinality({f.id : f \in old}) = Cardinality(old),
         Cardinality({f.id : f \in new}) = Cardinality(new),
         NEW d, d = diffFindings(old, new),
         NEW rule, rule.accounts = <<>>, NEW scan
  PROVE  evalNewCritical(rule, scan, new, {old}).counted \subseteq d.new \cup d.changed
<1>1. indexFindings(old) = old /\ indexFindings(new) = new
  BY IdsOfTheirOwn DEF Shown
<1> PICK both : both = {f \in new : \E x \in old : f.id = x.id}
  OBVIOUS
<1>2. d.new = new \ both
      /\ d.changed = {f \in both : \E x \in old : f.id = x.id /\ f.severity # x.severity}
  BY <1>1 DEF diffFindings
<1>3. UNION {old} = old /\ {old} # {}
  OBVIOUS
<1>4. FilterFindingsByAccountScope(rule, UNION {old}) = old
  BY <1>3 DEF FilterFindingsByAccountScope
<1> PICK told : told = {f \in new : f.severity = "critical"
                                     /\ diffIdentity(f) \notin {diffIdentity(x) : x \in old}}
  OBVIOUS
<1>5. evalNewCritical(rule, scan, new, {old}).counted = told
  BY <1>3, <1>4 DEF evalNewCritical, makeResult
<1>6. ASSUME NEW f \in told PROVE f \in d.new \cup d.changed
  <2>1. f \in new /\ f.severity = "critical" /\ \A x \in old : diffIdentity(x) # diffIdentity(f)
    OBVIOUS
  <2>2. CASE f \in both
    <3>1. PICK x \in old : f.id = x.id
      BY <2>2
    <3>2. x.severity # "critical"
      BY <2>1, <3>1, SameCritical
    <3> QED
      BY <1>2, <2>1, <2>2, <3>1, <3>2
  <2> QED
    BY <1>2, <2>1, <2>2
<1> QED
  BY <1>5, <1>6

-----------------------------------------------------------------------------
\* What an entity of the list opens onto.
OpensWell(F, scan, r) ==
  LET opened == filterFindings(F, DrillDown(r.entity))
      asked == [kind |-> "entity", scan |-> scan, entity |-> r.entity]
  IN  /\ opened = MatchExternalEntityFindings(F, r.entity)
      /\ r.findings = Cardinality(opened) /\ ToSet(EntryPoints(asked)) = r.roles
      /\ r.principal # None => EntryPoints(asked) = <<r.principal>>
      /\ \A f \in opened : severityRank(f.severity) <= r.severity

\* It is what the entity counts, for the list and for the graph.
LEMMA EntitiesOpenWell ==
  ASSUME DatabaseInv, OriginInv, ViewsInv, ListedAll(screen), screen.what = "entities",
         NEW r \in ToSet(screen.rows), NEW F, F = disk[screen.asked.scan].findings
  PROVE  OpensWell(F, screen.asked.scan, r)
<1> PICK scan : scan = screen.asked.scan
  OBVIOUS
<1>1. scan \in DOMAIN disk /\ screen.asked.what = "entities"
  BY DEF ViewsInv, ScreenSound, ListSound
<1>2. Shown(F)
  BY <1>1, DiskIsShown DEF ViewsInv
<1>3. r \in aggregateExternalEntities(F)
  <2>1. ToSet(screen.rows) = RowsOf(F, screen.asked)
    BY ListIsWhole
  <2>2. ToSet(screen.rows) \subseteq aggregateExternalEntities(F)
    BY <1>1, <2>1 DEF RowsOf, EntitiesIn, applyExternalEntityFeatureFilters
  <2> QED
    BY <2>2
<1> PICK own : own = OwnOf(F, r.entity)
  OBVIOUS
<1>4. filterFindings(F, DrillDown(r.entity)) = own
      /\ MatchExternalEntityFindings(F, r.entity) = own
  BY <1>2, <1>3, EntityOpens
<1> PICK asked : asked = [kind |-> "entity", scan |-> scan, entity |-> r.entity]
  OBVIOUS
<1>5. asked.kind = "entity" /\ Matched(asked) = own
  BY <1>4 DEF Matched
<1>6. \A f \in F : roleARNFromFinding(f) \in DOMAIN Rank \cup {None}
  <2>1. Traceable(disk[scan])
    BY <1>1 DEF OriginInv
  <2> QED
    BY <2>1 DEF Traceable
<1>7. ToSet(EntryPoints(asked)) = r.roles
      /\ (r.principal # None => EntryPoints(asked) = <<r.principal>>)
  BY <1>2, <1>3, <1>5, <1>6, EntityIsRead
<1>8. r.findings = Cardinality(own) /\ \A f \in own : severityRank(f.severity) <= r.severity
  <2>1. Counts(r, own) /\ \A f \in own : severityRank(f.severity) <= r.severity
    BY <1>2, <1>3, RowIsKnown
  <2> QED
    BY <2>1 DEF Counts
<1> QED
  BY <1>4, <1>7, <1>8 DEF OpensWell

\* What every page says, the others say too.
LEMMA PagesAgree ==
  DatabaseInv /\ OriginInv /\ FoundInv /\ ViewsInv => ViewsAgree
<1> SUFFICES ASSUME DatabaseInv, OriginInv, FoundInv, ViewsInv PROVE ViewsAgree
  OBVIOUS
<1>1. ASSUME ListedAll(screen)
      PROVE  LET F == disk[screen.asked.scan].findings
                 whole == IF screen.what = "findings" THEN filterFindings(F, screen.asked.filter)
                          ELSE applyExternalEntityFeatureFilters(aggregateExternalEntities(F),
                                                                 screen.asked.features)
             IN  IsInjective(screen.rows) /\ ToSet(screen.rows) = whole
  <2>1. screen.asked.what = screen.what
    BY <1>1 DEF ListedAll, ViewsInv, ScreenSound, ListSound
  <2> QED
    BY <1>1, <2>1, ListIsWhole DEF RowsOf, EntitiesIn
<1>2. ASSUME ListedAll(screen), screen.what = "entities"
      PROVE  \A r \in ToSet(screen.rows) :
               OpensWell(disk[screen.asked.scan].findings, screen.asked.scan, r)
  BY <1>2, EntitiesOpenWell
<1>3. ASSUME screen.what = "overview"
      PROVE  AddsUp(disk[screen.scan].findings, screen.summary, screen.accounts, screen.groups,
                    screen.fixes)
  <2> PICK F : F = disk[screen.scan].findings
    OBVIOUS
  <2>1. /\ screen.scan \in DOMAIN disk
        /\ screen.summary = summarizeScan(F) /\ screen.accounts = aggregateAccounts(F)
        /\ screen.groups = remediationGroups(F) /\ screen.fixes = topFixes(F, 25)
    BY <1>3 DEF ViewsInv, ScreenSound
  <2>2. Shown(F)
    BY <2>1, DiskIsShown DEF ViewsInv
  <2> QED
    BY <2>1, <2>2, OverviewAddsUp
<1>4. ASSUME screen.what = "diff",
             LET own(F) == Cardinality({f.id : f \in F}) = Cardinality(F)
             IN  own(disk[screen.old].findings) /\ own(disk[screen.new].findings)
      PROVE  evalNewCritical([accounts |-> <<>>], screen.new, disk[screen.new].findings,
                             {disk[screen.old].findings}).counted
               \subseteq screen.diff.new \cup screen.diff.changed
  <2>1. /\ screen.old \in DOMAIN disk /\ screen.new \in DOMAIN disk
        /\ screen.diff = diffFindings(disk[screen.old].findings, disk[screen.new].findings)
    BY <1>4 DEF ViewsInv, ScreenSound
  <2>2. Shown(disk[screen.old].findings) /\ Shown(disk[screen.new].findings)
    BY <2>1, DiskIsShown DEF ViewsInv
  <2>3. OneArn
    BY IdsTellArns DEF FoundInv
  <2> PICK rule : rule = [accounts |-> <<>>]
    OBVIOUS
  <2>4. rule.accounts = <<>>
    OBVIOUS
  <2> QED
    BY <1>4, <2>1, <2>2, <2>3, <2>4, ToldIsCompared
<1> QED
  BY <1>1, <1>2, <1>3, <1>4 DEF ViewsAgree, OpensWell, AddsUp

\* internal/api/handlers: whatever a browser is shown, of whichever scans and
\* in pages of whatever size, its lists have every row once, an entity opens onto
\* what it counts, the numbers of the overview add up, its first fix is what an
\* alert calls first, and no new critical finding is missing from a comparison
\* of scans whose findings have ids of their own.
THEOREM ViewsAgreeHolds ==
  Spec => []ViewsAgree
<1>1. Spec => []SearchInv
  BY SearchBegins, NextKeepsSearch, DatabaseKept, PTL DEF Spec
<1>2. Spec => []FoundInv
  BY <1>1, FoundBegins, NextKeepsFound, DatabaseKept, AnswerKept, WalkKept, PTL DEF Spec
<1>3. Spec => []ViewsInv
  BY ViewsBegin, NextKeepsViews, DatabaseKept, PTL DEF Spec
<1> QED
  BY <1>2, <1>3, PagesAgree, DatabaseKept, WalkKept, PTL
=============================================================================
