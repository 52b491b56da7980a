------------------------- MODULE BlastRadius_proofs --------------------------
(***************************************************************************)
(* Proofs about the answers of the dashboard: what a walk through a graph  *)
(* reaches, from which scans the database has what it has, what a request  *)
(* has gathered from one transaction to the next, what its answer says,    *)
(* what an expansion adds, and which attack paths are offered.             *)
(* Dashboard_proofs puts them together.                                    *)
(***************************************************************************)
EXTENDS BlastRadius, GraphExport_proofs, WellFoundedInduction

-----------------------------------------------------------------------------
(* Finite sets, and functions defined from one number to the next.         *)

\* What a finite set is mapped onto is finite.
LEMMA OntoIsFinite ==
  ASSUME NEW S, IsFiniteSet(S), NEW T, NEW f \in [S -> T],
         \A y \in T : \E x \in S : f[x] = y
  PROVE  IsFiniteSet(T)
<1>1. f \in Surjection(S, T)
  BY DEF Surjection
<1> QED
  BY <1>1, FS_Surjection

\* What a function makes of a finite set is finite.
LEMMA ImageIsFinite ==
  ASSUME NEW S, IsFiniteSet(S), NEW f, NEW T, \A y \in T : \E x \in S : y = f[x]
  PROVE  IsFiniteSet(T)
<1>1. \E h \in [S -> {f[x] : x \in S}] : \A y \in {f[x] : x \in S} : \E x \in S : h[x] = y
  <2>1. [x \in S |-> f[x]] \in [S -> {f[x] : x \in S}]
    OBVIOUS
  <2> QED
    BY <2>1
<1> PICK U : U = {f[x] : x \in S}
  OBVIOUS
<1>2. IsFiniteSet(U)
  BY <1>1, OntoIsFinite
<1> QED
  BY <1>2, FS_Subset

\* A set of numbers that has one has a smallest one: the intervals below its
\* elements are finite sets, and strict inclusion of those is well-founded.
LEMMA SmallestNumber ==
  ASSUME NEW S \in SUBSET Nat, NEW b \in S
  PROVE  \E n \in S : \A m \in S : n <= m
<1> DEFINE below(n) == {k \in 0..b : k < n}
           T == {below(n) : n \in {x \in S : x <= b}}
<1>1. IsWellFoundedOn(StrictSubsetOrdering(0..b), SUBSET (0..b))
  <2>1. IsFiniteSet(0..b)
    BY FS_Interval
  <2> QED
    BY <2>1, FS_StrictSubsetOrderingWellFounded, FS_FiniteSubsetsOfFinite
<1>2. T \subseteq SUBSET (0..b) /\ below(b) \in T
  OBVIOUS
<1>3. PICK t \in T : \A u \in T : <<u, t>> \notin StrictSubsetOrdering(0..b)
  BY <1>1, <1>2, WFMin
<1>4. PICK n \in S : n <= b /\ t = below(n)
  BY <1>3
<1>5. ASSUME NEW m \in S, m < n PROVE FALSE
  <2>1. m \in Nat /\ n \in Nat /\ b \in Nat /\ m <= b
    BY <1>4, <1>5
  <2>2. below(m) \in T /\ below(m) \subseteq below(n) /\ m \in below(n) /\ m \notin below(m)
    BY <1>4, <1>5, <2>1
  <2>3. <<below(m), below(n)>> \in StrictSubsetOrdering(0..b)
    BY <2>2 DEF StrictSubsetOrdering
  <2> QED
    BY <1>3, <1>4, <2>2, <2>3
<1> QED
  BY <1>5

\* What holds of 0 and goes on to the next number holds of all up to n.
LEMMA StepByStep ==
  ASSUME NEW n \in Nat, NEW S, 0 \in S, \A k \in 0..n : k \in S /\ k < n => k + 1 \in S
  PROVE  0..n \subseteq S
<1> SUFFICES ASSUME NEW b \in 0..n, b \notin S PROVE FALSE
  OBVIOUS
<1> DEFINE T == {k \in 0..n : k \notin S}
<1>1. PICK k \in T : \A m \in T : k <= m
  <2>1. T \in SUBSET Nat /\ b \in T
    OBVIOUS
  <2> HIDE DEF T
  <2> QED
    BY <2>1, SmallestNumber
<1>2. k \in 0..n /\ k # 0
  OBVIOUS
<1>3. k - 1 \in 0..n /\ k - 1 < n /\ k - 1 < k /\ (k - 1) + 1 = k
  BY <1>2
<1>4. k - 1 \in S
  BY <1>1, <1>2, <1>3
<1> QED
  BY <1>3, <1>4

\* A function of the numbers up to n, by its value at 0 and a step.
Unfolds(f, n, X, base, step) ==
  /\ f \in [0..n -> X] /\ f[0] = base
  /\ \A k \in 1..n : f[k] = step[f[k - 1]]

\* There is one.
LEMMA RecursionUnfolds ==
  ASSUME NEW n \in Nat, NEW X, NEW base \in X, NEW step \in [X -> X]
  PROVE  \E f : Unfolds(f, n, X, base, step)
<1> DEFINE S == {m \in 0..n : \E f : Unfolds(f, m, X, base, step)}
<1>1. 0 \in S
  <2> DEFINE f == [k \in 0..0 |-> base]
  <2>1. 0..0 = {0} /\ 1..0 = {} /\ 0 \in 0..n
    OBVIOUS
  <2>2. Unfolds(f, 0, X, base, step)
    BY <2>1 DEF Unfolds
  <2> HIDE DEF f
  <2> QED
    BY <2>1, <2>2
<1>2. ASSUME NEW m \in 0..n, m \in S, m < n PROVE m + 1 \in S
  <2>1. PICK f : Unfolds(f, m, X, base, step)
    BY <1>2
  <2> DEFINE g == [k \in 0..(m + 1) |-> IF k <= m THEN f[k] ELSE step[f[m]]]
  <2>2. \A k \in 0..(m + 1) : k \in 0..m \/ k = m + 1
    OBVIOUS
  <2>3. g \in [0..(m + 1) -> X] /\ g[0] = base
    BY <2>1, <2>2 DEF Unfolds
  <2>4. ASSUME NEW k \in 1..(m + 1) PROVE g[k] = step[g[k - 1]]
    <3>1. k \in 0..(m + 1) /\ k - 1 \in 0..(m + 1) /\ k - 1 <= m
      OBVIOUS
    <3>2. CASE k \in 1..m
      BY <2>1, <3>1, <3>2 DEF Unfolds
    <3>3. CASE k = m + 1
      BY <3>1, <3>3
    <3> QED
      BY <3>2, <3>3
  <2>5. Unfolds(g, m + 1, X, base, step)
    <3> HIDE DEF g
    <3> QED
      BY <2>3, <2>4 DEF Unfolds
  <2>6. m + 1 \in 0..n
    BY <1>2
  <2> HIDE DEF g
  <2> QED
    BY <2>5, <2>6
<1> HIDE DEF S
<1>3. 0..n \subseteq S
  BY <1>1, <1>2, StepByStep
<1> QED
  BY <1>3 DEF S

-----------------------------------------------------------------------------
(* Walks.                                                                  *)

\* The paths of so many relationships, and what lies within so many steps:
\* the functions of OnPaths and Reach.
PathsOf(edges, start, n, directed) ==
  LET step(t, e) == [at |-> IF e.src = t.at THEN e.dst ELSE e.src, used |-> t.used \cup {e}]
      Paths[k \in 0..n] ==
        IF k = 0 THEN {[at |-> start, used |-> {}]}
        ELSE UNION {{step(t, e) : e \in {x \in edges \ t.used :
                       x.src = t.at \/ (~directed /\ x.dst = t.at)}} : t \in Paths[k - 1]}
  IN  Paths

\* What lies within k steps of some places, for every k up to n.
BallOf(edges, starts, n, directed) ==
  LET Ball[k \in 0..n] ==
        IF k = 0 THEN starts
        ELSE Ball[k - 1]
             \cup {e.dst : e \in {x \in edges : x.src \in Ball[k - 1]}}
             \cup {e.src : e \in {x \in edges : ~directed /\ x.dst \in Ball[k - 1]}}
  IN  Ball

\* A relationship by which the walk may leave a place, and where it leads.
Leaves(e, at, directed) == e.src = at \/ (~directed /\ e.dst = at)

\* Where a relationship leads from one of its ends.
Onward(e, at) == IF e.src = at THEN e.dst ELSE e.src

\* The paths of no relationship, and of one more; what lies within no step, and
\* within one more.
AreThePaths(paths, edges, start, n, directed) ==
  /\ paths[0] = {[at |-> start, used |-> {}]}
  /\ \A k \in 1..n : \A p :
       p \in paths[k] <=> \E t \in paths[k - 1], e \in edges :
         /\ e \notin t.used /\ Leaves(e, t.at, directed)
         /\ p = [at |-> Onward(e, t.at), used |-> t.used \cup {e}]

\* The places within no step, and within one more.
IsTheBall(ball, edges, starts, n, directed) ==
  /\ ball[0] = starts
  /\ \A k \in 1..n : \A v :
       v \in ball[k] <=> \/ v \in ball[k - 1]
                        \/ \E u \in ball[k - 1], e \in edges :
                             Leaves(e, u, directed) /\ v \in {e.src, e.dst}

\* The paths are built from one length to the next.
LEMMA PathsUnfold ==
  ASSUME NEW edges, NEW start, NEW n \in Nat, NEW directed \in BOOLEAN
  PROVE  AreThePaths(PathsOf(edges, start, n, directed), edges, start, n, directed)
<1> DEFINE paths == PathsOf(edges, start, n, directed)
           V == {start} \cup EndsOf(edges)
           X == SUBSET [at : V, used : SUBSET edges]
           base == {[at |-> start, used |-> {}]}
           go(t, e) == [at |-> IF e.src = t.at THEN e.dst ELSE e.src, used |-> t.used \cup {e}]
           next(T) == UNION {{go(t, e) : e \in {x \in edges \ t.used :
                                x.src = t.at \/ (~directed /\ x.dst = t.at)}} : t \in T}
           step == [T \in X |-> next(T)]
<1>1. base \in X /\ step \in [X -> X]
  <2>1. ASSUME NEW T \in X PROVE next(T) \in X
    <3> SUFFICES ASSUME NEW t \in T, NEW e \in edges PROVE go(t, e) \in [at : V, used : SUBSET edges]
      OBVIOUS
    <3> QED
      BY DEF EndsOf
  <2> HIDE DEF next
  <2> QED
    BY <2>1
<1> HIDE DEF next, X
<1>2. PICK f : Unfolds(f, n, X, base, step)
  <2> HIDE DEF base, step
  <2> QED
    BY <1>1, RecursionUnfolds
<1>3. f = [k \in 0..n |-> IF k = 0 THEN base ELSE next(f[k - 1])]
  <2>1. ASSUME NEW k \in 0..n, k # 0 PROVE f[k] = next(f[k - 1])
    <3>1. k \in 1..n /\ k - 1 \in 0..n
      BY <2>1
    <3>2. f[k - 1] \in X
      BY <1>2, <3>1 DEF Unfolds
    <3> QED
      BY <1>2, <3>1, <3>2 DEF Unfolds
  <2> HIDE DEF base
  <2> QED
    BY <1>2, <2>1 DEF Unfolds
<1>4. paths = [k \in 0..n |-> IF k = 0 THEN base ELSE next(paths[k - 1])]
  <2>1. paths = CHOOSE g : g = [k \in 0..n |-> IF k = 0 THEN base ELSE next(g[k - 1])]
    BY DEF PathsOf, next
  <2> QED
    BY <1>3, <2>1
<1>5. paths[0] = base
  BY <1>4
<1>6. ASSUME NEW k \in 1..n, NEW p
      PROVE  p \in paths[k] <=> \E t \in paths[k - 1], e \in edges :
               /\ e \notin t.used /\ Leaves(e, t.at, directed)
               /\ p = [at |-> Onward(e, t.at), used |-> t.used \cup {e}]
  <2>1. k \in 0..n /\ k # 0
    OBVIOUS
  <2> HIDE DEF paths, base
  <2>2. paths[k] = next(paths[k - 1])
    BY <1>4, <2>1
  <2> QED
    BY <2>2 DEF next, Onward, Leaves
<1> HIDE DEF paths
<1>7. AreThePaths(paths, edges, start, n, directed)
  BY <1>5, <1>6 DEF AreThePaths
<1> QED
  BY <1>7 DEF paths

\* So are the places within a number of steps.
LEMMA BallUnfolds ==
  ASSUME NEW edges, NEW starts, NEW n \in Nat, NEW directed \in BOOLEAN
  PROVE  IsTheBall(BallOf(edges, starts, n, directed), edges, starts, n, directed)
<1> DEFINE ball == BallOf(edges, starts, n, directed)
           V == starts \cup EndsOf(edges)
           X == SUBSET V
           next(B) == B \cup {e.dst : e \in {x \in edges : x.src \in B}}
                        \cup {e.src : e \in {x \in edges : ~directed /\ x.dst \in B}}
           step == [B \in X |-> next(B)]
<1>1. starts \in X /\ step \in [X -> X]
  <2>1. ASSUME NEW B \in X PROVE next(B) \in X
    BY DEF EndsOf
  <2> HIDE DEF next
  <2> QED
    BY <2>1
<1> HIDE DEF next, X
<1>2. PICK f : Unfolds(f, n, X, starts, step)
  <2> HIDE DEF step
  <2> QED
    BY <1>1, RecursionUnfolds
<1>3. f = [k \in 0..n |-> IF k = 0 THEN starts ELSE next(f[k - 1])]
  <2>1. ASSUME NEW k \in 0..n, k # 0 PROVE f[k] = next(f[k - 1])
    <3>1. k \in 1..n /\ k - 1 \in 0..n
      BY <2>1
    <3>2. f[k - 1] \in X
      BY <1>2, <3>1 DEF Unfolds
    <3> QED
      BY <1>2, <3>1, <3>2 DEF Unfolds
  <2> QED
    BY <1>2, <2>1 DEF Unfolds
<1>4. ball = [k \in 0..n |-> IF k = 0 THEN starts ELSE next(ball[k - 1])]
  <2>1. ball = CHOOSE g : g = [k \in 0..n |-> IF k = 0 THEN starts ELSE next(g[k - 1])]
    BY DEF BallOf, next
  <2> QED
    BY <1>3, <2>1
<1>5. ball[0] = starts
  BY <1>4
<1>6. ASSUME NEW k \in 1..n, NEW v
      PROVE  v \in ball[k] <=> \/ v \in ball[k - 1]
                              \/ \E u \in ball[k - 1], e \in edges :
                                   Leaves(e, u, directed) /\ v \in {e.src, e.dst}
  <2>1. k \in 0..n /\ k # 0
    OBVIOUS
  <2> HIDE DEF ball
  <2>2. ball[k] = next(ball[k - 1])
    BY <1>4, <2>1
  <2> QED
    BY <2>2 DEF next, Leaves
<1> HIDE DEF ball
<1>7. IsTheBall(ball, edges, starts, n, directed)
  BY <1>5, <1>6 DEF IsTheBall
<1> QED
  BY <1>7 DEF ball

\* What lies within some steps lies within more.
LEMMA BallGrows ==
  ASSUME NEW edges, NEW starts, NEW n \in Nat, NEW directed \in BOOLEAN,
         NEW ball, IsTheBall(ball, edges, starts, n, directed)
  PROVE  \A k \in 0..n : \A j \in 0..k : ball[j] \subseteq ball[k]
<1> DEFINE S == {k \in 0..n : \A j \in 0..k : ball[j] \subseteq ball[k]}
<1>1. 0 \in S
  OBVIOUS
<1>2. ASSUME NEW k \in 0..n, k \in S, k < n PROVE k + 1 \in S
  <2>1. k + 1 \in 1..n /\ k + 1 \in 0..n /\ (k + 1) - 1 = k
    BY <1>2
  <2>2. ball[k] \subseteq ball[k + 1]
    BY <2>1 DEF IsTheBall
  <2>3. \A j \in 0..(k + 1) : j \in 0..k \/ j = k + 1
    OBVIOUS
  <2> QED
    BY <1>2, <2>1, <2>2, <2>3
<1> HIDE DEF S
<1>3. 0..n \subseteq S
  BY <1>1, <1>2, StepByStep
<1> QED
  BY <1>3 DEF S

\* A path of k relationships leads to what lies within k steps, and each of its
\* relationships leaves something that lies within one less.
Stays(k, t, ball, edges, directed) ==
  /\ t.at \in ball[k] /\ t.used \subseteq edges
  /\ \A e \in t.used : k # 0 /\ \E u \in ball[k - 1] : Leaves(e, u, directed)

\* A path of k relationships stays within k steps of its start.
LEMMA PathsStayInBall ==
  ASSUME NEW edges, NEW start, NEW n \in Nat, NEW directed \in BOOLEAN,
         NEW paths, AreThePaths(paths, edges, start, n, directed),
         NEW ball, IsTheBall(ball, edges, {start}, n, directed)
  PROVE  \A k \in 0..n : \A t \in paths[k] : Stays(k, t, ball, edges, directed)
<1> DEFINE S == {k \in 0..n : \A t \in paths[k] : Stays(k, t, ball, edges, directed)}
<1>1. 0 \in S
  BY DEF AreThePaths, IsTheBall, Stays
<1>2. ASSUME NEW k \in 0..n, k \in S, k < n PROVE k + 1 \in S
  <2>1. k + 1 \in 1..n /\ k + 1 \in 0..n /\ (k + 1) - 1 = k /\ k + 1 # 0
    BY <1>2
  <2> SUFFICES ASSUME NEW p \in paths[k + 1] PROVE Stays(k + 1, p, ball, edges, directed)
    BY <2>1
  <2>2. PICK t \in paths[k], e \in edges :
          /\ e \notin t.used /\ Leaves(e, t.at, directed)
          /\ p = [at |-> Onward(e, t.at), used |-> t.used \cup {e}]
    <3>1. \E t \in paths[(k + 1) - 1], e \in edges :
            /\ e \notin t.used /\ Leaves(e, t.at, directed)
            /\ p = [at |-> Onward(e, t.at), used |-> t.used \cup {e}]
      BY <2>1 DEF AreThePaths
    <3> QED
      BY <2>1, <3>1
  <2>3. Stays(k, t, ball, edges, directed)
    BY <1>2
  <2>4. p.at \in {e.src, e.dst} /\ p.used = t.used \cup {e}
    BY <2>2 DEF Onward
  <2>5. p.at \in ball[k + 1]
    BY <2>1, <2>2, <2>3, <2>4 DEF IsTheBall, Stays
  <2>6. ASSUME NEW x \in t.used PROVE \E u \in ball[k] : Leaves(x, u, directed)
    <3>1. k # 0 /\ k - 1 \in 0..k
      BY <2>3, <2>6 DEF Stays
    <3>2. ball[k - 1] \subseteq ball[k]
      BY <3>1, BallGrows
    <3> QED
      BY <2>3, <3>2 DEF Stays
  <2> QED
    BY <2>1, <2>2, <2>3, <2>4, <2>5, <2>6 DEF Stays
<1> HIDE DEF S
<1>3. 0..n \subseteq S
  BY <1>1, <1>2, StepByStep
<1> QED
  BY <1>3 DEF S

\* To whatever lies within k steps leads a path of at most k relationships.
Led(k, v, paths) == \E j \in 0..k : \E t \in paths[j] : t.at = v

\* Nothing within reach is out of the paths' reach: a walk that uses a
\* relationship again can be cut short.
LEMMA PathsFillBall ==
  ASSUME NEW edges, NEW start, NEW n \in Nat, NEW directed \in BOOLEAN,
         NEW paths, AreThePaths(paths, edges, start, n, directed),
         NEW ball, IsTheBall(ball, edges, {start}, n, directed)
  PROVE  \A k \in 0..n : \A v \in ball[k] : Led(k, v, paths)
<1> DEFINE S == {k \in 0..n : \A v \in ball[k] : Led(k, v, paths)}
<1>1. 0 \in S
  <2>1. 0 \in 0..0 /\ 0 \in 0..n
    OBVIOUS
  <2>2. ball[0] = {start} /\ \E t \in paths[0] : t.at = start
    BY DEF AreThePaths, IsTheBall
  <2>3. Led(0, start, paths)
    BY <2>1, <2>2 DEF Led
  <2> QED
    BY <2>1, <2>2, <2>3
<1>2. ASSUME NEW k \in 0..n, k \in S, k < n PROVE k + 1 \in S
  <2>1. k + 1 \in 1..n /\ k + 1 \in 0..n /\ (k + 1) - 1 = k
    BY <1>2
  <2> SUFFICES ASSUME NEW v \in ball[k + 1] PROVE Led(k + 1, v, paths)
    BY <2>1
  <2>2. CASE v \in ball[k]
    <3>1. Led(k, v, paths)
      BY <1>2, <2>2
    <3>2. 0..k \subseteq 0..(k + 1)
      OBVIOUS
    <3> QED
      BY <3>1, <3>2 DEF Led
  <2>3. CASE v \notin ball[k]
    <3>1. PICK u \in ball[k], e \in edges : Leaves(e, u, directed) /\ v \in {e.src, e.dst}
      <4>1. \E u \in ball[(k + 1) - 1], e \in edges :
              Leaves(e, u, directed) /\ v \in {e.src, e.dst}
        BY <2>1, <2>3 DEF IsTheBall
      <4> QED
        BY <2>1, <4>1
    <3>2. PICK j \in 0..k : \E t \in paths[j] : t.at = u
      BY <1>2, <3>1 DEF Led
    <3>3. PICK t \in paths[j] : t.at = u
      BY <3>2
    <3>4. v = Onward(e, u)
      BY <2>3, <3>1 DEF Leaves, Onward
    <3>5. e \notin t.used
      <4> SUFFICES ASSUME e \in t.used PROVE FALSE
        OBVIOUS
      <4>1. Stays(j, t, ball, edges, directed)
        <5>1. j \in 0..n
          OBVIOUS
        <5> QED
          BY <5>1, PathsStayInBall
      <4>2. j # 0 /\ \E x \in ball[j - 1] : Leaves(e, x, directed)
        BY <4>1 DEF Stays
      <4>3. j \in 1..n /\ j \in 0..k
        BY <4>2
      <4>4. v \in ball[j]
        BY <3>1, <4>2, <4>3 DEF IsTheBall
      <4>5. ball[j] \subseteq ball[k]
        BY <4>3, BallGrows
      <4> QED
        BY <2>3, <4>4, <4>5
    <3>6. j + 1 \in 1..n /\ j + 1 \in 0..(k + 1) /\ (j + 1) - 1 = j
      BY <1>2
    <3> DEFINE p == [at |-> v, used |-> t.used \cup {e}]
    <3>7. \E x \in paths[(j + 1) - 1], y \in edges :
            /\ y \notin x.used /\ Leaves(y, x.at, directed)
            /\ p = [at |-> Onward(y, x.at), used |-> x.used \cup {y}]
      BY <3>1, <3>3, <3>4, <3>5, <3>6
    <3>8. p \in paths[j + 1] /\ p.at = v
      BY <3>6, <3>7 DEF AreThePaths
    <3> QED
      BY <3>6, <3>8 DEF Led
  <2> QED
    BY <2>2, <2>3
<1> HIDE DEF S
<1>3. 0..n \subseteq S
  BY <1>1, <1>2, StepByStep
<1> QED
  BY <1>3 DEF S

\* The relationships on the paths of at most n steps, none of which is used
\* twice, are all those that leave what lies within n - 1: the query finds by
\* enumerating paths what a search in breadth would find.
LEMMA OnPathsIsReach ==
  ASSUME NEW edges, NEW start, NEW n \in Nat \ {0}, NEW directed \in BOOLEAN
  PROVE  OnPaths(edges, start, n, directed) = Reach(edges, {start}, n, directed)
<1> DEFINE paths == PathsOf(edges, start, n, directed)
           ball == BallOf(edges, {start}, n, directed)
           on == UNION {t.used : t \in UNION {paths[k] : k \in 1..n}}
           left == {e \in edges : e.src \in ball[n - 1] \/ (~directed /\ e.dst \in ball[n - 1])}
<1>1. OnPaths(edges, start, n, directed) = on /\ Reach(edges, {start}, n, directed) = left
  <2>1. OnPaths(edges, start, n, directed) = on
    BY DEF OnPaths, PathsOf
  <2>2. Reach(edges, {start}, n, directed) = left
    BY DEF Reach, BallOf
  <2> QED
    BY <2>1, <2>2
<1>2. /\ AreThePaths(paths, edges, start, n, directed)
      /\ IsTheBall(ball, edges, {start}, n, directed)
  BY PathsUnfold, BallUnfolds
<1> HIDE DEF paths, ball
<1>3. n - 1 \in 0..n /\ n \in 0..n
  OBVIOUS
<1>4. ASSUME NEW e \in on PROVE e \in left
  <2>1. PICK k \in 1..n : \E t \in paths[k] : e \in t.used
    BY <1>4
  <2>2. PICK t \in paths[k] : e \in t.used
    BY <2>1
  <2>3. k \in 0..n /\ k - 1 \in 0..(n - 1)
    OBVIOUS
  <2>4. Stays(k, t, ball, edges, directed)
    BY <1>2, <2>3, PathsStayInBall
  <2>5. e \in edges /\ \E u \in ball[k - 1] : Leaves(e, u, directed)
    BY <2>2, <2>4 DEF Stays
  <2>6. ball[k - 1] \subseteq ball[n - 1]
    <3>1. \A m \in 0..n : \A j \in 0..m : ball[j] \subseteq ball[m]
      BY <1>2, BallGrows
    <3> QED
      BY <1>3, <2>3, <3>1
  <2> QED
    BY <2>5, <2>6 DEF Leaves
<1>5. ASSUME NEW e \in left PROVE e \in on
  <2>1. PICK u \in ball[n - 1] : Leaves(e, u, directed)
    BY <1>5 DEF Leaves
  <2>2. Led(n - 1, u, paths)
    BY <1>2, <1>3, PathsFillBall
  <2>3. PICK j \in 0..(n - 1) : \E t \in paths[j] : t.at = u
    BY <2>2 DEF Led
  <2>4. PICK t \in paths[j] : t.at = u
    BY <2>3
  <2>5. CASE e \in t.used
    <3>1. j \in 0..n
      OBVIOUS
    <3>2. Stays(j, t, ball, edges, directed)
      BY <1>2, <3>1, PathsStayInBall
    <3>3. j \in 1..n
      BY <2>5, <3>2 DEF Stays
    <3> QED
      BY <2>5, <3>3
  <2>6. CASE e \notin t.used
    <3>1. j + 1 \in 1..n /\ (j + 1) - 1 = j
      OBVIOUS
    <3> DEFINE p == [at |-> Onward(e, u), used |-> t.used \cup {e}]
    <3>2. \E x \in paths[(j + 1) - 1], y \in edges :
            /\ y \notin x.used /\ Leaves(y, x.at, directed)
            /\ p = [at |-> Onward(y, x.at), used |-> x.used \cup {y}]
      BY <1>5, <2>1, <2>4, <2>6, <3>1
    <3>3. p \in paths[j + 1] /\ e \in p.used
      BY <1>2, <3>1, <3>2 DEF AreThePaths
    <3> QED
      BY <3>1, <3>3
  <2> QED
    BY <2>5, <2>6
<1> QED
  BY <1>1, <1>4, <1>5

\* The relationships reached from one place or another.
FromEach(edges, starts, n, directed) ==
  {e \in edges : \E s \in starts : e \in Reach(edges, {s}, n, directed)}

\* What is reached from some places is what is reached from one or another.
LEMMA ReachFromEach ==
  ASSUME NEW edges, NEW starts, NEW n \in Nat \ {0}, NEW directed \in BOOLEAN
  PROVE  Reach(edges, starts, n, directed) = FromEach(edges, starts, n, directed)
<1> DEFINE ball == BallOf(edges, starts, n, directed)
           from(s) == BallOf(edges, {s}, n, directed)
           S == {k \in 0..n : ball[k] = UNION {from(s)[k] : s \in starts}}
<1>1. /\ IsTheBall(ball, edges, starts, n, directed)
      /\ \A s : IsTheBall(from(s), edges, {s}, n, directed)
  BY BallUnfolds
<1>2. Reach(edges, starts, n, directed)
        = {e \in edges : e.src \in ball[n - 1] \/ (~directed /\ e.dst \in ball[n - 1])}
  BY DEF Reach, BallOf
<1>3. ASSUME NEW s
      PROVE  Reach(edges, {s}, n, directed)
        = {e \in edges : e.src \in from(s)[n - 1] \/ (~directed /\ e.dst \in from(s)[n - 1])}
  BY DEF Reach, BallOf
<1> HIDE DEF ball, from
<1>4. 0 \in S
  BY <1>1 DEF IsTheBall
<1>5. ASSUME NEW k \in 0..n, k \in S, k < n PROVE k + 1 \in S
  <2>1. k + 1 \in 1..n /\ k + 1 \in 0..n /\ (k + 1) - 1 = k
    BY <1>5
  <2>2. \A v : v \in ball[k + 1] <=>
          \/ v \in ball[k]
          \/ \E u \in ball[k], e \in edges : Leaves(e, u, directed) /\ v \in {e.src, e.dst}
    BY <1>1, <2>1 DEF IsTheBall
  <2>3. \A s \in starts : \A v : v \in from(s)[k + 1] <=>
          \/ v \in from(s)[k]
          \/ \E u \in from(s)[k], e \in edges : Leaves(e, u, directed) /\ v \in {e.src, e.dst}
    BY <1>1, <2>1 DEF IsTheBall
  <2>4. ball[k + 1] = UNION {from(s)[k + 1] : s \in starts}
    BY <1>5, <2>2, <2>3
  <2> QED
    BY <2>1, <2>4
<1> HIDE DEF S
<1>6. 0..n \subseteq S
  BY <1>4, <1>5, StepByStep
<1>7. ball[n - 1] = UNION {from(s)[n - 1] : s \in starts}
  <2>1. n - 1 \in 0..n
    OBVIOUS
  <2> QED
    BY <1>6, <2>1 DEF S
<1>8. ASSUME NEW e
      PROVE  e \in Reach(edges, starts, n, directed)
               <=> \E s \in starts : e \in Reach(edges, {s}, n, directed)
  <2>1. \A v : v \in ball[n - 1] <=> \E s \in starts : v \in from(s)[n - 1]
    BY <1>7
  <2>2. e \in Reach(edges, starts, n, directed)
          <=> e \in edges /\ (e.src \in ball[n - 1] \/ (~directed /\ e.dst \in ball[n - 1]))
    BY <1>2
  <2>3. \A s \in starts : e \in Reach(edges, {s}, n, directed)
          <=> e \in edges /\ (e.src \in from(s)[n - 1] \/ (~directed /\ e.dst \in from(s)[n - 1]))
    BY <1>3
  <2> QED
    BY <2>1, <2>2, <2>3
<1>9. \A e : e \in Reach(edges, starts, n, directed) => e \in edges
  BY <1>2
<1> QED
  BY <1>8, <1>9 DEF FromEach

\* The walk takes every relationship its start points along.
LEMMA FirstStepIsReached ==
  ASSUME NEW edges, NEW starts, NEW n \in Nat \ {0}, NEW directed \in BOOLEAN,
         NEW e \in edges, e.src \in starts
  PROVE  e \in Reach(edges, starts, n, directed)
<1> PICK ball : ball = BallOf(edges, starts, n, directed)
  OBVIOUS
<1>1. IsTheBall(ball, edges, starts, n, directed)
  BY BallUnfolds
<1>2. \A k \in 0..n : \A j \in 0..k : ball[j] \subseteq ball[k]
  BY <1>1, BallGrows
<1>3. n - 1 \in 0..n /\ 0 \in 0..(n - 1)
  OBVIOUS
<1>4. ball[0] \subseteq ball[n - 1] /\ ball[0] = starts
  BY <1>1, <1>2, <1>3 DEF IsTheBall
<1>5. Reach(edges, starts, n, directed)
        = {x \in edges : x.src \in ball[n - 1] \/ (~directed /\ x.dst \in ball[n - 1])}
  BY DEF Reach, BallOf
<1> QED
  BY <1>4, <1>5

-----------------------------------------------------------------------------
(* Where what is in the database comes from.                               *)

\* Relationships between strings.
Named == [src : DOMAIN Rank, type : DOMAIN Rank, dst : DOMAIN Rank]

\* One of the statements an export of the scan runs.
Stated(s, scan, art) ==
  \E embedded \in BOOLEAN : s \in Makes(scan, art, embedded) \cup Ties(scan, art)

\* The database holds nothing but what is in the artifacts of one scan.
OnlyFrom(g, scan, art) ==
  /\ g.edges \subseteq Edges(art)
  /\ \A arn \in DOMAIN g.assets : arn \in ArnsOf(art) /\ g.assets[arn].scan = scan
  /\ \A id \in DOMAIN g.findings :
       /\ g.findings[id].scan = scan
       /\ \E f \in art.findings : f.id = id /\ f.arn = g.findings[id].arn
  /\ g.affects \subseteq {<<f.id, f.arn>> : f \in Hanging(art)}

\* The database before the first export.
NothingIn(g) ==
  g.edges = {} /\ DOMAIN g.assets = {} /\ DOMAIN g.findings = {} /\ g.affects = {}

\* An exporter runs the statements of its scan, relationships are finitely many
\* and between strings, and as long as one scan is written the database is about
\* that one.
SourceInv ==
  /\ \A e \in Exporters : export[e].phase = "write" =>
       \A s \in Range(export[e].todo) : Stated(s, export[e].scan, disk[export[e].scan])
  /\ db.edges \subseteq Named /\ IsFiniteSet(db.edges)
  /\ begun = {} => NothingIn(db)
  /\ \A scan \in DOMAIN disk : begun \subseteq {scan} => OnlyFrom(db, scan, disk[scan])

\* What one statement changes of what the answers read.
Changes(g, h, s) ==
  /\ \/ h.assets = g.assets
     \/ s.op = "asset" /\ h.assets = Merge(g.assets, s.asset.arn,
          [type |-> s.asset.type, account |-> s.asset.account, scan |-> s.scan])
  /\ \/ h.findings = g.findings
     \/ s.op = "finding" /\ h.findings = Merge(g.findings, s.finding.id,
          [arn |-> s.finding.arn, account |-> s.finding.account,
           severity |-> s.finding.severity, module |-> s.finding.module,
           scan |-> s.scan, embedding |-> Embedding(g.findings, s.finding.id, s)])
  /\ \/ h.edges = g.edges
     \/ /\ s.op = "own" /\ s.arn \in DOMAIN g.assets
        /\ h.edges = g.edges \cup {[src |-> s.arn, type |-> "OWNED_BY", dst |-> s.account]}
     \/ /\ s.op = "rel" /\ {s.edge.src, s.edge.dst} \subseteq DOMAIN g.assets
        /\ h.edges = g.edges \cup {s.edge}
  /\ \/ h.affects = g.affects
     \/ s.op = "affects" /\ h.affects = g.affects \cup {<<s.id, s.arn>>}

\* A statement changes what it is about and nothing else.
LEMMA StatementChanges ==
  ASSUME NEW g, DbSound(g), NEW s, s.op \in MakingOps \cup TyingOps, NEW h, h = Apply(g, s)
  PROVE  Changes(g, h, s)
<1> USE DEF DbSound, Changes
<1>1. CASE s.op = "account"
  BY <1>1 DEF Apply
<1>2. CASE s.op = "snapshot"
  BY <1>2 DEF Apply
<1>3. CASE s.op = "asset"
  <2>1. h = [g EXCEPT !.assets = Merge(g.assets, s.asset.arn,
              [type |-> s.asset.type, account |-> s.asset.account, scan |-> s.scan])]
    BY <1>3 DEF Apply
  <2> QED
    BY <1>3, <2>1
<1>4. CASE s.op = "finding"
  <2>1. h = [g EXCEPT !.findings = Merge(g.findings, s.finding.id,
              [arn |-> s.finding.arn, account |-> s.finding.account,
               severity |-> s.finding.severity, module |-> s.finding.module,
               scan |-> s.scan, embedding |-> Embedding(g.findings, s.finding.id, s)])]
    BY <1>4 DEF Apply
  <2> QED
    BY <1>4, <2>1
<1>5. CASE s.op = "own"
  BY <1>5 DEF Apply
<1>6. CASE s.op = "rel"
  BY <1>6 DEF Apply
<1>7. CASE s.op = "captured"
  BY <1>7 DEF Apply
<1>8. CASE s.op = "affects"
  BY <1>8 DEF Apply
<1> QED
  BY <1>1, <1>2, <1>3, <1>4, <1>5, <1>6, <1>7, <1>8 DEF MakingOps, TyingOps

\* What the statements of a scan are about is in its artifacts.
LEMMA StatedIsInScan ==
  ASSUME NEW scan, NEW art, NEW s, Stated(s, scan, art)
  PROVE  /\ s.op \in MakingOps \cup TyingOps
         /\ s.op = "asset" => s.asset \in art.assets /\ s.scan = scan
         /\ s.op = "finding" => s.finding \in art.findings /\ s.scan = scan
         /\ s.op = "own" =>
              \/ \E n \in Owned(art) : s.arn = n.arn /\ s.account = n.account
              \/ \E r \in Related(art) : /\ r.type = "OWNED_BY" /\ r.dst \in DOMAIN RootAccount
                                         /\ s.arn = r.src /\ s.account = RootAccount[r.dst]
         /\ s.op = "rel" => s.edge \in art.rels /\ s.edge.type \in CypherRelTypes
         /\ s.op = "affects" => \E f \in Hanging(art) : s.id = f.id /\ s.arn = f.arn
<1>1. PICK embedded \in BOOLEAN : s \in Makes(scan, art, embedded) \cup Ties(scan, art)
  BY DEF Stated
<1>2. s.op \in MakingOps \cup TyingOps
  BY <1>1, MakesAreMaking, TiesAreTying
<1>3. CASE s \in Makes(scan, art, embedded)
  BY <1>2, <1>3 DEF Makes, MakesAccounts, MakesSnapshot, MakesAssets, MakesFindings
<1>4. CASE s \in TiesOwners(art) \cup TiesCaptured(scan, art) \cup TiesAffects(art)
  BY <1>2, <1>4 DEF TiesOwners, TiesCaptured, TiesAffects
<1>5. CASE s \in TiesRels(art)
  <2>1. PICK r \in Related(art) : s = RelStatement(r)
    BY <1>5 DEF TiesRels
  <2>2. CASE r.type = "OWNED_BY"
    <3>1. r.dst \in DOMAIN RootAccount
      BY <2>2 DEF Related, Projected, CypherRelTypes
    <3> QED
      BY <1>2, <2>1, <2>2, <3>1 DEF RelStatement
  <2>3. CASE r.type # "OWNED_BY"
    <3>1. r \in art.rels /\ r.type \in CypherRelTypes
      BY <2>3 DEF Related, Projected
    <3> QED
      BY <1>2, <2>1, <2>3, <3>1 DEF RelStatement
  <2> QED
    BY <2>2, <2>3
<1> QED
  BY <1>1, <1>3, <1>4, <1>5 DEF Ties

\* A statement of the scan adds what the scan holds.
LEMMA StatementStaysInScan ==
  ASSUME NEW g, NEW scan, NEW art, DbSound(g), OnlyFrom(g, scan, art),
         NEW s, Stated(s, scan, art), NEW h, h = Apply(g, s)
  PROVE  OnlyFrom(h, scan, art)
<1>1. s.op \in MakingOps \cup TyingOps
  BY StatedIsInScan
<1>2. Changes(g, h, s)
  BY <1>1, StatementChanges
<1>3. ASSUME NEW e \in h.edges PROVE e \in Edges(art)
  <2>1. CASE e \in g.edges
    BY <2>1 DEF OnlyFrom
  <2>2. CASE /\ s.op = "own" /\ s.arn \in DOMAIN g.assets
             /\ e = [src |-> s.arn, type |-> "OWNED_BY", dst |-> s.account]
    <3>1. s.arn \in ArnsOf(art)
      BY <2>2 DEF OnlyFrom
    <3>2. CASE \E n \in Owned(art) : s.arn = n.arn /\ s.account = n.account
      BY <2>2, <3>2 DEF Owned, Edges
    <3>3. ASSUME NEW r \in Related(art), r.type = "OWNED_BY", r.dst \in DOMAIN RootAccount,
                 s.arn = r.src, s.account = RootAccount[r.dst]
          PROVE  e \in Edges(art)
      BY <2>2, <3>1, <3>3 DEF Related, Edges, ArnsOf
    <3> QED
      BY <2>2, <3>2, <3>3, StatedIsInScan
  <2>3. CASE s.op = "rel" /\ {s.edge.src, s.edge.dst} \subseteq DOMAIN g.assets /\ e = s.edge
    <3>1. {s.edge.src, s.edge.dst} \subseteq ArnsOf(art)
      BY <2>3 DEF OnlyFrom
    <3>2. s.edge \in art.rels /\ s.edge.type \in CypherRelTypes
      BY <2>3, StatedIsInScan
    <3> QED
      BY <2>3, <3>1, <3>2 DEF Edges, ArnsOf
  <2> QED
    BY <1>2, <2>1, <2>2, <2>3 DEF Changes
<1>4. ASSUME NEW arn \in DOMAIN h.assets PROVE arn \in ArnsOf(art) /\ h.assets[arn].scan = scan
  <2>1. CASE h.assets = g.assets
    BY <2>1 DEF OnlyFrom
  <2>2. CASE s.op = "asset" /\ h.assets = Merge(g.assets, s.asset.arn,
               [type |-> s.asset.type, account |-> s.asset.account, scan |-> s.scan])
    <3>1. s.asset \in art.assets /\ s.scan = scan
      BY <2>2, StatedIsInScan
    <3> DEFINE v == [type |-> s.asset.type, account |-> s.asset.account, scan |-> s.scan]
    <3>2. v.scan = scan
      BY <3>1
    <3>3. h.assets = Merge(g.assets, s.asset.arn, v)
      BY <2>2
    <3> HIDE DEF v
    <3>4. /\ DOMAIN h.assets = DOMAIN g.assets \cup {s.asset.arn}
          /\ h.assets[s.asset.arn] = v
          /\ \A x \in DOMAIN g.assets : x # s.asset.arn => h.assets[x] = g.assets[x]
      BY <3>3 DEF Merge, Over
    <3> QED
      BY <3>1, <3>2, <3>4 DEF OnlyFrom, ArnsOf
  <2> QED
    BY <1>2, <2>1, <2>2 DEF Changes
<1>5. ASSUME NEW id \in DOMAIN h.findings
      PROVE  /\ h.findings[id].scan = scan
             /\ \E f \in art.findings : f.id = id /\ f.arn = h.findings[id].arn
  <2>1. CASE h.findings = g.findings
    BY <2>1 DEF OnlyFrom
  <2> DEFINE v == [arn |-> s.finding.arn, account |-> s.finding.account,
                    severity |-> s.finding.severity, module |-> s.finding.module,
                    scan |-> s.scan, embedding |-> Embedding(g.findings, s.finding.id, s)]
  <2>2. CASE s.op = "finding" /\ h.findings = Merge(g.findings, s.finding.id, v)
    <3>1. s.finding \in art.findings /\ s.scan = scan
      BY <2>2, StatedIsInScan
    <3>2. v.scan = scan /\ v.arn = s.finding.arn
      BY <3>1
    <3> HIDE DEF v
    <3>3. h.findings = Merge(g.findings, s.finding.id, v)
      BY <2>2
    <3>4. /\ DOMAIN h.findings = DOMAIN g.findings \cup {s.finding.id}
          /\ h.findings[s.finding.id] = v
          /\ \A x \in DOMAIN g.findings : x # s.finding.id => h.findings[x] = g.findings[x]
      BY <3>3 DEF Merge, Over
    <3> QED
      BY <3>1, <3>2, <3>4 DEF OnlyFrom
  <2> QED
    BY <1>2, <2>1, <2>2 DEF Changes
<1>6. h.affects \subseteq {<<f.id, f.arn>> : f \in Hanging(art)}
  <2>1. s.op = "affects" => \E f \in Hanging(art) : s.id = f.id /\ s.arn = f.arn
    BY StatedIsInScan
  <2> QED
    BY <1>2, <2>1 DEF Changes, OnlyFrom
<1> QED
  BY <1>3, <1>4, <1>5, <1>6 DEF OnlyFrom

\* The edge a statement adds is between strings, and one more.
LEMMA StatementIsNamed ==
  ASSUME NEW g, NEW scan, NEW art, DbSound(g), Sortable(art),
         g.edges \subseteq Named, IsFiniteSet(g.edges),
         "OWNED_BY" \in DOMAIN Rank, Range(RootAccount) \subseteq DOMAIN Rank,
         NEW s, Stated(s, scan, art), NEW h, h = Apply(g, s)
  PROVE  h.edges \subseteq Named /\ IsFiniteSet(h.edges)
<1>1. s.op \in MakingOps \cup TyingOps
  BY StatedIsInScan
<1>2. Changes(g, h, s)
  BY <1>1, StatementChanges
<1>3. ASSUME s.op = "own"
      PROVE  [src |-> s.arn, type |-> "OWNED_BY", dst |-> s.account] \in Named
  <2>1. CASE \E n \in Owned(art) : s.arn = n.arn /\ s.account = n.account
    <3>1. PICK n \in art.assets : n.account # None /\ s.arn = n.arn /\ s.account = n.account
      BY <2>1 DEF Owned
    <3>2. n.account \in AccountIds(art)
      BY <3>1 DEF AccountIds
    <3> QED
      BY <3>1, <3>2 DEF Sortable, Named
  <2>2. ASSUME NEW r \in Related(art), r.dst \in DOMAIN RootAccount,
               s.arn = r.src, s.account = RootAccount[r.dst]
        PROVE  [src |-> s.arn, type |-> "OWNED_BY", dst |-> s.account] \in Named
    <3>1. r \in [src : DOMAIN Rank, type : DOMAIN Rank, dst : DOMAIN Rank]
      BY DEF Related, Sortable
    <3>2. s.account \in DOMAIN Rank
      BY <2>2 DEF Range
    <3> QED
      BY <2>2, <3>1, <3>2 DEF Named
  <2> QED
    BY <1>3, <2>1, <2>2, StatedIsInScan
<1>4. s.op = "rel" => s.edge \in Named
  <2>1. s.op = "rel" => s.edge \in art.rels
    BY StatedIsInScan
  <2> QED
    BY <2>1 DEF Sortable, Named
<1>5. h.edges = g.edges \/ \E e \in Named : h.edges = g.edges \cup {e}
  BY <1>2, <1>3, <1>4 DEF Changes
<1>6. ASSUME NEW e \in Named, h.edges = g.edges \cup {e}
      PROVE  h.edges \subseteq Named /\ IsFiniteSet(h.edges)
  BY <1>6, FS_AddElement
<1> QED
  BY <1>5, <1>6

\* No exporter has other statements to run than it had.
LEMMA SourceLeft ==
  ASSUME SourceInv, UNCHANGED <<disk, db, begun>>,
         \A y \in Exporters : export'[y].phase = "write" =>
           /\ export[y].phase = "write" /\ export'[y].scan = export[y].scan
           /\ export'[y].todo = export[y].todo
  PROVE  SourceInv'
<1>1. ASSUME NEW y \in Exporters, export'[y].phase = "write"
      PROVE  \A s \in Range(export'[y].todo) : Stated(s, export'[y].scan, disk'[export'[y].scan])
  BY <1>1 DEF SourceInv
<1>2. /\ db'.edges \subseteq Named /\ IsFiniteSet(db'.edges)
      /\ begun' = {} => NothingIn(db')
      /\ \A scan \in DOMAIN disk' : begun' \subseteq {scan} => OnlyFrom(db', scan, disk'[scan])
  BY DEF SourceInv
<1> QED
  BY <1>1, <1>2 DEF SourceInv

\* An export begins with statements of its scan.
LEMMA BeginWriteKeepsSource ==
  ASSUME ExportInv, SourceInv, NEW e \in Exporters, NEW scan \in DOMAIN disk, BeginWrite(e, scan)
  PROVE  SourceInv'
<1>1. PICK embedded \in BOOLEAN :
        export' = [export EXCEPT ![e] =
          [Idle EXCEPT !.phase = "write", !.scan = scan,
                       !.todo = CompileWriteScan(scan, disk[scan], embedded)]]
  BY DEF BeginWrite
<1> PICK todo : todo = CompileWriteScan(scan, disk[scan], embedded)
  OBVIOUS
<1> PICK x : x = [Idle EXCEPT !.phase = "write", !.scan = scan, !.todo = todo]
  OBVIOUS
<1>2. export'[e] = x /\ \A y \in Exporters \ {e} : export'[y] = export[y]
  BY <1>1 DEF ExportInv
<1>3. x.scan = scan /\ x.todo = todo
  BY DEF Idle
<1>4. begun' = begun \cup {scan} /\ UNCHANGED <<disk, db>>
  BY DEF BeginWrite
<1>5. Range(todo) = Makes(scan, disk[scan], embedded) \cup Ties(scan, disk[scan])
  BY CompiledInStages DEF Lists, ExportInv
<1>6. ASSUME NEW y \in Exporters, export'[y].phase = "write"
      PROVE  \A s \in Range(export'[y].todo) : Stated(s, export'[y].scan, disk'[export'[y].scan])
  <2>1. CASE y = e
    BY <1>2, <1>3, <1>4, <1>5, <2>1 DEF Stated
  <2>2. CASE y # e
    BY <1>2, <1>4, <1>6, <2>2 DEF SourceInv
  <2> QED
    BY <2>1, <2>2
<1>7. /\ db'.edges \subseteq Named /\ IsFiniteSet(db'.edges) /\ begun' # {}
      /\ \A s \in DOMAIN disk' : begun' \subseteq {s} => OnlyFrom(db', s, disk'[s])
  BY <1>4 DEF SourceInv
<1> QED
  BY <1>6, <1>7 DEF SourceInv

\* A statement of a scan says what is in the scan.
LEMMA RunStatementKeepsSource ==
  ASSUME ExportInv, SourceInv, NEW e \in Exporters, RunStatement(e),
         "OWNED_BY" \in DOMAIN Rank, Range(RootAccount) \subseteq DOMAIN Rank
  PROVE  SourceInv'
<1> PICK old : old = export[e]
  OBVIOUS
<1> PICK s : s = Head(old.todo)
  OBVIOUS
<1> PICK art : art = disk[old.scan]
  OBVIOUS
<1>1. ExporterSound(old, db, disk, begun)
  BY DEF ExportInv
<1>2. old.phase = "write" /\ db' = Apply(db, s) /\ UNCHANGED <<disk, begun>>
  BY DEF RunStatement
<1>3. Writing(old.todo, old.scan, db, art) /\ old.scan \in begun
  BY <1>1, <1>2 DEF ExporterSound
<1>4. s \in Range(old.todo) /\ Range(Tail(old.todo)) \subseteq Range(old.todo)
  BY <1>3, RestOfStages DEF Writing
<1>5. Stated(s, old.scan, art)
  BY <1>2, <1>4 DEF SourceInv
<1>6. /\ \A y \in Exporters \ {e} : export'[y] = export[y]
      /\ export'[e].scan = old.scan /\ export'[e].todo = Tail(old.todo)
  BY <1>1 DEF RunStatement, ExportInv, ExporterSound
<1>7. ASSUME NEW y \in Exporters, export'[y].phase = "write"
      PROVE  \A t \in Range(export'[y].todo) : Stated(t, export'[y].scan, disk'[export'[y].scan])
  <2>1. CASE y = e
    BY <1>2, <1>4, <1>6, <2>1 DEF SourceInv
  <2>2. CASE y # e
    BY <1>2, <1>6, <1>7, <2>2 DEF SourceInv
  <2> QED
    BY <2>1, <2>2
<1>8. db'.edges \subseteq Named /\ IsFiniteSet(db'.edges)
  <2>1. DbSound(db) /\ Sortable(art) /\ db.edges \subseteq Named /\ IsFiniteSet(db.edges)
    BY <1>3 DEF ExportInv, SourceInv
  <2> QED
    BY <1>2, <1>5, <2>1, StatementIsNamed
<1>9. ASSUME NEW scan \in DOMAIN disk', begun' \subseteq {scan}
      PROVE  OnlyFrom(db', scan, disk'[scan])
  <2>1. scan = old.scan /\ art = disk[scan] /\ DbSound(db)
    BY <1>2, <1>3, <1>9 DEF ExportInv
  <2>2. OnlyFrom(db, scan, art)
    BY <1>2, <1>9, <2>1 DEF SourceInv
  <2>3. OnlyFrom(db', scan, art)
    BY <1>2, <1>5, <2>1, <2>2, StatementStaysInScan
  <2> QED
    BY <1>2, <2>1, <2>3
<1> QED
  BY <1>2, <1>3, <1>7, <1>8, <1>9 DEF SourceInv

\* The steps of an exporter keep the database about what is written.
LEMMA ExportStepKeepsSource ==
  ASSUME ExportInv, SourceInv, NEW e \in Exporters, ExportStep(e),
         "OWNED_BY" \in DOMAIN Rank, Range(RootAccount) \subseteq DOMAIN Rank
  PROVE  SourceInv'
<1>1. CASE \E scan \in DOMAIN disk : BeginWrite(e, scan)
  BY <1>1, BeginWriteKeepsSource
<1>2. CASE RunStatement(e)
  BY <1>2, RunStatementKeepsSource
<1>3. ASSUME NEW x, export' = [export EXCEPT ![e] = x], UNCHANGED <<disk, db, begun>>,
             x.phase # "write"
      PROVE  SourceInv'
  BY <1>3, SourceLeft DEF ExportInv
<1>4. CASE WriteFails(e) \/ ExporterDies(e)
  <2>1. PICK result : End(e, result)
    BY <1>4 DEF WriteFails, ExporterDies
  <2> PICK x : x = [Idle EXCEPT !.result = result]
    OBVIOUS
  <2>2. export' = [export EXCEPT ![e] = x] /\ x.phase # "write"
    BY <2>1 DEF End, Idle
  <2>3. UNCHANGED <<disk, db, begun>>
    BY <1>4 DEF WriteFails, ExporterDies
  <2> QED
    BY <1>3, <2>2, <2>3
<1>5. CASE DropStale(e) \/ Project(e) \/ Analyse(e) \/ Release(e)
  <2>1. export[e] = [phase |-> export[e].phase, scan |-> export[e].scan, todo |-> export[e].todo,
                     late |-> export[e].late, result |-> export[e].result]
    BY DEF ExportInv, ExporterSound
  <2>2. UNCHANGED <<disk, db, begun>> /\ \A y \in Exporters \ {e} : export'[y] = export[y]
    BY <1>5 DEF DropStale, Project, Analyse, Release, To, End, ExportInv
  <2>3. export'[e].phase # "write"
    <3>1. CASE DropStale(e)
      BY <2>1, <3>1 DEF DropStale, To, End, Idle, ExportInv
    <3>2. CASE Project(e)
      BY <2>1, <3>2 DEF Project, To, End, Idle, ExportInv
    <3>3. CASE Analyse(e)
      BY <2>1, <3>3 DEF Analyse, To, End, Idle, ExportInv
    <3>4. CASE Release(e)
      BY <2>1, <3>4 DEF Release, To, End, Idle, ExportInv
    <3> QED
      BY <1>5, <3>1, <3>2, <3>3, <3>4
  <2> QED
    BY <2>2, <2>3, SourceLeft
<1>6. CASE Deadline(e)
  <2>1. /\ UNCHANGED <<disk, db, begun>> /\ export' = [export EXCEPT ![e].late = TRUE]
    BY <1>6 DEF Deadline
  <2> QED
    BY <2>1, SourceLeft DEF ExportInv, ExporterSound
<1> QED
  BY <1>1, <1>2, <1>4, <1>5, <1>6 DEF ExportStep

\* Nothing is in the database before the first export begins, so that whatever
\* scan comes new to the disk, all that is in the database is from it.
LEMMA NewScanKeepsSource ==
  ASSUME ExportInv, SourceInv, NEW scan, scan \notin DOMAIN disk, NEW art,
         disk' = Merge(disk, scan, art), UNCHANGED <<db, export, begun>>
  PROVE  SourceInv'
<1>1. /\ DOMAIN disk' = DOMAIN disk \cup {scan}
      /\ \A s \in DOMAIN disk : disk'[s] = disk[s]
  BY DEF Merge, Over
<1>2. ASSUME NEW y \in Exporters, export'[y].phase = "write"
      PROVE  \A s \in Range(export'[y].todo) : Stated(s, export'[y].scan, disk'[export'[y].scan])
  <2>1. export[y].phase = "write" /\ export[y].scan \in DOMAIN disk
    BY <1>2 DEF ExportInv, ExporterSound
  <2> QED
    BY <1>1, <2>1 DEF SourceInv
<1>3. ASSUME NEW s \in DOMAIN disk', begun' \subseteq {s}
      PROVE  OnlyFrom(db', s, disk'[s])
  <2>1. CASE s \in DOMAIN disk
    BY <1>1, <1>3, <2>1 DEF SourceInv
  <2>2. CASE s = scan
    <3>1. NothingIn(db)
      BY <1>3, <2>2 DEF SourceInv, ExportInv
    <3> QED
      BY <3>1 DEF NothingIn, OnlyFrom
  <2> QED
    BY <1>1, <2>1, <2>2
<1> QED
  BY <1>2, <1>3 DEF SourceInv

-----------------------------------------------------------------------------
(* The graph of an answer.                                                 *)

\* What a node of an answer may stand for.
Kinds == {"account", "asset", "finding"}

\* Every relationship has both its ends among the nodes, and every node a kind.
GraphSound(g) ==
  /\ g = [nodes |-> g.nodes, edges |-> g.edges]
  /\ EndsOf(g.edges) \subseteq DOMAIN g.nodes
  /\ \A id \in DOMAIN g.nodes : g.nodes[id].kind \in Kinds

\* Of the request being served, and of the answer that waits to be sent.
AnswerInv ==
  /\ reader = NoReader \/ (/\ reader = [phase |-> reader.phase, req |-> reader.req,
                                        settled |-> reader.settled, todo |-> reader.todo,
                                        focus |-> reader.focus, graph |-> reader.graph]
                           /\ GraphSound(reader.graph))
  /\ answer # NoAnswer => GraphSound(answer.graph)

\* The empty graph has both ends of every edge.
LEMMA NoGraphIsSound ==
  GraphSound(NoGraph)
BY DEF GraphSound, NoGraph, EndsOf

\* A node made for an id is an account, an asset or a finding.
LEMMA MinimalNodeHasAKind ==
  ASSUME NEW id
  PROVE  MinimalNode(id).kind \in Kinds
BY DEF MinimalNode, Kinds

\* Adding relationships adds their ends.
LEMMA TriplesAddedSoundly ==
  ASSUME NEW g, GraphSound(g), NEW triples
  PROVE  GraphSound(addTriples(g, triples))
<1> PICK ends : ends = EndsOf(triples)
  OBVIOUS
<1> PICK h : h = addTriples(g, triples)
  OBVIOUS
<1>1. /\ h = [nodes |-> h.nodes, edges |-> h.edges] /\ h.edges = g.edges \cup triples
      /\ DOMAIN h.nodes = DOMAIN g.nodes \cup ends
      /\ \A id \in DOMAIN h.nodes :
           h.nodes[id] = IF id \in DOMAIN g.nodes THEN g.nodes[id] ELSE MinimalNode(id)
  BY DEF addTriples, Over
<1>2. EndsOf(h.edges) = EndsOf(g.edges) \cup ends
  BY <1>1 DEF EndsOf
<1>3. \A id \in DOMAIN h.nodes : h.nodes[id].kind \in Kinds
  BY <1>1, MinimalNodeHasAKind DEF GraphSound
<1> QED
  BY <1>1, <1>2, <1>3 DEF GraphSound

\* Two sound graphs merge into one.
LEMMA GraphsMergeSoundly ==
  ASSUME NEW g, NEW h, GraphSound(g), GraphSound(h)
  PROVE  GraphSound(mergeWorking(g, h))
<1> PICK m : m = mergeWorking(g, h)
  OBVIOUS
<1>1. /\ m = [nodes |-> m.nodes, edges |-> m.edges] /\ m.edges = g.edges \cup h.edges
      /\ DOMAIN m.nodes = DOMAIN g.nodes \cup DOMAIN h.nodes
      /\ \A id \in DOMAIN m.nodes :
           m.nodes[id] = IF id \in DOMAIN g.nodes THEN g.nodes[id] ELSE h.nodes[id]
  BY DEF mergeWorking, Over
<1>2. EndsOf(m.edges) = EndsOf(g.edges) \cup EndsOf(h.edges)
  BY <1>1 DEF EndsOf
<1>3. \A id \in DOMAIN m.nodes : m.nodes[id].kind \in Kinds
  BY <1>1 DEF GraphSound
<1> QED
  BY <1>1, <1>2, <1>3 DEF GraphSound

\* Reading the stored assets adds nodes only.
LEMMA HydratedSoundly ==
  ASSUME NEW w, GraphSound(w), NEW g, NEW scan
  PROVE  GraphSound(hydrateAssets(w, g, scan))
<1> PICK stored : stored = [nodes |-> [arn \in {x \in Assets(w) : InScan(g, x, scan)} |->
                                         [kind |-> "asset", assetType |-> g.assets[arn].type,
                                          account |-> g.assets[arn].account]],
                            edges |-> {}]
  OBVIOUS
<1>1. GraphSound(stored)
  BY DEF GraphSound, EndsOf, Kinds
<1>2. hydrateAssets(w, g, scan) = mergeWorking(w, stored)
  BY DEF hydrateAssets
<1> QED
  BY <1>1, <1>2, GraphsMergeSoundly

\* A node that is ensured is there, and no other is lost.
LEMMA NodeEnsuredSoundly ==
  ASSUME NEW g, GraphSound(g), NEW id
  PROVE  /\ GraphSound(ensureMinimalNode(g, id))
         /\ DOMAIN g.nodes \subseteq DOMAIN ensureMinimalNode(g, id).nodes
         /\ id # None => id \in DOMAIN ensureMinimalNode(g, id).nodes
<1> PICK h : h = ensureMinimalNode(g, id)
  OBVIOUS
<1>1. CASE id = None \/ id \in DOMAIN g.nodes
  BY <1>1 DEF ensureMinimalNode, addNode
<1>2. CASE id # None /\ id \notin DOMAIN g.nodes
  <2>1. h = [g EXCEPT !.nodes = Over(g.nodes, [x \in {id} |-> MinimalNode(id)])]
    BY <1>2 DEF ensureMinimalNode, addNode
  <2>2. h = [nodes |-> h.nodes, edges |-> h.edges] /\ h.edges = g.edges
    BY <2>1 DEF GraphSound
  <2>3. h.nodes = Over(g.nodes, [x \in {id} |-> MinimalNode(id)])
    BY <2>1 DEF GraphSound
  <2>4. /\ DOMAIN h.nodes = DOMAIN g.nodes \cup {id}
        /\ \A x \in DOMAIN h.nodes :
             h.nodes[x] = IF x \in DOMAIN g.nodes THEN g.nodes[x] ELSE MinimalNode(id)
    BY <2>3 DEF Over
  <2>5. \A x \in DOMAIN h.nodes : h.nodes[x].kind \in Kinds
    BY <2>4, MinimalNodeHasAKind DEF GraphSound
  <2>6. GraphSound(h)
    BY <2>2, <2>4, <2>5 DEF GraphSound
  <2> QED
    BY <2>4, <2>6
<1> QED
  BY <1>1, <1>2

\* An edge between nodes that are there, or are not named, is sound.
LEMMA EdgeAddedSoundly ==
  ASSUME NEW g, GraphSound(g), NEW src, NEW dst, NEW type,
         src # None => src \in DOMAIN g.nodes, dst # None => dst \in DOMAIN g.nodes
  PROVE  GraphSound(addEdge(g, src, dst, type))
<1> PICK h : h = addEdge(g, src, dst, type)
  OBVIOUS
<1> PICK e : e = [src |-> src, type |-> type, dst |-> dst]
  OBVIOUS
<1>1. CASE None \in {src, dst, type}
  BY <1>1 DEF addEdge
<1>2. CASE None \notin {src, dst, type}
  <2>1. h = [g EXCEPT !.edges = g.edges \cup {e}]
    BY <1>2 DEF addEdge
  <2>2. /\ h = [nodes |-> h.nodes, edges |-> h.edges]
        /\ h.nodes = g.nodes /\ h.edges = g.edges \cup {e}
    BY <2>1 DEF GraphSound
  <2>3. EndsOf(h.edges) = EndsOf(g.edges) \cup {src, dst}
    BY <2>2 DEF EndsOf
  <2> QED
    BY <1>2, <2>2, <2>3 DEF GraphSound
<1> QED
  BY <1>1, <1>2

\* The node of the finding comes with what its edge ends in.
LEMMA FindingAddedSoundly ==
  ASSUME NEW req, NEW g, GraphSound(g), NEW arn
  PROVE  GraphSound(WithFinding(req, g, arn))
<1> PICK h : h = ensureMinimalNode(g, arn)
  OBVIOUS
<1> PICK k : k = ensureMinimalNode(h, req.id)
  OBVIOUS
<1>1. GraphSound(h) /\ (arn # None => arn \in DOMAIN h.nodes)
  BY NodeEnsuredSoundly
<1>2. /\ GraphSound(k) /\ (arn # None => arn \in DOMAIN k.nodes)
      /\ req.id # None => req.id \in DOMAIN k.nodes
  BY <1>1, NodeEnsuredSoundly
<1>3. GraphSound(addEdge(k, req.id, arn, "AFFECTS"))
  BY <1>2, EdgeAddedSoundly
<1> QED
  BY <1>3 DEF WithFinding

\* Whatever the database returns for an expansion makes a sound graph.
LEMMA ExpandedSoundly ==
  ASSUME NEW g, NEW arn, NEW scan, NEW mode, NEW h \in expandFromAsset(g, arn, scan, mode)
  PROVE  GraphSound(h)
<1>1. PICK triples :
        h = ensureMinimalNode(hydrateAssets(addTriples(NoGraph, triples), g, scan), arn)
  BY DEF expandFromAsset
<1> QED
  BY <1>1, NoGraphIsSound, TriplesAddedSoundly, HydratedSoundly, NodeEnsuredSoundly
-----------------------------------------------------------------------------
(* The requests that read it.                                              *)

\* A sound graph is a sound answer.
LEMMA AnswerKeeps ==
  ASSUME NEW req, NEW settled, NEW summary, NEW graph, NEW payload, NEW delta,
         Answer(req, settled, summary, graph, payload, delta), GraphSound(graph)
  PROVE  AnswerInv'
BY DEF Answer, AnswerInv

\* An answer without a graph is sound.
LEMMA AnswerWithoutKeeps ==
  ASSUME NEW req, NEW settled, NEW summary, AnswerWithout(req, settled, summary)
  PROVE  AnswerInv'
BY NoGraphIsSound, AnswerKeeps DEF AnswerWithout

\* A request begins to read with an empty graph.
LEMMA ReadKeeps ==
  ASSUME AnswerInv, NEW req, NEW settled, NEW arns, Read(req, settled, arns)
  PROVE  AnswerInv'
BY NoGraphIsSound DEF Read, AnswerInv

\* Whatever a request is served with at once is sound.
LEMMA ServeKeeps ==
  ASSUME AnswerInv, NEW req, Serve(req)
  PROVE  AnswerInv'
<1>1. \/ \E settled, summary : AnswerWithout(req, settled, summary)
      \/ \E settled, arns : Read(req, settled, arns)
      \/ /\ reader' = [phase |-> "context", req |-> req, settled |-> req.scan \in written,
                       todo |-> <<>>, focus |-> None, graph |-> NoGraph]
         /\ UNCHANGED answer
  BY DEF Serve
<1>2. CASE \E settled, summary : AnswerWithout(req, settled, summary)
  BY <1>2, AnswerWithoutKeeps
<1>3. CASE \E settled, arns : Read(req, settled, arns)
  BY <1>3, ReadKeeps
<1>4. CASE /\ reader' = [phase |-> "context", req |-> req, settled |-> req.scan \in written,
                         todo |-> <<>>, focus |-> None, graph |-> NoGraph]
           /\ UNCHANGED answer
  BY <1>4, NoGraphIsSound DEF AnswerInv
<1> QED
  BY <1>1, <1>2, <1>3, <1>4

\* Reading the context of a finding changes no graph.
LEMMA ReadContextKeeps ==
  ASSUME AnswerInv, ReadContext
  PROVE  AnswerInv'
<1>1. \/ \E req, settled, summary : AnswerWithout(req, settled, summary)
      \/ \E req, settled, arns : Read(req, settled, arns)
  BY DEF ReadContext
<1> QED
  BY <1>1, AnswerWithoutKeeps, ReadKeeps

\* A request that has read all it needs answers with its graph.
LEMMA CompleteKeeps ==
  ASSUME AnswerInv, reader # NoReader, NEW graph, GraphSound(graph), Complete(graph)
  PROVE  AnswerInv'
<1>1. \/ \E req, settled, summary, payload : Answer(req, settled, summary, graph, payload, NoDelta)
      \/ /\ reader' = [reader EXCEPT !.phase = "hop", !.graph = graph, !.todo = <<>>]
         /\ UNCHANGED answer
  BY DEF Complete
<1>2. CASE \E req, settled, summary, payload :
             Answer(req, settled, summary, graph, payload, NoDelta)
  BY <1>2, AnswerKeeps
<1>3. CASE /\ reader' = [reader EXCEPT !.phase = "hop", !.graph = graph, !.todo = <<>>]
           /\ UNCHANGED answer
  <2>1. reader' = [phase |-> "hop", req |-> reader.req, settled |-> reader.settled,
                   todo |-> <<>>, focus |-> reader.focus, graph |-> graph]
    BY <1>3 DEF AnswerInv
  <2> QED
    BY <1>3, <2>1 DEF AnswerInv
<1> QED
  BY <1>1, <1>2, <1>3

\* Reading one root merges a sound graph into a sound one.
LEMMA ReadExpandKeeps ==
  ASSUME AnswerInv, ReadExpand
  PROVE  AnswerInv'
<1>1. reader.phase = "expand" /\ reader # NoReader
  BY DEF ReadExpand, NoReader
<1>2. GraphSound(reader.graph)
  BY <1>1 DEF AnswerInv
<1>3. PICK g \in expandFromAsset(db, Head(reader.todo), reader.req.scan, reader.req.mode) :
        LET graph == WithFinding(reader.req, mergeWorking(reader.graph, g), reader.focus)
        IN  IF Len(reader.todo) > 1
            THEN /\ reader' = [reader EXCEPT !.graph = graph, !.todo = Tail(@)]
                 /\ UNCHANGED answer
            ELSE Complete(graph)
  BY DEF ReadExpand
<1> PICK graph : graph = WithFinding(reader.req, mergeWorking(reader.graph, g), reader.focus)
  OBVIOUS
<1>4. GraphSound(graph)
  BY <1>2, ExpandedSoundly, GraphsMergeSoundly, FindingAddedSoundly
<1>5. CASE Complete(graph)
  BY <1>1, <1>4, <1>5, CompleteKeeps
<1>6. CASE /\ reader' = [reader EXCEPT !.graph = graph, !.todo = Tail(@)]
           /\ UNCHANGED answer
  <2>1. reader' = [phase |-> reader.phase, req |-> reader.req, settled |-> reader.settled,
                   todo |-> Tail(reader.todo), focus |-> reader.focus, graph |-> graph]
    BY <1>1, <1>6 DEF AnswerInv
  <2> QED
    BY <1>4, <1>6, <2>1 DEF AnswerInv
<1> QED
  BY <1>3, <1>5, <1>6

\* Reading one hop makes a sound graph.
LEMMA ReadHopKeeps ==
  ASSUME AnswerInv, ReadHop
  PROVE  AnswerInv'
<1>1. reader.phase = "hop" /\ reader # NoReader
  BY DEF ReadHop, NoReader
<1>2. GraphSound(reader.graph)
  BY <1>1 DEF AnswerInv
<1>3. \E req, settled, summary, payload, delta :
        Answer(req, settled, summary, reader.graph, payload, delta)
  BY DEF ReadHop
<1> QED
  BY <1>2, <1>3, AnswerKeeps

\* An answer that is sent is gone.
LEMMA AnswerSent ==
  ASSUME AnswerInv, answer' = NoAnswer, UNCHANGED reader
  PROVE  AnswerInv'
BY DEF AnswerInv

\* Steps of others leave reader and answer as they are.
LEMMA AnswerLeft ==
  ASSUME AnswerInv, UNCHANGED <<reader, answer>>
  PROVE  AnswerInv'
BY DEF AnswerInv
-----------------------------------------------------------------------------
(* What the answers hold.                                                  *)

\* Whether a request walks attack paths, and the LIMIT of its queries.
Attack(req) == req.mode = "attack_path"
Limit(req) == IF Attack(req) THEN AttackLimit ELSE EdgeCap

\* The scan of a request is in the database as a whole, is all there is, and is
\* not cut by the LIMIT of the queries.
Whole(req, settled) ==
  settled /\ begun = {req.scan} /\ Cardinality(Expected(req)) <= Limit(req)

\* What the graph of an answer has from the database.
Drawn(g) == {e \in g.edges : e.type # "AFFECTS"}

\* What the scan of a request relates to some of its resources.
ReachOf(req, arns) ==
  Reach(Edges(disk[req.scan]), arns \cap ArnsOf(disk[req.scan]), MaxHops, Attack(req))

\* The places a request starts from, in the order it takes them.
ArnsInOrder(arns) == Sorted(arns, LAMBDA a : a)

\* Where a request begins, going by the findings of its scan.
EntriesOf(req, F) ==
  IF req.kind = "principal" THEN <<req.id>>
  ELSE ArnsInOrder({roleARNFromFinding(f) : f \in F} \ {None})

\* What a request reads of the artifacts of its scan is as it was.
SameScan(req) ==
  /\ Expected(req)' = Expected(req) /\ StartsOf(req)' = StartsOf(req)
  /\ FindingOf(req)' = FindingOf(req) /\ SignalsOf(req)' = SignalsOf(req)
  /\ \A arns : ReachOf(req, arns)' = ReachOf(req, arns)
  /\ disk'[req.scan] = disk[req.scan]

\* As long as a scan stays on disk a request means the same.
LEMMA ScanReadAsBefore ==
  ASSUME NEW req, disk'[req.scan] = disk[req.scan]
  PROVE  SameScan(req)
<1>1. FindingOf(req)' = FindingOf(req)
  BY DEF FindingOf
<1>2. Matched(req)' = Matched(req)
  BY DEF Matched
<1>3. EntryPoints(req)' = EntryPoints(req)
  <2>1. /\ EntryPoints(req) = EntriesOf(req, Matched(req))
        /\ EntryPoints(req)' = EntriesOf(req, Matched(req)')
    BY DEF EntryPoints, EntriesOf, ArnsInOrder, Sorted, InOrder
  <2> QED
    BY <1>2, <2>1
<1>4. StartsOf(req)' = StartsOf(req)
  BY <1>1, <1>3 DEF StartsOf
<1>5. Expected(req)' = Expected(req)
  BY <1>4 DEF Expected
<1>6. SignalsOf(req)' = SignalsOf(req)
  BY <1>1, <1>2 DEF SignalsOf
<1>7. \A arns : ReachOf(req, arns)' = ReachOf(req, arns)
  BY DEF ReachOf
<1> QED
  BY <1>1, <1>4, <1>5, <1>6, <1>7 DEF SameScan

\* A scan has finitely many relationships.
LEMMA EdgesAreFinite ==
  ASSUME NEW art, Sortable(art)
  PROVE  IsFiniteSet(Edges(art))
<1> DEFINE rels == {r \in art.rels : /\ r.type \in CypherRelTypes
                                    /\ {r.src, r.dst} \subseteq ArnsOf(art)}
           owned == Owned(art)
           roots == {r \in art.rels : /\ r.type = "OWNED_BY" /\ r.dst \in DOMAIN RootAccount
                                      /\ r.src \in ArnsOf(art)}
           byOwner == {[src |-> n.arn, type |-> "OWNED_BY", dst |-> n.account] : n \in owned}
           byRoot == {[src |-> r.src, type |-> "OWNED_BY", dst |-> RootAccount[r.dst]] :
                        r \in roots}
<1>1. Edges(art) = rels \cup byOwner \cup byRoot
  BY DEF Edges, Owned, ArnsOf
<1>2. IsFiniteSet(rels) /\ IsFiniteSet(owned) /\ IsFiniteSet(roots)
  BY FS_Subset DEF Sortable, Owned
<1>3. \E f : \A y \in byOwner : \E n \in owned : y = f[n]
  <2>1. \A y \in byOwner : \E n \in owned :
          y = [m \in owned |-> [src |-> m.arn, type |-> "OWNED_BY", dst |-> m.account]][n]
    OBVIOUS
  <2> HIDE DEF byOwner, owned
  <2> QED
    BY <2>1
<1>4. \E f : \A y \in byRoot : \E r \in roots : y = f[r]
  <2>1. \A y \in byRoot : \E r \in roots :
          y = [x \in roots |-> [src |-> x.src, type |-> "OWNED_BY", dst |-> RootAccount[x.dst]]][r]
    OBVIOUS
  <2> HIDE DEF byRoot, roots
  <2> QED
    BY <2>1
<1> HIDE DEF rels, owned, roots, byOwner, byRoot
<1>5. IsFiniteSet(byOwner) /\ IsFiniteSet(byRoot)
  BY <1>2, <1>3, <1>4, ImageIsFinite
<1>6. IsFiniteSet(rels \cup byOwner \cup byRoot)
  BY <1>2, <1>5, FS_Union
<1> QED
  BY <1>1, <1>6

\* When one scan is written, and no other was begun, the database is that scan.
IsTheScan(scan, art) ==
  /\ db.edges = Edges(art) /\ Walkable(db) = Edges(art)
  /\ \A arn : InScan(db, arn, scan) <=> arn \in ArnsOf(art)

\* A scan that is whole and the only one begun is the database.
LEMMA DatabaseIsTheScan ==
  ASSUME ExportInv, SourceInv, NEW scan \in written, begun = {scan}
  PROVE  /\ IsTheScan(scan, disk[scan]) /\ scan \in DOMAIN disk /\ Sortable(disk[scan])
         /\ Traversable(db, scan, disk[scan]) /\ OnlyFrom(db, scan, disk[scan])
<1> PICK art : art = disk[scan]
  OBVIOUS
<1>1. scan \in DOMAIN disk /\ Sortable(art) /\ Traversable(db, scan, art)
  BY DEF ExportInv
<1>2. OnlyFrom(db, scan, art)
  BY <1>1 DEF SourceInv
<1>3. db.edges = Edges(art)
  BY <1>1, <1>2 DEF Traversable, OnlyFrom
<1>4. \A e \in Edges(art) : e.type \in V1TraversalRels
  BY DEF Edges, CypherRelTypes, V1TraversalRels
<1>5. Walkable(db) = Edges(art)
  BY <1>3, <1>4 DEF Walkable
<1>6. \A arn : InScan(db, arn, scan) <=> arn \in ArnsOf(art)
  BY <1>1, <1>2 DEF InScan, Traversable, OnlyFrom
<1> QED
  BY <1>1, <1>2, <1>3, <1>5, <1>6 DEF IsTheScan

\* A walk from several resources is one from each.
LEMMA ReachOfMore ==
  ASSUME NEW req, NEW A, NEW B, NEW U, U = A \cup B
  PROVE  ReachOf(req, U) = ReachOf(req, A) \cup ReachOf(req, B)
<1> PICK art : art = disk[req.scan]
  OBVIOUS
<1> DEFINE meets(s, e) == s \in ArnsOf(art) /\ e \in Edges(art)
                            /\ e \in Reach(Edges(art), {s}, MaxHops, Attack(req))
<1>1. ASSUME NEW S
      PROVE  \A e : e \in ReachOf(req, S) <=> \E s \in S : meets(s, e)
  <2>1. MaxHops \in Nat \ {0} /\ Attack(req) \in BOOLEAN
    BY BoundsAssumption DEF Attack
  <2> PICK starts : starts = S \cap ArnsOf(art)
    OBVIOUS
  <2>2. ReachOf(req, S) = Reach(Edges(art), starts, MaxHops, Attack(req))
    BY DEF ReachOf
  <2>3. ReachOf(req, S) = FromEach(Edges(art), starts, MaxHops, Attack(req))
    BY <2>1, <2>2, ReachFromEach
  <2> QED
    BY <2>3 DEF FromEach
<1> HIDE DEF meets
<1>2. /\ \A e : e \in ReachOf(req, A) <=> \E s \in A : meets(s, e)
      /\ \A e : e \in ReachOf(req, B) <=> \E s \in B : meets(s, e)
      /\ \A e : e \in ReachOf(req, U) <=> \E s \in U : meets(s, e)
  BY ONLY <1>1
<1> QED
  BY <1>2

\* From nowhere nothing is reached.
LEMMA NothingReachesNothing ==
  ASSUME NEW req
  PROVE  ReachOf(req, {}) = {}
<1>1. MaxHops \in Nat \ {0} /\ Attack(req) \in BOOLEAN
  BY BoundsAssumption DEF Attack
<1> PICK edges : edges = Edges(disk[req.scan])
  OBVIOUS
<1> PICK none : none = {}
  OBVIOUS
<1>2. ReachOf(req, {}) = Reach(edges, none, MaxHops, Attack(req))
  BY DEF ReachOf
<1>3. Reach(edges, none, MaxHops, Attack(req)) = FromEach(edges, none, MaxHops, Attack(req))
  BY <1>1, ReachFromEach
<1> QED
  BY <1>2, <1>3 DEF FromEach

\* What a step of the answer does to the edges of its graph.
LEMMA MinimalNodeAddsNoEdge ==
  ASSUME NEW g, g = [nodes |-> g.nodes, edges |-> g.edges], NEW id
  PROVE  /\ ensureMinimalNode(g, id).edges = g.edges
         /\ ensureMinimalNode(g, id) = [nodes |-> ensureMinimalNode(g, id).nodes,
                                        edges |-> ensureMinimalNode(g, id).edges]
<1>1. CASE id = None \/ id \in DOMAIN g.nodes
  BY <1>1 DEF ensureMinimalNode, addNode
<1>2. CASE id # None /\ id \notin DOMAIN g.nodes
  <2>1. ensureMinimalNode(g, id) = [g EXCEPT !.nodes = Over(g.nodes, [x \in {id} |-> MinimalNode(id)])]
    BY <1>2 DEF ensureMinimalNode, addNode
  <2> QED
    BY <2>1
<1> QED
  BY <1>1, <1>2

\* The finding a request draws in adds no relationship of the database.
LEMMA FindingIsNotDrawn ==
  ASSUME NEW req, NEW g, g = [nodes |-> g.nodes, edges |-> g.edges], NEW arn
  PROVE  Drawn(WithFinding(req, g, arn)) = Drawn(g)
<1>1. CASE req.kind # "finding"
  BY <1>1 DEF WithFinding
<1>2. CASE req.kind = "finding"
  <2> PICK h : h = ensureMinimalNode(ensureMinimalNode(g, arn), req.id)
    OBVIOUS
  <2>1. h = [nodes |-> h.nodes, edges |-> h.edges] /\ h.edges = g.edges
    BY MinimalNodeAddsNoEdge
  <2>2. WithFinding(req, g, arn) = addEdge(h, req.id, arn, "AFFECTS")
    BY <1>2 DEF WithFinding
  <2>3. CASE None \in {req.id, arn, "AFFECTS"}
    BY <2>1, <2>2, <2>3 DEF addEdge, Drawn
  <2>4. CASE None \notin {req.id, arn, "AFFECTS"}
    <3> PICK e : e = [src |-> req.id, type |-> "AFFECTS", dst |-> arn]
      OBVIOUS
    <3>1. WithFinding(req, g, arn) = [h EXCEPT !.edges = h.edges \cup {e}]
      BY <2>2, <2>4 DEF addEdge
    <3>2. WithFinding(req, g, arn).edges = g.edges \cup {e} /\ e.type = "AFFECTS"
      BY <2>1, <3>1
    <3> QED
      BY <3>2 DEF Drawn
  <2> QED
    BY <2>3, <2>4
<1> QED
  BY <1>1, <1>2

\* Two graphs merged have the relationships of both.
LEMMA MergedIsDrawn ==
  ASSUME NEW g, NEW h
  PROVE  Drawn(mergeWorking(g, h)) = Drawn(g) \cup Drawn(h)
BY DEF mergeWorking, Drawn

\* The graph of an expansion has the relationships its query returned.
LEMMA ExpandedEdges ==
  ASSUME NEW g, NEW arn, NEW scan, NEW mode, NEW h \in expandFromAsset(g, arn, scan, mode)
  PROVE  \E triples \in cypherExpand(g, arn, scan, mode) : h.edges = triples
<1>1. PICK triples \in cypherExpand(g, arn, scan, mode) :
        h = ensureMinimalNode(hydrateAssets(addTriples(NoGraph, triples), g, scan), arn)
  BY DEF expandFromAsset
<1> PICK k : k = hydrateAssets(addTriples(NoGraph, triples), g, scan)
  OBVIOUS
<1>2. k = [nodes |-> k.nodes, edges |-> k.edges] /\ k.edges = triples
  BY DEF hydrateAssets, mergeWorking, addTriples, NoGraph
<1> QED
  BY <1>1, <1>2, MinimalNodeAddsNoEdge

\* As long as nothing is cut, an expansion is all that can be reached from its
\* resource, and nothing where the scan does not have the resource.
LEMMA ExpansionReaches ==
  ASSUME NEW req, NEW art, art = disk[req.scan], IsTheScan(req.scan, art), Sortable(art),
         Cardinality(Expected(req)) <= Limit(req),
         NEW arn, arn \in ArnsOf(art) => arn \in StartsOf(req),
         NEW h \in expandFromAsset(db, arn, req.scan, req.mode)
  PROVE  Drawn(h) = ReachOf(req, {arn})
<1>1. PICK triples \in cypherExpand(db, arn, req.scan, req.mode) : h.edges = triples
  BY ExpandedEdges
<1>2. CASE arn \notin ArnsOf(art)
  <2>1. triples = {}
    BY <1>1, <1>2 DEF cypherExpand, IsTheScan
  <2>2. ReachOf(req, {arn}) = ReachOf(req, {})
    BY <1>2 DEF ReachOf
  <2> QED
    BY <1>1, <2>1, <2>2, NothingReachesNothing DEF Drawn
<1>3. CASE arn \in ArnsOf(art)
  <2> PICK rows : rows = OnPaths(Edges(art), arn, MaxHops, Attack(req))
    OBVIOUS
  <2>1. cypherExpand(db, arn, req.scan, req.mode) = Limited(rows, Limit(req))
    BY <1>3 DEF cypherExpand, IsTheScan, Limit, Attack
  <2>2. MaxHops \in Nat \ {0} /\ Attack(req) \in BOOLEAN
    BY BoundsAssumption DEF Attack
  <2>3. rows = Reach(Edges(art), {arn}, MaxHops, Attack(req))
    BY <2>2, OnPathsIsReach
  <2>4. ReachOf(req, {arn}) = rows
    <3>1. {arn} \cap ArnsOf(art) = {arn}
      BY <1>3
    <3> QED
      BY <2>3, <3>1 DEF ReachOf
  <2>5. \A e : e \in Expected(req) <=>
          \E s \in StartsOf(req) : e \in Reach(Edges(art), {s}, MaxHops, Attack(req))
    <3>1. Expected(req) = Reach(Edges(art), StartsOf(req), MaxHops, Attack(req))
      BY DEF Expected, Attack
    <3>2. Expected(req) = FromEach(Edges(art), StartsOf(req), MaxHops, Attack(req))
      BY <2>2, <3>1, ReachFromEach
    <3>3. \A s, e : e \in Reach(Edges(art), {s}, MaxHops, Attack(req)) => e \in Edges(art)
      BY DEF Reach
    <3> QED
      BY <3>2, <3>3 DEF FromEach
  <2>6. rows \subseteq Expected(req)
    BY <1>3, <2>3, <2>5
  <2>7. Expected(req) \subseteq Edges(art)
    BY DEF Expected, Reach
  <2>8. IsFiniteSet(Expected(req))
    BY <2>7, EdgesAreFinite, FS_Subset
  <2>9. IsFiniteSet(rows) /\ Cardinality(rows) <= Limit(req)
    <3>1. /\ IsFiniteSet(rows) /\ Cardinality(rows) <= Cardinality(Expected(req))
          /\ Cardinality(rows) \in Nat /\ Cardinality(Expected(req)) \in Nat
      BY <2>6, <2>8, FS_Subset, FS_CardinalityType
    <3>2. Limit(req) \in Nat
      BY BoundsAssumption DEF Limit
    <3> QED
      BY <3>1, <3>2
  <2>10. triples = rows
    BY <1>1, <2>1, <2>9 DEF Limited
  <2>11. \A e \in Edges(art) : e.type # "AFFECTS"
    BY DEF Edges, CypherRelTypes
  <2> QED
    BY <1>1, <2>4, <2>6, <2>7, <2>10, <2>11 DEF Drawn
<1> QED
  BY <1>2, <1>3
-----------------------------------------------------------------------------
(* What a request being served has read, and what its answer says.         *)

\* What is read and what is to be read make up where the walk is to start.
Sought(req, done, todo) ==
  StartsOf(req) = (done \cup Range(todo)) \cap ArnsOf(disk[req.scan])

\* What was gathered so far is what the places done with reach.
Underway(req, todo, graph) ==
  /\ todo \in Seq(Range(todo))
  /\ \E done : Sought(req, done, todo) /\ Drawn(graph) = ReachOf(req, done)

\* A request about a finding is about one there is.
Grounded(req) == req.kind = "finding" => FindingOf(req) # {}

\* A request under way has gathered what its scan relates to what it has read.
ReaderSound(x) ==
  /\ x.settled => x.req.scan \in written
  /\ Whole(x.req, x.settled) =>
       /\ Grounded(x.req)
       /\ x.phase = "context" => x.req.kind = "finding"
       /\ x.phase = "expand" => x.todo # <<>> /\ Underway(x.req, x.todo, x.graph)
       /\ x.phase = "hop" => Drawn(x.graph) = Expected(x.req)

\* An answer holds what its scan relates to its root, and says of it whether
\* it lets privileges escalate.
AnswerSound(a) ==
  /\ a.settled => a.req.scan \in written
  /\ a.summary.available /\ Whole(a.req, a.settled) =>
       /\ Grounded(a.req) /\ Drawn(a.graph) = Expected(a.req)
       /\ a.summary.escalation = escalationPossibleFromSignals(a.graph, SignalsOf(a.req))

\* Of the request being served, and of the answer that waits to be sent.
WalkInv ==
  /\ reader # NoReader => ReaderSound(reader)
  /\ answer # NoAnswer => AnswerSound(answer)

\* The artifacts and the marks of the exports only grow.
ScansGrow ==
  /\ DOMAIN disk \subseteq DOMAIN disk' /\ \A scan \in DOMAIN disk : disk'[scan] = disk[scan]
  /\ written \subseteq written' /\ begun \subseteq begun'

\* What is whole after a step was so before, and its scan is the same.
LEMMA WholeBefore ==
  ASSUME ExportInv, ScansGrow, NEW req, NEW settled, settled => req.scan \in written,
         Whole(req, settled)'
  PROVE  Whole(req, settled) /\ SameScan(req)
<1>1. settled /\ begun' = {req.scan} /\ Cardinality(Expected(req)') <= Limit(req)
  BY DEF Whole, Limit, Attack
<1>2. begun = {req.scan} /\ req.scan \in DOMAIN disk
  BY <1>1 DEF ExportInv, ScansGrow
<1>3. SameScan(req)
  BY <1>2, ScanReadAsBefore DEF ScansGrow
<1> QED
  BY <1>1, <1>2, <1>3 DEF Whole, SameScan

\* More scans, and more of them exported, leave a request as sound as it was,
LEMMA ReaderStaysSound ==
  ASSUME ExportInv, ScansGrow, NEW x, ReaderSound(x)
  PROVE  ReaderSound(x)'
<1> PICK req : req = x.req
  OBVIOUS
<1>1. x.settled => req.scan \in written
  BY DEF ReaderSound
<1>2. x.settled => req.scan \in written'
  BY <1>1 DEF ScansGrow
<1>3. CASE ~Whole(req, x.settled)'
  BY <1>2, <1>3 DEF ReaderSound
<1>4. CASE Whole(req, x.settled)'
  <2>1. Whole(req, x.settled) /\ SameScan(req)
    BY <1>1, <1>4, WholeBefore
  <2>2. \A done : Sought(req, done, x.todo)' <=> Sought(req, done, x.todo)
    BY <2>1 DEF Sought, SameScan
  <2>3. Underway(req, x.todo, x.graph)' <=> Underway(req, x.todo, x.graph)
    BY <2>1, <2>2 DEF Underway, SameScan
  <2> QED
    BY <1>2, <2>1, <2>3 DEF ReaderSound, SameScan, Grounded
<1> QED
  BY <1>3, <1>4

\* and an answer.
LEMMA AnswerStaysSound ==
  ASSUME ExportInv, ScansGrow, NEW a, AnswerSound(a)
  PROVE  AnswerSound(a)'
<1> PICK req : req = a.req
  OBVIOUS
<1>1. a.settled => req.scan \in written
  BY DEF AnswerSound
<1>2. a.settled => req.scan \in written'
  BY <1>1 DEF ScansGrow
<1>3. CASE ~Whole(req, a.settled)'
  BY <1>2, <1>3 DEF AnswerSound
<1>4. CASE Whole(req, a.settled)'
  <2>1. Whole(req, a.settled) /\ SameScan(req)
    BY <1>1, <1>4, WholeBefore
  <2> QED
    BY <1>2, <2>1 DEF AnswerSound, SameScan, Grounded
<1> QED
  BY <1>3, <1>4

\* As long as nobody reads, the requests stay as they are.
LEMMA WalkStays ==
  ASSUME ExportInv, WalkInv, ScansGrow, UNCHANGED <<reader, answer>>
  PROVE  WalkInv'
<1>1. ASSUME reader # NoReader PROVE ReaderSound(reader)'
  <2> PICK x : x = reader
    OBVIOUS
  <2>1. ReaderSound(x)'
    BY <1>1, ReaderStaysSound DEF WalkInv
  <2>2. x = reader'
    OBVIOUS
  <2> QED
    BY <2>1, <2>2
<1>2. ASSUME answer # NoAnswer PROVE AnswerSound(answer)'
  <2> PICK a : a = answer
    OBVIOUS
  <2>1. AnswerSound(a)'
    BY <1>2, AnswerStaysSound DEF WalkInv
  <2>2. a = answer'
    OBVIOUS
  <2> QED
    BY <2>1, <2>2
<1> QED
  BY <1>1, <1>2 DEF WalkInv

\* A summary, with an account put in or not, says the same of the graph.
IsSummary(s) ==
  s = [available |-> s.available, reason |-> s.reason, escalation |-> s.escalation,
       impact |-> s.impact]

\* The account of a principal is added to the impact alone.
LEMMA AccountSaysNoMore ==
  ASSUME NEW req, NEW s, IsSummary(s)
  PROVE  /\ WithAccount(req, s).available = s.available
         /\ WithAccount(req, s).escalation = s.escalation
<1>1. CASE req.kind = "principal" /\ req.account # None
  <2>1. WithAccount(req, s) = [s EXCEPT !.impact.topAccounts = <<req.account>> \o s.impact.topAccounts]
    BY <1>1 DEF WithAccount
  <2> PICK other : other = [s.impact EXCEPT !.topAccounts = <<req.account>> \o s.impact.topAccounts]
    OBVIOUS
  <2>2. WithAccount(req, s) = [s EXCEPT !.impact = other]
    BY <2>1
  <2> QED
    BY <2>2 DEF IsSummary
<1>2. CASE ~(req.kind = "principal" /\ req.account # None)
  BY <1>2 DEF WithAccount
<1> QED
  BY <1>1, <1>2

\* A summary of a graph takes the escalation from the graph.
LEMMA PayloadIsSummary ==
  ASSUME NEW g, NEW focus, NEW signals, NEW reason,
         NEW s, s = BuildSummaryPayload(g, focus, signals, TRUE, reason)
  PROVE  /\ IsSummary(s)
         /\ s.escalation = escalationPossibleFromSignals(g, signals)
BY DEF BuildSummaryPayload, IsSummary

\* Without a graph a summary says that it has none,
LEMMA NoGraphNoSummary ==
  ASSUME NEW g, NEW focus, NEW signals, NEW reason,
         NEW s, s = BuildSummaryPayload(g, focus, signals, FALSE, reason)
  PROVE  IsSummary(s) /\ s.available = FALSE
BY DEF BuildSummaryPayload, IsSummary

\* also when the database failed,
LEMMA FallbackHasNoGraph ==
  ASSUME NEW req, NEW reason
  PROVE  IsSummary(Fallback(req, reason)) /\ Fallback(req, reason).available = FALSE
<1>1. CASE req.kind = "finding"
  <2> PICK f : f = CHOOSE x \in FindingOf(req) : TRUE
    OBVIOUS
  <2> PICK s : s = BuildSummaryPayload(NoGraph, None, privilegeSignalsFromFinding(f), FALSE, reason)
    OBVIOUS
  <2>1. \E e : Fallback(req, reason) = [s EXCEPT !.escalation = e]
    BY <1>1 DEF Fallback, fallbackSummary
  <2>2. IsSummary(s) /\ s.available = FALSE
    BY NoGraphNoSummary
  <2> QED
    BY <2>1, <2>2 DEF IsSummary
<1>2. CASE req.kind # "finding"
  <2>1. Fallback(req, reason) = BuildSummaryPayload(NoGraph, None, SignalsOf(req), FALSE, reason)
    BY <1>2 DEF Fallback
  <2> QED
    BY <2>1, NoGraphNoSummary
<1> QED
  BY <1>1, <1>2

\* and when there was nothing to look for.
LEMMA EmptyHasNoGraph ==
  IsSummary(EmptySummary) /\ EmptySummary.available = FALSE
<1> PICK s : s = BuildSummaryPayload(NoGraph, None, NoSignals, FALSE, None)
  OBVIOUS
<1>1. \E i : EmptySummary = [s EXCEPT !.impact = i]
  BY DEF EmptySummary
<1>2. IsSummary(s) /\ s.available = FALSE
  BY NoGraphNoSummary
<1> QED
  BY <1>1, <1>2 DEF IsSummary

\* The steps of the requests leave the scans alone.
Reading == UNCHANGED <<disk, written, begun>>

\* The scans may well stay as they are.
LEMMA ReadingGrows ==
  ASSUME Reading
  PROVE  ScansGrow
BY DEF Reading, ScansGrow

\* An answer is sound when what it says of the graph is.
LEMMA AnswerIsSound ==
  ASSUME ExportInv, Reading, NEW req, NEW settled, NEW summary, NEW graph, NEW payload, NEW delta,
         Answer(req, settled, summary, graph, payload, delta),
         settled => req.scan \in written, IsSummary(summary),
         summary.available /\ Whole(req, settled) =>
           /\ Grounded(req) /\ Drawn(graph) = Expected(req)
           /\ summary.escalation = escalationPossibleFromSignals(graph, SignalsOf(req))
  PROVE  WalkInv'
<1> PICK a : a = answer'
  OBVIOUS
<1>1. /\ a.req = req /\ a.settled = settled /\ a.graph = graph
      /\ a.summary = WithAccount(req, summary)
  BY DEF Answer
<1>2. AnswerSound(a)
  BY <1>1, AccountSaysNoMore DEF AnswerSound
<1>3. AnswerSound(a)'
  BY <1>2, ReadingGrows, AnswerStaysSound
<1>4. AnswerSound(answer)'
  BY <1>3
<1>5. reader' = NoReader
  BY DEF Answer
<1> QED
  BY <1>4, <1>5 DEF WalkInv, NoReader

\* Without the graph there is nothing to be wrong about.
LEMMA WithoutIsSound ==
  ASSUME ExportInv, Reading, NEW req, NEW settled, NEW summary, AnswerWithout(req, settled, summary),
         settled => req.scan \in written, IsSummary(summary), summary.available = FALSE
  PROVE  WalkInv'
BY AnswerIsSound DEF AnswerWithout

\* A reader goes on, and no answer waits that did not.
LEMMA ReaderIsSound ==
  ASSUME ExportInv, Reading, WalkInv, NEW x, ReaderSound(x), reader' = x, UNCHANGED answer
  PROVE  WalkInv'
<1>1. ReaderSound(x)'
  BY ReadingGrows, ReaderStaysSound
<1>2. ReaderSound(reader)'
  BY <1>1
<1>3. ASSUME answer # NoAnswer PROVE AnswerSound(answer)'
  <2> PICK a : a = answer
    OBVIOUS
  <2>1. AnswerSound(a)'
    BY <1>3, ReadingGrows, AnswerStaysSound DEF WalkInv
  <2>2. a = answer'
    OBVIOUS
  <2> QED
    BY <2>1, <2>2
<1> QED
  BY <1>2, <1>3 DEF WalkInv

\* The walk begins with nothing drawn.
LEMMA ReadIsSound ==
  ASSUME ExportInv, Reading, WalkInv, NEW req, NEW settled, NEW arns, Read(req, settled, arns),
         settled => req.scan \in written,
         Whole(req, settled) =>
           /\ Grounded(req) /\ arns \in Seq(Range(arns)) /\ arns # <<>>
           /\ StartsOf(req) = Range(arns) \cap ArnsOf(disk[req.scan])
  PROVE  WalkInv'
<1> PICK x : x = [phase |-> "expand", req |-> req, settled |-> settled, todo |-> arns,
                  focus |-> Head(arns), graph |-> NoGraph]
  OBVIOUS
<1>1. reader' = x /\ UNCHANGED answer
  BY DEF Read
<1>2. /\ x.phase = "expand" /\ x.req = req /\ x.settled = settled /\ x.todo = arns
      /\ x.graph = NoGraph
  OBVIOUS
<1>3. ASSUME Whole(req, settled)
      PROVE  Underway(req, arns, NoGraph)
  <2>1. Drawn(NoGraph) = {}
    BY DEF Drawn, NoGraph
  <2>2. ReachOf(req, {}) = {}
    BY NothingReachesNothing
  <2>3. Sought(req, {}, arns)
    BY <1>3 DEF Sought
  <2> QED
    BY <1>3, <2>1, <2>2, <2>3 DEF Underway
<1>4. ReaderSound(x)
  BY <1>2, <1>3 DEF ReaderSound
<1> QED
  BY <1>1, <1>4, ReaderIsSound

\* The entry points of a request are a list.
LEMMA EntriesAreListed ==
  ASSUME NEW req, NEW art, art = disk[req.scan], Sortable(art), Traceable(art)
  PROVE  EntryPoints(req) \in Seq(Range(EntryPoints(req)))
<1>1. CASE req.kind = "principal"
  <2>1. EntryPoints(req) = <<req.id>> /\ EntryPoints(req) \in Seq({req.id})
    BY <1>1 DEF EntryPoints
  <2> QED
    BY <2>1, MembersMakeAList
<1>2. CASE req.kind # "principal"
  <2> PICK F : F = Matched(req)
    OBVIOUS
  <2> DEFINE S == {roleARNFromFinding(f) : f \in F} \ {None}
  <2>1. EntryPoints(req) = ArnsInOrder(S)
    BY <1>2 DEF EntryPoints, ArnsInOrder, Sorted, InOrder
  <2>2. F \subseteq art.findings
    BY DEF Matched, MatchExternalEntityFindings, External
  <2>3. S \subseteq DOMAIN Rank
    BY <2>2 DEF Traceable
  <2>4. IsFiniteSet(S)
    <3>1. IsFiniteSet(F)
      BY <2>2, FS_Subset DEF Sortable
    <3>2. \E f : \A y \in S : \E x \in F : y = f[x]
      <4>1. \A y \in S : \E x \in F : y = [g \in F |-> roleARNFromFinding(g)][x]
        OBVIOUS
      <4> HIDE DEF S
      <4> QED
        BY <4>1
    <3> HIDE DEF S
    <3> QED
      BY <3>1, <3>2, ImageIsFinite
  <2> HIDE DEF S
  <2>5. Lists(ArnsInOrder(S), S)
    BY <2>3, <2>4, AccountsAreListed DEF ArnsInOrder
  <2>6. EntryPoints(req) \in Seq(S)
    BY <2>1, <2>5 DEF Lists
  <2> QED
    BY <2>6, MembersMakeAList
<1> QED
  BY <1>1, <1>2

\* What a request is served with at once, or begins to read, is sound.
LEMMA ServeIsSound ==
  ASSUME ExportInv, Reading, WalkInv, \A scan \in DOMAIN disk : Traceable(disk[scan]),
         NEW req, Serve(req)
  PROVE  WalkInv'
<1> PICK settled : settled = (req.scan \in written)
  OBVIOUS
<1>1. settled => req.scan \in written
  OBVIOUS
<1>2. ASSUME NEW summary, AnswerWithout(req, settled, summary),
             IsSummary(summary), summary.available = FALSE
      PROVE  WalkInv'
  BY <1>1, <1>2, WithoutIsSound
<1>3. ASSUME NEW reason, AnswerWithout(req, settled, Fallback(req, reason)) PROVE WalkInv'
  BY <1>2, <1>3, FallbackHasNoGraph
<1>4. CASE AnswerWithout(req, settled, EmptySummary)
  BY <1>2, <1>4, EmptyHasNoGraph
<1>5. CASE AnswerWithout(req, settled,
             BuildSummaryPayload(NoGraph, None, NoSignals, FALSE, "unknown_root"))
  BY <1>2, <1>5, NoGraphNoSummary
<1>6. ASSUME req.kind = "finding", FindingOf(req) # {},
             reader' = [phase |-> "context", req |-> req, settled |-> settled,
                        todo |-> <<>>, focus |-> None, graph |-> NoGraph],
             UNCHANGED answer
      PROVE  WalkInv'
  <2> PICK x : x = [phase |-> "context", req |-> req, settled |-> settled,
                    todo |-> <<>>, focus |-> None, graph |-> NoGraph]
    OBVIOUS
  <2>1. ReaderSound(x)
    BY <1>1, <1>6 DEF ReaderSound, Grounded
  <2> QED
    BY <1>6, <2>1, ReaderIsSound
<1>7. ASSUME req.kind # "finding", EntryPoints(req) # <<>>, Read(req, settled, EntryPoints(req))
      PROVE  WalkInv'
  <2>1. ASSUME Whole(req, settled)
        PROVE  EntryPoints(req) \in Seq(Range(EntryPoints(req)))
    <3>1. req.scan \in DOMAIN disk
      BY <2>1 DEF Whole, ExportInv
    <3>2. Sortable(disk[req.scan]) /\ Traceable(disk[req.scan])
      BY <3>1 DEF ExportInv
    <3> QED
      BY <3>2, EntriesAreListed
  <2>2. StartsOf(req) = Range(EntryPoints(req)) \cap ArnsOf(disk[req.scan])
    BY <1>7 DEF StartsOf, ArnsOf, ToSet, Range
  <2>3. Grounded(req)
    BY <1>7 DEF Grounded
  <2> QED
    BY <1>1, <1>7, <2>1, <2>2, <2>3, ReadIsSound
<1>8. \/ AnswerWithout(req, settled, EmptySummary)
      \/ AnswerWithout(req, settled,
           BuildSummaryPayload(NoGraph, None, NoSignals, FALSE, "unknown_root"))
      \/ \E reason : AnswerWithout(req, settled, Fallback(req, reason))
      \/ /\ req.kind = "finding" /\ FindingOf(req) # {}
         /\ reader' = [phase |-> "context", req |-> req, settled |-> settled,
                       todo |-> <<>>, focus |-> None, graph |-> NoGraph]
         /\ UNCHANGED answer
      \/ /\ req.kind # "finding" /\ EntryPoints(req) # <<>>
         /\ Read(req, settled, EntryPoints(req))
  BY DEF Serve
<1> QED
  BY <1>3, <1>4, <1>5, <1>6, <1>7, <1>8

\* The resource a finding affects is the same in the database and on disk.
LEMMA ContextIsTheResource ==
  ASSUME ExportInv, SourceInv, \A scan \in DOMAIN disk : Traceable(disk[scan]),
         NEW req, req.scan \in written, begun = {req.scan}, req.kind = "finding",
         NEW f \in FindingOf(req)
  PROVE  /\ StartsOf(req) = {f.arn} \cap ArnsOf(disk[req.scan])
         /\ req.id \in DOMAIN db.findings /\ db.findings[req.id].scan = req.scan
         /\ db.findings[req.id].arn = f.arn
         /\ \A a : <<req.id, a>> \in db.affects => a = f.arn
<1> PICK art : art = disk[req.scan]
  OBVIOUS
<1>1. /\ req.scan \in DOMAIN disk /\ Traversable(db, req.scan, art)
      /\ OnlyFrom(db, req.scan, art)
  BY DatabaseIsTheScan
<1>2. Traceable(art)
  BY <1>1
<1>3. \A x \in FindingOf(req) : x \in art.findings /\ x.id = req.id
  BY DEF FindingOf
<1>4. \A x \in art.findings : x.id = req.id => x.arn = f.arn
  BY <1>2, <1>3 DEF Traceable
<1>5. StartsOf(req) = {f.arn} \cap ArnsOf(art)
  <2>1. {x.arn : x \in FindingOf(req)} = {f.arn}
    BY <1>3, <1>4
  <2> QED
    BY <2>1 DEF StartsOf, ArnsOf
<1>6. req.id \in DOMAIN db.findings
  <2>1. <<req.scan, f.id>> \in db.captured /\ f.id = req.id
    BY <1>1, <1>3 DEF Traversable
  <2> QED
    BY <2>1 DEF ExportInv, DbSound
<1>7. db.findings[req.id].scan = req.scan /\ db.findings[req.id].arn = f.arn
  BY <1>1, <1>4, <1>6 DEF OnlyFrom
<1>8. ASSUME NEW a, <<req.id, a>> \in db.affects PROVE a = f.arn
  <2>1. PICK x \in Hanging(art) : <<req.id, a>> = <<x.id, x.arn>>
    BY <1>1, <1>8 DEF OnlyFrom
  <2>2. x \in art.findings /\ x.id = req.id /\ x.arn = a
    BY <2>1 DEF Hanging
  <2> QED
    BY <1>4, <2>2
<1> QED
  BY <1>5, <1>6, <1>7, <1>8

\* Where the resource is read from is the database or the artifacts, which agree.
LEMMA ContextIsRead ==
  ASSUME ReadContext, NEW req, req = reader.req,
         NEW f, f = CHOOSE x \in FindingOf(req) : TRUE
  PROVE  \E chosen :
           /\ \/ chosen = None /\ AnswerWithout(req, reader.settled, Fallback(req, "no_graph_projection"))
              \/ chosen # None /\ Read(req, reader.settled, <<chosen>>)
           /\ \/ chosen = f.arn
              \/ req.id \in DOMAIN db.findings /\ chosen = db.findings[req.id].arn
              \/ <<req.id, chosen>> \in db.affects
<1> DEFINE asked == reader.req
           found == CHOOSE x \in FindingOf(asked) : TRUE
           inDb == asked.id \in DOMAIN db.findings /\ db.findings[asked.id].scan = asked.scan
           affected == {a \in DOMAIN db.assets : <<asked.id, a>> \in db.affects
                                                   /\ InScan(db, a, asked.scan)}
           start == IF ~inDb THEN {found.arn}
                    ELSE IF affected = {} THEN {db.findings[asked.id].arn} ELSE affected
<1>1. PICK arn \in start :
        LET chosen == IF arn = None THEN found.arn ELSE arn
        IN  IF chosen = None
            THEN AnswerWithout(asked, reader.settled, Fallback(asked, "no_graph_projection"))
            ELSE Read(asked, reader.settled, <<chosen>>)
  BY DEF ReadContext
<1> DEFINE chosen == IF arn = None THEN f.arn ELSE arn
<1>2. \/ chosen = None /\ AnswerWithout(req, reader.settled, Fallback(req, "no_graph_projection"))
      \/ chosen # None /\ Read(req, reader.settled, <<chosen>>)
  BY <1>1
<1>3. \/ chosen = f.arn
      \/ req.id \in DOMAIN db.findings /\ chosen = db.findings[req.id].arn
      \/ <<req.id, chosen>> \in db.affects
  <2>1. CASE arn = None
    BY <2>1
  <2>2. CASE arn # None
    BY <1>1, <2>2
  <2> QED
    BY <2>1, <2>2
<1> HIDE DEF chosen
<1> QED
  BY <1>2, <1>3

\* The transaction that reads what a finding affects starts the walk there.
LEMMA ReadContextIsSound ==
  ASSUME ExportInv, SourceInv, \A scan \in DOMAIN disk : Traceable(disk[scan]),
         Reading, WalkInv, ReadContext
  PROVE  WalkInv'
<1>1. reader # NoReader /\ reader.phase = "context"
  BY DEF ReadContext, NoReader
<1>2. ReaderSound(reader)
  BY <1>1 DEF WalkInv
<1> PICK req : req = reader.req
  OBVIOUS
<1> PICK settled : settled = reader.settled
  OBVIOUS
<1> PICK f : f = CHOOSE x \in FindingOf(req) : TRUE
  OBVIOUS
<1>3. settled => req.scan \in written
  BY <1>2 DEF ReaderSound
<1>4. PICK chosen :
        /\ \/ chosen = None /\ AnswerWithout(req, settled, Fallback(req, "no_graph_projection"))
           \/ Read(req, settled, <<chosen>>)
        /\ \/ chosen = f.arn
           \/ req.id \in DOMAIN db.findings /\ chosen = db.findings[req.id].arn
           \/ <<req.id, chosen>> \in db.affects
  BY ContextIsRead
<1>5. CASE AnswerWithout(req, settled, Fallback(req, "no_graph_projection"))
  BY <1>3, <1>5, FallbackHasNoGraph, WithoutIsSound
<1>6. CASE Read(req, settled, <<chosen>>)
  <2> PICK arns : arns = <<chosen>>
    OBVIOUS
  <2>1. Range(arns) = {chosen} /\ arns \in Seq({chosen}) /\ arns # <<>>
    BY DEF Range
  <2>2. ASSUME Whole(req, settled) PROVE StartsOf(req) = {chosen} \cap ArnsOf(disk[req.scan])
    <3>1. req.scan \in written /\ begun = {req.scan}
      BY <1>3, <2>2 DEF Whole
    <3>2. req.kind = "finding" /\ FindingOf(req) # {}
      BY <1>1, <1>2, <2>2 DEF ReaderSound, Grounded
    <3>3. f \in FindingOf(req)
      BY <3>2
    <3>4. /\ StartsOf(req) = {f.arn} \cap ArnsOf(disk[req.scan])
          /\ db.findings[req.id].arn = f.arn
          /\ \A a : <<req.id, a>> \in db.affects => a = f.arn
      BY <3>1, <3>2, <3>3, ContextIsTheResource
    <3>5. chosen = f.arn
      BY <1>4, <3>4
    <3> QED
      BY <3>4, <3>5
  <2>3. Read(req, settled, arns)
    BY <1>6
  <2>4. Whole(req, settled) => Grounded(req)
    BY <1>2 DEF ReaderSound
  <2> QED
    BY <1>3, <2>1, <2>2, <2>3, <2>4, ReadIsSound
<1> QED
  BY <1>4, <1>5, <1>6

\* A transaction that fails ends with an answer without a graph.
LEMMA ReadFailsIsSound ==
  ASSUME ExportInv, Reading, WalkInv, ReadFails
  PROVE  WalkInv'
<1>1. reader # NoReader
  BY DEF ReadFails, NoReader
<1>2. ReaderSound(reader)
  BY <1>1 DEF WalkInv
<1> PICK req : req = reader.req
  OBVIOUS
<1> PICK settled : settled = reader.settled
  OBVIOUS
<1>3. settled => req.scan \in written
  BY <1>2 DEF ReaderSound
<1>4. AnswerWithout(req, settled, Fallback(req, "neo4j_unavailable"))
  BY DEF ReadFails
<1> QED
  BY <1>3, <1>4, FallbackHasNoGraph, WithoutIsSound

\* When an answer is sent, there is one less to be wrong.
LEMMA SentIsSound ==
  ASSUME ExportInv, Reading, WalkInv, answer' = NoAnswer, UNCHANGED reader
  PROVE  WalkInv'
<1>1. ASSUME reader # NoReader PROVE ReaderSound(reader)'
  <2> PICK x : x = reader
    OBVIOUS
  <2>1. ReaderSound(x)'
    BY <1>1, ReadingGrows, ReaderStaysSound DEF WalkInv
  <2>2. x = reader'
    OBVIOUS
  <2> QED
    BY <2>1, <2>2
<1> QED
  BY <1>1 DEF WalkInv

\* An answer made of a graph that holds what is expected is sound.
LEMMA GraphAnswersSoundly ==
  ASSUME ExportInv, Reading, NEW req, NEW settled, NEW graph, NEW focus, NEW payload, NEW delta,
         NEW signals, signals = SignalsOf(req),
         NEW s, s = BuildSummaryPayload(graph, focus, signals, TRUE, None),
         Answer(req, settled, s, graph, payload, delta),
         settled => req.scan \in written,
         Whole(req, settled) => Grounded(req) /\ Drawn(graph) = Expected(req)
  PROVE  WalkInv'
<1>1. IsSummary(s) /\ s.escalation = escalationPossibleFromSignals(graph, signals)
  BY PayloadIsSummary
<1> QED
  BY <1>1, AnswerIsSound

\* The answer made of a complete graph is sound.
LEMMA CompleteIsSound ==
  ASSUME ExportInv, AnswerInv, Reading, WalkInv, reader # NoReader, NEW graph, Complete(graph),
         Whole(reader.req, reader.settled) => Drawn(graph) = Expected(reader.req)
  PROVE  WalkInv'
<1> PICK req : req = reader.req
  OBVIOUS
<1> PICK settled : settled = reader.settled
  OBVIOUS
<1> PICK focus : focus = reader.focus
  OBVIOUS
<1> PICK signals : signals = SignalsOf(req)
  OBVIOUS
<1> PICK s : s = BuildSummaryPayload(graph, focus, signals, TRUE, None)
  OBVIOUS
<1>1. (settled => req.scan \in written) /\ (Whole(req, settled) => Grounded(req))
  BY DEF WalkInv, ReaderSound
<1>2. ASSUME NEW payload, Answer(req, settled, s, graph, payload, NoDelta)
      PROVE  WalkInv'
  BY <1>1, <1>2, GraphAnswersSoundly
<1>3. CASE /\ reader' = [reader EXCEPT !.phase = "hop", !.graph = graph, !.todo = <<>>]
           /\ UNCHANGED answer
  <2> PICK x : x = [phase |-> "hop", req |-> req, settled |-> settled, todo |-> <<>>,
                    focus |-> focus, graph |-> graph]
    OBVIOUS
  <2>1. reader' = x
    <3>1. reader' = [phase |-> "hop", req |-> reader.req, settled |-> reader.settled,
                     todo |-> <<>>, focus |-> reader.focus, graph |-> graph]
      BY <1>3 DEF AnswerInv
    <3> QED
      BY <3>1
  <2>2. ReaderSound(x)
    BY <1>1 DEF ReaderSound
  <2> QED
    BY <1>3, <2>1, <2>2, ReaderIsSound
<1> QED
  BY <1>2, <1>3 DEF Complete

\* The transaction that reads one hop answers with the graph gathered before.
LEMMA ReadHopIsSound ==
  ASSUME ExportInv, Reading, WalkInv, ReadHop
  PROVE  WalkInv'
<1>1. reader # NoReader /\ reader.phase = "hop"
  BY DEF ReadHop, NoReader
<1> PICK req : req = reader.req
  OBVIOUS
<1> PICK settled : settled = reader.settled
  OBVIOUS
<1> PICK graph : graph = reader.graph
  OBVIOUS
<1> PICK focus : focus = reader.focus
  OBVIOUS
<1> PICK signals : signals = SignalsOf(req)
  OBVIOUS
<1> PICK s : s = BuildSummaryPayload(graph, focus, signals, TRUE, None)
  OBVIOUS
<1>2. /\ settled => req.scan \in written
      /\ Whole(req, settled) => Grounded(req) /\ Drawn(graph) = Expected(req)
  BY <1>1 DEF WalkInv, ReaderSound
<1>3. \E payload, delta : Answer(req, settled, s, graph, payload, delta)
  BY DEF ReadHop
<1> QED
  BY <1>2, <1>3, GraphAnswersSoundly

\* A list that is not empty is its head and what follows.
LEMMA HeadAndRest ==
  ASSUME NEW s, s \in Seq(Range(s)), s # <<>>, NEW rest, rest = Tail(s)
  PROVE  /\ Range(s) = {Head(s)} \cup Range(rest) /\ rest \in Seq(Range(rest))
         /\ Len(s) > 1 <=> rest # <<>>
<1>1. Len(s) \in Nat \ {0} /\ DOMAIN s = 1..Len(s)
  OBVIOUS
<1>2. /\ rest \in Seq(Range(s)) /\ Len(rest) = Len(s) - 1 /\ DOMAIN rest = 1..(Len(s) - 1)
      /\ \A i \in 1..(Len(s) - 1) : rest[i] = s[i + 1]
      /\ Head(s) = s[1]
  BY <1>1
<1>3. rest \in Seq(Range(rest))
  <2> PICK S : S = Range(s)
    OBVIOUS
  <2>1. rest \in Seq(S)
    BY <1>2
  <2> QED
    BY <2>1, MembersMakeAList
<1>4. Len(s) > 1 <=> rest # <<>>
  BY <1>1, <1>2
<1>5. ASSUME NEW v \in Range(s) PROVE v \in {Head(s)} \cup Range(rest)
  <2>1. PICK i \in 1..Len(s) : v = s[i]
    BY <1>1 DEF Range
  <2>2. CASE i = 1
    BY <1>2, <2>1, <2>2
  <2>3. CASE i # 1
    <3>1. i - 1 \in 1..(Len(s) - 1) /\ s[(i - 1) + 1] = v
      BY <1>1, <2>1, <2>3
    <3>2. rest[i - 1] = v
      BY <1>2, <3>1
    <3> QED
      BY <1>2, <3>1, <3>2 DEF Range
  <2> QED
    BY <2>2, <2>3
<1>6. ASSUME NEW v \in {Head(s)} \cup Range(rest) PROVE v \in Range(s)
  <2>1. CASE v = Head(s)
    BY <1>1, <1>2, <2>1 DEF Range
  <2>2. CASE v \in Range(rest)
    <3>1. PICK i \in 1..(Len(s) - 1) : v = rest[i]
      BY <1>2, <2>2 DEF Range
    <3>2. i + 1 \in 1..Len(s) /\ s[i + 1] = v
      BY <1>1, <1>2, <3>1
    <3> QED
      BY <1>1, <3>2 DEF Range
  <2> QED
    BY <1>6, <2>1, <2>2
<1> QED
  BY <1>3, <1>4, <1>5, <1>6

\* Once a resource is expanded, what is drawn is what those expanded so far reach.
LEMMA OneMoreIsExpanded ==
  ASSUME ExportInv, SourceInv, NEW x, ReaderSound(x), x.phase = "expand", GraphSound(x.graph),
         NEW req, req = x.req, Whole(req, x.settled),
         NEW arn, arn = Head(x.todo), NEW rest, rest = Tail(x.todo),
         NEW g \in expandFromAsset(db, arn, req.scan, req.mode),
         NEW graph, graph = WithFinding(req, mergeWorking(x.graph, g), x.focus)
  PROVE  Underway(req, rest, graph) /\ (Len(x.todo) > 1 <=> rest # <<>>)
<1> PICK art : art = disk[req.scan]
  OBVIOUS
<1>1. /\ x.todo \in Seq(Range(x.todo)) /\ x.todo # <<>>
      /\ \E done : Sought(req, done, x.todo) /\ Drawn(x.graph) = ReachOf(req, done)
  BY DEF ReaderSound, Underway
<1>2. PICK done : Sought(req, done, x.todo) /\ Drawn(x.graph) = ReachOf(req, done)
  BY <1>1
<1>3. /\ Range(x.todo) = {arn} \cup Range(rest) /\ rest \in Seq(Range(rest))
      /\ Len(x.todo) > 1 <=> rest # <<>>
  BY <1>1, HeadAndRest
<1>4. req.scan \in written /\ begun = {req.scan} /\ Cardinality(Expected(req)) <= Limit(req)
  BY DEF Whole, ReaderSound
<1>5. IsTheScan(req.scan, art) /\ Sortable(art)
  BY <1>4, DatabaseIsTheScan
<1>6. arn \in ArnsOf(art) => arn \in StartsOf(req)
  BY <1>2, <1>3 DEF Sought
<1> PICK one : one = {arn}
  OBVIOUS
<1> PICK more : more = done \cup one
  OBVIOUS
<1>7. Drawn(g) = ReachOf(req, one)
  BY <1>4, <1>5, <1>6, ExpansionReaches
<1> PICK merged : merged = mergeWorking(x.graph, g)
  OBVIOUS
<1>8. merged = [nodes |-> merged.nodes, edges |-> merged.edges]
  BY DEF mergeWorking
<1>9. Drawn(graph) = Drawn(merged)
  BY <1>8, FindingIsNotDrawn
<1>10. Drawn(merged) = Drawn(x.graph) \cup Drawn(g)
  BY MergedIsDrawn
<1>11. ReachOf(req, more) = ReachOf(req, done) \cup ReachOf(req, one)
  BY ReachOfMore
<1>12. Drawn(graph) = ReachOf(req, more)
  BY <1>2, <1>7, <1>9, <1>10, <1>11
<1>13. Sought(req, more, rest)
  BY <1>2, <1>3 DEF Sought
<1> QED
  BY <1>3, <1>12, <1>13 DEF Underway

\* One more place expanded: what it reaches joins what was gathered, and the
\* last one completes the answer.
LEMMA ReadExpandIsSound ==
  ASSUME ExportInv, SourceInv, AnswerInv, Reading, WalkInv, ReadExpand
  PROVE  WalkInv'
<1>1. reader # NoReader /\ reader.phase = "expand"
  BY DEF ReadExpand, NoReader
<1>2. /\ ReaderSound(reader) /\ GraphSound(reader.graph)
      /\ reader = [phase |-> reader.phase, req |-> reader.req,
                   settled |-> reader.settled, todo |-> reader.todo,
                   focus |-> reader.focus, graph |-> reader.graph]
  BY <1>1 DEF WalkInv, AnswerInv
<1> PICK req : req = reader.req
  OBVIOUS
<1> PICK settled : settled = reader.settled
  OBVIOUS
<1> PICK arn : arn = Head(reader.todo)
  OBVIOUS
<1> PICK rest : rest = Tail(reader.todo)
  OBVIOUS
<1>3. PICK g \in expandFromAsset(db, arn, req.scan, req.mode) :
        LET graph == WithFinding(reader.req, mergeWorking(reader.graph, g), reader.focus)
        IN  IF Len(reader.todo) > 1
            THEN /\ reader' = [reader EXCEPT !.graph = graph, !.todo = Tail(@)]
                 /\ UNCHANGED answer
            ELSE Complete(graph)
  BY DEF ReadExpand
<1> PICK graph : graph = WithFinding(req, mergeWorking(reader.graph, g), reader.focus)
  OBVIOUS
<1>4. (settled => req.scan \in written) /\ (Whole(req, settled) => Grounded(req))
  BY <1>2 DEF ReaderSound
<1>5. ASSUME Whole(req, settled)
      PROVE  Underway(req, rest, graph) /\ (Len(reader.todo) > 1 <=> rest # <<>>)
  <2> PICK x : x = reader
    OBVIOUS
  <2>1. ReaderSound(x) /\ x.phase = "expand" /\ GraphSound(x.graph) /\ Whole(req, x.settled)
    BY <1>1, <1>2, <1>5
  <2>2. g \in expandFromAsset(db, arn, req.scan, req.mode)
    OBVIOUS
  <2>3. graph = WithFinding(req, mergeWorking(x.graph, g), x.focus)
    OBVIOUS
  <2>4. req = x.req /\ arn = Head(x.todo) /\ rest = Tail(x.todo)
    OBVIOUS
  <2> QED
    BY <2>1, <2>2, <2>3, <2>4, OneMoreIsExpanded
<1>6. CASE Len(reader.todo) > 1
  <2> PICK x : x = [phase |-> "expand", req |-> req, settled |-> settled, todo |-> rest,
                    focus |-> reader.focus, graph |-> graph]
    OBVIOUS
  <2>1. reader' = [reader EXCEPT !.graph = graph, !.todo = rest] /\ UNCHANGED answer
    BY <1>3, <1>6
  <2>2. reader' = x
    <3>1. reader' = [phase |-> reader.phase, req |-> reader.req, settled |-> reader.settled,
                     todo |-> rest, focus |-> reader.focus, graph |-> graph]
      BY <1>2, <2>1
    <3>2. reader.phase = "expand"
      BY <1>1
    <3> QED
      BY <3>1, <3>2
  <2>3. ReaderSound(x)
    BY <1>4, <1>5, <1>6 DEF ReaderSound
  <2> QED
    BY <2>1, <2>2, <2>3, ReaderIsSound
<1>7. CASE ~(Len(reader.todo) > 1)
  <2>1. Complete(graph)
    BY <1>3, <1>7
  <2>2. ASSUME Whole(req, settled) PROVE Drawn(graph) = Expected(req)
    <3>1. PICK done : Sought(req, done, rest) /\ Drawn(graph) = ReachOf(req, done)
      BY <1>5, <2>2 DEF Underway
    <3>2. Range(rest) = {}
      BY <1>5, <1>7, <2>2 DEF Range
    <3>3. StartsOf(req) = done \cap ArnsOf(disk[req.scan])
      BY <3>1, <3>2 DEF Sought
    <3>4. ReachOf(req, done) = Expected(req)
      BY <3>3 DEF ReachOf, Expected, Attack
    <3> QED
      BY <3>1, <3>4
  <2> QED
    BY <1>1, <2>1, <2>2, CompleteIsSound
<1> QED
  BY <1>6, <1>7

\* Every step of a request leaves what was read and what is answered sound.
LEMMA BlastStepIsSound ==
  ASSUME ExportInv, SourceInv, \A scan \in DOMAIN disk : Traceable(disk[scan]),
         AnswerInv, WalkInv, BlastStep
  PROVE  WalkInv'
<1>1. Reading
  BY DEF BlastStep, graphVars, Reading
<1>2. CASE ReadContext
  BY <1>1, <1>2, ReadContextIsSound
<1>3. CASE ReadExpand
  BY <1>1, <1>3, ReadExpandIsSound
<1>4. CASE ReadHop
  BY <1>1, <1>4, ReadHopIsSound
<1>5. CASE ReadFails
  BY <1>1, <1>5, ReadFailsIsSound
<1>6. CASE Send
  BY <1>1, <1>6, SentIsSound DEF Send
<1> QED
  BY <1>2, <1>3, <1>4, <1>5, <1>6 DEF BlastStep

\* What the evidence of a finding says by itself is in its signals.
LEMMA SignalsSayIt ==
  ASSUME NEW req, req.kind = "finding", NEW f \in FindingOf(req),
         NEW s, s = privilegeSignalsFromFinding(f)
  PROVE  /\ s.admin => SignalsOf(req).admin
         /\ s.iamWrite => SignalsOf(req).iamWrite
<1> PICK S : S = {privilegeSignalsFromFinding(x) : x \in FindingOf(req)}
  OBVIOUS
<1>1. s \in S
  OBVIOUS
<1>2. SignalsOf(req) = combineSignals(S)
  BY DEF SignalsOf
<1>3. /\ combineSignals(S).admin = \E t \in S : t.admin
      /\ combineSignals(S).iamWrite = \E t \in S : t.iamWrite
  BY <1>1 DEF combineSignals
<1> QED
  BY <1>1, <1>2, <1>3

\* The trust of an outsider begins at the resource of its finding, so that the
\* walk takes it whatever the mode and the bound.
LEMMA OutsiderIsExpected ==
  ASSUME NEW req, req.kind = "finding", NEW f \in FindingOf(req), Traceable(disk[req.scan]),
         f.external # None
  PROVE  \E e \in Expected(req) : e.type = "TRUSTS"
<1> PICK art : art = disk[req.scan]
  OBVIOUS
<1>1. f \in art.findings
  BY DEF FindingOf
<1>2. PICK e \in Edges(art) : e.type = "TRUSTS" /\ e.src = f.arn
  BY <1>1 DEF Traceable
<1>3. e.src \in {n.arn : n \in art.assets}
  BY <1>2 DEF Edges
<1>4. e.src \in StartsOf(req)
  BY <1>2, <1>3 DEF StartsOf
<1>5. MaxHops \in Nat \ {0} /\ Attack(req) \in BOOLEAN
  BY BoundsAssumption DEF Attack
<1> PICK starts : starts = StartsOf(req)
  OBVIOUS
<1>6. e \in Reach(Edges(art), starts, MaxHops, Attack(req))
  BY <1>4, <1>5, FirstStepIsReached
<1>7. e \in Expected(req)
  BY <1>6 DEF Expected, Attack
<1> QED
  BY <1>2, <1>7

\* What a finding escalates by itself it escalates with its graph.
LEMMA EscalationSurvives ==
  ASSUME NEW req, req.kind = "finding", Grounded(req), Traceable(disk[req.scan]),
         NEW graph, Drawn(graph) = Expected(req), Fallback(req, None).escalation
  PROVE  escalationPossibleFromSignals(graph, SignalsOf(req))
<1> PICK f : f = CHOOSE x \in FindingOf(req) : TRUE
  OBVIOUS
<1> PICK s : s = privilegeSignalsFromFinding(f)
  OBVIOUS
<1>1. f \in FindingOf(req)
  BY DEF Grounded
<1>2. s.admin \/ s.iamWrite \/ s.external
  <2> PICK t : t = BuildSummaryPayload(NoGraph, None, s, FALSE, None)
    OBVIOUS
  <2>1. Fallback(req, None) = [t EXCEPT !.escalation = s.admin \/ s.iamWrite \/ s.external]
    BY DEF Fallback, fallbackSummary
  <2>2. IsSummary(t)
    BY NoGraphNoSummary
  <2> QED
    BY <2>1, <2>2 DEF IsSummary
<1>3. (s.admin => SignalsOf(req).admin) /\ (s.iamWrite => SignalsOf(req).iamWrite)
  BY <1>1, SignalsSayIt
<1>4. s.external <=> f.external # None
  BY DEF privilegeSignalsFromFinding
<1>5. ASSUME f.external # None PROVE detectGraphMotifs(graph).trust
  <2>1. PICK e \in Expected(req) : e.type = "TRUSTS"
    BY <1>1, <1>5, OutsiderIsExpected
  <2>2. e \in Trusts(graph)
    BY <2>1 DEF Drawn, Trusts
  <2> QED
    BY <2>2 DEF detectGraphMotifs
<1> QED
  BY <1>2, <1>3, <1>4, <1>5 DEF escalationPossibleFromSignals

-----------------------------------------------------------------------------
(* What an expansion adds to the screen.                                   *)

\* The other end of a relationship.
Neighbor(e, id) == IF e.dst = id THEN e.src ELSE e.dst

\* The heavier of two relationships, and of two as heavy the one whose strings
\* come first.
Heavier(weight, a, b) ==
  \/ weight[a] > weight[b]
  \/ weight[a] = weight[b] /\ Rank[a.src] < Rank[b.src]
  \/ weight[a] = weight[b] /\ a.src = b.src /\ Rank[a.dst] < Rank[b.dst]
  \/ /\ weight[a] = weight[b] /\ a.src = b.src /\ a.dst = b.dst
     /\ Rank[a.type] < Rank[b.type]

\* That is a strict total order.
LEMMA HeaviestAreListed ==
  ASSUME NEW S, IsFiniteSet(S), S \subseteq Named, NEW weight \in [S -> Int], NEW less,
         \A x, y \in S : <<x, y>> \in less <=> Heavier(weight, x, y)
  PROVE  /\ Lists(Lined(S, less), S)
         /\ \A x, y \in S : ~(Heavier(weight, x, y) /\ Heavier(weight, y, x))
<1>1. \A x \in S : /\ {x.src, x.dst, x.type} \subseteq DOMAIN Rank
                   /\ {Rank[x.src], Rank[x.dst], Rank[x.type]} \subseteq Nat
                   /\ weight[x] \in Int
  BY OrderIsTotal DEF Named
<1>2. \A x, y \in S : x.src = y.src /\ x.dst = y.dst /\ x.type = y.type => x = y
  BY DEF Named
<1>3. \A x, y \in S : x # y => Heavier(weight, x, y) \/ Heavier(weight, y, x)
  BY <1>1, <1>2, OrderIsTotal DEF Heavier
<1>4. /\ \A x \in S : ~Heavier(weight, x, x)
      /\ \A x, y, z \in S : Heavier(weight, x, y) /\ Heavier(weight, y, z) => Heavier(weight, x, z)
  BY <1>1 DEF Heavier
<1>5. Lists(Lined(S, less), S)
  BY <1>3, <1>4, PlacesAreTaken
<1> QED
  BY <1>4, <1>5

\* The first of a list are members.
LEMMA FirstAreMembers ==
  ASSUME NEW S, NEW seq, Lists(seq, S), NEW n \in Nat
  PROVE  ToSet(FirstN(seq, n)) \subseteq S
<1>1. seq \in Seq(S) /\ Len(seq) \in Nat
  BY DEF Lists
<1> PICK m : m = IF Len(seq) < n THEN Len(seq) ELSE n
  OBVIOUS
<1>2. m \in Nat /\ m <= Len(seq)
  BY <1>1
<1>3. SubSeq(seq, 1, m) \in Seq(S)
  BY <1>1, <1>2
<1>4. FirstN(seq, n) \in Seq(S)
  BY <1>3 DEF FirstN
<1> QED
  BY <1>4, ElementOfSeq, LenProperties DEF ToSet

\* Of the relationships of a node, one is kept for each neighbour at most.
LEMMA OneForEachNeighbor ==
  ASSUME NEW id, NEW triples, IsFiniteSet(triples), triples \subseteq Named, NEW mode,
         NEW kept, kept = prioritizeOneHopTriples(id, triples, mode)
  PROVE  /\ kept \subseteq triples
         /\ \A e, x \in kept : Neighbor(e, id) = Neighbor(x, id) => e = x
<1> DEFINE w(e) == 3 + expansionSemanticWeight(e.type)
                     + If(mode = "attack_path" /\ e.type = "TRUSTS", 2)
                     + If(Neighbor(e, id) \in Accounts, 2)
                     + If(isCrossAccountEdge(NoGraph, e), 2)
                     - If(mode = "attack_path" /\ e.type = "OWNED_BY", 2)
<1>1. ASSUME NEW e PROVE w(e) \in Int
  BY DEF expansionSemanticWeight, If
<1> PICK weight : weight = [e \in triples |-> w(e)]
  OBVIOUS
<1>2. weight \in [triples -> Int] /\ \A e \in triples : weight[e] = w(e)
  BY <1>1
<1> DEFINE heavier(a, b) ==
             \/ w(a) > w(b)
             \/ w(a) = w(b) /\ Rank[a.src] < Rank[b.src]
             \/ w(a) = w(b) /\ a.src = b.src /\ Rank[a.dst] < Rank[b.dst]
             \/ /\ w(a) = w(b) /\ a.src = b.src /\ a.dst = b.dst
                /\ Rank[a.type] < Rank[b.type]
           best == {e \in triples : \A x \in triples \ {e} :
                      Neighbor(x, id) = Neighbor(e, id) => heavier(e, x)}
           less == {p \in best \X best : heavier(p[1], p[2])}
<1>3. kept = ToSet(FirstN(Lined(best, less), HopNeighbors))
  BY DEF prioritizeOneHopTriples, InOrder, Neighbor
<1> HIDE DEF w
<1>4. \A a, b \in triples : heavier(a, b) <=> Heavier(weight, a, b)
  BY <1>2 DEF Heavier
<1>5. /\ best \subseteq triples
      /\ \A e, x \in best : e # x /\ Neighbor(e, id) = Neighbor(x, id)
                              => Heavier(weight, e, x) /\ Heavier(weight, x, e)
  BY <1>4
<1>6. \A a, b \in best : <<a, b>> \in less <=> Heavier(weight, a, b)
  BY <1>4
<1> HIDE DEF heavier, best, less
<1>7. IsFiniteSet(best) /\ best \subseteq Named
  BY <1>5, FS_Subset
<1> PICK wb : wb = [e \in best |-> weight[e]]
  OBVIOUS
<1>8. wb \in [best -> Int] /\ \A a, b \in best : Heavier(wb, a, b) <=> Heavier(weight, a, b)
  BY <1>2, <1>5 DEF Heavier
<1>9. /\ Lists(Lined(best, less), best)
      /\ \A x, y \in best : ~(Heavier(wb, x, y) /\ Heavier(wb, y, x))
  BY <1>6, <1>7, <1>8, HeaviestAreListed
<1>10. kept \subseteq best
  BY <1>3, <1>9, FirstAreMembers, BoundsAssumption
<1> QED
  BY <1>5, <1>8, <1>9, <1>10

\* The relationships of one node, and no two of them between the same ends.
Around(edges, id) ==
  /\ \A e \in edges : id \in {e.src, e.dst}
  /\ \A e, x \in edges : EndsOf({e}) = EndsOf({x}) => e = x

\* What LIMIT leaves of the rows of a query are some of them.
LEMMA LimitedAreRows ==
  ASSUME NEW rows, IsFiniteSet(rows), NEW n \in Nat, NEW left \in Limited(rows, n)
  PROVE  left \subseteq rows
<1>1. CASE Cardinality(rows) <= n
  BY <1>1 DEF Limited
<1>2. CASE ~(Cardinality(rows) <= n)
  <2>1. left \in kSubset(n, rows)
    BY <1>2 DEF Limited
  <2> QED
    BY <2>1 DEF kSubset
<1> QED
  BY <1>1, <1>2

\* Whatever the database returns for one more hop is around the node.
LEMMA HopIsAround ==
  ASSUME NEW g, IsFiniteSet(g.edges), g.edges \subseteq Named, NEW id, NEW scan, NEW mode,
         NEW h \in expandOneHopFromNode(g, id, scan, mode)
  PROVE  GraphSound(h) /\ Around(h.edges, id)
<1>1. PICK triples \in cypherExpandOneHop(g, id, scan) :
        h = hydrateAssets(addTriples(NoGraph, prioritizeOneHopTriples(id, triples, mode)), g, scan)
  BY DEF expandOneHopFromNode
<1> PICK kept : kept = prioritizeOneHopTriples(id, triples, mode)
  OBVIOUS
<1>2. triples \subseteq {e \in g.edges : id \in {e.src, e.dst}}
  <2>1. CASE id \in Accounts \/ InScan(g, id, scan)
    <3> DEFINE other(e) == IF e.src = id THEN e.dst ELSE e.src
               all == {e \in Walkable(g) : /\ id \in {e.src, e.dst}
                                           /\ other(e) \in Accounts \/ InScan(g, other(e), scan)}
    <3>1. triples \in Limited(all, HopEdges)
      BY <2>1 DEF cypherExpandOneHop
    <3>2. all \subseteq {e \in g.edges : id \in {e.src, e.dst}}
      BY DEF Walkable
    <3> HIDE DEF all
    <3>3. IsFiniteSet(all)
      BY <3>2, FS_Subset
    <3> QED
      BY <3>1, <3>2, <3>3, LimitedAreRows, BoundsAssumption
  <2>2. CASE ~(id \in Accounts \/ InScan(g, id, scan))
    BY <2>2 DEF cypherExpandOneHop
  <2> QED
    BY <2>1, <2>2
<1>3. IsFiniteSet(triples) /\ triples \subseteq Named
  BY <1>2, FS_Subset
<1>4. /\ kept \subseteq triples
      /\ \A e, x \in kept : Neighbor(e, id) = Neighbor(x, id) => e = x
  BY <1>3, OneForEachNeighbor
<1>5. h.edges = kept
  BY <1>1 DEF hydrateAssets, mergeWorking, addTriples, NoGraph
<1>6. GraphSound(h)
  BY <1>1, NoGraphIsSound, TriplesAddedSoundly, HydratedSoundly
<1>7. ASSUME NEW e \in kept, NEW x \in kept, EndsOf({e}) = EndsOf({x})
      PROVE  e = x
  <2>1. {e.src, e.dst} = {x.src, x.dst} /\ id \in {e.src, e.dst} /\ id \in {x.src, x.dst}
    BY <1>2, <1>4, <1>7 DEF EndsOf
  <2> QED
    BY <1>4, <2>1 DEF Neighbor
<1> QED
  BY <1>2, <1>4, <1>5, <1>6, <1>7 DEF Around

\* What is new on the screen, where the delta is shown on the graph.
New(base, delta, id) ==
  LET edges == {x.edge : x \in delta.edges}
      ids == {x.id : x \in delta.nodes}
  IN  /\ edges \cap base.edges = {} /\ ids \cap DOMAIN base.nodes = {}
      /\ EndsOf(edges) \subseteq DOMAIN base.nodes \cup ids
      /\ Around(edges, id)

\* Of such a graph the screen gets what it has not.
LEMMA DeltaIsNew ==
  ASSUME NEW base, NEW g, GraphSound(g), NEW id, Around(g.edges, id), NEW mode,
         NEW d, d = BuildExplorerExpansionDelta(base, g, mode), d.applied
  PROVE  New(base, d, id)
<1> PICK edges : edges = g.edges \ base.edges
  OBVIOUS
<1> PICK nodes : nodes = DOMAIN g.nodes \ DOMAIN base.nodes
  OBVIOUS
<1> DEFINE drawn(e) == DrawnEdge(g, e, /\ mode = "attack_path"
                                       /\ semanticEdgeType(g, e) \in {"ASSUME_ROLE",
                                            "CROSS_ACCOUNT_ASSUME_ROLE", "EXTERNAL_TRUST"})
<1> PICK any : any = (edges # {})
  OBVIOUS
<1> PICK N : N = IF edges = {} THEN {} ELSE {DrawnNode(g, x, {}) : x \in nodes}
  OBVIOUS
<1> PICK E : E = {drawn(e) : e \in edges}
  OBVIOUS
<1>1. d = [applied |-> any, nodes |-> N, edges |-> E]
  BY DEF BuildExplorerExpansionDelta
<1>2. d.nodes = N /\ d.edges = E
  BY <1>1
<1>3. N = {DrawnNode(g, x, {}) : x \in nodes}
  <2>1. CASE edges = {}
    <3>1. any = FALSE
      BY <2>1
    <3>2. d = [applied |-> FALSE, nodes |-> N, edges |-> E]
      BY <1>1, <3>1
    <3>3. ~d.applied
      BY <3>2
    <3> QED
      BY <3>3
  <2> QED
    BY <2>1
<1>4. \A x : DrawnNode(g, x, {}).id = x
  BY DEF DrawnNode
<1> PICK ids : ids = {x.id : x \in d.nodes}
  OBVIOUS
<1>5. ids = nodes
  BY <1>2, <1>3, <1>4
<1>6. \A e : drawn(e).edge = e
  BY DEF DrawnEdge
<1> HIDE DEF drawn
<1> PICK new : new = {x.edge : x \in d.edges}
  OBVIOUS
<1>7. new = edges
  BY <1>2, <1>6
<1>8. new \subseteq g.edges
  BY <1>7
<1>9. EndsOf(new) \subseteq DOMAIN g.nodes
  BY <1>8 DEF GraphSound, EndsOf
<1>10. Around(new, id)
  BY <1>8 DEF Around
<1>11. new \cap base.edges = {} /\ ids \cap DOMAIN base.nodes = {}
  BY <1>5, <1>7
<1>12. EndsOf(new) \subseteq DOMAIN base.nodes \cup ids
  BY <1>5, <1>9
<1> QED
  BY <1>10, <1>11, <1>12 DEF New

\* A hop shows what was not on the screen.
LEMMA HopShowsNew ==
  ASSUME ReadHop, IsFiniteSet(db.edges), db.edges \subseteq Named
  PROVE  ExpansionIsNew'
<1> PICK req : req = reader.req
  OBVIOUS
<1> PICK base : base = reader.graph
  OBVIOUS
<1>1. PICK g \in expandOneHopFromNode(db, req.node, req.scan, req.mode) :
        \E settled, summary :
          Answer(req, settled, summary, base, NoPayload,
                 BuildExplorerExpansionDelta(base, g, req.mode))
  BY DEF ReadHop
<1> PICK d : d = BuildExplorerExpansionDelta(base, g, req.mode)
  OBVIOUS
<1>2. answer'.req = req /\ answer'.graph = base /\ answer'.delta = d
  BY <1>1 DEF Answer
<1> PICK id : id = req.node
  OBVIOUS
<1>3. GraphSound(g) /\ Around(g.edges, id)
  BY HopIsAround
<1>4. d.applied => New(base, d, id)
  BY <1>3, DeltaIsNew
<1> QED
  BY <1>2, <1>4 DEF ExpansionIsNew, New, Around

\* An answer that adds nothing to the screen.
NothingNew(a) == a = NoAnswer \/ a.delta = NoDelta

\* Such an answer cannot add what is there already.
LEMMA NothingShown ==
  ASSUME NothingNew(answer')
  PROVE  ExpansionIsNew'
BY DEF NothingNew, ExpansionIsNew, NoDelta

\* An answer without the graph has nothing to add.
LEMMA WithoutShowsNothing ==
  ASSUME NEW req, NEW settled, NEW summary, AnswerWithout(req, settled, summary)
  PROVE  ExpansionIsNew'
BY NothingShown DEF AnswerWithout, Answer, NothingNew

\* What was on the screen stays.
LEMMA ExpansionLeft ==
  ASSUME ExpansionIsNew, UNCHANGED answer
  PROVE  ExpansionIsNew'
BY DEF ExpansionIsNew

\* To serve a request adds nothing.
LEMMA ServeShowsNothing ==
  ASSUME ExpansionIsNew, NEW req, Serve(req)
  PROVE  ExpansionIsNew'
<1>1. \/ \E settled, summary : AnswerWithout(req, settled, summary)
      \/ UNCHANGED answer
  BY DEF Serve, Read
<1> QED
  BY <1>1, WithoutShowsNothing, ExpansionLeft

\* Of the steps of a request, the hop alone adds to the screen.
LEMMA BlastStepShowsNew ==
  ASSUME ExpansionIsNew, BlastStep, IsFiniteSet(db.edges), db.edges \subseteq Named
  PROVE  ExpansionIsNew'
<1>1. CASE ReadContext \/ ReadFails
  <2>1. \/ \E req, settled, summary : AnswerWithout(req, settled, summary)
        \/ UNCHANGED answer
    BY <1>1 DEF ReadContext, ReadFails, Read
  <2> QED
    BY <2>1, WithoutShowsNothing, ExpansionLeft
<1>2. CASE ReadExpand
  <2>1. UNCHANGED answer \/ \E graph : Complete(graph)
    BY <1>2 DEF ReadExpand
  <2>2. ASSUME NEW graph, Complete(graph)
        PROVE  UNCHANGED answer \/ NothingNew(answer')
    <3>1. \/ \E req, settled, summary, payload :
               Answer(req, settled, summary, graph, payload, NoDelta)
          \/ UNCHANGED answer
      BY <2>2 DEF Complete
    <3> QED
      BY <3>1 DEF Answer, NothingNew
  <2> QED
    BY <2>1, <2>2, ExpansionLeft, NothingShown
<1>3. CASE ReadHop
  BY <1>3, HopShowsNew
<1>4. CASE Send
  BY <1>4, NothingShown DEF Send, NothingNew
<1> QED
  BY <1>1, <1>2, <1>3, <1>4 DEF BlastStep
-----------------------------------------------------------------------------
(* Lists without repetition, and functions that are defined by recursion.  *)

\* Every member of S, once.
ListsOnce(seq, S) == Lists(seq, S) /\ IsInjective(seq)

\* The members of S in a strict total order are listed once.
LEMMA OrderedOnce ==
  ASSUME NEW S, IsFiniteSet(S), NEW less,
         \A x, y \in S : x # y => <<x, y>> \in less \/ <<y, x>> \in less,
         \A x \in S : <<x, x>> \notin less,
         \A x, y, z \in S : <<x, y>> \in less /\ <<y, z>> \in less => <<x, z>> \in less
  PROVE  /\ ListsOnce(Lined(S, less), S)
         /\ \A i, j \in DOMAIN Lined(S, less) :
              i < j => <<Lined(S, less)[i], Lined(S, less)[j]>> \in less
<1> PICK seq : seq = Lined(S, less)
  OBVIOUS
<1>1. /\ Lists(seq, S) /\ Len(seq) = Cardinality(S)
      /\ \A i, j \in 1..Cardinality(S) : i < j => <<seq[i], seq[j]>> \in less
  BY PlacesAreTaken
<1>2. DOMAIN seq = 1..Cardinality(S) /\ Cardinality(S) \in Nat
  BY <1>1, LenProperties, FS_CardinalityType DEF Lists
<1>3. \A i, j \in DOMAIN seq : i < j => <<seq[i], seq[j]>> \in less
  BY <1>1, <1>2
<1>4. IsInjective(seq)
  <2> SUFFICES ASSUME NEW i \in DOMAIN seq, NEW j \in DOMAIN seq, seq[i] = seq[j], i < j
               PROVE  FALSE
    BY <1>2 DEF IsInjective
  <2>1. <<seq[i], seq[i]>> \in less /\ seq[i] \in S
    BY <1>1, <1>3 DEF Lists, Range
  <2> QED
    BY <2>1
<1> QED
  BY <1>1, <1>3, <1>4 DEF ListsOnce

\* A list without repetition is as long as the set is large.
LEMMA OnceIsAsMany ==
  ASSUME NEW S, NEW seq, ListsOnce(seq, S)
  PROVE  IsFiniteSet(S) /\ Cardinality(S) = Len(seq)
<1>1. Len(seq) \in Nat /\ seq \in [1..Len(seq) -> S] /\ DOMAIN seq = 1..Len(seq)
  BY LenProperties DEF ListsOnce, Lists
<1>2. seq \in Bijection(1..Len(seq), S)
  BY <1>1 DEF ListsOnce, Lists, IsInjective, Bijection, Injection, Surjection, Range
<1>3. IsFiniteSet(1..Len(seq)) /\ Cardinality(1..Len(seq)) = Len(seq)
  BY <1>1, FS_Interval
<1> QED
  BY <1>2, <1>3, FS_Bijection DEF ExistsBijection

\* What is kept of a list without repetition.
LEMMA KeptOnce ==
  ASSUME NEW S, NEW seq, ListsOnce(seq, S), NEW T, NEW kept, kept = Kept(seq, T)
  PROVE  ListsOnce(kept, S \cap T)
<1>1. Len(seq) \in Nat /\ seq \in [1..Len(seq) -> S] /\ DOMAIN seq = 1..Len(seq)
  BY LenProperties DEF ListsOnce, Lists
<1> PICK I : I = {i \in DOMAIN seq : seq[i] \in T}
  OBVIOUS
<1> PICK less : less = {p \in I \X I : p[1] < p[2]}
  OBVIOUS
<1> PICK at : at = Lined(I, less)
  OBVIOUS
<1>2. kept = [k \in DOMAIN at |-> seq[at[k]]]
  BY DEF Kept, Each, InOrder
<1>3. IsFiniteSet(I) /\ \A i \in I : i \in Nat
  <2>1. IsFiniteSet(1..Len(seq)) /\ I \subseteq 1..Len(seq)
    BY <1>1, FS_Interval
  <2> QED
    BY <2>1, FS_Subset
<1>4. ListsOnce(at, I)
  BY <1>3, OrderedOnce
<1>5. Len(at) \in Nat /\ at \in [1..Len(at) -> I] /\ DOMAIN at = 1..Len(at)
  BY <1>4, LenProperties DEF ListsOnce, Lists
<1>6. kept \in [1..Len(at) -> S \cap T]
  BY <1>1, <1>2, <1>5
<1>7. kept \in Seq(S \cap T) /\ Len(kept) = Len(at)
  <2> PICK U : U = S \cap T
    OBVIOUS
  <2>1. kept \in Seq(U) /\ Len(kept) = Len(at)
    BY <1>5, <1>6, IsASequence
  <2> QED
    BY <2>1
<1>8. IsInjective(kept)
  BY <1>1, <1>2, <1>4, <1>5 DEF ListsOnce, IsInjective
<1>9. Range(kept) = S \cap T
  <2>1. ASSUME NEW x \in S \cap T PROVE x \in Range(kept)
    <3>1. PICK i \in DOMAIN seq : seq[i] = x
      BY DEF ListsOnce, Lists, Range
    <3>2. i \in I /\ I = Range(at)
      BY <1>4, <3>1 DEF ListsOnce, Lists
    <3>3. PICK k \in DOMAIN at : at[k] = i
      BY <3>2 DEF Range
    <3>4. k \in DOMAIN kept /\ kept[k] = x
      BY <1>2, <3>1, <3>3
    <3> QED
      BY ONLY <3>4 DEF Range
  <2>2. \A k \in DOMAIN kept : kept[k] \in S \cap T
    BY <1>2, <1>5, <1>6
  <2> QED
    BY <2>1, <2>2 DEF Range
<1> QED
  BY <1>7, <1>8, <1>9 DEF ListsOnce, Lists

\* Two lists that have nothing in common are one after the other a list.
LEMMA JoinedOnce ==
  ASSUME NEW S, NEW T, NEW s, NEW t, ListsOnce(s, S), ListsOnce(t, T), S \cap T = {}
  PROVE  ListsOnce(s \o t, S \cup T)
<1> PICK U : U = S \cup T
  OBVIOUS
<1> PICK u : u = s \o t
  OBVIOUS
<1>1. s \in Seq(U) /\ t \in Seq(U)
  BY SeqMonotonic DEF ListsOnce, Lists
<1>2. /\ Len(s) \in Nat /\ DOMAIN s = 1..Len(s)
      /\ Len(t) \in Nat /\ DOMAIN t = 1..Len(t)
  BY <1>1, LenProperties
<1>3. /\ u \in Seq(U) /\ Len(u) = Len(s) + Len(t)
      /\ \A i \in 1..(Len(s) + Len(t)) : u[i] = IF i <= Len(s) THEN s[i] ELSE t[i - Len(s)]
  BY <1>1, ConcatProperties
<1>4. DOMAIN u = 1..(Len(s) + Len(t))
  BY <1>3, LenProperties
<1>5. Range(u) = U
  BY <1>1, RangeConcatenation DEF ListsOnce, Lists
<1>6. ASSUME NEW i \in DOMAIN u PROVE \/ i \in DOMAIN s /\ u[i] = s[i] /\ u[i] \in S
                                      \/ i - Len(s) \in DOMAIN t /\ u[i] = t[i - Len(s)] /\ u[i] \in T
  <2>1. CASE i <= Len(s)
    BY <1>2, <1>3, <1>4, <2>1 DEF ListsOnce, Lists, Range
  <2>2. CASE i > Len(s)
    BY <1>2, <1>3, <1>4, <2>2 DEF ListsOnce, Lists, Range
  <2> QED
    BY <1>2, <1>4, <2>1, <2>2
<1>7. IsInjective(u)
  <2> SUFFICES ASSUME NEW i \in DOMAIN u, NEW j \in DOMAIN u, u[i] = u[j] PROVE i = j
    BY DEF IsInjective
  <2>1. \/ i \in DOMAIN s /\ j \in DOMAIN s /\ s[i] = s[j]
        \/ i - Len(s) \in DOMAIN t /\ j - Len(s) \in DOMAIN t /\ t[i - Len(s)] = t[j - Len(s)]
    BY <1>6
  <2> QED
    BY <1>2, <1>4, <2>1 DEF ListsOnce, IsInjective
<1> QED
  BY <1>3, <1>5, <1>7 DEF ListsOnce, Lists

\* The first of a list without repetition.
LEMMA FirstOnce ==
  ASSUME NEW S, NEW seq, ListsOnce(seq, S), NEW n \in Nat, NEW first, first = FirstN(seq, n)
  PROVE  /\ first \in Seq(S) /\ IsInjective(first)
         /\ first # <<>> => seq # <<>> /\ first[1] = seq[1]
         /\ Cardinality(S) <= n => first = seq
<1>1. Len(seq) \in Nat /\ seq \in Seq(S) /\ DOMAIN seq = 1..Len(seq)
  BY LenProperties DEF ListsOnce, Lists
<1>2. PICK m \in 0..Len(seq) : first = SubSeq(seq, 1, m)
  <2>1. CASE Len(seq) < n
    <3>1. first = SubSeq(seq, 1, Len(seq)) /\ Len(seq) \in 0..Len(seq)
      BY <1>1, <2>1 DEF FirstN
    <3> QED
      BY <3>1
  <2>2. CASE ~(Len(seq) < n)
    <3>1. first = SubSeq(seq, 1, n) /\ n \in 0..Len(seq)
      BY <1>1, <2>2 DEF FirstN
    <3> QED
      BY <3>1
  <2> QED
    BY <2>1, <2>2
<1>3. /\ m \in Nat /\ \A i \in 1..m : i \in 1..Len(seq)
      /\ \A i \in 1..m : seq[i] \in S
  <2>1. m \in Nat /\ \A i \in 1..m : i \in 1..Len(seq)
    BY <1>1
  <2> QED
    BY <1>1, <2>1, ElementOfSeq
<1>4. /\ first \in Seq(S) /\ Len(first) = m
      /\ \A i \in 1..m : first[i] = seq[i]
  <2>1. /\ SubSeq(seq, 1, m) \in Seq(S)
        /\ Len(SubSeq(seq, 1, m)) = IF 1 <= m THEN m - 1 + 1 ELSE 0
        /\ \A i \in 1..(m - 1 + 1) : SubSeq(seq, 1, m)[i] = seq[1 + i - 1]
    BY <1>2, <1>3, SubSeqProperties
  <2> QED
    BY <1>2, <1>3, <2>1
<1>5. DOMAIN first = 1..m
  BY <1>4, LenProperties
<1>6. IsInjective(first)
  BY <1>1, <1>3, <1>4, <1>5 DEF ListsOnce, IsInjective
<1>7. ASSUME first # <<>> PROVE seq # <<>> /\ first[1] = seq[1]
  <2>1. m # 0
    BY <1>4, <1>7, EmptySeq
  <2>2. 1 \in 1..m
    BY <1>3, <2>1
  <2>3. 1 \in 1..Len(seq) /\ first[1] = seq[1]
    BY <1>3, <1>4, <2>2
  <2> QED
    BY <1>1, <2>3, EmptySeq
<1>8. ASSUME Cardinality(S) <= n PROVE first = seq
  <2>1. Len(seq) <= n
    BY <1>8, OnceIsAsMany
  <2>2. Len(seq) < n \/ Len(seq) = n
    <3>1. \A k, j \in Nat : k <= j => k < j \/ k = j
      OBVIOUS
    <3> QED
      BY <1>1, <2>1, <3>1
  <2>3. first = SubSeq(seq, 1, Len(seq))
    BY <2>2 DEF FirstN
  <2> QED
    BY <1>1, <2>3, SubSeqFull
<1> QED
  BY <1>4, <1>6, <1>7, <1>8

\* The step gives d a value that depends on those of a lower rank.
Causal(step, rank, D, X) ==
  \A f, h \in X : \A d \in D :
    (\A e \in D : rank[e] < rank[d] => f[e] = h[e]) => step[f][d] = step[h][d]

\* From a function on D the step makes the next one; there are n ranks.
Recursion(D, V, X, base, step, n, rank) ==
  /\ X = [D -> V] /\ base \in X /\ step \in [X -> X]
  /\ n \in Nat /\ rank \in [D -> 0..n] /\ Causal(step, rank, D, X)

\* A function whose value at d depends on its values of a lower rank exists, if
\* there are finitely many ranks.
LEMMA RecursionExists ==
  ASSUME NEW D, NEW V, NEW X, NEW base, NEW step, NEW n, NEW rank,
         Recursion(D, V, X, base, step, n, rank)
  PROVE  \E h \in X : step[h] = h
<1> USE DEF Recursion
<1>1. PICK f : Unfolds(f, n + 1, X, base, step)
  <2>1. base \in X /\ step \in [X -> X] /\ n + 1 \in Nat
    OBVIOUS
  <2> QED
    BY <2>1, RecursionUnfolds
<1>2. /\ f \in [0..(n + 1) -> X]
      /\ \A k \in 0..n : f[k + 1] = step[f[k]] /\ k \in 0..(n + 1) /\ k + 1 \in 0..(n + 1)
  <2>1. ASSUME NEW k \in 0..n PROVE k + 1 \in 1..(n + 1) /\ (k + 1) - 1 = k /\ k \in 0..(n + 1)
    OBVIOUS
  <2>2. ASSUME NEW k \in 0..n PROVE f[k + 1] = step[f[k]]
    BY <1>1, <2>1 DEF Unfolds
  <2> QED
    BY <1>1, <2>1, <2>2 DEF Unfolds
<1> DEFINE settled == {k \in 0..(n + 1) : \A d \in D : rank[d] < k => step[f[k]][d] = f[k][d]}
<1>3. 0 \in settled
  BY <1>2
<1>4. ASSUME NEW k \in 0..(n + 1), k \in settled, k < n + 1 PROVE k + 1 \in settled
  <2>1. k \in 0..n
    BY <1>4
  <2>2. f[k + 1] = step[f[k]] /\ f[k] \in X /\ f[k + 1] \in X
    BY <1>2, <2>1
  <2>3. ASSUME NEW d \in D, rank[d] < k + 1 PROVE step[f[k + 1]][d] = f[k + 1][d]
    <3>1. \A e \in D : rank[e] < rank[d] => f[k + 1][e] = f[k][e]
      <4> SUFFICES ASSUME NEW e \in D, rank[e] < rank[d] PROVE f[k + 1][e] = f[k][e]
        OBVIOUS
      <4>1. rank[e] \in 0..n /\ rank[d] \in 0..n
        OBVIOUS
      <4>2. rank[e] < k
        BY <2>1, <2>3, <4>1
      <4> QED
        BY <1>4, <2>2, <4>2
    <3>2. step[f[k + 1]][d] = step[f[k]][d]
      BY <2>2, <3>1 DEF Causal
    <3> QED
      BY <2>2, <3>2
  <2> QED
    BY <1>2, <2>1, <2>3
<1>5. n + 1 \in settled
  <2> HIDE DEF settled
  <2>1. \A k \in 0..(n + 1) : k \in settled /\ k < n + 1 => k + 1 \in settled
    BY <1>4
  <2>2. n + 1 \in Nat
    OBVIOUS
  <2>3. 0..(n + 1) \subseteq settled
    BY <1>3, <2>1, <2>2, StepByStep
  <2> QED
    BY <2>3
<1> PICK h : h = f[n + 1]
  OBVIOUS
<1>6. h \in X
  BY <1>2
<1>7. ASSUME NEW d \in D PROVE step[h][d] = h[d]
  <2>1. rank[d] < n + 1
    OBVIOUS
  <2> QED
    BY <1>5, <2>1
<1>8. step[h] \in X
  BY <1>6
<1> QED
  BY <1>6, <1>7, <1>8

\* The function FlattenSeq is defined by.
Flattened(f, seqs, D) ==
  f = [i \in D |-> IF i = 1 THEN seqs[i] ELSE f[i - 1] \o seqs[i]]

\* It exists where what is joined stays in one set.
LEMMA FlattenExists ==
  ASSUME NEW D \in SUBSET Nat, NEW n \in Nat, \A i \in D : i <= n /\ (i # 1 => i - 1 \in D),
         NEW W, <<>> \in W, \A s, t \in W : s \o t \in W, NEW seqs \in [D -> W]
  PROVE  \E h : Flattened(h, seqs, D)
<1> PICK X : X = [D -> W]
  OBVIOUS
<1> DEFINE next(h, i) == IF i = 1 THEN seqs[i] ELSE h[i - 1] \o seqs[i]
           base == [i \in D |-> <<>>]
           step == [h \in X |-> [i \in D |-> next(h, i)]]
           rank == [i \in D |-> i]
<1>1. \A i \in D : i \in 0..n /\ i \in Int /\ (i # 1 => i - 1 \in D /\ i - 1 < i)
  OBVIOUS
<1>2. ASSUME NEW h \in X, NEW i \in D PROVE next(h, i) \in W
  <2>1. CASE i = 1
    BY <2>1
  <2>2. CASE i # 1
    <3>1. h[i - 1] \in W /\ seqs[i] \in W
      BY <1>1, <2>2
    <3> QED
      BY <2>2, <3>1
  <2> QED
    BY <2>1, <2>2
<1>3. ASSUME NEW f \in X, NEW h \in X, NEW i \in D,
             \A j \in D : j < i => f[j] = h[j]
      PROVE  next(f, i) = next(h, i)
  BY <1>1, <1>3
<1>4. base \in X /\ rank \in [D -> 0..n]
  BY <1>1
<1> HIDE DEF next
<1>5. step \in [X -> X]
  BY <1>2
<1>6. Causal(step, rank, D, X)
  <2>1. \A f \in X : \A i \in D : step[f][i] = next(f, i)
    OBVIOUS
  <2>2. \A i \in D : rank[i] = i
    OBVIOUS
  <2> HIDE DEF step, rank
  <2> SUFFICES ASSUME NEW f \in X, NEW h \in X, NEW i \in D,
                      \A j \in D : rank[j] < rank[i] => f[j] = h[j]
               PROVE  step[f][i] = step[h][i]
    BY DEF Causal
  <2>3. \A j \in D : j < i => f[j] = h[j]
    BY <2>2
  <2>4. next(f, i) = next(h, i)
    BY <1>3, <2>3
  <2> QED
    BY <2>1, <2>4
<1>7. PICK h \in X : step[h] = h
  <2> HIDE DEF base, step, rank
  <2>1. Recursion(D, W, X, base, step, n, rank)
    BY <1>4, <1>5, <1>6 DEF Recursion
  <2> QED
    BY <2>1, RecursionExists
<1>8. h = [i \in D |-> next(h, i)]
  BY <1>7
<1> QED
  BY <1>8 DEF next, Flattened

\* Its last value is what FlattenSeq returns.
LEMMA FlattenUnfolds ==
  ASSUME NEW V, NEW n \in Nat \ {0}, NEW seqs \in [1..n -> Seq(V)]
  PROVE  \E f : Flattened(f, seqs, 1..n) /\ FlattenSeq(seqs) = f[n]
<1> DEFINE next(h, i) == IF i = 1 THEN seqs[i] ELSE h[i - 1] \o seqs[i]
<1> PICK f : f = CHOOSE g : g = [i \in 1..n |-> next(g, i)]
  OBVIOUS
<1>1. f = [i \in 1..n |-> next(f, i)]
  <2>1. \E h : h = [i \in 1..n |-> next(h, i)]
    <3> PICK D : D = 1..n
      OBVIOUS
    <3> PICK W : W = Seq(V)
      OBVIOUS
    <3>1. D \in SUBSET Nat /\ n \in Nat /\ \A i \in D : i <= n /\ (i # 1 => i - 1 \in D)
      OBVIOUS
    <3>2. <<>> \in W /\ (\A s, t \in W : s \o t \in W) /\ seqs \in [D -> W]
      BY EmptySeq, ConcatProperties
    <3>3. PICK h : Flattened(h, seqs, D)
      BY <3>1, <3>2, FlattenExists
    <3> QED
      BY <3>3 DEF Flattened
  <2> HIDE DEF next
  <2> QED
    BY <2>1
<1>2. seqs \in Seq(Seq(V)) /\ Len(seqs) = n
  BY IsASequence
<1>3. FlattenSeq(seqs) = f[n]
  BY <1>2 DEF FlattenSeq
<1>4. Flattened(f, seqs, 1..n)
  BY <1>1 DEF Flattened
<1> QED
  BY <1>3, <1>4

\* Lists that have nothing in common are one after the other a list.
LEMMA FlattenedOnce ==
  ASSUME NEW V, NEW n \in Nat, NEW seqs, DOMAIN seqs = 1..n, NEW parts \in [1..n -> SUBSET V],
         seqs = [i \in 1..n |-> seqs[i]],
         \A i \in 1..n : ListsOnce(seqs[i], parts[i]),
         \A i, j \in 1..n : i # j => parts[i] \cap parts[j] = {},
         NEW U, \A x : x \in U <=> \E i \in 1..n : x \in parts[i]
  PROVE  ListsOnce(FlattenSeq(seqs), U)
<1>1. seqs \in [1..n -> Seq(V)]
  <2>1. ASSUME NEW i \in 1..n PROVE seqs[i] \in Seq(V)
    BY SeqMonotonic DEF ListsOnce, Lists
  <2> QED
    BY <2>1
<1>2. seqs \in Seq(Seq(V)) /\ Len(seqs) = n
  BY <1>1, IsASequence
<1>3. CASE n = 0
  <2>1. FlattenSeq(seqs) = seqs
    BY <1>2, <1>3 DEF FlattenSeq
  <2>2. seqs = <<>> /\ U = {}
    BY <1>2, <1>3, EmptySeq
  <2>3. ListsOnce(<<>>, {})
    BY DEF ListsOnce, Lists, IsInjective, Range
  <2> QED
    BY <2>1, <2>2, <2>3
<1>4. CASE n # 0
  <2>1. PICK f : Flattened(f, seqs, 1..n) /\ FlattenSeq(seqs) = f[n]
    BY <1>1, <1>4, FlattenUnfolds
  <2>2. \A i \in 1..n : f[i] = IF i = 1 THEN seqs[i] ELSE f[i - 1] \o seqs[i]
    BY <2>1 DEF Flattened
  <2> DEFINE first(k) == {x \in U : \E i \in 1..n : i <= k /\ x \in parts[i]}
             good == {k \in 0..n : k # 0 => ListsOnce(f[k], first(k))}
  <2>3. 0 \in good
    OBVIOUS
  <2>4. ASSUME NEW k \in 0..n, k \in good, k < n PROVE k + 1 \in good
    <3>1. k + 1 \in 1..n /\ (k + 1) - 1 = k
      BY <2>4
    <3> PICK part : part = parts[k + 1]
      OBVIOUS
    <3> PICK old : old = first(k)
      OBVIOUS
    <3> PICK new : new = first(k + 1)
      OBVIOUS
    <3>2. \A i \in 1..n : i <= k + 1 <=> i <= k \/ i = k + 1
      BY <3>1
    <3>3. new = old \cup part /\ old \cap part = {}
      <4>1. \A x : x \in new <=> x \in old \/ x \in part
        BY <3>1, <3>2
      <4>2. \A x : x \in old => x \notin part
        BY <3>1
      <4> QED
        BY <4>1, <4>2
    <3>4. ListsOnce(seqs[k + 1], part)
      BY <3>1
    <3>5. CASE k = 0
      <4>1. old = {} /\ f[k + 1] = seqs[k + 1]
        BY <2>2, <3>1, <3>5
      <4>2. new = part
        BY <3>3, <4>1
      <4>3. ListsOnce(f[k + 1], new)
        BY <3>4, <4>1, <4>2
      <4> QED
        BY <3>1, <4>3
    <3>6. CASE k # 0
      <4>1. ListsOnce(f[k], old)
        BY <2>4, <3>6
      <4>2. f[k + 1] = f[k] \o seqs[k + 1]
        <5>1. k + 1 # 1 /\ k + 1 \in 1..n /\ f[(k + 1) - 1] = f[k]
          BY <3>1, <3>6
        <5> HIDE DEF good, first
        <5> QED
          BY <2>2, <5>1
      <4>3. ListsOnce(f[k + 1], new)
        BY <3>3, <3>4, <4>1, <4>2, JoinedOnce
      <4> QED
        BY <3>1, <4>3
    <3> QED
      BY <3>5, <3>6
  <2>5. n \in good
    <3> HIDE DEF good
    <3>1. \A k \in 0..n : k \in good /\ k < n => k + 1 \in good
      BY <2>4
    <3>2. 0..n \subseteq good
      BY <2>3, <3>1, StepByStep
    <3> QED
      BY <3>2
  <2>6. first(n) = U
    OBVIOUS
  <2> QED
    BY <1>4, <2>1, <2>5, <2>6
<1> QED
  BY <1>3, <1>4

\* A set is good if all sets are that have one element less.
HandedOn(S, good) ==
  \A T \in SUBSET S : (\A x \in T : T \ {x} \in good) => T \in good

\* Then every finite set is.
LEMMA AllOfThem ==
  ASSUME NEW S, IsFiniteSet(S), NEW good, HandedOn(S, good)
  PROVE  SUBSET S \subseteq good
<1> SUFFICES ASSUME NEW B \in SUBSET S, B \notin good PROVE FALSE
  OBVIOUS
<1> DEFINE bad == {T \in SUBSET S : T \notin good}
<1>1. IsWellFoundedOn(StrictSubsetOrdering(S), SUBSET S)
  <2>1. IsFiniteSet(S)
    OBVIOUS
  <2> QED
    BY <2>1, FS_StrictSubsetOrderingWellFounded, FS_FiniteSubsetsOfFinite
<1>2. bad \subseteq SUBSET S /\ B \in bad
  OBVIOUS
<1>3. PICK T \in bad : \A U \in bad : <<U, T>> \notin StrictSubsetOrdering(S)
  <2> HIDE DEF bad
  <2> QED
    BY <1>1, <1>2, WFMin
<1>4. ASSUME NEW x \in T PROVE T \ {x} \in good
  <2>1. <<T \ {x}, T>> \in StrictSubsetOrdering(S)
    BY DEF StrictSubsetOrdering
  <2> QED
    BY <1>3, <2>1
<1> QED
  BY <1>4 DEF HandedOn

\* The element that is taken next.
Some(s) == CHOOSE x \in s : TRUE

\* The sums over the sets of P, one element after the other.
Sums(h, v, P) ==
  h = [s \in P |-> IF s = {} THEN 0 ELSE v[Some(s)] + h[s \ {Some(s)}]]

\* There are such sums.
LEMMA SumsExist ==
  ASSUME NEW P, NEW n \in Nat, NEW size \in [P -> 0..n], NEW v,
         \A s \in P : s # {} => /\ v[Some(s)] \in Int /\ s \ {Some(s)} \in P
                               /\ size[s \ {Some(s)}] < size[s]
  PROVE  \E h \in [P -> Int] : Sums(h, v, P)
<1> PICK X : X = [P -> Int]
  OBVIOUS
<1> DEFINE next(h, s) == IF s = {} THEN 0 ELSE v[Some(s)] + h[s \ {Some(s)}]
           base == [s \in P |-> 0]
           step == [h \in X |-> [s \in P |-> next(h, s)]]
<1>1. ASSUME NEW h \in X, NEW s \in P PROVE next(h, s) \in Int
  <2>1. CASE s = {}
    BY <2>1
  <2>2. CASE s # {}
    <3>1. v[Some(s)] \in Int /\ h[s \ {Some(s)}] \in Int
      BY <2>2
    <3> QED
      BY <2>2, <3>1
  <2> QED
    BY <2>1, <2>2
<1>2. ASSUME NEW f \in X, NEW h \in X, NEW s \in P,
             \A t \in P : size[t] < size[s] => f[t] = h[t]
      PROVE  next(f, s) = next(h, s)
  BY <1>2
<1> HIDE DEF next
<1>3. base \in X /\ step \in [X -> X]
  BY <1>1
<1>4. Causal(step, size, P, X)
  <2>1. \A f \in X : \A s \in P : step[f][s] = next(f, s)
    OBVIOUS
  <2> HIDE DEF step
  <2> SUFFICES ASSUME NEW f \in X, NEW h \in X, NEW s \in P,
                      \A t \in P : size[t] < size[s] => f[t] = h[t]
               PROVE  step[f][s] = step[h][s]
    BY DEF Causal
  <2>2. next(f, s) = next(h, s)
    BY <1>2
  <2> QED
    BY <2>1, <2>2
<1>5. PICK h \in X : step[h] = h
  <2> HIDE DEF base, step
  <2>1. Recursion(P, Int, X, base, step, n, size)
    BY <1>3, <1>4 DEF Recursion
  <2> QED
    BY <2>1, RecursionExists
<1>6. h = [s \in P |-> next(h, s)]
  BY <1>5
<1> QED
  BY <1>6 DEF Sums, next

\* The total is the last of them.
LEMMA TotalUnfolds ==
  ASSUME NEW D, IsFiniteSet(D), NEW v \in [D -> Int]
  PROVE  \E h \in [SUBSET D -> Int] : Sums(h, v, SUBSET D) /\ Total(v) = h[D]
<1> DEFINE sums(h) == h = [s \in SUBSET D |-> IF s = {} THEN 0 ELSE v[Some(s)] + h[s \ {Some(s)}]]
<1>1. PICK h \in [SUBSET D -> Int] : Sums(h, v, SUBSET D)
  <2> PICK P : P = SUBSET D
    OBVIOUS
  <2> PICK n : n = Cardinality(D)
    OBVIOUS
  <2> DEFINE size == [s \in P |-> Cardinality(s)]
  <2>1. n \in Nat
    BY FS_CardinalityType
  <2>2. ASSUME NEW s \in P PROVE IsFiniteSet(s) /\ Cardinality(s) \in 0..n
    BY <2>1, FS_Subset, FS_CardinalityType
  <2>3. ASSUME NEW s \in P, s # {}
        PROVE  /\ v[Some(s)] \in Int /\ s \ {Some(s)} \in P
               /\ size[s \ {Some(s)}] < size[s]
    <3>1. Some(s) \in s
      BY <2>3 DEF Some
    <3>2. Cardinality(s \ {Some(s)}) = Cardinality(s) - 1
      BY <2>2, <3>1, FS_RemoveElement
    <3>3. s \ {Some(s)} \in P /\ Cardinality(s) \in Nat /\ v[Some(s)] \in Int
      BY <2>1, <2>2, <3>1
    <3>4. Cardinality(s \ {Some(s)}) < Cardinality(s)
      BY <3>2, <3>3
    <3> QED
      BY <3>3, <3>4
  <2>4. size \in [P -> 0..n]
    BY <2>2
  <2> HIDE DEF size
  <2>5. \E h \in [P -> Int] : Sums(h, v, P)
    BY <2>1, <2>3, <2>4, SumsExist
  <2> QED
    BY <2>5
<1>2. sums(h)
  BY <1>1 DEF Sums
<1> HIDE DEF sums
<1>3. sums(CHOOSE g : sums(g))
  BY <1>2
<1> PICK f : f = CHOOSE g : sums(g)
  OBVIOUS
<1>4. Sums(f, v, SUBSET D)
  BY <1>3 DEF Sums, sums
<1>5. Total(v) = f[D]
  BY DEF Total, MapThenSumSet, MapThenFoldSet, sums, Some
<1>6. f = h
  <2>1. /\ f = [s \in SUBSET D |-> f[s]] /\ h = [s \in SUBSET D |-> h[s]]
        /\ f[{}] = 0 /\ h[{}] = 0
        /\ \A s \in SUBSET D : s # {} => /\ f[s] = v[Some(s)] + f[s \ {Some(s)}]
                                        /\ h[s] = v[Some(s)] + h[s \ {Some(s)}]
    <3>1. ASSUME NEW g, Sums(g, v, SUBSET D)
          PROVE  /\ g = [s \in SUBSET D |-> g[s]] /\ g[{}] = 0
                 /\ \A s \in SUBSET D : s # {} => g[s] = v[Some(s)] + g[s \ {Some(s)}]
      <4>1. DOMAIN g = SUBSET D /\ g = [s \in DOMAIN g |-> g[s]]
        BY <3>1 DEF Sums
      <4>2. \A s \in SUBSET D : g[s] = IF s = {} THEN 0 ELSE v[Some(s)] + g[s \ {Some(s)}]
        BY <3>1 DEF Sums
      <4> QED
        BY <4>1, <4>2
    <3> QED
      BY <1>1, <1>4, <3>1
  <2> DEFINE good == {s \in SUBSET D : f[s] = h[s]}
  <2>2. {} \in good
    BY <2>1
  <2>3. ASSUME NEW T \in SUBSET D, \A x \in T : T \ {x} \in good PROVE T \in good
    <3>1. CASE T = {}
      BY <2>2, <3>1
    <3>2. CASE T # {}
      <4>1. Some(T) \in T
        BY <3>2 DEF Some
      <4>2. f[T \ {Some(T)}] = h[T \ {Some(T)}]
        BY <2>3, <4>1
      <4> QED
        BY <2>1, <3>2, <4>2
    <3> QED
      BY <3>1, <3>2
  <2>4. HandedOn(D, good)
    <3> HIDE DEF good
    <3> QED
      BY <2>3 DEF HandedOn
  <2>5. SUBSET D \subseteq good
    <3> HIDE DEF good
    <3> QED
      BY <2>4, AllOfThem
  <2> QED
    BY <2>1, <2>5
<1> QED
  BY <1>1, <1>5, <1>6

\* It is a number.
LEMMA TotalIsNumber ==
  ASSUME NEW D, IsFiniteSet(D), NEW v \in [D -> Int]
  PROVE  Total(v) \in Int
<1>1. PICK h \in [SUBSET D -> Int] : Sums(h, v, SUBSET D) /\ Total(v) = h[D]
  BY TotalUnfolds
<1> QED
  BY <1>1

-----------------------------------------------------------------------------
(* The attack paths that are offered.                                      *)

\* The edges by which a path goes on to a node it has not met.
OnwardFrom(E, from, p) ==
  {e \in E : /\ e.src = (IF p = <<>> THEN from ELSE Last(p).dst)
             /\ e.dst \notin {from} \cup {p[i].dst : i \in DOMAIN p}}

\* Each edge begins where the one before it ends, and no node is met twice.
Chain(p, E, from) ==
  /\ p \in Seq(E)
  /\ \A i \in 1..Len(p) : /\ p[i].src = (IF i = 1 THEN from ELSE p[i - 1].dst)
                          /\ p[i].dst # from
                          /\ \A j \in 1..(i - 1) : p[j].dst # p[i].dst

\* The path with one edge more.
Longer(q, p, e) == q = Append(p, e)

\* A path goes on by the edges that lead onward.
LEMMA ChainGrows ==
  ASSUME NEW E, NEW from, NEW p, Chain(p, E, from), NEW e \in E, NEW q, Longer(q, p, e)
  PROVE  /\ q \in Seq(E) /\ Len(q) = Len(p) + 1 /\ \A i \in 1..Len(p) : q[i] = p[i]
         /\ q[Len(p) + 1] = e
         /\ Chain(q, E, from) <=> e \in OnwardFrom(E, from, p)
<1> PICK n : n = Len(p)
  OBVIOUS
<1>1. p \in Seq(E) /\ n \in Nat /\ DOMAIN p = 1..n
  BY LenProperties DEF Chain
<1>2. q \in Seq(E) /\ Len(q) = n + 1 /\ (\A i \in 1..n : q[i] = p[i]) /\ q[n + 1] = e
  BY <1>1, AppendProperties DEF Longer
<1> PICK at : at = IF n = 0 THEN from ELSE p[n].dst
  OBVIOUS
<1>3. e \in OnwardFrom(E, from, p)
        <=> e.src = at /\ e.dst # from /\ \A j \in 1..n : p[j].dst # e.dst
  <2>1. p = <<>> <=> n = 0
    BY <1>1, EmptySeq
  <2>2. Last(p) = p[n]
    BY DEF Last
  <2> QED
    BY <1>1, <2>1, <2>2 DEF OnwardFrom
<1>4. ASSUME Chain(q, E, from) PROVE e.src = at /\ e.dst # from /\ \A j \in 1..n : p[j].dst # e.dst
  <2>1. n + 1 \in 1..Len(q) /\ (n + 1) - 1 = n
    BY <1>1, <1>2
  <2>2. /\ q[n + 1].src = (IF n + 1 = 1 THEN from ELSE q[n].dst)
        /\ q[n + 1].dst # from
        /\ \A j \in 1..n : q[j].dst # q[n + 1].dst
    BY <1>4, <2>1 DEF Chain
  <2>3. n # 0 => q[n] = p[n]
    BY <1>1, <1>2
  <2> QED
    BY <1>1, <1>2, <2>2, <2>3
<1>5. ASSUME e.src = at, e.dst # from, \A j \in 1..n : p[j].dst # e.dst
      PROVE  Chain(q, E, from)
  <2> SUFFICES ASSUME NEW i \in 1..(n + 1)
               PROVE  /\ q[i].src = (IF i = 1 THEN from ELSE q[i - 1].dst)
                      /\ q[i].dst # from
                      /\ \A j \in 1..(i - 1) : q[j].dst # q[i].dst
    BY <1>2 DEF Chain
  <2>1. CASE i \in 1..n
    <3>1. q[i] = p[i] /\ \A j \in 1..(i - 1) : j \in 1..n /\ q[j] = p[j]
      BY <1>1, <1>2, <2>1
    <3>2. i # 1 => i - 1 \in 1..(i - 1)
      BY <1>1, <2>1
    <3> QED
      BY <2>1, <3>1, <3>2 DEF Chain
  <2>2. CASE i = n + 1
    <3>1. q[i] = e /\ i - 1 = n
      BY <1>1, <1>2, <2>2
    <3>2. n # 0 => n \in 1..n
      BY <1>1
    <3> QED
      BY <1>1, <1>2, <1>5, <2>2, <3>1, <3>2
  <2> QED
    BY <1>1, <2>1, <2>2
<1> QED
  BY <1>2, <1>3, <1>4, <1>5

\* A path that is not empty goes on from a shorter one.
LEMMA ChainShrinks ==
  ASSUME NEW E, NEW from, NEW q, Chain(q, E, from), q # <<>>
  PROVE  \E p : \E e \in OnwardFrom(E, from, p) :
           Chain(p, E, from) /\ Longer(q, p, e) /\ Len(p) = Len(q) - 1
<1>1. PICK p \in Seq(E), e \in E : q = Append(p, e)
  BY SequenceEmptyOrAppend DEF Chain
<1> HIDE DEF Longer
<1>5. Longer(q, p, e)
  BY <1>1 DEF Longer
<1>2. /\ Len(p) \in Nat /\ Len(q) = Len(p) + 1 /\ \A i \in 1..Len(p) : q[i] = p[i]
  BY <1>1, LenProperties, AppendProperties
<1>3. Chain(p, E, from)
  <2> SUFFICES ASSUME NEW i \in 1..Len(p)
               PROVE  /\ p[i].src = (IF i = 1 THEN from ELSE p[i - 1].dst)
                      /\ p[i].dst # from
                      /\ \A j \in 1..(i - 1) : p[j].dst # p[i].dst
    BY DEF Chain
  <2>1. i \in 1..Len(q) /\ q[i] = p[i] /\ \A j \in 1..(i - 1) : j \in 1..Len(p) /\ q[j] = p[j]
    BY <1>2
  <2>2. i # 1 => i - 1 \in 1..(i - 1)
    BY <1>2
  <2> QED
    BY <2>1, <2>2 DEF Chain
<1>4. e \in OnwardFrom(E, from, p)
  BY <1>3, <1>5, ChainGrows
<1> QED
  BY <1>2, <1>3, <1>4, <1>5

\* The function of SimplePaths.
OfLength(g, from) ==
  LET onward(p) == {e \in g.edges : /\ e.src = (IF p = <<>> THEN from ELSE Last(p).dst)
                                    /\ e.dst \notin {from} \cup {p[i].dst : i \in DOMAIN p}}
      Of[n \in 0..MaxPathDepth] ==
        IF n = 0 THEN {<<>>}
        ELSE UNION {{Append(p, e) : e \in onward(p)} : p \in Of[n - 1]}
  IN  Of

\* Its values are the paths of each length.
LEMMA PathsOfLength ==
  ASSUME NEW g, NEW from
  PROVE  \A n \in 0..MaxPathDepth : \A p :
           p \in OfLength(g, from)[n] <=> Chain(p, g.edges, from) /\ Len(p) = n
<1> DEFINE E == g.edges
           D == MaxPathDepth
           X == SUBSET Seq(E)
           base == {<<>>}
           next(S) == UNION {{Append(p, e) : e \in OnwardFrom(E, from, p)} : p \in S}
           step == [S \in X |-> next(S)]
           of == OfLength(g, from)
<1>0. D \in Nat
  BY BoundsAssumption
<1>1. base \in X /\ step \in [X -> X]
  <2>1. ASSUME NEW S \in X PROVE next(S) \in X
    <3> SUFFICES ASSUME NEW p \in S, NEW e \in OnwardFrom(E, from, p) PROVE Append(p, e) \in Seq(E)
      OBVIOUS
    <3>1. p \in Seq(E) /\ e \in E
      BY DEF OnwardFrom
    <3> QED
      BY <3>1, AppendProperties
  <2>2. base \in X
    BY EmptySeq
  <2> HIDE DEF next
  <2> QED
    BY <2>1, <2>2
<1> HIDE DEF next, X
<1>2. PICK f : Unfolds(f, D, X, base, step)
  <2> HIDE DEF base, step, D
  <2> QED
    BY <1>0, <1>1, RecursionUnfolds
<1>3. f = [k \in 0..D |-> IF k = 0 THEN base ELSE next(f[k - 1])]
  <2>1. ASSUME NEW k \in 0..D, k # 0 PROVE f[k] = next(f[k - 1])
    <3>1. k \in 1..D /\ k - 1 \in 0..D
      BY <1>0, <2>1
    <3>2. f[k - 1] \in X
      BY <1>2, <3>1 DEF Unfolds
    <3> QED
      BY <1>2, <3>1, <3>2 DEF Unfolds
  <2> HIDE DEF base, D
  <2> QED
    BY <1>2, <2>1 DEF Unfolds
<1>4. of = [k \in 0..D |-> IF k = 0 THEN base ELSE next(of[k - 1])]
  <2>1. of = CHOOSE h : h = [k \in 0..D |-> IF k = 0 THEN base ELSE next(h[k - 1])]
    BY DEF OfLength, next, OnwardFrom
  <2> HIDE DEF of, base, D
  <2> QED
    BY <1>3, <2>1
<1>5. of[0] = {<<>>} /\ \A k \in 1..D : of[k] = next(of[k - 1])
  <2>1. 0 \in 0..D /\ \A k \in 1..D : k \in 0..D /\ k # 0
    BY <1>0
  <2> HIDE DEF of, D, base
  <2>2. of[0] = base
    BY <1>4, <2>1
  <2>3. ASSUME NEW k \in 1..D PROVE of[k] = next(of[k - 1])
    <3>1. k \in 0..D /\ k # 0
      BY <2>1
    <3> QED
      BY <1>4, <3>1
  <2> QED
    BY <2>2, <2>3 DEF base
<1> HIDE DEF of
<1> DEFINE right(k) == \A p : p \in of[k] <=> Chain(p, E, from) /\ Len(p) = k
           good == {k \in 0..D : right(k)}
<1>6. 0 \in good
  <2>1. ASSUME NEW p PROVE p \in of[0] <=> Chain(p, E, from) /\ Len(p) = 0
    <3>1. Chain(<<>>, E, from)
      BY EmptySeq DEF Chain
    <3>2. ASSUME Chain(p, E, from), Len(p) = 0 PROVE p = <<>>
      BY <3>2, EmptySeq DEF Chain
    <3> QED
      BY <1>5, <3>1, <3>2
  <2> QED
    BY <1>0, <2>1
<1>7. ASSUME NEW k \in 0..D, k \in good, k < D PROVE k + 1 \in good
  <2>1. k + 1 \in 1..D /\ (k + 1) - 1 = k /\ k + 1 \in 0..D
    BY <1>0, <1>7
  <2>2. of[k + 1] = next(of[k])
    BY <1>5, <2>1
  <2>3. ASSUME NEW q PROVE q \in of[k + 1] <=> Chain(q, E, from) /\ Len(q) = k + 1
    <3>1. q \in of[k + 1] <=> \E p \in of[k] : \E e \in OnwardFrom(E, from, p) : Longer(q, p, e)
      BY <2>2 DEF next, Longer
    <3>2. ASSUME NEW p \in of[k], NEW e \in OnwardFrom(E, from, p), Longer(q, p, e)
          PROVE  Chain(q, E, from) /\ Len(q) = k + 1
      <4>1. Chain(p, E, from) /\ Len(p) = k
        BY <1>7
      <4>2. e \in E
        BY DEF OnwardFrom
      <4>3. Chain(q, E, from) /\ Len(q) = Len(p) + 1
        BY <3>2, <4>1, <4>2, ChainGrows
      <4> QED
        BY <4>1, <4>3
    <3>3. ASSUME Chain(q, E, from), Len(q) = k + 1
          PROVE  \E p \in of[k] : \E e \in OnwardFrom(E, from, p) : Longer(q, p, e)
      <4>1. q # <<>>
        BY <2>1, <3>3, EmptySeq
      <4>2. PICK p : \E e \in OnwardFrom(E, from, p) :
                       Chain(p, E, from) /\ Longer(q, p, e) /\ Len(p) = Len(q) - 1
        BY <3>3, <4>1, ChainShrinks
      <4>3. p \in of[k]
        BY <1>7, <2>1, <3>3, <4>2
      <4> QED
        BY <4>2, <4>3
    <3> QED
      BY <3>1, <3>2, <3>3
  <2> QED
    BY <2>1, <2>3
<1>8. 0..D \subseteq good
  <2> HIDE DEF good, D
  <2> QED
    BY <1>0, <1>6, <1>7, StepByStep
<1> QED
  BY <1>8 DEF of

\* A path is simple if it is not empty, below the bound and can go no further.
LEMMA SimpleIs ==
  ASSUME NEW g, NEW from
  PROVE  \A p : p \in SimplePaths(g, from) <=>
           /\ Chain(p, g.edges, from) /\ Len(p) \in 1..(MaxPathDepth - 1)
           /\ OnwardFrom(g.edges, from, p) = {}
<1> PICK of : of = OfLength(g, from)
  OBVIOUS
<1>1. SimplePaths(g, from)
        = {p \in UNION {of[n] : n \in 1..(MaxPathDepth - 1)} : OnwardFrom(g.edges, from, p) = {}}
  BY DEF SimplePaths, OfLength, OnwardFrom
<1>2. \A n \in 1..(MaxPathDepth - 1) : n \in 0..MaxPathDepth
  BY BoundsAssumption
<1>3. \A n \in 1..(MaxPathDepth - 1) : \A p : p \in of[n] <=> Chain(p, g.edges, from) /\ Len(p) = n
  BY <1>2, PathsOfLength
<1> QED
  BY <1>1, <1>3

\* Sequences of one set after the other are a sequence of it.
LEMMA FlattenType ==
  ASSUME NEW T, NEW n \in Nat, NEW seqs \in [1..n -> Seq(T)], n # 0
  PROVE  FlattenSeq(seqs) \in Seq(T)
<1>1. PICK f : Flattened(f, seqs, 1..n) /\ FlattenSeq(seqs) = f[n]
  BY FlattenUnfolds
<1> DEFINE good == {k \in 0..n : k # 0 => f[k] \in Seq(T)}
<1>2. 0 \in good
  OBVIOUS
<1>3. ASSUME NEW k \in 0..n, k \in good, k < n PROVE k + 1 \in good
  <2>1. k + 1 \in 1..n /\ (k + 1) - 1 = k /\ (k + 1 = 1 <=> k = 0)
    BY <1>3
  <2>2. f[k + 1] = IF k + 1 = 1 THEN seqs[k + 1] ELSE f[k] \o seqs[k + 1]
    BY <1>1, <2>1 DEF Flattened
  <2>3. seqs[k + 1] \in Seq(T)
    BY <2>1
  <2>4. CASE k = 0
    BY <2>1, <2>2, <2>3, <2>4
  <2>5. CASE k # 0
    <3>1. f[k] \in Seq(T)
      BY <1>3, <2>5
    <3>2. f[k + 1] = f[k] \o seqs[k + 1]
      BY <2>1, <2>2, <2>5
    <3>3. f[k + 1] \in Seq(T)
      BY <2>3, <3>1, <3>2, ConcatProperties
    <3> QED
      BY <2>1, <3>3
  <2> QED
    BY <2>4, <2>5
<1>4. 0..n \subseteq good
  <2> HIDE DEF good
  <2> QED
    BY <1>2, <1>3, StepByStep
<1> QED
  BY <1>1, <1>4

\* What the walk collects from each path that is longer by an edge, and from a
\* path on.
Ahead(W, edges, path) == [i \in DOMAIN edges |-> W[Append(path, edges[i])]]

\* No further than D edges, and a path that goes nowhere else is one of them.
Collected(W, next, path, D) ==
  IF Len(path) >= D THEN <<>>
  ELSE IF next[path] # <<>> THEN FlattenSeq(Ahead(W, next[path], path))
  ELSE IF path = <<>> THEN <<>> ELSE <<path>>

\* The walk that goes on from a path by the edges of next.
IsTheWalk(W, E, next, D) == W = [path \in Seq(E) |-> Collected(W, next, path, D)]

\* Two walks agree on the paths that are longer by an edge.
Agree(f, h, E, path, D) ==
  Len(path) < D =>
    \A q \in Seq(E) : Len(q) = Len(path) + 1 => f[q] = h[q] /\ f[q] \in Seq(Seq(E))

\* They collect the same from a path on.
CollectAlike(f, h, next, path, D) ==
  Collected(f, next, path, D) = Collected(h, next, path, D)

\* What it collects from a path on depends on what it collects from longer ones.
LEMMA CollectedOnward ==
  ASSUME NEW E, NEW next \in [Seq(E) -> Seq(E)], NEW D \in Nat, NEW path \in Seq(E),
         NEW f, NEW h, Agree(f, h, E, path, D)
  PROVE  /\ CollectAlike(f, h, next, path, D)
         /\ Collected(f, next, path, D) \in Seq(Seq(E))
<1> USE DEF CollectAlike
<1>1. Len(path) \in Nat
  BY LenProperties
<1>2. CASE Len(path) >= D
  BY <1>1, <1>2, EmptySeq DEF Collected
<1>3. CASE Len(path) < D /\ next[path] = <<>>
  <2>1. <<path>> \in Seq(Seq(E)) /\ <<>> \in Seq(Seq(E))
    BY EmptySeq
  <2> QED
    BY <1>1, <1>3, <2>1 DEF Collected
<1>4. CASE Len(path) < D /\ next[path] # <<>>
  <2> PICK nx : nx = next[path]
    OBVIOUS
  <2>1. nx \in Seq(E) /\ nx # <<>>
    BY <1>4
  <2> PICK n : n = Len(nx)
    OBVIOUS
  <2>2. n \in Nat /\ n # 0 /\ DOMAIN nx = 1..n
    BY <2>1, EmptySeq, LenProperties
  <2>3. ASSUME NEW i \in 1..n
        PROVE  f[Append(path, nx[i])] = h[Append(path, nx[i])]
               /\ f[Append(path, nx[i])] \in Seq(Seq(E))
    <3>1. nx[i] \in E
      BY <2>1, <2>2, ElementOfSeq
    <3> PICK q : q = Append(path, nx[i])
      OBVIOUS
    <3>2. q \in Seq(E) /\ Len(q) = Len(path) + 1
      BY <3>1, AppendProperties
    <3> QED
      BY <1>4, <3>2 DEF Agree
  <2> DEFINE F == [i \in 1..n |-> f[Append(path, nx[i])]]
             H == [i \in 1..n |-> h[Append(path, nx[i])]]
  <2>4. F = H /\ F \in [1..n -> Seq(Seq(E))]
    BY <2>3
  <2>5. Collected(f, next, path, D) = FlattenSeq(F) /\ Collected(h, next, path, D) = FlattenSeq(H)
    <3>1. Ahead(f, nx, path) = F /\ Ahead(h, nx, path) = H
      BY <2>2 DEF Ahead
    <3> HIDE DEF F, H
    <3>2. ~(Len(path) >= D) /\ next[path] # <<>>
      BY <1>1, <1>4
    <3>3. /\ Collected(f, next, path, D) = FlattenSeq(Ahead(f, nx, path))
          /\ Collected(h, next, path, D) = FlattenSeq(Ahead(h, nx, path))
      BY <3>2 DEF Collected
    <3> QED
      BY <3>1, <3>3
  <2> HIDE DEF F, H
  <2> PICK T : T = Seq(E)
    OBVIOUS
  <2>6. FlattenSeq(F) \in Seq(T)
    BY <2>2, <2>4, FlattenType
  <2> QED
    BY <2>4, <2>5, <2>6
<1> QED
  BY <1>1, <1>2, <1>3, <1>4

\* There is a walk: paths get longer, up to the bound.
LEMMA WalkExists ==
  ASSUME NEW E, NEW next \in [Seq(E) -> Seq(E)], NEW D \in Nat
  PROVE  \E W \in [Seq(E) -> Seq(Seq(E))] : IsTheWalk(W, E, next, D)
<1> PICK P : P = Seq(E)
  OBVIOUS
<1> PICK V : V = Seq(P)
  OBVIOUS
<1> PICK X : X = [P -> V]
  OBVIOUS
<1> DEFINE base == [p \in P |-> <<>>]
           rank == [p \in P |-> IF Len(p) >= D THEN 0 ELSE D - Len(p)]
           step == [h \in X |-> [p \in P |-> Collected(h, next, p, D)]]
<1>1. \A p \in P : Len(p) \in Nat
  BY LenProperties
<1>2. base \in X /\ rank \in [P -> 0..D]
  <2>1. <<>> \in V
    BY EmptySeq
  <2>2. \A p \in P : (IF Len(p) >= D THEN 0 ELSE D - Len(p)) \in 0..D
    BY <1>1
  <2> QED
    BY <2>1, <2>2
<1>3. step \in [X -> X]
  <2>1. ASSUME NEW h \in X, NEW p \in P PROVE Collected(h, next, p, D) \in V
    <3>1. Agree(h, h, E, p, D)
      BY DEF Agree
    <3> HIDE DEF base, rank, step
    <3> QED
      BY <3>1, CollectedOnward
  <2> QED
    BY <2>1
<1>4. Causal(step, rank, P, X)
  <2>1. \A h \in X : \A p \in P : step[h][p] = Collected(h, next, p, D)
    OBVIOUS
  <2>2. \A p, q \in P : Len(p) < D /\ Len(q) = Len(p) + 1 => rank[q] < rank[p]
    BY <1>1
  <2> HIDE DEF step, rank
  <2> SUFFICES ASSUME NEW f \in X, NEW h \in X, NEW p \in P,
                      \A q \in P : rank[q] < rank[p] => f[q] = h[q]
               PROVE  step[f][p] = step[h][p]
    BY DEF Causal
  <2>3. Agree(f, h, E, p, D)
    BY <2>2 DEF Agree
  <2>4. CollectAlike(f, h, next, p, D)
    BY <2>3, CollectedOnward
  <2>5. step[f][p] = Collected(f, next, p, D) /\ step[h][p] = Collected(h, next, p, D)
    BY <2>1
  <2> QED
    BY ONLY <2>4, <2>5 DEF CollectAlike
<1>5. PICK h \in X : step[h] = h
  <2> HIDE DEF base, step, rank
  <2>1. Recursion(P, V, X, base, step, D, rank)
    BY <1>2, <1>3, <1>4 DEF Recursion
  <2> QED
    BY <2>1, RecursionExists
<1>6. h = [p \in P |-> Collected(h, next, p, D)]
  BY <1>5
<1> QED
  BY <1>6 DEF IsTheWalk

\* A path runs along another if it has all its edges first.
Along(q, p) == Len(q) >= Len(p) /\ \A i \in 1..Len(p) : q[i] = p[i]

\* A path that runs on along another leaves it by an edge that leads onward.
LEMMA LeavesOnward ==
  ASSUME NEW E, NEW from, NEW p, NEW q, Chain(p, E, from), Chain(q, E, from), Along(q, p),
         Len(q) # Len(p)
  PROVE  Len(p) + 1 \in 1..Len(q) /\ q[Len(p) + 1] \in OnwardFrom(E, from, p)
<1> PICK n : n = Len(p)
  OBVIOUS
<1>1. p \in Seq(E) /\ q \in Seq(E) /\ n \in Nat /\ Len(q) \in Nat /\ DOMAIN p = 1..n
  BY LenProperties DEF Chain
<1>2. n + 1 \in 1..Len(q) /\ (n + 1) - 1 = n /\ \A i \in 1..n : q[i] = p[i]
  BY <1>1 DEF Along
<1> PICK e : e = q[n + 1]
  OBVIOUS
<1>3. e \in E
  BY <1>1, <1>2, ElementOfSeq
<1>4. /\ e.src = (IF n + 1 = 1 THEN from ELSE q[n].dst) /\ e.dst # from
      /\ \A j \in 1..n : q[j].dst # e.dst
  BY <1>2 DEF Chain
<1>5. p = <<>> <=> n = 0
  BY <1>1, EmptySeq
<1>6. Last(p) = p[n] /\ (n # 0 => q[n] = p[n])
  BY <1>1, <1>2 DEF Last
<1> QED
  BY <1>1, <1>2, <1>3, <1>4, <1>5, <1>6 DEF OnwardFrom

\* The paths below the bound that can go no further and run along p.
Ends(E, from, p, D) ==
  {q \in Seq(E) : /\ Chain(q, E, from) /\ Len(q) \in 1..(D - 1)
                  /\ OnwardFrom(E, from, q) = {} /\ Along(q, p)}

\* At the bound there is none.
LEMMA NoEndsBeyond ==
  ASSUME NEW E, NEW from, NEW p \in Seq(E), NEW D \in Nat, Len(p) >= D
  PROVE  Ends(E, from, p, D) = {}
<1>1. Len(p) \in Nat
  BY LenProperties
<1>2. \A q \in Seq(E) : Len(q) \in Nat
  BY LenProperties
<1> QED
  BY <1>1, <1>2 DEF Ends, Along

\* A path that can go no further is the only one that runs along it.
LEMMA EndsAtAnEnd ==
  ASSUME NEW E, NEW from, NEW p, Chain(p, E, from), NEW D \in Nat, Len(p) < D,
         OnwardFrom(E, from, p) = {}
  PROVE  Ends(E, from, p, D) = IF p = <<>> THEN {} ELSE {p}
<1>1. p \in Seq(E) /\ Len(p) \in Nat /\ (p = <<>> <=> Len(p) = 0)
  BY EmptySeq, LenProperties DEF Chain
<1>2. ASSUME NEW q \in Ends(E, from, p, D) PROVE q = p /\ p # <<>>
  <2>1. Chain(q, E, from) /\ Along(q, p) /\ Len(q) \in 1..(D - 1) /\ q \in Seq(E)
    BY DEF Ends
  <2>2. Len(q) = Len(p)
    BY <2>1, LeavesOnward
  <2>3. \A i \in 1..Len(p) : q[i] = p[i]
    BY <2>1 DEF Along
  <2>4. q = p
    BY <1>1, <2>1, <2>2, <2>3, SeqEqual
  <2> QED
    BY <1>1, <2>1, <2>2, <2>4
<1>3. ASSUME p # <<>> PROVE p \in Ends(E, from, p, D)
  <2>1. Len(p) \in 1..(D - 1) /\ Along(p, p)
    BY <1>1, <1>3 DEF Along
  <2> QED
    BY <1>1, <2>1 DEF Ends
<1> QED
  BY <1>2, <1>3

\* Else they run along the paths that are longer by an edge.
LEMMA EndsGoOn ==
  ASSUME NEW E, NEW from, NEW p, Chain(p, E, from), NEW D \in Nat,
         OnwardFrom(E, from, p) # {}
  PROVE  \A q : q \in Ends(E, from, p, D) <=>
           \E e \in OnwardFrom(E, from, p) : q \in Ends(E, from, Append(p, e), D)
<1>1. p \in Seq(E) /\ Len(p) \in Nat
  BY LenProperties DEF Chain
<1>2. ASSUME NEW e \in OnwardFrom(E, from, p)
      PROVE  /\ Len(Append(p, e)) = Len(p) + 1 /\ Append(p, e)[Len(p) + 1] = e
             /\ \A i \in 1..Len(p) : Append(p, e)[i] = p[i]
  <2>1. e \in E
    BY DEF OnwardFrom
  <2> QED
    BY <1>1, <2>1, AppendProperties
<1>3. ASSUME NEW q \in Ends(E, from, p, D)
      PROVE  \E e \in OnwardFrom(E, from, p) : q \in Ends(E, from, Append(p, e), D)
  <2>1. Chain(q, E, from) /\ Along(q, p) /\ OnwardFrom(E, from, q) = {} /\ q \in Seq(E)
    BY DEF Ends
  <2>2. Len(q) # Len(p)
    <3> SUFFICES ASSUME Len(q) = Len(p) PROVE FALSE
      OBVIOUS
    <3>1. \A i \in 1..Len(p) : q[i] = p[i]
      BY <2>1 DEF Along
    <3>2. q = p
      BY <1>1, <2>1, <3>1, SeqEqual
    <3> QED
      BY <2>1, <3>2
  <2> PICK e : e = q[Len(p) + 1]
    OBVIOUS
  <2>3. Len(p) + 1 \in 1..Len(q) /\ e \in OnwardFrom(E, from, p)
    BY <2>1, <2>2, LeavesOnward
  <2> PICK longer : longer = Append(p, e)
    OBVIOUS
  <2>4. Along(q, longer)
    <3>1. Len(longer) = Len(p) + 1 /\ longer[Len(p) + 1] = e /\ \A i \in 1..Len(p) : longer[i] = p[i]
      BY <1>2, <2>3
    <3>2. Len(q) \in Nat /\ \A i \in 1..Len(p) : q[i] = p[i]
      BY <2>1, LenProperties DEF Along
    <3>3. \A i \in 1..(Len(p) + 1) : i \in 1..Len(p) \/ i = Len(p) + 1
      BY <1>1
    <3> QED
      BY <1>1, <2>3, <3>1, <3>2, <3>3 DEF Along
  <2> QED
    BY <2>3, <2>4 DEF Ends
<1>4. ASSUME NEW e \in OnwardFrom(E, from, p), NEW q \in Ends(E, from, Append(p, e), D)
      PROVE  q \in Ends(E, from, p, D)
  <2> PICK longer : longer = Append(p, e)
    OBVIOUS
  <2>1. Along(q, longer) /\ q \in Seq(E)
    BY DEF Ends
  <2>2. Len(longer) = Len(p) + 1 /\ \A i \in 1..Len(p) : longer[i] = p[i] /\ i \in 1..(Len(p) + 1)
    BY <1>1, <1>2
  <2>3. Len(q) \in Nat
    BY <2>1, LenProperties
  <2>4. Along(q, p)
    BY <1>1, <2>1, <2>2, <2>3 DEF Along
  <2> QED
    BY <2>4 DEF Ends
<1> QED
  BY <1>3, <1>4

\* Paths that are longer by different edges are not run along by one path.
LEMMA EndsApart ==
  ASSUME NEW E, NEW from, NEW p \in Seq(E), NEW D \in Nat, NEW a \in E, NEW b \in E, a # b
  PROVE  Ends(E, from, Append(p, a), D) \cap Ends(E, from, Append(p, b), D) = {}
<1> SUFFICES ASSUME NEW q, q \in Ends(E, from, Append(p, a), D), q \in Ends(E, from, Append(p, b), D)
             PROVE  FALSE
  OBVIOUS
<1>1. /\ Len(Append(p, a)) = Len(p) + 1 /\ Append(p, a)[Len(p) + 1] = a
      /\ Len(Append(p, b)) = Len(p) + 1 /\ Append(p, b)[Len(p) + 1] = b
  BY AppendProperties
<1>2. Along(q, Append(p, a)) /\ Along(q, Append(p, b))
  BY DEF Ends
<1>3. Len(p) + 1 \in 1..(Len(p) + 1)
  BY LenProperties
<1>4. q[Len(p) + 1] = a /\ q[Len(p) + 1] = b
  BY <1>1, <1>2, <1>3 DEF Along
<1> QED
  BY <1>4

\* The edges by which to go on from a path are each listed once.
GoesOn(next, E, from) ==
  \A p \in Seq(E) : Chain(p, E, from) => ListsOnce(next[p], OnwardFrom(E, from, p))

\* From one path on the walk lists the paths that run along it, if it does so
\* from the paths that are longer by an edge.
LEMMA WalkListsFrom ==
  ASSUME NEW E, NEW from, NEW next \in [Seq(E) -> Seq(E)], GoesOn(next, E, from), NEW D \in Nat,
         NEW W, IsTheWalk(W, E, next, D), NEW p, Chain(p, E, from), Len(p) < D,
         \A e \in OnwardFrom(E, from, p) :
           ListsOnce(W[Append(p, e)], Ends(E, from, Append(p, e), D))
  PROVE  ListsOnce(W[p], Ends(E, from, p, D))
<1> PICK nx : nx = next[p]
  OBVIOUS
<1>1. p \in Seq(E) /\ Len(p) \in Nat
  BY LenProperties DEF Chain
<1>2. nx \in Seq(E) /\ ListsOnce(nx, OnwardFrom(E, from, p)) /\ ~(Len(p) >= D)
  BY <1>1 DEF GoesOn
<1>3. W[p] = Collected(W, next, p, D)
  BY <1>1 DEF IsTheWalk
<1> PICK n : n = Len(nx)
  OBVIOUS
<1>4. n \in Nat /\ DOMAIN nx = 1..n /\ (nx = <<>> <=> n = 0)
  BY <1>2, EmptySeq, LenProperties
<1>5. \A e : e \in OnwardFrom(E, from, p) <=> \E i \in 1..n : nx[i] = e
  BY <1>2, <1>4 DEF ListsOnce, Lists, Range
<1>6. \A i, j \in 1..n : nx[i] = nx[j] => i = j
  BY <1>2, <1>4 DEF ListsOnce, IsInjective
<1>7. CASE n = 0
  <2>1. OnwardFrom(E, from, p) = {}
    BY <1>5, <1>7
  <2>2. Ends(E, from, p, D) = IF p = <<>> THEN {} ELSE {p}
    BY <2>1, EndsAtAnEnd
  <2>3. W[p] = IF p = <<>> THEN <<>> ELSE <<p>>
    BY <1>2, <1>3, <1>4, <1>7 DEF Collected
  <2>4. ListsOnce(<<>>, {}) /\ ListsOnce(<<p>>, {p})
    BY DEF ListsOnce, Lists, IsInjective, Range
  <2> QED
    BY <2>2, <2>3, <2>4
<1>8. CASE n # 0
  <2> PICK V : V = Seq(E)
    OBVIOUS
  <2> PICK U : U = Ends(E, from, p, D)
    OBVIOUS
  <2> PICK seqs : seqs = Ahead(W, nx, p)
    OBVIOUS
  <2> PICK parts : parts = [i \in 1..n |-> Ends(E, from, Append(p, nx[i]), D)]
    OBVIOUS
  <2>1. W[p] = FlattenSeq(seqs)
    BY <1>2, <1>3, <1>4, <1>8 DEF Collected
  <2>2. DOMAIN seqs = 1..n /\ seqs = [i \in 1..n |-> seqs[i]]
    BY <1>4 DEF Ahead
  <2>3. \A i \in 1..n : seqs[i] = W[Append(p, nx[i])]
    BY <1>4 DEF Ahead
  <2>4. parts \in [1..n -> SUBSET V]
    BY DEF Ends
  <2>5. \A i \in 1..n : ListsOnce(seqs[i], parts[i])
    BY <1>5, <2>3
  <2>6. \A i, j \in 1..n : i # j => parts[i] \cap parts[j] = {}
    <3> SUFFICES ASSUME NEW i \in 1..n, NEW j \in 1..n, i # j
                 PROVE  parts[i] \cap parts[j] = {}
      OBVIOUS
    <3>1. nx[i] \in E /\ nx[j] \in E /\ nx[i] # nx[j]
      BY <1>2, <1>4, <1>6, ElementOfSeq
    <3>2. parts[i] = Ends(E, from, Append(p, nx[i]), D) /\ parts[j] = Ends(E, from, Append(p, nx[j]), D)
      OBVIOUS
    <3> QED
      BY <1>1, <3>1, <3>2, EndsApart
  <2>7. \A q : q \in U <=> \E i \in 1..n : q \in parts[i]
    <3>1. OnwardFrom(E, from, p) # {}
      <4>1. 1 \in 1..n
        BY <1>4, <1>8
      <4> QED
        BY <1>5, <4>1
    <3>2. \A q : q \in U <=> \E e \in OnwardFrom(E, from, p) : q \in Ends(E, from, Append(p, e), D)
      BY <3>1, EndsGoOn
    <3>3. \A i \in 1..n : parts[i] = Ends(E, from, Append(p, nx[i]), D)
      OBVIOUS
    <3>4. ASSUME NEW q \in U PROVE \E i \in 1..n : q \in parts[i]
      <4>1. PICK e \in OnwardFrom(E, from, p) : q \in Ends(E, from, Append(p, e), D)
        BY <3>2
      <4>2. PICK i \in 1..n : nx[i] = e
        BY <1>5
      <4> QED
        BY <3>3, <4>1, <4>2
    <3>5. ASSUME NEW i \in 1..n, NEW q \in parts[i] PROVE q \in U
      <4>1. nx[i] \in OnwardFrom(E, from, p) /\ q \in Ends(E, from, Append(p, nx[i]), D)
        BY <1>5, <3>3
      <4> QED
        BY <3>2, <4>1
    <3> QED
      BY <3>4, <3>5
  <2>8. ListsOnce(FlattenSeq(seqs), U)
    BY ONLY <1>4, <2>2, <2>4, <2>5, <2>6, <2>7, FlattenedOnce
  <2> QED
    BY <2>1, <2>8
<1> QED
  BY <1>4, <1>7, <1>8

\* So from every path on it lists the paths that run along it, each once.
LEMMA WalkLists ==
  ASSUME NEW E, NEW from, NEW next \in [Seq(E) -> Seq(E)], GoesOn(next, E, from), NEW D \in Nat,
         NEW W, IsTheWalk(W, E, next, D)
  PROVE  \A p : Chain(p, E, from) => ListsOnce(W[p], Ends(E, from, p, D))
<1> DEFINE right(p) == ListsOnce(W[p], Ends(E, from, p, D))
           good == {k \in 0..D : \A p : Chain(p, E, from) /\ Len(p) + k >= D => right(p)}
<1>1. \A p : Chain(p, E, from) => p \in Seq(E) /\ Len(p) \in Nat
  BY LenProperties DEF Chain
<1>2. 0 \in good
  <2> SUFFICES ASSUME NEW p, Chain(p, E, from), Len(p) >= D PROVE right(p)
    BY <1>1
  <2>1. Ends(E, from, p, D) = {}
    BY <1>1, NoEndsBeyond
  <2>2. W[p] = <<>>
    BY <1>1 DEF IsTheWalk, Collected
  <2>3. ListsOnce(<<>>, {})
    BY DEF ListsOnce, Lists, IsInjective, Range
  <2> QED
    BY <2>1, <2>2, <2>3
<1>3. ASSUME NEW k \in 0..D, k \in good, k < D PROVE k + 1 \in good
  <2> SUFFICES ASSUME NEW p, Chain(p, E, from), Len(p) + (k + 1) >= D PROVE right(p)
    BY <1>3
  <2>1. Len(p) \in Nat
    BY <1>1
  <2>2. CASE Len(p) + k >= D
    BY <1>3, <2>2
  <2>3. CASE ~(Len(p) + k >= D)
    <3>1. Len(p) < D
      BY <2>1, <2>3
    <3>2. ASSUME NEW e \in OnwardFrom(E, from, p) PROVE right(Append(p, e))
      <4> PICK q : Longer(q, p, e)
        BY DEF Longer
      <4>1. e \in E
        BY DEF OnwardFrom
      <4>2. Chain(q, E, from) /\ Len(q) = Len(p) + 1
        BY <4>1, ChainGrows
      <4>3. Len(q) + k >= D
        BY <2>1, <4>2
      <4>4. right(q)
        BY <1>3, <4>2, <4>3
      <4> QED
        BY <4>4 DEF Longer
    <3> QED
      BY <3>1, <3>2, WalkListsFrom
  <2> QED
    BY <2>2, <2>3
<1>4. D \in good
  <2> HIDE DEF good
  <2>1. 0..D \subseteq good
    BY <1>2, <1>3, StepByStep
  <2> QED
    BY <2>1
<1> SUFFICES ASSUME NEW p, Chain(p, E, from) PROVE right(p)
  OBVIOUS
<1>5. Len(p) + D >= D
  BY <1>1
<1> QED
  BY <1>4, <1>5

\* Of two members of S one comes first.
StrictTotal(S, less) ==
  /\ \A x, y \in S : x # y => <<x, y>> \in less \/ <<y, x>> \in less
  /\ \A x \in S : <<x, x>> \notin less
  /\ \A x, y, z \in S : <<x, y>> \in less /\ <<y, z>> \in less => <<x, z>> \in less

\* Those of a higher weight first, those of one weight in another order.
ByWeight(S, w, ties) ==
  {p \in S \X S : w[p[1]] > w[p[2]] \/ (w[p[1]] = w[p[2]] /\ p \in ties)}

\* That is an order if the other one is an order of those of one weight.
LEMMA ByWeightIsTotal ==
  ASSUME NEW S, NEW w \in [S -> Int], NEW ties,
         \A n \in Int : StrictTotal({x \in S : w[x] = n}, ties)
  PROVE  StrictTotal(S, ByWeight(S, w, ties))
<1> PICK less : less = ByWeight(S, w, ties)
  OBVIOUS
<1>1. \A x, y \in S : <<x, y>> \in less <=>
        w[x] > w[y] \/ (w[x] = w[y] /\ <<x, y>> \in ties)
  BY DEF ByWeight
<1>2. \A x, y \in S : w[x] = w[y] /\ x # y => <<x, y>> \in ties \/ <<y, x>> \in ties
  BY DEF StrictTotal
<1>3. \A x \in S : <<x, x>> \notin ties
  BY DEF StrictTotal
<1>4. \A x, y, z \in S :
        w[x] = w[y] /\ w[y] = w[z] /\ <<x, y>> \in ties /\ <<y, z>> \in ties => <<x, z>> \in ties
  <2> SUFFICES ASSUME NEW x \in S, NEW y \in S, NEW z \in S, w[x] = w[y], w[y] = w[z],
                      <<x, y>> \in ties, <<y, z>> \in ties
               PROVE  <<x, z>> \in ties
    OBVIOUS
  <2> PICK T : T = {u \in S : w[u] = w[x]}
    OBVIOUS
  <2>1. StrictTotal(T, ties) /\ x \in T /\ y \in T /\ z \in T
    OBVIOUS
  <2> QED
    BY <2>1 DEF StrictTotal
<1>5. \A x \in S : w[x] \in Int
  OBVIOUS
<1>6. ASSUME NEW x \in S, NEW y \in S, x # y PROVE <<x, y>> \in less \/ <<y, x>> \in less
  BY <1>1, <1>2, <1>5, <1>6
<1>7. ASSUME NEW x \in S PROVE <<x, x>> \notin less
  BY <1>1, <1>3, <1>5
<1>8. ASSUME NEW x \in S, NEW y \in S, NEW z \in S, <<x, y>> \in less, <<y, z>> \in less
      PROVE  <<x, z>> \in less
  <2>1. w[x] \in Int /\ w[y] \in Int /\ w[z] \in Int
    BY <1>5
  <2>2. /\ w[x] > w[y] \/ (w[x] = w[y] /\ <<x, y>> \in ties)
        /\ w[y] > w[z] \/ (w[y] = w[z] /\ <<y, z>> \in ties)
    BY <1>1, <1>8
  <2>3. w[x] > w[z] \/ (w[x] = w[y] /\ w[y] = w[z] /\ <<x, y>> \in ties /\ <<y, z>> \in ties)
    BY <2>1, <2>2
  <2> QED
    BY <1>1, <1>4, <2>3
<1> QED
  BY <1>6, <1>7, <1>8 DEF StrictTotal

\* The order of edges is one.
LEMMA EdgeLessIsTotal ==
  ASSUME NEW E, E \subseteq Named
  PROVE  /\ \A a, b \in E : a # b => EdgeLess(a, b) \/ EdgeLess(b, a)
         /\ \A a \in E : ~EdgeLess(a, a)
         /\ \A a, b, c \in E : EdgeLess(a, b) /\ EdgeLess(b, c) => EdgeLess(a, c)
<1>1. \A e \in E : /\ e.src \in DOMAIN Rank /\ e.type \in DOMAIN Rank /\ e.dst \in DOMAIN Rank
                   /\ e = [src |-> e.src, type |-> e.type, dst |-> e.dst]
  BY DEF Named
<1>2. \A e \in E : Rank[e.src] \in Nat /\ Rank[e.type] \in Nat /\ Rank[e.dst] \in Nat
  BY <1>1, OrderIsTotal
<1>3. ASSUME NEW a \in E, NEW b \in E, a # b PROVE EdgeLess(a, b) \/ EdgeLess(b, a)
  <2>1. a.src # b.src \/ a.type # b.type \/ a.dst # b.dst
    BY <1>1, <1>3
  <2>2. /\ a.src # b.src => Rank[a.src] # Rank[b.src]
        /\ a.type # b.type => Rank[a.type] # Rank[b.type]
        /\ a.dst # b.dst => Rank[a.dst] # Rank[b.dst]
    BY <1>1, OrderIsTotal
  <2> QED
    BY <1>2, <2>1, <2>2 DEF EdgeLess
<1>4. ASSUME NEW a \in E PROVE ~EdgeLess(a, a)
  BY <1>2 DEF EdgeLess
<1>5. ASSUME NEW a \in E, NEW b \in E, NEW c \in E, EdgeLess(a, b), EdgeLess(b, c)
      PROVE  EdgeLess(a, c)
  BY <1>2, <1>5 DEF EdgeLess
<1> QED
  BY <1>3, <1>4, <1>5

\* The edges that leave a node are each listed once.
LEMMA OutgoingOnce ==
  ASSUME NEW g, g.edges \subseteq Named, IsFiniteSet(g.edges), NEW src
  PROVE  ListsOnce(outgoingEdges(g, src), {e \in g.edges : e.src = src})
<1> PICK S : S = {e \in g.edges : e.src = src}
  OBVIOUS
<1> DEFINE signal(e) == edgeSignalScore(semanticEdgeType(g, e))
           w == [e \in S |-> signal(e)]
           ties == {p \in S \X S : \/ Rank[p[1].dst] < Rank[p[2].dst]
                                   \/ p[1].dst = p[2].dst /\ EdgeLess(p[1], p[2])}
<1>1. S \subseteq Named /\ IsFiniteSet(S)
  BY FS_Subset
<1>2. w \in [S -> Int]
  BY DEF edgeSignalScore
<1>3. outgoingEdges(g, src) = Lined(S, ByWeight(S, w, ties))
  <2>1. ByWeight(S, w, ties)
          = {p \in S \X S : \/ signal(p[1]) > signal(p[2])
                            \/ signal(p[1]) = signal(p[2]) /\ Rank[p[1].dst] < Rank[p[2].dst]
                            \/ /\ signal(p[1]) = signal(p[2]) /\ p[1].dst = p[2].dst
                               /\ EdgeLess(p[1], p[2])}
    <3> HIDE DEF signal
    <3> QED
      BY DEF ByWeight
  <2> QED
    BY <2>1 DEF outgoingEdges, InOrder
<1>4. StrictTotal(S, ties)
  <2>1. \A e \in S : e.dst \in DOMAIN Rank /\ Rank[e.dst] \in Nat
    BY <1>1, OrderIsTotal DEF Named
  <2>2. \A a, b \in S : <<a, b>> \in ties <=>
          Rank[a.dst] < Rank[b.dst] \/ (a.dst = b.dst /\ EdgeLess(a, b))
    OBVIOUS
  <2> HIDE DEF ties
  <2>3. ASSUME NEW a \in S, NEW b \in S, a # b PROVE <<a, b>> \in ties \/ <<b, a>> \in ties
    <3>1. EdgeLess(a, b) \/ EdgeLess(b, a)
      BY <1>1, <2>3, EdgeLessIsTotal
    <3>2. a.dst = b.dst \/ Rank[a.dst] < Rank[b.dst] \/ Rank[b.dst] < Rank[a.dst]
      BY <2>1, OrderIsTotal
    <3> QED
      BY <2>2, <3>1, <3>2
  <2>4. ASSUME NEW a \in S PROVE <<a, a>> \notin ties
    BY <1>1, <2>1, <2>2, EdgeLessIsTotal
  <2>5. ASSUME NEW a \in S, NEW b \in S, NEW c \in S, <<a, b>> \in ties, <<b, c>> \in ties
        PROVE  <<a, c>> \in ties
    <3>1. EdgeLess(a, b) /\ EdgeLess(b, c) => EdgeLess(a, c)
      BY <1>1, EdgeLessIsTotal
    <3> QED
      BY <2>1, <2>2, <2>5, <3>1
  <2> QED
    BY <2>3, <2>4, <2>5 DEF StrictTotal
<1>5. \A n \in Int : StrictTotal({e \in S : w[e] = n}, ties)
  <2> HIDE DEF ties, w
  <2> QED
    BY <1>4 DEF StrictTotal
<1>6. StrictTotal(S, ByWeight(S, w, ties))
  <2> HIDE DEF ties, w
  <2> QED
    BY <1>2, <1>5, ByWeightIsTotal
<1> PICK less : less = ByWeight(S, w, ties)
  OBVIOUS
<1>7. ListsOnce(Lined(S, less), S)
  <2> HIDE DEF ties, w
  <2>1. StrictTotal(S, less)
    BY <1>6
  <2> QED
    BY <1>1, <2>1, OrderedOnce DEF StrictTotal
<1> QED
  BY <1>3, <1>7

\* The candidates are the first of a list of all paths that can go no further.
LEMMA CandidatesAre ==
  ASSUME NEW g, g.edges \subseteq Named, IsFiniteSet(g.edges), NEW focus
  PROVE  \E seq : /\ ListsOnce(seq, SimplePaths(g, focus))
                  /\ collectPathCandidates(focus, g) = FirstN(seq, MaxCandidates)
<1> DEFINE E == g.edges
           D == MaxPathDepth
           cur(path) == IF path = <<>> THEN focus ELSE Last(path).dst
           visited(path) == {focus} \cup {path[i].dst : i \in DOMAIN path}
           nx(path) == Kept(outgoingEdges(g, cur(path)), {e \in g.edges : e.dst \notin visited(path)})
           next == [path \in Seq(E) |-> nx(path)]
           body(W, path) ==
             IF Len(path) >= D THEN <<>>
             ELSE IF nx(path) # <<>>
                  THEN FlattenSeq([i \in DOMAIN nx(path) |-> W[Append(path, nx(path)[i])]])
             ELSE IF path = <<>> THEN <<>> ELSE <<path>>
<1>1. D \in Nat
  BY BoundsAssumption
<1>2. collectPathCandidates(focus, g)
        = FirstN((CHOOSE W : W = [path \in Seq(E) |-> body(W, path)])[<<>>], MaxCandidates)
  BY DEF collectPathCandidates
<1>3. ASSUME NEW path PROVE ListsOnce(nx(path), OnwardFrom(E, focus, path))
  <2> PICK c : c = cur(path)
    OBVIOUS
  <2> PICK S : S = {e \in g.edges : e.src = c}
    OBVIOUS
  <2> PICK T : T = {e \in g.edges : e.dst \notin visited(path)}
    OBVIOUS
  <2> PICK out : out = outgoingEdges(g, c)
    OBVIOUS
  <2>1. ListsOnce(out, S)
    BY OutgoingOnce
  <2> PICK kept : kept = Kept(out, T)
    OBVIOUS
  <2>2. ListsOnce(kept, S \cap T)
    BY <2>1, KeptOnce
  <2>3. S \cap T = OnwardFrom(E, focus, path)
    BY DEF OnwardFrom
  <2> QED
    BY <2>2, <2>3
<1> HIDE DEF nx
<1>4. ASSUME NEW path \in Seq(E) PROVE nx(path) \in Seq(E)
  <2>1. nx(path) \in Seq(OnwardFrom(E, focus, path))
    BY <1>3 DEF ListsOnce, Lists
  <2>2. OnwardFrom(E, focus, path) \subseteq E
    BY DEF OnwardFrom
  <2> QED
    BY <2>1, <2>2, SeqMonotonic
<1>5. next \in [Seq(E) -> Seq(E)] /\ GoesOn(next, E, focus)
  <2>1. next \in [Seq(E) -> Seq(E)]
    BY <1>4
  <2> QED
    BY <1>3, <2>1 DEF GoesOn
<1>6. \A W : [path \in Seq(E) |-> body(W, path)] = [path \in Seq(E) |-> Collected(W, next, path, D)]
  <2> SUFFICES ASSUME NEW W, NEW path \in Seq(E)
               PROVE  body(W, path) = Collected(W, next, path, D)
    OBVIOUS
  <2>1. next[path] = nx(path)
    OBVIOUS
  <2>2. Ahead(W, next[path], path)
          = [i \in DOMAIN nx(path) |-> W[Append(path, nx(path)[i])]]
    BY <2>1 DEF Ahead
  <2> HIDE DEF next
  <2> QED
    BY <2>1, <2>2 DEF Collected
<1> HIDE DEF body, next, D
<1> PICK W : W = CHOOSE h : h = [path \in Seq(E) |-> body(h, path)]
  OBVIOUS
<1>7. IsTheWalk(W, E, next, D)
  <2>1. PICK h : IsTheWalk(h, E, next, D)
    BY <1>1, <1>5, WalkExists
  <2>2. h = [path \in Seq(E) |-> body(h, path)]
    BY <1>6, <2>1 DEF IsTheWalk
  <2>3. W = [path \in Seq(E) |-> body(W, path)]
    BY <2>2
  <2> QED
    BY <1>6, <2>3 DEF IsTheWalk
<1>8. Chain(<<>>, E, focus)
  BY EmptySeq DEF Chain
<1>9. ListsOnce(W[<<>>], Ends(E, focus, <<>>, D))
  <2>1. \A p : Chain(p, E, focus) => ListsOnce(W[p], Ends(E, focus, p, D))
    BY <1>1, <1>5, <1>7, WalkLists
  <2> QED
    BY <1>8, <2>1
<1>10. Ends(E, focus, <<>>, D) = SimplePaths(g, focus)
  <2>1. \A q \in Seq(E) : Along(q, <<>>)
    BY EmptySeq, LenProperties DEF Along
  <2>2. \A q : Chain(q, E, focus) => q \in Seq(E)
    BY DEF Chain
  <2>3. \A q : q \in SimplePaths(g, focus) <=>
          Chain(q, E, focus) /\ Len(q) \in 1..(D - 1) /\ OnwardFrom(E, focus, q) = {}
    BY SimpleIs DEF D
  <2> QED
    BY <2>1, <2>2, <2>3 DEF Ends
<1> QED
  BY <1>2, <1>9, <1>10

\* Of two paths of one length the one comes first that has the first edge where
\* they part.
Parts(p, q, i) == (\A j \in 1..(i - 1) : p[j] = q[j]) /\ EdgeLess(p[i], q[i])

\* This is how the code compares them.
LEMMA PathLessIs ==
  ASSUME NEW E, NEW p \in Seq(E), NEW q \in Seq(E), Len(p) = Len(q)
  PROVE  PathLess(p, q) <=> \E i \in 1..Len(p) : Parts(p, q, i)
<1> PICK n : n = Len(p)
  OBVIOUS
<1>1. n \in Nat /\ Len(p) = n /\ Len(q) = n
  BY LenProperties
<1>2. ASSUME NEW i \in 1..(n + 1),
             \A j \in 1..(i - 1) : j <= n /\ p[j] = q[j],
             IF i > n THEN n >= i ELSE i <= n /\ EdgeLess(p[i], q[i])
      PROVE  i \in 1..n /\ Parts(p, q, i)
  BY <1>1, <1>2 DEF Parts
<1>3. ASSUME NEW i \in 1..n, Parts(p, q, i)
      PROVE  /\ i \in 1..(n + 1) /\ \A j \in 1..(i - 1) : j <= n /\ p[j] = q[j]
             /\ IF i > n THEN n >= i ELSE i <= n /\ EdgeLess(p[i], q[i])
  BY <1>1, <1>3 DEF Parts
<1> QED
  BY <1>1, <1>2, <1>3 DEF PathLess

\* It is an order of the paths of one length.
LEMMA PathLessIsTotal ==
  ASSUME NEW E, E \subseteq Named, NEW n, NEW S, S \subseteq Seq(E), \A p \in S : Len(p) = n,
         NEW less, \A p, q \in S : <<p, q>> \in less <=> PathLess(p, q)
  PROVE  StrictTotal(S, less)
<1>1. \A p \in S : p \in Seq(E) /\ Len(p) = n /\ n \in Nat
  BY LenProperties
<1>2. \A p \in S : \A i \in 1..n : p[i] \in E
  BY <1>1, ElementOfSeq
<1>3. \A p, q \in S : <<p, q>> \in less <=> \E i \in 1..n : Parts(p, q, i)
  BY <1>1, PathLessIs
<1>4. ASSUME NEW p \in S, NEW q \in S, p # q PROVE <<p, q>> \in less \/ <<q, p>> \in less
  <2> DEFINE D == {i \in 1..n : p[i] # q[i]}
  <2>1. PICK b : b \in D
    <3> SUFFICES ASSUME \A i \in 1..n : p[i] = q[i] PROVE FALSE
      OBVIOUS
    <3> QED
      BY <1>1, <1>4, SeqEqual
  <2>2. PICK i \in D : \A m \in D : i <= m
    <3>1. D \in SUBSET Nat
      BY <1>1
    <3> HIDE DEF D
    <3> QED
      BY <2>1, <3>1, SmallestNumber
  <2>3. \A j \in 1..(i - 1) : p[j] = q[j]
    <3> SUFFICES ASSUME NEW j \in 1..(i - 1), p[j] # q[j] PROVE FALSE
      OBVIOUS
    <3>1. i \in 1..n /\ n \in Nat
      BY <1>1
    <3>2. j \in 1..n /\ j < i
      BY <3>1
    <3> QED
      BY <2>2, <3>1, <3>2
  <2>4. p[i] \in E /\ q[i] \in E /\ p[i] # q[i] /\ i \in 1..n
    BY <1>2
  <2>5. EdgeLess(p[i], q[i]) \/ EdgeLess(q[i], p[i])
    BY <2>4, EdgeLessIsTotal
  <2>6. Parts(p, q, i) \/ Parts(q, p, i)
    BY <2>3, <2>5 DEF Parts
  <2> QED
    BY <1>3, <2>4, <2>6
<1>5. ASSUME NEW p \in S PROVE <<p, p>> \notin less
  <2> SUFFICES ASSUME NEW i \in 1..n, Parts(p, p, i) PROVE FALSE
    BY <1>3
  <2>1. p[i] \in E
    BY <1>2
  <2> QED
    BY <2>1, EdgeLessIsTotal DEF Parts
<1>6. ASSUME NEW p \in S, NEW q \in S, NEW r \in S, <<p, q>> \in less, <<q, r>> \in less
      PROVE  <<p, r>> \in less
  <2>1. PICK i \in 1..n : Parts(p, q, i)
    BY <1>3, <1>6
  <2>2. PICK k \in 1..n : Parts(q, r, k)
    BY <1>3, <1>6
  <2>3. /\ \A j \in 1..(i - 1) : p[j] = q[j]
        /\ \A j \in 1..(k - 1) : q[j] = r[j]
        /\ EdgeLess(p[i], q[i]) /\ EdgeLess(q[k], r[k])
    BY <2>1, <2>2 DEF Parts
  <2>4. CASE i < k
    <3>1. i \in 1..(k - 1) /\ \A j \in 1..(i - 1) : j \in 1..(k - 1)
      BY <2>4
    <3>2. Parts(p, r, i)
      BY <2>3, <3>1 DEF Parts
    <3> QED
      BY <1>3, <3>2
  <2>5. CASE k < i
    <3>1. k \in 1..(i - 1) /\ \A j \in 1..(k - 1) : j \in 1..(i - 1)
      BY <2>5
    <3>2. Parts(p, r, k)
      BY <2>3, <3>1 DEF Parts
    <3> QED
      BY <1>3, <3>2
  <2>6. CASE i = k
    <3>1. p[i] \in E /\ q[i] \in E /\ r[i] \in E
      BY <1>2
    <3>2. EdgeLess(p[i], r[i])
      BY <2>3, <2>6, <3>1, EdgeLessIsTotal
    <3>3. Parts(p, r, i)
      BY <2>3, <2>6, <3>2 DEF Parts
    <3> QED
      BY <1>3, <3>3
  <2> QED
    BY <2>4, <2>5, <2>6
<1> QED
  BY <1>4, <1>5, <1>6 DEF StrictTotal

\* The score of a path is a number.
LEMMA PathScoreIsNumber ==
  ASSUME NEW g, NEW E, NEW p \in Seq(E)
  PROVE  PathScore(g, p) \in Int
<1> PICK D : D = DOMAIN p
  OBVIOUS
<1> PICK v : v = [i \in D |-> edgeSignalScore(semanticEdgeType(g, p[i]))
                                + targetNodeScore(g, p[i].dst)]
  OBVIOUS
<1>1. IsFiniteSet(D)
  <2>1. D = 1..Len(p) /\ Len(p) \in Nat
    BY LenProperties
  <2> QED
    BY <2>1, FS_Interval
<1>2. \A m : edgeSignalScore(m) \in Int
  BY DEF edgeSignalScore
<1>3. \A id : targetNodeScore(g, id) \in Int
  BY DEF targetNodeScore, If
<1>4. v \in [D -> Int]
  BY <1>2, <1>3
<1>5. Total(v) \in Int
  BY <1>1, <1>4, TotalIsNumber
<1> QED
  BY <1>5 DEF PathScore

\* What is left of a list without its head.
LEMMA TailOnce ==
  ASSUME NEW S, NEW seq, ListsOnce(seq, S), seq # <<>>
  PROVE  /\ seq[1] \in S /\ Head(seq) = seq[1]
         /\ ListsOnce(Tail(seq), S \ {seq[1]})
<1> PICK n : n = Len(seq)
  OBVIOUS
<1>1. seq \in Seq(S) /\ n \in Nat \ {0} /\ DOMAIN seq = 1..n
  BY EmptySeq, LenProperties DEF ListsOnce, Lists
<1>2. (\A x : x \in S <=> \E i \in 1..n : seq[i] = x) /\ \A i, j \in 1..n : seq[i] = seq[j] => i = j
  BY <1>1 DEF ListsOnce, Lists, Range, IsInjective
<1> PICK t : t = Tail(seq)
  OBVIOUS
<1>3. /\ Head(seq) = seq[1] /\ t \in Seq(S) /\ Len(t) = n - 1
      /\ \A i \in 1..(n - 1) : t[i] = seq[i + 1]
  BY <1>1, HeadTailProperties
<1>4. DOMAIN t = 1..(n - 1)
  BY <1>3, LenProperties
<1>5. 1 \in 1..n /\ \A i \in 1..(n - 1) : i + 1 \in 1..n /\ i + 1 # 1
  BY <1>1
<1>6. \A i \in 1..n : i = 1 \/ (i - 1 \in 1..(n - 1) /\ (i - 1) + 1 = i)
  BY <1>1
<1> PICK rest : rest = S \ {seq[1]}
  OBVIOUS
<1>7. \A x : x \in rest <=> \E i \in 1..(n - 1) : t[i] = x
  <2>1. ASSUME NEW x \in rest PROVE \E i \in 1..(n - 1) : t[i] = x
    <3>1. PICK k \in 1..n : seq[k] = x
      BY <1>2
    <3>2. k # 1
      BY <3>1
    <3> QED
      BY <1>3, <1>6, <3>1, <3>2
  <2>2. ASSUME NEW i \in 1..(n - 1) PROVE t[i] \in rest
    BY <1>2, <1>3, <1>5
  <2> QED
    BY <2>1, <2>2
<1>8. t \in Seq(rest)
  <2>1. \A i \in 1..(n - 1) : t[i] \in rest
    BY <1>7
  <2>2. t \in [1..Len(t) -> S]
    BY <1>3, LenProperties
  <2>3. t \in [1..(n - 1) -> rest] /\ n - 1 \in Nat
    <3> PICK m : m = n - 1
      OBVIOUS
    <3>1. m \in Nat /\ t \in [1..m -> S]
      BY <1>1, <1>3, <2>2
    <3>2. \A i \in 1..m : t[i] \in rest
      BY <2>1
    <3>3. t \in [1..m -> rest]
      BY ONLY <3>1, <3>2
    <3> QED
      BY <3>1, <3>3
  <2> QED
    BY <2>3, IsASequence
<1>9. \A i, j \in 1..(n - 1) : t[i] = t[j] => i = j
  <2> SUFFICES ASSUME NEW i \in 1..(n - 1), NEW j \in 1..(n - 1), t[i] = t[j] PROVE i = j
    OBVIOUS
  <2>1. i + 1 = j + 1
    BY <1>2, <1>3, <1>5
  <2> QED
    BY <1>1, <2>1
<1>10. ListsOnce(t, rest)
  BY <1>4, <1>7, <1>8, <1>9 DEF ListsOnce, Lists, Range, IsInjective
<1> QED
  BY <1>2, <1>3, <1>5, <1>10

\* Of two candidates the better one comes first, of two as good the shorter one.
Better(g, p, q) ==
  \/ PathScore(g, p) > PathScore(g, q)
  \/ PathScore(g, p) = PathScore(g, q) /\ Len(p) < Len(q)
  \/ PathScore(g, p) = PathScore(g, q) /\ Len(p) = Len(q) /\ PathLess(p, q)

\* That is an order of the paths of a graph.
LEMMA BetterIsTotal ==
  ASSUME NEW g, NEW E, E \subseteq Named, NEW C, C \subseteq Seq(E)
  PROVE  StrictTotal(C, {p \in C \X C : Better(g, p[1], p[2])})
<1> DEFINE score == [p \in C |-> PathScore(g, p)]
           short == [p \in C |-> -Len(p)]
           names == {p \in C \X C : PathLess(p[1], p[2])}
           ties == ByWeight(C, short, names)
<1>1. score \in [C -> Int]
  BY PathScoreIsNumber
<1>2. \A p \in C : Len(p) \in Nat
  BY LenProperties
<1>3. short \in [C -> Int]
  BY <1>2
<1>4. \A n \in Int : StrictTotal({p \in C : short[p] = n}, names)
  <2> TAKE n \in Int
  <2> PICK S : S = {p \in C : short[p] = n}
    OBVIOUS
  <2> PICK m : m = -n
    OBVIOUS
  <2>1. S \subseteq Seq(E) /\ \A p \in S : Len(p) = m
    BY <1>2
  <2>2. \A p, q \in S : <<p, q>> \in names <=> PathLess(p, q)
    OBVIOUS
  <2> HIDE DEF names, short
  <2>3. StrictTotal(S, names)
    BY <2>1, <2>2, PathLessIsTotal
  <2> QED
    BY <2>3
<1> HIDE DEF names
<1>5. StrictTotal(C, ties)
  <2> HIDE DEF short
  <2> QED
    BY <1>3, <1>4, ByWeightIsTotal
<1>6. \A n \in Int : StrictTotal({p \in C : score[p] = n}, ties)
  <2> HIDE DEF ties, score
  <2> QED
    BY <1>5 DEF StrictTotal
<1>7. StrictTotal(C, ByWeight(C, score, ties))
  <2> HIDE DEF ties, score
  <2> QED
    BY <1>1, <1>6, ByWeightIsTotal
<1>8. ByWeight(C, score, ties) = {p \in C \X C : Better(g, p[1], p[2])}
  <2>1. \A p, q \in C : <<p, q>> \in ties <=>
          Len(p) < Len(q) \/ (Len(p) = Len(q) /\ PathLess(p, q))
    <3>1. \A p, q \in C : <<p, q>> \in names <=> PathLess(p, q)
      BY DEF names
    <3>2. \A p, q \in C : (short[p] > short[q] <=> Len(p) < Len(q)) /\ (short[p] = short[q] <=> Len(p) = Len(q))
      BY <1>2
    <3> HIDE DEF short
    <3> QED
      BY <3>1, <3>2 DEF ByWeight
  <2> HIDE DEF ties
  <2>2. \A p, q \in C : <<p, q>> \in ByWeight(C, score, ties) <=> Better(g, p, q)
    <3>1. \A p \in C : score[p] = PathScore(g, p)
      OBVIOUS
    <3> HIDE DEF score
    <3> QED
      BY <2>1, <3>1 DEF ByWeight, Better
  <2>3. ByWeight(C, score, ties) \subseteq C \X C
    BY DEF ByWeight
  <2> PICK W : W = ByWeight(C, score, ties)
    OBVIOUS
  <2>4. \A p \in C \X C : p \in W <=> Better(g, p[1], p[2])
    BY <2>2
  <2> QED
    BY <2>3, <2>4
<1> QED
  BY <1>7, <1>8

\* What is in a strict total order is listed once.
LEMMA TotalOnce ==
  ASSUME NEW S, IsFiniteSet(S), NEW less, StrictTotal(S, less), NEW seq, seq = Lined(S, less)
  PROVE  /\ ListsOnce(seq, S)
         /\ \A i, j \in DOMAIN seq : i < j => <<seq[i], seq[j]>> \in less
<1>1. /\ \A x, y \in S : x # y => <<x, y>> \in less \/ <<y, x>> \in less
      /\ \A x \in S : <<x, x>> \notin less
      /\ \A x, y, z \in S : <<x, y>> \in less /\ <<y, z>> \in less => <<x, z>> \in less
  BY DEF StrictTotal
<1> QED
  BY <1>1, OrderedOnce

\* One thing is a list of its own.
LEMMA OneOnce ==
  ASSUME NEW h
  PROVE  ListsOnce(<<h>>, {h})
<1>1. <<h>> \in Seq({h}) /\ Range(<<h>>) = {h}
  BY DEF Range
<1>2. IsInjective(<<h>>)
  BY DEF IsInjective
<1> QED
  BY <1>1, <1>2 DEF ListsOnce, Lists

\* The first of the candidates in their order has the best score.
LEMMA BestFirst ==
  ASSUME NEW g, NEW E, E \subseteq Named, NEW C, C \subseteq Seq(E), IsFiniteSet(C),
         NEW best, best = Lined(C, {p \in C \X C : Better(g, p[1], p[2])})
  PROVE  /\ ListsOnce(best, C)
         /\ best # <<>> => \A p \in C : PathScore(g, p) <= PathScore(g, best[1])
<1> PICK less : less = {p \in C \X C : Better(g, p[1], p[2])}
  OBVIOUS
<1>1. StrictTotal(C, less)
  BY BetterIsTotal
<1>2. best = Lined(C, less)
  OBVIOUS
<1>3. ListsOnce(best, C) /\ \A i, j \in DOMAIN best : i < j => <<best[i], best[j]>> \in less
  BY <1>1, <1>2, TotalOnce
<1>4. \A p, q \in C : <<p, q>> \in less => Better(g, p, q)
  OBVIOUS
<1>5. best \in Seq(C) /\ DOMAIN best = 1..Len(best) /\ Len(best) \in Nat /\ Range(best) = C
  BY <1>3, LenProperties DEF ListsOnce, Lists
<1>6. ASSUME best # <<>>, NEW p \in C PROVE PathScore(g, p) <= PathScore(g, best[1])
  <2>1. 1 \in DOMAIN best
    BY <1>5, <1>6, EmptySeq
  <2>2. PICK i \in DOMAIN best : best[i] = p
    BY <1>5 DEF Range
  <2> PICK h : h = best[1]
    OBVIOUS
  <2>3. h \in C
    BY <1>5, <2>1 DEF Range
  <2>4. PathScore(g, p) \in Int /\ PathScore(g, h) \in Int
    <3>1. p \in Seq(E) /\ h \in Seq(E)
      BY <2>3
    <3> QED
      BY <3>1, PathScoreIsNumber
  <2>5. CASE i = 1
    <3>1. p = h
      BY <2>2, <2>5
    <3> QED
      BY <2>4, <3>1
  <2>6. CASE i # 1
    <3>1. 1 < i
      BY <1>5, <2>6
    <3>2. <<best[1], best[i]>> \in less
      BY <1>3, <2>1, <3>1
    <3>3. <<h, p>> \in less
      BY <2>2, <3>2
    <3>4. Better(g, h, p)
      BY <1>4, <2>3, <3>3
    <3>5. PathScore(g, h) > PathScore(g, p) \/ PathScore(g, h) = PathScore(g, p)
      BY <3>4 DEF Better
    <3>6. PathScore(g, p) <= PathScore(g, h)
      BY <2>4, <3>5
    <3> QED
      BY <3>6
  <2> QED
    BY <2>5, <2>6
<1> QED
  BY <1>3, <1>6

\* The best of them and those of the others that differ.
Selected(list, best, others) == list = <<Head(best)>> \o Kept(Tail(best), others)

\* They are listed once.
LEMMA HeadAndKept ==
  ASSUME NEW C, NEW best, ListsOnce(best, C), best # <<>>, NEW others,
         NEW list, Selected(list, best, others)
  PROVE  \E shown \in SUBSET C : ListsOnce(list, shown) /\ list[1] = best[1]
<1> PICK h : h = best[1]
  OBVIOUS
<1> PICK T : T = C \ {h}
  OBVIOUS
<1> PICK tail : tail = Tail(best)
  OBVIOUS
<1> PICK kept : kept = Kept(tail, others)
  OBVIOUS
<1>1. h \in C /\ Head(best) = h /\ ListsOnce(tail, T)
  BY TailOnce
<1> PICK K : K = T \cap others
  OBVIOUS
<1> PICK H : H = {h}
  OBVIOUS
<1> PICK one : one = <<h>>
  OBVIOUS
<1>2. ListsOnce(kept, K)
  BY <1>1, KeptOnce
<1>3. ListsOnce(one, H)
  BY OneOnce
<1>4. H \cap K = {}
  OBVIOUS
<1>5. ListsOnce(one \o kept, H \cup K)
  BY <1>2, <1>3, <1>4, JoinedOnce
<1>6. list = one \o kept /\ H \cup K \in SUBSET C
  BY <1>1 DEF Selected
<1>7. list[1] = h
  <2>1. kept \in Seq(K)
    BY <1>2 DEF ListsOnce, Lists
  <2>2. list = <<h>> \o kept
    BY <1>6
  <2> QED
    BY <2>1, <2>2
<1> QED
  BY <1>5, <1>6, <1>7

\* The first of a list of all paths, and which of them there are.
LEMMA CandidatesAmong ==
  ASSUME NEW all, NEW seq, ListsOnce(seq, all), NEW first, first = FirstN(seq, MaxCandidates),
         NEW C, C = ToSet(first)
  PROVE  C \subseteq all /\ IsFiniteSet(C) /\ (Cardinality(all) <= MaxCandidates => C = all)
<1>1. /\ first \in Seq(all) /\ IsInjective(first)
      /\ Cardinality(all) <= MaxCandidates => first = seq
  BY BoundsAssumption, FirstOnce
<1>2. C = Range(first) /\ C = {first[i] : i \in DOMAIN first}
  BY DEF ToSet, Range
<1>3. first \in [1..Len(first) -> all] /\ Len(first) \in Nat /\ DOMAIN first = 1..Len(first)
  BY <1>1, LenProperties
<1>4. C \subseteq all
  BY <1>2, <1>3
<1>5. first \in Seq(C)
  <2>1. first \in [1..Len(first) -> C]
    BY <1>2, <1>3
  <2> QED
    BY <1>3, <2>1, IsASequence
<1>6. ListsOnce(first, C)
  BY <1>1, <1>2, <1>5 DEF ListsOnce, Lists
<1>7. Range(seq) = all
  BY DEF ListsOnce, Lists
<1> QED
  BY <1>1, <1>2, <1>4, <1>6, <1>7, OnceIsAsMany

\* What the paths that are offered promise.
Offered(paths, g, all) ==
  /\ ToSet(paths) \subseteq all /\ IsInjective(paths) /\ paths[1] \in all
  /\ Cardinality(all) <= MaxCandidates =>
       \A p \in all : PathScore(g, p) <= PathScore(g, paths[1])

\* They keep it.
LEMMA VariantsAreWalks ==
  ASSUME NEW g, g.edges \subseteq Named, IsFiniteSet(g.edges), NEW focus,
         NEW paths, paths = buildPathVariants(focus, g), paths # <<>>
  PROVE  Offered(paths, g, SimplePaths(g, focus))
<1> PICK all : all = SimplePaths(g, focus)
  OBVIOUS
<1>1. PICK seq : ListsOnce(seq, all) /\ collectPathCandidates(focus, g) = FirstN(seq, MaxCandidates)
  BY CandidatesAre
<1> PICK C : C = ToSet(FirstN(seq, MaxCandidates))
  OBVIOUS
<1>2. C \subseteq all /\ IsFiniteSet(C) /\ (Cardinality(all) <= MaxCandidates => C = all)
  BY <1>1, CandidatesAmong
<1> PICK best : best = Lined(C, {p \in C \X C : Better(g, p[1], p[2])})
  OBVIOUS
<1>3. /\ ListsOnce(best, C)
      /\ best # <<>> => \A p \in C : PathScore(g, p) <= PathScore(g, best[1])
  <2> PICK E : E = g.edges
    OBVIOUS
  <2>1. \A p \in all : Chain(p, E, focus)
    BY SimpleIs
  <2>2. C \subseteq Seq(E)
    BY <1>2, <2>1 DEF Chain
  <2> QED
    BY <1>2, <2>2, BestFirst
<1> PICK others : others = {p \in C : isDistinctPath(g, Head(best), p)}
  OBVIOUS
<1> PICK list : list = <<Head(best)>> \o Kept(Tail(best), others)
  OBVIOUS
<1>4. best # <<>> /\ paths = FirstN(list, MaxVariants)
  <2>1. best = InOrder(C, LAMBDA p, q :
          \/ PathScore(g, p) > PathScore(g, q)
          \/ PathScore(g, p) = PathScore(g, q) /\ Len(p) < Len(q)
          \/ PathScore(g, p) = PathScore(g, q) /\ Len(p) = Len(q) /\ PathLess(p, q))
    BY DEF InOrder, Better
  <2>2. paths = IF best = <<>> THEN <<>> ELSE FirstN(list, MaxVariants)
    BY <1>1, <2>1 DEF buildPathVariants
  <2> QED
    BY <2>2
<1>5. PICK shown \in SUBSET C : ListsOnce(list, shown) /\ list[1] = best[1]
  <2>1. Selected(list, best, others)
    BY DEF Selected
  <2> QED
    BY ONLY <1>3, <1>4, <2>1, HeadAndKept
<1>6. paths \in Seq(shown) /\ IsInjective(paths) /\ paths[1] = list[1]
  <2>1. MaxVariants \in Nat
    BY BoundsAssumption
  <2>2. paths # <<>>
    OBVIOUS
  <2> QED
    BY ONLY <1>4, <1>5, <2>1, <2>2, FirstOnce
<1>7. ToSet(paths) \subseteq shown /\ paths[1] \in shown
  <2>1. \A i \in DOMAIN paths : paths[i] \in shown
    BY <1>6, ElementOfSeq, LenProperties
  <2>2. 1 \in DOMAIN paths
    BY <1>6, EmptySeq, LenProperties
  <2> QED
    BY <2>1, <2>2 DEF ToSet
<1> QED
  BY <1>2, <1>3, <1>4, <1>5, <1>6, <1>7 DEF Offered

\* Each of them begins at the focus, and leads away from it.
LEMMA WalksBegin ==
  ASSUME NEW g, NEW focus, NEW p \in SimplePaths(g, focus)
  PROVE  p[1] \in g.edges /\ p[1].src = focus /\ p[1].dst # focus
<1>1. Chain(p, g.edges, focus) /\ Len(p) \in 1..(MaxPathDepth - 1)
  BY SimpleIs
<1>2. 1 \in 1..Len(p)
  BY <1>1
<1> QED
  BY <1>1, <1>2, ElementOfSeq DEF Chain

-----------------------------------------------------------------------------
(* Some scan has what is in the database.                                  *)

\* A finding of that id about that resource is among the artifacts.
Found(artifacts, id, arn) ==
  \E scan \in DOMAIN artifacts : \E f \in artifacts[scan].findings : f.id = id /\ f.arn = arn

\* Whatever is in the database, some scan has it.
HasOnly(g, artifacts) ==
  /\ \A arn \in DOMAIN g.assets :
       g.assets[arn].scan \in DOMAIN artifacts /\ arn \in ArnsOf(artifacts[g.assets[arn].scan])
  /\ \A id \in DOMAIN g.findings : Found(artifacts, id, g.findings[id].arn)
  /\ \A id, arn : <<id, arn>> \in g.affects => Found(artifacts, id, arn)

\* So it is of the database and the disk there are.
FromScans == HasOnly(db, disk)

\* The findings of one id are about one resource.
OneArn == \A id, x, y : Found(disk, id, x) /\ Found(disk, id, y) => x = y

\* What was found once stays on disk.
LEMMA FoundForGood ==
  ASSUME ScansGrow, NEW id, NEW arn, Found(disk, id, arn)
  PROVE  Found(disk', id, arn)
BY DEF ScansGrow, Found

\* As long as nothing is written, the database has what it had.
LEMMA ScansStay ==
  ASSUME FromScans, ScansGrow, UNCHANGED db
  PROVE  FromScans'
<1>1. ASSUME NEW arn \in DOMAIN db.assets
      PROVE  /\ db.assets[arn].scan \in DOMAIN disk'
             /\ arn \in ArnsOf(disk'[db.assets[arn].scan])
  BY <1>1 DEF FromScans, HasOnly, ScansGrow
<1>2. \A id \in DOMAIN db.findings : Found(disk', id, db.findings[id].arn)
  BY FoundForGood DEF FromScans, HasOnly
<1>3. \A id, arn : <<id, arn>> \in db.affects => Found(disk', id, arn)
  BY FoundForGood DEF FromScans, HasOnly
<1> QED
  BY <1>1, <1>2, <1>3 DEF FromScans, HasOnly

\* A statement writes what is in its scan.
LEMMA RunStatementKeepsScans ==
  ASSUME ExportInv, SourceInv, FromScans, NEW e \in Exporters, RunStatement(e)
  PROVE  FromScans'
<1> PICK scan : scan = export[e].scan
  OBVIOUS
<1> PICK s : s = Head(export[e].todo)
  OBVIOUS
<1> PICK art : art = disk[scan]
  OBVIOUS
<1>1. export[e].phase = "write" /\ db' = Apply(db, s) /\ disk' = disk
  BY DEF RunStatement
<1>2. ExporterSound(export[e], db, disk, begun) /\ begun \subseteq DOMAIN disk
  BY DEF ExportInv
<1>3. scan \in DOMAIN disk /\ s \in Range(export[e].todo)
  <2>1. scan \in DOMAIN disk /\ Writing(export[e].todo, scan, db, art)
    BY <1>1, <1>2 DEF ExporterSound
  <2> QED
    BY <2>1, RestOfStages DEF Writing
<1>4. Stated(s, scan, art)
  BY <1>1, <1>3 DEF SourceInv
<1>5. /\ s.op = "asset" => s.asset \in art.assets /\ s.scan = scan
      /\ s.op = "finding" => s.finding \in art.findings
      /\ s.op = "affects" => \E f \in Hanging(art) : s.id = f.id /\ s.arn = f.arn
      /\ s.op \in MakingOps \cup TyingOps
  BY <1>4, StatedIsInScan
<1>6. Changes(db, db', s)
  BY <1>1, <1>5, StatementChanges DEF ExportInv
<1>7. ASSUME NEW arn \in DOMAIN db'.assets
      PROVE  /\ db'.assets[arn].scan \in DOMAIN disk
             /\ arn \in ArnsOf(disk[db'.assets[arn].scan])
  <2>1. CASE db'.assets = db.assets
    BY <2>1 DEF FromScans, HasOnly
  <2>2. CASE s.op = "asset" /\ db'.assets = Merge(db.assets, s.asset.arn,
               [type |-> s.asset.type, account |-> s.asset.account, scan |-> s.scan])
    <3> PICK v : v = [type |-> s.asset.type, account |-> s.asset.account, scan |-> s.scan]
      OBVIOUS
    <3>1. db'.assets = Merge(db.assets, s.asset.arn, v) /\ v.scan = scan
      BY <1>5, <2>2
    <3>2. /\ DOMAIN db'.assets = DOMAIN db.assets \cup {s.asset.arn}
          /\ db'.assets[s.asset.arn] = v
          /\ \A x \in DOMAIN db.assets : x # s.asset.arn => db'.assets[x] = db.assets[x]
      BY <3>1 DEF Merge, Over
    <3>3. s.asset.arn \in ArnsOf(art)
      BY <1>5, <2>2 DEF ArnsOf
    <3> QED
      BY <1>3, <3>1, <3>2, <3>3 DEF FromScans, HasOnly
  <2> QED
    BY <1>6, <2>1, <2>2 DEF Changes
<1>8. ASSUME NEW id \in DOMAIN db'.findings
      PROVE  Found(disk, id, db'.findings[id].arn)
  <2>1. CASE db'.findings = db.findings
    BY <2>1 DEF FromScans, HasOnly
  <2> DEFINE w == [arn |-> s.finding.arn, account |-> s.finding.account,
                    severity |-> s.finding.severity, module |-> s.finding.module,
                    scan |-> s.scan, embedding |-> Embedding(db.findings, s.finding.id, s)]
  <2>2. CASE s.op = "finding" /\ db'.findings = Merge(db.findings, s.finding.id, w)
    <3> PICK v : v = w
      OBVIOUS
    <3>1. v.arn = s.finding.arn
      OBVIOUS
    <3> HIDE DEF w
    <3>2. db'.findings = Merge(db.findings, s.finding.id, v)
      BY <2>2
    <3>3. /\ DOMAIN db'.findings = DOMAIN db.findings \cup {s.finding.id}
          /\ db'.findings[s.finding.id] = v
          /\ \A x \in DOMAIN db.findings : x # s.finding.id => db'.findings[x] = db.findings[x]
      BY <3>2 DEF Merge, Over
    <3>4. Found(disk, s.finding.id, s.finding.arn)
      BY <1>3, <1>5, <2>2 DEF Found
    <3> QED
      BY <3>1, <3>3, <3>4 DEF FromScans, HasOnly
  <2> QED
    BY <1>6, <2>1, <2>2 DEF Changes
<1>9. ASSUME NEW id, NEW arn, <<id, arn>> \in db'.affects
      PROVE  Found(disk, id, arn)
  <2>1. CASE <<id, arn>> \in db.affects
    BY <2>1 DEF FromScans, HasOnly
  <2>2. CASE s.op = "affects" /\ <<id, arn>> = <<s.id, s.arn>>
    <3>1. PICK f \in Hanging(art) : s.id = f.id /\ s.arn = f.arn
      BY <1>5, <2>2
    <3> QED
      BY <1>3, <2>2, <3>1 DEF Hanging, Found
  <2> QED
    BY <1>6, <1>9, <2>1, <2>2 DEF Changes
<1> QED
  BY <1>1, <1>7, <1>8, <1>9 DEF FromScans, HasOnly

\* Only statements write to the database.
LEMMA ExportStepKeepsScans ==
  ASSUME ExportInv, SourceInv, FromScans, NEW e \in Exporters, ExportStep(e), ScansGrow
  PROVE  FromScans'
<1>1. CASE RunStatement(e)
  BY <1>1, RunStatementKeepsScans
<1>2. CASE UNCHANGED db
  BY <1>2, ScansStay
<1>3. RunStatement(e) \/ UNCHANGED db
  BY DEF ExportStep, BeginWrite, WriteFails, DropStale, Project, Analyse, Release, Deadline,
         ExporterDies
<1> QED
  BY <1>1, <1>2, <1>3

-----------------------------------------------------------------------------
(* What a request offers, from one transaction to the next.                *)

\* What a request may be about.
RootKinds == {"finding", "principal", "entity"}

\* Finitely many relationships, between strings.
Drawable(g) == IsFiniteSet(g.edges) /\ g.edges \subseteq Named

\* A finding and a principal are walked from one place only, which is where the
\* scan of the request has the walk begin if it has the place at all.
PathReader(x) ==
  /\ x.req.kind \in RootKinds /\ x.req.scan \in DOMAIN disk
  /\ x.phase = "context" => x.req.kind = "finding"
  /\ x.req.kind = "finding" => FindingOf(x.req) # {}
  /\ x.phase = "expand" =>
       /\ Drawable(x.graph)
       /\ x.req.kind # "entity" =>
            /\ x.todo = <<x.focus>> /\ x.graph = NoGraph
            /\ x.focus \in ArnsOf(disk[x.req.scan]) => x.focus \in StartsOf(x.req)
       /\ x.req.kind = "finding" => x.focus \in DOMAIN Rank

\* What an answer offers are walks from where the request starts.
PathAnswer(a) ==
  /\ a.req.scan \in DOMAIN disk
  /\ a.payload.variants # <<>> =>
       LET paths == a.payload.variants
           all == SimplePaths(a.graph, paths[1][1].src)
       IN  /\ a.req.kind # "entity" => paths[1][1].src \in StartsOf(a.req)
           /\ ToSet(paths) \subseteq all /\ IsInjective(paths)
           /\ Cardinality(all) <= MaxCandidates =>
                \A p \in all : PathScore(a.graph, p) <= PathScore(a.graph, paths[1])

\* Of the request being served, and of the answer that waits to be sent.
PathInv ==
  /\ reader # NoReader => PathReader(reader)
  /\ answer # NoAnswer => PathAnswer(answer)

\* The scans of a request and of an answer are on disk for good, as they are.
LEMMA PathReaderStays ==
  ASSUME ScansGrow, NEW x, PathReader(x)
  PROVE  PathReader(x)'
<1> PICK req : req = x.req
  OBVIOUS
<1>1. req.scan \in DOMAIN disk /\ req.scan \in DOMAIN disk' /\ disk'[req.scan] = disk[req.scan]
  BY DEF PathReader, ScansGrow
<1>2. FindingOf(req)' = FindingOf(req) /\ StartsOf(req)' = StartsOf(req)
  BY <1>1, ScanReadAsBefore DEF SameScan
<1> QED
  BY <1>1, <1>2 DEF PathReader

\* An answer about a scan of them is as sound as it was.
LEMMA PathAnswerStays ==
  ASSUME ScansGrow, NEW a, PathAnswer(a)
  PROVE  PathAnswer(a)'
<1> PICK req : req = a.req
  OBVIOUS
<1>1. req.scan \in DOMAIN disk /\ req.scan \in DOMAIN disk' /\ disk'[req.scan] = disk[req.scan]
  BY DEF PathAnswer, ScansGrow
<1>2. StartsOf(req)' = StartsOf(req)
  BY <1>1, ScanReadAsBefore DEF SameScan
<1> QED
  BY <1>1, <1>2 DEF PathAnswer

\* What runs beside a request leaves it to what it has.
LEMMA PathStays ==
  ASSUME ScansGrow, PathInv, UNCHANGED <<reader, answer>>
  PROVE  PathInv'
<1>1. ASSUME reader # NoReader PROVE PathReader(reader)'
  <2> PICK x : x = reader
    OBVIOUS
  <2>1. PathReader(x)'
    BY <1>1, PathReaderStays DEF PathInv
  <2>2. x = reader'
    OBVIOUS
  <2> QED
    BY <2>1, <2>2
<1>2. ASSUME answer # NoAnswer PROVE PathAnswer(answer)'
  <2> PICK a : a = answer
    OBVIOUS
  <2>1. PathAnswer(a)'
    BY <1>2, PathAnswerStays DEF PathInv
  <2>2. a = answer'
    OBVIOUS
  <2> QED
    BY <2>1, <2>2
<1> QED
  BY <1>1, <1>2 DEF PathInv

\* A reader that goes on, and no answer that was not there.
LEMMA ReaderOffers ==
  ASSUME Reading, PathInv, NEW x, PathReader(x), reader' = x, UNCHANGED answer
  PROVE  PathInv'
<1>1. PathReader(x)'
  BY ReadingGrows, PathReaderStays
<1>2. PathReader(reader)'
  BY <1>1
<1>3. ASSUME answer # NoAnswer PROVE PathAnswer(answer)'
  <2> PICK a : a = answer
    OBVIOUS
  <2>1. PathAnswer(a)'
    BY <1>3, ReadingGrows, PathAnswerStays DEF PathInv
  <2>2. a = answer'
    OBVIOUS
  <2> QED
    BY <2>1, <2>2
<1> QED
  BY <1>2, <1>3 DEF PathInv

\* An answer is made, and nothing is being served.
LEMMA AnswerOffers ==
  ASSUME Reading, NEW req, NEW settled, NEW summary, NEW graph, NEW payload, NEW delta,
         Answer(req, settled, summary, graph, payload, delta), req.scan \in DOMAIN disk,
         payload.variants # <<>> =>
           LET paths == payload.variants
               all == SimplePaths(graph, paths[1][1].src)
           IN  /\ req.kind # "entity" => paths[1][1].src \in StartsOf(req)
               /\ ToSet(paths) \subseteq all /\ IsInjective(paths)
               /\ Cardinality(all) <= MaxCandidates =>
                    \A p \in all : PathScore(graph, p) <= PathScore(graph, paths[1])
  PROVE  PathInv'
<1> PICK a : a = answer'
  OBVIOUS
<1>1. a.req = req /\ a.graph = graph /\ a.payload = payload
  BY DEF Answer
<1>2. PathAnswer(a)
  BY <1>1 DEF PathAnswer
<1>3. PathAnswer(a)'
  BY <1>2, ReadingGrows, PathAnswerStays
<1>4. PathAnswer(answer)'
  BY <1>3
<1>5. reader' = NoReader
  BY DEF Answer
<1> QED
  BY <1>4, <1>5 DEF PathInv

\* An answer without the explorer offers no path.
LEMMA NoPathOffered ==
  ASSUME Reading, NEW req, NEW settled, NEW summary, NEW graph, NEW delta,
         Answer(req, settled, summary, graph, NoPayload, delta), req.scan \in DOMAIN disk
  PROVE  PathInv'
<1>1. NoPayload.variants = <<>>
  BY DEF NoPayload
<1> QED
  BY <1>1, AnswerOffers

\* Nor does one without the graph.
LEMMA WithoutOffers ==
  ASSUME Reading, NEW req, NEW settled, NEW summary, AnswerWithout(req, settled, summary),
         req.scan \in DOMAIN disk
  PROVE  PathInv'
BY NoPathOffered DEF AnswerWithout

\* The edge of a request to its finding ends where its walk begins.
LEMMA FindingIsDrawn ==
  ASSUME NEW req, NEW g, g = [nodes |-> g.nodes, edges |-> g.edges], NEW arn,
         NEW h, h = WithFinding(req, g, arn)
  PROVE  \/ h.edges = g.edges
         \/ /\ req.kind = "finding"
            /\ h.edges = g.edges \cup {[src |-> req.id, type |-> "AFFECTS", dst |-> arn]}
<1>1. CASE req.kind # "finding"
  BY <1>1 DEF WithFinding
<1>2. CASE req.kind = "finding"
  <2> PICK k : k = ensureMinimalNode(ensureMinimalNode(g, arn), req.id)
    OBVIOUS
  <2>1. k = [nodes |-> k.nodes, edges |-> k.edges] /\ k.edges = g.edges
    BY MinimalNodeAddsNoEdge
  <2>2. h = addEdge(k, req.id, arn, "AFFECTS")
    BY <1>2 DEF WithFinding
  <2>3. CASE None \in {req.id, arn, "AFFECTS"}
    BY <2>1, <2>2, <2>3 DEF addEdge
  <2>4. CASE None \notin {req.id, arn, "AFFECTS"}
    <3> PICK e : e = [src |-> req.id, type |-> "AFFECTS", dst |-> arn]
      OBVIOUS
    <3>1. h = [k EXCEPT !.edges = k.edges \cup {e}]
      BY <2>2, <2>4 DEF addEdge
    <3> QED
      BY <1>2, <2>1, <3>1
  <2> QED
    BY <2>3, <2>4
<1> QED
  BY <1>1, <1>2

\* A query returns relationships it walked.
LEMMA OnPathsAmong ==
  ASSUME NEW edges, NEW start, NEW directed \in BOOLEAN
  PROVE  OnPaths(edges, start, MaxHops, directed) \subseteq edges
<1>1. OnPaths(edges, start, MaxHops, directed) = Reach(edges, {start}, MaxHops, directed)
  BY BoundsAssumption, OnPathsIsReach
<1> QED
  BY <1>1 DEF Reach

\* An expansion draws relationships of the database, and draws any only where
\* the database has the resource from the scan.
LEMMA ExpandedFrom ==
  ASSUME NEW g, IsFiniteSet(g.edges), g.edges \subseteq Named, NEW arn, NEW scan, NEW mode,
         NEW h \in expandFromAsset(g, arn, scan, mode)
  PROVE  Drawable(h) /\ (h.edges # {} => InScan(g, arn, scan))
<1>1. PICK triples \in cypherExpand(g, arn, scan, mode) : h.edges = triples
  BY ExpandedEdges
<1>2. CASE ~InScan(g, arn, scan)
  <2>1. triples = {}
    BY <1>1, <1>2 DEF cypherExpand
  <2> QED
    BY <1>1, <2>1, FS_EmptySet DEF Drawable
<1>3. CASE InScan(g, arn, scan)
  <2> PICK attack \in BOOLEAN : attack = (mode = "attack_path")
    OBVIOUS
  <2> PICK n \in Nat : n = IF attack THEN AttackLimit ELSE EdgeCap
    BY BoundsAssumption
  <2> PICK edges : edges = Walkable(g)
    OBVIOUS
  <2> PICK rows : rows = OnPaths(edges, arn, MaxHops, attack)
    OBVIOUS
  <2>1. triples \in Limited(rows, n)
    BY <1>1, <1>3 DEF cypherExpand
  <2>2. edges \subseteq g.edges
    BY DEF Walkable
  <2>3. rows \subseteq g.edges
    BY <2>2, OnPathsAmong
  <2>4. IsFiniteSet(rows)
    BY <2>3, FS_Subset
  <2>5. triples \subseteq rows
    BY <2>1, <2>4, LimitedAreRows
  <2>6. IsFiniteSet(triples) /\ triples \subseteq Named
    BY <2>3, <2>4, <2>5, FS_Subset
  <2> QED
    BY <1>1, <1>3, <2>6 DEF Drawable
<1> QED
  BY <1>2, <1>3

\* The walks of the explorer begin where the scan has them begin: an edge that
\* leads away from the focus is not the one to the finding, so the expansion
\* drew it, from a resource of the scan.
LEMMA VariantsAreOffered ==
  ASSUME NEW graph, Drawable(graph), NEW req, req.kind \in RootKinds, NEW focus,
         req.kind # "entity" =>
           \A e \in graph.edges : e.src = focus /\ e.dst # focus => focus \in StartsOf(req),
         NEW paths, paths = buildPathVariants(focus, graph), paths # <<>>,
         NEW all, all = SimplePaths(graph, paths[1][1].src)
  PROVE  /\ req.kind # "entity" => paths[1][1].src \in StartsOf(req)
         /\ ToSet(paths) \subseteq all /\ IsInjective(paths)
         /\ Cardinality(all) <= MaxCandidates =>
              \A p \in all : PathScore(graph, p) <= PathScore(graph, paths[1])
<1> PICK walks : walks = SimplePaths(graph, focus)
  OBVIOUS
<1>1. Offered(paths, graph, walks)
  BY VariantsAreWalks DEF Drawable
<1> PICK first : first = paths[1]
  OBVIOUS
<1>2. first \in walks
  BY <1>1 DEF Offered
<1>3. first[1] \in graph.edges /\ first[1].src = focus /\ first[1].dst # focus
  BY <1>2, WalksBegin
<1>4. all = walks
  BY <1>3
<1> QED
  BY <1>1, <1>3, <1>4 DEF Offered

\* The answer made of a complete graph.
LEMMA CompleteOffers ==
  ASSUME Reading, PathInv, AnswerInv, reader # NoReader, NEW graph, Complete(graph), Drawable(graph),
         reader.req.kind # "entity" =>
           \A e \in graph.edges :
             e.src = reader.focus /\ e.dst # reader.focus => reader.focus \in StartsOf(reader.req)
  PROVE  PathInv'
<1> PICK req : req = reader.req
  OBVIOUS
<1> PICK settled : settled = reader.settled
  OBVIOUS
<1> PICK s : s = BuildSummaryPayload(graph, reader.focus, SignalsOf(req), TRUE, None)
  OBVIOUS
<1>1. PathReader(reader)
  BY DEF PathInv
<1>2. req.kind \in RootKinds /\ req.scan \in DOMAIN disk
  BY <1>1 DEF PathReader
<1>3. CASE \E focus \in (IF req.kind = "entity" THEN Assets(graph) ELSE {reader.focus}) :
             \E marked \in markCritical(focus, graph, req.mode) :
               Answer(req, settled, s, graph,
                      BuildExplorerPayload(graph, focus, req.mode, marked), NoDelta)
  <2>1. PICK focus \in (IF req.kind = "entity" THEN Assets(graph) ELSE {reader.focus}) :
          \E marked \in markCritical(focus, graph, req.mode) :
            Answer(req, settled, s, graph,
                   BuildExplorerPayload(graph, focus, req.mode, marked), NoDelta)
    BY <1>3
  <2>2. PICK marked :
          Answer(req, settled, s, graph,
                 BuildExplorerPayload(graph, focus, req.mode, marked), NoDelta)
    BY <2>1
  <2> PICK payload : payload = BuildExplorerPayload(graph, focus, req.mode, marked)
    OBVIOUS
  <2> PICK paths : paths = payload.variants
    OBVIOUS
  <2> PICK all : all = SimplePaths(graph, paths[1][1].src)
    OBVIOUS
  <2>3. paths # <<>> => paths = buildPathVariants(focus, graph)
    BY DEF BuildExplorerPayload
  <2>4. req.kind # "entity" => focus = reader.focus
    BY <2>1
  <2>5. req.kind # "entity" =>
          \A e \in graph.edges : e.src = focus /\ e.dst # focus => focus \in StartsOf(req)
    BY <2>4
  <2>6. paths # <<>> =>
          /\ req.kind # "entity" => paths[1][1].src \in StartsOf(req)
          /\ ToSet(paths) \subseteq all /\ IsInjective(paths)
          /\ Cardinality(all) <= MaxCandidates =>
               \A p \in all : PathScore(graph, p) <= PathScore(graph, paths[1])
    <3> SUFFICES ASSUME paths # <<>>
                 PROVE  /\ req.kind # "entity" => paths[1][1].src \in StartsOf(req)
                        /\ ToSet(paths) \subseteq all /\ IsInjective(paths)
                        /\ Cardinality(all) <= MaxCandidates =>
                             \A p \in all : PathScore(graph, p) <= PathScore(graph, paths[1])
      OBVIOUS
    <3>1. req.kind \in RootKinds /\ paths = buildPathVariants(focus, graph)
      BY <1>2, <2>3
    <3> QED
      BY <2>5, <3>1, VariantsAreOffered
  <2> QED
    BY <1>2, <2>2, <2>6, AnswerOffers
<1>4. CASE Answer(req, settled, s, graph, NoPayload, NoDelta)
  BY <1>2, <1>4, NoPathOffered
<1>5. CASE /\ reader' = [reader EXCEPT !.phase = "hop", !.graph = graph, !.todo = <<>>]
           /\ UNCHANGED answer
  <2> PICK x : x = reader'
    OBVIOUS
  <2>1. x.phase = "hop" /\ x.req = req
    BY <1>5 DEF AnswerInv
  <2>2. PathReader(x)
    BY <1>1, <2>1 DEF PathReader
  <2> QED
    BY <1>5, <2>2, ReaderOffers
<1> QED
  BY <1>3, <1>4, <1>5 DEF Complete

\* A request is served.
LEMMA ServeOffers ==
  ASSUME Reading, PathInv, NEW req, req.kind \in RootKinds, req.scan \in DOMAIN disk, Serve(req)
  PROVE  PathInv'
<1> PICK settled : settled = (req.scan \in written)
  OBVIOUS
<1>1. ASSUME NEW summary, AnswerWithout(req, settled, summary) PROVE PathInv'
  BY <1>1, WithoutOffers
<1>2. ASSUME req.kind = "finding", FindingOf(req) # {},
             reader' = [phase |-> "context", req |-> req, settled |-> settled,
                        todo |-> <<>>, focus |-> None, graph |-> NoGraph],
             UNCHANGED answer
      PROVE  PathInv'
  <2> PICK x : x = [phase |-> "context", req |-> req, settled |-> settled,
                    todo |-> <<>>, focus |-> None, graph |-> NoGraph]
    OBVIOUS
  <2>1. PathReader(x)
    BY <1>2 DEF PathReader
  <2> QED
    BY <1>2, <2>1, ReaderOffers
<1>3. ASSUME req.kind # "finding", EntryPoints(req) # <<>>, Read(req, settled, EntryPoints(req))
      PROVE  PathInv'
  <2> PICK arns : arns = EntryPoints(req)
    OBVIOUS
  <2> PICK x : x = [phase |-> "expand", req |-> req, settled |-> settled, todo |-> arns,
                    focus |-> Head(arns), graph |-> NoGraph]
    OBVIOUS
  <2>1. reader' = x /\ UNCHANGED answer
    BY <1>3 DEF Read
  <2>2. Drawable(NoGraph)
    BY FS_EmptySet DEF Drawable, NoGraph
  <2>3. ASSUME req.kind # "entity"
        PROVE  /\ x.todo = <<x.focus>>
               /\ x.focus \in ArnsOf(disk[req.scan]) => x.focus \in StartsOf(req)
    <3>1. req.kind = "principal"
      BY <1>3, <2>3 DEF RootKinds
    <3>2. arns = <<req.id>> /\ x.focus = req.id
      BY <3>1 DEF EntryPoints
    <3>3. StartsOf(req) = ArnsOf(disk[req.scan]) \cap ToSet(arns)
      BY <3>1 DEF StartsOf, ArnsOf
    <3>4. req.id \in ToSet(arns)
      BY <3>2 DEF ToSet
    <3> QED
      BY <3>2, <3>3, <3>4
  <2>4. PathReader(x)
    BY <1>3, <2>2, <2>3 DEF PathReader
  <2> QED
    BY <2>1, <2>4, ReaderOffers
<1>4. \/ \E summary : AnswerWithout(req, settled, summary)
      \/ /\ req.kind = "finding" /\ FindingOf(req) # {}
         /\ reader' = [phase |-> "context", req |-> req, settled |-> settled,
                       todo |-> <<>>, focus |-> None, graph |-> NoGraph]
         /\ UNCHANGED answer
      \/ /\ req.kind # "finding" /\ EntryPoints(req) # <<>>
         /\ Read(req, settled, EntryPoints(req))
  BY DEF Serve
<1> QED
  BY <1>1, <1>2, <1>3, <1>4

\* The resource a finding affects, wherever it is read: the id of the finding is
\* that of a finding about the resource, so that all of them are the same.
LEMMA ReadContextOffers ==
  ASSUME Reading, PathInv, FromScans, OneArn, \A scan \in DOMAIN disk : Traceable(disk[scan]),
         ReadContext
  PROVE  PathInv'
<1>1. reader # NoReader /\ reader.phase = "context"
  BY DEF ReadContext, NoReader
<1>2. PathReader(reader)
  BY <1>1 DEF PathInv
<1> PICK req : req = reader.req
  OBVIOUS
<1> PICK settled : settled = reader.settled
  OBVIOUS
<1> PICK f : f = CHOOSE x \in FindingOf(req) : TRUE
  OBVIOUS
<1>3. req.kind = "finding" /\ req.scan \in DOMAIN disk /\ f \in FindingOf(req)
  BY <1>1, <1>2 DEF PathReader
<1>4. PICK chosen :
        /\ \/ chosen = None /\ AnswerWithout(req, settled, Fallback(req, "no_graph_projection"))
           \/ chosen # None /\ Read(req, settled, <<chosen>>)
        /\ \/ chosen = f.arn
           \/ req.id \in DOMAIN db.findings /\ chosen = db.findings[req.id].arn
           \/ <<req.id, chosen>> \in db.affects
  BY ContextIsRead
<1>5. CASE AnswerWithout(req, settled, Fallback(req, "no_graph_projection"))
  BY <1>3, <1>5, WithoutOffers
<1>6. CASE chosen # None /\ Read(req, settled, <<chosen>>)
  <2>1. f \in disk[req.scan].findings /\ f.id = req.id
    BY <1>3 DEF FindingOf
  <2>2. Found(disk, req.id, f.arn)
    BY <1>3, <2>1 DEF Found
  <2>3. Found(disk, req.id, chosen)
    BY <1>4, <2>2 DEF FromScans, HasOnly
  <2>4. chosen = f.arn
    BY <2>2, <2>3 DEF OneArn
  <2>5. chosen \in DOMAIN Rank
    BY <1>3, <1>6, <2>1, <2>4 DEF Traceable
  <2> PICK arns : arns = <<chosen>>
    OBVIOUS
  <2> PICK x : x = [phase |-> "expand", req |-> req, settled |-> settled, todo |-> arns,
                    focus |-> chosen, graph |-> NoGraph]
    OBVIOUS
  <2>6. reader' = x /\ UNCHANGED answer
    BY <1>6 DEF Read
  <2>7. Drawable(NoGraph)
    BY FS_EmptySet DEF Drawable, NoGraph
  <2>8. chosen \in ArnsOf(disk[req.scan]) => chosen \in StartsOf(req)
    BY <1>3, <2>4 DEF StartsOf, ArnsOf
  <2>9. PathReader(x)
    BY <1>3, <2>5, <2>7, <2>8 DEF PathReader, RootKinds
  <2> QED
    BY <2>6, <2>9, ReaderOffers
<1> QED
  BY <1>4, <1>5, <1>6

\* One resource is expanded.
LEMMA ReadExpandOffers ==
  ASSUME Reading, PathInv, AnswerInv, FromScans, ExportInv,
         IsFiniteSet(db.edges), db.edges \subseteq Named, "AFFECTS" \in DOMAIN Rank, ReadExpand
  PROVE  PathInv'
<1>1. reader # NoReader /\ reader.phase = "expand"
  BY DEF ReadExpand, NoReader
<1>2. /\ PathReader(reader) /\ GraphSound(reader.graph)
      /\ reader = [phase |-> reader.phase, req |-> reader.req,
                   settled |-> reader.settled, todo |-> reader.todo,
                   focus |-> reader.focus, graph |-> reader.graph]
  BY <1>1 DEF PathInv, AnswerInv
<1> PICK req : req = reader.req
  OBVIOUS
<1> PICK focus : focus = reader.focus
  OBVIOUS
<1> PICK arn : arn = Head(reader.todo)
  OBVIOUS
<1>3. /\ req.kind \in RootKinds /\ req.scan \in DOMAIN disk /\ Drawable(reader.graph)
      /\ req.kind = "finding" => FindingOf(req) # {} /\ focus \in DOMAIN Rank
      /\ req.kind # "entity" =>
           /\ reader.todo = <<focus>> /\ reader.graph = NoGraph
           /\ focus \in ArnsOf(disk[req.scan]) => focus \in StartsOf(req)
  BY <1>1, <1>2 DEF PathReader
<1>4. PICK g \in expandFromAsset(db, arn, req.scan, req.mode) :
        LET graph == WithFinding(reader.req, mergeWorking(reader.graph, g), reader.focus)
        IN  IF Len(reader.todo) > 1
            THEN /\ reader' = [reader EXCEPT !.graph = graph, !.todo = Tail(@)]
                 /\ UNCHANGED answer
            ELSE Complete(graph)
  BY DEF ReadExpand
<1> PICK merged : merged = mergeWorking(reader.graph, g)
  OBVIOUS
<1> PICK graph : graph = WithFinding(req, merged, focus)
  OBVIOUS
<1> PICK affects : affects = [src |-> req.id, type |-> "AFFECTS", dst |-> focus]
  OBVIOUS
<1>5. Drawable(g) /\ (g.edges # {} => InScan(db, arn, req.scan))
  BY <1>4, ExpandedFrom
<1>6. merged.edges = reader.graph.edges \cup g.edges
  BY DEF mergeWorking
<1>7. \/ graph.edges = merged.edges
      \/ req.kind = "finding" /\ graph.edges = merged.edges \cup {affects}
  <2>1. merged = [nodes |-> merged.nodes, edges |-> merged.edges]
    BY DEF mergeWorking
  <2> QED
    BY <2>1, FindingIsDrawn
<1>8. req.kind = "finding" => affects \in Named
  <2>1. ASSUME req.kind = "finding" PROVE req.id \in DOMAIN Rank
    <3>1. PICK f \in disk[req.scan].findings : f.id = req.id
      BY <1>3, <2>1 DEF FindingOf
    <3>2. Sortable(disk[req.scan])
      BY <1>3 DEF ExportInv
    <3> QED
      BY <3>1, <3>2 DEF Sortable
  <2> QED
    BY <1>3, <2>1 DEF Named
<1>9. Drawable(graph)
  <2>1. IsFiniteSet(merged.edges) /\ merged.edges \subseteq Named
    <3>1. /\ IsFiniteSet(reader.graph.edges) /\ IsFiniteSet(g.edges)
          /\ reader.graph.edges \cup g.edges \subseteq Named
      BY <1>3, <1>5 DEF Drawable
    <3>2. IsFiniteSet(reader.graph.edges \cup g.edges)
      BY <3>1, FS_Union
    <3> QED
      BY ONLY <1>6, <3>1, <3>2
  <2>2. IsFiniteSet(merged.edges \cup {affects})
    BY <2>1, FS_AddElement
  <2>3. \/ graph.edges = merged.edges
        \/ graph.edges = merged.edges \cup {affects} /\ affects \in Named
    BY ONLY <1>7, <1>8
  <2> QED
    BY ONLY <2>1, <2>2, <2>3 DEF Drawable
<1>10. ASSUME req.kind # "entity", NEW e \in graph.edges, e.src = focus, e.dst # focus
       PROVE  focus \in StartsOf(req)
  <2>1. reader.graph.edges = {} /\ arn = focus
    BY <1>3, <1>10 DEF NoGraph
  <2>2. e \in g.edges
    BY <1>6, <1>7, <1>10, <2>1
  <2>3. InScan(db, focus, req.scan)
    BY <1>5, <2>1, <2>2
  <2>4. focus \in ArnsOf(disk[req.scan])
    BY <2>3 DEF InScan, FromScans, HasOnly
  <2> QED
    BY <1>3, <1>10, <2>4
<1>11. CASE Len(reader.todo) > 1
  <2> PICK x : x = reader'
    OBVIOUS
  <2>1. reader' = [reader EXCEPT !.graph = graph, !.todo = Tail(reader.todo)] /\ UNCHANGED answer
    BY <1>4, <1>11
  <2>2. x.phase = "expand" /\ x.req = req /\ x.graph = graph
    BY <1>1, <1>2, <2>1
  <2>3. req.kind = "entity"
    <3>1. ASSUME reader.todo = <<focus>> PROVE FALSE
      <4>1. Len(reader.todo) = 1
        BY <3>1
      <4> QED
        BY ONLY <1>11, <4>1
    <3> QED
      BY <1>3, <3>1
  <2>4. PathReader(x)
    BY <1>3, <1>9, <2>2, <2>3 DEF PathReader
  <2> QED
    BY <2>1, <2>4, ReaderOffers
<1>12. CASE ~(Len(reader.todo) > 1)
  <2>1. Complete(graph)
    BY <1>4, <1>12
  <2> QED
    BY <1>1, <1>9, <1>10, <2>1, CompleteOffers
<1> QED
  BY <1>11, <1>12

\* When an answer is sent, there is one less that offers paths.
LEMMA NothingOffered ==
  ASSUME Reading, PathInv, answer' = NoAnswer, UNCHANGED reader
  PROVE  PathInv'
<1>1. ASSUME reader # NoReader PROVE PathReader(reader)'
  <2> PICK x : x = reader
    OBVIOUS
  <2>1. PathReader(x)'
    BY <1>1, ReadingGrows, PathReaderStays DEF PathInv
  <2>2. x = reader'
    OBVIOUS
  <2> QED
    BY <2>1, <2>2
<1> QED
  BY <1>1 DEF PathInv

\* Every step of a request keeps what it offers.
LEMMA BlastStepOffers ==
  ASSUME PathInv, AnswerInv, FromScans, OneArn, ExportInv, SourceInv,
         \A scan \in DOMAIN disk : Traceable(disk[scan]), "AFFECTS" \in DOMAIN Rank, BlastStep
  PROVE  PathInv'
<1>1. Reading
  BY DEF BlastStep, graphVars, Reading
<1>2. CASE ReadContext
  BY <1>1, <1>2, ReadContextOffers
<1>3. CASE ReadExpand
  BY <1>1, <1>3, ReadExpandOffers DEF SourceInv
<1>4. ASSUME reader # NoReader
      PROVE  reader.req.scan \in DOMAIN disk
  BY <1>4 DEF PathInv, PathReader
<1>5. CASE ReadHop
  <2>1. reader # NoReader
    BY <1>5 DEF ReadHop, NoReader
  <2>2. \E summary, delta :
          Answer(reader.req, reader.settled, summary, reader.graph, NoPayload, delta)
    BY <1>5 DEF ReadHop
  <2> QED
    BY <1>1, <1>4, <2>1, <2>2, NoPathOffered
<1>6. CASE ReadFails
  <2>1. reader # NoReader
    BY <1>6 DEF ReadFails, NoReader
  <2>2. \E summary : AnswerWithout(reader.req, reader.settled, summary)
    BY <1>6 DEF ReadFails
  <2> QED
    BY <1>1, <1>4, <2>1, <2>2, WithoutOffers
<1>7. CASE Send
  BY <1>1, <1>7, NothingOffered DEF Send
<1> QED
  BY <1>2, <1>3, <1>5, <1>6, <1>7 DEF BlastStep
=============================================================================
