-------------------------- MODULE ScanStore_proofs ---------------------------
(***************************************************************************)
(* Proofs about the directory of scans: for any number of scans, visitors  *)
(* and records, and however many writes fail, "latest" is not stale and    *)
(* the alert rule compares a scan with the one before it.                  *)
(***************************************************************************)
EXTENDS ScanStore, FiniteSetTheorems, WellFoundedInduction, TLAPS

USE ScanStoreAssumption

-----------------------------------------------------------------------------
(* The invariant.  LatestIsNotStale and BaselineIsPrevious speak of the    *)
(* answer of a walk; why it is right has to be followed from the second a  *)
(* directory is named, through every file that is written and every one    *)
(* that is read.                                                           *)

Loads == UNION {[D -> Times] : D \in SUBSET Scans}

Walk == [at : {"idle", "metadata", "findings", "answered", "reported"},
         todo : SUBSET Scans, metadata : {"absent", "empty", "whole"},
         loaded : Loads, since : SUBSET Scans, answer : Scans \cup {NoScan},
         now : [Records -> Found], old : [Records -> Found], fresh : SUBSET Records]

StoreTyped ==
  /\ files \in [Scans -> [metadata : File, findings : File]]
  /\ stamp \in [Scans -> 0..MaxScans]
  /\ writing \in [Writers -> [at : Stage, scan : Scans \cup {NoScan}]]
  /\ reading \in [Readers -> Walk]
  /\ started \in 0..MaxScans /\ failures \in 0..MaxFailures
  /\ acked \subseteq 1..started

Unwritten == [metadata |-> "absent", findings |-> "absent"]

\* Timestamps are given once, in order, and before the first file is written.
StampsSound ==
  /\ Stamps \in 0..MaxScans
  /\ \A s \in Scans :
       /\ stamp[s] <= Stamps
       /\ \A t \in Scans \ {s} : stamp[s] > 0 => stamp[s] # stamp[t]
       /\ s > started => stamp[s] = 0
       /\ stamp[s] = 0 => files[s] = Unwritten

\* What a writer has done of its scan; two writers have different ones.
WriterSound(w) ==
  LET s == writing[w].scan IN
  writing[w].at # "idle" =>
    /\ s \in 1..started
    /\ \A u \in Writers \ {w} : writing[u].at # "idle" => writing[u].scan # s
    /\ writing[w].at = "evaluate" => w = Dashboard /\ s \in acked
    /\ writing[w].at # "evaluate" => s \notin acked
    /\ writing[w].at = "metadata" <=> stamp[s] = 0
    /\ writing[w].at \in {"findings", "rest"} => files[s].metadata = "whole"
    /\ writing[w].at = "rest" => files[s].findings = "whole"

\* A scan whose Run returned is whole, and so it stays.
AckedSound ==
  \A s \in acked : /\ stamp[s] > 0
                   /\ files[s].metadata = "whole" /\ files[s].findings = "whole"

\* A walk meets every scan that was complete when it began, and loads it with
\* its timestamp; what else it loads seems no older than it is, or oldest.
WalkSound(walk) ==
  /\ walk.since \subseteq acked /\ walk.answer <= started
  /\ walk.answer # NoScan => stamp[walk.answer] > 0
  /\ walk.todo \subseteq 1..started
  /\ walk.at = "findings" => walk.todo # {}
  /\ \A s \in DOMAIN walk.loaded :
       /\ s \in 1..started /\ s \notin walk.todo
       /\ stamp[s] > 0 /\ (walk.loaded[s] = 0 \/ walk.loaded[s] >= 2 * stamp[s])
  /\ walk.at \in {"metadata", "findings"} =>
       \A s \in walk.since :
         \/ s \in walk.todo
         \/ s \in DOMAIN walk.loaded /\ walk.loaded[s] = 2 * stamp[s]
  /\ walk.at = "findings" /\ Min(walk.todo) \in walk.since => walk.metadata = "whole"

\* LatestIsNotStale, of one walk.
NotStale(walk) ==
  walk.at = "answered" =>
    \A s \in walk.since :
      /\ walk.answer # NoScan
      /\ walk.answer \in walk.since => stamp[walk.answer] >= stamp[s]

\* The dashboard walks for the rule, when its scan is complete, and reports by
\* the findings of the two scans.  The last conjunct is BaselineIsPrevious.
RuleSound(walk) ==
  /\ walk.at # "idle" => writing[Dashboard].at = "evaluate" /\ Current \in walk.since
  /\ walk.at = "reported" /\ walk.answer # NoScan =>
       walk.fresh = newCritical(walk.now, walk.old)
  /\ walk.at \in {"answered", "reported"} =>
       \A s \in walk.since : stamp[s] < stamp[Current] =>
         /\ walk.answer # NoScan /\ stamp[walk.answer] < stamp[Current]
         /\ walk.answer \in walk.since => stamp[s] <= stamp[walk.answer]

StoreInv ==
  /\ StoreTyped /\ StampsSound /\ AckedSound
  /\ \A w \in Writers : WriterSound(w)
  /\ \A r \in Readers : WalkSound(reading[r])
  /\ \A v \in Visitors : NotStale(reading[v])
  /\ RuleSound(reading[Dashboard])

-----------------------------------------------------------------------------
(* Lemmas about the operators.                                             *)

\* A set of numbers that has one has a smallest one: the intervals below its
\* elements are finite sets, and strict inclusion of those is well-founded.
LEMMA SmallestNumber ==
  ASSUME NEW S \in SUBSET Nat, NEW b \in S
  PROVE  \E n \in S : \A m \in S : n <= m
<1> DEFINE below(n) == {k \in 0..b : k < n}
           T == {below(n) : n \in {x \in S : x <= b}}
<1>1. IsWellFoundedOn(StrictSubsetOrdering(0..b), SUBSET (0..b))
  <2>1. IsFiniteSet(0..b)
    BY FS_Interval
  <2> QED
    BY <2>1, FS_StrictSubsetOrderingWellFounded, FS_FiniteSubsetsOfFinite
<1>2. T \subseteq SUBSET (0..b) /\ below(b) \in T
  OBVIOUS
<1>3. PICK t \in T : \A u \in T : <<u, t>> \notin StrictSubsetOrdering(0..b)
  BY <1>1, <1>2, WFMin
<1>4. PICK n \in S : n <= b /\ t = below(n)
  BY <1>3
<1>5. ASSUME NEW m \in S, m < n PROVE FALSE
  <2>1. m \in Nat /\ n \in Nat /\ b \in Nat /\ m <= b
    BY <1>4, <1>5
  <2>2. below(m) \in T /\ below(m) \subseteq below(n) /\ m \in below(n) /\ m \notin below(m)
    BY <1>4, <1>5, <2>1
  <2>3. <<below(m), below(n)>> \in StrictSubsetOrdering(0..b)
    BY <2>2 DEF StrictSubsetOrdering
  <2> QED
    BY <1>3, <1>4, <2>2, <2>3
<1> QED
  BY <1>5

\* A walk goes on with a directory of its list.
LEMMA HereIsListed ==
  ASSUME NEW S \in SUBSET Nat, S # {}
  PROVE  Min(S) \in S
<1>1. PICK b \in S : TRUE
  OBVIOUS
<1>2. PICK n \in S : \A m \in S : n <= m
  BY <1>1, SmallestNumber
<1> QED
  BY <1>2 DEF Min

\* The first of a list of loaded scans is one of them, and none has a later time.
LEMMA NewestIsLatest ==
  ASSUME NEW loaded, NEW set \in SUBSET Scans, set # {},
         \A s \in set : loaded[s] \in Times
  PROVE  /\ Newest(loaded, set) \in set
         /\ \A s \in set : loaded[s] <= loaded[Newest(loaded, set)]
<1> DEFINE top == 2 * MaxScans + 1
           late == {top - loaded[s] : s \in set}
<1>1. \A s \in set : s \in Nat /\ loaded[s] \in Nat /\ loaded[s] <= top /\ top \in Nat
  BY DEF Times, Scans
<1> HIDE DEF top
<1>2. late \in SUBSET Nat /\ late # {}
  BY <1>1
<1>3. PICK n \in late : \A m \in late : n <= m
  BY <1>2, SmallestNumber
<1>4. PICK s0 \in set : n = top - loaded[s0]
  BY <1>3
<1>5. \A s \in set : loaded[s] <= loaded[s0]
  BY SMTT(30), <1>1, <1>3, <1>4
<1> DEFINE names == {s \in set : loaded[s] = loaded[s0]}
<1>6. PICK a \in names : \A m \in names : a <= m
  <2>1. names \in SUBSET Nat /\ s0 \in names
    BY <1>1
  <2> QED
    BY <2>1, SmallestNumber
<1>7. a \in set /\ \A b \in set \ {a} : Before(loaded, a, b)
  BY <1>1, <1>5, <1>6 DEF Before
<1> DEFINE best == CHOOSE x \in set : \A b \in set \ {x} : Before(loaded, x, b)
<1>8. best \in set /\ \A b \in set \ {best} : Before(loaded, best, b)
  BY <1>7
<1> HIDE DEF best
<1>9. \A s \in set : loaded[s] <= loaded[best]
  BY <1>1, <1>8 DEF Before
<1> QED
  BY <1>8, <1>9 DEF Newest, best

\* A set of scans has no more members than there are scans.
LEMMA ScansCounted ==
  ASSUME NEW S \in SUBSET Scans
  PROVE  IsFiniteSet(S) /\ Cardinality(S) \in 0..MaxScans
<1>1. IsFiniteSet(Scans) /\ Cardinality(Scans) = MaxScans
  BY FS_Interval DEF Scans
<1>2. IsFiniteSet(S) /\ Cardinality(S) <= Cardinality(Scans) /\ Cardinality(S) \in Nat
  BY <1>1, FS_Subset, FS_CardinalityType
<1> QED
  BY <1>1, <1>2

\* Nothing is loaded yet.
LEMMA NoWalkSound ==
  /\ NoWalk \in Walk /\ NotStale(NoWalk) /\ RuleSound(NoWalk)
  /\ started \in Nat => WalkSound(NoWalk)
<1>1. << >> \in Loads /\ DOMAIN << >> = {}
  <2>1. << >> \in [{} -> Times]
    OBVIOUS
  <2> QED
    BY <2>1 DEF Loads
<1>2. NoWalk \in Walk
  BY <1>1 DEF NoWalk, Walk, Nothing, Found
<1>3. NotStale(NoWalk) /\ RuleSound(NoWalk)
  BY DEF NoWalk, NotStale, RuleSound
<1>4. started \in Nat => WalkSound(NoWalk)
  BY <1>1 DEF NoWalk, WalkSound, NoScan
<1> QED
  BY <1>2, <1>3, <1>4

\* The next state is sound when only a walk has changed, and that one is.
LEMMA ReaderStep ==
  ASSUME StoreInv, NEW r \in Readers, NEW walk \in Walk,
         reading' = [reading EXCEPT ![r] = walk],
         UNCHANGED <<files, stamp, started, writing, failures, acked>>,
         WalkSound(walk), r \in Visitors => NotStale(walk),
         r = Dashboard => RuleSound(walk)
  PROVE  StoreInv'
<1> USE DEF StoreInv
<1>1. StoreTyped'
  BY DEF StoreTyped
<1>2. StampsSound' /\ AckedSound'
  BY DEF StampsSound, AckedSound, Stamps
<1>3. \A w \in Writers : WriterSound(w)'
  BY DEF WriterSound
<1>4. \A q \in Readers : reading'[q] = IF q = r THEN walk ELSE reading[q]
  BY DEF StoreTyped
<1>5. \A q \in Readers : WalkSound(reading[q])'
  BY <1>4 DEF WalkSound
<1>6. \A v \in Visitors : NotStale(reading[v])'
  BY <1>4 DEF NotStale, Readers
<1>7. RuleSound(reading[Dashboard])'
  BY <1>4 DEF RuleSound, Readers, Current
<1> QED
  BY <1>1, <1>2, <1>3, <1>5, <1>6, <1>7

\* A walk stays sound while scans are added and stamped.
LEMMA WalkKept ==
  ASSUME StoreTyped, StoreTyped', AckedSound, acked \subseteq acked', started <= started',
         \A s \in Scans : stamp[s] > 0 => stamp'[s] = stamp[s],
         NEW walk \in Walk, WalkSound(walk)
  PROVE  /\ WalkSound(walk)'
         /\ NotStale(walk) => NotStale(walk)'
         /\ RuleSound(walk) /\ (writing'[Dashboard] = writing[Dashboard] \/ walk.at = "idle")
              => RuleSound(walk)'
<1>1. 1..started \subseteq Scans /\ started \in Nat /\ started' \in Nat
  BY DEF StoreTyped, Scans
<1>2. \A s \in walk.since : s \in acked /\ s \in Scans /\ stamp'[s] = stamp[s]
  BY <1>1 DEF StoreTyped, AckedSound, WalkSound
<1>3. walk.answer \in Nat /\ (walk.answer # NoScan => stamp'[walk.answer] = stamp[walk.answer])
  BY DEF WalkSound, Walk, NoScan, Scans
<1>4. WalkSound(walk)'
  <2>1. \A s \in DOMAIN walk.loaded : s \in 1..started' /\ stamp'[s] = stamp[s]
    BY <1>1 DEF WalkSound
  <2> QED
    BY <1>1, <1>2, <1>3, <2>1 DEF WalkSound
<1>5. NotStale(walk) => NotStale(walk)'
  BY <1>2, <1>3 DEF NotStale
<1>6. ASSUME RuleSound(walk), writing'[Dashboard] = writing[Dashboard] \/ walk.at = "idle"
      PROVE  RuleSound(walk)'
  <2>1. CASE walk.at = "idle"
    BY <2>1 DEF RuleSound
  <2>2. CASE walk.at # "idle"
    <3>1. Current' = Current /\ Current \in walk.since
      BY <1>6, <2>2 DEF RuleSound, Current
    <3>2. stamp'[Current] = stamp[Current]
      BY <1>2, <3>1
    <3>3. writing'[Dashboard].at = "evaluate"
      BY <1>6, <2>2 DEF RuleSound
    <3>4. newCritical(walk.now, walk.old)' = newCritical(walk.now, walk.old)
      BY DEF newCritical, identities, diffIdentity
    <3> QED
      BY <1>2, <1>3, <1>6, <2>2, <3>1, <3>2, <3>3, <3>4 DEF RuleSound
  <2> QED
    BY <2>1, <2>2
<1> QED
  BY <1>4, <1>5, <1>6

\* The next state is sound when a writer has gone on and no walk has.
LEMMA WriterStep ==
  ASSUME StoreInv, StoreTyped', StampsSound', AckedSound',
         NEW w \in Writers, writing[w].at # "evaluate",
         \A u \in Writers : u # w => writing'[u] = writing[u],
         \A u \in Writers : WriterSound(u)',
         UNCHANGED reading, acked \subseteq acked', started <= started',
         \A s \in Scans : stamp[s] > 0 => stamp'[s] = stamp[s]
  PROVE  StoreInv'
<1> USE DEF StoreInv
<1>1. \A r \in Readers : reading[r] \in Walk
  BY DEF StoreTyped
<1>2. \A r \in Readers : WalkSound(reading[r])'
  BY <1>1, WalkKept
<1>3. \A v \in Visitors : NotStale(reading[v])'
  BY <1>1, WalkKept DEF Readers
<1>4. RuleSound(reading[Dashboard])'
  <2>1. writing'[Dashboard] = writing[Dashboard] \/ reading[Dashboard].at = "idle"
    BY DEF RuleSound, Writers
  <2>2. reading[Dashboard] \in Walk /\ WalkSound(reading[Dashboard])
    BY <1>1 DEF Readers
  <2> QED
    BY <2>1, <2>2, WalkKept
<1> QED
  BY <1>2, <1>3, <1>4

-----------------------------------------------------------------------------
(* The steps of the writers.                                               *)

\* A scan begins without files and without a timestamp.
LEMMA BeginPersistSound ==
  ASSUME StoreInv, NEW w \in Writers, BeginPersist(w)
  PROVE  StoreInv'
<1> USE DEF StoreInv, BeginPersist
<1>1. started + 1 \in Scans /\ started \in Nat /\ started + 1 \in 0..MaxScans
  BY DEF StoreTyped, Scans
<1>2. StoreTyped'
  BY <1>1 DEF StoreTyped, Stage
<1>3. StampsSound' /\ AckedSound'
  BY <1>1 DEF StampsSound, AckedSound, Stamps, Scans
<1>4. \A u \in Writers : writing'[u] = IF u = w THEN [at |-> "metadata", scan |-> started + 1]
                                       ELSE writing[u]
  BY DEF StoreTyped
<1>5. stamp[started + 1] = 0 /\ started + 1 \notin acked
  BY <1>1 DEF StampsSound, StoreTyped
<1>6. ASSUME NEW u \in Writers PROVE WriterSound(u)'
  <2>1. CASE u = w
    BY <1>1, <1>4, <1>5, <2>1 DEF WriterSound
  <2>2. CASE u # w
    BY <1>1, <1>4, <2>2 DEF WriterSound, StoreTyped
  <2> QED
    BY <2>1, <2>2
<1> QED
  BY <1>1, <1>2, <1>3, <1>4, <1>6, WriterStep

\* A scan gets a timestamp later than all before it.
LEMMA buildMetadataSound ==
  ASSUME StoreInv, NEW w \in Writers, buildMetadata(w)
  PROVE  StoreInv'
<1> USE DEF StoreInv, buildMetadata
<1> DEFINE new == writing[w].scan
           stamped == {s \in Scans : stamp[s] > 0}
<1>1. /\ new \in 1..started /\ new \in Scans /\ new \notin acked /\ stamp[new] = 0
      /\ \A u \in Writers \ {w} : writing[u].at # "idle" => writing[u].scan # new
  BY DEF WriterSound, StoreTyped, Scans
<1>2. Stamps \in Nat /\ Stamps + 1 \in 0..MaxScans /\ Stamps' = Stamps + 1
  <2>1. IsFiniteSet(stamped) /\ Cardinality(stamped) = Stamps /\ new \notin stamped
    BY <1>1, ScansCounted DEF Stamps
  <2>2. {s \in Scans : stamp'[s] > 0} = stamped \cup {new}
    <3>1. Stamps \in Nat
      BY DEF StampsSound
    <3>2. \A s \in Scans : stamp'[s] = IF s = new THEN Stamps + 1 ELSE stamp[s]
      BY DEF StoreTyped
    <3> QED
      BY <1>1, <3>1, <3>2
  <2>3. Cardinality(stamped \cup {new}) = Stamps + 1
    BY <2>1, FS_AddElement
  <2>4. Cardinality(stamped \cup {new}) \in 0..MaxScans
    BY <1>1, ScansCounted
  <2>5. Stamps' = Cardinality(stamped \cup {new})
    BY <2>2 DEF Stamps
  <2> QED
    BY <2>3, <2>4, <2>5 DEF StampsSound
<1>3. \A s \in Scans : stamp'[s] = IF s = new THEN Stamps + 1 ELSE stamp[s]
  BY DEF StoreTyped
<1>4. StoreTyped'
  BY <1>2 DEF StoreTyped, Goto, Stage
<1>5. StampsSound'
  <2>1. \A s \in Scans : stamp[s] \in Nat /\ stamp[s] <= Stamps
    BY DEF StoreTyped, StampsSound
  <2>2. ASSUME NEW s \in Scans
        PROVE  /\ stamp'[s] <= Stamps'
               /\ \A t \in Scans \ {s} : stamp'[s] > 0 => stamp'[s] # stamp'[t]
               /\ s > started' => stamp'[s] = 0
               /\ stamp'[s] = 0 => files'[s] = Unwritten
    <3>1. s > started' => stamp'[s] = 0
      BY <1>1, <1>3 DEF StampsSound, StoreTyped
    <3>2. stamp'[s] = 0 => files'[s] = Unwritten
      BY <1>2, <1>3 DEF StampsSound
    <3>3. stamp'[s] <= Stamps'
      BY <1>2, <1>3, <2>1
    <3>4. ASSUME NEW t \in Scans \ {s}, stamp'[s] > 0 PROVE stamp'[s] # stamp'[t]
      <4>1. stamp'[s] = IF s = new THEN Stamps + 1 ELSE stamp[s]
        BY <1>3
      <4>2. stamp'[t] = IF t = new THEN Stamps + 1 ELSE stamp[t]
        BY <1>3
      <4>3. stamp[s] > 0 => stamp[s] # stamp[t]
        BY DEF StampsSound
      <4> QED
        BY <1>2, <2>1, <3>4, <4>1, <4>2, <4>3
    <3> QED
      BY <3>1, <3>2, <3>3, <3>4
  <2> QED
    BY <1>2, <2>2 DEF StampsSound
<1>6. AckedSound'
  BY <1>1, <1>3 DEF AckedSound, StoreTyped, Scans
<1>7. \A u \in Writers : writing'[u] = IF u = w THEN [at |-> "stamped", scan |-> new]
                                       ELSE writing[u]
  BY DEF StoreTyped, Goto
<1>8. ASSUME NEW u \in Writers PROVE WriterSound(u)'
  <2>1. CASE u = w
    BY <1>1, <1>2, <1>3, <1>7, <2>1 DEF WriterSound
  <2>2. CASE u # w
    <3>1. writing[u].at # "idle" => writing[u].scan \in Scans /\ writing[u].scan # new
      BY <1>1, <2>2 DEF WriterSound, StoreTyped, Scans
    <3> QED
      BY <1>1, <1>3, <1>7, <2>2, <3>1 DEF WriterSound
  <2> QED
    BY <2>1, <2>2
<1>9. \A s \in Scans : stamp[s] > 0 => stamp'[s] = stamp[s]
  BY <1>1, <1>3
<1>10. started <= started'
  BY DEF StoreTyped
<1> QED
  BY <1>4, <1>5, <1>6, <1>7, <1>8, <1>9, <1>10, WriterStep

\* Writing a file touches no scan whose Run has returned, and no walk.
LEMMA writeJSONFileSound ==
  ASSUME StoreInv, NEW w \in Writers, writeJSONFile(w)
  PROVE  StoreInv'
<1> USE DEF StoreInv
<1> DEFINE s == writing[w].scan
<1>1. PICK to \in {"empty", "torn", "whole"} :
        /\ files' = [files EXCEPT ![s][FileAt(w)] = to]
        /\ writing' = IF to # "whole" THEN writing
                      ELSE [writing EXCEPT ![w].at =
                              IF @ = "stamped" THEN "findings" ELSE "rest"]
  BY DEF writeJSONFile
<1>2. /\ writing[w].at \in {"stamped", "findings"}
      /\ UNCHANGED <<stamp, reading, started, failures, acked>>
  BY DEF writeJSONFile
<1>3. /\ s \in 1..started /\ s \in Scans /\ s \notin acked /\ stamp[s] > 0
      /\ \A u \in Writers \ {w} : writing[u].at # "idle" => writing[u].scan # s
  BY <1>2 DEF WriterSound, StoreTyped, Scans
<1>4. StoreTyped'
  <2>1. files' \in [Scans -> [metadata : File, findings : File]]
    BY <1>1, <1>3 DEF StoreTyped, FileAt, File
  <2>2. writing' \in [Writers -> [at : Stage, scan : Scans \cup {NoScan}]]
    BY <1>1 DEF StoreTyped, Stage
  <2> QED
    BY <1>2, <2>1, <2>2 DEF StoreTyped
<1>5. \A t \in Scans : t # s => files'[t] = files[t]
  BY <1>1 DEF StoreTyped
<1>6. StampsSound' /\ AckedSound'
  <2>1. StampsSound'
    BY <1>2, <1>3, <1>5 DEF StampsSound, Stamps
  <2>2. AckedSound'
    BY <1>2, <1>3, <1>5 DEF AckedSound, StoreTyped, Scans
  <2> QED
    BY <2>1, <2>2
<1>7. \A u \in Writers : u # w => writing'[u] = writing[u]
  BY <1>1 DEF StoreTyped
<1>8. WriterSound(w)'
  <2>1. CASE to # "whole"
    <3>1. writing' = writing
      BY <1>1, <2>1
    <3>2. writing[w].at = "findings" => files'[s].metadata = files[s].metadata
      BY <1>1, <1>3 DEF StoreTyped, FileAt
    <3> QED
      BY <1>2, <1>3, <3>1, <3>2 DEF WriterSound
  <2>2. CASE to = "whole" /\ writing[w].at = "stamped"
    <3>1. writing'[w].at = "findings" /\ writing'[w].scan = s
      BY <1>1, <2>2 DEF StoreTyped
    <3>2. files'[s].metadata = "whole"
      BY <1>1, <1>3, <2>2 DEF StoreTyped, FileAt
    <3> QED
      BY <1>2, <1>3, <1>7, <3>1, <3>2 DEF WriterSound
  <2>3. CASE to = "whole" /\ writing[w].at = "findings"
    <3>1. writing'[w].at = "rest" /\ writing'[w].scan = s
      BY <1>1, <2>3 DEF StoreTyped
    <3>2. files'[s].findings = "whole" /\ files'[s].metadata = files[s].metadata
      BY <1>1, <1>3, <2>3 DEF StoreTyped, FileAt
    <3> QED
      BY <1>2, <1>3, <1>7, <2>3, <3>1, <3>2 DEF WriterSound
  <2> QED
    BY <1>2, <2>1, <2>2, <2>3
<1>9. ASSUME NEW u \in Writers, u # w PROVE WriterSound(u)'
  <2>1. writing[u].at # "idle" => writing[u].scan \in Scans /\ writing[u].scan # s
    BY <1>3, <1>9 DEF WriterSound, StoreTyped, Scans
  <2>2. writing[u].at # "idle" => files'[writing[u].scan] = files[writing[u].scan]
    BY <1>5, <2>1
  <2>3. writing'[w].scan = s /\ writing'[w].at # "idle"
    BY <1>1, <1>2 DEF StoreTyped
  <2> QED
    BY <1>2, <1>7, <1>9, <2>1, <2>2, <2>3 DEF WriterSound
<1>10. started <= started' /\ writing[w].at # "evaluate"
  BY <1>2 DEF StoreTyped
<1> QED
  BY <1>2, <1>4, <1>6, <1>7, <1>8, <1>9, <1>10, WriterStep

\* A Run returns only when both files of its scan are whole.
LEMMA FinishPersistSound ==
  ASSUME StoreInv, NEW w \in Writers, FinishPersist(w)
  PROVE  StoreInv'
<1> USE DEF StoreInv, FinishPersist, disk
<1> DEFINE s == writing[w].scan
<1>1. /\ s \in 1..started /\ s \in Scans /\ stamp[s] > 0
      /\ files[s].metadata = "whole" /\ files[s].findings = "whole"
      /\ \A u \in Writers \ {w} : writing[u].at # "idle" => writing[u].scan # s
  BY DEF WriterSound, StoreTyped, Scans
<1>2. StoreTyped'
  BY <1>1 DEF StoreTyped, Stage, Idle
<1>3. StampsSound' /\ AckedSound'
  BY <1>1 DEF StampsSound, AckedSound, Stamps
<1>4. /\ \A u \in Writers : u # w => writing'[u] = writing[u]
      /\ writing'[w] = IF w = Dashboard THEN [at |-> "evaluate", scan |-> s] ELSE Idle
  BY DEF StoreTyped
<1>5. ASSUME NEW u \in Writers PROVE WriterSound(u)'
  <2>1. CASE u = w
    BY <1>1, <1>4, <2>1 DEF WriterSound, Idle
  <2>2. CASE u # w
    <3>1. writing'[u] = writing[u] /\ (writing[u].at # "idle" => writing[u].scan # s)
      BY <1>1, <1>4, <2>2
    <3>2. writing'[w].at # "idle" => writing'[w].scan = s
      BY <1>4 DEF Idle
    <3>3. acked' = acked \cup {s} /\ UNCHANGED <<files, stamp, started>>
      OBVIOUS
    <3>4. \A q \in Writers \ {u, w} : writing'[q] = writing[q]
      BY <1>4
    <3> HIDE DEF FinishPersist, s
    <3> QED
      BY <2>2, <3>1, <3>2, <3>3, <3>4 DEF WriterSound
  <2> QED
    BY <2>1, <2>2
<1>6. started <= started'
  BY DEF StoreTyped
<1> QED
  BY <1>2, <1>3, <1>4, <1>5, <1>6, WriterStep

\* A writer that fails or dies leaves its scan as it is.
LEMMA StopSound ==
  ASSUME StoreInv, NEW w \in Writers, Stop(w)
  PROVE  StoreInv'
<1> USE DEF StoreInv, Stop, disk
<1>1. /\ \A u \in Writers : writing'[u] = IF u = w THEN Idle ELSE writing[u]
      /\ \A r \in Readers : reading'[r] = IF r = w THEN NoWalk ELSE reading[r]
  BY DEF StoreTyped
<1>2. started \in Nat
  BY DEF StoreTyped
<1>3. StoreTyped'
  BY <1>1, NoWalkSound DEF StoreTyped, Stage, Idle
<1>4. StampsSound' /\ AckedSound'
  BY DEF StampsSound, AckedSound, Stamps
<1>5. \A u \in Writers : WriterSound(u)'
  BY <1>1 DEF WriterSound, Idle
<1>6. \A r \in Readers : WalkSound(reading[r])'
  BY <1>1, <1>2, NoWalkSound DEF WalkSound
<1>7. \A v \in Visitors : NotStale(reading[v])'
  BY <1>1, NoWalkSound DEF NotStale, Readers
<1>8. RuleSound(reading[Dashboard])'
  <2>1. CASE w = Dashboard
    BY <1>1, <2>1 DEF RuleSound, NoWalk, Readers
  <2>2. CASE w # Dashboard
    BY <1>1, <2>2 DEF RuleSound, Readers, Writers, Current
  <2> QED
    BY <2>1, <2>2
<1> QED
  BY <1>3, <1>4, <1>5, <1>6, <1>7, <1>8

-----------------------------------------------------------------------------
(* The steps of the readers.                                               *)

\* A walk lists every scan whose Run has returned before it.
LEMMA ListScanIDsSound ==
  ASSUME StoreInv, NEW r \in Readers, ListScanIDs(r)
  PROVE  StoreInv'
<1> USE DEF StoreInv
<1>1. PICK unmade \in SUBSET Unmade :
        reading' = [reading EXCEPT ![r] =
          [NoWalk EXCEPT !.at = "metadata", !.todo = 1..started \ unmade, !.since = acked]]
  BY DEF ListScanIDs
<1>2. PICK walk : walk = [NoWalk EXCEPT !.at = "metadata", !.todo = 1..started \ unmade,
                                        !.since = acked]
  OBVIOUS
<1>3. walk = [at |-> "metadata", todo |-> 1..started \ unmade, metadata |-> "absent",
              loaded |-> << >>, since |-> acked, answer |-> NoScan,
              now |-> Nothing, old |-> Nothing, fresh |-> {}]
  BY <1>2 DEF NoWalk
<1>4. started \in Nat /\ 1..started \subseteq Scans /\ acked \subseteq 1..started
  BY DEF StoreTyped, Scans
<1>5. NoWalk \in Walk /\ DOMAIN << >> = {}
  BY NoWalkSound
<1>6. walk \in Walk
  BY <1>3, <1>4, <1>5 DEF Walk, NoWalk
<1>7. unmade \cap acked = {}
  BY DEF Unmade, WriterSound
<1>8. WalkSound(walk)
  BY <1>3, <1>4, <1>5, <1>7 DEF WalkSound, NoScan
<1>9. r = Dashboard => RuleSound(walk)
  <2>1. r = Dashboard => writing[Dashboard].at = "evaluate"
    BY DEF ListScanIDs
  <2>2. r = Dashboard => Current \in acked
    BY <2>1 DEF WriterSound, Writers, Current
  <2> QED
    BY <1>3, <2>1, <2>2 DEF RuleSound
<1>10. NotStale(walk)
  BY <1>3 DEF NotStale
<1> QED
  BY <1>1, <1>2, <1>6, <1>8, <1>9, <1>10, ReaderStep DEF ListScanIDs, disk

\* A reader at work is somewhere in its list.
LEMMA HereSound ==
  ASSUME StoreInv, NEW r \in Readers, reading[r].todo # {}
  PROVE  /\ Here(r) \in reading[r].todo /\ Here(r) \in 1..started /\ Here(r) \in Scans
         /\ Here(r) \in reading[r].since => Here(r) \in acked
<1> USE DEF StoreInv
<1>1. reading[r].todo \subseteq 1..started /\ reading[r].since \subseteq acked
  BY DEF WalkSound
<1>2. 1..started \subseteq Scans /\ 1..started \subseteq Nat
  BY DEF StoreTyped, Scans
<1>3. Here(r) \in reading[r].todo
  BY <1>1, <1>2, HereIsListed DEF Here
<1> QED
  BY <1>1, <1>2, <1>3

\* A walk skips a directory only if its metadata is torn.
LEMMA readMetadataSound ==
  ASSUME StoreInv, NEW r \in Readers, readMetadata(r)
  PROVE  StoreInv'
<1> USE DEF StoreInv
<1> DEFINE here == Here(r)
           file == files[here].metadata
<1>1. /\ reading[r].at = "metadata" /\ reading[r].todo # {}
      /\ UNCHANGED <<files, stamp, started, writing, failures, acked>>
  BY DEF readMetadata, disk
<1>2. /\ here \in reading[r].todo /\ here \in Scans
      /\ here \in reading[r].since => here \in acked
  BY <1>1, HereSound
<1>3. file \in File /\ (here \in reading[r].since => file = "whole")
  BY <1>2 DEF StoreTyped, AckedSound
<1>4. reading[r] \in Walk /\ WalkSound(reading[r])
  BY DEF StoreTyped
<1>5. r = Dashboard => RuleSound(reading[r])
  OBVIOUS
<1>6. reading' = [reading EXCEPT ![r] =
         IF file = "torn" THEN [reading[r] EXCEPT !.todo = @ \ {here}]
                          ELSE [reading[r] EXCEPT !.at = "findings", !.metadata = file]]
  BY DEF readMetadata
<1> HIDE DEF here, file
<1>7. CASE file = "torn"
  <2>1. PICK walk : walk = [reading[r] EXCEPT !.todo = @ \ {here}]
    OBVIOUS
  <2>2. /\ walk \in Walk /\ walk.at = "metadata" /\ walk.since = reading[r].since
        /\ walk.todo = reading[r].todo \ {here} /\ walk.loaded = reading[r].loaded
        /\ walk.answer = reading[r].answer
    BY <1>1, <1>4, <2>1 DEF Walk
  <2>3. WalkSound(walk)
    BY <1>1, <1>3, <1>4, <1>7, <2>2 DEF WalkSound
  <2>4. NotStale(walk) /\ (r = Dashboard => RuleSound(walk))
    BY <1>1, <1>5, <2>2 DEF NotStale, RuleSound
  <2>5. reading' = [reading EXCEPT ![r] = walk]
    BY <1>6, <1>7, <2>1
  <2> QED
    BY <1>1, <2>2, <2>3, <2>4, <2>5, ReaderStep
<1>8. CASE file # "torn"
  <2>1. PICK walk : walk = [reading[r] EXCEPT !.at = "findings", !.metadata = file]
    OBVIOUS
  <2>2. /\ walk \in Walk /\ walk.at = "findings" /\ walk.since = reading[r].since
        /\ walk.todo = reading[r].todo /\ walk.loaded = reading[r].loaded
        /\ walk.answer = reading[r].answer /\ walk.metadata = file
    BY <1>3, <1>4, <1>8, <2>1 DEF Walk, File
  <2>3. Min(walk.todo) = here
    BY <2>2 DEF here, Here
  <2>4. WalkSound(walk)
    BY <1>1, <1>3, <1>4, <2>2, <2>3 DEF WalkSound
  <2>5. NotStale(walk) /\ (r = Dashboard => RuleSound(walk))
    BY <1>1, <1>5, <2>2 DEF NotStale, RuleSound
  <2>6. reading' = [reading EXCEPT ![r] = walk]
    BY <1>6, <1>8, <2>1
  <2> QED
    BY <1>1, <2>2, <2>4, <2>5, <2>6, ReaderStep
<1> QED
  BY <1>7, <1>8

\* The time a scan is loaded with: its stamp when it is complete, and a time
\* that is not before its stamp, or the oldest, when it is not.
LEMMA SortTimestampSound ==
  ASSUME StoreInv, NEW r \in Readers, NEW s \in Scans, NEW time \in SortTimestamp(r, s)
  PROVE  /\ time \in Times /\ (time = 0 \/ time >= 2 * stamp[s])
         /\ reading[r].metadata = "whole" => time = 2 * stamp[s]
<1>1. stamp[s] \in 0..MaxScans /\ Stamps \in 0..MaxScans
  BY DEF StoreInv, StoreTyped, StampsSound
<1>2. reading[r].metadata \in {"absent", "empty", "whole"}
  BY DEF StoreInv, StoreTyped, Walk
<1>3. CASE reading[r].metadata = "whole"
  BY <1>1, <1>3 DEF SortTimestamp, Times
<1>4. CASE reading[r].metadata = "empty"
  BY <1>1, <1>4 DEF SortTimestamp, Times
<1>5. CASE reading[r].metadata = "absent"
  <2>1. PICK t \in stamp[s]..Stamps : time = 2 * t + 1
    BY <1>5 DEF SortTimestamp
  <2> QED
    BY <1>1, <1>5, <2>1 DEF Times
<1> QED
  BY <1>2, <1>3, <1>4, <1>5

\* No complete scan is skipped, and each is loaded with its own timestamp.
LEMMA readFindingsSound ==
  ASSUME StoreInv, NEW r \in Readers, readFindings(r)
  PROVE  StoreInv'
<1> USE DEF StoreInv
<1> DEFINE s == Here(r)
           old == reading[r].loaded
           readable == files[s].findings \in {"empty", "whole"}
<1>1. /\ reading[r].at = "findings"
      /\ UNCHANGED <<files, stamp, started, writing, failures, acked>>
  BY DEF readFindings, disk
<1>2. reading[r] \in Walk /\ WalkSound(reading[r])
  BY DEF StoreTyped
<1>3. /\ s \in reading[r].todo /\ s \in Scans /\ s \in 1..started
      /\ s \in reading[r].since => s \in acked /\ reading[r].metadata = "whole"
  <2>1. reading[r].todo # {}
    BY <1>1, <1>2 DEF WalkSound
  <2> QED
    BY <1>1, <1>2, <2>1, HereSound DEF WalkSound, Here
<1>4. PICK time \in SortTimestamp(r, s) :
        reading' = [reading EXCEPT
           ![r].at = "metadata", ![r].metadata = "absent", ![r].todo = @ \ {s},
           ![r].loaded = IF files[s].findings \notin {"empty", "whole"} THEN @
                         ELSE [q \in DOMAIN @ \cup {s} |-> IF q = s THEN time ELSE @[q]]]
  BY DEF readFindings
<1>5. /\ time \in Times /\ (time = 0 \/ time >= 2 * stamp[s])
      /\ reading[r].metadata = "whole" => time = 2 * stamp[s]
  BY <1>3, SortTimestampSound
<1>6. PICK new : new = IF readable THEN [q \in DOMAIN old \cup {s} |-> IF q = s THEN time ELSE old[q]]
                       ELSE old
  OBVIOUS
<1>7. readable => stamp[s] > 0
  <2>1. stamp[s] \in Nat
    BY <1>3 DEF StoreTyped
  <2> QED
    BY <1>3, <2>1 DEF StampsSound, Unwritten
<1>8. s \in reading[r].since => readable
  BY <1>3 DEF AckedSound
<1>9. PICK D \in SUBSET Scans : old \in [D -> Times]
  BY <1>2 DEF Walk, Loads
<1>10. new \in Loads
  <2>1. CASE readable
    <3>1. D \cup {s} \in SUBSET Scans /\ new \in [D \cup {s} -> Times]
      BY <1>3, <1>5, <1>6, <1>9, <2>1
    <3> QED
      BY <3>1 DEF Loads
  <2>2. CASE ~ readable
    BY <1>2, <1>6, <2>2 DEF Walk
  <2> QED
    BY <2>1, <2>2
<1>11. PICK walk : walk = [reading[r] EXCEPT !.at = "metadata", !.metadata = "absent",
                                             !.todo = @ \ {s}, !.loaded = new]
  OBVIOUS
<1>12. /\ walk \in Walk /\ walk.at = "metadata" /\ walk.since = reading[r].since
       /\ walk.todo = reading[r].todo \ {s} /\ walk.loaded = new
       /\ walk.answer = reading[r].answer
  BY <1>2, <1>10, <1>11 DEF Walk
<1>13. reading' = [reading EXCEPT ![r] = walk]
  BY <1>4, <1>6, <1>11
<1> HIDE DEF s, old, readable
<1>14. /\ DOMAIN new = IF readable THEN DOMAIN old \cup {s} ELSE DOMAIN old
       /\ \A q \in DOMAIN new : new[q] = IF q = s /\ readable THEN time ELSE old[q]
       /\ s \notin DOMAIN old
  BY <1>2, <1>3, <1>6 DEF WalkSound, old
<1>15. WalkSound(walk)
  <2>1. ASSUME NEW q \in DOMAIN new
        PROVE  /\ q \in 1..started /\ q \notin walk.todo
               /\ stamp[q] > 0 /\ (new[q] = 0 \/ new[q] >= 2 * stamp[q])
    <3>1. CASE q = s
      BY <1>3, <1>5, <1>7, <1>12, <1>14, <3>1
    <3>2. CASE q # s
      BY <1>2, <1>12, <1>14, <3>2 DEF WalkSound, old
    <3> QED
      BY <3>1, <3>2
  <2>2. ASSUME NEW q \in walk.since
        PROVE  q \in walk.todo \/ (q \in DOMAIN new /\ new[q] = 2 * stamp[q])
    <3>1. CASE q = s
      BY <1>3, <1>5, <1>8, <1>12, <1>14, <2>2, <3>1
    <3>2. CASE q # s
      BY <1>1, <1>2, <1>12, <1>14, <2>2, <3>2 DEF WalkSound, old
    <3> QED
      BY <3>1, <3>2
  <2> QED
    BY <1>2, <1>12, <2>1, <2>2 DEF WalkSound
<1>16. NotStale(walk) /\ (r = Dashboard => RuleSound(walk))
  BY <1>1, <1>12 DEF NotStale, RuleSound
<1> QED
  BY <1>1, <1>12, <1>13, <1>15, <1>16, ReaderStep

\* A walk that is over has loaded every scan that was complete when it began.
LEMMA WalkedSound ==
  ASSUME StoreInv, NEW r \in Readers, Walked(r)
  PROVE  /\ reading[r].loaded \in Loads
         /\ DOMAIN reading[r].loaded \subseteq Scans \cap (1..started)
         /\ \A s \in DOMAIN reading[r].loaded : reading[r].loaded[s] \in Times
         /\ \A s \in reading[r].since : /\ s \in DOMAIN reading[r].loaded /\ s \in acked
                                        /\ stamp[s] > 0
                                        /\ reading[r].loaded[s] = 2 * stamp[s]
<1> USE DEF StoreInv
<1>1. reading[r] \in Walk /\ WalkSound(reading[r])
  BY DEF StoreTyped
<1>2. PICK D \in SUBSET Scans : reading[r].loaded \in [D -> Times]
  BY <1>1 DEF Walk, Loads
<1>3. reading[r].at = "metadata" /\ reading[r].todo = {}
  BY DEF Walked
<1> QED
  BY <1>1, <1>2, <1>3 DEF WalkSound, AckedSound, Walk

\* What the end of a walk leaves behind is sound when its answer is a scan
\* that was loaded, or none.
LEMMA AnswerStep ==
  ASSUME StoreInv, NEW r \in Readers, Walked(r), NEW answer,
         answer = NoScan \/ answer \in DOMAIN reading[r].loaded,
         reading' = [reading EXCEPT ![r] =
           [NoWalk EXCEPT !.at = "answered", !.since = reading[r].since, !.answer = answer]],
         UNCHANGED <<files, stamp, started, writing, failures, acked>>,
         r \in Visitors => \A s \in reading[r].since :
           /\ answer # NoScan
           /\ answer \in reading[r].since => stamp[answer] >= stamp[s],
         r = Dashboard => \A s \in reading[r].since : stamp[s] < stamp[Current] =>
           /\ answer # NoScan /\ stamp[answer] < stamp[Current]
           /\ answer \in reading[r].since => stamp[s] <= stamp[answer]
  PROVE  StoreInv'
<1>1. PICK walk : walk = [NoWalk EXCEPT !.at = "answered", !.since = reading[r].since,
                                        !.answer = answer]
  OBVIOUS
<1>2. walk = [at |-> "answered", todo |-> {}, metadata |-> "absent", loaded |-> << >>,
              since |-> reading[r].since, answer |-> answer,
              now |-> Nothing, old |-> Nothing, fresh |-> {}]
  BY <1>1 DEF NoWalk
<1>3. /\ reading[r] \in Walk /\ WalkSound(reading[r])
      /\ DOMAIN reading[r].loaded \subseteq Scans \cap (1..started) /\ started \in Nat
  BY WalkedSound DEF StoreInv, StoreTyped
<1>4. NoWalk \in Walk /\ DOMAIN << >> = {}
  BY NoWalkSound
<1>5. walk \in Walk
  BY <1>2, <1>3, <1>4 DEF Walk, NoWalk
<1>6. WalkSound(walk)
  BY <1>2, <1>3, <1>4 DEF WalkSound, NoScan
<1>7. r \in Visitors => NotStale(walk)
  BY <1>2 DEF NotStale
<1>8. r = Dashboard => RuleSound(walk)
  <2>1. r = Dashboard => writing[Dashboard].at = "evaluate" /\ Current \in walk.since
    BY <1>2 DEF StoreInv, RuleSound, Walked
  <2> QED
    BY <1>2, <2>1 DEF RuleSound
<1> QED
  BY <1>1, <1>5, <1>6, <1>7, <1>8, ReaderStep

\* The latest scan is chosen among those the walk has loaded.
LEMMA ResolveLatestScanIDSound ==
  ASSUME StoreInv, NEW v \in Visitors, ResolveLatestScanID(v)
  PROVE  StoreInv'
<1> DEFINE loaded == reading[v].loaded
           answer == Newest(loaded, DOMAIN loaded)
<1>1. v \in Readers /\ Walked(v) /\ v # Dashboard
  BY DEF ResolveLatestScanID, Readers, Writers
<1>2. /\ DOMAIN loaded \subseteq Scans /\ \A s \in DOMAIN loaded : loaded[s] \in Times
      /\ \A s \in reading[v].since : /\ s \in DOMAIN loaded /\ s \in acked
                                     /\ loaded[s] = 2 * stamp[s]
  BY <1>1, WalkedSound
<1>3. CASE DOMAIN loaded = {}
  <2>1. answer = NoScan /\ reading[v].since = {}
    BY <1>2, <1>3 DEF Newest
  <2> QED
    BY <1>1, <2>1, AnswerStep DEF ResolveLatestScanID, disk
<1>4. CASE DOMAIN loaded # {}
  <2>1. answer \in DOMAIN loaded /\ \A s \in DOMAIN loaded : loaded[s] <= loaded[answer]
    BY <1>2, <1>4, NewestIsLatest
  <2>2. answer # NoScan /\ answer \in Scans
    BY <1>2, <2>1 DEF Scans, NoScan
  <2>3. ASSUME NEW s \in reading[v].since, answer \in reading[v].since
        PROVE  stamp[answer] >= stamp[s]
    <3>1. s \in Scans /\ stamp[s] \in Nat /\ stamp[answer] \in Nat
      BY <1>2, <2>2 DEF StoreInv, StoreTyped
    <3>2. 2 * stamp[s] <= 2 * stamp[answer]
      BY <1>2, <2>1, <2>3
    <3> QED
      BY <3>1, <3>2
  <2> QED
    BY <1>1, <2>1, <2>2, <2>3, AnswerStep DEF ResolveLatestScanID, disk
<1> QED
  BY <1>3, <1>4

\* The baseline is chosen among the scans the walk has loaded.
LEMMA ChooseBaselineSound ==
  ASSUME StoreInv, ChooseBaseline
  PROVE  StoreInv'
<1> DEFINE loaded == reading[Dashboard].loaded
           since == reading[Dashboard].since
           older == {s \in DOMAIN loaded \ {Current} : Before(loaded, Current, s)}
           answer == previousScanID(loaded)
<1>1. Dashboard \in Readers /\ Walked(Dashboard) /\ Dashboard \notin Visitors
  BY DEF ChooseBaseline, Readers, Writers
<1>2. /\ DOMAIN loaded \subseteq Scans /\ \A s \in DOMAIN loaded : loaded[s] \in Times
      /\ \A s \in since : /\ s \in DOMAIN loaded /\ s \in acked /\ stamp[s] > 0
                          /\ loaded[s] = 2 * stamp[s]
  BY <1>1, WalkedSound
<1>3. Current \in since /\ \A s \in Scans : stamp[s] \in Nat
  BY <1>1 DEF StoreInv, StoreTyped, RuleSound, Walked
<1>4. answer = Newest(loaded, older) /\ older \in SUBSET Scans
  BY <1>2, <1>3 DEF previousScanID
<1>5. older # {} => /\ answer \in older
                    /\ \A s \in older : loaded[s] <= loaded[answer]
  BY <1>2, <1>4, NewestIsLatest
<1>6. older = {} => answer = NoScan
  BY <1>4 DEF Newest
<1>7. ASSUME NEW s \in since, stamp[s] < stamp[Current]
      PROVE  /\ answer # NoScan /\ stamp[answer] < stamp[Current]
             /\ answer \in since => stamp[s] <= stamp[answer]
  <2>1. s \in older
    BY <1>2, <1>3, <1>7 DEF Before
  <2>2. answer \in older /\ loaded[s] <= loaded[answer] /\ answer \in Scans
    BY <1>4, <1>5, <2>1
  <2>3. /\ stamp[answer] \in Nat /\ stamp[s] \in Nat /\ stamp[Current] \in Nat
        /\ loaded[answer] \in Nat /\ loaded[s] = 2 * stamp[s] /\ stamp[s] > 0
        /\ loaded[Current] = 2 * stamp[Current]
    BY <1>2, <1>3, <2>2 DEF Times
  <2>4. loaded[answer] <= loaded[Current] /\ answer # Current
    BY <2>2, <2>3 DEF Before
  <2>5. loaded[answer] >= 2 * stamp[answer]
    <3>1. loaded[answer] = 0 \/ loaded[answer] >= 2 * stamp[answer]
      BY <1>1, <2>2 DEF StoreInv, WalkSound
    <3> QED
      BY <2>2, <2>3, <3>1
  <2>6. stamp[answer] # stamp[Current]
    BY <1>2, <1>3, <2>2, <2>4 DEF StoreInv, StampsSound
  <2>7. answer \in since => 2 * stamp[s] <= 2 * stamp[answer]
    BY <1>2, <2>2
  <2> HIDE DEF answer
  <2> QED
    BY <2>2, <2>3, <2>4, <2>5, <2>6, <2>7 DEF NoScan, Scans
<1>8. answer = NoScan \/ answer \in DOMAIN loaded
  BY <1>5, <1>6
<1>9. /\ reading' = [reading EXCEPT ![Dashboard] =
           [NoWalk EXCEPT !.at = "answered", !.since = since, !.answer = answer]]
      /\ UNCHANGED <<files, stamp, started, writing, failures, acked>>
  BY DEF ChooseBaseline, disk
<1> HIDE DEF answer
<1> QED
  BY <1>1, <1>7, <1>8, <1>9, AnswerStep

\* A request that is answered is gone.
LEMMA AnswerSound ==
  ASSUME StoreInv, NEW v \in Visitors, Answer(v)
  PROVE  StoreInv'
<1>1. v \in Readers /\ v # Dashboard /\ started \in Nat
  BY DEF Readers, Writers, StoreInv, StoreTyped
<1> QED
  BY <1>1, NoWalkSound, ReaderStep DEF Answer, disk

\* What is reported is what the baseline had not.
LEMMA evalNewCriticalSound ==
  ASSUME StoreInv, evalNewCritical
  PROVE  StoreInv'
<1>1. reading[Dashboard].at = "answered" /\ Dashboard \in Readers /\ Dashboard \notin Visitors
  BY DEF evalNewCritical, Readers, Writers
<1>2. PICK now \in [Records -> Found], old \in [Records -> Found] :
        reading' = [reading EXCEPT
          ![Dashboard].at = "reported", ![Dashboard].now = now, ![Dashboard].old = old,
          ![Dashboard].fresh = IF Baseline = NoScan THEN {} ELSE newCritical(now, old)]
  BY DEF evalNewCritical
<1>3. UNCHANGED <<files, stamp, started, writing, failures, acked>>
  BY DEF evalNewCritical, disk
<1>4. /\ reading[Dashboard] \in Walk /\ WalkSound(reading[Dashboard])
      /\ RuleSound(reading[Dashboard])
  BY <1>1 DEF StoreInv, StoreTyped
<1>5. PICK fresh : fresh = IF Baseline = NoScan THEN {} ELSE newCritical(now, old)
  OBVIOUS
<1>6. fresh \subseteq Records
  BY <1>5 DEF newCritical
<1>7. PICK walk : walk = [reading[Dashboard] EXCEPT !.at = "reported", !.now = now,
                                                    !.old = old, !.fresh = fresh]
  OBVIOUS
<1>8. /\ walk \in Walk /\ walk.at = "reported" /\ walk.since = reading[Dashboard].since
      /\ walk.todo = reading[Dashboard].todo /\ walk.loaded = reading[Dashboard].loaded
      /\ walk.answer = reading[Dashboard].answer /\ walk.fresh = fresh
      /\ walk.now = now /\ walk.old = old
  BY <1>4, <1>6, <1>7 DEF Walk
<1>9. WalkSound(walk)
  BY <1>4, <1>8 DEF WalkSound
<1>10. RuleSound(walk)
  <2>1. walk.answer # NoScan => walk.fresh = newCritical(walk.now, walk.old)
    BY <1>5, <1>8 DEF Baseline
  <2> QED
    BY <1>1, <1>4, <1>8, <2>1 DEF RuleSound
<1>11. reading' = [reading EXCEPT ![Dashboard] = walk]
  BY <1>2, <1>5, <1>7
<1> QED
  BY <1>1, <1>3, <1>8, <1>9, <1>10, <1>11, ReaderStep

\* An evaluation that ends leaves nothing behind.
LEMMA EndEvaluationSound ==
  ASSUME StoreInv, EndEvaluation
  PROVE  StoreInv'
<1> USE DEF StoreInv, EndEvaluation, disk
<1>1. /\ \A u \in Writers : writing'[u] = IF u = Dashboard THEN Idle ELSE writing[u]
      /\ \A r \in Readers : reading'[r] = IF r = Dashboard THEN NoWalk ELSE reading[r]
  BY DEF StoreTyped
<1>2. started \in Nat
  BY DEF StoreTyped
<1>3. StoreTyped'
  BY <1>1, NoWalkSound DEF StoreTyped, Stage, Idle
<1>4. StampsSound' /\ AckedSound'
  BY DEF StampsSound, AckedSound, Stamps
<1>5. \A u \in Writers : WriterSound(u)'
  BY <1>1 DEF WriterSound, Idle
<1>6. \A r \in Readers : WalkSound(reading[r])'
  BY <1>1, <1>2, NoWalkSound DEF WalkSound
<1>7. \A v \in Visitors : NotStale(reading[v])'
  BY <1>1, NoWalkSound DEF NotStale, Readers
<1>8. RuleSound(reading[Dashboard])'
  BY <1>1 DEF RuleSound, NoWalk, Readers
<1> QED
  BY <1>3, <1>4, <1>5, <1>6, <1>7, <1>8

-----------------------------------------------------------------------------
(* The theorems.                                                           *)

\* No scan is there at the start.
LEMMA StoreInit == Init => StoreInv
<1> SUFFICES ASSUME Init PROVE StoreInv
  OBVIOUS
<1> USE DEF Init
<1>1. \A s \in Scans : stamp[s] = 0 /\ files[s] = Unwritten
  BY DEF Unwritten
<1>2. StampsSound
  <2>1. {s \in Scans : stamp[s] > 0} = {}
    BY <1>1
  <2>2. Stamps = 0
    BY <2>1, FS_EmptySet DEF Stamps
  <2> QED
    BY <1>1, <2>2 DEF StampsSound
<1>3. StoreTyped
  BY NoWalkSound DEF StoreTyped, File, Stage, Idle
<1>4. AckedSound /\ \A w \in Writers : WriterSound(w)
  BY DEF AckedSound, WriterSound, Idle
<1>5. \A r \in Readers : WalkSound(reading[r]) /\ NotStale(reading[r])
  BY NoWalkSound
<1>6. RuleSound(reading[Dashboard])
  BY NoWalkSound DEF Readers
<1> QED
  BY <1>2, <1>3, <1>4, <1>5, <1>6 DEF StoreInv, Readers

\* The invariant holds of every reachable state.
LEMMA StoreInvariant == Spec => []StoreInv
<1>1. Init => StoreInv
  BY StoreInit
<1>2. StoreInv /\ [Next]_vars => StoreInv'
  <2> SUFFICES ASSUME StoreInv, [Next]_vars PROVE StoreInv'
    OBVIOUS
  <2>1. ASSUME NEW w \in Writers, persist(w) PROVE StoreInv'
    BY <2>1, BeginPersistSound, buildMetadataSound, writeJSONFileSound, FinishPersistSound,
       StopSound DEF persist
  <2>2. ASSUME NEW r \in Readers, ListScanIDs(r) \/ LoadScanArtifacts(r) PROVE StoreInv'
    BY <2>2, ListScanIDsSound, readMetadataSound, readFindingsSound DEF LoadScanArtifacts
  <2>3. ASSUME NEW v \in Visitors, ResolveLatestScanID(v) \/ Answer(v) PROVE StoreInv'
    BY <2>3, ResolveLatestScanIDSound, AnswerSound
  <2>4. ASSUME ChooseBaseline \/ evalNewCritical \/ EndEvaluation PROVE StoreInv'
    BY <2>4, ChooseBaselineSound, evalNewCriticalSound, EndEvaluationSound
  <2>5. ASSUME UNCHANGED vars PROVE StoreInv'
    BY <2>5 DEF vars, StoreInv, StoreTyped, StampsSound, Stamps, AckedSound, WriterSound,
      WalkSound, NotStale, RuleSound, Current
  <2> QED
    BY <2>1, <2>2, <2>3, <2>4, <2>5 DEF Next
<1> QED
  BY <1>1, <1>2, PTL DEF Spec

\* Every reachable state of the directory and its readers has the declared types.
THEOREM StoreTypeCorrect == Spec => []TypeOK
<1>1. ASSUME StoreInv PROVE TypeOK
  <2>1. ASSUME NEW r \in Readers
        PROVE  /\ reading[r].at \in {"idle", "metadata", "findings", "answered", "reported"}
               /\ reading[r].metadata \in {"absent", "empty", "whole"}
               /\ reading[r].todo \subseteq Scans /\ DOMAIN reading[r].loaded \subseteq Scans
               /\ \A s \in DOMAIN reading[r].loaded :
                     reading[r].loaded[s] \in Times /\ s \notin reading[r].todo
               /\ reading[r].answer \in 0..started /\ reading[r].fresh \subseteq Records
    <3>1. reading[r] \in Walk /\ WalkSound(reading[r]) /\ started \in Nat
      BY <1>1 DEF StoreInv, StoreTyped
    <3>2. PICK D \in SUBSET Scans : reading[r].loaded \in [D -> Times]
      BY <3>1 DEF Walk, Loads
    <3> QED
      BY <3>1, <3>2 DEF Walk, WalkSound, NoScan, Scans
  <2> QED
    BY <1>1, <2>1 DEF StoreInv, StoreTyped, TypeOK
<1> QED
  BY <1>1, StoreInvariant, PTL

\* A scan whose Run returned before a request is never hidden from it by an
\* older one, whatever fails or dies meanwhile.
THEOREM LatestIsNotStaleHolds == Spec => []LatestIsNotStale
<1>1. StoreInv => LatestIsNotStale
  BY DEF StoreInv, NotStale, LatestIsNotStale
<1> QED
  BY <1>1, StoreInvariant, PTL

\* When an older scan was complete before the evaluation began there is a
\* baseline, and nothing newer than the evaluated scan, and no older complete
\* scan than another one, is taken for it.
THEOREM BaselineIsPreviousHolds == Spec => []BaselineIsPrevious
<1>1. StoreInv => BaselineIsPrevious
  BY DEF StoreInv, RuleSound, BaselineIsPrevious, Baseline
<1> QED
  BY <1>1, StoreInvariant, PTL

\* Against a complete baseline, what is reported as new was not critical there,
\* and what is critical and was nothing there is reported.
THEOREM ReportMatchesBaselineHolds == Spec => []ReportMatchesBaseline
<1>1. ASSUME StoreInv PROVE ReportMatchesBaseline
  <2> SUFFICES ASSUME SoundReport
               PROVE  LET report == reading[Dashboard] IN
                      /\ \A r \in report.fresh : /\ report.now[r] = "critical"
                                                 /\ report.old[r] # "critical"
                      /\ \A r \in Records :
                            report.now[r] = "critical" /\ report.old[r] = "nothing"
                              => r \in report.fresh
    BY DEF ReportMatchesBaseline
  <2> DEFINE report == reading[Dashboard]
  <2>1. report \in Walk /\ WalkSound(report) /\ RuleSound(report) /\ report.at = "reported"
    BY <1>1 DEF StoreInv, StoreTyped, Readers, SoundReport
  <2>2. Baseline # NoScan
    BY <2>1 DEF SoundReport, Walk, Scans, NoScan
  <2>3. report.fresh = newCritical(report.now, report.old)
    BY <2>1, <2>2 DEF RuleSound, Baseline
  <2> QED
    BY <2>3 DEF newCritical, identities, diffIdentity
<1> QED
  BY <1>1, StoreInvariant, PTL
=============================================================================
