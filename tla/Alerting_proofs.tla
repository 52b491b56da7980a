--------------------------- MODULE Alerting_proofs ---------------------------
(***************************************************************************)
(* Proofs about alert rules and their evaluation, for any number of rules, *)
(* scans, test and toggle requests, any bounds and any length of the event *)
(* history: the types, that no edit of a rule is lost, and what the        *)
(* evaluation leaves behind, the cooldown window, suppressed alerts and an *)
(* event for every rule a scan evaluated.                                  *)
(***************************************************************************)
EXTENDS Alerting, SequenceTheorems, FiniteSetTheorems, WellFoundedInduction, TLAPS

USE BoundsAssumption, ProcsAssumption, ConfigsAssumption

-----------------------------------------------------------------------------
(* The typing invariant.  TypeOK says of a job that is done nothing but    *)
(* that it is Idle, and of one at work not whose it is: a step is typed    *)
(* only because evaluators run with a scan, a rule and, for the scan       *)
(* goroutine, a listing that has the rule.                                 *)

\* A process at work is somewhere in this record.
Job == [at : At, rule : Nat, copy : StoredRule, event : Event \cup {None},
        listed : Seq(StoredRule)]

\* From the draft of the event on.
Drafted == {"route", "decide", "send", "record", "patch"}

Sane(p) ==
  job[p] # Idle =>
    /\ job[p].at # "idle" /\ job[p].rule \in 1..Len(rules)
    /\ Len(job[p].listed) <= Len(rules)
    /\ p \in Togglers <=> job[p].at = "set"
    /\ p # Scanner => job[p].listed = << >>
    /\ p = Scanner => /\ job[p].rule <= Len(job[p].listed)
                   /\ job[p].copy = job[p].listed[job[p].rule]
    /\ p \in Evaluators => scan > 0
    /\ job[p].at \in Drafted => /\ job[p].event \in Event
                                /\ job[p].event.rule = job[p].rule
                                /\ job[p].event.forced = Forced(p)
                                /\ p = Scanner => job[p].event.scan = scan
    /\ job[p].at = "patch" => job[p].event.kind \in {"ok", "failed"}

JobsSane == job \in [Procs -> Job] /\ \A p \in Procs : Sane(p)

\* The conjuncts of TypeOK that are not about the jobs.
StateTyped ==
  /\ rules \in Seq(StoredRule) /\ Len(rules) <= NumRules
  /\ events \in Seq(Event) /\ Len(events) <= MaxEvents
  /\ catalog \in BOOLEAN /\ clock \in Minutes
  /\ scan \in 0..MaxScans
  /\ limit \in Limits
  /\ spent \in [edits : 0..limit.edits, tests : 0..limit.tests,
                faults : 0..limit.faults, crashes : 0..limit.crashes]
  /\ posts \subseteq Event /\ cut \subseteq Scans /\ raced \subseteq RuleIds
  /\ due \in [Scans -> SUBSET RuleIds]
  /\ answers \in [Scans -> [RuleIds -> Nat]]
  /\ intent \in [RuleIds -> Config]

TInv == StateTyped /\ JobsSane

-----------------------------------------------------------------------------
(* Lemmas about the operators.                                             *)

\* A set of numbers that has one has a smallest one: the intervals below its
\* elements are finite sets, and strict inclusion of those is well-founded.
LEMMA SmallestOf ==
  ASSUME NEW S \in SUBSET Nat, NEW b \in S
  PROVE  \E n \in S : \A m \in S : n <= m
<1> DEFINE below(n) == {k \in 0..b : k < n}
           T == {below(n) : n \in {x \in S : x <= b}}
<1>1. IsWellFoundedOn(StrictSubsetOrdering(0..b), SUBSET (0..b))
  <2>1. IsFiniteSet(0..b)
    BY FS_Interval
  <2>2. QED BY <2>1, FS_StrictSubsetOrderingWellFounded, FS_FiniteSubsetsOfFinite
<1>2. T \subseteq SUBSET (0..b) /\ below(b) \in T
  OBVIOUS
<1>3. PICK t \in T : \A u \in T : <<u, t>> \notin StrictSubsetOrdering(0..b)
  BY <1>1, <1>2, WFMin
<1>4. PICK n \in S : n <= b /\ t = below(n)
  BY <1>3
<1>5. ASSUME NEW m \in S, m < n PROVE FALSE
  <2>1. m \in Nat /\ n \in Nat /\ b \in Nat /\ m <= b
    BY <1>4, <1>5
  <2>2. below(m) \in T /\ below(m) \subseteq below(n) /\ m \in below(n) /\ m \notin below(m)
    BY <1>4, <1>5, <2>1
  <2>3. <<below(m), below(n)>> \in StrictSubsetOrdering(0..b)
    BY <2>2 DEF StrictSubsetOrdering
  <2>4. QED BY <1>3, <1>4, <2>2, <2>3
<1>6. QED
  BY <1>5

\* The history with one more event in front.
LEMMA PrependType ==
  ASSUME events \in Seq(Event), NEW e \in Event
  PROVE  /\ prepend(e) \in Seq(Event)
         /\ Len(prepend(e)) = IF Len(events) < MaxEvents THEN Len(events) + 1
                                                         ELSE MaxEvents
         /\ \A i \in 1..Len(prepend(e)) :
               prepend(e)[i] = IF i = 1 THEN e ELSE events[i - 1]
<1> DEFINE all == <<e>> \o events
           n == IF Len(events) < MaxEvents THEN Len(events) + 1 ELSE MaxEvents
<1>1. /\ all \in Seq(Event)
      /\ Len(all) = Len(events) + 1
      /\ \A i \in 1..Len(all) : all[i] = IF i = 1 THEN e ELSE events[i - 1]
  <2>1. <<e>> \in Seq(Event) /\ Len(<<e>>) = 1 /\ <<e>>[1] = e
    OBVIOUS
  <2>2. QED BY <2>1, ConcatProperties
<1>2. Len(events) \in Nat /\ n \in Nat /\ n <= Len(events) + 1
  BY LenProperties
<1>3. prepend(e) = SubSeq(all, 1, n)
  BY DEF prepend
<1> HIDE DEF all, n
<1>4. \A i \in 1..n : all[i] \in Event /\ i \in 1..Len(all)
  BY <1>1, <1>2
<1>5. /\ SubSeq(all, 1, n) \in Seq(Event)
      /\ Len(SubSeq(all, 1, n)) = n
      /\ \A i \in 1..n : SubSeq(all, 1, n)[i] = all[i]
  BY <1>2, <1>4, SubSeqProperties
<1>6. QED
  BY <1>1, <1>3, <1>4, <1>5 DEF n

\* What is next in a listing: nothing, or an enabled rule of it from r on,
\* and nothing enabled is skipped.
LEMMA FollowingType ==
  ASSUME NEW list \in Seq(StoredRule), NEW r \in Nat \ {0}
  PROVE  \/ /\ Following(list, r) = Idle
            /\ \A q \in r..Len(list) : ~ list[q].config.enabled
         \/ \E q \in r..Len(list) :
               /\ Following(list, r) = Start(list, q)
               /\ list[q].config.enabled
               /\ \A q2 \in r..(q - 1) : ~ list[q2].config.enabled
<1> DEFINE pending == {q \in r..Len(list) : list[q].config.enabled}
<1>1. Len(list) \in Nat
  BY LenProperties
<1>2. CASE pending = {}
  BY <1>2 DEF Following
<1>3. CASE pending # {}
  <2>1. pending \in SUBSET Nat
    BY <1>1
  <2>2. \E n \in pending : \A m \in pending : n <= m
    BY <1>3, <2>1, SmallestOf
  <2> DEFINE next == CHOOSE q \in pending : \A q2 \in pending : q <= q2
  <2>3. next \in pending /\ \A q2 \in pending : next <= q2
    BY <2>2
  <2>4. Following(list, r) = Start(list, next)
    BY <1>3 DEF Following
  <2> HIDE DEF next
  <2>5. next \in r..Len(list) /\ list[next].config.enabled
    BY <2>3
  <2>6. \A q2 \in r..(next - 1) : ~ list[q2].config.enabled
    BY <1>1, <2>3, <2>5
  <2>7. QED BY <2>4, <2>5, <2>6
<1>4. QED
  BY <1>2, <1>3

\* The counts of a behaviour stay within its limits.
LEMMA SpendType ==
  ASSUME StateTyped, NEW what \in {"edits", "tests", "faults", "crashes"}, Spend(what)
  PROVE  spent' \in [edits : 0..limit.edits, tests : 0..limit.tests,
                     faults : 0..limit.faults, crashes : 0..limit.crashes]
<1>1. /\ limit.edits \in Nat /\ limit.tests \in Nat
      /\ limit.faults \in Nat /\ limit.crashes \in Nat
  BY DEF StateTyped, Limit
<1>2. spent[what] \in Nat /\ limit[what] \in Nat
  BY <1>1 DEF StateTyped
<1>3. PICK n : n = spent[what] + 1
  OBVIOUS
<1>4. n \in 0..limit[what] /\ spent' = [spent EXCEPT ![what] = n]
  BY <1>2, <1>3 DEF Spend
<1>5. QED
  BY <1>4 DEF StateTyped

\* Writing a rule back leaves as many rules as there were, and the others alone.
LEMMA UpsertType ==
  ASSUME StateTyped, NEW p, job[p].rule \in 1..Len(rules), NEW value \in StoredRule,
         UpsertRule(p, value)
  PROVE  /\ rules' \in Seq(StoredRule) /\ Len(rules') = Len(rules)
         /\ \A r \in 1..Len(rules) :
               rules'[r] = rules[r] \/ (r = job[p].rule /\ rules'[r] = value)
         /\ spent' \in [edits : 0..limit.edits, tests : 0..limit.tests,
                         faults : 0..limit.faults, crashes : 0..limit.crashes]
<1>1. CASE rules' = [rules EXCEPT ![job[p].rule] = value] /\ UNCHANGED spent
  <2>1. rules \in Seq(StoredRule)
    BY DEF StateTyped
  <2>2. rules' \in Seq(StoredRule) /\ Len(rules') = Len(rules)
    BY <1>1, <2>1
  <2>3. \A r \in 1..Len(rules) : rules'[r] = IF r = job[p].rule THEN value ELSE rules[r]
    BY <1>1, <2>1
  <2>4. QED BY <1>1, <2>2, <2>3 DEF StateTyped
<1>2. CASE Fault /\ UNCHANGED rules
  BY <1>2, SpendType DEF Fault, StateTyped
<1>3. QED
  BY <1>1, <1>2 DEF UpsertRule

-----------------------------------------------------------------------------
(* What a step does to the jobs: its process goes on with its rule, or is  *)
(* given another job or none; the others stay where they are.              *)

Moves(p, at, event) ==
  /\ job' \in [Procs -> Job]
  /\ job'[p].at = at /\ job'[p].event = event
  /\ job'[p].rule = job[p].rule /\ job'[p].copy = job[p].copy
  /\ job'[p].listed = job[p].listed
  /\ \A q \in Procs \ {p} : job'[q] = job[q]

Becomes(p, j) ==
  /\ job' \in [Procs -> Job] /\ job'[p] = j
  /\ \A q \in Procs \ {p} : job'[q] = job[q]

\* The job a process is given when it is done: the scan goroutine the next
\* enabled rule of its listing, a request none.
NextJob(p) == IF Forced(p) THEN Idle ELSE Following(job[p].listed, job[p].rule + 1)

\* The marks for no rule and no job are of the declared types.
LEMMA NullType == Null \in StoredRule /\ Idle \in Job /\ Idle.at = "idle"
BY DEF Null, StoredRule, Config, Idle, Job, At, NoRule

\* Assignments to fields of one job.
LEMMA MovesAt ==
  ASSUME job \in [Procs -> Job], NEW p \in Procs, NEW at \in At,
         job' = [job EXCEPT ![p].at = at]
  PROVE  Moves(p, at, job[p].event)
<1>1. job[p] \in Job
  OBVIOUS
<1>2. PICK j : j = [job[p] EXCEPT !.at = at]
  OBVIOUS
<1>3. j \in Job /\ j.at = at /\ j.event = job[p].event /\ j.rule = job[p].rule
      /\ j.copy = job[p].copy /\ j.listed = job[p].listed
  BY <1>1, <1>2 DEF Job
<1>4. job' = [job EXCEPT ![p] = j]
  BY <1>2
<1>5. /\ job' \in [Procs -> Job] /\ job'[p] = j
      /\ \A q \in Procs \ {p} : job'[q] = job[q]
  BY <1>3, <1>4
<1> QED
  BY <1>3, <1>5 DEF Moves

\* A job that goes on with another event changes for its process only.
LEMMA MovesEvent ==
  ASSUME job \in [Procs -> Job], NEW p \in Procs, NEW at \in At, NEW event \in Event,
         job' = [job EXCEPT ![p].at = at, ![p].event = event]
  PROVE  Moves(p, at, event)
<1>1. job[p] \in Job
  OBVIOUS
<1>2. PICK j : j = [job[p] EXCEPT !.at = at, !.event = event]
  OBVIOUS
<1>3. j \in Job /\ j.at = at /\ j.event = event /\ j.rule = job[p].rule
      /\ j.copy = job[p].copy /\ j.listed = job[p].listed
  BY <1>1, <1>2 DEF Job
<1>4. job' = [job EXCEPT ![p] = j]
  BY <1>2
<1>5. /\ job' \in [Procs -> Job] /\ job'[p] = j
      /\ \A q \in Procs \ {p} : job'[q] = job[q]
  BY Zenon, <1>3, <1>4
<1> QED
  BY <1>3, <1>5 DEF Moves

\* A job that is replaced changes for its process only.
LEMMA BecomesOne ==
  ASSUME job \in [Procs -> Job], NEW p \in Procs, NEW j \in Job,
         job' = [job EXCEPT ![p] = j]
  PROVE  Becomes(p, j)
BY DEF Becomes

\* A rule of a listing, as the job that evaluates it.
LEMMA StartType ==
  ASSUME NEW list \in Seq(StoredRule), NEW r \in 1..Len(list)
  PROVE  /\ Start(list, r) \in Job /\ Start(list, r) # Idle
         /\ Start(list, r).at = "evaluate" /\ Start(list, r).rule = r
         /\ Start(list, r).copy = list[r] /\ Start(list, r).listed = list
BY NullType DEF Start, Job, At, Idle

\* What the scan goroutine is given next is typed.
LEMMA NextJobType ==
  ASSUME TInv, NEW p \in Evaluators, Busy(p)
  PROVE  NextJob(p) \in Job
<1>1. CASE Forced(p)
  BY <1>1, NullType DEF NextJob
<1>2. CASE ~ Forced(p)
  <2>1. job[p].listed \in Seq(StoredRule) /\ job[p].rule + 1 \in Nat \ {0}
    BY DEF TInv, JobsSane, Job, Procs
  <2>2. QED
    BY <1>2, <2>1, FollowingType, StartType, NullType DEF NextJob
<1>3. QED
  BY <1>1, <1>2

\* The jobs stay sane when one of them goes on ...
LEMMA MovesSane ==
  ASSUME TInv, NEW p \in Procs, Busy(p), NEW at \in At \ {"idle"},
         NEW event \in Event \cup {None}, Moves(p, at, event),
         p \in Togglers <=> at = "set",
         at \in Drafted => /\ event \in Event /\ event.rule = job[p].rule
                           /\ event.forced = Forced(p)
                           /\ p = Scanner => event.scan = scan,
         at = "patch" => event.kind \in {"ok", "failed"},
         Len(rules') = Len(rules), scan' = scan
  PROVE  JobsSane'
<1>1. ASSUME NEW q \in Procs \ {p} PROVE Sane(q)'
  BY DEF TInv, JobsSane, Moves, Sane
<1>2. Sane(p)'
  <2>1. job[p] # Idle /\ Sane(p)
    BY NullType DEF Busy, TInv, JobsSane
  <2>2. QED
    BY <2>1 DEF Sane, Moves
<1>3. QED
  BY <1>1, <1>2 DEF JobsSane, Moves

\* ... or one becomes another.
LEMMA BecomesSane ==
  ASSUME TInv, NEW p \in Procs, NEW j, Becomes(p, j), Sane(p)',
         Len(rules') >= Len(rules), Len(rules') \in Nat, scan' >= scan, scan' \in Nat,
         scan' = scan \/ ~ Busy(Scanner) \/ p = Scanner
  PROVE  JobsSane'
<1>1. ASSUME NEW q \in Procs \ {p} PROVE Sane(q)'
  <2>1. Sane(q) /\ job'[q] = job[q] /\ job[q] \in Job
    BY DEF TInv, JobsSane, Becomes
  <2>2. Len(rules) \in Nat /\ scan \in Nat /\ Len(job[q].listed) \in Nat /\ job[q].rule \in Nat
    BY <2>1, LenProperties DEF TInv, StateTyped, Job
  <2>3. q = Scanner => scan' = scan \/ job[q] = Idle
    BY <2>1 DEF Busy, Sane
  <2>4. QED
    BY <2>1, <2>2, <2>3 DEF Sane
<1>2. QED
  BY <1>1 DEF JobsSane, Becomes

-----------------------------------------------------------------------------
(* The steps of an evaluation, by what they do to the job.                 *)

\* A process at work has a typed job with a stored rule.
LEMMA BusyJob ==
  ASSUME TInv, NEW p \in Procs, Busy(p)
  PROVE  /\ job[p] \in Job /\ job[p] # Idle
         /\ job[p].rule \in 1..Len(rules) /\ job[p].rule \in RuleIds
         /\ job[p].copy \in StoredRule /\ job[p].listed \in Seq(StoredRule)
         /\ job[p].event \in Event \cup {None}
         /\ p \in Evaluators => scan \in Scans
<1>1. job[p] \in Job /\ Sane(p) /\ job[p] # Idle
  BY NullType DEF TInv, JobsSane, Busy
<1>2. Len(rules) \in Nat /\ Len(rules) <= NumRules /\ scan \in 0..MaxScans
  BY LenProperties DEF TInv, StateTyped
<1>3. QED
  BY <1>1, <1>2 DEF Sane, Job, RuleIds, Scans

\* A draft is an event of the rule at hand, of now.
LEMMA DraftType ==
  ASSUME TInv, NEW p \in Evaluators, Busy(p), NEW triggered \in BOOLEAN
  PROVE  LET e == draftEvent(p, triggered) IN
           /\ e \in Event /\ e.rule = job[p].rule /\ e.scan = scan /\ e.at = clock
           /\ e.forced = Forced(p) /\ e.kind = "quiet" /\ ~ e.blind
           /\ e.triggered = triggered /\ e.cooldown = job[p].copy.config.cooldown
           /\ [e EXCEPT !.kind = "error"] \in Event
<1>1. /\ job[p].rule \in RuleIds /\ scan \in Scans /\ clock \in Minutes
      /\ job[p].copy.config.cooldown \in Cooldowns /\ Forced(p) \in BOOLEAN
  BY BusyJob DEF Procs, TInv, StateTyped, StoredRule, Config, Forced
<1>2. QED
  BY <1>1 DEF draftEvent, Event, Kind, Never

\* An error ends a request, and takes the scan goroutine to its record of it.
LEMMA ReturnErrorEffect ==
  ASSUME TInv, NEW p \in Evaluators, ReturnError(p)
  PROVE  \/ p # Scanner /\ Becomes(p, Idle)
         \/ p = Scanner /\ Moves(p, "fail", job[p].event)
<1>1. job \in [Procs -> Job] /\ p \in Procs
  BY DEF TInv, JobsSane, Procs
<1>2. CASE Forced(p)
  BY <1>1, <1>2, BecomesOne, NullType DEF ReturnError, Forced
<1>3. CASE ~ Forced(p)
  <2>1. job' = [job EXCEPT ![p].at = "fail"]
    BY <1>3 DEF ReturnError
  <2>2. QED BY <1>1, <1>3, <2>1, MovesAt DEF At, Forced
<1>4. QED
  BY <1>2, <1>3

\* What the end of one rule does to the job.
LEMMA FinishEffect ==
  ASSUME TInv, NEW p \in Evaluators, Busy(p), Finish(p)
  PROVE  Becomes(p, NextJob(p))
<1>1. job \in [Procs -> Job] /\ p \in Procs /\ NextJob(p) \in Job
  BY NextJobType DEF TInv, JobsSane, Procs
<1>2. job' = [job EXCEPT ![p] = NextJob(p)]
  BY DEF Finish, NextJob
<1>3. QED
  BY <1>1, <1>2, BecomesOne

\* What the evaluation of a rule does to the job.
LEMMA EvaluateEffect ==
  ASSUME TInv, NEW p \in Evaluators, Evaluate(p)
  PROVE  \E triggered \in BOOLEAN : Moves(p, "route", draftEvent(p, triggered))
<1>1. Busy(p) /\ job \in [Procs -> Job] /\ p \in Procs
  BY DEF TInv, JobsSane, Procs, Evaluate, Busy
<1>2. PICK triggered \in BOOLEAN :
        job' = [job EXCEPT ![p].at = "route", ![p].event = draftEvent(p, triggered)]
  BY DEF Evaluate
<1>3. draftEvent(p, triggered) \in Event
  BY <1>1, DraftType
<1>4. QED
  BY <1>1, <1>2, <1>3, MovesEvent DEF At

\* A drafted event is one; so is what becomes of it.
LEMMA DraftedEvent ==
  ASSUME TInv, NEW p \in Procs, job[p].at \in Drafted, NEW kind \in Kind
  PROVE  /\ Busy(p) /\ job[p].event \in Event
         /\ job[p].event.rule = job[p].rule /\ job[p].event.forced = Forced(p)
         /\ p = Scanner => job[p].event.scan = scan
         /\ LET e == [job[p].event EXCEPT !.kind = kind] IN
              /\ e \in Event /\ e.rule = job[p].event.rule /\ e.forced = job[p].event.forced
              /\ e.scan = job[p].event.scan /\ e.at = job[p].event.at
              /\ e.triggered = job[p].event.triggered /\ e.blind = job[p].event.blind
              /\ e.cooldown = job[p].event.cooldown /\ e.anchor = job[p].event.anchor
              /\ e.kind = kind
<1>1. Busy(p) /\ job[p] # Idle /\ Sane(p)
  BY NullType DEF Drafted, Busy, TInv, JobsSane
<1>2. job[p].event \in Event
  BY <1>1 DEF Sane
<1>3. QED
  BY <1>1, <1>2 DEF Sane, Event

\* Who has something to send and somewhere to send it goes on to the cooldown,
\* if it has one, or sends.
LEMMA RouteEffect ==
  ASSUME TInv, NEW p \in Evaluators, Route(p)
  PROVE  \/ /\ \E kind \in {job[p].event.kind, "unroutable"} :
                  Moves(p, "record", [job[p].event EXCEPT !.kind = kind])
         \/ /\ Moves(p, "decide", job[p].event)
            /\ p = Scanner /\ job[p].event.triggered
         \/ /\ Moves(p, "send", job[p].event)
            /\ p = Scanner => /\ job[p].event.triggered
                              /\ job[p].copy.config.cooldown = 0
<1> DEFINE ev == job[p].event
<1>1. /\ job[p].at = "route" /\ job \in [Procs -> Job] /\ p \in Procs
      /\ job[p].copy.config.cooldown \in Nat
  BY BusyJob DEF TInv, JobsSane, Procs, Route, Busy, StoredRule, Config
<1>2. ev \in Event /\ ev.kind \in Kind /\ "unroutable" \in Kind
  BY <1>1, DraftedEvent DEF Drafted, Event, Kind
<1>3. PICK readable \in BOOLEAN :
        LET valid == job[p].copy.config.webhook \/ (readable /\ catalog)
            sends == ev.triggered \/ Forced(p)
            cools == ~ Forced(p) /\ job[p].copy.config.cooldown > 0
        IN  job' = [job EXCEPT
                 ![p].at = IF ~ sends \/ ~ valid THEN "record"
                           ELSE IF cools THEN "decide" ELSE "send",
                 ![p].event.kind = IF sends /\ ~ valid THEN "unroutable" ELSE @]
  BY DEF Route
<1> DEFINE valid == job[p].copy.config.webhook \/ (readable /\ catalog)
           sends == ev.triggered \/ Forced(p)
           cools == ~ Forced(p) /\ job[p].copy.config.cooldown > 0
           at == IF ~ sends \/ ~ valid THEN "record" ELSE IF cools THEN "decide" ELSE "send"
           kind == IF sends /\ ~ valid THEN "unroutable" ELSE ev.kind
<1>4. job' = [job EXCEPT ![p].at = at, ![p].event = [ev EXCEPT !.kind = kind]]
  BY <1>1, <1>3 DEF Job
<1>5. [ev EXCEPT !.kind = kind] \in Event /\ kind \in {ev.kind, "unroutable"}
  BY <1>2 DEF Event
<1>6. at \in At
  BY DEF At
<1>7. Moves(p, at, [ev EXCEPT !.kind = kind])
  <2>1. PICK a, e : a = at /\ e = [ev EXCEPT !.kind = kind]
    OBVIOUS
  <2>2. a \in At /\ e \in Event /\ job' = [job EXCEPT ![p].at = a, ![p].event = e]
    BY <1>4, <1>5, <1>6, <2>1
  <2>3. Moves(p, a, e)
    BY <1>1, <2>2, MovesEvent
  <2>4. QED BY <2>1, <2>3
<1>8. at # "record" => [ev EXCEPT !.kind = kind] = ev
  BY <1>2 DEF Event
<1>9. QED
  BY <1>1, <1>5, <1>7, <1>8 DEF Forced

\* The newest anchor of a rule that has one.
LEMMA AnchorType ==
  ASSUME StateTyped, NEW r, anchors(r) # {}
  PROVE  \E i \in anchors(r) : /\ findCooldownAnchor(r) = events[i] /\ events[i] \in Event
                               /\ \A j \in anchors(r) : i <= j
<1>1. anchors(r) \in SUBSET Nat
  BY LenProperties DEF anchors, StateTyped
<1>2. \E n \in anchors(r) : \A m \in anchors(r) : n <= m
  BY <1>1, SmallestOf
<1> DEFINE i == CHOOSE i \in anchors(r) : \A j \in anchors(r) : i <= j
<1>3. i \in anchors(r) /\ \A j \in anchors(r) : i <= j
  BY <1>2
<1>4. findCooldownAnchor(r) = events[i]
  BY DEF findCooldownAnchor
<1> HIDE DEF i
<1>5. i \in 1..Len(events) /\ events \in Seq(Event)
  BY <1>3 DEF anchors, StateTyped
<1>6. events[i] \in Event
  BY <1>5, ElementOfSeq
<1>7. QED
  BY <1>3, <1>4, <1>6

\* Inside the window of the newest anchor the event is suppressed and says by
\* which one; otherwise it is sent.
LEMMA DecideEffect ==
  ASSUME TInv, NEW p \in Evaluators, Decide(p)
  PROVE  LET r == job[p].rule
             cooldown == job[p].copy.config.cooldown
         IN \/ /\ DecideCooldownSuppression(r, cooldown, job[p].event.at)
               /\ \E e \in Event :
                    /\ Moves(p, "record", e)
                    /\ e.rule = job[p].event.rule /\ e.forced = job[p].event.forced
                    /\ e.scan = job[p].event.scan /\ e.at = job[p].event.at
                    /\ e.cooldown = job[p].event.cooldown /\ e.blind = job[p].event.blind
                    /\ e.kind = "suppressed" /\ e.anchor = findCooldownAnchor(r).at
            \/ /\ ~ DecideCooldownSuppression(r, cooldown, job[p].event.at)
               /\ Moves(p, "send", job[p].event)
<1> DEFINE ev == job[p].event
           r == job[p].rule
           suppressed == DecideCooldownSuppression(r, job[p].copy.config.cooldown, ev.at)
<1>1. /\ job[p].at = "decide" /\ job \in [Procs -> Job] /\ p \in Procs
  BY DEF TInv, JobsSane, Procs, Decide
<1>2. ev \in Event
  BY <1>1, DraftedEvent DEF Drafted, Kind
<1>3. CASE suppressed
  <2>1. job' = [job EXCEPT ![p].at = "record", ![p].event.kind = "suppressed",
                           ![p].event.anchor = findCooldownAnchor(r).at]
    BY <1>3 DEF Decide
  <2>2. PICK a : a = findCooldownAnchor(r).at
    OBVIOUS
  <2>3. a \in Minutes
    <3>1. anchors(r) # {}
      BY <1>3 DEF DecideCooldownSuppression
    <3>2. QED BY <2>2, <3>1, AnchorType DEF TInv, Event
  <2>4. PICK e : e = [ev EXCEPT !.kind = "suppressed", !.anchor = a]
    OBVIOUS
  <2>5. /\ e \in Event /\ e.rule = ev.rule /\ e.forced = ev.forced /\ e.scan = ev.scan
        /\ e.at = ev.at /\ e.cooldown = ev.cooldown /\ e.blind = ev.blind
        /\ e.kind = "suppressed" /\ e.anchor = a
    BY <1>2, <2>3, <2>4 DEF Event, Kind
  <2>6. job' = [job EXCEPT ![p].at = "record", ![p].event = e]
    BY ZenonT(30), <1>1, <2>1, <2>2, <2>4 DEF Job
  <2>7. Moves(p, "record", e)
    BY <1>1, <2>5, <2>6, MovesEvent DEF At
  <2>8. QED BY <1>3, <2>2, <2>5, <2>7
<1>4. CASE ~ suppressed
  <2>1. job' = [job EXCEPT ![p].at = "send"]
    BY <1>4 DEF Decide
  <2>2. QED BY <1>1, <1>4, <2>1, MovesAt DEF At
<1>5. QED
  BY <1>3, <1>4

\* A decision that could not read the history changes the event in nothing else.
LEMMA DecideBlindlyEffect ==
  ASSUME TInv, NEW p \in Evaluators, DecideBlindly(p)
  PROVE  \E e \in Event : /\ Moves(p, "send", e) /\ e.rule = job[p].event.rule
                          /\ e.forced = job[p].event.forced /\ e.scan = job[p].event.scan
                          /\ e.at = job[p].event.at /\ e.kind = job[p].event.kind
                          /\ e.cooldown = job[p].event.cooldown
                          /\ e.triggered = job[p].event.triggered /\ e.blind
<1>1. /\ job[p].at = "decide" /\ job \in [Procs -> Job] /\ p \in Procs
      /\ job' = [job EXCEPT ![p].at = "send", ![p].event.blind = TRUE]
  BY DEF TInv, JobsSane, Procs, DecideBlindly
<1>2. job[p].event \in Event
  BY <1>1, DraftedEvent DEF Drafted, Kind
<1>3. PICK e : e = [job[p].event EXCEPT !.blind = TRUE]
  OBVIOUS
<1>4. /\ e \in Event /\ e.rule = job[p].event.rule /\ e.forced = job[p].event.forced
      /\ e.scan = job[p].event.scan /\ e.at = job[p].event.at /\ e.kind = job[p].event.kind
      /\ e.cooldown = job[p].event.cooldown /\ e.blind
      /\ e.triggered = job[p].event.triggered
  BY <1>2, <1>3 DEF Event
<1>5. job' = [job EXCEPT ![p].at = "send", ![p].event = e]
  BY <1>1, <1>3 DEF Job
<1>6. Moves(p, "send", e)
  BY <1>1, <1>4, <1>5, MovesEvent DEF At
<1>7. QED
  BY <1>4, <1>6

\* The event that is to be recorded says how Slack answered.
LEMMA SendEffect ==
  ASSUME TInv, NEW p \in Evaluators, Send(p)
  PROVE  \E kind \in {"ok", "failed"} :
           LET sent == [job[p].event EXCEPT !.kind = kind] IN
             /\ Moves(p, "record", sent) /\ sent \in Event
             /\ posts' = IF kind = "ok" THEN posts \cup {sent} ELSE posts
<1>1. job[p].at = "send" /\ job \in [Procs -> Job] /\ p \in Procs
  BY DEF TInv, JobsSane, Procs, Send
<1>2. PICK kind \in {"ok", "failed"} :
        LET sent == [job[p].event EXCEPT !.kind = kind]
        IN  /\ job' = [job EXCEPT ![p].at = "record", ![p].event = sent]
            /\ posts' = IF kind = "ok" THEN posts \cup {sent} ELSE posts
  BY DEF Send
<1>3. PICK sent : sent = [job[p].event EXCEPT !.kind = kind]
  OBVIOUS
<1>4. sent \in Event
  <2>1. kind \in Kind
    BY DEF Kind
  <2>2. QED BY <1>1, <1>3, <2>1, DraftedEvent DEF Drafted
<1>5. /\ job' = [job EXCEPT ![p].at = "record", ![p].event = sent]
      /\ posts' = IF kind = "ok" THEN posts \cup {sent} ELSE posts
  BY <1>2, <1>3
<1>6. Moves(p, "record", sent)
  BY <1>1, <1>4, <1>5, MovesEvent DEF At
<1>7. QED
  BY <1>3, <1>4, <1>5, <1>6

\* What recording the event does to the job.
LEMMA RecordEffect ==
  ASSUME TInv, NEW p \in Evaluators, Record(p)
  PROVE  \/ /\ job[p].event.kind \in {"ok", "failed"}
            /\ Moves(p, "patch", job[p].event)
         \/ /\ job[p].event.kind \notin {"ok", "failed"}
            /\ Becomes(p, NextJob(p))
<1>1. /\ job[p].at = "record" /\ job \in [Procs -> Job] /\ p \in Procs /\ Busy(p)
  BY DEF TInv, JobsSane, Procs, Record, Busy
<1>2. CASE job[p].event.kind \in {"ok", "failed"}
  <2>1. job' = [job EXCEPT ![p].at = "patch"]
    BY <1>2 DEF Record
  <2>2. QED BY <1>1, <1>2, <2>1, MovesAt DEF At
<1>3. CASE job[p].event.kind \notin {"ok", "failed"}
  BY <1>1, <1>3, FinishEffect DEF Record
<1>4. QED
  BY <1>2, <1>3

\* What RecordEvent does to the history and to the count of answers.
LEMMA RecordEventType ==
  ASSUME TInv, NEW p \in Evaluators, NEW e \in Event, RecordEvent(p, e)
  PROVE  /\ events' \in Seq(Event) /\ Len(events') <= MaxEvents
         /\ answers' \in [Scans -> [RuleIds -> Nat]]
         /\ \A s \in Scans, r \in RuleIds :
               answers'[s][r] = IF p = Scanner /\ s = e.scan /\ r = e.rule
                                THEN answers[s][r] + 1 ELSE answers[s][r]
<1>1. events' \in Seq(Event) /\ Len(events') <= MaxEvents
  <2>1. Len(events) \in Nat
    BY LenProperties DEF TInv, StateTyped
  <2>2. QED BY <2>1, PrependType DEF TInv, StateTyped, RecordEvent
<1>2. e.scan \in Scans /\ e.rule \in RuleIds /\ answers \in [Scans -> [RuleIds -> Nat]]
  BY DEF Event, TInv, StateTyped
<1>3. PICK row : row = [answers[e.scan] EXCEPT ![e.rule] = @ + 1]
  OBVIOUS
<1>4. /\ row \in [RuleIds -> Nat]
      /\ \A r \in RuleIds : row[r] = IF r = e.rule THEN answers[e.scan][r] + 1
                                                   ELSE answers[e.scan][r]
  BY <1>2, <1>3
<1>5. answers' = IF p = Scanner THEN [answers EXCEPT ![e.scan] = row] ELSE answers
  BY <1>3 DEF RecordEvent, Forced
<1>6. QED
  BY <1>1, <1>2, <1>4, <1>5

-----------------------------------------------------------------------------
(* Type correctness.                                                       *)

\* An event in a job that goes on keeps what Sane says of it.
LEMMA MovesDrafted ==
  ASSUME TInv, NEW p \in Evaluators, job[p].at \in Drafted, NEW at \in Drafted,
         NEW e \in Event, e.rule = job[p].event.rule, e.forced = job[p].event.forced,
         e.scan = job[p].event.scan, Moves(p, at, e),
         at = "patch" => e.kind \in {"ok", "failed"},
         Len(rules') = Len(rules), scan' = scan
  PROVE  JobsSane'
<1>1. /\ Busy(p) /\ p \in Procs
      /\ job[p].event.rule = job[p].rule /\ job[p].event.forced = Forced(p)
      /\ p = Scanner => job[p].event.scan = scan
  BY DraftedEvent DEF Procs, Kind
<1>2. at \in At \ {"idle", "set"} /\ p \notin Togglers
  BY DEF Drafted, At, Evaluators
<1>3. QED
  BY <1>1, <1>2, MovesSane

\* A process that is done, or is given the next rule of its listing.
LEMMA NextJobSane ==
  ASSUME TInv, NEW p \in Evaluators, Busy(p),
         Becomes(p, NextJob(p)) \/ Becomes(p, Idle),
         Len(rules') = Len(rules), scan' = scan
  PROVE  JobsSane'
<1>1. /\ p \in Procs /\ job[p] \in Job /\ Sane(p) /\ job[p] # Idle
      /\ job[p].listed \in Seq(StoredRule) /\ job[p].rule \in Nat
      /\ Len(rules) \in Nat /\ scan \in Nat /\ Len(job[p].listed) \in Nat
  BY BusyJob, LenProperties DEF Procs, TInv, JobsSane, StateTyped
<1>2. ASSUME Becomes(p, Idle) PROVE JobsSane'
  <2>1. Sane(p)'
    BY <1>2 DEF Becomes, Sane
  <2>2. QED BY <1>1, <1>2, <2>1, BecomesSane
<1>3. ASSUME Becomes(p, NextJob(p)), NextJob(p) # Idle PROVE JobsSane'
  <2>1. p = Scanner
    BY <1>3 DEF NextJob, Forced
  <2>2. PICK q \in (job[p].rule + 1)..Len(job[p].listed) :
          NextJob(p) = Start(job[p].listed, q)
    BY <1>1, <1>3, <2>1, FollowingType DEF NextJob, Forced
  <2>3. q \in 1..Len(job[p].listed) /\ Len(job[p].listed) <= Len(rules)
    BY <1>1, <2>2 DEF Sane
  <2>4. /\ job'[p].at = "evaluate" /\ job'[p].rule = q
        /\ job'[p].copy = job[p].listed[q] /\ job'[p].listed = job[p].listed
    BY <1>1, <1>3, <2>2, <2>3, StartType DEF Becomes
  <2>5. q \in 1..Len(rules) /\ scan > 0
    BY <1>1, <2>3 DEF Sane
  <2>6. Sane(p)'
    BY <1>1, <2>1, <2>3, <2>4, <2>5 DEF Sane, Drafted
  <2>7. QED BY <1>1, <1>3, <2>6, BecomesSane
<1>4. QED
  BY <1>2, <1>3

\* Every step of an evaluation is typed.
LEMMA EvaluateRuleType ==
  ASSUME TInv, NEW p \in Evaluators, evaluateRule(p), UNCHANGED limit
  PROVE  TInv'
<1> USE DEF store, ghosts, edited
<1>p. p \in Procs /\ p \notin Togglers
  BY DEF Procs, Evaluators
<1>s. StateTyped
  BY DEF TInv
<1>f. ASSUME Fault
      PROVE  spent' \in [edits : 0..limit.edits, tests : 0..limit.tests,
                         faults : 0..limit.faults, crashes : 0..limit.crashes]
  BY <1>s, <1>f, SpendType DEF Fault
<1>e. ASSUME ReturnError(p), Busy(p), UNCHANGED <<rules, scan>> PROVE JobsSane'
  <2>1. CASE p # Scanner /\ Becomes(p, Idle)
    BY <1>e, <2>1, NextJobSane
  <2>2. CASE p = Scanner /\ Moves(p, "fail", job[p].event)
    <3>1. job[p].event \in Event \cup {None} /\ "fail" \in At \ {"idle", "set"}
      BY <1>p, <1>e, BusyJob DEF At
    <3>2. QED
      BY <1>p, <1>e, <2>2, <3>1, MovesSane DEF Drafted
  <2>3. QED BY <1>e, <2>1, <2>2, ReturnErrorEffect
<1>1. CASE EvaluateFails(p)
  <2>1. Busy(p) /\ JobsSane'
    BY <1>1, <1>e DEF EvaluateFails, Busy
  <2>2. QED BY <1>1, <1>s, <1>f, <2>1 DEF EvaluateFails, TInv, StateTyped
<1>2. CASE Evaluate(p)
  <2>1. Busy(p)
    BY <1>2 DEF Evaluate, Busy
  <2>2. PICK triggered \in BOOLEAN : Moves(p, "route", draftEvent(p, triggered))
    BY <1>2, EvaluateEffect
  <2>3. /\ rules' \in Seq(StoredRule) /\ Len(rules') = Len(rules)
        /\ spent' \in [edits : 0..limit.edits, tests : 0..limit.tests,
                       faults : 0..limit.faults, crashes : 0..limit.crashes]
    BY <1>2, <1>s, <1>p, <2>1, BusyJob, UpsertType DEF Evaluate
  <2>4. JobsSane'
    <3>1. PICK e : e = draftEvent(p, triggered)
      OBVIOUS
    <3>2. /\ e \in Event /\ e.rule = job[p].rule /\ e.forced = Forced(p) /\ e.scan = scan
      BY <2>1, <3>1, DraftType
    <3>3. "route" \in At \ {"idle", "set"} /\ scan' = scan
      BY <1>2 DEF At, Evaluate
    <3>4. QED BY <1>p, <2>1, <2>2, <2>3, <3>1, <3>2, <3>3, MovesSane
  <2>5. QED BY <1>2, <1>s, <2>3, <2>4 DEF Evaluate, TInv, StateTyped
<1>3. CASE Route(p)
  <2>1. job[p].at \in Drafted /\ UNCHANGED <<rules, scan>>
    BY <1>3 DEF Route, Drafted
  <2>2. job[p].event \in Event /\ job[p].event.kind \in Kind
    BY <1>p, <2>1, DraftedEvent DEF Kind, Event
  <2>3. JobsSane'
    <3>1. ASSUME NEW kind \in {job[p].event.kind, "unroutable"},
                 Moves(p, "record", [job[p].event EXCEPT !.kind = kind])
          PROVE  JobsSane'
      <4>1. PICK e : e = [job[p].event EXCEPT !.kind = kind]
        OBVIOUS
      <4>2. /\ e \in Event /\ e.rule = job[p].event.rule /\ e.forced = job[p].event.forced
            /\ e.scan = job[p].event.scan
        BY <2>2, <4>1 DEF Event, Kind
      <4>3. QED BY <2>1, <3>1, <4>1, <4>2, MovesDrafted DEF Drafted
    <3>2. ASSUME NEW at \in {"decide", "send"}, Moves(p, at, job[p].event)
          PROVE  JobsSane'
      BY <2>1, <2>2, <3>2, MovesDrafted DEF Drafted
    <3>3. QED BY <1>3, <3>1, <3>2, RouteEffect
  <2>4. spent' \in [edits : 0..limit.edits, tests : 0..limit.tests,
                    faults : 0..limit.faults, crashes : 0..limit.crashes]
    BY <1>3, <1>s, <1>f DEF Route, StateTyped
  <2>5. QED BY <1>3, <1>s, <2>3, <2>4 DEF Route, TInv, StateTyped
<1>4. CASE Decide(p)
  <2>1. job[p].at \in Drafted /\ UNCHANGED <<rules, scan>>
    BY <1>4 DEF Decide, Drafted
  <2>2. job[p].event \in Event
    BY <1>p, <2>1, DraftedEvent DEF Kind
  <2>3. PICK at \in {"record", "send"}, e \in Event :
          /\ Moves(p, at, e) /\ e.rule = job[p].event.rule /\ e.forced = job[p].event.forced
          /\ e.scan = job[p].event.scan
    BY <1>4, <2>2, DecideEffect
  <2>4. JobsSane'
    BY <2>1, <2>3, MovesDrafted DEF Drafted
  <2>5. QED BY <1>4, <1>s, <2>4 DEF Decide, TInv, StateTyped
<1>5. CASE DecideBlindly(p)
  <2>1. job[p].at \in Drafted /\ UNCHANGED <<rules, scan>> /\ "send" \in Drafted
    BY <1>5 DEF DecideBlindly, Drafted
  <2>2. JobsSane'
    BY <1>5, <2>1, DecideBlindlyEffect, MovesDrafted
  <2>3. QED BY <1>5, <1>s, <1>f, <2>2 DEF DecideBlindly, TInv, StateTyped
<1>6. CASE Send(p)
  <2>1. job[p].at \in Drafted /\ UNCHANGED <<rules, scan>> /\ "record" \in Drafted
    BY <1>6 DEF Send, Drafted
  <2>2. PICK kind \in {"ok", "failed"}, sent \in Event :
          /\ sent = [job[p].event EXCEPT !.kind = kind] /\ Moves(p, "record", sent)
          /\ posts' = IF kind = "ok" THEN posts \cup {sent} ELSE posts
    BY <1>6, SendEffect
  <2>3. /\ sent.rule = job[p].event.rule /\ sent.forced = job[p].event.forced
        /\ sent.scan = job[p].event.scan
    <3>1. kind \in Kind
      BY DEF Kind
    <3>2. QED BY <1>p, <2>1, <2>2, <3>1, DraftedEvent
  <2>4. JobsSane'
    BY <2>1, <2>2, <2>3, MovesDrafted
  <2>5. QED BY <1>6, <1>s, <2>2, <2>4 DEF Send, TInv, StateTyped
<1>7. CASE Record(p)
  <2>1. job[p].at \in Drafted /\ UNCHANGED <<rules, scan>> /\ "patch" \in Drafted
    BY <1>7 DEF Record, Drafted
  <2>2. Busy(p) /\ job[p].event \in Event
    BY <1>p, <2>1, DraftedEvent DEF Kind
  <2>3. JobsSane'
    <3>1. CASE /\ job[p].event.kind \in {"ok", "failed"}
               /\ Moves(p, "patch", job[p].event)
      BY <2>1, <2>2, <3>1, MovesDrafted
    <3>2. CASE Becomes(p, NextJob(p))
      BY <2>1, <2>2, <3>2, NextJobSane
    <3>3. QED BY <1>7, <3>1, <3>2, RecordEffect
  <2>4. QED BY <1>7, <1>s, <2>2, <2>3, RecordEventType DEF Record, TInv, StateTyped
<1>8. CASE RecordFails(p)
  <2>1. Busy(p) /\ JobsSane'
    BY <1>8, <1>e DEF RecordFails, Busy
  <2>2. QED BY <1>8, <1>s, <1>f, <2>1 DEF RecordFails, TInv, StateTyped
<1>9. CASE RecordFailure(p)
  <2>1. Busy(p) /\ UNCHANGED <<rules, scan>>
    BY <1>9 DEF RecordFailure, Busy
  <2>2. JobsSane'
    BY <1>9, <2>1, FinishEffect, NextJobSane DEF RecordFailure
  <2>3. [draftEvent(p, FALSE) EXCEPT !.kind = "error"] \in Event
    BY <2>1, DraftType
  <2>4. /\ events' \in Seq(Event) /\ Len(events') <= MaxEvents
        /\ answers' \in [Scans -> [RuleIds -> Nat]]
        /\ spent' \in [edits : 0..limit.edits, tests : 0..limit.tests,
                       faults : 0..limit.faults, crashes : 0..limit.crashes]
    BY <1>9, <1>s, <1>f, <2>3, RecordEventType DEF RecordFailure, StateTyped
  <2>5. QED BY <1>9, <1>s, <2>2, <2>4 DEF RecordFailure, TInv, StateTyped
<1>10. CASE patchRuleDelivery(p)
  <2>1. Busy(p) /\ scan' = scan /\ job[p].at \in Drafted
    BY <1>10 DEF patchRuleDelivery, Busy, Drafted
  <2>2. PICK value : value = [job[p].copy EXCEPT !.delivery = job[p].event.kind]
    OBVIOUS
  <2>3. value \in StoredRule
    <3>1. job[p].copy \in StoredRule
      BY <1>p, <2>1, BusyJob
    <3>2. job[p].event.kind \in {"ok", "failed"}
      BY <1>10, <1>p, <2>1, BusyJob DEF patchRuleDelivery, TInv, JobsSane, Sane
    <3>3. QED BY <2>2, <3>1, <3>2 DEF StoredRule
  <2>4. /\ rules' \in Seq(StoredRule) /\ Len(rules') = Len(rules)
        /\ spent' \in [edits : 0..limit.edits, tests : 0..limit.tests,
                       faults : 0..limit.faults, crashes : 0..limit.crashes]
    BY <1>10, <1>s, <1>p, <2>1, <2>2, <2>3, BusyJob, UpsertType DEF patchRuleDelivery
  <2>5. JobsSane'
    BY <1>10, <2>1, <2>4, FinishEffect, NextJobSane DEF patchRuleDelivery
  <2>6. QED BY <1>10, <1>s, <2>4, <2>5 DEF patchRuleDelivery, TInv, StateTyped
<1>11. QED
  BY <1>1, <1>2, <1>3, <1>4, <1>5, <1>6, <1>7, <1>8, <1>9, <1>10 DEF evaluateRule

\* A request, of either kind, takes up a stored rule.
LEMMA TakesUpSane ==
  ASSUME TInv, NEW p \in Procs \ {Scanner}, ~ Busy(p), NEW r \in 1..Len(rules),
         NEW copy \in StoredRule, NEW at \in {"evaluate", "set"},
         p \in Togglers <=> at = "set", at = "evaluate" => scan > 0,
         job' = [job EXCEPT ![p] = [at |-> at, rule |-> r, copy |-> copy, event |-> None,
                                    listed |-> << >>]],
         UNCHANGED <<rules, scan>>
  PROVE  JobsSane'
<1> DEFINE j == [at |-> at, rule |-> r, copy |-> copy, event |-> None, listed |-> << >>]
<1>1. /\ job \in [Procs -> Job] /\ rules \in Seq(StoredRule) /\ Len(rules) \in Nat
      /\ scan \in Nat
  BY LenProperties DEF TInv, JobsSane, StateTyped
<1>2. j \in Job
  BY <1>1 DEF Job, At
<1>3. Becomes(p, j)
  BY <1>1, <1>2, BecomesOne
<1>4. Sane(p)'
  <2>1. job'[p] = j
    BY <1>3 DEF Becomes
  <2>2. Len(job'[p].listed) = 0
    BY <2>1
  <2>3. p \in Evaluators => at = "evaluate"
    BY ProcsAssumption DEF Evaluators
  <2>4. QED
    BY <1>1, <2>1, <2>2, <2>3 DEF Sane, Drafted
<1> HIDE DEF j
<1>5. QED
  BY <1>1, <1>3, <1>4, BecomesSane

\* What starts an evaluation is typed.
LEMMA StartsType ==
  ASSUME TInv, EvaluateEnabledRulesForScan \/ ListRulesFails, UNCHANGED limit
  PROVE  TInv'
<1> USE DEF store, ghosts, edited
<1>s. /\ StateTyped /\ job \in [Procs -> Job] /\ Scanner \in Procs
      /\ rules \in Seq(StoredRule) /\ Len(rules) \in Nat /\ Len(rules) <= NumRules
      /\ scan \in 0..MaxScans /\ limit \in Limit
  BY LenProperties DEF TInv, JobsSane, StateTyped, Procs, Evaluators
<1>1. CASE EvaluateEnabledRulesForScan
  <2> DEFINE j == Following(rules, 1)
  <2>1. scan + 1 \in Scans /\ scan + 1 \in 0..MaxScans
    BY <1>s, <1>1 DEF EvaluateEnabledRulesForScan, Limit, Scans
  <2>2. \/ j = Idle
        \/ \E q \in 1..Len(rules) : j = Start(rules, q)
    BY <1>s, FollowingType
  <2>3. j \in Job
    BY <1>s, <2>2, StartType, NullType
  <2>4. Becomes(Scanner, j)
    BY <1>s, <1>1, <2>3, BecomesOne DEF EvaluateEnabledRulesForScan
  <2> HIDE DEF j
  <2>5. Sane(Scanner)'
    <3>1. CASE j = Idle
      BY <2>4, <3>1 DEF Becomes, Sane
    <3>2. ASSUME NEW q \in 1..Len(rules), j = Start(rules, q) PROVE Sane(Scanner)'
      <4>1. /\ job'[Scanner].at = "evaluate" /\ job'[Scanner].rule = q
            /\ job'[Scanner].copy = rules[q] /\ job'[Scanner].listed = rules
        BY <1>s, <2>4, <3>2, StartType DEF Becomes
      <4>2. rules' = rules /\ scan' = scan + 1
        BY <1>1 DEF EvaluateEnabledRulesForScan
      <4>3. Scanner \notin Togglers
        OBVIOUS
      <4>4. QED BY <1>s, <4>1, <4>2, <4>3 DEF Sane, Drafted
    <3>3. QED BY <2>2, <3>1, <3>2
  <2>6. JobsSane'
    BY <1>s, <1>1, <2>4, <2>5, BecomesSane DEF EvaluateEnabledRulesForScan
  <2>7. due' \in [Scans -> SUBSET RuleIds]
    BY <1>s, <1>1, <2>1 DEF EvaluateEnabledRulesForScan, StateTyped, RuleIds
  <2>8. QED
    BY <1>s, <1>1, <2>1, <2>6, <2>7 DEF EvaluateEnabledRulesForScan, TInv, StateTyped
<1>2. CASE ListRulesFails
  <2>1. scan + 1 \in Scans /\ scan + 1 \in 0..MaxScans /\ scan' = scan + 1 /\ job' = job
    BY <1>s, <1>2 DEF ListRulesFails, Limit, Scans
  <2>2. JobsSane'
    <3>1. ASSUME NEW q \in Procs PROVE Sane(q)'
      <4>1. Sane(q) /\ (q = Scanner => job[q] = Idle)
        <5>1. Sane(q) /\ job[q] \in Job
          BY DEF TInv, JobsSane
        <5>2. QED BY <1>2, <5>1 DEF ListRulesFails, Busy, Sane
      <4>2. rules' = rules
        BY <1>2 DEF ListRulesFails
      <4>3. QED BY <1>s, <2>1, <4>1, <4>2 DEF Sane
    <3>2. QED BY <1>s, <2>1, <3>1 DEF JobsSane
  <2>3. spent' \in [edits : 0..limit.edits, tests : 0..limit.tests,
                    faults : 0..limit.faults, crashes : 0..limit.crashes]
    BY <1>s, <1>2, SpendType DEF ListRulesFails, Fault
  <2>4. QED BY <1>s, <1>2, <2>1, <2>2, <2>3 DEF ListRulesFails, TInv, StateTyped
<1>3. QED
  BY <1>1, <1>2

\* A test request keeps the types.
LEMMA TestRuleType ==
  ASSUME TInv, NEW p \in Testers, NEW r \in RuleIds, TestRule(p, r), UNCHANGED limit
  PROVE  TInv'
<1> USE DEF store, ghosts, edited
<1>1. /\ StateTyped /\ p \in Procs \ {Scanner} /\ p \notin Togglers
      /\ rules \in Seq(StoredRule) /\ r \in 1..Len(rules)
  BY LenProperties DEF TInv, StateTyped, Procs, Evaluators, TestRule, RuleIds
<1>2. /\ rules[r] \in StoredRule /\ ~ Busy(p) /\ scan > 0
      /\ job' = [job EXCEPT ![p] = [at |-> "evaluate", rule |-> r, copy |-> rules[r],
                                    event |-> None, listed |-> << >>]]
      /\ UNCHANGED <<rules, scan>>
  <2>1. [Start(rules, r) EXCEPT !.listed = << >>]
          = [at |-> "evaluate", rule |-> r, copy |-> rules[r], event |-> None, listed |-> << >>]
    BY DEF Start
  <2>2. /\ job' = [job EXCEPT ![p] = [Start(rules, r) EXCEPT !.listed = << >>]]
        /\ ~ Busy(p) /\ scan > 0 /\ UNCHANGED <<rules, scan>>
    BY DEF TestRule
  <2>3. rules[r] \in StoredRule
    BY <1>1, ElementOfSeq
  <2>4. QED BY <2>1, <2>2, <2>3
<1>3. JobsSane'
  <2>1. PICK copy, at : copy = rules[r] /\ at = "evaluate"
    OBVIOUS
  <2>2. QED BY <1>1, <1>2, <2>1, TakesUpSane
<1>4. spent' \in [edits : 0..limit.edits, tests : 0..limit.tests,
                  faults : 0..limit.faults, crashes : 0..limit.crashes]
  BY <1>1, SpendType DEF TestRule
<1>5. QED
  BY <1>1, <1>3, <1>4 DEF TestRule, TInv, StateTyped

\* What operators do is typed.
LEMMA OperatorsType ==
  ASSUME TInv, Operators, UNCHANGED limit
  PROVE  TInv'
<1> USE DEF store, ghosts, edited
<1>s. /\ StateTyped /\ job \in [Procs -> Job] /\ limit \in Limit
      /\ rules \in Seq(StoredRule) /\ Len(rules) \in Nat /\ Len(rules) <= NumRules
      /\ intent \in [RuleIds -> Config] /\ raced \subseteq RuleIds /\ scan \in Nat
  BY LenProperties DEF TInv, JobsSane, StateTyped
<1>n. ASSUME NEW r \in RuleIds, NEW config \in Config, NEW others, Note(r, config, others)
      PROVE  intent' \in [RuleIds -> Config] /\ raced' \subseteq RuleIds
  BY <1>s, <1>n DEF Note
\* The jobs do not see a rule that is added or rewritten.
<1>j. ASSUME UNCHANGED <<job, scan>>, Len(rules') \in Nat, Len(rules') >= Len(rules)
      PROVE  JobsSane'
  <2>1. ASSUME NEW q \in Procs PROVE Sane(q)'
    <3>1. Sane(q) /\ job[q] \in Job /\ Len(job[q].listed) \in Nat
      BY LenProperties DEF TInv, JobsSane, Job
    <3>2. QED BY <1>s, <1>j, <3>1 DEF Sane
  <2>2. QED BY <1>s, <1>j, <2>1 DEF JobsSane
<1>1. ASSUME NEW config \in limit.configs, CreateRule(config) PROVE TInv'
  <2>1. config \in Config
    BY <1>s DEF Limit
  <2>2. [config |-> config, delivery |-> "never"] \in StoredRule
    BY <2>1 DEF StoredRule
  <2>3. limit.rules \in 0..NumRules /\ Len(rules) < limit.rules
    BY <1>s, <1>1 DEF CreateRule, Limit
  <2>4. /\ rules' \in Seq(StoredRule) /\ Len(rules') = Len(rules) + 1
        /\ Len(rules') <= NumRules /\ Len(rules) + 1 \in RuleIds
    BY <1>s, <1>1, <2>2, <2>3, AppendProperties DEF CreateRule, RuleIds
  <2>5. intent' \in [RuleIds -> Config] /\ raced' \subseteq RuleIds
    BY <1>1, <1>n, <2>1, <2>4 DEF CreateRule
  <2>6. JobsSane'
    BY <1>s, <1>1, <1>j, <2>4 DEF CreateRule
  <2>7. QED BY <1>s, <1>1, <2>4, <2>5, <2>6 DEF CreateRule, TInv, StateTyped
<1>2. ASSUME NEW config \in limit.configs, NEW r \in RuleIds, UpdateRule(r, config)
      PROVE  TInv'
  <2>1. config \in Config /\ r \in 1..Len(rules)
    BY <1>s, <1>2 DEF Limit, UpdateRule, RuleIds
  <2>2. rules[r] \in StoredRule
    BY <1>s, <2>1, ElementOfSeq
  <2>3. PICK delivery \in {"never", "ok", "failed"} :
          rules' = [rules EXCEPT ![r] = [config |-> config, delivery |-> delivery]]
    BY <1>2, <2>2 DEF UpdateRule, StoredRule
  <2>4. [config |-> config, delivery |-> delivery] \in StoredRule
    BY <2>1 DEF StoredRule
  <2>5. rules' \in Seq(StoredRule) /\ Len(rules') = Len(rules)
    BY <1>s, <2>1, <2>3, <2>4, ExceptSeq
  <2>6. intent' \in [RuleIds -> Config] /\ raced' \subseteq RuleIds
    BY <1>2, <1>n, <2>1 DEF UpdateRule
  <2>7. JobsSane'
    BY <1>s, <1>2, <1>j, <2>5 DEF UpdateRule
  <2>8. spent' \in [edits : 0..limit.edits, tests : 0..limit.tests,
                    faults : 0..limit.faults, crashes : 0..limit.crashes]
    BY <1>s, <1>2, SpendType DEF UpdateRule
  <2>9. QED BY <1>s, <1>2, <2>5, <2>6, <2>7, <2>8 DEF UpdateRule, TInv, StateTyped
<1>3. ASSUME NEW t \in Togglers, NEW r \in RuleIds, NEW enabled \in BOOLEAN,
             GetRule(t, r, enabled)
      PROVE  TInv'
  <2>1. t \in Procs \ {Scanner} /\ r \in 1..Len(rules)
    BY <1>s, <1>3 DEF GetRule, RuleIds, Procs
  <2>2. rules[r] \in StoredRule
    BY <1>s, <2>1, ElementOfSeq
  <2>3. PICK copy : copy = [rules[r] EXCEPT !.config = [@ EXCEPT !.enabled = enabled]]
    OBVIOUS
  <2>4. copy \in StoredRule
    BY <2>2, <2>3 DEF StoredRule, Config
  <2>5. [Start(rules, r) EXCEPT !.at = "set", !.listed = << >>, !.copy.config.enabled = enabled]
          = [at |-> "set", rule |-> r, copy |-> copy, event |-> None, listed |-> << >>]
    <3>1. Start(rules, r).copy = rules[r]
      BY DEF Start
    <3>2. [Start(rules, r) EXCEPT !.at = "set", !.listed = << >>, !.copy.config.enabled = enabled]
            = [Start(rules, r) EXCEPT !.at = "set", !.listed = << >>, !.copy = copy]
      BY <2>3, <3>1
    <3>3. [Start(rules, r) EXCEPT !.at = "set", !.listed = << >>, !.copy = copy]
            = [at |-> "set", rule |-> r, copy |-> copy, event |-> None, listed |-> << >>]
      <4>1. PICK j : j = [Start(rules, r) EXCEPT !.at = "set", !.listed = << >>, !.copy = copy]
        OBVIOUS
      <4>2. j = [at |-> "set", rule |-> r, copy |-> copy, event |-> None, listed |-> << >>]
        BY <4>1 DEF Start
      <4>3. QED BY <4>1, <4>2
    <3>4. QED BY <3>2, <3>3
  <2>6. JobsSane'
    <3>1. PICK at : at = "set"
      OBVIOUS
    <3>2. /\ job' = [job EXCEPT ![t] = [at |-> at, rule |-> r, copy |-> copy, event |-> None,
                                        listed |-> << >>]]
          /\ ~ Busy(t) /\ UNCHANGED <<rules, scan>>
      BY <1>3, <2>5, <3>1 DEF GetRule
    <3>3. QED BY <2>1, <2>4, <3>1, <3>2, TakesUpSane
  <2>7. spent' \in [edits : 0..limit.edits, tests : 0..limit.tests,
                    faults : 0..limit.faults, crashes : 0..limit.crashes]
    BY <1>s, <1>3, SpendType DEF GetRule
  <2>8. QED BY <1>s, <1>3, <2>6, <2>7 DEF GetRule, TInv, StateTyped
<1>4. ASSUME NEW t \in Togglers, SetRuleEnabled(t) PROVE TInv'
  <2>1. t \in Procs /\ Busy(t)
    BY <1>4 DEF SetRuleEnabled, Busy, Procs
  <2>2. /\ job[t].rule \in 1..Len(rules) /\ job[t].rule \in RuleIds
        /\ job[t].copy \in StoredRule
    BY <2>1, BusyJob
  <2>3. Becomes(t, Idle)
    BY <1>s, <1>4, <2>1, BecomesOne, NullType DEF SetRuleEnabled
  <2>4. Sane(t)'
    BY <2>3 DEF Becomes, Sane
  <2>5. CASE /\ rules' = [rules EXCEPT ![job[t].rule] = job[t].copy]
             /\ Note(job[t].rule, [intent[job[t].rule] EXCEPT !.enabled = job[t].copy.config.enabled],
                     Procs \ {t})
             /\ UNCHANGED spent
    <3>1. rules' \in Seq(StoredRule) /\ Len(rules') = Len(rules)
      BY <1>s, <2>2, <2>5, ExceptSeq
    <3>2. [intent[job[t].rule] EXCEPT !.enabled = job[t].copy.config.enabled] \in Config
      BY <1>s, <2>2 DEF StoredRule, Config
    <3>3. intent' \in [RuleIds -> Config] /\ raced' \subseteq RuleIds
      BY <1>n, <2>2, <2>5, <3>2
    <3>4. JobsSane'
      BY <1>s, <1>4, <2>1, <2>3, <2>4, <3>1, BecomesSane DEF SetRuleEnabled
    <3>5. QED BY <1>s, <1>4, <2>5, <3>1, <3>3, <3>4 DEF SetRuleEnabled, TInv, StateTyped
  <2>6. CASE Fault /\ UNCHANGED <<rules, edited>>
    <3>1. JobsSane'
      BY <1>s, <1>4, <2>1, <2>3, <2>4, <2>6, BecomesSane DEF SetRuleEnabled
    <3>2. spent' \in [edits : 0..limit.edits, tests : 0..limit.tests,
                      faults : 0..limit.faults, crashes : 0..limit.crashes]
      BY <1>s, <2>6, SpendType DEF Fault
    <3>3. QED BY <1>s, <1>4, <2>6, <3>1, <3>2 DEF SetRuleEnabled, TInv, StateTyped
  <2>7. QED BY <1>4, <2>5, <2>6 DEF SetRuleEnabled
<1>5. ASSUME SaveRoutingCatalog PROVE TInv'
  <2>1. JobsSane'
    BY <1>s, <1>5, <1>j DEF SaveRoutingCatalog
  <2>2. spent' \in [edits : 0..limit.edits, tests : 0..limit.tests,
                    faults : 0..limit.faults, crashes : 0..limit.crashes]
    BY <1>s, <1>5, SpendType DEF SaveRoutingCatalog
  <2>3. QED BY <1>s, <1>5, <2>1, <2>2 DEF SaveRoutingCatalog, TInv, StateTyped
<1>6. QED
  BY <1>1, <1>2, <1>3, <1>4, <1>5 DEF Operators

\* Every step is typed.
LEMMA NextType ==
  TInv /\ [Next]_vars => TInv'
<1> SUFFICES ASSUME TInv, [Next]_vars PROVE TInv'
  OBVIOUS
<1> USE DEF store, ghosts, edited
<1>s. StateTyped /\ job \in [Procs -> Job] /\ limit \in Limit /\ scan \in Nat
  BY DEF TInv, JobsSane, StateTyped
\* A step that leaves the jobs, the rules and the scan alone.
<1>j. ASSUME UNCHANGED <<job, rules, scan>> PROVE JobsSane'
  BY <1>j DEF TInv, JobsSane, Sane
<1>1. CASE UNCHANGED vars
  BY <1>1, <1>s, <1>j DEF vars, TInv, StateTyped
<1>2. CASE Next
  <2>1. UNCHANGED limit
    BY <1>2 DEF Next
  <2>2. CASE EvaluateEnabledRulesForScan \/ ListRulesFails
    BY <2>1, <2>2, StartsType
  <2>3. CASE \E p \in Testers, r \in RuleIds : TestRule(p, r)
    BY <2>1, <2>3, TestRuleType
  <2>4. CASE \E p \in Evaluators : evaluateRule(p)
    BY <2>1, <2>4, EvaluateRuleType
  <2>5. CASE Operators
    BY <2>1, <2>5, OperatorsType
  <2>6. CASE Tick
    <3>1. clock' \in Minutes
      BY SMTT(30), <1>s, <2>6 DEF Tick, StateTyped, Minutes, Limit
    <3>2. JobsSane'
      BY <1>j, <2>6 DEF Tick
    <3>3. QED BY <1>s, <2>1, <2>6, <3>1, <3>2 DEF Tick, TInv, StateTyped
  <2>7. CASE Crash
    <3>1. job' \in [Procs -> Job] /\ \A p \in Procs : job'[p] = Idle
      BY <2>7, NullType DEF Crash
    <3>2. JobsSane'
      BY <3>1 DEF JobsSane, Sane
    <3>3. cut' \subseteq Scans
      <4>1. Busy(Scanner) => scan \in Scans
        BY BusyJob DEF Procs, Evaluators
      <4>2. QED BY <1>s, <2>7, <4>1 DEF Crash, StateTyped
    <3>4. spent' \in [edits : 0..limit.edits, tests : 0..limit.tests,
                      faults : 0..limit.faults, crashes : 0..limit.crashes]
      BY <1>s, <2>7, SpendType DEF Crash
    <3>5. QED BY <1>s, <2>1, <2>7, <3>2, <3>3, <3>4 DEF Crash, TInv, StateTyped
  <2>8. QED
    BY <1>2, <2>2, <2>3, <2>4, <2>5, <2>6, <2>7 DEF Next
<1>3. QED
  BY <1>1, <1>2

\* The types hold at the start.
LEMMA InitType ==
  Init => TInv
<1> SUFFICES ASSUME Init PROVE TInv
  OBVIOUS
<1>1. limit \in Limit /\ limit \in Limits
  BY DEF Init
<1>2. spent \in [edits : 0..limit.edits, tests : 0..limit.tests,
                 faults : 0..limit.faults, crashes : 0..limit.crashes]
  BY <1>1 DEF Init, Limit
<1>3. rules \in Seq(StoredRule) /\ Len(rules) <= NumRules
  BY DEF Init
<1>4. events \in Seq(Event) /\ Len(events) <= MaxEvents
  BY DEF Init
<1>5. intent \in [RuleIds -> Config]
  BY DEF Init, Null, Config
<1>6. /\ catalog \in BOOLEAN /\ clock \in Minutes /\ scan \in 0..MaxScans
      /\ posts \subseteq Event /\ cut \subseteq Scans /\ raced \subseteq RuleIds
  <2>1. catalog \in BOOLEAN /\ posts = {} /\ cut = {} /\ raced = {}
    BY Zenon DEF Init
  <2>2. clock = 0 /\ scan = 0
    BY DEF Init
  <2>3. QED BY <2>1, <2>2 DEF Minutes
<1>7. due \in [Scans -> SUBSET RuleIds]
  BY DEF Init
<1>8. answers \in [Scans -> [RuleIds -> Nat]]
  <2>1. PICK row : row = [r \in RuleIds |-> 0]
    OBVIOUS
  <2>2. row \in [RuleIds -> Nat]
    BY <2>1
  <2>3. QED BY <2>1, <2>2 DEF Init
<1>9. JobsSane
  BY NullType DEF Init, JobsSane, Sane
<1>10. QED
  BY <1>1, <1>2, <1>3, <1>4, <1>5, <1>6, <1>7, <1>8, <1>9 DEF TInv, StateTyped

\* The store, the jobs and the histories are what they are declared to be,
\* and a process at work has a stored rule and, once drafted, its event.
THEOREM AlertingTypeCorrect ==
  Spec => []TypeOK
<1>1. TInv => TypeOK
  <2> SUFFICES ASSUME TInv PROVE TypeOK
    OBVIOUS
  <2>1. ASSUME NEW p \in Procs, job[p] # Idle
        PROVE  /\ job[p].at \in At \ {"idle"} /\ job[p].rule \in 1..Len(rules)
               /\ job[p].copy \in StoredRule /\ job[p].event \in Event \cup {None}
               /\ job[p].listed \in Seq(StoredRule) /\ Len(job[p].listed) <= Len(rules)
               /\ job[p].at \in {"route", "decide", "send", "record", "patch"}
                    => job[p].event \in Event
    <3>1. job[p] \in Job /\ Sane(p)
      BY DEF TInv, JobsSane
    <3>2. QED BY <2>1, <3>1 DEF Sane, Job, Drafted
  <2>2. QED BY <2>1 DEF TypeOK, TInv, StateTyped
<1>2. QED
  BY <1>1, InitType, NextType, PTL DEF Spec

-----------------------------------------------------------------------------
(* No edit is lost.  What is stored is what operators made of it only as   *)
(* long as what is written back is, so the invariant is about every copy a *)
(* process holds: of a rule that was not written in the meantime it has    *)
(* the operators' configuration, but for the flag a toggle is to set.      *)

Current(p, r) ==
  IF p = Scanner THEN job[p].listed[r].config = intent[r]
  ELSE IF p \in Togglers
  THEN job[p].copy.config = [intent[r] EXCEPT !.enabled = job[p].copy.config.enabled]
  ELSE job[p].copy.config = intent[r]

CopiesCurrent ==
  \A p \in Procs, r \in RuleIds : Holds(p, r) /\ r \notin raced => Current(p, r)

EInv == TInv /\ EditsSurvive /\ CopiesCurrent

\* What a step of an evaluation does to its job.
LEMMA EvaluationEffect ==
  ASSUME TInv, NEW p \in Evaluators, evaluateRule(p)
  PROVE  /\ Busy(p)
         /\ \/ \E at \in At \ {"idle"}, event \in Event \cup {None} : Moves(p, at, event)
            \/ Becomes(p, NextJob(p))
            \/ Becomes(p, Idle)
<1>p. p \in Procs
  BY DEF Procs
<1>b. Busy(p)
  BY DEF evaluateRule, EvaluateFails, Evaluate, Route, Decide, DecideBlindly, Send, Record,
         RecordFails, RecordFailure, patchRuleDelivery, Busy
<1>e. job[p].event \in Event \cup {None}
  BY <1>p, <1>b, BusyJob
<1>1. CASE EvaluateFails(p) \/ RecordFails(p)
  <2>1. ReturnError(p)
    BY <1>1 DEF EvaluateFails, RecordFails
  <2>2. "fail" \in At \ {"idle"}
    BY DEF At
  <2>3. QED BY <1>b, <1>e, <2>1, <2>2, ReturnErrorEffect
<1>2. CASE Evaluate(p)
  <2>1. PICK triggered \in BOOLEAN : Moves(p, "route", draftEvent(p, triggered))
    BY <1>2, EvaluateEffect
  <2>2. draftEvent(p, triggered) \in Event /\ "route" \in At \ {"idle"}
    BY <1>b, DraftType DEF At
  <2>3. QED BY <1>b, <2>1, <2>2
<1>3. CASE Route(p)
  <2>1. job[p].at \in Drafted /\ job[p].event.kind \in Kind
    BY <1>3, <1>p, DraftedEvent DEF Route, Drafted, Kind, Event
  <2>2. ASSUME NEW kind \in {job[p].event.kind, "unroutable"},
               Moves(p, "record", [job[p].event EXCEPT !.kind = kind])
        PROVE  \E at \in At \ {"idle"}, event \in Event \cup {None} : Moves(p, at, event)
    <3>1. [job[p].event EXCEPT !.kind = kind] \in Event /\ "record" \in At \ {"idle"}
      BY <1>p, <2>1, DraftedEvent DEF Kind, At
    <3>2. QED BY <2>2, <3>1
  <2>3. {"decide", "send"} \subseteq At \ {"idle"}
    BY DEF At
  <2>4. QED BY <1>3, <1>b, <1>e, <2>2, <2>3, RouteEffect
<1>4. CASE Decide(p)
  <2>1. {"record", "send"} \subseteq At \ {"idle"}
    BY DEF At
  <2>2. QED BY <1>4, <1>b, <1>e, <2>1, DecideEffect
<1>5. CASE DecideBlindly(p)
  <2>1. "send" \in At \ {"idle"}
    BY DEF At
  <2>2. QED BY <1>5, <1>b, <2>1, DecideBlindlyEffect
<1>6. CASE Send(p)
  <2>1. "record" \in At \ {"idle"}
    BY DEF At
  <2>2. QED BY <1>6, <1>b, <2>1, SendEffect
<1>7. CASE Record(p)
  <2>1. "patch" \in At \ {"idle"}
    BY DEF At
  <2>2. QED BY <1>7, <1>b, <1>e, <2>1, RecordEffect
<1>8. CASE RecordFailure(p) \/ patchRuleDelivery(p)
  BY <1>8, <1>b, FinishEffect DEF RecordFailure, patchRuleDelivery
<1>9. QED
  BY <1>1, <1>2, <1>3, <1>4, <1>5, <1>6, <1>7, <1>8 DEF evaluateRule

\* An evaluation takes up no rule it had not listed.
LEMMA EvaluationKeepsCopies ==
  ASSUME EInv, NEW p \in Evaluators, evaluateRule(p), UNCHANGED edited
  PROVE  CopiesCurrent'
<1>1. ASSUME NEW q \in Procs, NEW r \in RuleIds, Holds(q, r)' PROVE Holds(q, r)
  <2>0. p \in Procs /\ Busy(p) /\ Sane(p) /\ job[p] \in Job
    BY EvaluationEffect DEF Procs, EInv, TInv, JobsSane
  <2>1. CASE q # p
    BY <1>1, <2>1, EvaluationEffect DEF EInv, Moves, Becomes, Holds, Busy
  <2>2. CASE q = p
    <3>1. CASE \E at \in At \ {"idle"}, event \in Event \cup {None} : Moves(p, at, event)
      BY <1>1, <2>0, <2>2, <3>1 DEF Moves, Holds, Busy
    <3>2. CASE Becomes(p, Idle)
      BY <1>1, <2>2, <3>2, NullType DEF Becomes, Holds, Busy
    <3>3. CASE Becomes(p, NextJob(p)) /\ NextJob(p) # Idle
      <4>1. p = Scanner
        BY <3>3 DEF NextJob, Forced
      <4>2. /\ job[p].listed \in Seq(StoredRule) /\ job[p].rule \in Nat
            /\ Len(job[p].listed) \in Nat
        BY <2>0, LenProperties DEF Job
      <4>3. PICK n \in (job[p].rule + 1)..Len(job[p].listed) :
              NextJob(p) = Start(job[p].listed, n)
        BY <3>3, <4>1, <4>2, FollowingType DEF NextJob, Forced
      <4>4. n \in 1..Len(job[p].listed) /\ job[p].rule < n
        BY <4>2, <4>3
      <4>5. job'[p].rule = n /\ job'[p].listed = job[p].listed
        BY <2>0, <3>3, <4>2, <4>3, <4>4, StartType DEF Becomes
      <4>6. job[p].rule <= r /\ r <= Len(job[p].listed)
        BY <1>1, <2>2, <4>1, <4>2, <4>4, <4>5 DEF Holds, RuleIds
      <4>7. QED BY <2>0, <2>2, <4>1, <4>6 DEF Holds
    <3>4. QED BY <3>1, <3>2, <3>3, EvaluationEffect DEF EInv
  <2>3. QED BY <2>1, <2>2
<1>2. ASSUME NEW q \in Procs, NEW r \in RuleIds, Holds(q, r)', Current(q, r)
      PROVE  Current(q, r)'
  <2>1. q # p => job'[q] = job[q]
    BY EvaluationEffect DEF EInv, Moves, Becomes
  <2>2. p \in Procs /\ Busy(p) /\ intent' = intent /\ p \notin Togglers
    BY EvaluationEffect DEF EInv, Procs, Evaluators, edited
  <2>3. CASE q = p
    <3>1. CASE \E at \in At \ {"idle"}, event \in Event \cup {None} : Moves(p, at, event)
      BY <1>2, <2>2, <2>3, <3>1 DEF Moves, Current
    <3>2. CASE Becomes(p, Idle)
      BY <1>2, <2>3, <3>2, NullType DEF Becomes, Holds, Busy
    <3>3. CASE Becomes(p, NextJob(p)) /\ NextJob(p) # Idle
      <4>1. p = Scanner
        BY <3>3 DEF NextJob, Forced
      <4>2. job[p].listed \in Seq(StoredRule) /\ job[p].rule \in Nat
        BY <2>2, BusyJob DEF EInv
      <4>3. PICK n \in (job[p].rule + 1)..Len(job[p].listed) :
              NextJob(p) = Start(job[p].listed, n)
        BY <3>3, <4>1, <4>2, FollowingType DEF NextJob, Forced
      <4>4. Len(job[p].listed) \in Nat /\ n \in 1..Len(job[p].listed)
        BY <4>2, <4>3, LenProperties
      <4>5. job'[p].listed = job[p].listed
        BY <2>2, <3>3, <4>2, <4>3, <4>4, StartType DEF Becomes
      <4>6. QED BY <1>2, <2>2, <2>3, <4>1, <4>5 DEF Current
    <3>4. QED BY <3>1, <3>2, <3>3, EvaluationEffect DEF EInv
  <2>4. QED BY <1>2, <2>1, <2>2, <2>3 DEF Current
<1>3. QED
  BY <1>1, <1>2 DEF EInv, CopiesCurrent, edited

\* What an evaluation writes back has the configuration of its copy.
LEMMA EvaluationWrites ==
  ASSUME EInv, NEW p \in Evaluators, evaluateRule(p)
  PROVE  /\ UNCHANGED edited
         /\ Len(rules') = Len(rules)
         /\ \A r \in 1..Len(rules) :
               \/ rules'[r] = rules[r]
               \/ r = job[p].rule /\ rules'[r].config = job[p].copy.config
<1>1. p \in Procs /\ Busy(p) /\ StateTyped
  BY EvaluationEffect DEF EInv, TInv, Procs
<1>2. job[p].copy \in StoredRule /\ job[p].rule \in 1..Len(rules)
  BY <1>1, BusyJob DEF EInv
<1>3. UNCHANGED edited
  BY DEF evaluateRule, EvaluateFails, Evaluate, Route, Decide, DecideBlindly, Send, Record,
         RecordFails, RecordFailure, patchRuleDelivery, ghosts, edited
<1>4. CASE Evaluate(p)
  <2>1. UpsertRule(p, job[p].copy)
    BY <1>4 DEF Evaluate
  <2>2. QED BY <1>1, <1>2, <1>3, <2>1, UpsertType
<1>5. CASE patchRuleDelivery(p)
  <2>1. PICK value : value = [job[p].copy EXCEPT !.delivery = job[p].event.kind]
    OBVIOUS
  <2>2. job[p].at = "patch" /\ UpsertRule(p, value)
    BY <1>5, <2>1 DEF patchRuleDelivery
  <2>3. job[p].event.kind \in {"ok", "failed"}
    BY <1>1, <2>2, BusyJob DEF EInv, TInv, JobsSane, Sane
  <2>4. value \in StoredRule /\ value.config = job[p].copy.config
    BY <1>2, <2>1, <2>3 DEF StoredRule
  <2>5. QED BY <1>1, <1>2, <1>3, <2>2, <2>4, UpsertType
<1>6. CASE UNCHANGED rules
  BY <1>3, <1>6
<1>7. Evaluate(p) \/ patchRuleDelivery(p) \/ UNCHANGED rules
  BY DEF evaluateRule, EvaluateFails, Route, Decide, DecideBlindly, Send, Record,
         RecordFails, RecordFailure, store
<1>8. QED
  BY <1>4, <1>5, <1>6, <1>7

\* An evaluation that writes back its copy loses no edit but a concurrent one.
LEMMA EvaluationKeepsEdits ==
  ASSUME EInv, NEW p \in Evaluators, evaluateRule(p)
  PROVE  EditsSurvive' /\ CopiesCurrent'
<1>1. /\ p \in Procs /\ Busy(p) /\ job[p] # Idle /\ Sane(p) /\ p \notin Togglers
      /\ job[p].rule \in RuleIds /\ job[p].rule \in Nat
  BY EvaluationEffect, BusyJob DEF EInv, TInv, JobsSane, Procs, Evaluators, RuleIds
<1>2. Holds(p, job[p].rule)
  BY <1>1 DEF Holds, Sane
<1>3. job[p].rule \notin raced => job[p].copy.config = intent[job[p].rule]
  BY ZenonT(30), <1>1, <1>2 DEF EInv, CopiesCurrent, Current, Sane
<1>4. UNCHANGED edited
  BY EvaluationWrites
<1>5. EditsSurvive'
  BY <1>3, <1>4, EvaluationWrites DEF EInv, EditsSurvive, edited
<1>6. QED
  BY <1>4, <1>5, EvaluationKeepsCopies

\* A configuration that operators make of a rule is noted, and whoever else
\* holds a copy of the rule makes it a raced one.
LEMMA NoteEffect ==
  ASSUME TInv, NEW r \in RuleIds, NEW config \in Config, NEW others, Note(r, config, others)
  PROVE  /\ intent'[r] = config
         /\ \A s \in RuleIds \ {r} : intent'[s] = intent[s]
         /\ raced \subseteq raced'
         /\ r \notin raced' => \A q \in others : ~ Holds(q, r)
BY DEF TInv, StateTyped, Note

\* A rule that operators write: the copies of other rules are what they were.
LEMMA NoteKeepsCopies ==
  ASSUME EInv, NEW r \in RuleIds, NEW config \in Config, Note(r, config, Procs),
         UNCHANGED job
  PROVE  CopiesCurrent'
<1>1. ASSUME NEW q \in Procs, NEW s \in RuleIds, Holds(q, s)', s \notin raced'
      PROVE  Current(q, s)'
  <2>1. Holds(q, s) /\ s \notin raced
    BY <1>1, NoteEffect DEF EInv, Holds, Busy
  <2>2. s # r
    BY <1>1, <2>1, NoteEffect DEF EInv
  <2>3. intent'[s] = intent[s] /\ Current(q, s)
    BY <2>1, <2>2, NoteEffect DEF EInv, CopiesCurrent
  <2>4. QED BY <2>3 DEF Current
<1>2. QED
  BY <1>1 DEF CopiesCurrent

\* Nothing an operator writes is lost, except to a raced rule.
LEMMA OperatorsKeepEdits ==
  ASSUME EInv, Operators, UNCHANGED limit
  PROVE  EditsSurvive' /\ CopiesCurrent'
<1> USE DEF store, ghosts, edited
<1>s. /\ TInv /\ TInv' /\ limit \in Limit /\ rules \in Seq(StoredRule) /\ Len(rules) \in Nat
      /\ Len(rules) <= NumRules /\ raced \subseteq RuleIds /\ job \in [Procs -> Job]
      /\ intent \in [RuleIds -> Config]
  BY OperatorsType, LenProperties DEF EInv, TInv, JobsSane, StateTyped
<1>1. ASSUME NEW config \in limit.configs, CreateRule(config)
      PROVE  EditsSurvive' /\ CopiesCurrent'
  <2>1. config \in Config /\ Len(rules) + 1 \in RuleIds /\ UNCHANGED job
    BY <1>s, <1>1 DEF Limit, CreateRule, RuleIds
  <2>2. Note(Len(rules) + 1, config, Procs)
    BY <1>1 DEF CreateRule
  <2>3. CopiesCurrent'
    BY <2>1, <2>2, NoteKeepsCopies
  <2>4. PICK rule : rule = [config |-> config, delivery |-> "never"]
    OBVIOUS
  <2>5. rules' = Append(rules, rule) /\ rule \in StoredRule /\ rule.config = config
    BY <1>1, <2>1, <2>4 DEF CreateRule, StoredRule
  <2>6. /\ Len(rules') = Len(rules) + 1 /\ rules'[Len(rules) + 1] = rule
        /\ \A r \in 1..Len(rules) : rules'[r] = rules[r]
    BY <1>s, <2>5, AppendProperties
  <2>7. ASSUME NEW r \in 1..Len(rules'), r \notin raced' PROVE rules'[r].config = intent'[r]
    <3>1. CASE r = Len(rules) + 1
      BY <1>s, <2>1, <2>2, <2>5, <2>6, <3>1, NoteEffect
    <3>2. CASE r # Len(rules) + 1
      <4>1. r \in 1..Len(rules) /\ r \in RuleIds
        BY <1>s, <2>6, <3>2 DEF RuleIds
      <4>2. intent'[r] = intent[r] /\ r \notin raced
        BY <1>s, <2>1, <2>2, <2>7, <3>2, <4>1, NoteEffect
      <4>3. QED BY <2>6, <4>1, <4>2 DEF EInv, EditsSurvive
    <3>3. QED BY <3>1, <3>2
  <2>8. QED BY <2>3, <2>7 DEF EditsSurvive
<1>2. ASSUME NEW config \in limit.configs, NEW r \in RuleIds, UpdateRule(r, config)
      PROVE  EditsSurvive' /\ CopiesCurrent'
  <2>1. config \in Config /\ r \in 1..Len(rules) /\ UNCHANGED job /\ Note(r, config, Procs)
    BY <1>s, <1>2 DEF Limit, UpdateRule, RuleIds
  <2>2. CopiesCurrent'
    BY <2>1, NoteKeepsCopies
  <2>3. PICK rule, delivery : /\ rule = [config |-> config, delivery |-> delivery]
                              /\ rules' = [rules EXCEPT ![r] = rule]
    BY <1>2 DEF UpdateRule
  <2>4. /\ Len(rules') = Len(rules) /\ rules'[r].config = config
        /\ \A s \in 1..Len(rules) : s # r => rules'[s] = rules[s]
    BY <1>s, <2>1, <2>3, ExceptSeq
  <2>5. ASSUME NEW s \in 1..Len(rules'), s \notin raced' PROVE rules'[s].config = intent'[s]
    <3>1. s \in RuleIds /\ s \in 1..Len(rules)
      BY <1>s, <2>4 DEF RuleIds
    <3>2. CASE s = r
      BY <1>s, <2>1, <2>4, <3>2, NoteEffect
    <3>3. CASE s # r
      <4>1. intent'[s] = intent[s] /\ s \notin raced
        BY <1>s, <2>1, <2>5, <3>1, <3>3, NoteEffect
      <4>2. QED BY <2>4, <3>1, <3>3, <4>1 DEF EInv, EditsSurvive
    <3>4. QED BY <3>2, <3>3
  <2>6. QED BY <2>2, <2>5 DEF EditsSurvive
<1>3. ASSUME NEW t \in Togglers, NEW r \in RuleIds, NEW enabled \in BOOLEAN,
             GetRule(t, r, enabled)
      PROVE  EditsSurvive' /\ CopiesCurrent'
  <2>1. /\ t \in Procs /\ t # Scanner /\ r \in 1..Len(rules) /\ rules[r] \in StoredRule
        /\ UNCHANGED <<rules, intent, raced>>
    BY <1>s, <1>3, ElementOfSeq DEF GetRule, RuleIds, Procs
  <2>2. PICK j : j = [Start(rules, r) EXCEPT !.at = "set", !.listed = << >>,
                                             !.copy.config.enabled = enabled]
    OBVIOUS
  <2>3. j.rule = r /\ j.copy.config = [rules[r].config EXCEPT !.enabled = enabled]
    BY <2>1, <2>2 DEF Start, StoredRule
  <2>4. j.copy.config.enabled = enabled
    BY <2>1, <2>3 DEF StoredRule, Config
  <2>5. job' = [job EXCEPT ![t] = j]
    BY <1>3, <2>2 DEF GetRule
  <2>6. job'[t] = j /\ \A q \in Procs \ {t} : job'[q] = job[q]
    BY <1>s, <2>1, <2>5
  <2>7. ASSUME NEW q \in Procs, NEW s \in RuleIds, Holds(q, s)', s \notin raced'
        PROVE  Current(q, s)'
    <3>1. CASE q = t
      <4>1. s = r
        BY <2>1, <2>3, <2>6, <2>7, <3>1 DEF Holds
      <4>2. rules[r].config = intent[r]
        BY <2>1, <2>7, <4>1 DEF EInv, EditsSurvive
      <4>3. QED BY <2>1, <2>3, <2>4, <2>6, <3>1, <4>1, <4>2 DEF Current
    <3>2. CASE q # t
      <4>1. job'[q] = job[q]
        BY <2>6, <3>2
      <4>2. Holds(q, s) /\ s \notin raced
        BY <2>1, <2>7, <4>1 DEF Holds, Busy
      <4>3. Current(q, s)
        BY <4>2 DEF EInv, CopiesCurrent
      <4>4. QED BY <2>1, <4>1, <4>3 DEF Current
    <3>3. QED BY <3>1, <3>2
  <2>8. QED BY <2>1, <2>7 DEF EInv, EditsSurvive, CopiesCurrent
<1>4. ASSUME NEW t \in Togglers, SetRuleEnabled(t)
      PROVE  EditsSurvive' /\ CopiesCurrent'
  <2>1. t \in Procs /\ Busy(t) /\ t # Scanner /\ job' = [job EXCEPT ![t] = Idle]
    BY <1>4 DEF SetRuleEnabled, Busy, Procs
  <2>2. /\ job[t].rule \in 1..Len(rules) /\ job[t].rule \in RuleIds
        /\ job[t].copy \in StoredRule
    BY <1>s, <2>1, BusyJob
  <2>3. job'[t] = Idle /\ \A q \in Procs \ {t} : job'[q] = job[q]
    BY <1>s, <2>1
  <2>4. ASSUME NEW q \in Procs, NEW s \in RuleIds, Holds(q, s)'
        PROVE  q # t /\ job'[q] = job[q] /\ Holds(q, s)
    <3>1. q # t
      BY <2>3, <2>4, NullType DEF Holds, Busy
    <3>2. QED BY <2>3, <2>4, <3>1 DEF Holds, Busy
  <2>5. CASE Fault /\ UNCHANGED <<rules, edited>>
    <3>1. CopiesCurrent'
      BY <2>4, <2>5 DEF EInv, CopiesCurrent, Current
    <3>2. QED BY <2>5, <3>1 DEF EInv, EditsSurvive
  <2>6. ASSUME NEW r \in RuleIds, r = job[t].rule, rules' = [rules EXCEPT ![r] = job[t].copy],
               NEW config, config = [intent[r] EXCEPT !.enabled = job[t].copy.config.enabled],
               Note(r, config, Procs \ {t})
        PROVE  EditsSurvive' /\ CopiesCurrent'
    <3>1. config \in Config
      BY <1>s, <2>2, <2>6 DEF StoredRule, Config
    <3>2. /\ Len(rules') = Len(rules) /\ rules'[r] = job[t].copy
          /\ \A s \in 1..Len(rules) : s # r => rules'[s] = rules[s]
      BY <1>s, <2>2, <2>6, ExceptSeq
    <3>3. r \notin raced => job[t].copy.config = config
      BY <2>1, <2>6 DEF EInv, CopiesCurrent, Current, Holds
    <3>4. ASSUME NEW s \in 1..Len(rules'), s \notin raced' PROVE rules'[s].config = intent'[s]
      <4>1. s \in RuleIds /\ s \in 1..Len(rules)
        BY <1>s, <3>2 DEF RuleIds
      <4>2. s \notin raced
        BY <1>s, <2>6, <3>1, <3>4, NoteEffect
      <4>3. CASE s = r
        BY <1>s, <2>6, <3>1, <3>2, <3>3, <4>2, <4>3, NoteEffect
      <4>4. CASE s # r
        <5>1. intent'[s] = intent[s]
          BY <1>s, <2>6, <3>1, <4>1, <4>4, NoteEffect
        <5>2. QED BY <3>2, <4>1, <4>2, <4>4, <5>1 DEF EInv, EditsSurvive
      <4>5. QED BY <4>3, <4>4
    <3>5. ASSUME NEW q \in Procs, NEW s \in RuleIds, Holds(q, s)', s \notin raced'
          PROVE  Current(q, s)'
      <4>1. q # t /\ job'[q] = job[q] /\ Holds(q, s)
        BY <2>4, <3>5
      <4>2. s \notin raced /\ s # r
        BY <1>s, <2>6, <3>1, <3>5, <4>1, NoteEffect
      <4>3. intent'[s] = intent[s] /\ Current(q, s)
        BY <1>s, <2>6, <3>1, <4>1, <4>2, NoteEffect DEF EInv, CopiesCurrent
      <4>4. QED BY <4>1, <4>3 DEF Current
    <3>6. QED BY <3>4, <3>5 DEF EditsSurvive, CopiesCurrent
  <2>7. QED BY <1>4, <2>2, <2>5, <2>6 DEF SetRuleEnabled
<1>5. ASSUME SaveRoutingCatalog PROVE EditsSurvive' /\ CopiesCurrent'
  <2>1. UNCHANGED <<rules, job, intent, raced>>
    BY <1>5 DEF SaveRoutingCatalog
  <2>2. QED BY <2>1 DEF EInv, EditsSurvive, CopiesCurrent, Holds, Busy, Current
<1>6. QED
  BY <1>1, <1>2, <1>3, <1>4, <1>5 DEF Operators

\* A scan takes the rules as they are stored, a test request the one it is for.
LEMMA StartsKeepEdits ==
  ASSUME EInv,
         EvaluateEnabledRulesForScan \/ ListRulesFails
           \/ \E p \in Testers, r \in RuleIds : TestRule(p, r)
  PROVE  EditsSurvive' /\ CopiesCurrent'
<1> USE DEF store, ghosts, edited
<1>s. /\ TInv /\ rules \in Seq(StoredRule) /\ Len(rules) \in Nat /\ Len(rules) <= NumRules
      /\ job \in [Procs -> Job]
  BY LenProperties DEF EInv, TInv, JobsSane, StateTyped
<1>u. UNCHANGED <<rules, intent, raced>>
  BY DEF EvaluateEnabledRulesForScan, ListRulesFails, TestRule
<1>e. EditsSurvive'
  BY <1>u DEF EInv, EditsSurvive
\* One process takes up rules as they are stored; the others keep their jobs.
<1> DEFINE
      Taken(p, j) ==
        \A r \in RuleIds :
           /\ j.at # "idle"
           /\ IF p = Scanner THEN r <= Len(j.listed) ELSE j.rule = r
           => r \in 1..Len(rules) /\ IF p = Scanner THEN j.listed[r] = rules[r]
                                                    ELSE j.copy = rules[r]
<1>1. ASSUME NEW p \in Procs \ Togglers, NEW j, job' = [job EXCEPT ![p] = j], Taken(p, j)
      PROVE  CopiesCurrent'
  <2>1. job'[p] = j /\ \A q \in Procs \ {p} : job'[q] = job[q]
    BY <1>s, <1>1
  <2>2. ASSUME NEW q \in Procs, NEW r \in RuleIds, Holds(q, r)', r \notin raced'
        PROVE  Current(q, r)'
    <3>1. CASE q = p
      <4>1. /\ j.at # "idle"
            /\ IF p = Scanner THEN r <= Len(j.listed) ELSE j.rule = r
        BY <2>1, <2>2, <3>1 DEF Holds, Busy
      <4>2. r \in 1..Len(rules) /\ IF p = Scanner THEN j.listed[r] = rules[r]
                                                  ELSE j.copy = rules[r]
        BY <1>1, <4>1
      <4>3. rules[r].config = intent[r]
        BY <1>u, <2>2, <4>2 DEF EInv, EditsSurvive
      <4>4. QED BY <1>u, <2>1, <3>1, <4>2, <4>3 DEF Current
    <3>2. CASE q # p
      <4>1. job'[q] = job[q] /\ Holds(q, r) /\ r \notin raced
        BY <1>u, <2>1, <2>2, <3>2 DEF Holds, Busy
      <4>2. QED BY <1>u, <4>1 DEF EInv, CopiesCurrent, Current
    <3>3. QED BY <3>1, <3>2
  <2>3. QED BY <2>2 DEF CopiesCurrent
<1>2. CASE EvaluateEnabledRulesForScan
  <2>1. PICK j : j = Following(rules, 1)
    OBVIOUS
  <2>2. Scanner \in Procs \ Togglers /\ job' = [job EXCEPT ![Scanner] = j]
    BY <1>2, <2>1 DEF EvaluateEnabledRulesForScan, Procs, Evaluators
  <2>3. j.at # "idle" => j.listed = rules
    <3>1. CASE j = Idle
      BY <3>1, NullType
    <3>2. CASE \E q \in 1..Len(rules) : j = Start(rules, q)
      BY <1>s, <3>2, StartType
    <3>3. QED BY <1>s, <2>1, <3>1, <3>2, FollowingType
  <2>4. ASSUME NEW r \in RuleIds, j.at # "idle", r <= Len(j.listed)
        PROVE  r \in 1..Len(rules) /\ j.listed[r] = rules[r]
    BY <1>s, <2>3, <2>4 DEF RuleIds
  <2>5. Taken(Scanner, j)
    BY <2>4
  <2> HIDE DEF Taken
  <2>6. QED BY <1>e, <1>1, <2>2, <2>5
<1>3. CASE ListRulesFails
  <2>1. UNCHANGED <<job, intent, raced>>
    BY <1>u, <1>3 DEF ListRulesFails
  <2>2. QED BY <1>e, <2>1 DEF EInv, CopiesCurrent, Holds, Busy, Current
<1>4. ASSUME NEW t \in Testers, NEW r \in RuleIds, TestRule(t, r) PROVE CopiesCurrent'
  <2>1. PICK j : j = [Start(rules, r) EXCEPT !.listed = << >>]
    OBVIOUS
  <2>2. /\ t \in Procs \ Togglers /\ t # Scanner /\ r \in 1..Len(rules)
        /\ job' = [job EXCEPT ![t] = j]
    BY <1>s, <1>4, <2>1 DEF TestRule, Procs, Evaluators, RuleIds
  <2>3. Taken(t, j)
    BY <2>1, <2>2 DEF Start
  <2> HIDE DEF Taken
  <2>4. QED BY <1>1, <2>2, <2>3
<1>5. QED
  BY <1>e, <1>2, <1>3, <1>4

\* The invariant of the edits is inductive.
LEMMA NextKeepsEdits ==
  EInv /\ [Next]_vars => EInv'
<1> SUFFICES ASSUME EInv, [Next]_vars PROVE EInv'
  OBVIOUS
<1>t. TInv'
  BY NextType DEF EInv
<1>1. CASE UNCHANGED vars
  BY <1>1, <1>t DEF vars, EInv, EditsSurvive, CopiesCurrent, Holds, Busy, Current
<1>2. CASE EvaluateEnabledRulesForScan \/ ListRulesFails
             \/ \E p \in Testers, r \in RuleIds : TestRule(p, r)
  BY <1>t, <1>2, StartsKeepEdits DEF EInv
<1>3. CASE \E p \in Evaluators : evaluateRule(p)
  BY <1>t, <1>3, EvaluationKeepsEdits DEF EInv
<1>4. CASE Operators /\ UNCHANGED limit
  BY <1>t, <1>4, OperatorsKeepEdits DEF EInv
<1>5. CASE Tick
  BY <1>t, <1>5 DEF Tick, store, ghosts, EInv, EditsSurvive, CopiesCurrent, Holds, Busy, Current
<1>6. CASE Crash
  <2>1. \A p \in Procs : ~ Busy(p)'
    BY <1>6, NullType DEF Crash, Busy
  <2>2. QED
    BY <1>t, <1>6, <2>1 DEF Crash, store, edited, EInv, EditsSurvive, CopiesCurrent, Holds
<1>7. QED
  BY <1>1, <1>2, <1>3, <1>4, <1>5, <1>6 DEF Next

\* No sequence of evaluations, test requests, toggles, failed operations and
\* crashes loses what operators made of a rule: only a write to a rule that
\* another process held a copy of can be lost.
THEOREM EditsSurviveHolds ==
  Spec => []EditsSurvive
<1>1. Init => EInv
  <2> SUFFICES ASSUME Init PROVE EInv
    OBVIOUS
  <2>1. TInv
    BY InitType
  <2>2. \A p \in Procs : ~ Busy(p)
    BY NullType DEF Init, Busy
  <2>3. 1..Len(rules) = {}
    BY DEF Init
  <2>4. QED BY <2>1, <2>2, <2>3 DEF EInv, EditsSurvive, CopiesCurrent, Holds
<1>2. EInv => EditsSurvive
  BY DEF EInv
<1>3. QED
  BY <1>1, <1>2, NextKeepsEdits, PTL DEF Spec
-----------------------------------------------------------------------------
(* The invariant.  The scan goroutine decides on a cooldown from the       *)
(* history it lists, and records what it sent two operations later; test   *)
(* requests record their events in between.  So what AnchorsSpaced says of *)
(* two recorded deliveries has to be said of the event under way: from the *)
(* decision on it is a cooldown after every anchor of its rule, because    *)
(* nobody else records anchors, and anchors are recorded in the order of   *)
(* their time, which is why looking at the newest is enough.               *)

Recorded == {events[i] : i \in 1..Len(events)}

AnchorEvents == {e \in Recorded : isCooldownAnchor(e)}

\* e is not older than any automatic delivery of the history, ...
Behind(e) == \A a \in AnchorEvents : a.at <= e.at

\* ... and at least its cooldown younger than those of its rule.
Spaced(e) == \A a \in AnchorEvents : a.rule = e.rule => e.at >= a.at + e.cooldown

\* The delivery that e is suppressed for.
Delivered(e) ==
  \E m \in posts :
     /\ m.rule = e.rule /\ ~ m.forced /\ m.triggered
     /\ m.at = e.anchor
     /\ m.at <= e.at /\ e.at < m.at + e.cooldown

AnchorsOrdered ==
  \A i, j \in 1..Len(events) :
     i < j /\ isCooldownAnchor(events[i]) /\ isCooldownAnchor(events[j])
       => events[i].at >= events[j].at

\* What is about to be recorded.
Settled(e) ==
  /\ e.kind = "ok" => e.triggered /\ e \in posts /\ (~ e.blind => Spaced(e))
  /\ e.kind = "suppressed" => Delivered(e)

\* The event of the scan goroutine, by where the goroutine is.
Pending(at, e) ==
  /\ e.at <= clock /\ Behind(e)
  /\ e.blind => spent.faults > 0
  /\ at \in {"route", "decide", "send"} => e.kind = "quiet"
  /\ at \in {"decide", "send"} => e.triggered
  /\ at = "send" /\ ~ e.blind => Spaced(e)
  /\ at = "record" => Settled(e)

EventUnderWay ==
  job[Scanner].at \in Drafted =>
    /\ Pending(job[Scanner].at, job[Scanner].event)
    /\ job[Scanner].event.cooldown = job[Scanner].copy.config.cooldown

\* A test request bypasses the cooldown.
TestsBypass ==
  \A p \in Testers : job[p].at \in Drafted =>
    job[p].at # "decide" /\ job[p].event.kind # "suppressed"

HistorySound ==
  /\ AnchorsOrdered /\ AnchorsSpaced /\ SuppressedWasDelivered
  /\ \A a \in AnchorEvents : a.at <= clock /\ a \in posts

\* Automatic messages, and where they are remembered as long as nothing fails:
\* in the history, but for one that is about to be recorded.
Undisturbed == Len(events) < MaxEvents /\ spent.faults = 0 /\ spent.crashes = 0

PostsSound ==
  /\ \A m \in posts : ~ m.forced => m.triggered /\ m.kind = "ok" /\ m.scan <= scan
  /\ Undisturbed => \A m \in posts : ~ m.forced =>
        m \in Recorded \/ (job[Scanner].at = "record" /\ m = job[Scanner].event)
  /\ CooldownWhileRemembered

HInv == TInv /\ EventUnderWay /\ TestsBypass /\ HistorySound /\ PostsSound

-----------------------------------------------------------------------------
(* An account of the rules a scan evaluates: those before the one at hand  *)
(* have been answered, unless two operations failed, the one at hand is    *)
(* answered once its event is recorded, and those after it are not.        *)

Account ==
  \A s \in Scans, r \in RuleIds :
     /\ s > scan => answers[s][r] = 0
     /\ answers[s][r] <= IF r \in due[s] THEN 1 ELSE 0
     /\ s < scan \/ (s = scan /\ ~ Busy(Scanner))
        => s \in cut \/ r \notin due[s] \/ answers[s][r] = 1 \/ spent.faults >= 2

AccountUnderWay ==
  Busy(Scanner) =>
    /\ due[scan] = {r \in 1..Len(job[Scanner].listed) : job[Scanner].listed[r].config.enabled}
    /\ job[Scanner].rule \in due[scan]
    /\ answers[scan][job[Scanner].rule] = IF job[Scanner].at = "patch" THEN 1 ELSE 0
    /\ job[Scanner].at = "fail" => spent.faults >= 1
    /\ \A r \in RuleIds :
         /\ r < job[Scanner].rule
              => r \notin due[scan] \/ answers[scan][r] = 1 \/ spent.faults >= 2
         /\ r > job[Scanner].rule => answers[scan][r] = 0

AInv == TInv /\ Account /\ AccountUnderWay

-----------------------------------------------------------------------------
(* Lemmas about the history.                                               *)

\* A new event comes in front; the oldest ones may go.
LEMMA PrependRecorded ==
  ASSUME events \in Seq(Event), Len(events) <= MaxEvents, NEW e \in Event,
         events' = prepend(e)
  PROVE  /\ Recorded' \subseteq Recorded \cup {e} /\ e \in Recorded'
         /\ Len(events') >= Len(events)
         /\ Len(events') < MaxEvents => Recorded' = Recorded \cup {e}
         /\ \A i \in 1..Len(events') :
               \/ i = 1 /\ events'[i] = e
               \/ i - 1 \in 1..Len(events) /\ events'[i] = events[i - 1]
<1>1. /\ Len(events) \in Nat /\ Len(events') \in Nat
      /\ Len(events') = IF Len(events) < MaxEvents THEN Len(events) + 1 ELSE MaxEvents
      /\ \A i \in 1..Len(events') : events'[i] = IF i = 1 THEN e ELSE events[i - 1]
  BY PrependType, LenProperties
<1>2. \A i \in 1..Len(events') :
         \/ i = 1 /\ events'[i] = e
         \/ i - 1 \in 1..Len(events) /\ events'[i] = events[i - 1]
  BY <1>1
<1>3. Recorded' \subseteq Recorded \cup {e}
  BY <1>2 DEF Recorded
<1>4. e \in Recorded'
  BY <1>1 DEF Recorded
<1>5. ASSUME Len(events') < MaxEvents, NEW i \in 1..Len(events) PROVE events[i] \in Recorded'
  <2>1. i + 1 \in 1..Len(events') /\ events'[i + 1] = events[i]
    BY <1>1, <1>5
  <2>2. QED BY <2>1 DEF Recorded
<1>6. ASSUME Len(events') < MaxEvents PROVE Recorded \subseteq Recorded'
  <2>1. \A i \in 1..Len(events) : events[i] \in Recorded'
    BY <1>5, <1>6
  <2>2. QED BY <2>1 DEF Recorded
<1>7. Len(events') >= Len(events)
  BY <1>1 DEF prepend
<1>8. QED
  BY ONLY <1>2, <1>3, <1>4, <1>6, <1>7

\* What is recorded is made of events.
LEMMA RecordedType ==
  ASSUME events \in Seq(Event)
  PROVE  Recorded \subseteq Event /\ AnchorEvents \subseteq Event
BY ElementOfSeq DEF Recorded, AnchorEvents

\* The newest anchor of a rule is the youngest one.
LEMMA NewestAnchor ==
  ASSUME StateTyped, AnchorsOrdered, NEW r, anchors(r) # {}
  PROVE  /\ findCooldownAnchor(r) \in AnchorEvents /\ findCooldownAnchor(r).rule = r
         /\ \A a \in AnchorEvents : a.rule = r => a.at <= findCooldownAnchor(r).at
<1>1. PICK i \in anchors(r) : /\ findCooldownAnchor(r) = events[i]
                              /\ \A j \in anchors(r) : i <= j
  BY AnchorType
<1>2. i \in 1..Len(events) /\ events[i].rule = r /\ isCooldownAnchor(events[i])
  BY <1>1 DEF anchors
<1>3. ASSUME NEW a \in AnchorEvents, a.rule = r PROVE a.at <= events[i].at
  <2>1. PICK j \in 1..Len(events) : a = events[j] /\ isCooldownAnchor(events[j])
    BY <1>3 DEF AnchorEvents, Recorded
  <2>2. j \in anchors(r)
    BY <1>3, <2>1 DEF anchors
  <2>3. i <= j /\ i \in Nat /\ j \in Nat
    BY <1>1, <1>2, <2>1, <2>2, LenProperties DEF StateTyped
  <2>4. a \in Event /\ a.at \in Nat
    BY <1>3, RecordedType DEF StateTyped, Event, Minutes
  <2>5. CASE i = j
    BY <2>1, <2>4, <2>5
  <2>6. CASE i < j
    BY <1>2, <2>1, <2>6 DEF AnchorsOrdered
  <2>7. QED BY <2>3, <2>5, <2>6
<1>4. QED
  BY <1>1, <1>2, <1>3 DEF AnchorEvents, Recorded

\* Times, scans and cooldowns of events are numbers.
LEMMA EventNumbers ==
  ASSUME NEW e \in Event
  PROVE  e.at \in Nat /\ e.scan \in Nat /\ e.cooldown \in Nat
<1>1. e.cooldown \in Cooldowns /\ e.at \in Minutes /\ e.scan \in Scans
  BY DEF Event
<1>2. Cooldowns \subseteq Nat
  OBVIOUS
<1>3. e.cooldown \in Nat
  BY <1>1, <1>2
<1>4. e.at \in Nat
  BY <1>1 DEF Minutes
<1>5. e.scan \in Nat
  BY <1>1 DEF Scans
<1>6. QED
  BY <1>3, <1>4, <1>5

\* What the cooldown lets pass is a cooldown after every anchor of the rule.
LEMMA NotSuppressed ==
  ASSUME StateTyped, AnchorsOrdered, NEW e \in Event, Behind(e),
         ~ DecideCooldownSuppression(e.rule, e.cooldown, e.at)
  PROVE  Spaced(e)
<1> SUFFICES ASSUME NEW a \in AnchorEvents, a.rule = e.rule PROVE e.at >= a.at + e.cooldown
  BY DEF Spaced
<1>t. AnchorEvents \subseteq Event
  BY RecordedType DEF StateTyped
<1>1. a \in Event /\ a.at \in Nat /\ e.at \in Nat /\ e.cooldown \in Nat
  BY <1>t, EventNumbers
<1>2. CASE e.cooldown = 0
  BY <1>1, <1>2 DEF Behind
<1>3. CASE e.cooldown > 0
  <2>1. anchors(e.rule) # {}
    BY DEF AnchorEvents, Recorded, anchors
  <2>2. PICK b : b = findCooldownAnchor(e.rule)
    OBVIOUS
  <2>3. b \in Event /\ a.at <= b.at
    BY <1>t, <2>1, <2>2, NewestAnchor
  <2>n. b.at \in Nat
    BY <2>3 DEF Event, Minutes
  <2>4. ~ (e.at < b.at + e.cooldown)
    BY <1>3, <2>1, <2>2 DEF DecideCooldownSuppression
  <2>5. QED BY <1>1, <2>3, <2>n, <2>4
<1>4. QED
  BY <1>1, <1>2, <1>3

\* What it does not was delivered.
LEMMA SuppressedDelivered ==
  ASSUME StateTyped, HistorySound, NEW e \in Event, Behind(e),
         DecideCooldownSuppression(e.rule, e.cooldown, e.at),
         e.anchor = findCooldownAnchor(e.rule).at
  PROVE  Delivered(e)
<1>1. anchors(e.rule) # {} /\ e.at < findCooldownAnchor(e.rule).at + e.cooldown
  BY DEF DecideCooldownSuppression
<1>2. PICK b : b = findCooldownAnchor(e.rule)
  OBVIOUS
<1>3. b \in AnchorEvents /\ b.rule = e.rule
  BY <1>1, <1>2, NewestAnchor DEF HistorySound
<1>4. b \in posts /\ isCooldownAnchor(b) /\ b.at <= e.at
  BY <1>3 DEF HistorySound, AnchorEvents, Behind
<1>5. QED
  BY <1>1, <1>2, <1>3, <1>4 DEF Delivered, isCooldownAnchor

-----------------------------------------------------------------------------
(* How the parts of the invariant bear a step.                             *)

\* Time passes, messages are posted, operations fail.
Advances ==
  /\ clock \in Nat /\ clock' \in Nat /\ clock' >= clock
  /\ posts \subseteq posts'
  /\ spent.faults \in Nat /\ spent'.faults \in Nat /\ spent'.faults >= spent.faults
  /\ spent.crashes \in Nat /\ spent'.crashes \in Nat /\ spent'.crashes >= spent.crashes

\* The event under way is what it was when the history gains no anchor.
LEMMA PendingStable ==
  ASSUME Advances, AnchorEvents' \subseteq AnchorEvents,
         NEW at, NEW e \in Event, Pending(at, e)
  PROVE  Pending(at, e)'
<1>1. e.at \in Nat
  BY DEF Event, Minutes
<1>2. Spaced(e) => Spaced(e)'
  BY DEF Spaced
<1>3. Delivered(e) => Delivered(e)'
  BY DEF Advances, Delivered
<1>4. Settled(e) => Settled(e)'
  BY <1>2, <1>3 DEF Settled, Advances
<1>5. QED
  BY <1>1, <1>2, <1>4 DEF Pending, Behind, Advances

\* The history as it stands ...
LEMMA HistoryKept ==
  ASSUME StateTyped, HistorySound, Advances, UNCHANGED events
  PROVE  HistorySound'
<1>1. AnchorEvents' = AnchorEvents /\ AnchorEvents \subseteq Event
  BY RecordedType DEF StateTyped, AnchorEvents, Recorded
<1>2. AnchorsOrdered' /\ AnchorsSpaced'
  BY DEF HistorySound, AnchorsOrdered, AnchorsSpaced
<1>3. SuppressedWasDelivered'
  BY DEF HistorySound, SuppressedWasDelivered, Advances
<1>4. \A a \in AnchorEvents : a.at <= clock' /\ a \in posts'
  BY <1>1 DEF HistorySound, Advances, Event, Minutes
<1>5. QED
  BY <1>1, <1>2, <1>3, <1>4 DEF HistorySound

\* ... and with one more event.
LEMMA HistoryGrows ==
  ASSUME StateTyped, HistorySound, Advances, NEW e \in Event, events' = prepend(e),
         isCooldownAnchor(e) => /\ e.at <= clock' /\ Behind(e) /\ e \in posts
                                /\ ~ e.blind => Spaced(e),
         e.kind = "suppressed" => Delivered(e)
  PROVE  /\ HistorySound'
         /\ \A a \in AnchorEvents' : a \in AnchorEvents \/ (a = e /\ isCooldownAnchor(e))
<1>1. /\ Recorded' \subseteq Recorded \cup {e}
      /\ \A i \in 1..Len(events') :
            \/ i = 1 /\ events'[i] = e
            \/ i - 1 \in 1..Len(events) /\ events'[i] = events[i - 1]
  BY PrependRecorded DEF StateTyped
<1>2. \A a \in AnchorEvents' : a \in AnchorEvents \/ (a = e /\ isCooldownAnchor(e))
  BY <1>1 DEF AnchorEvents, isCooldownAnchor
<1>l. Len(events') \in Nat /\ events \in Seq(Event) /\ Len(events) \in Nat
  BY PrependType, LenProperties DEF StateTyped
<1>3. ASSUME NEW i \in 1..Len(events'), NEW j \in 1..Len(events'), i < j,
             isCooldownAnchor(events'[i]), isCooldownAnchor(events'[j])
      PROVE  /\ events'[i].at >= events'[j].at
             /\ events'[i].rule = events'[j].rule /\ ~ events'[i].blind
                  => events'[i].at >= events'[j].at + events'[i].cooldown
  <2>1. j - 1 \in 1..Len(events) /\ events'[j] = events[j - 1]
    BY <1>1, <1>3, <1>l
  <2>2. events'[j] \in AnchorEvents
    BY <1>3, <2>1 DEF AnchorEvents, Recorded
  <2>3. CASE i = 1 /\ events'[i] = e
    <3>1. Behind(e) /\ (~ e.blind => Spaced(e))
      BY <1>3, <2>3
    <3>2. events'[j] \in Event /\ events'[j].at \in Nat /\ e.at \in Nat
      BY <2>2, RecordedType DEF StateTyped, Event, Minutes
    <3>3. QED BY <2>2, <2>3, <3>1, <3>2 DEF Behind, Spaced
  <2>4. CASE i - 1 \in 1..Len(events) /\ events'[i] = events[i - 1]
    <3>1. i - 1 < j - 1
      BY <1>3, <1>l
    <3>2. QED
      BY <1>3, <2>1, <2>4, <3>1 DEF HistorySound, AnchorsOrdered, AnchorsSpaced
  <2>5. QED BY <1>1, <2>3, <2>4
<1>4. AnchorsOrdered' /\ AnchorsSpaced'
  BY <1>3 DEF AnchorsOrdered, AnchorsSpaced, isCooldownAnchor
<1>5. SuppressedWasDelivered'
  <2> SUFFICES ASSUME NEW i \in 1..Len(events'), events'[i].kind = "suppressed"
               PROVE  \E m \in posts :
                        /\ m.rule = events'[i].rule /\ ~ m.forced /\ m.triggered
                        /\ m.at = events'[i].anchor
                        /\ m.at <= events'[i].at
                        /\ events'[i].at < m.at + events'[i].cooldown
    BY DEF SuppressedWasDelivered, Advances
  <2>1. CASE i = 1 /\ events'[i] = e
    BY <2>1 DEF Delivered
  <2>2. CASE i - 1 \in 1..Len(events) /\ events'[i] = events[i - 1]
    BY <2>2 DEF HistorySound, SuppressedWasDelivered
  <2>3. QED BY <1>1, <2>1, <2>2
<1>6. ASSUME NEW a \in AnchorEvents' PROVE a.at <= clock' /\ a \in posts'
  <2>1. CASE a \in AnchorEvents
    <3>1. a.at \in Nat
      BY <2>1, RecordedType DEF StateTyped, Event, Minutes
    <3>2. QED BY <2>1, <3>1 DEF HistorySound, Advances
  <2>2. CASE a = e
    <3>1. isCooldownAnchor(e)
      BY <1>6, <2>2 DEF AnchorEvents, isCooldownAnchor
    <3>2. QED BY <2>2, <3>1 DEF Advances
  <2>3. QED BY <1>2, <1>6, <2>1, <2>2
<1>7. QED
  BY <1>2, <1>4, <1>5, <1>6 DEF HistorySound

\* Messages stay remembered when nothing automatic is posted and, unless
\* something fails, what was about to be recorded still is or has been.
LEMMA PostsKept ==
  ASSUME TInv, PostsSound, Advances, scan' \in Nat, scan' >= scan,
         \A m \in posts' \ posts : m.forced,
         Len(events') \in Nat, Len(events') >= Len(events),
         Len(events') < MaxEvents => Recorded \subseteq Recorded',
         Undisturbed' /\ job[Scanner].at = "record" /\ job[Scanner].event \in posts =>
           \/ job'[Scanner].at = "record" /\ job'[Scanner].event = job[Scanner].event
           \/ job[Scanner].event \in Recorded'
  PROVE  PostsSound'
<1>1. Undisturbed' => Undisturbed
  BY LenProperties DEF Undisturbed, Advances, TInv, StateTyped
<1>2. ASSUME NEW m \in posts', ~ m.forced PROVE m.triggered /\ m.kind = "ok" /\ m.scan <= scan'
  <2>1. m \in posts /\ m.scan \in Nat /\ scan \in Nat
    BY <1>2 DEF TInv, StateTyped, Event, Scans
  <2>2. QED BY <1>2, <2>1 DEF PostsSound
<1>3. ASSUME Undisturbed', NEW m \in posts', ~ m.forced
      PROVE  m \in Recorded' \/ (job'[Scanner].at = "record" /\ m = job'[Scanner].event)
  <2>1. m \in posts /\ Undisturbed
    BY <1>1, <1>3
  <2>2. CASE m \in Recorded
    BY <1>3, <2>2 DEF Undisturbed
  <2>3. CASE job[Scanner].at = "record" /\ m = job[Scanner].event
    BY <1>3, <2>1, <2>3
  <2>4. QED BY <1>3, <2>1, <2>2, <2>3 DEF PostsSound
<1>4. CooldownWhileRemembered'
  <2> SUFFICES ASSUME NEW m \in posts', NEW n \in posts',
                      Undisturbed', m.rule = n.rule, m.scan < n.scan, ~ m.forced, ~ n.forced
               PROVE  n.at >= m.at + n.cooldown
    BY DEF CooldownWhileRemembered, Undisturbed
  <2>1. m \in posts /\ n \in posts /\ Undisturbed
    BY <1>1
  <2>2. QED BY <2>1 DEF PostsSound, CooldownWhileRemembered, Undisturbed
<1>5. QED
  BY <1>2, <1>3, <1>4 DEF PostsSound

-----------------------------------------------------------------------------
(* The steps.                                                              *)

\* A step spends at most one of the bounds of the behaviour.
LEMMA NextSpends ==
  ASSUME TInv, [Next]_vars
  PROVE  UNCHANGED spent \/ \E what \in {"edits", "tests", "faults", "crashes"} : Spend(what)
<1>1. CASE UNCHANGED vars
  BY <1>1 DEF vars
<1>2. ASSUME NEW p \in Evaluators, evaluateRule(p) PROVE UNCHANGED spent \/ Fault
  BY <1>2 DEF evaluateRule, EvaluateFails, Evaluate, Route, Decide, DecideBlindly, Send, Record,
              RecordFails, RecordFailure, patchRuleDelivery, UpsertRule
<1>3. CASE Operators
  BY <1>3 DEF Operators, CreateRule, UpdateRule, GetRule, SetRuleEnabled, SaveRoutingCatalog,
              Fault
<1>4. CASE EvaluateEnabledRulesForScan \/ ListRulesFails
  BY <1>4 DEF EvaluateEnabledRulesForScan, ListRulesFails, Fault
<1>5. ASSUME NEW p \in Testers, NEW r \in RuleIds, TestRule(p, r) PROVE Spend("tests")
  BY <1>5 DEF TestRule
<1>6. CASE Tick \/ Crash
  BY <1>6 DEF Tick, Crash
<1>7. QED
  BY <1>1, <1>2, <1>3, <1>4, <1>5, <1>6 DEF Next, Fault

\* Time, scans and history only go forward.
LEMMA NextAdvances ==
  ASSUME TInv, [Next]_vars
  PROVE  Advances
<1>1. /\ StateTyped /\ limit.faults \in Nat /\ limit.crashes \in Nat /\ clock \in Nat
      /\ spent.faults \in Nat /\ spent.crashes \in Nat
  BY SMTT(30) DEF TInv, StateTyped, Limit, Minutes
<1>2. /\ spent'.faults \in Nat /\ spent'.faults >= spent.faults
      /\ spent'.crashes \in Nat /\ spent'.crashes >= spent.crashes
  <2>1. CASE UNCHANGED spent
    BY <1>1, <2>1
  <2>2. ASSUME NEW what \in {"edits", "tests", "faults", "crashes"}, Spend(what)
        PROVE  /\ spent'.faults \in {spent.faults, spent.faults + 1}
               /\ spent'.crashes \in {spent.crashes, spent.crashes + 1}
    BY <1>1, <2>2 DEF Spend, StateTyped
  <2>3. QED BY <1>1, <2>1, <2>2, NextSpends
<1>3. clock' \in Nat /\ clock' >= clock /\ posts \subseteq posts'
  <2>1. CASE UNCHANGED vars
    BY <1>1, <2>1 DEF vars
  <2>2. ASSUME NEW p \in Evaluators, evaluateRule(p) PROVE clock' = clock /\ posts \subseteq posts'
    BY <2>2 DEF evaluateRule, EvaluateFails, Evaluate, Route, Decide, DecideBlindly, Send,
                Record, RecordFails, RecordFailure, patchRuleDelivery, ghosts
  <2>3. ASSUME Operators PROVE UNCHANGED <<clock, posts>>
    <3>1. ASSUME NEW t \in Togglers, SetRuleEnabled(t) PROVE UNCHANGED <<clock, posts>>
      BY <3>1 DEF SetRuleEnabled
    <3>2. ASSUME NEW t \in Togglers, NEW r, NEW enabled, GetRule(t, r, enabled)
          PROVE  UNCHANGED <<clock, posts>>
      BY <3>2 DEF GetRule, ghosts
    <3>3. ASSUME NEW config, CreateRule(config) PROVE UNCHANGED <<clock, posts>>
      BY <3>3 DEF CreateRule
    <3>4. ASSUME NEW config, NEW r, UpdateRule(r, config) PROVE UNCHANGED <<clock, posts>>
      BY <3>4 DEF UpdateRule
    <3>5. ASSUME SaveRoutingCatalog PROVE UNCHANGED <<clock, posts>>
      BY <3>5 DEF SaveRoutingCatalog, ghosts
    <3>6. QED BY <2>3, <3>1, <3>2, <3>3, <3>4, <3>5 DEF Operators
  <2>4. CASE EvaluateEnabledRulesForScan \/ ListRulesFails
    BY <1>1, <2>4 DEF EvaluateEnabledRulesForScan, ListRulesFails
  <2>5. ASSUME NEW p \in Testers, NEW r \in RuleIds, TestRule(p, r) PROVE UNCHANGED <<clock, posts>>
    BY <2>5 DEF TestRule, ghosts
  <2>6. CASE Tick \/ Crash
    BY <1>1, <2>6 DEF Tick, Crash, ghosts
  <2>7. QED BY <1>1, <2>1, <2>2, <2>3, <2>4, <2>5, <2>6 DEF Next
<1>4. QED
  BY <1>1, <1>2, <1>3 DEF Advances

\* A test request leaves the scan goroutine alone, bypasses the cooldown and
\* records and posts nothing automatic.
LEMMA TesterEffect ==
  ASSUME TInv, TestsBypass, NEW p \in Testers, evaluateRule(p)
  PROVE  /\ job'[Scanner] = job[Scanner]
         /\ UNCHANGED <<scan, answers, due, cut>>
         /\ \/ events' = events
            \/ \E e \in Event : e.forced /\ e.kind # "suppressed" /\ events' = prepend(e)
         /\ \A m \in posts' \ posts : m.forced
         /\ TestsBypass'
<1>p. /\ p \in Evaluators /\ p \in Procs /\ p # Scanner /\ Scanner \in Procs /\ Forced(p)
      /\ Testers \subseteq Procs
  BY DEF Evaluators, Procs, Forced
<1>b. /\ Busy(p) /\ \A q \in Procs \ {p} : job'[q] = job[q]
  BY <1>p, EvaluationEffect DEF Moves, Becomes
<1>o. ASSUME job'[p].at \in Drafted =>
                job'[p].at # "decide" /\ job'[p].event.kind # "suppressed"
      PROVE  TestsBypass'
  BY <1>p, <1>b, <1>o DEF TestsBypass
<1>i. NextJob(p) = Idle /\ Idle.at \notin Drafted
  BY <1>p, NullType DEF NextJob, Drafted
<1>f. /\ job[p].at \in Drafted => /\ job[p].event \in Event /\ job[p].event.forced
                                  /\ job[p].event.kind # "suppressed" /\ job[p].at # "decide"
  BY <1>p, DraftedEvent DEF TestsBypass, Kind
<1>1. CASE EvaluateFails(p) \/ RecordFails(p)
  <2>1. UNCHANGED <<scan, answers, due, cut, events, posts>> /\ ReturnError(p)
    BY <1>1 DEF EvaluateFails, RecordFails, ghosts, store
  <2>2. job'[p].at \notin Drafted
    BY <1>p, <1>i, <2>1, ReturnErrorEffect DEF Becomes
  <2>3. QED BY <1>p, <1>b, <1>o, <2>1, <2>2
<1>2. CASE Evaluate(p)
  <2>1. UNCHANGED <<scan, answers, due, cut, events, posts>>
    BY <1>2 DEF Evaluate, ghosts
  <2>2. job'[p].at = "route" /\ job'[p].event.kind = "quiet"
    <3>1. PICK triggered \in BOOLEAN : Moves(p, "route", draftEvent(p, triggered))
      BY <1>2, <1>p, EvaluateEffect
    <3>2. PICK e : e = draftEvent(p, triggered)
      OBVIOUS
    <3>3. e.kind = "quiet"
      BY <3>2 DEF draftEvent
    <3>4. QED BY <3>1, <3>2, <3>3 DEF Moves
  <2>3. QED BY <1>p, <1>b, <1>o, <2>1, <2>2
<1>3. CASE Route(p)
  <2>1. UNCHANGED <<scan, answers, due, cut, events, posts>> /\ job[p].at \in Drafted
    BY <1>3 DEF Route, ghosts, store, Drafted
  <2>2. ASSUME NEW kind \in {job[p].event.kind, "unroutable"},
               Moves(p, "record", [job[p].event EXCEPT !.kind = kind])
        PROVE  TestsBypass'
    <3>1. job'[p].at = "record" /\ job'[p].event = [job[p].event EXCEPT !.kind = kind]
      BY <2>2 DEF Moves
    <3>2. job'[p].event.kind = kind
      BY <1>f, <2>1, <3>1 DEF Event
    <3>3. QED BY <1>f, <1>o, <2>1, <3>1, <3>2
  <2>3. ASSUME Moves(p, "send", job[p].event) PROVE TestsBypass'
    BY <1>f, <1>o, <2>1, <2>3 DEF Moves
  <2>4. QED BY <1>3, <1>p, <1>b, <2>1, <2>2, <2>3, RouteEffect
<1>4. CASE Decide(p) \/ DecideBlindly(p)
  BY <1>4, <1>f DEF Decide, DecideBlindly, Drafted
<1>5. CASE Send(p)
  <2>1. UNCHANGED <<scan, answers, due, cut, events>> /\ job[p].at \in Drafted
    BY <1>5 DEF Send, store, Drafted
  <2>2. PICK kind \in {"ok", "failed"} :
          LET sent == [job[p].event EXCEPT !.kind = kind] IN
            /\ Moves(p, "record", sent) /\ sent \in Event
            /\ posts' = IF kind = "ok" THEN posts \cup {sent} ELSE posts
    BY <1>5, <1>p, SendEffect
  <2>3. PICK sent : sent = [job[p].event EXCEPT !.kind = kind]
    OBVIOUS
  <2>4. sent.forced /\ sent.kind = kind
    BY <1>f, <2>1, <2>3 DEF Event
  <2>5. /\ job'[p].at = "record" /\ job'[p].event = sent
        /\ posts' = IF kind = "ok" THEN posts \cup {sent} ELSE posts
    BY <2>2, <2>3 DEF Moves
  <2>6. QED BY <1>p, <1>b, <1>o, <2>1, <2>4, <2>5
<1>6. CASE Record(p)
  <2>1. /\ UNCHANGED <<scan, due, cut, posts>> /\ job[p].at \in Drafted
        /\ RecordEvent(p, job[p].event)
    BY <1>6 DEF Record, Drafted
  <2>2. events' = prepend(job[p].event) /\ answers' = answers
    BY <1>p, <2>1 DEF RecordEvent
  <2>3. job'[p].at \notin Drafted \/ (job'[p].at = "patch" /\ job'[p].event = job[p].event)
    BY <1>6, <1>p, <1>i, RecordEffect DEF Moves, Becomes
  <2>4. QED BY <1>p, <1>b, <1>f, <1>o, <2>1, <2>2, <2>3
<1>7. CASE RecordFailure(p)
  <2>1. UNCHANGED <<scan, due, cut, posts>>
    BY <1>7 DEF RecordFailure
  <2>2. PICK e : e = [draftEvent(p, FALSE) EXCEPT !.kind = "error"]
    OBVIOUS
  <2>3. e \in Event /\ e.forced /\ e.kind = "error"
    BY <1>p, <1>b, <2>2, DraftType DEF draftEvent
  <2>4. answers' = answers /\ (events' = events \/ events' = prepend(e))
    BY <1>7, <1>p, <2>2 DEF RecordFailure, RecordEvent
  <2>5. job'[p].at \notin Drafted
    BY <1>7, <1>p, <1>b, <1>i, FinishEffect DEF RecordFailure, Becomes
  <2>6. QED BY <1>p, <1>b, <1>o, <2>1, <2>3, <2>4, <2>5
<1>8. CASE patchRuleDelivery(p)
  <2>1. UNCHANGED <<scan, answers, due, cut, events, posts>>
    BY <1>8 DEF patchRuleDelivery, ghosts
  <2>2. job'[p].at \notin Drafted
    BY <1>8, <1>p, <1>b, <1>i, FinishEffect DEF patchRuleDelivery, Becomes
  <2>3. QED BY <1>p, <1>b, <1>o, <2>1, <2>2
<1>9. QED
  BY <1>1, <1>2, <1>3, <1>4, <1>5, <1>6, <1>7, <1>8 DEF evaluateRule

\* A step in which the scan goroutine has no part.
Aside ==
  /\ job'[Scanner] = job[Scanner]
  /\ UNCHANGED <<scan, answers, due, cut>>
  /\ \/ events' = events
     \/ \E e \in Event : e.forced /\ e.kind # "suppressed" /\ events' = prepend(e)
  /\ \A m \in posts' \ posts : m.forced

\* A step is one of the scan goroutine, opens or ends its work, or lies aside of
\* it.
LEMMA StepKinds ==
  ASSUME TInv, TestsBypass, [Next]_vars
  PROVE  /\ TestsBypass'
         /\ \/ Aside \/ evaluateRule(Scanner) \/ EvaluateEnabledRulesForScan
            \/ ListRulesFails \/ Crash
<1>p. /\ Testers \subseteq Procs /\ Scanner \in Procs /\ Scanner \in Evaluators
      /\ Scanner \notin Testers /\ job \in [Procs -> Job]
  BY DEF Procs, Evaluators, TInv, JobsSane
\* Test requests go on in their own steps only.
<1>o. ASSUME \A q \in Testers : job'[q] = job[q] \/ job'[q].at \notin Drafted
      PROVE  TestsBypass'
  BY <1>o DEF TestsBypass
<1>1. CASE UNCHANGED vars
  <2>1. UNCHANGED <<job, scan, answers, due, cut, events, posts>>
    BY <1>1 DEF vars
  <2>2. QED BY <1>o, <2>1 DEF Aside
<1>2. ASSUME NEW p \in Evaluators, evaluateRule(p)
      PROVE  TestsBypass' /\ (Aside \/ evaluateRule(Scanner))
  <2>1. CASE p = Scanner
    <3>1. \A q \in Procs \ {Scanner} : job'[q] = job[q]
      BY <1>p, <1>2, <2>1, EvaluationEffect DEF Moves, Becomes
    <3>2. QED BY <1>p, <1>o, <1>2, <2>1, <3>1
  <2>2. CASE p # Scanner
    <3>1. p \in Testers
      BY <2>2 DEF Evaluators
    <3>2. QED BY <1>2, <3>1, TesterEffect DEF Aside
  <2>3. QED BY <2>1, <2>2
<1>3. ASSUME Operators PROVE TestsBypass' /\ Aside
  <2>1. ASSUME NEW t \in Togglers, NEW j, job' = [job EXCEPT ![t] = j]
        PROVE  job'[Scanner] = job[Scanner] /\ \A q \in Testers : job'[q] = job[q]
    BY <1>p, <2>1
  <2>2. /\ UNCHANGED <<scan, answers, due, cut, events, posts>>
        /\ UNCHANGED job \/ \E t \in Togglers : \E j : job' = [job EXCEPT ![t] = j]
    <3>1. ASSUME NEW t \in Togglers, SetRuleEnabled(t)
          PROVE  /\ UNCHANGED <<scan, answers, due, cut, events, posts>>
                 /\ \E j : job' = [job EXCEPT ![t] = j]
      BY <3>1 DEF SetRuleEnabled
    <3>2. ASSUME NEW t \in Togglers, NEW r \in RuleIds, NEW enabled \in BOOLEAN,
                 GetRule(t, r, enabled)
          PROVE  /\ UNCHANGED <<scan, answers, due, cut, events, posts>>
                 /\ \E j : job' = [job EXCEPT ![t] = j]
      <4>1. PICK j : j = [Start(rules, r) EXCEPT !.at = "set", !.listed = << >>,
                                                 !.copy.config.enabled = enabled]
        OBVIOUS
      <4>2. QED BY <3>2, <4>1 DEF GetRule, ghosts, store
    <3>3. ASSUME NEW config, CreateRule(config)
          PROVE  UNCHANGED <<job, scan, answers, due, cut, events, posts>>
      BY <3>3 DEF CreateRule
    <3>4. ASSUME NEW config, NEW r, UpdateRule(r, config)
          PROVE  UNCHANGED <<job, scan, answers, due, cut, events, posts>>
      BY <3>4 DEF UpdateRule
    <3>5. ASSUME SaveRoutingCatalog
          PROVE  UNCHANGED <<job, scan, answers, due, cut, events, posts>>
      BY <3>5 DEF SaveRoutingCatalog, ghosts
    <3>6. QED BY <1>3, <3>1, <3>2, <3>3, <3>4, <3>5 DEF Operators
  <2>3. QED BY <1>o, <2>1, <2>2 DEF Aside
<1>4. ASSUME EvaluateEnabledRulesForScan \/ ListRulesFails PROVE TestsBypass'
  <2>1. UNCHANGED job \/ job' = [job EXCEPT ![Scanner] = Following(rules, 1)]
    BY <1>4 DEF EvaluateEnabledRulesForScan, ListRulesFails
  <2>2. \A q \in Testers : job'[q] = job[q]
    BY <1>p, <2>1
  <2>3. QED BY <1>o, <2>2
<1>5. ASSUME NEW p \in Testers, NEW r \in RuleIds, TestRule(p, r) PROVE TestsBypass' /\ Aside
  <2>1. PICK j : j = [Start(rules, r) EXCEPT !.listed = << >>]
    OBVIOUS
  <2>2. /\ UNCHANGED <<scan, answers, due, cut, events, posts>>
        /\ job' = [job EXCEPT ![p] = j]
    BY <1>5, <2>1 DEF TestRule, ghosts, store
  <2>3. j.at \notin Drafted
    BY <2>1 DEF Start, Drafted
  <2>4. /\ job'[Scanner] = job[Scanner]
        /\ \A q \in Testers : job'[q] = job[q] \/ job'[q].at \notin Drafted
    BY <1>p, <2>2, <2>3
  <2>5. QED BY <1>o, <2>2, <2>4 DEF Aside
<1>6. ASSUME Tick PROVE TestsBypass' /\ Aside
  BY <1>o, <1>6 DEF Tick, ghosts, store, Aside
<1>7. ASSUME Crash PROVE TestsBypass'
  <2>1. \A q \in Testers : job'[q].at = "idle"
    BY <1>p, <1>7, NullType DEF Crash
  <2>2. QED BY <1>o, <2>1 DEF Drafted
<1>8. QED
  BY <1>1, <1>2, <1>3, <1>4, <1>5, <1>6, <1>7 DEF Next

\* Operators, tests and the passing of time take nothing from the history.
LEMMA AsideKeepsHistory ==
  ASSUME HInv, [Next]_vars, Aside
  PROVE  EventUnderWay' /\ HistorySound' /\ PostsSound'
<1>1. /\ TInv /\ TInv' /\ StateTyped /\ Advances /\ events \in Seq(Event)
      /\ Len(events) <= MaxEvents /\ Scanner \in Procs /\ job[Scanner] \in Job
      /\ Len(events) \in Nat /\ Len(events') \in Nat /\ scan \in Nat
  BY SMTT(30), NextType, NextAdvances, LenProperties
     DEF HInv, TInv, StateTyped, Procs, Evaluators, JobsSane
<1>2. /\ HistorySound' /\ AnchorEvents' \subseteq AnchorEvents
      /\ Len(events') >= Len(events)
      /\ Len(events') < MaxEvents => Recorded \subseteq Recorded'
  <2>1. CASE events' = events
    <3>1. HistorySound'
      BY <1>1, <2>1, HistoryKept DEF HInv
    <3>2. QED BY <1>1, <2>1, <3>1 DEF AnchorEvents, Recorded
  <2>2. ASSUME NEW e \in Event, e.forced, e.kind # "suppressed", events' = prepend(e)
        PROVE  /\ HistorySound' /\ AnchorEvents' \subseteq AnchorEvents
               /\ Len(events') >= Len(events)
               /\ Len(events') < MaxEvents => Recorded \subseteq Recorded'
    <3>1. ~ isCooldownAnchor(e)
      BY <2>2 DEF isCooldownAnchor
    <3>2. HistorySound' /\ AnchorEvents' \subseteq AnchorEvents
      BY <1>1, <2>2, <3>1, HistoryGrows DEF HInv
    <3>3. QED BY <1>1, <2>2, <3>2, PrependRecorded
  <2>3. QED BY <2>1, <2>2 DEF Aside
<1>3. PostsSound'
  <2>1. scan' = scan /\ job'[Scanner] = job[Scanner] /\ \A m \in posts' \ posts : m.forced
    BY DEF Aside
  <2>2. QED BY <1>1, <1>2, <2>1, PostsKept DEF HInv
<1>4. EventUnderWay'
  <2>1. job'[Scanner] = job[Scanner]
    BY DEF Aside
  <2>2. ASSUME job[Scanner].at \in Drafted
        PROVE  Pending(job[Scanner].at, job[Scanner].event)'
    <3>1. PICK at, e : at = job[Scanner].at /\ e = job[Scanner].event
      OBVIOUS
    <3>2. e \in Event /\ Pending(at, e)
      BY <1>1, <2>2, <3>1, DraftedEvent DEF HInv, EventUnderWay, Kind
    <3>3. Pending(at, e)'
      BY <1>1, <1>2, <3>2, PendingStable
    <3>4. QED BY <2>1, <3>1, <3>3
  <2>3. QED BY <2>1, <2>2 DEF HInv, EventUnderWay
<1>5. QED
  BY <1>2, <1>3, <1>4

\* The scan goroutine has nothing under way any more, or not yet; it has posted
\* nothing and recorded at most the failure of a rule.
LEMMA SetsDown ==
  ASSUME HInv, [Next]_vars, job'[Scanner].at \notin Drafted, posts' = posts, scan' >= scan,
         ~ Undisturbed' \/ job[Scanner].at # "record",
         \/ events' = events
         \/ \E e \in Event : e.kind = "error" /\ events' = prepend(e)
  PROVE  EventUnderWay' /\ HistorySound' /\ PostsSound'
<1>t. TInv /\ TInv' /\ Advances
  BY NextType, NextAdvances DEF HInv
<1>1. /\ TInv /\ StateTyped /\ Advances /\ events \in Seq(Event)
      /\ Len(events) <= MaxEvents /\ Len(events) \in Nat /\ Len(events') \in Nat
      /\ scan \in Nat /\ scan' \in Nat
  BY SMTT(30), <1>t, LenProperties DEF TInv, StateTyped
<1>2. /\ HistorySound' /\ Len(events') >= Len(events)
      /\ Len(events') < MaxEvents => Recorded \subseteq Recorded'
  <2>1. CASE events' = events
    <3>1. HistorySound'
      BY <1>1, <2>1, HistoryKept DEF HInv
    <3>2. QED BY <1>1, <2>1, <3>1 DEF Recorded
  <2>2. ASSUME NEW e \in Event, e.kind = "error", events' = prepend(e)
        PROVE  /\ HistorySound' /\ Len(events') >= Len(events)
               /\ Len(events') < MaxEvents => Recorded \subseteq Recorded'
    <3>1. ~ isCooldownAnchor(e) /\ e.kind # "suppressed"
      BY <2>2 DEF isCooldownAnchor
    <3>2. HistorySound'
      BY <1>1, <2>2, <3>1, HistoryGrows DEF HInv
    <3>3. QED BY <1>1, <2>2, <3>2, PrependRecorded
  <2>3. QED BY <2>1, <2>2
<1>3. PostsSound'
  BY <1>1, <1>2, PostsKept DEF HInv
<1>4. QED
  BY <1>2, <1>3 DEF EventUnderWay

\* The scan goroutine goes on with an event, which is not yet to be recorded
\* as sent.
LEMMA GoesOn ==
  ASSUME HInv, [Next]_vars, NEW at \in Drafted, NEW e \in Event, Moves(Scanner, at, e),
         UNCHANGED <<events, posts, scan>>, job[Scanner].at # "record", Pending(at, e)',
         e.cooldown = job[Scanner].copy.config.cooldown
  PROVE  EventUnderWay' /\ HistorySound' /\ PostsSound'
<1>1. /\ TInv /\ StateTyped /\ Advances /\ Len(events) \in Nat /\ scan \in Nat
  BY NextAdvances, LenProperties DEF HInv, TInv, StateTyped
<1>2. HistorySound' /\ Recorded' = Recorded
  BY <1>1, HistoryKept DEF HInv, Recorded
<1>3. PostsSound'
  BY <1>1, <1>2, PostsKept DEF HInv
<1>4. /\ job'[Scanner].at = at /\ job'[Scanner].event = e
      /\ job'[Scanner].copy = job[Scanner].copy
  BY DEF Moves
<1>5. EventUnderWay'
  BY <1>4 DEF EventUnderWay
<1>6. QED
  BY <1>2, <1>3, <1>5

\* What is known of the scan goroutine's event.
LEMMA UnderWay ==
  ASSUME HInv, job[Scanner].at \in Drafted
  PROVE  /\ job[Scanner].event \in Event
         /\ job[Scanner].event.rule = job[Scanner].rule
         /\ ~ job[Scanner].event.forced /\ job[Scanner].event.scan = scan
         /\ job[Scanner].event.cooldown = job[Scanner].copy.config.cooldown
         /\ Pending(job[Scanner].at, job[Scanner].event)
<1>1. Scanner \in Procs /\ ~ Forced(Scanner) /\ TInv
  BY DEF Procs, Evaluators, Forced, HInv
<1>2. QED
  BY <1>1, DraftedEvent DEF Kind, HInv, EventUnderWay

\* Drafting an event records nothing.
LEMMA EvaluateKeepsHistory ==
  ASSUME HInv, [Next]_vars, Evaluate(Scanner)
  PROVE  EventUnderWay' /\ HistorySound' /\ PostsSound'
<1>1. /\ TInv /\ Scanner \in Evaluators /\ Busy(Scanner) /\ job[Scanner].at = "evaluate"
      /\ UNCHANGED <<events, posts, scan, clock>>
  BY DEF HInv, Evaluators, Evaluate, Busy, ghosts
<1>2. PICK triggered \in BOOLEAN : Moves(Scanner, "route", draftEvent(Scanner, triggered))
  BY <1>1, EvaluateEffect
<1>3. PICK e : e = draftEvent(Scanner, triggered)
  OBVIOUS
<1>4. /\ e \in Event /\ e.at = clock /\ e.kind = "quiet" /\ ~ e.blind
      /\ e.cooldown = job[Scanner].copy.config.cooldown
  BY <1>1, <1>3, DraftType
<1>5. Pending("route", e)'
  <2>1. e.at <= clock'
    BY <1>1, <1>4, EventNumbers
  <2>2. Behind(e)'
    BY <1>1, <1>4 DEF HInv, HistorySound, Behind, AnchorEvents, Recorded
  <2>3. QED BY <1>4, <2>1, <2>2 DEF Pending
<1>6. QED
  BY <1>1, <1>2, <1>3, <1>4, <1>5, GoesOn DEF Drafted

\* Whatever is not sent yet is under way as it was.
LEMMA SameAnchors ==
  ASSUME HInv, [Next]_vars, UNCHANGED events, NEW at, NEW e \in Event, Pending(at, e)
  PROVE  Pending(at, e)'
<1>1. AnchorEvents' = AnchorEvents
  BY DEF AnchorEvents, Recorded
<1>2. Advances
  BY NextAdvances DEF HInv
<1>3. QED
  BY <1>1, <1>2, PendingStable

\* Choosing a destination records nothing.
LEMMA RouteKeepsHistory ==
  ASSUME HInv, [Next]_vars, Route(Scanner)
  PROVE  EventUnderWay' /\ HistorySound' /\ PostsSound'
<1>1. /\ TInv /\ Scanner \in Evaluators /\ job[Scanner].at = "route"
      /\ job[Scanner].at \in Drafted /\ UNCHANGED <<events, posts, scan, clock>>
  BY DEF HInv, Evaluators, Route, Drafted, ghosts, store
<1>2. PICK e : e = job[Scanner].event
  OBVIOUS
<1>3. /\ e \in Event /\ e.cooldown = job[Scanner].copy.config.cooldown
      /\ Pending("route", e) /\ e.kind = "quiet"
  <2>1. Pending("route", e) /\ e \in Event /\ e.cooldown = job[Scanner].copy.config.cooldown
    BY <1>1, <1>2, UnderWay
  <2>2. QED BY <2>1 DEF Pending
<1>4. ASSUME NEW kind \in {"quiet", "unroutable"},
             Moves(Scanner, "record", [e EXCEPT !.kind = kind])
      PROVE  EventUnderWay' /\ HistorySound' /\ PostsSound'
  <2>1. PICK f : f = [e EXCEPT !.kind = kind]
    OBVIOUS
  <2>2. /\ f \in Event /\ f.kind = kind /\ f.at = e.at /\ f.blind = e.blind
        /\ f.cooldown = e.cooldown
    BY <1>3, <2>1 DEF Event, Kind
  <2>3. Pending("record", f)
    BY <1>3, <2>2 DEF Pending, Behind, Settled
  <2>4. QED BY <1>1, <1>3, <1>4, <2>1, <2>2, <2>3, SameAnchors, GoesOn DEF Drafted
<1>5. ASSUME Moves(Scanner, "decide", e), e.triggered
      PROVE  EventUnderWay' /\ HistorySound' /\ PostsSound'
  <2>1. Pending("decide", e)
    BY <1>3, <1>5 DEF Pending
  <2>2. QED BY <1>1, <1>3, <1>5, <2>1, SameAnchors, GoesOn DEF Drafted
<1>6. ASSUME Moves(Scanner, "send", e), e.triggered, e.cooldown = 0
      PROVE  EventUnderWay' /\ HistorySound' /\ PostsSound'
  <2>1. AnchorEvents \subseteq Event
    BY RecordedType DEF HInv, TInv, StateTyped
  <2>2. \A a \in AnchorEvents : a.at \in Nat
    BY <2>1, EventNumbers
  <2>3. Spaced(e)
    BY <1>3, <1>6, <2>2, EventNumbers DEF Pending, Behind, Spaced
  <2>4. Pending("send", e)
    BY <1>3, <1>6, <2>3 DEF Pending
  <2>5. QED BY <1>1, <1>3, <1>6, <2>4, SameAnchors, GoesOn DEF Drafted
<1>7. QED
  BY <1>1, <1>2, <1>3, <1>4, <1>5, <1>6, RouteEffect

\* The decision to suppress rests on the last delivery in the history.
LEMMA DecideKeepsHistory ==
  ASSUME HInv, [Next]_vars, Decide(Scanner) \/ DecideBlindly(Scanner)
  PROVE  EventUnderWay' /\ HistorySound' /\ PostsSound'
<1>1. /\ TInv /\ StateTyped /\ Scanner \in Evaluators /\ job[Scanner].at = "decide"
      /\ job[Scanner].at \in Drafted /\ UNCHANGED <<events, posts, scan, clock>>
  BY DEF HInv, TInv, Evaluators, Decide, DecideBlindly, Drafted, ghosts, store
<1>2. PICK e : e = job[Scanner].event
  OBVIOUS
<1>3. /\ e \in Event /\ e.cooldown = job[Scanner].copy.config.cooldown
      /\ e.rule = job[Scanner].rule /\ Pending("decide", e)
  BY <1>1, <1>2, UnderWay
<1>4. e.at <= clock /\ Behind(e) /\ e.kind = "quiet" /\ e.triggered /\ (e.blind => spent.faults > 0)
  BY <1>3 DEF Pending
<1>5. ASSUME NEW f \in Event, Moves(Scanner, "record", f), f.rule = e.rule, f.at = e.at,
             f.blind = e.blind, f.cooldown = e.cooldown,
             f.kind = "suppressed", f.anchor = findCooldownAnchor(e.rule).at,
             DecideCooldownSuppression(e.rule, e.cooldown, e.at)
      PROVE  EventUnderWay' /\ HistorySound' /\ PostsSound'
  <2>1. Behind(f)
    BY <1>4, <1>5 DEF Behind
  <2>2. Delivered(f)
    BY <1>1, <1>5, <2>1, SuppressedDelivered DEF HInv
  <2>3. Pending("record", f)
    BY <1>4, <1>5, <2>1, <2>2 DEF Pending, Settled
  <2>4. QED BY <1>1, <1>3, <1>5, <2>3, SameAnchors, GoesOn DEF Drafted
<1>6. ASSUME Moves(Scanner, "send", e), ~ DecideCooldownSuppression(e.rule, e.cooldown, e.at)
      PROVE  EventUnderWay' /\ HistorySound' /\ PostsSound'
  <2>1. Spaced(e)
    BY <1>1, <1>3, <1>4, <1>6, NotSuppressed DEF HInv, HistorySound
  <2>2. Pending("send", e)
    BY <1>3, <1>4, <2>1 DEF Pending
  <2>3. QED BY <1>1, <1>3, <1>6, <2>2, SameAnchors, GoesOn DEF Drafted
<1>7. CASE Decide(Scanner)
  <2>1. \/ /\ DecideCooldownSuppression(e.rule, e.cooldown, e.at)
           /\ \E f \in Event :
                /\ Moves(Scanner, "record", f) /\ f.rule = e.rule /\ f.at = e.at
                /\ f.cooldown = e.cooldown /\ f.blind = e.blind
                /\ f.kind = "suppressed" /\ f.anchor = findCooldownAnchor(e.rule).at
        \/ /\ ~ DecideCooldownSuppression(e.rule, e.cooldown, e.at)
           /\ Moves(Scanner, "send", e)
    BY <1>1, <1>2, <1>3, <1>7, DecideEffect
  <2>2. QED BY <1>5, <1>6, <2>1
<1>8. CASE DecideBlindly(Scanner)
  <2>1. PICK f \in Event : /\ Moves(Scanner, "send", f) /\ f.at = e.at /\ f.kind = e.kind
                           /\ f.cooldown = e.cooldown /\ f.triggered = e.triggered /\ f.blind
    BY <1>1, <1>2, <1>8, DecideBlindlyEffect
  <2>2. spent'.faults > 0
    <3>1. spent.faults \in Nat /\ spent'.faults = spent.faults + 1
      BY <1>1, <1>8 DEF DecideBlindly, Fault, Spend, StateTyped
    <3>2. QED BY <3>1
  <2>3. Behind(f)'
    BY <1>1, <1>4, <2>1 DEF Behind, AnchorEvents, Recorded
  <2>4. Pending("send", f)'
    BY <1>1, <1>4, <2>1, <2>2, <2>3 DEF Pending
  <2>5. QED BY <1>1, <1>3, <2>1, <2>4, GoesOn DEF Drafted
<1>9. QED
  BY <1>7, <1>8

\* A message: it is a cooldown after every automatic one that is remembered,
\* and all of them are.
LEMMA SendKeepsHistory ==
  ASSUME HInv, [Next]_vars, Send(Scanner)
  PROVE  EventUnderWay' /\ HistorySound' /\ PostsSound'
<1>1. /\ TInv /\ StateTyped /\ Scanner \in Evaluators /\ job[Scanner].at = "send"
      /\ job[Scanner].at \in Drafted /\ UNCHANGED <<events, scan, clock, spent>>
      /\ Advances /\ scan \in Nat
  BY NextAdvances DEF HInv, TInv, StateTyped, Evaluators, Send, Drafted, store
<1>2. PICK e : e = job[Scanner].event
  OBVIOUS
<1>3. /\ e \in Event /\ e.cooldown = job[Scanner].copy.config.cooldown
      /\ ~ e.forced /\ e.scan = scan /\ Pending("send", e)
  BY <1>1, <1>2, UnderWay
<1>4. /\ e.at <= clock /\ Behind(e) /\ e.triggered /\ (e.blind => spent.faults > 0)
      /\ ~ e.blind => Spaced(e)
  BY <1>3 DEF Pending
<1>5. PICK kind \in {"ok", "failed"}, sent \in Event :
        /\ sent = [e EXCEPT !.kind = kind] /\ Moves(Scanner, "record", sent)
        /\ posts' = IF kind = "ok" THEN posts \cup {sent} ELSE posts
  BY <1>1, <1>2, SendEffect
<1>6. /\ sent.rule = e.rule /\ sent.at = e.at /\ sent.scan = e.scan /\ sent.forced = e.forced
      /\ sent.kind = kind /\ sent.triggered = e.triggered /\ sent.blind = e.blind
      /\ sent.cooldown = e.cooldown
  BY <1>3, <1>5 DEF Event
<1>7. /\ job'[Scanner].at = "record" /\ job'[Scanner].event = sent
      /\ job'[Scanner].copy = job[Scanner].copy
  BY <1>5 DEF Moves
<1>8. AnchorEvents' = AnchorEvents /\ Recorded' = Recorded
  BY <1>1 DEF AnchorEvents, Recorded
<1>9. EventUnderWay'
  <2>1. Behind(sent)' /\ (~ sent.blind => Spaced(sent)')
    BY <1>4, <1>6, <1>8 DEF Behind, Spaced
  <2>2. Settled(sent)'
    BY <1>4, <1>5, <1>6, <2>1 DEF Settled
  <2>3. Pending("record", sent)'
    BY <1>1, <1>4, <1>6, <2>1, <2>2 DEF Pending
  <2>4. QED BY <1>3, <1>6, <1>7, <2>3 DEF EventUnderWay
<1>10. HistorySound'
  BY <1>1, HistoryKept DEF HInv
<1>11. ASSUME NEW m \in posts', m \notin posts PROVE m = sent /\ sent.kind = "ok"
  BY <1>5, <1>6, <1>11
<1>12. PostsSound'
  <2>1. ASSUME NEW m \in posts', ~ m.forced
        PROVE  m.triggered /\ m.kind = "ok" /\ m.scan <= scan'
    <3>1. CASE m \in posts
      BY <1>1, <2>1, <3>1 DEF HInv, PostsSound
    <3>2. CASE m \notin posts
      <4>1. m = sent /\ sent.kind = "ok"
        BY <1>11, <3>2
      <4>2. sent.triggered /\ sent.scan = scan
        BY <1>3, <1>4, <1>6
      <4>3. scan' = scan /\ scan <= scan
        BY <1>1
      <4>4. QED BY <4>1, <4>2, <4>3
    <3>3. QED BY <3>1, <3>2
  <2>2. Undisturbed' => Undisturbed /\ spent.faults = 0
    BY <1>1 DEF Undisturbed
  \* Whoever sends has recorded all it sent before.
  <2>3. ASSUME Undisturbed', NEW m \in posts, ~ m.forced PROVE m \in Recorded
    BY <1>1, <2>2, <2>3 DEF HInv, PostsSound
  <2>4. ASSUME NEW m \in posts', NEW n \in posts', Undisturbed', m.rule = n.rule,
               m.scan < n.scan, ~ m.forced, ~ n.forced
        PROVE  n.at >= m.at + n.cooldown
    <3>n. m.scan \in Nat /\ n.scan \in Nat
      <4>1. posts \subseteq Event /\ sent \in Event
        BY <1>1, <1>5 DEF StateTyped
      <4>2. m \in Event /\ n \in Event
        BY <1>11, <4>1
      <4>3. QED BY <4>2, EventNumbers
    <3>1. CASE m \notin posts
      <4>1. m.scan = scan /\ n.scan <= scan
        BY <1>1, <1>3, <1>6, <1>11, <2>1, <2>4, <3>1
      <4>2. QED BY <1>1, <2>4, <3>n, <4>1
    <3>2. CASE m \in posts /\ n \in posts
      BY <1>1, <2>2, <2>4, <3>2 DEF HInv, PostsSound, CooldownWhileRemembered, Undisturbed
    <3>3. CASE m \in posts /\ n \notin posts
      <4>1. n = sent
        BY <1>11, <3>3
      <4>2. m \in AnchorEvents
        BY <2>3, <2>4, <3>3 DEF AnchorEvents, isCooldownAnchor, HInv, PostsSound
      <4>3. ~ e.blind
        BY <1>4, <2>2, <2>4
      <4>4. QED BY <1>4, <1>6, <2>4, <4>1, <4>2, <4>3 DEF Spaced
    <3>4. QED BY <3>1, <3>2, <3>3
  <2>5. ASSUME Undisturbed', NEW m \in posts', ~ m.forced
        PROVE  m \in Recorded' \/ (job'[Scanner].at = "record" /\ m = job'[Scanner].event)
    BY <1>7, <1>8, <1>11, <2>3, <2>5
  <2>6. CooldownWhileRemembered'
    BY <2>4 DEF CooldownWhileRemembered, Undisturbed
  <2>7. QED BY <2>1, <2>5, <2>6 DEF PostsSound
<1>13. QED
  BY <1>9, <1>10, <1>12

\* The rule that is next has no event yet.
LEMMA NextJobDown ==
  ASSUME TInv, Busy(Scanner)
  PROVE  NextJob(Scanner).at \notin Drafted
<1>1. Scanner \in Procs /\ ~ Forced(Scanner)
  BY DEF Procs, Evaluators, Forced
<1>2. job[Scanner].listed \in Seq(StoredRule) /\ job[Scanner].rule \in 1..Len(rules)
  BY <1>1, BusyJob
<1>3. job[Scanner].rule + 1 \in Nat \ {0}
  BY <1>2
<1>4. NextJob(Scanner) = Following(job[Scanner].listed, job[Scanner].rule + 1)
  BY <1>1 DEF NextJob
<1>5. CASE NextJob(Scanner) = Idle
  BY <1>5, NullType DEF Drafted
<1>6. ASSUME NEW q, NextJob(Scanner) = Start(job[Scanner].listed, q)
      PROVE  NextJob(Scanner).at \notin Drafted
  BY <1>6 DEF Start, Drafted
<1>7. QED
  BY <1>2, <1>3, <1>4, <1>5, <1>6, FollowingType

\* The event is recorded.
LEMMA RecordKeepsHistory ==
  ASSUME HInv, [Next]_vars, Record(Scanner)
  PROVE  EventUnderWay' /\ HistorySound' /\ PostsSound'
<1>1. /\ TInv /\ TInv' /\ StateTyped /\ Scanner \in Evaluators /\ job[Scanner].at = "record"
      /\ job[Scanner].at \in Drafted /\ UNCHANGED <<posts, scan, clock, spent>>
      /\ Advances /\ scan \in Nat /\ events \in Seq(Event) /\ Len(events) <= MaxEvents
      /\ clock \in Nat /\ job[Scanner] \in Job /\ Busy(Scanner) /\ Scanner \in Procs
  BY NextAdvances, NextType
     DEF HInv, TInv, JobsSane, StateTyped, Evaluators, Procs, Record, Drafted, Minutes, Busy
<1>l. Len(events) \in Nat /\ Len(events') \in Nat
  BY <1>1, LenProperties DEF TInv, StateTyped
<1>2. PICK e : e = job[Scanner].event
  OBVIOUS
<1>3. /\ e \in Event /\ e.cooldown = job[Scanner].copy.config.cooldown
      /\ ~ e.forced /\ e.scan = scan /\ Pending("record", e)
  BY <1>1, <1>2, UnderWay
<1>4. e.at <= clock /\ Behind(e) /\ (e.blind => spent.faults > 0) /\ Settled(e)
  BY <1>3 DEF Pending
<1>5. events' = prepend(e)
  BY <1>2 DEF Record, RecordEvent
<1>6. /\ HistorySound'
      /\ \A a \in AnchorEvents' : a \in AnchorEvents \/ (a = e /\ isCooldownAnchor(e))
  <2>1. isCooldownAnchor(e) => /\ e.at <= clock' /\ Behind(e) /\ e \in posts
                               /\ ~ e.blind => Spaced(e)
    BY <1>1, <1>4 DEF isCooldownAnchor, Settled
  <2>2. e.kind = "suppressed" => Delivered(e)
    BY <1>4 DEF Settled
  <2>3. QED BY <1>1, <1>3, <1>5, <2>1, <2>2, HistoryGrows DEF HInv
<1>7. PostsSound'
  <2>1. /\ Len(events') >= Len(events) /\ e \in Recorded'
        /\ Len(events') < MaxEvents => Recorded \subseteq Recorded'
    BY <1>1, <1>3, <1>5, PrependRecorded
  <2>2. QED BY <1>1, <1>l, <1>2, <2>1, PostsKept DEF HInv
<1>8. EventUnderWay'
  <2>1. CASE Becomes(Scanner, NextJob(Scanner))
    <3>1. job'[Scanner].at \notin Drafted
      BY <1>1, <2>1, NextJobDown DEF Becomes
    <3>2. QED BY <3>1 DEF EventUnderWay
  <2>2. CASE Moves(Scanner, "patch", e)
    <3>1. /\ job'[Scanner].at = "patch" /\ job'[Scanner].event = e
          /\ job'[Scanner].copy = job[Scanner].copy
      BY <2>2 DEF Moves
    <3>2. Behind(e)'
      <4>1. e.at \in Nat
        BY <1>3, EventNumbers
      <4>2. QED BY <1>4, <1>6, <4>1 DEF Behind
    <3>3. Pending("patch", e)'
      BY <1>1, <1>4, <3>2 DEF Pending
    <3>4. QED BY <1>3, <3>1, <3>3 DEF EventUnderWay
  <2>3. QED BY <1>1, <1>2, <2>1, <2>2, RecordEffect
<1>9. QED
  BY <1>6, <1>7, <1>8

\* No step of the evaluation of a scan breaks what is kept of the history.
LEMMA ScannerKeepsHistory ==
  ASSUME HInv, [Next]_vars, evaluateRule(Scanner)
  PROVE  EventUnderWay' /\ HistorySound' /\ PostsSound'
<1>1. /\ TInv /\ StateTyped /\ Scanner \in Evaluators /\ Busy(Scanner) /\ scan \in Nat
      /\ Advances /\ "fail" \notin Drafted
  BY EvaluationEffect, NextAdvances DEF HInv, TInv, StateTyped, Evaluators, Drafted
<1>2. CASE EvaluateFails(Scanner) \/ RecordFails(Scanner)
  <2>1. UNCHANGED <<events, posts, scan>> /\ ReturnError(Scanner) /\ Fault
    BY <1>2 DEF EvaluateFails, RecordFails, ghosts, store
  <2>2. job'[Scanner].at \notin Drafted
    BY <1>1, <2>1, ReturnErrorEffect DEF Moves
  <2>3. spent'.faults # 0
    <3>1. spent.faults \in Nat /\ spent'.faults = spent.faults + 1
      BY <1>1, <2>1 DEF Fault, Spend, StateTyped
    <3>2. QED BY <3>1
  <2>4. QED BY <1>1, <2>1, <2>2, <2>3, SetsDown DEF Undisturbed
<1>3. CASE RecordFailure(Scanner)
  <2>1. /\ UNCHANGED <<posts, scan>> /\ job[Scanner].at = "fail"
    BY <1>3 DEF RecordFailure
  <2>2. job'[Scanner].at \notin Drafted
    BY <1>1, <1>3, FinishEffect, NextJobDown DEF RecordFailure, Becomes
  <2>3. PICK e : e = [draftEvent(Scanner, FALSE) EXCEPT !.kind = "error"]
    OBVIOUS
  <2>4. e \in Event
    BY <1>1, <2>3, DraftType
  <2>5. e.kind = "error"
    BY <2>3 DEF draftEvent
  <2>6. events' = events \/ events' = prepend(e)
    BY <1>3, <2>3 DEF RecordFailure, RecordEvent
  <2>7. QED BY <1>1, <2>1, <2>2, <2>4, <2>5, <2>6, SetsDown
<1>4. CASE patchRuleDelivery(Scanner)
  <2>1. UNCHANGED <<events, posts, scan>> /\ job[Scanner].at = "patch"
    BY <1>4 DEF patchRuleDelivery, ghosts
  <2>2. job'[Scanner].at \notin Drafted
    BY <1>1, <1>4, FinishEffect, NextJobDown DEF patchRuleDelivery, Becomes
  <2>3. QED BY <1>1, <2>1, <2>2, SetsDown
<1>5. QED
  BY <1>2, <1>3, <1>4, EvaluateKeepsHistory, RouteKeepsHistory, DecideKeepsHistory,
     SendKeepsHistory, RecordKeepsHistory DEF evaluateRule

\* The invariant of the history is inductive.
LEMMA NextKeepsHistory ==
  HInv /\ [Next]_vars => HInv'
<1> SUFFICES ASSUME HInv, [Next]_vars PROVE HInv'
  OBVIOUS
<1>1. TInv' /\ TestsBypass'
  BY NextType, StepKinds DEF HInv
<1>2. /\ TInv /\ StateTyped /\ scan \in Nat /\ Scanner \in Procs /\ job \in [Procs -> Job]
      /\ rules \in Seq(StoredRule) /\ spent.crashes \in Nat
  BY SMTT(30) DEF HInv, TInv, StateTyped, JobsSane, Procs, Evaluators, Limit
<1>3. ASSUME EvaluateEnabledRulesForScan \/ ListRulesFails
      PROVE  EventUnderWay' /\ HistorySound' /\ PostsSound'
  <2>1. /\ UNCHANGED <<events, posts>> /\ scan' = scan + 1 /\ ~ Busy(Scanner)
        /\ job'[Scanner] \in {job[Scanner], Following(rules, 1)}
    BY <1>2, <1>3 DEF EvaluateEnabledRulesForScan, ListRulesFails, store
  <2>2. job[Scanner].at = "idle"
    BY <2>1 DEF Busy
  <2>3. Following(rules, 1).at \notin Drafted
    <3>1. ASSUME NEW q, Following(rules, 1) = Start(rules, q)
          PROVE  Following(rules, 1).at \notin Drafted
      BY <3>1 DEF Start, Drafted
    <3>2. QED BY <1>2, <3>1, FollowingType, NullType DEF Drafted
  <2>4. job'[Scanner].at \notin Drafted
    BY <2>1, <2>2, <2>3 DEF Drafted
  <2>5. QED BY <1>2, <2>1, <2>2, <2>4, SetsDown
<1>4. ASSUME Crash PROVE EventUnderWay' /\ HistorySound' /\ PostsSound'
  <2>1. UNCHANGED <<events, posts, scan>> /\ job'[Scanner] = Idle
    BY <1>2, <1>4 DEF Crash, store
  <2>2. spent'.crashes # 0
    <3>1. spent'.crashes = spent.crashes + 1
      BY <1>2, <1>4 DEF Crash, Spend, StateTyped
    <3>2. QED BY <1>2, <3>1
  <2>3. job'[Scanner].at \notin Drafted
    BY <2>1, NullType DEF Drafted
  <2>4. QED BY <1>2, <2>1, <2>2, <2>3, SetsDown DEF Undisturbed
<1>5. EventUnderWay' /\ HistorySound' /\ PostsSound'
  BY <1>3, <1>4, StepKinds, AsideKeepsHistory, ScannerKeepsHistory DEF HInv
<1>6. QED
  BY <1>1, <1>5 DEF HInv

\* It holds of an empty history.
LEMMA HistoryStarts ==
  Init => HInv
<1> SUFFICES ASSUME Init PROVE HInv
  OBVIOUS
<1>1. TInv
  BY InitType
<1>2. Len(events) = 0 /\ posts = {} /\ \A p \in Procs : job[p].at = "idle"
  BY NullType DEF Init
<1>3. 1..Len(events) = {}
  BY <1>2
<1>4. AnchorEvents = {}
  BY <1>3 DEF AnchorEvents, Recorded
<1>5. HistorySound
  BY <1>3, <1>4 DEF HistorySound, AnchorsOrdered, AnchorsSpaced, SuppressedWasDelivered
<1>6. PostsSound
  BY <1>2 DEF PostsSound, CooldownWhileRemembered
<1>7. EventUnderWay /\ TestsBypass
  BY <1>2 DEF EventUnderWay, TestsBypass, Drafted, Procs, Evaluators
<1>8. QED
  BY <1>1, <1>5, <1>6, <1>7 DEF HInv

\* HInv is an inductive invariant.
LEMMA HistoryInvariant ==
  Spec => []HInv
BY HistoryStarts, NextKeepsHistory, PTL DEF Spec

\* Two automatic deliveries in the history are a cooldown apart, whatever test
\* requests, edits of the cooldown, failures and crashes come between them.
THEOREM AnchorsSpacedHolds ==
  Spec => []AnchorsSpaced
<1>1. HInv => AnchorsSpaced
  BY DEF HInv, HistorySound
<1>2. QED
  BY <1>1, HistoryInvariant, PTL

\* An alert is suppressed only if Slack acknowledged an automatic message of
\* its rule less than a cooldown before.
THEOREM SuppressedWasDeliveredHolds ==
  Spec => []SuppressedWasDelivered
<1>1. HInv => SuppressedWasDelivered
  BY DEF HInv, HistorySound
<1>2. QED
  BY <1>1, HistoryInvariant, PTL

\* As long as the history has room and nothing fails, no two automatic messages
\* of a rule are posted within a cooldown.
THEOREM CooldownWhileRememberedHolds ==
  Spec => []CooldownWhileRemembered
<1>1. HInv => CooldownWhileRemembered
  BY DEF HInv, PostsSound
<1>2. QED
  BY <1>1, HistoryInvariant, PTL

-----------------------------------------------------------------------------
(* The account of the rules.                                               *)

\* What the goroutine knows of the scan it evaluates.
LEMMA ScannerAtWork ==
  ASSUME TInv, Busy(Scanner)
  PROVE  /\ Scanner \in Procs /\ Scanner \in Evaluators /\ job[Scanner] \in Job
         /\ scan \in Scans /\ scan \in Nat
         /\ job[Scanner].listed \in Seq(StoredRule) /\ Len(job[Scanner].listed) \in Nat
         /\ Len(job[Scanner].listed) <= NumRules
         /\ job[Scanner].rule \in 1..Len(job[Scanner].listed) /\ job[Scanner].rule \in RuleIds
         /\ answers \in [Scans -> [RuleIds -> Nat]] /\ due \in [Scans -> SUBSET RuleIds]
<1>1. /\ Scanner \in Procs /\ Scanner \in Evaluators
      /\ answers \in [Scans -> [RuleIds -> Nat]] /\ due \in [Scans -> SUBSET RuleIds]
      /\ Len(rules) \in Nat /\ Len(rules) <= NumRules
  BY LenProperties DEF Procs, Evaluators, TInv, StateTyped
<1>2. /\ job[Scanner] \in Job /\ job[Scanner] # Idle /\ Sane(Scanner)
      /\ job[Scanner].rule \in RuleIds /\ job[Scanner].listed \in Seq(StoredRule)
      /\ scan \in Scans
  BY <1>1, BusyJob DEF TInv, JobsSane
<1>3. Len(job[Scanner].listed) \in Nat
  BY <1>2, LenProperties
<1>4. QED
  BY SMTT(30), <1>1, <1>2, <1>3 DEF Sane, RuleIds, Scans

\* The account when the goroutine goes on with its rule: it records the rule's
\* event on the way to "patch" and nowhere else.
LEMMA AccountOfRule ==
  ASSUME AInv, Advances, Busy(Scanner), NEW at \in At \ {"idle"}, NEW event,
         Moves(Scanner, at, event), UNCHANGED <<scan, due, cut>>,
         job[Scanner].at # "patch", at = "fail" => spent'.faults >= 1,
         \A s \in Scans, r \in RuleIds :
            answers'[s][r] = IF at = "patch" /\ s = scan /\ r = job[Scanner].rule
                             THEN answers[s][r] + 1 ELSE answers[s][r]
  PROVE  Account' /\ AccountUnderWay'
<1> DEFINE R == job[Scanner].rule
           L == job[Scanner].listed
<1>1. /\ scan \in Scans /\ scan \in Nat /\ R \in RuleIds /\ R \in Nat /\ Busy(Scanner)'
      /\ job'[Scanner].rule = R /\ job'[Scanner].listed = L /\ job'[Scanner].at = at
  BY ScannerAtWork DEF AInv, Moves, Busy, RuleIds
<1>2. /\ due[scan] = {r \in 1..Len(L) : L[r].config.enabled} /\ R \in due[scan]
      /\ answers[scan][R] = 0
      /\ \A r \in RuleIds :
           /\ r < R => r \notin due[scan] \/ answers[scan][r] = 1 \/ spent.faults >= 2
           /\ r > R => answers[scan][r] = 0
  BY DEF AInv, AccountUnderWay
<1>3. answers'[scan][R] = IF at = "patch" THEN 1 ELSE 0
  BY <1>1, <1>2
<1>4. \A r \in RuleIds : r # R => answers'[scan][r] = answers[scan][r]
  BY <1>1
<1>5. \A n \in Nat : spent.faults >= n => spent'.faults >= n
  BY DEF Advances
<1> HIDE DEF R, L
<1>6. AccountUnderWay'
  <2>1. \A r \in RuleIds :
          /\ r < R => r \notin due[scan] \/ answers'[scan][r] = 1 \/ spent'.faults >= 2
          /\ r > R => answers'[scan][r] = 0
    BY <1>1, <1>2, <1>4, <1>5 DEF RuleIds
  <2>2. QED
    BY <1>1, <1>2, <1>3, <2>1 DEF AccountUnderWay
<1>7. Account'
  <2> SUFFICES ASSUME NEW s \in Scans, NEW r \in RuleIds
               PROVE  /\ s > scan => answers'[s][r] = 0
                      /\ answers'[s][r] <= IF r \in due[s] THEN 1 ELSE 0
                      /\ s < scan => s \in cut \/ r \notin due[s] \/ answers'[s][r] = 1
                                       \/ spent'.faults >= 2
    BY <1>1 DEF Account, Scans
  <2>1. /\ s > scan => answers[s][r] = 0
        /\ answers[s][r] <= IF r \in due[s] THEN 1 ELSE 0
        /\ s < scan => s \in cut \/ r \notin due[s] \/ answers[s][r] = 1 \/ spent.faults >= 2
    BY DEF AInv, Account
  <2>2. CASE s = scan /\ r = R
    BY <1>1, <1>2, <1>3, <2>2
  <2>3. CASE ~ (s = scan /\ r = R)
    BY <1>1, <1>5, <2>1, <2>3 DEF R
  <2>4. QED BY <2>2, <2>3
<1>8. QED
  BY <1>6, <1>7

\* The account when the goroutine is through with its rule: the rule has been
\* answered, or two operations have failed.  No rule that is due is skipped.
LEMMA AccountOfNext ==
  ASSUME AInv, Advances, Busy(Scanner), Becomes(Scanner, NextJob(Scanner)),
         UNCHANGED <<scan, due, cut>>,
         \A s \in Scans, r \in RuleIds :
            s # scan \/ r # job[Scanner].rule => answers'[s][r] = answers[s][r],
         \/ answers'[scan][job[Scanner].rule] = 1
         \/ answers'[scan][job[Scanner].rule] = 0 /\ spent'.faults >= 2
  PROVE  Account' /\ AccountUnderWay'
<1> DEFINE R == job[Scanner].rule
           L == job[Scanner].listed
<1>1. /\ scan \in Scans /\ scan \in Nat /\ R \in RuleIds /\ R \in 1..Len(L) /\ R \in Nat
      /\ L \in Seq(StoredRule) /\ Len(L) \in Nat /\ Len(L) <= NumRules
      /\ NextJob(Scanner) = Following(L, R + 1)
      /\ job'[Scanner] = Following(L, R + 1)
  BY ScannerAtWork DEF AInv, Becomes, NextJob, Forced
<1>2. /\ due[scan] = {r \in 1..Len(L) : L[r].config.enabled} /\ R \in due[scan]
      /\ \A r \in RuleIds :
           /\ r < R => r \notin due[scan] \/ answers[scan][r] = 1 \/ spent.faults >= 2
           /\ r > R => answers[scan][r] = 0
  BY DEF AInv, AccountUnderWay
<1>3. \A n \in Nat : spent.faults >= n => spent'.faults >= n
  BY DEF Advances
<1>4. \A r \in RuleIds :
        /\ r <= R => r \notin due[scan] \/ answers'[scan][r] = 1 \/ spent'.faults >= 2
        /\ r > R => answers'[scan][r] = 0
        /\ answers'[scan][r] <= IF r \in due[scan] THEN 1 ELSE 0
  <2> SUFFICES ASSUME NEW r \in RuleIds
               PROVE  /\ r <= R => r \notin due[scan] \/ answers'[scan][r] = 1
                                     \/ spent'.faults >= 2
                      /\ r > R => answers'[scan][r] = 0
                      /\ answers'[scan][r] <= IF r \in due[scan] THEN 1 ELSE 0
    OBVIOUS
  <2>1. CASE r = R
    BY <1>1, <1>2, <2>1
  <2>2. CASE r # R
    <3>1. answers'[scan][r] = answers[scan][r] /\ r \in Nat
      BY <1>1, <2>2 DEF RuleIds
    <3>2. answers[scan][r] <= IF r \in due[scan] THEN 1 ELSE 0
      BY <1>1 DEF AInv, Account
    <3>3. QED BY <1>1, <1>2, <1>3, <2>2, <3>1, <3>2
  <2>3. QED BY <2>1, <2>2
<1>5. ASSUME NEW s \in Scans, NEW r \in RuleIds, s # scan
      PROVE  /\ s > scan => answers'[s][r] = 0
             /\ answers'[s][r] <= IF r \in due[s] THEN 1 ELSE 0
             /\ s < scan => s \in cut \/ r \notin due[s] \/ answers'[s][r] = 1
                              \/ spent'.faults >= 2
  <2>1. answers'[s][r] = answers[s][r]
    BY <1>5
  <2>2. QED BY <1>3, <1>5, <2>1 DEF AInv, Account
<1>6. CASE /\ Following(L, R + 1) = Idle
           /\ \A q \in (R + 1)..Len(L) : ~ L[q].config.enabled
  <2>1. ~ Busy(Scanner)'
    BY <1>1, <1>6, NullType DEF Busy
  <2>2. \A r \in RuleIds : r > R => r \notin due[scan]
    BY <1>1, <1>2, <1>6 DEF RuleIds
  <2>3. \A r \in RuleIds : r \notin due[scan] \/ answers'[scan][r] = 1 \/ spent'.faults >= 2
    BY <1>1, <1>4, <2>2 DEF RuleIds
  <2> HIDE DEF R, L
  <2>4. Account'
    BY <1>1, <1>4, <1>5, <2>1, <2>3 DEF Account, Scans
  <2>5. QED BY <2>1, <2>4 DEF AccountUnderWay
<1>7. ASSUME NEW q \in (R + 1)..Len(L), Following(L, R + 1) = Start(L, q),
             L[q].config.enabled, \A q2 \in (R + 1)..(q - 1) : ~ L[q2].config.enabled
      PROVE  Account' /\ AccountUnderWay'
  <2>1. /\ Busy(Scanner)' /\ job'[Scanner].at = "evaluate" /\ job'[Scanner].rule = q
        /\ job'[Scanner].listed = L
    BY <1>1, <1>7 DEF Busy, Start
  <2>2. q \in RuleIds /\ q \in 1..Len(L) /\ q > R /\ q \in Nat /\ q \in due[scan]
    BY <1>1, <1>2, <1>7 DEF RuleIds
  <2>3. \A r \in RuleIds : r > R /\ r < q => r \notin due[scan]
    BY SMTT(30), <1>1, <1>2, <1>7, <2>2 DEF RuleIds
  <2>4. \A r \in RuleIds :
          /\ r < q => r \notin due[scan] \/ answers'[scan][r] = 1 \/ spent'.faults >= 2
          /\ r >= q => answers'[scan][r] = 0
    BY <1>1, <1>4, <2>2, <2>3 DEF RuleIds
  <2> HIDE DEF R, L
  <2>5. Account'
    BY <1>1, <1>4, <1>5, <2>1 DEF Account, Scans
  <2>6. AccountUnderWay'
    BY <1>2, <2>1, <2>2, <2>4 DEF AccountUnderWay, RuleIds
  <2>7. QED BY <2>5, <2>6
<1>8. R + 1 \in Nat \ {0}
  BY <1>1
<1>9. \/ /\ Following(L, R + 1) = Idle
         /\ \A q \in (R + 1)..Len(L) : ~ L[q].config.enabled
      \/ \E q \in (R + 1)..Len(L) :
            /\ Following(L, R + 1) = Start(L, q) /\ L[q].config.enabled
            /\ \A q2 \in (R + 1)..(q - 1) : ~ L[q2].config.enabled
  <2> HIDE DEF R, L
  <2>1. QED BY <1>1, <1>8, FollowingType
<1>10. QED
  BY <1>6, <1>7, <1>9

\* Each step of an evaluation answers the rule it is at or leaves it due.
LEMMA ScannerKeepsAccount ==
  ASSUME AInv, [Next]_vars, evaluateRule(Scanner)
  PROVE  Account' /\ AccountUnderWay'
<1>1. /\ TInv /\ StateTyped /\ Busy(Scanner) /\ Advances /\ Scanner \in Evaluators
      /\ ~ Forced(Scanner) /\ spent.faults \in Nat
      /\ answers[scan][job[Scanner].rule] = IF job[Scanner].at = "patch" THEN 1 ELSE 0
      /\ job[Scanner].at = "fail" => spent.faults >= 1
  BY EvaluationEffect, NextAdvances
     DEF AInv, AccountUnderWay, TInv, Evaluators, Forced, Advances
<1>2. /\ scan \in Scans /\ job[Scanner].rule \in RuleIds
      /\ answers[scan][job[Scanner].rule] \in Nat
  BY <1>1, ScannerAtWork
<1>f. ASSUME Fault PROVE spent'.faults = spent.faults + 1
  BY <1>1, <1>f DEF Fault, Spend, StateTyped
\* A step that records nothing and stays with the rule.
<1>m. ASSUME NEW at \in At \ {"idle", "patch"}, NEW event, Moves(Scanner, at, event),
             UNCHANGED <<scan, due, cut, answers>>, job[Scanner].at # "patch",
             at = "fail" => spent'.faults >= 1
      PROVE  Account' /\ AccountUnderWay'
  BY <1>1, <1>m, AccountOfRule
<1>3. CASE EvaluateFails(Scanner) \/ RecordFails(Scanner)
  <2>1. /\ UNCHANGED <<scan, due, cut, answers>> /\ ReturnError(Scanner) /\ Fault
        /\ job[Scanner].at # "patch"
    BY <1>3 DEF EvaluateFails, RecordFails, ghosts
  <2>2. Moves(Scanner, "fail", job[Scanner].event)
    BY <1>1, <2>1, ReturnErrorEffect
  <2>3. spent'.faults >= 1
    BY <1>1, <1>f, <2>1
  <2>4. QED BY <1>m, <2>1, <2>2, <2>3 DEF At
<1>4. CASE Evaluate(Scanner)
  <2>1. UNCHANGED <<scan, due, cut, answers>> /\ job[Scanner].at # "patch"
    BY <1>4 DEF Evaluate, ghosts
  <2>2. \E event : Moves(Scanner, "route", event)
    BY <1>1, <1>4, EvaluateEffect
  <2>3. QED BY <1>m, <2>1, <2>2 DEF At
<1>5. CASE Route(Scanner)
  <2>1. UNCHANGED <<scan, due, cut, answers>> /\ job[Scanner].at # "patch"
    BY <1>5 DEF Route, ghosts
  <2>2. \E at \in {"record", "decide", "send"} : \E event : Moves(Scanner, at, event)
    BY <1>1, <1>5, RouteEffect
  <2>3. QED BY <1>m, <2>1, <2>2 DEF At
<1>6. CASE Decide(Scanner) \/ DecideBlindly(Scanner)
  <2>1. UNCHANGED <<scan, due, cut, answers>> /\ job[Scanner].at # "patch"
    BY <1>6 DEF Decide, DecideBlindly, ghosts
  <2>2. \E at \in {"record", "send"} : \E event : Moves(Scanner, at, event)
    BY <1>1, <1>6, DecideEffect, DecideBlindlyEffect
  <2>3. QED BY <1>m, <2>1, <2>2 DEF At
<1>7. CASE Send(Scanner)
  <2>1. UNCHANGED <<scan, due, cut, answers>> /\ job[Scanner].at # "patch"
    BY <1>7 DEF Send
  <2>2. \E event : Moves(Scanner, "record", event)
    BY <1>1, <1>7, SendEffect
  <2>3. QED BY <1>m, <2>1, <2>2 DEF At
\* What RecordEvent adds to the account.
<1>r. ASSUME NEW e \in Event, e.rule = job[Scanner].rule, e.scan = scan,
             RecordEvent(Scanner, e)
      PROVE  \A s \in Scans, r \in RuleIds :
                answers'[s][r] = IF s = scan /\ r = job[Scanner].rule
                                 THEN answers[s][r] + 1 ELSE answers[s][r]
  BY <1>1, <1>r, RecordEventType
<1>8. CASE Record(Scanner)
  <2>1. /\ UNCHANGED <<scan, due, cut>> /\ job[Scanner].at = "record"
        /\ RecordEvent(Scanner, job[Scanner].event)
    BY <1>8 DEF Record
  <2>2. /\ job[Scanner].event \in Event /\ job[Scanner].event.rule = job[Scanner].rule
        /\ job[Scanner].event.scan = scan
    BY <1>1, <2>1, DraftedEvent DEF Drafted, Kind, Procs
  <2>3. \A s \in Scans, r \in RuleIds :
           answers'[s][r] = IF s = scan /\ r = job[Scanner].rule
                            THEN answers[s][r] + 1 ELSE answers[s][r]
    BY <1>r, <2>1, <2>2
  <2>4. CASE Moves(Scanner, "patch", job[Scanner].event)
    <3>1. "patch" \in At \ {"idle"}
      BY DEF At
    <3>2. QED BY <1>1, <2>1, <2>3, <2>4, <3>1, AccountOfRule
  <2>5. CASE Becomes(Scanner, NextJob(Scanner))
    <3>1. answers'[scan][job[Scanner].rule] = 1
      BY <1>1, <1>2, <2>1, <2>3
    <3>2. QED BY <1>1, <2>1, <2>3, <2>5, <3>1, AccountOfNext
  <2>6. QED BY <1>1, <1>8, <2>4, <2>5, RecordEffect
<1>9. CASE RecordFailure(Scanner)
  <2>1. UNCHANGED <<scan, due, cut>> /\ job[Scanner].at = "fail"
    BY <1>9 DEF RecordFailure
  <2>2. Becomes(Scanner, NextJob(Scanner))
    BY <1>1, <1>9, FinishEffect DEF RecordFailure
  <2>3. PICK e : e = [draftEvent(Scanner, FALSE) EXCEPT !.kind = "error"]
    OBVIOUS
  <2>4. e \in Event
    BY <1>1, <2>3, DraftType
  <2>5. e.rule = job[Scanner].rule /\ e.scan = scan
    BY <2>3 DEF draftEvent
  <2>6. CASE RecordEvent(Scanner, e)
    <3>1. \A s \in Scans, r \in RuleIds :
             answers'[s][r] = IF s = scan /\ r = job[Scanner].rule
                              THEN answers[s][r] + 1 ELSE answers[s][r]
      BY <1>r, <2>4, <2>5, <2>6
    <3>2. answers'[scan][job[Scanner].rule] = 1
      BY <1>1, <1>2, <2>1, <3>1
    <3>3. QED BY <1>1, <2>1, <2>2, <3>1, <3>2, AccountOfNext
  <2>7. CASE Fault /\ UNCHANGED answers
    <3>1. spent'.faults >= 2 /\ answers'[scan][job[Scanner].rule] = 0
      BY <1>1, <1>f, <2>1, <2>7
    <3>2. QED BY <1>1, <2>1, <2>2, <2>7, <3>1, AccountOfNext
  <2>8. QED BY <1>9, <2>3, <2>6, <2>7 DEF RecordFailure
<1>10. CASE patchRuleDelivery(Scanner)
  <2>1. UNCHANGED <<scan, due, cut, answers>> /\ job[Scanner].at = "patch"
    BY <1>10 DEF patchRuleDelivery, ghosts
  <2>2. Becomes(Scanner, NextJob(Scanner))
    BY <1>1, <1>10, FinishEffect DEF patchRuleDelivery
  <2>3. QED BY <1>1, <2>1, <2>2, AccountOfNext
<1>11. QED
  BY <1>3, <1>4, <1>5, <1>6, <1>7, <1>8, <1>9, <1>10 DEF evaluateRule

\* A scan opens an account of the rules it lists as enabled.
LEMMA ScanOpensAccount ==
  ASSUME AInv, [Next]_vars, EvaluateEnabledRulesForScan
  PROVE  Account' /\ AccountUnderWay'
<1>1. /\ rules \in Seq(StoredRule) /\ Len(rules) \in Nat /\ Len(rules) <= NumRules
      /\ scan \in Nat /\ scan + 1 \in Scans /\ due \in [Scans -> SUBSET RuleIds]
      /\ Scanner \in Procs /\ job \in [Procs -> Job]
      /\ answers \in [Scans -> [RuleIds -> Nat]]
  <2>1. limit.scans \in 0..MaxScans /\ scan < limit.scans
    BY DEF EvaluateEnabledRulesForScan, AInv, TInv, StateTyped, Limit
  <2>2. QED
    BY SMTT(30), <2>1, LenProperties
       DEF AInv, TInv, StateTyped, JobsSane, Procs, Evaluators, Scans
<1>2. /\ ~ Busy(Scanner) /\ scan' = scan + 1 /\ answers' = answers /\ cut' = cut
      /\ job'[Scanner] = Following(rules, 1) /\ UNCHANGED spent
      /\ due'[scan + 1] = {r \in 1..Len(rules) : rules[r].config.enabled}
      /\ \A s \in Scans : s # scan + 1 => due'[s] = due[s]
  BY <1>1 DEF EvaluateEnabledRulesForScan
<1>3. ASSUME NEW s \in Scans, NEW r \in RuleIds
      PROVE  /\ s > scan' => answers'[s][r] = 0
             /\ answers'[s][r] <= IF r \in due'[s] THEN 1 ELSE 0
             /\ s < scan' => s \in cut' \/ r \notin due'[s] \/ answers'[s][r] = 1
                               \/ spent'.faults >= 2
  <2>1. /\ s > scan => answers[s][r] = 0
        /\ answers[s][r] <= IF r \in due[s] THEN 1 ELSE 0
        /\ s < scan \/ s = scan
             => s \in cut \/ r \notin due[s] \/ answers[s][r] = 1 \/ spent.faults >= 2
    BY <1>2 DEF AInv, Account
  <2>2. CASE s = scan + 1
    BY <1>1, <1>2, <2>1, <2>2
  <2>3. CASE s # scan + 1
    BY <1>1, <1>2, <2>1, <2>3 DEF Scans
  <2>4. QED BY <2>2, <2>3
<1>4. \A r \in RuleIds : answers'[scan'][r] = 0
  BY <1>1, <1>2 DEF AInv, Account
<1>5. CASE /\ Following(rules, 1) = Idle
           /\ \A q \in 1..Len(rules) : ~ rules[q].config.enabled
  <2>1. ~ Busy(Scanner)' /\ due'[scan'] = {}
    BY <1>2, <1>5, NullType DEF Busy
  <2>2. QED BY <1>3, <2>1 DEF Account, AccountUnderWay
<1>6. ASSUME NEW q \in 1..Len(rules), Following(rules, 1) = Start(rules, q),
             rules[q].config.enabled, \A q2 \in 1..(q - 1) : ~ rules[q2].config.enabled
      PROVE  Account' /\ AccountUnderWay'
  <2>1. /\ Busy(Scanner)' /\ job'[Scanner].at = "evaluate" /\ job'[Scanner].rule = q
        /\ job'[Scanner].listed = rules
    BY <1>2, <1>6 DEF Busy, Start
  <2>2. Account'
    BY <1>1, <1>2, <1>3, <2>1 DEF Account, Scans
  <2>3. q \in RuleIds /\ q \in due'[scan']
    BY <1>1, <1>2, <1>6 DEF RuleIds
  <2>4. \A r \in RuleIds : r < q => r \notin due'[scan']
    BY <1>1, <1>2, <1>6, <2>3 DEF RuleIds
  <2>5. AccountUnderWay'
    BY <1>2, <1>4, <2>1, <2>3, <2>4 DEF AccountUnderWay
  <2>6. QED BY <2>2, <2>5
<1>7. QED
  BY <1>1, <1>5, <1>6, FollowingType

\* The account of rules and answers is inductive.
LEMMA NextKeepsAccount ==
  TestsBypass /\ AInv /\ [Next]_vars => AInv'
<1> SUFFICES ASSUME TestsBypass, AInv, [Next]_vars PROVE AInv'
  OBVIOUS
<1>1. TInv /\ TInv' /\ Advances
  BY NextType, NextAdvances DEF AInv
<1>2. scan \in Nat /\ Scanner \in Procs /\ job \in [Procs -> Job]
  BY <1>1 DEF TInv, StateTyped, JobsSane, Procs, Evaluators
<1>3. \A n \in Nat : spent.faults >= n => spent'.faults >= n
  BY <1>1 DEF Advances
<1>4. ASSUME Aside PROVE Account' /\ AccountUnderWay'
  <2>1. UNCHANGED <<scan, answers, due, cut>> /\ job'[Scanner] = job[Scanner]
    BY <1>4 DEF Aside
  <2>2. Account'
    BY <1>3, <2>1 DEF AInv, Account, Busy
  <2>3. AccountUnderWay'
    BY <1>3, <2>1 DEF AInv, AccountUnderWay, Busy
  <2>4. QED BY <2>2, <2>3
<1>5. ASSUME ListRulesFails PROVE Account' /\ AccountUnderWay'
  <2>1. /\ ~ Busy(Scanner) /\ UNCHANGED <<job, answers, due>> /\ scan' = scan + 1
        /\ cut' = cut \cup {scan + 1}
    BY <1>5 DEF ListRulesFails
  <2>2. ~ Busy(Scanner)'
    BY <2>1 DEF Busy
  <2>3. Account'
    BY <1>2, <1>3, <2>1, <2>2 DEF AInv, Account, Scans
  <2>4. QED BY <2>2, <2>3 DEF AccountUnderWay
<1>6. ASSUME Crash PROVE Account' /\ AccountUnderWay'
  <2>1. /\ job'[Scanner] = Idle /\ UNCHANGED <<scan, answers, due>>
        /\ cut' = IF Busy(Scanner) THEN cut \cup {scan} ELSE cut
    BY <1>2, <1>6 DEF Crash
  <2>2. ~ Busy(Scanner)'
    BY <2>1, NullType DEF Busy
  <2>3. Account'
    BY <1>2, <1>3, <2>1, <2>2 DEF AInv, Account, Scans
  <2>4. QED BY <2>2, <2>3 DEF AccountUnderWay
<1>7. Account' /\ AccountUnderWay'
  BY <1>1, <1>4, <1>5, <1>6, StepKinds, ScannerKeepsAccount, ScanOpensAccount
<1>8. QED
  BY <1>1, <1>7 DEF AInv

\* Every rule a completed scan found enabled has one event for the scan,
\* whatever single operation failed, unless the evaluation was cut short.
THEOREM EveryRuleAnsweredHolds ==
  Spec => []EveryRuleAnswered
<1>1. Init => AInv
  <2> SUFFICES ASSUME Init PROVE AInv
    OBVIOUS
  <2>1. TInv
    BY InitType
  <2>2. scan = 0 /\ ~ Busy(Scanner)
    BY NullType DEF Init, Busy, Procs, Evaluators
  <2>3. \A s \in Scans, r \in RuleIds : answers[s][r] = 0
    BY DEF Init
  <2>4. QED BY <2>1, <2>2, <2>3 DEF AInv, Account, AccountUnderWay, Scans
<1>2. HInv => TestsBypass
  BY DEF HInv
<1>3. AInv => EveryRuleAnswered
  BY DEF AInv, Account, EveryRuleAnswered
<1>4. QED
  BY <1>1, <1>2, <1>3, NextKeepsAccount, HistoryInvariant, PTL DEF Spec
=============================================================================
