------------------------------ MODULE Alerting ------------------------------
(***************************************************************************)
(* Alert rules, their evaluation after a scan, the cooldown and the event  *)
(* history (internal/alerting: service.go, store.go, suppression.go; the   *)
(* handlers of internal/api/handlers/alerting.go).                         *)
(*                                                                         *)
(* Every Store method holds Store.mu and is one action; a process calls    *)
(* several of them and keeps its copy of the rule in between.  The process *)
(* Scanner is the scan goroutine inside EvaluateEnabledRulesForScan: there *)
(* is one, because the scan control center runs one scan at a time         *)
(* (ScanControl, SingleFlight).  Testers are test requests and Togglers    *)
(* enable or disable requests, each in a goroutine of the HTTP server.     *)
(*                                                                         *)
(* Rules are numbered in the order of their creation, which is the order   *)
(* ListRules returns them in; the API has no way to delete one.  Every     *)
(* stored rule passed validateRule, so its channel is a Slack webhook and  *)
(* its webhook URL, when set, is one the provider agrees to post to.       *)
(***************************************************************************)
EXTENDS Naturals, Sequences, FiniteSets

CONSTANTS
  Scanner,    \* the scan goroutine
  Testers,    \* test requests that can be served at once
  Togglers,   \* enable and disable requests that can be served at once
  Cooldowns,  \* cooldown_minutes values
  Configs,    \* the rule configurations operators use: a set of Config
  NumRules,   \* bound: rules created
  MaxScans,   \* bound: scans that complete
  MaxClock,   \* bound: minutes that pass
  Limits,     \* what may happen in one behaviour: a set of Limit
  MaxEvents   \* maxEventHistory, 500 in the code

VARIABLES
  rules,    \* _alerting/rules.json, in creation order
  events,   \* _alerting/events.json, newest first
  catalog,  \* _alerting/routing.json: whether it routes the rules to a team
  clock,    \* time.Now, in minutes
  job,      \* job[p]: where process p is, its rule, its copy of it, its event,
            \* and for Scanner the rules as ListRules returned them
  scan,     \* scans completed so far; the one Scanner evaluates when it is busy
  limit,    \* the bounds of this behaviour, one of Limits
  spent,    \* counts against them
  posts,    \* history: the events whose message Slack acknowledged
  due,      \* history: due[s], rules the evaluation of scan s listed as enabled
  answers,  \* history: answers[s][r], automatic events recorded
  cut,      \* history: scans whose evaluation an error or a crash cut short
  intent,   \* history: intent[r], what operators made of rule r
  raced     \* history: rules written while some process held a copy

store  == <<rules, events, catalog>>
edited == <<intent, raced>>
ghosts == <<posts, due, answers, cut, intent, raced>>
vars   == <<rules, events, catalog, clock, job, scan, limit, spent,
            posts, due, answers, cut, intent, raced>>

RuleIds   == 1..NumRules
Scans     == 1..MaxScans
Minutes   == 0..MaxClock
Never     == MaxClock + 1
Evaluators == {Scanner} \cup Testers
Procs     == Evaluators \cup Togglers
Forced(p) == p # Scanner

Config     == [enabled : BOOLEAN, cooldown : Cooldowns, webhook : BOOLEAN]
StoredRule == [config : Config, delivery : {"never", "ok", "failed"}]

\* The bounds of a behaviour: the configurations operators choose from, the
\* rules created, scans that complete, minutes that pass, operator writes to
\* rules and to the routing catalog, test requests, evaluations and store
\* operations that fail, and crashes of the dashboard process.
Limit == [configs : SUBSET Configs, rules : 0..NumRules, scans : 0..MaxScans,
          clock : 0..MaxClock, edits : Nat, tests : Nat, faults : Nat, crashes : Nat]

ASSUME BoundsAssumption ==
  /\ NumRules \in Nat /\ MaxScans \in Nat /\ MaxClock \in Nat
  /\ MaxEvents \in Nat \ {0} /\ Limits \subseteq Limit
ASSUME ProcsAssumption ==
  Scanner \notin Testers /\ Scanner \notin Togglers /\ Testers \cap Togglers = {}
ASSUME ConfigsAssumption == 0 \in Cooldowns /\ Cooldowns \subseteq Nat /\ Configs \subseteq Config

\* An event's kind: the rule did not trigger; no destination; suppressed by
\* the cooldown; posted and acknowledged; posted without acknowledgement; the
\* evaluation failed.  The last two fields are not stored: the cooldown in
\* force, and whether the event history could not be read.
Kind  == {"quiet", "unroutable", "suppressed", "ok", "failed", "error"}
Event == [rule : RuleIds, scan : Scans, at : Minutes, forced : BOOLEAN,
          triggered : BOOLEAN, kind : Kind, anchor : Minutes \cup {Never},
          cooldown : Cooldowns, blind : BOOLEAN]

At   == {"idle", "evaluate", "route", "decide", "send", "record", "fail",
         "patch", "set"}
NoRule == 0
Null == [config |-> [enabled |-> FALSE, cooldown |-> 0, webhook |-> FALSE],
         delivery |-> "never"]
None == [kind |-> "none"]
Idle == [at |-> "idle", rule |-> NoRule, copy |-> Null, event |-> None,
         listed |-> << >>]

Busy(p) == job[p].at # "idle"

\* A process that may still write a copy of rule r back.
Holds(p, r) ==
  /\ Busy(p)
  /\ IF p = Scanner THEN job[p].rule <= r /\ r <= Len(job[p].listed) ELSE job[p].rule = r

TypeOK ==
  /\ rules \in Seq(StoredRule) /\ Len(rules) <= NumRules
  /\ events \in Seq(Event) /\ Len(events) <= MaxEvents
  /\ catalog \in BOOLEAN /\ clock \in Minutes
  /\ \A p \in Procs :
        \/ job[p] = Idle
        \/ /\ job[p].at \in At \ {"idle"} /\ job[p].rule \in 1..Len(rules)
           /\ job[p].copy \in StoredRule /\ job[p].event \in Event \cup {None}
           /\ job[p].listed \in Seq(StoredRule) /\ Len(job[p].listed) <= Len(rules)
           /\ job[p].at \in {"route", "decide", "send", "record", "patch"}
                => job[p].event \in Event
  /\ scan \in 0..MaxScans
  /\ limit \in Limits
  /\ spent \in [edits : 0..limit.edits, tests : 0..limit.tests,
                faults : 0..limit.faults, crashes : 0..limit.crashes]
  /\ posts \subseteq Event /\ cut \subseteq Scans /\ raced \subseteq RuleIds
  /\ due \in [Scans -> SUBSET RuleIds]
  /\ answers \in [Scans -> [RuleIds -> Nat]]
  /\ intent \in [RuleIds -> Config]

-----------------------------------------------------------------------------
(* The store and the cooldown.                                             *)

Spend(what) ==
  /\ spent[what] < limit[what]
  /\ spent' = [spent EXCEPT ![what] = @ + 1]

Fault == Spend("faults")

\* Mutant: the history is not cut.
prependUncut(e) == <<e>> \o events

\* The history RecordEvent writes.
prepend(e) == SubSeq(<<e>> \o events, 1,
                IF Len(events) < MaxEvents THEN Len(events) + 1 ELSE MaxEvents)

\* Mutant: a test send starts a window.
isCooldownAnchorForced(e) == e.triggered /\ e.kind = "ok"

isCooldownAnchor(e) == e.triggered /\ ~ e.forced /\ e.kind = "ok"

anchors(r) == {i \in 1..Len(events) : events[i].rule = r /\ isCooldownAnchor(events[i])}

\* Mutant: the oldest anchor.
findCooldownAnchorOldest(r) ==
  events[CHOOSE i \in anchors(r) : \A j \in anchors(r) : i >= j]

\* The newest anchor, of a rule that has one.
findCooldownAnchor(r) ==
  events[CHOOSE i \in anchors(r) : \A j \in anchors(r) : i <= j]

\* Mutant: the window is a minute short.
DecideCooldownSuppressionShort(r, cooldown, now) ==
  /\ cooldown > 0 /\ anchors(r) # {}
  /\ now + 1 < findCooldownAnchor(r).at + cooldown

DecideCooldownSuppression(r, cooldown, now) ==
  /\ cooldown > 0 /\ anchors(r) # {}
  /\ now < findCooldownAnchor(r).at + cooldown

-----------------------------------------------------------------------------
(* Evaluating one rule.                                                    *)

Goto(p, from, to) == job[p].at = from /\ job' = [job EXCEPT ![p].at = to]

Start(list, r) == [at |-> "evaluate", rule |-> r, copy |-> list[r], event |-> None,
                   listed |-> list]

\* The first enabled rule from r on of a listing, for Scanner to evaluate.
Following(list, r) ==
  LET pending == {q \in r..Len(list) : list[q].config.enabled}
  IN  IF pending = {} THEN Idle
      ELSE LET next == CHOOSE q \in pending : \A q2 \in pending : q <= q2
           IN  Start(list, next)

\* The process is done with its rule; Scanner goes on with its listing.
Finish(p) ==
  job' = [job EXCEPT ![p] = IF Forced(p) THEN Idle ELSE Following(job[p].listed, job[p].rule + 1)]

\* Mutant: an error of one rule ends the loop over the rules.
ReturnErrorStops(p) == job' = [job EXCEPT ![p] = Idle]

\* evaluateRule returns an error: Scanner records a failed event, a test request
\* is answered with the error.
ReturnError(p) ==
  job' = [job EXCEPT ![p] = IF Forced(p) THEN Idle ELSE [@ EXCEPT !.at = "fail"]]

\* UpsertRule with what the process makes of its copy: the whole stored rule
\* is replaced.  Its error is dropped.
UpsertRule(p, value) ==
  \/ rules' = [rules EXCEPT ![job[p].rule] = value] /\ UNCHANGED spent
  \/ Fault /\ UNCHANGED rules

\* The evaluator cannot read the scan.
EvaluateFails(p) ==
  /\ job[p].at = "evaluate"
  /\ Fault
  /\ ReturnError(p)
  /\ UNCHANGED <<store, clock, scan, ghosts>>

draftEvent(p, triggered) ==
  [rule |-> job[p].rule, scan |-> scan, at |-> clock, forced |-> Forced(p),
   triggered |-> triggered, kind |-> "quiet", anchor |-> Never,
   cooldown |-> job[p].copy.config.cooldown, blind |-> FALSE]

\* Mutant: the evaluation writes the rule back with what it found.
EvaluateRewrites(p) ==
  /\ job[p].at = "evaluate"
  /\ \E triggered \in BOOLEAN :
        /\ job' = [job EXCEPT ![p].at = "route", ![p].event = draftEvent(p, triggered)]
        /\ UpsertRule(p, [job[p].copy EXCEPT !.config.enabled = triggered])
  /\ UNCHANGED <<events, catalog, clock, scan, ghosts>>

\* The rule triggers on the scan or not; the copy is saved with the time and
\* the summary of the evaluation, which the model leaves out.
Evaluate(p) ==
  /\ job[p].at = "evaluate"
  /\ \E triggered \in BOOLEAN :
        job' = [job EXCEPT ![p].at = "route", ![p].event = draftEvent(p, triggered)]
  /\ UpsertRule(p, job[p].copy)
  /\ UNCHANGED <<events, catalog, clock, scan, ghosts>>

\* The routing catalog (an unreadable one is an empty one) and the rule's own
\* webhook decide whether there is a destination.
Route(p) ==
  /\ job[p].at = "route"
  /\ \E readable \in BOOLEAN :
        LET valid == job[p].copy.config.webhook \/ (readable /\ catalog)
            sends == job[p].event.triggered \/ Forced(p)
            cools == ~ Forced(p) /\ job[p].copy.config.cooldown > 0
        IN  /\ IF readable THEN UNCHANGED spent ELSE Fault
            /\ job' = [job EXCEPT
                 ![p].at = IF ~ sends \/ ~ valid THEN "record"
                           ELSE IF cools THEN "decide" ELSE "send",
                 ![p].event.kind = IF sends /\ ~ valid THEN "unroutable" ELSE @]
  /\ UNCHANGED <<store, clock, scan, ghosts>>

\* The cooldown of an automatic send.  (A test send lists the events too, but
\* only to note in its event what it bypasses.)
Decide(p) ==
  /\ job[p].at = "decide"
  /\ IF DecideCooldownSuppression(job[p].rule, job[p].copy.config.cooldown, job[p].event.at)
     THEN job' = [job EXCEPT ![p].at = "record", ![p].event.kind = "suppressed",
                    ![p].event.anchor = findCooldownAnchor(job[p].rule).at]
     ELSE job' = [job EXCEPT ![p].at = "send"]
  /\ UNCHANGED <<store, clock, scan, spent, ghosts>>

\* ListEvents fails: there is no cooldown.
DecideBlindly(p) ==
  /\ job[p].at = "decide"
  /\ Fault
  /\ job' = [job EXCEPT ![p].at = "send", ![p].event.blind = TRUE]
  /\ UNCHANGED <<store, clock, scan, ghosts>>

\* Slack accepts the message, or refuses it or does not answer in time.
Send(p) ==
  /\ job[p].at = "send"
  /\ \E kind \in {"ok", "failed"} :
        LET sent == [job[p].event EXCEPT !.kind = kind]
        IN  /\ job' = [job EXCEPT ![p].at = "record", ![p].event = sent]
            /\ posts' = IF kind = "ok" THEN posts \cup {sent} ELSE posts
  /\ UNCHANGED <<store, clock, scan, spent, due, answers, cut, edited>>

RecordEvent(p, e) ==
  /\ events' = prepend(e)
  /\ answers' = IF Forced(p) THEN answers ELSE [answers EXCEPT ![e.scan][e.rule] = @ + 1]

\* The event is written; a message that was posted is noted on the rule next.
Record(p) ==
  /\ job[p].at = "record"
  /\ RecordEvent(p, job[p].event)
  /\ IF job[p].event.kind \in {"ok", "failed"}
     THEN job' = [job EXCEPT ![p].at = "patch"]
     ELSE Finish(p)
  /\ UNCHANGED <<rules, catalog, clock, scan, spent, posts, due, cut, edited>>

\* The event is not written, whatever was sent.
RecordFails(p) ==
  /\ job[p].at = "record"
  /\ Fault
  /\ ReturnError(p)
  /\ UNCHANGED <<store, clock, scan, ghosts>>

\* failedEvent; the error of its RecordEvent is dropped.
RecordFailure(p) ==
  /\ job[p].at = "fail"
  /\ \/ /\ RecordEvent(p, [draftEvent(p, FALSE) EXCEPT !.kind = "error"])
        /\ UNCHANGED spent
     \/ Fault /\ UNCHANGED <<events, answers>>
  /\ Finish(p)
  /\ UNCHANGED <<rules, catalog, clock, scan, posts, due, cut, edited>>

\* Mutant: the goroutine is left waiting.
patchRuleDeliveryWaits(p) ==
  /\ job[p].at = "patch"
  /\ UpsertRule(p, [job[p].copy EXCEPT !.delivery = job[p].event.kind])
  /\ UNCHANGED <<events, catalog, clock, job, scan, ghosts>>

patchRuleDelivery(p) ==
  /\ job[p].at = "patch"
  /\ UpsertRule(p, [job[p].copy EXCEPT !.delivery = job[p].event.kind])
  /\ Finish(p)
  /\ UNCHANGED <<events, catalog, clock, scan, ghosts>>

evaluateRule(p) ==
  \/ EvaluateFails(p) \/ Evaluate(p) \/ Route(p) \/ Decide(p) \/ DecideBlindly(p)
  \/ Send(p) \/ Record(p) \/ RecordFails(p) \/ RecordFailure(p) \/ patchRuleDelivery(p)

-----------------------------------------------------------------------------
(* What starts an evaluation.                                              *)

\* A scan has completed: the rules are listed once, and the enabled ones are
\* evaluated from that listing.
EvaluateEnabledRulesForScan ==
  /\ ~ Busy(Scanner) /\ scan < limit.scans
  /\ scan' = scan + 1
  /\ job' = [job EXCEPT ![Scanner] = Following(rules, 1)]
  /\ due' = [due EXCEPT ![scan + 1] = {r \in 1..Len(rules) : rules[r].config.enabled}]
  /\ UNCHANGED <<store, clock, spent, posts, answers, cut, edited>>

\* ListRules fails: the scan is not evaluated, and nobody is told.
ListRulesFails ==
  /\ ~ Busy(Scanner) /\ scan < limit.scans
  /\ Fault
  /\ scan' = scan + 1
  /\ cut' = cut \cup {scan + 1}
  /\ UNCHANGED <<store, clock, job, posts, due, answers, edited>>

\* A test request for a stored rule, enabled or not, and an existing scan.
TestRule(p, r) ==
  /\ ~ Busy(p) /\ r <= Len(rules) /\ scan > 0
  /\ Spend("tests")
  /\ job' = [job EXCEPT ![p] = [Start(rules, r) EXCEPT !.listed = << >>]]
  /\ UNCHANGED <<store, clock, scan, ghosts>>

-----------------------------------------------------------------------------
(* What operators do to the rules.                                         *)

\* An operator makes config of rule r; others may hold an older copy.
Note(r, config, others) ==
  /\ intent' = [intent EXCEPT ![r] = config]
  /\ raced' = IF \E q \in others : Holds(q, r) THEN raced \cup {r} ELSE raced

CreateRule(config) ==
  /\ Len(rules) < limit.rules
  /\ rules' = Append(rules, [config |-> config, delivery |-> "never"])
  /\ Note(Len(rules) + 1, config, Procs)
  /\ UNCHANGED <<events, catalog, clock, job, scan, spent, posts, due, answers, cut>>

\* SaveRule for an existing rule: the request body replaces the stored rule,
\* delivery status included (its page may have loaded that long ago).
UpdateRule(r, config) ==
  /\ r <= Len(rules)
  /\ Spend("edits")
  /\ \E delivery \in {"never", rules[r].delivery} :
        rules' = [rules EXCEPT ![r] = [config |-> config, delivery |-> delivery]]
  /\ Note(r, config, Procs)
  /\ UNCHANGED <<events, catalog, clock, job, scan, posts, due, answers, cut>>

\* SetRuleEnabled reads the rule ...
GetRule(t, r, enabled) ==
  /\ ~ Busy(t) /\ r <= Len(rules)
  /\ Spend("edits")
  /\ job' = [job EXCEPT ![t] = [Start(rules, r) EXCEPT !.at = "set", !.listed = << >>,
                                               !.copy.config.enabled = enabled]]
  /\ UNCHANGED <<store, clock, scan, ghosts>>

\* ... and writes it back with the flag set, or answers with the error.
SetRuleEnabled(t) ==
  /\ job[t].at = "set"
  /\ job' = [job EXCEPT ![t] = Idle]
  /\ LET r == job[t].rule IN
       \/ /\ rules' = [rules EXCEPT ![r] = job[t].copy]
          /\ Note(r, [intent[r] EXCEPT !.enabled = job[t].copy.config.enabled], Procs \ {t})
          /\ UNCHANGED spent
       \/ Fault /\ UNCHANGED <<rules, edited>>
  /\ UNCHANGED <<events, catalog, clock, scan, posts, due, answers, cut>>

SaveRoutingCatalog ==
  /\ Spend("edits")
  /\ catalog' = ~ catalog
  /\ UNCHANGED <<rules, events, clock, job, scan, ghosts>>

Operators ==
  \/ \E config \in limit.configs : CreateRule(config) \/ \E r \in RuleIds : UpdateRule(r, config)
  \/ \E t \in Togglers, r \in RuleIds, enabled \in BOOLEAN : GetRule(t, r, enabled)
  \/ \E t \in Togglers : SetRuleEnabled(t)
  \/ SaveRoutingCatalog

-----------------------------------------------------------------------------

Tick == /\ clock < limit.clock
        /\ clock' = clock + 1
        /\ UNCHANGED <<store, job, scan, spent, ghosts>>

\* The process dies between two store operations (each replaces its file with
\* a rename); the evaluation it was in is not taken up again.
Crash ==
  /\ Spend("crashes")
  /\ job' = [p \in Procs |-> Idle]
  /\ cut' = IF Busy(Scanner) THEN cut \cup {scan} ELSE cut
  /\ UNCHANGED <<store, clock, scan, posts, due, answers, edited>>

Init ==
  /\ rules = << >> /\ events = << >> /\ catalog = FALSE /\ clock = 0
  /\ job = [p \in Procs |-> Idle] /\ scan = 0
  /\ limit \in Limits
  /\ spent = [edits |-> 0, tests |-> 0, faults |-> 0, crashes |-> 0]
  /\ posts = {} /\ cut = {} /\ raced = {}
  /\ due = [s \in Scans |-> {}]
  /\ answers = [s \in Scans |-> [r \in RuleIds |-> 0]]
  /\ intent = [r \in RuleIds |-> Null.config]

Next ==
  /\ \/ EvaluateEnabledRulesForScan \/ ListRulesFails
     \/ \E p \in Testers, r \in RuleIds : TestRule(p, r)
     \/ \E p \in Evaluators : evaluateRule(p)
     \/ Operators \/ Tick \/ Crash
  /\ UNCHANGED limit

\* The scan goroutine keeps running: Slack's client has a timeout, and Store.mu
\* is held for a file operation only.
Fairness == WF_vars(evaluateRule(Scanner) /\ UNCHANGED limit)

Spec     == Init /\ [][Next]_vars
FairSpec == Spec /\ Fairness

-----------------------------------------------------------------------------
(* Properties.                                                             *)

(* The history never holds two automatic deliveries of one rule that are   *)
(* closer than the cooldown the later one was sent under, unless the later *)
(* one could not read the history: neither test sends nor suppressed       *)
(* events nor a change of the cooldown open a hole in the window           *)
(* (suppression.go:8-23).                                                  *)
AnchorsSpaced ==
  \A i, j \in 1..Len(events) :
     /\ i < j /\ events[i].rule = events[j].rule
     /\ isCooldownAnchor(events[i]) /\ isCooldownAnchor(events[j])
     /\ ~ events[i].blind
     => events[i].at >= events[j].at + events[i].cooldown

(* A suppressed alert was never a lost one: Slack acknowledged an          *)
(* automatic message of the same rule less than a cooldown ago.            *)
SuppressedWasDelivered ==
  \A i \in 1..Len(events) : events[i].kind = "suppressed" =>
     \E m \in posts :
        /\ m.rule = events[i].rule /\ ~ m.forced /\ m.triggered
        /\ m.at = events[i].anchor
        /\ m.at <= events[i].at /\ events[i].at < m.at + events[i].cooldown

(* Every rule a completed scan found enabled has exactly one event for the *)
(* scan, whatever single operation failed on the way; the others have none *)
(* (service.go:75-95: a failing rule does not end the loop).               *)
EveryRuleAnswered ==
  \A s \in Scans, r \in RuleIds :
     /\ answers[s][r] <= IF r \in due[s] THEN 1 ELSE 0
     /\ s < scan \/ (s = scan /\ ~ Busy(Scanner))
        => s \in cut \/ r \notin due[s] \/ answers[s][r] = 1 \/ spent.faults >= 2

(* What operators made of a rule is what is stored, unless they wrote it   *)
(* while an evaluation or another request held a copy of it: no sequence   *)
(* of evaluations, errors and crashes alone loses an edit.                 *)
EditsSurvive ==
  \A r \in 1..Len(rules) : r \notin raced => rules[r].config = intent[r]

(* "Suppress repeated Slack sends for this rule for N minutes after a      *)
(* successful automatic delivery" (dashboard/src/pages/Alerting.tsx:1049): *)
(* as long as the history, which the window is read from, has room for     *)
(* every event and no operation failed or was cut short, no interleaving   *)
(* of scans, test sends and edits brings two automatic messages of a rule  *)
(* closer than a cooldown.                                                 *)
CooldownWhileRemembered ==
  \A m, n \in posts :
     /\ Len(events) < MaxEvents /\ spent.faults = 0 /\ spent.crashes = 0
     /\ m.rule = n.rule /\ m.scan < n.scan /\ ~ m.forced /\ ~ n.forced
     => n.at >= m.at + n.cooldown

(* A disabled rule is not evaluated after a scan: the configuration an     *)
(* operator left behind, with nothing in progress any more, is the one the *)
(* next scan uses ("Enabled (evaluate after each scan)",                   *)
(* dashboard/src/pages/Alerting.tsx:1044).                                 *)
DisabledIsNotEvaluated ==
  [][\A r \in RuleIds :
       /\ scan' # scan /\ r <= Len(rules) /\ ~ intent[r].enabled
       /\ \A p \in Procs : ~ Busy(p)
       => r \notin due'[scan']]_vars

(* The scan goroutine gets through its rules.                              *)
EvaluationEnds == Busy(Scanner) ~> ~ Busy(Scanner)
=============================================================================
