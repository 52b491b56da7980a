----------------------------- MODULE MCAlerting -----------------------------
(***************************************************************************)
(* Instances of Alerting for TLC.                                          *)
(***************************************************************************)
EXTENDS Alerting

\* The configurations of enabled rules with their own webhook, of rules with
\* one that are created enabled or disabled, and of rules that the catalog
\* routes and operators switch on and off.
Enabled(cooldowns) == [enabled : {TRUE}, cooldown : cooldowns, webhook : {TRUE}]
Mixed == [enabled : BOOLEAN, cooldown : {2}, webhook : {TRUE}]
Routed == [enabled : BOOLEAN, cooldown : {0}, webhook : {FALSE}]
MCConfigs == Enabled({1, 2}) \cup Mixed \cup Routed

\* Nothing fails, and test sends come in between.
Windows == [configs |-> Enabled({1}), rules |-> 1, scans |-> 3, clock |-> 1,
            edits |-> 0, tests |-> 1, faults |-> 0, crashes |-> 0]

\* An operation fails, the process dies, an operator edits the rule.
Faults == [configs |-> Enabled({1, 2}), rules |-> 1, scans |-> 2, clock |-> 2,
           edits |-> 1, tests |-> 0, faults |-> 1, crashes |-> 1]

\* Two rules, one or both of which are evaluated.
Answers == [configs |-> Mixed, rules |-> 2, scans |-> 2, clock |-> 1,
            edits |-> 0, tests |-> 0, faults |-> 2, crashes |-> 1]

\* Two requests about one rule.
Disable == [configs |-> Routed, rules |-> 1, scans |-> 2, clock |-> 0,
            edits |-> 2, tests |-> 0, faults |-> 0, crashes |-> 0]

MCLimits == {Windows, Faults, Answers}
DisableLimits == {Disable}
=============================================================================
