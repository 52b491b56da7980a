---------------------------- MODULE ScanRegister ----------------------------
(***************************************************************************)
(* What the scan control center promises its callers, without the          *)
(* goroutines: runs are accepted one at a time, every accepted run gets    *)
(* one outcome, and the outcomes since the process started are kept,       *)
(* newest first, up to Limit.  A restart forgets the active run and the    *)
(* outcomes.                                                               *)
(***************************************************************************)
EXTENDS Naturals, Sequences

CONSTANT Limit

VARIABLES
  active,    \* the run being worked on, or 0
  accepted,  \* number of runs accepted so far
  shown,     \* the status callers see
  outcomes   \* ended runs with their outcomes, newest first

regvars == <<active, accepted, shown, outcomes>>

RInit ==
  /\ active = 0 /\ accepted = 0
  /\ shown = "idle" /\ outcomes = << >>

Accept ==
  /\ active = 0
  /\ accepted' = accepted + 1
  /\ active' = accepted + 1
  /\ shown' = "running"
  /\ UNCHANGED outcomes

End(outcome) ==
  /\ active # 0
  /\ active' = 0
  /\ shown' = outcome
  /\ LET all == <<[runID |-> active, status |-> outcome]>> \o outcomes
     IN  outcomes' = IF Len(all) > Limit THEN SubSeq(all, 1, Limit) ELSE all
  /\ UNCHANGED accepted

Forget ==
  /\ active' = 0 /\ shown' = "idle" /\ outcomes' = << >>
  /\ UNCHANGED accepted

RNext == Accept \/ (\E outcome \in {"completed", "failed"} : End(outcome)) \/ Forget

RSpec == RInit /\ [][RNext]_regvars

RFairSpec == RSpec /\ WF_regvars(\E outcome \in {"completed", "failed"} : End(outcome))
=============================================================================
