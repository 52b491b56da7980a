SPECIFICATION FairSpec
CONSTANTS
  Scanner = Scanner
  Testers = {t1}
  Togglers = {o1}
  Cooldowns = {0, 1, 2}
  Configs <- MCConfigs
  NumRules = 2
  MaxScans = 3
  MaxClock = 2
  Limits <- MCLimits
  MaxEvents = 3
INVARIANTS
  TypeOK
  AnchorsSpaced
  EditsSurvive
  SuppressedWasDelivered
  CooldownWhileRemembered
  EveryRuleAnswered
PROPERTIES
  EvaluationEnds
CHECK_DEADLOCK FALSE
