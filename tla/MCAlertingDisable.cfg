SPECIFICATION Spec
CONSTANTS
  Scanner = Scanner
  Testers = {t1}
  Togglers = {o1, o2}
  Cooldowns = {0, 1, 2}
  Configs <- MCConfigs
  NumRules = 2
  MaxScans = 3
  MaxClock = 2
  Limits <- DisableLimits
  MaxEvents = 1
PROPERTIES
  DisabledIsNotEvaluated
CHECK_DEADLOCK FALSE
