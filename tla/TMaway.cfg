SPECIFICATION Spec
CONSTANTS
  Hooks = {h1, h2}
  Msn = {h2} Firetalk = {h1}
  Choices = {"available", "invisible"}
  First = 2 Cap = 2 LoginTime = 0
  AwayAfter = 1 NaAfter = 2
  Screen = TRUE PeriodResend = 0 MaxChanges = 1
  Env = {"drop", "cli"}
INVARIANTS StatusIsChosen
PROPERTIES BackMeansBack
