SPECIFICATION Spec
CONSTANTS
  Hooks = {h1}
  Msn = {} Firetalk = {}
  Choices = {"available"}
  First = 2 Cap = 2 LoginTime = 0
  AwayAfter = 1 NaAfter = 2
  Screen = FALSE PeriodResend = 0 MaxChanges = 0
  Env = {"drop"}
PROPERTIES AutoAwayApplies
