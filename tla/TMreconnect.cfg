SPECIFICATION FairSpec
CONSTANTS
  Hooks = {h1, h2}
  Msn = {h1} Firetalk = {h2}
  Choices = {"available", "offline"}
  First = 2 Cap = 3 LoginTime = 3
  AwayAfter = 0 NaAfter = 0
  Screen = FALSE PeriodResend = 1 MaxChanges = 1
  Env = {"drop", "disk", "manager"}
INVARIANTS PeriodBound
PROPERTIES Reconnects FullDiskMeansOffline OfflineMeansOff
