SPECIFICATION Spec
CONSTANTS
  e1 = e1 e2 = e2 e3 = e3
  c1 = c1 c2 = c2
  h1 = h1 h2 = h2
  Contacts = {c1}
  Events = {e1, e2}
  Hooks = {h1, h2}
  Im = im
  Senders = {s1}
  To <- MCTo2
  Via <- MCVia2
  Rss = h2
  Filtered = {}
  MaxAtOnce = 1
  PeriodAtOnce = 1
  LockTries = 1
  NoFile = NoFile
  None = None
  Faults = {"crash", "disk", "refuse"}
INVARIANTS NoDuplicateSend HistorySound
PROPERTIES QueueSpec
