SPECIFICATION FairPartSpec
CONSTANTS
  e1 = e1 e2 = e2 e3 = e3
  c1 = c1 c2 = c2
  h1 = h1 h2 = h2
  Contacts = {c1, c2}
  Events = {e1, e2, e3}
  Hooks = {h1, h2}
  Im = im
  Senders = {}
  To <- MCTo
  Via <- MCVia
  Rss = rss
  Filtered = {e2}
  MaxAtOnce = 1
  PeriodAtOnce = 1
  LockTries = 1
  NoFile = NoFile
  None = None
  Faults = {}
  Buddies = {b1}
  Groups = {general}
  GroupOf <- MCGroupOf
  Shy = {b1}
  general = general
  MaxPackets = 2
INVARIANTS NothingLost HistoryExact UnsentExact FloodBound ListFollows PrivacyTold
PROPERTIES EventuallySent
