SPECIFICATION PartSpec
CONSTANTS
  Contacts = {c1}
  Nicks = {own, nick}
  Own = own
  Names = {work}
  General = general
  MaxGroups = 3
  NoGroup = NoGroup
  None = None
  Icq = {i1} Gadu = {} Named = {} Pals = {pal}
  Statuses = {ignore, visible, invisible} Ignore = ignore
  Writers = {bob, eve} Irc = {eve} Ignored = {}
  q1 = q1 q2 = q2
  t1 = t1 t2 = t2
  Questions = {q1, q2}
  Texts = {t1, t2, t3}
  Answers <- MCAnswers
  Timeout = 2
  Buddies = {b1}
  Resources = {x1, x2}
  MaxPackets = 2
INVARIANTS ListMatchesDisk NumbersExact TypeOK GroupsExist ChangesMarked ExclusionStored OfflineMeansOff RosterListed PresenceIsBest
PROPERTIES MovesKeepGroups OnlyTested
SYMMETRY Symmetry
