SPECIFICATION FairPartSpec
CONSTANTS
  Requests = {r1, r2}
  Replies <- Pages
  MaxTries = 1
  Timeout = 1
  Posts = {p1}
  Users = {u1}
  Friends = {f1, f2}
  Events = {e1}
  Root = root
  MaxAsked = 1
  Rooms = {c1, c2}
  MaxMail = 2
INVARIANTS Coherent QueueSound OfflineMeansOff PostsTracked FriendsKnown WatchedIsList OnlineMeansConnected JoinedTracks
PROPERTIES OwnAnswer ServedInTurn EventuallyReported LoginsComeAbout
