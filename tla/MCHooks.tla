------------------------------ MODULE MCHooks -------------------------------
(* Small instances of HTTPClient, LiveJournal, Gadu, Irc and the login of  *)
(* Icq in one state space: the component that part names moves, the others *)
(* stay where they began.                                                  *)
EXTENDS HTTPClient

CONSTANTS Posts, Users, Friends, Events, Root, MaxAsked, Rooms, MaxMail
VARIABLES
  part,
  jManual, jFonline, jFlogged, jSelf, jSdest, jDue, jFriendof, jZip, jQueue, jHttp,
  jNet, jServer, jTold, jPosts,
  gManual, gFlogged, gSess, gNet, gListed, gWatched, gOnline, gFate, gSearchdest,
  gIreq, gReplies, gDetails,
  iManual, iLink, iChannels, iSearched, iListed, iShown, iMember, iToServer, iToClient,
  qManual, qFonline, qFlogged, qClient, qNet, qListed, qTree, qTosend, qJustadded,
  qSbl, qLst, qVislist, qServer, qToServer, qToClient, qAstray, qUntold

Lj == INSTANCE LiveJournal WITH
  manual <- jManual, fonline <- jFonline, flogged <- jFlogged, self <- jSelf,
  sdest <- jSdest, due <- jDue, friendof <- jFriendof, zip <- jZip, m_queue <- jQueue,
  http <- jHttp, net <- jNet, server <- jServer, told <- jTold, posts <- jPosts

Gg == INSTANCE Gadu WITH
  manual <- gManual, flogged <- gFlogged, sess <- gSess, net <- gNet, listed <- gListed,
  watched <- gWatched, online <- gOnline, fate <- gFate, searchdest <- gSearchdest,
  ireq <- gIreq, replies <- gReplies, details <- gDetails

Ic == INSTANCE Irc WITH
  manual <- iManual, link <- iLink, channels <- iChannels, searched <- iSearched,
  listed <- iListed, shown <- iShown, member <- iMember, toServer <- iToServer,
  toClient <- iToClient

Iq == INSTANCE Icq WITH
  Buddies <- {}, Groups <- {}, GroupOf <- [b \in {} |-> Root], Shy <- {},
  Online <- {"available", "invisible"},
  manual <- qManual, fonline <- qFonline, flogged <- qFlogged, client <- qClient,
  net <- qNet, listed <- qListed, tree <- qTree, tosend <- qTosend,
  justadded <- qJustadded, sbl <- qSbl, lst <- qLst, vislist <- qVislist,
  server <- qServer, toServer <- qToServer, toClient <- qToClient,
  astray <- qAstray, untold <- qUntold

jVars == <<jManual, jFonline, jFlogged, jSelf, jSdest, jDue, jFriendof, jZip, jQueue,
           jHttp, jNet, jServer, jTold, jPosts>>
gVars == <<gManual, gFlogged, gSess, gNet, gListed, gWatched, gOnline, gFate,
           gSearchdest, gIreq, gReplies, gDetails>>
iVars == <<iManual, iLink, iChannels, iSearched, iListed, iShown, iMember, iToServer,
           iToClient>>
qVars == <<qManual, qFonline, qFlogged, qClient, qNet, qListed, qTree, qTosend, qJustadded,
          qSbl, qLst, qVislist, qServer, qToServer, qToClient, qAstray, qUntold>>

(* A feed with its length in the middle or at the end of the header or not *)
(* given, an error, a redirection, a request for a password without and    *)
(* with the length of the page that says so.                               *)
Pages == {
  <<"200", "length", "header", "blank", "text", "text">>,
  <<"200", "length", "blank", "text">>,
  <<"200", "blank", "text">>,
  <<"404", "length", "blank", "text">>,
  <<"302", "header", "location", "blank">>,
  <<"401", "authenticate", "blank">>,
  <<"401", "length", "authenticate", "blank", "text", "text", "text", "text">>}

PartInit ==
  /\ part \in {"http", "livejournal", "gadu", "irc", "icq"} /\ Init
  /\ Lj!Init /\ (part # "livejournal" => jManual = "offline")
  /\ Gg!Init /\ (part # "gadu" => gManual = "offline")
  /\ Ic!Init /\ (part # "irc" => iManual = "offline" /\ iChannels = <<>>)
  /\ Iq!Init /\ (part # "icq" => qManual = "offline")
PartNext ==
  \/ part = "http" /\ Next /\ UNCHANGED <<part, jVars, gVars, iVars, qVars>>
  \/ part = "livejournal" /\ Lj!Next /\ UNCHANGED <<part, vars, gVars, iVars, qVars>>
  \/ part = "gadu" /\ Gg!Next /\ UNCHANGED <<part, vars, jVars, iVars, qVars>>
  \/ part = "irc" /\ Ic!Next /\ UNCHANGED <<part, vars, jVars, gVars, qVars>>
  \/ part = "icq" /\ Iq!Next /\ UNCHANGED <<part, vars, jVars, gVars, iVars>>
PartSpec == PartInit /\ [][PartNext]_<<part, vars, jVars, gVars, iVars, qVars>>

Http(A) == part = "http" /\ A /\ UNCHANGED <<jVars, gVars, iVars, qVars>>
Gadu(A) == part = "gadu" /\ A /\ UNCHANGED <<vars, jVars, iVars, qVars>>
Icq(A) == part = "icq" /\ A /\ UNCHANGED <<vars, jVars, gVars, iVars>>

(* The fairness of the parts of which some liveness is checked. *)
FairPartSpec ==
  /\ PartSpec
  /\ WF_vars(Http(Poll)) /\ WF_vars(Http(Tick)) /\ WF_vars(Http(RecvStep))
  /\ WF_gVars(Gadu(Gg!Reconnect)) /\ WF_gVars(Gadu(Gg!LoginStep))
  /\ WF_gVars(Gadu(Gg!Lost))
  /\ WF_qVars(Icq(Iq!Reconnect)) /\ WF_qVars(Icq(Iq!LoginStep)) /\ WF_qVars(Icq(Iq!Noticed))

(* A LiveJournal or irc hook set offline is not logged in, and a Gadu-Gadu *)
(* hook set offline has no session.                                        *)
OfflineMeansOff == Lj!OfflineMeansOff /\ Gg!OfflineMeansOff /\ Ic!OfflineMeansOff

(* A post that was accepted waits in the client until it is reported.      *)
PostsTracked == Lj!PostsTracked

(* Whom the user was told of is known over logins and disconnections.      *)
FriendsKnown == Lj!FriendsKnown

(* The Gadu-Gadu server reports on those in the list, once logged in.      *)
WatchedIsList == Gg!WatchedIsList

(* Nobody is shown online by a Gadu-Gadu hook that is not connected.       *)
OnlineMeansConnected == Gg!OnlineMeansConnected

(* The first login to Gadu-Gadu comes about although peers vanish, and an  *)
(* icq user is logged in again whatever happens while the login is made.   *)
LoginsComeAbout == Gg!FirstLogin /\ (part = "icq" => Iq!LoggedInAgain)

(* The irc user is in the channels whose records say that they are joined, *)
(* or the hook is about to hear that he is not.  It is not claimed of the  *)
(* channels shown: one added after it was refused is shown, its record     *)
(* not joined, and no JOIN is sent.                                        *)
JoinedTracks == Ic!JoinedTracks
=============================================================================
