--------------------------- MODULE MCContactList ----------------------------
(* Small instances of ContactList, ModeList, Incoming and Jabber in one    *)
(* state space: the component that part names moves, the others stay where *)
(* they began.                                                             *)
EXTENDS ContactList, TLC

CONSTANTS
  Icq, Gadu, Named, Pals, Statuses, Ignore,
  Writers, Irc, Ignored, Questions, Texts, Answers, Timeout, q1, q2, t1, t2,
  Buddies, Resources, MaxPackets
VARIABLES
  part,
  lUp, lClist, lDisp, lLst, lFile, lDialog, lPicked, lMeant, lKept,
  iConf, iKnown, iListed, iDirs, iUnread, iOutfile, iEntry, iTest, iPassed,
  jManual, jLink, jRoster, jStatuses, jListed, jShown, jKept, jSub, jPresent,
  jAnnounced, jTold, jToServer, jToClient, jReset

Ml == INSTANCE ModeList WITH
  Nicks <- Pals, up <- lUp, clist <- lClist, disp <- lDisp, lst <- lLst, file <- lFile,
  dialog <- lDialog, picked <- lPicked, meant <- lMeant, kept <- lKept

In == INSTANCE Incoming WITH
  Contacts <- Writers, conf <- iConf, known <- iKnown, listed <- iListed, dirs <- iDirs,
  unread <- iUnread, outfile <- iOutfile, entry <- iEntry, test <- iTest, passed <- iPassed

(* Presences of different priority and status. *)
TwoPresences == {<<0, "available">>, <<1, "away">>}

Jb == INSTANCE Jabber WITH
  Presences <- TwoPresences,
  manual <- jManual, link <- jLink, roster <- jRoster, statuses <- jStatuses,
  listed <- jListed, shown <- jShown, kept <- jKept, sub <- jSub, present <- jPresent,
  announced <- jAnnounced, told <- jTold, toServer <- jToServer, toClient <- jToClient,
  reset <- jReset

(* Nothing tells one resource from another.                               *)
Symmetry == Permutations(Resources)

(* Two questions with an answer each; the third text answers neither. *)
MCAnswers == (q1 :> {t1}) @@ (q2 :> {t2})

lVars == <<lUp, lClist, lDisp, lLst, lFile, lDialog, lPicked, lMeant, lKept>>
iVars == <<iConf, iKnown, iListed, iDirs, iUnread, iOutfile, iEntry, iTest, iPassed>>
jVars == <<jManual, jLink, jRoster, jStatuses, jListed, jShown, jKept, jSub, jPresent,
           jAnnounced, jTold, jToServer, jToClient, jReset>>

PartInit ==
  /\ part \in {"contacts", "lists", "strangers", "roster"}
  /\ Init /\ (part # "contacts" => grouped)
  /\ Ml!Init
  /\ In!Init /\ (part # "strangers" => ~iConf.antispam /\ ~iConf.captcha)
  /\ Jb!Init
  /\ (part # "roster" => jManual = "offline" /\ jKept = {} /\ \A b \in Buddies : jListed[b] = "absent")
PartNext ==
  \/ part = "contacts" /\ Next /\ UNCHANGED <<part, lVars, iVars, jVars>>
  \/ part = "lists" /\ Ml!Next /\ UNCHANGED <<part, vars, iVars, jVars>>
  \/ part = "strangers" /\ In!Next /\ UNCHANGED <<part, vars, lVars, jVars>>
  \/ part = "roster" /\ Jb!Next /\ UNCHANGED <<part, vars, lVars, iVars>>
PartSpec == PartInit /\ [][PartNext]_<<part, vars, lVars, iVars, jVars>>

(* Contacts known by their numbers are on the lists the user put them on.  *)
NumbersExact == Ml!NumbersExact

(* The contacts in memory and their directories agree, and nobody whom the *)
(* list does not have has anything unread or unsent.                       *)
ListMatchesDisk == In!ListMatchesDisk

(* While the captcha is on nobody gets into the list without passing it    *)
(* in time.                                                                *)
OnlyTested == In!OnlyTested

(* Nobody sees a jabber user who has set himself offline.                  *)
OfflineMeansOff == Jb!OfflineMeansOff

(* Everybody in the jabber server's roster is in the contact list, and in  *)
(* the hook's roster, when no word about him is under way.                 *)
RosterListed == Jb!RosterListed

(* A jabber contact is shown with the status of his best resource.         *)
PresenceIsBest == Jb!PresenceIsBest
=============================================================================
