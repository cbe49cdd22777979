------------------------------ MODULE MCSending -----------------------------
(* Small instances of EventManager and of Icq in one state space: the      *)
(* component that part names moves, the other stays where it began.        *)
EXTENDS MCEventManager

CONSTANTS Buddies, Groups, GroupOf, Shy, general, MaxPackets
VARIABLES
  part,
  qManual, qFonline, qFlogged, qClient, qNet, qListed, qTree, qTosend, qJustadded,
  qSbl, qLst, qVislist, qServer, qToServer, qToClient, qAstray, qUntold

Iq == INSTANCE Icq WITH
  Online <- {"available", "invisible"}, MaxMail <- MaxPackets,
  manual <- qManual, fonline <- qFonline, flogged <- qFlogged, client <- qClient,
  net <- qNet, listed <- qListed, tree <- qTree, tosend <- qTosend,
  justadded <- qJustadded, sbl <- qSbl, lst <- qLst, vislist <- qVislist,
  server <- qServer, toServer <- qToServer, toClient <- qToClient,
  astray <- qAstray, untold <- qUntold

MCGroupOf == [b \in Buddies |-> general]

qVars == <<qManual, qFonline, qFlogged, qClient, qNet, qListed, qTree, qTosend, qJustadded,
          qSbl, qLst, qVislist, qServer, qToServer, qToClient, qAstray, qUntold>>

(* Icq's state is too large to be explored at once: either the user is     *)
(* available when he is not offline, and marks nobody, or he has no        *)
(* contacts, in his list or the server's.                                  *)
Stored == qManual # "invisible" /\ qLst = {}
Seen == qListed = {} /\ qServer.kept = {}

PartInit ==
  /\ part \in {"queue", "stored", "seen"} /\ Init /\ Iq!Init
  /\ (part = "stored" => Stored) /\ (part = "seen" => Seen)
  /\ (part = "queue" => qManual = "offline" /\ qLst = {} /\ qListed = {})
PartNext ==
  \/ part = "queue" /\ Next /\ UNCHANGED <<part, qVars>>
  \/ part = "stored" /\ Iq!Next /\ Stored' /\ UNCHANGED <<part, vars>>
  \/ part = "seen" /\ Iq!Next /\ Seen' /\ UNCHANGED <<part, vars>>
PartSpec == PartInit /\ [][PartNext]_<<part, vars, qVars>>

(* The fairness of EventManager, of which some liveness is checked. *)
Sending(A) == part = "queue" /\ A /\ UNCHANGED qVars
FairPartSpec ==
  /\ PartSpec
  /\ \A p \in Procs : WF_vars(Sending(EventWrite(p)))
  /\ WF_vars(Sending(Resend)) /\ WF_vars(Sending(Tick)) /\ WF_vars(Sending(Restart))

(* What is added to or removed from the icq contact list is so on the      *)
(* server's, once every edit has been acknowledged.                        *)
ListFollows == Iq!ListFollows

(* An invisible icq user is seen by his visible list only, and a visible   *)
(* one is hidden from his invisible list.                                  *)
PrivacyTold == Iq!PrivacyTold
=============================================================================
