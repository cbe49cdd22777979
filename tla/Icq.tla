-------------------------------- MODULE Icq ---------------------------------
(***************************************************************************)
(* The icq hook (src/src/hooks/icqhook.cc) over the client of libicq2000   *)
(* (src/libicq2000/src/Client.cpp): login, status and invisibility, the    *)
(* lists of people the user is visible or invisible to, and the changes of *)
(* the contact list that is kept by the server, which are sent one at a    *)
(* time, the next when the last has been acknowledged.                     *)
(***************************************************************************)
EXTENDS Naturals, Sequences, SequencesExt

CONSTANTS
  Buddies,   \* people who may be in the contact list, strangers included
  Groups,
  GroupOf,   \* the one of the groups that each of them is in
  Online,    \* the statuses the user chooses, among "available" and "invisible"
  Shy,       \* people who may be on the visible and the invisible list
  MaxMail    \* bounds the packets and edits under way when the user acts

VARIABLES
  manual, fonline, flogged,
  client,    \* m_state, the status wanted and that of m_self, and whether
             \* the peer has silently gone
  net,       \* "ok" when the servers can be reached and accept the user
  listed,    \* those in the contact list
  tree,      \* the people and groups of the client's m_contact_tree
  tosend,    \* uinstosend
  justadded, \* DELAY_SENDNEW has not passed since lastadd
  sbl,       \* m_sbl_edits, sblSNACs, m_sbl_inedit, m_sbl_canedit, and the
             \* people and groups of m_sbl_map and m_sbl_groups
  lst,       \* who is marked visible, or invisible, in CenterIM
  vislist,   \* who is so in the client
  server,    \* the status shown, the list it was sent last, and the contacts
             \* and groups it keeps
  toServer, toClient,
  astray,    \* ghost: contacts of which the server is not told, or refuses
  untold     \* ghost: a change of visibility has not been sent

hook == <<manual, fonline, flogged>>
people == <<listed, tosend, justadded>>
wire == <<toServer, toClient>>
vars == <<hook, client, net, people, tree, sbl, lst, vislist, server, wire, astray, untold>>

Choosable == {"offline"} \cup Online
Marks == Shy \X {"visible", "invisible"}
Marked(how, marks) == {p \in Shy : <<p, how>> \in marks}
Privacy == [list : {"none", "visible", "invisible"}, people : SUBSET Shy]
NoPrivacy == [list |-> "none", people |-> {}]
Edits == [op : {"add", "remove"}, who : Buddies] \cup [op : {"group"}, who : Groups]
Snacs == Edits \cup [op : {"update"}, who : Groups]

TypeOK ==
  /\ manual \in Choosable /\ fonline \in BOOLEAN /\ flogged \in BOOLEAN
  /\ client \in [state : {"none", "auth", "bos", "in"}, wanted : Choosable,
                 self : Choosable, mute : BOOLEAN]
  /\ net \in {"ok", "down"}
  /\ listed \subseteq Buddies /\ tosend \subseteq Buddies /\ justadded \in BOOLEAN
  /\ tree \in [people : SUBSET Buddies, groups : SUBSET Groups]
  /\ sbl.edits \in Seq(Edits) /\ sbl.snacs \in Seq(Snacs)
  /\ sbl.inedit \in BOOLEAN /\ sbl.canedit \in BOOLEAN
  /\ sbl.known \subseteq Buddies /\ sbl.groups \subseteq Groups
  /\ lst \subseteq Marks /\ vislist \subseteq Marks
  /\ server \in [status : Choosable, privacy : Privacy, kept : SUBSET Buddies,
                 groups : SUBSET Groups]
  /\ astray \subseteq Buddies /\ untold \in BOOLEAN

logged == fonline /\ flogged
getstatus == IF fonline THEN client.self ELSE "offline"
Invisible(st) == st = "invisible"
LoggedIn == client.state = "in"

-----------------------------------------------------------------------------
(* Edits of the server's list.  Of those in the queue, some come to        *)
(* nothing: somebody or a group is known already, or is not.               *)
Dropped(s, e) ==
  CASE e.op = "add"    -> e.who \in s.known \/ GroupOf[e.who] \notin s.groups
    [] e.op = "remove" -> e.who \notin s.known
    [] e.op = "group"  -> e.who \in s.groups

(* Every edit is sent with an update of the group, or the master group.    *)
Packets(e) ==
  <<e, [op |-> "update", who |-> IF e.op = "group" THEN e.who ELSE GroupOf[e.who]]>>

(* The first edit that does not come to nothing, or the end of the queue.  *)
FirstLive(s) ==
  LET live == {i \in DOMAIN s.edits : ~Dropped(s, s.edits[i])}
  IN IF live = {} THEN Len(s.edits) + 1
     ELSE CHOOSE i \in live : \A j \in live : i <= j

processSblEdits(s) ==
  LET i == FirstLive(s)
  IN IF s.inedit \/ ~s.canedit THEN s
     ELSE IF i > Len(s.edits) THEN [s EXCEPT !.edits = <<>>]
     ELSE [s EXCEPT !.edits = SubSeq(@, i + 1, Len(@)), !.snacs = Packets(s.edits[i]),
                    !.inedit = TRUE]

(* Those who are given up because the server does not know their group.    *)
Forsaken(s) ==
  IF s.inedit \/ ~s.canedit THEN {}
  ELSE {c \in Buddies \ s.known : \E i \in 1..(FirstLive(s) - 1) :
                                    s.edits[i] = [op |-> "add", who |-> c]}

(* What is sent when the state of the edits changes from s to t.           *)
Sent(s, t) ==
  IF t.inedit /\ (~s.inedit \/ t.snacs # s.snacs)
  THEN <<[type |-> "edit", edit |-> Head(t.snacs)]>> ELSE <<>>

(* contactlist_cb() takes edits while the user is logged in; those queued  *)
(* before are cleared by SignalConnect().                                  *)
Queued(s, es) == IF LoggedIn THEN [s EXCEPT !.edits = @ \o es] ELSE s

(* What is queued when people enter the tree: their groups, and they.      *)
Additions(S) ==
  LET new == {GroupOf[c] : c \in S} \ tree.groups
  IN [i \in DOMAIN SetToSeq(new) |-> [op |-> "group", who |-> SetToSeq(new)[i]]]
     \o [i \in DOMAIN SetToSeq(S) |-> [op |-> "add", who |-> SetToSeq(S)[i]]]

(* People enter the tree (addContact()), or leave it.                      *)
Enter(S) ==
  tree' = [people |-> tree.people \cup S, groups |-> tree.groups \cup {GroupOf[c] : c \in S}]

(* The edits es are queued and looked at, after other packets are sent.    *)
Edit(es, others) ==
  LET s == Queued(sbl, es)
  IN /\ sbl' = processSblEdits(s)
     /\ toServer' = toServer \o others \o Sent(s, sbl')
     /\ astray' = astray \cup Forsaken(s)

-----------------------------------------------------------------------------
(* Status.  The lists of the client are sent where the status changes from *)
(* visible to invisible or back, as far as m_self tells.                   *)
ListPacket(how, marks) == [type |-> how, people |-> Marked(how, marks)]
StatusPacket(st) == [type |-> "status", status |-> st]

StatusPacketsOrderMutant(st, marks) ==
  IF Invisible(st) = Invisible(client.self) THEN <<StatusPacket(st)>>
  ELSE IF Invisible(st) THEN <<StatusPacket(st), ListPacket("visible", marks)>>
  ELSE <<StatusPacket(st), ListPacket("invisible", marks)>>

StatusPackets(st, marks) ==
  IF Invisible(st) = Invisible(client.self) THEN <<StatusPacket(st)>>
  ELSE IF Invisible(st) THEN <<ListPacket("visible", marks), StatusPacket(st)>>
  ELSE <<StatusPacket(st), ListPacket("invisible", marks)>>

(* The last status has not been confirmed. *)
Unsettled == \/ \E i \in DOMAIN toServer : toServer[i].type = "status"
             \/ \E i \in DOMAIN toClient : toClient[i].type = "info"

(* Client::setStatus() with the lists it finds and those it leaves behind. *)
Tell(st, marks, later) ==
  untold' = (\/ Unsettled
             \/ IF Invisible(st) # Invisible(client.self) THEN later # marks
                ELSE untold \/ later # vislist)

setStatus(st, marks, later) ==
  \/ /\ LoggedIn
     /\ client' = [client EXCEPT !.wanted = st]
     /\ Tell(st, marks, later)
  \/ /\ client.state \in {"auth", "bos"}
     /\ client' = [client EXCEPT !.wanted = st]
     /\ UNCHANGED untold
  \/ /\ client.state = "none" /\ net = "ok"
     /\ client' = [client EXCEPT !.wanted = st, !.state = "auth", !.mute = FALSE]
     /\ UNCHANGED untold
  \/ /\ client.state = "none" /\ net = "down"
     /\ client' = [client EXCEPT !.wanted = st]
     /\ UNCHANGED untold

StatusSent(st, marks) == IF LoggedIn THEN StatusPackets(st, marks) ELSE <<>>

(* The hook's connect(), which is also called when m_self is offline while *)
(* the client is not; fonline is set whatever came of it.                  *)
connect(st) ==
  /\ setStatus(st, vislist, lst)
  /\ Enter(listed) /\ Edit(Additions(listed), StatusSent(st, vislist))
  /\ vislist' = lst
  /\ fonline' = TRUE /\ flogged' = FALSE
  /\ UNCHANGED <<server, toClient>>

(* Client::Disconnect() and disconnected_cb().  An edit that has not been  *)
(* acknowledged stays.                                                     *)
Disconnected(wanted) ==
  /\ client' = [state |-> "none", wanted |-> wanted, self |-> "offline", mute |-> FALSE]
  /\ sbl' = [sbl EXCEPT !.canedit = FALSE]
  /\ server' = [server EXCEPT !.status = "offline", !.privacy = NoPrivacy]
  /\ toServer' = <<>> /\ toClient' = <<>>
  /\ fonline' = FALSE
  /\ UNCHANGED <<tree, astray, untold, vislist>>

disconnect ==
  /\ \/ client.state # "none" /\ Disconnected("offline")
     \/ /\ client.state = "none" /\ fonline' = FALSE
        /\ client' = [client EXCEPT !.wanted = "offline"]
        /\ UNCHANGED <<sbl, server, wire, tree, astray, untold, vislist>>
  /\ flogged' = FALSE

Roomy == Len(toServer) < MaxMail /\ Len(toClient) < MaxMail /\ Len(sbl.edits) < MaxMail

(* setstatus() by the user. *)
setstatus(st) ==
  /\ Roomy /\ manual' = st
  /\ \/ st # "offline" /\ getstatus = "offline" /\ connect(st)
     \/ /\ st # "offline" /\ getstatus # "offline"
        /\ setStatus(st, lst, lst) /\ vislist' = lst
        /\ toServer' = toServer \o StatusSent(st, lst)
        /\ UNCHANGED <<fonline, flogged, sbl, tree, astray, server, toClient>>
     \/ st = "offline" /\ getstatus # "offline" /\ disconnect
     \/ /\ st = "offline" /\ getstatus = "offline"
        /\ UNCHANGED <<fonline, flogged, client, sbl, tree, astray, untold, vislist,
                       server, wire>>
  /\ UNCHANGED <<net, people, lst>>

(* Whether a login will get on, which the reconnection, whose period       *)
(* grows, leaves it the time for.                                          *)
UnderWay == net = "ok" /\ client.state \in {"auth", "bos"} /\ ~client.mute

(* centerim::exectimers(). *)
Reconnect ==
  /\ ~logged
  /\ \/ fonline /\ ~UnderWay /\ disconnect
     \/ ~fonline /\ manual # "offline" /\ connect(manual)
  /\ UNCHANGED <<manual, net, people, lst>>

-----------------------------------------------------------------------------
(* The steps of a login: the authorizer, then SendLogin() to the server it *)
(* names, SignalConnect() and connected_cb().                              *)
LoginPackets ==
  IF Invisible(client.wanted)
  THEN <<ListPacket("visible", vislist), StatusPacket(client.wanted), [type |-> "list"]>>
  ELSE <<StatusPacket(client.wanted), ListPacket("invisible", vislist), [type |-> "list"]>>

LoginStep ==
  /\ UnderWay
  /\ \/ /\ client.state = "auth" /\ client' = [client EXCEPT !.state = "bos"]
        /\ UNCHANGED <<flogged, sbl, toServer, untold>>
     \/ /\ client.state = "bos" /\ client' = [client EXCEPT !.state = "in"]
        /\ sbl' = [sbl EXCEPT !.edits = <<>>, !.known = {}, !.groups = {},
                              !.canedit = FALSE]
        /\ toServer' = LoginPackets
        /\ flogged' = TRUE /\ untold' = FALSE
  /\ UNCHANGED <<manual, fonline, net, people, tree, lst, vislist, server, toClient, astray>>

(* The connection ends: by a fault, because the server refuses the login,  *)
(* or because the user has logged in elsewhere.                            *)
Lost ==
  /\ client.state # "none" /\ ~UnderWay /\ Disconnected(client.wanted)
  /\ \/ UNCHANGED manual
     \/ client.state \in {"bos", "in"} /\ manual' = "offline"
  /\ UNCHANGED <<flogged, net, people, lst>>

(* PingServer() fails when nobody is there any more. *)
Noticed == LoggedIn /\ client.mute /\ Lost

NetChanges ==
  /\ net' = IF net = "ok" THEN "down" ELSE "ok"
  /\ \/ UNCHANGED client
     \/ client.state # "none" /\ client' = [client EXCEPT !.mute = TRUE]
  /\ UNCHANGED <<hook, people, tree, sbl, lst, vislist, server, wire, astray, untold>>

-----------------------------------------------------------------------------
(* Contacts. *)
sendnewuser(c) ==
  \/ /\ logged /\ ~justadded
     /\ Enter({c}) /\ Edit(Additions({c}), <<>>)
     /\ justadded' = TRUE /\ UNCHANGED tosend
  \/ /\ logged /\ justadded /\ tosend' = tosend \cup {c}
     /\ UNCHANGED <<justadded, tree, sbl, toServer, astray>>
  \/ ~logged /\ UNCHANGED <<justadded, tosend, tree, sbl, toServer, astray>>

PeopleStay == UNCHANGED <<hook, client, net, lst, server, toClient>>

(* The user adds somebody, or a stranger writes. *)
AddContact(c) ==
  /\ c \notin listed /\ Roomy /\ listed' = listed \cup {c} /\ sendnewuser(c)
  /\ PeopleStay /\ UNCHANGED <<vislist, untold>>

RemoveContact(c) ==
  /\ c \in listed /\ Roomy /\ listed' = listed \ {c}
  /\ \/ /\ c \in tree.people /\ tree' = [tree EXCEPT !.people = @ \ {c}]
        /\ Edit(<<[op |-> "remove", who |-> c]>>, <<>>)
     \/ c \notin tree.people /\ UNCHANGED <<tree, sbl, toServer, astray>>
  /\ PeopleStay /\ UNCHANGED <<vislist, untold, tosend, justadded>>

(* The user changes the visible or the invisible list. *)
Mark(m) ==
  /\ lst' = IF m \in lst THEN lst \ {m} ELSE lst \cup {m}
  /\ UNCHANGED <<hook, client, net, people, tree, sbl, vislist, server, wire, astray, untold>>

(* icqhook::exectimers() every PERIOD_ICQPOLL. *)
Poll ==
  /\ logged /\ Roomy
  /\ vislist' = lst /\ untold' = (untold \/ lst # vislist)
  /\ \/ tosend = {} /\ UNCHANGED <<people, tree, sbl, toServer, astray>>
     \/ \E c \in tosend :
          /\ UNCHANGED listed
          /\ \/ /\ c \in tree.people \/ c \notin listed
                /\ tosend' = tosend \ {c}
                /\ UNCHANGED <<justadded, tree, sbl, toServer, astray>>
             \/ /\ c \notin tree.people /\ c \in listed /\ justadded
                /\ UNCHANGED <<tosend, justadded, tree, sbl, toServer, astray>>
             \/ /\ c \notin tree.people /\ c \in listed /\ ~justadded
                /\ Enter({c}) /\ Edit(Additions({c}), <<>>)
                /\ justadded' = TRUE /\ tosend' = tosend \ {c}
  /\ PeopleStay

(* DELAY_SENDNEW passes. *)
Tick ==
  /\ justadded /\ justadded' = FALSE
  /\ UNCHANGED <<hook, client, net, listed, tosend, tree, sbl, lst, vislist, server, wire,
                 astray, untold>>

-----------------------------------------------------------------------------
(* What arrives. *)
UserInfo(m) ==
  /\ client' = [client EXCEPT !.self = m.status]
  /\ UNCHANGED <<people, tree, sbl, toServer, astray>>

(* Of people new to the contact list one is added at once and the rest is  *)
(* put into uinstosend, although all of them are in the tree by then.      *)
Late(new) ==
  IF ~logged \/ new = {} THEN {{}}
  ELSE IF justadded THEN {new} ELSE {new \ {c} : c \in new}

(* fillSBLMap() and sbl_received_cb(): all of the server's list enters the *)
(* tree and the contact list; then edits may be made.                      *)
ListFromServer(m) ==
  LET s == [Queued(sbl, Additions(m.people \ tree.people))
              EXCEPT !.known = @ \cup m.people, !.groups = @ \cup m.groups, !.canedit = TRUE]
  IN /\ sbl' = processSblEdits(s)
     /\ toServer' = toServer \o Sent(s, sbl')
     /\ tree' = [people |-> tree.people \cup m.people, groups |-> tree.groups \cup m.groups]
     /\ astray' = (tree.people \ m.people) \cup Forsaken(s)
     /\ listed' = listed \cup m.people
     /\ \E late \in Late(m.people \ listed) : tosend' = tosend \cup late
     /\ justadded' = (justadded \/ (logged /\ ~(m.people \subseteq listed)))
     /\ UNCHANGED client

(* The packet that was acknowledged is applied to what is known, if the    *)
(* server accepted it, and the next is sent.                               *)
Applied(s, e) ==
  CASE e.op = "add"    -> [s EXCEPT !.known = @ \cup {e.who}]
    [] e.op = "remove" -> [s EXCEPT !.known = @ \ {e.who}]
    [] e.op = "group"  -> [s EXCEPT !.groups = @ \cup {e.who}]
    [] e.op = "update" -> s

NextEditStopsMutant(s) ==
  IF s.snacs # <<>> THEN s ELSE [s EXCEPT !.inedit = FALSE]

NextEdit(s) ==
  IF s.snacs # <<>> THEN s ELSE processSblEdits([s EXCEPT !.inedit = FALSE])

EditAck(m) ==
  LET e == Head(sbl.snacs)
      s == [(IF m.ok THEN Applied(sbl, e) ELSE sbl) EXCEPT !.snacs = Tail(@)]
      free == [s EXCEPT !.inedit = FALSE]
      who == IF e.op \in {"add", "remove"} THEN {e.who} ELSE {}
  IN /\ sbl' = NextEdit(s)
     /\ toServer' = toServer \o (IF s.snacs # <<>> THEN Sent(sbl, s) ELSE Sent(free, sbl'))
     /\ astray' = (IF m.ok THEN astray \ who ELSE astray \cup who)
                  \cup (IF s.snacs = <<>> THEN Forsaken(free) ELSE {})
     /\ UNCHANGED <<client, people, tree>>

Recv ==
  /\ toClient # <<>> /\ ~client.mute /\ toClient' = Tail(toClient)
  /\ LET m == Head(toClient)
     IN \/ m.type = "info" /\ UserInfo(m)
        \/ m.type = "list" /\ ListFromServer(m)
        \/ m.type = "ack" /\ EditAck(m)
  /\ UNCHANGED <<hook, net, lst, vislist, server, untold>>

-----------------------------------------------------------------------------
(* The server. *)
Accepts(e) ==
  CASE e.op = "add"    -> [server EXCEPT !.kept = @ \cup {e.who}]
    [] e.op = "remove" -> [server EXCEPT !.kept = @ \ {e.who}]
    [] e.op = "group"  -> [server EXCEPT !.groups = @ \cup {e.who}]
    [] e.op = "update" -> server

ServerTakes ==
  /\ toServer # <<>> /\ ~client.mute /\ toServer' = Tail(toServer)
  /\ LET m == Head(toServer)
     IN \/ /\ m.type \in {"visible", "invisible"}
           /\ server' = [server EXCEPT !.privacy = [list |-> m.type, people |-> m.people]]
           /\ UNCHANGED toClient
        \/ /\ m.type = "status" /\ server' = [server EXCEPT !.status = m.status]
           /\ toClient' = Append(toClient, [type |-> "info", status |-> m.status])
        \/ /\ m.type = "list" /\ UNCHANGED server
           /\ toClient' = Append(toClient, [type |-> "list", people |-> server.kept,
                                            groups |-> server.groups])
        \/ /\ m.type = "edit"
           /\ \E ok \in BOOLEAN :
                /\ server' = IF ok THEN Accepts(m.edit) ELSE server
                /\ toClient' = Append(toClient, [type |-> "ack", ok |-> ok])
  /\ UNCHANGED <<hook, client, net, people, tree, sbl, lst, vislist, astray, untold>>

(* The user's other client, of which the server lets in one at a time. *)
OtherClient(c) ==
  /\ ~LoggedIn
  /\ \/ c \in server.kept /\ server' = [server EXCEPT !.kept = @ \ {c}]
     \/ /\ c \notin server.kept
        /\ server' = [server EXCEPT !.kept = @ \cup {c}, !.groups = @ \cup {GroupOf[c]}]
  /\ UNCHANGED <<hook, client, net, people, tree, sbl, lst, vislist, wire, astray, untold>>

-----------------------------------------------------------------------------
Init ==
  /\ manual \in Choosable /\ fonline = FALSE /\ flogged = FALSE /\ net = "ok"
  /\ client = [state |-> "none", wanted |-> "offline", self |-> "offline", mute |-> FALSE]
  /\ listed \in SUBSET Buddies /\ tosend = {} /\ justadded = FALSE
  /\ tree = [people |-> {}, groups |-> {}]
  /\ sbl = [edits |-> <<>>, snacs |-> <<>>, inedit |-> FALSE, canedit |-> FALSE,
            known |-> {}, groups |-> {}]
  /\ lst \in SUBSET Marks /\ vislist = {}
  /\ server = [status |-> "offline", privacy |-> NoPrivacy, kept |-> {}, groups |-> {}]
  /\ toServer = <<>> /\ toClient = <<>> /\ astray = {} /\ untold = FALSE

Next ==
  \/ \E st \in Choosable : setstatus(st)
  \/ Reconnect \/ LoginStep \/ Lost \/ NetChanges \/ Poll \/ Tick \/ Recv \/ ServerTakes
  \/ \E c \in Buddies : AddContact(c) \/ RemoveContact(c) \/ OtherClient(c)
  \/ \E m \in Marks : Mark(m)

Spec == Init /\ [][Next]_vars

(* The main loop reconnects and looks at its sockets; a ping that nobody   *)
(* answers fails in the end.                                               *)
FairSpec == Spec /\ WF_vars(Reconnect) /\ WF_vars(LoginStep) /\ WF_vars(Noticed)

-----------------------------------------------------------------------------
(* Between edits the client knows what the server keeps, and whoever was   *)
(* added or removed while logged in has been added or removed there, if    *)
(* the server accepts it and knows the group.                              *)
ListFollows ==
  LoggedIn /\ sbl.canedit /\ ~sbl.inedit =>
    /\ sbl.known = server.kept
    /\ \A c \in Buddies \ astray : c \in tree.people <=> c \in server.kept

(* A user who is invisible is seen by his visible list and by nobody else, *)
(* at every moment; one who is visible is hidden from his invisible list   *)
(* when the change is done; unless a status was chosen before the last one *)
(* was confirmed, or the lists changed since.                              *)
PrivacyTold ==
  LoggedIn /\ ~untold =>
    /\ server.status = "invisible" /\ client.wanted = "invisible" =>
         server.privacy = [list |-> "visible", people |-> Marked("visible", vislist)]
    /\ server.status = "available" /\ toServer = <<>> =>
         server.privacy = [list |-> "invisible", people |-> Marked("invisible", vislist)]

(* While the network is good and the user wants to be online, the hook is  *)
(* logged in again and again, whatever statuses he chooses meanwhile.      *)
LoggedInAgain == <>[](net = "ok" /\ manual # "offline") => []<>logged
=============================================================================
