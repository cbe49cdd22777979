-------------------------------- MODULE Irc ---------------------------------
(***************************************************************************)
(* The channels of the irc hook (src/src/hooks/irchook.cc) over a firetalk *)
(* connection (src/firetalk): the hook's records of the channels, the      *)
(* contacts that stand for them, the user who joins, leaves, adds, removes *)
(* and searches, and a server that may refuse and whose operators kick.    *)
(***************************************************************************)
EXTENDS Naturals, Sequences, FiniteSets, SequencesExt

CONSTANTS
  Rooms,
  MaxMail    \* bounds the messages under way, and the commands but for those
             \* of a login

VARIABLES
  manual,    \* manualstatus: "available" or "offline"
  link,      \* the connection: in "synack" and "signon" the hook is online,
             \* in "active" also logged in; a "dead" one has ended, but the
             \* hook, who was not told, believes that it is connecting
  channels,  \* the records, in their order: a room and whether it is joined
  searched,  \* searchchannels, where the user last looked for people
  listed,    \* the contacts: "absent", "stranger" or "inlist"
  shown,     \* the contacts shown as available
  member,    \* the rooms in which the server has the user
  toServer, toClient

records == <<channels, searched>>
contacts == <<listed, shown>>
wire == <<member, toServer, toClient>>
vars == <<manual, link, records, contacts, wire>>

hookonline == link # "off"
logged == link = "active"

Joined(chs, r) == [room |-> r, joined |-> TRUE] \in Range(chs)
Holds(chs, r) == \E c \in Range(chs) : c.room = r
Place(chs, r) == CHOOSE i \in DOMAIN chs : chs[i].room = r

TypeOK ==
  /\ manual \in {"available", "offline"}
  /\ link \in {"off", "synack", "signon", "active", "dead"}
  /\ channels \in Seq([room : Rooms, joined : BOOLEAN])
  /\ \A i, j \in DOMAIN channels : channels[i].room = channels[j].room => i = j
  /\ searched \subseteq Rooms
  /\ listed \in [Rooms -> {"absent", "stranger", "inlist"}]
  /\ shown \subseteq {r \in Rooms : listed[r] # "absent"}
  /\ member \subseteq Rooms
  /\ toServer \in Seq({"JOIN", "PART"} \X Rooms)
  /\ toClient \in Seq({"joined", "left", "kicked", "refused"} \X Rooms)
  /\ Len(toClient) <= MaxMail

-----------------------------------------------------------------------------
(* The records.                                                            *)

(* What is at the given places of a sequence, in its order. *)
Rank(at, i) == Cardinality({j \in at : j <= i})
Those(s, at) == [k \in 1 .. Cardinality(at) |-> s[CHOOSE i \in at : Rank(at, i) = k]]

All(command, chs) == [i \in DOMAIN chs |-> <<command, chs[i].room>>]

(* What firetalk sends to a server that knows the user; before that it is  *)
(* not sent or not heeded.                                                 *)
Send(commands) ==
  /\ toServer' = IF logged THEN toServer \o commands ELSE toServer
  /\ Len(toServer') <= MaxMail

(* Channels used for a search only are left out. *)
getautochannels(chs) ==
  Those(chs, {i \in DOMAIN chs : chs[i].joined \/ chs[i].room \notin searched})

(* setautochannels(): what the server has to be told of a change.          *)
OnlyIn(chs, other) ==
  Those(chs, {i \in DOMAIN chs : chs[i].joined /\ ~Joined(other, chs[i].room)})
Changes(old, new) == All("PART", OnlyIn(old, new)) \o All("JOIN", OnlyIn(new, old))

(* sendnewuser() and removeuser() for a channel: the records they leave.   *)
WithUser(chs, r) ==
  LET auto == getautochannels(chs)
  IN  IF hookonline /\ ~Holds(auto, r)
        THEN Append(auto, [room |-> r, joined |-> TRUE]) ELSE chs

WithoutUser(chs, r) ==
  LET auto == getautochannels(chs)
  IN  IF hookonline /\ Holds(auto, r)
        THEN Those(auto, {i \in DOMAIN auto : auto[i].room # r}) ELSE chs

setautochannels(chs) ==
  /\ channels' = chs /\ Send(Changes(channels, chs))
  /\ UNCHANGED <<searched, member, toClient>>

-----------------------------------------------------------------------------
(* Connection and status.                                                  *)

Disconnected(l) == link' = l /\ member' = {} /\ toServer' = <<>> /\ toClient' = <<>>

(* A signon that can be begun, or not; nobody is told of the old one. *)
connect == Disconnected("synack") \/ Disconnected("off")

(* firetalk calls disconnected() only for a connection that is active.     *)
disconnected == Disconnected("off") /\ shown' = {}
disconnect ==
  \/ logged /\ disconnected
  \/ hookonline /\ ~logged /\ Disconnected("dead") /\ UNCHANGED shown

setstatus(st) ==
  /\ manual' = st
  /\ \/ st = "offline" /\ logged /\ disconnect
     \/ st = "available" /\ ~logged /\ connect /\ UNCHANGED shown
     \/ (st = "available") = logged /\ UNCHANGED <<link, wire, shown>>
  /\ UNCHANGED <<records, listed>>

(* centerim::exectimers(). *)
Reconnect ==
  /\ ~logged
  /\ \/ hookonline /\ disconnect
     \/ ~hookonline /\ manual # "offline" /\ connect /\ UNCHANGED shown
  /\ UNCHANGED <<manual, records, listed>>

ConnectedForgetsMutant ==
  IF manual = "offline" THEN disconnected
  ELSE link' = "active" /\ UNCHANGED <<wire, shown>>

(* The server accepts the user, who may have gone offline meanwhile.       *)
connected ==
  IF manual = "offline" THEN disconnected
  ELSE /\ link' = "active" /\ UNCHANGED <<member, toClient, shown>>
       /\ toServer' = All("JOIN", Those(channels, {i \in DOMAIN channels : channels[i].joined}))

LoginStep ==
  /\ \/ link = "synack" /\ link' = "signon" /\ UNCHANGED <<wire, shown>>
     \/ link = "signon" /\ connected
  /\ UNCHANGED <<manual, records, listed>>

(* connectfailed() after a refusal, or a connection that just ends.        *)
Lost ==
  /\ \/ link \in {"synack", "signon"} /\ Disconnected("off") /\ UNCHANGED shown
     \/ link = "signon" /\ Disconnected("dead") /\ UNCHANGED shown
     \/ logged /\ disconnected
  /\ UNCHANGED <<manual, records, listed>>

-----------------------------------------------------------------------------
(* The user.                                                               *)

(* icqcontact::setstatus() from the user, which tells the hook.            *)
Show(r) == shown' = shown \cup {r} /\ setautochannels(WithUser(channels, r))
Hide(r) == shown' = shown \ {r} /\ setautochannels(WithoutUser(channels, r))

(* The join dialog, for what is not in the list yet: includeintolist()     *)
(* makes the status offline, and the dialog then available.                *)
joindialog(r) ==
  /\ listed[r] # "inlist" /\ listed' = [listed EXCEPT ![r] = "inlist"]
  /\ Show(r) /\ UNCHANGED <<manual, link>>

(* ACT_JOIN and ACT_LEAVE of the menu, which is offered by a hook that is  *)
(* logged in and may outlast its connection.                               *)
JoinOrLeave(r) ==
  /\ listed[r] # "absent"
  /\ IF r \in shown THEN Hide(r) ELSE Show(r)
  /\ UNCHANGED <<manual, link, listed>>

RemoveContact(r) ==
  /\ listed[r] # "absent" /\ listed' = [listed EXCEPT ![r] = "absent"]
  /\ Hide(r) /\ UNCHANGED <<manual, link>>

(* Looking for people in a channel means joining it as a guest.            *)
lookup(r) ==
  /\ searched' = {r}
  /\ channels' = IF Holds(channels, r) THEN channels
                 ELSE Append(channels, [room |-> r, joined |-> FALSE])
  /\ Send(IF Joined(channels, r) THEN <<>> ELSE <<<<"JOIN", r>>>>)
  /\ UNCHANGED <<manual, link, contacts, member, toClient>>

-----------------------------------------------------------------------------
(* The server.                                                             *)

Says(what, r) == toClient' = Append(toClient, <<what, r>>) /\ Len(toClient') <= MaxMail

TakesJoin(r) ==
  \/ r \in member /\ UNCHANGED <<member, toClient>>
  \/ r \notin member /\ member' = member \cup {r} /\ Says("joined", r)
  \/ r \notin member /\ UNCHANGED member /\ Says("refused", r)

TakesPart(r) ==
  \/ r \in member /\ member' = member \ {r} /\ Says("left", r)
  \/ r \notin member /\ UNCHANGED <<member, toClient>>

ServerTakes ==
  /\ toServer # <<>> /\ toServer' = Tail(toServer)
  /\ LET r == Head(toServer)[2]
     IN  IF Head(toServer)[1] = "JOIN" THEN TakesJoin(r) ELSE TakesPart(r)
  /\ UNCHANGED <<manual, link, records, contacts>>

Kick(r) ==
  /\ r \in member /\ member' = member \ {r} /\ Says("kicked", r)
  /\ UNCHANGED <<manual, link, records, contacts, toServer>>

-----------------------------------------------------------------------------
(* The server's messages.                                                  *)

chatjoined(r) ==
  /\ shown' = IF listed[r] = "absent" THEN shown ELSE shown \cup {r}
  /\ UNCHANGED <<records, listed, toServer>>

chatleft(r) == shown' = shown \ {r} /\ UNCHANGED <<records, listed, toServer>>

(* The iterator is used after the vector was assigned anew in place: it    *)
(* then points to whatever record has come there, or past the end.         *)
Unjoin(chs, k) == IF k \in DOMAIN chs THEN [chs EXCEPT ![k].joined = FALSE] ELSE chs

(* A channel that is not a contact becomes one, which the hook takes for a *)
(* new user; one that is shown goes offline, which makes the hook leave.   *)
channelfatal(r) ==
  IF ~Holds(channels, r)
    THEN UNCHANGED <<records, contacts, toServer>>
    ELSE LET new == IF listed[r] = "absent" THEN WithUser(channels, r)
                    ELSE IF r \in shown THEN WithoutUser(channels, r)
                    ELSE channels
         IN  /\ channels' = Unjoin(new, Place(channels, r))
             /\ Send(Changes(channels, new))
             /\ listed' = [listed EXCEPT ![r] = IF @ = "absent" THEN "stranger" ELSE @]
             /\ shown' = shown \ {r} /\ UNCHANGED searched

main ==
  /\ toClient # <<>> /\ toClient' = Tail(toClient)
  /\ LET r == Head(toClient)[2]
     IN  CASE Head(toClient)[1] = "joined" -> chatjoined(r)
           [] Head(toClient)[1] = "left" -> chatleft(r)
           [] Head(toClient)[1] \in {"kicked", "refused"} -> channelfatal(r)
  /\ UNCHANGED <<manual, link, member>>

-----------------------------------------------------------------------------
(* init(): the contacts that were joined when the program ended.           *)
Init ==
  /\ manual \in {"available", "offline"} /\ link = "off"
  /\ \E old \in SUBSET Rooms :
       /\ IsFiniteSet(old)
       /\ channels \in SetToSeqs({[room |-> r, joined |-> TRUE] : r \in old})
       /\ listed = [r \in Rooms |-> IF r \in old THEN "inlist" ELSE "absent"]
  /\ searched = {} /\ shown = {}
  /\ member = {} /\ toServer = <<>> /\ toClient = <<>>

Next ==
  \/ \E st \in {"available", "offline"} : setstatus(st)
  \/ Reconnect \/ LoginStep \/ Lost
  \/ \E r \in Rooms :
       joindialog(r) \/ JoinOrLeave(r) \/ RemoveContact(r) \/ lookup(r) \/ Kick(r)
  \/ ServerTakes \/ main

Spec == Init /\ [][Next]_vars

-----------------------------------------------------------------------------
(* A hook set offline is not logged in. *)
OfflineMeansOff == manual = "offline" => ~logged

(* The server has the user in r once it has read all it was sent, or will  *)
(* have told the hook that it has not.                                     *)
Silent(sent, r) == \A i \in DOMAIN sent : sent[i][2] # r
JoinsLast(sent, r) ==
  \E i \in DOMAIN sent :
    sent[i] = <<"JOIN", r>> /\ \A j \in DOMAIN sent : j > i => sent[j][2] # r
Settled(r) ==
  \/ Silent(toServer, r) /\ r \in member
  \/ JoinsLast(toServer, r)
  \/ \E what \in {"kicked", "refused"} : <<what, r>> \in Range(toClient)

(* Channels the hook holds for joined it is really in, through kicks,      *)
(* refusals, searches and reconnections, unless the opposite is under way. *)
JoinedTracks == logged => \A r \in Rooms : Joined(channels, r) => Settled(r)
=============================================================================
