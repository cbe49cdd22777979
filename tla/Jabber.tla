------------------------------- MODULE Jabber -------------------------------
(***************************************************************************)
(* The jabber hook (src/src/hooks/jabberhook.cc) over a connection of      *)
(* src/libjabber: the login, the roster, which the server keeps for all of *)
(* the user's clients, and the presence of people who are connected from   *)
(* several resources.                                                      *)
(***************************************************************************)
EXTENDS Integers, Sequences, SequencesExt

CONSTANTS
  Buddies,     \* people who may be in the roster
  Resources,   \* where each of them may be connected from
  Presences,   \* pairs of a priority, above the -127 below which
               \* get_presence() sees nobody, and a status other than offline
  MaxPackets   \* bounds the packets under way in each direction

VARIABLES
  manual,      \* manualstatus: "available" or "offline"
  link,        \* "off", "connecting", "auth", and once authorised "roster"
               \* until the roster has come and "on" from then on
  roster,      \* those whom the hook takes to be in the server's roster
  statuses,    \* the presence of every resource that the hook has heard of
  listed,      \* the contacts: "absent", "stranger" or "inlist"
  shown,       \* the status of each contact
  \* the server
  kept,        \* its roster
  sub,         \* those who let the user see their presence
  present,     \* where people really are
  announced,   \* whether the user has announced himself
  told,        \* what it last said of each resource
  toServer, toClient,
  reset        \* ghost: those removed, or added while already a contact,
               \* since the login

connection == <<link, roster, statuses>>
contacts == <<listed, shown>>
server == <<kept, sub, present, announced, told>>
vars == <<manual, connection, contacts, server, toServer, toClient, reset>>

hookonline == link # "off"
logged == link \in {"roster", "on"}

(* A resource that is not connected: get_presence() starts from this.      *)
NoPresence == <<-127, "offline">>
Away == [r \in Resources |-> NoPresence]
Nobody == [f \in Buddies |-> Away]
Offline == [f \in Buddies |-> "offline"]

TypeOK ==
  /\ manual \in {"available", "offline"}
  /\ link \in {"off", "connecting", "auth", "roster", "on"}
  /\ \A m \in {statuses, present, told} : m \in [Buddies -> [Resources -> Presences \cup {NoPresence}]]
  /\ listed \in [Buddies -> {"absent", "stranger", "inlist"}]
  /\ shown \in [Buddies -> {p[2] : p \in Presences \cup {NoPresence}}]
  /\ \A f \in Buddies : listed[f] = "absent" => shown[f] = "offline"
  /\ \A s \in {roster, kept, sub, reset} : s \subseteq Buddies
  /\ announced \in BOOLEAN
  /\ toServer \in Seq({<<"getroster">>, <<"available">>} \cup ({"add", "remove"} \X Buddies))
  /\ toClient \in Seq(({"roster"} \X SUBSET Buddies)
                        \cup ({"item", "message"} \X Buddies)
                        \cup ({"presence"} \X Buddies \X Resources \X (Presences \cup {NoPresence})))
  /\ Len(toServer) <= MaxPackets /\ Len(toClient) <= MaxPackets

-----------------------------------------------------------------------------
(* Connection and status.                                                  *)

Send(packets) == toServer' = toServer \o packets /\ Len(toServer') <= MaxPackets
Says(packet) == toClient' = Append(toClient, packet) /\ Len(toClient') <= MaxPackets

(* The connection has ended or is given up: the server takes the user for  *)
(* gone, and what was under way is lost.                                   *)
HangUp(l) ==
  /\ link' = l /\ announced' = FALSE /\ told' = Nobody
  /\ toServer' = <<>> /\ toClient' = <<>> /\ reset' = {}
  /\ UNCHANGED <<kept, sub, present>>

(* statehandler(JCONN_STATE_OFF). *)
StateOff == roster' = {} /\ shown' = Offline /\ UNCHANGED listed

ConnectKeepsMutant ==
  /\ HangUp("connecting") \/ HangUp("off")
  /\ UNCHANGED <<statuses, roster, contacts>>
(* A connection that is begun, or not; what was there is deleted.          *)
connect ==
  /\ HangUp("connecting") \/ HangUp("off")
  /\ statuses' = Nobody /\ UNCHANGED <<roster, contacts>>

disconnect == HangUp("off") /\ statuses' = Nobody /\ StateOff

(* setstatus() by the user.  Before the roster has come ourstatus is       *)
(* offline: offline is then left for postlogin() to see, and any other     *)
(* status begins the connection anew.                                      *)
setstatus(st) ==
  /\ manual' = st
  /\ \/ st = "offline" /\ link = "on" /\ disconnect
     \/ st = "available" /\ link # "on" /\ connect
     \/ (st = "available") = (link = "on")
        /\ UNCHANGED <<connection, contacts, server, toServer, toClient, reset>>

(* centerim::exectimers(). *)
Reconnect ==
  /\ ~logged
  /\ \/ hookonline /\ disconnect
     \/ ~hookonline /\ manual # "offline" /\ connect
  /\ UNCHANGED manual

(* main() finds the socket closed, or closed it itself after an error.     *)
Lost == hookonline /\ HangUp("off") /\ StateOff /\ UNCHANGED <<manual, statuses>>

LoginStep ==
  /\ \/ link = "connecting" /\ link' = "auth" /\ UNCHANGED toServer
     \/ link = "auth" /\ link' = "roster" /\ Send(<<<<"getroster">>>>)
  /\ UNCHANGED <<manual, roster, statuses, contacts, server, toClient, reset>>

-----------------------------------------------------------------------------
(* The user's contacts.                                                    *)

(* addnew() or includeintolist(), which forgets the status of a stranger,  *)
(* and sendnewuser().                                                      *)
AddContact(f) ==
  /\ listed[f] # "inlist" /\ listed' = [listed EXCEPT ![f] = "inlist"]
  /\ shown' = [shown EXCEPT ![f] = "offline"]
  /\ reset' = IF listed[f] = "stranger" THEN reset \cup {f} ELSE reset
  /\ IF logged /\ f \notin roster
       THEN roster' = roster \cup {f} /\ Send(<<<<"add", f>>>>)
       ELSE UNCHANGED <<roster, toServer>>
  /\ UNCHANGED <<manual, link, statuses, server, toClient>>

(* removeuser() forgets nothing of the resources.                          *)
RemoveContact(f) ==
  /\ listed[f] # "absent" /\ listed' = [listed EXCEPT ![f] = "absent"]
  /\ shown' = [shown EXCEPT ![f] = "offline"] /\ reset' = reset \cup {f}
  /\ IF logged /\ f \in roster
       THEN roster' = roster \ {f} /\ Send(<<<<"remove", f>>>>)
       ELSE UNCHANGED <<roster, toServer>>
  /\ UNCHANGED <<manual, link, statuses, server, toClient>>

-----------------------------------------------------------------------------
(* The packets.                                                            *)

(* addnew() for whom the list does not have; a stranger stays one.         *)
Included(items) ==
  [f \in Buddies |-> IF f \in items /\ listed[f] = "absent" THEN "inlist" ELSE listed[f]]

(* Whoever is named gets into the roster and into the list, those included *)
(* whose subscription is "remove".  He is in the roster first, so that     *)
(* addnew() sends nothing.                                                 *)
RosterForgetsMutant(items) == UNCHANGED roster /\ listed' = Included(items)
gotroster(items) == roster' = roster \cup items /\ listed' = Included(items)

PostloginIgnoresMutant(items) ==
  /\ gotroster(items) /\ link' = "on"
  /\ Send(<<<<"available">>>>) /\ toClient' = Tail(toClient)
  /\ UNCHANGED <<statuses, shown, server, reset>>
(* The result of the query, with postlogin(): who went offline in the      *)
(* meantime is disconnected, from within the handler.                      *)
postlogin(items) ==
  IF manual = "offline"
    THEN /\ HangUp("off") /\ statuses' = Nobody /\ roster' = {}
         /\ listed' = Included(items) /\ shown' = Offline
    ELSE /\ gotroster(items) /\ link' = "on"
         /\ Send(<<<<"available">>>>) /\ toClient' = Tail(toClient)
         /\ UNCHANGED <<statuses, shown, server, reset>>

gotitem(f) ==
  /\ gotroster({f}) /\ toClient' = Tail(toClient)
  /\ UNCHANGED <<link, statuses, shown, server, toServer, reset>>

(* A message makes its sender a contact.                                   *)
gotmessage(f) ==
  /\ listed' = [listed EXCEPT ![f] = IF @ = "absent" THEN "stranger" ELSE @]
  /\ toClient' = Tail(toClient)
  /\ UNCHANGED <<connection, shown, server, toServer, reset>>

(* get_presence(), whatever the order of the names.                        *)
Best(res) ==
  {res[r][2] : r \in {q \in Resources : \A o \in Resources : res[o][1] <= res[q][1]}}

(* process_presence(), with the status it gives the contact. *)
process_presence(f, r, p) ==
  /\ statuses' = [statuses EXCEPT ![f][r] = p]
  /\ \E st \in Best(statuses'[f]) : shown' = [shown EXCEPT ![f] = st]

(* Of those who are not contacts nothing is remembered.                    *)
gotpresence(f, r, p) ==
  /\ IF listed[f] = "absent" THEN UNCHANGED <<statuses, shown>>
     ELSE process_presence(f, r, p)
  /\ toClient' = Tail(toClient)
  /\ UNCHANGED <<link, roster, listed, server, toServer, reset>>

packethandler ==
  /\ toClient # <<>> /\ UNCHANGED manual
  /\ LET packet == Head(toClient)
     IN  \/ packet[1] = "roster" /\ postlogin(packet[2])
         \/ packet[1] = "item" /\ gotitem(packet[2])
         \/ packet[1] = "message" /\ gotmessage(packet[2])
         \/ packet[1] = "presence" /\ gotpresence(packet[2], packet[3], packet[4])

-----------------------------------------------------------------------------
(* The server, the user's other clients, and the people in the roster.     *)

HookStays == UNCHANGED <<manual, connection, contacts, reset>>

(* A change of an item is told to the clients that have the roster, the    *)
(* one that asked for the change included.                                 *)
Item(f) ==
  IF logged /\ <<"getroster">> \notin Range(toServer) THEN Says(<<"item", f>>)
  ELSE UNCHANGED toClient

Keeps(f) == kept' = kept \cup {f} /\ UNCHANGED sub /\ Item(f)
Drops(f) ==
  /\ kept' = kept \ {f} /\ sub' = sub \ {f}
  /\ IF f \in kept THEN Item(f) ELSE UNCHANGED toClient

ServerTakes ==
  /\ toServer # <<>> /\ toServer' = Tail(toServer) /\ HookStays
  /\ LET packet == Head(toServer)
     IN  \/ packet[1] = "getroster" /\ Says(<<"roster", kept>>) /\ UNCHANGED server
         \/ packet[1] = "available" /\ announced' = TRUE
            /\ UNCHANGED <<kept, sub, present, told, toClient>>
         \/ packet[1] = "add" /\ Keeps(packet[2]) /\ UNCHANGED <<present, announced, told>>
         \/ packet[1] = "remove" /\ Drops(packet[2]) /\ UNCHANGED <<present, announced, told>>

OtherClient(f) ==
  /\ IF f \in kept THEN Drops(f) ELSE Keeps(f)
  /\ HookStays /\ UNCHANGED <<present, announced, told, toServer>>

(* Someone in the roster lets the user see his presence, or no longer.     *)
Subscription(f) ==
  /\ f \in kept /\ Item(f)
  /\ sub' = IF f \in sub THEN sub \ {f} ELSE sub \cup {f}
  /\ HookStays /\ UNCHANGED <<kept, present, announced, told, toServer>>

Moves(f, r) ==
  /\ \E p \in Presences \cup {NoPresence} : p # present[f][r] /\ present' = [present EXCEPT ![f][r] = p]
  /\ HookStays /\ UNCHANGED <<kept, sub, announced, told, toServer, toClient>>

Visible(f) == IF announced /\ f \in sub THEN present[f] ELSE Away

Tells(f, r) ==
  /\ told[f][r] # Visible(f)[r] /\ Says(<<"presence", f, r, Visible(f)[r]>>)
  /\ told' = [told EXCEPT ![f][r] = Visible(f)[r]]
  /\ HookStays /\ UNCHANGED <<kept, sub, present, announced, toServer>>

Writes(f) ==
  /\ announced /\ Says(<<"message", f>>)
  /\ HookStays /\ UNCHANGED <<server, toServer>>

-----------------------------------------------------------------------------
Init ==
  /\ manual \in {"available", "offline"} /\ link = "off" /\ roster = {}
  /\ statuses = Nobody /\ listed \in [Buddies -> {"absent", "inlist"}] /\ shown = Offline
  /\ kept \in SUBSET Buddies /\ sub = {} /\ present = Nobody
  /\ announced = FALSE /\ told = Nobody
  /\ toServer = <<>> /\ toClient = <<>> /\ reset = {}

Next ==
  \/ \E st \in {"available", "offline"} : setstatus(st)
  \/ Reconnect \/ Lost \/ LoginStep \/ packethandler \/ ServerTakes
  \/ \E f \in Buddies :
       AddContact(f) \/ RemoveContact(f) \/ OtherClient(f) \/ Subscription(f) \/ Writes(f)
  \/ \E f \in Buddies, r \in Resources : Moves(f, r) \/ Tells(f, r)

Spec == Init /\ [][Next]_vars

-----------------------------------------------------------------------------
(* Nobody sees a user who has set himself offline, at whatever point of a  *)
(* login that was.                                                         *)
OfflineMeansOff == manual = "offline" => link # "on" /\ ~announced

Mentions(packet, f) == Len(packet) > 1 /\ packet[2] = f
Quiet(f) == \A packet \in Range(toServer) \cup Range(toClient) : ~Mentions(packet, f)

(* Once logged in everybody in the server's roster is in the list, and in  *)
(* the hook's roster, without which his removal would not be sent, however *)
(* the changes made here and by other clients have crossed.                *)
RosterListed ==
  link = "on" => \A f \in kept : Quiet(f) => f \in roster /\ listed[f] # "absent"

(* A contact is shown with the status of one of his best resources, over   *)
(* logins, subscriptions and their ends, unless the hook was made to       *)
(* forget or to miss something of him by a removal, or an addition.        *)
PresenceIsBest ==
  link = "on" => \A f \in Buddies \ reset :
    Quiet(f) /\ told[f] = Visible(f) => shown[f] \in Best(Visible(f))
=============================================================================
