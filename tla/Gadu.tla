-------------------------------- MODULE Gadu --------------------------------
(***************************************************************************)
(* The Gadu-Gadu hook (src/src/hooks/gaduhook.cc) over a session of        *)
(* src/libgadu: the steps of a login, the list of contacts the server      *)
(* watches, messages, and the replies of the public directory, which       *)
(* answer searches and requests for a contact's details alike.             *)
(***************************************************************************)
EXTENDS Naturals, Sequences, SequencesExt

CONSTANTS
  Friends,   \* people who may be in the contact list
  Events,    \* messages the user writes
  Root,      \* the user's own details
  MaxAsked   \* bounds the replies under way

Phases == {"hub", "data", "gg", "tls", "key", "reply", "connected"}
None == [phase |-> "none", at |-> "hub", server |-> "hub", tls |-> FALSE, mute |-> FALSE]

VARIABLES
  manual,    \* manualstatus: "available" or "offline"
  flogged,
  sess,      \* the session: its state, the host its socket is connected to,
             \* its server_addr, whether it uses TLS, and whether the peer
             \* has silently gone
  net,       \* "ok" when the hub and the servers can be reached and accept
             \* the user, or "down"
  listed,    \* the contacts: "absent", "stranger" or "inlist"
  watched,   \* those the server reports on
  online,    \* those shown as online
  fate,      \* what became of a message: "new", "queued", "sent" or "dropped"
  searchdest,
  ireq,      \* a request for details has been made
  replies,   \* the directory's replies under way, each about a person; a
             \* reply to a search may be about anyone
  details    \* whose details a contact has

session == <<flogged, sess, watched, online, replies>>
directory == <<searchdest, ireq, details>>
vars == <<session, manual, net, listed, fate, directory>>

hookonline == sess # None
logged == hookonline /\ flogged
Contacts == {f \in Friends : listed[f] # "absent"}

TypeOK ==
  /\ manual \in {"available", "offline"} /\ flogged \in BOOLEAN
  /\ sess \in [phase : Phases \cup {"none"}, at : {"hub", "server", "local"},
               server : {"hub", "server"}, tls : BOOLEAN, mute : BOOLEAN]
  /\ net \in {"ok", "down"}
  /\ listed \in [Friends -> {"absent", "stranger", "inlist"}]
  /\ watched \subseteq Friends /\ online \subseteq Contacts
  /\ fate \in [Events -> {"new", "queued", "sent", "dropped"}]
  /\ searchdest \in BOOLEAN /\ ireq \in BOOLEAN
  /\ replies \in Seq(Friends) /\ Len(replies) <= MaxAsked
  /\ details \in [Friends \cup {Root} -> Friends \cup {"none"}]

-----------------------------------------------------------------------------
(* gg_login() connects to the account's server, which its state takes for  *)
(* the hub.  A name that cannot be resolved leaves the hook without a      *)
(* session.                                                                *)
connect ==
  /\ \/ \E tls \in BOOLEAN : sess' = [None EXCEPT !.phase = "hub", !.tls = tls]
     \/ net = "down" /\ UNCHANGED sess
  /\ UNCHANGED <<flogged, watched, online, replies>>

CutoffShowsMutant == sess' = None /\ watched' = {} /\ replies' = <<>> /\ UNCHANGED <<flogged, online>>
cutoff ==
  /\ sess' = None /\ watched' = {} /\ replies' = <<>>
  /\ online' = {} /\ UNCHANGED flogged

(* setstatus() by the user; setautostatus() finds a hook with a session in *)
(* some status other than offline.                                         *)
setstatus(st) ==
  /\ manual' = st
  /\ \/ st = "offline" /\ hookonline /\ cutoff
     \/ st = "available" /\ ~hookonline /\ connect
     \/ (st = "available") = hookonline /\ UNCHANGED session
  /\ UNCHANGED <<net, listed, fate, directory>>

OthersStay == UNCHANGED <<manual, net, listed, fate, directory>>

(* Whether the session will get on, which the reconnection, whose period   *)
(* grows, leaves it the time for.                                          *)
UnderWay == net = "ok" /\ hookonline /\ ~sess.mute

(* centerim::exectimers(). *)
ReconnectWaitsMutant ==
  /\ ~hookonline /\ manual # "offline" /\ connect
  /\ OthersStay
Reconnect ==
  /\ ~logged
  /\ \/ hookonline /\ ~UnderWay /\ cutoff
     \/ ~hookonline /\ manual # "offline" /\ connect
  /\ OthersStay

-----------------------------------------------------------------------------
(* main(): the event that a step of gg_watch_fd() returns.  The steps of a  *)
(* login, which go on if the other end answers.                            *)
Reached(at) == net = "ok" /\ at # "local"
Answering == hookonline /\ ~sess.mute /\ Reached(sess.at)

(* While a connection is being made the kernel notices that nobody is      *)
(* there; later nobody does.                                               *)
Gone == ~Answering /\ (sess.mute => sess.phase \in {"hub", "gg"})

Goes(s) == sess' = s /\ UNCHANGED <<flogged, watched, online, replies>>

(* Without the hub a connection is tried to hub_addr, which is not set. *)
Direct == Goes([sess EXCEPT !.phase = "gg", !.at = "local", !.mute = FALSE])

ConnectingHub ==
  /\ sess.phase = "hub" /\ OthersStay
  /\ \/ Answering /\ Goes([sess EXCEPT !.phase = "data"])
     \/ Gone /\ Direct

(* The hub names a server. *)
ReadingData ==
  /\ sess.phase = "data" /\ OthersStay
  /\ \/ Answering /\ Goes([sess EXCEPT !.phase = "gg", !.at = "server", !.server = "server"])
     \/ Gone /\ Direct

(* If the server cannot be reached, and no TLS is used, its port 443 is    *)
(* tried, unless there is no route to it; nobody waits for that connection *)
(* to be made.                                                             *)
ConnectingGg ==
  /\ sess.phase = "gg" /\ OthersStay
  /\ \/ Answering /\ Goes([sess EXCEPT !.phase = IF sess.tls THEN "tls" ELSE "key"])
     \/ Gone /\ ~sess.tls
        /\ Goes([sess EXCEPT !.phase = "key", !.at = sess.server, !.mute = FALSE])
     \/ Gone /\ cutoff

TlsNegotiation ==
  /\ sess.phase = "tls" /\ OthersStay
  /\ \/ Answering /\ Goes([sess EXCEPT !.phase = "key"])
     \/ Gone /\ cutoff

(* Only a server sends the key. *)
ReadingKey ==
  /\ sess.phase = "key" /\ OthersStay
  /\ \/ Answering /\ sess.at = "server" /\ Goes([sess EXCEPT !.phase = "reply"])
     \/ (Gone \/ (Answering /\ sess.at = "hub")) /\ cutoff

(* GG_EVENT_CONN_SUCCESS: userlistsend() names every contact.              *)
userlistsend == watched' = Contacts
ReadingReply ==
  /\ sess.phase = "reply" /\ OthersStay
  /\ \/ /\ Answering /\ sess' = [sess EXCEPT !.phase = "connected"] /\ flogged' = TRUE
        /\ userlistsend /\ UNCHANGED <<online, replies>>
     \/ Gone /\ cutoff

LoginStep ==
  ConnectingHub \/ ReadingData \/ ConnectingGg \/ TlsNegotiation \/ ReadingKey \/ ReadingReply

(* The server ends the session, or the connection is lost: only            *)
(* GG_EVENT_DISCONNECT goes through disconnect(), which differs in what it *)
(* logs.                                                                   *)
Lost ==
  /\ sess.phase = "connected" /\ OthersStay
  /\ (net = "down" \/ sess.mute) /\ cutoff

(* usernotify() and userstatuschange(). *)
StatusChange(f) ==
  /\ Answering /\ sess.phase = "connected" /\ f \in watched
  /\ online' = IF f \in Contacts /\ f \notin online THEN online \cup {f} ELSE online \ {f}
  /\ UNCHANGED <<flogged, sess, watched, replies, manual, net, listed, fate, directory>>

-----------------------------------------------------------------------------
(* What the session is asked to do: libgadu refuses unless it is connected *)
(* and the hook does not look at the result.                               *)
Connected == sess.phase = "connected"
Watch(f) == watched' = IF Connected THEN watched \cup {f} ELSE watched
Ask(f) ==
  /\ Connected => Len(replies) < MaxAsked
  /\ replies' = IF Connected THEN Append(replies, f) ELSE replies

(* A contact is added, or a stranger put into the list: sendnewuser().     *)
AddContact(f) ==
  /\ listed[f] # "inlist" /\ listed' = [listed EXCEPT ![f] = "inlist"]
  /\ Watch(f) /\ Ask(f) /\ ireq' = TRUE
  /\ online' = online \ {f}
  /\ UNCHANGED <<flogged, sess, manual, net, fate, searchdest, details>>

(* A message from somebody who is not in the list adds him.                *)
StrangerWrites(f) ==
  /\ Answering /\ Connected /\ listed[f] = "absent"
  /\ listed' = [listed EXCEPT ![f] = "stranger"] /\ Ask(f) /\ ireq' = TRUE
  /\ UNCHANGED <<flogged, sess, watched, online, manual, net, fate, searchdest, details>>

UnwatchNobodyMutant(f) == watched
Unwatch(f) == IF Connected THEN watched \ {f} ELSE watched
RemoveContact(f) ==
  /\ listed[f] # "absent" /\ listed' = [listed EXCEPT ![f] = "absent"]
  /\ watched' = Unwatch(f)
  /\ online' = online \ {f} /\ details' = [details EXCEPT ![f] = "none"]
  /\ UNCHANGED <<flogged, sess, replies, manual, net, fate, searchdest, ireq>>

requestinfo(f) ==
  /\ f \in Contacts /\ Ask(f) /\ ireq' = TRUE
  /\ UNCHANGED <<flogged, sess, watched, online, manual, net, listed, fate, searchdest, details>>

(* send(), from imeventmanager::store() or resend(), which keep a message  *)
(* until the hook is logged in.                                            *)
send(e) ==
  /\ fate[e] \in {"new", "queued"}
  /\ fate' = [fate EXCEPT ![e] = IF ~logged THEN "queued"
                                 ELSE IF Connected THEN "sent" ELSE "dropped"]
  /\ fate' # fate
  /\ UNCHANGED <<session, manual, net, listed, directory>>

(* The find dialog: lookup() and stoplookup(). *)
lookup ==
  /\ ~searchdest /\ searchdest' = TRUE
  /\ \E f \in Friends : Ask(f)
  /\ UNCHANGED <<flogged, sess, watched, online, manual, net, listed, fate, ireq, details>>
stoplookup ==
  /\ searchdest /\ searchdest' = FALSE
  /\ UNCHANGED <<session, manual, net, listed, fate, ireq, details>>

(* searchdone(): whatever was asked, a dialog that waits takes the reply;  *)
(* else it is taken for details, of the person in it if that is a contact  *)
(* and of the user himself if not.                                         *)
Details(f) == [details EXCEPT ![IF f \in Contacts THEN f ELSE Root] = f]
searchdone ==
  /\ Answering /\ Connected /\ replies # <<>> /\ replies' = Tail(replies)
  /\ \/ searchdest /\ searchdest' = FALSE /\ UNCHANGED details
     \/ /\ ~searchdest /\ UNCHANGED searchdest
        /\ details' = IF ireq THEN Details(Head(replies)) ELSE details
  /\ UNCHANGED <<flogged, sess, watched, online, manual, net, listed, fate, ireq>>

-----------------------------------------------------------------------------
(* The network fails or recovers, and a peer goes without a word.          *)
NetChange ==
  /\ net' = IF net = "ok" THEN "down" ELSE "ok"
  /\ UNCHANGED <<session, manual, listed, fate, directory>>
Mute ==
  /\ net = "down" /\ hookonline /\ ~sess.mute /\ sess' = [sess EXCEPT !.mute = TRUE]
  /\ UNCHANGED <<flogged, watched, online, replies, manual, net, listed, fate, directory>>

Init ==
  /\ manual \in {"available", "offline"} /\ flogged = FALSE /\ sess = None /\ net = "ok"
  /\ listed = [f \in Friends |-> "absent"] /\ watched = {} /\ online = {}
  /\ fate = [e \in Events |-> "new"]
  /\ searchdest = FALSE /\ ireq = FALSE /\ replies = <<>>
  /\ details = [f \in Friends \cup {Root} |-> "none"]

main == LoginStep \/ Lost \/ searchdone

Next ==
  \/ \E st \in {"available", "offline"} : setstatus(st)
  \/ Reconnect \/ main
  \/ \E f \in Friends :
       StatusChange(f) \/ AddContact(f) \/ StrangerWrites(f) \/ RemoveContact(f) \/ requestinfo(f)
  \/ \E e \in Events : send(e)
  \/ lookup \/ stoplookup
  \/ NetChange \/ Mute

Spec == Init /\ [][Next]_vars

(* The main loop reconnects and looks at its sockets; the kernel gives up  *)
(* a connected peer that is mute, as the hook pings it.                    *)
FairSpec == Spec /\ WF_vars(Reconnect) /\ WF_vars(LoginStep) /\ WF_vars(Lost)

-----------------------------------------------------------------------------
(* A hook set offline has no session, whatever the login had come to.      *)
OfflineMeansOff == manual = "offline" => ~hookonline

(* Once the login is done the server reports on everyone in the list, also *)
(* those added meanwhile, and on nobody who was removed.                   *)
WatchedIsList ==
  Connected => {f \in Friends : listed[f] = "inlist"} \subseteq watched /\ watched \subseteq Contacts

(* Nobody is shown online by a hook that is not connected.                 *)
OnlineMeansConnected == online # {} => Connected

(* A message taken out of the queue was handed to a connected session.     *)
SentNotDropped == \A e \in Events : fate[e] # "dropped"

(* The first login comes about although peers vanish in the middle of it.  *)
FirstLogin == <>[](net = "ok" /\ manual = "available") => <>flogged
=============================================================================
