---------------------------- MODULE LiveJournal -----------------------------
(***************************************************************************)
(* The LiveJournal hook (src/src/hooks/ljhook.cc): the login, the requests *)
(* that wait in its HTTP client and what their answers do.  The client is  *)
(* the one of the module HTTPClient, here a request at a time; unlike the  *)
(* RSS hook this one never calls its clearoutMessagesPoll().               *)
(***************************************************************************)
EXTENDS Naturals, Sequences, SequencesExt

CONSTANTS
  Posts,    \* postings the user may send
  Users     \* people who may list the user as their friend

Asks == {"login", "friends", "lookup"} \cup Posts

VARIABLES
  manual,    \* manualstatus
  fonline, flogged,
  self,      \* the user's own contact: "absent", "offline" or "available"
  sdest,     \* a search dialog waits
  due,       \* it is time for requestfriends()
  friendof,  \* as known since the login
  zip,       \* as stored in the user's own contact
  m_queue,   \* the requests of the client
  http,      \* its m_state: "idle", "connecting", "dead" when the connection
             \* could not be made, or "busy" until the answer
  net,       \* the network with the server: "ok" or "down"
  server,    \* the friends the server knows of
  told,      \* ghost: the friends the user has been told of
  posts      \* ghost: what became of each post: "new", "sent", "ok", "failed"

links == <<fonline, flogged, self>>
hook == <<links, manual, sdest, due, friendof, zip>>
client == <<m_queue, http>>
outside == <<net, server>>
ghosts == <<told, posts>>
vars == <<hook, client, outside, ghosts>>

logged == fonline /\ flogged
isconnecting == fonline /\ ~flogged

-----------------------------------------------------------------------------
(* disconnect(), which also marks the user's own contact as offline. *)
disconnect ==
  /\ fonline' = FALSE /\ flogged' = (flogged /\ ~fonline)
  /\ self' = IF logged /\ self # "absent" THEN "offline" ELSE self

(* SendEvent(): nothing happens when an equal request is in the queue; a   *)
(* client that is idle connects for the front of the queue, or fails to at *)
(* once and removes it.                                                    *)
Enqueue(r) == IF Contains(m_queue, r) THEN m_queue ELSE Append(m_queue, r)
SendOutcomes(r) ==
  LET q == Enqueue(r) IN
  IF q = m_queue \/ http # "idle"
  THEN {[queue |-> q, http |-> http, failed |-> "none"]}
  ELSE {[queue |-> q, http |-> "connecting", failed |-> "none"]} \cup
       IF net = "ok" THEN {}
       ELSE {[queue |-> Tail(q), http |-> "idle", failed |-> Head(q)]}

(* A request that is sent; what fails at once, if it is no lookup, makes   *)
(* messageack_cb() disconnect the hook, which at the call is online if on. *)
SendEvent(r, on) ==
  \E o \in SendOutcomes(r) :
    /\ m_queue' = o.queue /\ http' = o.http
    /\ posts' = [p \in Posts |-> IF p = o.failed THEN "failed"
                                 ELSE IF p = r THEN "sent" ELSE posts[p]]
    /\ IF o.failed \in {"none", "lookup"}
       THEN fonline' = on /\ UNCHANGED <<flogged, self>>
       ELSE /\ fonline' = FALSE /\ flogged' = (flogged /\ ~on)
            /\ self' = IF on /\ flogged /\ self # "absent" THEN "offline" ELSE self
    /\ UNCHANGED <<outside, told>>

connect == SendEvent("login", TRUE) /\ UNCHANGED <<due, friendof, zip>>

(* The hook is logged in or out; nothing else changes. *)
OnlyLinks == UNCHANGED <<sdest, due, friendof, zip, client, outside, ghosts>>

-----------------------------------------------------------------------------
(* setstatus() by the user: setautostatus() compares with getstatus(),     *)
(* which is offline until the login.                                       *)
setstatus(st) ==
  /\ manual' = st
  /\ \/ st = "offline" /\ flogged /\ disconnect /\ OnlyLinks
     \/ st = "available" /\ ~flogged /\ connect /\ UNCHANGED sdest
     \/ (st = "available") = flogged /\ UNCHANGED links /\ OnlyLinks

(* The reconnection of centerim::exectimers(): its period grows until a    *)
(* login that is answered fits.                                            *)
LoginUnderWay == http \in {"connecting", "busy"} /\ Head(m_queue) = "login" /\ net = "ok"
Reconnect ==
  /\ ~logged /\ UNCHANGED manual
  /\ \/ fonline /\ ~LoginUnderWay /\ disconnect /\ OnlyLinks
     \/ ~fonline /\ manual # "offline" /\ connect /\ UNCHANGED sdest

(* exectimers(): the list of friends, after the login and every hour.      *)
HourPasses ==
  /\ ~due /\ due' = TRUE
  /\ UNCHANGED <<links, manual, sdest, friendof, zip, client, outside, ghosts>>
requestfriends ==
  /\ logged /\ due /\ due' = FALSE
  /\ SendEvent("friends", fonline) /\ UNCHANGED <<manual, sdest, friendof, zip>>

send(p) ==
  /\ logged /\ SendEvent(p, fonline) /\ UNCHANGED <<manual, sdest, due, friendof, zip>>

(* lookup() notes the dialog after the request has been sent. *)
lookup ==
  /\ SendEvent("lookup", fonline) /\ sdest' = TRUE
  /\ UNCHANGED <<manual, due, friendof, zip>>
stoplookup ==
  /\ sdest /\ sdest' = FALSE
  /\ UNCHANGED <<links, manual, due, friendof, zip, client, outside, ghosts>>

-----------------------------------------------------------------------------
(* socket_cb() of the client: the connection is made, or cannot be and is  *)
(* given up without a word.                                                *)
Connects ==
  /\ http = "connecting" /\ http' = IF net = "ok" THEN "busy" ELSE "dead"
  /\ UNCHANGED <<hook, m_queue, outside, ghosts>>

(* messageack_cb(): the front of the queue is done with.                   *)
Done ==
  /\ http = "busy" /\ http' = "idle" /\ m_queue' = Tail(m_queue)
  /\ UNCHANGED outside

Answered(r) == Done /\ Head(m_queue) = r

PostedBackMutant(v) ==
  posts' = [p \in Posts |-> IF p = Last(m_queue) THEN v ELSE posts[p]]
Posted(v) ==
  posts' = [p \in Posts |-> IF p = Head(m_queue) THEN v ELSE posts[p]]

(* No answer, or an empty one. *)
Fails ==
  /\ net = "down" /\ Done /\ Posted("failed")
  /\ IF Head(m_queue) = "lookup"
     THEN sdest' = FALSE /\ UNCHANGED links
     ELSE disconnect /\ UNCHANGED sdest
  /\ UNCHANGED <<manual, due, friendof, zip, told>>

(* The login succeeds: the friends are those stored in the user's own      *)
(* contact, and setautostatus(manualstatus) may log out again, after which *)
(* the contact is set to available all the same.                           *)
StoredFriends == IF self = "absent" THEN {} ELSE zip
LoginStatusStaysMutant == fonline' = TRUE /\ flogged' = TRUE
LoginStatus ==
  fonline' = (manual = "available") /\ flogged' = (manual = "available")
LoginOk ==
  /\ Answered("login") /\ isconnecting
  /\ LoginStatus /\ self' = "available"
  /\ friendof' = StoredFriends /\ zip' = StoredFriends /\ due' = TRUE
  /\ UNCHANGED <<manual, sdest, ghosts>>

(* The answer to a login of a hook that has been disconnected since, or    *)
(* the server's refusal of one.                                            *)
LoginIgnored ==
  /\ Answered("login") /\ (isconnecting => net = "down")
  /\ UNCHANGED <<hook, ghosts>>

(* The list of friends: people who are new are announced, unless nobody    *)
(* was known, and so are those who are gone.                               *)
StoreNothingMutant(fs) == zip
StoreFriends(fs) == IF self = "absent" THEN zip ELSE fs
FriendsOk ==
  /\ Answered("friends")
  /\ friendof' = server /\ zip' = StoreFriends(server)
  /\ told' = IF friendof = {} THEN server ELSE (told \cup (server \ friendof)) \ (friendof \ server)
  /\ UNCHANGED <<links, manual, sdest, due, posts>>

PostAnswered ==
  /\ Done /\ Head(m_queue) \in Posts
  /\ \E v \in {"ok", "failed"} : Posted(v)
  /\ UNCHANGED <<hook, told>>

LookupOk ==
  /\ Answered("lookup") /\ sdest' = FALSE
  /\ UNCHANGED <<links, manual, due, friendof, zip, ghosts>>

-----------------------------------------------------------------------------
(* The user removes the contact that stands for himself. *)
RemoveSelf ==
  /\ self # "absent" /\ self' = "absent" /\ zip' = {}
  /\ UNCHANGED <<fonline, flogged, manual, sdest, due, friendof, client, outside, ghosts>>

FriendsChange(u) ==
  /\ server' = IF u \in server THEN server \ {u} ELSE server \cup {u}
  /\ UNCHANGED <<hook, client, net, ghosts>>
NetChange ==
  /\ net' = IF net = "ok" THEN "down" ELSE "ok"
  /\ UNCHANGED <<hook, client, server, ghosts>>

Init ==
  /\ manual \in {"available", "offline"} /\ fonline = FALSE /\ flogged = FALSE
  /\ self = "absent" /\ sdest = FALSE /\ due = TRUE /\ friendof = {} /\ zip = {}
  /\ m_queue = <<>> /\ http = "idle" /\ net = "ok" /\ server = {} /\ told = {}
  /\ posts = [p \in Posts |-> "new"]

Answers == LoginOk \/ LoginIgnored \/ FriendsOk \/ PostAnswered \/ LookupOk

Next ==
  \/ \E st \in {"available", "offline"} : setstatus(st)
  \/ Reconnect \/ HourPasses \/ requestfriends
  \/ \E p \in Posts : send(p)
  \/ lookup \/ stoplookup
  \/ Connects \/ Fails \/ Answers
  \/ RemoveSelf \/ NetChange
  \/ \E u \in Users : FriendsChange(u)

Spec == Init /\ [][Next]_vars

(* The main loop tries to reconnect and looks at its sockets, and a server *)
(* that can be reached accepts the login.                                  *)
FairSpec ==
  /\ Spec /\ WF_vars(Reconnect) /\ WF_vars(Connects) /\ SF_vars(LoginOk)
  /\ WF_vars(net = "ok" /\ Answers)

-----------------------------------------------------------------------------
(* A hook set offline is not logged in, even if it was set so while it was *)
(* logging in.                                                             *)
OfflineMeansOff == (manual = "offline" => ~flogged) /\ (flogged => fonline)

(* A post that send() accepted waits in the client, once, until it is      *)
(* reported as done or failed.                                             *)
PostsTracked ==
  \A p \in Posts :
    Cardinality({i \in DOMAIN m_queue : m_queue[i] = p}) = IF posts[p] = "sent" THEN 1 ELSE 0

(* Whom the user was told of is known over logins and disconnections, so   *)
(* that nobody is announced twice, unless all is forgotten.                *)
FriendsKnown ==
  /\ friendof \in {{}, told}
  /\ self # "absent" => zip = friendof

(* A hook that is wanted online gets there once the network works, and the *)
(* user leaves it in peace.                                                *)
LoggedInAgain == <>[](net = "ok" /\ manual = "available" /\ ~sdest) => <>logged
=============================================================================
