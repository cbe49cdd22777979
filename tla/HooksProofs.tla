----------------------------- MODULE HooksProofs -----------------------------
(* Proofs about the hooks of MCHooks: Gadu, LiveJournal and Irc.           *)
EXTENDS MCHooks, FiniteSetTheorems, SequenceTheorems, TLAPS

(***************************************************************************)
(* The Gadu-Gadu hook.                                                     *)
(***************************************************************************)
GgTypes ==
  /\ gManual \in {"available", "offline"}
  /\ gSess \in [phase : Gg!Phases \cup {"none"}, at : {"hub", "server", "local"},
               server : {"hub", "server"}, tls : BOOLEAN, mute : BOOLEAN]
  /\ gListed \in [Friends -> {"absent", "stranger", "inlist"}]

GgSound == GgTypes /\ Gg!OfflineMeansOff /\ Gg!WatchedIsList /\ Gg!OnlineMeansConnected

LEMMA GgInit == Gg!Init => GgSound
  BY DEF Gg!Init, GgSound, GgTypes, Gg!OfflineMeansOff, Gg!WatchedIsList, Gg!OnlineMeansConnected,
     Gg!None, Gg!hookonline, Gg!Connected, Gg!Phases

LEMMA GgCutoff ==
  ASSUME GgSound, Gg!cutoff, UNCHANGED gListed, gManual' \in {"available", "offline"}
  PROVE GgSound'
  BY DEF GgSound, GgTypes, Gg!cutoff, Gg!OfflineMeansOff, Gg!WatchedIsList, Gg!OnlineMeansConnected,
     Gg!None, Gg!hookonline, Gg!Connected, Gg!Phases, Gg!Contacts

LEMMA GgGoes ==
  ASSUME GgSound, NEW s \in [phase : Gg!Phases, at : {"hub", "server", "local"},
               server : {"hub", "server"}, tls : BOOLEAN, mute : BOOLEAN],
         Gg!hookonline, s.phase # "connected", ~Gg!Connected, Gg!Goes(s),
         UNCHANGED <<gListed, gManual>>
  PROVE GgSound'
  BY DEF GgSound, GgTypes, Gg!Goes, Gg!OfflineMeansOff, Gg!WatchedIsList, Gg!OnlineMeansConnected,
     Gg!None, Gg!hookonline, Gg!Connected, Gg!Phases, Gg!Contacts

GgRest == <<gManual, gListed>>

LEMMA GgConnect ==
  ASSUME GgSound, Gg!connect, ~Gg!hookonline, gManual' = "available", UNCHANGED gListed
  PROVE  GgSound'
<1>1. gOnline = {} /\ gSess = Gg!None
  BY DEF GgSound, Gg!OnlineMeansConnected, Gg!Connected, Gg!hookonline, Gg!None
<1> QED
  BY <1>1 DEF GgSound, GgTypes, Gg!connect, Gg!OfflineMeansOff, Gg!WatchedIsList,
       Gg!OnlineMeansConnected, Gg!None, Gg!hookonline, Gg!Connected, Gg!Phases

LEMMA GgStill ==
  ASSUME GgSound, UNCHANGED <<gManual, gSess, gListed, gWatched, gOnline>>
  PROVE  GgSound'
BY DEF GgSound, GgTypes, Gg!OfflineMeansOff, Gg!WatchedIsList, Gg!OnlineMeansConnected,
   Gg!hookonline, Gg!Connected, Gg!Contacts

LEMMA GgSetstatus ==
  ASSUME GgSound, NEW st \in {"available", "offline"}, Gg!setstatus(st) PROVE GgSound'
<1> USE DEF Gg!setstatus
<1>1. CASE Gg!cutoff
  BY <1>1, GgCutoff
<1>2. CASE st = "available" /\ ~Gg!hookonline /\ Gg!connect
  BY <1>2, GgConnect
<1>3. CASE (st = "available") = Gg!hookonline /\ UNCHANGED Gg!session
  BY <1>3 DEF GgSound, GgTypes, Gg!session, Gg!OfflineMeansOff, Gg!WatchedIsList,
       Gg!OnlineMeansConnected, Gg!hookonline, Gg!Connected, Gg!Contacts
<1> QED  BY <1>1, <1>2, <1>3

LEMMA GgReconnect ==
  ASSUME GgSound, Gg!Reconnect PROVE GgSound'
BY GgCutoff, GgConnect DEF Gg!Reconnect, Gg!OthersStay, GgSound, GgTypes

LEMMA GgLoginStep ==
  ASSUME GgSound, Gg!LoginStep PROVE GgSound'
<1> UNCHANGED GgRest /\ gManual' \in {"available", "offline"}
  BY DEF Gg!LoginStep, Gg!OthersStay, Gg!ConnectingHub, Gg!ReadingData, Gg!ConnectingGg,
     Gg!TlsNegotiation, Gg!ReadingKey, Gg!ReadingReply, GgRest, GgSound, GgTypes
<1>1. CASE Gg!cutoff
  BY <1>1, GgCutoff DEF GgRest
<1>2. ASSUME NEW s \in [phase : Gg!Phases, at : {"hub", "server", "local"},
                        server : {"hub", "server"}, tls : BOOLEAN, mute : BOOLEAN],
             Gg!Goes(s), s.phase # "connected", gSess.phase \in Gg!Phases \ {"connected"}
      PROVE  GgSound'
  BY <1>2, GgGoes DEF Gg!hookonline, Gg!None, Gg!Connected, GgRest, Gg!Phases
<1> USE DEF Gg!Phases
<1>3. CASE Gg!ConnectingHub
  BY <1>2, <1>3 DEF Gg!ConnectingHub, Gg!Direct, GgSound, GgTypes
<1>4. CASE Gg!ReadingData
  BY <1>2, <1>4 DEF Gg!ReadingData, Gg!Direct, GgSound, GgTypes
<1>5. CASE Gg!ConnectingGg
  BY <1>1, <1>2, <1>5 DEF Gg!ConnectingGg, GgSound, GgTypes
<1>6. CASE Gg!TlsNegotiation
  BY <1>1, <1>2, <1>6 DEF Gg!TlsNegotiation, GgSound, GgTypes
<1>7. CASE Gg!ReadingKey
  BY <1>1, <1>2, <1>7 DEF Gg!ReadingKey, GgSound, GgTypes
<1>8. CASE Gg!ReadingReply
  <2>1. CASE gSess' = [gSess EXCEPT !.phase = "connected"] /\ Gg!userlistsend
             /\ UNCHANGED gOnline
    BY <1>8, <2>1 DEF Gg!ReadingReply, Gg!userlistsend, GgRest, GgSound, GgTypes, Gg!None,
       Gg!OfflineMeansOff, Gg!WatchedIsList, Gg!OnlineMeansConnected, Gg!hookonline,
       Gg!Connected, Gg!Contacts
  <2> QED  BY <1>1, <1>8, <2>1 DEF Gg!ReadingReply
<1> QED  BY <1>3, <1>4, <1>5, <1>6, <1>7, <1>8 DEF Gg!LoginStep

LEMMA GgContacts ==
  ASSUME GgSound, NEW f \in Friends,
         Gg!StatusChange(f) \/ Gg!AddContact(f) \/ Gg!StrangerWrites(f) \/ Gg!RemoveContact(f)
  PROVE  GgSound'
<1> USE DEF GgSound, GgTypes, Gg!OfflineMeansOff, Gg!WatchedIsList, Gg!OnlineMeansConnected,
     Gg!hookonline, Gg!Connected, Gg!Contacts
<1>1. CASE Gg!StatusChange(f)
  BY <1>1 DEF Gg!StatusChange
<1>2. CASE Gg!AddContact(f)
  BY <1>2 DEF Gg!AddContact, Gg!Watch
<1>3. CASE Gg!StrangerWrites(f)
  BY <1>3 DEF Gg!StrangerWrites
<1>4. CASE Gg!RemoveContact(f)
  BY <1>4 DEF Gg!RemoveContact, Gg!Unwatch
<1> QED  BY <1>1, <1>2, <1>3, <1>4

LEMMA GgNext ==
  ASSUME GgSound, [Gg!Next]_gVars PROVE GgSound'
<1>1. CASE \E f \in Friends :
             Gg!StatusChange(f) \/ Gg!AddContact(f) \/ Gg!StrangerWrites(f) \/ Gg!RemoveContact(f)
  BY <1>1, GgContacts
<1>2. CASE Gg!Lost
  BY <1>2, GgCutoff DEF Gg!Lost, Gg!OthersStay, GgSound, GgTypes
<1>3. CASE Gg!searchdone \/ Gg!lookup \/ Gg!stoplookup \/ Gg!NetChange
           \/ (\E f \in Friends : Gg!requestinfo(f)) \/ (\E e \in Events : Gg!send(e))
           \/ UNCHANGED gVars
  BY <1>3, GgStill DEF Gg!searchdone, Gg!lookup, Gg!stoplookup, Gg!NetChange, Gg!requestinfo,
     Gg!send, gVars, Gg!session
<1>4. CASE Gg!Mute
  BY <1>4 DEF Gg!Mute, GgSound, GgTypes, Gg!OfflineMeansOff, Gg!WatchedIsList,
     Gg!OnlineMeansConnected, Gg!hookonline, Gg!Connected, Gg!Contacts, Gg!None, Gg!Phases
<1> QED
  BY <1>1, <1>2, <1>3, <1>4, GgSetstatus, GgReconnect, GgLoginStep DEF Gg!Next, Gg!main

LEMMA GgParts == PartSpec => []GgSound
<1>1. PartInit => GgSound
  BY GgInit DEF PartInit
<1>2. GgSound /\ [PartNext]_<<part, vars, jVars, gVars, iVars, qVars>> => GgSound'
  BY GgNext DEF PartNext
<1> QED  BY <1>1, <1>2, PTL DEF PartSpec

(* Once logged in, the Gadu-Gadu server has been told of exactly those who *)
(* are in the list, strangers and removed ones included, and of nobody     *)
(* while not (userlistsend() and the hook's send and remove calls).        *)
THEOREM GaduWatches == PartSpec => []WatchedIsList
BY GgParts, PTL DEF GgSound, WatchedIsList

(* cutoff() marks everybody as offline at whatever step of libgadu's login *)
(* or session it is called, so that nobody stays online without one.       *)
THEOREM GaduOnlineMeansConnected == PartSpec => []OnlineMeansConnected
BY GgParts, PTL DEF GgSound, OnlineMeansConnected

(* The rest of the types, in two groups. *)
GgLinkTypes ==
  /\ gFlogged \in BOOLEAN /\ gNet \in {"ok", "down"}
  /\ gWatched \subseteq Friends /\ gOnline \subseteq Gg!Contacts
GgAskTypes ==
  /\ gFate \in [Events -> {"new", "queued", "sent", "dropped"}]
  /\ gSearchdest \in BOOLEAN /\ gIreq \in BOOLEAN
  /\ gReplies \in Seq(Friends) /\ Len(gReplies) <= MaxAsked
  /\ gDetails \in [Friends \cup {Root} -> Friends \cup {"none"}]

(* A session that ends or goes on leaves everything else as it is typed. *)
LEMMA GgSessionTypes ==
  ASSUME MaxAsked \in Nat, GgLinkTypes, GgAskTypes,
         UNCHANGED <<gNet, gListed, gFate, gSearchdest, gIreq, gDetails>>,
         \/ Gg!cutoff
         \/ /\ gFlogged' \in BOOLEAN /\ gWatched' \in {gWatched, Gg!Contacts}
            /\ UNCHANGED <<gOnline, gReplies>>
  PROVE  GgLinkTypes' /\ GgAskTypes'
<1>1. GgLinkTypes'
  BY DEF GgLinkTypes, Gg!cutoff, Gg!Contacts
<1>2. GgAskTypes'
  <2>1. gReplies' \in Seq(Friends) /\ Len(gReplies') <= MaxAsked
    <3>1. CASE gReplies' = <<>>
      <4>1. <<>> \in Seq(Friends) /\ Len(<<>>) = 0
        BY EmptySeq
      <4> QED  BY <3>1, <4>1
    <3>2. CASE UNCHANGED gReplies
      BY <3>2 DEF GgAskTypes
    <3> QED  BY <3>1, <3>2 DEF Gg!cutoff
  <2> QED  BY <2>1 DEF GgAskTypes
<1> QED  BY <1>1, <1>2

(* A reply more, or one less. *)
LEMMA GgReplies ==
  ASSUME MaxAsked \in Nat, GgAskTypes
  PROVE  /\ \A f \in Friends : Gg!Ask(f) => gReplies' \in Seq(Friends) /\ Len(gReplies') <= MaxAsked
         /\ gReplies # <<>> => /\ Head(gReplies) \in Friends /\ Tail(gReplies) \in Seq(Friends)
                               /\ Len(Tail(gReplies)) <= MaxAsked
<1>1. gReplies \in Seq(Friends) /\ Len(gReplies) <= MaxAsked /\ Len(gReplies) \in Nat
  BY DEF GgAskTypes
<1>2. ASSUME NEW f \in Friends, Gg!Ask(f)
      PROVE  gReplies' \in Seq(Friends) /\ Len(gReplies') <= MaxAsked
  <2>1. CASE Gg!Connected
    <3>1. gReplies' = Append(gReplies, f) /\ Len(gReplies) < MaxAsked
      BY <1>2, <2>1 DEF Gg!Ask
    <3>2. Append(gReplies, f) \in Seq(Friends) /\ Len(Append(gReplies, f)) = Len(gReplies) + 1
      BY <1>1
    <3> QED  BY <1>1, <3>1, <3>2
  <2>2. CASE ~Gg!Connected
    BY <1>1, <1>2, <2>2 DEF Gg!Ask
  <2> QED  BY <2>1, <2>2
<1>3. ASSUME gReplies # <<>>
      PROVE  /\ Head(gReplies) \in Friends /\ Tail(gReplies) \in Seq(Friends)
             /\ Len(Tail(gReplies)) <= MaxAsked
  <2>1. /\ Head(gReplies) \in Friends /\ Tail(gReplies) \in Seq(Friends)
        /\ Len(Tail(gReplies)) = Len(gReplies) - 1
    BY <1>1, <1>3
  <2> QED  BY <1>1, <2>1
<1> QED  BY <1>2, <1>3

LEMMA GgTypesNext ==
  ASSUME MaxAsked \in Nat, GgSound, GgLinkTypes, GgAskTypes, [Gg!Next]_gVars
  PROVE  GgLinkTypes' /\ GgAskTypes'
<1> DEFINE Kept == UNCHANGED <<gNet, gListed, gFate, gSearchdest, gIreq, gDetails>>
<1> USE DEF Gg!session, Gg!directory, Gg!OthersStay
<1>1. ASSUME NEW st \in {"available", "offline"}, Gg!setstatus(st)
      PROVE  GgLinkTypes' /\ GgAskTypes'
  BY <1>1, GgSessionTypes DEF Gg!setstatus, Gg!connect, GgLinkTypes
<1>2. CASE Gg!Reconnect
  BY <1>2, GgSessionTypes DEF Gg!Reconnect, Gg!connect, GgLinkTypes
<1>3. CASE Gg!LoginStep
  <2>1. Kept /\ (\/ Gg!cutoff \/ \E s : Gg!Goes(s)
                 \/ gFlogged' = TRUE /\ Gg!userlistsend /\ UNCHANGED <<gOnline, gReplies>>)
    BY <1>3 DEF Gg!LoginStep, Gg!ConnectingHub, Gg!ReadingData, Gg!ConnectingGg,
       Gg!TlsNegotiation, Gg!ReadingKey, Gg!ReadingReply, Gg!Direct
  <2> QED  BY <2>1, GgSessionTypes DEF Gg!Goes, Gg!userlistsend, GgLinkTypes
<1>4. CASE Gg!Lost
  BY <1>4, GgSessionTypes DEF Gg!Lost
<1>5. ASSUME NEW f \in Friends, Gg!StatusChange(f) PROVE GgLinkTypes' /\ GgAskTypes'
  BY <1>5 DEF Gg!StatusChange, GgLinkTypes, GgAskTypes, Gg!Contacts
<1>6. ASSUME NEW f \in Friends, Gg!AddContact(f) \/ Gg!StrangerWrites(f) \/ Gg!requestinfo(f)
      PROVE  GgLinkTypes' /\ GgAskTypes'
  <2>1. gReplies' \in Seq(Friends) /\ Len(gReplies') <= MaxAsked
    BY <1>6, GgReplies DEF Gg!AddContact, Gg!StrangerWrites, Gg!requestinfo
  <2>2. gListed \in [Friends -> {"absent", "stranger", "inlist"}]
    BY DEF GgSound, GgTypes
  <2>3. GgAskTypes'
    BY <1>6, <2>1 DEF Gg!AddContact, Gg!StrangerWrites, Gg!requestinfo, GgAskTypes
  <2>4. GgLinkTypes'
    BY <1>6, <2>2 DEF Gg!AddContact, Gg!StrangerWrites, Gg!requestinfo, Gg!Watch, GgLinkTypes,
       Gg!Contacts
  <2> QED  BY <2>3, <2>4
<1>7. ASSUME NEW f \in Friends, Gg!RemoveContact(f) PROVE GgLinkTypes' /\ GgAskTypes'
  <2>1. gListed \in [Friends -> {"absent", "stranger", "inlist"}]
    BY DEF GgSound, GgTypes
  <2> QED
    BY <1>7, <2>1 DEF Gg!RemoveContact, Gg!Unwatch, GgLinkTypes, GgAskTypes, Gg!Contacts
<1>8. CASE (\E e \in Events : Gg!send(e)) \/ Gg!stoplookup \/ Gg!NetChange \/ Gg!Mute
           \/ UNCHANGED gVars
  BY <1>8 DEF Gg!send, Gg!stoplookup, Gg!NetChange, Gg!Mute, gVars, GgLinkTypes, GgAskTypes,
     Gg!Contacts
<1>9. CASE Gg!lookup
  <2>1. gReplies' \in Seq(Friends) /\ Len(gReplies') <= MaxAsked
    BY <1>9, GgReplies DEF Gg!lookup
  <2> QED  BY <1>9, <2>1 DEF Gg!lookup, GgLinkTypes, GgAskTypes, Gg!Contacts
<1>10. CASE Gg!searchdone
  <2>1. /\ gReplies' \in Seq(Friends) /\ Len(gReplies') <= MaxAsked
        /\ Head(gReplies) \in Friends
    BY <1>10, GgReplies DEF Gg!searchdone
  <2>2. gDetails' \in [Friends \cup {Root} -> Friends \cup {"none"}]
    BY <1>10, <2>1 DEF Gg!searchdone, Gg!Details, GgAskTypes
  <2> QED  BY <1>10, <2>1, <2>2 DEF Gg!searchdone, GgLinkTypes, GgAskTypes, Gg!Contacts
<1> QED
  BY <1>1, <1>2, <1>3, <1>4, <1>5, <1>6, <1>7, <1>8, <1>9, <1>10 DEF Gg!Next, Gg!main

(* Every variable of the Gadu-Gadu hook keeps its type: only contacts are  *)
(* online, and what searchdone() stores as details is about a person.      *)
THEOREM GaduTypeCorrect == ASSUME MaxAsked \in Nat PROVE PartSpec => []Gg!TypeOK
<1>1. PartInit => GgSound /\ GgLinkTypes /\ GgAskTypes
  <2>1. ASSUME Gg!Init PROVE GgLinkTypes /\ GgAskTypes
    <3>1. gReplies \in Seq(Friends) /\ Len(gReplies) <= MaxAsked
      BY <2>1, EmptySeq DEF Gg!Init
    <3> QED  BY <2>1, <3>1 DEF Gg!Init, GgLinkTypes, GgAskTypes
  <2> QED  BY <2>1, GgInit DEF PartInit
<1>2. GgSound /\ GgLinkTypes /\ GgAskTypes
      /\ [PartNext]_<<part, vars, jVars, gVars, iVars, qVars>>
      => (GgSound /\ GgLinkTypes /\ GgAskTypes)'
  <2>1. [PartNext]_<<part, vars, jVars, gVars, iVars, qVars>> => [Gg!Next]_gVars
    BY DEF PartNext
  <2> QED  BY <2>1, GgNext, GgTypesNext
<1>3. GgSound /\ GgLinkTypes /\ GgAskTypes => Gg!TypeOK
  BY DEF GgSound, GgTypes, GgLinkTypes, GgAskTypes, Gg!TypeOK
<1> QED  BY <1>1, <1>2, <1>3, PTL DEF PartSpec

-----------------------------------------------------------------------------
(***************************************************************************)
(* The LiveJournal hook.                                                   *)
(***************************************************************************)

(* A posting is none of the other requests, and not the mark for none.     *)
LjConstants == Posts \cap {"login", "friends", "lookup", "none"} = {}

LjTypes ==
  /\ jManual \in {"available", "offline"}
  /\ jFonline \in BOOLEAN /\ jFlogged \in BOOLEAN
  /\ jQueue \in Seq(Lj!Asks)
  /\ jHttp \in {"idle", "connecting", "busy", "dead"}
  /\ jPosts \in [Posts -> {"new", "sent", "ok", "failed"}]

(* No posting waits twice, and those wait that are sent. *)
OncePosted(q) == \A i, j \in DOMAIN q : q[i] \in Posts /\ q[i] = q[j] => i = j
SentWait(q, posts) == \A p \in Posts : posts[p] = "sent" <=> \E i \in DOMAIN q : q[i] = p

(* A client at work has a request to work on. *)
LjQueued ==
  /\ OncePosted(jQueue) /\ SentWait(jQueue, jPosts)
  /\ jHttp # "idle" => jQueue # <<>>

LjSound == LjTypes /\ Lj!OfflineMeansOff /\ LjQueued /\ Lj!FriendsKnown

LEMMA LjTracked ==
  ASSUME LjSound PROVE Lj!PostsTracked
<1> SUFFICES ASSUME NEW p \in Posts
    PROVE Lj!Cardinality({i \in DOMAIN jQueue : jQueue[i] = p})
          = IF jPosts[p] = "sent" THEN 1 ELSE 0
  BY DEF Lj!PostsTracked
<1> DEFINE at == {i \in DOMAIN jQueue : jQueue[i] = p}
<1>3. \A T : Lj!Cardinality(T) = Cardinality(T)
  BY DEF Lj!Cardinality, Cardinality
<1>4. SUFFICES Cardinality(at) = IF jPosts[p] = "sent" THEN 1 ELSE 0
  BY <1>3
<1>1. CASE jPosts[p] = "sent"
  <2>1. PICK i \in DOMAIN jQueue : jQueue[i] = p
    BY <1>1 DEF LjSound, LjQueued, SentWait
  <2>2. at = {i}
    BY <2>1 DEF LjSound, LjQueued, OncePosted
  <2> QED  BY <1>1, <2>2, FS_Singleton
<1>2. CASE jPosts[p] # "sent"
  <2>1. at = {}
    BY <1>2 DEF LjSound, LjQueued, SentWait
  <2> QED  BY <1>2, <2>1, FS_EmptySet
<1> QED  BY <1>1, <1>2

LEMMA LjInit == ASSUME Lj!Init PROVE LjSound
<1>1. LjTypes
  BY EmptySeq DEF Lj!Init, LjTypes
<1>2. LjQueued
  BY DEF Lj!Init, LjQueued, OncePosted, SentWait
<1> QED
  BY <1>1, <1>2 DEF Lj!Init, LjSound, Lj!OfflineMeansOff, Lj!FriendsKnown

(* The queue without its front, of which something has become. *)
LEMMA LjTail ==
  ASSUME NEW q \in Seq(Lj!Asks), q # <<>>, OncePosted(q),
         NEW ps \in [Posts -> {"new", "sent", "ok", "failed"}],
         SentWait(q, ps), NEW qs \in [Posts -> {"new", "sent", "ok", "failed"}],
         \A p \in Posts : IF p = Head(q) THEN qs[p] # "sent" ELSE qs[p] = ps[p]
  PROVE  Tail(q) \in Seq(Lj!Asks) /\ OncePosted(Tail(q)) /\ SentWait(Tail(q), qs)
<1>1. /\ Len(q) \in Nat /\ Len(q) > 0 /\ DOMAIN q = 1..Len(q) /\ Head(q) = q[1]
      /\ Tail(q) \in Seq(Lj!Asks) /\ DOMAIN Tail(q) = 1..(Len(q) - 1)
      /\ \A i \in 1..(Len(q) - 1) : Tail(q)[i] = q[i + 1]
  OBVIOUS
<1> DEFINE r == Tail(q)
<1> HIDE DEF r
<1>2. OncePosted(r)
  <2> SUFFICES ASSUME NEW i \in DOMAIN r, NEW j \in DOMAIN r, r[i] \in Posts, r[i] = r[j]
      PROVE i = j
    BY DEF OncePosted
  <2>1. i + 1 \in DOMAIN q /\ j + 1 \in DOMAIN q /\ r[i] = q[i + 1] /\ r[j] = q[j + 1]
    BY <1>1 DEF r
  <2>2. i + 1 = j + 1
    BY <2>1 DEF OncePosted
  <2> QED  BY <1>1, <2>2 DEF r
<1>3. ASSUME NEW p \in Posts PROVE qs[p] = "sent" <=> \E i \in DOMAIN r : r[i] = p
  <2>1. CASE p = q[1]
    <3>1. \A i \in DOMAIN r : r[i] # p
      <4> SUFFICES ASSUME NEW i \in DOMAIN r, r[i] = p PROVE FALSE
        OBVIOUS
      <4>1. i + 1 \in DOMAIN q /\ 1 \in DOMAIN q /\ q[i + 1] = q[1]
        BY <1>1, <2>1 DEF r
      <4>2. i + 1 = 1
        BY <2>1, <4>1 DEF OncePosted
      <4> QED  BY <1>1, <4>2 DEF r
    <3> QED  BY <1>1, <2>1, <3>1
  <2>2. CASE p # q[1]
    <3>1. (\E i \in DOMAIN r : r[i] = p) => \E i \in DOMAIN q : q[i] = p
      BY <1>1 DEF r
    <3>2. ASSUME NEW i \in DOMAIN q, q[i] = p PROVE \E j \in DOMAIN r : r[j] = p
      <4>1. i - 1 \in DOMAIN r /\ r[i - 1] = p
        BY <1>1, <2>2, <3>2 DEF r
      <4> QED  BY <4>1
    <3> QED  BY <1>1, <2>2, <3>1, <3>2 DEF SentWait
  <2> QED  BY <2>1, <2>2
<1> QED  BY <1>1, <1>2, <1>3 DEF SentWait, r

(* A request that is in the queue now. *)
LEMMA LjEnqueue ==
  ASSUME LjConstants, LjSound, NEW r \in Lj!Asks
  PROVE  LET q == Lj!Enqueue(r)
             ps == [p \in Posts |-> IF p = r THEN "sent" ELSE jPosts[p]]
         IN  q \in Seq(Lj!Asks) /\ q # <<>> /\ OncePosted(q) /\ SentWait(q, ps)
<1> DEFINE q == Lj!Enqueue(r)
           ps == [p \in Posts |-> IF p = r THEN "sent" ELSE jPosts[p]]
<1>1. jQueue \in Seq(Lj!Asks) /\ DOMAIN jQueue = 1..Len(jQueue) /\ Len(jQueue) \in Nat
  BY LenProperties DEF LjSound, LjTypes
<1>2. CASE \E i \in DOMAIN jQueue : jQueue[i] = r
  <2>1. q = jQueue
    BY <1>1, <1>2 DEF Lj!Enqueue, Lj!Contains
  <2> QED  BY <1>1, <1>2, <2>1 DEF LjSound, LjQueued, SentWait
<1>3. CASE ~\E i \in DOMAIN jQueue : jQueue[i] = r
  <2>1. q = Append(jQueue, r)
    BY <1>1, <1>3 DEF Lj!Enqueue, Lj!Contains
  <2>2. /\ q \in Seq(Lj!Asks) /\ DOMAIN q = 1..(Len(jQueue) + 1) /\ q[Len(jQueue) + 1] = r
        /\ \A i \in DOMAIN jQueue : q[i] = jQueue[i]
    BY <1>1, <2>1
  <2> HIDE DEF q
  <2>3. \A i \in DOMAIN q : i = Len(jQueue) + 1 \/ i \in DOMAIN jQueue
    BY <1>1, <2>2
  <2>4. OncePosted(q)
    BY <1>3, <2>2, <2>3 DEF OncePosted, LjSound, LjQueued
  <2>5. SentWait(q, ps)
    <3> SUFFICES ASSUME NEW p \in Posts PROVE ps[p] = "sent" <=> \E i \in DOMAIN q : q[i] = p
      BY DEF SentWait
    <3>1. CASE p = r
      BY <1>1, <2>2, <3>1
    <3>2. CASE p # r
      BY <1>1, <2>2, <2>3, <3>2 DEF LjSound, LjQueued, SentWait
    <3> QED  BY <3>1, <3>2
  <2>6. q # <<>>
    BY <1>1, <2>2
  <2> QED  BY <2>2, <2>4, <2>5, <2>6 DEF q
<1> QED  BY <1>2, <1>3

LEMMA LjSend ==
  ASSUME LjConstants, LjSound, NEW r \in Lj!Asks, NEW on \in BOOLEAN, Lj!SendEvent(r, on),
         jManual' \in {"available", "offline"}, UNCHANGED <<jFriendof, jZip>>,
         jFlogged => on, jManual' = "offline" => ~jFlogged
  PROVE  LjSound'
<1> DEFINE q == Lj!Enqueue(r)
           ps == [p \in Posts |-> IF p = r THEN "sent" ELSE jPosts[p]]
<1>1. q \in Seq(Lj!Asks) /\ q # <<>> /\ OncePosted(q) /\ SentWait(q, ps)
  BY LjEnqueue
<1>2. PICK o \in Lj!SendOutcomes(r) :
        /\ jQueue' = o.queue /\ jHttp' = o.http
        /\ jPosts' = [p \in Posts |-> IF p = o.failed THEN "failed"
                                      ELSE IF p = r THEN "sent" ELSE jPosts[p]]
        /\ IF o.failed \in {"none", "lookup"}
           THEN jFonline' = on /\ UNCHANGED <<jFlogged, jSelf>>
           ELSE /\ jFonline' = FALSE /\ jFlogged' = (jFlogged /\ ~on)
                /\ jSelf' = IF on /\ jFlogged /\ jSelf # "absent" THEN "offline" ELSE jSelf
        /\ UNCHANGED <<Lj!outside, jTold>>
  BY DEF Lj!SendEvent
<1>3. \/ o.queue = q /\ o.failed = "none" /\ o.http \in {jHttp, "connecting"}
      \/ o.queue = Tail(q) /\ o.failed = Head(q) /\ o.http = "idle"
  BY <1>2 DEF Lj!SendOutcomes
<1> HIDE DEF q
<1>4. jFonline' \in BOOLEAN /\ jFlogged' \in BOOLEAN /\ (Lj!OfflineMeansOff)'
  BY <1>2 DEF Lj!OfflineMeansOff, LjSound, LjTypes
<1>5. (Lj!FriendsKnown)'
  BY <1>2 DEF Lj!FriendsKnown, LjSound
<1>6. ps \in [Posts -> {"new", "sent", "ok", "failed"}]
  BY DEF LjSound, LjTypes
<1>7. CASE o.queue = q /\ o.failed = "none" /\ o.http \in {jHttp, "connecting"}
  <2>1. jPosts' = ps
    BY <1>2, <1>7 DEF LjConstants
  <2>2. jQueue' = q /\ jHttp' \in {jHttp, "connecting"}
    BY <1>2, <1>7
  <2>3. LjTypes' /\ LjQueued'
    BY <1>1, <1>4, <1>6, <2>1, <2>2 DEF LjTypes, LjQueued, LjSound
  <2> QED  BY <1>4, <1>5, <2>3 DEF LjSound
<1>8. CASE o.queue = Tail(q) /\ o.failed = Head(q) /\ o.http = "idle"
  <2>1. /\ jPosts' \in [Posts -> {"new", "sent", "ok", "failed"}]
        /\ \A p \in Posts : IF p = Head(q) THEN jPosts'[p] # "sent" ELSE jPosts'[p] = ps[p]
    BY <1>2, <1>8 DEF LjSound, LjTypes
  <2> HIDE DEF ps
  <2>2. Tail(q) \in Seq(Lj!Asks) /\ OncePosted(Tail(q)) /\ SentWait(Tail(q), jPosts')
    BY <1>1, <1>6, <2>1, LjTail
  <2>3. jQueue' = Tail(q) /\ jHttp' = "idle"
    BY <1>2, <1>8
  <2>4. LjTypes' /\ LjQueued'
    BY <1>4, <2>1, <2>2, <2>3 DEF LjTypes, LjQueued
  <2> QED  BY <1>4, <1>5, <2>4 DEF LjSound
<1> QED  BY <1>3, <1>7, <1>8

(* What leaves the queue, the client and the postings alone.               *)
LEMMA LjKept ==
  ASSUME LjSound, UNCHANGED <<jQueue, jHttp, jPosts>>
  PROVE  /\ jQueue' \in Seq(Lj!Asks) /\ jHttp' \in {"idle", "connecting", "busy", "dead"}
         /\ jPosts' \in [Posts -> {"new", "sent", "ok", "failed"}] /\ LjQueued'
  BY DEF LjSound, LjTypes, LjQueued

(* The user and the main loop.                                             *)
LEMMA LjDriven ==
  ASSUME LjConstants, LjSound,
         \/ \E st \in {"available", "offline"} : Lj!setstatus(st)
         \/ Lj!Reconnect \/ Lj!HourPasses \/ Lj!requestfriends
         \/ \E p \in Posts : Lj!send(p)
         \/ Lj!lookup \/ Lj!stoplookup \/ Lj!RemoveSelf \/ Lj!NetChange
         \/ \E u \in Users : Lj!FriendsChange(u)
         \/ UNCHANGED jVars
  PROVE  LjSound'
<1> USE DEF Lj!Asks
<1>1. ASSUME NEW st \in {"available", "offline"}, Lj!setstatus(st) PROVE LjSound'
  <2>1. CASE st = "available" /\ ~jFlogged /\ Lj!connect
    BY <1>1, <2>1, LjSend DEF Lj!setstatus, Lj!connect
  <2>2. CASE ~(st = "available" /\ ~jFlogged /\ Lj!connect)
    BY <1>1, <2>2, LjKept DEF Lj!setstatus, Lj!disconnect, Lj!OnlyLinks, Lj!links, Lj!client,
       Lj!ghosts, Lj!logged, LjSound, LjTypes, Lj!OfflineMeansOff, Lj!FriendsKnown
  <2> QED  BY <2>1, <2>2
<1>2. CASE Lj!Reconnect
  <2>1. CASE ~jFonline /\ Lj!connect
    BY <1>2, <2>1, LjSend DEF Lj!Reconnect, Lj!connect, LjSound, LjTypes, Lj!OfflineMeansOff
  <2>2. CASE ~(~jFonline /\ Lj!connect)
    BY <1>2, <2>2, LjKept DEF Lj!Reconnect, Lj!disconnect, Lj!OnlyLinks, Lj!links, Lj!client,
       Lj!ghosts, Lj!logged, LjSound, LjTypes, Lj!OfflineMeansOff, Lj!FriendsKnown
  <2> QED  BY <2>1, <2>2
<1>3. CASE Lj!requestfriends \/ (\E p \in Posts : Lj!send(p)) \/ Lj!lookup
  BY <1>3, LjSend DEF Lj!requestfriends, Lj!send, Lj!lookup, LjSound, LjTypes,
     Lj!OfflineMeansOff
<1>4. CASE \/ Lj!HourPasses \/ Lj!stoplookup \/ Lj!RemoveSelf \/ Lj!NetChange
           \/ (\E u \in Users : Lj!FriendsChange(u)) \/ UNCHANGED jVars
  BY <1>4, LjKept DEF Lj!HourPasses, Lj!stoplookup, Lj!RemoveSelf, Lj!NetChange,
     Lj!FriendsChange, jVars, Lj!links, Lj!client, Lj!ghosts, Lj!hook, LjSound, LjTypes,
     Lj!OfflineMeansOff, Lj!FriendsKnown
<1> QED  BY <1>1, <1>2, <1>3, <1>4

(* The client has done with the front of its queue.                        *)
LEMMA LjDone ==
  ASSUME LjSound, Lj!Done,
         jPosts' \in [Posts -> {"new", "sent", "ok", "failed"}],
         \A p \in Posts : IF p = Head(jQueue) THEN jPosts'[p] # "sent" ELSE jPosts'[p] = jPosts[p]
  PROVE  /\ jQueue' \in Seq(Lj!Asks) /\ jHttp' \in {"idle", "connecting", "busy", "dead"}
         /\ LjQueued'
<1>1. jQueue \in Seq(Lj!Asks) /\ jQueue # <<>> /\ jQueue' = Tail(jQueue) /\ jHttp' = "idle"
  BY DEF Lj!Done, LjSound, LjTypes, LjQueued
<1>2. Tail(jQueue) \in Seq(Lj!Asks) /\ OncePosted(Tail(jQueue)) /\ SentWait(Tail(jQueue), jPosts')
  BY <1>1, LjTail DEF LjSound, LjTypes, LjQueued
<1> QED  BY <1>1, <1>2 DEF LjQueued

LEMMA LjAnswered ==
  ASSUME LjConstants, LjSound, Lj!Connects \/ Lj!Fails \/ Lj!Answers PROVE LjSound'
<1> USE DEF LjSound, LjTypes, Lj!OfflineMeansOff, Lj!FriendsKnown, Lj!links, Lj!hook, Lj!ghosts
<1>1. CASE Lj!Connects
  BY <1>1 DEF Lj!Connects, LjQueued
<1>2. CASE Lj!Fails
  <2>1. /\ jPosts' \in [Posts -> {"new", "sent", "ok", "failed"}]
        /\ \A p \in Posts : IF p = Head(jQueue) THEN jPosts'[p] # "sent" ELSE jPosts'[p] = jPosts[p]
    BY <1>2 DEF Lj!Fails, Lj!Posted
  <2> QED  BY <1>2, <2>1, LjDone DEF Lj!Fails, Lj!disconnect, Lj!logged
<1>3. CASE Lj!PostAnswered
  <2>1. /\ jPosts' \in [Posts -> {"new", "sent", "ok", "failed"}]
        /\ \A p \in Posts : IF p = Head(jQueue) THEN jPosts'[p] # "sent" ELSE jPosts'[p] = jPosts[p]
    BY <1>3 DEF Lj!PostAnswered, Lj!Posted
  <2> QED  BY <1>3, <2>1, LjDone DEF Lj!PostAnswered
<1>4. CASE Lj!LoginOk \/ Lj!LoginIgnored \/ Lj!FriendsOk \/ Lj!LookupOk
  <2>1. /\ Lj!Done /\ Head(jQueue) \notin Posts
        /\ jPosts' = jPosts
    BY <1>4 DEF Lj!LoginOk, Lj!LoginIgnored, Lj!FriendsOk, Lj!LookupOk, Lj!Answered, LjConstants
  <2>2. /\ jQueue' \in Seq(Lj!Asks) /\ jHttp' \in {"idle", "connecting", "busy", "dead"}
        /\ LjQueued'
    BY <2>1, LjDone
  <2>3. CASE Lj!LoginOk
    BY <2>1, <2>2, <2>3 DEF Lj!LoginOk, Lj!LoginStatus, Lj!StoredFriends
  <2>4. CASE Lj!FriendsOk
    BY <2>1, <2>2, <2>4 DEF Lj!FriendsOk, Lj!StoreFriends
  <2>5. CASE Lj!LoginIgnored \/ Lj!LookupOk
    BY <2>1, <2>2, <2>5 DEF Lj!LoginIgnored, Lj!LookupOk
  <2> QED  BY <1>4, <2>3, <2>4, <2>5
<1> QED  BY <1>1, <1>2, <1>3, <1>4 DEF Lj!Answers

LEMMA LjNext ==
  ASSUME LjConstants, LjSound, [Lj!Next]_jVars PROVE LjSound'
BY LjDriven, LjAnswered DEF Lj!Next

LEMMA LjParts == ASSUME LjConstants PROVE PartSpec => []LjSound
<1>1. PartInit => LjSound
  BY LjInit DEF PartInit
<1>2. LjSound /\ [PartNext]_<<part, vars, jVars, gVars, iVars, qVars>> => LjSound'
  BY LjNext DEF PartNext
<1> QED  BY <1>1, <1>2, PTL DEF PartSpec

(* A posting that send() accepted is in the client's queue, once, as long  *)
(* as nothing was heard of it: connections that cannot be made, failures   *)
(* and logins take nothing else from the queue, and an equal posting is    *)
(* not queued again (HTTPClient::SendEvent() and messageack_cb()).         *)
THEOREM PostsAreTracked == ASSUME LjConstants PROVE PartSpec => []PostsTracked
<1>1. LjSound => PostsTracked
  BY LjTracked DEF PostsTracked
<1> QED  BY <1>1, LjParts, PTL

(* Whom the user was told of is what is known now and, while the user's    *)
(* own contact exists, what is stored for the next login, so that a list   *)
(* of friends is compared with the right one (ljhook.cc).                  *)
THEOREM FriendsAreKnown == ASSUME LjConstants PROVE PartSpec => []FriendsKnown
BY LjParts, PTL DEF LjSound, FriendsKnown

-----------------------------------------------------------------------------
(***************************************************************************)
(* The irc hook.                                                           *)
(***************************************************************************)
IcOff == Ic!OfflineMeansOff /\ iManual \in {"available", "offline"}

LEMMA IcNext ==
  ASSUME IcOff, [Ic!Next]_iVars PROVE IcOff'
<1> USE DEF IcOff, Ic!OfflineMeansOff, Ic!logged, Ic!hookonline
<1>1. ASSUME NEW st \in {"available", "offline"}, Ic!setstatus(st) PROVE IcOff'
  BY <1>1 DEF Ic!setstatus, Ic!disconnect, Ic!disconnected, Ic!Disconnected, Ic!connect
<1>2. CASE Ic!Reconnect \/ Ic!Lost
  BY <1>2 DEF Ic!Reconnect, Ic!Lost, Ic!disconnect, Ic!disconnected, Ic!Disconnected,
     Ic!connect
<1>3. CASE Ic!LoginStep
  BY <1>3 DEF Ic!LoginStep, Ic!connected, Ic!disconnected, Ic!Disconnected
<1>4. CASE UNCHANGED <<iManual, iLink>>
  BY <1>4
<1>5. CASE \/ \E r \in Rooms : \/ Ic!joindialog(r) \/ Ic!JoinOrLeave(r) \/ Ic!RemoveContact(r)
                               \/ Ic!lookup(r) \/ Ic!Kick(r)
           \/ Ic!ServerTakes \/ Ic!main \/ UNCHANGED iVars
  BY <1>4, <1>5 DEF Ic!joindialog, Ic!JoinOrLeave, Ic!RemoveContact, Ic!lookup, Ic!Kick,
     Ic!ServerTakes, Ic!main, iVars
<1> QED  BY <1>1, <1>2, <1>3, <1>5 DEF Ic!Next

LEMMA IcParts == PartSpec => []IcOff
<1>1. PartInit => IcOff
  BY DEF PartInit, IcOff, Ic!Init, Ic!OfflineMeansOff, Ic!logged
<1>2. IcOff /\ [PartNext]_<<part, vars, jVars, gVars, iVars, qVars>> => IcOff'
  BY IcNext DEF PartNext
<1> QED  BY <1>1, <1>2, PTL DEF PartSpec

-----------------------------------------------------------------------------
(* The channels: selections of the records first.                          *)

LEMMA IcCardinality ==
  \A S : Ic!Cardinality(S) = Cardinality(S) /\ (Ic!IsFiniteSet(S) <=> IsFiniteSet(S))
BY DEF Ic!Cardinality, Cardinality, Ic!IsFiniteSet, IsFiniteSet

(* The places of a selection are counted through. *)
LEMMA IcRank ==
  ASSUME NEW n \in Nat, NEW at \in SUBSET (1..n)
  PROVE  /\ Cardinality(at) \in Nat
         /\ \A i \in at : Ic!Rank(at, i) \in 1..Cardinality(at)
         /\ \A i, j \in at : Ic!Rank(at, i) = Ic!Rank(at, j) => i = j
         /\ \A k \in 1..Cardinality(at) : \E i \in at : Ic!Rank(at, i) = k
<1> DEFINE m == Cardinality(at)
           Upto(i) == {j \in at : j <= i}
           rank == [i \in at |-> Cardinality(Upto(i))]
<1>1. IsFiniteSet(at) /\ m \in Nat
  <2>1. IsFiniteSet(1..n)
    BY FS_Interval
  <2>2. IsFiniteSet(at)
    BY <2>1, FS_Subset
  <2> QED  BY <2>2, FS_CardinalityType
<1>2. ASSUME NEW i \in at
      PROVE /\ IsFiniteSet(Upto(i)) /\ Cardinality(Upto(i)) \in Nat
            /\ Cardinality(Upto(i)) \in 1..m
  <2>1. Upto(i) \in SUBSET at /\ i \in Upto(i)
    OBVIOUS
  <2>2. IsFiniteSet(Upto(i)) /\ Cardinality(Upto(i)) <= m /\ Cardinality(Upto(i)) \in Nat
    BY <1>1, <2>1, FS_Subset, FS_CardinalityType
  <2>3. Cardinality(Upto(i)) # 0
    BY <2>1, <2>2, FS_EmptySet
  <2> QED  BY <1>1, <2>2, <2>3
<1>3. ASSUME NEW i \in at, NEW j \in at, i < j
      PROVE  Cardinality(Upto(i)) # Cardinality(Upto(j))
  <2>1. Upto(i) \in SUBSET Upto(j) /\ j \in Upto(j) /\ j \notin Upto(i)
    <3>1. i \in Nat /\ j \in Nat /\ \A l \in at : l \in Nat
      OBVIOUS
    <3>2. j \in Upto(j) /\ j \notin Upto(i)
      BY <1>3, <3>1
    <3>3. \A l \in at : l <= i => l <= j
      BY <1>3, <3>1
    <3>4. Upto(i) \subseteq Upto(j)
      BY <3>3
    <3> QED  BY <3>2, <3>4
  <2> QED  BY <1>2, <2>1, FS_Subset
<1>4. \A i \in at : Ic!Rank(at, i) = rank[i]
  BY IcCardinality DEF Ic!Rank
<1>5. \A i, j \in at : rank[i] = rank[j] => i = j
  <2> SUFFICES ASSUME NEW i \in at, NEW j \in at, rank[i] = rank[j] PROVE i = j
    OBVIOUS
  <2>1. Cardinality(Upto(i)) = Cardinality(Upto(j)) /\ i \in Nat /\ j \in Nat
    OBVIOUS
  <2>2. ~(i < j) /\ ~(j < i)
    BY <1>3, <2>1
  <2> QED  BY <2>1, <2>2
<1>6. rank \in [at -> 1..m]
  BY <1>2
<1> HIDE DEF rank
<1>7. rank \in Injection(at, 1..m)
  BY <1>5, <1>6 DEF Injection, IsInjective
<1>8. Cardinality(1..m) = m /\ IsFiniteSet(1..m)
  BY <1>1, FS_Interval
<1>9. rank \in Surjection(at, 1..m)
  BY <1>7, <1>8, FS_Injection
<1>10. \A k \in 1..m : \E i \in at : rank[i] = k
  BY <1>9 DEF Surjection
<1> QED  BY <1>1, <1>4, <1>5, <1>6, <1>10

(* A selection has at each place what stood at a place of its own. *)
LEMMA IcThose ==
  ASSUME NEW S, NEW s \in Seq(S), NEW at \in SUBSET DOMAIN s
  PROVE  LET t == Ic!Those(s, at)
         IN  /\ t \in Seq(S)
             /\ \E p \in [DOMAIN t -> at] :
                  /\ \A k \in DOMAIN t : t[k] = s[p[k]]
                  /\ \A k, l \in DOMAIN t : p[k] = p[l] => k = l
                  /\ \A i \in at : \E k \in DOMAIN t : p[k] = i
<1> DEFINE m == Cardinality(at)
           p == [k \in 1..m |-> CHOOSE i \in at : Ic!Rank(at, i) = k]
           t == Ic!Those(s, at)
<1>1. at \in SUBSET (1..Len(s)) /\ Len(s) \in Nat /\ \A i \in at : s[i] \in S
  BY LenProperties, ElementOfSeq
<1>2. /\ m \in Nat
      /\ \A i \in at : Ic!Rank(at, i) \in 1..m
      /\ \A i, j \in at : Ic!Rank(at, i) = Ic!Rank(at, j) => i = j
      /\ \A k \in 1..m : \E i \in at : Ic!Rank(at, i) = k
  BY <1>1, IcRank
<1>3. \A k \in 1..m : p[k] \in at /\ Ic!Rank(at, p[k]) = k
  BY <1>2
<1>4. t = [k \in 1..m |-> s[p[k]]]
  BY IcCardinality DEF Ic!Those
<1>5. p \in [1..m -> at]
  BY <1>3
<1> HIDE DEF m, p, t
<1>6. t \in Seq(S) /\ DOMAIN t = 1..m
  BY <1>1, <1>2, <1>3, <1>4
<1>7. \A i \in at : \E k \in 1..m : p[k] = i
  BY <1>2, <1>3
<1> QED
  <2>1. \A k \in DOMAIN t : t[k] = s[p[k]]
    BY <1>4, <1>6
  <2>2. \A k, l \in DOMAIN t : p[k] = p[l] => k = l
    BY <1>3, <1>6
  <2>3. p \in [DOMAIN t -> at] /\ \A i \in at : \E k \in DOMAIN t : p[k] = i
    BY <1>5, <1>6, <1>7
  <2>4. t \in Seq(S) /\ \E f \in [DOMAIN t -> at] :
          /\ \A k \in DOMAIN t : t[k] = s[f[k]]
          /\ \A k, l \in DOMAIN t : f[k] = f[l] => k = l
          /\ \A i \in at : \E k \in DOMAIN t : f[k] = i
    BY <1>6, <2>1, <2>2, <2>3
  <2> QED  BY <2>4 DEF t

(* The records of channels, one for each room at most. *)
IcChannel == [room : Rooms, joined : BOOLEAN]
IcRecords(chs) ==
  /\ chs \in Seq(IcChannel)
  /\ \A i, j \in DOMAIN chs : chs[i].room = chs[j].room => i = j
IcOrder == {"JOIN", "PART"} \X Rooms

(* A selection of records is one of records still. *)
LEMMA IcSelect ==
  ASSUME NEW chs, IcRecords(chs), NEW at \in SUBSET DOMAIN chs
  PROVE  LET t == Ic!Those(chs, at)
         IN  /\ IcRecords(t)
             /\ \A k \in DOMAIN t : \E i \in at : t[k] = chs[i]
             /\ \A i \in at : \E k \in DOMAIN t : t[k] = chs[i]
<1> DEFINE t == Ic!Those(chs, at)
<1> HIDE DEF t
<1>1. chs \in Seq(IcChannel)
  BY DEF IcRecords
<1>2. LET u == Ic!Those(chs, at)
      IN  /\ u \in Seq(IcChannel)
          /\ \E p \in [DOMAIN u -> at] :
               /\ \A k \in DOMAIN u : u[k] = chs[p[k]]
               /\ \A k, l \in DOMAIN u : p[k] = p[l] => k = l
               /\ \A i \in at : \E k \in DOMAIN u : p[k] = i
  BY <1>1, IcThose
<1>3. PICK p \in [DOMAIN t -> at] :
        /\ \A k \in DOMAIN t : t[k] = chs[p[k]]
        /\ \A k, l \in DOMAIN t : p[k] = p[l] => k = l
        /\ \A i \in at : \E k \in DOMAIN t : p[k] = i
  BY <1>2 DEF t
<1>4. t \in Seq(IcChannel)
  BY <1>2 DEF t
<1>5. \A k, l \in DOMAIN t : t[k].room = t[l].room => k = l
  BY <1>3 DEF IcRecords
<1>6. IcRecords(t)
  BY <1>4, <1>5 DEF IcRecords
<1>7. /\ \A k \in DOMAIN t : \E i \in at : t[k] = chs[i]
      /\ \A i \in at : \E k \in DOMAIN t : t[k] = chs[i]
  BY <1>3
<1> QED  BY <1>6, <1>7 DEF t

(* The search channels are the ones that are left out, and none is joined. *)
LEMMA IcAuto ==
  ASSUME NEW chs, IcRecords(chs)
  PROVE  LET auto == Ic!getautochannels(chs)
         IN  /\ IcRecords(auto)
             /\ \A c \in IcChannel : Ic!Joined(chs, c.room) => Ic!Holds(auto, c.room)
<1> DEFINE at == {i \in DOMAIN chs : chs[i].joined \/ chs[i].room \notin iSearched}
           auto == Ic!Those(chs, at)
<1> HIDE DEF auto, at
<1>1. at \in SUBSET DOMAIN chs
  BY DEF at
<1>2. IcRecords(auto) /\ \A i \in at : \E k \in DOMAIN auto : auto[k] = chs[i]
  BY <1>1, IcSelect DEF auto
<1>3. ASSUME NEW c \in IcChannel, Ic!Joined(chs, c.room) PROVE Ic!Holds(auto, c.room)
  <2>1. PICK i \in DOMAIN chs : chs[i] = [room |-> c.room, joined |-> TRUE]
    BY <1>3 DEF Ic!Joined, Ic!Range
  <2>2. i \in at
    BY <2>1 DEF at
  <2>3. PICK k \in DOMAIN auto : auto[k] = chs[i]
    BY <1>2, <2>2
  <2> QED  BY <2>1, <2>3 DEF Ic!Holds, Ic!Range
<1>4. auto = Ic!getautochannels(chs)
  BY DEF Ic!getautochannels, auto, at
<1> QED  BY <1>2, <1>3, <1>4

(* A record at the end, for a room that has none. *)
LEMMA IcAdded ==
  ASSUME NEW chs, IcRecords(chs), NEW c \in IcChannel, ~Ic!Holds(chs, c.room)
  PROVE  /\ IcRecords(Append(chs, c))
         /\ \A x : Ic!Joined(Append(chs, c), x)
                   => Ic!Joined(chs, x) \/ c = [room |-> x, joined |-> TRUE]
<1>1. chs \in Seq(IcChannel)
  BY DEF IcRecords
<1>2. \A i \in DOMAIN chs : chs[i].room # c.room
  BY DEF Ic!Holds, Ic!Range
<1> DEFINE new == Append(chs, c)
<1>3. /\ new \in Seq(IcChannel) /\ DOMAIN new = 1..(Len(chs) + 1) /\ Len(chs) \in Nat
      /\ DOMAIN chs = 1..Len(chs)
      /\ \A i \in 1..Len(chs) : new[i] = chs[i]
      /\ new[Len(chs) + 1] = c
  BY <1>1
<1> HIDE DEF new
<1>4. \A i \in DOMAIN new : i \in DOMAIN chs \/ i = Len(chs) + 1
  BY <1>3
<1>5. ASSUME NEW i \in DOMAIN new, NEW j \in DOMAIN new, new[i].room = new[j].room
      PROVE  i = j
  <2>1. CASE i \in DOMAIN chs /\ j \in DOMAIN chs
    BY <1>3, <1>5, <2>1 DEF IcRecords
  <2>2. CASE i = Len(chs) + 1 /\ j = Len(chs) + 1
    BY <2>2
  <2>3. CASE i \in DOMAIN chs /\ j = Len(chs) + 1
    BY <1>2, <1>3, <1>5, <2>3
  <2>4. CASE j \in DOMAIN chs /\ i = Len(chs) + 1
    BY <1>2, <1>3, <1>5, <2>4
  <2> QED  BY <1>4, <2>1, <2>2, <2>3, <2>4
<1>6. ASSUME NEW x, Ic!Joined(new, x)
      PROVE  Ic!Joined(chs, x) \/ c = [room |-> x, joined |-> TRUE]
  <2>1. PICK i \in DOMAIN new : new[i] = [room |-> x, joined |-> TRUE]
    BY <1>6 DEF Ic!Joined, Ic!Range
  <2>2. CASE i \in DOMAIN chs
    BY <1>3, <2>1, <2>2 DEF Ic!Joined, Ic!Range
  <2>3. CASE i = Len(chs) + 1
    BY <1>3, <2>1, <2>3
  <2> QED  BY <1>4, <2>2, <2>3
<1> QED  BY <1>3, <1>5, <1>6 DEF IcRecords, new

(* Who joins or leaves has one record or none afterwards. *)
LEMMA IcWithUser ==
  ASSUME NEW chs, IcRecords(chs), NEW r \in Rooms
  PROVE  LET new == Ic!WithUser(chs, r)
         IN  /\ IcRecords(new)
             /\ new = chs \/ Ic!Joined(chs, r) = FALSE
<1> DEFINE auto == Ic!getautochannels(chs)
           c == [room |-> r, joined |-> TRUE]
<1> HIDE DEF auto
<1>1. IcRecords(auto) /\ (Ic!Joined(chs, r) => Ic!Holds(auto, r))
  <2>1. c \in IcChannel /\ c.room = r
    BY DEF IcChannel
  <2> QED  BY <2>1, IcAuto DEF auto
<1>2. ASSUME ~Ic!Holds(auto, r) PROVE IcRecords(Append(auto, c))
  <2>1. c \in IcChannel /\ c.room = r
    BY DEF IcChannel
  <2> QED  BY <1>1, <1>2, <2>1, IcAdded
<1> QED  BY <1>1, <1>2 DEF Ic!WithUser, auto

LEMMA IcWithoutUser ==
  ASSUME NEW chs, IcRecords(chs), NEW r \in Rooms
  PROVE  LET new == Ic!WithoutUser(chs, r)
         IN  /\ IcRecords(new)
             /\ Ic!hookonline => ~Ic!Joined(new, r)
<1> DEFINE auto == Ic!getautochannels(chs)
           at == {i \in DOMAIN auto : auto[i].room # r}
           c == [room |-> r, joined |-> TRUE]
<1> HIDE DEF auto
<1>1. IcRecords(auto) /\ (Ic!Joined(chs, r) => Ic!Holds(auto, r))
  <2>1. c \in IcChannel /\ c.room = r
    BY DEF IcChannel
  <2> QED  BY <2>1, IcAuto DEF auto
<1> DEFINE t == Ic!Those(auto, at)
<1>2. at \in SUBSET DOMAIN auto
  OBVIOUS
<1> HIDE DEF t
<1>3. IcRecords(t) /\ \A k \in DOMAIN t : \E i \in at : t[k] = auto[i]
  BY <1>1, <1>2, IcSelect DEF t
<1>4. ~Ic!Joined(t, r)
  BY <1>3 DEF Ic!Joined, Ic!Range
<1> QED  BY <1>1, <1>3, <1>4 DEF Ic!WithoutUser, auto, t

(* What is sent about a room, after what was sent before. *)
LEMMA IcAppended ==
  ASSUME NEW S, NEW q \in Seq(S), NEW s \in Seq(S), NEW x
  PROVE  /\ Ic!Silent(q, x) /\ Ic!Silent(s, x) => Ic!Silent(q \o s, x)
         /\ Ic!JoinsLast(q, x) /\ Ic!Silent(s, x) => Ic!JoinsLast(q \o s, x)
         /\ Ic!JoinsLast(s, x) => Ic!JoinsLast(q \o s, x)
<1> DEFINE t == q \o s
           m == Len(q)
           n == Len(s)
<1>1. /\ m \in Nat /\ n \in Nat /\ DOMAIN q = 1..m /\ DOMAIN s = 1..n /\ DOMAIN t = 1..(m + n)
      /\ \A i \in 1..m : t[i] = q[i]
      /\ \A i \in 1..n : m + i \in 1..(m + n) /\ t[m + i] = s[i]
  OBVIOUS
<1> HIDE DEF t, m, n
<1>2. \A i \in 1..(m + n) : i \in 1..m \/ (i - m \in 1..n /\ i = m + (i - m))
  BY <1>1
<1>3. ASSUME Ic!Silent(s, x) PROVE \A i \in 1..(m + n) : i \notin 1..m => t[i][2] # x
  <2> SUFFICES ASSUME NEW i \in 1..(m + n), i \notin 1..m PROVE t[i][2] # x
    OBVIOUS
  <2> DEFINE k == i - m
  <2>1. k \in 1..n /\ i = m + k
    BY <1>2
  <2> HIDE DEF k
  <2>2. t[i] = s[k] /\ k \in DOMAIN s
    BY <1>1, <2>1
  <2>3. s[k][2] # x
    BY <1>3, <2>2 DEF Ic!Silent
  <2> QED  BY <2>2, <2>3
<1>4. Ic!Silent(q, x) /\ Ic!Silent(s, x) => Ic!Silent(t, x)
  BY <1>1, <1>3 DEF Ic!Silent
<1>5. ASSUME Ic!JoinsLast(q, x), Ic!Silent(s, x) PROVE Ic!JoinsLast(t, x)
  <2>1. PICK i \in 1..m : q[i] = <<"JOIN", x>> /\ \A j \in 1..m : j > i => q[j][2] # x
    BY <1>1, <1>5 DEF Ic!JoinsLast
  <2>2. i \in DOMAIN t /\ t[i] = <<"JOIN", x>>
    BY <1>1, <2>1
  <2>3. \A j \in DOMAIN t : j > i => t[j][2] # x
    BY <1>1, <1>3, <1>5, <2>1
  <2> QED  BY <2>2, <2>3 DEF Ic!JoinsLast
<1>6. ASSUME Ic!JoinsLast(s, x) PROVE Ic!JoinsLast(t, x)
  <2>1. PICK i \in 1..n : s[i] = <<"JOIN", x>> /\ \A j \in 1..n : j > i => s[j][2] # x
    BY <1>1, <1>6 DEF Ic!JoinsLast
  <2>2. m + i \in DOMAIN t /\ t[m + i] = <<"JOIN", x>>
    BY <1>1, <2>1
  <2>3. ASSUME NEW j \in DOMAIN t, j > m + i PROVE t[j][2] # x
    <3> DEFINE k == j - m
    <3>1. k \in 1..n /\ j = m + k /\ k > i
      BY <1>1, <2>1, <2>3
    <3> HIDE DEF k
    <3> QED  BY <1>1, <2>1, <3>1
  <2> QED  BY <2>2, <2>3 DEF Ic!JoinsLast
<1> QED  BY <1>4, <1>5, <1>6 DEF t

(* One command for each record. *)
LEMMA IcAll ==
  ASSUME NEW chs, IcRecords(chs), NEW command \in {"JOIN", "PART"}
  PROVE  LET t == Ic!All(command, chs)
         IN  /\ t \in Seq(IcOrder) /\ DOMAIN t = DOMAIN chs
             /\ \A i \in DOMAIN chs : t[i] = <<command, chs[i].room>>
             /\ \A x : ~Ic!Holds(chs, x) => Ic!Silent(t, x)
             /\ \A x : Ic!Holds(chs, x) /\ command = "JOIN" => Ic!JoinsLast(t, x)
<1> DEFINE t == Ic!All(command, chs)
<1>1. /\ DOMAIN chs = 1..Len(chs) /\ Len(chs) \in Nat
      /\ \A i \in DOMAIN chs : chs[i] \in IcChannel
  BY DEF IcRecords
<1>2. t = [i \in 1..Len(chs) |-> <<command, chs[i].room>>]
  BY <1>1 DEF Ic!All
<1> HIDE DEF t
<1>3. \A i \in 1..Len(chs) : <<command, chs[i].room>> \in IcOrder
  BY <1>1 DEF IcOrder, IcChannel
<1>4. t \in Seq(IcOrder)
  BY <1>1, <1>2, <1>3
<1>5. ASSUME NEW x, ~Ic!Holds(chs, x) PROVE Ic!Silent(t, x)
  BY <1>1, <1>2, <1>5 DEF Ic!Silent, Ic!Holds, Ic!Range
<1>6. ASSUME NEW x, Ic!Holds(chs, x), command = "JOIN" PROVE Ic!JoinsLast(t, x)
  <2>1. PICK i \in DOMAIN chs : chs[i].room = x
    BY <1>6 DEF Ic!Holds, Ic!Range
  <2>2. t[i] = <<"JOIN", x>> /\ i \in DOMAIN t
    BY <1>1, <1>2, <1>6, <2>1
  <2>3. ASSUME NEW j \in DOMAIN t, j > i PROVE t[j][2] # x
    <3>1. j \in DOMAIN chs /\ j # i /\ t[j][2] = chs[j].room
      BY <1>1, <1>2, <2>1, <2>3
    <3> QED  BY <2>1, <3>1 DEF IcRecords
  <2> QED  BY <2>2, <2>3 DEF Ic!JoinsLast
<1> QED  BY <1>1, <1>2, <1>4, <1>5, <1>6 DEF t

(* The channels that are joined in one of two vectors only. *)
LEMMA IcOnlyIn ==
  ASSUME NEW chs, IcRecords(chs), NEW other
  PROVE  LET t == Ic!OnlyIn(chs, other)
         IN  /\ IcRecords(t)
             /\ \A x : Ic!Holds(t, x) => Ic!Joined(chs, x) /\ ~Ic!Joined(other, x)
             /\ \A x : Ic!Joined(chs, x) /\ ~Ic!Joined(other, x) => Ic!Holds(t, x)
<1> DEFINE at == {i \in DOMAIN chs : chs[i].joined /\ ~Ic!Joined(other, chs[i].room)}
           t == Ic!Those(chs, at)
<1> HIDE DEF at, t
<1>1. at \in SUBSET DOMAIN chs
  BY DEF at
<1>2. /\ IcRecords(t)
      /\ \A k \in DOMAIN t : \E i \in at : t[k] = chs[i]
      /\ \A i \in at : \E k \in DOMAIN t : t[k] = chs[i]
  BY <1>1, IcSelect DEF t
<1>3. ASSUME NEW x, Ic!Holds(t, x) PROVE Ic!Joined(chs, x) /\ ~Ic!Joined(other, x)
  <2>1. PICK k \in DOMAIN t : t[k].room = x
    BY <1>3 DEF Ic!Holds, Ic!Range
  <2>2. PICK i \in at : t[k] = chs[i]
    BY <1>2, <2>1
  <2>3. i \in DOMAIN chs /\ chs[i].room = x /\ chs[i].joined /\ ~Ic!Joined(other, x)
    BY <2>1, <2>2 DEF at
  <2>4. chs[i] \in IcChannel
    BY <2>3 DEF IcRecords
  <2>5. chs[i] = [room |-> x, joined |-> TRUE]
    BY <2>3, <2>4 DEF IcChannel
  <2> QED  BY <2>3, <2>5 DEF Ic!Joined, Ic!Range
<1>4. ASSUME NEW x, Ic!Joined(chs, x), ~Ic!Joined(other, x) PROVE Ic!Holds(t, x)
  <2>1. PICK i \in DOMAIN chs : chs[i] = [room |-> x, joined |-> TRUE]
    BY <1>4 DEF Ic!Joined, Ic!Range
  <2>2. i \in at
    BY <1>4, <2>1 DEF at
  <2>3. PICK k \in DOMAIN t : t[k] = chs[i]
    BY <1>2, <2>2
  <2> QED  BY <2>1, <2>3 DEF Ic!Holds, Ic!Range
<1> QED  BY <1>2, <1>3, <1>4 DEF Ic!OnlyIn, at, t

(* Of a channel that stays joined nothing is said, of one that is joined   *)
(* anew the last word is to join it.                                       *)
LEMMA IcChanges ==
  ASSUME NEW old, NEW new, IcRecords(old), IcRecords(new)
  PROVE  LET t == Ic!Changes(old, new)
         IN  /\ t \in Seq(IcOrder)
             /\ \A x : Ic!Joined(new, x) /\ Ic!Joined(old, x) => Ic!Silent(t, x)
             /\ \A x : Ic!Joined(new, x) /\ ~Ic!Joined(old, x) => Ic!JoinsLast(t, x)
<1> DEFINE left == Ic!All("PART", Ic!OnlyIn(old, new))
           come == Ic!All("JOIN", Ic!OnlyIn(new, old))
<1>1. IcRecords(Ic!OnlyIn(old, new)) /\ IcRecords(Ic!OnlyIn(new, old))
  BY IcOnlyIn
<1>2. left \in Seq(IcOrder) /\ come \in Seq(IcOrder)
  BY <1>1, IcAll
<1>3. ASSUME NEW x, Ic!Joined(new, x), Ic!Joined(old, x) PROVE Ic!Silent(left \o come, x)
  <2>1. ~Ic!Holds(Ic!OnlyIn(old, new), x) /\ ~Ic!Holds(Ic!OnlyIn(new, old), x)
    BY <1>3, IcOnlyIn
  <2>2. Ic!Silent(left, x) /\ Ic!Silent(come, x)
    BY <1>1, <2>1, IcAll
  <2> QED  BY <1>2, <2>2, IcAppended
<1>4. ASSUME NEW x, Ic!Joined(new, x), ~Ic!Joined(old, x) PROVE Ic!JoinsLast(left \o come, x)
  <2>1. Ic!Holds(Ic!OnlyIn(new, old), x)
    BY <1>4, IcOnlyIn
  <2>2. Ic!JoinsLast(come, x)
    BY <1>1, <2>1, IcAll
  <2> QED  BY <1>2, <2>2, IcAppended
<1>5. left \o come \in Seq(IcOrder)
  BY <1>2
<1> QED  BY <1>3, <1>4, <1>5 DEF Ic!Changes

IcTypes ==
  /\ IcRecords(iChannels)
  /\ iToServer \in Seq(IcOrder)
  /\ iToClient \in Seq({"joined", "left", "kicked", "refused"} \X Rooms)

IcSound == IcTypes /\ Ic!JoinedTracks

(* What is sent, is sent after the rest. *)
LEMMA IcSend ==
  ASSUME IcTypes, NEW s \in Seq(IcOrder), Ic!Send(s)
  PROVE  /\ iToServer' \in Seq(IcOrder)
         /\ \A x : /\ Ic!logged /\ iMember' = iMember
                   /\ \A what \in {"kicked", "refused"} :
                        <<what, x>> \in Ic!Range(iToClient) => <<what, x>> \in Ic!Range(iToClient')
                   /\ Ic!JoinsLast(s, x) \/ (Ic!Silent(s, x) /\ Ic!Settled(x))
                   => Ic!Settled(x)'
<1>1. iToServer \in Seq(IcOrder)
  BY DEF IcTypes
<1>2. iToServer' = IF Ic!logged THEN iToServer \o s ELSE iToServer
  BY DEF Ic!Send
<1>3. iToServer \o s \in Seq(IcOrder)
  BY <1>1
<1>4. ASSUME NEW x, Ic!logged, iMember' = iMember,
             \A what \in {"kicked", "refused"} :
               <<what, x>> \in Ic!Range(iToClient) => <<what, x>> \in Ic!Range(iToClient'),
             Ic!JoinsLast(s, x) \/ (Ic!Silent(s, x) /\ Ic!Settled(x))
      PROVE  Ic!Settled(x)'
  <2> DEFINE t == iToServer \o s
  <2>1. \/ Ic!JoinsLast(t, x)
        \/ Ic!Silent(t, x) /\ x \in iMember
        \/ \E what \in {"kicked", "refused"} : <<what, x>> \in Ic!Range(iToClient)
    BY <1>1, <1>4, IcAppended DEF Ic!Settled
  <2>2. iToServer' = t
    BY <1>2, <1>4
  <2> HIDE DEF t
  <2> QED  BY <1>4, <2>1, <2>2 DEF Ic!Settled, Ic!JoinsLast, Ic!Silent
<1> QED  BY <1>1, <1>2, <1>3, <1>4

(* setautochannels(): the server is told of what has changed.              *)
LEMMA IcSetautochannels ==
  ASSUME IcSound, NEW new, IcRecords(new), Ic!setautochannels(new), UNCHANGED iLink
  PROVE  IcSound'
<1> DEFINE s == Ic!Changes(iChannels, new)
<1>1. /\ s \in Seq(IcOrder)
      /\ \A x : Ic!Joined(new, x) /\ Ic!Joined(iChannels, x) => Ic!Silent(s, x)
      /\ \A x : Ic!Joined(new, x) /\ ~Ic!Joined(iChannels, x) => Ic!JoinsLast(s, x)
  BY IcChanges DEF IcSound, IcTypes
<1>2. /\ iChannels' = new /\ Ic!Send(s) /\ iMember' = iMember /\ iToClient' = iToClient
      /\ iLink' = iLink
  BY DEF Ic!setautochannels
<1> HIDE DEF s
<1>3. IcTypes'
  BY <1>1, <1>2, IcSend DEF IcSound, IcTypes
<1>4. ASSUME NEW x \in Rooms, Ic!logged, Ic!Joined(new, x) PROVE Ic!Settled(x)'
  <2>1. Ic!Joined(iChannels, x) => Ic!Settled(x)
    BY <1>4 DEF IcSound, Ic!JoinedTracks
  <2> QED  BY <1>1, <1>2, <1>4, <2>1, IcSend DEF IcSound
<1> QED  BY <1>2, <1>3, <1>4 DEF IcSound, Ic!JoinedTracks, Ic!logged

(* A connection that is lost or closed takes everything under way along.   *)
LEMMA IcDisconnected ==
  ASSUME IcSound, NEW l, l # "active", Ic!Disconnected(l), UNCHANGED iChannels
  PROVE  IcSound'
<1>1. ~Ic!logged'
  BY DEF Ic!Disconnected, Ic!logged
<1>2. IcTypes'
  BY EmptySeq DEF Ic!Disconnected, IcSound, IcTypes
<1> QED  BY <1>1, <1>2 DEF IcSound, Ic!JoinedTracks

LEMMA IcStill ==
  ASSUME IcSound, UNCHANGED <<iLink, iChannels, iMember, iToServer, iToClient>>
  PROVE  IcSound'
<1>1. \A x : Ic!Settled(x) => Ic!Settled(x)'
  BY DEF Ic!Settled, Ic!Silent, Ic!JoinsLast
<1> QED  BY <1>1 DEF IcSound, IcTypes, Ic!JoinedTracks, Ic!logged

(* The login, after which the server is told of every channel anew.        *)
LEMMA IcConnected ==
  ASSUME IcSound, Ic!connected, UNCHANGED iChannels
  PROVE  IcSound'
<1>1. CASE iManual = "offline"
  BY <1>1, IcDisconnected DEF Ic!connected, Ic!disconnected
<1>2. CASE iManual # "offline"
  <2> DEFINE at == {i \in DOMAIN iChannels : iChannels[i].joined}
             t == Ic!Those(iChannels, at)
             s == Ic!All("JOIN", t)
  <2>1. iToServer' = s /\ UNCHANGED <<iToClient, iChannels>>
    BY <1>2 DEF Ic!connected
  <2>2. IcRecords(iChannels) /\ at \in SUBSET DOMAIN iChannels
    BY DEF IcSound, IcTypes
  <2> HIDE DEF t, s
  <2>3. IcRecords(t) /\ \A i \in at : \E k \in DOMAIN t : t[k] = iChannels[i]
    BY <2>2, IcSelect DEF t
  <2> HIDE DEF at
  <2>4. s \in Seq(IcOrder) /\ \A x : Ic!Holds(t, x) => Ic!JoinsLast(s, x)
    BY <2>3, IcAll DEF s
  <2>5. ASSUME NEW x \in Rooms, Ic!Joined(iChannels, x) PROVE Ic!Settled(x)'
    <3>1. PICK i \in DOMAIN iChannels : iChannels[i] = [room |-> x, joined |-> TRUE]
      BY <2>5 DEF Ic!Joined, Ic!Range
    <3>2. i \in at
      BY <3>1 DEF at
    <3>3. PICK k \in DOMAIN t : t[k] = iChannels[i]
      BY <2>3, <3>2
    <3>4. Ic!JoinsLast(s, x)
      BY <2>4, <3>1, <3>3 DEF Ic!Holds, Ic!Range
    <3> QED  BY <2>1, <3>4 DEF Ic!Settled, Ic!JoinsLast
  <2> QED  BY <2>1, <2>4, <2>5 DEF IcSound, IcTypes, Ic!JoinedTracks
<1> QED  BY <1>1, <1>2

LEMMA IcStatus ==
  ASSUME IcSound, \/ \E st \in {"available", "offline"} : Ic!setstatus(st)
                  \/ Ic!Reconnect \/ Ic!LoginStep \/ Ic!Lost
  PROVE  IcSound'
<1>1. UNCHANGED iChannels
  BY DEF Ic!setstatus, Ic!Reconnect, Ic!LoginStep, Ic!Lost, Ic!records
<1>2. CASE \E l \in {"off", "synack", "dead"} : Ic!Disconnected(l)
  BY <1>1, <1>2, IcDisconnected
<1>3. CASE Ic!connected
  BY <1>1, <1>3, IcConnected
<1>4. CASE iLink' = "signon" /\ UNCHANGED Ic!wire
  <2>1. IcTypes'
    BY <1>1, <1>4 DEF IcSound, IcTypes, Ic!wire
  <2> QED  BY <1>4, <2>1 DEF IcSound, Ic!JoinedTracks, Ic!logged
<1>5. CASE UNCHANGED <<iLink, Ic!wire>>
  BY <1>1, <1>5, IcStill DEF Ic!wire
<1>6. ASSUME NEW st \in {"available", "offline"}, Ic!setstatus(st) PROVE IcSound'
  BY <1>2, <1>5, <1>6 DEF Ic!setstatus, Ic!disconnect, Ic!disconnected, Ic!connect
<1>7. CASE Ic!Reconnect
  BY <1>2, <1>7 DEF Ic!Reconnect, Ic!disconnect, Ic!disconnected, Ic!connect
<1>8. CASE Ic!LoginStep
  BY <1>3, <1>4, <1>8 DEF Ic!LoginStep
<1>9. CASE Ic!Lost
  BY <1>2, <1>9 DEF Ic!Lost, Ic!disconnect, Ic!disconnected, Ic!connect
<1> QED  BY <1>6, <1>7, <1>8, <1>9

(* The user joins or leaves.                                               *)
LEMMA IcContacts ==
  ASSUME IcSound, NEW r \in Rooms, Ic!joindialog(r) \/ Ic!JoinOrLeave(r) \/ Ic!RemoveContact(r)
  PROVE  IcSound'
<1>1. \/ Ic!setautochannels(Ic!WithUser(iChannels, r))
      \/ Ic!setautochannels(Ic!WithoutUser(iChannels, r))
  BY DEF Ic!joindialog, Ic!JoinOrLeave, Ic!RemoveContact, Ic!Show, Ic!Hide
<1>2. UNCHANGED iLink
  BY DEF Ic!joindialog, Ic!JoinOrLeave, Ic!RemoveContact
<1>3. IcRecords(Ic!WithUser(iChannels, r)) /\ IcRecords(Ic!WithoutUser(iChannels, r))
  BY IcWithUser, IcWithoutUser DEF IcSound, IcTypes
<1> QED  BY <1>1, <1>2, <1>3, IcSetautochannels

LEMMA IcLookup ==
  ASSUME IcSound, NEW r \in Rooms, Ic!lookup(r)
  PROVE  IcSound'
<1> DEFINE s == IF Ic!Joined(iChannels, r) THEN <<>> ELSE <<<<"JOIN", r>>>>
           c == [room |-> r, joined |-> FALSE]
<1>1. s \in Seq(IcOrder) /\ c \in IcChannel /\ c.room = r
  <2>1. <<"JOIN", r>> \in IcOrder
    BY DEF IcOrder
  <2>2. <<>> \in Seq(IcOrder) /\ <<<<"JOIN", r>>>> \in Seq(IcOrder)
    BY <2>1
  <2> QED  BY <2>2 DEF IcChannel
<1>2. \A x : x # r => Ic!Silent(s, x)
  BY DEF Ic!Silent
<1>3. ~Ic!Joined(iChannels, r) => Ic!JoinsLast(s, r)
  BY DEF Ic!JoinsLast
<1>4. Ic!Joined(iChannels, r) => Ic!Silent(s, r)
  BY DEF Ic!Silent
<1>5. /\ Ic!Send(s) /\ UNCHANGED <<iLink, iMember, iToClient>>
      /\ iChannels' = IF Ic!Holds(iChannels, r) THEN iChannels ELSE Append(iChannels, c)
  BY DEF Ic!lookup
<1>6. IcRecords(iChannels)
  BY DEF IcSound, IcTypes
<1> HIDE DEF s
<1>7. /\ IcRecords(iChannels')
      /\ \A x : Ic!Joined(iChannels', x) => Ic!Joined(iChannels, x)
  <2>1. CASE Ic!Holds(iChannels, r)
    BY <1>5, <1>6, <2>1
  <2>2. CASE ~Ic!Holds(iChannels, r)
    <3>1. /\ IcRecords(Append(iChannels, c))
          /\ \A x : Ic!Joined(Append(iChannels, c), x)
                    => Ic!Joined(iChannels, x) \/ c = [room |-> x, joined |-> TRUE]
      BY <1>1, <1>6, <2>2, IcAdded
    <3> QED  BY <1>5, <2>2, <3>1
  <2> QED  BY <2>1, <2>2
<1>8. IcTypes'
  BY <1>1, <1>5, <1>7, IcSend DEF IcSound, IcTypes
<1>9. ASSUME NEW x \in Rooms, Ic!logged, Ic!Joined(iChannels', x) PROVE Ic!Settled(x)'
  <2>1. Ic!Settled(x) /\ Ic!Joined(iChannels, x)
    BY <1>7, <1>9 DEF IcSound, Ic!JoinedTracks
  <2>2. Ic!Silent(s, x)
    BY <1>2, <1>4, <2>1
  <2> QED  BY <1>1, <1>5, <1>9, <2>1, <2>2, IcSend DEF IcSound
<1> QED  BY <1>5, <1>8, <1>9 DEF IcSound, Ic!JoinedTracks, Ic!logged

(* A message more: the others are still under way. *)
LEMMA IcSays ==
  ASSUME IcTypes, NEW what \in {"joined", "left", "kicked", "refused"}, NEW r \in Rooms,
         Ic!Says(what, r)
  PROVE  /\ iToClient' \in Seq({"joined", "left", "kicked", "refused"} \X Rooms)
         /\ Ic!Range(iToClient) \subseteq Ic!Range(iToClient')
         /\ <<what, r>> \in Ic!Range(iToClient')
<1> DEFINE S == {"joined", "left", "kicked", "refused"} \X Rooms
           new == Append(iToClient, <<what, r>>)
<1>1. iToClient \in Seq(S) /\ <<what, r>> \in S
  BY DEF IcTypes
<1> HIDE DEF S
<1>2. /\ new \in Seq(S) /\ DOMAIN new = 1..(Len(iToClient) + 1) /\ Len(iToClient) \in Nat
      /\ DOMAIN iToClient = 1..Len(iToClient)
      /\ \A i \in 1..Len(iToClient) : new[i] = iToClient[i]
      /\ new[Len(iToClient) + 1] = <<what, r>>
  BY <1>1
<1>3. iToClient' = new
  BY DEF Ic!Says
<1> HIDE DEF new
<1>4. Ic!Range(iToClient) \subseteq Ic!Range(new) /\ <<what, r>> \in Ic!Range(new)
  BY <1>2 DEF Ic!Range
<1> QED  BY <1>2, <1>3, <1>4 DEF S

LEMMA IcKick ==
  ASSUME IcSound, NEW r \in Rooms, Ic!Kick(r)
  PROVE  IcSound'
<1>1. /\ Ic!Says("kicked", r) /\ iMember' = iMember \ {r}
      /\ UNCHANGED <<iLink, iChannels, iToServer>>
  BY DEF Ic!Kick, Ic!records
<1>2. /\ iToClient' \in Seq({"joined", "left", "kicked", "refused"} \X Rooms)
      /\ Ic!Range(iToClient) \subseteq Ic!Range(iToClient')
      /\ <<"kicked", r>> \in Ic!Range(iToClient')
  BY <1>1, IcSays DEF IcSound
<1>3. \A x : Ic!Settled(x) => Ic!Settled(x)'
  BY <1>1, <1>2 DEF Ic!Settled, Ic!Silent, Ic!JoinsLast
<1> QED  BY <1>1, <1>2, <1>3 DEF IcSound, IcTypes, Ic!JoinedTracks, Ic!logged

(* The server reads one command: the last word about a room stays it, or   *)
(* has been carried out or refused.                                        *)
LEMMA IcServerTakes ==
  ASSUME IcSound, Ic!ServerTakes
  PROVE  IcSound'
<1> DEFINE q == iToServer
           r == q[1][2]
           T == {"joined", "left", "kicked", "refused"} \X Rooms
<1>1. /\ q \in Seq(IcOrder) /\ q # <<>> /\ Len(q) \in Nat /\ DOMAIN q = 1..Len(q) /\ 1 \in DOMAIN q
      /\ q[1] \in IcOrder
      /\ Tail(q) \in Seq(IcOrder) /\ DOMAIN Tail(q) = 1..(Len(q) - 1)
      /\ \A i \in 1..(Len(q) - 1) : Tail(q)[i] = q[i + 1]
      /\ Head(q) = q[1]
  <2>1. q \in Seq(IcOrder) /\ q # <<>>
    BY DEF IcSound, IcTypes, Ic!ServerTakes
  <2> QED  BY <2>1
<1>2. r \in Rooms /\ q[1] = <<q[1][1], r>>
  BY <1>1 DEF IcOrder
<1>3. /\ iToServer' = Tail(q) /\ UNCHANGED <<iLink, iChannels>>
      /\ IF q[1][1] = "JOIN" THEN Ic!TakesJoin(r) ELSE Ic!TakesPart(r)
  BY <1>1 DEF Ic!ServerTakes, Ic!records
<1>4. /\ iToClient' \in Seq(T)
      /\ Ic!Range(iToClient) \subseteq Ic!Range(iToClient')
      /\ \A x : x # r => (x \in iMember <=> x \in iMember')
      /\ q[1][1] = "JOIN" => r \in iMember' \/ <<"refused", r>> \in Ic!Range(iToClient')
  BY <1>2, <1>3, IcSays DEF Ic!TakesJoin, Ic!TakesPart, IcSound, IcTypes
<1>5. ASSUME NEW x, Ic!Settled(x) PROVE Ic!Settled(x)'
  <2>1. CASE Ic!Silent(q, x) /\ x \in iMember
    <3>1. x # r /\ Ic!Silent(Tail(q), x)
      BY <1>1, <2>1 DEF Ic!Silent
    <3> QED  BY <1>3, <1>4, <2>1, <3>1 DEF Ic!Settled, Ic!Silent
  <2>2. CASE Ic!JoinsLast(q, x)
    <3>1. PICK i \in 1..Len(q) : q[i] = <<"JOIN", x>> /\ \A j \in 1..Len(q) : j > i => q[j][2] # x
      BY <1>1, <2>2 DEF Ic!JoinsLast
    <3>2. CASE i = 1
      <4>1. Ic!Silent(Tail(q), x)
        BY <1>1, <3>1, <3>2 DEF Ic!Silent
      <4>2. x = r /\ q[1][1] = "JOIN"
        BY <1>1, <3>1, <3>2
      <4> QED  BY <1>3, <1>4, <4>1, <4>2 DEF Ic!Settled, Ic!Silent
    <3>3. CASE i # 1
      <4>1. i - 1 \in DOMAIN Tail(q) /\ Tail(q)[i - 1] = <<"JOIN", x>>
        BY <1>1, <3>1, <3>3
      <4>2. \A j \in DOMAIN Tail(q) : j > i - 1 => Tail(q)[j][2] # x
        BY <1>1, <3>1
      <4>3. Ic!JoinsLast(Tail(q), x)
        BY <4>1, <4>2 DEF Ic!JoinsLast
      <4> QED  BY <1>3, <4>3 DEF Ic!Settled, Ic!JoinsLast
    <3> QED  BY <3>2, <3>3
  <2>3. CASE \E what \in {"kicked", "refused"} : <<what, x>> \in Ic!Range(iToClient)
    BY <1>4, <2>3 DEF Ic!Settled
  <2> QED  BY <1>5, <2>1, <2>2, <2>3 DEF Ic!Settled
<1>6. IcTypes'
  BY <1>1, <1>3, <1>4 DEF IcSound, IcTypes
<1> QED  BY <1>3, <1>5, <1>6 DEF IcSound, Ic!JoinedTracks, Ic!logged

(* A record, if there is one at the place, that is not joined any more. *)
LEMMA IcUnjoin ==
  ASSUME NEW chs, IcRecords(chs), NEW k
  PROVE  LET t == Ic!Unjoin(chs, k)
         IN  /\ IcRecords(t)
             /\ \A x : Ic!Joined(t, x) => Ic!Joined(chs, x)
             /\ \A x : k \in DOMAIN chs /\ chs[k].room = x => ~Ic!Joined(t, x)
<1> DEFINE e == [chs EXCEPT ![k].joined = FALSE]
<1>1. chs \in Seq(IcChannel) /\ DOMAIN chs = 1..Len(chs)
  BY DEF IcRecords
<1>2. CASE k \notin DOMAIN chs
  BY <1>2 DEF Ic!Unjoin
<1>3. CASE k \in DOMAIN chs
  <2>0. chs[k] \in IcChannel
    BY <1>1, <1>3, ElementOfSeq
  <2> DEFINE c == [chs[k] EXCEPT !.joined = FALSE]
  <2>1. c \in IcChannel /\ c.joined = FALSE /\ c.room = chs[k].room
    BY <2>0 DEF IcChannel
  <2>2. e = [chs EXCEPT ![k] = c]
    OBVIOUS
  <2> HIDE DEF c, e
  <2>3. /\ e \in Seq(IcChannel) /\ DOMAIN e = DOMAIN chs
        /\ e[k] = c /\ \A i \in DOMAIN chs : i # k => e[i] = chs[i]
    BY <1>1, <1>3, <2>1, <2>2
  <2>4. \A i \in DOMAIN chs : e[i].room = chs[i].room
    BY <2>1, <2>3
  <2>5. IcRecords(e)
    BY <2>3, <2>4 DEF IcRecords
  <2>6. ASSUME NEW x, Ic!Joined(e, x) PROVE Ic!Joined(chs, x) /\ chs[k].room # x
    <3>1. PICK i \in DOMAIN e : e[i] = [room |-> x, joined |-> TRUE]
      BY <2>6 DEF Ic!Joined, Ic!Range
    <3>2. i # k
      BY <2>1, <2>3, <3>1
    <3>3. chs[i] = [room |-> x, joined |-> TRUE] /\ i \in DOMAIN chs
      BY <2>3, <3>1, <3>2
    <3>4. chs[k].room # x
      BY <1>3, <3>2, <3>3 DEF IcRecords
    <3> QED  BY <3>3, <3>4 DEF Ic!Joined, Ic!Range
  <2> QED  BY <1>3, <2>5, <2>6 DEF Ic!Unjoin, e
<1> QED  BY <1>2, <1>3

(* A channel that has been closed is not held for joined afterwards, or it *)
(* is joined again.                                                        *)
LEMMA IcFatal ==
  ASSUME IcSound, NEW r \in Rooms, Ic!channelfatal(r), UNCHANGED <<iLink, iMember>>,
         iToClient' \in Seq({"joined", "left", "kicked", "refused"} \X Rooms),
         \A x, what : /\ x # r /\ what \in {"kicked", "refused"}
                      /\ <<what, x>> \in Ic!Range(iToClient)
                      => <<what, x>> \in Ic!Range(iToClient')
  PROVE  IcSound'
<1>1. IcRecords(iChannels)
  BY DEF IcSound, IcTypes
<1>2. CASE ~Ic!Holds(iChannels, r)
  <2>1. UNCHANGED <<iChannels, iToServer>>
    BY <1>2 DEF Ic!channelfatal, Ic!records
  <2>2. ~Ic!Joined(iChannels, r)
    BY <1>2 DEF Ic!Joined, Ic!Holds, Ic!Range
  <2>3. \A x : x # r /\ Ic!Settled(x) => Ic!Settled(x)'
    BY <2>1 DEF Ic!Settled, Ic!Silent, Ic!JoinsLast
  <2> QED  BY <2>1, <2>2, <2>3 DEF IcSound, IcTypes, Ic!JoinedTracks, Ic!logged
<1>3. CASE Ic!Holds(iChannels, r)
  <2> DEFINE new == IF iListed[r] = "absent" THEN Ic!WithUser(iChannels, r)
                    ELSE IF r \in iShown THEN Ic!WithoutUser(iChannels, r)
                    ELSE iChannels
             k == Ic!Place(iChannels, r)
             s == Ic!Changes(iChannels, new)
  <2>1. /\ iChannels' = Ic!Unjoin(new, k) /\ Ic!Send(s)
    BY <1>3 DEF Ic!channelfatal
  <2>2. IcRecords(new) /\ (Ic!hookonline => \/ new = iChannels
                                           \/ ~Ic!Joined(iChannels, r)
                                           \/ ~Ic!Joined(new, r))
    BY <1>1, IcWithUser, IcWithoutUser
  <2>3. k \in DOMAIN iChannels /\ iChannels[k].room = r
    BY <1>3 DEF Ic!Holds, Ic!Range, Ic!Place
  <2> HIDE DEF new, k
  <2>4. /\ s \in Seq(IcOrder)
        /\ \A x : Ic!Joined(new, x) /\ Ic!Joined(iChannels, x) => Ic!Silent(s, x)
        /\ \A x : Ic!Joined(new, x) /\ ~Ic!Joined(iChannels, x) => Ic!JoinsLast(s, x)
    BY <1>1, <2>2, IcChanges
  <2>5. /\ IcRecords(iChannels')
        /\ \A x : Ic!Joined(iChannels', x) => Ic!Joined(new, x)
        /\ new = iChannels => ~Ic!Joined(iChannels', r)
    BY <2>1, <2>2, <2>3, IcUnjoin
  <2> HIDE DEF s
  <2>6. IcTypes'
    BY <2>1, <2>4, <2>5, IcSend DEF IcSound, IcTypes
  <2>7. iToServer \in Seq(IcOrder) /\ (Ic!logged => iToServer' = iToServer \o s)
    BY <2>1 DEF Ic!Send, IcSound, IcTypes
  <2>8. ASSUME NEW x \in Rooms, Ic!logged, Ic!Joined(iChannels', x) PROVE Ic!Settled(x)'
    <3>1. Ic!Joined(new, x)
      BY <2>5, <2>8
    <3>2. CASE ~Ic!Joined(iChannels, x)
      <4>1. Ic!JoinsLast(iToServer \o s, x)
        BY <2>4, <2>7, <3>1, <3>2, IcAppended
      <4> QED  BY <2>7, <2>8, <4>1 DEF Ic!Settled, Ic!JoinsLast
    <3>3. CASE Ic!Joined(iChannels, x)
      <4>1. x # r
        BY <2>2, <2>5, <2>8, <3>1, <3>3 DEF Ic!logged, Ic!hookonline
      <4>2. Ic!Settled(x) /\ Ic!Silent(s, x)
        BY <2>4, <2>8, <3>1, <3>3 DEF IcSound, Ic!JoinedTracks
      <4> QED  BY <2>1, <2>4, <2>8, <4>1, <4>2, IcSend DEF IcSound
    <3> QED  BY <3>2, <3>3
  <2> QED  BY <2>6, <2>8 DEF IcSound, Ic!JoinedTracks, Ic!logged
<1> QED  BY <1>2, <1>3

LEMMA IcMain ==
  ASSUME IcSound, Ic!main
  PROVE  IcSound'
<1> DEFINE q == iToClient
           T == {"joined", "left", "kicked", "refused"} \X Rooms
           r == q[1][2]
<1>1. /\ q \in Seq(T) /\ q # <<>> /\ Len(q) \in Nat /\ DOMAIN q = 1..Len(q) /\ q[1] \in T
      /\ Tail(q) \in Seq(T) /\ DOMAIN Tail(q) = 1..(Len(q) - 1)
      /\ \A i \in 1..(Len(q) - 1) : Tail(q)[i] = q[i + 1]
      /\ Head(q) = q[1]
  <2>1. q \in Seq(T) /\ q # <<>>
    BY DEF IcSound, IcTypes, Ic!main
  <2> QED  BY <2>1
<1>2. r \in Rooms /\ q[1] = <<q[1][1], r>> /\ q[1][1] \in {"joined", "left", "kicked", "refused"}
  BY <1>1
<1>3. iToClient' = Tail(q) /\ UNCHANGED <<iLink, iMember>>
  BY DEF Ic!main
<1>4. ASSUME NEW w \in Ic!Range(q), w # q[1] PROVE w \in Ic!Range(iToClient')
  <2>1. PICK i \in 1..Len(q) : q[i] = w
    BY <1>1 DEF Ic!Range
  <2>2. i - 1 \in DOMAIN Tail(q) /\ Tail(q)[i - 1] = w
    BY <1>1, <1>4, <2>1
  <2> QED  BY <1>3, <2>2 DEF Ic!Range
<1>5. CASE q[1][1] \in {"joined", "left"}
  <2>1. UNCHANGED <<iChannels, iToServer>>
    BY <1>1, <1>5 DEF Ic!main, Ic!chatjoined, Ic!chatleft, Ic!records
  <2>2. ASSUME NEW x, NEW what \in {"kicked", "refused"}, <<what, x>> \in Ic!Range(q)
        PROVE  <<what, x>> \in Ic!Range(iToClient')
    <3>1. <<what, x>> # q[1]
      BY <1>2, <1>5, <2>2
    <3> QED  BY <1>4, <2>2, <3>1
  <2>3. \A x : Ic!Settled(x) => Ic!Settled(x)'
    BY <1>3, <2>1, <2>2 DEF Ic!Settled, Ic!Silent, Ic!JoinsLast
  <2> QED  BY <1>1, <1>3, <2>1, <2>3 DEF IcSound, IcTypes, Ic!JoinedTracks, Ic!logged
<1>6. CASE q[1][1] \in {"kicked", "refused"}
  <2>1. Ic!channelfatal(r)
    BY <1>1, <1>6 DEF Ic!main
  <2>2. ASSUME NEW x, NEW what, x # r, <<what, x>> \in Ic!Range(q)
        PROVE  <<what, x>> \in Ic!Range(iToClient')
    <3>1. <<what, x>> # q[1]
      BY <1>2, <2>2
    <3> QED  BY <1>4, <2>2, <3>1
  <2> QED  BY <1>1, <1>2, <1>3, <2>1, <2>2, IcFatal
<1> QED  BY <1>2, <1>5, <1>6

LEMMA IcInit == ASSUME Ic!Init PROVE IcSound
<1>1. PICK old \in SUBSET Rooms :
        /\ IsFiniteSet(old)
        /\ iChannels \in Ic!SetToSeqs({[room |-> r, joined |-> TRUE] : r \in old})
  BY IcCardinality DEF Ic!Init
<1> DEFINE of == {[room |-> r, joined |-> TRUE] : r \in old}
           f == [r \in old |-> [room |-> r, joined |-> TRUE]]
<1>2. f \in Surjection(old, of)
  BY DEF Surjection
<1>3. Cardinality(of) \in Nat
  BY <1>1, <1>2, FS_Surjection, FS_CardinalityType
<1>4. /\ iChannels \in [1..Cardinality(of) -> of]
      /\ \A i, j \in 1..Cardinality(of) : i # j => iChannels[i] # iChannels[j]
  BY <1>1, IcCardinality DEF Ic!SetToSeqs
<1>5. ASSUME NEW c \in of PROVE c \in IcChannel /\ c = [room |-> c.room, joined |-> TRUE]
  <2>1. PICK r \in old : c = [room |-> r, joined |-> TRUE]
    OBVIOUS
  <2> QED  BY <2>1 DEF IcChannel
<1> HIDE DEF of
<1>6. iChannels \in Seq(IcChannel) /\ DOMAIN iChannels = 1..Cardinality(of)
  BY <1>3, <1>4, <1>5
<1>7. ASSUME NEW i \in DOMAIN iChannels, NEW j \in DOMAIN iChannels,
             iChannels[i].room = iChannels[j].room
      PROVE  i = j
  <2>1. iChannels[i] \in of /\ iChannels[j] \in of
    BY <1>4
  <2>2. iChannels[i] = iChannels[j]
    BY <1>5, <1>7, <2>1
  <2> QED  BY <1>4, <1>6, <2>2
<1>8. IcRecords(iChannels)
  BY <1>6, <1>7 DEF IcRecords
<1> QED  BY <1>8, EmptySeq DEF Ic!Init, IcSound, IcTypes, Ic!JoinedTracks, Ic!logged

LEMMA IcSoundNext ==
  ASSUME IcSound, [Ic!Next]_iVars PROVE IcSound'
<1>1. CASE UNCHANGED iVars
  BY <1>1, IcStill DEF iVars
<1>2. CASE Ic!Next
  BY <1>2, IcStatus, IcContacts, IcLookup, IcKick, IcServerTakes, IcMain DEF Ic!Next
<1> QED  BY <1>1, <1>2

LEMMA IcSounds == PartSpec => []IcSound
<1>1. PartInit => IcSound
  BY IcInit DEF PartInit
<1>2. IcSound /\ [PartNext]_<<part, vars, jVars, gVars, iVars, qVars>> => IcSound'
  BY IcSoundNext DEF PartNext
<1> QED  BY <1>1, <1>2, PTL DEF PartSpec

(* The rest of the types. *)
IcRest ==
  /\ iManual \in {"available", "offline"}
  /\ iLink \in {"off", "synack", "signon", "active", "dead"}
  /\ iSearched \subseteq Rooms
  /\ iListed \in [Rooms -> {"absent", "stranger", "inlist"}]
  /\ iShown \subseteq {r \in Rooms : iListed[r] # "absent"}
  /\ iMember \subseteq Rooms
  /\ Len(iToClient) <= MaxMail

LEMMA IcRestNext ==
  ASSUME MaxMail \in Nat, IcSound, IcRest, [Ic!Next]_iVars PROVE IcRest'
<1> USE DEF IcRest, Ic!records, Ic!wire
<1>1. ASSUME NEW l \in {"off", "synack", "dead"}, Ic!Disconnected(l),
             UNCHANGED <<iSearched, iListed>>, iShown' \in {iShown, {}},
             iManual' \in {"available", "offline"}
      PROVE  IcRest'
  BY <1>1 DEF Ic!Disconnected
<1>2. ASSUME NEW st \in {"available", "offline"}, Ic!setstatus(st) PROVE IcRest'
  <2>1. CASE UNCHANGED <<iLink, iMember, iToServer, iToClient, iShown>>
    BY <1>2, <2>1 DEF Ic!setstatus
  <2> QED
    BY <1>1, <1>2, <2>1 DEF Ic!setstatus, Ic!disconnect, Ic!disconnected, Ic!connect
<1>3. CASE Ic!Reconnect \/ Ic!Lost
  BY <1>1, <1>3 DEF Ic!Reconnect, Ic!Lost, Ic!disconnect, Ic!disconnected, Ic!connect
<1>4. CASE Ic!LoginStep
  <2>1. CASE iLink' \in {"signon", "active"} /\ UNCHANGED <<iMember, iToClient, iShown>>
    BY <1>4, <2>1 DEF Ic!LoginStep
  <2> QED  BY <1>1, <1>4, <2>1 DEF Ic!LoginStep, Ic!connected, Ic!disconnected
<1>5. ASSUME NEW r \in Rooms, Ic!joindialog(r) \/ Ic!JoinOrLeave(r) \/ Ic!RemoveContact(r)
      PROVE  IcRest'
  <2>1. UNCHANGED <<iManual, iLink, iSearched, iMember, iToClient>>
    BY <1>5 DEF Ic!joindialog, Ic!JoinOrLeave, Ic!RemoveContact, Ic!Show, Ic!Hide,
       Ic!setautochannels
  <2> QED  BY <1>5, <2>1 DEF Ic!joindialog, Ic!JoinOrLeave, Ic!RemoveContact, Ic!Show, Ic!Hide
<1>6. ASSUME NEW r \in Rooms, Ic!lookup(r) PROVE IcRest'
  BY <1>6 DEF Ic!lookup, Ic!contacts
<1>7. ASSUME NEW r \in Rooms, Ic!Kick(r) PROVE IcRest'
  BY <1>7 DEF Ic!Kick, Ic!Says, Ic!contacts
<1>8. CASE Ic!ServerTakes
  <2>1. Head(iToServer)[2] \in Rooms
    <3>1. iToServer \in Seq(IcOrder) /\ iToServer # <<>>
      BY <1>8 DEF Ic!ServerTakes, IcSound, IcTypes
    <3>2. Head(iToServer) \in IcOrder
      BY <3>1
    <3> QED  BY <3>2 DEF IcOrder
  <2> QED
    BY <1>8, <2>1 DEF Ic!ServerTakes, Ic!TakesJoin, Ic!TakesPart, Ic!Says, Ic!contacts
<1>9. CASE Ic!main
  <2> DEFINE r == Head(iToClient)[2]
  <2>1. /\ iToClient \in Seq({"joined", "left", "kicked", "refused"} \X Rooms) /\ iToClient # <<>>
        /\ iToClient' = Tail(iToClient) /\ UNCHANGED <<iManual, iLink, iMember>>
    BY <1>9 DEF Ic!main, IcSound, IcTypes
  <2>2. /\ Head(iToClient)[1] \in {"joined", "left", "kicked", "refused"} /\ r \in Rooms
        /\ Len(iToClient) \in Nat /\ Len(iToClient') = Len(iToClient) - 1
    BY <2>1
  <2>3. Len(iToClient') <= MaxMail
    BY <2>2
  <2>4. Ic!chatjoined(r) \/ Ic!chatleft(r) \/ Ic!channelfatal(r)
    BY <1>9, <2>2 DEF Ic!main
  <2>5. /\ iSearched' = iSearched
        /\ iListed' \in [Rooms -> {"absent", "stranger", "inlist"}]
        /\ iShown' \subseteq {x \in Rooms : iListed'[x] # "absent"}
    BY <2>2, <2>4 DEF Ic!chatjoined, Ic!chatleft, Ic!channelfatal, Ic!contacts
  <2> QED  BY <2>1, <2>3, <2>5
<1>10. CASE UNCHANGED iVars
  BY <1>10 DEF iVars
<1> QED  BY <1>2, <1>3, <1>4, <1>5, <1>6, <1>7, <1>8, <1>9, <1>10 DEF Ic!Next

(* Every variable of the irc hook keeps its type: no room has two records, *)
(* which setautochannels() would join or leave twice, and only contacts    *)
(* are shown.                                                              *)
THEOREM IrcTypeCorrect == ASSUME MaxMail \in Nat PROVE PartSpec => []Ic!TypeOK
<1>1. PartInit => IcSound /\ IcRest
  <2>1. ASSUME Ic!Init PROVE IcRest
    BY <2>1 DEF Ic!Init, IcRest
  <2> QED  BY <2>1, IcInit DEF PartInit
<1>2. IcSound /\ IcRest /\ [PartNext]_<<part, vars, jVars, gVars, iVars, qVars>>
      => (IcSound /\ IcRest)'
  BY IcSoundNext, IcRestNext DEF PartNext
<1>3. IcSound /\ IcRest => Ic!TypeOK
  BY DEF IcSound, IcTypes, IcRecords, IcChannel, IcOrder, IcRest, Ic!TypeOK
<1> QED  BY <1>1, <1>2, <1>3, PTL DEF PartSpec

(* While the irc hook is logged in, the server has the user in every       *)
(* channel whose record says joined as soon as it has read the commands    *)
(* under way, or word is on its way that it has not: no order of joins,    *)
(* leaves, searches, kicks, refusals and reconnections makes the records   *)
(* of setautochannels() and channelfatal() wrong for good (irchook.cc).    *)
THEOREM ChannelsAreJoined == PartSpec => []JoinedTracks
BY IcSounds, PTL DEF IcSound, JoinedTracks

-----------------------------------------------------------------------------
(* A hook that the user has set offline ends up offline, although a login  *)
(* may be under way, and may even be answered, when he does: the three     *)
(* hooks look at manualstatus again when they are told of the login.       *)
THEOREM HooksOfflineMeansOff == ASSUME LjConstants PROVE PartSpec => []OfflineMeansOff
<1>1. LjSound /\ GgSound /\ IcOff => OfflineMeansOff
  BY DEF LjSound, GgSound, IcOff, OfflineMeansOff
<1> QED  BY <1>1, LjParts, GgParts, IcParts, PTL
=============================================================================
