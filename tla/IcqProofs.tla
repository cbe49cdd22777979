------------------------------ MODULE IcqProofs ------------------------------
(* Proofs about the Icq of MCSending: what its server knows of the user's  *)
(* visibility, and of his contact list.                                    *)
EXTENDS MCSending, FiniteSetTheorems, FunctionTheorems,
  SequenceTheorems, WellFoundedInduction, TLAPS

(* The contact list is finite, and everybody in it is in a group. *)
IqConstants == IsFiniteSet(Buddies) /\ GroupOf \in [Buddies -> Groups]

-----------------------------------------------------------------------------
Packets ==
  [type : {"visible", "invisible"}, people : SUBSET Shy]
  \cup [type : {"status"}, status : Iq!Choosable] \cup [type : {"list"}]
  \cup [type : {"edit"}, edit : Iq!Snacs]
Answers ==
  [type : {"info"}, status : Iq!Choosable] \cup [type : {"ack"}, ok : BOOLEAN]
  \cup [type : {"list"}, people : SUBSET Buddies, groups : SUBSET Groups]

Clients == [state : {"none", "auth", "bos", "in"}, wanted : Iq!Choosable,
            self : Iq!Choosable, mute : BOOLEAN]
Servers == [status : Iq!Choosable, privacy : Iq!Privacy, kept : SUBSET Buddies,
            groups : SUBSET Groups]
Sbls == [edits : Seq(Iq!Edits), snacs : Seq(Iq!Snacs), inedit : BOOLEAN, canedit : BOOLEAN,
         known : SUBSET Buddies, groups : SUBSET Groups]

IqTypes ==
  /\ qManual \in Iq!Choosable
  /\ qClient \in Clients /\ qServer \in Servers
  /\ qListed \subseteq Buddies /\ qTosend \subseteq Buddies
  /\ qTree \in [people : SUBSET Buddies, groups : SUBSET Groups]
  /\ qSbl \in Sbls /\ qVislist \subseteq Iq!Marks /\ qLst \subseteq Iq!Marks
  /\ qToServer \in Seq(Packets) /\ qToClient \in Seq(Answers)
  /\ qAstray \subseteq Buddies /\ qUntold \in BOOLEAN

(* Nothing is under way while the user is not logged in. *)
QuietOut ==
  ~Iq!LoggedIn =>
    qToServer = <<>> /\ qToClient = <<>> /\ ~qSbl.canedit /\ qServer.status = "offline"

-----------------------------------------------------------------------------
(* Visibility. *)
IsStatus(p) == p.type = "status"
IsList(p) == p.type \in {"visible", "invisible"}
IsInfo(p) == p.type = "info"

(* The status the client wants is the last that was sent, or the server    *)
(* shows it; the last the server confirmed is the one it shows.            *)
Follows(cl, sv, ts, tc) ==
  /\ cl.state = "in" /\ (\A i \in DOMAIN ts : ~IsStatus(ts[i])) => sv.status = cl.wanted
  /\ \A i \in DOMAIN ts :
       IsStatus(ts[i]) /\ (\A j \in DOMAIN ts : j > i => ~IsStatus(ts[j])) =>
         ts[i].status = cl.wanted
  /\ \A i \in DOMAIN tc :
       IsInfo(tc[i]) /\ (\A j \in DOMAIN tc : j > i => ~IsInfo(tc[j])) =>
         tc[i].status = sv.status
  /\ (\A i \in DOMAIN tc : ~IsInfo(tc[i])) => cl.self = sv.status

(* One status at most has not been confirmed. *)
OneAsked(ts, tc) ==
  /\ \A i, j \in DOMAIN ts : IsStatus(ts[i]) /\ IsStatus(ts[j]) => i = j
  /\ \A i, j \in DOMAIN tc : IsInfo(tc[i]) /\ IsInfo(tc[j]) => i = j
  /\ \A i \in DOMAIN ts, j \in DOMAIN tc : ~(IsStatus(ts[i]) /\ IsInfo(tc[j]))

(* The list that goes with a status. *)
How(st) == IF st = "invisible" THEN "visible" ELSE "invisible"
Right(st, vl) == [list |-> How(st), people |-> Iq!Marked(How(st), vl)]

(* The last list the server will be sent, or has, is the one that goes     *)
(* with the status wanted, and for an invisible user it gets there first.  *)
ListFirst(cl, sv, ts, vl) ==
  /\ (\A k \in DOMAIN ts : ~IsList(ts[k])) => sv.privacy = Right(cl.wanted, vl)
  /\ \A k \in DOMAIN ts :
       IsList(ts[k]) /\ (\A j \in DOMAIN ts : j > k => ~IsList(ts[j])) =>
         [list |-> ts[k].type, people |-> ts[k].people] = Right(cl.wanted, vl)
  /\ cl.wanted = "invisible" =>
       \A k \in DOMAIN ts : IsList(ts[k]) => \E i \in DOMAIN ts : i > k /\ IsStatus(ts[i])
  /\ cl.wanted = "invisible" /\ sv.status = "invisible" => \A k \in DOMAIN ts : ~IsList(ts[k])

Visible(cl, sv, ts, tc, vl, un) ==
  /\ Follows(cl, sv, ts, tc)
  /\ cl.state = "in" /\ ~un => OneAsked(ts, tc) /\ ListFirst(cl, sv, ts, vl)

VisibilitySound == Visible(qClient, qServer, qToServer, qToClient, qVislist, qUntold)

-----------------------------------------------------------------------------
(* The contact list.                                                       *)
IsEdit(p) == p.type = "edit"
IsAck(p) == p.type = "ack"
IsRequest(p) == p.type = "list"

EditSent(ts) == \E i \in DOMAIN ts : IsEdit(ts[i])
Acked(tc) == \E i \in DOMAIN tc : IsAck(tc[i])
Accepted(tc) == \E i \in DOMAIN tc : IsAck(tc[i]) /\ tc[i].ok

(* One request for the list is made, before any edit; one edit at most is  *)
(* under way, the first of the packets, and what the client knows of the   *)
(* server's list lags behind it by an edit that was accepted.              *)
Requested(sb, sv, ts, tc) ==
  /\ \A i, j \in DOMAIN ts : IsRequest(ts[i]) /\ IsRequest(ts[j]) => i = j
  /\ \A i, j \in DOMAIN tc : IsRequest(tc[i]) /\ IsRequest(tc[j]) => i = j
  /\ \A i \in DOMAIN ts, j \in DOMAIN tc : ~(IsRequest(ts[i]) /\ IsRequest(tc[j]))
  /\ \A i \in DOMAIN ts : IsRequest(ts[i]) => ~sb.canedit
  /\ \A j \in DOMAIN tc : IsRequest(tc[j]) => ~sb.canedit /\ tc[j].people = sv.kept
OneEdit(sb, ts, tc) ==
  /\ sb.inedit => sb.snacs # <<>>
  /\ \A i \in DOMAIN sb.snacs : i > 1 => sb.snacs[i].op = "update"
  /\ sb.canedit /\ ~sb.inedit => sb.edits = <<>>
  /\ EditSent(ts) \/ Acked(tc) => sb.canedit /\ sb.inedit
  /\ ~(EditSent(ts) /\ Acked(tc))
  /\ \A i, j \in DOMAIN ts : IsEdit(ts[i]) /\ IsEdit(ts[j]) => i = j
  /\ \A i, j \in DOMAIN tc : IsAck(tc[i]) /\ IsAck(tc[j]) => i = j
  /\ \A i \in DOMAIN ts : IsEdit(ts[i]) => ts[i].edit = Head(sb.snacs)
Known(on, sb, sv, tc) ==
  /\ on /\ ~sb.canedit => sb.known = {}
  /\ sb.canedit /\ ~Accepted(tc) => sb.known = sv.kept
  /\ Accepted(tc) => sv.kept = Iq!Applied(sb, Head(sb.snacs)).known

Concerns(e, c) == e.op \in {"add", "remove"} /\ e.who = c
Out(sb, ts, tc) == IF EditSent(ts) \/ Acked(tc) THEN {Head(sb.snacs)} ELSE {}

(* The last edit of everybody, of those that wait in ed or are in out, is  *)
(* what the user did last; without one, the server's list kp is the        *)
(* client's tr, but for those who are astray.                              *)
Agree(ed, out, tr, kp, as, can) ==
  /\ \A c \in Buddies, i \in DOMAIN ed :
       Concerns(ed[i], c) /\ (\A j \in DOMAIN ed : j > i => ~Concerns(ed[j], c)) =>
         (ed[i].op = "add" <=> c \in tr)
  /\ \A c \in Buddies, e \in out :
       Concerns(e, c) /\ (\A j \in DOMAIN ed : ~Concerns(ed[j], c)) =>
         (e.op = "add" <=> c \in tr)
  /\ can => \A c \in Buddies \ as :
       (\A j \in DOMAIN ed : ~Concerns(ed[j], c)) /\ (\A e \in out : ~Concerns(e, c)) =>
         (c \in tr <=> c \in kp)

Listed(on, sb, tr, sv, as, ts, tc) ==
  /\ Requested(sb, sv, ts, tc) /\ OneEdit(sb, ts, tc) /\ Known(on, sb, sv, tc)
  /\ on => Agree(sb.edits, Out(sb, ts, tc), tr.people, sv.kept, as, sb.canedit)

ListSound == Listed(Iq!LoggedIn, qSbl, qTree, qServer, qAstray, qToServer, qToClient)

IqSound == IqTypes /\ QuietOut /\ VisibilitySound /\ ListSound

-----------------------------------------------------------------------------
(* Sequences. *)
LEMMA Joined ==
  ASSUME NEW S, NEW s \in Seq(S), NEW t \in Seq(S)
  PROVE  /\ s \o t \in Seq(S) /\ Len(s \o t) = Len(s) + Len(t)
         /\ Len(s) \in Nat /\ Len(t) \in Nat
         /\ DOMAIN s = 1 .. Len(s) /\ DOMAIN t = 1 .. Len(t)
         /\ DOMAIN (s \o t) = 1 .. (Len(s) + Len(t))
         /\ \A i \in DOMAIN s : i \in DOMAIN (s \o t) /\ (s \o t)[i] = s[i]
         /\ \A i \in DOMAIN t :
              Len(s) + i \in DOMAIN (s \o t) /\ (s \o t)[Len(s) + i] = t[i]
         /\ \A k \in DOMAIN (s \o t) :
              k \in DOMAIN s \/ (k - Len(s) \in DOMAIN t /\ (s \o t)[k] = t[k - Len(s)])
OBVIOUS

LEMMA Popped ==
  ASSUME NEW S, NEW s \in Seq(S), s # <<>>
  PROVE  /\ Tail(s) \in Seq(S) /\ Head(s) \in S /\ Head(s) = s[1]
         /\ Len(s) \in Nat /\ Len(s) > 0
         /\ Len(Tail(s)) = Len(s) - 1 /\ DOMAIN s = 1 .. Len(s)
         /\ DOMAIN Tail(s) = 1 .. (Len(s) - 1)
         /\ \A i \in DOMAIN Tail(s) : i + 1 \in DOMAIN s /\ Tail(s)[i] = s[i + 1]
         /\ \A k \in DOMAIN s : k = 1 \/ (k - 1 \in DOMAIN Tail(s) /\ Tail(s)[k - 1] = s[k])
BY HeadTailProperties

LEMMA Least ==
  ASSUME NEW T \in SUBSET Nat, T # {} PROVE \E x \in T : \A y \in T : x <= y
<1>1. PICK x \in T : \A y \in T : <<y, x>> \notin OpToRel(<, Nat)
  BY NatLessThanWellFounded, WFMin
<1>2. ASSUME NEW y \in T PROVE ~(y < x)
  <2>1. ASSUME y < x PROVE <<y, x>> \in OpToRel(<, Nat)
    BY <2>1 DEF OpToRel
  <2> QED  BY <1>1, <2>1
<1> QED  BY <1>2

(* SetToSeq() of a finite set has its elements, and only those. *)
LEMMA SetToSeqSound ==
  ASSUME NEW S, IsFiniteSet(S), NEW T, S \subseteq T
  PROVE  /\ Iq!SetToSeq(S) \in Seq(T)
         /\ \A x \in S : \E i \in DOMAIN Iq!SetToSeq(S) : Iq!SetToSeq(S)[i] = x
         /\ \A i \in DOMAIN Iq!SetToSeq(S) : Iq!SetToSeq(S)[i] \in S
<1> DEFINE n == Cardinality(S)
           f == Iq!SetToSeq(S)
<1>1. n \in Nat /\ ExistsBijection(1..n, S)
  BY FS_CardinalityType
<1>2. PICK b : b \in Bijection(1..n, S)
  BY <1>1, Fun_ExistsBij
<1>3. b \in [1..n -> S] /\ Iq!IsInjective(b)
  <2>1. b \in Injection(1..n, S)
    BY <1>2 DEF Bijection
  <2>2. b \in [1..n -> S] /\ \A x, y \in 1..n : b[x] = b[y] => x = y
    BY <2>1, Fun_InjectionProperties, Zenon
  <2> QED  BY <2>2 DEF Iq!IsInjective
<1>4. Iq!Cardinality(S) = n
  BY DEF Iq!Cardinality, Cardinality
<1> HIDE DEF n
<1>5. f \in [1..n -> S] /\ Iq!IsInjective(f)
  BY <1>3, <1>4 DEF Iq!SetToSeq
<1>6. f \in Injection(1..n, S)
  BY <1>5, Fun_IsInj DEF Iq!IsInjective
<1>7. Cardinality(1..n) = n
  BY <1>1, FS_Interval
<1>8. f \in Surjection(1..n, S)
  BY <1>6, <1>7, FS_Injection DEF n
<1>9. \A x \in S : \E i \in 1..n : f[i] = x
  BY <1>8 DEF Surjection
<1> HIDE DEF f
<1>10. f \in Seq(T) /\ DOMAIN f = 1..n
  BY <1>1, <1>5
<1> QED  BY <1>5, <1>9, <1>10 DEF f

(* Whoever enters the tree is added to the server's list, after his group. *)
LEMMA AdditionsSound ==
  ASSUME IqConstants, NEW S \in SUBSET Buddies
  PROVE  LET es == Iq!Additions(S)
         IN /\ es \in Seq(Iq!Edits)
            /\ \A i \in DOMAIN es : es[i].op = "group" \/ (es[i].op = "add" /\ es[i].who \in S)
            /\ \A c \in S : \E i \in DOMAIN es : es[i].op = "add" /\ es[i].who = c
<1> DEFINE G == {GroupOf[c] : c \in S}
           new == G \ qTree.groups
           s == Iq!SetToSeq(new)
           t == Iq!SetToSeq(S)
           a == [i \in DOMAIN s |-> [op |-> "group", who |-> s[i]]]
           b == [i \in DOMAIN t |-> [op |-> "add", who |-> t[i]]]
<1>1. IsFiniteSet(S)
  BY FS_Subset DEF IqConstants
<1>2. IsFiniteSet(new) /\ new \subseteq Groups
  <2> DEFINE f == [c \in S |-> GroupOf[c]]
  <2>1. f \in Surjection(S, G)
    BY Fun_IsSurj
  <2>2. IsFiniteSet(G)
    BY <1>1, <2>1, FS_Surjection
  <2>3. IsFiniteSet(new)
    BY <2>2, FS_Subset
  <2> QED  BY <2>3 DEF IqConstants
<1>3. /\ s \in Seq(Groups) /\ t \in Seq(Buddies)
      /\ \A x \in S : \E i \in DOMAIN t : t[i] = x
      /\ \A i \in DOMAIN t : t[i] \in S
  BY <1>1, <1>2, SetToSeqSound
<1> HIDE DEF s, t
<1>4. a \in Seq(Iq!Edits) /\ DOMAIN a = DOMAIN s
  BY <1>3 DEF Iq!Edits
<1>5. b \in Seq(Iq!Edits) /\ DOMAIN b = DOMAIN t
  BY <1>3 DEF Iq!Edits
<1>6. \A i \in DOMAIN a : a[i].op = "group"
  OBVIOUS
<1>7. \A i \in DOMAIN b : b[i].op = "add" /\ b[i].who = t[i] /\ t[i] \in S
  BY <1>3
<1>8. \A c \in S : \E i \in DOMAIN b : b[i].op = "add" /\ b[i].who = c
  BY <1>3
<1>9. Iq!Additions(S) = a \o b
  BY DEF Iq!Additions, s, t
<1> HIDE DEF a, b
<1>10. \A k \in DOMAIN (a \o b) :
         (a \o b)[k].op = "group" \/ ((a \o b)[k].op = "add" /\ (a \o b)[k].who \in S)
  <2> TAKE k \in DOMAIN (a \o b)
  <2>1. \/ k \in DOMAIN a /\ (a \o b)[k] = a[k]
        \/ k - Len(a) \in DOMAIN b /\ (a \o b)[k] = b[k - Len(a)]
    BY <1>4, <1>5, Joined
  <2> QED  BY <2>1, <1>6, <1>7
<1>11. \A c \in S : \E k \in DOMAIN (a \o b) : (a \o b)[k].op = "add" /\ (a \o b)[k].who = c
  <2> TAKE c \in S
  <2>1. PICK i \in DOMAIN b : b[i].op = "add" /\ b[i].who = c
    BY <1>8
  <2>2. Len(a) + i \in DOMAIN (a \o b) /\ (a \o b)[Len(a) + i] = b[i]
    BY <1>4, <1>5, Joined
  <2> QED  BY <2>1, <2>2
<1>12. a \o b \in Seq(Iq!Edits)
  BY <1>4, <1>5, Joined
<1> QED  BY <1>9, <1>10, <1>11, <1>12

(* processSblEdits() drops the edits before the k-th, which come to        *)
(* nothing, and sends that, or there is none.                              *)
LEMMA ProcessSound ==
  ASSUME IqConstants, NEW s \in Sbls, s.canedit, ~s.inedit
  PROVE  LET p == Iq!processSblEdits(s)
         IN \E k \in 1 .. Len(s.edits) + 1 :
              /\ k = Iq!FirstLive(s)
              /\ \A i \in 1 .. k - 1 : Iq!Dropped(s, s.edits[i])
              /\ p \in Sbls /\ p.known = s.known /\ p.groups = s.groups /\ p.canedit
              /\ IF k = Len(s.edits) + 1
                 THEN p.edits = <<>> /\ p.snacs = s.snacs /\ ~p.inedit
                 ELSE /\ p.edits = SubSeq(s.edits, k + 1, Len(s.edits))
                      /\ p.snacs = Iq!Packets(s.edits[k]) /\ p.inedit
<1> DEFINE live == {i \in DOMAIN s.edits : ~Iq!Dropped(s, s.edits[i])}
           k == Iq!FirstLive(s)
           p == Iq!processSblEdits(s)
<1>1. s.edits \in Seq(Iq!Edits) /\ Len(s.edits) \in Nat /\ DOMAIN s.edits = 1 .. Len(s.edits)
  BY DEF Sbls
<1>2. CASE live = {}
  <2>1. k = Len(s.edits) + 1
    BY <1>2 DEF Iq!FirstLive
  <2>2. p = [s EXCEPT !.edits = <<>>]
    BY <1>1, <2>1 DEF Iq!processSblEdits
  <2>3. p \in Sbls /\ p.known = s.known /\ p.groups = s.groups /\ p.canedit
        /\ p.edits = <<>> /\ p.snacs = s.snacs /\ ~p.inedit
    <3>1. <<>> \in Seq(Iq!Edits)
      OBVIOUS
    <3> HIDE DEF p
    <3> QED  BY <2>2, <3>1 DEF Sbls
  <2>4. \A i \in 1 .. k - 1 : Iq!Dropped(s, s.edits[i])
    BY <1>1, <1>2, <2>1
  <2> HIDE DEF k, p
  <2>5. k \in 1 .. Len(s.edits) + 1
    BY <1>1, <2>1
  <2> QED  BY <2>1, <2>3, <2>4, <2>5 DEF k, p
<1>3. CASE live # {}
  <2>1. k \in live /\ \A j \in live : k <= j
    <3>1. live \in SUBSET Nat
      BY <1>1
    <3>2. \E x \in live : \A y \in live : x <= y
      BY <1>3, <3>1, Least
    <3> QED  BY <1>3, <3>2 DEF Iq!FirstLive
  <2> HIDE DEF k
  <2>2. k \in 1 .. Len(s.edits) /\ \A i \in 1 .. k - 1 : Iq!Dropped(s, s.edits[i])
    BY <1>1, <2>1
  <2>3. p = [s EXCEPT !.edits = SubSeq(@, k + 1, Len(@)),
                      !.snacs = Iq!Packets(s.edits[k]), !.inedit = TRUE]
    BY <1>1, <2>2 DEF Iq!processSblEdits, k
  <2>4. SubSeq(s.edits, k + 1, Len(s.edits)) \in Seq(Iq!Edits)
    BY <1>1, <2>2, SubSeqProperties
  <2>5. Iq!Packets(s.edits[k]) \in Seq(Iq!Snacs)
    <3>1. s.edits[k] \in Iq!Edits
      BY <1>1, <2>2
    <3> QED  BY <3>1 DEF Iq!Packets, Iq!Edits, Iq!Snacs, IqConstants
  <2> HIDE DEF p
  <2>6. p \in Sbls /\ p.known = s.known /\ p.groups = s.groups /\ p.canedit
        /\ p.edits = SubSeq(s.edits, k + 1, Len(s.edits))
        /\ p.snacs = Iq!Packets(s.edits[k]) /\ p.inedit
    BY <2>3, <2>4, <2>5 DEF Sbls
  <2>7. k \in 1 .. Len(s.edits) + 1 /\ k # Len(s.edits) + 1
    BY <1>1, <2>2
  <2> QED  BY <2>2, <2>6, <2>7 DEF k, p
<1> QED  BY <1>2, <1>3

LEMMA Greatest ==
  ASSUME NEW n \in Nat, NEW T \in SUBSET (1 .. n), T # {}
  PROVE  \E x \in T : \A y \in T : y <= x
<1> DEFINE U == {i \in Nat : n - i \in T}
<1>1. PICK t \in T : TRUE
  OBVIOUS
<1>2. n - t \in U
  BY <1>1
<1>3. PICK u \in U : \A v \in U : u <= v
  BY <1>2, Least
<1>4. u \in Nat /\ n - u \in T
  OBVIOUS
<1>5. ASSUME NEW y \in T PROVE y <= n - u
  <2>1. y \in 1 .. n /\ n - y \in U
    OBVIOUS
  <2>2. u <= n - y
    BY <1>3, <2>1
  <2> QED  BY <1>4, <2>1, <2>2
<1> QED  BY <1>4, <1>5

(* The last edit of somebody, when there is one. *)
LEMMA LastConcern ==
  ASSUME NEW ed \in Seq(Iq!Edits), NEW c, ~\A i \in DOMAIN ed : ~Concerns(ed[i], c)
  PROVE  \E i \in DOMAIN ed : Concerns(ed[i], c) /\ \A j \in DOMAIN ed : j > i => ~Concerns(ed[j], c)
<1> DEFINE T == {i \in DOMAIN ed : Concerns(ed[i], c)}
<1>1. Len(ed) \in Nat /\ DOMAIN ed = 1 .. Len(ed)
  OBVIOUS
<1>2. T \in SUBSET (1 .. Len(ed)) /\ T # {}
  BY <1>1
<1>3. PICK x \in T : \A y \in T : y <= x
  BY <1>1, <1>2, Greatest
<1> QED  BY <1>1, <1>3

(* Edits are queued for those who enter the tree or leave it. *)
LEMMA AgreeQueued ==
  ASSUME NEW ed \in Seq(Iq!Edits), NEW es \in Seq(Iq!Edits), NEW out, NEW tr, NEW kp, NEW as,
         NEW can, Agree(ed, out, tr, kp, as, can), NEW tr2,
         \A c \in Buddies, i \in DOMAIN es :
           Concerns(es[i], c) /\ (\A j \in DOMAIN es : j > i => ~Concerns(es[j], c)) =>
             (es[i].op = "add" <=> c \in tr2),
         \A c \in Buddies : (\A i \in DOMAIN es : ~Concerns(es[i], c)) => (c \in tr2 <=> c \in tr)
  PROVE  Agree(ed \o es, out, tr2, kp, as, can)
<1> DEFINE q == ed \o es
<1>1. /\ Len(ed) \in Nat /\ DOMAIN ed = 1 .. Len(ed) /\ DOMAIN es = 1 .. Len(es)
      /\ Len(es) \in Nat /\ DOMAIN q = 1 .. (Len(ed) + Len(es))
      /\ \A i \in DOMAIN ed : i \in DOMAIN q /\ q[i] = ed[i]
      /\ \A i \in DOMAIN es : Len(ed) + i \in DOMAIN q /\ q[Len(ed) + i] = es[i]
      /\ \A k \in DOMAIN q :
           k \in DOMAIN ed \/ (k - Len(ed) \in DOMAIN es /\ q[k] = es[k - Len(ed)])
  BY Joined
<1> HIDE DEF q
<1>2. ASSUME NEW c \in Buddies, \A j \in DOMAIN q : ~Concerns(q[j], c)
      PROVE  /\ \A j \in DOMAIN ed : ~Concerns(ed[j], c)
             /\ c \in tr2 <=> c \in tr
  <2>1. \A j \in DOMAIN ed : ~Concerns(ed[j], c)
    BY <1>1, <1>2
  <2>2. \A j \in DOMAIN es : ~Concerns(es[j], c)
    BY <1>1, <1>2
  <2> QED  BY <2>1, <2>2
<1>3. ASSUME NEW c \in Buddies, NEW i \in DOMAIN q, Concerns(q[i], c),
             \A j \in DOMAIN q : j > i => ~Concerns(q[j], c)
      PROVE  q[i].op = "add" <=> c \in tr2
  <2>1. CASE i \in DOMAIN ed
    <3>1. \A j \in DOMAIN es : ~Concerns(es[j], c)
      BY <1>1, <1>3, <2>1
    <3>2. \A j \in DOMAIN ed : j > i => ~Concerns(ed[j], c)
      BY <1>1, <1>3, <2>1
    <3> QED  BY <1>1, <1>3, <2>1, <3>1, <3>2 DEF Agree
  <2>2. CASE i - Len(ed) \in DOMAIN es /\ q[i] = es[i - Len(ed)]
    <3>1. ASSUME NEW j \in DOMAIN es, j > i - Len(ed) PROVE ~Concerns(es[j], c)
      <4>1. Len(ed) + j \in DOMAIN q /\ Len(ed) + j > i /\ q[Len(ed) + j] = es[j]
        BY <1>1, <2>2, <3>1
      <4> QED  BY <1>3, <4>1
    <3> QED  BY <1>3, <2>2, <3>1
  <2> QED  BY <1>1, <2>1, <2>2
<1>4. ASSUME NEW c \in Buddies, NEW e \in out, Concerns(e, c),
             \A j \in DOMAIN q : ~Concerns(q[j], c)
      PROVE  e.op = "add" <=> c \in tr2
  BY <1>2, <1>4 DEF Agree
<1>5. ASSUME can, NEW c \in Buddies \ as, \A j \in DOMAIN q : ~Concerns(q[j], c),
             \A e \in out : ~Concerns(e, c)
      PROVE  c \in tr2 <=> c \in kp
  BY <1>2, <1>5 DEF Agree
<1>6. Agree(q, out, tr2, kp, as, can)
  BY <1>3, <1>4, <1>5 DEF Agree
<1> QED  BY <1>6 DEF q

(* An edit that comes to nothing leaves the server as the user wants it,   *)
(* unless it is one of those that are given up.                            *)
LEMMA AgreeProcessed ==
  ASSUME IqConstants, NEW s \in Sbls, s.canedit, ~s.inedit, NEW tr, NEW as,
         Agree(s.edits, {}, tr, s.known, as, TRUE)
  PROVE  LET p == Iq!processSblEdits(s)
         IN Agree(p.edits, IF p.inedit THEN {Head(p.snacs)} ELSE {}, tr, s.known,
                  as \cup Iq!Forsaken(s), TRUE)
<1> DEFINE p == Iq!processSblEdits(s)
           n == Len(s.edits)
<1>1. PICK k \in 1 .. n + 1 :
        /\ k = Iq!FirstLive(s)
        /\ \A i \in 1 .. k - 1 : Iq!Dropped(s, s.edits[i])
        /\ IF k = n + 1
           THEN p.edits = <<>> /\ ~p.inedit
           ELSE /\ p.edits = SubSeq(s.edits, k + 1, n)
                /\ p.snacs = Iq!Packets(s.edits[k]) /\ p.inedit
  BY ProcessSound
<1> HIDE DEF p
<1>2. s.edits \in Seq(Iq!Edits) /\ n \in Nat /\ DOMAIN s.edits = 1 .. n
  BY DEF Sbls
<1> HIDE DEF n
<1>3. ASSUME NEW c \in Buddies \ (as \cup Iq!Forsaken(s)),
             \A i \in DOMAIN s.edits : i >= k => ~Concerns(s.edits[i], c)
      PROVE  c \in tr <=> c \in s.known
  <2>1. CASE \A i \in DOMAIN s.edits : ~Concerns(s.edits[i], c)
    BY <2>1 DEF Agree
  <2>2. CASE ~\A i \in DOMAIN s.edits : ~Concerns(s.edits[i], c)
    <3>1. PICK i \in DOMAIN s.edits :
            Concerns(s.edits[i], c) /\ \A j \in DOMAIN s.edits : j > i => ~Concerns(s.edits[j], c)
      BY <1>2, <2>2, LastConcern
    <3>2. s.edits[i].op = "add" <=> c \in tr
      BY <3>1 DEF Agree
    <3>3. i \in 1 .. k - 1 /\ Iq!Dropped(s, s.edits[i])
      BY <1>1, <1>2, <1>3, <3>1
    <3>4. s.edits[i] \in Iq!Edits
      BY <1>2, <3>1
    <3>5. CASE s.edits[i].op = "remove"
      BY <3>1, <3>2, <3>3, <3>5 DEF Iq!Dropped, Concerns
    <3>6. CASE s.edits[i].op = "add" /\ c \notin s.known
      <4>1. s.edits[i] = [op |-> "add", who |-> c]
        BY <3>1, <3>4, <3>6 DEF Iq!Edits, Concerns
      <4>2. c \in Iq!Forsaken(s)
        BY <1>1, <3>3, <3>6, <4>1 DEF Iq!Forsaken
      <4> QED  BY <4>2
    <3> QED  BY <3>1, <3>2, <3>5, <3>6 DEF Concerns
  <2> QED  BY <2>1, <2>2
<1>4. CASE k = n + 1
  <2>1. p.edits = <<>> /\ ~p.inedit
    BY <1>1, <1>4
  <2>2. \A c \in Buddies \ (as \cup Iq!Forsaken(s)) : c \in tr <=> c \in s.known
    <3> TAKE c \in Buddies \ (as \cup Iq!Forsaken(s))
    <3>1. \A i \in DOMAIN s.edits : ~(i >= k)
      BY <1>2, <1>4
    <3> QED  BY <1>3, <3>1
  <2>3. Agree(<<>>, {}, tr, s.known, as \cup Iq!Forsaken(s), TRUE)
    <3>1. DOMAIN <<>> = {}
      OBVIOUS
    <3> QED  BY <2>2, <3>1, Zenon DEF Agree
  <2> QED  BY <2>1, <2>3 DEF p
<1>5. CASE k # n + 1
  <2> DEFINE r == SubSeq(s.edits, k + 1, n)
             e == s.edits[k]
  <2>1. k \in 1 .. n /\ p.edits = r /\ p.inedit /\ e \in Iq!Edits
    BY <1>1, <1>2, <1>5
  <2>2. Head(p.snacs) = e
    BY <1>1, <1>5 DEF Iq!Packets
  <2>3. /\ DOMAIN r = 1 .. (n - k)
        /\ \A i \in 1 .. (n - k) : k + i \in DOMAIN s.edits /\ r[i] = s.edits[k + i]
        /\ \A j \in DOMAIN s.edits : j > k => j - k \in DOMAIN r /\ r[j - k] = s.edits[j]
    <3>1. \A i \in k + 1 .. n : s.edits[i] \in Iq!Edits
      BY <1>2, <2>1
    <3>2. /\ r \in Seq(Iq!Edits) /\ Len(r) = IF k + 1 <= n THEN n - (k + 1) + 1 ELSE 0
          /\ \A i \in 1 .. n - (k + 1) + 1 : r[i] = s.edits[k + 1 + i - 1]
      BY <1>2, <2>1, <3>1, SubSeqProperties
    <3> HIDE DEF r
    <3>3. Len(r) = n - k /\ DOMAIN r = 1 .. (n - k)
      BY <1>2, <2>1, <3>2
    <3>4. \A i \in 1 .. (n - k) :
            k + i \in 1 .. n /\ k + 1 + i - 1 = k + i /\ i \in 1 .. n - (k + 1) + 1
      BY <1>2, <2>1
    <3>5. \A i \in 1 .. (n - k) : r[i] = s.edits[k + i]
      BY <3>2, <3>4
    <3>6. \A j \in 1 .. n : j > k => j - k \in 1 .. (n - k) /\ k + (j - k) = j
      BY <1>2, <2>1
    <3>7. \A j \in 1 .. n : j > k => r[j - k] = s.edits[j]
      <4> TAKE j \in 1 .. n
      <4> HAVE j > k
      <4>1. j - k \in 1 .. (n - k) /\ k + (j - k) = j
        BY <3>6
      <4>2. r[j - k] = s.edits[k + (j - k)]
        BY <3>5, <4>1
      <4> QED  BY <4>1, <4>2
    <3> QED  BY <1>2, <3>3, <3>4, <3>5, <3>6, <3>7
  <2> HIDE DEF r, e
  <2>4. ASSUME NEW c \in Buddies, NEW i \in DOMAIN r, Concerns(r[i], c),
               \A j \in DOMAIN r : j > i => ~Concerns(r[j], c)
        PROVE  r[i].op = "add" <=> c \in tr
    <3>1. k + i \in DOMAIN s.edits /\ r[i] = s.edits[k + i]
      BY <2>3, <2>4
    <3>2. ASSUME NEW j \in DOMAIN s.edits, j > k + i PROVE ~Concerns(s.edits[j], c)
      <4>1. j > k /\ j - k > i
        BY <1>2, <2>1, <2>3, <2>4, <3>2
      <4> QED  BY <2>3, <2>4, <4>1
    <3> QED  BY <2>4, <3>1, <3>2 DEF Agree
  <2>5. ASSUME NEW c \in Buddies, \A j \in DOMAIN r : ~Concerns(r[j], c)
        PROVE  \A j \in DOMAIN s.edits : j > k => ~Concerns(s.edits[j], c)
    BY <2>3, <2>5
  <2>6. ASSUME NEW c \in Buddies, Concerns(e, c), \A j \in DOMAIN r : ~Concerns(r[j], c)
        PROVE  e.op = "add" <=> c \in tr
    <3>1. k \in DOMAIN s.edits /\ e = s.edits[k]
      BY <1>2, <2>1 DEF e
    <3> QED  BY <2>5, <2>6, <3>1 DEF Agree
  <2>7. ASSUME NEW c \in Buddies \ (as \cup Iq!Forsaken(s)), ~Concerns(e, c),
               \A j \in DOMAIN r : ~Concerns(r[j], c)
        PROVE  c \in tr <=> c \in s.known
    <3>1. \A j \in DOMAIN s.edits : j > k => ~Concerns(s.edits[j], c)
      BY <2>5, <2>7
    <3>2. \A j \in DOMAIN s.edits : j >= k => ~Concerns(s.edits[j], c)
      BY <1>2, <2>1, <2>7, <3>1 DEF e
    <3> QED  BY <1>3, <3>2
  <2>8. Agree(r, {e}, tr, s.known, as \cup Iq!Forsaken(s), TRUE)
    BY <2>4, <2>6, <2>7 DEF Agree
  <2> QED  BY <2>1, <2>2, <2>8 DEF p
<1> QED  BY <1>4, <1>5

-----------------------------------------------------------------------------
(* Visibility, by what becomes of the packets.  An edit is sent, or the    *)
(* server's list is asked for.                                             *)
LEMMA VisiblePush ==
  ASSUME NEW cl, NEW sv, NEW ts \in Seq(Packets), NEW tc, NEW vl, NEW un,
         Visible(cl, sv, ts, tc, vl, un), NEW t \in Seq(Packets),
         \A i \in DOMAIN t : ~IsStatus(t[i]) /\ ~IsList(t[i])
  PROVE  Visible(cl, sv, ts \o t, tc, vl, un)
<1> DEFINE q == ts \o t
<1>1. /\ Len(ts) \in Nat /\ DOMAIN ts = 1 .. Len(ts) /\ DOMAIN q \subseteq Nat
      /\ \A i \in DOMAIN ts : i \in DOMAIN q /\ q[i] = ts[i]
      /\ \A k \in DOMAIN q : k \in DOMAIN ts \/ (k - Len(ts) \in DOMAIN t /\ q[k] = t[k - Len(ts)])
  BY Joined
<1> HIDE DEF q
<1>2. \A k \in DOMAIN q : IsStatus(q[k]) \/ IsList(q[k]) => k \in DOMAIN ts /\ q[k] = ts[k]
  BY <1>1
<1>3. Follows(cl, sv, q, tc)
  BY <1>1, <1>2 DEF Visible, Follows
<1>4. OneAsked(ts, tc) => OneAsked(q, tc)
  BY <1>1, <1>2 DEF OneAsked
<1>5. ASSUME ListFirst(cl, sv, ts, vl) PROVE ListFirst(cl, sv, q, vl)
  <2>1. (\A k \in DOMAIN q : ~IsList(q[k])) => \A k \in DOMAIN ts : ~IsList(ts[k])
    BY <1>1
  <2>2. \A k \in DOMAIN q :
          IsList(q[k]) /\ (\A j \in DOMAIN q : j > k => ~IsList(q[j])) =>
            k \in DOMAIN ts /\ q[k] = ts[k] /\ \A j \in DOMAIN ts : j > k => ~IsList(ts[j])
    BY <1>1, <1>2
  <2>3. cl.wanted = "invisible" =>
          \A k \in DOMAIN q : IsList(q[k]) => \E i \in DOMAIN q : i > k /\ IsStatus(q[i])
    BY <1>1, <1>2, <1>5 DEF ListFirst
  <2> QED  BY <1>2, <1>5, <2>1, <2>2, <2>3 DEF ListFirst
<1>6. Visible(cl, sv, q, tc, vl, un)
  BY <1>3, <1>4, <1>5 DEF Visible
<1> QED  BY <1>6 DEF q

(* An answer arrives that is not about the status; and one that is.        *)
LEMMA VisiblePop ==
  ASSUME NEW cl, NEW sv, NEW ts, NEW tc \in Seq(Answers), tc # <<>>, NEW vl, NEW un,
         Visible(cl, sv, ts, tc, vl, un), ~IsInfo(Head(tc))
  PROVE  Visible(cl, sv, ts, Tail(tc), vl, un)
<1> DEFINE q == Tail(tc)
<1>1. /\ Head(tc) = tc[1] /\ DOMAIN tc \subseteq Nat /\ DOMAIN q \subseteq Nat
      /\ \A i \in DOMAIN q : i + 1 \in DOMAIN tc /\ q[i] = tc[i + 1]
      /\ \A k \in DOMAIN tc : k = 1 \/ (k - 1 \in DOMAIN q /\ q[k - 1] = tc[k])
  BY Popped
<1> HIDE DEF q
<1>2. \A k \in DOMAIN tc : IsInfo(tc[k]) => k - 1 \in DOMAIN q /\ q[k - 1] = tc[k]
  BY <1>1
<1>3. ASSUME NEW i \in DOMAIN q, IsInfo(q[i]), \A j \in DOMAIN q : j > i => ~IsInfo(q[j])
      PROVE  q[i].status = sv.status
  <2>1. \A j \in DOMAIN tc : j > i + 1 => ~IsInfo(tc[j])
    BY <1>1, <1>2, <1>3
  <2> QED  BY <1>1, <1>3, <2>1 DEF Visible, Follows
<1>4. (\A i \in DOMAIN q : ~IsInfo(q[i])) => cl.self = sv.status
  BY <1>2 DEF Visible, Follows
<1>5. Follows(cl, sv, ts, q)
  BY <1>3, <1>4 DEF Visible, Follows
<1>6. ASSUME OneAsked(ts, tc) PROVE OneAsked(ts, q)
  <2>1. ASSUME NEW i \in DOMAIN q, NEW j \in DOMAIN q, IsInfo(q[i]), IsInfo(q[j]) PROVE i = j
    <3>1. i + 1 = j + 1
      BY <1>1, <1>6, <2>1 DEF OneAsked
    <3> QED  BY <1>1, <3>1
  <2> QED  BY <1>1, <1>6, <2>1 DEF OneAsked
<1>7. Visible(cl, sv, ts, q, vl, un)
  BY <1>5, <1>6 DEF Visible
<1> QED  BY <1>7 DEF q

LEMMA VisibleInfo ==
  ASSUME NEW cl \in Clients, NEW sv, NEW ts, NEW tc \in Seq(Answers), tc # <<>>, NEW vl, NEW un,
         Visible(cl, sv, ts, tc, vl, un), IsInfo(Head(tc))
  PROVE  Visible([cl EXCEPT !.self = Head(tc).status], sv, ts, Tail(tc), vl, un)
<1> DEFINE q == Tail(tc)
           cNew == [cl EXCEPT !.self = Head(tc).status]
<1>1. /\ Head(tc) = tc[1] /\ DOMAIN tc = 1 .. Len(tc) /\ Len(tc) \in Nat /\ Len(tc) > 0
      /\ DOMAIN q \subseteq Nat
      /\ \A i \in DOMAIN q : i + 1 \in DOMAIN tc /\ q[i] = tc[i + 1]
      /\ \A k \in DOMAIN tc : k = 1 \/ (k - 1 \in DOMAIN q /\ q[k - 1] = tc[k])
  BY Popped
<1>2. cNew.state = cl.state /\ cNew.wanted = cl.wanted /\ cNew.self = tc[1].status
  BY <1>1 DEF Clients
<1> HIDE DEF q, cNew
<1>3. ASSUME NEW i \in DOMAIN q, IsInfo(q[i]), \A j \in DOMAIN q : j > i => ~IsInfo(q[j])
      PROVE  q[i].status = sv.status
  <2>1. \A j \in DOMAIN tc : j > i + 1 => ~IsInfo(tc[j])
    <3> SUFFICES ASSUME NEW j \in DOMAIN tc, j > i + 1 PROVE ~IsInfo(tc[j])
      OBVIOUS
    <3>1. j - 1 \in DOMAIN q /\ q[j - 1] = tc[j] /\ j - 1 > i
      BY <1>1, <1>3
    <3> QED  BY <1>3, <3>1
  <2> QED  BY <1>1, <1>3, <2>1 DEF Visible, Follows
<1>4. ASSUME \A i \in DOMAIN q : ~IsInfo(q[i]) PROVE cNew.self = sv.status
  <2>1. \A j \in DOMAIN tc : j > 1 => ~IsInfo(tc[j])
    BY <1>1, <1>4
  <2> QED  BY <1>1, <1>2, <2>1 DEF Visible, Follows
<1>5. Follows(cNew, sv, ts, q)
  BY <1>2, <1>3, <1>4 DEF Visible, Follows
<1>6. ASSUME OneAsked(ts, tc) PROVE OneAsked(ts, q)
  <2>1. ASSUME NEW i \in DOMAIN q, NEW j \in DOMAIN q, IsInfo(q[i]), IsInfo(q[j]) PROVE i = j
    <3>1. i + 1 = j + 1
      BY <1>1, <1>6, <2>1 DEF OneAsked
    <3> QED  BY <1>1, <3>1
  <2> QED  BY <1>1, <1>6, <2>1 DEF OneAsked
<1>7. ListFirst(cl, sv, ts, vl) => ListFirst(cNew, sv, ts, vl)
  BY <1>2 DEF ListFirst
<1>8. Visible(cNew, sv, ts, q, vl, un)
  BY <1>2, <1>5, <1>6, <1>7 DEF Visible
<1> QED  BY <1>8 DEF q, cNew

(* The server takes a list of people, a status, or anything else. *)
LEMMA VisibleListTaken ==
  ASSUME NEW cl, NEW sv \in Servers, NEW ts \in Seq(Packets), ts # <<>>, NEW tc, NEW vl, NEW un,
         Visible(cl, sv, ts, tc, vl, un), IsList(Head(ts))
  PROVE  Visible(cl, [sv EXCEPT !.privacy = [list |-> Head(ts).type, people |-> Head(ts).people]],
                 Tail(ts), tc, vl, un)
<1> DEFINE q == Tail(ts)
           s2 == [sv EXCEPT !.privacy = [list |-> Head(ts).type, people |-> Head(ts).people]]
<1>1. /\ Head(ts) = ts[1] /\ DOMAIN ts = 1 .. Len(ts) /\ Len(ts) \in Nat /\ Len(ts) > 0
      /\ DOMAIN q \subseteq Nat
      /\ \A i \in DOMAIN q : i + 1 \in DOMAIN ts /\ q[i] = ts[i + 1]
      /\ \A k \in DOMAIN ts : k = 1 \/ (k - 1 \in DOMAIN q /\ q[k - 1] = ts[k])
  BY Popped
<1>2. s2.status = sv.status /\ s2.privacy = [list |-> ts[1].type, people |-> ts[1].people]
  BY <1>1 DEF Servers
<1> HIDE DEF q, s2
<1>3. \A k \in DOMAIN ts : IsStatus(ts[k]) => k - 1 \in DOMAIN q /\ q[k - 1] = ts[k]
  BY <1>1 DEF IsStatus, IsList
<1>4. ASSUME NEW i \in DOMAIN q, NEW j \in DOMAIN ts, j > i + 1
      PROVE  j - 1 \in DOMAIN q /\ q[j - 1] = ts[j] /\ j - 1 > i
  BY <1>1, <1>4
<1>5. Follows(cl, s2, q, tc)
  <2>1. ASSUME NEW i \in DOMAIN q, IsStatus(q[i]), \A j \in DOMAIN q : j > i => ~IsStatus(q[j])
        PROVE  q[i].status = cl.wanted
    <3>1. \A j \in DOMAIN ts : j > i + 1 => ~IsStatus(ts[j])
      BY <1>4, <2>1
    <3> QED  BY <1>1, <2>1, <3>1 DEF Visible, Follows
  <2>2. (\A i \in DOMAIN q : ~IsStatus(q[i])) => \A i \in DOMAIN ts : ~IsStatus(ts[i])
    BY <1>3
  <2> QED  BY <1>2, <2>1, <2>2 DEF Visible, Follows
<1>6. ASSUME OneAsked(ts, tc) PROVE OneAsked(q, tc)
  <2>1. ASSUME NEW i \in DOMAIN q, NEW j \in DOMAIN q, IsStatus(q[i]), IsStatus(q[j]) PROVE i = j
    <3>1. i + 1 = j + 1
      BY <1>1, <1>6, <2>1 DEF OneAsked
    <3> QED  BY <1>1, <3>1
  <2> QED  BY <1>1, <1>6, <2>1 DEF OneAsked
<1>7. ASSUME ListFirst(cl, sv, ts, vl) PROVE ListFirst(cl, s2, q, vl)
  <2>1. ASSUME \A k \in DOMAIN q : ~IsList(q[k]) PROVE s2.privacy = Right(cl.wanted, vl)
    <3>1. \A j \in DOMAIN ts : j > 1 => ~IsList(ts[j])
      BY <1>1, <2>1
    <3> QED  BY <1>1, <1>2, <1>7, <3>1 DEF ListFirst
  <2>2. ASSUME NEW k \in DOMAIN q, IsList(q[k]), \A j \in DOMAIN q : j > k => ~IsList(q[j])
        PROVE  [list |-> q[k].type, people |-> q[k].people] = Right(cl.wanted, vl)
    <3>1. \A j \in DOMAIN ts : j > k + 1 => ~IsList(ts[j])
      BY <1>4, <2>2
    <3> QED  BY <1>1, <1>7, <2>2, <3>1 DEF ListFirst
  <2>3. ASSUME cl.wanted = "invisible", NEW k \in DOMAIN q, IsList(q[k])
        PROVE  \E i \in DOMAIN q : i > k /\ IsStatus(q[i])
    <3>1. PICK i \in DOMAIN ts : i > k + 1 /\ IsStatus(ts[i])
      BY <1>1, <1>7, <2>3 DEF ListFirst
    <3> QED  BY <1>4, <3>1
  <2>4. cl.wanted = "invisible" /\ s2.status = "invisible" => \A k \in DOMAIN q : ~IsList(q[k])
    BY <1>1, <1>2, <1>7 DEF ListFirst
  <2> QED  BY <2>1, <2>2, <2>3, <2>4 DEF ListFirst
<1>8. Visible(cl, s2, q, tc, vl, un)
  BY <1>5, <1>6, <1>7 DEF Visible
<1> QED  BY <1>8 DEF q, s2

LEMMA VisibleStatusTaken ==
  ASSUME NEW cl, NEW sv \in Servers, NEW ts \in Seq(Packets), ts # <<>>, NEW tc \in Seq(Answers),
         NEW vl, NEW un, Visible(cl, sv, ts, tc, vl, un), IsStatus(Head(ts))
  PROVE  Visible(cl, [sv EXCEPT !.status = Head(ts).status], Tail(ts),
                 Append(tc, [type |-> "info", status |-> Head(ts).status]), vl, un)
<1> DEFINE q == Tail(ts)
           s2 == [sv EXCEPT !.status = Head(ts).status]
           m == [type |-> "info", status |-> Head(ts).status]
           r == Append(tc, m)
<1>1. /\ Head(ts) = ts[1] /\ DOMAIN ts = 1 .. Len(ts) /\ Len(ts) \in Nat /\ Len(ts) > 0
      /\ DOMAIN q \subseteq Nat /\ 0 \notin DOMAIN q /\ Head(ts) \in Packets
      /\ \A i \in DOMAIN q : i + 1 \in DOMAIN ts /\ q[i] = ts[i + 1]
      /\ \A k \in DOMAIN ts : k = 1 \/ (k - 1 \in DOMAIN q /\ q[k - 1] = ts[k])
  BY Popped
<1>2. s2.status = ts[1].status /\ s2.privacy = sv.privacy
  BY <1>1 DEF Servers
<1>3. /\ Len(tc) \in Nat /\ DOMAIN tc = 1 .. Len(tc) /\ DOMAIN r = 1 .. (Len(tc) + 1)
      /\ r[Len(tc) + 1] = m /\ \A i \in DOMAIN tc : r[i] = tc[i]
  <2>1. m \in Answers
    BY <1>1 DEF Packets, Answers, IsStatus
  <2> HIDE DEF m
  <2> QED  BY <2>1
<1>4. IsInfo(m) /\ m.status = ts[1].status
  BY <1>1 DEF IsInfo
<1> HIDE DEF q, s2, m, r
<1>5. IsStatus(ts[1]) /\ ~IsList(ts[1])
  BY <1>1 DEF IsStatus, IsList
<1>6. \A k \in DOMAIN ts : IsList(ts[k]) => k - 1 \in DOMAIN q /\ q[k - 1] = ts[k]
  BY <1>1, <1>5
<1>7. ASSUME NEW i \in DOMAIN q, NEW j \in DOMAIN ts, j > i + 1
      PROVE  j - 1 \in DOMAIN q /\ q[j - 1] = ts[j] /\ j - 1 > i
  BY <1>1, <1>7
<1>8. Follows(cl, s2, q, r)
  <2>1. ASSUME NEW i \in DOMAIN q, IsStatus(q[i]), \A j \in DOMAIN q : j > i => ~IsStatus(q[j])
        PROVE  q[i].status = cl.wanted
    <3>1. \A j \in DOMAIN ts : j > i + 1 => ~IsStatus(ts[j])
      BY <1>7, <2>1
    <3> QED  BY <1>1, <2>1, <3>1 DEF Visible, Follows
  <2>2. ASSUME \A i \in DOMAIN q : ~IsStatus(q[i]) PROVE s2.status = cl.wanted
    <3>1. \A j \in DOMAIN ts : j > 1 => ~IsStatus(ts[j])
      BY <1>1, <2>2
    <3> QED  BY <1>1, <1>2, <1>5, <3>1 DEF Visible, Follows
  <2>3. ASSUME NEW i \in DOMAIN r, IsInfo(r[i]), \A j \in DOMAIN r : j > i => ~IsInfo(r[j])
        PROVE  r[i].status = s2.status
    <3>1. i = Len(tc) + 1
      BY <1>3, <1>4, <2>3
    <3> QED  BY <1>2, <1>3, <1>4, <3>1
  <2>4. ~\A i \in DOMAIN r : ~IsInfo(r[i])
    BY <1>3, <1>4
  <2> QED  BY <2>1, <2>2, <2>3, <2>4 DEF Follows
<1>9. ASSUME OneAsked(ts, tc)
      PROVE  OneAsked(q, r) /\ \A i \in DOMAIN ts : IsStatus(ts[i]) => i = 1
  <2>1. \A i \in DOMAIN ts : IsStatus(ts[i]) => i = 1
    BY <1>1, <1>5, <1>9 DEF OneAsked
  <2>2. \A i \in DOMAIN tc : ~IsInfo(tc[i])
    BY <1>1, <1>5, <1>9 DEF OneAsked
  <2>3. \A i \in DOMAIN q : ~IsStatus(q[i])
    <3> TAKE i \in DOMAIN q
    <3>1. i + 1 \in DOMAIN ts /\ q[i] = ts[i + 1] /\ i + 1 # 1
      BY <1>1
    <3> QED  BY <2>1, <3>1
  <2>4. \A i \in DOMAIN r : IsInfo(r[i]) => i = Len(tc) + 1
    BY <1>3, <2>2
  <2> QED  BY <2>1, <2>3, <2>4 DEF OneAsked
<1>10. ASSUME OneAsked(ts, tc), ListFirst(cl, sv, ts, vl) PROVE ListFirst(cl, s2, q, vl)
  <2>1. (\A k \in DOMAIN q : ~IsList(q[k])) => s2.privacy = Right(cl.wanted, vl)
    BY <1>2, <1>6, <1>10 DEF ListFirst
  <2>2. ASSUME NEW k \in DOMAIN q, IsList(q[k]), \A j \in DOMAIN q : j > k => ~IsList(q[j])
        PROVE  [list |-> q[k].type, people |-> q[k].people] = Right(cl.wanted, vl)
    <3>1. \A j \in DOMAIN ts : j > k + 1 => ~IsList(ts[j])
      BY <1>7, <2>2
    <3> QED  BY <1>1, <1>10, <2>2, <3>1 DEF ListFirst
  <2>3. ASSUME cl.wanted = "invisible", NEW k \in DOMAIN q, IsList(q[k])
        PROVE  FALSE
    <3>1. PICK i \in DOMAIN ts : i > k + 1 /\ IsStatus(ts[i])
      BY <1>1, <1>10, <2>3 DEF ListFirst
    <3> QED  BY <1>1, <1>9, <1>10, <3>1
  <2> QED  BY <2>1, <2>2, <2>3 DEF ListFirst
<1>11. Visible(cl, s2, q, r, vl, un)
  BY <1>8, <1>9, <1>10 DEF Visible
<1> QED  BY <1>11 DEF q, s2, r, m

LEMMA VisibleTaken ==
  ASSUME NEW cl, NEW sv, NEW s2, s2.status = sv.status, s2.privacy = sv.privacy,
         NEW ts \in Seq(Packets), ts # <<>>, NEW tc \in Seq(Answers),
         NEW vl, NEW un, Visible(cl, sv, ts, tc, vl, un), ~IsList(Head(ts)), ~IsStatus(Head(ts)),
         NEW m \in Answers, ~IsInfo(m)
  PROVE  Visible(cl, s2, Tail(ts), Append(tc, m), vl, un)
<1> DEFINE q == Tail(ts)
           r == Append(tc, m)
<1>1. /\ Head(ts) = ts[1] /\ DOMAIN ts = 1 .. Len(ts) /\ Len(ts) \in Nat /\ Len(ts) > 0
      /\ DOMAIN q \subseteq Nat /\ Head(ts) \in Packets
      /\ \A i \in DOMAIN q : i + 1 \in DOMAIN ts /\ q[i] = ts[i + 1]
      /\ \A k \in DOMAIN ts : k = 1 \/ (k - 1 \in DOMAIN q /\ q[k - 1] = ts[k])
  BY Popped
<1>2. /\ Len(tc) \in Nat /\ DOMAIN tc = 1 .. Len(tc) /\ DOMAIN r = 1 .. (Len(tc) + 1)
      /\ r[Len(tc) + 1] = m /\ \A i \in DOMAIN tc : r[i] = tc[i]
  OBVIOUS
<1> HIDE DEF q, r
<1>3. \A k \in DOMAIN ts :
        IsStatus(ts[k]) \/ IsList(ts[k]) => k - 1 \in DOMAIN q /\ q[k - 1] = ts[k]
  BY <1>1
<1>4. \A i \in DOMAIN r : IsInfo(r[i]) => i \in DOMAIN tc /\ r[i] = tc[i]
  BY <1>2
<1>5. ASSUME NEW i \in DOMAIN q, NEW j \in DOMAIN ts, j > i + 1
      PROVE  j - 1 \in DOMAIN q /\ q[j - 1] = ts[j] /\ j - 1 > i
  BY <1>1, <1>5
<1>6. Follows(cl, s2, q, r)
  <2>1. ASSUME NEW i \in DOMAIN q, IsStatus(q[i]), \A j \in DOMAIN q : j > i => ~IsStatus(q[j])
        PROVE  q[i].status = cl.wanted
    <3>1. \A j \in DOMAIN ts : j > i + 1 => ~IsStatus(ts[j])
      BY <1>5, <2>1
    <3> QED  BY <1>1, <2>1, <3>1 DEF Visible, Follows
  <2>2. (\A i \in DOMAIN q : ~IsStatus(q[i])) => \A i \in DOMAIN ts : ~IsStatus(ts[i])
    BY <1>3
  <2>3. ASSUME NEW i \in DOMAIN r, IsInfo(r[i]), \A j \in DOMAIN r : j > i => ~IsInfo(r[j])
        PROVE  r[i].status = s2.status
    BY <1>2, <1>4, <2>3 DEF Visible, Follows
  <2>4. (\A i \in DOMAIN r : ~IsInfo(r[i])) => cl.self = s2.status
    BY <1>2 DEF Visible, Follows
  <2> QED  BY <2>1, <2>2, <2>3, <2>4 DEF Visible, Follows
<1>7. ASSUME OneAsked(ts, tc) PROVE OneAsked(q, r)
  <2>1. ASSUME NEW i \in DOMAIN q, NEW j \in DOMAIN q, IsStatus(q[i]), IsStatus(q[j]) PROVE i = j
    <3>1. i + 1 = j + 1
      BY <1>1, <1>7, <2>1 DEF OneAsked
    <3> QED  BY <1>1, <3>1
  <2> QED  BY <1>1, <1>4, <1>7, <2>1 DEF OneAsked
<1>8. ASSUME ListFirst(cl, sv, ts, vl) PROVE ListFirst(cl, s2, q, vl)
  <2>1. (\A k \in DOMAIN q : ~IsList(q[k])) => s2.privacy = Right(cl.wanted, vl)
    BY <1>3, <1>8 DEF ListFirst
  <2>2. ASSUME NEW k \in DOMAIN q, IsList(q[k]), \A j \in DOMAIN q : j > k => ~IsList(q[j])
        PROVE  [list |-> q[k].type, people |-> q[k].people] = Right(cl.wanted, vl)
    <3>1. \A j \in DOMAIN ts : j > k + 1 => ~IsList(ts[j])
      BY <1>5, <2>2
    <3> QED  BY <1>1, <1>8, <2>2, <3>1 DEF ListFirst
  <2>3. ASSUME cl.wanted = "invisible", NEW k \in DOMAIN q, IsList(q[k])
        PROVE  \E i \in DOMAIN q : i > k /\ IsStatus(q[i])
    <3>1. PICK i \in DOMAIN ts : i > k + 1 /\ IsStatus(ts[i])
      BY <1>1, <1>8, <2>3 DEF ListFirst
    <3> QED  BY <1>5, <3>1
  <2>4. cl.wanted = "invisible" /\ s2.status = "invisible" => \A k \in DOMAIN q : ~IsList(q[k])
    BY <1>1, <1>8 DEF ListFirst
  <2> QED  BY <2>1, <2>2, <2>3, <2>4 DEF ListFirst
<1>9. Visible(cl, s2, q, r, vl, un)
  BY <1>6, <1>7, <1>8 DEF Visible
<1> QED  BY <1>9 DEF q, r

(* Client::setStatus() while logged in: the new status is sent, and with   *)
(* it the list it needs, when the old one is known to be confirmed.        *)
ToldLater(st, marks, later) ==
  \/ Iq!Unsettled
  \/ IF Iq!Invisible(st) # Iq!Invisible(qClient.self) THEN later # marks
     ELSE qUntold \/ later # qVislist

LEMMA VisibleTold ==
  ASSUME IqTypes, VisibilitySound, Iq!LoggedIn, NEW st \in Iq!Choosable,
         NEW marks \in SUBSET Iq!Marks, NEW later \in SUBSET Iq!Marks
  PROVE  /\ Iq!StatusPackets(st, marks) \in Seq(Packets)
         /\ \A i \in DOMAIN Iq!StatusPackets(st, marks) :
              LET p == Iq!StatusPackets(st, marks)[i] IN ~IsEdit(p) /\ ~IsRequest(p)
         /\ Visible([qClient EXCEPT !.wanted = st], qServer,
                    qToServer \o Iq!StatusPackets(st, marks), qToClient, later,
                    ToldLater(st, marks, later))
<1> DEFINE p == Iq!StatusPackets(st, marks)
           S == Iq!StatusPacket(st)
           L == Iq!ListPacket(How(st), marks)
           cNew == [qClient EXCEPT !.wanted = st]
           q == qToServer \o p
           n == Len(qToServer)
           flip == Iq!Invisible(st) # Iq!Invisible(qClient.self)
<1>1. /\ qToServer \in Seq(Packets) /\ qToClient \in Seq(Answers) /\ qClient.state = "in"
      /\ n \in Nat /\ DOMAIN qToServer = 1 .. n
  BY DEF IqTypes, Iq!LoggedIn
<1>2. cNew.state = "in" /\ cNew.wanted = st /\ cNew.self = qClient.self
  BY <1>1 DEF IqTypes, Clients
<1>3. /\ S \in Packets /\ S.status = st /\ IsStatus(S) /\ ~IsList(S) /\ ~IsEdit(S) /\ ~IsRequest(S)
  BY DEF Packets, Iq!StatusPacket, IsStatus, IsList, IsEdit, IsRequest
<1>4. /\ L \in Packets /\ L.type = How(st) /\ L.people = Iq!Marked(How(st), marks)
      /\ IsList(L) /\ ~IsStatus(L) /\ ~IsEdit(L) /\ ~IsRequest(L)
  BY DEF Packets, Iq!ListPacket, Iq!Marked, How, IsStatus, IsList, IsEdit, IsRequest
<1>5. p = IF ~flip THEN <<S>> ELSE IF st = "invisible" THEN <<L, S>> ELSE <<S, L>>
  BY DEF Iq!StatusPackets, Iq!Invisible, How
<1> HIDE DEF S, L, cNew, n, p
<1>6. p \in Seq(Packets)
  BY <1>3, <1>4, <1>5
<1>7. Len(p) = (IF flip THEN 2 ELSE 1) /\ DOMAIN p = 1 .. Len(p)
  <2>1. CASE ~flip
    <3>1. p = <<S>>
      BY <1>5, <2>1
    <3> HIDE DEF flip
    <3> QED  BY <2>1, <3>1
  <2>2. CASE flip
    <3>1. p = <<L, S>> \/ p = <<S, L>>
      BY <1>5, <2>2
    <3> HIDE DEF flip
    <3> QED  BY <2>2, <3>1
  <2> QED  BY <2>1, <2>2
<1>8. /\ DOMAIN q = 1 .. (n + Len(p))
      /\ \A i \in 1 .. n : q[i] = qToServer[i]
      /\ \A i \in 1 .. Len(p) : q[n + i] = p[i]
  <2>1. /\ DOMAIN q = 1 .. (Len(qToServer) + Len(p))
        /\ \A i \in DOMAIN qToServer : i \in DOMAIN q /\ q[i] = qToServer[i]
        /\ \A i \in DOMAIN p : Len(qToServer) + i \in DOMAIN q /\ q[Len(qToServer) + i] = p[i]
    BY <1>1, <1>6, Joined
  <2> QED  BY <1>1, <1>7, <2>1 DEF n
<1> HIDE DEF q
<1>9. DOMAIN q \subseteq Nat
  BY <1>8
<1>10. PICK s \in DOMAIN q : s > n /\ q[s] = S /\ \A i \in DOMAIN q : i > n /\ i # s => q[i] = L
  <2>1. CASE ~flip
    <3>1. q[n + 1] = S /\ DOMAIN q = 1 .. (n + 1)
      BY <1>1, <1>5, <1>7, <1>8, <2>1
    <3> QED  BY <1>1, <3>1
  <2>2. CASE flip /\ st = "invisible"
    <3>1. q[n + 1] = L /\ q[n + 2] = S /\ DOMAIN q = 1 .. (n + 2)
      BY <1>1, <1>5, <1>7, <1>8, <2>2
    <3> QED  BY <1>1, <3>1
  <2>3. CASE flip /\ st # "invisible"
    <3>1. q[n + 1] = S /\ q[n + 2] = L /\ DOMAIN q = 1 .. (n + 2)
      BY <1>1, <1>5, <1>7, <1>8, <2>3
    <3> QED  BY <1>1, <3>1
  <2> QED  BY <2>1, <2>2, <2>3
<1>11. \A i \in DOMAIN q : i > n /\ IsStatus(q[i]) => i = s
  BY <1>4, <1>10
<1>12. \A i \in DOMAIN q : i <= n => i \in DOMAIN qToServer /\ q[i] = qToServer[i]
  BY <1>1, <1>8
<1>13. Follows(cNew, qServer, q, qToClient)
  <2>1. ASSUME NEW i \in DOMAIN q, IsStatus(q[i]), \A j \in DOMAIN q : j > i => ~IsStatus(q[j])
        PROVE  q[i].status = st
    <3>1. ~(i < s)
      BY <1>3, <1>10, <2>1
    <3>2. i > n
      BY <1>1, <1>9, <1>10, <3>1
    <3> QED  BY <1>3, <1>10, <1>11, <2>1, <3>2
  <2> QED  BY <1>2, <1>3, <1>10, <2>1 DEF VisibilitySound, Visible, Follows
<1>14. ASSUME ~ToldLater(st, marks, later)
       PROVE  OneAsked(q, qToClient) /\ ListFirst(cNew, qServer, q, later)
  <2>1. /\ \A i \in DOMAIN qToServer : ~IsStatus(qToServer[i])
        /\ \A i \in DOMAIN qToClient : ~IsInfo(qToClient[i])
    BY <1>14 DEF ToldLater, Iq!Unsettled, IsStatus, IsInfo
  <2>2. qClient.self = qServer.status /\ qServer.status = qClient.wanted
    BY <1>1, <2>1 DEF VisibilitySound, Visible, Follows
  <2>3. \A i \in DOMAIN q : IsStatus(q[i]) => i = s
    BY <1>1, <1>9, <1>11, <1>12, <2>1
  <2>4. OneAsked(q, qToClient)
    BY <2>1, <2>3 DEF OneAsked
  <2>5. CASE ~flip
    <3>1. later = qVislist /\ ~qUntold /\ (st = "invisible" <=> qClient.wanted = "invisible")
      BY <1>14, <2>2, <2>5 DEF ToldLater, Iq!Invisible
    <3>2. ListFirst(qClient, qServer, qToServer, later)
      BY <1>1, <3>1 DEF VisibilitySound, Visible
    <3>3. Right(st, later) = Right(qClient.wanted, later)
      BY <3>1 DEF Right, How
    <3>4. s = n + 1 /\ DOMAIN q = 1 .. (n + 1)
      BY <1>1, <1>7, <1>8, <1>10, <2>5
    <3>5. \A k \in DOMAIN q : IsList(q[k]) => k \in DOMAIN qToServer /\ q[k] = qToServer[k] /\ k < s
      BY <1>1, <1>3, <1>10, <1>12, <3>4
    <3>6. \A k \in DOMAIN qToServer : k \in DOMAIN q /\ q[k] = qToServer[k]
      BY <1>1, <1>8, <3>4
    <3>7. (\A k \in DOMAIN q : ~IsList(q[k])) => qServer.privacy = Right(st, later)
      BY <3>2, <3>3, <3>6 DEF ListFirst
    <3>8. ASSUME NEW k \in DOMAIN q, IsList(q[k]), \A j \in DOMAIN q : j > k => ~IsList(q[j])
          PROVE  [list |-> q[k].type, people |-> q[k].people] = Right(st, later)
      <4>1. \A j \in DOMAIN qToServer : j > k => ~IsList(qToServer[j])
        BY <3>6, <3>8
      <4> QED  BY <3>2, <3>3, <3>5, <3>8, <4>1 DEF ListFirst
    <3>9. st = "invisible" =>
            \A k \in DOMAIN q : IsList(q[k]) => \E i \in DOMAIN q : i > k /\ IsStatus(q[i])
      BY <1>3, <1>9, <1>10, <3>5
    <3>10. st = "invisible" /\ qServer.status = "invisible" => \A k \in DOMAIN q : ~IsList(q[k])
      BY <3>1, <3>2, <3>5 DEF ListFirst
    <3> QED  BY <1>2, <2>4, <3>7, <3>8, <3>9, <3>10 DEF ListFirst
  <2>6. CASE flip
    <3>1. later = marks /\ ~(st = "invisible" /\ qServer.status = "invisible")
      BY <1>14, <2>2, <2>6 DEF ToldLater, Iq!Invisible
    <3>2. [list |-> L.type, people |-> L.people] = Right(st, later)
      BY <1>4, <3>1 DEF Right
    <3>3. PICK l \in DOMAIN q : l > n /\ q[l] = L /\ (st = "invisible" => l < s)
                                /\ \A i \in DOMAIN q : i > n => i = l \/ i = s
      <4>1. CASE st = "invisible"
        <5>1. q[n + 1] = L /\ q[n + 2] = S /\ DOMAIN q = 1 .. (n + 2)
          BY <1>1, <1>5, <1>7, <1>8, <2>6, <4>1
        <5>2. S # L
          BY <1>3, <1>4
        <5>3. s = n + 2
          BY <1>1, <1>10, <5>1, <5>2
        <5> QED  BY <1>1, <5>1, <5>3
      <4>2. CASE st # "invisible"
        <5>1. q[n + 1] = S /\ q[n + 2] = L /\ DOMAIN q = 1 .. (n + 2)
          BY <1>1, <1>5, <1>7, <1>8, <2>6, <4>2
        <5>2. S # L
          BY <1>3, <1>4
        <5>3. s = n + 1
          BY <1>1, <1>10, <5>1, <5>2
        <5> QED  BY <1>1, <4>2, <5>1, <5>3
      <4> QED  BY <4>1, <4>2
    <3>4. ASSUME NEW k \in DOMAIN q, IsList(q[k]) PROVE k <= n \/ k = l
      BY <1>1, <1>3, <1>9, <1>10, <3>3, <3>4
    <3>5. ASSUME NEW k \in DOMAIN q, IsList(q[k]), \A j \in DOMAIN q : j > k => ~IsList(q[j])
          PROVE  k = l
      BY <1>1, <1>4, <1>9, <3>3, <3>4, <3>5
    <3>6. st = "invisible" =>
            \A k \in DOMAIN q : IsList(q[k]) => \E i \in DOMAIN q : i > k /\ IsStatus(q[i])
      BY <1>1, <1>3, <1>9, <1>10, <3>3, <3>4
    <3> QED  BY <1>2, <1>4, <2>4, <3>1, <3>2, <3>3, <3>5, <3>6 DEF ListFirst
  <2> QED  BY <2>5, <2>6
<1>15. Visible(cNew, qServer, q, qToClient, later, ToldLater(st, marks, later))
  BY <1>13, <1>14 DEF Visible
<1>16. \A i \in DOMAIN p : ~IsEdit(p[i]) /\ ~IsRequest(p[i])
  <2> TAKE i \in DOMAIN p
  <2>1. p[i] \in {S, L}
    BY <1>5, <1>7
  <2> QED  BY <1>3, <1>4, <2>1
<1> QED  BY <1>6, <1>15, <1>16 DEF p, q, cNew

(* The user is logged in: he asks for his list, and tells his status.      *)
LEMMA VisibleLogin ==
  ASSUME IqTypes, QuietOut, VisibilitySound, ~Iq!LoggedIn
  PROVE  /\ Iq!LoginPackets \in Seq(Packets)
         /\ \A i \in DOMAIN Iq!LoginPackets : ~IsEdit(Iq!LoginPackets[i])
         /\ \A i, j \in DOMAIN Iq!LoginPackets :
              IsRequest(Iq!LoginPackets[i]) /\ IsRequest(Iq!LoginPackets[j]) => i = j
         /\ Visible([qClient EXCEPT !.state = "in"], qServer, Iq!LoginPackets, qToClient,
                    qVislist, FALSE)
<1> DEFINE st == qClient.wanted
           S == Iq!StatusPacket(st)
           L == Iq!ListPacket(How(st), qVislist)
           R == [type |-> "list"]
           cNew == [qClient EXCEPT !.state = "in"]
           q == Iq!LoginPackets
<1>1. cNew.state = "in" /\ cNew.wanted = st /\ cNew.self = qClient.self /\ st \in Iq!Choosable
  BY DEF IqTypes, Clients
<1>2. S \in Packets /\ S.status = st /\ IsStatus(S) /\ ~IsList(S) /\ ~IsEdit(S) /\ ~IsRequest(S)
  BY <1>1 DEF Packets, Iq!StatusPacket, IsStatus, IsList, IsEdit, IsRequest
<1>3. /\ L \in Packets /\ L.type = How(st) /\ L.people = Iq!Marked(How(st), qVislist)
      /\ IsList(L) /\ ~IsStatus(L) /\ ~IsEdit(L) /\ ~IsRequest(L)
  BY DEF Packets, Iq!ListPacket, Iq!Marked, How, IsStatus, IsList, IsEdit, IsRequest
<1>4. R \in Packets /\ ~IsStatus(R) /\ ~IsList(R) /\ ~IsEdit(R)
  BY DEF Packets, IsStatus, IsList, IsEdit
<1>5. q = IF st = "invisible" THEN <<L, S, R>> ELSE <<S, L, R>>
  BY DEF Iq!LoginPackets, Iq!Invisible, How
<1>6. qToClient = <<>> /\ qServer.status = "offline" /\ qClient.self = qServer.status
  BY DEF QuietOut, VisibilitySound, Visible, Follows
<1>7. DOMAIN <<>> = {}
  OBVIOUS
<1> HIDE DEF S, L, R, q, cNew, st
<1>8. q \in Seq(Packets) /\ DOMAIN q = 1 .. 3 /\ q[3] = R
      /\ IF st = "invisible" THEN q[1] = L /\ q[2] = S ELSE q[1] = S /\ q[2] = L
  <2>1. CASE st = "invisible"
    BY <1>2, <1>3, <1>4, <1>5, <2>1
  <2>2. CASE st # "invisible"
    BY <1>2, <1>3, <1>4, <1>5, <2>2
  <2> QED  BY <2>1, <2>2
<1>9. \A i \in DOMAIN q : (IsStatus(q[i]) => q[i] = S) /\ (IsList(q[i]) => q[i] = L)
                          /\ (IsRequest(q[i]) => i = 3) /\ ~IsEdit(q[i])
  BY <1>2, <1>3, <1>4, <1>8
<1>10. Follows(cNew, qServer, q, qToClient)
  <2>1. \E i \in DOMAIN q : IsStatus(q[i])
    BY <1>2, <1>8
  <2>2. qToClient = <<>> /\ DOMAIN qToClient = {}
    BY <1>6, <1>7
  <2> QED  BY <1>1, <1>2, <1>6, <1>9, <2>1, <2>2 DEF Follows
<1>11. OneAsked(q, qToClient)
  <2>1. DOMAIN qToClient = {}
    BY <1>6, <1>7
  <2>2. \A i, j \in DOMAIN q : IsStatus(q[i]) /\ IsStatus(q[j]) => i = j
    BY <1>2, <1>3, <1>4, <1>8
  <2> QED  BY <2>1, <2>2 DEF OneAsked
<1>12. ListFirst(cNew, qServer, q, qVislist)
  <2>1. [list |-> L.type, people |-> L.people] = Right(st, qVislist)
    BY <1>3 DEF Right
  <2>2. \E k \in DOMAIN q : IsList(q[k])
    BY <1>3, <1>8
  <2>3. st = "invisible" =>
          \A k \in DOMAIN q : IsList(q[k]) => \E i \in DOMAIN q : i > k /\ IsStatus(q[i])
    BY <1>2, <1>3, <1>4, <1>8
  <2> QED  BY <1>1, <1>6, <1>9, <2>1, <2>2, <2>3 DEF ListFirst
<1>13. Visible(cNew, qServer, q, qToClient, qVislist, FALSE)
  BY <1>10, <1>11, <1>12 DEF Visible
<1> QED  BY <1>8, <1>9, <1>13 DEF q, cNew

(* Nobody is told anything while the user is not logged in. *)
LEMMA VisibleOff ==
  ASSUME NEW cl, cl.state # "in", NEW sv, cl.self = sv.status, NEW vl, NEW un
  PROVE  Visible(cl, sv, <<>>, <<>>, vl, un)
<1>1. DOMAIN <<>> = {}
  OBVIOUS
<1> QED  BY <1>1, Zenon DEF Visible, Follows

(* The lists that are sent are those of the client. *)
LEMMA VisibleMarked ==
  ASSUME NEW cl, NEW cNew, cNew.state = cl.state, cNew.wanted = cl.wanted, cNew.self = cl.self,
         NEW sv, NEW s2, s2.status = sv.status, s2.privacy = sv.privacy,
         NEW ts, NEW tc, NEW vl, NEW un, Visible(cl, sv, ts, tc, vl, un),
         NEW v2, NEW u2, ~u2 => ~un /\ v2 = vl
  PROVE  Visible(cNew, s2, ts, tc, v2, u2)
BY DEF Visible, Follows, ListFirst

-----------------------------------------------------------------------------
(* The contact list, by what becomes of the packets.  A status or a list   *)
(* of people is sent; an answer about the status is received or given.     *)
LEMMA ListedPush ==
  ASSUME NEW on, NEW sb, NEW tr, NEW sv, NEW as, NEW ts \in Seq(Packets), NEW tc,
         Listed(on, sb, tr, sv, as, ts, tc), NEW t \in Seq(Packets),
         \A i \in DOMAIN t : ~IsEdit(t[i]) /\ ~IsRequest(t[i])
  PROVE  Listed(on, sb, tr, sv, as, ts \o t, tc)
<1> DEFINE q == ts \o t
<1>1. /\ DOMAIN ts \subseteq DOMAIN q /\ \A i \in DOMAIN ts : q[i] = ts[i]
      /\ \A k \in DOMAIN q : k \in DOMAIN ts \/ (k - Len(ts) \in DOMAIN t /\ q[k] = t[k - Len(ts)])
  BY Joined
<1> HIDE DEF q
<1>2. \A k \in DOMAIN q : IsEdit(q[k]) \/ IsRequest(q[k]) => k \in DOMAIN ts /\ q[k] = ts[k]
  BY <1>1
<1>3. EditSent(q) <=> EditSent(ts)
  BY <1>1, <1>2 DEF EditSent
<1>4. Requested(sb, sv, q, tc)
  BY <1>2 DEF Listed, Requested
<1>5. OneEdit(sb, q, tc)
  BY <1>2, <1>3 DEF Listed, OneEdit
<1>6. Listed(on, sb, tr, sv, as, q, tc)
  BY <1>3, <1>4, <1>5 DEF Listed, Out
<1> QED  BY <1>6 DEF q

LEMMA ListedPop ==
  ASSUME NEW on, NEW sb, NEW tr, NEW sv, NEW as, NEW ts, NEW tc \in Seq(Answers), tc # <<>>,
         Listed(on, sb, tr, sv, as, ts, tc), IsInfo(Head(tc))
  PROVE  Listed(on, sb, tr, sv, as, ts, Tail(tc))
<1> DEFINE q == Tail(tc)
<1>1. /\ Head(tc) = tc[1] /\ DOMAIN tc \subseteq Nat /\ DOMAIN q \subseteq Nat
      /\ \A i \in DOMAIN q : i + 1 \in DOMAIN tc /\ q[i] = tc[i + 1]
      /\ \A k \in DOMAIN tc : k = 1 \/ (k - 1 \in DOMAIN q /\ q[k - 1] = tc[k])
  BY Popped
<1> HIDE DEF q
<1>2. \A k \in DOMAIN tc : IsAck(tc[k]) \/ IsRequest(tc[k]) => k - 1 \in DOMAIN q /\ q[k - 1] = tc[k]
  BY <1>1 DEF IsAck, IsRequest, IsInfo
<1>3. (Acked(q) <=> Acked(tc)) /\ (Accepted(q) <=> Accepted(tc))
  BY <1>1, <1>2 DEF Acked, Accepted
<1>4. \A i, j \in DOMAIN q : i + 1 = j + 1 => i = j
  BY <1>1
<1>5. Requested(sb, sv, ts, q)
  BY <1>1, <1>4 DEF Listed, Requested
<1>6. OneEdit(sb, ts, q)
  BY <1>1, <1>3, <1>4 DEF Listed, OneEdit
<1>7. Listed(on, sb, tr, sv, as, ts, q)
  BY <1>3, <1>5, <1>6 DEF Listed, Known, Out
<1> QED  BY <1>7 DEF q

LEMMA ListedAppend ==
  ASSUME NEW on, NEW sb, NEW tr, NEW sv, NEW as, NEW ts, NEW tc \in Seq(Answers),
         Listed(on, sb, tr, sv, as, ts, tc), NEW m \in Answers, IsInfo(m)
  PROVE  Listed(on, sb, tr, sv, as, ts, Append(tc, m))
<1> DEFINE q == Append(tc, m)
<1>1. /\ Len(tc) \in Nat /\ DOMAIN tc = 1 .. Len(tc) /\ DOMAIN q = 1 .. (Len(tc) + 1)
      /\ q[Len(tc) + 1] = m /\ \A i \in DOMAIN tc : q[i] = tc[i]
  OBVIOUS
<1> HIDE DEF q
<1>2. \A k \in DOMAIN q : IsAck(q[k]) \/ IsRequest(q[k]) => k \in DOMAIN tc /\ q[k] = tc[k]
  BY <1>1 DEF IsAck, IsRequest, IsInfo
<1>3. DOMAIN tc \subseteq DOMAIN q
  BY <1>1
<1>4. (Acked(q) <=> Acked(tc)) /\ (Accepted(q) <=> Accepted(tc))
  BY <1>1, <1>2, <1>3 DEF Acked, Accepted
<1>5. Requested(sb, sv, ts, q)
  BY <1>2 DEF Listed, Requested
<1>6. OneEdit(sb, ts, q)
  BY <1>2, <1>4 DEF Listed, OneEdit
<1>7. Listed(on, sb, tr, sv, as, ts, q)
  BY <1>4, <1>5, <1>6 DEF Listed, Known, Out
<1> QED  BY <1>7 DEF q

(* The server takes a status or a list of people. *)
LEMMA ListedTaken ==
  ASSUME NEW on, NEW sb, NEW tr, NEW sv, NEW s2, s2.kept = sv.kept, NEW as,
         NEW ts \in Seq(Packets), ts # <<>>, NEW tc,
         Listed(on, sb, tr, sv, as, ts, tc), ~IsEdit(Head(ts)), ~IsRequest(Head(ts))
  PROVE  Listed(on, sb, tr, s2, as, Tail(ts), tc)
<1> DEFINE q == Tail(ts)
<1>1. /\ Head(ts) = ts[1] /\ DOMAIN ts \subseteq Nat /\ DOMAIN q \subseteq Nat
      /\ \A i \in DOMAIN q : i + 1 \in DOMAIN ts /\ q[i] = ts[i + 1]
      /\ \A k \in DOMAIN ts : k = 1 \/ (k - 1 \in DOMAIN q /\ q[k - 1] = ts[k])
  BY Popped
<1> HIDE DEF q
<1>2. \A k \in DOMAIN ts : IsEdit(ts[k]) \/ IsRequest(ts[k]) => k - 1 \in DOMAIN q /\ q[k - 1] = ts[k]
  BY <1>1
<1>3. EditSent(q) <=> EditSent(ts)
  BY <1>1, <1>2 DEF EditSent
<1>4. \A i, j \in DOMAIN q : i + 1 = j + 1 => i = j
  BY <1>1
<1>5. Requested(sb, s2, q, tc)
  BY <1>1, <1>4 DEF Listed, Requested
<1>6. OneEdit(sb, q, tc)
  BY <1>1, <1>3, <1>4 DEF Listed, OneEdit
<1>7. Listed(on, sb, tr, s2, as, q, tc)
  BY <1>3, <1>5, <1>6 DEF Listed, Known, Out
<1> QED  BY <1>7 DEF q

(* The server takes the request for its list, or an edit. *)
LEMMA ListedRequestTaken ==
  ASSUME NEW on, NEW sb, NEW tr, NEW sv \in Servers, NEW as,
         NEW ts \in Seq(Packets), ts # <<>>, NEW tc \in Seq(Answers),
         Listed(on, sb, tr, sv, as, ts, tc), IsRequest(Head(ts)),
         NEW m \in Answers, IsRequest(m), m.people = sv.kept
  PROVE  Listed(on, sb, tr, sv, as, Tail(ts), Append(tc, m))
<1> DEFINE q == Tail(ts)
           r == Append(tc, m)
<1>1. /\ Head(ts) = ts[1] /\ DOMAIN ts = 1 .. Len(ts) /\ Len(ts) \in Nat /\ Len(ts) > 0
      /\ DOMAIN q \subseteq Nat /\ 0 \notin DOMAIN q
      /\ \A i \in DOMAIN q : i + 1 \in DOMAIN ts /\ q[i] = ts[i + 1]
      /\ \A k \in DOMAIN ts : k = 1 \/ (k - 1 \in DOMAIN q /\ q[k - 1] = ts[k])
  BY Popped
<1>2. /\ Len(tc) \in Nat /\ DOMAIN tc = 1 .. Len(tc) /\ DOMAIN r = 1 .. (Len(tc) + 1)
      /\ r[Len(tc) + 1] = m /\ \A i \in DOMAIN tc : r[i] = tc[i]
  OBVIOUS
<1> HIDE DEF q, r
<1>3. \A k \in DOMAIN ts : IsEdit(ts[k]) => k - 1 \in DOMAIN q /\ q[k - 1] = ts[k]
  BY <1>1 DEF IsEdit, IsRequest
<1>4. EditSent(q) <=> EditSent(ts)
  BY <1>1, <1>3 DEF EditSent
<1>5. \A k \in DOMAIN r : IsAck(r[k]) => k \in DOMAIN tc /\ r[k] = tc[k]
  BY <1>2 DEF IsAck, IsRequest
<1>6. DOMAIN tc \subseteq DOMAIN r
  BY <1>2
<1>7. (Acked(r) <=> Acked(tc)) /\ (Accepted(r) <=> Accepted(tc))
  BY <1>2, <1>5, <1>6 DEF Acked, Accepted
<1>8. \A i, j \in DOMAIN q : i + 1 = j + 1 => i = j
  BY <1>1
<1>9. Requested(sb, sv, q, r)
  <2>1. 1 \in DOMAIN ts /\ IsRequest(ts[1])
    BY <1>1
  <2>2. \A j \in DOMAIN tc : ~IsRequest(tc[j])
    BY <2>1 DEF Listed, Requested
  <2>3. ASSUME NEW i \in DOMAIN q PROVE ~IsRequest(q[i])
    <3>1. i + 1 \in DOMAIN ts /\ q[i] = ts[i + 1] /\ i + 1 # 1
      BY <1>1, <2>3
    <3> QED  BY <2>1, <3>1 DEF Listed, Requested
  <2>4. \A k \in DOMAIN r : IsRequest(r[k]) => k = Len(tc) + 1 /\ r[k] = m
    BY <1>2, <2>2
  <2>5. ~sb.canedit
    BY <2>1 DEF Listed, Requested
  <2> QED  BY <2>3, <2>4, <2>5 DEF Requested
<1>10. OneEdit(sb, q, r)
  BY <1>1, <1>4, <1>5, <1>7, <1>8 DEF Listed, OneEdit
<1>11. Listed(on, sb, tr, sv, as, q, r)
  BY <1>4, <1>7, <1>9, <1>10 DEF Listed, Known, Out
<1> QED  BY <1>11 DEF q, r

LEMMA ListedEditTaken ==
  ASSUME IqTypes, ListSound, Iq!LoggedIn, qToServer # <<>>, IsEdit(Head(qToServer)),
         NEW ok \in BOOLEAN
  PROVE  LET s2 == IF ok THEN Iq!Accepts(Head(qToServer).edit) ELSE qServer
         IN /\ s2 \in Servers /\ s2.status = qServer.status /\ s2.privacy = qServer.privacy
            /\ Listed(Iq!LoggedIn, qSbl, qTree, s2, qAstray, Tail(qToServer),
                      Append(qToClient, [type |-> "ack", ok |-> ok]))
<1> DEFINE q == Tail(qToServer)
           m == [type |-> "ack", ok |-> ok]
           r == Append(qToClient, m)
           e == Head(qToServer).edit
           s2 == IF ok THEN Iq!Accepts(e) ELSE qServer
           n == Len(qToClient)
<1>1. /\ Head(qToServer) = qToServer[1] /\ DOMAIN qToServer = 1 .. Len(qToServer)
      /\ Len(qToServer) \in Nat /\ Len(qToServer) > 0
      /\ DOMAIN q \subseteq Nat /\ 0 \notin DOMAIN q /\ Head(qToServer) \in Packets
      /\ \A i \in DOMAIN q : i + 1 \in DOMAIN qToServer /\ q[i] = qToServer[i + 1]
      /\ \A k \in DOMAIN qToServer : k = 1 \/ (k - 1 \in DOMAIN q /\ q[k - 1] = qToServer[k])
  BY Popped DEF IqTypes
<1>2. /\ n \in Nat /\ DOMAIN qToClient = 1 .. n /\ DOMAIN r = 1 .. (n + 1)
      /\ r[n + 1] = m /\ \A i \in DOMAIN qToClient : r[i] = qToClient[i]
  <2>1. m \in Answers /\ qToClient \in Seq(Answers)
    BY DEF Answers, IqTypes
  <2> HIDE DEF m
  <2> QED  BY <2>1
<1>3. IsAck(m) /\ ~IsRequest(m) /\ m.ok = ok
  BY DEF IsAck, IsRequest
<1>4. e \in Iq!Snacs
  BY <1>1 DEF Packets, IsEdit
<1> HIDE DEF q, r, m, n
<1>5. 1 \in DOMAIN qToServer /\ IsEdit(qToServer[1]) /\ EditSent(qToServer)
  BY <1>1 DEF EditSent
<1>6. /\ qSbl.canedit /\ qSbl.inedit /\ ~Acked(qToClient) /\ e = Head(qSbl.snacs)
      /\ Requested(qSbl, qServer, qToServer, qToClient) /\ OneEdit(qSbl, qToServer, qToClient)
      /\ Known(Iq!LoggedIn, qSbl, qServer, qToClient)
  BY <1>1, <1>5 DEF ListSound, Listed, OneEdit
<1>7. qSbl.known = qServer.kept
  BY <1>6 DEF Known, Acked, Accepted
<1>8. ASSUME NEW i \in DOMAIN q PROVE ~IsEdit(q[i])
  <2>1. i + 1 \in DOMAIN qToServer /\ q[i] = qToServer[i + 1] /\ i + 1 # 1
    BY <1>1, <1>8
  <2> QED  BY <1>5, <1>6, <2>1 DEF OneEdit
<1>9. \A k \in DOMAIN r : IsAck(r[k]) => k = n + 1 /\ r[k] = m
  BY <1>2, <1>6 DEF Acked
<1>10. ~EditSent(q) /\ Acked(r) /\ (Accepted(r) <=> ok)
  <2>1. n + 1 \in DOMAIN r
    BY <1>2
  <2> QED  BY <1>2, <1>3, <1>8, <1>9, <2>1 DEF EditSent, Acked, Accepted
<1>11. /\ s2 \in Servers /\ s2.status = qServer.status /\ s2.privacy = qServer.privacy
       /\ s2.kept = IF ok THEN Iq!Applied(qSbl, e).known ELSE qServer.kept
       /\ \A c \in Buddies : ~Concerns(e, c) => (c \in s2.kept <=> c \in qServer.kept)
  <2>1. qServer \in Servers /\ qSbl \in Sbls
    BY DEF IqTypes
  <2>2. CASE e.op = "add"
    <3>1. e.who \in Buddies
      BY <1>4, <2>2 DEF Iq!Snacs, Iq!Edits
    <3> HIDE DEF e
    <3>2. CASE ok
      <4>1. s2 = [qServer EXCEPT !.kept = @ \cup {e.who}]
            /\ Iq!Applied(qSbl, e) = [qSbl EXCEPT !.known = @ \cup {e.who}]
        BY <2>2, <3>2 DEF Iq!Accepts, Iq!Applied
      <4> QED  BY <1>7, <2>1, <2>2, <3>1, <3>2, <4>1 DEF Servers, Sbls, Concerns
    <3> QED  BY <2>1, <3>2
  <2>3. CASE e.op = "remove"
    <3>1. e.who \in Buddies
      BY <1>4, <2>3 DEF Iq!Snacs, Iq!Edits
    <3> HIDE DEF e
    <3>2. CASE ok
      <4>1. s2 = [qServer EXCEPT !.kept = @ \ {e.who}]
            /\ Iq!Applied(qSbl, e) = [qSbl EXCEPT !.known = @ \ {e.who}]
        BY <2>3, <3>2 DEF Iq!Accepts, Iq!Applied
      <4> QED  BY <1>7, <2>1, <2>3, <3>1, <3>2, <4>1 DEF Servers, Sbls, Concerns
    <3> QED  BY <2>1, <3>2
  <2>4. CASE e.op = "group"
    <3>1. e.who \in Groups
      BY <1>4, <2>4 DEF Iq!Snacs, Iq!Edits
    <3> HIDE DEF e
    <3>2. CASE ok
      <4>1. s2 = [qServer EXCEPT !.groups = @ \cup {e.who}]
            /\ Iq!Applied(qSbl, e) = [qSbl EXCEPT !.groups = @ \cup {e.who}]
        BY <2>4, <3>2 DEF Iq!Accepts, Iq!Applied
      <4> QED  BY <1>7, <2>1, <2>4, <3>1, <3>2, <4>1 DEF Servers, Sbls, Concerns
    <3> QED  BY <2>1, <3>2
  <2>5. CASE e.op = "update"
    <3> HIDE DEF e
    <3>1. Iq!Accepts(e) = qServer /\ Iq!Applied(qSbl, e) = qSbl
      BY <2>5 DEF Iq!Accepts, Iq!Applied
    <3> QED  BY <1>7, <2>1, <3>1
  <2>6. e.op \in {"add", "remove", "group", "update"}
    BY <1>4 DEF Iq!Snacs, Iq!Edits
  <2> QED  BY <2>2, <2>3, <2>4, <2>5, <2>6
<1> HIDE DEF s2, e
<1>12. Requested(qSbl, s2, q, r)
  <2>1. \A i \in DOMAIN qToServer : ~IsRequest(qToServer[i])
    BY <1>6 DEF Requested
  <2>2. \A k \in DOMAIN qToClient : ~IsRequest(qToClient[k])
    BY <1>6 DEF Requested
  <2>3. \A k \in DOMAIN r : ~IsRequest(r[k])
    BY <1>2, <1>3, <2>2
  <2> QED  BY <1>1, <2>1, <2>3 DEF Requested
<1>13. OneEdit(qSbl, q, r)
  BY <1>6, <1>8, <1>9, <1>10 DEF OneEdit
<1>14. Known(Iq!LoggedIn, qSbl, s2, r)
  BY <1>6, <1>7, <1>10, <1>11 DEF Known
<1>15. Agree(qSbl.edits, Out(qSbl, q, r), qTree.people, s2.kept, qAstray, qSbl.canedit)
  <2>1. Out(qSbl, q, r) = {e} /\ Out(qSbl, qToServer, qToClient) = {e}
    BY <1>5, <1>6, <1>10 DEF Out
  <2>2. Agree(qSbl.edits, {e}, qTree.people, qServer.kept, qAstray, qSbl.canedit)
    BY <2>1 DEF ListSound, Listed
  <2>3. Agree(qSbl.edits, {e}, qTree.people, s2.kept, qAstray, qSbl.canedit)
    BY <1>11, <2>2 DEF Agree
  <2> QED  BY <2>1, <2>3
<1>16. Listed(Iq!LoggedIn, qSbl, qTree, s2, qAstray, q, r)
  BY <1>12, <1>13, <1>14, <1>15 DEF Listed
<1> QED  BY <1>11, <1>16 DEF q, r, m, s2, e

(* Edits are looked at when none is under way: the first that does not     *)
(* come to nothing is sent.                                                *)
LEMMA ListedProcess ==
  ASSUME IqConstants, NEW s \in Sbls, s.canedit, s.inedit => s.snacs # <<>>,
         \A i \in DOMAIN s.snacs : i > 1 => s.snacs[i].op = "update",
         NEW on, NEW tr, NEW sv, NEW as, NEW ts \in Seq(Packets), NEW tc,
         Requested(s, sv, ts, tc), ~EditSent(ts), ~Acked(tc), s.known = sv.kept,
         Agree(s.edits, {}, tr.people, sv.kept, as, TRUE)
  PROVE  LET p == Iq!processSblEdits(s)
         IN /\ p \in Sbls /\ p.canedit
            /\ Iq!Sent(s, p) \in Seq(Packets)
            /\ \A i \in DOMAIN Iq!Sent(s, p) : IsEdit(Iq!Sent(s, p)[i])
            /\ Listed(on, p, tr, sv, as \cup Iq!Forsaken(s), ts \o Iq!Sent(s, p), tc)
<1> DEFINE p == Iq!processSblEdits(s)
           t == Iq!Sent(s, p)
           q == ts \o t
           f == as \cup Iq!Forsaken(s)
<1>1. CASE s.inedit
  <2>1. p = s
    BY <1>1 DEF Iq!processSblEdits
  <2>2. Iq!Forsaken(s) = {}
    BY <1>1 DEF Iq!Forsaken
  <2> HIDE DEF p
  <2>3. t = <<>>
    BY <1>1, <2>1 DEF Iq!Sent
  <2>4. t \in Seq(Packets) /\ DOMAIN t = {} /\ q = ts
    BY <2>3
  <2>5. OneEdit(s, ts, tc)
    BY <1>1 DEF OneEdit, EditSent, Acked
  <2>6. Known(on, s, sv, tc)
    BY DEF Known, Acked, Accepted
  <2>7. Out(s, ts, tc) = {}
    BY DEF Out
  <2>8. f = as
    BY <2>2
  <2>9. Listed(on, p, tr, sv, f, q, tc)
    BY <2>1, <2>4, <2>5, <2>6, <2>7, <2>8 DEF Listed
  <2> HIDE DEF t, q, f
  <2>10. \A i \in DOMAIN t : IsEdit(t[i])
    BY <2>4
  <2> QED  BY <2>1, <2>4, <2>9, <2>10 DEF p, t, q, f
<1>2. CASE ~s.inedit
  <2>1. PICK k \in 1 .. Len(s.edits) + 1 :
          /\ p \in Sbls /\ p.known = s.known /\ p.groups = s.groups /\ p.canedit
          /\ IF k = Len(s.edits) + 1
             THEN p.edits = <<>> /\ p.snacs = s.snacs /\ ~p.inedit
             ELSE /\ p.edits = SubSeq(s.edits, k + 1, Len(s.edits))
                  /\ p.snacs = Iq!Packets(s.edits[k]) /\ p.inedit
    BY <1>2, ProcessSound
  <2>2. Agree(p.edits, IF p.inedit THEN {Head(p.snacs)} ELSE {}, tr.people, sv.kept, f, TRUE)
    BY <1>2, AgreeProcessed
  <2>3. CASE k = Len(s.edits) + 1
    <3>1. p.edits = <<>> /\ p.snacs = s.snacs /\ ~p.inedit
      BY <2>1, <2>3
    <3> HIDE DEF p
    <3>2. t = <<>>
      BY <3>1 DEF Iq!Sent
    <3>3. t \in Seq(Packets) /\ DOMAIN t = {} /\ q = ts
      BY <3>2
    <3>4. OneEdit(p, ts, tc)
      BY <3>1 DEF OneEdit, EditSent, Acked
    <3>5. Known(on, p, sv, tc)
      BY <2>1 DEF Known, Acked, Accepted
    <3>6. Out(p, ts, tc) = {}
      BY DEF Out
    <3>7. Requested(p, sv, ts, tc)
      BY <2>1 DEF Requested
    <3>8. Listed(on, p, tr, sv, f, q, tc)
      BY <2>1, <2>2, <3>1, <3>3, <3>4, <3>5, <3>6, <3>7 DEF Listed
    <3> HIDE DEF t, q, f
    <3>9. \A i \in DOMAIN t : IsEdit(t[i])
      BY <3>3
    <3> QED  BY <2>1, <3>3, <3>8, <3>9 DEF p, t, q, f
  <2>4. CASE k # Len(s.edits) + 1
    <3> DEFINE e == s.edits[k]
               u == [op |-> "update", who |-> IF e.op = "group" THEN e.who ELSE GroupOf[e.who]]
               m == [type |-> "edit", edit |-> e]
    <3>1. p.snacs = <<e, u>> /\ p.inedit
      BY <2>1, <2>4 DEF Iq!Packets
    <3>2. e \in Iq!Edits
      BY <2>4 DEF Sbls
    <3>3. m \in Packets /\ IsEdit(m) /\ ~IsRequest(m) /\ m.edit = e
      BY <3>2 DEF Packets, Iq!Snacs, IsEdit, IsRequest
    <3> HIDE DEF p
    <3>4. Head(p.snacs) = e
      BY <3>1
    <3>5. t = <<m>>
      BY <1>2, <3>1, <3>4 DEF Iq!Sent
    <3>6. u.op = "update"
      OBVIOUS
    <3> HIDE DEF u, e, m
    <3>7. t \in Seq(Packets) /\ DOMAIN t = {1} /\ t[1] = m /\ Len(t) = 1
      BY <3>3, <3>5
    <3> HIDE DEF t
    <3>8. /\ Len(ts) \in Nat /\ DOMAIN ts = 1 .. Len(ts) /\ DOMAIN q = 1 .. (Len(ts) + 1)
          /\ \A i \in DOMAIN ts : q[i] = ts[i]
          /\ q[Len(ts) + 1] = m
      BY <3>7, Joined
    <3> HIDE DEF q
    <3>9. \A i \in DOMAIN q : IsEdit(q[i]) => i = Len(ts) + 1 /\ q[i] = m
      BY <3>8 DEF EditSent
    <3>10. EditSent(q)
      <4>1. Len(ts) + 1 \in DOMAIN q
        BY <3>8
      <4> QED  BY <3>3, <3>8, <4>1 DEF EditSent
    <3>11. Requested(p, sv, q, tc)
      <4>1. \A i \in DOMAIN q : IsRequest(q[i]) => i \in DOMAIN ts /\ q[i] = ts[i]
        BY <3>3, <3>8
      <4> QED  BY <2>1, <4>1 DEF Requested
    <3>12. OneEdit(p, q, tc)
      <4>1. p.snacs # <<>> /\ \A i \in DOMAIN p.snacs : i > 1 => p.snacs[i].op = "update"
        BY <3>1, <3>6
      <4> QED  BY <2>1, <3>1, <3>3, <3>4, <3>9, <3>10, <4>1 DEF OneEdit, Acked
    <3>13. Known(on, p, sv, tc)
      BY <2>1 DEF Known, Acked, Accepted
    <3>14. Out(p, q, tc) = {Head(p.snacs)}
      BY <3>10 DEF Out
    <3>15. Listed(on, p, tr, sv, f, q, tc)
      BY <2>1, <2>2, <3>1, <3>11, <3>12, <3>13, <3>14 DEF Listed
    <3>16. \A i \in DOMAIN t : IsEdit(t[i])
      BY <3>3, <3>7
    <3> QED  BY <2>1, <3>7, <3>15, <3>16 DEF p, t, q
  <2> QED  BY <2>3, <2>4
<1> QED  BY <1>1, <1>2

(* What an accepted edit does to what the client knows of the list.        *)
LEMMA AppliedKnown ==
  ASSUME NEW s \in Sbls, NEW e \in Iq!Snacs
  PROVE  /\ Iq!Applied(s, e).known = CASE e.op = "add" -> s.known \cup {e.who}
                                       [] e.op = "remove" -> s.known \ {e.who}
                                       [] e.op \in {"group", "update"} -> s.known
         /\ Iq!Applied(s, e) \in Sbls
         /\ Iq!Applied(s, e).edits = s.edits /\ Iq!Applied(s, e).snacs = s.snacs
         /\ Iq!Applied(s, e).inedit = s.inedit /\ Iq!Applied(s, e).canedit = s.canedit
<1>1. e.op \in {"add", "remove", "group", "update"}
  BY DEF Iq!Snacs, Iq!Edits
<1>2. CASE e.op = "add"
  <2>1. e.who \in Buddies
    BY <1>2 DEF Iq!Snacs, Iq!Edits
  <2>2. Iq!Applied(s, e) = [s EXCEPT !.known = @ \cup {e.who}]
    BY <1>2 DEF Iq!Applied
  <2> QED  BY <1>2, <2>1, <2>2 DEF Sbls
<1>3. CASE e.op = "remove"
  <2>1. Iq!Applied(s, e) = [s EXCEPT !.known = @ \ {e.who}]
    BY <1>3 DEF Iq!Applied
  <2> QED  BY <1>3, <2>1 DEF Sbls
<1>4. CASE e.op = "group"
  <2>1. e.who \in Groups
    BY <1>4 DEF Iq!Snacs, Iq!Edits
  <2>2. Iq!Applied(s, e) = [s EXCEPT !.groups = @ \cup {e.who}]
    BY <1>4 DEF Iq!Applied
  <2> QED  BY <1>4, <2>1, <2>2 DEF Sbls
<1>5. CASE e.op = "update"
  <2>1. Iq!Applied(s, e) = s
    BY <1>5 DEF Iq!Applied
  <2> QED  BY <1>5, <2>1
<1> QED  BY <1>1, <1>2, <1>3, <1>4, <1>5

(* The client's queue of edits, whoever entered the tree or left it. *)
LEMMA ListedEdit ==
  ASSUME IqConstants, NEW sb \in Sbls, NEW on \in BOOLEAN, ~on => ~sb.canedit,
         NEW tr, NEW t2, NEW sv, NEW as, NEW ts \in Seq(Packets), NEW tc,
         Listed(on, sb, tr, sv, as, ts, tc), NEW es \in Seq(Iq!Edits),
         \A c \in Buddies, i \in DOMAIN es :
           Concerns(es[i], c) /\ (\A j \in DOMAIN es : j > i => ~Concerns(es[j], c)) =>
             (es[i].op = "add" <=> c \in t2.people),
         \A c \in Buddies :
           (\A i \in DOMAIN es : ~Concerns(es[i], c)) => (c \in t2.people <=> c \in tr.people)
  PROVE  LET s == IF on THEN [sb EXCEPT !.edits = @ \o es] ELSE sb
             p == Iq!processSblEdits(s)
         IN /\ p \in Sbls /\ (~on => p = sb)
            /\ Iq!Sent(s, p) \in Seq(Packets) /\ (~on => Iq!Sent(s, p) = <<>>)
            /\ \A i \in DOMAIN Iq!Sent(s, p) : IsEdit(Iq!Sent(s, p)[i])
            /\ Listed(on, p, t2, sv, as \cup Iq!Forsaken(s), ts \o Iq!Sent(s, p), tc)
<1> DEFINE s == IF on THEN [sb EXCEPT !.edits = @ \o es] ELSE sb
           p == Iq!processSblEdits(s)
           t == Iq!Sent(s, p)
<1>1. s \in Sbls /\ s.inedit = sb.inedit /\ s.canedit = sb.canedit /\ s.snacs = sb.snacs
      /\ s.known = sb.known /\ (on => s.edits = sb.edits \o es) /\ (~on => s = sb)
  <2>1. sb.edits \o es \in Seq(Iq!Edits)
    BY Joined DEF Sbls
  <2> QED  BY <2>1 DEF Sbls
<1> HIDE DEF s
<1>2. on => Agree(s.edits, Out(sb, ts, tc), t2.people, sv.kept, as, sb.canedit)
  <2>1. sb.edits \in Seq(Iq!Edits)
    BY DEF Sbls
  <2> QED  BY <1>1, <2>1, AgreeQueued DEF Listed
<1>3. CASE s.canedit /\ ~s.inedit
  <2>1. ~EditSent(ts) /\ ~Acked(tc) /\ on
    BY <1>1, <1>3 DEF Listed, OneEdit
  <2>2. s.known = sv.kept
    BY <1>1, <1>3, <2>1 DEF Listed, Known, Acked, Accepted
  <2>3. Requested(s, sv, ts, tc)
    BY <1>1 DEF Listed, Requested
  <2>4. Agree(s.edits, {}, t2.people, sv.kept, as, TRUE)
    <3>1. Out(sb, ts, tc) = {}
      BY <2>1 DEF Out
    <3>2. sb.canedit = TRUE
      BY <1>1, <1>3 DEF Sbls
    <3> QED  BY <1>2, <2>1, <3>1, <3>2
  <2>5. \A i \in DOMAIN s.snacs : i > 1 => s.snacs[i].op = "update"
    BY <1>1 DEF Listed, OneEdit
  <2> HIDE DEF p, t
  <2>6. /\ p \in Sbls /\ t \in Seq(Packets) /\ \A i \in DOMAIN t : IsEdit(t[i])
        /\ Listed(on, p, t2, sv, as \cup Iq!Forsaken(s), ts \o t, tc)
    BY <1>1, <1>3, <2>1, <2>2, <2>3, <2>4, <2>5, ListedProcess DEF p, t
  <2> QED  BY <2>1, <2>6 DEF p, t, s
<1>4. CASE ~(s.canedit /\ ~s.inedit)
  <2>1. p = s /\ Iq!Forsaken(s) = {}
    BY <1>4 DEF Iq!processSblEdits, Iq!Forsaken
  <2> HIDE DEF p
  <2>2. t = <<>>
    BY <2>1 DEF Iq!Sent
  <2>3. t \in Seq(Packets) /\ DOMAIN t = {} /\ ts \o t = ts
    BY <2>2
  <2>4. Requested(s, sv, ts, tc)
    BY <1>1 DEF Listed, Requested
  <2>5. OneEdit(s, ts, tc)
    BY <1>1, <1>4 DEF Listed, OneEdit
  <2>6. Known(on, s, sv, tc)
    <3>1. ASSUME Accepted(tc) PROVE sb.snacs \in Seq(Iq!Snacs) /\ sb.snacs # <<>>
      BY <3>1 DEF Accepted, Acked, Listed, OneEdit, Sbls
    <3>2. ASSUME NEW e \in Iq!Snacs PROVE Iq!Applied(s, e).known = Iq!Applied(sb, e).known
      <4>1. Iq!Applied(s, e).known = CASE e.op = "add" -> s.known \cup {e.who}
                                       [] e.op = "remove" -> s.known \ {e.who}
                                       [] e.op \in {"group", "update"} -> s.known
        BY <1>1, AppliedKnown
      <4>2. Iq!Applied(sb, e).known = CASE e.op = "add" -> sb.known \cup {e.who}
                                        [] e.op = "remove" -> sb.known \ {e.who}
                                        [] e.op \in {"group", "update"} -> sb.known
        BY AppliedKnown
      <4> QED  BY <1>1, <4>1, <4>2
    <3>3. Accepted(tc) => Head(sb.snacs) \in Iq!Snacs
      BY <3>1
    <3> QED  BY <1>1, <3>2, <3>3 DEF Listed, Known
  <2>7. Out(s, ts, tc) = Out(sb, ts, tc)
    BY <1>1 DEF Out
  <2>8. Listed(on, p, t2, sv, as \cup Iq!Forsaken(s), ts \o t, tc)
    <3>1. as \cup Iq!Forsaken(s) = as
      BY <2>1
    <3> HIDE DEF t
    <3> QED  BY <1>1, <1>2, <2>1, <2>3, <2>4, <2>5, <2>6, <2>7, <3>1 DEF Listed
  <2> HIDE DEF t
  <2>9. \A i \in DOMAIN t : IsEdit(t[i])
    BY <2>3
  <2> QED  BY <1>1, <2>1, <2>2, <2>3, <2>8, <2>9 DEF p, t, s
<1> QED  BY <1>3, <1>4

(* All of the server's list arrives, and edits may be made. *)
LEMMA ListedReceived ==
  ASSUME IqConstants, IqTypes, ListSound, Iq!LoggedIn, qToClient # <<>>,
         IsRequest(Head(qToClient))
  PROVE  LET m == Head(qToClient)
             s == [Iq!Queued(qSbl, Iq!Additions(m.people \ qTree.people))
                     EXCEPT !.known = @ \cup m.people, !.groups = @ \cup m.groups,
                            !.canedit = TRUE]
             p == Iq!processSblEdits(s)
             t2 == [people |-> qTree.people \cup m.people,
                    groups |-> qTree.groups \cup m.groups]
         IN /\ p \in Sbls /\ t2 \in [people : SUBSET Buddies, groups : SUBSET Groups]
            /\ Iq!Sent(s, p) \in Seq(Packets)
            /\ \A i \in DOMAIN Iq!Sent(s, p) : IsEdit(Iq!Sent(s, p)[i])
            /\ Listed(Iq!LoggedIn, p, t2, qServer,
                      (qTree.people \ m.people) \cup Iq!Forsaken(s),
                      qToServer \o Iq!Sent(s, p), Tail(qToClient))
<1> DEFINE m == Head(qToClient)
           es == Iq!Additions(m.people \ qTree.people)
           s == [Iq!Queued(qSbl, es)
                   EXCEPT !.known = @ \cup m.people, !.groups = @ \cup m.groups, !.canedit = TRUE]
           t2 == [people |-> qTree.people \cup m.people, groups |-> qTree.groups \cup m.groups]
           as == qTree.people \ m.people
           q == Tail(qToClient)
<1>1. /\ Head(qToClient) = qToClient[1] /\ DOMAIN qToClient = 1 .. Len(qToClient)
      /\ Len(qToClient) \in Nat /\ Len(qToClient) > 0 /\ m \in Answers
      /\ DOMAIN q \subseteq Nat /\ 0 \notin DOMAIN q
      /\ \A i \in DOMAIN q : i + 1 \in DOMAIN qToClient /\ q[i] = qToClient[i + 1]
  BY Popped DEF IqTypes
<1>2. m.people \subseteq Buddies /\ m.groups \subseteq Groups
  BY <1>1 DEF Answers, IsRequest
<1>3. 1 \in DOMAIN qToClient /\ IsRequest(qToClient[1]) /\ m = qToClient[1]
  BY <1>1
<1> HIDE DEF m, q
<1>4. /\ Requested(qSbl, qServer, qToServer, qToClient) /\ OneEdit(qSbl, qToServer, qToClient)
      /\ Known(TRUE, qSbl, qServer, qToClient)
      /\ Agree(qSbl.edits, Out(qSbl, qToServer, qToClient), qTree.people, qServer.kept, qAstray,
               qSbl.canedit)
  BY DEF ListSound, Listed, Known
<1>5. ~qSbl.canedit /\ m.people = qServer.kept
  BY <1>3, <1>4 DEF Requested
<1>6. ~EditSent(qToServer) /\ ~Acked(qToClient) /\ ~Acked(q)
  <2>1. ~EditSent(qToServer) /\ ~Acked(qToClient)
    BY <1>4, <1>5 DEF OneEdit
  <2> QED  BY <1>1, <2>1 DEF Acked
<1>7. /\ \A i \in DOMAIN qToServer : ~IsRequest(qToServer[i])
      /\ \A i \in DOMAIN q : ~IsRequest(q[i])
  <2>1. ASSUME NEW i \in DOMAIN q PROVE ~IsRequest(q[i])
    <3>1. i + 1 \in DOMAIN qToClient /\ q[i] = qToClient[i + 1] /\ i + 1 # 1
      BY <1>1, <2>1
    <3> QED  BY <1>3, <1>4, <3>1 DEF Requested
  <2> QED  BY <1>3, <1>4, <2>1 DEF Requested
<1>8. /\ es \in Seq(Iq!Edits)
      /\ \A i \in DOMAIN es :
           es[i].op = "group" \/ (es[i].op = "add" /\ es[i].who \in m.people \ qTree.people)
      /\ \A c \in m.people \ qTree.people : \E i \in DOMAIN es : es[i].op = "add" /\ es[i].who = c
  <2>1. m.people \ qTree.people \in SUBSET Buddies
    BY <1>2
  <2> QED  BY <2>1, AdditionsSound
<1> HIDE DEF es
<1>9. /\ s \in Sbls /\ s.canedit /\ s.known = qServer.kept /\ s.edits = qSbl.edits \o es
      /\ s.inedit = qSbl.inedit /\ s.snacs = qSbl.snacs
  <2>1. qSbl \in Sbls /\ qSbl.known = {} /\ qSbl.edits \in Seq(Iq!Edits)
    BY <1>4, <1>5 DEF IqTypes, Known, Sbls
  <2>2. qSbl.edits \o es \in Seq(Iq!Edits)
    BY <1>8, <2>1, Joined
  <2>3. Iq!Queued(qSbl, es) = [qSbl EXCEPT !.edits = @ \o es]
    BY DEF Iq!Queued
  <2> QED  BY <1>2, <1>5, <2>1, <2>2, <2>3 DEF Sbls
<1> HIDE DEF s
<1>10. t2 \in [people : SUBSET Buddies, groups : SUBSET Groups]
       /\ t2.people = qTree.people \cup m.people
  BY <1>2 DEF IqTypes
<1> HIDE DEF t2
<1>11. Agree(s.edits, {}, t2.people, qServer.kept, qAstray, FALSE)
  <2>1. Agree(qSbl.edits, {}, qTree.people, qServer.kept, qAstray, FALSE)
    BY <1>4, <1>5, <1>6 DEF Agree, Out
  <2>2. qSbl.edits \in Seq(Iq!Edits)
    BY DEF IqTypes, Sbls
  <2>3. \A c \in Buddies, i \in DOMAIN es : Concerns(es[i], c) => es[i].op = "add" /\ c \in t2.people
    BY <1>8, <1>10 DEF Concerns
  <2>4. \A c \in Buddies :
          (\A i \in DOMAIN es : ~Concerns(es[i], c)) => (c \in t2.people <=> c \in qTree.people)
    BY <1>8, <1>10 DEF Concerns
  <2>5. \A c \in Buddies, i \in DOMAIN es :
          Concerns(es[i], c) /\ (\A j \in DOMAIN es : j > i => ~Concerns(es[j], c)) =>
            (es[i].op = "add" <=> c \in t2.people)
    BY <2>3
  <2>6. Agree(qSbl.edits \o es, {}, t2.people, qServer.kept, qAstray, FALSE)
    BY <1>8, <2>1, <2>2, <2>4, <2>5, AgreeQueued
  <2> QED  BY <1>9, <2>6
<1>12. Agree(s.edits, {}, t2.people, qServer.kept, as, TRUE)
  BY <1>5, <1>10, <1>11 DEF Agree
<1> HIDE DEF as
<1>13. Requested(s, qServer, qToServer, q)
  BY <1>7 DEF Requested
<1>14. (s.inedit => s.snacs # <<>>) /\ \A i \in DOMAIN s.snacs : i > 1 => s.snacs[i].op = "update"
  BY <1>4, <1>9 DEF OneEdit
<1>15. qToServer \in Seq(Packets)
  BY DEF IqTypes
<1>16. LET p == Iq!processSblEdits(s)
       IN /\ p \in Sbls /\ p.canedit
          /\ Iq!Sent(s, p) \in Seq(Packets)
          /\ \A i \in DOMAIN Iq!Sent(s, p) : IsEdit(Iq!Sent(s, p)[i])
          /\ Listed(Iq!LoggedIn, p, t2, qServer, as \cup Iq!Forsaken(s),
                    qToServer \o Iq!Sent(s, p), q)
  BY <1>6, <1>9, <1>12, <1>13, <1>14, <1>15, ListedProcess
<1> QED  BY <1>10, <1>16 DEF m, es, s, t2, as, q

(* An edit is acknowledged: the update of its group follows, or the next.  *)
LEMMA ListedAck ==
  ASSUME IqConstants, IqTypes, ListSound, Iq!LoggedIn, qToClient # <<>>,
         IsAck(Head(qToClient))
  PROVE  LET ok == Head(qToClient).ok
             e == Head(qSbl.snacs)
             s == [(IF ok THEN Iq!Applied(qSbl, e) ELSE qSbl) EXCEPT !.snacs = Tail(@)]
             free == [s EXCEPT !.inedit = FALSE]
             who == IF e.op \in {"add", "remove"} THEN {e.who} ELSE {}
             p == Iq!NextEdit(s)
             t == IF s.snacs # <<>> THEN Iq!Sent(qSbl, s) ELSE Iq!Sent(free, p)
             a2 == (IF ok THEN qAstray \ who ELSE qAstray \cup who)
                   \cup (IF s.snacs = <<>> THEN Iq!Forsaken(free) ELSE {})
         IN /\ p \in Sbls /\ t \in Seq(Packets) /\ a2 \subseteq Buddies
            /\ \A i \in DOMAIN t : IsEdit(t[i])
            /\ Listed(Iq!LoggedIn, p, qTree, qServer, a2, qToServer \o t, Tail(qToClient))
<1> DEFINE ok == Head(qToClient).ok
           e == Head(qSbl.snacs)
           s == [(IF ok THEN Iq!Applied(qSbl, e) ELSE qSbl) EXCEPT !.snacs = Tail(@)]
           free == [s EXCEPT !.inedit = FALSE]
           who == IF e.op \in {"add", "remove"} THEN {e.who} ELSE {}
           p == Iq!NextEdit(s)
           a1 == IF ok THEN qAstray \ who ELSE qAstray \cup who
           q == Tail(qToClient)
<1>1. /\ Head(qToClient) = qToClient[1] /\ DOMAIN qToClient = 1 .. Len(qToClient)
      /\ Len(qToClient) \in Nat /\ Len(qToClient) > 0 /\ Head(qToClient) \in Answers
      /\ DOMAIN q \subseteq Nat /\ 0 \notin DOMAIN q
      /\ \A i \in DOMAIN q : i + 1 \in DOMAIN qToClient /\ q[i] = qToClient[i + 1]
  BY Popped DEF IqTypes
<1>2. /\ 1 \in DOMAIN qToClient /\ IsAck(qToClient[1]) /\ Acked(qToClient)
      /\ ok \in BOOLEAN /\ ok = qToClient[1].ok
  BY <1>1 DEF Acked, Answers, IsAck
<1> HIDE DEF ok, q
<1>3. /\ Requested(qSbl, qServer, qToServer, qToClient) /\ OneEdit(qSbl, qToServer, qToClient)
      /\ Known(TRUE, qSbl, qServer, qToClient)
      /\ Agree(qSbl.edits, {e}, qTree.people, qServer.kept, qAstray, TRUE)
      /\ qSbl.canedit = TRUE /\ qSbl.inedit = TRUE /\ qSbl.snacs # <<>> /\ ~EditSent(qToServer)
  <2>1. qSbl.canedit /\ qSbl.inedit /\ qSbl.snacs # <<>> /\ ~EditSent(qToServer)
    BY <1>2 DEF ListSound, Listed, OneEdit
  <2>2. Out(qSbl, qToServer, qToClient) = {e}
    BY <1>2 DEF Out
  <2>3. qSbl.canedit = TRUE /\ qSbl.inedit = TRUE
    BY <2>1 DEF IqTypes, Sbls
  <2> QED  BY <2>1, <2>2, <2>3 DEF ListSound, Listed, Known
<1>4. ASSUME NEW i \in DOMAIN q PROVE ~IsAck(q[i])
  <2>1. i + 1 \in DOMAIN qToClient /\ q[i] = qToClient[i + 1] /\ i + 1 # 1
    BY <1>1, <1>4
  <2> QED  BY <1>2, <1>3, <2>1 DEF OneEdit
<1>5. ~Acked(q) /\ ~Accepted(q) /\ (Accepted(qToClient) <=> ok)
  <2>1. \A i \in DOMAIN qToClient : IsAck(qToClient[i]) => i = 1
    BY <1>2, <1>3 DEF OneEdit
  <2> QED  BY <1>2, <1>4, <2>1 DEF Acked, Accepted
<1>6. /\ \A i \in DOMAIN qToServer : ~IsRequest(qToServer[i])
      /\ \A i \in DOMAIN q : ~IsRequest(q[i])
  BY <1>1, <1>3 DEF Requested
<1>7. /\ qSbl \in Sbls /\ e \in Iq!Snacs /\ qSbl.snacs \in Seq(Iq!Snacs)
      /\ Tail(qSbl.snacs) \in Seq(Iq!Snacs) /\ Len(qSbl.snacs) \in Nat
      /\ Len(Tail(qSbl.snacs)) = Len(qSbl.snacs) - 1
      /\ DOMAIN Tail(qSbl.snacs) = 1 .. (Len(qSbl.snacs) - 1)
      /\ \A i \in DOMAIN Tail(qSbl.snacs) :
           i + 1 \in DOMAIN qSbl.snacs /\ Tail(qSbl.snacs)[i] = qSbl.snacs[i + 1]
  <2>1. qSbl \in Sbls /\ qSbl.snacs \in Seq(Iq!Snacs)
    BY DEF IqTypes, Sbls
  <2> QED  BY <1>3, <2>1, Popped
<1> HIDE DEF e
<1>8. e.op \in {"add", "remove", "group", "update"} /\ who \subseteq Buddies
      /\ (e.op \in {"add", "remove"} => e.who \in Buddies)
  BY <1>7 DEF Iq!Snacs, Iq!Edits
<1>9. \A i \in DOMAIN Tail(qSbl.snacs) : Tail(qSbl.snacs)[i].op = "update"
  BY <1>3, <1>7 DEF OneEdit
<1>10. /\ s \in Sbls /\ s.canedit = TRUE /\ s.inedit = TRUE /\ s.edits = qSbl.edits
       /\ s.snacs = Tail(qSbl.snacs) /\ s.known = qServer.kept
       /\ ok => qServer.kept = (CASE e.op = "add" -> qSbl.known \cup {e.who}
                                  [] e.op = "remove" -> qSbl.known \ {e.who}
                                  [] e.op \in {"group", "update"} -> qSbl.known)
  <2> DEFINE a == Iq!Applied(qSbl, e)
  <2>1. /\ a \in Sbls /\ a.edits = qSbl.edits /\ a.snacs = qSbl.snacs
        /\ a.inedit = qSbl.inedit /\ a.canedit = qSbl.canedit
        /\ a.known = CASE e.op = "add" -> qSbl.known \cup {e.who}
                       [] e.op = "remove" -> qSbl.known \ {e.who}
                       [] e.op \in {"group", "update"} -> qSbl.known
    BY <1>7, AppliedKnown
  <2>2. (ok => qServer.kept = a.known) /\ (~ok => qServer.kept = qSbl.known)
    BY <1>3, <1>5 DEF Known, e
  <2> HIDE DEF a
  <2>3. s = [(IF ok THEN a ELSE qSbl) EXCEPT !.snacs = Tail(@)]
    BY DEF a
  <2> HIDE DEF s
  <2>4. CASE ok
    <3>1. s = [a EXCEPT !.snacs = Tail(@)]
      BY <2>3, <2>4
    <3> QED  BY <1>3, <1>7, <2>1, <2>2, <2>4, <3>1 DEF Sbls
  <2>5. CASE ~ok
    <3>1. s = [qSbl EXCEPT !.snacs = Tail(@)]
      BY <2>3, <2>5
    <3> QED  BY <1>3, <1>7, <2>2, <2>5, <3>1 DEF Sbls
  <2> QED  BY <2>4, <2>5
<1> HIDE DEF s
<1>11. ASSUME NEW c \in Buddies \ a1, \A j \in DOMAIN qSbl.edits : ~Concerns(qSbl.edits[j], c)
       PROVE  c \in qTree.people <=> c \in qServer.kept
  <2>1. CASE Concerns(e, c)
    <3>1. ok /\ (e.op = "add" \/ e.op = "remove") /\ e.who = c
      BY <1>11, <2>1 DEF Concerns
    <3>2. e.op = "add" <=> c \in qTree.people
      BY <1>3, <1>11, <2>1 DEF Agree
    <3>3. CASE e.op = "add"
      BY <1>10, <3>1, <3>2, <3>3
    <3>4. CASE e.op = "remove"
      BY <1>10, <3>1, <3>2, <3>4
    <3> QED  BY <3>1, <3>3, <3>4
  <2>2. CASE ~Concerns(e, c)
    <3>1. c \notin qAstray
      BY <1>11, <2>2 DEF Concerns
    <3> QED  BY <1>3, <1>11, <2>2, <3>1 DEF Agree
  <2> QED  BY <2>1, <2>2
<1>12. a1 \subseteq Buddies
  BY <1>8 DEF IqTypes
<1> HIDE DEF a1
<1>13. ASSUME NEW out, \A c \in Buddies, x \in out : ~Concerns(x, c)
       PROVE  Agree(s.edits, out, qTree.people, qServer.kept, a1, TRUE)
  BY <1>3, <1>10, <1>11, <1>13 DEF Agree
<1>14. qToServer \in Seq(Packets)
  BY DEF IqTypes
<1>15. CASE s.snacs # <<>>
  <2> DEFINE u == Head(s.snacs)
             m == [type |-> "edit", edit |-> u]
             t == Iq!Sent(qSbl, s)
             r == qToServer \o t
  <2>1. p = s
    BY <1>15 DEF Iq!NextEdit
  <2>2. u = s.snacs[1] /\ 1 \in DOMAIN s.snacs /\ u \in Iq!Snacs
    <3>1. s.snacs \in Seq(Iq!Snacs)
      BY <1>7, <1>10
    <3>2. /\ Head(s.snacs) = s.snacs[1] /\ Head(s.snacs) \in Iq!Snacs
          /\ Len(s.snacs) \in Nat /\ Len(s.snacs) > 0 /\ DOMAIN s.snacs = 1 .. Len(s.snacs)
      BY <1>15, <3>1, Popped
    <3> QED  BY <3>2
  <2> HIDE DEF u, p
  <2>3. u.op = "update"
    BY <1>9, <1>10, <2>2
  <2>4. m \in Packets /\ IsEdit(m) /\ ~IsRequest(m) /\ m.edit = u
    BY <2>2 DEF Packets, IsEdit, IsRequest
  <2>5. s.snacs # qSbl.snacs
    <3>1. Len(s.snacs) # Len(qSbl.snacs)
      BY <1>7, <1>10
    <3> QED  BY <3>1
  <2>6. t = <<m>>
    BY <1>10, <2>5 DEF Iq!Sent, u
  <2> HIDE DEF m
  <2>7. t \in Seq(Packets) /\ DOMAIN t = {1} /\ t[1] = m /\ Len(t) = 1
    BY <2>4, <2>6
  <2> HIDE DEF t
  <2>8. /\ Len(qToServer) \in Nat /\ DOMAIN qToServer = 1 .. Len(qToServer)
        /\ DOMAIN r = 1 .. (Len(qToServer) + 1)
        /\ \A i \in DOMAIN qToServer : r[i] = qToServer[i]
        /\ r[Len(qToServer) + 1] = m
    BY <1>14, <2>7, Joined
  <2> HIDE DEF r
  <2>9. \A i \in DOMAIN r : IsEdit(r[i]) => i = Len(qToServer) + 1 /\ r[i] = m
    BY <1>3, <2>8 DEF EditSent
  <2>10. EditSent(r)
    <3>1. Len(qToServer) + 1 \in DOMAIN r
      BY <2>8
    <3> QED  BY <2>4, <2>8, <3>1 DEF EditSent
  <2>11. Requested(s, qServer, r, q)
    <3>1. \A i \in DOMAIN r : ~IsRequest(r[i])
      BY <1>6, <2>4, <2>8
    <3> QED  BY <1>6, <3>1 DEF Requested
  <2>12. OneEdit(s, r, q)
    BY <1>5, <1>9, <1>10, <1>15, <2>4, <2>9, <2>10 DEF OneEdit, Acked, u
  <2>13. Known(Iq!LoggedIn, s, qServer, q)
    BY <1>5, <1>10 DEF Known
  <2>14. Out(s, r, q) = {u}
    BY <2>10 DEF Out, u
  <2>15. Agree(s.edits, {u}, qTree.people, qServer.kept, a1, TRUE)
    BY <1>13, <2>3 DEF Concerns
  <2>16. Listed(Iq!LoggedIn, s, qTree, qServer, a1, r, q)
    BY <1>10, <2>11, <2>12, <2>13, <2>14, <2>15 DEF Listed
  <2>17. \A i \in DOMAIN t : IsEdit(t[i])
    BY <2>4, <2>7
  <2> QED  BY <1>10, <1>12, <1>15, <2>1, <2>7, <2>16, <2>17 DEF a1, t, r, q, p, s, ok, e
<1>16. CASE s.snacs = <<>>
  <2>1. p = Iq!processSblEdits(free)
    BY <1>16 DEF Iq!NextEdit
  <2>2. /\ free \in Sbls /\ free.canedit /\ free.inedit = FALSE /\ free.edits = s.edits
        /\ free.snacs = <<>> /\ free.known = qServer.kept
    BY <1>10, <1>16 DEF Sbls
  <2> HIDE DEF free, p
  <2>3. Agree(free.edits, {}, qTree.people, qServer.kept, a1, TRUE)
    BY <1>13, <2>2
  <2>4. Requested(free, qServer, qToServer, q)
    BY <1>6 DEF Requested
  <2>5. DOMAIN free.snacs = {}
    BY <2>2
  <2>6. /\ p \in Sbls /\ Iq!Sent(free, p) \in Seq(Packets)
        /\ \A i \in DOMAIN Iq!Sent(free, p) : IsEdit(Iq!Sent(free, p)[i])
        /\ Listed(Iq!LoggedIn, p, qTree, qServer, a1 \cup Iq!Forsaken(free),
                  qToServer \o Iq!Sent(free, p), q)
    BY <1>3, <1>5, <1>14, <2>1, <2>2, <2>3, <2>4, <2>5, ListedProcess
  <2>7. Iq!Forsaken(free) \subseteq Buddies
    BY DEF Iq!Forsaken
  <2> QED  BY <1>12, <1>16, <2>6, <2>7 DEF a1, q, p, free, s, ok, e
<1> QED  BY <1>15, <1>16

(* Nobody is logged in: whatever edits wait will be forgotten. *)
LEMMA ListedOff ==
  ASSUME NEW sb, ~sb.canedit, sb.inedit => sb.snacs # <<>>,
         \A i \in DOMAIN sb.snacs : i > 1 => sb.snacs[i].op = "update",
         NEW tr, NEW sv, NEW as
  PROVE  Listed(FALSE, sb, tr, sv, as, <<>>, <<>>)
<1>1. DOMAIN <<>> = {}
  OBVIOUS
<1>2. ~EditSent(<<>>) /\ ~Acked(<<>>) /\ ~Accepted(<<>>)
  BY <1>1, Zenon DEF EditSent, Acked, Accepted
<1>3. Requested(sb, sv, <<>>, <<>>)
  BY <1>1, Zenon DEF Requested
<1>4. OneEdit(sb, <<>>, <<>>)
  <2>1. ~\E i \in DOMAIN <<>> : TRUE
    BY <1>1
  <2> QED  BY <1>2, <2>1 DEF OneEdit
<1>5. Known(FALSE, sb, sv, <<>>)
  BY <1>2 DEF Known
<1> QED  BY <1>3, <1>4, <1>5 DEF Listed

LEMMA ListedLogin ==
  ASSUME IqTypes, QuietOut, VisibilitySound, ListSound, ~Iq!LoggedIn
  PROVE  LET sb == [qSbl EXCEPT !.edits = <<>>, !.known = {}, !.groups = {}, !.canedit = FALSE]
         IN sb \in Sbls /\ Listed(TRUE, sb, qTree, qServer, qAstray, Iq!LoginPackets, <<>>)
<1> DEFINE sb == [qSbl EXCEPT !.edits = <<>>, !.known = {}, !.groups = {}, !.canedit = FALSE]
           q == Iq!LoginPackets
<1>1. /\ sb \in Sbls /\ sb.edits = <<>> /\ sb.known = {} /\ sb.canedit = FALSE
      /\ sb.inedit = qSbl.inedit /\ sb.snacs = qSbl.snacs
  <2>1. <<>> \in Seq(Iq!Edits) /\ qSbl \in Sbls
    BY DEF IqTypes
  <2> QED  BY <2>1 DEF Sbls
<1> HIDE DEF sb, q
<1>2. /\ \A i \in DOMAIN q : ~IsEdit(q[i])
      /\ \A i, j \in DOMAIN q : IsRequest(q[i]) /\ IsRequest(q[j]) => i = j
  BY VisibleLogin DEF q
<1>3. DOMAIN <<>> = {}
  OBVIOUS
<1>4. ~EditSent(q) /\ ~Acked(<<>>) /\ ~Accepted(<<>>)
  BY <1>2, <1>3, Zenon DEF EditSent, Acked, Accepted
<1>5. Requested(sb, qServer, q, <<>>)
  BY <1>1, <1>2, <1>3, Zenon DEF Requested
<1>6. OneEdit(sb, q, <<>>)
  <2>1. ~\E i \in DOMAIN <<>> : TRUE
    BY <1>3
  <2> QED  BY <1>1, <1>2, <1>4, <2>1 DEF OneEdit, ListSound, Listed
<1>7. Known(TRUE, sb, qServer, <<>>)
  BY <1>1, <1>4 DEF Known
<1>8. Agree(sb.edits, Out(sb, q, <<>>), qTree.people, qServer.kept, qAstray, sb.canedit)
  <2>1. Out(sb, q, <<>>) = {}
    BY <1>4 DEF Out
  <2> QED  BY <1>1, <1>3, <2>1, Zenon DEF Agree
<1>9. Listed(TRUE, sb, qTree, qServer, qAstray, q, <<>>)
  BY <1>5, <1>6, <1>7, <1>8 DEF Listed
<1> QED  BY <1>1, <1>9 DEF sb, q

-----------------------------------------------------------------------------
(* The actions.  People enter the tree, or edits are made of the list,     *)
(* after other packets are sent.                                           *)
LEMMA Entered ==
  ASSUME IqConstants, IqTypes, NEW S \in SUBSET Buddies, Iq!Enter(S)
  PROVE  LET es == Iq!Additions(S)
         IN /\ es \in Seq(Iq!Edits)
            /\ qTree' \in [people : SUBSET Buddies, groups : SUBSET Groups]
            /\ \A c \in Buddies, i \in DOMAIN es :
                 Concerns(es[i], c) /\ (\A j \in DOMAIN es : j > i => ~Concerns(es[j], c)) =>
                   (es[i].op = "add" <=> c \in qTree'.people)
            /\ \A c \in Buddies :
                 (\A i \in DOMAIN es : ~Concerns(es[i], c)) =>
                   (c \in qTree'.people <=> c \in qTree.people)
<1> DEFINE es == Iq!Additions(S)
<1>1. /\ es \in Seq(Iq!Edits)
      /\ \A i \in DOMAIN es : es[i].op = "group" \/ (es[i].op = "add" /\ es[i].who \in S)
      /\ \A c \in S : \E i \in DOMAIN es : es[i].op = "add" /\ es[i].who = c
  BY AdditionsSound
<1> HIDE DEF es
<1>2. qTree' \in [people : SUBSET Buddies, groups : SUBSET Groups]
      /\ qTree'.people = qTree.people \cup S
  <2>1. {GroupOf[c] : c \in S} \subseteq Groups
    BY DEF IqConstants
  <2> QED  BY <2>1 DEF IqTypes, Iq!Enter
<1>3. \A c \in Buddies, i \in DOMAIN es : Concerns(es[i], c) => es[i].op = "add" /\ c \in S
  BY <1>1 DEF Concerns
<1>4. \A c \in Buddies : (\A i \in DOMAIN es : ~Concerns(es[i], c)) => c \notin S
  BY <1>1 DEF Concerns
<1>5. \A c \in Buddies, i \in DOMAIN es :
        Concerns(es[i], c) /\ (\A j \in DOMAIN es : j > i => ~Concerns(es[j], c)) =>
          (es[i].op = "add" <=> c \in qTree'.people)
  BY <1>2, <1>3
<1>6. \A c \in Buddies :
        (\A i \in DOMAIN es : ~Concerns(es[i], c)) => (c \in qTree'.people <=> c \in qTree.people)
  BY <1>2, <1>4
<1> QED  BY <1>1, <1>2, <1>5, <1>6 DEF es

LEMMA EditMade ==
  ASSUME IqConstants, IqTypes, QuietOut, NEW others \in Seq(Packets),
         Listed(Iq!LoggedIn, qSbl, qTree, qServer, qAstray, qToServer \o others, qToClient),
         NEW es \in Seq(Iq!Edits), Iq!Edit(es, others),
         \A c \in Buddies, i \in DOMAIN es :
           Concerns(es[i], c) /\ (\A j \in DOMAIN es : j > i => ~Concerns(es[j], c)) =>
             (es[i].op = "add" <=> c \in qTree'.people),
         \A c \in Buddies :
           (\A i \in DOMAIN es : ~Concerns(es[i], c)) =>
             (c \in qTree'.people <=> c \in qTree.people),
         NEW cl, NEW vl, NEW un,
         Visible(cl, qServer, qToServer \o others, qToClient, vl, un)
  PROVE  /\ qSbl' \in Sbls /\ qToServer' \in Seq(Packets) /\ qAstray' \subseteq Buddies
         /\ ~Iq!LoggedIn => qSbl' = qSbl /\ qToServer' = qToServer \o others
         /\ Listed(Iq!LoggedIn, qSbl', qTree', qServer, qAstray', qToServer', qToClient)
         /\ Visible(cl, qServer, qToServer', qToClient, vl, un)
<1> DEFINE on == Iq!LoggedIn
           s == IF on THEN [qSbl EXCEPT !.edits = @ \o es] ELSE qSbl
           p == Iq!processSblEdits(s)
           t == Iq!Sent(s, p)
           ts == qToServer \o others
<1>1. qSbl' = p /\ qToServer' = ts \o t /\ qAstray' = qAstray \cup Iq!Forsaken(s)
  BY DEF Iq!Edit, Iq!Queued
<1>2. ts \in Seq(Packets) /\ qSbl \in Sbls
  BY Joined DEF IqTypes
<1>3. on \in BOOLEAN /\ (~on => ~qSbl.canedit)
  BY DEF QuietOut, Iq!LoggedIn
<1>4. Listed(on, qSbl, qTree, qServer, qAstray, ts, qToClient)
  OBVIOUS
<1> HIDE DEF on, ts
<1>5. /\ \A c \in Buddies, i \in DOMAIN es :
           Concerns(es[i], c) /\ (\A j \in DOMAIN es : j > i => ~Concerns(es[j], c)) =>
             (es[i].op = "add" <=> c \in qTree'.people)
      /\ \A c \in Buddies :
           (\A i \in DOMAIN es : ~Concerns(es[i], c)) =>
             (c \in qTree'.people <=> c \in qTree.people)
  OBVIOUS
<1>6. /\ p \in Sbls /\ (~on => p = qSbl) /\ t \in Seq(Packets) /\ (~on => t = <<>>)
      /\ \A i \in DOMAIN t : IsEdit(t[i])
      /\ Listed(on, p, qTree', qServer, qAstray \cup Iq!Forsaken(s), ts \o t, qToClient)
  BY <1>2, <1>3, <1>4, <1>5, ListedEdit
<1>7. Iq!Forsaken(s) \subseteq Buddies
  BY DEF Iq!Forsaken
<1> HIDE DEF s, p, t
<1>8. Visible(cl, qServer, ts \o t, qToClient, vl, un)
  <2>1. \A i \in DOMAIN t : ~IsStatus(t[i]) /\ ~IsList(t[i])
    BY <1>6 DEF IsEdit, IsStatus, IsList
  <2> QED  BY <1>2, <1>6, <2>1, VisiblePush DEF ts
<1>9. ts \o t \in Seq(Packets)
  BY <1>2, <1>6, Joined
<1>10. ~on => ts \o t = ts
  BY <1>2, <1>6
<1>11. qAstray' \subseteq Buddies
  BY <1>1, <1>7 DEF IqTypes
<1> QED  BY <1>1, <1>6, <1>8, <1>9, <1>10, <1>11 DEF on, ts

LEMMA PeopleEdited ==
  ASSUME IqConstants, IqSound, NEW es \in Seq(Iq!Edits), Iq!Edit(es, <<>>),
         qTree' \in [people : SUBSET Buddies, groups : SUBSET Groups],
         \A c \in Buddies, i \in DOMAIN es :
           Concerns(es[i], c) /\ (\A j \in DOMAIN es : j > i => ~Concerns(es[j], c)) =>
             (es[i].op = "add" <=> c \in qTree'.people),
         \A c \in Buddies :
           (\A i \in DOMAIN es : ~Concerns(es[i], c)) =>
             (c \in qTree'.people <=> c \in qTree.people),
         UNCHANGED <<qManual, qClient, qServer, qToClient, qLst>>,
         qListed' \subseteq Buddies, qTosend' \subseteq Buddies, qVislist' \subseteq Iq!Marks,
         qUntold' \in BOOLEAN, ~qUntold' => ~qUntold /\ qVislist' = qVislist
  PROVE  IqSound'
<1>1. qToServer \o <<>> = qToServer /\ <<>> \in Seq(Packets)
  BY DEF IqSound, IqTypes
<1>2. /\ qSbl' \in Sbls /\ qToServer' \in Seq(Packets) /\ qAstray' \subseteq Buddies
      /\ ~Iq!LoggedIn => qSbl' = qSbl /\ qToServer' = qToServer
      /\ Listed(Iq!LoggedIn, qSbl', qTree', qServer, qAstray', qToServer', qToClient)
      /\ Visible(qClient, qServer, qToServer', qToClient, qVislist, qUntold)
  <2>1. /\ IqTypes /\ QuietOut
        /\ Listed(Iq!LoggedIn, qSbl, qTree, qServer, qAstray, qToServer \o <<>>, qToClient)
        /\ Visible(qClient, qServer, qToServer \o <<>>, qToClient, qVislist, qUntold)
    BY <1>1 DEF IqSound, ListSound, VisibilitySound
  <2>2. /\ qSbl' \in Sbls /\ qToServer' \in Seq(Packets) /\ qAstray' \subseteq Buddies
        /\ ~Iq!LoggedIn => qSbl' = qSbl /\ qToServer' = qToServer \o <<>>
        /\ Listed(Iq!LoggedIn, qSbl', qTree', qServer, qAstray', qToServer', qToClient)
        /\ Visible(qClient, qServer, qToServer', qToClient, qVislist, qUntold)
    BY <1>1, <2>1, EditMade
  <2> QED  BY <1>1, <2>2
<1>3. IqTypes'
  BY <1>2 DEF IqSound, IqTypes
<1>4. Iq!LoggedIn' <=> Iq!LoggedIn
  BY DEF Iq!LoggedIn
<1>5. QuietOut'
  BY <1>2, <1>4 DEF IqSound, QuietOut
<1>6. VisibilitySound'
  <2>1. Visible(qClient, qServer, qToServer', qToClient, qVislist', qUntold')
    BY <1>2 DEF Visible
  <2> QED  BY <2>1 DEF VisibilitySound
<1>7. ListSound'
  BY <1>2 DEF ListSound, Iq!LoggedIn
<1> QED  BY <1>3, <1>5, <1>6, <1>7 DEF IqSound

(* The edits are not touched. *)
LEMMA NothingEdited ==
  ASSUME IqSound, UNCHANGED <<qManual, qServer, qToServer, qToClient, qLst, qSbl, qTree, qAstray>>,
         qClient' \in Clients, qClient'.state = qClient.state,
         qClient'.wanted = qClient.wanted, qClient'.self = qClient.self,
         qListed' \subseteq Buddies, qTosend' \subseteq Buddies, qVislist' \subseteq Iq!Marks,
         qUntold' \in BOOLEAN, ~qUntold' => ~qUntold /\ qVislist' = qVislist
  PROVE  IqSound'
<1>1. IqTypes'
  BY DEF IqSound, IqTypes
<1>2. QuietOut'
  BY DEF IqSound, QuietOut, Iq!LoggedIn
<1>3. VisibilitySound'
  BY VisibleMarked DEF IqSound, VisibilitySound
<1>4. ListSound'
  BY DEF IqSound, ListSound, Iq!LoggedIn
<1> QED  BY <1>1, <1>2, <1>3, <1>4 DEF IqSound

LEMMA Unlogged ==
  ASSUME IqSound, ~Iq!LoggedIn
  PROVE  /\ qToServer = <<>> /\ qToClient = <<>> /\ ~qSbl.canedit
         /\ qServer.status = "offline" /\ qClient.self = "offline"
         /\ qSbl.inedit => qSbl.snacs # <<>>
         /\ \A i \in DOMAIN qSbl.snacs : i > 1 => qSbl.snacs[i].op = "update"
<1>1. /\ qToServer = <<>> /\ qToClient = <<>> /\ ~qSbl.canedit /\ qServer.status = "offline"
  BY DEF IqSound, QuietOut
<1>2. DOMAIN qToClient = {}
  BY <1>1
<1>3. qClient.self = qServer.status
  BY <1>2 DEF IqSound, VisibilitySound, Visible, Follows
<1>4. /\ qSbl.inedit => qSbl.snacs # <<>>
      /\ \A i \in DOMAIN qSbl.snacs : i > 1 => qSbl.snacs[i].op = "update"
  BY DEF IqSound, ListSound, Listed, OneEdit
<1> QED  BY <1>1, <1>3, <1>4

(* The user is not logged in, before or after. *)
LEMMA StaysOff ==
  ASSUME IqSound, ~Iq!LoggedIn, UNCHANGED <<qToServer, qToClient, qSbl, qLst>>,
         qManual' \in Iq!Choosable, qClient' \in Clients, qClient'.state # "in",
         qClient'.self = qClient.self, qServer' \in Servers, qServer'.status = qServer.status,
         qTree' \in [people : SUBSET Buddies, groups : SUBSET Groups],
         qListed' \subseteq Buddies, qTosend' \subseteq Buddies, qVislist' \subseteq Iq!Marks,
         qUntold' \in BOOLEAN, qAstray' \subseteq Buddies
  PROVE  IqSound'
<1>1. IqTypes'
  BY DEF IqSound, IqTypes
<1>2. QuietOut'
  BY Unlogged DEF QuietOut
<1>3. VisibilitySound'
  BY Unlogged, VisibleOff DEF VisibilitySound
<1>4. ListSound'
  BY Unlogged, ListedOff DEF ListSound, Iq!LoggedIn
<1> QED  BY <1>1, <1>2, <1>3, <1>4 DEF IqSound

LEMMA PollSound ==
  ASSUME IqConstants, IqSound, Iq!Poll PROVE IqSound'
<1>1. /\ UNCHANGED <<qManual, qClient, qServer, qToClient, qLst>>
      /\ qVislist' = qLst /\ qUntold' = (qUntold \/ qLst # qVislist)
  BY DEF Iq!Poll, Iq!PeopleStay, Iq!hook
<1>2. /\ qVislist' \subseteq Iq!Marks /\ qUntold' \in BOOLEAN
      /\ ~qUntold' => ~qUntold /\ qVislist' = qVislist
      /\ qClient \in Clients /\ qListed \subseteq Buddies /\ qTosend \subseteq Buddies
  BY <1>1 DEF IqSound, IqTypes
<1>3. CASE UNCHANGED <<qListed, qTree, qSbl, qToServer, qAstray>> /\ qTosend' \subseteq Buddies
  BY <1>1, <1>2, <1>3, NothingEdited
<1>4. CASE \E c \in Buddies : /\ Iq!Enter({c}) /\ Iq!Edit(Iq!Additions({c}), <<>>)
                              /\ UNCHANGED qListed /\ qTosend' \subseteq Buddies
  <2>1. PICK c \in Buddies : /\ Iq!Enter({c}) /\ Iq!Edit(Iq!Additions({c}), <<>>)
                             /\ UNCHANGED qListed /\ qTosend' \subseteq Buddies
    BY <1>4
  <2>2. {c} \in SUBSET Buddies /\ IqTypes
    BY DEF IqSound
  <2> QED  BY <1>1, <1>2, <2>1, <2>2, Entered, PeopleEdited
<1> QED  BY <1>2, <1>3, <1>4 DEF Iq!Poll, Iq!people

LEMMA AddContactSound ==
  ASSUME IqConstants, IqSound, NEW c \in Buddies, Iq!AddContact(c) PROVE IqSound'
<1>1. /\ UNCHANGED <<qManual, qClient, qServer, qToClient, qLst, qVislist, qUntold>>
      /\ qListed' = qListed \cup {c}
  BY DEF Iq!AddContact, Iq!PeopleStay, Iq!hook
<1>2. /\ qVislist \subseteq Iq!Marks /\ qUntold \in BOOLEAN /\ qClient \in Clients
      /\ qListed' \subseteq Buddies /\ qTosend \subseteq Buddies /\ IqTypes
  BY <1>1 DEF IqSound, IqTypes
<1>3. CASE UNCHANGED <<qTree, qSbl, qToServer, qAstray>> /\ qTosend' \subseteq Buddies
  BY <1>1, <1>2, <1>3, NothingEdited
<1>4. CASE Iq!Enter({c}) /\ Iq!Edit(Iq!Additions({c}), <<>>) /\ UNCHANGED qTosend
  <2>1. {c} \in SUBSET Buddies
    OBVIOUS
  <2> QED  BY <1>1, <1>2, <1>4, <2>1, Entered, PeopleEdited
<1> QED  BY <1>2, <1>3, <1>4 DEF Iq!AddContact, Iq!sendnewuser

LEMMA RemoveContactSound ==
  ASSUME IqConstants, IqSound, NEW c \in Buddies, Iq!RemoveContact(c) PROVE IqSound'
<1> DEFINE e == [op |-> "remove", who |-> c]
<1>1. /\ UNCHANGED <<qManual, qClient, qServer, qToClient, qLst, qVislist, qUntold, qTosend>>
      /\ qListed' = qListed \ {c}
  BY DEF Iq!RemoveContact, Iq!PeopleStay, Iq!hook
<1>2. /\ qVislist \subseteq Iq!Marks /\ qUntold \in BOOLEAN /\ qClient \in Clients
      /\ qListed' \subseteq Buddies /\ qTosend \subseteq Buddies /\ IqTypes
  BY <1>1 DEF IqSound, IqTypes
<1>3. CASE UNCHANGED <<qTree, qSbl, qToServer, qAstray>>
  BY <1>1, <1>2, <1>3, NothingEdited
<1>4. CASE c \in qTree.people /\ qTree' = [qTree EXCEPT !.people = @ \ {c}]
           /\ Iq!Edit(<<e>>, <<>>)
  <2>1. e \in Iq!Edits /\ e.op = "remove" /\ \A b : Concerns(e, b) <=> b = c
    BY DEF Iq!Edits, Concerns
  <2>2. qTree' \in [people : SUBSET Buddies, groups : SUBSET Groups]
        /\ qTree'.people = qTree.people \ {c}
    BY <1>2, <1>4 DEF IqTypes
  <2> HIDE DEF e
  <2>3. <<e>> \in Seq(Iq!Edits) /\ DOMAIN <<e>> = {1} /\ <<e>>[1] = e
    BY <2>1
  <2>4. \A b \in Buddies, i \in DOMAIN <<e>> :
          Concerns(<<e>>[i], b) /\ (\A j \in DOMAIN <<e>> : j > i => ~Concerns(<<e>>[j], b)) =>
            (<<e>>[i].op = "add" <=> b \in qTree'.people)
    BY <2>1, <2>2, <2>3
  <2>5. \A b \in Buddies :
          (\A i \in DOMAIN <<e>> : ~Concerns(<<e>>[i], b)) =>
            (b \in qTree'.people <=> b \in qTree.people)
    BY <2>1, <2>2, <2>3
  <2> QED  BY <1>1, <1>2, <1>4, <2>2, <2>3, <2>4, <2>5, PeopleEdited
<1> QED  BY <1>3, <1>4 DEF Iq!RemoveContact

(* What does not concern the edits. *)
LEMMA RestSound ==
  ASSUME IqConstants, IqSound,
         \/ Iq!Tick \/ Iq!NetChanges
         \/ \E m \in Iq!Marks : Iq!Mark(m)
         \/ \E c \in Buddies : Iq!OtherClient(c)
         \/ UNCHANGED qVars
  PROVE  IqSound'
<1>1. /\ qManual \in Iq!Choosable /\ qClient \in Clients /\ qServer \in Servers
      /\ qListed \subseteq Buddies /\ qTosend \subseteq Buddies
      /\ qVislist \subseteq Iq!Marks /\ qUntold \in BOOLEAN /\ qAstray \subseteq Buddies
      /\ qTree \in [people : SUBSET Buddies, groups : SUBSET Groups]
  BY DEF IqSound, IqTypes
<1>2. CASE Iq!Tick \/ UNCHANGED qVars
  <2>1. UNCHANGED <<qManual, qClient, qListed, qTosend, qVislist, qUntold, qServer, qToServer,
                    qToClient, qLst, qSbl, qTree, qAstray>>
    BY <1>2 DEF Iq!Tick, Iq!hook, Iq!wire, qVars
  <2> QED  BY <1>1, <2>1, NothingEdited
<1>3. CASE Iq!NetChanges
  <2>1. UNCHANGED <<qManual, qListed, qTosend, qVislist, qUntold, qServer, qToServer,
                    qToClient, qLst, qSbl, qTree, qAstray>>
    BY <1>3 DEF Iq!NetChanges, Iq!hook, Iq!wire, Iq!people
  <2>2. qClient' = qClient \/ qClient' = [qClient EXCEPT !.mute = TRUE]
    BY <1>3 DEF Iq!NetChanges
  <2>3. qClient' \in Clients /\ qClient'.state = qClient.state
        /\ qClient'.wanted = qClient.wanted /\ qClient'.self = qClient.self
    BY <1>1, <2>2 DEF Clients
  <2> QED  BY <1>1, <2>1, <2>3, NothingEdited
<1>4. ASSUME NEW m \in Iq!Marks, Iq!Mark(m) PROVE IqSound'
  <2>1. UNCHANGED <<qManual, qClient, qListed, qTosend, qVislist, qUntold, qServer, qToServer,
                    qToClient, qSbl, qTree, qAstray>>
    BY <1>4 DEF Iq!Mark, Iq!hook, Iq!wire, Iq!people
  <2>2. qLst' \subseteq Iq!Marks
    BY <1>4 DEF Iq!Mark, IqSound, IqTypes
  <2>3. IqTypes'
    BY <2>1, <2>2 DEF IqSound, IqTypes
  <2> QED  BY <2>1, <2>3 DEF IqSound, QuietOut, VisibilitySound, ListSound, Iq!LoggedIn
<1>5. ASSUME NEW c \in Buddies, Iq!OtherClient(c) PROVE IqSound'
  <2>1. UNCHANGED <<qManual, qClient, qListed, qTosend, qVislist, qUntold, qToServer,
                    qToClient, qLst, qSbl, qTree, qAstray>> /\ ~Iq!LoggedIn
    BY <1>5 DEF Iq!OtherClient, Iq!hook, Iq!wire, Iq!people
  <2>2. \/ qServer' = [qServer EXCEPT !.kept = @ \ {c}]
        \/ qServer' = [qServer EXCEPT !.kept = @ \cup {c}, !.groups = @ \cup {GroupOf[c]}]
    BY <1>5 DEF Iq!OtherClient
  <2>3. qServer' \in Servers /\ qServer'.status = qServer.status
    <3>1. GroupOf[c] \in Groups
      BY <1>5 DEF IqConstants
    <3>2. qServer.kept \ {c} \subseteq Buddies /\ qServer.kept \cup {c} \subseteq Buddies
          /\ qServer.groups \cup {GroupOf[c]} \subseteq Groups
      BY <1>1, <1>5, <3>1 DEF Servers
    <3>3. CASE qServer' = [qServer EXCEPT !.kept = @ \ {c}]
      BY <1>1, <3>2, <3>3 DEF Servers
    <3>4. CASE qServer' = [qServer EXCEPT !.kept = @ \cup {c}, !.groups = @ \cup {GroupOf[c]}]
      BY <1>1, <3>2, <3>4 DEF Servers
    <3> QED  BY <2>2, <3>3, <3>4
  <2>4. qClient.state # "in"
    BY <2>1 DEF Iq!LoggedIn
  <2> QED  BY <1>1, <2>1, <2>3, <2>4, StaysOff
<1> QED  BY <1>2, <1>3, <1>4, <1>5

(* The statuses the user chooses: the client tells the server, or tries to *)
(* connect.                                                                *)
LEMMA StatusTold ==
  ASSUME IqSound, NEW st \in Iq!Choosable, NEW marks \in SUBSET Iq!Marks,
         NEW later \in SUBSET Iq!Marks, Iq!setStatus(st, marks, later)
  PROVE  /\ qClient' \in Clients /\ (Iq!LoggedIn' <=> Iq!LoggedIn) /\ qUntold' \in BOOLEAN
         /\ Iq!StatusSent(st, marks) \in Seq(Packets)
         /\ ~Iq!LoggedIn => qToServer \o Iq!StatusSent(st, marks) = <<>>
         /\ Listed(Iq!LoggedIn, qSbl, qTree, qServer, qAstray,
                   qToServer \o Iq!StatusSent(st, marks), qToClient)
         /\ Visible(qClient', qServer, qToServer \o Iq!StatusSent(st, marks), qToClient, later,
                    qUntold')
<1> DEFINE p == Iq!StatusSent(st, marks)
<1>1. qClient \in Clients /\ qToServer \in Seq(Packets) /\ qUntold \in BOOLEAN /\ IqTypes
      /\ VisibilitySound
      /\ Listed(Iq!LoggedIn, qSbl, qTree, qServer, qAstray, qToServer, qToClient)
  BY DEF IqSound, IqTypes, ListSound
<1>2. CASE Iq!LoggedIn
  <2>1. qClient' = [qClient EXCEPT !.wanted = st] /\ Iq!Tell(st, marks, later)
    BY <1>2 DEF Iq!setStatus, Iq!LoggedIn
  <2>2. qUntold' = ToldLater(st, marks, later)
    BY <2>1 DEF Iq!Tell, ToldLater
  <2>3. qClient' \in Clients /\ qClient'.state = qClient.state
    BY <1>1, <2>1 DEF Clients
  <2>4. ToldLater(st, marks, later) \in BOOLEAN
    BY <1>1 DEF ToldLater
  <2>5. p = Iq!StatusPackets(st, marks)
    BY <1>2 DEF Iq!StatusSent
  <2>6. /\ p \in Seq(Packets) /\ \A i \in DOMAIN p : ~IsEdit(p[i]) /\ ~IsRequest(p[i])
        /\ Visible(qClient', qServer, qToServer \o p, qToClient, later, qUntold')
    BY <1>1, <1>2, <2>1, <2>2, <2>5, VisibleTold
  <2> HIDE DEF p
  <2>7. Listed(Iq!LoggedIn, qSbl, qTree, qServer, qAstray, qToServer \o p, qToClient)
    BY <1>1, <2>6, ListedPush
  <2>8. Iq!LoggedIn' <=> Iq!LoggedIn
    BY <2>3 DEF Iq!LoggedIn
  <2> QED  BY <1>2, <2>2, <2>3, <2>4, <2>6, <2>7, <2>8 DEF p
<1>3. CASE ~Iq!LoggedIn
  <2>1. p = <<>> /\ qToServer \o p = <<>> /\ qToServer = <<>> /\ qToClient = <<>>
    BY <1>3, Unlogged DEF Iq!StatusSent
  <2>2. \/ qClient' = [qClient EXCEPT !.wanted = st]
        \/ qClient' = [qClient EXCEPT !.wanted = st, !.state = "auth", !.mute = FALSE]
    BY <1>3 DEF Iq!setStatus
  <2>3. qClient.state # "in" /\ UNCHANGED qUntold
    BY <1>3 DEF Iq!setStatus, Iq!LoggedIn
  <2>4. qClient' \in Clients /\ qClient'.state # "in" /\ qClient'.self = qClient.self
    BY <1>1, <2>2, <2>3 DEF Clients
  <2>5. Visible(qClient', qServer, <<>>, <<>>, later, qUntold')
    BY <1>3, <2>4, Unlogged, VisibleOff
  <2>6. ~Iq!LoggedIn'
    BY <2>4 DEF Iq!LoggedIn
  <2>7. <<>> \in Seq(Packets)
    OBVIOUS
  <2> QED  BY <1>1, <1>3, <2>1, <2>3, <2>4, <2>5, <2>6, <2>7
<1> QED  BY <1>2, <1>3

LEMMA ConnectSound ==
  ASSUME IqConstants, IqSound, NEW st \in Iq!Choosable, Iq!connect(st),
         qManual' \in Iq!Choosable, UNCHANGED <<qListed, qTosend, qLst>>
  PROVE  IqSound'
<1> DEFINE others == Iq!StatusSent(st, qVislist)
           es == Iq!Additions(qListed)
<1>1. /\ IqTypes /\ QuietOut /\ qVislist \in SUBSET Iq!Marks /\ qLst \in SUBSET Iq!Marks
      /\ qListed \in SUBSET Buddies /\ qTosend \subseteq Buddies
  BY DEF IqSound, IqTypes
<1>2. /\ Iq!setStatus(st, qVislist, qLst) /\ Iq!Enter(qListed) /\ Iq!Edit(es, others)
      /\ qVislist' = qLst /\ UNCHANGED <<qServer, qToClient>>
  BY DEF Iq!connect
<1> HIDE DEF others, es
<1>3. /\ qClient' \in Clients /\ (Iq!LoggedIn' <=> Iq!LoggedIn) /\ qUntold' \in BOOLEAN
      /\ others \in Seq(Packets) /\ (~Iq!LoggedIn => qToServer \o others = <<>>)
      /\ Listed(Iq!LoggedIn, qSbl, qTree, qServer, qAstray, qToServer \o others, qToClient)
      /\ Visible(qClient', qServer, qToServer \o others, qToClient, qLst, qUntold')
  BY <1>1, <1>2, StatusTold DEF others
<1>4. /\ es \in Seq(Iq!Edits)
      /\ qTree' \in [people : SUBSET Buddies, groups : SUBSET Groups]
      /\ \A c \in Buddies, i \in DOMAIN es :
           Concerns(es[i], c) /\ (\A j \in DOMAIN es : j > i => ~Concerns(es[j], c)) =>
             (es[i].op = "add" <=> c \in qTree'.people)
      /\ \A c \in Buddies :
           (\A i \in DOMAIN es : ~Concerns(es[i], c)) =>
             (c \in qTree'.people <=> c \in qTree.people)
  BY <1>1, <1>2, Entered DEF es
<1>5. /\ qSbl' \in Sbls /\ qToServer' \in Seq(Packets) /\ qAstray' \subseteq Buddies
      /\ ~Iq!LoggedIn => qSbl' = qSbl /\ qToServer' = qToServer \o others
      /\ Listed(Iq!LoggedIn, qSbl', qTree', qServer, qAstray', qToServer', qToClient)
      /\ Visible(qClient', qServer, qToServer', qToClient, qLst, qUntold')
  BY <1>1, <1>2, <1>3, <1>4, EditMade
<1>6. IqTypes'
  BY <1>1, <1>2, <1>3, <1>4, <1>5 DEF IqTypes
<1>7. QuietOut'
  BY <1>1, <1>2, <1>3, <1>5 DEF QuietOut
<1>8. VisibilitySound'
  BY <1>2, <1>5 DEF VisibilitySound
<1>9. ListSound'
  <2>1. Iq!LoggedIn' = Iq!LoggedIn
    BY <1>3 DEF Iq!LoggedIn
  <2> QED  BY <1>2, <1>5, <2>1 DEF ListSound
<1> QED  BY <1>6, <1>7, <1>8, <1>9 DEF IqSound

(* The connection is ended, by the user or not. *)
LEMMA DisconnectedSound ==
  ASSUME IqSound, NEW w \in Iq!Choosable, Iq!Disconnected(w),
         qManual' \in Iq!Choosable, UNCHANGED <<qListed, qTosend, qLst>>
  PROVE  IqSound'
<1>1. /\ qClient' = [state |-> "none", wanted |-> w, self |-> "offline", mute |-> FALSE]
      /\ qSbl' = [qSbl EXCEPT !.canedit = FALSE]
      /\ qServer' = [qServer EXCEPT !.status = "offline", !.privacy = Iq!NoPrivacy]
      /\ qToServer' = <<>> /\ qToClient' = <<>>
      /\ UNCHANGED <<qTree, qAstray, qUntold, qVislist>>
  BY DEF Iq!Disconnected
<1>2. qSbl \in Sbls /\ qServer \in Servers
  BY DEF IqSound, IqTypes
<1>3. /\ qClient' \in Clients /\ qClient'.state # "in" /\ qClient'.self = "offline"
  BY <1>1 DEF Clients, Iq!Choosable
<1>4. qSbl' \in Sbls /\ ~qSbl'.canedit /\ qSbl'.snacs = qSbl.snacs
      /\ qSbl'.inedit = qSbl.inedit
  BY <1>1, <1>2 DEF Sbls
<1>5. qServer' \in Servers /\ qServer'.status = "offline"
  <2>1. Iq!NoPrivacy \in Iq!Privacy
    BY DEF Iq!NoPrivacy, Iq!Privacy
  <2>2. "offline" \in Iq!Choosable
    BY DEF Iq!Choosable
  <2> QED  BY <1>1, <1>2, <2>1, <2>2 DEF Servers
<1>6. IqTypes'
  <2>1. <<>> \in Seq(Packets) /\ <<>> \in Seq(Answers)
    OBVIOUS
  <2> QED  BY <1>1, <1>3, <1>4, <1>5, <2>1 DEF IqSound, IqTypes
<1>7. QuietOut'
  BY <1>1, <1>4, <1>5 DEF QuietOut
<1>8. VisibilitySound'
  BY <1>1, <1>3, <1>5, VisibleOff DEF VisibilitySound
<1>9. ListSound'
  <2>1. /\ qSbl'.inedit => qSbl'.snacs # <<>>
        /\ \A i \in DOMAIN qSbl'.snacs : i > 1 => qSbl'.snacs[i].op = "update"
    BY <1>4 DEF IqSound, ListSound, Listed, OneEdit
  <2>2. Listed(FALSE, qSbl', qTree', qServer', qAstray', <<>>, <<>>)
    BY <1>4, <2>1, ListedOff
  <2>3. Iq!LoggedIn' = FALSE
    BY <1>3 DEF Iq!LoggedIn
  <2> QED  BY <1>1, <2>2, <2>3 DEF ListSound
<1> QED  BY <1>6, <1>7, <1>8, <1>9 DEF IqSound

LEMMA DisconnectSound ==
  ASSUME IqSound, Iq!disconnect, qManual' \in Iq!Choosable, UNCHANGED <<qListed, qTosend, qLst>>
  PROVE  IqSound'
<1>1. "offline" \in Iq!Choosable
  BY DEF Iq!Choosable
<1>2. CASE Iq!Disconnected("offline")
  BY <1>1, <1>2, DisconnectedSound
<1>3. CASE /\ qClient.state = "none" /\ qClient' = [qClient EXCEPT !.wanted = "offline"]
           /\ UNCHANGED <<qSbl, qServer, qToServer, qToClient, qTree, qAstray, qUntold, qVislist>>
  <2>1. /\ qClient \in Clients /\ qServer \in Servers
        /\ qListed \subseteq Buddies /\ qTosend \subseteq Buddies
        /\ qVislist \subseteq Iq!Marks /\ qUntold \in BOOLEAN /\ qAstray \subseteq Buddies
        /\ qTree \in [people : SUBSET Buddies, groups : SUBSET Groups]
    BY DEF IqSound, IqTypes
  <2>2. qClient' \in Clients /\ qClient'.state # "in" /\ qClient'.self = qClient.self
    BY <1>1, <1>3, <2>1 DEF Clients
  <2>3. ~Iq!LoggedIn
    BY <1>3 DEF Iq!LoggedIn
  <2> QED  BY <1>3, <2>1, <2>2, <2>3, StaysOff
<1> QED  BY <1>2, <1>3 DEF Iq!disconnect, Iq!wire

LEMMA SetstatusSound ==
  ASSUME IqConstants, IqSound, NEW st \in Iq!Choosable, Iq!setstatus(st)
  PROVE  IqSound'
<1>1. qManual' = st /\ UNCHANGED <<qListed, qTosend, qLst>>
  BY DEF Iq!setstatus, Iq!people
<1>2. /\ IqTypes /\ QuietOut /\ qLst \in SUBSET Iq!Marks /\ qClient \in Clients
      /\ qToServer \in Seq(Packets)
  BY DEF IqSound, IqTypes
<1>3. CASE Iq!connect(st)
  BY <1>1, <1>3, ConnectSound
<1>4. CASE /\ Iq!setStatus(st, qLst, qLst) /\ qVislist' = qLst
           /\ qToServer' = qToServer \o Iq!StatusSent(st, qLst)
           /\ UNCHANGED <<qFonline, qFlogged, qSbl, qTree, qAstray, qServer, qToClient>>
  <2> DEFINE p == Iq!StatusSent(st, qLst)
  <2>1. /\ qClient' \in Clients /\ (Iq!LoggedIn' <=> Iq!LoggedIn) /\ qUntold' \in BOOLEAN
        /\ p \in Seq(Packets) /\ (~Iq!LoggedIn => qToServer \o p = <<>>)
        /\ Listed(Iq!LoggedIn, qSbl, qTree, qServer, qAstray, qToServer \o p, qToClient)
        /\ Visible(qClient', qServer, qToServer \o p, qToClient, qLst, qUntold')
    BY <1>2, <1>4, StatusTold
  <2> HIDE DEF p
  <2>2. qToServer' = qToServer \o p /\ qToServer' \in Seq(Packets)
    BY <1>2, <1>4, <2>1, Joined DEF p
  <2>3. IqTypes'
    BY <1>1, <1>2, <1>4, <2>1, <2>2 DEF IqTypes
  <2>4. QuietOut'
    BY <1>2, <1>4, <2>1, <2>2 DEF QuietOut
  <2>5. VisibilitySound'
    BY <1>4, <2>1, <2>2 DEF VisibilitySound
  <2>6. ListSound'
    <3>1. Iq!LoggedIn' = Iq!LoggedIn
      BY <2>1 DEF Iq!LoggedIn
    <3> QED  BY <1>4, <2>1, <2>2, <3>1 DEF ListSound
  <2> QED  BY <2>3, <2>4, <2>5, <2>6 DEF IqSound
<1>5. CASE Iq!disconnect
  BY <1>1, <1>5, DisconnectSound
<1>6. CASE UNCHANGED <<qFonline, qFlogged, qClient, qSbl, qTree, qAstray, qUntold, qVislist,
                       qServer, qToServer, qToClient>>
  <2>1. IqTypes'
    BY <1>1, <1>2, <1>6 DEF IqTypes
  <2> QED  BY <1>1, <1>6, <2>1 DEF IqSound, QuietOut, VisibilitySound, ListSound, Iq!LoggedIn
<1> QED  BY <1>3, <1>4, <1>5, <1>6 DEF Iq!setstatus, Iq!wire

LEMMA ReconnectSound ==
  ASSUME IqConstants, IqSound, Iq!Reconnect PROVE IqSound'
<1>1. UNCHANGED <<qManual, qListed, qTosend, qLst>> /\ qManual \in Iq!Choosable
  BY DEF Iq!Reconnect, Iq!people, IqSound, IqTypes
<1>2. CASE Iq!disconnect
  BY <1>1, <1>2, DisconnectSound
<1>3. CASE Iq!connect(qManual)
  BY <1>1, <1>3, ConnectSound
<1> QED  BY <1>2, <1>3 DEF Iq!Reconnect

LEMMA LostSound ==
  ASSUME IqSound, Iq!Lost PROVE IqSound'
<1>1. qClient.wanted \in Iq!Choosable /\ Iq!Disconnected(qClient.wanted)
  BY DEF IqSound, IqTypes, Clients, Iq!Lost
<1>2. qManual' \in Iq!Choosable /\ UNCHANGED <<qListed, qTosend, qLst>>
  BY DEF IqSound, IqTypes, Iq!Lost, Iq!people, Iq!Choosable
<1> QED  BY <1>1, <1>2, DisconnectedSound

LEMMA LoginStepSound ==
  ASSUME IqSound, Iq!LoginStep PROVE IqSound'
<1>1. /\ UNCHANGED <<qManual, qListed, qTosend, qTree, qLst, qVislist, qServer, qToClient, qAstray>>
      /\ qClient.state \in {"auth", "bos"} /\ ~Iq!LoggedIn
  BY DEF Iq!LoginStep, Iq!UnderWay, Iq!people, Iq!LoggedIn
<1>2. /\ qManual \in Iq!Choosable /\ qClient \in Clients /\ qServer \in Servers
      /\ qListed \subseteq Buddies /\ qTosend \subseteq Buddies
      /\ qVislist \subseteq Iq!Marks /\ qUntold \in BOOLEAN /\ qAstray \subseteq Buddies
      /\ qTree \in [people : SUBSET Buddies, groups : SUBSET Groups]
      /\ IqTypes /\ QuietOut /\ VisibilitySound /\ ListSound
  BY DEF IqSound, IqTypes
<1>3. CASE qClient' = [qClient EXCEPT !.state = "bos"] /\ UNCHANGED <<qSbl, qToServer, qUntold>>
  <2>1. qClient' \in Clients /\ qClient'.state # "in" /\ qClient'.self = qClient.self
    BY <1>2, <1>3 DEF Clients
  <2> QED  BY <1>1, <1>2, <1>3, <2>1, StaysOff
<1>4. CASE /\ qClient' = [qClient EXCEPT !.state = "in"]
           /\ qSbl' = [qSbl EXCEPT !.edits = <<>>, !.known = {}, !.groups = {}, !.canedit = FALSE]
           /\ qToServer' = Iq!LoginPackets /\ qUntold' = FALSE
  <2>1. qClient' \in Clients /\ qClient'.state = "in"
    BY <1>2, <1>4 DEF Clients
  <2>2. /\ qToServer' \in Seq(Packets)
        /\ Visible(qClient', qServer, qToServer', qToClient, qVislist, qUntold')
    BY <1>1, <1>2, <1>4, VisibleLogin
  <2>3. qSbl' \in Sbls /\ Listed(TRUE, qSbl', qTree, qServer, qAstray, qToServer', <<>>)
    BY <1>1, <1>2, <1>4, ListedLogin
  <2>4. qToClient = <<>>
    BY <1>1, <1>2 DEF QuietOut
  <2>5. IqTypes'
    BY <1>1, <1>2, <1>4, <2>1, <2>2, <2>3 DEF IqTypes
  <2>6. Iq!LoggedIn' = TRUE
    BY <2>1 DEF Iq!LoggedIn
  <2>7. QuietOut'
    BY <2>6 DEF QuietOut
  <2>8. VisibilitySound'
    BY <1>1, <2>2 DEF VisibilitySound
  <2>9. ListSound'
    BY <1>1, <2>3, <2>4, <2>6 DEF ListSound
  <2> QED  BY <2>5, <2>7, <2>8, <2>9 DEF IqSound
<1> QED  BY <1>3, <1>4 DEF Iq!LoginStep

(* What the client receives, and what the server takes. *)
LEMMA RecvSound ==
  ASSUME IqConstants, IqSound, Iq!Recv PROVE IqSound'
<1> DEFINE m == Head(qToClient)
           q == Tail(qToClient)
<1>1. /\ UNCHANGED <<qManual, qLst, qVislist, qServer, qUntold>>
      /\ qToClient # <<>> /\ qToClient' = q
  BY DEF Iq!Recv, Iq!hook
<1>2. /\ IqTypes /\ QuietOut /\ VisibilitySound /\ ListSound /\ qClient \in Clients
      /\ qToServer \in Seq(Packets) /\ qToClient \in Seq(Answers)
      /\ qListed \subseteq Buddies /\ qTosend \subseteq Buddies
  BY DEF IqSound, IqTypes
<1>3. Iq!LoggedIn /\ Iq!LoggedIn = TRUE /\ qClient.state = "in"
  BY <1>1, <1>2 DEF QuietOut, Iq!LoggedIn
<1>4. m \in Answers /\ q \in Seq(Answers)
  BY <1>1, <1>2, Popped
<1> HIDE DEF m, q
<1>5. CASE m.type = "info" /\ Iq!UserInfo(m)
  <2>1. /\ qClient' = [qClient EXCEPT !.self = m.status]
        /\ UNCHANGED <<qListed, qTosend, qTree, qSbl, qToServer, qAstray>>
    BY <1>5 DEF Iq!UserInfo, Iq!people
  <2>2. m.status \in Iq!Choosable /\ IsInfo(m)
    BY <1>4, <1>5 DEF Answers, IsInfo
  <2>3. qClient' \in Clients /\ qClient'.state = "in"
    BY <1>2, <1>3, <2>1, <2>2 DEF Clients
  <2>4. Visible(qClient', qServer, qToServer, q, qVislist, qUntold)
    BY <1>1, <1>2, <2>1, <2>2, VisibleInfo DEF VisibilitySound, m, q
  <2>5. Listed(Iq!LoggedIn, qSbl, qTree, qServer, qAstray, qToServer, q)
    BY <1>1, <1>2, <2>2, ListedPop DEF ListSound, m, q
  <2>6. IqTypes'
    BY <1>1, <1>2, <1>4, <2>1, <2>3 DEF IqTypes
  <2>7. Iq!LoggedIn' = TRUE
    BY <2>3 DEF Iq!LoggedIn
  <2>8. QuietOut' /\ VisibilitySound' /\ ListSound'
    BY <1>1, <1>3, <2>1, <2>4, <2>5, <2>7 DEF QuietOut, VisibilitySound, ListSound
  <2> QED  BY <2>6, <2>8 DEF IqSound
<1>6. ASSUME NEW t \in Seq(Packets), \A i \in DOMAIN t : IsEdit(t[i]), ~IsInfo(m),
             qToServer' = qToServer \o t, UNCHANGED qClient,
             qSbl' \in Sbls, qAstray' \subseteq Buddies,
             qListed' \subseteq Buddies, qTosend' \subseteq Buddies,
             qTree' \in [people : SUBSET Buddies, groups : SUBSET Groups],
             Listed(Iq!LoggedIn, qSbl', qTree', qServer, qAstray', qToServer \o t, q)
      PROVE  IqSound'
  <2>1. Visible(qClient, qServer, qToServer, q, qVislist, qUntold)
    BY <1>1, <1>2, <1>6, VisiblePop DEF VisibilitySound, m, q
  <2>2. \A i \in DOMAIN t : ~IsStatus(t[i]) /\ ~IsList(t[i])
    BY <1>6 DEF IsEdit, IsStatus, IsList
  <2>3. Visible(qClient, qServer, qToServer \o t, q, qVislist, qUntold)
    BY <1>2, <1>6, <2>1, <2>2, VisiblePush
  <2>4. qToServer \o t \in Seq(Packets)
    BY <1>2, <1>6, Joined
  <2>5. IqTypes'
    BY <1>1, <1>2, <1>4, <1>6, <2>4 DEF IqTypes
  <2>6. Iq!LoggedIn' = TRUE
    BY <1>3, <1>6 DEF Iq!LoggedIn
  <2>7. QuietOut' /\ VisibilitySound' /\ ListSound'
    BY <1>1, <1>3, <1>6, <2>3, <2>6 DEF QuietOut, VisibilitySound, ListSound
  <2> QED  BY <2>5, <2>7 DEF IqSound
<1>7. CASE m.type = "list" /\ Iq!ListFromServer(m)
  <2> DEFINE s == [Iq!Queued(qSbl, Iq!Additions(m.people \ qTree.people))
                     EXCEPT !.known = @ \cup m.people, !.groups = @ \cup m.groups,
                            !.canedit = TRUE]
             p == Iq!processSblEdits(s)
             t2 == [people |-> qTree.people \cup m.people,
                    groups |-> qTree.groups \cup m.groups]
  <2>1. /\ qSbl' = p /\ qToServer' = qToServer \o Iq!Sent(s, p) /\ qTree' = t2
        /\ qAstray' = (qTree.people \ m.people) \cup Iq!Forsaken(s)
        /\ qListed' = qListed \cup m.people
        /\ \E late \in Iq!Late(m.people \ qListed) : qTosend' = qTosend \cup late
        /\ UNCHANGED qClient
    BY <1>7 DEF Iq!ListFromServer
  <2>2. IsRequest(m) /\ ~IsInfo(m) /\ m.people \subseteq Buddies
    BY <1>4, <1>7 DEF IsRequest, IsInfo, Answers
  <2>3. /\ p \in Sbls /\ t2 \in [people : SUBSET Buddies, groups : SUBSET Groups]
        /\ Iq!Sent(s, p) \in Seq(Packets)
        /\ \A i \in DOMAIN Iq!Sent(s, p) : IsEdit(Iq!Sent(s, p)[i])
        /\ Listed(Iq!LoggedIn, p, t2, qServer,
                  (qTree.people \ m.people) \cup Iq!Forsaken(s),
                  qToServer \o Iq!Sent(s, p), q)
    BY <1>1, <1>2, <1>3, <2>2, ListedReceived DEF m, q
  <2>4. qListed' \subseteq Buddies /\ qTosend' \subseteq Buddies
    <3>1. \A late \in Iq!Late(m.people \ qListed) : late \subseteq Buddies
      BY <2>2 DEF Iq!Late
    <3> QED  BY <1>2, <2>1, <2>2, <3>1
  <2>5. qAstray' \subseteq Buddies
    <3>1. Iq!Forsaken(s) \subseteq Buddies
      BY DEF Iq!Forsaken
    <3> QED  BY <1>2, <2>1, <3>1 DEF IqTypes
  <2> HIDE DEF s, p, t2
  <2> QED  BY <1>6, <2>1, <2>2, <2>3, <2>4, <2>5
<1>8. CASE m.type = "ack" /\ Iq!EditAck(m)
  <2> DEFINE e == Head(qSbl.snacs)
             s == [(IF m.ok THEN Iq!Applied(qSbl, e) ELSE qSbl) EXCEPT !.snacs = Tail(@)]
             free == [s EXCEPT !.inedit = FALSE]
             who == IF e.op \in {"add", "remove"} THEN {e.who} ELSE {}
             p == Iq!NextEdit(s)
             t == IF s.snacs # <<>> THEN Iq!Sent(qSbl, s) ELSE Iq!Sent(free, p)
             a2 == (IF m.ok THEN qAstray \ who ELSE qAstray \cup who)
                   \cup (IF s.snacs = <<>> THEN Iq!Forsaken(free) ELSE {})
  <2>1. /\ qSbl' = p /\ qToServer' = qToServer \o t /\ qAstray' = a2
        /\ UNCHANGED <<qClient, qListed, qTosend, qTree>>
    BY <1>8 DEF Iq!EditAck, Iq!people
  <2>2. IsAck(m) /\ ~IsInfo(m)
    BY <1>8 DEF IsAck, IsInfo
  <2>3. /\ p \in Sbls /\ t \in Seq(Packets) /\ a2 \subseteq Buddies
        /\ \A i \in DOMAIN t : IsEdit(t[i])
        /\ Listed(Iq!LoggedIn, p, qTree, qServer, a2, qToServer \o t, q)
    BY <1>1, <1>2, <1>3, <2>2, ListedAck DEF m, q
  <2>4. qTree \in [people : SUBSET Buddies, groups : SUBSET Groups]
    BY <1>2 DEF IqTypes
  <2> HIDE DEF p, t, a2
  <2> QED  BY <1>2, <1>6, <2>1, <2>2, <2>3, <2>4
<1> QED  BY <1>5, <1>7, <1>8 DEF Iq!Recv, m

LEMMA ServerTakesSound ==
  ASSUME IqSound, Iq!ServerTakes PROVE IqSound'
<1> DEFINE m == Head(qToServer)
           q == Tail(qToServer)
<1>1. /\ UNCHANGED <<qManual, qClient, qListed, qTosend, qTree, qSbl, qLst, qVislist, qAstray,
                     qUntold>>
      /\ qToServer # <<>> /\ qToServer' = q
  BY DEF Iq!ServerTakes, Iq!hook, Iq!people
<1>2. /\ IqTypes /\ QuietOut /\ VisibilitySound /\ ListSound /\ qServer \in Servers
      /\ qToServer \in Seq(Packets) /\ qToClient \in Seq(Answers)
      /\ Visible(qClient, qServer, qToServer, qToClient, qVislist, qUntold)
      /\ Listed(Iq!LoggedIn, qSbl, qTree, qServer, qAstray, qToServer, qToClient)
  BY DEF IqSound, IqTypes, VisibilitySound, ListSound
<1>3. Iq!LoggedIn /\ Iq!LoggedIn' = Iq!LoggedIn
  BY <1>1, <1>2 DEF QuietOut, Iq!LoggedIn
<1>4. m \in Packets /\ q \in Seq(Packets)
  BY <1>1, <1>2, Popped
<1> HIDE DEF m, q
<1>5. ASSUME qServer' \in Servers, qToClient' \in Seq(Answers),
             Visible(qClient, qServer', q, qToClient', qVislist, qUntold),
             Listed(Iq!LoggedIn, qSbl, qTree, qServer', qAstray, q, qToClient')
      PROVE  IqSound'
  <2>1. IqTypes'
    BY <1>1, <1>2, <1>4, <1>5 DEF IqTypes
  <2>2. QuietOut' /\ VisibilitySound' /\ ListSound'
    BY <1>1, <1>3, <1>5 DEF QuietOut, VisibilitySound, ListSound
  <2> QED  BY <2>1, <2>2 DEF IqSound
<1>6. CASE /\ m.type \in {"visible", "invisible"}
           /\ qServer' = [qServer EXCEPT !.privacy = [list |-> m.type, people |-> m.people]]
           /\ UNCHANGED qToClient
  <2>1. IsList(m) /\ ~IsEdit(m) /\ ~IsRequest(m)
    BY <1>6 DEF IsList, IsEdit, IsRequest
  <2>2. [list |-> m.type, people |-> m.people] \in Iq!Privacy
    BY <1>4, <1>6 DEF Packets, Iq!Privacy
  <2>3. qServer' \in Servers /\ qServer'.kept = qServer.kept
    BY <1>2, <1>6, <2>2 DEF Servers
  <2>4. Visible(qClient, qServer', q, qToClient, qVislist, qUntold)
    BY <1>1, <1>2, <1>6, <2>1, VisibleListTaken DEF m, q
  <2>5. Listed(Iq!LoggedIn, qSbl, qTree, qServer', qAstray, q, qToClient)
    BY <1>1, <1>2, <2>1, <2>3, ListedTaken DEF m, q
  <2> QED  BY <1>2, <1>5, <1>6, <2>3, <2>4, <2>5
<1>7. CASE /\ m.type = "status" /\ qServer' = [qServer EXCEPT !.status = m.status]
           /\ qToClient' = Append(qToClient, [type |-> "info", status |-> m.status])
  <2> DEFINE a == [type |-> "info", status |-> m.status]
  <2>1. IsStatus(m) /\ ~IsEdit(m) /\ ~IsRequest(m) /\ m.status \in Iq!Choosable
    BY <1>4, <1>7 DEF IsStatus, IsEdit, IsRequest, Packets
  <2>2. a \in Answers /\ IsInfo(a)
    BY <2>1 DEF Answers, IsInfo
  <2>3. qServer' \in Servers /\ qServer'.kept = qServer.kept
    BY <1>2, <1>7, <2>1 DEF Servers
  <2>4. Visible(qClient, qServer', q, qToClient', qVislist, qUntold)
    BY <1>1, <1>2, <1>7, <2>1, VisibleStatusTaken DEF m, q
  <2> HIDE DEF a
  <2>5. Listed(Iq!LoggedIn, qSbl, qTree, qServer', qAstray, q, qToClient)
    BY <1>1, <1>2, <2>1, <2>3, ListedTaken DEF m, q
  <2>6. Listed(Iq!LoggedIn, qSbl, qTree, qServer', qAstray, q, Append(qToClient, a))
    BY <1>2, <2>2, <2>5, ListedAppend
  <2>7. qToClient' = Append(qToClient, a) /\ qToClient' \in Seq(Answers)
    BY <1>2, <1>7, <2>2 DEF a
  <2> QED  BY <1>5, <2>3, <2>4, <2>6, <2>7
<1>8. CASE /\ m.type = "list" /\ UNCHANGED qServer
           /\ qToClient' = Append(qToClient, [type |-> "list", people |-> qServer.kept,
                                              groups |-> qServer.groups])
  <2> DEFINE a == [type |-> "list", people |-> qServer.kept, groups |-> qServer.groups]
  <2>1. IsRequest(m) /\ ~IsList(m) /\ ~IsStatus(m)
    BY <1>8 DEF IsRequest, IsList, IsStatus
  <2>2. a \in Answers /\ IsRequest(a) /\ ~IsInfo(a) /\ a.people = qServer.kept
    BY <1>2 DEF Answers, IsRequest, IsInfo, Servers
  <2> HIDE DEF a
  <2>3. qToClient' = Append(qToClient, a) /\ qToClient' \in Seq(Answers)
    BY <1>2, <1>8, <2>2 DEF a
  <2>4. Visible(qClient, qServer, q, Append(qToClient, a), qVislist, qUntold)
    BY <1>1, <1>2, <2>1, <2>2, VisibleTaken DEF m, q
  <2>5. Listed(Iq!LoggedIn, qSbl, qTree, qServer, qAstray, q, Append(qToClient, a))
    BY <1>1, <1>2, <2>1, <2>2, ListedRequestTaken DEF m, q
  <2> QED  BY <1>2, <1>5, <1>8, <2>3, <2>4, <2>5
<1>9. ASSUME NEW ok \in BOOLEAN, m.type = "edit",
             qServer' = IF ok THEN Iq!Accepts(m.edit) ELSE qServer,
             qToClient' = Append(qToClient, [type |-> "ack", ok |-> ok])
      PROVE  IqSound'
  <2> DEFINE a == [type |-> "ack", ok |-> ok]
  <2>1. IsEdit(m) /\ ~IsList(m) /\ ~IsStatus(m)
    BY <1>9 DEF IsEdit, IsList, IsStatus
  <2>2. a \in Answers /\ ~IsInfo(a)
    BY DEF Answers, IsInfo
  <2>3. /\ qServer' \in Servers /\ qServer'.status = qServer.status
        /\ qServer'.privacy = qServer.privacy
        /\ Listed(Iq!LoggedIn, qSbl, qTree, qServer', qAstray, q, qToClient')
    BY <1>1, <1>2, <1>3, <1>9, <2>1, ListedEditTaken DEF m, q
  <2> HIDE DEF a
  <2>4. qToClient' = Append(qToClient, a) /\ qToClient' \in Seq(Answers)
    BY <1>2, <1>9, <2>2 DEF a
  <2>5. Visible(qClient, qServer', q, Append(qToClient, a), qVislist, qUntold)
    BY <1>1, <1>2, <2>1, <2>2, <2>3, VisibleTaken DEF m, q
  <2> QED  BY <1>5, <2>3, <2>4, <2>5
<1> QED  BY <1>6, <1>7, <1>8, <1>9 DEF Iq!ServerTakes, m

-----------------------------------------------------------------------------
LEMMA IqInit ==
  ASSUME Iq!Init PROVE IqSound
<1>1. Iq!Init
  OBVIOUS
<1>2. /\ qManual \in Iq!Choosable
      /\ qClient = [state |-> "none", wanted |-> "offline", self |-> "offline", mute |-> FALSE]
      /\ qListed \subseteq Buddies /\ qTosend = {} /\ qTree = [people |-> {}, groups |-> {}]
      /\ qSbl = [edits |-> <<>>, snacs |-> <<>>, inedit |-> FALSE, canedit |-> FALSE,
                 known |-> {}, groups |-> {}]
      /\ qLst \subseteq Iq!Marks /\ qVislist = {}
      /\ qServer = [status |-> "offline", privacy |-> Iq!NoPrivacy, kept |-> {}, groups |-> {}]
      /\ qToServer = <<>> /\ qToClient = <<>> /\ qAstray = {} /\ qUntold = FALSE
  BY <1>1 DEF Iq!Init
<1>3. "offline" \in Iq!Choosable /\ Iq!NoPrivacy \in Iq!Privacy
  BY DEF Iq!Choosable, Iq!NoPrivacy, Iq!Privacy
<1>4. /\ <<>> \in Seq(Packets) /\ <<>> \in Seq(Answers)
      /\ <<>> \in Seq(Iq!Edits) /\ <<>> \in Seq(Iq!Snacs)
  OBVIOUS
<1>5. qClient \in Clients /\ qClient.state # "in" /\ qClient.self = "offline"
  BY <1>2, <1>3 DEF Clients
<1>6. qServer \in Servers /\ qServer.status = "offline"
  BY <1>2, <1>3 DEF Servers
<1>7. qSbl \in Sbls /\ ~qSbl.canedit /\ ~qSbl.inedit /\ qSbl.snacs = <<>>
  BY <1>2, <1>4 DEF Sbls
<1>8. IqTypes
  BY <1>2, <1>4, <1>5, <1>6, <1>7 DEF IqTypes
<1>9. QuietOut
  BY <1>2, <1>6, <1>7 DEF QuietOut
<1>10. VisibilitySound
  BY <1>2, <1>5, <1>6, VisibleOff DEF VisibilitySound
<1>11. ListSound
  <2>1. DOMAIN qSbl.snacs = {}
    BY <1>7
  <2>2. Listed(FALSE, qSbl, qTree, qServer, qAstray, <<>>, <<>>)
    BY <1>7, <2>1, ListedOff
  <2>3. Iq!LoggedIn = FALSE
    BY <1>5 DEF Iq!LoggedIn
  <2> QED  BY <1>2, <2>2, <2>3 DEF ListSound
<1> QED  BY <1>8, <1>9, <1>10, <1>11 DEF IqSound

LEMMA IqNext ==
  ASSUME IqConstants, IqSound, [Iq!Next]_qVars PROVE IqSound'
<1>1. CASE Iq!Next
  <2>1. ASSUME NEW st \in Iq!Choosable, Iq!setstatus(st) PROVE IqSound'
    BY <2>1, SetstatusSound
  <2>2. CASE Iq!Reconnect
    BY <2>2, ReconnectSound
  <2>3. CASE Iq!LoginStep
    BY <2>3, LoginStepSound
  <2>4. CASE Iq!Lost
    BY <2>4, LostSound
  <2>5. CASE Iq!NetChanges \/ Iq!Tick
    BY <2>5, RestSound
  <2>6. CASE Iq!Poll
    BY <2>6, PollSound
  <2>7. CASE Iq!Recv
    BY <2>7, RecvSound
  <2>8. CASE Iq!ServerTakes
    BY <2>8, ServerTakesSound
  <2>9. ASSUME NEW c \in Buddies, Iq!AddContact(c) PROVE IqSound'
    BY <2>9, AddContactSound
  <2>10. ASSUME NEW c \in Buddies, Iq!RemoveContact(c) PROVE IqSound'
    BY <2>10, RemoveContactSound
  <2>11. ASSUME NEW c \in Buddies, Iq!OtherClient(c) PROVE IqSound'
    BY <2>11, RestSound
  <2>12. ASSUME NEW m \in Iq!Marks, Iq!Mark(m) PROVE IqSound'
    BY <2>12, RestSound
  <2> QED  BY <1>1, <2>1, <2>2, <2>3, <2>4, <2>5, <2>6, <2>7, <2>8, <2>9, <2>10, <2>11, <2>12
           DEF Iq!Next
<1>2. CASE UNCHANGED qVars
  BY <1>2, RestSound
<1> QED  BY <1>1, <1>2

LEMMA SameVars == (Iq!vars)' = Iq!vars <=> qVars' = qVars
  BY DEF Iq!vars, Iq!hook, Iq!people, Iq!wire, qVars

LEMMA IqInvariant ==
  ASSUME IqConstants PROVE Iq!Spec => []IqSound
<1>1. Iq!Init => IqSound
  BY IqInit
<1>2. IqSound /\ [Iq!Next]_(Iq!vars) => IqSound'
  BY IqNext, SameVars
<1> QED  BY <1>1, <1>2, PTL DEF Iq!Spec

(* The two parts that MCSending explores are parts of Icq, of which the    *)
(* theorems below have all.                                                *)
LEMMA PartsAreIcq == PartSpec => Iq!Spec
<1>1. PartInit => Iq!Init
  BY DEF PartInit
<1>2. [PartNext]_<<part, vars, qVars>> => [Iq!Next]_(Iq!vars)
  BY SameVars DEF PartNext
<1> QED  BY <1>1, <1>2, PTL DEF PartSpec, Iq!Spec

(* Between edits the libicq2000 client knows what the server keeps, and    *)
(* every contact the user added or removed while logged in is, or is not,  *)
(* in the server's list: processSblEdits() sends one edit at a time, and   *)
(* drops only those that the last edit of the contact leaves without       *)
(* effect.                                                                 *)
THEOREM ServerListFollows ==
  ASSUME IqConstants PROVE Iq!Spec => []ListFollows
<1>1. ASSUME IqSound PROVE ListFollows
  <2> SUFFICES ASSUME Iq!LoggedIn, qSbl.canedit, ~qSbl.inedit
               PROVE  /\ qSbl.known = qServer.kept
                      /\ \A c \in Buddies \ qAstray : c \in qTree.people <=> c \in qServer.kept
    BY DEF ListFollows, Iq!ListFollows
  <2>1. /\ OneEdit(qSbl, qToServer, qToClient) /\ Known(Iq!LoggedIn, qSbl, qServer, qToClient)
        /\ Agree(qSbl.edits, Out(qSbl, qToServer, qToClient), qTree.people, qServer.kept,
                 qAstray, qSbl.canedit)
    BY <1>1 DEF IqSound, ListSound, Listed
  <2>2. ~EditSent(qToServer) /\ ~Acked(qToClient) /\ qSbl.edits = <<>>
    BY <2>1 DEF OneEdit
  <2>3. qSbl.known = qServer.kept
    BY <2>1, <2>2 DEF Known, Acked, Accepted
  <2>4. Out(qSbl, qToServer, qToClient) = {} /\ DOMAIN qSbl.edits = {}
    BY <2>2 DEF Out
  <2>5. \A c \in Buddies \ qAstray : c \in qTree.people <=> c \in qServer.kept
    BY <2>1, <2>4 DEF Agree
  <2> QED  BY <2>3, <2>5
<1> QED  BY <1>1, IqInvariant, PTL

(* An invisible user is seen by his visible list and by nobody else, from  *)
(* the moment the server shows him so: Client::setStatus() and SendLogin() *)
(* send the list before the status.  One who is visible is hidden from his *)
(* invisible list when the packets have arrived.                           *)
THEOREM PrivacyIsTold ==
  ASSUME IqConstants PROVE Iq!Spec => []PrivacyTold
<1>1. ASSUME IqSound PROVE PrivacyTold
  <2> SUFFICES ASSUME Iq!LoggedIn, ~qUntold
               PROVE  /\ qServer.status = "invisible" /\ qClient.wanted = "invisible" =>
                           qServer.privacy = [list |-> "visible",
                                              people |-> Iq!Marked("visible", qVislist)]
                      /\ qServer.status = "available" /\ qToServer = <<>> =>
                           qServer.privacy = [list |-> "invisible",
                                              people |-> Iq!Marked("invisible", qVislist)]
    BY DEF PrivacyTold, Iq!PrivacyTold
  <2>1. /\ Follows(qClient, qServer, qToServer, qToClient)
        /\ ListFirst(qClient, qServer, qToServer, qVislist) /\ qClient.state = "in"
    BY <1>1 DEF IqSound, VisibilitySound, Visible, Iq!LoggedIn
  <2>2. ASSUME qServer.status = "invisible", qClient.wanted = "invisible"
        PROVE  qServer.privacy = Right("invisible", qVislist)
    BY <2>1, <2>2 DEF ListFirst
  <2>3. ASSUME qServer.status = "available", qToServer = <<>>
        PROVE  qServer.privacy = Right("available", qVislist)
    <3>1. DOMAIN qToServer = {}
      BY <2>3
    <3>2. qClient.wanted = "available"
      BY <2>1, <2>3, <3>1 DEF Follows
    <3> QED  BY <2>1, <3>1, <3>2 DEF ListFirst
  <2> QED  BY <2>2, <2>3 DEF Right, How
<1> QED  BY <1>1, IqInvariant, PTL

(* The variables have their types. *)
Flags ==
  /\ qFonline \in BOOLEAN /\ qFlogged \in BOOLEAN
  /\ qNet \in {"ok", "down"} /\ qJustadded \in BOOLEAN

LEMMA FlagsNext ==
  ASSUME Flags, [Iq!Next]_qVars PROVE Flags'
<1>1. CASE Iq!Next
  <2>1. ASSUME NEW st \in Iq!Choosable, Iq!setstatus(st) PROVE Flags'
    BY <2>1 DEF Flags, Iq!setstatus, Iq!connect, Iq!disconnect, Iq!Disconnected, Iq!people
  <2>2. CASE Iq!Reconnect
    BY <2>2 DEF Flags, Iq!Reconnect, Iq!connect, Iq!disconnect, Iq!Disconnected, Iq!people
  <2>3. CASE Iq!LoginStep
    BY <2>3 DEF Flags, Iq!LoginStep, Iq!people
  <2>4. CASE Iq!Lost
    BY <2>4 DEF Flags, Iq!Lost, Iq!Disconnected, Iq!people
  <2>5. CASE Iq!NetChanges
    BY <2>5 DEF Flags, Iq!NetChanges, Iq!hook, Iq!people
  <2>6. CASE Iq!Poll
    BY <2>6 DEF Flags, Iq!Poll, Iq!PeopleStay, Iq!hook, Iq!people
  <2>7. CASE Iq!Tick
    BY <2>7 DEF Flags, Iq!Tick, Iq!hook
  <2>8. CASE Iq!Recv
    <3>1. UNCHANGED <<qFonline, qFlogged, qNet>>
      BY <2>8 DEF Iq!Recv, Iq!hook
    <3>2. qJustadded' \in BOOLEAN
      <4>1. \/ qJustadded' = qJustadded
            \/ \E m : qJustadded' = (qJustadded \/ (Iq!logged /\ ~(m.people \subseteq qListed)))
        BY <2>8 DEF Iq!Recv, Iq!UserInfo, Iq!ListFromServer, Iq!EditAck, Iq!people
      <4> QED  BY <4>1 DEF Flags
    <3> QED  BY <3>1, <3>2 DEF Flags
  <2>9. CASE Iq!ServerTakes
    BY <2>9 DEF Flags, Iq!ServerTakes, Iq!hook, Iq!people
  <2>10. ASSUME NEW c \in Buddies, Iq!AddContact(c) PROVE Flags'
    BY <2>10 DEF Flags, Iq!AddContact, Iq!sendnewuser, Iq!PeopleStay, Iq!hook
  <2>11. ASSUME NEW c \in Buddies, Iq!RemoveContact(c) PROVE Flags'
    BY <2>11 DEF Flags, Iq!RemoveContact, Iq!PeopleStay, Iq!hook
  <2>12. ASSUME NEW c \in Buddies, Iq!OtherClient(c) PROVE Flags'
    BY <2>12 DEF Flags, Iq!OtherClient, Iq!hook, Iq!people
  <2>13. ASSUME NEW m \in Iq!Marks, Iq!Mark(m) PROVE Flags'
    BY <2>13 DEF Flags, Iq!Mark, Iq!hook, Iq!people
  <2> QED  BY <1>1, <2>1, <2>2, <2>3, <2>4, <2>5, <2>6, <2>7, <2>8, <2>9, <2>10, <2>11, <2>12,
              <2>13 DEF Iq!Next
<1>2. CASE UNCHANGED qVars
  BY <1>2 DEF Flags, qVars
<1> QED  BY <1>1, <1>2

(* The variables of the hook, of the client and of the server keep their   *)
(* types, whatever crosses on the way between them.                        *)
THEOREM IcqTypeCorrect ==
  ASSUME IqConstants PROVE Iq!Spec => []Iq!TypeOK
<1>1. Iq!Init => Flags
  BY DEF Iq!Init, Flags
<1>2. IqSound /\ Flags => Iq!TypeOK
  BY DEF IqSound, IqTypes, Flags, Iq!TypeOK, Clients, Servers, Sbls
<1>3. Flags /\ [Iq!Next]_(Iq!vars) => Flags'
  BY FlagsNext, SameVars
<1> QED  BY <1>1, <1>2, <1>3, IqInvariant, PTL DEF Iq!Spec
=============================================================================
