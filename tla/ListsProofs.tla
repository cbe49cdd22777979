----------------------------- MODULE ListsProofs -----------------------------
(***************************************************************************)
(* Proofs about the components that MCContactList puts beside ContactList: *)
(* Incoming (In), ModeList (Ml) and Jabber (Jb), for any values of the     *)
(* constants.  The proofs about ContactList itself are in                  *)
(* ContactListProofs.                                                      *)
(***************************************************************************)
EXTENDS MCContactList, FiniteSetTheorems, FunctionTheorems,
  SequenceTheorems, TLAPS

allVars == <<part, vars, lVars, iVars, jVars>>

(* A step of the composition is a step of a component, or leaves it alone. *)
LEMMA InStep == [PartNext]_allVars => [In!Next]_iVars
  BY DEF PartNext, allVars

-----------------------------------------------------------------------------
(***************************************************************************)
(* Incoming: the contact list and the disk agree, and strangers enter it   *)
(* by the test only.                                                       *)
(***************************************************************************)
(* What the settings, the clock and a refused answer leave alone. *)
people == <<iKnown, iListed, iDirs, iUnread, iOutfile, iPassed>>

LEMMA DiskInit == In!Init => In!ListMatchesDisk
  BY DEF In!Init, In!ListMatchesDisk

LEMMA DiskNext == In!ListMatchesDisk /\ [In!Next]_iVars => In!ListMatchesDisk'
<1> SUFFICES ASSUME In!ListMatchesDisk, [In!Next]_iVars PROVE In!ListMatchesDisk'
  OBVIOUS
<1> USE DEF In!ListMatchesDisk
<1>1. ASSUME NEW c \in Writers, In!FromKnown(c) PROVE In!ListMatchesDisk'
  BY <1>1 DEF In!FromKnown, In!Accept
<1>2. ASSUME NEW c \in Writers, NEW auth \in BOOLEAN, In!FromStranger(c, auth)
      PROVE  In!ListMatchesDisk'
  BY <1>2 DEF In!FromStranger, In!Accept, In!addnew
<1>3. ASSUME NEW c \in Writers, NEW text \in Texts, In!RightAnswer(c, text)
      PROVE  In!ListMatchesDisk'
  BY <1>3 DEF In!RightAnswer, In!Accept, In!addnew
<1>4. ASSUME NEW c \in Writers, In!ReadEvents(c) \/ In!QueueSent(c)
      PROVE  In!ListMatchesDisk'
  BY <1>4 DEF In!ReadEvents, In!QueueSent
<1>5. ASSUME NEW c \in Writers, In!includeintolist(c) PROVE In!ListMatchesDisk'
  BY <1>5 DEF In!includeintolist
<1>6. ASSUME NEW c \in Writers, In!remove(c) PROVE In!ListMatchesDisk'
  BY <1>6 DEF In!remove
<1>7. CASE In!Quit
  BY <1>7 DEF In!Quit
<1>8. ASSUME UNCHANGED people PROVE In!ListMatchesDisk'
  BY <1>8 DEF people
<1>9. ASSUME NEW c \in Writers, NEW q \in Questions,
             In!Ask(c, q) \/ \E text \in Texts : In!WrongAnswer(c, text, q)
      PROVE  UNCHANGED people
  BY <1>9 DEF In!Ask, In!WrongAnswer, people
<1>10. ASSUME \/ In!ToggleAntispam \/ In!ToggleDropAuth \/ In!ToggleCaptcha
              \/ In!Tick \/ UNCHANGED iVars
       PROVE  UNCHANGED people
  BY <1>10
  DEF In!ToggleAntispam, In!ToggleDropAuth, In!ToggleCaptcha, In!Tick, iVars, people
<1> QED
  BY <1>1, <1>2, <1>3, <1>4, <1>5, <1>6, <1>7, <1>8, <1>9, <1>10 DEF In!Next

(* store() keeps the list and the directories together: a stranger who is  *)
(* refused leaves nothing behind, addnew() makes both, clist.remove()      *)
(* removes both with all that is kept for the contact, and the clean-up on *)
(* exit drops nobody who has something unread or unsent.                   *)
THEOREM ListAlwaysMatchesDisk == PartSpec => []ListMatchesDisk
<1>1. PartInit => In!ListMatchesDisk
  BY DiskInit DEF PartInit
<1>2. In!ListMatchesDisk /\ [PartNext]_allVars => In!ListMatchesDisk'
  BY DiskNext, InStep
<1> QED
  BY <1>1, <1>2, PTL DEF PartSpec, allVars, ListMatchesDisk

-----------------------------------------------------------------------------
(* Who enters the list in a step, while the captcha is on. *)
Passes(c) == c \in Irc \/ (c \in iPassed' /\ In!docaptcha(c) /\ iEntry.left > 0)

LEMMA EntersTested ==
  ASSUME In!ListMatchesDisk, [In!Next]_iVars, NEW c \in Writers,
         iConf.captcha, c \notin iKnown, c \in iKnown'
  PROVE  Passes(c)
<1>1. ASSUME NEW d \in Writers, NEW auth \in BOOLEAN, In!FromStranger(d, auth)
      PROVE  Passes(c)
  BY <1>1 DEF In!FromStranger, In!addnew, Passes
<1>2. ASSUME NEW d \in Writers, NEW text \in Texts, In!RightAnswer(d, text)
      PROVE  Passes(c)
  BY <1>2 DEF In!RightAnswer, In!checkcaptcha, In!addnew, Passes
<1>3. ASSUME NEW d \in Writers, In!remove(d) PROVE FALSE
  BY <1>3 DEF In!remove
<1>4. CASE In!Quit
  BY <1>4 DEF In!Quit, In!ListMatchesDisk
<1>5. iKnown' # iKnown
  OBVIOUS
<1>6. ASSUME NEW d \in Writers, NEW q \in Questions,
             In!Ask(d, q) \/ \E text \in Texts : In!WrongAnswer(d, text, q)
      PROVE  FALSE
  BY <1>5, <1>6 DEF In!Ask, In!WrongAnswer
<1>7. ASSUME NEW d \in Writers,
             \/ In!FromKnown(d) \/ In!ReadEvents(d)
             \/ In!QueueSent(d) \/ In!includeintolist(d)
      PROVE  FALSE
  BY <1>5, <1>7 DEF In!FromKnown, In!ReadEvents, In!QueueSent, In!includeintolist
<1>8. ASSUME \/ In!ToggleAntispam \/ In!ToggleDropAuth \/ In!ToggleCaptcha
             \/ In!Tick \/ UNCHANGED iVars
      PROVE  FALSE
  BY <1>5, <1>8
  DEF In!ToggleAntispam, In!ToggleDropAuth, In!ToggleCaptcha, In!Tick, iVars
<1> QED
  BY <1>1, <1>2, <1>3, <1>4, <1>6, <1>7, <1>8 DEF In!Next

(* While the captcha is on, store() puts nobody into the list who has not  *)
(* answered a question in time, but for the people on irc; also not by the *)
(* way of the clean-up, which reads the list back from the directories.    *)
THEOREM OnlyTheTestedEnter == PartSpec => OnlyTested
<1>1. In!ListMatchesDisk /\ [PartNext]_allVars =>
        [\A c \in Writers : iConf.captcha /\ c \notin iKnown /\ c \in iKnown' =>
           \/ c \in Irc
           \/ c \in iPassed' /\ In!docaptcha(c) /\ iEntry.left > 0]_iVars
  BY InStep, EntersTested DEF Passes
<1> QED
  BY <1>1, ListAlwaysMatchesDisk, PTL
  DEF PartSpec, allVars, OnlyTested, In!OnlyTested, In!vars, iVars, ListMatchesDisk

-----------------------------------------------------------------------------
LEMMA ElapseSound ==
  ASSUME Timeout \in Nat, NEW t \in In!Entries, t.left > 0 => t.question # None
  PROVE  /\ In!Elapse(t) \in In!Entries
         /\ In!Elapse(t).left > 0 => In!Elapse(t).question # None
  BY DEF In!Elapse, In!Entries

LEMMA TypeNext ==
  ASSUME Timeout \in Nat, None \notin Questions, In!TypeOK, [In!Next]_iVars
  PROVE  In!TypeOK'
<1> USE DEF In!TypeOK
<1> DEFINE Map == /\ iEntry \in In!Entries /\ iTest \in [Writers -> In!Entries]
                  /\ iEntry.left > 0 => iEntry.question # None
           Rest == /\ iConf \in [antispam : BOOLEAN, dropauth : BOOLEAN, captcha : BOOLEAN]
                   /\ iKnown \subseteq Writers /\ iDirs \subseteq Writers
                   /\ iPassed \subseteq Writers
<1>0. /\ In!NoEntry \in In!Entries
      /\ \A q \in Questions : In!Fresh(q) \in In!Entries /\ In!Fresh(q).question = q
  BY DEF In!NoEntry, In!Fresh, In!Entries
<1>1. ASSUME NEW c \in Writers, NEW q \in Questions,
             In!Ask(c, q) \/ \E text \in Texts : In!WrongAnswer(c, text, q)
      PROVE  In!TypeOK'
  BY <1>0, <1>1 DEF In!Ask, In!WrongAnswer, In!getcaptchaquestion
<1>2. ASSUME NEW c \in Writers, NEW text \in Texts, In!RightAnswer(c, text)
      PROVE  In!TypeOK'
  <2>1. iEntry' = In!NoEntry /\ iTest' = [iTest EXCEPT ![c] = In!NoEntry]
    BY <1>2 DEF In!RightAnswer, In!donecaptcha
  <2>2. Map'
    BY <1>0, <2>1 DEF In!NoEntry
  <2>3. Rest'
    BY <1>2 DEF In!RightAnswer, In!addnew
  <2> QED
    BY <2>2, <2>3
<1>3. CASE In!Tick
  <2>1. iEntry' = In!Elapse(iEntry) /\ iTest' = [c \in Writers |-> In!Elapse(iTest[c])]
    BY <1>3 DEF In!Tick
  <2>2. \A c \in Writers : In!Elapse(iTest[c]) \in In!Entries
    BY DEF In!Elapse, In!Entries
  <2>3. Map'
    BY <2>1, <2>2, ElapseSound
  <2>4. Rest'
    BY <1>3 DEF In!Tick
  <2> QED
    BY <2>3, <2>4
<1>4. CASE In!Quit
  <2>1. iEntry' = In!NoEntry /\ iTest' = [c \in Writers |-> In!NoEntry]
    BY <1>4 DEF In!Quit
  <2>2. Map'
    BY <1>0, <2>1 DEF In!NoEntry
  <2>3. Rest'
    BY <1>4 DEF In!Quit
  <2> QED
    BY <2>2, <2>3
<1>5. CASE In!ToggleAntispam \/ In!ToggleDropAuth \/ In!ToggleCaptcha
  <2>1. iConf' \in [antispam : BOOLEAN, dropauth : BOOLEAN, captcha : BOOLEAN]
    <3>1. iConf.antispam \in BOOLEAN /\ iConf.dropauth \in BOOLEAN /\ iConf.captcha \in BOOLEAN
      OBVIOUS
    <3> QED
      BY <1>5, <3>1, Zenon DEF In!ToggleAntispam, In!ToggleDropAuth, In!ToggleCaptcha
  <2> QED
    BY <1>5, <2>1 DEF In!ToggleAntispam, In!ToggleDropAuth, In!ToggleCaptcha
<1>6. ASSUME NEW c \in Writers,
             \/ In!FromKnown(c) \/ In!ReadEvents(c) \/ In!QueueSent(c)
             \/ In!includeintolist(c) \/ In!remove(c)
             \/ \E auth \in BOOLEAN : In!FromStranger(c, auth)
      PROVE  In!TypeOK'
  BY <1>6
  DEF In!FromKnown, In!ReadEvents, In!QueueSent, In!includeintolist, In!remove,
      In!FromStranger, In!addnew
<1>7. CASE UNCHANGED iVars
  BY <1>7 DEF iVars
<1> QED
  BY <1>1, <1>2, <1>3, <1>4, <1>5, <1>6, <1>7 DEF In!Next

(* The types of the settings, the list and the captcha map; an entry of    *)
(* the map that still counts has a question.                               *)
THEOREM IncomingTypeCorrect ==
  ASSUME Timeout \in Nat, None \notin Questions PROVE  PartSpec => []In!TypeOK
<1>1. PartInit => In!TypeOK
  <2>1. In!NoEntry \in In!Entries /\ ~(In!NoEntry.left > 0)
    BY DEF In!NoEntry, In!Entries
  <2>2. [antispam : BOOLEAN, dropauth : {FALSE}, captcha : BOOLEAN]
          \subseteq [antispam : BOOLEAN, dropauth : BOOLEAN, captcha : BOOLEAN]
    BY Zenon
  <2> QED
    BY <2>1, <2>2 DEF PartInit, In!Init, In!TypeOK
<1>2. In!TypeOK /\ [PartNext]_allVars => In!TypeOK'
  BY TypeNext, InStep
<1> QED
  BY <1>1, <1>2, PTL DEF PartSpec, allVars
-----------------------------------------------------------------------------
(***************************************************************************)
(* Lemmas about numbers and sequences.                                     *)
(***************************************************************************)

(* A set of natural numbers has a smallest element. *)
LEMMA SmallestNat ==
  ASSUME NEW T, T \subseteq Nat, T # {} PROVE \E x \in T : \A y \in T : x <= y
<1>1. PICK x \in T : \A y \in T : <<y, x>> \notin OpToRel(<, Nat)
  BY WFMin, NatLessThanWellFounded
<1>2. \A y \in T : ~(y < x)
  BY <1>1, Zenon DEF OpToRel
<1> QED
  BY <1>2

(* SetToSeq() puts every element of a finite set at one place.             *)
LEMMA SetToSeqProperties ==
  ASSUME NEW S, IsFiniteSet(S)
  PROVE  /\ Ml!SetToSeq(S) \in Seq(S)
         /\ \A x \in S : \E i \in DOMAIN Ml!SetToSeq(S) : Ml!SetToSeq(S)[i] = x
         /\ \A i, j \in DOMAIN Ml!SetToSeq(S) : Ml!SetToSeq(S)[i] = Ml!SetToSeq(S)[j] => i = j
<1> DEFINE n == Cardinality(S)
           Inj == {f \in [1..n -> S] : \A a, b \in DOMAIN f : f[a] = f[b] => a = b}
<1>1. n \in Nat /\ ExistsBijection(1..n, S)
  BY FS_CardinalityType
<1>2. Inj # {}
  BY <1>1, Fun_BijectionProperties DEF ExistsBijection
<1>8. Ml!Cardinality(S) = n
  BY DEF Ml!Cardinality, Cardinality
<1>3. Ml!SetToSeq(S) \in Inj
  BY <1>2, <1>8 DEF Ml!SetToSeq, Ml!IsInjective
<1>4. Ml!SetToSeq(S) \in Injection(1..n, S)
  BY <1>3, Fun_IsInj
<1>5. IsFiniteSet(1..n) /\ Cardinality(1..n) = n
  BY <1>1, FS_Interval
<1>6. Ml!SetToSeq(S) \in Surjection(1..n, S)
  BY <1>4, <1>5, FS_Injection
<1>7. \A x \in S : \E i \in 1..n : Ml!SetToSeq(S)[i] = x
  BY <1>6 DEF Surjection
<1> QED
  BY <1>1, <1>3, <1>7

(* RemoveAt() moves what comes behind one place to the front.              *)
LEMMA RemoveAtProperties ==
  ASSUME NEW S, NEW s \in Seq(S), NEW k \in DOMAIN s
  PROVE  /\ Ml!RemoveAt(s, k) \in Seq(S)
         /\ DOMAIN Ml!RemoveAt(s, k) = 1..(Len(s) - 1)
         /\ \A i \in 1..(Len(s) - 1) : Ml!RemoveAt(s, k)[i] = IF i < k THEN s[i] ELSE s[i + 1]
<1> DEFINE a == SubSeq(s, 1, k - 1)
           b == SubSeq(s, k + 1, Len(s))
<1>1. Len(s) \in Nat /\ DOMAIN s = 1..Len(s) /\ \A i \in 1..Len(s) : s[i] \in S
  OBVIOUS
<1>2. a \in Seq(S) /\ Len(a) = k - 1 /\ \A i \in 1..(k - 1) : a[i] = s[i]
  BY <1>1
<1>3. b \in Seq(S) /\ Len(b) = Len(s) - k /\ \A i \in 1..(Len(s) - k) : b[i] = s[i + k]
  BY <1>1
<1>4. Ml!RemoveAt(s, k) = a \o b
  BY DEF Ml!RemoveAt
<1> HIDE DEF a, b
<1>5. /\ a \o b \in Seq(S) /\ Len(a \o b) = Len(a) + Len(b)
      /\ \A i \in 1..(Len(a) + Len(b)) :
           (a \o b)[i] = IF i <= Len(a) THEN a[i] ELSE b[i - Len(a)]
  <2>1. a \in Seq(S) /\ b \in Seq(S)
    BY <1>2, <1>3
  <2> QED  BY <2>1, ConcatProperties
<1>6. \A i \in 1..(Len(s) - 1) : (a \o b)[i] = IF i < k THEN s[i] ELSE s[i + 1]
  <2> TAKE i \in 1..(Len(s) - 1)
  <2>0. /\ k \in Nat /\ i \in Nat /\ Len(a) = k - 1 /\ i \in 1..(Len(a) + Len(b))
        /\ i <= Len(a) <=> i < k
    BY <1>1, <1>2, <1>3
  <2>1. CASE i < k
    <3>1. (a \o b)[i] = a[i] /\ i \in 1..(k - 1)
      BY <1>5, <2>0, <2>1
    <3> QED  BY <1>2, <2>1, <3>1
  <2>2. CASE ~(i < k)
    <3>1. (a \o b)[i] = b[i - (k - 1)]
      BY <1>5, <2>0, <2>2
    <3>2. i - (k - 1) \in 1..(Len(s) - k) /\ i - (k - 1) + k = i + 1
      BY <1>1, <2>0, <2>2
    <3>3. b[i - (k - 1)] = s[i - (k - 1) + k]
      BY <1>3, <3>2
    <3> QED  BY <2>2, <3>1, <3>2, <3>3
  <2> QED  BY <2>1, <2>2
<1>7. DOMAIN (a \o b) = 1..(Len(s) - 1)
  <2>1. Len(a \o b) = Len(s) - 1
    BY <1>1, <1>2, <1>3, <1>5
  <2> QED  BY <1>5, <2>1, LenProperties
<1> QED
  BY <1>4, <1>5, <1>6, <1>7

-----------------------------------------------------------------------------
(***************************************************************************)
(* ModeList: the ignore, visible and invisible lists hold those icq        *)
(* contacts that the user put on them.  del() removes one entry, so there  *)
(* must be one only; that there is depends on nothing happening to the     *)
(* list while the dialog holds those picked; and an entry that load() has  *)
(* read under a name must not be taken for a number.                       *)
(***************************************************************************)
MlStep == [Ml!Next]_lVars

LEMMA MlPart == [PartNext]_allVars => MlStep
  BY DEF PartNext, allVars, MlStep

(* No name, and nobody, is an icq number; no list is called None.          *)
MlConstants ==
  /\ Icq \cap (Named \cup Pals \cup {None}) = {}
  /\ IsFiniteSet(Ml!People) /\ Ignore \in Statuses /\ None \notin Statuses

Whom == Ml!People \cup Ml!Shown \cup {None}
MlEntries == [nick : Whom, who : Whom, status : Statuses]

Has(l, c, s) == \E i \in DOMAIN l : l[i].who = c /\ l[i].status = s

(* A vector or a file: one entry for each number and list, and no number   *)
(* for the name of somebody else.                                          *)
EntriesSound(l) ==
  /\ l \in Seq(MlEntries)
  /\ \A i, j \in DOMAIN l :
       l[i].who \in Icq /\ l[i].who = l[j].who /\ l[i].status = l[j].status => i = j
  /\ \A i \in DOMAIN l : l[i].who \notin Icq => l[i].nick \notin Icq

(* It holds the numbers that m has. *)
Agrees(l, m) == \A c \in Icq, s \in Statuses : Has(l, c, s) <=> c \in m[s]

MlTypes ==
  /\ lUp \in BOOLEAN /\ lClist \subseteq Ml!People
  /\ lDisp \in [Ml!People -> Whom] /\ \A c \in Ml!People \ Icq : lDisp[c] \notin Icq
  /\ lDialog \in Statuses \cup {None} /\ lPicked \subseteq Ml!People
  /\ lMeant \in [Statuses -> SUBSET Whom] /\ lKept \in [Statuses -> SUBSET Whom]

PickedSound ==
  lPicked # {} => lUp /\ lDialog # None /\ \A c \in lPicked : ~Has(lLst, c, lDialog)

MlSound ==
  /\ MlTypes /\ PickedSound
  /\ EntriesSound(lLst) /\ EntriesSound(lFile)
  /\ Agrees(lFile, lKept)
  /\ IF lUp THEN Agrees(lLst, lMeant) ELSE lMeant = lKept

(* del() takes away the entry of c in the list s. *)
LEMMA DelSound ==
  ASSUME NEW l, EntriesSound(l), NEW c \in Whom, NEW s \in Statuses
  PROVE  /\ EntriesSound(Ml!del(l, c, s))
         /\ \A d \in Icq, t \in Statuses :
              Has(Ml!del(l, c, s), d, t) <=> Has(l, d, t) /\ ~(d = c /\ t = s)
<1> DEFINE at == {i \in DOMAIN l : l[i].who = c /\ l[i].status = s}
<1>1. CASE at = {}
  BY <1>1 DEF Ml!del, Has
<1>2. CASE at # {}
  <2> DEFINE k == CHOOSE i \in at : \A j \in at : i <= j
             r == Ml!RemoveAt(l, k)
  <2>1. \E i \in at : \A j \in at : i <= j
    <3>1. at \subseteq Nat /\ at # {}
      BY <1>2 DEF EntriesSound
    <3> QED  BY <3>1, SmallestNat
  <2>2. k \in DOMAIN l /\ l[k].who = c /\ l[k].status = s
    BY <2>1
  <2> HIDE DEF k
  <2>3. Ml!del(l, c, s) = r
    BY <1>2 DEF Ml!del, k
  <2>4. /\ r \in Seq(MlEntries) /\ DOMAIN r = 1..(Len(l) - 1)
        /\ \A i \in 1..(Len(l) - 1) : r[i] = IF i < k THEN l[i] ELSE l[i + 1]
    BY <2>2, RemoveAtProperties DEF EntriesSound
  <2>5. DOMAIN l = 1..Len(l) /\ Len(l) \in Nat /\ k \in 1..Len(l)
    BY <2>2 DEF EntriesSound
  <2> HIDE DEF r
  <2> DEFINE from(i) == IF i < k THEN i ELSE i + 1
  <2>6. \A i \in DOMAIN r : from(i) \in DOMAIN l \ {k} /\ r[i] = l[from(i)]
    <3> TAKE i \in DOMAIN r
    <3>1. i \in Int /\ i >= 1 /\ i <= Len(l) - 1
      BY <2>4, <2>5
    <3>2. CASE i < k
      BY <2>4, <2>5, <3>1, <3>2
    <3>3. CASE ~(i < k)
      BY <2>4, <2>5, <3>1, <3>3
    <3> QED  BY <3>2, <3>3
  <2>7. \A j \in DOMAIN l \ {k} : \E i \in DOMAIN r : r[i] = l[j]
    <3> TAKE j \in DOMAIN l \ {k}
    <3>1. CASE j < k
      BY <2>4, <2>5, <3>1
    <3>2. CASE ~(j < k)
      <4>1. j - 1 \in DOMAIN r /\ r[j - 1] = l[j]
        BY <2>4, <2>5, <3>2
      <4> QED  BY <4>1
    <3> QED  BY <3>1, <3>2
  <2>8. EntriesSound(r)
    <3>1. \A i, j \in DOMAIN r :
            r[i].who \in Icq /\ r[i].who = r[j].who /\ r[i].status = r[j].status => i = j
      <4> TAKE i, j \in DOMAIN r
      <4>1. from(i) = from(j) => i = j
        BY <2>4, <2>5
      <4> HIDE DEF from
      <4> QED  BY <2>6, <4>1 DEF EntriesSound
    <3> QED  BY <2>4, <2>6, <3>1 DEF EntriesSound
  <2>9. ASSUME NEW d \in Icq, NEW t \in Statuses
        PROVE  Has(r, d, t) <=> Has(l, d, t) /\ ~(d = c /\ t = s)
    BY <2>2, <2>6, <2>7 DEF EntriesSound, Has
  <2> QED  BY <2>3, <2>8, <2>9
<1> QED  BY <1>1, <1>2

(* Entries of one list for people who are not in it. *)
LEMMA JoinSound ==
  ASSUME NEW l, EntriesSound(l), NEW m, EntriesSound(m), NEW s \in Statuses,
         \A i \in DOMAIN m : m[i].status = s /\ ~Has(l, m[i].who, s)
  PROVE  /\ EntriesSound(l \o m)
         /\ \A d \in Icq, t \in Statuses :
              Has(l \o m, d, t) <=> Has(l, d, t) \/ Has(m, d, t)
<1> DEFINE r == l \o m
<1>1. l \in Seq(MlEntries) /\ m \in Seq(MlEntries)
  BY DEF EntriesSound
<1>2. /\ r \in Seq(MlEntries) /\ Len(r) = Len(l) + Len(m)
      /\ \A i \in 1..(Len(l) + Len(m)) : r[i] = IF i <= Len(l) THEN l[i] ELSE m[i - Len(l)]
  BY <1>1, ConcatProperties
<1>3. /\ DOMAIN r = 1..(Len(l) + Len(m)) /\ Len(l) \in Nat /\ Len(m) \in Nat
      /\ DOMAIN l = 1..Len(l) /\ DOMAIN m = 1..Len(m)
  BY <1>1, <1>2, LenProperties
<1> HIDE DEF r
<1>4. \A i \in DOMAIN r :
        \/ i \in DOMAIN l /\ r[i] = l[i]
        \/ i - Len(l) \in DOMAIN m /\ r[i] = m[i - Len(l)]
  BY <1>2, <1>3
<1>5. /\ \A i \in DOMAIN l : i \in DOMAIN r /\ r[i] = l[i]
      /\ \A i \in DOMAIN m : i + Len(l) \in DOMAIN r /\ r[i + Len(l)] = m[i]
  BY <1>2, <1>3
<1>6. EntriesSound(r)
  <2>1. ASSUME NEW i \in DOMAIN r, NEW j \in DOMAIN r, r[i].who \in Icq,
               r[i].who = r[j].who, r[i].status = r[j].status
        PROVE  i = j
    <3>1. i \in Int /\ j \in Int
      BY <1>3
    <3>2. CASE i \in DOMAIN l /\ r[i] = l[i] /\ j \in DOMAIN l /\ r[j] = l[j]
      BY <2>1, <3>2 DEF EntriesSound
    <3>3. CASE /\ i - Len(l) \in DOMAIN m /\ r[i] = m[i - Len(l)]
               /\ j - Len(l) \in DOMAIN m /\ r[j] = m[j - Len(l)]
      <4>1. i - Len(l) = j - Len(l)
        BY <2>1, <3>3 DEF EntriesSound
      <4> QED  BY <1>3, <3>1, <4>1
    <3>4. ASSUME NEW a \in DOMAIN l, NEW b \in DOMAIN m,
                 l[a].who = m[b].who, l[a].status = m[b].status
          PROVE  FALSE
      BY <3>4 DEF Has
    <3> QED  BY <1>4, <2>1, <3>2, <3>3, <3>4
  <2>2. \A i \in DOMAIN r : r[i].who \notin Icq => r[i].nick \notin Icq
    BY <1>4 DEF EntriesSound
  <2> QED  BY <1>2, <2>1, <2>2 DEF EntriesSound
<1>7. \A d \in Icq, t \in Statuses : Has(r, d, t) <=> Has(l, d, t) \/ Has(m, d, t)
  BY <1>4, <1>5 DEF Has
<1> QED  BY <1>6, <1>7 DEF r

MlWorld == UNCHANGED <<lUp, lFile, lKept>>

LEMMA MlIgnoreOn ==
  ASSUME MlConstants, MlSound, NEW c \in Ml!People, Ml!IgnoreOn(c) PROVE MlSound'
<1> DEFINE e == Ml!Item(c, Ignore)
<1>1. e \in MlEntries /\ e.who = c /\ e.status = Ignore /\ e.nick = lDisp[c]
  BY DEF Ml!Item, MlSound, MlTypes, MlEntries, MlConstants, Whom
<1> HIDE DEF e
<1>2. EntriesSound(<<e>>)
  <2>1. <<e>> \in Seq(MlEntries) /\ DOMAIN <<e>> = {1} /\ <<e>>[1] = e
    BY <1>1
  <2> HIDE DEF Ml!People
  <2> QED  BY <1>1, <2>1 DEF EntriesSound, MlSound, MlTypes
<1>3. lLst' = lLst \o <<e>>
  BY <1>1, AppendIsConcat DEF Ml!IgnoreOn, MlSound, EntriesSound, e
<1>4. \A i \in DOMAIN <<e>> : <<e>>[i].status = Ignore /\ ~Has(lLst, <<e>>[i].who, Ignore)
  BY <1>1 DEF Ml!IgnoreOn, Ml!inlist, Has
<1>5. /\ EntriesSound(lLst')
      /\ \A d \in Icq, t \in Statuses : Has(lLst', d, t) <=> Has(lLst, d, t) \/ Has(<<e>>, d, t)
  BY <1>2, <1>3, <1>4, JoinSound DEF MlConstants, MlSound
<1>6. \A d \in Icq, t \in Statuses : Has(<<e>>, d, t) <=> d = c /\ t = Ignore
  BY <1>1 DEF Has
<1>7. Agrees(lLst', lMeant')
  BY <1>5, <1>6 DEF Agrees, Ml!IgnoreOn, MlSound, MlTypes
<1>8. MlTypes' /\ lPicked = {}
  BY DEF Ml!IgnoreOn, MlSound, MlTypes, PickedSound, Whom, MlConstants
<1> QED
  BY <1>5, <1>7, <1>8 DEF Ml!IgnoreOn, MlSound, PickedSound

(* The entry of c in the list s is deleted, and c is no longer meant.      *)
LEMMA MlDeleted ==
  ASSUME MlConstants, MlSound, NEW c \in Whom, NEW s \in Statuses, lUp, MlWorld,
         lLst' = Ml!del(lLst, c, s), lMeant' = [lMeant EXCEPT ![s] = @ \ {c}],
         MlTypes', lPicked' = {}
  PROVE  MlSound'
<1>1. /\ EntriesSound(lLst')
      /\ \A d \in Icq, t \in Statuses : Has(lLst', d, t) <=> Has(lLst, d, t) /\ ~(d = c /\ t = s)
  BY DelSound DEF MlSound
<1>2. Agrees(lLst', lMeant')
  BY <1>1 DEF MlSound, MlTypes, Agrees
<1> QED
  BY <1>1, <1>2 DEF MlSound, MlWorld, PickedSound

LEMMA MlIgnoreOff ==
  ASSUME MlConstants, MlSound, NEW c \in Ml!People, Ml!IgnoreOff(c) PROVE MlSound'
<1>1. MlTypes' /\ lPicked' = {}
  BY DEF Ml!IgnoreOff, MlSound, MlTypes, PickedSound, MlConstants
<1> QED
  BY <1>1, MlDeleted DEF Ml!IgnoreOff, MlWorld, MlConstants, Whom

LEMMA MlDelete ==
  ASSUME MlConstants, MlSound, NEW i \in DOMAIN lLst, Ml!Delete(i) \/ Ml!MoveToContacts(i)
  PROVE  MlSound'
<1>1. /\ lLst[i].who \in Whom /\ lLst[i].nick \in Whom
      /\ lLst[i].who \notin Icq => lLst[i].nick \notin Icq
  <2>1. lLst[i] \in MlEntries
    BY DEF MlSound, EntriesSound
  <2> QED  BY <2>1 DEF MlSound, EntriesSound, MlEntries
<1>2. MlTypes' /\ lPicked' = {}
  BY <1>1 DEF Ml!Delete, Ml!MoveToContacts, MlSound, MlTypes
<1> QED
  BY <1>1, <1>2, MlDeleted DEF Ml!Delete, Ml!MoveToContacts, MlWorld, MlSound, MlTypes

LEMMA MlAddPicked ==
  ASSUME MlConstants, MlSound, Ml!AddPicked PROVE MlSound'
<1> DEFINE S == {Ml!Item(c, lDialog) : c \in lPicked}
           m == Ml!SetToSeq(S)
<1>1. /\ lDialog \in Statuses /\ lPicked \subseteq Ml!People
      /\ \A c \in lPicked : ~Has(lLst, c, lDialog)
  BY DEF Ml!AddPicked, MlSound, MlTypes, PickedSound
<1>2. IsFiniteSet(S)
  <2> DEFINE item == [c \in lPicked |-> Ml!Item(c, lDialog)]
  <2>1. IsFiniteSet(lPicked)
    BY <1>1, FS_Subset DEF MlConstants
  <2>2. item \in Surjection(lPicked, S)
    BY Fun_IsSurj
  <2> QED  BY <2>1, <2>2, FS_Surjection
<1>3. /\ m \in Seq(S)
      /\ \A x \in S : \E i \in DOMAIN m : m[i] = x
      /\ \A i, j \in DOMAIN m : m[i] = m[j] => i = j
  BY <1>2, SetToSeqProperties
<1>4. \A i \in DOMAIN m : \E c \in lPicked : m[i] = Ml!Item(c, lDialog)
  <2> HIDE DEF m
  <2> TAKE i \in DOMAIN m
  <2>1. m[i] \in S
    BY <1>3, LenProperties, ElementOfSeq
  <2> QED  BY <2>1
<1>5. \A c \in lPicked :
        /\ Ml!Item(c, lDialog) \in S /\ Ml!Item(c, lDialog) \in MlEntries
        /\ Ml!Item(c, lDialog).who = c /\ Ml!Item(c, lDialog).status = lDialog
        /\ Ml!Item(c, lDialog).nick = lDisp[c]
  BY <1>1 DEF Ml!Item, MlSound, MlTypes, MlEntries, Whom
<1>6. lLst' = lLst \o m
  BY DEF Ml!AddPicked
<1> HIDE DEF m, S
<1>7. EntriesSound(m)
  <2>1. m \in Seq(MlEntries)
    <3>1. S \subseteq MlEntries
      BY <1>5 DEF S
    <3> QED  BY <1>3, <3>1, SeqMonotonic
  <2>2. \A i, j \in DOMAIN m : m[i].who = m[j].who => i = j
    BY <1>3, <1>4, <1>5
  <2>3. \A i \in DOMAIN m : m[i].who \notin Icq => m[i].nick \notin Icq
    BY <1>1, <1>4, <1>5 DEF MlSound, MlTypes
  <2> QED  BY <2>1, <2>2, <2>3 DEF EntriesSound
<1>8. /\ EntriesSound(lLst')
      /\ \A d \in Icq, t \in Statuses : Has(lLst', d, t) <=> Has(lLst, d, t) \/ Has(m, d, t)
  <2>1. \A i \in DOMAIN m : m[i].status = lDialog /\ ~Has(lLst, m[i].who, lDialog)
    BY <1>1, <1>4, <1>5
  <2> QED  BY <1>1, <1>6, <1>7, <2>1, JoinSound DEF MlSound
<1>9. \A d \in Icq, t \in Statuses : Has(m, d, t) <=> d \in lPicked /\ t = lDialog
  BY <1>3, <1>4, <1>5 DEF Has
<1>10. Agrees(lLst', lMeant')
  BY <1>1, <1>8, <1>9 DEF Agrees, Ml!AddPicked, MlSound, MlTypes
<1>11. MlTypes' /\ lPicked' = {}
  BY <1>1 DEF Ml!AddPicked, MlSound, MlTypes, Whom
<1> QED
  BY <1>8, <1>10, <1>11 DEF Ml!AddPicked, MlSound, PickedSound

(* load() makes of the file what save() had in memory, as far as numbers   *)
(* are concerned.                                                          *)
LEMMA MlStart ==
  ASSUME MlConstants, MlSound, Ml!Start PROVE MlSound'
<1> DEFINE back(i) == Ml!ReadBack(lFile[i])
<1>1. /\ lFile \in Seq(MlEntries) /\ DOMAIN lFile = 1..Len(lFile) /\ Len(lFile) \in Nat
      /\ \A i \in DOMAIN lFile : lFile[i] \in MlEntries
  BY LenProperties DEF MlSound, EntriesSound
<1>2. \A i \in DOMAIN lFile :
        /\ back(i) \in MlEntries /\ back(i).status = lFile[i].status
        /\ back(i).nick = lFile[i].nick
        /\ IF lFile[i].who \in Icq THEN back(i).who = lFile[i].who
           ELSE back(i).who \notin Icq
  <2> TAKE i \in DOMAIN lFile
  <2>1. /\ lFile[i].nick \in Whom /\ lFile[i].who \in Whom /\ lFile[i].status \in Statuses
        /\ lFile[i] = [nick |-> lFile[i].nick, who |-> lFile[i].who,
                       status |-> lFile[i].status]
    BY <1>1 DEF MlEntries
  <2>2. lFile[i].who \notin Icq => lFile[i].nick \notin Icq
    BY DEF MlSound, EntriesSound
  <2>3. None \in Whom /\ None \notin Icq
    BY DEF Whom, MlConstants
  <2> QED  BY <2>1, <2>2, <2>3 DEF Ml!ReadBack, MlEntries
<1>3. lLst' = [i \in DOMAIN lFile |-> back(i)]
  BY DEF Ml!Start
<1> HIDE DEF back
<1>4. lLst' \in Seq(MlEntries) /\ DOMAIN lLst' = DOMAIN lFile
  BY <1>1, <1>2, <1>3
<1>5. EntriesSound(lLst')
  BY <1>2, <1>3, <1>4 DEF EntriesSound, MlSound
<1>6. Agrees(lLst', lMeant')
  BY <1>2, <1>3, <1>4 DEF Agrees, Has, MlSound, Ml!Start, Ml!ghosts
<1>7. MlTypes'
  BY DEF MlSound, MlTypes, Ml!Start, Ml!ghosts
<1>8. PickedSound'
  BY DEF MlSound, PickedSound, Ml!Start, Ml!ghosts
<1> QED
  BY <1>5, <1>6, <1>7, <1>8 DEF MlSound, Ml!Start, Ml!ghosts

(* The program ends: the vector is lost, the file says who is meant.       *)
LEMMA MlDown ==
  ASSUME MlConstants, MlSound,
         Ml!Quit \/ Ml!Crash
  PROVE  MlSound'
<1>1. EntriesSound(<<>>)
  BY EmptySeq DEF EntriesSound
<1>2. MlTypes' /\ PickedSound' /\ lUp' = FALSE /\ lMeant' = lKept'
  BY DEF Ml!Quit, Ml!Crash, Ml!Down, MlSound, MlTypes, PickedSound
<1>3. EntriesSound(lFile') /\ Agrees(lFile', lKept')
  BY DEF Ml!Quit, Ml!Crash, Ml!Down, MlSound
<1>4. lLst' = <<>>
  BY DEF Ml!Quit, Ml!Crash, Ml!Down
<1> QED
  BY <1>1, <1>2, <1>3, <1>4 DEF MlSound

(* The steps that leave vector, file and ghosts alone. *)
LEMMA MlOthers ==
  ASSUME MlConstants, MlSound,
         \/ \E s \in Statuses : Ml!Open(s)
         \/ Ml!Close \/ Ml!Pick
         \/ \E c \in Ml!People :
              Ml!Event(c) \/ Ml!Dropped(c) \/ \E n \in Ml!Shown : Ml!Rename(c, n)
         \/ UNCHANGED lVars
  PROVE  MlSound'
<1>1. UNCHANGED <<lUp, lLst, lFile, lMeant, lKept>>
  BY DEF Ml!Open, Ml!Close, Ml!Pick, Ml!Event, Ml!Dropped, Ml!Rename, Ml!ghosts, lVars
<1>2. MlTypes'
  <2> USE DEF MlSound, MlTypes, MlConstants
  <2>1. CASE \E s \in Statuses : Ml!Open(s)
    BY <2>1 DEF Ml!Open, Ml!ghosts
  <2>2. CASE Ml!Close \/ Ml!Pick
    BY <2>2 DEF Ml!Close, Ml!Pick, Ml!Pickable, Ml!ghosts
  <2>3. ASSUME NEW c \in Ml!People, Ml!Event(c) PROVE MlTypes'
    BY <2>3 DEF Ml!Event, Ml!ghosts, Whom, Ml!People
  <2>4. ASSUME NEW c \in Ml!People, Ml!Dropped(c) PROVE MlTypes'
    BY <2>4 DEF Ml!Dropped, Ml!ghosts
  <2>5. ASSUME NEW c \in Ml!People, NEW n \in Ml!Shown, Ml!Rename(c, n) PROVE MlTypes'
    <3>1. n \in Whom /\ n \notin Icq
      BY DEF Whom, Ml!Shown
    <3>2. lDisp' = [lDisp EXCEPT ![c] = n]
      BY <2>5 DEF Ml!Rename
    <3> QED  BY <2>5, <3>1, <3>2 DEF Ml!Rename, Ml!ghosts
  <2>6. CASE UNCHANGED lVars
    BY <2>6 DEF lVars
  <2> QED  BY <2>1, <2>2, <2>3, <2>4, <2>5, <2>6
<1>3. PickedSound'
  <2> USE DEF MlSound, PickedSound
  <2>1. CASE Ml!Pick
    BY <2>1 DEF Ml!Pick, Ml!Pickable, Ml!inlist, Has, Ml!ghosts
  <2>2. CASE ~Ml!Pick
    BY <2>2 DEF Ml!Open, Ml!Close, Ml!Event, Ml!Dropped, Ml!Rename, Ml!ghosts, lVars
  <2> QED  BY <2>1, <2>2
<1> QED
  BY <1>1, <1>2, <1>3 DEF MlSound

LEMMA MlInit ==
  ASSUME MlConstants, Ml!Init PROVE MlSound
<1>1. EntriesSound(<<>>)
  BY EmptySeq DEF EntriesSound
<1>2. MlTypes /\ PickedSound
  BY DEF Ml!Init, MlTypes, PickedSound, Whom, MlConstants
<1>3. Agrees(lFile, lKept)
  BY DEF Ml!Init, Agrees, Has
<1> QED
  BY <1>1, <1>2, <1>3 DEF Ml!Init, MlSound

LEMMA MlNext ==
  ASSUME MlConstants, MlSound, MlStep PROVE MlSound'
<1>1. CASE Ml!Next
  <2>1. CASE \E c \in Ml!People : Ml!IgnoreOn(c) \/ Ml!IgnoreOff(c)
    BY <2>1, MlIgnoreOn, MlIgnoreOff
  <2>2. CASE \E i \in DOMAIN lLst : Ml!Delete(i) \/ Ml!MoveToContacts(i)
    BY <2>2, MlDelete
  <2>3. CASE Ml!AddPicked \/ Ml!Start \/ Ml!Quit \/ Ml!Crash
    BY <2>3, MlAddPicked, MlStart, MlDown
  <2> QED  BY <1>1, <2>1, <2>2, <2>3, MlOthers DEF Ml!Next
<1> QED
  BY <1>1, MlOthers DEF MlStep

(* Whatever is picked, renamed, deleted, saved and loaded, and however     *)
(* often the program crashes, inlist() finds an icq contact in exactly     *)
(* those lists that the user has put him on (src/src/icqmlist.cc).         *)
THEOREM NumbersAlwaysExact ==
  ASSUME MlConstants PROVE PartSpec => []NumbersExact
<1>1. PartInit => MlSound
  BY MlInit DEF PartInit
<1>2. MlSound /\ [PartNext]_allVars => MlSound'
  BY MlPart, MlNext
<1>3. MlSound => NumbersExact
  BY DEF MlSound, Agrees, Has, NumbersExact, Ml!NumbersExact, Ml!Exact, Ml!inlist
<1> QED
  BY <1>1, <1>2, <1>3, PTL DEF PartSpec, allVars

-----------------------------------------------------------------------------
(***************************************************************************)
(* Jabber: a user set offline is neither logged in nor announced, whoever  *)
(* the server keeps in its roster gets into the list, and a contact is     *)
(* shown with his best resource.  What is under way between hook and       *)
(* server carries these: until a word has been read the other side may not *)
(* know.                                                                   *)
(***************************************************************************)
JbStep == [Jb!Next]_jVars

LEMMA JbPart == [PartNext]_allVars => JbStep
  BY DEF PartNext, allVars, JbStep

Within(s, x) == \E i \in DOMAIN s : s[i] = x

LEMMA Appended ==
  ASSUME NEW S, NEW s \in Seq(S), NEW e \in S
  PROVE  /\ Append(s, e) \in Seq(S) /\ Append(s, e) = s \o <<e>>
         /\ \A i \in DOMAIN Append(s, e) : \/ i \in DOMAIN s /\ Append(s, e)[i] = s[i]
                                           \/ i = Len(s) + 1 /\ Append(s, e)[i] = e
         /\ \A i \in DOMAIN s : i \in DOMAIN Append(s, e) /\ Append(s, e)[i] = s[i]
                                /\ i < Len(s) + 1
         /\ Len(s) + 1 \in DOMAIN Append(s, e) /\ Append(s, e)[Len(s) + 1] = e
         /\ \A x : Within(Append(s, e), x) <=> Within(s, x) \/ x = e
<1>1. /\ Append(s, e) \in Seq(S) /\ DOMAIN s = 1..Len(s) /\ Len(s) \in Nat
      /\ DOMAIN Append(s, e) = 1..(Len(s) + 1) /\ Append(s, e)[Len(s) + 1] = e
      /\ \A i \in 1..Len(s) : Append(s, e)[i] = s[i]
  OBVIOUS
<1>2. Append(s, e) = s \o <<e>>
  BY AppendIsConcat
<1> DEFINE t == Append(s, e)
<1> HIDE DEF t
<1>3. /\ \A i \in DOMAIN t : \/ i \in DOMAIN s /\ t[i] = s[i]
                             \/ i = Len(s) + 1 /\ t[i] = e
      /\ \A i \in DOMAIN s : i \in DOMAIN t /\ t[i] = s[i] /\ i < Len(s) + 1
      /\ Len(s) + 1 \in DOMAIN t /\ t[Len(s) + 1] = e
  BY <1>1 DEF t
<1>4. \A x : Within(t, x) <=> Within(s, x) \/ x = e
  BY <1>3 DEF Within
<1> QED  BY <1>1, <1>2, <1>3, <1>4 DEF t

LEMMA Tailed ==
  ASSUME NEW S, NEW s \in Seq(S), s # <<>>
  PROVE  /\ Tail(s) \in Seq(S) /\ 1 \in DOMAIN s /\ Head(s) = s[1] /\ Head(s) \in S
         /\ \A i \in DOMAIN Tail(s) : i + 1 \in DOMAIN s /\ Tail(s)[i] = s[i + 1] /\ i \in Nat
         /\ \A i \in DOMAIN s : i = 1 \/ (i - 1 \in DOMAIN Tail(s) /\ Tail(s)[i - 1] = s[i])
         /\ DOMAIN s \subseteq Nat
         /\ \A x : Within(s, x) <=> Within(Tail(s), x) \/ x = Head(s)
<1>1. /\ Len(s) \in Nat /\ Len(s) > 0 /\ DOMAIN s = 1..Len(s) /\ Head(s) = s[1] /\ s[1] \in S
      /\ Tail(s) \in Seq(S) /\ DOMAIN Tail(s) = 1..(Len(s) - 1)
      /\ \A i \in 1..(Len(s) - 1) : Tail(s)[i] = s[i + 1]
  OBVIOUS
<1> DEFINE t == Tail(s)
<1> HIDE DEF t
<1>2. /\ \A i \in DOMAIN t : i + 1 \in DOMAIN s /\ t[i] = s[i + 1] /\ i \in Nat
      /\ \A i \in DOMAIN s : i = 1 \/ (i - 1 \in DOMAIN t /\ t[i - 1] = s[i])
  BY <1>1 DEF t
<1>3. \A x : Within(s, x) <=> Within(t, x) \/ x = Head(s)
  <2>1. \A x : Within(t, x) => Within(s, x)
    BY <1>2 DEF Within
  <2>2. Within(s, Head(s))
    BY <1>1 DEF Within
  <2>3. ASSUME NEW x, Within(s, x), x # Head(s) PROVE Within(t, x)
    <3>1. PICK i \in DOMAIN s : s[i] = x
      BY <2>3 DEF Within
    <3> QED  BY <1>1, <1>2, <2>3, <3>1 DEF Within
  <2> QED  BY <2>1, <2>2, <2>3
<1> QED  BY <1>1, <1>2, <1>3 DEF t

ServerPackets == {<<"getroster">>, <<"available">>} \cup ({"add", "remove"} \X Buddies)
States == TwoPresences \cup {Jb!NoPresence}
ClientPackets ==
  ({"roster"} \X SUBSET Buddies) \cup ({"item", "message"} \X Buddies)
    \cup ({"presence"} \X Buddies \X Resources \X States)

LEMMA ServerPacket ==
  \A p \in ServerPackets :
    /\ p[1] \in {"getroster", "available", "add", "remove"}
    /\ p[1] = "getroster" => p = <<"getroster">>
    /\ p[1] = "available" => p = <<"available">>
    /\ p[1] \in {"add", "remove"} => p[2] \in Buddies /\ p = <<p[1], p[2]>>
  BY DEF ServerPackets

LEMMA ClientPacket ==
  \A p \in ClientPackets :
    /\ p[1] \in {"roster", "item", "message", "presence"}
    /\ p[1] = "roster" => p[2] \in SUBSET Buddies /\ p = <<p[1], p[2]>>
    /\ p[1] \in {"item", "message"} => p[2] \in Buddies /\ p = <<p[1], p[2]>>
    /\ p[1] = "presence" => /\ p[2] \in Buddies /\ p[3] \in Resources /\ p[4] \in States
                            /\ p = <<p[1], p[2], p[3], p[4]>>
  BY DEF ClientPackets

PresenceMaps == [Buddies -> [Resources -> States]]

JbTypes ==
  /\ jManual \in {"available", "offline"}
  /\ jLink \in {"off", "connecting", "auth", "roster", "on"}
  /\ jRoster \subseteq Buddies /\ jKept \subseteq Buddies /\ jSub \subseteq jKept
  /\ jListed \in [Buddies -> {"absent", "stranger", "inlist"}]
  /\ jStatuses \in PresenceMaps /\ jPresent \in PresenceMaps /\ jTold \in PresenceMaps
  /\ jAnnounced \in BOOLEAN
  /\ jToServer \in Seq(ServerPackets) /\ jToClient \in Seq(ClientPackets)
  /\ DOMAIN jShown = Buddies

Asks(i) == jToServer[i][1] = "getroster"
Brings(i) == jToClient[i][1] = "roster"

(* The roster is asked for, and brought, once for a login.                 *)
RosterOnce ==
  /\ \A i, j \in DOMAIN jToServer : Asks(i) /\ Asks(j) => i = j
  /\ \A i, j \in DOMAIN jToClient : Brings(i) /\ Brings(j) => i = j
  /\ \A i \in DOMAIN jToServer, j \in DOMAIN jToClient : ~(Asks(i) /\ Brings(j))
  /\ jLink # "roster" =>
       (\A i \in DOMAIN jToServer : ~Asks(i)) /\ \A i \in DOMAIN jToClient : ~Brings(i)

(* Nobody is announced before the roster has come, and no presence told to *)
(* who is not announced.                                                   *)
Announcing ==
  /\ jManual = "offline" => jLink # "on"
  /\ jAnnounced \/ Within(jToServer, <<"available">>) => jLink = "on"
  /\ ~jAnnounced =>
       jTold = Jb!Nobody /\ \A i \in DOMAIN jToClient : jToClient[i][1] # "presence"

(* The hook knows, or will be told, or has itself removed, who is kept.    *)
Learned(f) ==
  \/ f \in jRoster /\ jListed[f] # "absent"
  \/ Within(jToClient, <<"item", f>>)
  \/ \E i \in DOMAIN jToClient : Brings(i) /\ f \in jToClient[i][2]
  \/ Within(jToServer, <<"getroster">>)
  \/ Within(jToServer, <<"remove", f>>)

RosterLearned ==
  /\ jLink \in {"roster", "on"} => \A f \in jKept : Learned(f)
  /\ \A f \in Buddies : Within(jToServer, <<"remove", f>>) => f \in jReset

(* A presence of f from r is under way at place i.                         *)
Tell(i, f, r) == jToClient[i][1] = "presence" /\ jToClient[i][2] = f /\ jToClient[i][3] = r

(* The hook has the presence last told, or will have it.                   *)
Latest(f, r) ==
  \/ /\ jStatuses[f][r] = jTold[f][r]
     /\ \A i \in DOMAIN jToClient : ~Tell(i, f, r)
  \/ \E i \in DOMAIN jToClient :
       /\ Tell(i, f, r) /\ jToClient[i][4] = jTold[f][r]
       /\ \A j \in DOMAIN jToClient : j > i => ~Tell(j, f, r)

(* Who is told of has been introduced, so that the hook heeds it.          *)
Introduced(f) ==
  /\ jTold[f] # Jb!Away => jListed[f] # "absent" \/ Within(jToClient, <<"item", f>>)
  /\ \A i \in DOMAIN jToClient :
       jToClient[i][1] = "presence" /\ jToClient[i][2] = f
         => \/ jListed[f] # "absent"
            \/ \E j \in DOMAIN jToClient : j < i /\ jToClient[j] = <<"item", f>>

PresenceSound(f) ==
  /\ jShown[f] \in Jb!Best(jStatuses[f])
  /\ jListed[f] = "absent" => jStatuses[f] = Jb!Away /\ jShown[f] = "offline"
  /\ Introduced(f) /\ \A r \in Resources : Latest(f, r)

PresencesSound ==
  /\ jLink # "on" => jShown = Jb!Offline
  /\ jLink \in {"connecting", "auth", "roster"} => jStatuses = Jb!Nobody
  /\ jLink = "on" => \A f \in Buddies \ jReset : PresenceSound(f)

JbSound == JbTypes /\ RosterOnce /\ Announcing /\ RosterLearned /\ PresencesSound

LEMMA JbHangUp ==
  ASSUME JbSound, NEW l \in {"off", "connecting"}, Jb!HangUp(l),
         jManual' \in {"available", "offline"}, jShown' = Jb!Offline,
         jStatuses' = Jb!Nobody \/ (l = "off" /\ jStatuses' = jStatuses),
         jRoster' \subseteq Buddies, jListed' \in [Buddies -> {"absent", "stranger", "inlist"}]
  PROVE  JbSound'
<1>1. /\ jLink' = l /\ jAnnounced' = FALSE /\ jTold' = Jb!Nobody /\ jToServer' = <<>>
      /\ jToClient' = <<>> /\ UNCHANGED <<jKept, jSub, jPresent>>
  BY DEF Jb!HangUp
<1>2. Jb!Nobody \in PresenceMaps
  BY DEF Jb!Nobody, Jb!Away, PresenceMaps, States
<1>3. JbTypes'
  BY <1>1, <1>2, EmptySeq DEF JbSound, JbTypes, Jb!Offline
<1>4. DOMAIN jToServer' = {} /\ DOMAIN jToClient' = {}
  BY <1>1
<1>5. RosterOnce' /\ Announcing' /\ RosterLearned' /\ PresencesSound'
  BY <1>1, <1>4 DEF RosterOnce, Announcing, RosterLearned, PresencesSound, Within
<1> QED  BY <1>3, <1>5 DEF JbSound

LEMMA JbInit == ASSUME Jb!Init PROVE JbSound
<1>1. DOMAIN jToServer = {} /\ DOMAIN jToClient = {}
  BY DEF Jb!Init
<1>2. Jb!Nobody \in PresenceMaps
  BY DEF Jb!Nobody, Jb!Away, PresenceMaps, States
<1>3. JbTypes
  BY <1>2, EmptySeq DEF Jb!Init, JbTypes, Jb!Offline
<1>4. RosterOnce /\ Announcing /\ RosterLearned /\ PresencesSound
  BY <1>1 DEF Jb!Init, RosterOnce, Announcing, RosterLearned, PresencesSound, Within
<1> QED  BY <1>3, <1>4 DEF JbSound

(* Words to the server, and from it, other than those of the login, the    *)
(* roster and presence; or the first word is read.                         *)
MailToServer ==
  \/ jToServer' = jToServer
  \/ \E e \in ServerPackets : e[1] \in {"add", "remove"} /\ jToServer' = Append(jToServer, e)
  \/ jToServer # <<>> /\ jToServer' = Tail(jToServer)
MailToClient ==
  \/ jToClient' = jToClient
  \/ \E e \in ClientPackets : e[1] \in {"item", "message"} /\ jToClient' = Append(jToClient, e)
  \/ jToClient # <<>> /\ jToClient' = Tail(jToClient)

LEMMA JbToServer ==
  ASSUME JbTypes, MailToServer
  PROVE  /\ jToServer' \in Seq(ServerPackets)
         /\ \A i \in DOMAIN jToServer' : Asks(i)' => \E k \in DOMAIN jToServer : Asks(k)
         /\ RosterOnce => \A i, j \in DOMAIN jToServer' : Asks(i)' /\ Asks(j)' => i = j
         /\ Within(jToServer', <<"available">>) => Within(jToServer, <<"available">>)
<1> USE DEF Asks
<1>1. CASE jToServer' = jToServer
  BY <1>1 DEF JbTypes, RosterOnce
<1>2. CASE \E e \in ServerPackets :
             e[1] \in {"add", "remove"} /\ jToServer' = Append(jToServer, e)
  <2>4. PICK e \in ServerPackets : e[1] \in {"add", "remove"} /\ jToServer' = Append(jToServer, e)
    BY <1>2
  <2>1. jToServer \in Seq(ServerPackets)
    BY DEF JbTypes
  <2>2. e # <<"available">>
    BY <2>4
  <2>3. \A i \in DOMAIN jToServer' : Asks(i)' => i \in DOMAIN jToServer /\ Asks(i)
    BY <2>1, <2>4, Appended
  <2> QED  BY <2>1, <2>2, <2>4, <2>3, Appended DEF RosterOnce
<1>3. CASE jToServer # <<>> /\ jToServer' = Tail(jToServer)
  <2>1. jToServer \in Seq(ServerPackets)
    BY DEF JbTypes
  <2>2. /\ jToServer' \in Seq(ServerPackets)
        /\ \A i \in DOMAIN jToServer' :
             i + 1 \in DOMAIN jToServer /\ jToServer'[i] = jToServer[i + 1] /\ i \in Nat
        /\ \A x : Within(jToServer', x) => Within(jToServer, x)
    BY <1>3, <2>1, Tailed
  <2>3. ASSUME NEW i \in DOMAIN jToServer', NEW j \in DOMAIN jToServer',
               RosterOnce, Asks(i)', Asks(j)'
        PROVE  i = j
    <3>1. i + 1 = j + 1
      BY <2>2, <2>3 DEF RosterOnce
    <3> QED  BY <2>2, <3>1
  <2> QED  BY <2>2, <2>3
<1> QED  BY <1>1, <1>2, <1>3 DEF MailToServer

LEMMA JbToClient ==
  ASSUME JbTypes, MailToClient
  PROVE  /\ jToClient' \in Seq(ClientPackets)
         /\ \A i \in DOMAIN jToClient' :
              \/ jToClient'[i][1] \in {"item", "message"}
              \/ \E k \in DOMAIN jToClient : jToClient[k] = jToClient'[i]
         /\ RosterOnce => \A i, j \in DOMAIN jToClient' : Brings(i)' /\ Brings(j)' => i = j
<1> USE DEF Brings
<1>1. CASE jToClient' = jToClient
  BY <1>1 DEF JbTypes, RosterOnce
<1>2. CASE \E e \in ClientPackets :
             e[1] \in {"item", "message"} /\ jToClient' = Append(jToClient, e)
  <2>1. jToClient \in Seq(ClientPackets)
    BY DEF JbTypes
  <2>2. PICK e \in ClientPackets : e[1] \in {"item", "message"} /\ jToClient' = Append(jToClient, e)
    BY <1>2
  <2>3. \A i \in DOMAIN jToClient' : \/ i \in DOMAIN jToClient /\ jToClient'[i] = jToClient[i]
                                     \/ jToClient'[i][1] \in {"item", "message"}
    BY <2>1, <2>2, Appended
  <2> QED  BY <2>1, <2>2, <2>3, Appended DEF RosterOnce
<1>3. CASE jToClient # <<>> /\ jToClient' = Tail(jToClient)
  <2>1. jToClient \in Seq(ClientPackets)
    BY DEF JbTypes
  <2>2. /\ jToClient' \in Seq(ClientPackets)
        /\ \A i \in DOMAIN jToClient' :
             i + 1 \in DOMAIN jToClient /\ jToClient'[i] = jToClient[i + 1] /\ i \in Nat
    BY <1>3, <2>1, Tailed
  <2>3. ASSUME NEW i \in DOMAIN jToClient', NEW j \in DOMAIN jToClient',
               RosterOnce, Brings(i)', Brings(j)'
        PROVE  i = j
    <3>1. i + 1 = j + 1
      BY <2>2, <2>3 DEF RosterOnce
    <3> QED  BY <2>2, <3>1
  <2> QED  BY <2>2, <2>3
<1> QED  BY <1>1, <1>2, <1>3 DEF MailToClient

(* The login and the announcement while the link stays.                    *)
LEMMA JbLoginKept ==
  ASSUME JbSound, MailToServer, MailToClient, UNCHANGED <<jLink, jAnnounced, jTold>>,
         jManual' = jManual
  PROVE  RosterOnce' /\ Announcing'
<1>1. JbTypes
  BY DEF JbSound
<1>2. \A i \in DOMAIN jToServer' : Asks(i)' => \E k \in DOMAIN jToServer : Asks(k)
  BY <1>1, JbToServer
<1>3. \A i \in DOMAIN jToClient' :
        jToClient'[i][1] \in {"roster", "presence"} =>
          \E k \in DOMAIN jToClient : jToClient[k][1] = jToClient'[i][1]
  BY <1>1, JbToClient
<1>4. RosterOnce'
  BY <1>1, <1>2, <1>3, JbToServer, JbToClient DEF JbSound, RosterOnce, Brings
<1>5. Announcing'
  BY <1>1, <1>3, JbToServer DEF JbSound, Announcing
<1> QED  BY <1>4, <1>5

(* The presences while no presence is told or read. *)
LEMMA JbPresenceKept ==
  ASSUME JbSound, MailToClient, UNCHANGED <<jLink, jStatuses, jTold>>, jReset \subseteq jReset',
         jLink # "on" => jShown' = jShown,
         jLink = "on" => \A f \in Buddies \ jReset' : jShown'[f] = jShown[f],
         \A f \in Buddies \ jReset' : jListed[f] # "absent" => jListed'[f] # "absent",
         jToClient' # jToClient /\ jToClient # <<>> /\ jToClient' = Tail(jToClient) =>
           /\ Head(jToClient)[1] # "presence"
           /\ \A f \in Buddies \ jReset' : Head(jToClient) = <<"item", f>> => jListed'[f] # "absent"
  PROVE  PresencesSound'
<1>1. jToClient \in Seq(ClientPackets)
  BY DEF JbSound, JbTypes
<1> SUFFICES ASSUME jLink = "on", NEW f \in Buddies \ jReset' PROVE PresenceSound(f)'
  BY DEF JbSound, PresencesSound
<1>2. f \in Buddies \ jReset /\ PresenceSound(f)
  BY DEF JbSound, PresencesSound
<1>3. /\ jShown'[f] \in Jb!Best(jStatuses'[f])
      /\ jListed'[f] = "absent" => jStatuses'[f] = Jb!Away /\ jShown'[f] = "offline"
  BY <1>2 DEF PresenceSound, Jb!Best
<1>4. CASE jToClient' = jToClient
  BY <1>2, <1>3, <1>4 DEF PresenceSound, Introduced, Latest, Tell, Within
<1>5. CASE \E e \in ClientPackets :
             e[1] \in {"item", "message"} /\ jToClient' = Append(jToClient, e)
  <2>1. PICK e \in ClientPackets : e[1] \in {"item", "message"} /\ jToClient' = Append(jToClient, e)
    BY <1>5
  <2>2. /\ \A i \in DOMAIN jToClient' : \/ i \in DOMAIN jToClient /\ jToClient'[i] = jToClient[i]
                                        \/ jToClient'[i][1] # "presence"
        /\ \A i \in DOMAIN jToClient : i \in DOMAIN jToClient' /\ jToClient'[i] = jToClient[i]
        /\ \A x : Within(jToClient, x) => Within(jToClient', x)
    <3>1. \A i \in DOMAIN jToClient' : \/ i \in DOMAIN jToClient /\ jToClient'[i] = jToClient[i]
                                       \/ jToClient'[i] = e
      BY <1>1, <2>1, Appended
    <3>2. \A i \in DOMAIN jToClient : i \in DOMAIN jToClient' /\ jToClient'[i] = jToClient[i]
      BY <1>1, <2>1, Appended
    <3>3. \A x : Within(jToClient, x) => Within(jToClient', x)
      BY <3>2 DEF Within
    <3>4. e[1] # "presence"
      BY <2>1
    <3> QED  BY <3>1, <3>2, <3>3, <3>4
  <2>3. Introduced(f)'
    BY <1>2, <2>2 DEF PresenceSound, Introduced
  <2>4. ASSUME NEW r \in Resources PROVE Latest(f, r)'
    BY <1>2, <2>2 DEF PresenceSound, Latest, Tell
  <2> QED  BY <1>3, <2>3, <2>4 DEF PresenceSound
<1>6. CASE jToClient' # jToClient /\ jToClient # <<>> /\ jToClient' = Tail(jToClient)
  <2>1. /\ \A i \in DOMAIN jToClient' :
             i + 1 \in DOMAIN jToClient /\ jToClient'[i] = jToClient[i + 1] /\ i \in Nat
        /\ \A i \in DOMAIN jToClient :
             i = 1 \/ (i - 1 \in DOMAIN jToClient' /\ jToClient'[i - 1] = jToClient[i])
        /\ DOMAIN jToClient \subseteq Nat /\ Head(jToClient) = jToClient[1]
        /\ \A x : Within(jToClient, x) <=> Within(jToClient', x) \/ x = Head(jToClient)
    BY <1>1, <1>6, Tailed
  <2>2. jToClient[1][1] # "presence"
    BY <1>6, <2>1
  <2>3. Introduced(f)'
    <3>1. jTold'[f] # Jb!Away => jListed'[f] # "absent" \/ Within(jToClient', <<"item", f>>)
      BY <1>2, <1>6, <2>1 DEF PresenceSound, Introduced, Jb!Away
    <3>2. ASSUME NEW i \in DOMAIN jToClient', jToClient'[i][1] = "presence",
                 jToClient'[i][2] = f, jListed'[f] = "absent"
          PROVE  \E j \in DOMAIN jToClient' : j < i /\ jToClient'[j] = <<"item", f>>
      <4>1. PICK j \in DOMAIN jToClient : j < i + 1 /\ jToClient[j] = <<"item", f>>
        BY <1>2, <2>1, <3>2 DEF PresenceSound, Introduced
      <4>2. j # 1
        BY <1>6, <2>1, <3>2, <4>1
      <4> QED  BY <2>1, <4>1, <4>2
    <3> QED  BY <3>1, <3>2 DEF Introduced, Jb!Away
  <2>4. ASSUME NEW r \in Resources PROVE Latest(f, r)'
    <3>1. Latest(f, r)
      BY <1>2 DEF PresenceSound
    <3>2. CASE \A i \in DOMAIN jToClient : ~Tell(i, f, r)
      BY <2>1, <3>1, <3>2 DEF Latest, Tell
    <3>3. ASSUME NEW i \in DOMAIN jToClient, Tell(i, f, r), jToClient[i][4] = jTold[f][r],
                 \A j \in DOMAIN jToClient : j > i => ~Tell(j, f, r)
          PROVE  Latest(f, r)'
      <4>1. i # 1
        BY <2>2, <3>3 DEF Tell
      <4>2. i - 1 \in DOMAIN jToClient' /\ jToClient'[i - 1] = jToClient[i]
        BY <2>1, <4>1
      <4>3. \A j \in DOMAIN jToClient' : j > i - 1 => ~Tell(j, f, r)'
        BY <2>1, <3>3 DEF Tell
      <4> QED  BY <3>3, <4>2, <4>3 DEF Latest, Tell
    <3> QED  BY <3>1, <3>2, <3>3 DEF Latest
  <2> QED  BY <1>3, <2>3, <2>4 DEF PresenceSound
<1> QED  BY <1>4, <1>5, <1>6 DEF MailToClient

(* The user sets a status, the connection is made, lost or given up.       *)
LEMMA JbLinks ==
  ASSUME JbSound,
         \/ \E st \in {"available", "offline"} : Jb!setstatus(st)
         \/ Jb!Reconnect \/ Jb!Lost
  PROVE  JbSound'
<1>1. Jb!Nobody \in PresenceMaps /\ jListed \in [Buddies -> {"absent", "stranger", "inlist"}]
      /\ jRoster \subseteq Buddies /\ jManual \in {"available", "offline"}
  BY DEF JbSound, JbTypes, Jb!Nobody, Jb!Away, PresenceMaps, States
<1>2. ASSUME Jb!connect, jLink # "on", jManual' \in {"available", "offline"} PROVE JbSound'
  <2>1. jShown' = Jb!Offline
    BY <1>2 DEF Jb!connect, Jb!contacts, JbSound, PresencesSound
  <2> QED  BY <1>1, <1>2, <2>1, JbHangUp DEF Jb!connect, Jb!contacts
<1>3. ASSUME Jb!disconnect, jManual' \in {"available", "offline"} PROVE JbSound'
  BY <1>1, <1>3, JbHangUp DEF Jb!disconnect, Jb!StateOff
<1>4. ASSUME NEW st \in {"available", "offline"}, Jb!setstatus(st) PROVE JbSound'
  <2>1. CASE (st = "available") = (jLink = "on")
    <3>1. jManual' = st /\ UNCHANGED <<jLink, jRoster, jStatuses, jListed, jShown, jKept, jSub, jPresent,
                        jAnnounced, jTold, jToServer, jToClient, jReset>>
      BY <1>4, <2>1 DEF Jb!setstatus, Jb!connection, Jb!contacts, Jb!server
    <3>2. JbTypes'
      BY <3>1 DEF JbSound, JbTypes
    <3>3. RosterOnce' /\ Announcing'
      BY <2>1, <3>1 DEF JbSound, RosterOnce, Announcing, Asks, Brings
    <3>4. RosterLearned'
      BY <3>1 DEF JbSound, RosterLearned, Learned, Brings
    <3>5. PresencesSound'
      BY <3>1 DEF JbSound, PresencesSound, PresenceSound, Introduced, Latest, Tell
    <3> QED  BY <3>2, <3>3, <3>4, <3>5 DEF JbSound
  <2> QED  BY <1>2, <1>3, <1>4, <2>1 DEF Jb!setstatus
<1>5. CASE Jb!Reconnect
  BY <1>1, <1>2, <1>3, <1>5 DEF Jb!Reconnect, Jb!logged
<1>6. CASE Jb!Lost
  BY <1>1, <1>6, JbHangUp DEF Jb!Lost, Jb!StateOff
<1> QED  BY <1>4, <1>5, <1>6

LEMMA JbLoginStep == ASSUME JbSound, Jb!LoginStep PROVE JbSound'
<1>1. UNCHANGED <<jManual, jRoster, jStatuses, jListed, jShown, jKept, jSub, jPresent, jAnnounced,
                  jTold, jToClient, jReset>>
  BY DEF Jb!LoginStep, Jb!contacts, Jb!server
<1>2. jToServer \in Seq(ServerPackets) /\ <<"getroster">> \in ServerPackets
  BY DEF JbSound, JbTypes, ServerPackets
<1>3. CASE jLink = "connecting" /\ jLink' = "auth" /\ UNCHANGED jToServer
  BY <1>1, <1>3 DEF JbSound, JbTypes, RosterOnce, Asks, Brings, Announcing, RosterLearned,
     PresencesSound
<1>4. CASE jLink = "auth" /\ jLink' = "roster" /\ jToServer' = Append(jToServer, <<"getroster">>)
  <2>1. JbTypes'
    BY <1>1, <1>2, <1>4, Appended DEF JbSound, JbTypes
  <2>2. \A i \in DOMAIN jToServer' : Asks(i)' => i = Len(jToServer) + 1
    BY <1>2, <1>4, Appended DEF JbSound, RosterOnce, Asks
  <2>3. RosterOnce'
    BY <1>1, <1>4, <2>2 DEF JbSound, RosterOnce, Brings
  <2>4. /\ Within(jToServer', <<"getroster">>)
        /\ \A x : x # <<"getroster">> /\ Within(jToServer', x) => Within(jToServer, x)
    BY <1>2, <1>4, Appended
  <2>5. Announcing'
    BY <1>1, <1>4, <2>4 DEF JbSound, Announcing
  <2>6. RosterLearned'
    BY <1>1, <1>4, <2>4 DEF JbSound, RosterLearned, Learned
  <2>7. PresencesSound'
    BY <1>1, <1>4 DEF JbSound, PresencesSound
  <2> QED  BY <2>1, <2>3, <2>5, <2>6, <2>7 DEF JbSound
<1>5. jToServer \o <<<<"getroster">>>> = Append(jToServer, <<"getroster">>)
  BY <1>2, Appended
<1> QED  BY <1>3, <1>4, <1>5 DEF Jb!LoginStep, Jb!Send

LEMMA JbAddContact == ASSUME JbSound, NEW f \in Buddies, Jb!AddContact(f) PROVE JbSound'
<1>1. /\ jLink' = jLink /\ jManual' = jManual /\ jToClient' = jToClient /\ jKept' = jKept
      /\ UNCHANGED <<jStatuses, jSub, jPresent, jAnnounced, jTold>>
      /\ jListed' = [jListed EXCEPT ![f] = "inlist"]
      /\ jShown' = [jShown EXCEPT ![f] = "offline"]
      /\ jReset' = IF jListed[f] = "stranger" THEN jReset \cup {f} ELSE jReset
      /\ jListed[f] # "inlist"
  BY DEF Jb!AddContact, Jb!server
<1>2. jToServer \in Seq(ServerPackets) /\ <<"add", f>> \in ServerPackets
  BY DEF JbSound, JbTypes, ServerPackets
<1>3. /\ jRoster \subseteq jRoster' /\ jRoster' \subseteq Buddies
      /\ jToServer' = jToServer \/ jToServer' = Append(jToServer, <<"add", f>>)
  BY <1>2, Appended DEF Jb!AddContact, Jb!Send, JbSound, JbTypes
<1>4. MailToServer /\ MailToClient
  BY <1>1, <1>2, <1>3 DEF MailToServer, MailToClient
<1>5. JbTypes'
  BY <1>1, <1>3, <1>4, JbToServer DEF JbSound, JbTypes
<1>6. RosterOnce' /\ Announcing'
  BY <1>1, <1>4, JbLoginKept
<1>7. \A x : x # <<"add", f>> => (Within(jToServer', x) <=> Within(jToServer, x))
  <2>1. CASE jToServer' = jToServer
    BY <2>1
  <2>2. CASE jToServer' = Append(jToServer, <<"add", f>>)
    BY <1>2, <2>2, Appended
  <2> QED  BY <1>3, <2>1, <2>2
<1>8. RosterLearned'
  <2>1. \A g \in Buddies : Within(jToServer', <<"remove", g>>) => Within(jToServer, <<"remove", g>>)
    BY <1>7
  <2>2. Within(jToServer, <<"getroster">>) => Within(jToServer', <<"getroster">>)
    BY <1>7
  <2>3. \A g \in Buddies : Within(jToServer, <<"remove", g>>) => Within(jToServer', <<"remove", g>>)
    BY <1>7
  <2>4. ASSUME NEW g \in Buddies, Learned(g) PROVE Learned(g)'
    BY <1>1, <1>3, <2>2, <2>3, <2>4 DEF Learned, Brings, JbSound, JbTypes
  <2> QED  BY <1>1, <2>1, <2>4 DEF JbSound, JbTypes, RosterLearned
<1>9. PresencesSound'
  <2>1. jLink # "on" => jShown' = jShown
    BY <1>1 DEF JbSound, PresencesSound, Jb!Offline
  <2>2. ASSUME jLink = "on", NEW g \in Buddies \ jReset' PROVE jShown'[g] = jShown[g]
    BY <1>1, <2>2 DEF JbSound, JbTypes, PresencesSound, PresenceSound
  <2>4. \A g \in Buddies \ jReset' : jListed[g] # "absent" => jListed'[g] # "absent"
    BY <1>1 DEF JbSound, JbTypes
  <2> QED  BY <1>1, <1>4, <2>1, <2>2, <2>4, JbPresenceKept
<1> QED  BY <1>5, <1>6, <1>8, <1>9 DEF JbSound

LEMMA JbRemoveContact == ASSUME JbSound, NEW f \in Buddies, Jb!RemoveContact(f) PROVE JbSound'
<1>1. /\ jLink' = jLink /\ jManual' = jManual /\ jToClient' = jToClient /\ jKept' = jKept
      /\ UNCHANGED <<jStatuses, jSub, jPresent, jAnnounced, jTold>>
      /\ jListed' = [jListed EXCEPT ![f] = "absent"]
      /\ jShown' = [jShown EXCEPT ![f] = "offline"]
      /\ jReset' = jReset \cup {f}
  BY DEF Jb!RemoveContact, Jb!server
<1>2. jToServer \in Seq(ServerPackets) /\ <<"remove", f>> \in ServerPackets
  BY DEF JbSound, JbTypes, ServerPackets
<1>3. \/ UNCHANGED <<jRoster, jToServer>> /\ ~(jLink \in {"roster", "on"} /\ f \in jRoster)
      \/ jRoster' = jRoster \ {f} /\ jToServer' = Append(jToServer, <<"remove", f>>)
  BY <1>2, Appended DEF Jb!RemoveContact, Jb!Send, Jb!logged
<1>4. MailToServer /\ MailToClient
  BY <1>1, <1>2, <1>3 DEF MailToServer, MailToClient
<1>5. JbTypes'
  BY <1>1, <1>3, <1>4, JbToServer DEF JbSound, JbTypes
<1>6. RosterOnce' /\ Announcing'
  BY <1>1, <1>4, JbLoginKept
<1>7. /\ \A x : Within(jToServer, x) => Within(jToServer', x)
      /\ \A x : Within(jToServer', x) /\ x # <<"remove", f>> => Within(jToServer, x)
      /\ jToServer' # jToServer => Within(jToServer', <<"remove", f>>)
  <2>1. CASE jToServer' = jToServer
    BY <2>1
  <2>2. CASE jToServer' = Append(jToServer, <<"remove", f>>)
    BY <1>2, <2>2, Appended
  <2> QED  BY <1>3, <2>1, <2>2
<1>8. RosterLearned'
  <2>1. \A g \in Buddies : Within(jToServer', <<"remove", g>>) =>
                             Within(jToServer, <<"remove", g>>) \/ g = f
    BY <1>7
  <2>2. ASSUME jLink \in {"roster", "on"}, NEW g \in Buddies, Learned(g) PROVE Learned(g)'
    <3>1. CASE g # f
      BY <1>1, <1>3, <1>7, <2>2, <3>1 DEF Learned, Brings, JbSound, JbTypes
    <3>2. CASE g = f /\ f \in jRoster
      <4>1. jToServer' = Append(jToServer, <<"remove", f>>)
        BY <1>3, <2>2, <3>2
      <4>2. Within(jToServer', <<"remove", f>>)
        BY <1>2, <4>1, Appended
      <4> QED  BY <3>2, <4>2 DEF Learned
    <3>3. CASE g = f /\ f \notin jRoster
      BY <1>1, <1>7, <2>2, <3>3 DEF Learned, Brings
    <3> QED  BY <3>1, <3>2, <3>3
  <2> QED  BY <1>1, <2>1, <2>2 DEF JbSound, JbTypes, RosterLearned
<1>9. PresencesSound'
  <2>1. jLink # "on" => jShown' = jShown
    BY <1>1 DEF JbSound, PresencesSound, Jb!Offline
  <2>2. ASSUME jLink = "on", NEW g \in Buddies \ jReset' PROVE jShown'[g] = jShown[g]
    BY <1>1, <2>2 DEF JbSound, JbTypes
  <2>3. \A g \in Buddies \ jReset' : jListed[g] # "absent" => jListed'[g] # "absent"
    BY <1>1 DEF JbSound, JbTypes
  <2> QED  BY <1>1, <1>4, <2>1, <2>2, <2>3, JbPresenceKept
<1> QED  BY <1>5, <1>6, <1>8, <1>9 DEF JbSound

(* A change of the roster by the server, or a message.                     *)
LEMMA JbItemRead ==
  ASSUME JbSound, jToClient # <<>>, jManual' = jManual,
         \/ Head(jToClient)[1] = "item" /\ Jb!gotitem(Head(jToClient)[2])
         \/ Head(jToClient)[1] = "message" /\ Jb!gotmessage(Head(jToClient)[2])
  PROVE  JbSound'
<1>1. /\ jToClient' = Tail(jToClient) /\ jToServer' = jToServer /\ jLink' = jLink
      /\ UNCHANGED <<jStatuses, jShown, jReset, jKept, jSub, jPresent, jAnnounced, jTold>>
  BY DEF Jb!gotitem, Jb!gotmessage, Jb!server, Jb!connection
<1>2. jToClient \in Seq(ClientPackets)
  BY DEF JbSound, JbTypes
<1>3. PICK g \in Buddies : g = Head(jToClient)[2] /\ Head(jToClient) = <<Head(jToClient)[1], g>>
  <2>1. Head(jToClient) \in ClientPackets
    BY <1>2, Tailed
  <2> QED  BY <2>1, ClientPacket
<1>4. /\ jListed' \in [Buddies -> {"absent", "stranger", "inlist"}]
      /\ \A f \in Buddies : jListed[f] # "absent" => jListed'[f] # "absent"
      /\ jRoster \subseteq jRoster' /\ jRoster' \subseteq Buddies
      /\ Head(jToClient)[1] = "item" => g \in jRoster' /\ jListed'[g] # "absent"
  BY <1>3 DEF Jb!gotitem, Jb!gotmessage, Jb!gotroster, Jb!Included, Jb!connection, JbSound, JbTypes
<1>5. MailToServer /\ MailToClient
  BY <1>1 DEF MailToServer, MailToClient
<1>6. JbTypes'
  BY <1>1, <1>4, <1>5, JbToClient DEF JbSound, JbTypes
<1>7. RosterOnce' /\ Announcing'
  BY <1>1, <1>5, JbLoginKept
<1>8. RosterLearned'
  <2>1. /\ \A x : Within(jToClient, x) => Within(jToClient', x) \/ x = Head(jToClient)
        /\ \A i \in DOMAIN jToClient :
             \/ i = 1
             \/ i - 1 \in DOMAIN jToClient' /\ jToClient'[i - 1] = jToClient[i]
        /\ Head(jToClient) = jToClient[1]
    BY <1>1, <1>2, Tailed
  <2>2. ASSUME NEW f \in Buddies, Learned(f) PROVE Learned(f)'
    <3>1. CASE Within(jToClient, <<"item", f>>)
      <4>1. CASE Head(jToClient) = <<"item", f>>
        BY <1>3, <1>4, <4>1 DEF Learned
      <4>2. CASE Head(jToClient) # <<"item", f>>
        BY <2>1, <3>1, <4>2 DEF Learned
      <4> QED  BY <4>1, <4>2
    <3>2. CASE \E i \in DOMAIN jToClient : Brings(i) /\ f \in jToClient[i][2]
      <4>1. PICK i \in DOMAIN jToClient : Brings(i) /\ f \in jToClient[i][2]
        BY <3>2
      <4>2. i # 1
        BY <2>1, <4>1 DEF Brings
      <4> QED  BY <2>1, <4>1, <4>2 DEF Learned, Brings
    <3> QED  BY <1>1, <1>4, <2>2, <3>1, <3>2 DEF Learned
  <2> QED  BY <1>1, <2>2 DEF JbSound, JbTypes, RosterLearned
<1>9. PresencesSound'
  <2>1. Head(jToClient)[1] # "presence"
    OBVIOUS
  <2>2. \A f \in Buddies : Head(jToClient) = <<"item", f>> => jListed'[f] # "absent"
    BY <1>3, <1>4
  <2> QED  BY <1>1, <1>4, <1>5, <2>1, <2>2, JbPresenceKept
<1> QED  BY <1>6, <1>7, <1>8, <1>9 DEF JbSound

(* The answer to the query for the roster. *)
LEMMA JbRosterRead ==
  ASSUME JbSound, Resources # {}, jToClient # <<>>, jManual' = jManual,
         Head(jToClient)[1] = "roster", Jb!postlogin(Head(jToClient)[2])
  PROVE  JbSound'
<1> DEFINE items == Head(jToClient)[2]
<1>1. jToClient \in Seq(ClientPackets) /\ jToServer \in Seq(ServerPackets)
      /\ <<"available">> \in ServerPackets
  BY DEF JbSound, JbTypes, ServerPackets
<1>2. items \subseteq Buddies
  <2>1. Head(jToClient) \in ClientPackets
    BY <1>1, Tailed
  <2> QED  BY <2>1, ClientPacket
<1>3. /\ Jb!Included(items) \in [Buddies -> {"absent", "stranger", "inlist"}]
      /\ \A f \in Buddies : jListed[f] # "absent" \/ f \in items => Jb!Included(items)[f] # "absent"
  BY DEF Jb!Included, JbSound, JbTypes
<1>4. CASE jManual = "offline"
  BY <1>3, <1>4, JbHangUp DEF Jb!postlogin, JbSound, JbTypes
<1>5. CASE jManual # "offline"
  <2>1. /\ jRoster' = jRoster \cup items /\ jListed' = Jb!Included(items) /\ jLink' = "on"
        /\ jToServer' = Append(jToServer, <<"available">>) /\ jToClient' = Tail(jToClient)
        /\ UNCHANGED <<jStatuses, jShown, jKept, jSub, jPresent, jAnnounced, jTold, jReset>>
    BY <1>1, <1>5, Appended DEF Jb!postlogin, Jb!gotroster, Jb!Send, Jb!server
  <2>2. /\ jToServer' \in Seq(ServerPackets)
        /\ \A i \in DOMAIN jToServer' : \/ i \in DOMAIN jToServer /\ jToServer'[i] = jToServer[i]
                                        \/ jToServer'[i] = <<"available">>
        /\ \A x : Within(jToServer, x) => Within(jToServer', x)
        /\ \A x : Within(jToServer', x) /\ x # <<"available">> => Within(jToServer, x)
    <3>1. /\ jToServer' \in Seq(ServerPackets)
          /\ \A i \in DOMAIN jToServer' : \/ i \in DOMAIN jToServer /\ jToServer'[i] = jToServer[i]
                                          \/ jToServer'[i] = <<"available">>
      BY <1>1, <2>1, Appended
    <3>2. \A i \in DOMAIN jToServer : i \in DOMAIN jToServer' /\ jToServer'[i] = jToServer[i]
      BY <1>1, <2>1, Appended
    <3> QED  BY <3>1, <3>2 DEF Within
  <2>3. /\ jToClient' \in Seq(ClientPackets)
        /\ 1 \in DOMAIN jToClient /\ Head(jToClient) = jToClient[1]
        /\ \A i \in DOMAIN jToClient' :
             i + 1 \in DOMAIN jToClient /\ jToClient'[i] = jToClient[i + 1] /\ i \in Nat
        /\ \A i \in DOMAIN jToClient :
             i = 1 \/ (i - 1 \in DOMAIN jToClient' /\ jToClient'[i - 1] = jToClient[i])
        /\ \A x : Within(jToClient, x) => Within(jToClient', x) \/ x = Head(jToClient)
    BY <1>1, <2>1, Tailed
  <2>4. Brings(1) /\ jLink = "roster"
    BY <2>3 DEF Brings, JbSound, RosterOnce
  <2>5. JbTypes'
    BY <1>2, <1>3, <2>1, <2>2, <2>3 DEF JbSound, JbTypes
  <2>6. RosterOnce'
    <3>1. \A i \in DOMAIN jToServer' : ~Asks(i)'
      BY <2>2, <2>3, <2>4 DEF JbSound, RosterOnce, Asks
    <3>2. \A i \in DOMAIN jToClient' : ~Brings(i)'
      <4> SUFFICES ASSUME NEW i \in DOMAIN jToClient', Brings(i)' PROVE FALSE
        OBVIOUS
      <4>1. i + 1 = 1
        BY <2>3, <2>4 DEF JbSound, RosterOnce, Brings
      <4> QED  BY <2>3, <4>1
    <3> QED  BY <3>1, <3>2 DEF RosterOnce
  <2>7. Announcing'
    BY <1>5, <2>1, <2>3 DEF JbSound, Announcing
  <2>8. RosterLearned'
    <3>1. ASSUME NEW f \in Buddies, Learned(f) PROVE Learned(f)'
      <4>1. CASE Within(jToClient, <<"item", f>>)
        BY <2>3, <4>1 DEF Learned
      <4>2. CASE \E i \in DOMAIN jToClient : Brings(i) /\ f \in jToClient[i][2]
        <5>1. f \in items
          BY <2>3, <2>4, <4>2 DEF JbSound, RosterOnce
        <5> QED  BY <1>3, <2>1, <5>1 DEF Learned
      <4>3. CASE f \in jRoster /\ jListed[f] # "absent"
        BY <1>3, <2>1, <4>3 DEF Learned
      <4> QED  BY <2>2, <3>1, <4>1, <4>2, <4>3 DEF Learned
    <3> QED  BY <2>1, <2>2, <2>4, <3>1 DEF JbSound, JbTypes, RosterLearned
  <2>9. PresencesSound'
    <3>1. /\ jStatuses = Jb!Nobody /\ jShown = Jb!Offline /\ jTold = Jb!Nobody
          /\ \A i \in DOMAIN jToClient : jToClient[i][1] # "presence"
      BY <2>4 DEF JbSound, JbTypes, PresencesSound, Announcing
    <3>2. \A i \in DOMAIN jToClient' : jToClient'[i][1] # "presence"
      BY <2>3, <3>1
    <3>3. "offline" \in Jb!Best(Jb!Away)
      BY DEF Jb!Best, Jb!Away, Jb!NoPresence
    <3>4. ASSUME NEW f \in Buddies PROVE PresenceSound(f)'
      BY <2>1, <3>1, <3>2, <3>3 DEF PresenceSound, Introduced, Latest, Tell, Jb!Nobody, Jb!Offline
    <3> QED  BY <2>1, <3>4 DEF PresencesSound
  <2> QED  BY <2>5, <2>6, <2>7, <2>8, <2>9 DEF JbSound
<1> QED  BY <1>4, <1>5

(* A presence is read: of a contact it is remembered.                      *)
LEMMA JbPresenceRead ==
  ASSUME JbSound, jToClient # <<>>, jManual' = jManual, Head(jToClient)[1] = "presence",
         Jb!gotpresence(Head(jToClient)[2], Head(jToClient)[3], Head(jToClient)[4])
  PROVE  JbSound'
<1>1. /\ jToClient' = Tail(jToClient) /\ jToServer' = jToServer /\ jLink' = jLink
      /\ UNCHANGED <<jRoster, jListed, jReset, jKept, jSub, jPresent, jAnnounced, jTold>>
  BY DEF Jb!gotpresence, Jb!server
<1>2. jToClient \in Seq(ClientPackets)
  BY DEF JbSound, JbTypes
<1>3. PICK g \in Buddies, r \in Resources, p \in States :
        /\ g = Head(jToClient)[2] /\ r = Head(jToClient)[3] /\ p = Head(jToClient)[4]
        /\ Head(jToClient) = <<"presence", g, r, p>>
  <2>1. Head(jToClient) \in ClientPackets
    BY <1>2, Tailed
  <2> QED  BY <2>1, ClientPacket
<1>4. /\ jToClient' \in Seq(ClientPackets)
      /\ 1 \in DOMAIN jToClient /\ Head(jToClient) = jToClient[1] /\ DOMAIN jToClient \subseteq Nat
      /\ \A i \in DOMAIN jToClient' :
           i + 1 \in DOMAIN jToClient /\ jToClient'[i] = jToClient[i + 1] /\ i \in Nat
      /\ \A i \in DOMAIN jToClient :
           i = 1 \/ (i - 1 \in DOMAIN jToClient' /\ jToClient'[i - 1] = jToClient[i])
      /\ \A x : Within(jToClient, x) => Within(jToClient', x) \/ x = Head(jToClient)
  BY <1>1, <1>2, Tailed
<1>5. MailToServer /\ MailToClient
  BY <1>1 DEF MailToServer, MailToClient
<1>6. RosterOnce' /\ Announcing'
  BY <1>1, <1>5, JbLoginKept
<1>7. jLink = "on"
  BY <1>3, <1>4 DEF JbSound, Announcing
<1>8. \/ jListed[g] = "absent" /\ UNCHANGED <<jStatuses, jShown>>
      \/ /\ jListed[g] # "absent" /\ jStatuses' = [jStatuses EXCEPT ![g][r] = p]
         /\ \E st \in Jb!Best(jStatuses'[g]) : jShown' = [jShown EXCEPT ![g] = st]
  BY <1>3 DEF Jb!gotpresence, Jb!process_presence
<1>9. JbTypes'
  <2>1. jStatuses' \in PresenceMaps
    <3>1. jStatuses \in PresenceMaps
      BY DEF JbSound, JbTypes
    <3>2. CASE jStatuses' = [jStatuses EXCEPT ![g][r] = p]
      <4>1. [jStatuses[g] EXCEPT ![r] = p] \in [Resources -> States]
        BY <3>1 DEF PresenceMaps
      <4> QED  BY <3>1, <3>2, <4>1 DEF PresenceMaps
    <3> QED  BY <1>8, <3>1, <3>2
  <2>2. DOMAIN jShown' = Buddies
    BY <1>8 DEF JbSound, JbTypes
  <2> QED  BY <1>1, <1>4, <2>1, <2>2 DEF JbSound, JbTypes
<1>10. RosterLearned'
  <2>1. ASSUME NEW f \in Buddies, Learned(f) PROVE Learned(f)'
    <3>1. CASE Within(jToClient, <<"item", f>>)
      BY <1>3, <1>4, <3>1 DEF Learned
    <3>2. CASE \E i \in DOMAIN jToClient : Brings(i) /\ f \in jToClient[i][2]
      <4>1. PICK i \in DOMAIN jToClient : Brings(i) /\ f \in jToClient[i][2]
        BY <3>2
      <4>2. i # 1
        BY <1>3, <1>4, <4>1 DEF Brings
      <4> QED  BY <1>4, <4>1, <4>2 DEF Learned, Brings
    <3> QED  BY <1>1, <2>1, <3>1, <3>2 DEF Learned
  <2> QED  BY <1>1, <2>1 DEF JbSound, JbTypes, RosterLearned
<1>11. ASSUME NEW f \in Buddies \ jReset PROVE PresenceSound(f)'
  <2>1. PresenceSound(f)
    BY <1>7 DEF JbSound, PresencesSound
  <2>2. f = g => jListed[g] # "absent"
    BY <1>3, <1>4, <2>1 DEF PresenceSound, Introduced
  <2>3. jShown'[f] \in Jb!Best(jStatuses'[f])
    <3>1. CASE f = g
      BY <1>8, <2>2, <3>1 DEF JbSound, JbTypes
    <3>2. CASE f # g
      <4>1. jShown'[f] = jShown[f] /\ jStatuses'[f] = jStatuses[f]
        BY <1>8, <3>2 DEF JbSound, JbTypes, PresenceMaps
      <4> QED  BY <2>1, <4>1 DEF PresenceSound, Jb!Best
    <3> QED  BY <3>1, <3>2
  <2>4. jListed'[f] = "absent" => jStatuses'[f] = Jb!Away /\ jShown'[f] = "offline"
    BY <1>1, <1>8, <2>1, <2>2 DEF PresenceSound, JbSound, JbTypes, PresenceMaps
  <2>5. Introduced(f)'
    <3>1. jTold'[f] # Jb!Away => jListed'[f] # "absent" \/ Within(jToClient', <<"item", f>>)
      BY <1>1, <1>3, <1>4, <2>1 DEF PresenceSound, Introduced
    <3>2. ASSUME NEW i \in DOMAIN jToClient', jToClient'[i][1] = "presence",
                 jToClient'[i][2] = f, jListed'[f] = "absent"
          PROVE  \E j \in DOMAIN jToClient' : j < i /\ jToClient'[j] = <<"item", f>>
      <4>1. PICK j \in DOMAIN jToClient : j < i + 1 /\ jToClient[j] = <<"item", f>>
        BY <1>1, <1>4, <2>1, <3>2 DEF PresenceSound, Introduced
      <4>2. j # 1
        BY <1>3, <1>4, <4>1
      <4> QED  BY <1>4, <4>1, <4>2
    <3> QED  BY <3>1, <3>2 DEF Introduced, Jb!Away
  <2>6. ASSUME NEW q \in Resources PROVE Latest(f, q)'
    <3>1. Latest(f, q)
      BY <2>1 DEF PresenceSound
    <3>2. CASE f = g /\ q = r
      <4>1. PICK i \in DOMAIN jToClient :
              /\ Tell(i, f, q) /\ jToClient[i][4] = jTold[f][q]
              /\ \A j \in DOMAIN jToClient : j > i => ~Tell(j, f, q)
        BY <1>3, <1>4, <3>1, <3>2 DEF Latest, Tell
      <4>2. CASE i = 1
        <5>1. jStatuses'[f][q] = jTold'[f][q]
          BY <1>1, <1>3, <1>4, <1>8, <2>2, <3>2, <4>1, <4>2 DEF JbSound, JbTypes, PresenceMaps
        <5>2. \A j \in DOMAIN jToClient' : ~Tell(j, f, q)'
          BY <1>4, <4>1, <4>2 DEF Tell
        <5> QED  BY <5>1, <5>2 DEF Latest
      <4>3. CASE i # 1
        <5>1. i - 1 \in DOMAIN jToClient' /\ jToClient'[i - 1] = jToClient[i]
          BY <1>4, <4>3
        <5>2. \A j \in DOMAIN jToClient' : j > i - 1 => ~Tell(j, f, q)'
          BY <1>4, <4>1 DEF Tell
        <5> QED  BY <1>1, <4>1, <5>1, <5>2 DEF Latest, Tell
      <4> QED  BY <4>2, <4>3
    <3>3. CASE ~(f = g /\ q = r)
      <4>1. jStatuses'[f][q] = jStatuses[f][q]
        BY <1>8, <3>3 DEF JbSound, JbTypes, PresenceMaps
      <4>2. ~Tell(1, f, q)
        BY <1>3, <1>4, <3>3 DEF Tell
      <4>3. CASE \A i \in DOMAIN jToClient : ~Tell(i, f, q)
        BY <1>1, <1>4, <3>1, <4>1, <4>3 DEF Latest, Tell
      <4>4. ASSUME NEW i \in DOMAIN jToClient, Tell(i, f, q), jToClient[i][4] = jTold[f][q],
                   \A j \in DOMAIN jToClient : j > i => ~Tell(j, f, q)
            PROVE  Latest(f, q)'
        <5>1. i - 1 \in DOMAIN jToClient' /\ jToClient'[i - 1] = jToClient[i]
          BY <1>4, <4>2, <4>4
        <5>2. \A j \in DOMAIN jToClient' : j > i - 1 => ~Tell(j, f, q)'
          BY <1>4, <4>4 DEF Tell
        <5> QED  BY <1>1, <4>4, <5>1, <5>2 DEF Latest, Tell
      <4> QED  BY <3>1, <4>3, <4>4 DEF Latest
    <3> QED  BY <3>2, <3>3
  <2> QED  BY <2>3, <2>4, <2>5, <2>6 DEF PresenceSound
<1>12. PresencesSound'
  BY <1>1, <1>7, <1>11 DEF PresencesSound
<1> QED  BY <1>6, <1>9, <1>10, <1>12 DEF JbSound

(* What the server does that the hook will hear of: the words under way    *)
(* stay under way, save one that the server reads.                         *)
LEMMA JbServerSide ==
  ASSUME JbSound, Jb!HookStays, UNCHANGED <<jAnnounced, jTold>>, MailToServer, MailToClient,
         jKept' \subseteq Buddies, jSub' \subseteq jKept', jPresent' \in PresenceMaps,
         \A i \in DOMAIN jToClient : i \in DOMAIN jToClient' /\ jToClient'[i] = jToClient[i],
         Within(jToServer, <<"getroster">>) => Within(jToServer', <<"getroster">>),
         \A g \in Buddies : Within(jToServer', <<"remove", g>>) => Within(jToServer, <<"remove", g>>),
         \A g \in jKept' :
           \/ /\ g \in jKept
              /\ Within(jToServer, <<"remove", g>>) => Within(jToServer', <<"remove", g>>)
           \/ jLink \in {"roster", "on"} =>
                Within(jToServer', <<"getroster">>) \/ Within(jToClient', <<"item", g>>)
  PROVE  JbSound'
<1>1. UNCHANGED <<jManual, jLink, jRoster, jStatuses, jListed, jShown, jReset>>
  BY DEF Jb!HookStays, Jb!connection, Jb!contacts
<1>2. JbTypes'
  BY <1>1, JbToServer, JbToClient DEF JbSound, JbTypes
<1>3. RosterOnce' /\ Announcing'
  BY <1>1, JbLoginKept
<1>4. RosterLearned'
  <2>1. \A x : Within(jToClient, x) => Within(jToClient', x)
    BY DEF Within
  <2>2. ASSUME NEW g \in Buddies, Learned(g),
               Within(jToServer, <<"remove", g>>) => Within(jToServer', <<"remove", g>>)
        PROVE  Learned(g)'
    BY <1>1, <2>1, <2>2 DEF Learned, Brings
  <2> QED  BY <1>1, <2>2 DEF JbSound, JbTypes, RosterLearned, Learned
<1>5. PresencesSound'
  <2>1. ~(jToClient # <<>> /\ jToClient' = Tail(jToClient))
    <3> SUFFICES ASSUME jToClient # <<>>, jToClient' = Tail(jToClient) PROVE FALSE
      OBVIOUS
    <3>1. jToClient \in Seq(ClientPackets)
      BY DEF JbSound, JbTypes
    <3>2. DOMAIN jToClient' = 1..(Len(jToClient) - 1) /\ DOMAIN jToClient = 1..Len(jToClient)
          /\ Len(jToClient) \in Nat /\ Len(jToClient) > 0
      BY <3>1
    <3>3. Len(jToClient) \in DOMAIN jToClient
      BY <3>2
    <3>4. Len(jToClient) \in DOMAIN jToClient'
      BY <3>3
    <3> QED  BY <3>2, <3>4
  <2> QED  BY <1>1, <2>1, JbPresenceKept
<1> QED  BY <1>2, <1>3, <1>4, <1>5 DEF JbSound

(* A changed item is told to a client that has the roster. *)
LEMMA JbItem ==
  ASSUME JbSound, NEW f \in Buddies, Jb!Item(f)
  PROVE  /\ MailToClient
         /\ \A i \in DOMAIN jToClient : i \in DOMAIN jToClient' /\ jToClient'[i] = jToClient[i]
         /\ jLink \in {"roster", "on"} =>
              Within(jToServer, <<"getroster">>) \/ Within(jToClient', <<"item", f>>)
<1>1. jToClient \in Seq(ClientPackets) /\ <<"item", f>> \in ClientPackets
  BY DEF JbSound, JbTypes, ClientPackets
<1>2. CASE /\ jLink \in {"roster", "on"} /\ <<"getroster">> \notin Jb!Range(jToServer)
           /\ jToClient' = Append(jToClient, <<"item", f>>)
  <2>1. MailToClient
    BY <1>1, <1>2 DEF MailToClient
  <2>2. \A i \in DOMAIN jToClient : i \in DOMAIN jToClient' /\ jToClient'[i] = jToClient[i]
    BY <1>1, <1>2, Appended
  <2>3. Within(jToClient', <<"item", f>>)
    BY <1>1, <1>2, Appended DEF Within
  <2> QED  BY <2>1, <2>2, <2>3
<1>3. CASE UNCHANGED jToClient /\ ~(/\ jLink \in {"roster", "on"}
                                    /\ <<"getroster">> \notin Jb!Range(jToServer))
  BY <1>3 DEF MailToClient, Within, Jb!Range
<1> QED  BY <1>2, <1>3 DEF Jb!Item, Jb!Says, Jb!logged

LEMMA JbOtherClient ==
  ASSUME JbSound, NEW f \in Buddies, Jb!OtherClient(f) \/ Jb!Subscription(f) PROVE JbSound'
<1>1. CASE Jb!OtherClient(f)
  <2>1. MailToServer /\ jToServer' = jToServer /\ UNCHANGED <<jPresent, jAnnounced, jTold>>
    BY <1>1 DEF Jb!OtherClient, MailToServer
  <2>2. CASE f \in jKept
    <3>1. Jb!Item(f) /\ jKept' = jKept \ {f} /\ jSub' = jSub \ {f} /\ Jb!HookStays
      BY <1>1, <2>2 DEF Jb!OtherClient, Jb!Drops
    <3> QED  BY <2>1, <3>1, JbItem, JbServerSide DEF JbSound, JbTypes
  <2>3. CASE f \notin jKept
    <3>1. Jb!Item(f) /\ jKept' = jKept \cup {f} /\ jSub' = jSub /\ Jb!HookStays
      BY <1>1, <2>3 DEF Jb!OtherClient, Jb!Keeps
    <3> QED  BY <2>1, <3>1, JbItem, JbServerSide DEF JbSound, JbTypes
  <2> QED  BY <2>2, <2>3
<1>2. CASE Jb!Subscription(f)
  <2>1. /\ Jb!Item(f) /\ jKept' = jKept /\ jSub' \subseteq jKept /\ Jb!HookStays
        /\ MailToServer /\ jToServer' = jToServer /\ UNCHANGED <<jPresent, jAnnounced, jTold>>
    BY <1>2 DEF Jb!Subscription, MailToServer, JbSound, JbTypes
  <2> QED  BY <2>1, JbItem, JbServerSide DEF JbSound, JbTypes
<1> QED  BY <1>1, <1>2

LEMMA JbMoves ==
  ASSUME JbSound, NEW f \in Buddies, NEW r \in Resources, Jb!Moves(f, r) PROVE JbSound'
<1>1. PICK p \in States : jPresent' = [jPresent EXCEPT ![f][r] = p]
  BY DEF Jb!Moves, States
<1>2. jPresent' \in PresenceMaps
  <2>1. [jPresent[f] EXCEPT ![r] = p] \in [Resources -> States] /\ jPresent \in PresenceMaps
    BY DEF JbSound, JbTypes, PresenceMaps
  <2> QED  BY <1>1, <2>1 DEF PresenceMaps
<1>3. /\ Jb!HookStays /\ UNCHANGED <<jKept, jSub, jAnnounced, jTold, jToServer, jToClient>>
      /\ MailToServer /\ MailToClient
  BY DEF Jb!Moves, MailToServer, MailToClient
<1> QED  BY <1>2, <1>3, JbServerSide DEF JbSound, JbTypes

LEMMA JbWrites == ASSUME JbSound, NEW f \in Buddies, Jb!Writes(f) PROVE JbSound'
<1>1. /\ Jb!HookStays /\ UNCHANGED <<jKept, jSub, jPresent, jAnnounced, jTold, jToServer>>
      /\ jToClient' = Append(jToClient, <<"message", f>>) /\ MailToServer
  BY DEF Jb!Writes, Jb!Says, Jb!server, MailToServer
<1>2. jToClient \in Seq(ClientPackets) /\ <<"message", f>> \in ClientPackets
  BY DEF JbSound, JbTypes, ClientPackets
<1>3. MailToClient
  BY <1>1, <1>2 DEF MailToClient
<1>4. \A i \in DOMAIN jToClient : i \in DOMAIN jToClient' /\ jToClient'[i] = jToClient[i]
  BY <1>1, <1>2, Appended
<1> QED  BY <1>1, <1>3, <1>4, JbServerSide DEF JbSound, JbTypes

(* The server tells what it has not told yet: the hook has heard of that   *)
(* contact, or will before.                                                *)
LEMMA JbTells ==
  ASSUME JbSound, NEW f \in Buddies, NEW r \in Resources, Jb!Tells(f, r) PROVE JbSound'
<1> DEFINE p == Jb!Visible(f)[r]
           e == <<"presence", f, r, p>>
<1>1. /\ UNCHANGED <<jManual, jLink, jRoster, jStatuses, jListed, jShown, jReset, jKept, jSub,
                     jPresent, jAnnounced, jToServer>>
      /\ jTold[f][r] # p /\ jTold' = [jTold EXCEPT ![f][r] = p]
      /\ jToClient' = Append(jToClient, e)
  BY DEF Jb!Tells, Jb!Says, Jb!HookStays, Jb!connection, Jb!contacts
<1>2. p \in States
  BY DEF Jb!Visible, Jb!Away, States, JbSound, JbTypes, PresenceMaps
<1>3. jToClient \in Seq(ClientPackets) /\ e \in ClientPackets
  BY <1>2 DEF JbSound, JbTypes, ClientPackets
<1>4. jAnnounced /\ jLink = "on"
  <2>1. jAnnounced
    <3> SUFFICES ASSUME ~jAnnounced PROVE FALSE
      OBVIOUS
    <3>1. jTold = Jb!Nobody /\ Jb!Visible(f) = Jb!Away
      BY DEF JbSound, Announcing, Jb!Visible
    <3> QED  BY <1>1, <3>1 DEF Jb!Nobody
  <2> QED  BY <2>1 DEF JbSound, Announcing
<1> HIDE DEF p
<1>5. /\ jToClient' \in Seq(ClientPackets)
      /\ \A i \in DOMAIN jToClient' : \/ i \in DOMAIN jToClient /\ jToClient'[i] = jToClient[i]
                                      \/ i = Len(jToClient) + 1 /\ jToClient'[i] = e
  BY <1>1, <1>3, Appended
<1>6. /\ \A i \in DOMAIN jToClient : i \in DOMAIN jToClient' /\ jToClient'[i] = jToClient[i]
                                     /\ i < Len(jToClient) + 1
      /\ Len(jToClient) + 1 \in DOMAIN jToClient' /\ jToClient'[Len(jToClient) + 1] = e
  BY <1>1, <1>3, Appended
<1>7. jTold' \in PresenceMaps
  <2>1. [jTold[f] EXCEPT ![r] = p] \in [Resources -> States] /\ jTold \in PresenceMaps
    BY <1>2 DEF JbSound, JbTypes, PresenceMaps
  <2> QED  BY <1>1, <2>1 DEF PresenceMaps
<1>8. JbTypes'
  BY <1>1, <1>5, <1>7 DEF JbSound, JbTypes
<1>9. RosterOnce'
  BY <1>1, <1>5 DEF JbSound, RosterOnce, Asks, Brings
<1>10. Announcing'
  BY <1>1, <1>4 DEF JbSound, Announcing
<1>11. RosterLearned'
  <2>1. ASSUME NEW g \in Buddies, Learned(g) PROVE Learned(g)'
    BY <1>1, <1>6, <2>1 DEF Learned, Within, Brings
  <2> QED  BY <1>1, <2>1 DEF JbSound, JbTypes, RosterLearned
<1>12. ASSUME NEW g \in Buddies \ jReset PROVE PresenceSound(g)'
  <2>1. PresenceSound(g)
    BY <1>4 DEF JbSound, PresencesSound
  <2>2. g = f => jListed[f] # "absent" \/ Within(jToClient, <<"item", f>>)
    <3> SUFFICES ASSUME g = f PROVE jListed[f] # "absent" \/ Within(jToClient, <<"item", f>>)
      OBVIOUS
    <3>1. CASE f \in jSub
      <4>1. Learned(f) /\ ~Within(jToServer, <<"remove", f>>)
        BY <1>4, <3>1 DEF JbSound, JbTypes, RosterLearned
      <4>2. \A i \in DOMAIN jToClient : ~Brings(i)
        BY <1>4 DEF JbSound, RosterOnce
      <4>3. ~Within(jToServer, <<"getroster">>)
        BY <1>4 DEF JbSound, RosterOnce, Within, Asks
      <4> QED  BY <4>1, <4>2, <4>3 DEF Learned
    <3>2. CASE f \notin jSub
      <4>1. jTold[f] # Jb!Away
        BY <1>1, <3>2 DEF Jb!Visible, p
      <4> QED  BY <2>1, <4>1 DEF PresenceSound, Introduced
    <3> QED  BY <3>1, <3>2
  <2>3. Introduced(g)'
    <3>1. Within(jToClient, <<"item", g>>) => Within(jToClient', <<"item", g>>)
      BY <1>6 DEF Within
    <3>2. jTold'[g] # Jb!Away => jListed'[g] # "absent" \/ Within(jToClient', <<"item", g>>)
      BY <1>1, <2>1, <2>2, <3>1 DEF PresenceSound, Introduced, JbSound, JbTypes, PresenceMaps
    <3>3. ASSUME NEW i \in DOMAIN jToClient', jToClient'[i][1] = "presence",
                 jToClient'[i][2] = g, jListed'[g] = "absent"
          PROVE  \E j \in DOMAIN jToClient' : j < i /\ jToClient'[j] = <<"item", g>>
      <4>1. CASE i \in DOMAIN jToClient /\ jToClient'[i] = jToClient[i]
        BY <1>1, <1>6, <2>1, <3>3, <4>1 DEF PresenceSound, Introduced
      <4>2. CASE i = Len(jToClient) + 1 /\ jToClient'[i] = e
        BY <1>1, <1>6, <2>2, <3>3, <4>2 DEF Within
      <4> QED  BY <1>5, <4>1, <4>2
    <3> QED  BY <3>2, <3>3 DEF Introduced, Jb!Away
  <2>4. ASSUME NEW q \in Resources PROVE Latest(g, q)'
    <3>1. Latest(g, q)
      BY <2>1 DEF PresenceSound
    <3>2. CASE g = f /\ q = r
      <4>1. jTold'[g][q] = p
        BY <1>1, <3>2 DEF JbSound, JbTypes, PresenceMaps
      <4>2. PICK k \in DOMAIN jToClient' : k = Len(jToClient) + 1 /\ jToClient'[k] = e
        BY <1>6
      <4>3. \A j \in DOMAIN jToClient' : ~(j > k)
        <5>1. Len(jToClient) \in Nat /\ DOMAIN jToClient = 1..Len(jToClient)
          BY <1>3, LenProperties
        <5> QED  BY <1>5, <4>2, <5>1
      <4>4. Tell(k, g, q)' /\ jToClient'[k][4] = jTold'[g][q]
        BY <3>2, <4>1, <4>2 DEF Tell
      <4> QED  BY <4>3, <4>4 DEF Latest
    <3>3. CASE ~(g = f /\ q = r)
      <4>1. jTold'[g][q] = jTold[g][q]
        BY <1>1, <3>3 DEF JbSound, JbTypes, PresenceMaps
      <4>2. \A j \in DOMAIN jToClient' : Tell(j, g, q)' => j \in DOMAIN jToClient /\ Tell(j, g, q)
        BY <1>5, <3>3 DEF Tell
      <4>3. CASE \A i \in DOMAIN jToClient : ~Tell(i, g, q)
        BY <1>1, <3>1, <4>1, <4>2, <4>3 DEF Latest
      <4>4. ASSUME NEW i \in DOMAIN jToClient, Tell(i, g, q), jToClient[i][4] = jTold[g][q],
                   \A j \in DOMAIN jToClient : j > i => ~Tell(j, g, q)
            PROVE  Latest(g, q)'
        <5>1. i \in DOMAIN jToClient' /\ Tell(i, g, q)' /\ jToClient'[i][4] = jTold'[g][q]
          BY <1>6, <4>1, <4>4 DEF Tell
        <5> QED  BY <4>2, <4>4, <5>1 DEF Latest
      <4> QED  BY <3>1, <4>3, <4>4 DEF Latest
    <3> QED  BY <3>2, <3>3
  <2> QED  BY <1>1, <2>1, <2>3, <2>4 DEF PresenceSound, Jb!Best
<1>13. PresencesSound'
  BY <1>1, <1>4, <1>12 DEF PresencesSound
<1> QED  BY <1>8, <1>9, <1>10, <1>11, <1>13 DEF JbSound

(* The server reads a word of the hook. *)
LEMMA JbServerTakes == ASSUME JbSound, Jb!ServerTakes PROVE JbSound'
<1> DEFINE h == Head(jToServer)
<1>1. /\ jToServer # <<>> /\ jToServer' = Tail(jToServer) /\ Jb!HookStays
      /\ UNCHANGED <<jManual, jLink, jRoster, jStatuses, jListed, jShown, jReset>>
  BY DEF Jb!ServerTakes, Jb!HookStays, Jb!connection, Jb!contacts
<1>2. jToServer \in Seq(ServerPackets) /\ jToClient \in Seq(ClientPackets)
  BY DEF JbSound, JbTypes
<1>3. h \in ServerPackets /\ 1 \in DOMAIN jToServer /\ h = jToServer[1]
      /\ jToServer' \in Seq(ServerPackets)
  BY <1>1, <1>2, Tailed
<1>4. /\ \A i \in DOMAIN jToServer' :
           i + 1 \in DOMAIN jToServer /\ jToServer'[i] = jToServer[i + 1] /\ i \in Nat
      /\ \A x : Within(jToServer, x) <=> Within(jToServer', x) \/ x = h
  BY <1>1, <1>2, Tailed
<1>5. MailToServer
  BY <1>1 DEF MailToServer
<1>6. CASE h[1] = "getroster"
  <2>1. /\ UNCHANGED <<jKept, jSub, jPresent, jAnnounced, jTold>>
        /\ jToClient' = Append(jToClient, <<"roster", jKept>>)
    BY <1>6 DEF Jb!ServerTakes, Jb!Says, Jb!server
  <2>2. <<"roster", jKept>> \in ClientPackets
    BY DEF JbSound, JbTypes, ClientPackets
  <2>3. /\ jToClient' \in Seq(ClientPackets)
        /\ \A i \in DOMAIN jToClient' :
             \/ i \in DOMAIN jToClient /\ jToClient'[i] = jToClient[i]
             \/ i = Len(jToClient) + 1 /\ jToClient'[i] = <<"roster", jKept>>
    BY <1>2, <2>1, <2>2, Appended
  <2>4. PICK k \in DOMAIN jToClient' : k = Len(jToClient) + 1 /\ jToClient'[k] = <<"roster", jKept>>
    BY <1>2, <2>1, <2>2, Appended
  <2>5. Asks(1) /\ jLink = "roster"
    BY <1>3, <1>6 DEF JbSound, RosterOnce, Asks
  <2>6. JbTypes'
    BY <1>1, <1>3, <2>1, <2>3 DEF JbSound, JbTypes
  <2>7. RosterOnce'
    <3>1. \A i \in DOMAIN jToServer' : ~Asks(i)'
      <4> SUFFICES ASSUME NEW i \in DOMAIN jToServer', Asks(i)' PROVE FALSE
        OBVIOUS
      <4>1. i + 1 = 1
        BY <1>3, <1>4, <2>5 DEF JbSound, RosterOnce, Asks
      <4>2. i \in 1..Len(jToServer')
        BY <1>3, LenProperties
      <4> QED  BY <4>1, <4>2
    <3>2. \A i \in DOMAIN jToClient : ~Brings(i)
      BY <1>3, <2>5 DEF JbSound, RosterOnce
    <3>3. \A i \in DOMAIN jToClient' : Brings(i)' => i = k
      BY <2>3, <2>4, <3>2 DEF Brings
    <3> QED  BY <1>1, <2>5, <3>1, <3>3 DEF RosterOnce
  <2>8. Announcing'
    BY <1>1, <1>4, <2>1, <2>3 DEF JbSound, Announcing
  <2>9. RosterLearned'
    <3>1. \A f \in jKept : Learned(f)'
      BY <2>4 DEF Learned, Brings
    <3> QED  BY <1>1, <1>4, <2>1, <3>1 DEF JbSound, RosterLearned
  <2>10. PresencesSound'
    BY <1>1, <2>5 DEF JbSound, PresencesSound
  <2> QED  BY <2>6, <2>7, <2>8, <2>9, <2>10 DEF JbSound
<1>7. CASE h[1] = "available"
  <2>1. jAnnounced' = TRUE /\ UNCHANGED <<jKept, jSub, jPresent, jTold, jToClient>>
    BY <1>7 DEF Jb!ServerTakes
  <2>2. h = <<"available">> /\ jLink = "on"
    BY <1>3, <1>4, <1>7, ServerPacket DEF JbSound, Announcing
  <2>3. JbTypes'
    BY <1>1, <1>3, <2>1 DEF JbSound, JbTypes
  <2>4. RosterOnce'
    BY <1>1, <1>4, <2>1, <2>2 DEF JbSound, RosterOnce, Asks, Brings
  <2>5. Announcing'
    BY <1>1, <2>1, <2>2 DEF JbSound, Announcing
  <2>6. RosterLearned'
    <3>1. /\ Within(jToServer, <<"getroster">>) => Within(jToServer', <<"getroster">>)
          /\ \A f : Within(jToServer, <<"remove", f>>) => Within(jToServer', <<"remove", f>>)
      BY <1>4, <2>2
    <3>2. ASSUME NEW f \in Buddies, Learned(f) PROVE Learned(f)'
      BY <1>1, <2>1, <3>1, <3>2 DEF Learned, Brings
    <3> QED  BY <1>1, <1>4, <2>1, <3>2 DEF JbSound, JbTypes, RosterLearned
  <2>7. PresencesSound'
    BY <1>1, <2>1 DEF JbSound, PresencesSound, PresenceSound, Introduced, Latest, Tell
  <2> QED  BY <2>3, <2>4, <2>5, <2>6, <2>7 DEF JbSound
<1>8. CASE h[1] \in {"add", "remove"}
  <2>1. PICK g \in Buddies : h = <<h[1], g>> /\ h[2] = g
    BY <1>3, <1>8, ServerPacket
  <2>2. UNCHANGED <<jPresent, jAnnounced, jTold>>
    BY <1>8 DEF Jb!ServerTakes
  <2>3. /\ Within(jToServer, <<"getroster">>) => Within(jToServer', <<"getroster">>)
        /\ \A f : Within(jToServer', <<"remove", f>>) => Within(jToServer, <<"remove", f>>)
        /\ \A f : Within(jToServer, <<"remove", f>>) =>
                    Within(jToServer', <<"remove", f>>) \/ (h[1] = "remove" /\ f = g)
    BY <1>4, <1>8, <2>1
  <2>4. CASE h[1] = "add"
    <3>1. jKept' = jKept \cup {g} /\ jSub' = jSub /\ Jb!Item(g)
      BY <2>1, <2>4 DEF Jb!ServerTakes, Jb!Keeps
    <3>2. /\ MailToClient
          /\ \A i \in DOMAIN jToClient : i \in DOMAIN jToClient' /\ jToClient'[i] = jToClient[i]
          /\ jLink \in {"roster", "on"} =>
               Within(jToServer', <<"getroster">>) \/ Within(jToClient', <<"item", g>>)
      BY <2>3, <3>1, JbItem
    <3> QED  BY <1>1, <1>5, <2>2, <2>3, <2>4, <3>1, <3>2, JbServerSide DEF JbSound, JbTypes
  <2>5. CASE h[1] = "remove"
    <3>1. jKept' = jKept \ {g} /\ jSub' = jSub \ {g} /\ (Jb!Item(g) \/ UNCHANGED jToClient)
      BY <2>1, <2>5 DEF Jb!ServerTakes, Jb!Drops
    <3>2. /\ MailToClient
          /\ \A i \in DOMAIN jToClient : i \in DOMAIN jToClient' /\ jToClient'[i] = jToClient[i]
      <4>1. CASE Jb!Item(g)
        BY <4>1, JbItem
      <4>2. CASE UNCHANGED jToClient
        BY <4>2 DEF MailToClient
      <4> QED  BY <3>1, <4>1, <4>2
    <3> QED  BY <1>1, <1>5, <2>2, <2>3, <2>5, <3>1, <3>2, JbServerSide DEF JbSound, JbTypes
  <2> QED  BY <1>8, <2>4, <2>5
<1> QED  BY <1>3, <1>6, <1>7, <1>8, ServerPacket

LEMMA JbPackethandler ==
  ASSUME JbSound, Resources # {}, Jb!packethandler PROVE JbSound'
<1>1. jToClient # <<>> /\ jManual' = jManual
  BY DEF Jb!packethandler
<1>2. \/ Head(jToClient)[1] = "roster" /\ Jb!postlogin(Head(jToClient)[2])
      \/ Head(jToClient)[1] = "item" /\ Jb!gotitem(Head(jToClient)[2])
      \/ Head(jToClient)[1] = "message" /\ Jb!gotmessage(Head(jToClient)[2])
      \/ Head(jToClient)[1] = "presence"
         /\ Jb!gotpresence(Head(jToClient)[2], Head(jToClient)[3], Head(jToClient)[4])
  BY DEF Jb!packethandler
<1> QED  BY <1>1, <1>2, JbRosterRead, JbItemRead, JbPresenceRead

LEMMA JbNext == ASSUME JbSound, Resources # {}, JbStep PROVE JbSound'
<1>1. CASE UNCHANGED jVars
  <2>1. JbTypes'
    BY <1>1 DEF jVars, JbSound, JbTypes
  <2>2. RosterOnce' /\ Announcing' /\ RosterLearned'
    BY <1>1 DEF jVars, JbSound, RosterOnce, Announcing, RosterLearned, Learned, Asks, Brings
  <2>3. PresencesSound'
    BY <1>1 DEF jVars, JbSound, PresencesSound, PresenceSound, Introduced, Latest, Tell
  <2> QED  BY <2>1, <2>2, <2>3 DEF JbSound
<1>2. CASE Jb!Next
  <2>1. CASE \/ \E st \in {"available", "offline"} : Jb!setstatus(st)
             \/ Jb!Reconnect \/ Jb!Lost
    BY <2>1, JbLinks
  <2>2. CASE Jb!LoginStep \/ Jb!packethandler \/ Jb!ServerTakes
    BY <2>2, JbLoginStep, JbPackethandler, JbServerTakes
  <2>3. ASSUME NEW f \in Buddies,
               Jb!AddContact(f) \/ Jb!RemoveContact(f) \/ Jb!OtherClient(f) \/ Jb!Subscription(f)
               \/ Jb!Writes(f)
        PROVE  JbSound'
    BY <2>3, JbAddContact, JbRemoveContact, JbOtherClient, JbWrites
  <2>4. ASSUME NEW f \in Buddies, NEW r \in Resources, Jb!Moves(f, r) \/ Jb!Tells(f, r)
        PROVE  JbSound'
    BY <2>4, JbMoves, JbTells
  <2> QED  BY <1>2, <2>1, <2>2, <2>3, <2>4 DEF Jb!Next
<1> QED  BY <1>1, <1>2 DEF JbStep

LEMMA JbParts == ASSUME Resources # {} PROVE PartSpec => []JbSound
<1>1. PartInit => JbSound
  BY JbInit DEF PartInit
<1>2. JbSound /\ [PartNext]_allVars => JbSound'
  BY JbPart, JbNext
<1> QED  BY <1>1, <1>2, PTL DEF PartSpec, allVars

(* Who has set himself offline while the login is made, before or after    *)
(* the roster was asked for, is never announced: postlogin() looks at      *)
(* manualstatus before it sends the presence.                              *)
THEOREM JabberOfflineMeansOff ==
  ASSUME Resources # {} PROVE PartSpec => []OfflineMeansOff
<1>1. JbSound => OfflineMeansOff
  BY DEF JbSound, Announcing, OfflineMeansOff, Jb!OfflineMeansOff
<1> QED  BY <1>1, JbParts, PTL

(* Once the roster has come, whoever the server keeps, and of whom no word *)
(* is under way, is in the list and in the hook's roster, in whatever      *)
(* order additions and removals here and by the user's other clients have  *)
(* crossed (gotroster(), sendnewuser() and removeuser()).                  *)
THEOREM RosterIsListed ==
  ASSUME Resources # {} PROVE PartSpec => []RosterListed
<1>1. ASSUME JbSound PROVE RosterListed
  <2> SUFFICES ASSUME jLink = "on", NEW f \in jKept, Jb!Quiet(f)
      PROVE f \in jRoster /\ jListed[f] # "absent"
    BY DEF RosterListed, Jb!RosterListed
  <2>1. Learned(f)
    BY <1>1 DEF JbSound, RosterLearned
  <2>2. ~Within(jToServer, <<"getroster">>) /\ \A i \in DOMAIN jToClient : ~Brings(i)
    BY <1>1 DEF JbSound, RosterOnce, Within, Asks
  <2>3. \A what : ~Within(jToServer, <<what, f>>) /\ ~Within(jToClient, <<what, f>>)
    BY DEF Jb!Quiet, Jb!Mentions, Jb!Range, Within
  <2> QED  BY <2>1, <2>2, <2>3 DEF Learned
<1> QED  BY <1>1, JbParts, PTL

(* A contact is shown with the status of his best resource, whenever the   *)
(* server has told all it has to and the hook has read it: the records of  *)
(* his resources are those of this connection, and none of his presences   *)
(* was met while he was no contact yet (process_presence()).               *)
THEOREM PresenceIsTheBest ==
  ASSUME Resources # {} PROVE PartSpec => []PresenceIsBest
<1>1. ASSUME JbSound PROVE PresenceIsBest
  <2> SUFFICES ASSUME jLink = "on", NEW f \in Buddies \ jReset, Jb!Quiet(f),
                      jTold[f] = Jb!Visible(f)
      PROVE jShown[f] \in Jb!Best(Jb!Visible(f))
    BY DEF PresenceIsBest, Jb!PresenceIsBest
  <2>1. PresenceSound(f)
    BY <1>1 DEF JbSound, PresencesSound
  <2>2. \A i \in DOMAIN jToClient : ~(jToClient[i][1] = "presence" /\ jToClient[i][2] = f)
    <3> SUFFICES ASSUME NEW i \in DOMAIN jToClient, jToClient[i][1] = "presence",
                        jToClient[i][2] = f
        PROVE FALSE
      OBVIOUS
    <3>1. jToClient[i] \in ClientPackets
      BY <1>1, LenProperties, ElementOfSeq DEF JbSound, JbTypes
    <3>2. jToClient[i] = <<jToClient[i][1], jToClient[i][2], jToClient[i][3], jToClient[i][4]>>
      BY <3>1, ClientPacket
    <3>3. Len(jToClient[i]) = 4
      BY <3>2
    <3> QED  BY <3>3 DEF Jb!Quiet, Jb!Mentions, Jb!Range
  <2>3. \A r \in Resources : jStatuses[f][r] = jTold[f][r]
    BY <2>1, <2>2 DEF PresenceSound, Latest, Tell
  <2>4. jStatuses[f] \in [Resources -> States] /\ jTold[f] \in [Resources -> States]
    BY <1>1 DEF JbSound, JbTypes, PresenceMaps
  <2>5. jStatuses[f] = jTold[f]
    BY <2>3, <2>4
  <2> QED  BY <2>1, <2>5 DEF PresenceSound
<1> QED  BY <1>1, JbParts, PTL
-----------------------------------------------------------------------------
(* The rest of the types of the jabber hook: what contacts are shown as,   *)
(* whom the ghost remembers, and how many packets are under way.           *)
JbRest ==
  /\ jShown \in [Buddies -> {p[2] : p \in States}]
  /\ \A f \in Buddies : jListed[f] = "absent" => jShown[f] = "offline"
  /\ jReset \subseteq Buddies
  /\ Len(jToServer) <= MaxPackets /\ Len(jToClient) <= MaxPackets

LEMMA JbOffline ==
  /\ "offline" \in {p[2] : p \in States}
  /\ Jb!Offline \in [Buddies -> {p[2] : p \in States}]
<1>1. <<-127, "offline">> \in States /\ <<-127, "offline">>[2] = "offline"
  BY DEF States, Jb!NoPresence
<1>2. "offline" \in {p[2] : p \in States}
  BY <1>1
<1> QED  BY <1>2 DEF Jb!Offline

(* Once connections end, everybody is shown as offline, or nobody else.    *)
LEMMA JbRestHangUp ==
  ASSUME JbRest, MaxPackets \in Nat, NEW l, Jb!HangUp(l),
         jShown' = Jb!Offline \/ (jShown' = jShown /\ jListed' = jListed)
  PROVE  JbRest'
<1>1. /\ Len(jToServer') <= MaxPackets /\ Len(jToClient') <= MaxPackets
      /\ jReset' \subseteq Buddies
  BY DEF Jb!HangUp
<1>2. CASE jShown' = Jb!Offline
  BY <1>1, <1>2, JbOffline DEF JbRest, Jb!Offline
<1>3. CASE jShown' = jShown /\ jListed' = jListed
  BY <1>1, <1>3 DEF JbRest
<1> QED  BY <1>2, <1>3

LEMMA JbRestLinks ==
  ASSUME JbSound, JbRest, MaxPackets \in Nat,
         \/ \E st \in {"available", "offline"} : Jb!setstatus(st)
         \/ Jb!Reconnect \/ Jb!Lost
  PROVE  JbRest'
<1>1. CASE Jb!disconnect
  BY <1>1, JbRestHangUp DEF Jb!disconnect, Jb!StateOff
<1>2. CASE Jb!connect
  BY <1>2, JbRestHangUp DEF Jb!connect, Jb!contacts
<1>3. CASE Jb!Lost
  BY <1>3, JbRestHangUp DEF Jb!Lost, Jb!StateOff
<1>4. CASE UNCHANGED <<jShown, jListed, jReset, jToServer, jToClient>>
  BY <1>4 DEF JbRest
<1>5. \/ Jb!disconnect \/ Jb!connect \/ Jb!Lost
      \/ UNCHANGED <<jShown, jListed, jReset, jToServer, jToClient>>
  BY DEF Jb!setstatus, Jb!Reconnect, Jb!contacts
<1> QED  BY <1>1, <1>2, <1>3, <1>4, <1>5

(* A queue is as long as it was, or as Send() and Says() allow, or shorter. *)
JbLengths ==
  /\ Len(jToServer') <= MaxPackets \/ jToServer' = jToServer
     \/ (jToServer # <<>> /\ jToServer' = Tail(jToServer))
  /\ Len(jToClient') <= MaxPackets \/ jToClient' = jToClient
     \/ (jToClient # <<>> /\ jToClient' = Tail(jToClient))

LEMMA JbRestLengths ==
  ASSUME JbSound, JbRest, MaxPackets \in Nat, JbLengths
  PROVE  Len(jToServer') <= MaxPackets /\ Len(jToClient') <= MaxPackets
<1>1. jToServer \in Seq(ServerPackets) /\ jToClient \in Seq(ClientPackets)
  BY DEF JbSound, JbTypes
<1>2. jToServer # <<>> => Len(Tail(jToServer)) = Len(jToServer) - 1
  BY <1>1, HeadTailProperties
<1>3. jToClient # <<>> => Len(Tail(jToClient)) = Len(jToClient) - 1
  BY <1>1, HeadTailProperties
<1>4. Len(jToServer) \in Nat /\ Len(jToClient) \in Nat
  BY <1>1, LenProperties
<1> QED  BY <1>2, <1>3, <1>4 DEF JbRest, JbLengths

(* Who is added or removed is shown as offline.                            *)
LEMMA JbRestContacts ==
  ASSUME JbSound, JbRest, MaxPackets \in Nat, NEW f \in Buddies,
         Jb!AddContact(f) \/ Jb!RemoveContact(f)
  PROVE  JbRest'
<1>1. /\ jShown' = [jShown EXCEPT ![f] = "offline"] /\ jToClient' = jToClient
      /\ jListed' = [jListed EXCEPT ![f] = "inlist"] \/ jListed' = [jListed EXCEPT ![f] = "absent"]
      /\ jReset' \in {jReset, jReset \cup {f}}
      /\ jToServer' = jToServer \/ Len(jToServer') <= MaxPackets
  BY DEF Jb!AddContact, Jb!RemoveContact, Jb!Send
<1>2. Len(jToServer') <= MaxPackets /\ Len(jToClient') <= MaxPackets
  BY <1>1, JbRestLengths DEF JbLengths
<1>3. jListed \in [Buddies -> {"absent", "stranger", "inlist"}]
  BY DEF JbSound, JbTypes
<1>4. jShown' \in [Buddies -> {p[2] : p \in States}]
  BY <1>1, JbOffline DEF JbRest
<1>5. \A g \in Buddies : jListed'[g] = "absent" => jShown'[g] = "offline"
  BY <1>1, <1>3 DEF JbRest
<1> QED  BY <1>1, <1>2, <1>4, <1>5 DEF JbRest

(* What is not shown anew stays, and nobody leaves the list here.          *)
LEMMA JbRestShown ==
  ASSUME JbSound, JbRest, MaxPackets \in Nat, JbLengths, UNCHANGED <<jShown, jReset>>,
         \A f \in Buddies : jListed'[f] = "absent" => jListed[f] = "absent"
  PROVE  JbRest'
BY JbRestLengths DEF JbRest

LEMMA JbRestPresence ==
  ASSUME JbSound, JbRest, MaxPackets \in Nat, jToClient # <<>>, Head(jToClient)[1] = "presence",
         Jb!gotpresence(Head(jToClient)[2], Head(jToClient)[3], Head(jToClient)[4])
  PROVE  JbRest'
<1> DEFINE f == Head(jToClient)[2]
           r == Head(jToClient)[3]
           p == Head(jToClient)[4]
<1>1. /\ jToClient' = Tail(jToClient) /\ UNCHANGED <<jToServer, jListed, jReset>>
      /\ JbLengths
  BY DEF Jb!gotpresence, JbLengths
<1>2. CASE jListed[f] = "absent"
  BY <1>1, <1>2, JbRestShown DEF Jb!gotpresence
<1>3. CASE jListed[f] # "absent"
  <2>1. Head(jToClient) \in ClientPackets
    BY HeadTailProperties DEF JbSound, JbTypes
  <2>2. f \in Buddies /\ r \in Resources /\ p \in States
    BY <2>1, ClientPacket
  <2>3. jStatuses' = [jStatuses EXCEPT ![f][r] = p]
        /\ \E st \in Jb!Best(jStatuses'[f]) : jShown' = [jShown EXCEPT ![f] = st]
    BY <1>3 DEF Jb!gotpresence, Jb!process_presence
  <2>4. jStatuses' \in PresenceMaps
    BY <2>2, <2>3 DEF JbSound, JbTypes, PresenceMaps
  <2>5. PICK st \in Jb!Best(jStatuses'[f]) : jShown' = [jShown EXCEPT ![f] = st]
    BY <2>3
  <2>6. st \in {q[2] : q \in States}
    <3>1. PICK o \in Resources : st = jStatuses'[f][o][2]
      BY <2>5 DEF Jb!Best
    <3>2. jStatuses'[f][o] \in States
      BY <2>2, <2>4, <3>1 DEF PresenceMaps
    <3> QED  BY <3>1, <3>2
  <2>7. jShown' \in [Buddies -> {q[2] : q \in States}]
    BY <2>5, <2>6 DEF JbRest
  <2>8. \A g \in Buddies : jListed'[g] = "absent" => jShown'[g] = "offline"
    BY <1>1, <1>3, <2>5 DEF JbRest
  <2>9. Len(jToServer') <= MaxPackets /\ Len(jToClient') <= MaxPackets
    BY <1>1, JbRestLengths
  <2> QED  BY <1>1, <2>7, <2>8, <2>9 DEF JbRest
<1> QED  BY <1>2, <1>3

LEMMA JbRestPackethandler ==
  ASSUME JbSound, JbRest, MaxPackets \in Nat, Jb!packethandler PROVE JbRest'
<1>1. jToClient # <<>>
  BY DEF Jb!packethandler
<1>2. jListed \in [Buddies -> {"absent", "stranger", "inlist"}]
  BY DEF JbSound, JbTypes
<1>3. ASSUME NEW items, jListed' = Jb!Included(items)
      PROVE  \A f \in Buddies : jListed'[f] = "absent" => jListed[f] = "absent"
  BY <1>2, <1>3 DEF Jb!Included
<1>4. CASE Head(jToClient)[1] = "roster" /\ Jb!postlogin(Head(jToClient)[2])
  <2>1. CASE jManual = "offline"
    BY <1>4, <2>1, JbRestHangUp DEF Jb!postlogin
  <2>2. CASE jManual # "offline"
    BY <1>1, <1>3, <1>4, <2>2, JbRestShown
    DEF Jb!postlogin, Jb!gotroster, Jb!Send, JbLengths
  <2> QED  BY <2>1, <2>2
<1>5. CASE Head(jToClient)[1] = "item" /\ Jb!gotitem(Head(jToClient)[2])
  BY <1>1, <1>3, <1>5, JbRestShown DEF Jb!gotitem, Jb!gotroster, JbLengths
<1>6. CASE Head(jToClient)[1] = "message" /\ Jb!gotmessage(Head(jToClient)[2])
  <2>1. \A f \in Buddies : jListed'[f] = "absent" => jListed[f] = "absent"
    BY <1>2, <1>6 DEF Jb!gotmessage
  <2> QED  BY <1>1, <1>6, <2>1, JbRestShown DEF Jb!gotmessage, JbLengths
<1> QED  BY <1>1, <1>4, <1>5, <1>6, JbRestPresence DEF Jb!packethandler

LEMMA JbRestServer ==
  ASSUME JbSound, JbRest, MaxPackets \in Nat,
         \/ Jb!LoginStep \/ Jb!ServerTakes
         \/ \E f \in Buddies : Jb!OtherClient(f) \/ Jb!Subscription(f) \/ Jb!Writes(f)
         \/ \E f \in Buddies, r \in Resources : Jb!Moves(f, r) \/ Jb!Tells(f, r)
  PROVE  JbRest'
<1>1. UNCHANGED <<jListed, jShown, jReset>>
  BY DEF Jb!LoginStep, Jb!ServerTakes, Jb!OtherClient, Jb!Subscription, Jb!Writes, Jb!Moves,
     Jb!Tells, Jb!HookStays, Jb!contacts
<1>2. JbLengths
  BY DEF Jb!LoginStep, Jb!ServerTakes, Jb!OtherClient, Jb!Subscription, Jb!Writes, Jb!Moves,
     Jb!Tells, Jb!Keeps, Jb!Drops, Jb!Item, Jb!Send, Jb!Says, JbLengths
<1> QED  BY <1>1, <1>2, JbRestShown

LEMMA JbRestNext ==
  ASSUME JbSound, JbRest, MaxPackets \in Nat, JbStep PROVE JbRest'
<1>1. CASE UNCHANGED jVars
  BY <1>1 DEF jVars, JbRest
<1> QED
  BY <1>1, JbRestLinks, JbRestContacts, JbRestPackethandler, JbRestServer
  DEF JbStep, Jb!Next

(* Every variable of the jabber hook, its connection and its server keeps  *)
(* its type: who is no contact is shown as offline, and whatever the hook  *)
(* shows is a status that some resource was said to have.                  *)
THEOREM JabberTypeCorrect ==
  ASSUME Resources # {}, MaxPackets \in Nat PROVE PartSpec => []Jb!TypeOK
<1>1. PartInit => JbSound /\ JbRest
  <2>1. ASSUME Jb!Init PROVE JbRest
    BY <2>1, JbOffline DEF Jb!Init, JbRest, Jb!Offline
  <2> QED  BY <2>1, JbInit DEF PartInit
<1>2. JbSound /\ JbRest /\ [PartNext]_allVars => (JbSound /\ JbRest)'
  BY JbPart, JbNext, JbRestNext
<1>3. ASSUME JbSound, JbRest PROVE Jb!TypeOK
  <2>1. TwoPresences \cup {Jb!NoPresence} = States
    BY DEF States
  <2>2. /\ jStatuses \in [Buddies -> [Resources -> States]]
        /\ jPresent \in [Buddies -> [Resources -> States]]
        /\ jTold \in [Buddies -> [Resources -> States]]
    BY <1>3 DEF JbSound, JbTypes, PresenceMaps
  <2>3. /\ jRoster \subseteq Buddies /\ jKept \subseteq Buddies /\ jSub \subseteq Buddies
        /\ jReset \subseteq Buddies
    BY <1>3 DEF JbSound, JbTypes, JbRest
  <2>4. /\ jToServer \in Seq({<<"getroster">>, <<"available">>} \cup ({"add", "remove"} \X Buddies))
        /\ jToClient \in Seq(({"roster"} \X SUBSET Buddies)
                              \cup ({"item", "message"} \X Buddies)
                              \cup ({"presence"} \X Buddies \X Resources \X States))
    BY <1>3 DEF JbSound, JbTypes, ServerPackets, ClientPackets
  <2>5. /\ jManual \in {"available", "offline"}
        /\ jLink \in {"off", "connecting", "auth", "roster", "on"}
        /\ jListed \in [Buddies -> {"absent", "stranger", "inlist"}]
        /\ jAnnounced \in BOOLEAN
    BY <1>3 DEF JbSound, JbTypes
  <2>6. /\ jShown \in [Buddies -> {p[2] : p \in States}]
        /\ \A f \in Buddies : jListed[f] = "absent" => jShown[f] = "offline"
        /\ Len(jToServer) <= MaxPackets /\ Len(jToClient) <= MaxPackets
    BY <1>3 DEF JbRest
  <2> QED  BY <2>1, <2>2, <2>3, <2>4, <2>5, <2>6, Zenon DEF Jb!TypeOK
<1> QED  BY <1>1, <1>2, <1>3, PTL DEF PartSpec, allVars
=============================================================================
