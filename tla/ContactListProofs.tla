------------------------- MODULE ContactListProofs --------------------------
(* Proofs about ContactList: types, that every contact is in a group that  *)
(* exists, and that the flags and files of a contact tell what changed.    *)
EXTENDS ContactList, WellFoundedInduction, TLAPS

-----------------------------------------------------------------------------
(* The smallest and the largest identifier of a set.                       *)

LEMMA SmallestExists ==
  ASSUME NEW S \in SUBSET Nat, S # {}
  PROVE  \E i \in S : \A j \in S : i <= j
<1> DEFINE R == OpToRel(<, Nat)
<1>1. IsWellFoundedOn(R, Nat)
  BY NatLessThanWellFounded
<1>2. PICK i \in S : \A j \in S : <<j, i>> \notin R
  BY <1>1, WFMin
<1>3. \A j \in S : ~(j < i)
  BY <1>2 DEF OpToRel
<1> QED  BY <1>3

LEMMA Distance ==
  ASSUME NEW m \in Nat, NEW j \in 1 .. m PROVE m - j \in Nat
  OBVIOUS

LEMMA LargestFacts ==
  ASSUME NEW S \in SUBSET Ids, S # {} PROVE Largest(S) \in S
<1> DEFINE T == {n \in Nat : \E i \in S : n = MaxGroups - i}
<1>0. MaxGroups \in Nat /\ \A i \in S : i \in 1 .. MaxGroups /\ i \in Nat
  BY ContactListAssumption DEF ContactListAssumption, Ids
<1>1. T \in SUBSET Nat /\ T # {}
  BY <1>0, Distance
<1>2. PICK n \in T : \A m \in T : n <= m
  BY <1>1, SmallestExists
<1>3. PICK i \in S : n = MaxGroups - i
  BY <1>2
<1>4. \A j \in S : j <= i
  <2> TAKE j \in S
  <2>0. MaxGroups - j \in Nat
    BY <1>0, Distance
  <2>1. MaxGroups - j \in T
    BY <2>0
  <2>2. n <= MaxGroups - j
    BY <1>2, <2>1
  <2> QED  BY <1>0, <1>3, <2>2
<1> QED  BY <1>4 DEF Largest

LEMMA FreeIdFacts ==
  ASSUME NEW g, Used(g) # Ids PROVE FreeId(g) \in Ids \ Used(g)
<1> DEFINE S == Ids \ Used(g)
<1>1. S \in SUBSET Nat /\ S # {}
  BY DEF Used, Ids
<1>2. \E i \in S : \A j \in S : i <= j
  BY <1>1, SmallestExists
<1> QED  BY <1>2 DEF FreeId

-----------------------------------------------------------------------------
(* The inductive invariant.  A contact's entry in memory agrees with its   *)
(* directory: an unmodified nick is the one stored, where a directory that *)
(* is missing stands for the contact's own name; and a stored exclusion,   *)
(* or its absence once the files are complete, is true.  Nobody is         *)
(* excluded whom the running program does not know.                        *)
EntrySound(e, d) ==
  /\ e # None =>
       /\ grouped => e.gid \in Used(groups)
       /\ ~e.modified => e.nick = IF d = None THEN Own ELSE d.nick
       /\ d # None => /\ d.excluded => ~e.inlist
                      /\ d.saved /\ ~e.inlist => d.excluded
  /\ e = None /\ up /\ d # None => ~d.excluded

ContactsSound == \A c \in Contacts : EntrySound(clist[c], dir[c])
GroupsSound == up => groups[1] # NoGroup /\ groups[last] # NoGroup
FileSound == file.names[1] # NoGroup => file.names[file.last] # NoGroup

EditSound == modal \in Contacts => up /\ clist[modal] # None

(* A contact in the middle of addnew() is in memory already, and not       *)
(* excluded if it is to be in the list.                                    *)
AddingSound ==
  adding # None =>
    /\ up /\ clist[adding.who] # None
    /\ adding.in /\ dir[adding.who] # None => ~dir[adding.who].excluded

Sound ==
  TypeOK /\ ContactsSound /\ GroupsSound /\ FileSound /\ EditSound /\ AddingSound

LEMMA NoneApart ==
  None \notin Entries /\ None \notin Dirs /\ None \notin Additions /\ 1 \in Ids
  BY ContactListAssumption DEF ContactListAssumption, Entries, Dirs, Additions, Ids

LEMMA SoundGroups ==
  ASSUME TypeOK, GroupsSound, up
  PROVE  1 \in Used(groups) /\ Used(groups) \subseteq Ids /\ Ids \subseteq 0 .. MaxGroups
  BY NoneApart DEF GroupsSound, Used, Ids

-----------------------------------------------------------------------------
(* What loading and saving do to one contact.                              *)

LEMMA StoredType ==
  ASSUME NEW d \in Dirs \cup {None}
  PROVE  (IF d = None THEN Bare ELSE d) \in Dirs /\ Bare \in Dirs
  BY ContactListAssumption DEF ContactListAssumption, Bare, Dirs

LEMMA LoadedSound ==
  ASSUME TypeOK, GroupsSound, up, NEW d \in Dirs \cup {None}
  PROVE  LET e == Loaded(IF d = None THEN Bare ELSE d, Used(groups))
         IN  e \in Entries /\ EntrySound(e, d)
<1> DEFINE s == IF d = None THEN Bare ELSE d
           e == Loaded(s, Used(groups))
<1>1. s \in Dirs
  BY StoredType
<1>2. /\ e.gid = IF grouped /\ s.gid \notin Used(groups) THEN 1 ELSE s.gid
      /\ e.nick = s.nick /\ e.inlist = ~s.excluded /\ e.modified = FALSE
  BY DEF Loaded
<1>3. e.gid \in 0 .. MaxGroups /\ (grouped => e.gid \in Used(groups))
  BY <1>1, <1>2, SoundGroups DEF Dirs
<1>4. e \in Entries
  BY <1>1, <1>3 DEF Loaded, Entries, Dirs
<1>5. s.nick = IF d = None THEN Own ELSE d.nick
  BY DEF Bare
<1> QED  BY <1>2, <1>3, <1>4, <1>5, NoneApart DEF EntrySound

LEMMA SavedSound ==
  ASSUME space \in BOOLEAN, NEW e \in Entries, NEW d \in Dirs \cup {None}, EntrySound(e, d)
  PROVE  /\ Kept(e, d) \in Entries /\ Written(e, d) \in Dirs \cup {None}
         /\ EntrySound(Kept(e, d), Written(e, d))
<1>0. e # None /\ Dirty(e, d) \in BOOLEAN
  BY NoneApart DEF Dirty, Entries
<1>1. Kept(e, d) \in Entries
  BY <1>0 DEF Kept, Entries
<1>2. /\ Kept(e, d).gid = e.gid /\ Kept(e, d).nick = e.nick /\ Kept(e, d).inlist = e.inlist
      /\ Kept(e, d).modified = (Dirty(e, d) /\ ~space)
  BY DEF Kept, Entries
<1>3. CASE Dirty(e, d) /\ space
  <2> DEFINE w == Written(e, d)
  <2>1. e.inlist \in BOOLEAN /\ (d # None => d.excluded \in BOOLEAN)
    BY DEF Entries, Dirs
  <2>2. (~e.inlist \/ (d # None /\ d.excluded)) = ~e.inlist
    BY <1>0, <2>1 DEF EntrySound
  <2>3. w = [saved |-> TRUE, gid |-> e.gid, nick |-> e.nick, excluded |-> ~e.inlist]
    BY <1>3, <2>2 DEF Written
  <2>4. w \in Dirs
    BY <2>1, <2>3 DEF Dirs, Entries
  <2>5. w # None
    BY <2>4, NoneApart
  <2>6. w.nick = e.nick /\ w.excluded = ~e.inlist
    BY <2>3
  <2> HIDE DEF w
  <2>7. EntrySound(Kept(e, d), w)
    BY <1>0, <1>1, <1>2, <2>1, <2>5, <2>6, NoneApart DEF EntrySound
  <2> QED  BY <1>1, <2>4, <2>7 DEF w
<1>4. CASE ~(Dirty(e, d) /\ space)
  <2>1. Written(e, d) = d
    BY <1>4 DEF Written
  <2>2. ~Kept(e, d).modified => ~e.modified
    BY <1>2, <1>4 DEF Dirty
  <2> QED  BY <1>0, <1>1, <1>2, <2>1, <2>2, NoneApart DEF EntrySound
<1> QED  BY <1>3, <1>4

(* Excluding or including a contact, in memory and on disk. *)
LEMMA ExcludedSound ==
  ASSUME NEW e \in Entries, NEW d \in Dirs \cup {None}, NEW in \in BOOLEAN, EntrySound(e, d)
  PROVE  /\ [e EXCEPT !.inlist = in] \in Entries /\ Excluded(d, ~in) \in Dirs \cup {None}
         /\ EntrySound([e EXCEPT !.inlist = in], Excluded(d, ~in))
<1>1. [e EXCEPT !.inlist = in] \in Entries
  BY DEF Entries
<1>2. CASE d = None
  BY <1>1, <1>2, NoneApart DEF EntrySound, Excluded, Entries
<1>3. CASE d # None
  <2>1. Excluded(d, ~in) = [d EXCEPT !.excluded = ~in] /\ d \in Dirs
    BY <1>3 DEF Excluded
  <2>2. Excluded(d, ~in) \in Dirs
    BY <2>1 DEF Dirs
  <2>3. Excluded(d, ~in).excluded = ~in /\ Excluded(d, ~in).nick = d.nick
    BY <2>1 DEF Dirs
  <2> QED  BY <1>1, <1>3, <2>2, <2>3, NoneApart DEF EntrySound, Entries
<1> QED  BY <1>2, <1>3

(* A change that sets the modified flag. *)
LEMMA ModifiedSound ==
  ASSUME NEW e \in Entries, NEW d, EntrySound(e, d),
         NEW g \in 0 .. MaxGroups, grouped => g \in Used(groups), NEW n \in Nicks
  PROVE  /\ [e EXCEPT !.gid = g, !.nick = n, !.modified = TRUE] \in Entries
         /\ EntrySound([e EXCEPT !.gid = g, !.nick = n, !.modified = TRUE], d)
  BY NoneApart DEF EntrySound, Entries

(* What addnew() has saved before it excludes or includes the contact.     *)
LEMMA FreshSound ==
  ASSUME TypeOK, GroupsSound, up, NEW c \in Contacts, NEW g \in Used(groups) \cup {0}
  PROVE  /\ Kept(Fresh(c, g), dir[c]) \in Entries
         /\ Written(Fresh(c, g), dir[c]) \in Dirs \cup {None}
         /\ EntrySound(Kept(Fresh(c, g), dir[c]), Written(Fresh(c, g), dir[c]))
<1> DEFINE e == Loaded(Stored(c), Used(groups))
<1>1. e \in Entries /\ EntrySound(e, dir[c]) /\ dir[c] \in Dirs \cup {None}
  BY LoadedSound DEF Stored, TypeOK
<1>2. Own \in Nicks /\ e.gid \in 0 .. MaxGroups /\ (grouped => e.gid \in Used(groups))
  BY <1>1, NoneApart, ContactListAssumption DEF ContactListAssumption, EntrySound, Entries
<1> DEFINE h == IF g = 0 THEN e.gid ELSE g
<1>3. h \in 0 .. MaxGroups /\ (grouped => h \in Used(groups))
  BY <1>2, SoundGroups
<1>4. Fresh(c, g) = [e EXCEPT !.gid = h, !.nick = Own, !.modified = TRUE]
  BY <1>1 DEF Fresh, Entries
<1> HIDE DEF e, h
<1>5. Fresh(c, g) \in Entries /\ EntrySound(Fresh(c, g), dir[c])
  BY <1>1, <1>2, <1>3, <1>4, NoneApart DEF EntrySound, Entries
<1> QED  BY <1>1, <1>5, SavedSound DEF TypeOK

-----------------------------------------------------------------------------
(* What a step leaves of the invariant, by what it changes.                *)

LEMMA OneContact ==
  ASSUME Sound, NEW c \in Contacts, NEW e \in Entries \cup {None},
         NEW d \in Dirs \cup {None}, EntrySound(e, d),
         modal' \in {modal, "none", c}, modal' = c => up /\ e # None,
         adding' = None \/ (UNCHANGED <<adding, clist>> /\ ~d.excluded),
         clist' = [clist EXCEPT ![c] = e], dir' = [dir EXCEPT ![c] = d],
         UNCHANGED <<up, grouped, space, groups, last, file>>
  PROVE  Sound'
<1>1. TypeOK'
  BY DEF Sound, TypeOK
<1>2. ASSUME NEW k \in Contacts PROVE EntrySound(clist[k], dir[k])'
  <2>1. EntrySound(clist[k], dir[k])
    BY DEF Sound, ContactsSound
  <2>2. CASE k = c
    <3>1. clist'[k] = e /\ dir'[k] = d
      BY <2>2 DEF Sound, TypeOK
    <3> QED  BY <3>1 DEF EntrySound
  <2>3. CASE k # c
    <3>1. clist'[k] = clist[k] /\ dir'[k] = dir[k]
      BY <2>3 DEF Sound, TypeOK
    <3> QED  BY <2>1, <3>1 DEF EntrySound
  <2> QED  BY <2>2, <2>3
<1>3. GroupsSound' /\ FileSound'
  BY DEF Sound, GroupsSound, FileSound
<1>4. EditSound'
  BY ModalAssumption DEF ModalAssumption, EditSound, Sound, TypeOK
<1>5. AddingSound'
  <2>1. CASE adding' = None
    BY <2>1 DEF AddingSound
  <2>2. CASE UNCHANGED <<adding, clist>> /\ ~d.excluded
    BY <2>2 DEF AddingSound, Additions, Sound, TypeOK
  <2> QED  BY <2>1, <2>2
<1> QED  BY <1>1, <1>2, <1>3, <1>4, <1>5 DEF Sound, ContactsSound

(* A step on groups may put contacts elsewhere, which then are modified.   *)
Regroups(e, f) ==
  /\ f \in Entries /\ f.nick = e.nick /\ f.inlist = e.inlist
  /\ e.modified => f.modified

LEMMA GroupsChanged ==
  ASSUME Sound, UNCHANGED <<up, space, dir>>, adding' = None, grouped' \in BOOLEAN,
         modal' \in {modal, "none", "groups", "touched"},
         file' \in [names : [Ids -> Titles], last : Ids], FileSound',
         groups' \in [Ids -> Titles], last' \in Ids, GroupsSound',
         clist' \in [Contacts -> Entries \cup {None}],
         \A c \in Contacts :
           \/ clist[c] = None /\ clist'[c] = None
           \/ /\ clist[c] # None /\ Regroups(clist[c], clist'[c])
              /\ grouped' => clist'[c].gid \in Used(groups')
  PROVE  Sound'
<1>1. TypeOK'
  BY DEF Sound, TypeOK
<1>2. ASSUME NEW c \in Contacts PROVE EntrySound(clist[c], dir[c])'
  <2>1. EntrySound(clist[c], dir[c])
    BY DEF Sound, ContactsSound
  <2>2. CASE clist'[c] = None
    BY <2>1, <2>2, NoneApart DEF EntrySound, Regroups
  <2>3. CASE clist'[c] # None
    <3>1. clist[c] # None /\ clist[c] \in Entries /\ clist'[c] \in Entries
      BY <2>3 DEF Sound, TypeOK
    <3>2. Regroups(clist[c], clist'[c]) /\ (grouped' => clist'[c].gid \in Used(groups'))
      BY <2>3
    <3> QED  BY <2>1, <3>1, <3>2, NoneApart DEF EntrySound, Regroups, Entries
  <2> QED  BY <2>2, <2>3
<1>3. EditSound'
  BY NoneApart, ModalAssumption
     DEF ModalAssumption, EditSound, Sound, TypeOK, Regroups
<1>4. AddingSound'
  BY DEF AddingSound
<1> QED  BY <1>1, <1>2, <1>3, <1>4 DEF Sound, ContactsSound

LEMMA SameFiles ==
  ASSUME Sound, UNCHANGED file
  PROVE  file' \in [names : [Ids -> Titles], last : Ids] /\ FileSound'
  BY DEF Sound, TypeOK, FileSound

LEMMA ContactFacts ==
  ASSUME Sound, NEW c \in Contacts
  PROVE  /\ clist[c] \in Entries \cup {None} /\ dir[c] \in Dirs \cup {None}
         /\ EntrySound(clist[c], dir[c]) /\ None \notin Entries
  BY NoneApart DEF Sound, TypeOK, ContactsSound

-----------------------------------------------------------------------------
(* The steps of a contact.                                                 *)

LEMMA addnewSound ==
  ASSUME Sound, NEW c \in Contacts, NEW in \in BOOLEAN, NEW g \in Used(groups) \cup {0},
         NEW n \in Names \cup {NoGroup}, addnew(c, in, g, n)
  PROVE  Sound'
<1> DEFINE e == Kept(Fresh(c, g), dir[c])
           d == Written(Fresh(c, g), dir[c])
           a == [who |-> c, in |-> in, title |-> n]
<1>1. e \in Entries /\ d \in Dirs \cup {None} /\ EntrySound(e, d)
  BY FreshSound DEF addnew, Ready, Sound
<1>2. /\ up /\ clist' = [clist EXCEPT ![c] = e] /\ dir' = [dir EXCEPT ![c] = d]
      /\ adding' = a /\ UNCHANGED <<up, grouped, space, modal, groups, last, file>>
  BY DEF addnew, Ready
<1>3. a \in Additions /\ a.who = c
  BY DEF Additions
<1> HIDE DEF e, d, a
<1>4. TypeOK'
  BY <1>1, <1>2, <1>3 DEF Sound, TypeOK
<1>5. ASSUME NEW k \in Contacts
      PROVE  EntrySound(clist[k], dir[k])' /\ (clist[k] # None => clist'[k] # None)
  <2>1. CASE k = c
    <3>1. clist'[k] = e /\ dir'[k] = d
      BY <2>1, <1>2 DEF Sound, TypeOK
    <3> QED  BY <1>1, <1>2, <3>1, NoneApart DEF EntrySound
  <2>2. CASE k # c
    <3>1. clist'[k] = clist[k] /\ dir'[k] = dir[k]
      BY <2>2, <1>2 DEF Sound, TypeOK
    <3> QED  BY <1>2, <3>1, ContactFacts DEF EntrySound
  <2> QED  BY <2>1, <2>2
<1>6. GroupsSound' /\ FileSound' /\ EditSound'
  BY <1>2, <1>5 DEF Sound, GroupsSound, FileSound, EditSound
<1>7. e # None /\ e.inlist /\ (d # None => ~d.excluded)
  <2>1. clist[c] = None /\ up /\ dir[c] \in Dirs \cup {None} /\ EntrySound(clist[c], dir[c])
    BY ContactFacts DEF addnew, Ready
  <2>2. Stored(c).excluded = FALSE
    BY <2>1 DEF Stored, Bare, EntrySound, Dirs
  <2>3. Fresh(c, g).inlist
    BY <2>2 DEF Fresh, Loaded
  <2>4. e.inlist
    BY <2>3 DEF e, Kept, Fresh, Loaded
  <2> QED  BY <1>1, <2>4, NoneApart DEF EntrySound
<1>8. AddingSound'
  BY <1>2, <1>3, <1>7 DEF AddingSound, Sound, TypeOK
<1> QED  BY <1>4, <1>5, <1>6, <1>8 DEF Sound, ContactsSound

LEMMA UserAddsSound ==
  ASSUME Sound, NEW c \in Contacts, UserAdds(c) PROVE Sound'
  BY addnewSound DEF UserAdds, Selectable

LEMMA StrangerWritesSound ==
  ASSUME Sound, NEW c \in Contacts, StrangerWrites(c) PROVE Sound'
  BY addnewSound DEF StrangerWrites

(* A contact without a group is possible only where groups are not used.   *)
LEMMA IncludeSound ==
  ASSUME Sound, NEW c \in Contacts, Include(c) PROVE Sound'
<1>1. PICK g \in Selectable :
        clist' = [clist EXCEPT ![c].gid = IF @ = 0 THEN 0 ELSE g, ![c].inlist = TRUE]
  BY DEF Include, Ready
<1> DEFINE h == IF clist[c].gid = 0 THEN 0 ELSE g
           i == [clist[c] EXCEPT !.inlist = TRUE]
           e == [i EXCEPT !.gid = h]
           d == Excluded(dir[c], ~TRUE)
<1>2. clist[c] \in Entries /\ EntrySound(clist[c], dir[c]) /\ dir[c] \in Dirs \cup {None}
  BY ContactFacts DEF Include, Ready
<1>3. /\ i \in Entries /\ d \in Dirs \cup {None} /\ EntrySound(i, d)
  BY <1>2, ExcludedSound
<1>4. g \in 0 .. MaxGroups /\ (grouped => g \in Used(groups))
  BY SoundGroups, ContactListAssumption
     DEF ContactListAssumption, Selectable, Sound, Include, Ready, Used, Ids
<1>5. grouped => clist[c].gid # 0
  BY <1>2, NoneApart DEF EntrySound, Used, Ids
<1>6. h \in 0 .. MaxGroups /\ (grouped => h \in Used(groups))
  BY <1>4, <1>5, ContactListAssumption DEF ContactListAssumption
<1>7. e \in Entries /\ EntrySound(e, d)
  <2> HIDE DEF h, i, d
  <2> QED  BY <1>3, <1>6, NoneApart DEF EntrySound, Entries
<1>8. clist' = [clist EXCEPT ![c] = e]
  BY <1>1, <1>2 DEF Sound, TypeOK, Entries
<1>9. dir' = [dir EXCEPT ![c] = d]
  BY DEF Include, Ready, Excluded
<1>10. /\ up /\ adding' = None /\ modal' \in {modal, "none", c}
       /\ UNCHANGED <<up, grouped, space, groups, last, file>>
  BY DEF Include, Ready, Sound, TypeOK
<1> HIDE DEF e, d
<1> QED  BY <1>3, <1>7, <1>8, <1>9, <1>10, NoneApart, OneContact

LEMMA RenameSound ==
  ASSUME Sound, NEW c \in Contacts, NEW n \in Nicks, Rename(c, n) PROVE Sound'
<1> DEFINE e == [clist[c] EXCEPT !.nick = n, !.modified = TRUE]
<1>1. clist[c] \in Entries /\ EntrySound(clist[c], dir[c]) /\ dir[c] \in Dirs \cup {None}
  BY ContactFacts DEF Rename, Ready
<1>2. e \in Entries /\ EntrySound(e, dir[c])
  BY <1>1, NoneApart DEF EntrySound, Entries
<1>3. clist' = [clist EXCEPT ![c] = e] /\ dir' = [dir EXCEPT ![c] = dir[c]]
  BY DEF Rename, Ready, Sound, TypeOK, disk
<1>4. /\ up /\ adding' = None /\ modal' \in {modal, "none", c}
      /\ UNCHANGED <<up, grouped, space, groups, last, file>>
  BY DEF Rename, Ready, Sound, TypeOK, disk
<1> HIDE DEF e
<1> QED  BY <1>1, <1>2, <1>3, <1>4, NoneApart, OneContact

LEMMA MoveToGroupSound ==
  ASSUME Sound, NEW c \in Contacts, MoveToGroup(c) PROVE Sound'
<1>1. PICK g \in Used(groups) :
        clist' = [clist EXCEPT ![c].gid = g, ![c].modified = TRUE]
  BY DEF MoveToGroup, Ready
<1> DEFINE e == [clist[c] EXCEPT !.gid = g, !.modified = TRUE]
<1>2. clist[c] \in Entries /\ EntrySound(clist[c], dir[c]) /\ dir[c] \in Dirs \cup {None}
  BY ContactFacts DEF MoveToGroup, Ready
<1>3. g \in 0 .. MaxGroups
  BY SoundGroups DEF Sound, MoveToGroup, Ready
<1>4. e \in Entries /\ EntrySound(e, dir[c])
  BY <1>2, <1>3, NoneApart DEF EntrySound, Entries
<1>5. clist' = [clist EXCEPT ![c] = e] /\ dir' = [dir EXCEPT ![c] = dir[c]]
  BY <1>1 DEF MoveToGroup, Ready, Sound, TypeOK, disk
<1>6. /\ up /\ adding' = None /\ modal' \in {modal, "none", c}
      /\ UNCHANGED <<up, grouped, space, groups, last, file>>
  BY DEF MoveToGroup, Ready, Sound, TypeOK, disk
<1> HIDE DEF e
<1> QED  BY <1>2, <1>4, <1>5, <1>6, NoneApart, OneContact

LEMMA RemoveSound ==
  ASSUME Sound, NEW c \in Contacts, Remove(c) PROVE Sound'
<1>1. EntrySound(None, None)
  BY DEF EntrySound
<1>2. /\ up /\ adding' = None /\ modal' \in {modal, "none", c}
      /\ UNCHANGED <<up, grouped, space, groups, last, file>>
  BY DEF Remove, Ready, Sound, TypeOK
<1> QED  BY <1>1, <1>2, NoneApart, OneContact DEF Remove, Ready

LEMMA EditBeginSound ==
  ASSUME Sound, NEW c \in Contacts, EditBegin(c) PROVE Sound'
<1> DEFINE e == Kept(clist[c], dir[c])
           d == Written(clist[c], dir[c])
<1>1. e \in Entries /\ d \in Dirs \cup {None} /\ EntrySound(e, d)
  BY ContactFacts, SavedSound DEF EditBegin, Ready, Sound, TypeOK
<1>2. clist' = [clist EXCEPT ![c] = e] /\ dir' = [dir EXCEPT ![c] = d]
  BY DEF EditBegin, Ready
<1>3. /\ up /\ adding' = None /\ modal' \in {modal, "none", c}
      /\ UNCHANGED <<up, grouped, space, groups, last, file>>
  BY DEF EditBegin, Ready
<1> HIDE DEF e, d
<1> QED  BY <1>1, <1>2, <1>3, NoneApart, OneContact

LEMMA EditEndSound ==
  ASSUME Sound, NEW c \in Contacts, EditEnd(c) PROVE Sound'
<1>1. /\ up /\ adding' = None /\ modal' \in {modal, "none", c}
      /\ UNCHANGED <<up, grouped, space, groups, last, file>>
  BY DEF EditEnd, Ready
<1>2. dir[c] \in Dirs \cup {None}
  BY ContactFacts
<1>3. CASE /\ clist' = [clist EXCEPT ![c] = Loaded(Stored(c), Used(groups))]
           /\ UNCHANGED dir
  <2> DEFINE e == Loaded(Stored(c), Used(groups))
  <2>1. e \in Entries /\ EntrySound(e, dir[c])
    BY <1>1, <1>2, LoadedSound DEF Stored, Sound
  <2>2. dir' = [dir EXCEPT ![c] = dir[c]]
    BY <1>3 DEF Sound, TypeOK
  <2>3. clist' = [clist EXCEPT ![c] = e]
    BY <1>3
  <2> HIDE DEF e
  <2> QED  BY <1>1, <1>2, <2>1, <2>2, <2>3, NoneApart, OneContact
<1>4. clist[c] # None
  BY DEF EditEnd, Ready, Sound, EditSound
<1>5. CASE \E n \in Nicks :
             LET e == [clist[c] EXCEPT !.nick = n, !.modified = TRUE] IN
             /\ clist' = [clist EXCEPT ![c] = Kept(e, dir[c])]
             /\ dir' = [dir EXCEPT ![c] = Written(e, @)]
  <2>1. PICK n \in Nicks :
          LET e == [clist[c] EXCEPT !.nick = n, !.modified = TRUE] IN
          /\ clist' = [clist EXCEPT ![c] = Kept(e, dir[c])]
          /\ dir' = [dir EXCEPT ![c] = Written(e, dir[c])]
    BY <1>5
  <2> DEFINE e == [clist[c] EXCEPT !.nick = n, !.modified = TRUE]
  <2>2. clist[c] \in Entries /\ EntrySound(clist[c], dir[c])
    BY <1>4, ContactFacts
  <2>3. e \in Entries /\ EntrySound(e, dir[c])
    BY <2>2, NoneApart DEF EntrySound, Entries
  <2>4. /\ clist' = [clist EXCEPT ![c] = Kept(e, dir[c])]
        /\ dir' = [dir EXCEPT ![c] = Written(e, dir[c])]
    BY <2>1
  <2> HIDE DEF e
  <2>5. /\ Kept(e, dir[c]) \in Entries /\ Written(e, dir[c]) \in Dirs \cup {None}
        /\ EntrySound(Kept(e, dir[c]), Written(e, dir[c]))
    BY <1>2, <2>3, SavedSound DEF Sound, TypeOK
  <2> QED  BY <1>1, <2>4, <2>5, NoneApart, OneContact
<1> QED  BY <1>3, <1>5 DEF EditEnd, Ready

LEMMA SenderMakesDirSound ==
  ASSUME Sound, NEW c \in Contacts, SenderMakesDir(c) PROVE Sound'
<1>1. Bare \in Dirs
  BY StoredType, ContactFacts
<1>2. EntrySound(clist[c], Bare)
  BY ContactFacts DEF SenderMakesDir, EntrySound, Bare
<1>3. clist' = [clist EXCEPT ![c] = clist[c]] /\ dir' = [dir EXCEPT ![c] = Bare]
  BY DEF SenderMakesDir, memory, Sound, TypeOK
<1>4. /\ UNCHANGED <<adding, clist>> /\ ~Bare.excluded
      /\ modal' \in {modal, "none", c}
      /\ UNCHANGED <<up, grouped, space, groups, last, file>>
      /\ modal' = c => up /\ clist[c] # None
  BY DEF SenderMakesDir, memory, Sound, EditSound, Bare
<1> QED  BY <1>1, <1>2, <1>3, <1>4, ContactFacts, OneContact, NoneApart

-----------------------------------------------------------------------------
(* The steps of the groups.                                                *)

LEMMA GroupFacts ==
  ASSUME Sound, up
  PROVE  /\ 1 \in Used(groups) /\ last \in Used(groups) /\ Used(groups) \subseteq Ids
         /\ Largest(Used(groups)) \in Used(groups)
<1>1. 1 \in Used(groups) /\ last \in Used(groups) /\ Used(groups) \subseteq Ids
  BY NoneApart DEF Sound, TypeOK, GroupsSound, Used
<1> QED  BY <1>1, LargestFacts

LEMMA SameRegroups ==
  ASSUME Sound, NEW c \in Contacts, clist[c] # None
  PROVE  Regroups(clist[c], clist[c])
  BY ContactFacts DEF Regroups

LEMMA ContactsKept ==
  ASSUME Sound, UNCHANGED <<up, grouped, space, dir, clist>>, adding' = None, up,
         modal' \in {modal, "none", "groups", "touched"},
         file' \in [names : [Ids -> Titles], last : Ids], FileSound',
         groups' \in [Ids -> Titles], Used(groups) \subseteq Used(groups'),
         last' \in Used(groups')
  PROVE  Sound'
<1>1. \A c \in Contacts :
        \/ clist[c] = None /\ clist'[c] = None
        \/ /\ clist[c] # None /\ Regroups(clist[c], clist'[c])
           /\ grouped' => clist'[c].gid \in Used(groups')
  BY SameRegroups, ContactFacts DEF EntrySound
<1>2. GroupsSound' /\ last' \in Ids
  BY GroupFacts DEF GroupsSound, Used
<1>3. clist' \in [Contacts -> Entries \cup {None}] /\ grouped' \in BOOLEAN
  BY DEF Sound, TypeOK
<1> QED  BY <1>1, <1>2, <1>3, GroupsChanged

LEMMA GroupsOpenSound ==
  ASSUME Sound, GroupsOpen PROVE Sound'
<1>1. /\ adding' = None
      /\ UNCHANGED <<up, grouped, space, adding, groups, clist, file, dir>>
      /\ up /\ modal' = "groups" /\ last' = Largest(Used(groups))
  BY DEF GroupsOpen, Ready, disk
<1>2. /\ groups' \in [Ids -> Titles] /\ Used(groups) \subseteq Used(groups')
      /\ last' \in Used(groups')
  BY <1>1, GroupFacts DEF Sound, TypeOK
<1> QED  BY <1>1, <1>2, SameFiles, ContactsKept

LEMMA GroupsCloseSound ==
  ASSUME Sound, GroupsClose PROVE Sound'
<1>1. /\ adding' = None
      /\ UNCHANGED <<up, grouped, space, adding, groups, last, clist, dir>>
      /\ up /\ modal' = "none"
      /\ file' = IF modal = "touched" /\ space
                 THEN [names |-> groups, last |-> last] ELSE file
  BY DEF GroupsClose, InDialog, Ready, memory
<1>2. /\ groups' \in [Ids -> Titles] /\ Used(groups) \subseteq Used(groups')
      /\ last' \in Used(groups')
  BY <1>1, GroupFacts DEF Sound, TypeOK
<1>3. file' \in [names : [Ids -> Titles], last : Ids] /\ FileSound'
  BY <1>1, SameFiles DEF Sound, TypeOK, GroupsSound, FileSound
<1> QED  BY <1>1, <1>2, <1>3, ContactsKept

(* What all changes made in the dialog have in common. *)
LEMMA EditedSound ==
  ASSUME Sound, Ready, NEW gs \in [Ids -> Titles], 1 \in Used(gs),
         NEW cl \in [Contacts -> Entries \cup {None}], Edited(gs, cl),
         \A c \in Contacts :
           \/ clist[c] = None /\ cl[c] = None
           \/ /\ clist[c] # None /\ Regroups(clist[c], cl[c])
              /\ grouped => cl[c].gid \in Used(gs)
  PROVE  Sound'
<1>1. /\ up /\ adding' = None /\ groups' = gs /\ clist' = cl /\ last' = Largest(Used(gs)) /\ modal' = "touched"
      /\ UNCHANGED <<up, grouped, space, adding, file, dir>>
  BY DEF Edited, Ready, disk
<1>2. Largest(Used(gs)) \in Used(gs)
  BY LargestFacts DEF Used
<1>3. last' \in Ids /\ GroupsSound' /\ grouped' \in BOOLEAN
  BY <1>1, <1>2 DEF Used, GroupsSound, Sound, TypeOK
<1> QED  BY <1>1, <1>3, SameFiles, GroupsChanged

LEMMA GroupAddSound ==
  ASSUME Sound, NEW n \in Names, GroupAdd(n) PROVE Sound'
<1> DEFINE gs == [groups EXCEPT ![FreeId(groups)] = n]
<1>1. Ready /\ up /\ Used(groups) # Ids /\ Edited(gs, clist)
  BY DEF GroupAdd, InDialog, Ready
<1>2. FreeId(groups) \in Ids \ Used(groups)
  BY <1>1, FreeIdFacts
<1>3. groups \in [Ids -> Titles] /\ n \in Titles /\ n # NoGroup
  BY ContactListAssumption DEF ContactListAssumption, Sound, TypeOK, Titles
<1>4. gs \in [Ids -> Titles] /\ Used(groups) \subseteq Used(gs)
  BY <1>2, <1>3 DEF Used
<1>5. \A c \in Contacts :
        \/ clist[c] = None
        \/ /\ clist[c] # None /\ Regroups(clist[c], clist[c])
           /\ grouped => clist[c].gid \in Used(gs)
  BY <1>4, SameRegroups, ContactFacts DEF EntrySound
<1>6. clist \in [Contacts -> Entries \cup {None}] /\ 1 \in Used(gs)
  BY <1>1, <1>4, GroupFacts DEF Sound, TypeOK
<1> HIDE DEF gs
<1> QED  BY <1>1, <1>4, <1>5, <1>6, EditedSound

LEMMA GroupRenameSound ==
  ASSUME Sound, NEW i \in Ids, NEW n \in Names, GroupRename(i, n) PROVE Sound'
<1> DEFINE gs == [groups EXCEPT ![i] = n]
<1>1. Ready /\ up /\ Edited(gs, clist)
  BY DEF GroupRename, InDialog, Ready
<1>2. groups \in [Ids -> Titles] /\ n \in Titles /\ n # NoGroup
  BY ContactListAssumption DEF ContactListAssumption, Sound, TypeOK, Titles
<1>3. gs \in [Ids -> Titles] /\ Used(groups) \subseteq Used(gs)
  BY <1>2 DEF Used
<1>4. \A c \in Contacts :
        \/ clist[c] = None
        \/ /\ clist[c] # None /\ Regroups(clist[c], clist[c])
           /\ grouped => clist[c].gid \in Used(gs)
  BY <1>3, SameRegroups, ContactFacts DEF EntrySound
<1>5. clist \in [Contacts -> Entries \cup {None}] /\ 1 \in Used(gs)
  BY <1>1, <1>3, GroupFacts DEF Sound, TypeOK
<1> HIDE DEF gs
<1> QED  BY <1>1, <1>3, <1>4, <1>5, EditedSound

(* Rearranging puts everybody into a group that exists. *)
LEMMA RearrangeFacts ==
  ASSUME Sound, NEW g \in [Ids -> Titles], 1 \in Used(g)
  PROVE  /\ Rearrange(clist, g) \in [Contacts -> Entries \cup {None}]
         /\ \A c \in Contacts :
              \/ clist[c] = None /\ Rearrange(clist, g)[c] = None
              \/ /\ clist[c] # None /\ Regroups(clist[c], Rearrange(clist, g)[c])
                 /\ Rearrange(clist, g)[c].gid \in Used(g)
<1> SUFFICES ASSUME NEW c \in Contacts
             PROVE  LET f == Rearrange(clist, g)[c] IN
                    /\ f \in Entries \cup {None}
                    /\ \/ clist[c] = None /\ f = None
                       \/ /\ clist[c] # None /\ Regroups(clist[c], f)
                          /\ f.gid \in Used(g)
  BY DEF Rearrange
<1>1. CASE clist[c] = None
  BY <1>1 DEF Rearrange
<1>2. CASE clist[c] # None /\ clist[c].gid \in Used(g)
  <2>1. Rearrange(clist, g)[c] = clist[c]
    BY <1>2 DEF Rearrange
  <2> QED  BY <1>2, <2>1, ContactFacts, SameRegroups
<1>3. CASE clist[c] # None /\ clist[c].gid \notin Used(g)
  <2> DEFINE f == [clist[c] EXCEPT !.gid = 1, !.modified = TRUE]
  <2>1. Rearrange(clist, g)[c] = f
    BY <1>3 DEF Rearrange
  <2>2. clist[c] \in Entries
    BY <1>3, ContactFacts
  <2>3. 1 \in 0 .. MaxGroups
    BY ContactListAssumption DEF ContactListAssumption
  <2>4. f \in Entries /\ Regroups(clist[c], f) /\ f.gid = 1
    BY <2>2, <2>3 DEF Regroups, Entries
  <2> QED  BY <1>3, <2>1, <2>4
<1> QED  BY <1>1, <1>2, <1>3

LEMMA GroupRemoveSound ==
  ASSUME Sound, NEW i \in Ids, GroupRemove(i) PROVE Sound'
<1> DEFINE gs == [groups EXCEPT ![i] = NoGroup]
           cl == Rearrange(clist, gs)
<1>1. Ready /\ up /\ i # 1 /\ Edited(gs, cl)
  BY DEF GroupRemove, InDialog, Ready
<1>2. groups \in [Ids -> Titles] /\ NoGroup \in Titles
  BY DEF Sound, TypeOK, Titles
<1>3. gs \in [Ids -> Titles] /\ 1 \in Used(gs)
  BY <1>1, <1>2, GroupFacts DEF Used
<1> HIDE DEF gs
<1>4. /\ cl \in [Contacts -> Entries \cup {None}]
      /\ \A c \in Contacts :
           \/ clist[c] = None /\ cl[c] = None
           \/ /\ clist[c] # None /\ Regroups(clist[c], cl[c])
              /\ cl[c].gid \in Used(gs)
  BY <1>3, RearrangeFacts
<1> HIDE DEF cl
<1> QED  BY <1>1, <1>3, <1>4, EditedSound

LEMMA SetGroupModeSound ==
  ASSUME Sound, SetGroupMode PROVE Sound'
<1>1. /\ adding' = None /\ up /\ grouped' = ~grouped /\ clist' = Rearrange(clist, groups)
      /\ UNCHANGED <<up, space, modal, adding, groups, last, file, dir>>
  BY DEF SetGroupMode, Ready, disk
<1>2. /\ groups' \in [Ids -> Titles] /\ last' \in Ids /\ GroupsSound'
      /\ grouped' \in BOOLEAN /\ modal' = modal
  BY <1>1 DEF Sound, TypeOK, GroupsSound
<1>3. groups \in [Ids -> Titles] /\ 1 \in Used(groups)
  BY <1>1, GroupFacts DEF Sound, TypeOK
<1>4. /\ clist' \in [Contacts -> Entries \cup {None}]
      /\ \A c \in Contacts :
           \/ clist[c] = None /\ clist'[c] = None
           \/ /\ clist[c] # None /\ Regroups(clist[c], clist'[c])
              /\ grouped' => clist'[c].gid \in Used(groups')
  BY <1>1, <1>3, RearrangeFacts
<1> QED  BY <1>1, <1>2, <1>4, SameFiles, GroupsChanged

(* Two groups that swap their identifiers, with their contacts.            *)
LEMMA SwapFacts ==
  ASSUME Sound, NEW i \in Used(groups), NEW j \in Used(groups)
  PROVE  LET gs == [groups EXCEPT ![i] = groups[j], ![j] = groups[i]]
         IN  /\ gs \in [Ids -> Titles] /\ gs[i] = groups[j] /\ gs[j] = groups[i]
             /\ \A k \in Ids \ {i, j} : gs[k] = groups[k]
             /\ Used(gs) = Used(groups)
<1> DEFINE gs == [groups EXCEPT ![i] = groups[j], ![j] = groups[i]]
<1>1. groups \in [Ids -> Titles] /\ i \in Ids /\ j \in Ids
  BY DEF Sound, TypeOK, Used
<1>2. /\ gs \in [Ids -> Titles] /\ gs[i] = groups[j] /\ gs[j] = groups[i]
      /\ \A k \in Ids \ {i, j} : gs[k] = groups[k]
  BY <1>1
<1> HIDE DEF gs
<1>3. Used(gs) = Used(groups)
  BY <1>1, <1>2 DEF Used
<1> QED  BY <1>2, <1>3 DEF gs

LEMMA FollowFacts ==
  ASSUME Sound, NEW i \in Ids, NEW j \in Ids, NEW c \in Contacts, clist[c] # None
  PROVE  /\ Follow(i, j)[c] \in Entries /\ Regroups(clist[c], Follow(i, j)[c])
         /\ clist[c].gid = i => Follow(i, j)[c].gid = j
         /\ clist[c].gid = j => Follow(i, j)[c].gid = i
         /\ clist[c].gid \notin {i, j} => Follow(i, j)[c].gid = clist[c].gid
<1>1. clist[c] \in Entries
  BY ContactFacts
<1>2. CASE clist[c].gid \notin {i, j}
  <2>1. Follow(i, j)[c] = clist[c]
    BY <1>2 DEF Follow
  <2> QED  BY <1>1, <1>2, <2>1, SameRegroups
<1>3. CASE clist[c].gid \in {i, j}
  <2> DEFINE h == IF clist[c].gid = i THEN j ELSE i
             f == [clist[c] EXCEPT !.gid = h, !.modified = TRUE]
  <2>1. Follow(i, j)[c] = f
    BY <1>1, <1>3 DEF Follow, Entries
  <2>2. h \in 0 .. MaxGroups /\ (clist[c].gid = i => h = j) /\ (clist[c].gid = j => h = i)
    BY ContactListAssumption DEF ContactListAssumption, Ids
  <2> HIDE DEF h
  <2>3. f \in Entries /\ Regroups(clist[c], f) /\ f.gid = h
    BY <1>1, <2>2 DEF Entries, Regroups
  <2> QED  BY <1>3, <2>1, <2>2, <2>3
<1> QED  BY <1>2, <1>3

LEMMA ExchangeSound ==
  ASSUME Sound, Ready, up, NEW i \in Used(groups), NEW j \in Used(groups), Exchange(i, j)
  PROVE  Sound'
<1> DEFINE gs == [groups EXCEPT ![i] = groups[j], ![j] = groups[i]]
           cl == Follow(i, j)
<1>1. gs \in [Ids -> Titles] /\ Used(gs) = Used(groups) /\ 1 \in Used(gs)
  BY SwapFacts, GroupFacts
<1>2. i \in Ids /\ j \in Ids
  BY DEF Used
<1>3. \A c \in Contacts : clist[c] = None => cl[c] = None
  BY DEF Follow
<1>4. \A c \in Contacts : clist[c] # None =>
         /\ cl[c] \in Entries /\ Regroups(clist[c], cl[c])
         /\ cl[c].gid \in {i, j, clist[c].gid}
  BY <1>2, FollowFacts
<1>5. \A c \in Contacts :
        \/ clist[c] = None /\ cl[c] = None
        \/ /\ clist[c] # None /\ Regroups(clist[c], cl[c])
           /\ grouped => cl[c].gid \in Used(gs)
  BY <1>1, <1>3, <1>4, ContactFacts DEF EntrySound
<1>6. cl \in [Contacts -> Entries \cup {None}]
  <2>1. \A c \in Contacts : cl[c] \in Entries \cup {None}
    BY <1>3, <1>4
  <2> QED  BY <2>1 DEF Follow
<1>7. Edited(gs, cl)
  BY DEF Exchange
<1> HIDE DEF gs, cl
<1> QED  BY <1>1, <1>5, <1>6, <1>7, EditedSound

LEMMA GroupMoveSound ==
  ASSUME Sound, NEW i \in Ids, GroupMove(i) PROVE Sound'
<1>1. Ready /\ up /\ i \in Used(groups)
  BY DEF GroupMove, InDialog, Ready
<1>2. CASE Above(i) # {} /\ Exchange(i, Largest(Above(i)))
  <2>1. Largest(Above(i)) \in Used(groups)
    BY <1>2, LargestFacts DEF Above, Used
  <2> QED  BY <1>1, <1>2, <2>1, ExchangeSound
<1>3. CASE Edited(groups, clist)
  <2>1. /\ groups \in [Ids -> Titles] /\ 1 \in Used(groups)
        /\ clist \in [Contacts -> Entries \cup {None}]
    BY <1>1, GroupFacts DEF Sound, TypeOK
  <2>2. \A c \in Contacts :
          \/ clist[c] = None
          \/ /\ clist[c] # None /\ Regroups(clist[c], clist[c])
             /\ grouped => clist[c].gid \in Used(groups)
    BY SameRegroups, ContactFacts DEF EntrySound
  <2> QED  BY <1>1, <1>3, <2>1, <2>2, EditedSound
<1>4. CASE \E j \in Below(i) : Exchange(i, j)
  BY <1>1, <1>4, ExchangeSound DEF Below
<1> QED  BY <1>2, <1>3, <1>4 DEF GroupMove

(* A server's word on the group of a contact, who may be new, as the group *)
(* may be.                                                                 *)
LEMMA UpdatedSound ==
  ASSUME Sound, up, NEW c \in Contacts, NEW e \in Entries, NEW d \in Dirs \cup {None},
         EntrySound(e, d), NEW gs \in [Ids -> Titles], Used(groups) \subseteq Used(gs),
         NEW l \in Used(gs), NEW g \in Ids, grouped => g \in Used(gs),
         groups' = gs, last' = l, dir' = [dir EXCEPT ![c] = d],
         clist' = [clist EXCEPT ![c] = [e EXCEPT !.gid = g, !.modified = TRUE]],
         adding' = None,
         UNCHANGED <<up, grouped, space, modal, file>>
  PROVE  Sound'
<1> DEFINE f == [e EXCEPT !.gid = g, !.modified = TRUE]
<1>1. /\ f \in Entries /\ f # None /\ (grouped => f.gid \in Used(gs))
      /\ f.inlist = e.inlist /\ f.modified
  <2>1. g \in 0 .. MaxGroups
    BY ContactListAssumption DEF ContactListAssumption, Ids
  <2> QED  BY <2>1, NoneApart DEF Entries
<1>2. clist' = [clist EXCEPT ![c] = f]
  OBVIOUS
<1> HIDE DEF f
<1>3. TypeOK'
  BY <1>1, <1>2 DEF Sound, TypeOK, Used
<1>4. ASSUME NEW k \in Contacts PROVE EntrySound(clist[k], dir[k])'
  <2>1. CASE k = c
    <3>1. clist'[k] = f /\ dir'[k] = d
      BY <2>1, <1>2 DEF Sound, TypeOK
    <3> QED  BY <1>1, <3>1, NoneApart DEF EntrySound
  <2>2. CASE k # c
    <3>1. clist'[k] = clist[k] /\ dir'[k] = dir[k]
      BY <2>2, <1>2 DEF Sound, TypeOK
    <3> QED  BY <3>1, ContactFacts DEF EntrySound
  <2> QED  BY <2>1, <2>2
<1>5. GroupsSound' /\ FileSound'
  BY GroupFacts DEF Sound, GroupsSound, FileSound, Used
<1>6. EditSound'
  BY <1>1, <1>2 DEF Sound, EditSound, TypeOK
<1>7. AddingSound'
  BY <1>1, <1>2 DEF Sound, AddingSound, Additions, TypeOK
<1> QED  BY <1>3, <1>4, <1>5, <1>6, <1>7 DEF Sound, ContactsSound

LEMMA PlacedSound ==
  ASSUME Sound, up, NEW c \in Contacts, NEW e \in Entries, NEW d \in Dirs \cup {None},
         EntrySound(e, d), NEW n \in Names, Placed(c, e, n),
         dir' = [dir EXCEPT ![c] = d], adding' = None,
         UNCHANGED <<up, grouped, space, modal, file>>
  PROVE  Sound'
<1> DEFINE put(g) == clist' = [clist EXCEPT ![c] = [e EXCEPT !.gid = g, !.modified = TRUE]]
<1>4. /\ groups \in [Ids -> Titles] /\ 1 \in Used(groups) /\ last \in Used(groups)
      /\ Used(groups) \subseteq Ids
  BY GroupFacts DEF Sound, TypeOK
<1>5. CASE ~grouped /\ put(1) /\ UNCHANGED <<groups, last>>
  <2>1. 1 \in Ids
    BY NoneApart
  <2> QED  BY <1>4, <1>5, <2>1, UpdatedSound
<1>6. CASE /\ grouped /\ \E i \in Called(n) : put(i)
           /\ UNCHANGED <<groups, last>>
  <2>1. PICK i \in Used(groups) : put(i)
    BY <1>6 DEF Called
  <2> QED  BY <1>4, <1>6, <2>1, UpdatedSound
<1>7. CASE /\ grouped /\ Used(groups) # Ids
           /\ groups' = [groups EXCEPT ![FreeId(groups)] = n]
           /\ last' = FreeId(groups) /\ put(FreeId(groups))
  <2> DEFINE k == FreeId(groups)
             gs == [groups EXCEPT ![k] = n]
  <2>1. k \in Ids \ Used(groups)
    BY <1>7, FreeIdFacts
  <2>2. n \in Titles /\ n # NoGroup
    BY ContactListAssumption DEF ContactListAssumption, Titles
  <2>3. groups' = gs /\ last' = k /\ put(k)
    BY <1>7
  <2> HIDE DEF k
  <2>4. gs \in [Ids -> Titles] /\ Used(groups) \subseteq Used(gs) /\ k \in Used(gs)
    BY <1>4, <2>1, <2>2 DEF Used
  <2> HIDE DEF gs
  <2> QED  BY <2>1, <2>3, <2>4, UpdatedSound
<1> QED  BY <1>5, <1>6, <1>7 DEF Placed

LEMMA UpdateEntrySound ==
  ASSUME Sound, NEW c \in Contacts, NEW n \in Names, UpdateEntry(c, n) PROVE Sound'
<1>1. CASE addnew(c, TRUE, 0, n)
  BY <1>1, addnewSound
<1>2. CASE /\ Ready /\ clist[c] # None /\ Placed(c, clist[c], n)
           /\ UNCHANGED <<up, grouped, space, modal, adding, disk>>
  <2>1. up /\ adding' = None /\ UNCHANGED <<up, grouped, space, modal, adding, file, dir>>
    BY <1>2 DEF Ready, disk
  <2>2. dir' = [dir EXCEPT ![c] = dir[c]]
    BY <2>1 DEF Sound, TypeOK
  <2>3. /\ clist[c] \in Entries /\ dir[c] \in Dirs \cup {None}
        /\ EntrySound(clist[c], dir[c])
    BY <1>2, ContactFacts
  <2> QED  BY <1>2, <2>1, <2>2, <2>3, PlacedSound
<1> QED  BY <1>1, <1>2 DEF UpdateEntry

(* The second half of addnew(). *)
LEMMA AddedSound ==
  ASSUME Sound, NEW c \in Contacts, Added(c) PROVE Sound'
<1> DEFINE e == [clist[c] EXCEPT !.inlist = adding.in]
           d == Excluded(dir[c], ~adding.in)
<1>1. /\ up /\ adding \in Additions /\ adding.who = c /\ adding' = None
      /\ dir' = [dir EXCEPT ![c] = d] /\ UNCHANGED <<up, grouped, space, modal, file>>
  BY DEF Added, Sound, TypeOK
<1>2. clist[c] # None /\ adding.in \in BOOLEAN /\ adding.title \in Names \cup {NoGroup}
  BY <1>1, NoneApart DEF Sound, AddingSound, Additions
<1>3. e \in Entries /\ d \in Dirs \cup {None} /\ EntrySound(e, d)
  BY <1>2, ContactFacts, ExcludedSound
<1>4. e # None
  BY <1>3, NoneApart
<1> HIDE DEF d
<1>5. CASE clist' = [clist EXCEPT ![c] = e] /\ UNCHANGED <<groups, last>>
  <2> HIDE DEF e
  <2> QED  BY <1>1, <1>3, <1>4, <1>5, OneContact
<1>6. CASE adding.title # NoGroup /\ Placed(c, e, adding.title)
  <2> HIDE DEF e
  <2> QED  BY <1>1, <1>2, <1>3, <1>6, PlacedSound
<1> QED  BY <1>5, <1>6 DEF Added


-----------------------------------------------------------------------------
(* The life of the program.                                                *)

LEMMA AutosaveSound ==
  ASSUME Sound, Autosave PROVE Sound'
<1>1. /\ adding' = None /\ up /\ clist' = SavedList /\ dir' = SavedDirs
      /\ UNCHANGED <<up, grouped, space, modal, adding, groups, last, file>>
  BY DEF Autosave, Ready
<1>2. ASSUME NEW c \in Contacts
      PROVE  /\ clist'[c] \in Entries \cup {None} /\ dir'[c] \in Dirs \cup {None}
             /\ EntrySound(clist[c], dir[c])' /\ (clist[c] # None => clist'[c] # None)
  <2>1. CASE clist[c] # None /\ clist[c].inlist
    <3>1. clist'[c] = Kept(clist[c], dir[c]) /\ dir'[c] = Written(clist[c], dir[c])
      BY <1>1, <2>1 DEF SavedList, SavedDirs
    <3>2. /\ clist'[c] \in Entries /\ dir'[c] \in Dirs \cup {None}
          /\ EntrySound(clist'[c], dir'[c])
      BY <2>1, <3>1, ContactFacts, SavedSound DEF Sound, TypeOK
    <3> QED  BY <1>1, <3>2, NoneApart DEF EntrySound
  <2>2. CASE ~(clist[c] # None /\ clist[c].inlist)
    <3>1. clist'[c] = clist[c] /\ dir'[c] = dir[c]
      BY <1>1, <2>2 DEF SavedList, SavedDirs
    <3> QED  BY <1>1, <3>1, ContactFacts DEF EntrySound
  <2> QED  BY <2>1, <2>2
<1>3. clist' \in [Contacts -> Entries \cup {None}] /\ dir' \in [Contacts -> Dirs \cup {None}]
  BY <1>1, <1>2 DEF SavedList, SavedDirs
<1>4. TypeOK' /\ GroupsSound' /\ FileSound' /\ EditSound' /\ AddingSound'
  BY <1>1, <1>2, <1>3 DEF Sound, TypeOK, GroupsSound, FileSound, EditSound, AddingSound
<1> QED  BY <1>2, <1>4 DEF Sound, ContactsSound

(* A program that does not run has no contacts in memory.                  *)
LEMMA DownSound ==
  ASSUME Sound, Down, UNCHANGED <<grouped, space>>,
         dir' \in [Contacts -> Dirs \cup {None}],
         file' \in [names : [Ids -> Titles], last : Ids], FileSound'
  PROVE  Sound'
<1>1. /\ up' = FALSE /\ modal' = "none" /\ adding' = None /\ last' = 1
      /\ groups' = [i \in Ids |-> NoGroup] /\ clist' = [c \in Contacts |-> None]
  BY DEF Down
<1>2. TypeOK'
  BY <1>1, NoneApart DEF Sound, TypeOK, Titles
<1>3. ContactsSound'
  BY <1>1 DEF ContactsSound, EntrySound
<1>4. GroupsSound' /\ EditSound' /\ AddingSound'
  BY <1>1, ModalAssumption DEF ModalAssumption, GroupsSound, EditSound, AddingSound
<1> QED  BY <1>2, <1>3, <1>4 DEF Sound

LEMMA QuitSound ==
  ASSUME Sound, Quit PROVE Sound'
<1>1. /\ up /\ Down /\ UNCHANGED <<grouped, space>>
      /\ file' = IF space THEN [names |-> groups, last |-> last] ELSE file
  BY DEF Quit, Ready
<1>2. file' \in [names : [Ids -> Titles], last : Ids] /\ FileSound'
  BY <1>1, SameFiles DEF Sound, TypeOK, GroupsSound, FileSound
<1>3. \A c \in Contacts : SavedDirs[c] \in Dirs \cup {None}
  <2> SUFFICES ASSUME NEW c \in Contacts PROVE SavedDirs[c] \in Dirs \cup {None}
    OBVIOUS
  <2>1. CASE clist[c] # None /\ clist[c].inlist
    <3>1. SavedDirs[c] = Written(clist[c], dir[c])
      BY <2>1 DEF SavedDirs
    <3> QED  BY <2>1, <3>1, ContactFacts, SavedSound DEF Sound, TypeOK
  <2>2. CASE ~(clist[c] # None /\ clist[c].inlist)
    BY <2>2, ContactFacts DEF SavedDirs
  <2> QED  BY <2>1, <2>2
<1>4. PICK nil \in SUBSET {c \in Listed : ~clist[c].inlist} :
        dir' = [c \in Contacts |-> IF c \in nil THEN None ELSE SavedDirs[c]]
  BY DEF Quit
<1>5. dir' \in [Contacts -> Dirs \cup {None}]
  BY <1>3, <1>4
<1> QED  BY <1>1, <1>2, <1>5, DownSound

LEMMA CrashSound ==
  ASSUME Sound, Crash PROVE Sound'
<1>1. Down /\ UNCHANGED <<grouped, space, file, dir>>
  BY DEF Crash, disk
<1>2. dir' \in [Contacts -> Dirs \cup {None}]
  BY <1>1 DEF Sound, TypeOK
<1> QED  BY <1>1, <1>2, SameFiles, DownSound

(* What is loaded while there are the groups of gs. *)
LEMMA LoadAllFacts ==
  ASSUME Sound, NEW gs \in [Ids -> Titles], 1 \in Used(gs), NEW c \in Contacts
  PROVE  LET e == LoadAll(gs)[c] IN
         /\ e \in Entries \cup {None}
         /\ e = None => dir[c] = None
         /\ e # None => /\ dir[c] # None /\ e.nick = dir[c].nick
                        /\ e.inlist = ~dir[c].excluded /\ ~e.modified
                        /\ grouped => e.gid \in Used(gs)
<1>1. CASE dir[c] = None
  BY <1>1 DEF LoadAll
<1>2. CASE dir[c] # None
  <2> DEFINE e == Loaded(dir[c], Used(gs))
  <2>1. LoadAll(gs)[c] = e
    BY <1>2 DEF LoadAll
  <2>2. dir[c] \in Dirs
    BY <1>2, ContactFacts
  <2>3. /\ e.gid = IF grouped /\ dir[c].gid \notin Used(gs) THEN 1 ELSE dir[c].gid
        /\ e.nick = dir[c].nick /\ e.inlist = ~dir[c].excluded /\ e.modified = FALSE
    BY DEF Loaded
  <2>4. e.gid \in 0 .. MaxGroups /\ (grouped => e.gid \in Used(gs))
    BY <2>2, <2>3, ContactListAssumption DEF ContactListAssumption, Dirs
  <2>5. e \in Entries
    BY <2>2, <2>4 DEF Loaded, Entries, Dirs
  <2> HIDE DEF e
  <2> QED  BY <1>2, <2>1, <2>3, <2>4, <2>5, NoneApart
<1> QED  BY <1>1, <1>2

LEMMA StartSound ==
  ASSUME Sound, Start PROVE Sound'
<1>1. /\ up' = TRUE /\ groups' = StartGroups /\ clist' = LoadAll(StartGroups)
      /\ last' = IF file.names[1] = NoGroup THEN 1 ELSE file.last
      /\ UNCHANGED <<grouped, space, modal, adding, file, dir>> /\ ~up
  BY DEF Start, disk
<1>2. /\ StartGroups \in [Ids -> Titles] /\ StartGroups[1] # NoGroup
      /\ StartGroups[last'] # NoGroup /\ last' \in Ids
  BY <1>1, NoneApart, ContactListAssumption
     DEF ContactListAssumption, StartGroups, Sound, TypeOK, FileSound, Titles
<1>3. 1 \in Used(StartGroups)
  BY <1>2, NoneApart DEF Used
<1>4. ASSUME NEW c \in Contacts
      PROVE  clist'[c] \in Entries \cup {None} /\ EntrySound(clist[c], dir[c])'
  BY <1>1, <1>2, <1>3, LoadAllFacts, ContactFacts DEF EntrySound, Dirs
<1>5. clist' \in [Contacts -> Entries \cup {None}]
  <2>1. \A c \in Contacts : clist'[c] \in Entries \cup {None}
    BY <1>4
  <2> QED  BY <1>1, <2>1 DEF LoadAll
<1>6. TypeOK' /\ GroupsSound' /\ FileSound' /\ EditSound' /\ AddingSound'
  BY <1>1, <1>2, <1>5 DEF Sound, TypeOK, GroupsSound, FileSound, EditSound, AddingSound
<1> QED  BY <1>4, <1>6 DEF Sound, ContactsSound

LEMMA ReloadSound ==
  ASSUME Sound, Reload PROVE Sound'
<1>1. /\ adding' = None /\ up /\ clist' = ReloadedList
      /\ UNCHANGED <<up, grouped, space, modal, adding, groups, last, file, dir>>
  BY DEF Reload, Ready, disk
<1>2. groups \in [Ids -> Titles] /\ 1 \in Used(groups)
  BY <1>1, GroupFacts DEF Sound, TypeOK
<1>3. ASSUME NEW c \in Contacts
      PROVE  /\ clist'[c] \in Entries \cup {None} /\ EntrySound(clist[c], dir[c])'
             /\ clist[c] # None => clist'[c] # None
  <2>1. CASE clist[c] = None
    <3>1. clist'[c] = LoadAll(groups)[c]
      BY <1>1, <2>1 DEF ReloadedList
    <3> QED  BY <1>1, <1>2, <2>1, <3>1, LoadAllFacts, ContactFacts DEF EntrySound, Dirs
  <2>2. CASE clist[c] # None
    <3>1. clist'[c] = clist[c]
      BY <1>1, <2>2 DEF ReloadedList
    <3> QED  BY <1>1, <2>2, <3>1, ContactFacts DEF EntrySound
  <2> QED  BY <2>1, <2>2
<1>4. clist' \in [Contacts -> Entries \cup {None}]
  BY <1>1, <1>3 DEF ReloadedList
<1>5. TypeOK' /\ GroupsSound' /\ FileSound' /\ EditSound' /\ AddingSound'
  BY <1>1, <1>3, <1>4 DEF Sound, TypeOK, GroupsSound, FileSound, EditSound, AddingSound
<1> QED  BY <1>3, <1>5 DEF Sound, ContactsSound

-----------------------------------------------------------------------------
(* The invariant.                                                          *)

LEMMA InitSound ==
  ASSUME Init PROVE Sound
<1>1. TypeOK
  BY NoneApart DEF Init, TypeOK, Titles
<1>2. ContactsSound /\ GroupsSound /\ FileSound
  BY NoneApart DEF Init, ContactsSound, EntrySound, GroupsSound, FileSound
<1>3. EditSound /\ AddingSound
  BY ModalAssumption DEF ModalAssumption, Init, EditSound, AddingSound
<1> QED  BY <1>1, <1>2, <1>3 DEF Sound

LEMMA StepSound ==
  ASSUME Sound, [Next]_vars PROVE Sound'
<1>1. ASSUME NEW c \in Contacts, ContactStep(c) PROVE Sound'
  BY <1>1, UserAddsSound, StrangerWritesSound, AddedSound, IncludeSound, RenameSound,
     MoveToGroupSound, RemoveSound, EditBeginSound, EditEndSound, UpdateEntrySound,
     SenderMakesDirSound DEF ContactStep
<1>2. CASE DialogStep
  BY <1>2, GroupsOpenSound, GroupsCloseSound, GroupAddSound, GroupRenameSound,
     GroupRemoveSound, GroupMoveSound DEF DialogStep
<1>3. CASE DiskCheck
  <2>1. UNCHANGED <<up, grouped, modal, adding, groups, last, clist, file, dir>> /\ space' = ~space
    BY <1>3 DEF DiskCheck, Ready, memory, disk
  <2> QED  BY <2>1 DEF Sound, TypeOK, ContactsSound, EntrySound, GroupsSound,
                       FileSound, EditSound, AddingSound
<1>4. CASE UNCHANGED vars
  BY <1>4 DEF vars, memory, disk, Sound, TypeOK, ContactsSound, EntrySound,
              GroupsSound, FileSound, EditSound, AddingSound
<1> QED  BY <1>1, <1>2, <1>3, <1>4, SetGroupModeSound, AutosaveSound, QuitSound,
            CrashSound, StartSound, ReloadSound DEF Next

(* Every state has the inductive invariant.                                *)
LEMMA AlwaysSound == Spec => []Sound
<1> QED  BY InitSound, StepSound, PTL DEF Spec

(* All of the contact list keeps its type, in memory and on disk.          *)
THEOREM Types == Spec => []TypeOK
<1>1. Sound => TypeOK
  BY DEF Sound
<1> QED  BY <1>1, AlwaysSound, PTL

(* Whatever the user, the servers, crashes and reloads do, group 1 and the *)
(* last group exist and every contact is in a group that does.             *)
THEOREM EverybodyInAGroup == Spec => []GroupsExist
<1>1. Sound => GroupsExist
  BY DEF Sound, GroupsSound, ContactsSound, EntrySound, GroupsExist, Listed
<1> QED  BY <1>1, AlwaysSound, PTL

(* A contact whose details differ from the disk's is known to be modified. *)
THEOREM NoChangeForgotten == Spec => []ChangesMarked
<1>1. Sound => ChangesMarked
  BY DEF Sound, ContactsSound, EntrySound, ChangesMarked, Listed
<1> QED  BY <1>1, AlwaysSound, PTL

(* The files of a contact that is completely saved say whether it is meant *)
(* to be in the list, but for a stranger between the two halves of         *)
(* addnew(), of whom a crash would make a contact of the list.             *)
THEOREM ExclusionOnDisk == Spec => []ExclusionStored
<1>1. ASSUME Sound, NEW c \in Listed, Stored(c).saved
      PROVE  Exposed(c) \/ (dir[c].excluded <=> ~Wanted(c))
  <2>1. c \in Contacts /\ clist[c] # None
    BY DEF Listed
  <2>2. dir[c] # None
    BY <1>1 DEF Stored, Bare
  <2>3. /\ dir[c].excluded => ~clist[c].inlist
        /\ dir[c].saved /\ ~clist[c].inlist => dir[c].excluded
    BY <1>1, <2>1, <2>2 DEF Sound, ContactsSound, EntrySound
  <2>4. dir[c].saved
    BY <1>1, <2>2 DEF Stored
  <2>5. dir[c].excluded \in BOOLEAN /\ clist[c].inlist \in BOOLEAN
    BY <1>1, <2>1, <2>2, ContactFacts DEF Entries, Dirs
  <2>6. CASE adding # None /\ adding.who = c
    <3>1. adding.in \in BOOLEAN /\ Wanted(c) = adding.in
      BY <1>1, <2>6 DEF Sound, TypeOK, Additions, Wanted
    <3>2. adding.in => ~dir[c].excluded
      BY <1>1, <2>2, <2>6 DEF Sound, AddingSound
    <3> QED  BY <2>6, <3>1, <3>2 DEF Exposed
  <2>7. CASE ~(adding # None /\ adding.who = c)
    <3>1. Wanted(c) = clist[c].inlist
      BY <2>7 DEF Wanted
    <3> QED  BY <2>3, <2>4, <2>5, <3>1
  <2> QED  BY <2>6, <2>7
<1>2. Sound => ExclusionStored
  BY <1>1 DEF ExclusionStored
<1> QED  BY <1>2, AlwaysSound, PTL

-----------------------------------------------------------------------------
(* Moving a group changes nobody's group, by name.                         *)

LEMMA ExchangeKeeps ==
  ASSUME Sound, NEW i \in Used(groups), NEW j \in Used(groups), Exchange(i, j),
         NEW c \in Listed, clist[c].gid \in Used(groups)
  PROVE  groups'[clist'[c].gid] = groups[clist[c].gid]
<1> DEFINE gs == [groups EXCEPT ![i] = groups[j], ![j] = groups[i]]
           g == clist[c].gid
           h == clist'[c].gid
<1>1. groups' = gs /\ clist' = Follow(i, j)
  BY DEF Exchange, Edited
<1>2. gs[i] = groups[j] /\ gs[j] = groups[i] /\ \A k \in Ids \ {i, j} : gs[k] = groups[k]
  BY SwapFacts
<1>3. i \in Ids /\ j \in Ids /\ g \in Ids
  BY DEF Used
<1>4. /\ g = i => h = j
      /\ g = j => h = i
      /\ g \notin {i, j} => h = g
  BY <1>1, <1>3, FollowFacts DEF Listed
<1> HIDE DEF g, h, gs
<1>5. gs[h] = groups[g]
  BY <1>2, <1>3, <1>4
<1> QED  BY <1>1, <1>5 DEF g, h

LEMMA MoveKeeps ==
  ASSUME Sound, NEW i \in Ids, GroupMove(i), NEW c \in Listed,
         clist[c].gid \in Used(groups)
  PROVE  groups'[clist'[c].gid] = groups[clist[c].gid]
<1>1. i \in Used(groups)
  BY DEF GroupMove
<1>2. CASE Above(i) # {} /\ Exchange(i, Largest(Above(i)))
  <2>1. Largest(Above(i)) \in Used(groups)
    BY <1>2, LargestFacts DEF Above, Used
  <2> QED  BY <1>1, <1>2, <2>1, ExchangeKeeps
<1>3. CASE Edited(groups, clist)
  BY <1>3 DEF Edited
<1>4. CASE \E j \in Below(i) : Exchange(i, j)
  BY <1>1, <1>4, ExchangeKeeps DEF Below
<1> QED  BY <1>2, <1>3, <1>4 DEF GroupMove

(* Moving a group up or down, in a list of any size, leaves every contact  *)
(* in the group of the same name.                                          *)
THEOREM MovesKeep == Spec => MovesKeepGroups
<1>1. Sound /\ [Next]_vars =>
        [\A i \in Ids : GroupMove(i) =>
           \A c \in Listed : clist[c].gid \in Used(groups) =>
             groups'[clist'[c].gid] = groups[clist[c].gid]]_vars
  BY MoveKeeps
<1> QED  BY <1>1, AlwaysSound, PTL DEF Spec, MovesKeepGroups
=============================================================================
