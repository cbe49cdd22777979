---------------------------- MODULE ContactList -----------------------------
(***************************************************************************)
(* The contact list (src/src/icqcontacts.cc, icqcontact.cc) and its groups *)
(* (icqgroups.cc, icqgroup.cc), in memory and on disk: who changes which,  *)
(* and what is left of it after the program ends, orderly or not.          *)
(*                                                                         *)
(* The vector of groups is a function from identifiers to names; of the    *)
(* order of its elements only the last one matters to the code.  All that  *)
(* info, about and lastread hold of a contact is its "nick" here.          *)
(***************************************************************************)
EXTENDS Naturals, FiniteSets

CONSTANTS
  Contacts,   \* the contacts there may be, contactroot excepted
  Nicks,      \* what a contact may be called
  Own,        \* the nick a new contact has, its own name
  Names,      \* the names users and servers give to groups
  General,    \* the name of the group that load() adds when it is missing
  MaxGroups,  \* no identifier is larger
  NoGroup,    \* an identifier that is not in use
  None        \* a contact that is not there

Ids == 1 .. MaxGroups

ASSUME ContactListAssumption ==
  /\ MaxGroups \in Nat \ {0} /\ Own \in Nicks
  /\ NoGroup \notin Names \cup {General}
  /\ None \notin [gid : Nat, nick : Nicks, inlist : BOOLEAN, modified : BOOLEAN]
  /\ None \notin [saved : BOOLEAN, gid : Nat, nick : Nicks, excluded : BOOLEAN]
  /\ None \notin [who : Contacts, in : BOOLEAN, title : Names \cup {NoGroup}]
ASSUME ModalAssumption == Contacts \cap {"none", "groups", "touched"} = {}

VARIABLES
  up,      \* the program runs
  grouped, \* conf->getgroupmode() is not nogroups
  space,   \* conf->enoughdiskspace()
  modal,   \* "none", the group dialog "groups" or "touched", or the contact
           \* whose details are being edited
  adding,  \* the contact addnew() has saved and not yet excluded from the
           \* list or included in it, which of the two it will do, and the
           \* name of the group updateEntry() then finds for it
  groups,  \* the names of the groups in memory, by identifier
  last,    \* the identifier of the last element of the vector
  clist,   \* the contacts in memory
  file,    \* the groups file: the names, and the last identifier
  dir      \* the directories of contacts

memory == <<groups, last, clist>>
disk == <<file, dir>>
vars == <<up, grouped, space, modal, adding, memory, disk>>

Used(g) == {i \in Ids : g[i] # NoGroup}
Largest(S) == CHOOSE i \in S : \A j \in S : j <= i
Listed == {c \in Contacts : clist[c] # None}

(* The program is not in the middle of addnew(). *)
Ready == up /\ adding = None

-----------------------------------------------------------------------------
(* One contact.                                                            *)

(* icqcontact::load(): what the directory says, a group that exists. *)
Loaded(d, gs) ==
  [gid |-> IF grouped /\ d.gid \notin gs THEN 1 ELSE d.gid,
   nick |-> d.nick, inlist |-> ~d.excluded, modified |-> FALSE]

(* A directory in which there is nothing yet, or none at all. *)
Bare == [saved |-> FALSE, gid |-> 0, nick |-> Own, excluded |-> FALSE]
Stored(c) == IF dir[c] = None THEN Bare ELSE dir[c]

(* icqcontact::save(): missing files count as a change; the flag is kept   *)
(* when the disk is known to be full.  "excluded" is only ever created.    *)
Dirty(e, d) == e.modified \/ d = None \/ ~d.saved
KeptForgetsMutant(e, d) == [e EXCEPT !.modified = FALSE]
Kept(e, d) == [e EXCEPT !.modified = Dirty(e, d) /\ ~space]
Written(e, d) ==
  IF Dirty(e, d) /\ space
  THEN [saved |-> TRUE, gid |-> e.gid, nick |-> e.nick,
        excluded |-> ~e.inlist \/ (d # None /\ d.excluded)]
  ELSE d

(* excludefromlist() and includeintolist(): a file to create or to remove. *)
ExcludedKeepsFileMutant(d, x) == IF d = None \/ ~x THEN d ELSE [d EXCEPT !.excluded = x]
Excluded(d, x) == IF d = None THEN d ELSE [d EXCEPT !.excluded = x]

-----------------------------------------------------------------------------
(* icqcontacts.                                                            *)

(* The first half of addnew(): the constructor loads what there is, the    *)
(* name and perhaps the group are set, and all is saved.                   *)
Fresh(c, g) ==
  [Loaded(Stored(c), Used(groups)) EXCEPT
     !.nick = Own, !.modified = TRUE, !.gid = IF g = 0 THEN @ ELSE g]
addnew(c, in, g, n) ==
  /\ Ready /\ clist[c] = None
  /\ clist' = [clist EXCEPT ![c] = Kept(Fresh(c, g), dir[c])]
  /\ dir' = [dir EXCEPT ![c] = Written(Fresh(c, g), @)]
  /\ adding' = [who |-> c, in |-> in, title |-> n]
  /\ UNCHANGED <<up, grouped, space, modal, groups, last, file>>

(* The groups the user may be asked to select from. *)
SelectableIndexMutant == IF grouped THEN {g + 1 : g \in Used(groups)} ELSE {0}
Selectable == IF grouped THEN Used(groups) ELSE {0}

(* addcontact() of somebody new. *)
UserAdds(c) == modal = "none" /\ \E g \in Selectable : addnew(c, TRUE, g, NoGroup)

(* An event from a stranger. *)
StrangerWrites(c) == addnew(c, FALSE, 0, NoGroup)

(* addcontact() of one who is not in the list: the group is replaced only  *)
(* if there is one, and nothing marks the contact as modified.             *)
Include(c) ==
  /\ Ready /\ modal = "none" /\ clist[c] # None /\ ~clist[c].inlist
  /\ \E g \in Selectable :
       clist' = [clist EXCEPT ![c].gid = IF @ = 0 THEN 0 ELSE g, ![c].inlist = TRUE]
  /\ dir' = [dir EXCEPT ![c] = Excluded(@, FALSE)]
  /\ UNCHANGED <<up, grouped, space, modal, adding, groups, last, file>>

(* setdispnick() and the other setters. *)
Rename(c, n) ==
  /\ Ready /\ clist[c] # None
  /\ clist' = [clist EXCEPT ![c].nick = n, ![c].modified = TRUE]
  /\ UNCHANGED <<up, grouped, space, modal, adding, groups, last, disk>>

(* setgroupid(), by "Move to group.." *)
MoveToGroup(c) ==
  /\ Ready /\ modal = "none" /\ clist[c] # None
  /\ \E g \in Used(groups) : clist' = [clist EXCEPT ![c].gid = g, ![c].modified = TRUE]
  /\ UNCHANGED <<up, grouped, space, modal, adding, groups, last, disk>>

(* remove(), with the directory: by the user, or of a stranger who failed  *)
(* the captcha at any time.                                                *)
Remove(c) ==
  /\ Ready /\ clist[c] # None /\ modal # c
  /\ modal = "none" \/ ~clist[c].inlist
  /\ clist' = [clist EXCEPT ![c] = None] /\ dir' = [dir EXCEPT ![c] = None]
  /\ UNCHANGED <<up, grouped, space, modal, adding, groups, last, file>>

(* Editing the details begins with save() and ends with another one, or    *)
(* with load() when the user gives up: what changed meanwhile is forgotten.*)
EditBegin(c) ==
  /\ Ready /\ modal = "none" /\ clist[c] # None
  /\ modal' = c
  /\ clist' = [clist EXCEPT ![c] = Kept(@, dir[c])]
  /\ dir' = [dir EXCEPT ![c] = Written(clist[c], @)]
  /\ UNCHANGED <<up, grouped, space, adding, groups, last, file>>
EditEnd(c) ==
  /\ Ready /\ modal = c /\ modal' = "none"
  /\ \/ \E n \in Nicks :
          LET e == [clist[c] EXCEPT !.nick = n, !.modified = TRUE] IN
          /\ clist' = [clist EXCEPT ![c] = Kept(e, dir[c])]
          /\ dir' = [dir EXCEPT ![c] = Written(e, @)]
     \/ /\ clist' = [clist EXCEPT ![c] = Loaded(Stored(c), Used(groups))]
        /\ UNCHANGED dir
  /\ UNCHANGED <<up, grouped, space, adding, groups, last, file>>

-----------------------------------------------------------------------------
(* icqgroups.                                                              *)

(* add(): the smallest identifier that is free, at the end of the vector.  *)
FreeId(g) == CHOOSE i \in Ids \ Used(g) : \A j \in Ids \ Used(g) : i <= j

(* icqcontacts::rearrange(): who is in a group that is gone goes to 1. *)
RearrangeNothingMutant(cl, g) == cl
Rearrange(cl, g) ==
  [c \in Contacts |->
     IF cl[c] # None /\ cl[c].gid \notin Used(g)
     THEN [cl[c] EXCEPT !.gid = 1, !.modified = TRUE] ELSE cl[c]]

(* icqcontacts::updateEntry(): a protocol's server says who is in which    *)
(* group; a name that is not known becomes a new group.  Placed() is what  *)
(* follows once the contact has the entry e.                               *)
Called(n) == {i \in Used(groups) : groups[i] = n}
Placed(c, e, n) ==
  LET put(g) == clist' = [clist EXCEPT ![c] = [e EXCEPT !.gid = g, !.modified = TRUE]]
  IN
  \/ ~grouped /\ put(1) /\ UNCHANGED <<groups, last>>
  \/ grouped /\ (\E i \in Called(n) : put(i)) /\ UNCHANGED <<groups, last>>
  \/ /\ grouped /\ Called(n) = {} /\ Used(groups) # Ids
     /\ groups' = [groups EXCEPT ![FreeId(groups)] = n]
     /\ last' = FreeId(groups) /\ put(FreeId(groups))
UpdateEntry(c, n) ==
  /\ grouped => Called(n) # {} \/ Used(groups) # Ids
  /\ \/ addnew(c, TRUE, 0, n)
     \/ /\ Ready /\ clist[c] # None /\ Placed(c, clist[c], n)
        /\ UNCHANGED <<up, grouped, space, modal, adding, disk>>

(* The second half of addnew(), and of updateEntry(): the contact is       *)
(* excluded from the list or included in it, by a file of its own.         *)
Added(c) ==
  LET e == [clist[c] EXCEPT !.inlist = adding.in] IN
  /\ up /\ adding # None /\ adding.who = c
  /\ adding' = None
  /\ dir' = [dir EXCEPT ![c] = Excluded(@, ~adding.in)]
  /\ \/ /\ adding.title = NoGroup
        /\ clist' = [clist EXCEPT ![c] = e] /\ UNCHANGED <<groups, last>>
     \/ adding.title # NoGroup /\ Placed(c, e, adding.title)
  /\ UNCHANGED <<up, grouped, space, modal, file>>

(* icqface::selectgroup(): the vector is sorted whenever it is shown.      *)
GroupsOpen ==
  /\ Ready /\ modal = "none" /\ modal' = "groups"
  /\ last' = Largest(Used(groups))
  /\ UNCHANGED <<up, grouped, space, adding, groups, clist, disk>>

InDialog == Ready /\ modal \in {"groups", "touched"}
Edited(gs, cl) ==
  /\ groups' = gs /\ clist' = cl /\ last' = Largest(Used(gs)) /\ modal' = "touched"
  /\ UNCHANGED <<up, grouped, space, adding, disk>>

GroupAdd(n) ==
  /\ InDialog /\ Used(groups) # Ids
  /\ Edited([groups EXCEPT ![FreeId(groups)] = n], clist)
GroupRename(i, n) ==
  InDialog /\ i \in Used(groups) /\ Edited([groups EXCEPT ![i] = n], clist)
GroupRemove(i) ==
  /\ InDialog /\ i \in Used(groups) \ {1}
  /\ LET gs == [groups EXCEPT ![i] = NoGroup] IN Edited(gs, Rearrange(clist, gs))

(* exchange(): the groups swap their identifiers, the contacts follow. *)
FollowHalfMutant(i, j) ==
  [c \in Contacts |->
     IF clist[c] = None \/ clist[c].gid # i THEN clist[c]
     ELSE [clist[c] EXCEPT !.gid = j, !.modified = TRUE]]
Follow(i, j) ==
  [c \in Contacts |->
     IF clist[c] = None \/ clist[c].gid \notin {i, j} THEN clist[c]
     ELSE [clist[c] EXCEPT !.gid = IF @ = i THEN j ELSE i, !.modified = TRUE]]
Exchange(i, j) ==
  Edited([groups EXCEPT ![i] = groups[j], ![j] = groups[i]], Follow(i, j))

(* moveup() and movedown(), which takes the identifier of the last element *)
(* of the vector for the largest.                                          *)
Above(i) == {j \in Used(groups) : j < i}
Below(i) == {j \in Used(groups) : i < j /\ j <= last}
GroupMove(i) ==
  /\ InDialog /\ i \in Used(groups)
  /\ \/ Above(i) # {} /\ Exchange(i, Largest(Above(i)))
     \/ Above(i) = {} /\ Edited(groups, clist)
     \/ \E j \in Below(i) : (\A k \in Below(i) : j <= k) /\ Exchange(i, j)
     \/ Below(i) = {} /\ Edited(groups, clist)

(* The groups are saved when the dialog is left. *)
GroupsClose ==
  /\ InDialog /\ modal' = "none"
  /\ file' = IF modal = "touched" /\ space THEN [names |-> groups, last |-> last] ELSE file
  /\ UNCHANGED <<up, grouped, space, adding, memory, dir>>

(* The configuration dialog switches the groups on or off. *)
SetGroupMode ==
  /\ Ready /\ modal = "none" /\ grouped' = ~grouped
  /\ clist' = Rearrange(clist, groups)
  /\ UNCHANGED <<up, space, modal, adding, groups, last, disk>>

-----------------------------------------------------------------------------
(* The life of the program.                                                *)

(* icqcontacts::save() for those in the list. *)
SavedList == [c \in Contacts |->
  IF clist[c] # None /\ clist[c].inlist THEN Kept(clist[c], dir[c]) ELSE clist[c]]
SavedDirs == [c \in Contacts |->
  IF clist[c] # None /\ clist[c].inlist THEN Written(clist[c], dir[c]) ELSE dir[c]]

Autosave ==
  /\ Ready /\ clist' = SavedList /\ dir' = SavedDirs
  /\ UNCHANGED <<up, grouped, space, modal, adding, groups, last, file>>

Down ==
  /\ up' = FALSE /\ modal' = "none" /\ adding' = None /\ last' = 1
  /\ groups' = [i \in Ids |-> NoGroup] /\ clist' = [c \in Contacts |-> None]

(* The end of the program, or SIGTERM: contacts and groups are saved, and  *)
(* who is not in the list and has no events left is removed.               *)
Quit ==
  /\ Ready /\ Down
  /\ \E nil \in SUBSET {c \in Listed : ~clist[c].inlist} :
       dir' = [c \in Contacts |-> IF c \in nil THEN None ELSE SavedDirs[c]]
  /\ file' = IF space THEN [names |-> groups, last |-> last] ELSE file
  /\ UNCHANGED <<grouped, space>>

(* At any time, also between the two halves of addnew(). *)
Crash == up /\ Down /\ UNCHANGED <<grouped, space, disk>>

(* groups.load(), then clist.load(), whose contacts look for their group.  *)
StartGroups == IF file.names[1] = NoGroup THEN [file.names EXCEPT ![1] = General] ELSE file.names
LoadAll(gs) ==
  [c \in Contacts |-> IF dir[c] = None THEN None ELSE Loaded(dir[c], Used(gs))]
Start ==
  /\ ~up /\ up' = TRUE
  /\ groups' = StartGroups
  /\ last' = IF file.names[1] = NoGroup THEN 1 ELSE file.last
  /\ clist' = LoadAll(StartGroups)
  /\ UNCHANGED <<grouped, space, modal, adding, disk>>

(* A process started to send an event makes the directory of a contact it  *)
(* does not find, and SIGUSR2 makes the program look for it.               *)
SenderMakesDir(c) ==
  /\ dir[c] = None /\ dir' = [dir EXCEPT ![c] = Bare]
  /\ UNCHANGED <<up, grouped, space, modal, adding, memory, file>>
ReloadedList == [c \in Contacts |-> IF clist[c] = None THEN LoadAll(groups)[c] ELSE clist[c]]
Reload ==
  /\ Ready /\ clist' = ReloadedList
  /\ UNCHANGED <<up, grouped, space, modal, adding, groups, last, disk>>

DiskCheck == Ready /\ space' = ~space /\ UNCHANGED <<up, grouped, modal, adding, memory, disk>>

Init ==
  /\ up = FALSE /\ grouped \in BOOLEAN /\ space = TRUE
  /\ modal = "none" /\ adding = None
  /\ groups = [i \in Ids |-> NoGroup] /\ last = 1 /\ clist = [c \in Contacts |-> None]
  /\ file = [names |-> [i \in Ids |-> NoGroup], last |-> 1]
  /\ dir = [c \in Contacts |-> None]

ContactStep(c) ==
  \/ UserAdds(c) \/ StrangerWrites(c) \/ Added(c) \/ Include(c) \/ MoveToGroup(c) \/ Remove(c)
  \/ \E n \in Nicks : Rename(c, n)
  \/ EditBegin(c) \/ EditEnd(c)
  \/ \E n \in Names : UpdateEntry(c, n)
  \/ SenderMakesDir(c)

DialogStep ==
  \/ GroupsOpen \/ GroupsClose
  \/ \E n \in Names : GroupAdd(n)
  \/ \E i \in Ids, n \in Names : GroupRename(i, n)
  \/ \E i \in Ids : GroupRemove(i) \/ GroupMove(i)

Next ==
  \/ \E c \in Contacts : ContactStep(c)
  \/ DialogStep \/ SetGroupMode
  \/ Autosave \/ Quit \/ Crash \/ Start \/ Reload \/ DiskCheck

Spec == Init /\ [][Next]_vars

-----------------------------------------------------------------------------
Entries == [gid : 0 .. MaxGroups, nick : Nicks, inlist : BOOLEAN, modified : BOOLEAN]
Titles == Names \cup {General, NoGroup}
Additions == [who : Contacts, in : BOOLEAN, title : Names \cup {NoGroup}]
Dirs == [saved : BOOLEAN, gid : 0 .. MaxGroups, nick : Nicks, excluded : BOOLEAN]

TypeOK ==
  /\ up \in BOOLEAN /\ grouped \in BOOLEAN /\ space \in BOOLEAN
  /\ modal \in {"none", "groups", "touched"} \cup Contacts
  /\ adding \in Additions \cup {None}
  /\ groups \in [Ids -> Titles] /\ last \in Ids
  /\ clist \in [Contacts -> Entries \cup {None}]
  /\ file \in [names : [Ids -> Titles], last : Ids]
  /\ dir \in [Contacts -> Dirs \cup {None}]

(* Group 1 exists, the last element of the vector is a group, and while    *)
(* groups are used every contact is in one that exists, so that nobody     *)
(* drops out of the list on the screen: through the dialog, what servers   *)
(* say, crashes between the two saves and reloads.                         *)
GroupsExist ==
  up => /\ groups[1] # NoGroup /\ groups[last] # NoGroup
        /\ grouped => \A c \in Listed : clist[c].gid \in Used(groups)

(* A change of a contact's details not yet on disk is known to be one:     *)
(* whatever was changed while the disk was full is written later.          *)
ChangesMarked ==
  \A c \in Listed : ~clist[c].modified /\ dir[c] # None => clist[c].nick = dir[c].nick

(* Whether the contact is meant to be in the list. *)
Wanted(c) == IF adding # None /\ adding.who = c THEN adding.in ELSE clist[c].inlist

(* addnew() writes the files of a stranger before the one that excludes    *)
(* him: a crash in between makes a contact of the list of him.             *)
Exposed(c) == adding # None /\ adding.who = c /\ ~adding.in

(* Once the files of a contact are written, they say whether it is wanted  *)
(* in the list, so that it comes back from a crash as what it was; but for *)
(* the stranger whom addnew() has not excluded yet.                        *)
ExclusionStored ==
  \A c \in Listed : Stored(c).saved =>
    Exposed(c) \/ (dir[c].excluded <=> ~Wanted(c))

(* Moving a group up or down takes its contacts along and leaves everybody *)
(* in the group, by name, where he was.                                    *)
MovesKeepGroups ==
  [][\A i \in Ids : GroupMove(i) =>
       \A c \in Listed : clist[c].gid \in Used(groups) =>
         groups'[clist'[c].gid] = groups[clist[c].gid]]_vars
=============================================================================
