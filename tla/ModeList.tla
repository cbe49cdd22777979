------------------------------ MODULE ModeList ------------------------------
(***************************************************************************)
(* The ignore, visible and invisible lists (src/src/icqmlist.cc): the      *)
(* vector of entries, its file, and the menu and the dialog that edit it.  *)
(*                                                                         *)
(* A contact of icq is known by its number, one of gadu by its number too, *)
(* all others by their names; the file has the name an entry is shown with *)
(* and, where there is one, the number.                                    *)
(***************************************************************************)
EXTENDS Naturals, Sequences, SequencesExt

CONSTANTS
  Icq, Gadu, Named,  \* contacts, by what identifies them
  Nicks,             \* other names that contacts are given for display
  Statuses,          \* csignore, csvisible, csinvisible
  Ignore,            \* csignore
  None

People == Icq \cup Gadu \cup Named
Shown == Named \cup Nicks        \* a name shown may be that of somebody else

VARIABLES
  up,      \* the program runs
  clist,   \* the contact list
  disp,    \* getdispnick() of the contacts
  lst,     \* the vector
  file,    \* the file "modelist"
  dialog,  \* which list is being edited, if any
  picked,  \* the contacts chosen in multicontacts()
  meant,   \* ghost: who the user put on which list
  kept     \* ghost: the same when the file was written

vars == <<up, clist, disp, lst, file, dialog, picked, meant, kept>>
ghosts == <<meant, kept>>

(* modelistitem; to whom it applies is a contact, or the name of nobody. *)
Item(c, s) == [nick |-> disp[c], who |-> c, status |-> s]
inlist(c, s) == \E i \in DOMAIN lst : lst[i].who = c /\ lst[i].status = s

(* del(): the first entry of that contact and status. *)
del(l, c, s) ==
  LET at == {i \in DOMAIN l : l[i].who = c /\ l[i].status = s} IN
  IF at = {} THEN l ELSE RemoveAt(l, CHOOSE i \in at : \A j \in at : i <= j)

(* What load() makes of a line that save() has written: of a contact that  *)
(* is not one of icq it reads the name only, which makes nobody of one of  *)
(* gadu.                                                                   *)
ReadNickMutant(e) == [e EXCEPT !.who = IF e.nick = e.who THEN e.who ELSE None]
ReadBack(e) ==
  [e EXCEPT !.who = IF e.who \in Icq THEN e.who
                    ELSE IF e.who \in Gadu THEN None ELSE e.nick]

-----------------------------------------------------------------------------
(* ACT_IGNORE of the contact's menu.                                       *)
IgnoreOn(c) ==
  /\ up /\ dialog = None /\ c \in clist /\ ~inlist(c, Ignore)
  /\ lst' = Append(lst, Item(c, Ignore))
  /\ clist' \in {clist, clist \ {c}}
  /\ meant' = [meant EXCEPT ![Ignore] = @ \cup {c}]
  /\ UNCHANGED <<up, disp, file, dialog, picked, kept>>
IgnoreOff(c) ==
  /\ up /\ dialog = None /\ c \in clist /\ inlist(c, Ignore)
  /\ lst' = del(lst, c, Ignore)
  /\ meant' = [meant EXCEPT ![Ignore] = @ \ {c}]
  /\ UNCHANGED <<up, clist, disp, file, dialog, picked, kept>>

(* modelist(): the dialog of one list.                                     *)
Open(s) ==
  /\ up /\ dialog = None /\ dialog' = s
  /\ UNCHANGED <<up, clist, disp, lst, file, picked, ghosts>>
Close ==
  /\ up /\ dialog # None /\ picked = {} /\ dialog' = None
  /\ UNCHANGED <<up, clist, disp, lst, file, picked, ghosts>>

(* "Add": who is not in the list yet can be chosen.  Only then the contact *)
(* list is searched again, for their names.                                *)
Pickable == {c \in clist : ~inlist(c, dialog)}
Pick ==
  /\ up /\ dialog # None /\ picked = {}
  /\ picked' \in (SUBSET Pickable) \ {{}}
  /\ UNCHANGED <<up, clist, disp, lst, file, dialog, ghosts>>
AddPicked ==
  /\ up /\ picked # {} /\ picked \subseteq clist
  /\ lst' = lst \o SetToSeq({Item(c, dialog) : c \in picked})
  /\ clist' \in IF dialog = Ignore THEN {clist, clist \ picked} ELSE {clist}
  /\ meant' = [meant EXCEPT ![dialog] = @ \cup picked]
  /\ picked' = {}
  /\ UNCHANGED <<up, disp, file, dialog, kept>>

(* "Remove", and "Move to contacts", of the entry that is selected: the    *)
(* contact gets the name the entry was shown with.                         *)
Delete(i) ==
  /\ up /\ dialog # None /\ picked = {}
  /\ i \in DOMAIN lst /\ lst[i].status = dialog
  /\ lst' = del(lst, lst[i].who, dialog)
  /\ meant' = [meant EXCEPT ![dialog] = @ \ {lst[i].who}]
  /\ UNCHANGED <<up, clist, disp, file, dialog, picked, kept>>
MoveToContacts(i) ==
  /\ up /\ dialog # None /\ picked = {}
  /\ i \in DOMAIN lst /\ lst[i].status = dialog /\ lst[i].who \in People \ clist
  /\ clist' = clist \cup {lst[i].who}
  /\ disp' = [disp EXCEPT ![lst[i].who] = lst[i].nick]
  /\ lst' = del(lst, lst[i].who, dialog)
  /\ meant' = [meant EXCEPT ![dialog] = @ \ {lst[i].who}]
  /\ UNCHANGED <<up, file, dialog, picked, kept>>

-----------------------------------------------------------------------------
(* What happens around it.                                                 *)

(* setdispnick(), by the user or by a server. *)
Rename(c, n) ==
  /\ up /\ c \in clist /\ disp' = [disp EXCEPT ![c] = n]
  /\ UNCHANGED <<up, clist, lst, file, dialog, picked, ghosts>>

(* An event from c: who is not ignored is added, under his own name.       *)
Event(c) ==
  /\ up /\ c \notin clist /\ ~inlist(c, Ignore)
  /\ clist' = clist \cup {c} /\ disp' = [disp EXCEPT ![c] = c]
  /\ UNCHANGED <<up, lst, file, dialog, picked, ghosts>>

(* A stranger fails the captcha. *)
Dropped(c) ==
  /\ up /\ c \in clist /\ clist' = clist \ {c}
  /\ UNCHANGED <<up, disp, lst, file, dialog, picked, ghosts>>

Down(l, m) ==
  /\ up' = FALSE /\ dialog' = None /\ picked' = {} /\ lst' = <<>>
  /\ file' = l /\ meant' = m /\ kept' = m
  /\ UNCHANGED <<clist, disp>>

(* The lists are saved by an orderly end and by SIGTERM only.              *)
Quit == up /\ Down(lst, meant)
(* A crash, that of a picked contact which is gone included.               *)
Crash == up /\ Down(file, kept)

Start ==
  /\ ~up /\ up' = TRUE /\ lst' = [i \in DOMAIN file |-> ReadBack(file[i])]
  /\ UNCHANGED <<clist, disp, file, dialog, picked, ghosts>>

Init ==
  /\ up = FALSE /\ clist = People /\ disp = [c \in People |-> c]
  /\ lst = <<>> /\ file = <<>> /\ dialog = None /\ picked = {}
  /\ meant = [s \in Statuses |-> {}] /\ kept = [s \in Statuses |-> {}]

Next ==
  \/ \E c \in People :
       \/ IgnoreOn(c) \/ IgnoreOff(c) \/ Event(c) \/ Dropped(c)
       \/ \E n \in Shown : Rename(c, n)
  \/ \E s \in Statuses : Open(s)
  \/ Close \/ Pick \/ AddPicked \/ Quit \/ Crash \/ Start
  \/ \E i \in DOMAIN lst : Delete(i) \/ MoveToContacts(i)

Spec == Init /\ [][Next]_vars

-----------------------------------------------------------------------------
Exact(C) == up => \A c \in C, s \in Statuses : inlist(c, s) <=> c \in meant[s]

(* The lists hold exactly whom the user put on them, after any restart and *)
(* under whatever names: inlist() ignores nobody else, and everybody meant.*)
ListsExact == Exact(People)

(* So they do at least for contacts known by their icq numbers.            *)
NumbersExact == Exact(Icq)
=============================================================================
