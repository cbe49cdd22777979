------------------------------ MODULE Incoming ------------------------------
(***************************************************************************)
(* The incoming side of imeventmanager::store (src/src/eventmanager.cc)    *)
(* with the anti-spam captcha (captcha.cc) and the part of the contact     *)
(* list (icqcontacts.cc) it works on: who gets into the list by writing to *)
(* us, and who stays there.                                                *)
(*                                                                         *)
(* std::map orders the captchas by imcontact::operator<, which is always   *)
(* false: to the map all contacts are the same key.  It therefore never    *)
(* holds more than one entry, and finds that one for everybody.            *)
(***************************************************************************)
EXTENDS Naturals, FiniteSets

CONSTANTS
  Contacts,      \* the people who may write to us
  Irc,           \* those of them on irc, where no captcha is used
  Ignored,       \* those of them on the ignore list
  Questions,     \* the captcha questions of the configuration, at least one
  Texts,         \* the texts of incoming events
  Answers,       \* the texts that answer a question
  Timeout,       \* the captcha timeout, in clock ticks
  None           \* no question

VARIABLES
  conf,          \* the settings antispam, dropauthreq and usingcaptcha
  known,         \* the contacts of clist
  listed,        \* those of them that are not "excluded"
  dirs,          \* the contacts that have a directory
  unread,        \* the contacts with unread events
  outfile,       \* the contacts with an "offline" file
  entry,         \* the one entry of thecaptcha: its question and time left
  test,          \* the question last put to a contact since its last success
  passed         \* the contacts that have passed the test

vars == <<conf, known, listed, dirs, unread, outfile, entry, test, passed>>

NoEntry == [question |-> None, left |-> 0]
Fresh(q) == [question |-> q, left |-> Timeout + 1]
Entries == [question : Questions \cup {None}, left : 0 .. Timeout + 1]

Init ==
  /\ conf \in [antispam : BOOLEAN, dropauth : {FALSE}, captcha : BOOLEAN]
  /\ known = {} /\ listed = {} /\ dirs = {} /\ unread = {} /\ outfile = {}
  /\ entry = NoEntry
  /\ test = [c \in Contacts |-> NoEntry]
  /\ passed = {}

-----------------------------------------------------------------------------
(* class captcha.                                                          *)

docaptcha(c) == entry # NoEntry

(* An expired entry is no use, whatever the answer. *)
checkcaptcha(c, text) == entry.left > 0 /\ text \in Answers[entry.question]

(* A question is drawn at random and replaces whatever the map holds. *)
getcaptchaquestion(c, q) ==
  /\ entry' = Fresh(q)
  /\ test' = [test EXCEPT ![c] = Fresh(q)]

donecaptcha(c) ==
  /\ entry' = NoEntry
  /\ test' = [test EXCEPT ![c] = NoEntry]

-----------------------------------------------------------------------------
(* store() of an incoming event that no pre-receive action rejects, from a *)
(* contact that is not ignored; any other changes nothing.                 *)

Proceed(auth) == ~conf.antispam \/ (auth /\ ~conf.dropauth) \/ conf.captcha

(* eventwrite(history) and sethasevents(). *)
Accept(c) == unread' = unread \cup {c}

(* The directory addnew() makes is marked "excluded". *)
addnew(c) == known' = known \cup {c} /\ dirs' = dirs \cup {c}

FromKnown(c) ==
  /\ c \in known \ Ignored
  /\ Accept(c)
  /\ UNCHANGED <<conf, known, listed, dirs, outfile, entry, test, passed>>

FromStranger(c, auth) ==
  /\ c \notin known \cup Ignored
  /\ Proceed(auth) /\ (~conf.captcha \/ c \in Irc)
  /\ addnew(c) /\ Accept(c)
  /\ UNCHANGED <<conf, listed, outfile, entry, test, passed>>

Tested(c) == c \notin known \cup Ignored /\ conf.captcha /\ c \notin Irc

(* Not asked yet: greet, ask, and take the contact out again, with any     *)
(* greeting that had to be queued.                                         *)
Ask(c, q) ==
  /\ Tested(c) /\ ~docaptcha(c)
  /\ getcaptchaquestion(c, q)
  /\ UNCHANGED <<conf, known, listed, dirs, unread, outfile, passed>>

(* The message of success may be sent or queued. *)
RightAnswer(c, text) ==
  /\ Tested(c) /\ docaptcha(c) /\ checkcaptcha(c, text)
  /\ addnew(c) /\ Accept(c)
  /\ donecaptcha(c)
  /\ passed' = passed \cup {c}
  /\ outfile' \in {outfile, outfile \cup {c}}
  /\ UNCHANGED <<conf, listed>>

WrongAnswerKeptMutant(c, text, q) ==
  /\ Tested(c) /\ docaptcha(c) /\ ~checkcaptcha(c, text)
  /\ getcaptchaquestion(c, q)
  /\ addnew(c)
  /\ UNCHANGED <<conf, listed, unread, outfile, passed>>

WrongAnswer(c, text, q) ==
  /\ Tested(c) /\ docaptcha(c) /\ ~checkcaptcha(c, text)
  /\ getcaptchaquestion(c, q)
  /\ UNCHANGED <<conf, known, listed, dirs, unread, outfile, passed>>

-----------------------------------------------------------------------------
(* The user, the clock, and leaving the program.                           *)

ReadEvents(c) ==
  /\ c \in unread
  /\ unread' = unread \ {c}
  /\ UNCHANGED <<conf, known, listed, dirs, outfile, entry, test, passed>>

(* resend() gets through. *)
QueueSent(c) ==
  /\ c \in outfile
  /\ outfile' = outfile \ {c}
  /\ UNCHANGED <<conf, known, listed, dirs, unread, entry, test, passed>>

includeintolist(c) ==
  /\ c \in known \ listed
  /\ listed' = listed \cup {c}
  /\ UNCHANGED <<conf, known, dirs, unread, outfile, entry, test, passed>>

(* clist.remove(): the contact goes with its directory. *)
remove(c) ==
  /\ c \in known
  /\ known' = known \ {c} /\ listed' = listed \ {c} /\ dirs' = dirs \ {c}
  /\ unread' = unread \ {c} /\ outfile' = outfile \ {c}
  /\ passed' = passed \ {c}
  /\ UNCHANGED <<conf, entry, test>>

(* The settings dialog: the captcha and dropping authorization requests    *)
(* exclude each other.                                                     *)
ToggleAntispam ==
  /\ conf' = [conf EXCEPT !.antispam = ~@]
  /\ UNCHANGED <<known, listed, dirs, unread, outfile, entry, test, passed>>

ToggleDropAuth ==
  /\ conf' = [conf EXCEPT !.dropauth = ~@,
                          !.captcha = IF conf.dropauth THEN @ ELSE FALSE]
  /\ UNCHANGED <<known, listed, dirs, unread, outfile, entry, test, passed>>

ToggleCaptcha ==
  /\ conf' = [conf EXCEPT !.captcha = ~@,
                          !.dropauth = IF conf.captcha THEN @ ELSE FALSE]
  /\ UNCHANGED <<known, listed, dirs, unread, outfile, entry, test, passed>>

Elapse(t) == IF t.left > 0 THEN [t EXCEPT !.left = @ - 1] ELSE t

Tick ==
  /\ entry' = Elapse(entry)
  /\ test' = [c \in Contacts |-> Elapse(test[c])]
  /\ <<entry, test>>' # <<entry, test>>
  /\ UNCHANGED <<conf, known, listed, dirs, unread, outfile, passed>>

QuitForgetQueueMutant ==
  /\ dirs' = {c \in dirs : c \in listed \/ c \in unread}
  /\ known' = dirs'
  /\ entry' = NoEntry /\ test' = [c \in Contacts |-> NoEntry]
  /\ UNCHANGED <<conf, listed, unread, outfile, passed>>

(* Leaving saves the list, dropping the contacts that are not in it and    *)
(* have nothing unread nor unsent; the next start loads the directories.   *)
Quit ==
  /\ dirs' = {c \in dirs : c \in listed \/ c \in unread \/ c \in outfile}
  /\ known' = dirs'
  /\ entry' = NoEntry /\ test' = [c \in Contacts |-> NoEntry]
  /\ UNCHANGED <<conf, listed, unread, outfile, passed>>

Next ==
  \/ \E c \in Contacts :
       \/ FromKnown(c) \/ ReadEvents(c) \/ QueueSent(c)
       \/ includeintolist(c) \/ remove(c)
       \/ \E auth \in BOOLEAN : FromStranger(c, auth)
       \/ \E q \in Questions : Ask(c, q)
       \/ \E text \in Texts : RightAnswer(c, text)
       \/ \E text \in Texts, q \in Questions : WrongAnswer(c, text, q)
  \/ ToggleAntispam \/ ToggleDropAuth \/ ToggleCaptcha
  \/ Tick \/ Quit

Spec == Init /\ [][Next]_vars

-----------------------------------------------------------------------------
(* Properties.                                                             *)

(* The types of the settings, the list and the captcha map. *)
TypeOK ==
  /\ conf \in [antispam : BOOLEAN, dropauth : BOOLEAN, captcha : BOOLEAN]
  /\ known \subseteq Contacts /\ dirs \subseteq Contacts
  /\ passed \subseteq Contacts
  /\ entry \in Entries /\ test \in [Contacts -> Entries]
  /\ entry.left > 0 => entry.question # None

(* A stranger who is tested is tested on the question put to himself, and  *)
(* has all of the time he was given for it: what docaptcha() and           *)
(* getcaptchaquestion() promise in captcha.h.                              *)
TestIsOwn == \A c \in Contacts : Tested(c) /\ docaptcha(c) => test[c] = entry

(* The contact list and the directories agree, and nothing unread or       *)
(* unsent is kept for anybody who is not in the list: neither a refused    *)
(* stranger nor the clean-up on exit leaves a trace or drops an event.     *)
ListMatchesDisk == known = dirs /\ listed \cup unread \cup outfile \subseteq known

(* While the captcha is on nobody enters the list by writing to us without *)
(* having passed it, on a question whose time is not over, but for the     *)
(* people on irc.                                                          *)
OnlyTested ==
  [][\A c \in Contacts : conf.captcha /\ c \notin known /\ c \in known' =>
       \/ c \in Irc
       \/ c \in passed' /\ docaptcha(c) /\ entry.left > 0]_vars
=============================================================================
