---------------------------- MODULE EventManager ----------------------------
(***************************************************************************)
(* The outgoing side of imeventmanager (src/src/eventmanager.cc): the      *)
(* per-contact queue file "offline", its lock, the periodic resend, the    *)
(* self-flood gate, and the second process ("centerim -s ...") that        *)
(* appends to the same files.                                              *)
(*                                                                         *)
(* The program proper is the process Im.  It is single threaded: between   *)
(* two actions of Im only the other processes, the clock and a crash can   *)
(* intervene, so the steps below are cut at the system calls those can     *)
(* see.  The contacts are the ones of clist, all with a directory.         *)
(***************************************************************************)
EXTENDS Naturals, Sequences, FiniteSets

CONSTANTS
  Contacts,      \* the contact list
  Events,        \* the outgoing events a run may create
  Hooks,         \* the protocol hooks
  Im,            \* the running program
  Senders,       \* the command line processes that queue an event
  To,            \* the contact of an event
  Via,           \* the hook of an event (icq for every SMS)
  Rss,           \* the hook store() treats as always ready
  Filtered,      \* the events a pre-send external action rejects
  MaxAtOnce,     \* MAX_ATONCE
  PeriodAtOnce,  \* PERIOD_ATONCE, in clock ticks
  LockTries,     \* how often setlock looks at a lock file it finds
  NoFile,        \* the content of a file that does not exist
  None,          \* no event, no contact
  Faults         \* what may go wrong: "crash", "disk", "refuse"

Procs == {Im} \cup Senders

ASSUME ConstantsAssumption ==
  /\ To \in [Events -> Contacts]
  /\ Via \in [Events -> Hooks]
  /\ Filtered \subseteq Events
  /\ Im \notin Senders
  /\ MaxAtOnce \in Nat /\ PeriodAtOnce \in Nat /\ LockTries \in Nat
  /\ NoFile \notin Seq(Events)
  /\ None \notin Events \cup Contacts
  /\ IsFiniteSet(Events)
  /\ Faults \subseteq {"crash", "disk", "refuse"}

VARIABLES
  offline,       \* "offline" of every contact: a sequence of events or NoFile
  leftover,      \* "offline_", the file resend() renames it to
  history,       \* how often "history" records an event
  locks,         \* the lock files present, <<contact, file>>
  step,          \* where a process is in eventwrite()
  target,        \* the file it writes to
  inhand,        \* the event it writes
  tries,         \* how often it has looked at the lock
  fd,            \* the file its descriptor now leads to
  pc,            \* where Im is in resend()
  todo,          \* the contacts resend() has still to visit
  cur,           \* the contact whose offline_ it reads
  pos,           \* how many events of it it has read
  unsent,        \* the count the status bar shows
  recentlysent,  \* sends since the last quiet period
  quiet,         \* ticks since lastevent, up to PeriodAtOnce + 1
  logged,        \* hook.logged()
  created,       \* the events created so far
  queued,        \* the events some eventwrite(offline) has finished with
  rejected,      \* the events a pre-send action has rejected
  sent,          \* how often hook->send() has accepted an event
  age            \* ticks since this run of Im sent it, up to PeriodAtOnce + 1

disk == <<offline, leftover, history, locks>>
writer == <<step, target, inhand, tries, fd>>
loop == <<pc, todo, cur, pos>>
gate == <<recentlysent, quiet>>
ghosts == <<created, queued, rejected, sent, age>>
vars == <<disk, writer, loop, unsent, gate, logged, ghosts>>

LongAgo == PeriodAtOnce + 1

(* The events of a file. *)
Content(f) == IF f = NoFile THEN <<>> ELSE f

Init ==
  /\ offline = [c \in Contacts |-> NoFile]
  /\ leftover = [c \in Contacts |-> NoFile]
  /\ history = [e \in Events |-> 0]
  /\ locks = {}
  /\ step = [p \in Procs |-> "no"]
  /\ target = [p \in Procs |-> "offline"]
  /\ inhand = [p \in Procs |-> None]
  /\ tries = [p \in Procs |-> 0]
  /\ fd = [p \in Procs |-> "none"]
  /\ pc = "idle" /\ todo = {} /\ cur = None /\ pos = 0
  /\ unsent = 0 /\ recentlysent = 0 /\ quiet = LongAgo
  /\ logged = [h \in Hooks |-> FALSE]
  /\ created = {} /\ queued = {} /\ rejected = {}
  /\ sent = [e \in Events |-> 0]
  /\ age = [e \in Events |-> LongAgo]

-----------------------------------------------------------------------------
(* eventwrite(): lock, open for appending, write and close, unlock.         *)

StartWrite(p, e, file) ==
  /\ step' = [step EXCEPT ![p] = "lock"]
  /\ target' = [target EXCEPT ![p] = file]
  /\ inhand' = [inhand EXCEPT ![p] = e]
  /\ UNCHANGED <<tries, fd>>

LockOf(p) == <<To[inhand[p]], target[p]>>

(* setlock(): somebody else's lock is waited for, but not for ever. *)
LockWait(p) ==
  /\ step[p] = "lock" /\ LockOf(p) \in locks /\ tries[p] < LockTries
  /\ tries' = [tries EXCEPT ![p] = @ + 1]
  /\ UNCHANGED <<disk, step, target, inhand, fd, loop, unsent, gate, logged, ghosts>>

LockPass(p) ==
  /\ step[p] = "lock" /\ (LockOf(p) \notin locks \/ tries[p] >= LockTries)
  /\ step' = [step EXCEPT ![p] = "make"]
  /\ tries' = [tries EXCEPT ![p] = 0]
  /\ UNCHANGED <<disk, target, inhand, fd, loop, unsent, gate, logged, ghosts>>

LockMake(p) ==
  /\ step[p] = "make"
  /\ step' = [step EXCEPT ![p] = "open"]
  /\ locks' = locks \cup {LockOf(p)}
  /\ UNCHANGED <<offline, leftover, history, target, inhand, tries, fd, loop,
                 unsent, gate, logged, ghosts>>

(* An append-mode open creates the file. *)
Open(p) ==
  LET c == To[inhand[p]] IN
  /\ step[p] = "open"
  /\ step' = [step EXCEPT ![p] = "write"]
  /\ fd' = [fd EXCEPT ![p] = target[p]]
  /\ offline' = IF target[p] = "offline"
                THEN [offline EXCEPT ![c] = Content(@)] ELSE offline
  /\ UNCHANGED <<leftover, history, locks, target, inhand, tries, loop, unsent,
                 gate, logged, ghosts>>

(* When the file cannot be opened the event is silently skipped. *)
OpenFails(p) ==
  /\ "disk" \in Faults /\ step[p] = "open"
  /\ step' = [step EXCEPT ![p] = "unlock"]
  /\ UNCHANGED <<disk, target, inhand, tries, fd, loop, unsent, gate, logged, ghosts>>

(* The descriptor follows the file through a rename and into an unlink. *)
Write(p) ==
  LET e == inhand[p]  c == To[e] IN
  /\ step[p] = "write"
  /\ step' = [step EXCEPT ![p] = "unlock"]
  /\ fd' = [fd EXCEPT ![p] = "none"]
  /\ offline' = IF fd[p] = "offline"
                THEN [offline EXCEPT ![c] = Append(Content(@), e)] ELSE offline
  /\ leftover' = IF fd[p] = "offline_"
                 THEN [leftover EXCEPT ![c] = Append(Content(@), e)] ELSE leftover
  /\ history' = IF fd[p] = "history"
                THEN [history EXCEPT ![e] = @ + 1] ELSE history
  /\ UNCHANGED <<locks, target, inhand, tries, loop, unsent, gate, logged, ghosts>>

(* releaselock() removes the lock whoever made it.  After a history write  *)
(* store() stamps lastevent and counts the send.                           *)
Unlock(p) ==
  /\ step[p] = "unlock"
  /\ step' = [step EXCEPT ![p] = "no"]
  /\ target' = [target EXCEPT ![p] = "offline"]
  /\ inhand' = [inhand EXCEPT ![p] = None]
  /\ locks' = locks \ {LockOf(p)}
  /\ IF target[p] = "history"
     THEN /\ quiet' = 0 /\ recentlysent' = recentlysent + 1
          /\ UNCHANGED queued
     ELSE /\ queued' = queued \cup {inhand[p]}
          /\ UNCHANGED gate
  /\ UNCHANGED <<offline, leftover, history, tries, fd, loop, unsent, logged,
                 created, rejected, sent, age>>

EventWrite(p) ==
  \/ LockWait(p) \/ LockPass(p) \/ LockMake(p)
  \/ Open(p) \/ OpenFails(p) \/ Write(p) \/ Unlock(p)

-----------------------------------------------------------------------------
(* store() of an outgoing event.                                           *)

Free(p) == step[p] = "no"

(* A pre-send external action may reject the event: it goes nowhere. *)
Reject(e) ==
  /\ e \in Filtered
  /\ rejected' = rejected \cup {e}
  /\ UNCHANGED <<disk, writer, unsent, gate, sent, age>>

(* The burst counter is forgotten after a quiet period. *)
BurstBoundaryMutant == IF quiet >= PeriodAtOnce THEN 0 ELSE recentlysent
BurstNeverResetMutant == recentlysent
Burst == IF quiet > PeriodAtOnce THEN 0 ELSE recentlysent

Ready(e) == (logged[Via[e]] \/ Via[e] = Rss) /\ Burst < MaxAtOnce

Deliver(e) ==
  /\ e \notin Filtered /\ Ready(e)
  /\ sent' = [sent EXCEPT ![e] = @ + 1]
  /\ age' = [age EXCEPT ![e] = 0]
  /\ recentlysent' = Burst
  /\ StartWrite(Im, e, "history")
  /\ UNCHANGED <<disk, unsent, quiet, rejected>>

PostponeUncountedMutant(e) ==
  /\ e \notin Filtered
  /\ ~Ready(e) \/ "refuse" \in Faults \/ Via[e] = Rss
  /\ recentlysent' = Burst
  /\ StartWrite(Im, e, "offline")
  /\ UNCHANGED <<disk, unsent, quiet, rejected, sent, age>>

PostponeToHistoryMutant(e) ==
  /\ e \notin Filtered
  /\ ~Ready(e) \/ "refuse" \in Faults \/ Via[e] = Rss
  /\ recentlysent' = Burst
  /\ unsent' = unsent + 1
  /\ StartWrite(Im, e, "history")
  /\ UNCHANGED <<disk, quiet, rejected, sent, age>>

PostponeAfterSendMutant(e) ==
  /\ e \notin Filtered
  /\ ~Ready(e) \/ "refuse" \in Faults \/ Via[e] = Rss
  /\ recentlysent' = Burst
  /\ unsent' = unsent + 1
  /\ sent' = [sent EXCEPT ![e] = @ + 1]
  /\ StartWrite(Im, e, "offline")
  /\ UNCHANGED <<disk, quiet, rejected, age>>

(* Not now: flooding, not logged in, or hook->send() said no. *)
Postpone(e) ==
  /\ e \notin Filtered
  /\ ~Ready(e) \/ "refuse" \in Faults \/ Via[e] = Rss
  /\ recentlysent' = Burst
  /\ unsent' = unsent + 1
  /\ StartWrite(Im, e, "offline")
  /\ UNCHANGED <<disk, quiet, rejected, sent, age>>

Store(e) == Reject(e) \/ Deliver(e) \/ Postpone(e)

(* The user finishes writing an event. *)
Submit(e) ==
  /\ pc = "idle" /\ Free(Im) /\ e \notin created
  /\ created' = created \cup {e}
  /\ Store(e)
  /\ UNCHANGED <<loop, logged, queued>>

(* "centerim -s": a process in which no hook is logged in and no external  *)
(* action loaded, so store() goes straight to the queue file.              *)
SenderStore(p, e) ==
  /\ Free(p) /\ e \notin created
  /\ created' = created \cup {e}
  /\ StartWrite(p, e, "offline")
  /\ UNCHANGED <<disk, loop, unsent, gate, logged, queued, rejected, sent, age>>

-----------------------------------------------------------------------------
(* resend(), from the timers of the main loop.                             *)

ResendBegin ==
  /\ pc = "idle" /\ Free(Im)
  /\ pc' = "resend" /\ todo' = Contacts /\ unsent' = 0
  /\ UNCHANGED <<disk, writer, cur, pos, gate, logged, ghosts>>

ResendSkip(c) ==
  /\ pc = "resend" /\ c \in todo /\ offline[c] = NoFile
  /\ todo' = todo \ {c}
  /\ UNCHANGED <<disk, writer, pc, cur, pos, unsent, gate, logged, ghosts>>

ResendRereadMutant(c) ==
  /\ pc = "resend" /\ c \in todo /\ offline[c] # NoFile
  /\ IF leftover[c] = NoFile
     THEN leftover' = [leftover EXCEPT ![c] = offline[c]]
          /\ offline' = [offline EXCEPT ![c] = NoFile]
     ELSE UNCHANGED <<leftover, offline>>
  /\ todo' = todo \ {c} /\ cur' = c /\ pos' = 0 /\ pc' = "read"
  /\ UNCHANGED <<history, locks, writer, unsent, gate, logged, ghosts>>

(* Rename, replacing an offline_ that a crash may have left, and open it. *)
ResendRename(c) ==
  /\ pc = "resend" /\ c \in todo /\ offline[c] # NoFile
  /\ leftover' = [leftover EXCEPT ![c] = offline[c]]
  /\ offline' = [offline EXCEPT ![c] = NoFile]
  /\ fd' = [p \in Procs |->
              IF inhand[p] = None \/ To[inhand[p]] # c THEN fd[p]
              ELSE CASE fd[p] = "offline" -> "offline_"
                     [] fd[p] = "offline_" -> "gone"
                     [] OTHER -> fd[p]]
  /\ todo' = todo \ {c} /\ cur' = c /\ pos' = 0
  /\ \/ pc' = "read"
     \/ pc' = "unlink" /\ "disk" \in Faults
  /\ UNCHANGED <<history, locks, step, target, inhand, tries, unsent, gate,
                 logged, ghosts>>

ResendStore ==
  /\ pc = "read" /\ Free(Im) /\ pos < Len(leftover[cur])
  /\ pos' = pos + 1
  /\ Store(leftover[cur][pos + 1])
  /\ UNCHANGED <<pc, todo, cur, logged, created, queued>>

ResendStopFloodedMutant ==
  /\ pc = "read" /\ Free(Im)
  /\ pos = Len(leftover[cur]) \/ recentlysent >= MaxAtOnce
  /\ pc' = "unlink"
  /\ UNCHANGED <<disk, writer, todo, cur, pos, unsent, gate, logged, ghosts>>

ResendEof ==
  /\ pc = "read" /\ Free(Im) /\ pos = Len(leftover[cur])
  /\ pc' = "unlink"
  /\ UNCHANGED <<disk, writer, todo, cur, pos, unsent, gate, logged, ghosts>>

ResendUnlink ==
  /\ pc = "unlink"
  /\ leftover' = [leftover EXCEPT ![cur] = NoFile]
  /\ fd' = [p \in Procs |->
              IF inhand[p] # None /\ To[inhand[p]] = cur /\ fd[p] = "offline_"
              THEN "gone" ELSE fd[p]]
  /\ pc' = "resend" /\ cur' = None /\ pos' = 0
  /\ UNCHANGED <<offline, history, locks, step, target, inhand, tries, todo,
                 unsent, gate, logged, ghosts>>

ResendEnd ==
  /\ pc = "resend" /\ todo = {}
  /\ pc' = "idle"
  /\ UNCHANGED <<disk, writer, todo, cur, pos, unsent, gate, logged, ghosts>>

Resend ==
  \/ ResendBegin \/ ResendStore \/ ResendEof \/ ResendUnlink \/ ResendEnd
  \/ \E c \in Contacts : ResendSkip(c) \/ ResendRename(c)

-----------------------------------------------------------------------------
(* The environment.                                                        *)

HookChange(h) ==
  /\ pc # "down" /\ Free(Im)
  /\ logged' = [logged EXCEPT ![h] = ~@]
  /\ UNCHANGED <<disk, writer, loop, unsent, gate, ghosts>>

Older(n) == IF n < LongAgo THEN n + 1 ELSE n

Tick ==
  /\ quiet' = Older(quiet)
  /\ age' = [e \in Events |-> Older(age[e])]
  /\ <<quiet, age>>' # <<quiet, age>>
  /\ UNCHANGED <<disk, writer, loop, unsent, recentlysent, logged,
                 created, queued, rejected, sent>>

(* The program dies; the files, lock files included, stay. *)
Crash ==
  /\ "crash" \in Faults /\ pc # "down"
  /\ pc' = "down" /\ todo' = {} /\ cur' = None /\ pos' = 0
  /\ step' = [step EXCEPT ![Im] = "no"]
  /\ target' = [target EXCEPT ![Im] = "offline"]
  /\ inhand' = [inhand EXCEPT ![Im] = None]
  /\ tries' = [tries EXCEPT ![Im] = 0]
  /\ fd' = [fd EXCEPT ![Im] = "none"]
  /\ unsent' = 0 /\ recentlysent' = 0 /\ quiet' = LongAgo
  /\ age' = [e \in Events |-> LongAgo]
  /\ logged' = [h \in Hooks |-> FALSE]
  /\ UNCHANGED <<disk, created, queued, rejected, sent>>

Restart ==
  /\ pc = "down"
  /\ pc' = "idle"
  /\ UNCHANGED <<disk, writer, todo, cur, pos, unsent, gate, logged, ghosts>>

Next ==
  \/ \E p \in Procs : EventWrite(p)
  \/ \E e \in Events : Submit(e)
  \/ \E p \in Senders, e \in Events : SenderStore(p, e)
  \/ Resend
  \/ \E h \in Hooks : HookChange(h)
  \/ Tick \/ Crash \/ Restart

Spec == Init /\ [][Next]_vars

(* The main loop keeps turning, the clock too; a lock is given up at last. *)
Fairness ==
  /\ \A p \in Procs : WF_vars(EventWrite(p))
  /\ WF_vars(Resend)
  /\ WF_vars(Tick)
  /\ WF_vars(Restart)

FairSpec == Spec /\ Fairness

-----------------------------------------------------------------------------
(* Properties.                                                             *)

Files == {"offline", "history"}
Descriptors == {"none", "offline", "offline_", "history", "gone"}

(* The types of the variables of imeventmanager and of the files it keeps. *)
TypeOK ==
  /\ offline \in [Contacts -> Seq(Events) \cup {NoFile}]
  /\ leftover \in [Contacts -> Seq(Events) \cup {NoFile}]
  /\ history \in [Events -> Nat]
  /\ locks \subseteq Contacts \X Files
  /\ step \in [Procs -> {"no", "lock", "make", "open", "write", "unlock"}]
  /\ target \in [Procs -> Files]
  /\ inhand \in [Procs -> Events \cup {None}]
  /\ tries \in [Procs -> Nat]
  /\ fd \in [Procs -> Descriptors]
  /\ pc \in {"idle", "resend", "read", "unlink", "down"}
  /\ todo \subseteq Contacts
  /\ cur \in Contacts \cup {None}
  /\ pos \in Nat
  /\ unsent \in Nat /\ recentlysent \in Nat /\ quiet \in 0 .. LongAgo
  /\ logged \in [Hooks -> BOOLEAN]
  /\ created \subseteq Events /\ queued \subseteq Events
  /\ rejected \subseteq Events
  /\ sent \in [Events -> Nat]
  /\ age \in [Events -> 0 .. LongAgo]
  /\ \A p \in Procs : step[p] # "no" => inhand[p] \in Events
  /\ pc \in {"read", "unlink"} => cur \in Contacts /\ leftover[cur] # NoFile

(* No event is handed to the network twice, whatever crashes, races with   *)
(* command line senders and failing sends resend() goes through.           *)
NoDuplicateSend == \A e \in Events : sent[e] <= 1

(* The self-flood protection of store(): a run of the program never hands  *)
(* more than MAX_ATONCE events to the network in PERIOD_ATONCE seconds,    *)
(* the resend of a long queue included.                                    *)
Window == {e \in Events : age[e] <= PeriodAtOnce}
FloodBound == Cardinality(Window) <= MaxAtOnce

InFile(f, e) == \E i \in DOMAIN Content(f) : Content(f)[i] = e
InHand(e) == \E p \in Procs : step[p] # "no" /\ inhand[p] = e
Kept(e) == InHand(e) \/ InFile(offline[To[e]], e) \/ InFile(leftover[To[e]], e)

Done(e) == sent[e] > 0 \/ e \in rejected
Somewhere(e) == Done(e) \/ Kept(e)

(* Why: an event still to be sent waits in exactly one place, the queue    *)
(* file, the unread rest of the file resend() reads, or the hands of a     *)
(* process about to write it to the queue file, and there only once.       *)
Reading(e) ==
  /\ pc = "read" /\ cur = To[e]
  /\ \E i \in DOMAIN leftover[cur] : i > pos /\ leftover[cur][i] = e
Writing(p, e) ==
  step[p] \in {"lock", "make", "open", "write"} /\ target[p] = "offline" /\ inhand[p] = e
Queued(e) == InFile(offline[To[e]], e)

Unsent == \A e \in Events :
  /\ Queued(e) \/ Reading(e) \/ (\E p \in Procs : Writing(p, e)) => sent[e] = 0
  /\ Queued(e) \/ Reading(e) \/ (\E p \in Procs : Writing(p, e)) => e \in created
  /\ sent[e] > 0 => e \in created
OnePlace == \A e \in Events :
  /\ ~(Queued(e) /\ Reading(e))
  /\ \A p \in Procs : Writing(p, e) => ~Queued(e) /\ ~Reading(e)
  /\ \A p, q \in Procs : Writing(p, e) /\ Writing(q, e) => p = q
Distinct(f) == \A i, j \in DOMAIN Content(f) : Content(f)[i] = Content(f)[j] => i = j
Filed(f, c) == \A i \in DOMAIN Content(f) : To[Content(f)[i]] = c
FilesDistinct ==
  /\ \A c \in Contacts :
       Distinct(offline[c]) /\ Filed(offline[c], c) /\ Filed(leftover[c], c)
  /\ pc = "read" => /\ pos <= Len(leftover[cur])
                    /\ \A i, j \in DOMAIN leftover[cur] :
                         i > pos /\ j > pos /\ leftover[cur][i] = leftover[cur][j] => i = j
HistoryApart == \A p \in Procs :
  /\ step[p] # "write" => fd[p] = "none"
  /\ step[p] = "write" => (fd[p] = "history" <=> target[p] = "history")
SendOnce ==
  NoDuplicateSend /\ Unsent /\ OnePlace /\ FilesDistinct /\ HistoryApart

(* With one process and no fault, every event the user wrote is sent,      *)
(* rejected by a pre-send action, or still in a queue file.                *)
NothingLost == \A e \in created : Somewhere(e)

(* What README 9.2.1 says of the outgoing queue: an event put there, from  *)
(* whatever process, is kept until it is sent.                             *)
QueuedNotLost == \A e \in queued : Somewhere(e)

(* Outside eventwrite() the history records just what was sent.            *)
HistoryExact ==
  Free(Im) => \A e \in Events : history[e] = sent[e]

(* The history never records an event that was not sent, nor twice.        *)
HistorySound == \A e \in Events : history[e] <= sent[e]

InQueue == {e \in Events : Queued(e)}

(* With one process and no fault, the count of unsent events on the status *)
(* bar is the number of events in the queue files.                         *)
UnsentExact == pc = "idle" /\ Free(Im) => unsent = Cardinality(InQueue)

(* Once every protocol stays logged in, every event the user created is    *)
(* sent (or rejected): the flood gate and the requeueing starve nobody.    *)
EventuallySent ==
  <>[](\A h \in Hooks : logged[h]) =>
    \A e \in Events : [](e \in created => <>Done(e))

Pending == {e \in Events : Kept(e) /\ ~Done(e)}

Queue == INSTANCE OutQueue WITH
  pending <- Pending, delivered <- sent, dropped <- rejected,
  MayLose <- Senders # {} \/ Faults # {}

(* The files and loops above implement an outgoing queue that delivers     *)
(* each event at most once, and exactly once while nothing fails.          *)
QueueSpec == Queue!Spec
=============================================================================
