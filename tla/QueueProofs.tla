---------------------------- MODULE QueueProofs -----------------------------
(***************************************************************************)
(* Proofs that the files and loops of EventManager are the queue that      *)
(* OutQueue promises, for any contacts, events, hooks, senders, limits and *)
(* faults, and what follows for the history and the flood gate.            *)
(***************************************************************************)
EXTENDS EventManagerProofs, FiniteSetTheorems

(* An event that may still be sent by somebody. *)
Waits(e) == Queued(e) \/ Reading(e) \/ \E p \in Procs : Writing(p, e)

(* An event is rejected once only, and no file holds what nobody created.  *)
Known == \A e \in Events :
  /\ Waits(e) => e \notin rejected
  /\ Kept(e) \/ e \in rejected => e \in created

InLeft(e) == InFile(leftover[To[e]], e)

LEMMA KeptWhere ==
  \A e : /\ Kept(e) <=> InHand(e) \/ Queued(e) \/ InLeft(e)
         /\ Kept(e)' <=> InHand(e)' \/ Queued(e)' \/ InLeft(e)'
BY DEF Kept, Queued, InLeft

(* What waits is kept. *)
LEMMA WaitsKept ==
  ASSUME TypeOK, NEW e \in Events, Waits(e) PROVE Kept(e)
<1>1. CASE Queued(e)
  BY <1>1 DEF Kept, Queued
<1>2. CASE Reading(e)
  <2>1. cur = To[e] /\ cur \in Contacts /\ Content(leftover[cur]) = leftover[cur]
    BY <1>2 DEF Reading, TypeOK, Content
  <2> QED
    BY <1>2, <2>1 DEF Kept, Reading, InFile
<1>3. CASE \E p \in Procs : Writing(p, e)
  BY <1>3 DEF Kept, InHand, Writing
<1> QED
  BY <1>1, <1>2, <1>3 DEF Waits

(* A step that creates, sends and rejects nothing, and after which nothing *)
(* waits or is kept that was not so before.                                *)
Still ==
  /\ UNCHANGED <<sent, rejected, created>>
  /\ \A e \in Events : (Waits(e)' => Waits(e)) /\ (Kept(e)' => Kept(e))

LEMMA KnownStill == Known /\ Still => Known'
BY DEF Known, Still

LEMMA KnownInit == Init => Known
<1> SUFFICES ASSUME Init PROVE Known
  OBVIOUS
<1>1. \A e \in Events : ~Kept(e)
  BY ConstantsAssumption DEF Init, Kept, InHand, InFile, Content
<1>2. \A e \in Events : ~Waits(e)
  BY ConstantsAssumption DEF Init, Waits, Queued, Reading, Writing, InFile, Content
<1> QED
  BY <1>1, <1>2 DEF Init, Known

-----------------------------------------------------------------------------
(* Where events go in the steps of eventwrite().                           *)

LEMMA SameFiles ==
  ASSUME UNCHANGED <<offline, leftover>>
  PROVE  \A e : (Queued(e)' <=> Queued(e)) /\ (InLeft(e)' <=> InLeft(e))
BY DEF Queued, InLeft, InFile, Content

(* The lock is taken, or the file does not open. *)
LEMMA LockKeeps ==
  ASSUME TypeOK, NEW p \in Procs, LockWait(p) \/ LockPass(p) \/ LockMake(p) \/ OpenFails(p)
  PROVE  /\ UNCHANGED <<offline, leftover, sent, rejected, created, target, inhand, loop>>
         /\ \A e \in Events : (InHand(e)' <=> InHand(e)) /\ (Waits(e)' => Waits(e))
<1>1. /\ UNCHANGED <<offline, leftover, sent, rejected, created, target, inhand, loop>>
      /\ step[p] \in {"lock", "make", "open"}
      /\ step' \in [Procs -> {"no", "lock", "make", "open", "write", "unlock"}]
      /\ step'[p] \in {"lock", "make", "open", "unlock"}
      /\ \A q \in Procs \ {p} : step'[q] = step[q]
  BY DEF LockWait, LockPass, LockMake, OpenFails, disk, ghosts, TypeOK
<1>2. \A e \in Events : InHand(e)' <=> InHand(e)
  BY <1>1 DEF InHand
<1>3. \A e \in Events, q \in Procs : Writing(q, e)' => Writing(q, e)
  BY <1>1 DEF Writing
<1>4. \A e \in Events : (Reading(e)' <=> Reading(e)) /\ (Queued(e)' <=> Queued(e))
  BY <1>1, SameFiles DEF Reading, loop
<1> QED
  BY <1>1, <1>2, <1>3, <1>4 DEF Waits

LEMMA OpenKeeps ==
  ASSUME TypeOK, NEW p \in Procs, Open(p)
  PROVE  /\ UNCHANGED <<leftover, sent, rejected, created, target, inhand, loop>>
         /\ \A e \in Events : /\ InHand(e)' <=> InHand(e)
                              /\ Queued(e)' <=> Queued(e)
                              /\ Waits(e)' => Waits(e)
<1>1. /\ UNCHANGED <<leftover, sent, rejected, created, target, inhand, loop>>
      /\ step[p] = "open" /\ step' = [step EXCEPT ![p] = "write"]
  BY DEF Open, ghosts
<1>2. To[inhand[p]] \in Contacts
  BY <1>1, ConstantsAssumption DEF TypeOK
<1>3. \A c \in Contacts : Content(offline'[c]) = Content(offline[c])
  BY <1>2, ConstantsAssumption DEF Open, TypeOK, Content
<1>4. \A e \in Events : Queued(e)' <=> Queued(e)
  BY <1>3, ConstantsAssumption DEF Queued, InFile
<1>5. \A e \in Events : InHand(e)' <=> InHand(e)
  BY <1>1 DEF InHand, TypeOK
<1>6. \A e \in Events : (Reading(e)' <=> Reading(e)) /\ \A q \in Procs : Writing(q, e)' <=> Writing(q, e)
  BY <1>1 DEF Reading, Writing, TypeOK, loop
<1> QED
  BY <1>1, <1>4, <1>5, <1>6 DEF Waits

LEMMA AppendIn ==
  ASSUME NEW f \in Seq(Events) \cup {NoFile}, NEW e \in Events, NEW d \in Events
  PROVE  InFile(Append(Content(f), e), d) <=> InFile(f, d) \/ d = e
<1> DEFINE s == Content(f)
           t == Append(s, e)
<1>1. s \in Seq(Events) /\ Content(t) = t
  BY ContentType, AppendType DEF Content
<1>2. \A i \in DOMAIN t : t[i] = IF i = Len(s) + 1 THEN e ELSE s[i]
  BY <1>1
<1>3. DOMAIN t = DOMAIN s \cup {Len(s) + 1} /\ Len(s) + 1 \notin DOMAIN s
  BY <1>1
<1> HIDE DEF s, t
<1>4. (\E i \in DOMAIN t : t[i] = d) <=> (\E i \in DOMAIN s : s[i] = d) \/ d = e
  BY <1>2, <1>3
<1> QED
  BY <1>1, <1>4 DEF InFile, s, t

(* The event that is written gets from a process's hands into the file the *)
(* descriptor leads to, if that still exists.                              *)
LEMMA WriteKeeps ==
  ASSUME TypeOK, SendOnce, NEW p \in Procs, Write(p)
  PROVE  /\ UNCHANGED <<sent, rejected, created, target, inhand, loop>>
         /\ inhand[p] \in Events
         /\ \A e \in Events :
              /\ InHand(e)' <=> InHand(e)
              /\ Queued(e)' <=> Queued(e) \/ (fd[p] = "offline" /\ e = inhand[p])
              /\ InLeft(e)' <=> InLeft(e) \/ (fd[p] = "offline_" /\ e = inhand[p])
              /\ Waits(e)' => Waits(e)
<1> DEFINE d == inhand[p]
           c == To[d]
<1>1. d \in Events /\ c \in Contacts
  BY ConstantsAssumption DEF Write, TypeOK
<1>2. /\ UNCHANGED <<sent, rejected, created, target, inhand, loop>>
      /\ step[p] = "write" /\ step' = [step EXCEPT ![p] = "unlock"]
  BY DEF Write, ghosts
<1>3. \A e \in Events : To[e] \in Contacts
  BY ConstantsAssumption
<1>4. \A e \in Events : InHand(e)' <=> InHand(e)
  BY <1>2 DEF InHand, TypeOK
<1>5. \A e \in Events : Queued(e)' <=> Queued(e) \/ (fd[p] = "offline" /\ e = d)
  <2>1. CASE fd[p] = "offline"
    <3>1. /\ offline'[c] = Append(Content(offline[c]), d)
          /\ \A x \in Contacts \ {c} : offline'[x] = offline[x]
          /\ offline[c] \in Seq(Events) \cup {NoFile}
      BY <1>1, <2>1 DEF Write, TypeOK
    <3> HIDE DEF c, d
    <3>2. \A e \in Events : InFile(offline'[c], e) <=> InFile(offline[c], e) \/ e = d
      BY <1>1, <3>1, AppendIn
    <3>3. \A e \in Events : Queued(e)' <=> InFile(offline'[To[e]], e)
      BY DEF Queued, InFile, Content
    <3>4. To[d] = c
      BY DEF c
    <3>5. ASSUME NEW e \in Events, To[e] = c PROVE Queued(e)' <=> Queued(e) \/ e = d
      BY <3>2, <3>3, <3>5 DEF Queued
    <3>6. ASSUME NEW e \in Events, To[e] # c PROVE Queued(e)' <=> Queued(e) \/ e = d
      BY <1>3, <3>1, <3>3, <3>4, <3>6 DEF Queued
    <3> QED
      BY <2>1, <3>5, <3>6
  <2>2. CASE fd[p] # "offline"
    BY <2>2 DEF Write, Queued
  <2> QED
    BY <2>1, <2>2
<1>6. \A e \in Events : InLeft(e)' <=> InLeft(e) \/ (fd[p] = "offline_" /\ e = d)
  <2>1. CASE fd[p] = "offline_"
    <3>1. /\ leftover'[c] = Append(Content(leftover[c]), d)
          /\ \A x \in Contacts \ {c} : leftover'[x] = leftover[x]
          /\ leftover[c] \in Seq(Events) \cup {NoFile}
      BY <1>1, <2>1 DEF Write, TypeOK
    <3> HIDE DEF c, d
    <3>2. \A e \in Events : InFile(leftover'[c], e) <=> InFile(leftover[c], e) \/ e = d
      BY <1>1, <3>1, AppendIn
    <3>3. \A e \in Events : InLeft(e)' <=> InFile(leftover'[To[e]], e)
      BY DEF InLeft, InFile, Content
    <3>4. To[d] = c
      BY DEF c
    <3>5. ASSUME NEW e \in Events, To[e] = c PROVE InLeft(e)' <=> InLeft(e) \/ e = d
      BY <3>2, <3>3, <3>5 DEF InLeft
    <3>6. ASSUME NEW e \in Events, To[e] # c PROVE InLeft(e)' <=> InLeft(e) \/ e = d
      BY <1>3, <3>1, <3>3, <3>4, <3>6 DEF InLeft
    <3> QED
      BY <2>1, <3>5, <3>6
  <2>2. CASE fd[p] # "offline_"
    BY <2>2 DEF Write, InLeft
  <2> QED
    BY <2>1, <2>2
<1>7. fd[p] \in {"offline", "offline_"} => Writing(p, d)
  BY <1>2 DEF SendOnce, HistoryApart, Writing, TypeOK, Files
<1>8. \A e \in Events, q \in Procs : Writing(q, e)' => Writing(q, e)
  BY <1>2 DEF Writing, TypeOK
<1>9. ASSUME NEW e \in Events, Reading(e)', ~Reading(e)
      PROVE  fd[p] = "offline_" /\ e = d
  <2>1. pc = "read" /\ cur = To[e] /\ pos' = pos /\ cur' = cur /\ cur \in Contacts
    BY <1>2, <1>3, <1>9 DEF Reading, loop
  <2>2. leftover' # leftover
    BY <1>9, <2>1 DEF Reading
  <2>3. /\ fd[p] = "offline_"
        /\ leftover' = [leftover EXCEPT ![c] = Append(Content(leftover[c]), d)]
    BY <2>2 DEF Write
  <2>4. cur = c
    BY <1>9, <2>1, <2>3 DEF Reading, TypeOK
  <2>5. /\ leftover[c] \in Seq(Events) /\ Content(leftover[c]) = leftover[c]
        /\ leftover'[c] = Append(leftover[c], d)
    BY <1>1, <2>1, <2>3, <2>4 DEF TypeOK, Content
  <2> HIDE DEF c, d
  <2>6. PICK i \in DOMAIN leftover'[c] : i > pos /\ leftover'[c][i] = e
    BY <1>9, <2>1, <2>4 DEF Reading
  <2>7. ~(\E j \in DOMAIN leftover[c] : j > pos /\ leftover[c][j] = e)
    BY <1>9, <2>1, <2>4 DEF Reading
  <2>8. e = d
    BY <1>1, <2>5, <2>6, <2>7
  <2> QED
    BY <2>3, <2>8
<1> QED
  BY <1>1, <1>2, <1>4, <1>5, <1>6, <1>7, <1>8, <1>9 DEF Waits

(* When a process is done it lets go of its event. *)
LEMMA UnlockKeeps ==
  ASSUME TypeOK, NEW p \in Procs, Unlock(p)
  PROVE  /\ UNCHANGED <<offline, leftover, sent, rejected, created, loop>>
         /\ \A e \in Events :
              /\ InHand(e)' => InHand(e)
              /\ InHand(e) => InHand(e)' \/ e = inhand[p]
              /\ Waits(e)' => Waits(e)
<1>1. /\ UNCHANGED <<offline, leftover, sent, rejected, created, loop>>
      /\ step[p] = "unlock" /\ step' = [step EXCEPT ![p] = "no"]
      /\ target' = [target EXCEPT ![p] = "offline"]
      /\ inhand' = [inhand EXCEPT ![p] = None]
  BY DEF Unlock
<1>2. \A e \in Events : (InHand(e)' => InHand(e)) /\ (InHand(e) => InHand(e)' \/ e = inhand[p])
  BY <1>1 DEF InHand, TypeOK
<1>3. \A e \in Events, q \in Procs : Writing(q, e)' => Writing(q, e)
  BY <1>1 DEF Writing, TypeOK
<1>4. \A e \in Events : (Reading(e)' <=> Reading(e)) /\ (Queued(e)' <=> Queued(e))
  BY <1>1, SameFiles DEF Reading, loop
<1> QED
  BY <1>1, <1>2, <1>3, <1>4 DEF Waits

-----------------------------------------------------------------------------
(* Where events go in the steps of resend() and of the environment.        *)

(* Steps that touch no file and no writer, and do not read on. *)
Walk ==
  \/ ResendBegin \/ (\E c \in Contacts : ResendSkip(c)) \/ ResendEof \/ ResendEnd
  \/ (\E h \in Hooks : HookChange(h)) \/ Tick \/ Restart \/ UNCHANGED vars

LEMMA WalkKeeps ==
  ASSUME Walk
  PROVE  /\ UNCHANGED <<disk, writer, sent, rejected, created>>
         /\ \A e \in Events : (InHand(e)' <=> InHand(e)) /\ (Waits(e)' => Waits(e))
<1>1. /\ UNCHANGED <<disk, writer, sent, rejected, created>>
      /\ pc' # "read" \/ UNCHANGED <<pc, cur, pos>>
  BY DEF Walk, ResendBegin, ResendSkip, ResendEof, ResendEnd, HookChange, Tick, Restart,
         vars, loop, ghosts
<1>2. \A e \in Events : (InHand(e)' <=> InHand(e)) /\ \A p \in Procs : Writing(p, e)' <=> Writing(p, e)
  BY <1>1 DEF writer, InHand, Writing
<1>3. \A e \in Events : (Queued(e)' <=> Queued(e)) /\ (Reading(e)' => Reading(e))
  BY <1>1, SameFiles DEF disk, Reading
<1> QED
  BY <1>1, <1>2, <1>3 DEF Waits

(* The rename makes of what is queued the file that is read, in the place  *)
(* of whatever was there.                                                  *)
LEMMA RenameKeeps ==
  ASSUME TypeOK, NEW c \in Contacts, ResendRename(c)
  PROVE  /\ UNCHANGED <<history, step, target, inhand, sent, rejected, created>>
         /\ \A e \in Events :
              /\ InHand(e)' <=> InHand(e)
              /\ Queued(e)' <=> Queued(e) /\ To[e] # c
              /\ InLeft(e)' <=> IF To[e] = c THEN Queued(e) ELSE InLeft(e)
              /\ Waits(e)' => Waits(e)
<1>1. /\ UNCHANGED <<history, step, target, inhand, sent, rejected, created>>
      /\ leftover' = [leftover EXCEPT ![c] = offline[c]]
      /\ offline' = [offline EXCEPT ![c] = NoFile]
      /\ cur' = c /\ pos' = 0 /\ offline[c] # NoFile
  BY DEF ResendRename, ghosts
<1>2. /\ leftover'[c] = offline[c] /\ offline'[c] = NoFile /\ Content(offline[c]) = offline[c]
      /\ \A x \in Contacts \ {c} : offline'[x] = offline[x] /\ leftover'[x] = leftover[x]
  BY <1>1 DEF TypeOK, Content
<1>3. \A e \in Events : To[e] \in Contacts
  BY ConstantsAssumption
<1>4. \A e \in Events : Queued(e)' <=> Queued(e) /\ To[e] # c
  BY <1>2, <1>3 DEF Queued, InFile, Content
<1>5. \A e \in Events : InLeft(e)' <=> IF To[e] = c THEN Queued(e) ELSE InLeft(e)
  BY <1>2, <1>3 DEF InLeft, Queued, InFile, Content
<1>6. \A e \in Events : Reading(e)' => Queued(e)
  BY <1>1, <1>2 DEF Reading, Queued, InFile
<1>7. \A e \in Events : (InHand(e)' <=> InHand(e)) /\ \A p \in Procs : Writing(p, e)' <=> Writing(p, e)
  BY <1>1 DEF InHand, Writing
<1> QED
  BY <1>1, <1>4, <1>5, <1>6, <1>7 DEF Waits

LEMMA UnlinkKeeps ==
  ASSUME TypeOK, ResendUnlink
  PROVE  /\ UNCHANGED <<history, step, target, inhand, sent, rejected, created>>
         /\ \A e \in Events :
              /\ InHand(e)' <=> InHand(e)
              /\ Queued(e)' <=> Queued(e)
              /\ InLeft(e)' <=> InLeft(e) /\ To[e] # cur
              /\ Waits(e)' => Waits(e)
<1>1. /\ UNCHANGED <<offline, history, step, target, inhand, sent, rejected, created>>
      /\ leftover' = [leftover EXCEPT ![cur] = NoFile]
      /\ pc' = "resend" /\ cur \in Contacts
  BY DEF ResendUnlink, ghosts, TypeOK
<1>2. \A e \in Events : To[e] \in Contacts
  BY ConstantsAssumption
<1>3. \A e \in Events : InLeft(e)' <=> InLeft(e) /\ To[e] # cur
  BY <1>1, <1>2 DEF InLeft, InFile, Content, TypeOK
<1>4. \A e \in Events : ~Reading(e)' /\ (Queued(e)' <=> Queued(e))
  BY <1>1 DEF Reading, Queued
<1>5. \A e \in Events : (InHand(e)' <=> InHand(e)) /\ \A p \in Procs : Writing(p, e)' <=> Writing(p, e)
  BY <1>1 DEF InHand, Writing
<1> QED
  BY <1>1, <1>3, <1>4, <1>5 DEF Waits

LEMMA CrashKeeps ==
  ASSUME TypeOK, Crash
  PROVE  /\ UNCHANGED <<disk, sent, rejected, created>>
         /\ \A e \in Events : (InHand(e)' => InHand(e)) /\ (Waits(e)' => Waits(e))
<1>1. /\ UNCHANGED <<disk, sent, rejected, created>> /\ pc' = "down"
      /\ step' = [step EXCEPT ![Im] = "no"]
      /\ target' = [target EXCEPT ![Im] = "offline"]
      /\ inhand' = [inhand EXCEPT ![Im] = None]
  BY DEF Crash
<1>2. \A e \in Events : (InHand(e)' => InHand(e)) /\ \A p \in Procs : Writing(p, e)' => Writing(p, e)
  BY <1>1 DEF InHand, Writing, TypeOK
<1>3. \A e \in Events : ~Reading(e)' /\ (Queued(e)' <=> Queued(e))
  BY <1>1, SameFiles DEF Reading, disk
<1> QED
  BY <1>1, <1>2, <1>3 DEF Waits

-----------------------------------------------------------------------------
(* store().                                                                *)

LEMMA StartKeeps ==
  ASSUME TypeOK, NEW p \in Procs, Free(p), NEW e \in Events, NEW file \in Files,
         StartWrite(p, e, file)
  PROVE  /\ \A d \in Events : InHand(d)' <=> InHand(d) \/ d = e
         /\ \A d \in Events, q \in Procs :
              Writing(q, d)' <=> Writing(q, d) \/ (q = p /\ d = e /\ file = "offline")
<1>1. /\ step[p] = "no" /\ step' = [step EXCEPT ![p] = "lock"]
      /\ target' = [target EXCEPT ![p] = file] /\ inhand' = [inhand EXCEPT ![p] = e]
  BY DEF Free, StartWrite
<1>2. \A d \in Events : InHand(d)' <=> InHand(d) \/ d = e
  BY <1>1 DEF InHand, TypeOK
<1>3. \A d \in Events, q \in Procs :
        Writing(q, d)' <=> Writing(q, d) \/ (q = p /\ d = e /\ file = "offline")
  BY <1>1 DEF Writing, TypeOK
<1> QED
  BY <1>2, <1>3

(* The event is rejected, sent, or taken in hand to be queued. *)
LEMMA StoreKeeps ==
  ASSUME TypeOK, Free(Im), NEW e \in Events, Store(e)
  PROVE  /\ UNCHANGED <<offline, leftover, history>>
         /\ \A d \in Events :
              /\ InHand(d) => InHand(d)'
              /\ InHand(d)' => InHand(d) \/ d = e
              /\ \A p \in Procs : Writing(p, d)' => Writing(p, d) \/ d = e
         /\ \/ Reject(e)
            \/ Deliver(e)
            \/ Postpone(e) /\ InHand(e)'
         /\ (\E p \in Procs : Writing(p, e)') => (\E p \in Procs : Writing(p, e)) \/ Postpone(e)
<1>1. UNCHANGED <<offline, leftover, history>>
  BY DEF Store, Reject, Deliver, Postpone, disk
<1>2. CASE Reject(e)
  BY <1>1, <1>2 DEF Reject, writer, InHand, Writing
<1>3. CASE Deliver(e)
  BY <1>1, <1>3, StartKeeps DEF Deliver, Files, Procs
<1>4. CASE Postpone(e)
  BY <1>1, <1>4, StartKeeps DEF Postpone, Files, Procs
<1> QED
  BY <1>2, <1>3, <1>4 DEF Store

(* resend() reads an event that waits, and will not read it again.         *)
LEMMA NextRead ==
  ASSUME TypeOK, SendOnce, ResendStore
  PROVE  \E e \in Events :
           /\ Store(e) /\ Free(Im) /\ Reading(e) /\ To[e] = cur
           /\ leftover[cur][pos + 1] = e /\ pos' = pos + 1
           /\ pc = "read" /\ UNCHANGED <<pc, cur, created, offline, leftover>>
           /\ \A d \in Events : Reading(d)' => Reading(d) /\ d # e
           /\ ~Queued(e)
<1> DEFINE s == leftover[cur]
<1>1. /\ pc = "read" /\ Free(Im) /\ pos < Len(s) /\ pos' = pos + 1
      /\ Store(s[pos + 1]) /\ UNCHANGED <<pc, cur, created>>
  BY DEF ResendStore
<1>2. cur \in Contacts /\ s \in Seq(Events) /\ pos \in Nat /\ Content(s) = s
  BY <1>1 DEF TypeOK, Content
<1>3. PICK e \in Events : e = s[pos + 1] /\ Store(e) /\ pos + 1 \in DOMAIN s
  BY <1>1, <1>2
<1>4. To[e] = cur
  BY <1>2, <1>3 DEF SendOnce, FilesDistinct, Filed
<1>5. Reading(e)
  BY <1>1, <1>2, <1>3, <1>4 DEF Reading
<1>6. UNCHANGED <<offline, leftover>>
  BY <1>3 DEF Store, Reject, Deliver, Postpone, disk
<1>7. \A d \in Events : Reading(d)' => Reading(d)
  BY <1>1, <1>2, <1>6 DEF Reading
<1>8. \A i, j \in DOMAIN s : i > pos /\ j > pos /\ s[i] = s[j] => i = j
  BY <1>1 DEF SendOnce, FilesDistinct
<1>9. ~Reading(e)'
  <2>1. \A i \in DOMAIN s : i \in Nat /\ (i > pos' => i > pos /\ i # pos + 1)
    BY <1>1, <1>2
  <2>2. pos + 1 > pos /\ s[pos + 1] = e
    BY <1>2, <1>3
  <2> HIDE DEF s
  <2>3. \A i \in DOMAIN s : i > pos' => s[i] # e
    BY <1>3, <1>8, <2>1, <2>2
  <2> QED
    BY <1>1, <1>6, <2>3 DEF Reading, s
<1>10. ~Queued(e)
  BY <1>5 DEF SendOnce, OnePlace
<1> QED
  BY <1>1, <1>3, <1>4, <1>5, <1>6, <1>7, <1>9, <1>10

-----------------------------------------------------------------------------
(* The steps that only move events about.                                  *)

Moves ==
  \/ (\E p \in Procs : EventWrite(p)) \/ Walk
  \/ (\E c \in Contacts : ResendRename(c)) \/ ResendUnlink \/ Crash

LEMMA MovesStill ==
  ASSUME TypeOK, SendOnce, Moves PROVE Still
<1>1. ASSUME NEW p \in Procs, EventWrite(p) PROVE Still
  <2>1. CASE LockWait(p) \/ LockPass(p) \/ LockMake(p) \/ OpenFails(p)
    BY <2>1, LockKeeps, SameFiles, KeptWhere DEF Still
  <2>2. CASE Open(p)
    <3>1. \A e \in Events : InLeft(e)' <=> InLeft(e)
      BY <2>2, OpenKeeps DEF InLeft
    <3> QED
      BY <2>2, <3>1, OpenKeeps, KeptWhere DEF Still
  <2>3. CASE Write(p)
    <3>1. step[p] # "no"
      BY <2>3 DEF Write
    <3>2. InHand(inhand[p])
      BY <3>1 DEF InHand
    <3> QED
      BY <2>3, <3>2, WriteKeeps, KeptWhere DEF Still
  <2>4. CASE Unlock(p)
    BY <2>4, UnlockKeeps, SameFiles, KeptWhere DEF Still
  <2> QED
    BY <1>1, <2>1, <2>2, <2>3, <2>4 DEF EventWrite
<1>2. CASE Walk
  BY <1>2, WalkKeeps, SameFiles, KeptWhere DEF Still, disk
<1>3. ASSUME NEW c \in Contacts, ResendRename(c) PROVE Still
  BY <1>3, RenameKeeps, KeptWhere DEF Still
<1>4. CASE ResendUnlink
  BY <1>4, UnlinkKeeps, KeptWhere DEF Still
<1>5. CASE Crash
  BY <1>5, CrashKeeps, SameFiles, KeptWhere DEF Still, disk
<1> QED
  BY <1>1, <1>2, <1>3, <1>4, <1>5 DEF Moves

(* Everything else is an event that is stored. *)
LEMMA NextCases ==
  [Next]_vars => \/ Moves \/ ResendStore
                 \/ \E e \in Events : Submit(e) \/ \E p \in Senders : SenderStore(p, e)
BY DEF Next, Moves, Walk, Resend

LEMMA KnownSubmit ==
  ASSUME TypeOK, SendOnce, Known, NEW e \in Events, Submit(e) PROVE Known'
<1>1. /\ Free(Im) /\ Store(e) /\ created' = created \cup {e} /\ e \notin created
      /\ pc = "idle" /\ UNCHANGED loop
  BY DEF Submit
<1>2. ~Kept(e) /\ e \notin rejected
  BY <1>1 DEF Known
<1>3. rejected' \subseteq rejected \cup {e} /\ (Reject(e) \/ rejected' = rejected)
  BY <1>1 DEF Store, Reject, Deliver, Postpone
<1>4. \A d \in Events : ~Reading(d)' /\ (Queued(d)' <=> Queued(d)) /\ (InLeft(d)' <=> InLeft(d))
  BY <1>1, StoreKeeps, SameFiles DEF Reading, loop
<1>5. \A d \in Events \ {e} : (Waits(d)' => Waits(d)) /\ (Kept(d)' => Kept(d))
  BY <1>1, <1>4, StoreKeeps, KeptWhere DEF Waits
<1>6. Reject(e) => ~Waits(e)'
  <2>1. ~Queued(e) /\ \A p \in Procs : ~Writing(p, e)
    BY <1>2, WaitsKept DEF Waits
  <2> QED
    BY <1>4, <2>1 DEF Reject, writer, Waits, Writing
<1> QED
  BY <1>1, <1>2, <1>3, <1>5, <1>6 DEF Known

LEMMA KnownResend ==
  ASSUME TypeOK, SendOnce, Known, ResendStore PROVE Known'
<1>1. PICK e \in Events :
           /\ Store(e) /\ Free(Im) /\ Reading(e)
           /\ UNCHANGED <<created, offline, leftover>>
           /\ \A d \in Events : Reading(d)' => Reading(d) /\ d # e
           /\ ~Queued(e)
  BY NextRead
<1>2. Waits(e) /\ Kept(e) /\ \A p \in Procs : ~Writing(p, e)
  BY <1>1, WaitsKept DEF Waits, SendOnce, OnePlace
<1>3. rejected' \subseteq rejected \cup {e} /\ (Reject(e) \/ rejected' = rejected)
  BY <1>1 DEF Store, Reject, Deliver, Postpone
<1>4. \A d \in Events \ {e} : (Waits(d)' => Waits(d)) /\ (Kept(d)' => Kept(d))
  BY <1>1, StoreKeeps, SameFiles, KeptWhere DEF Waits
<1>5. Reject(e) => ~Waits(e)'
  BY <1>1, <1>2, SameFiles DEF Reject, writer, Waits, Writing
<1> QED
  BY <1>1, <1>2, <1>3, <1>4, <1>5 DEF Known

LEMMA SenderKeeps ==
  ASSUME TypeOK, NEW p \in Senders, NEW e \in Events, SenderStore(p, e)
  PROVE  /\ UNCHANGED <<offline, leftover, sent, rejected>>
         /\ created' = created \cup {e} /\ e \notin created
         /\ \A d \in Events : /\ InHand(d)' <=> InHand(d) \/ d = e
                              /\ Waits(d)' => Waits(d) \/ d = e
<1>1. /\ Free(p) /\ StartWrite(p, e, "offline") /\ e \notin created
      /\ created' = created \cup {e}
      /\ UNCHANGED <<offline, leftover, sent, rejected, loop>>
  BY DEF SenderStore, disk
<1>2. \A d \in Events : (Reading(d)' <=> Reading(d)) /\ (Queued(d)' <=> Queued(d))
  BY <1>1, SameFiles DEF Reading, loop
<1> QED
  BY <1>1, <1>2, StartKeeps DEF Procs, Files, Waits

LEMMA KnownNext ==
  ASSUME TypeOK, SendOnce, Known, [Next]_vars PROVE Known'
<1>1. ASSUME NEW p \in Senders, NEW e \in Events, SenderStore(p, e) PROVE Known'
  <2>1. e \notin rejected /\ ~Kept(e)
    BY <1>1, SenderKeeps DEF Known
  <2> QED
    BY <1>1, <2>1, SenderKeeps, SameFiles, KeptWhere DEF Known
<1> QED
  BY <1>1, NextCases, MovesStill, KnownStill, KnownSubmit, KnownResend

-----------------------------------------------------------------------------
(* When nothing can fail: one process, and no fault.                       *)

Alone == Senders = {} /\ Faults = {}

Settled(e) == Done(e) \/ Queued(e)

(* Then offline_ exists only while it is read, by a loop that has settled, *)
(* or has in hand, all it has read; and a writer's descriptor leads to the *)
(* file it opened.                                                         *)
WriterSound ==
  /\ step[Im] # "no" => pc \in {"idle", "read"}
  /\ step[Im] = "write" => fd[Im] = target[Im]
  /\ step[Im] # "no" /\ target[Im] = "history" => sent[inhand[Im]] > 0
  /\ step[Im] = "unlock" /\ target[Im] = "offline" => Queued(inhand[Im])
LoopSound ==
  /\ pc # "down"
  /\ \A c \in Contacts : leftover[c] # NoFile => pc \in {"read", "unlink"} /\ cur = c
  /\ pc = "read" => \A i \in DOMAIN leftover[cur] :
       i <= pos => Settled(leftover[cur][i]) \/ InHand(leftover[cur][i])
  /\ pc = "unlink" => \A i \in DOMAIN leftover[cur] : Settled(leftover[cur][i])
Orderly == Alone => WriterSound /\ LoopSound

LEMMA OrderlyInit == Init => Orderly
BY DEF Init, Orderly, WriterSound, LoopSound, Procs

LEMMA LoopStays ==
  ASSUME TypeOK, LoopSound, UNCHANGED <<leftover, loop>>,
         \A e \in Events : /\ Settled(e) => Settled(e)'
                           /\ InHand(e) => InHand(e)' \/ Settled(e)'
  PROVE  LoopSound'
<1>1. pc \in {"read", "unlink"} => \A i \in DOMAIN leftover[cur] : leftover[cur][i] \in Events
  BY DEF TypeOK
<1> QED
  BY <1>1 DEF LoopSound, loop

LEMMA OrderlyWrite ==
  ASSUME TypeOK, SendOnce, Alone, WriterSound, LoopSound, EventWrite(Im)
  PROVE  WriterSound' /\ LoopSound'
<1>0. Im \in Procs
  BY DEF Procs
<1>1. CASE LockWait(Im) \/ LockPass(Im) \/ LockMake(Im)
  <2>1. /\ UNCHANGED <<target, inhand, sent, rejected, loop, leftover>>
        /\ step[Im] # "no" /\ step'[Im] \notin {"no", "write", "unlock"}
    BY <1>0, <1>1 DEF LockWait, LockPass, LockMake, TypeOK, disk, ghosts
  <2>2. WriterSound'
    BY <2>1 DEF WriterSound, loop
  <2>3. \A e \in Events : (Settled(e) => Settled(e)') /\ (InHand(e) => InHand(e)')
    BY <1>0, <1>1, <2>1, LockKeeps, SameFiles DEF Settled, Done
  <2> QED
    BY <2>1, <2>2, <2>3, LoopStays
<1>2. CASE Open(Im)
  <2>1. /\ UNCHANGED <<target, inhand, sent, rejected, loop, leftover>>
        /\ step[Im] # "no" /\ step'[Im] = "write" /\ fd'[Im] = target[Im]
    BY <1>0, <1>2 DEF Open, TypeOK, ghosts
  <2>2. WriterSound'
    BY <2>1 DEF WriterSound, loop
  <2>3. \A e \in Events : (Settled(e) => Settled(e)') /\ (InHand(e) => InHand(e)')
    BY <1>0, <1>2, <2>1, OpenKeeps DEF Settled, Done
  <2> QED
    BY <2>1, <2>2, <2>3, LoopStays
<1>3. CASE Write(Im)
  <2>1. /\ UNCHANGED <<target, inhand, sent, rejected, loop>> /\ inhand[Im] \in Events
        /\ step[Im] = "write" /\ step'[Im] = "unlock" /\ fd[Im] = target[Im]
    BY <1>0, <1>3, WriteKeeps DEF Write, WriterSound, TypeOK
  <2>2. UNCHANGED leftover
    BY <1>0, <1>3, <2>1 DEF Write, TypeOK, Files
  <2>3. WriterSound'
    BY <1>0, <1>3, <2>1, WriteKeeps DEF WriterSound, loop
  <2>4. \A e \in Events : (Settled(e) => Settled(e)') /\ (InHand(e) => InHand(e)')
    BY <1>0, <1>3, <2>1, WriteKeeps DEF Settled, Done
  <2> QED
    BY <2>1, <2>2, <2>3, <2>4, LoopStays
<1>4. CASE Unlock(Im)
  <2>1. /\ UNCHANGED <<offline, leftover, sent, rejected, loop>>
        /\ step[Im] = "unlock" /\ step'[Im] = "no"
    BY <1>0, <1>4 DEF Unlock, TypeOK
  <2>2. WriterSound'
    BY <2>1 DEF WriterSound
  <2>3. \A e \in Events : Settled(e) => Settled(e)'
    BY <2>1, SameFiles DEF Settled, Done
  <2>4. Settled(inhand[Im])
    BY <1>0, <2>1 DEF WriterSound, Settled, Done, TypeOK, Files
  <2>5. \A e \in Events : InHand(e) => InHand(e)' \/ Settled(e)'
    BY <1>0, <1>4, <2>3, <2>4, UnlockKeeps
  <2> QED
    BY <2>1, <2>2, <2>3, <2>5, LoopStays
<1> QED
  BY <1>1, <1>2, <1>3, <1>4 DEF EventWrite, OpenFails, Alone

(* What store() leaves behind of an event is settled or in hand. *)
LEMMA OrderlyStore ==
  ASSUME TypeOK, Alone, WriterSound, NEW e \in Events, Free(Im), Store(e),
         pc \in {"idle", "read"}, UNCHANGED pc
  PROVE  /\ WriterSound'
         /\ \A d \in Events : Settled(d) => Settled(d)'
         /\ Settled(e)' \/ InHand(e)'
<1>0. Im \in Procs /\ step[Im] = "no"
  BY DEF Procs, Free
<1>1. \A d \in Events : Queued(d)' <=> Queued(d)
  BY StoreKeeps, SameFiles
<1>2. CASE Reject(e)
  BY <1>0, <1>1, <1>2 DEF Reject, writer, WriterSound, Settled, Done
<1>3. CASE Deliver(e)
  <2>1. /\ sent' = [sent EXCEPT ![e] = @ + 1] /\ UNCHANGED rejected
        /\ step'[Im] = "lock" /\ target'[Im] = "history" /\ inhand'[Im] = e
    BY <1>0, <1>3 DEF Deliver, StartWrite, TypeOK
  <2>2. sent'[e] > 0 /\ \A d \in Events : sent[d] > 0 => sent'[d] > 0
    BY <2>1 DEF TypeOK
  <2> QED
    BY <1>1, <2>1, <2>2 DEF WriterSound, Settled, Done
<1>4. CASE Postpone(e)
  <2>1. /\ UNCHANGED <<sent, rejected>>
        /\ step'[Im] = "lock" /\ target'[Im] = "offline" /\ inhand'[Im] = e
    BY <1>0, <1>4 DEF Postpone, StartWrite, TypeOK
  <2> QED
    BY <1>0, <1>1, <2>1 DEF WriterSound, Settled, Done, InHand
<1> QED
  BY <1>2, <1>3, <1>4 DEF Store

LEMMA OrderlySubmit ==
  ASSUME TypeOK, Alone, WriterSound, LoopSound, NEW e \in Events, Submit(e)
  PROVE  WriterSound' /\ LoopSound'
<1>1. /\ Free(Im) /\ Store(e) /\ pc = "idle" /\ UNCHANGED loop
  BY DEF Submit
<1>2. UNCHANGED leftover
  BY <1>1, StoreKeeps
<1> QED
  BY <1>1, <1>2, OrderlyStore DEF LoopSound, loop

LEMMA OrderlyResend ==
  ASSUME TypeOK, SendOnce, Alone, WriterSound, LoopSound, ResendStore
  PROVE  WriterSound' /\ LoopSound'
<1>1. PICK e \in Events :
           /\ Store(e) /\ Free(Im) /\ leftover[cur][pos + 1] = e /\ pos' = pos + 1
           /\ pc = "read" /\ UNCHANGED <<pc, cur, offline, leftover>>
  BY NextRead
<1>2. /\ WriterSound' /\ (Settled(e)' \/ InHand(e)')
      /\ \A d \in Events : Settled(d) => Settled(d)'
  BY <1>1, OrderlyStore
<1>3. \A d \in Events : InHand(d) => InHand(d)'
  BY <1>1, StoreKeeps
<1>4. ASSUME NEW i \in DOMAIN leftover[cur], i <= pos'
      PROVE  Settled(leftover[cur][i])' \/ InHand(leftover[cur][i])'
  <2>1. leftover[cur] \in Seq(Events) /\ pos \in Nat /\ leftover[cur][i] \in Events
    BY <1>1 DEF TypeOK
  <2>2. CASE i = pos + 1
    BY <1>1, <1>2, <2>2
  <2>3. CASE i # pos + 1
    <3>1. i <= pos
      BY <1>1, <1>4, <2>1, <2>3
    <3>2. Settled(leftover[cur][i]) \/ InHand(leftover[cur][i])
      BY <1>1, <3>1 DEF LoopSound
    <3>3. ASSUME NEW d \in Events, d = leftover[cur][i]
          PROVE  Settled(d)' \/ InHand(d)'
      BY <1>2, <1>3, <3>2, <3>3
    <3> QED
      BY <1>1, <2>1, <3>3 DEF Settled, Done, Queued, InHand
  <2> QED
    BY <2>2, <2>3
<1>5. \A c \in Contacts : leftover'[c] # NoFile => pc' \in {"read", "unlink"} /\ cur' = c
  BY <1>1 DEF LoopSound
<1>6. pc' = "read" /\ leftover'[cur'] = leftover[cur]
  BY <1>1
<1>7. LoopSound'
  BY <1>4, <1>5, <1>6 DEF LoopSound
<1> QED
  BY <1>2, <1>7

LEMMA OrderlyWalk ==
  ASSUME TypeOK, Alone, WriterSound, LoopSound, Walk
  PROVE  WriterSound' /\ LoopSound'
<1>0. Procs = {Im}
  BY DEF Procs, Alone
<1>1. UNCHANGED <<offline, leftover, step, target, inhand, fd, sent, rejected>>
  BY WalkKeeps DEF disk, writer
<1>2. \A e : (Settled(e)' <=> Settled(e)) /\ (InHand(e)' <=> InHand(e)) /\ (Queued(e)' <=> Queued(e))
  BY <1>1, SameFiles DEF Settled, Done, InHand
<1>3. CASE UNCHANGED loop
  <2>1. UNCHANGED <<pc, todo, cur, pos>>
    BY <1>3 DEF loop
  <2>2. WriterSound'
    BY <1>1, <1>2, <2>1 DEF WriterSound
  <2> QED
    BY <1>1, <1>2, <1>3, <2>2, LoopStays
<1>4. CASE ResendEof
  <2>1. /\ pc = "read" /\ pc' = "unlink" /\ step[Im] = "no" /\ pos = Len(leftover[cur])
        /\ cur' = cur /\ leftover[cur] \in Seq(Events)
    BY <1>4 DEF ResendEof, Free, TypeOK
  <2>2. \A e : ~InHand(e)
    BY <1>0, <2>1 DEF InHand
  <2>3. \A i \in DOMAIN leftover[cur] : Settled(leftover[cur][i])
    BY <2>1, <2>2 DEF LoopSound
  <2>4. \A i \in DOMAIN leftover[cur] : Settled(leftover[cur][i])'
    BY <1>1, <2>1, <2>3 DEF Settled, Done, Queued, InFile, Content
  <2>5. \A c \in Contacts : leftover'[c] # NoFile => pc' \in {"read", "unlink"} /\ cur' = c
    BY <1>1, <2>1 DEF LoopSound
  <2>6. LoopSound'
    BY <1>1, <2>1, <2>4, <2>5 DEF LoopSound
  <2>7. WriterSound'
    BY <1>1, <2>1 DEF WriterSound
  <2> QED
    BY <2>6, <2>7
<1>5. CASE ResendBegin \/ (\E c \in Contacts : ResendSkip(c)) \/ ResendEnd
  <2>1. pc' \in {"idle", "resend"} /\ pc \in {"idle", "resend"} /\ step[Im] = "no"
    BY <1>5 DEF ResendBegin, ResendSkip, ResendEnd, Free, WriterSound
  <2> QED
    BY <1>1, <2>1 DEF WriterSound, LoopSound
<1> QED
  BY <1>3, <1>4, <1>5 DEF Walk, HookChange, Tick, Restart, LoopSound, vars

LEMMA OrderlyFiles ==
  ASSUME TypeOK, Alone, WriterSound, LoopSound,
         (\E c \in Contacts : ResendRename(c)) \/ ResendUnlink
  PROVE  WriterSound' /\ LoopSound'
<1>1. ASSUME NEW c \in Contacts, ResendRename(c) PROVE WriterSound' /\ LoopSound'
  <2>1. /\ pc = "resend" /\ cur' = c /\ pos' = 0 /\ pc' = "read" /\ UNCHANGED step
        /\ leftover' = [leftover EXCEPT ![c] = offline[c]]
        /\ offline[c] \in Seq(Events)
    BY <1>1 DEF ResendRename, Alone, TypeOK
  <2>2. step'[Im] = "no" /\ \A x \in Contacts : leftover[x] = NoFile
    BY <2>1 DEF WriterSound, LoopSound
  <2>3. /\ \A x \in Contacts : leftover'[x] # NoFile => x = c
        /\ \A i \in DOMAIN leftover'[c] : ~(i <= 0)
    BY <2>1, <2>2 DEF TypeOK
  <2> QED
    BY <2>1, <2>2, <2>3 DEF WriterSound, LoopSound
<1>2. CASE ResendUnlink
  <2>1. /\ pc = "unlink" /\ pc' = "resend" /\ UNCHANGED step
        /\ leftover' = [leftover EXCEPT ![cur] = NoFile]
    BY <1>2 DEF ResendUnlink
  <2>2. step'[Im] = "no" /\ \A x \in Contacts : leftover'[x] = NoFile
    BY <2>1 DEF WriterSound, LoopSound, TypeOK
  <2> QED
    BY <2>1, <2>2 DEF WriterSound, LoopSound
<1> QED
  BY <1>1, <1>2

LEMMA OrderlyNext ==
  ASSUME TypeOK, SendOnce, Orderly, [Next]_vars PROVE Orderly'
<1> SUFFICES ASSUME Alone PROVE WriterSound' /\ LoopSound'
  BY DEF Orderly, Alone
<1>1. WriterSound /\ LoopSound
  BY DEF Orderly
<1>2. CASE Moves
  BY <1>1, <1>2, OrderlyWrite, OrderlyWalk, OrderlyFiles DEF Moves, Procs, Alone, Crash
<1> QED
  BY <1>1, <1>2, NextCases, OrderlySubmit, OrderlyResend DEF Alone

-----------------------------------------------------------------------------
(* The refinement.                                                         *)

(* Alone, no step makes away with an event still to be sent. *)
LEMMA MovesKeep ==
  ASSUME TypeOK, SendOnce, Orderly, Alone, Moves, NEW e \in Events, Kept(e), ~Done(e)
  PROVE  Kept(e)'
<1>0. WriterSound /\ LoopSound /\ Procs = {Im} /\ Im \in Procs
  BY DEF Orderly, Alone, Procs
<1>1. CASE EventWrite(Im)
  <2>1. CASE LockWait(Im) \/ LockPass(Im) \/ LockMake(Im) \/ OpenFails(Im)
    BY <1>0, <2>1, LockKeeps, SameFiles, KeptWhere
  <2>2. CASE Open(Im)
    <3>1. InLeft(e)' <=> InLeft(e)
      BY <1>0, <2>2, OpenKeeps DEF InLeft
    <3> QED
      BY <1>0, <2>2, <3>1, OpenKeeps, KeptWhere
  <2>3. CASE Write(Im)
    BY <1>0, <2>3, WriteKeeps, KeptWhere
  <2>4. CASE Unlock(Im)
    <3>1. ASSUME e = inhand[Im] PROVE Queued(e)
      <4>1. step[Im] = "unlock" /\ target[Im] \in {"offline", "history"}
        BY <1>0, <2>4 DEF Unlock, TypeOK, Files
      <4> QED
        BY <1>0, <3>1, <4>1 DEF WriterSound, Done
    <3> QED
      BY <1>0, <2>4, <3>1, UnlockKeeps, SameFiles, KeptWhere
  <2> QED
    BY <1>1, <2>1, <2>2, <2>3, <2>4 DEF EventWrite
<1>2. CASE Walk
  BY <1>2, WalkKeeps, SameFiles, KeptWhere DEF disk
<1>3. ASSUME NEW c \in Contacts, ResendRename(c) PROVE Kept(e)'
  <2>1. leftover[c] = NoFile
    BY <1>0, <1>3 DEF LoopSound, ResendRename
  <2>2. To[e] = c => ~InLeft(e)
    BY <2>1 DEF InLeft, InFile, Content
  <2> QED
    BY <1>3, <2>2, RenameKeeps, KeptWhere
<1>4. CASE ResendUnlink
  <2>1. /\ pc = "unlink" /\ cur \in Contacts /\ Content(leftover[cur]) = leftover[cur]
    BY <1>4 DEF ResendUnlink, TypeOK, Content
  <2>2. InLeft(e) /\ To[e] = cur => Queued(e)
    BY <1>0, <2>1 DEF LoopSound, InLeft, InFile, Settled
  <2> QED
    BY <1>4, <2>2, UnlinkKeeps, KeptWhere
<1> QED
  BY <1>0, <1>1, <1>2, <1>3, <1>4 DEF Moves, Crash, Alone

LEMMA QueueMoves ==
  ASSUME TypeOK, SendOnce, Orderly, Moves PROVE [Queue!Next]_(Queue!vars)
<1>1. Still
  BY MovesStill
<1>2. \A e \in Events : Done(e)' <=> Done(e)
  BY <1>1 DEF Still, Done
<1>3. Pending' \subseteq Pending /\ UNCHANGED <<sent, rejected>>
  BY <1>1, <1>2 DEF Still, Pending
<1>4. CASE Alone
  <2>1. Pending' = Pending
    BY <1>2, <1>3, <1>4, MovesKeep DEF Pending
  <2> QED
    BY <1>3, <2>1 DEF Queue!vars
<1>5. CASE ~Alone
  <2>1. Pending \ Pending' \in SUBSET Events
    BY DEF Pending
  <2>2. Queue!Lose(Pending \ Pending')
    BY <1>3, <1>5 DEF Queue!Lose, Alone
  <2> QED
    BY <2>1, <2>2 DEF Queue!Next
<1> QED
  BY <1>4, <1>5

(* An event that is stored for the first time, or read by resend().        *)
LEMMA QueueStores ==
  ASSUME TypeOK, Free(Im), NEW e \in Events, Store(e),
         sent[e] = 0, e \notin rejected, Kept(e) \/ e \notin Pending,
         \A d \in Events \ {e} : Queued(d)' <=> Queued(d)
  PROVE  [Queue!Next]_(Queue!vars)
<1>1. \A d \in Events \ {e} : (Kept(d)' <=> Kept(d))
  BY StoreKeeps, SameFiles, KeptWhere
<1>2. CASE Reject(e)
  <2>1. rejected' = rejected \cup {e} /\ UNCHANGED sent
    BY <1>2 DEF Reject
  <2>2. Pending' = Pending \ {e}
    BY <1>1, <2>1 DEF Pending, Done
  <2> QED
    BY <2>1, <2>2 DEF Queue!Next, Queue!Drop
<1>3. CASE Deliver(e)
  <2>1. sent' = [sent EXCEPT ![e] = 1] /\ UNCHANGED rejected
    BY <1>3 DEF Deliver, TypeOK
  <2>2. sent'[e] > 0 /\ \A d \in Events \ {e} : sent'[d] = sent[d]
    BY <2>1 DEF TypeOK
  <2>3. Pending' = Pending \ {e}
    BY <1>1, <2>1, <2>2 DEF Pending, Done
  <2> QED
    BY <2>1, <2>3 DEF Queue!Next, Queue!Deliver
<1>4. CASE Postpone(e) /\ InHand(e)'
  <2>1. UNCHANGED <<sent, rejected>> /\ Kept(e)'
    BY <1>4, KeptWhere DEF Postpone
  <2>2. ~Done(e)
    BY DEF TypeOK, Done
  <2>3. Pending' = Pending \cup {e}
    BY <1>1, <2>1, <2>2 DEF Pending, Done
  <2>4. CASE e \in Pending
    BY <2>1, <2>3, <2>4 DEF Queue!vars
  <2>5. CASE e \notin Pending
    BY <2>1, <2>3, <2>5 DEF Queue!Next, Queue!Put
  <2> QED
    BY <2>4, <2>5
<1> QED
  BY <1>2, <1>3, <1>4, StoreKeeps

LEMMA QueueNext ==
  ASSUME TypeOK, SendOnce, Known, Orderly, [Next]_vars
  PROVE  [Queue!Next]_(Queue!vars)
<1>1. ASSUME NEW e \in Events, Submit(e) PROVE [Queue!Next]_(Queue!vars)
  <2>1. Free(Im) /\ Store(e) /\ e \notin created
    BY <1>1 DEF Submit
  <2>2. sent[e] = 0 /\ e \notin rejected /\ e \notin Pending
    BY <2>1 DEF SendOnce, Unsent, Known, Pending, TypeOK
  <2> QED
    BY <2>1, <2>2, StoreKeeps, SameFiles, QueueStores
<1>2. CASE ResendStore
  <2>1. PICK e \in Events : Store(e) /\ Free(Im) /\ Reading(e)
    BY <1>2, NextRead
  <2>2. Waits(e)
    BY <2>1 DEF Waits
  <2>3. sent[e] = 0 /\ e \notin rejected /\ Kept(e)
    BY <2>1, <2>2, WaitsKept DEF SendOnce, Unsent, Known
  <2> QED
    BY <2>1, <2>3, StoreKeeps, SameFiles, QueueStores
<1>3. ASSUME NEW p \in Senders, NEW e \in Events, SenderStore(p, e)
      PROVE  [Queue!Next]_(Queue!vars)
  <2>1. /\ UNCHANGED <<offline, leftover, sent, rejected>> /\ e \notin created
        /\ \A d \in Events : InHand(d)' <=> InHand(d) \/ d = e
    BY <1>3, SenderKeeps
  <2>2. sent[e] = 0 /\ e \notin rejected /\ e \notin Pending
    BY <2>1 DEF SendOnce, Unsent, Known, Pending, TypeOK
  <2>3. \A d \in Events : (Kept(d)' <=> Kept(d) \/ d = e) /\ (Done(d)' <=> Done(d))
    BY <2>1, SameFiles, KeptWhere DEF Done
  <2>4. ~Done(e)
    BY <2>2 DEF Done
  <2>5. Pending' = Pending \cup {e}
    BY <2>3, <2>4 DEF Pending
  <2> QED
    BY <2>1, <2>2, <2>5 DEF Queue!Next, Queue!Put
<1> QED
  BY <1>1, <1>2, <1>3, NextCases, QueueMoves

LEMMA QueueInit == Init => Queue!Init
<1> SUFFICES ASSUME Init PROVE Queue!Init
  OBVIOUS
<1>1. \A e \in Events : ~Kept(e)
  BY ConstantsAssumption DEF Init, Kept, InHand, InFile, Content
<1> QED
  BY <1>1 DEF Init, Queue!Init, Pending

LEMMA QueueInv == Spec => [](TypeOK /\ SendOnce /\ Known /\ Orderly)
<1>1. Init => TypeOK /\ SendOnce /\ Known /\ Orderly
  BY TypeInit, SendOnceInit, KnownInit, OrderlyInit
<1>2. TypeOK /\ SendOnce /\ Known /\ Orderly /\ [Next]_vars
        => (TypeOK /\ SendOnce /\ Known /\ Orderly)'
  BY TypeNext, OnceNext, KnownNext, OrderlyNext
<1> QED
  BY <1>1, <1>2, PTL DEF Spec

(* store(), eventwrite() and resend() implement the queue: each event is   *)
(* put in once, leaves it sent once or rejected, and is lost only if other *)
(* processes write to the queue too, or something fails.                   *)
THEOREM QueueImplemented == Spec => QueueSpec
<1>1. TypeOK /\ SendOnce /\ Known /\ Orderly /\ [Next]_vars => [Queue!Next]_(Queue!vars)
  BY QueueNext
<1> QED
  BY <1>1, QueueInit, QueueInv, PTL DEF Spec, QueueSpec, Queue!Spec

-----------------------------------------------------------------------------
(* Nothing is lost.                                                        *)

LEMMA LostStore ==
  ASSUME TypeOK, Alone, WriterSound, NothingLost, NEW e \in Events, Free(Im), Store(e),
         pc \in {"idle", "read"}, UNCHANGED pc, created' \subseteq created \cup {e}
  PROVE  NothingLost'
<1>1. UNCHANGED <<offline, leftover>> /\ \A d \in Events : InHand(d) => InHand(d)'
  BY StoreKeeps
<1>2. \A d \in Events : (Kept(d) => Kept(d)') /\ (Done(d) => Done(d)')
  <2>1. \A d \in Events : Kept(d) => Kept(d)'
    BY <1>1, SameFiles, KeptWhere
  <2>2. rejected \subseteq rejected' /\ \A d \in Events : sent[d] > 0 => sent'[d] > 0
    <3>1. CASE Reject(e) \/ Postpone(e)
      BY <3>1 DEF Reject, Postpone
    <3>2. CASE Deliver(e)
      <4>1. /\ UNCHANGED rejected /\ sent \in [Events -> Nat]
            /\ sent' = [sent EXCEPT ![e] = @ + 1]
        BY <3>2 DEF Deliver, TypeOK
      <4>2. \A d \in Events : sent[d] \in Nat /\ sent'[d] = IF d = e THEN sent[d] + 1 ELSE sent[d]
        BY <4>1
      <4> QED
        BY <4>1, <4>2
    <3> QED
      BY <3>1, <3>2 DEF Store
  <2> QED
    BY <2>1, <2>2 DEF Done
<1>3. Done(e)' \/ Kept(e)'
  BY <1>1, OrderlyStore, SameFiles, KeptWhere DEF Settled
<1> QED
  BY <1>2, <1>3 DEF NothingLost, Somewhere, TypeOK

LEMMA LostNext ==
  ASSUME TypeOK, SendOnce, Orderly, Alone, NothingLost, [Next]_vars
  PROVE  NothingLost'
<1>0. WriterSound
  BY DEF Orderly
<1>1. CASE Moves
  <2>1. \A e \in Events : Done(e)' <=> Done(e)
    BY <1>1, MovesStill DEF Still, Done
  <2>2. UNCHANGED created /\ created \subseteq Events
    BY <1>1, MovesStill DEF Still, TypeOK
  <2>3. \A e \in Events : Kept(e) => Done(e) \/ Kept(e)'
    BY <1>1, MovesKeep
  <2> QED
    BY <2>1, <2>2, <2>3 DEF NothingLost, Somewhere
<1>2. CASE ResendStore
  <2>1. PICK e \in Events :
          Store(e) /\ Free(Im) /\ pc = "read" /\ UNCHANGED <<pc, created>>
    BY <1>2, NextRead
  <2> QED
    BY <1>0, <2>1, LostStore
<1>3. ASSUME NEW e \in Events, Submit(e) PROVE NothingLost'
  <2>1. Free(Im) /\ Store(e) /\ pc = "idle" /\ UNCHANGED pc /\ created' = created \cup {e}
    BY <1>3 DEF Submit, loop
  <2> QED
    BY <1>0, <2>1, LostStore
<1> QED
  BY <1>1, <1>2, <1>3, NextCases DEF Alone

(* With one process and no fault every event is sent, rejected by an       *)
(* external action, or still in a queue file.                              *)
THEOREM NothingIsLost ==
  ASSUME Senders = {}, Faults = {}
  PROVE  Spec => []NothingLost
<1>1. Alone
  BY DEF Alone
<1>2. Init => NothingLost
  BY DEF Init, NothingLost
<1>3. TypeOK /\ SendOnce /\ Known /\ Orderly /\ NothingLost /\ [Next]_vars => NothingLost'
  BY <1>1, LostNext
<1> QED
  BY <1>2, <1>3, QueueInv, PTL DEF Spec

-----------------------------------------------------------------------------
(* The history.                                                            *)

(* store() has sent e and is about to write it to the history. *)
Recording(e) ==
  /\ step[Im] \in {"lock", "make", "open", "write"}
  /\ target[Im] = "history" /\ inhand[Im] = e
Told(e) == history[e] + IF Recording(e) THEN 1 ELSE 0
Recorded ==
  /\ \A p \in Senders : target[p] = "offline"
  /\ \A e \in Events : Told(e) <= sent[e] /\ (Alone => Told(e) = sent[e])

(* A step that sends and records nothing, and interrupts no record unless  *)
(* something fails.                                                        *)
LEMMA RecordedStays ==
  ASSUME TypeOK, Recorded, UNCHANGED <<history, sent>>,
         \A p \in Senders : target'[p] = "offline",
         \A e \in Events : (Recording(e)' => Recording(e)) /\ (Alone => (Recording(e)' <=> Recording(e)))
  PROVE  Recorded'
<1>1. \A e \in Events : history[e] \in Nat /\ sent[e] \in Nat
  BY DEF TypeOK
<1>2. \A e \in Events : Told(e)' <= Told(e) /\ (Alone => Told(e)' = Told(e))
  BY <1>1 DEF Told
<1>3. \A e \in Events : Told(e) \in Nat /\ Told(e)' \in Nat
  BY <1>1 DEF Told
<1> QED
  BY <1>1, <1>2, <1>3 DEF Recorded, Alone

LEMMA RecordedWrite ==
  ASSUME TypeOK, SendOnce, Recorded, NEW p \in Procs, EventWrite(p) PROVE Recorded'
<1>0. Im \in Procs
  BY DEF Procs
<1>1. CASE LockWait(p) \/ LockPass(p) \/ LockMake(p) \/ Open(p)
  <2>1. /\ UNCHANGED <<history, sent, target, inhand>>
        /\ step[p] \in {"lock", "make", "open"} /\ step'[p] \in {"lock", "make", "open", "write"}
        /\ \A q \in Procs \ {p} : step'[q] = step[q]
    BY <1>1 DEF LockWait, LockPass, LockMake, Open, TypeOK, disk, ghosts
  <2>2. \A e \in Events : Recording(e)' <=> Recording(e)
    BY <1>0, <2>1 DEF Recording
  <2> QED
    BY <2>1, <2>2, RecordedStays DEF Recorded
<1>2. CASE OpenFails(p)
  <2>1. /\ UNCHANGED <<history, sent, target, inhand>> /\ step' = [step EXCEPT ![p] = "unlock"]
        /\ ~Alone
    BY <1>2 DEF OpenFails, disk, ghosts, Alone
  <2>2. \A e \in Events : Recording(e)' => Recording(e)
    BY <1>0, <2>1 DEF Recording, TypeOK
  <2> QED
    BY <2>1, <2>2, RecordedStays DEF Recorded
<1>3. CASE Unlock(p)
  <2>1. /\ UNCHANGED <<history, sent>> /\ step[p] = "unlock" /\ step' = [step EXCEPT ![p] = "no"]
        /\ target' = [target EXCEPT ![p] = "offline"] /\ inhand' = [inhand EXCEPT ![p] = None]
    BY <1>3 DEF Unlock
  <2>2. \A e \in Events : Recording(e)' <=> Recording(e)
    BY <1>0, <2>1 DEF Recording, TypeOK
  <2>3. \A q \in Senders : target'[q] = "offline"
    BY <2>1 DEF Recorded, TypeOK, Procs
  <2> QED
    BY <2>1, <2>2, <2>3, RecordedStays
<1>4. CASE Write(p)
  <2>1. /\ step[p] = "write" /\ step' = [step EXCEPT ![p] = "unlock"]
        /\ UNCHANGED <<sent, target, inhand>> /\ inhand[p] \in Events
        /\ fd[p] = "history" <=> target[p] = "history"
        /\ history' = IF fd[p] = "history" THEN [history EXCEPT ![inhand[p]] = @ + 1] ELSE history
    BY <1>4 DEF Write, ghosts, TypeOK, SendOnce, HistoryApart
  <2>2. CASE fd[p] = "history"
    <3>1. p = Im
      BY <2>1, <2>2 DEF Recorded, Procs
    <3>2. \A e \in Events : ~Recording(e)' /\ (Recording(e) <=> e = inhand[Im])
      BY <1>0, <2>1, <2>2, <3>1 DEF Recording, TypeOK
    <3>3. \A e \in Events : history'[e] = IF e = inhand[Im] THEN history[e] + 1 ELSE history[e]
      BY <2>1, <2>2, <3>1 DEF TypeOK
    <3>4. \A e \in Events : Told(e)' = Told(e)
      <4> SUFFICES ASSUME NEW e \in Events PROVE Told(e)' = Told(e)
        OBVIOUS
      <4>1. history[e] \in Nat
        BY DEF TypeOK
      <4>2. CASE e = inhand[Im]
        <5>1. Told(e) = history[e] + 1
          BY <3>2, <4>2 DEF Told
        <5>2. Told(e)' = (history[e] + 1) + 0
          BY <3>2, <3>3, <4>2 DEF Told
        <5> QED
          BY <4>1, <5>1, <5>2
      <4>3. CASE e # inhand[Im]
        BY <3>2, <3>3, <4>3 DEF Told
      <4> QED
        BY <4>2, <4>3
    <3> QED
      BY <2>1, <3>4 DEF Recorded, Alone
  <2>3. CASE fd[p] # "history"
    <3>1. \A e \in Events : Recording(e)' <=> Recording(e)
      BY <1>0, <2>1, <2>3 DEF Recording, TypeOK
    <3> QED
      BY <2>1, <2>3, <3>1, RecordedStays DEF Recorded
  <2> QED
    BY <2>2, <2>3
<1> QED
  BY <1>1, <1>2, <1>3, <1>4 DEF EventWrite

LEMMA RecordedStore ==
  ASSUME TypeOK, Recorded, NEW e \in Events, Free(Im), Store(e) PROVE Recorded'
<1>0. Im \in Procs /\ step[Im] = "no" /\ Im \notin Senders
  BY ConstantsAssumption DEF Procs, Free
<1>1. UNCHANGED history /\ \A d \in Events : ~Recording(d)
  BY <1>0, StoreKeeps DEF Recording
<1>2. CASE Reject(e)
  <2>1. UNCHANGED <<history, sent, step, target, inhand>>
    BY <1>1, <1>2 DEF Reject, writer
  <2> QED
    BY <2>1, RecordedStays DEF Recorded, Recording
<1>3. CASE Postpone(e)
  <2>1. /\ UNCHANGED <<history, sent>> /\ target' = [target EXCEPT ![Im] = "offline"]
    BY <1>1, <1>3 DEF Postpone, StartWrite
  <2>2. /\ \A p \in Senders : target'[p] = "offline"
        /\ \A d \in Events : ~Recording(d)'
    BY <1>0, <2>1 DEF Recorded, Recording, TypeOK, Procs
  <2> QED
    BY <1>1, <2>1, <2>2, RecordedStays
<1>4. CASE Deliver(e)
  <2>1. /\ sent' = [sent EXCEPT ![e] = @ + 1] /\ step' = [step EXCEPT ![Im] = "lock"]
        /\ target' = [target EXCEPT ![Im] = "history"] /\ inhand' = [inhand EXCEPT ![Im] = e]
    BY <1>4 DEF Deliver, StartWrite
  <2>2. /\ \A p \in Senders : target'[p] = "offline"
        /\ \A d \in Events : Recording(d)' <=> d = e
    BY <1>0, <2>1 DEF Recorded, Recording, TypeOK, Procs
  <2>3. \A d \in Events : Told(d)' = IF d = e THEN Told(d) + 1 ELSE Told(d)
    BY <1>1, <2>2 DEF Told, TypeOK
  <2>4. \A d \in Events : sent'[d] = IF d = e THEN sent[d] + 1 ELSE sent[d]
    BY <2>1 DEF TypeOK
  <2>5. \A d \in Events : Told(d) \in Nat /\ sent[d] \in Nat
    BY DEF Told, TypeOK
  <2> QED
    BY <2>2, <2>3, <2>4, <2>5 DEF Recorded, Alone
<1> QED
  BY <1>2, <1>3, <1>4 DEF Store

LEMMA RecordedNext ==
  ASSUME TypeOK, SendOnce, Recorded, [Next]_vars PROVE Recorded'
<1>1. CASE Moves
  <2>1. ASSUME Walk \/ (\E c \in Contacts : ResendRename(c)) \/ ResendUnlink PROVE Recorded'
    <3>1. UNCHANGED <<history, sent, step, target, inhand>>
      BY <2>1, WalkKeeps, RenameKeeps, UnlinkKeeps DEF disk, writer
    <3> QED
      BY <3>1, RecordedStays DEF Recorded, Recording
  <2>2. CASE Crash
    <3>1. /\ UNCHANGED <<history, sent>> /\ ~Alone
          /\ step' = [step EXCEPT ![Im] = "no"] /\ target' = [target EXCEPT ![Im] = "offline"]
      BY <2>2 DEF Crash, disk, Alone
    <3>2. \A e \in Events : ~Recording(e)'
      BY <3>1 DEF Recording, TypeOK, Procs
    <3>3. \A p \in Senders : target'[p] = "offline"
      BY <3>1 DEF Recorded, TypeOK, Procs
    <3> QED
      BY <3>1, <3>2, <3>3, RecordedStays
  <2> QED
    BY <1>1, <2>1, <2>2, RecordedWrite DEF Moves
<1>2. ASSUME NEW e \in Events, Submit(e) PROVE Recorded'
  BY <1>2, RecordedStore DEF Submit
<1>3. CASE ResendStore
  BY <1>3, NextRead, RecordedStore
<1>4. ASSUME NEW p \in Senders, NEW e \in Events, SenderStore(p, e) PROVE Recorded'
  <2>1. /\ p # Im /\ p \in Procs /\ UNCHANGED <<history, sent>>
        /\ step' = [step EXCEPT ![p] = "lock"] /\ target' = [target EXCEPT ![p] = "offline"]
        /\ inhand' = [inhand EXCEPT ![p] = e]
    BY <1>4, ConstantsAssumption DEF SenderStore, StartWrite, disk, Procs
  <2>2. \A d \in Events : Recording(d)' <=> Recording(d)
    BY <2>1 DEF Recording, TypeOK, Procs
  <2>3. \A q \in Senders : target'[q] = "offline"
    BY <2>1 DEF Recorded, TypeOK, Procs
  <2> QED
    BY <2>1, <2>2, <2>3, RecordedStays
<1> QED
  BY <1>1, <1>2, <1>3, <1>4, NextCases

LEMMA RecordedInv == Spec => [](TypeOK /\ Recorded)
<1>1. Init => Recorded
  <2> SUFFICES ASSUME Init PROVE Recorded
    OBVIOUS
  <2>1. \A e \in Events : ~Recording(e) /\ history[e] = 0 /\ sent[e] = 0
    BY DEF Init, Recording, Procs
  <2>2. \A p \in Senders : target[p] = "offline"
    BY DEF Init, Procs
  <2> QED
    BY <2>1, <2>2 DEF Recorded, Told
<1>2. TypeOK /\ SendOnce /\ Known /\ Orderly /\ Recorded /\ [Next]_vars => Recorded'
  BY RecordedNext
<1> QED
  BY <1>1, <1>2, QueueInv, PTL DEF Spec

(* Whatever crashes and fails, the history has nothing that was not sent,  *)
(* and nothing twice.                                                      *)
THEOREM HistoryAlwaysSound == Spec => []HistorySound
<1>1. TypeOK /\ Recorded => HistorySound
  <2> SUFFICES ASSUME TypeOK, Recorded, NEW e \in Events PROVE history[e] <= sent[e]
    BY DEF HistorySound
  <2>1. history[e] \in Nat /\ sent[e] \in Nat
    BY DEF TypeOK
  <2>2. Told(e) \in Nat /\ history[e] <= Told(e)
    BY <2>1 DEF Told
  <2>3. Told(e) <= sent[e]
    BY DEF Recorded
  <2> QED
    BY <2>1, <2>2, <2>3
<1> QED
  BY <1>1, RecordedInv, PTL

(* With one process and no fault it has all that was sent.                 *)
THEOREM HistoryComplete ==
  ASSUME Senders = {}, Faults = {}
  PROVE  Spec => []HistoryExact
<1>1. TypeOK /\ Recorded => HistoryExact
  BY DEF TypeOK, Recorded, Told, Recording, HistoryExact, Alone, Free
<1> QED
  BY <1>1, RecordedInv, PTL

-----------------------------------------------------------------------------
(* The count of unsent events.                                             *)

(* The events the count stands for: of the contacts resend() has not still *)
(* to visit, those in a queue file or on their way to one.                 *)
Counted == {e \in Events : (Queued(e) \/ Writing(Im, e)) /\ To[e] \notin todo}
CountSound ==
  /\ unsent = Cardinality(Counted)
  /\ pc = "idle" => todo = {}
  /\ pc = "read" => cur \notin todo

LEMMA CountedFinite == IsFiniteSet(Counted)
<1>1. Counted \in SUBSET Events
  BY DEF Counted
<1> QED
  BY <1>1, ConstantsAssumption, FS_Subset

(* eventwrite() takes an event from the hands of the program to the file.  *)
LEMMA CountWrite ==
  ASSUME TypeOK, SendOnce, Alone, WriterSound, CountSound, EventWrite(Im)
  PROVE  CountSound'
<1>0. Im \in Procs
  BY DEF Procs
<1> SUFFICES ASSUME UNCHANGED <<unsent, pc, todo, cur>> PROVE Counted' = Counted
  <2>1. UNCHANGED <<unsent, pc, todo, cur>>
    BY DEF EventWrite, LockWait, LockPass, LockMake, Open, OpenFails, Write, Unlock, loop
  <2> QED
    BY <2>1 DEF CountSound
<1>1. CASE LockWait(Im) \/ LockPass(Im) \/ LockMake(Im)
  <2>1. /\ UNCHANGED <<offline, leftover, target, inhand>>
        /\ step[Im] \in {"lock", "make"} /\ step'[Im] \in {"lock", "make", "open"}
    BY <1>0, <1>1 DEF LockWait, LockPass, LockMake, TypeOK, disk
  <2> QED
    BY <2>1, SameFiles DEF Counted, Writing
<1>2. CASE Open(Im)
  <2>1. UNCHANGED <<target, inhand>> /\ step[Im] = "open" /\ step'[Im] = "write"
    BY <1>0, <1>2 DEF Open, TypeOK
  <2> QED
    BY <1>0, <1>2, <2>1, OpenKeeps DEF Counted, Writing
<1>3. CASE Write(Im)
  <2>1. /\ UNCHANGED <<target, inhand>> /\ fd[Im] = target[Im]
        /\ step[Im] = "write" /\ step'[Im] = "unlock"
    BY <1>0, <1>3 DEF Write, WriterSound, TypeOK
  <2> QED
    BY <1>0, <1>3, <2>1, WriteKeeps DEF Counted, Writing
<1>4. CASE Unlock(Im)
  <2>1. /\ UNCHANGED <<offline, leftover>> /\ step[Im] = "unlock" /\ step'[Im] = "no"
    BY <1>0, <1>4 DEF Unlock, TypeOK
  <2> QED
    BY <2>1, SameFiles DEF Counted, Writing
<1> QED
  BY <1>1, <1>2, <1>3, <1>4 DEF EventWrite, OpenFails, Alone

(* store() counts the event it postpones, which was nowhere else.          *)
LEMMA CountStore ==
  ASSUME TypeOK, CountSound, NEW e \in Events, Free(Im), Store(e),
         ~Queued(e), To[e] \notin todo, UNCHANGED <<pc, todo, cur>>
  PROVE  CountSound'
<1>0. Im \in Procs /\ step[Im] = "no" /\ \A d : ~Writing(Im, d)
  BY DEF Procs, Free, Writing
<1>1. \A d : Queued(d)' <=> Queued(d)
  BY StoreKeeps, SameFiles
<1>2. CASE Reject(e)
  <2>1. UNCHANGED unsent /\ \A d : ~Writing(Im, d)'
    BY <1>0, <1>2 DEF Reject, writer, Writing
  <2>2. Counted' = Counted
    BY <1>0, <1>1, <2>1 DEF Counted
  <2> QED
    BY <2>1, <2>2 DEF CountSound
<1>3. CASE Deliver(e)
  <2>1. UNCHANGED unsent /\ target'[Im] = "history"
    BY <1>0, <1>3 DEF Deliver, StartWrite, TypeOK
  <2>2. Counted' = Counted
    BY <1>0, <1>1, <2>1 DEF Counted, Writing
  <2> QED
    BY <2>1, <2>2 DEF CountSound
<1>4. CASE Postpone(e)
  <2>1. /\ unsent' = unsent + 1
        /\ step'[Im] = "lock" /\ target'[Im] = "offline" /\ inhand'[Im] = e
    BY <1>0, <1>4 DEF Postpone, StartWrite, TypeOK
  <2>2. Counted' = Counted \cup {e} /\ e \notin Counted
    BY <1>0, <1>1, <2>1 DEF Counted, Writing
  <2>3. Cardinality(Counted') = Cardinality(Counted) + 1
    BY <2>2, CountedFinite, FS_AddElement
  <2> QED
    BY <2>1, <2>3 DEF CountSound
<1> QED
  BY <1>2, <1>3, <1>4 DEF Store

(* resend() counts afresh: nothing at first, and of a contact it has       *)
(* visited only what is queued again.                                      *)
LEMMA CountResend ==
  ASSUME TypeOK, Alone, WriterSound, CountSound,
         ResendBegin \/ (\E c \in Contacts : ResendSkip(c) \/ ResendRename(c))
  PROVE  CountSound'
<1>0. Im \in Procs
  BY DEF Procs
<1>1. CASE ResendBegin
  <2>1. pc' = "resend" /\ todo' = Contacts /\ unsent' = 0
    BY <1>1 DEF ResendBegin
  <2>2. Counted' = {}
    BY <2>1, ConstantsAssumption DEF Counted
  <2> QED
    BY <2>1, <2>2, FS_EmptySet DEF CountSound
<1>2. ASSUME NEW c \in Contacts, ResendSkip(c) PROVE CountSound'
  <2>1. /\ UNCHANGED <<offline, leftover, step, pc, cur, unsent>>
        /\ pc = "resend" /\ todo' = todo \ {c} /\ offline[c] = NoFile
    BY <1>2 DEF ResendSkip, disk, writer
  <2>2. \A e : ~Writing(Im, e) /\ ~Writing(Im, e)'
    BY <2>1 DEF WriterSound, Writing
  <2>3. \A e \in Events : To[e] = c => ~Queued(e)
    BY <2>1 DEF Queued, InFile, Content
  <2>4. Counted' = Counted
    BY <2>1, <2>2, <2>3, SameFiles DEF Counted
  <2> QED
    BY <2>1, <2>4 DEF CountSound
<1>3. ASSUME NEW c \in Contacts, ResendRename(c) PROVE CountSound'
  <2>1. /\ UNCHANGED <<step, unsent>> /\ c \in todo
        /\ pc = "resend" /\ pc' = "read" /\ todo' = todo \ {c} /\ cur' = c
    BY <1>3 DEF ResendRename, Alone
  <2>2. \A e : ~Writing(Im, e) /\ ~Writing(Im, e)'
    BY <2>1 DEF WriterSound, Writing
  <2>3. \A e \in Events : Queued(e)' <=> Queued(e) /\ To[e] # c
    BY <1>3, RenameKeeps
  <2>4. Counted' = Counted
    BY <2>1, <2>2, <2>3 DEF Counted
  <2> QED
    BY <2>1, <2>4 DEF CountSound
<1> QED
  BY <1>1, <1>2, <1>3

LEMMA CountNext ==
  ASSUME TypeOK, SendOnce, Known, Orderly, Alone, CountSound, [Next]_vars
  PROVE  CountSound'
<1>0. WriterSound /\ LoopSound
  BY DEF Orderly
<1>1. ASSUME NEW e \in Events, Submit(e) PROVE CountSound'
  <2>1. /\ pc = "idle" /\ Free(Im) /\ e \notin created /\ Store(e)
        /\ UNCHANGED <<pc, todo, cur>>
    BY <1>1 DEF Submit, loop
  <2>2. ~Queued(e) /\ To[e] \notin todo
    BY <2>1 DEF SendOnce, Unsent, CountSound
  <2> QED
    BY <2>1, <2>2, CountStore
<1>2. CASE ResendStore
  <2>1. PICK e \in Events : /\ Store(e) /\ Free(Im) /\ To[e] = cur /\ ~Queued(e)
                            /\ pc = "read" /\ UNCHANGED <<pc, cur>>
    BY <1>2, NextRead
  <2>2. UNCHANGED todo /\ cur \notin todo
    BY <1>2, <2>1 DEF ResendStore, CountSound
  <2> QED
    BY <2>1, <2>2, CountStore
<1>3. CASE ResendUnlink
  <2>1. pc' = "resend" /\ UNCHANGED <<todo, unsent, step, target, inhand, offline>>
    BY <1>3 DEF ResendUnlink
  <2>2. Counted' = Counted
    BY <2>1 DEF Counted, Queued, Writing
  <2> QED
    BY <2>1, <2>2 DEF CountSound
<1>4. CASE ResendEof \/ ResendEnd \/ (\E h \in Hooks : HookChange(h)) \/ Tick \/ UNCHANGED vars
  <2>1. /\ UNCHANGED <<disk, writer, todo, cur, unsent>>
        /\ pc' = "idle" => todo = {}
        /\ pc' = "read" => pc = "read"
    BY <1>4 DEF ResendEof, ResendEnd, HookChange, Tick, vars, loop, CountSound
  <2>2. Counted' = Counted
    BY <2>1 DEF Counted, Queued, Writing, disk, writer
  <2> QED
    BY <2>1, <2>2 DEF CountSound
<1> QED
  BY <1>0, <1>1, <1>2, <1>3, <1>4, NextCases, CountWrite, CountResend
  DEF Moves, Walk, Restart, LoopSound, Crash, Alone, Procs

(* With one process and no fault the status bar is right about the events  *)
(* that wait, however many a resend() has sent, rejected and queued again. *)
THEOREM UnsentIsExact ==
  ASSUME Senders = {}, Faults = {}
  PROVE  Spec => []UnsentExact
<1>1. Alone
  BY DEF Alone
<1>2. Init => CountSound
  <2> SUFFICES ASSUME Init PROVE CountSound
    OBVIOUS
  <2>1. Counted = {}
    BY ConstantsAssumption DEF Init, Counted, Queued, Writing, InFile, Content, Procs
  <2> QED
    BY <2>1, FS_EmptySet DEF Init, CountSound
<1>3. TypeOK /\ SendOnce /\ Known /\ Orderly /\ CountSound /\ [Next]_vars => CountSound'
  BY <1>1, CountNext
<1>4. CountSound => UnsentExact
  <2> SUFFICES ASSUME CountSound, pc = "idle", Free(Im)
               PROVE  unsent = Cardinality(InQueue)
    BY DEF UnsentExact
  <2>1. Counted = InQueue
    BY DEF CountSound, Counted, InQueue, Writing, Free
  <2> QED
    BY <2>1 DEF CountSound
<1> QED
  BY <1>2, <1>3, <1>4, QueueInv, PTL DEF Spec

-----------------------------------------------------------------------------
(* The flood gate.                                                         *)

(* A send that store() has still to count. *)
Counting == step[Im] # "no" /\ target[Im] = "history"
Count == recentlysent + IF Counting THEN 1 ELSE 0

(* An event sent within the period is counted, unless the count has begun  *)
(* anew since; and it cannot have while lastevent is within the period,    *)
(* because no counted send is younger than lastevent.                      *)
Flood ==
  /\ \A p \in Senders : target[p] = "offline"
  /\ \A e \in Events : (Counting /\ e = inhand[Im]) \/ quiet <= age[e]
  /\ Cardinality(Window) <= Count
  /\ Count <= MaxAtOnce

LEMMA WindowFinite == IsFiniteSet(Window) /\ Cardinality(Window) \in Nat
<1>1. Window \subseteq Events
  BY DEF Window
<1> QED
  BY <1>1, ConstantsAssumption, FS_Subset, FS_CardinalityType

(* The sends within the period grow by the event just sent at most. *)
LEMMA WindowGrows ==
  ASSUME NEW W \in SUBSET Events, NEW V \in SUBSET Events, NEW e, V \subseteq W \cup {e}
  PROVE  /\ Cardinality(V) \in Nat /\ Cardinality(W) \in Nat
         /\ Cardinality(V) <= Cardinality(W) + 1
         /\ V \subseteq W => Cardinality(V) <= Cardinality(W)
<1>1. IsFiniteSet(W) /\ IsFiniteSet(V) /\ IsFiniteSet(W \cup {e})
  BY ConstantsAssumption, FS_Subset, FS_AddElement
<1>2. /\ Cardinality(V) \in Nat /\ Cardinality(W) \in Nat /\ Cardinality(W \cup {e}) \in Nat
  BY <1>1, FS_CardinalityType
<1>3. Cardinality(W \cup {e}) <= Cardinality(W) + 1
  BY <1>1, <1>2, FS_AddElement
<1>4. Cardinality(V) <= Cardinality(W \cup {e})
  BY <1>1, FS_Subset
<1>5. V \subseteq W => Cardinality(V) <= Cardinality(W)
  BY <1>1, FS_Subset
<1> QED
  BY <1>2, <1>3, <1>4, <1>5

(* A step that sends nothing and leaves the gate alone. *)
LEMMA FloodStays ==
  ASSUME TypeOK, Flood, UNCHANGED <<recentlysent, quiet, age>>,
         \A p \in Senders : target'[p] = "offline",
         Counting' <=> Counting, Counting => inhand'[Im] = inhand[Im]
  PROVE  Flood'
<1>1. Window' = Window /\ Count' = Count
  BY DEF Window, Count
<1>2. \A e \in Events : (Counting' /\ e = inhand'[Im]) \/ quiet' <= age'[e]
  BY DEF Flood
<1> QED
  BY <1>1, <1>2 DEF Flood

LEMMA FloodTick == ASSUME TypeOK, Flood, Tick PROVE Flood'
<1>1. /\ quiet' = Older(quiet) /\ age' = [e \in Events |-> Older(age[e])]
      /\ UNCHANGED <<recentlysent, step, target, inhand>>
  BY DEF Tick, writer
<1>2. /\ LongAgo \in Nat /\ PeriodAtOnce \in Nat /\ LongAgo = PeriodAtOnce + 1
      /\ quiet \in 0 .. LongAgo /\ \A e \in Events : age[e] \in 0 .. LongAgo
  BY ConstantsAssumption DEF LongAgo, TypeOK
<1>3. \A e \in Events : quiet <= age[e] => Older(quiet) <= Older(age[e])
  BY <1>2 DEF Older
<1>4. \A e \in Events : age[e] <= Older(age[e])
  BY <1>2 DEF Older
<1>5. Window' \subseteq Window
  BY <1>1, <1>2, <1>4 DEF Window, Older
<1>6. Cardinality(Window') <= Cardinality(Window) /\ Cardinality(Window) \in Nat /\ Cardinality(Window') \in Nat
  <2>1. Window \in SUBSET Events /\ Window' \in SUBSET Events
    BY DEF Window
  <2> QED
    BY <1>5, <2>1, WindowGrows
<1>7. (Counting' <=> Counting) /\ Count' = Count /\ Count \in Nat
  BY <1>1 DEF Counting, Count, TypeOK
<1>8. \A e \in Events : (Counting' /\ e = inhand'[Im]) \/ quiet' <= age'[e]
  BY <1>1, <1>3, <1>7 DEF Flood
<1>9. Cardinality(Window)' <= Count' /\ Count' <= MaxAtOnce
  BY <1>6, <1>7, ConstantsAssumption DEF Flood
<1> QED
  BY <1>1, <1>8, <1>9 DEF Flood

LEMMA FloodWrite ==
  ASSUME TypeOK, Flood, NEW p \in Procs, EventWrite(p) PROVE Flood'
<1>0. Im \in Procs /\ Im \notin Senders
  BY ConstantsAssumption DEF Procs
<1>1. CASE LockWait(p) \/ LockPass(p) \/ LockMake(p) \/ Open(p) \/ OpenFails(p) \/ Write(p)
  <2>1. /\ UNCHANGED <<recentlysent, quiet, age, target, inhand>>
        /\ (step'[Im] = "no") <=> (step[Im] = "no")
    BY <1>0, <1>1 DEF LockWait, LockPass, LockMake, Open, OpenFails, Write, TypeOK, gate, ghosts
  <2> QED
    BY <2>1, FloodStays DEF Counting, Flood
<1>2. CASE Unlock(p)
  <2>1. /\ step[p] = "unlock" /\ step' = [step EXCEPT ![p] = "no"]
        /\ target' = [target EXCEPT ![p] = "offline"] /\ inhand' = [inhand EXCEPT ![p] = None]
        /\ UNCHANGED age
        /\ IF target[p] = "history" THEN quiet' = 0 /\ recentlysent' = recentlysent + 1
           ELSE UNCHANGED <<recentlysent, quiet>>
    BY <1>2 DEF Unlock, gate
  <2>2. \A q \in Senders : target'[q] = "offline"
    BY <2>1 DEF Flood, TypeOK, Procs
  <2>3. CASE target[p] = "history"
    <3>1. p = Im /\ Counting /\ ~Counting'
      BY <1>0, <2>1, <2>3 DEF Flood, Procs, Counting, TypeOK
    <3>2. Count' = Count
      BY <2>1, <2>3, <3>1 DEF Count, TypeOK
    <3>3. \A e \in Events : quiet' <= age'[e]
      BY <2>1, <2>3, ConstantsAssumption DEF TypeOK, LongAgo
    <3>4. Window' = Window
      BY <2>1 DEF Window
    <3> QED
      BY <2>2, <3>2, <3>3, <3>4 DEF Flood
  <2>4. CASE target[p] # "history"
    <3>1. (Counting' <=> Counting) /\ (Counting => inhand'[Im] = inhand[Im])
      BY <1>0, <2>1, <2>4 DEF Counting, TypeOK
    <3> QED
      BY <2>1, <2>2, <2>4, <3>1, FloodStays
  <2> QED
    BY <2>3, <2>4
<1> QED
  BY <1>1, <1>2 DEF EventWrite

LEMMA FloodStore ==
  ASSUME TypeOK, Flood, NEW e \in Events, Free(Im), Store(e) PROVE Flood'
<1>0. /\ Im \in Procs /\ step[Im] = "no" /\ Im \notin Senders /\ ~Counting
  BY ConstantsAssumption DEF Procs, Free, Counting
<1>1. /\ MaxAtOnce \in Nat /\ PeriodAtOnce \in Nat /\ recentlysent \in Nat
      /\ quiet \in Nat /\ \A d \in Events : age[d] \in Nat /\ quiet <= age[d]
  BY <1>0, ConstantsAssumption DEF TypeOK, Flood, LongAgo
<1>2. Window \in SUBSET Events /\ Window' \in SUBSET Events
  BY DEF Window
(* After a quiet period nothing that was sent is within the period. *)
<1>3. /\ Burst \in Nat /\ Cardinality(Window) <= Burst /\ Burst <= MaxAtOnce
      /\ Cardinality(Window) \in Nat
  <2>1. Cardinality(Window) <= recentlysent /\ recentlysent <= MaxAtOnce
    BY <1>0, <1>1 DEF Flood, Count
  <2>2. Cardinality(Window) \in Nat
    BY WindowFinite
  <2>3. CASE quiet > PeriodAtOnce
    <3>1. Window = {}
      BY <1>1, <2>3 DEF Window
    <3>2. Cardinality(Window) = 0
      BY <3>1, FS_EmptySet
    <3> QED
      BY <1>1, <2>3, <3>2 DEF Burst
  <2>4. CASE ~(quiet > PeriodAtOnce)
    BY <1>1, <2>1, <2>2, <2>4 DEF Burst
  <2> QED
    BY <2>3, <2>4
<1>4. CASE Reject(e)
  <2>1. UNCHANGED <<recentlysent, quiet, age, step, target, inhand>>
    BY <1>4 DEF Reject, writer, gate
  <2> QED
    BY <2>1, FloodStays DEF Counting, Flood
<1>5. CASE Postpone(e)
  <2>1. /\ recentlysent' = Burst /\ UNCHANGED <<quiet, age>>
        /\ target' = [target EXCEPT ![Im] = "offline"]
    BY <1>5 DEF Postpone, StartWrite
  <2>2. ~Counting' /\ \A p \in Senders : target'[p] = "offline"
    BY <1>0, <2>1 DEF Counting, TypeOK, Flood, Procs
  <2>3. Window' = Window /\ Count' = Burst
    BY <1>3, <2>1, <2>2 DEF Window, Count
  <2>4. \A d \in Events : quiet' <= age'[d]
    BY <1>1, <2>1
  <2> QED
    BY <1>3, <2>2, <2>3, <2>4 DEF Flood
<1>6. CASE Deliver(e)
  <2>1. /\ recentlysent' = Burst /\ Burst < MaxAtOnce /\ UNCHANGED quiet
        /\ age' = [age EXCEPT ![e] = 0]
        /\ step' = [step EXCEPT ![Im] = "lock"] /\ target' = [target EXCEPT ![Im] = "history"]
        /\ inhand' = [inhand EXCEPT ![Im] = e]
    BY <1>6 DEF Deliver, Ready, StartWrite
  <2>2. /\ Counting' /\ inhand'[Im] = e
        /\ \A p \in Senders : target'[p] = "offline"
    BY <1>0, <2>1 DEF Counting, TypeOK, Flood, Procs
  <2>3. \A d \in Events \ {e} : age'[d] = age[d]
    BY <2>1 DEF TypeOK
  <2>4. Window' \subseteq Window \cup {e}
    BY <2>3 DEF Window
  <2>5. Cardinality(Window') <= Cardinality(Window) + 1 /\ Cardinality(Window') \in Nat
    BY <1>2, <2>4, WindowGrows
  <2>6. Count' = Burst + 1
    BY <2>1, <2>2 DEF Count
  <2>7. Cardinality(Window)' <= Count' /\ Count' <= MaxAtOnce
    BY <1>1, <1>3, <2>1, <2>5, <2>6
  <2>8. \A d \in Events : (Counting' /\ d = inhand'[Im]) \/ quiet' <= age'[d]
    BY <1>1, <2>1, <2>2, <2>3
  <2> QED
    BY <2>2, <2>7, <2>8 DEF Flood
<1> QED
  BY <1>4, <1>5, <1>6 DEF Store

LEMMA FloodNext ==
  ASSUME TypeOK, SendOnce, Flood, [Next]_vars PROVE Flood'
<1>0. Im \in Procs /\ Im \notin Senders
  BY ConstantsAssumption DEF Procs
<1>1. CASE Walk /\ ~Tick
  <2>1. UNCHANGED <<recentlysent, quiet, age, step, target, inhand>>
    BY <1>1 DEF Walk, ResendBegin, ResendSkip, ResendEof, ResendEnd, HookChange, Restart,
                vars, writer, gate, ghosts
  <2> QED
    BY <2>1, FloodStays DEF Counting, Flood
<1>2. ASSUME ResendUnlink \/ \E c \in Contacts : ResendRename(c) PROVE Flood'
  <2>1. UNCHANGED <<recentlysent, quiet, age, step, target, inhand>>
    BY <1>2 DEF ResendUnlink, ResendRename, gate, ghosts
  <2> QED
    BY <2>1, FloodStays DEF Counting, Flood
<1>3. CASE Crash
  <2>1. /\ step' = [step EXCEPT ![Im] = "no"] /\ target' = [target EXCEPT ![Im] = "offline"]
        /\ recentlysent' = 0 /\ quiet' = LongAgo /\ age' = [e \in Events |-> LongAgo]
    BY <1>3 DEF Crash
  <2>2. ~Counting' /\ \A p \in Senders : target'[p] = "offline"
    BY <1>0, <2>1 DEF Counting, TypeOK, Flood, Procs
  <2>3. LongAgo \in Nat /\ LongAgo > PeriodAtOnce /\ PeriodAtOnce \in Nat /\ MaxAtOnce \in Nat
    BY ConstantsAssumption DEF LongAgo
  <2>4. Window' = {} /\ Count' = 0
    BY <2>1, <2>2, <2>3 DEF Window, Count
  <2>5. Cardinality(Window)' = 0
    BY <2>4, FS_EmptySet
  <2>6. \A e \in Events : quiet' <= age'[e]
    BY <2>1, <2>3
  <2> QED
    BY <2>2, <2>3, <2>4, <2>5, <2>6 DEF Flood
<1>4. ASSUME NEW e \in Events, Submit(e) PROVE Flood'
  BY <1>4, FloodStore DEF Submit
<1>5. CASE ResendStore
  BY <1>5, NextRead, FloodStore
<1>6. ASSUME NEW p \in Senders, NEW e \in Events, SenderStore(p, e) PROVE Flood'
  <2>1. /\ p # Im /\ p \in Procs /\ UNCHANGED <<recentlysent, quiet, age>>
        /\ step' = [step EXCEPT ![p] = "lock"] /\ target' = [target EXCEPT ![p] = "offline"]
        /\ inhand' = [inhand EXCEPT ![p] = e]
    BY <1>6, ConstantsAssumption DEF SenderStore, StartWrite, gate, Procs
  <2>2. (Counting' <=> Counting) /\ inhand'[Im] = inhand[Im]
    BY <1>0, <2>1 DEF Counting, TypeOK
  <2>3. \A q \in Senders : target'[q] = "offline"
    BY <2>1 DEF Flood, TypeOK, Procs
  <2> QED
    BY <2>1, <2>2, <2>3, FloodStays
<1> QED
  BY <1>1, <1>2, <1>3, <1>4, <1>5, <1>6, FloodTick, FloodWrite, NextCases DEF Moves

(* Whatever crashes and fails, and however long the queue that is sent     *)
(* again, store() hands the network at most MAX_ATONCE events in a period. *)
THEOREM FloodGateHolds == Spec => []FloodBound
<1>1. Init => Flood
  <2> SUFFICES ASSUME Init PROVE Flood
    OBVIOUS
  <2>1. /\ \A e \in Events : age[e] = LongAgo
        /\ quiet = LongAgo /\ recentlysent = 0 /\ ~Counting
        /\ \A p \in Senders : target[p] = "offline"
    BY DEF Init, Procs, Counting
  <2>2. LongAgo \in Nat /\ LongAgo > PeriodAtOnce /\ PeriodAtOnce \in Nat /\ MaxAtOnce \in Nat
    BY ConstantsAssumption DEF LongAgo
  <2>3. Window = {} /\ Count = 0
    BY <2>1, <2>2 DEF Window, Count
  <2>4. Cardinality(Window) = 0
    BY <2>3, FS_EmptySet
  <2> QED
    BY <2>1, <2>2, <2>3, <2>4 DEF Flood
<1>2. TypeOK /\ SendOnce /\ Known /\ Orderly /\ Flood /\ [Next]_vars => Flood'
  BY FloodNext
<1>3. TypeOK /\ Flood => FloodBound
  <2> SUFFICES ASSUME TypeOK, Flood PROVE FloodBound
    OBVIOUS
  <2>1. Cardinality(Window) \in Nat /\ MaxAtOnce \in Nat
    BY WindowFinite, ConstantsAssumption
  <2>2. Cardinality(Window) <= Count /\ Count <= MaxAtOnce
    BY DEF Flood
  <2>3. Count \in Nat
    BY DEF TypeOK, Count
  <2> QED
    BY <2>1, <2>2, <2>3 DEF FloodBound
<1> QED
  BY <1>1, <1>2, <1>3, QueueInv, PTL DEF Spec

=============================================================================
