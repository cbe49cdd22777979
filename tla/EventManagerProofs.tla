------------------------- MODULE EventManagerProofs -------------------------
(***************************************************************************)
(* Proofs about EventManager, for any contacts, events, hooks, senders,    *)
(* limits and faults.                                                      *)
(***************************************************************************)
EXTENDS EventManager, TLAPS

(* What a file holds is a sequence of events, a missing file the empty one. *)
LEMMA ContentType ==
  ASSUME NEW f \in Seq(Events) \cup {NoFile}
  PROVE  Content(f) \in Seq(Events)
BY DEF Content

(* Appending an event to a file gives a file that exists. *)
LEMMA AppendType ==
  ASSUME NEW f \in Seq(Events) \cup {NoFile}, NEW e \in Events
  PROVE  Append(Content(f), e) \in Seq(Events) /\ Append(Content(f), e) # NoFile
<1>1. Content(f) \in Seq(Events)
  BY ContentType
<1> HIDE DEF Content
<1>2. Append(Content(f), e) \in Seq(Events)
  BY <1>1
<1>3. NoFile \notin Seq(Events)
  BY ConstantsAssumption
<1> QED
  BY <1>2, <1>3

(* The parts of TypeOK about eventwrite() survive its start. *)
LEMMA StartWriteType ==
  ASSUME TypeOK, NEW p \in Procs, NEW e \in Events, NEW file \in Files,
         StartWrite(p, e, file)
  PROVE  /\ step' \in [Procs -> {"no", "lock", "make", "open", "write", "unlock"}]
         /\ target' \in [Procs -> Files]
         /\ inhand' \in [Procs -> Events \cup {None}]
         /\ tries' \in [Procs -> Nat] /\ fd' \in [Procs -> Descriptors]
         /\ \A q \in Procs : step'[q] # "no" => inhand'[q] \in Events
BY DEF TypeOK, StartWrite

(* store() of an outgoing event keeps what it may change well typed. *)
LEMMA StoreType ==
  ASSUME TypeOK, NEW e \in Events, Store(e)
  PROVE  /\ step' \in [Procs -> {"no", "lock", "make", "open", "write", "unlock"}]
         /\ target' \in [Procs -> Files]
         /\ inhand' \in [Procs -> Events \cup {None}]
         /\ tries' \in [Procs -> Nat] /\ fd' \in [Procs -> Descriptors]
         /\ \A q \in Procs : step'[q] # "no" => inhand'[q] \in Events
         /\ unsent' \in Nat /\ recentlysent' \in Nat /\ quiet' \in 0 .. LongAgo
         /\ rejected' \subseteq Events
         /\ sent' \in [Events -> Nat] /\ age' \in [Events -> 0 .. LongAgo]
         /\ UNCHANGED disk
<1>0. Im \in Procs
  BY DEF Procs
<1>1. CASE Reject(e)
  BY <1>1 DEF Reject, TypeOK, writer, gate, disk
<1>2. CASE Deliver(e)
  <2>1. StartWrite(Im, e, "history")
    BY <1>2 DEF Deliver
  <2>2. Burst \in Nat
    BY DEF Burst, TypeOK
  <2>3. /\ sent' \in [Events -> Nat] /\ age' \in [Events -> 0 .. LongAgo]
    BY <1>2, ConstantsAssumption DEF Deliver, TypeOK, LongAgo
  <2> QED
    BY <1>0, <1>2, <2>1, <2>2, <2>3, StartWriteType DEF Deliver, TypeOK, Files
<1>3. CASE Postpone(e)
  <2>1. StartWrite(Im, e, "offline")
    BY <1>3 DEF Postpone
  <2>2. Burst \in Nat
    BY DEF Burst, TypeOK
  <2> QED
    BY <1>0, <1>3, <2>1, <2>2, StartWriteType DEF Postpone, TypeOK, Files
<1> QED
  BY <1>1, <1>2, <1>3 DEF Store

LEMMA TypeInit == Init => TypeOK
BY ConstantsAssumption DEF Init, TypeOK, Procs, Files, Descriptors, LongAgo

(* eventwrite() keeps the types. *)
LEMMA TypeWrite ==
  ASSUME TypeOK, NEW p \in Procs, EventWrite(p)
  PROVE  TypeOK'
<1> USE DEF TypeOK, disk, writer, loop, gate, ghosts
<1>1. CASE LockWait(p)
  BY <1>1 DEF LockWait
<1>2. CASE LockPass(p)
  BY <1>2 DEF LockPass
<1>3. CASE LockMake(p)
  <2>1. LockOf(p) \in Contacts \X Files
    BY <1>3, ConstantsAssumption DEF LockMake, LockOf
  <2> QED
    BY <1>3, <2>1 DEF LockMake
<1>4. CASE Open(p)
  <2>1. inhand[p] \in Events /\ To[inhand[p]] \in Contacts
    BY <1>4, ConstantsAssumption DEF Open
  <2>2. offline' \in [Contacts -> Seq(Events) \cup {NoFile}]
    BY <1>4, <2>1, ContentType DEF Open
  <2>3. fd' \in [Procs -> Descriptors]
    BY <1>4 DEF Open, Files, Descriptors
  <2> QED
    BY <1>4, <2>2, <2>3 DEF Open
<1>5. CASE OpenFails(p)
  BY <1>5 DEF OpenFails
<1>6. CASE Write(p)
  <2>1. inhand[p] \in Events /\ To[inhand[p]] \in Contacts
    BY <1>6, ConstantsAssumption DEF Write
  <2>2. offline' \in [Contacts -> Seq(Events) \cup {NoFile}]
    BY <1>6, <2>1, AppendType DEF Write
  <2>3. /\ leftover' \in [Contacts -> Seq(Events) \cup {NoFile}]
        /\ \A c \in Contacts : leftover[c] # NoFile => leftover'[c] # NoFile
    BY <1>6, <2>1, AppendType DEF Write
  <2>4. history' \in [Events -> Nat]
    BY <1>6, <2>1 DEF Write
  <2>5. fd' \in [Procs -> Descriptors]
    BY <1>6 DEF Write, Descriptors
  <2> QED
    BY <1>6, <2>2, <2>3, <2>4, <2>5 DEF Write
<1>7. CASE Unlock(p)
  <2>1. /\ quiet' \in 0 .. LongAgo /\ recentlysent' \in Nat
        /\ queued' \subseteq Events
    BY <1>7, ConstantsAssumption DEF Unlock, LongAgo
  <2> QED
    BY <1>7, <2>1 DEF Unlock, Files
<1> QED
  BY <1>1, <1>2, <1>3, <1>4, <1>5, <1>6, <1>7 DEF EventWrite

(* resend() keeps the types. *)
LEMMA TypeResend ==
  ASSUME TypeOK, Resend
  PROVE  TypeOK'
<1>4. CASE ResendStore
  <2>1. /\ cur \in Contacts /\ leftover[cur] \in Seq(Events)
        /\ leftover[cur][pos + 1] \in Events
    BY <1>4 DEF ResendStore, TypeOK
  <2>2. PICK e \in Events : Store(e)
    BY <1>4, <2>1 DEF ResendStore
  <2>3. UNCHANGED <<pc, todo, cur, logged, created, queued>> /\ pos' \in Nat
    BY <1>4 DEF ResendStore, TypeOK
  <2> QED
    BY <2>2, <2>3, StoreType DEF TypeOK, disk
<1> USE DEF TypeOK, disk, writer, loop, gate, ghosts
<1>1. CASE ResendBegin
  BY <1>1 DEF ResendBegin
<1>2. ASSUME NEW c \in Contacts, ResendSkip(c) PROVE TypeOK'
  BY <1>2 DEF ResendSkip
<1>3. ASSUME NEW c \in Contacts, ResendRename(c) PROVE TypeOK'
  <2>1. fd' \in [Procs -> Descriptors]
    BY <1>3 DEF ResendRename, Descriptors
  <2>2. leftover' \in [Contacts -> Seq(Events) \cup {NoFile}] /\ leftover'[c] # NoFile
    BY <1>3 DEF ResendRename
  <2>3. offline' \in [Contacts -> Seq(Events) \cup {NoFile}]
    BY <1>3 DEF ResendRename
  <2>4. pc' \in {"read", "unlink"} /\ cur' = c /\ todo' \subseteq Contacts /\ pos' = 0
    BY <1>3 DEF ResendRename
  <2> QED
    BY <1>3, <2>1, <2>2, <2>3, <2>4 DEF ResendRename
<1>5. CASE ResendEof
  BY <1>5 DEF ResendEof
<1>6. CASE ResendUnlink
  <2>1. fd' \in [Procs -> Descriptors]
    BY <1>6 DEF ResendUnlink, Descriptors
  <2>2. leftover' \in [Contacts -> Seq(Events) \cup {NoFile}]
    BY <1>6 DEF ResendUnlink
  <2> QED
    BY <1>6, <2>1, <2>2 DEF ResendUnlink
<1>7. CASE ResendEnd
  BY <1>7 DEF ResendEnd
<1> QED
  BY <1>1, <1>2, <1>3, <1>4, <1>5, <1>6, <1>7 DEF Resend

LEMMA TypeNext == TypeOK /\ [Next]_vars => TypeOK'
<1> SUFFICES ASSUME TypeOK, [Next]_vars PROVE TypeOK'
  OBVIOUS
<1> USE DEF disk, writer, loop, gate, ghosts
<1>1. ASSUME NEW e \in Events, Submit(e) PROVE TypeOK'
  BY <1>1, StoreType DEF Submit, TypeOK
<1>2. ASSUME NEW p \in Senders, NEW e \in Events, SenderStore(p, e) PROVE TypeOK'
  <2>1. p \in Procs /\ "offline" \in Files
    BY DEF Procs, Files
  <2> QED
    BY <1>2, <2>1, StartWriteType DEF SenderStore, TypeOK
<1>3. ASSUME NEW h \in Hooks, HookChange(h) PROVE TypeOK'
  BY <1>3 DEF HookChange, TypeOK
<1>4. CASE Tick
  BY <1>4, ConstantsAssumption DEF Tick, Older, LongAgo, TypeOK
<1>5. CASE Crash
  <2>1. /\ step' \in [Procs -> {"no", "lock", "make", "open", "write", "unlock"}]
        /\ target' \in [Procs -> Files] /\ inhand' \in [Procs -> Events \cup {None}]
        /\ tries' \in [Procs -> Nat] /\ fd' \in [Procs -> Descriptors]
        /\ \A p \in Procs : step'[p] # "no" => inhand'[p] \in Events
    BY <1>5 DEF Crash, TypeOK, Files, Descriptors
  <2>2. /\ quiet' \in 0 .. LongAgo /\ age' \in [Events -> 0 .. LongAgo]
    BY <1>5, ConstantsAssumption DEF Crash, LongAgo
  <2> QED
    BY <1>5, <2>1, <2>2 DEF Crash, TypeOK
<1>6. CASE Restart
  BY <1>6 DEF Restart, TypeOK
<1>7. CASE UNCHANGED vars
  BY <1>7 DEF vars, TypeOK
<1> QED
  BY <1>1, <1>2, <1>3, <1>4, <1>5, <1>6, <1>7, TypeWrite, TypeResend DEF Next

(* Every variable of the event manager keeps its type, and resend() only   *)
(* reads a queue file that exists.                                         *)
THEOREM TypeCorrect == Spec => []TypeOK
BY TypeInit, TypeNext, PTL DEF Spec

-----------------------------------------------------------------------------
(* No event is sent twice.                                                 *)

LEMMA SendOnceInit == Init => SendOnce
<1> SUFFICES ASSUME Init PROVE SendOnce
  OBVIOUS
<1>1. \A c \in Contacts : Content(offline[c]) = << >> /\ Content(leftover[c]) = << >>
  BY DEF Init, Content
<1>2. \A e \in Events : ~Queued(e) /\ ~Reading(e) /\ \A p \in Procs : ~Writing(p, e)
  BY <1>1, ConstantsAssumption DEF Init, Queued, InFile, Reading, Writing
<1> QED
  BY <1>1, <1>2 DEF Init, SendOnce, NoDuplicateSend, Unsent, OnePlace, FilesDistinct,
       Distinct, Filed, HistoryApart

(* A step that sends nothing, leaves the queue files alone and puts no     *)
(* event into a new place keeps SendOnce.                                  *)
LEMMA Quiet ==
  ASSUME SendOnce, UNCHANGED <<offline, leftover, sent>>, created \subseteq created',
         \A e \in Events : Reading(e)' => Reading(e),
         \A e \in Events, p \in Procs : Writing(p, e)' => Writing(p, e),
         pc' = "read" => pc = "read" /\ cur' = cur /\ pos' = pos,
         HistoryApart'
  PROVE  SendOnce'
<1>1. \A e \in Events : Queued(e)' <=> Queued(e)
  BY DEF Queued, InFile, Content
<1>2. NoDuplicateSend'
  BY DEF SendOnce, NoDuplicateSend
<1>3. Unsent'
  BY <1>1 DEF SendOnce, Unsent
<1>4. OnePlace'
  BY <1>1 DEF SendOnce, OnePlace
<1>5. FilesDistinct'
  BY DEF SendOnce, FilesDistinct, Distinct, Filed, Content
<1> QED
  BY <1>2, <1>3, <1>4, <1>5 DEF SendOnce

(* The same, when the loop of resend() is where it was too. *)
LEMMA QuietWriter ==
  ASSUME SendOnce, UNCHANGED <<offline, leftover, sent, loop>>, created \subseteq created',
         \A e \in Events, p \in Procs : Writing(p, e)' => Writing(p, e),
         HistoryApart'
  PROVE  SendOnce'
BY Quiet DEF loop, Reading

LEMMA OnceWriteQuiet ==
  ASSUME TypeOK, SendOnce, NEW p \in Procs,
         LockWait(p) \/ LockPass(p) \/ LockMake(p) \/ OpenFails(p) \/ Unlock(p)
  PROVE  SendOnce'
<1>1. /\ UNCHANGED <<offline, leftover, sent, loop, created, fd>>
  BY DEF LockWait, LockPass, LockMake, OpenFails, Unlock, disk, ghosts
<1>2. \A q \in Procs :
        /\ q # p => step'[q] = step[q] /\ target'[q] = target[q] /\ inhand'[q] = inhand[q]
        /\ step'[p] # "write"
        /\ step'[p] \in {"lock", "make", "open"} =>
             step[p] \in {"lock", "make"} /\ target'[p] = target[p] /\ inhand'[p] = inhand[p]
  BY DEF TypeOK, LockWait, LockPass, LockMake, OpenFails, Unlock
<1>3. \A e \in Events, q \in Procs : Writing(q, e)' => Writing(q, e)
  BY <1>2 DEF Writing
<1>4. HistoryApart'
  <2>1. step[p] # "write"
    BY DEF LockWait, LockPass, LockMake, OpenFails, Unlock
  <2> QED
    BY <1>1, <1>2, <2>1 DEF SendOnce, HistoryApart
<1> QED
  BY <1>1, <1>3, <1>4, QuietWriter

(* Opening the queue file may create it, empty. *)
LEMMA OnceOpen ==
  ASSUME TypeOK, SendOnce, NEW p \in Procs, Open(p)
  PROVE  SendOnce'
<1>0. inhand[p] \in Events /\ To[inhand[p]] \in Contacts
  BY ConstantsAssumption DEF Open, TypeOK
<1>1. UNCHANGED <<leftover, sent, loop, created, target, inhand>>
  BY DEF Open, ghosts
<1>2. \A c \in Contacts : Content(offline'[c]) = Content(offline[c])
  BY <1>0, ConstantsAssumption DEF Open, TypeOK, Content
<1>3. /\ step' = [step EXCEPT ![p] = "write"] /\ step[p] = "open"
      /\ fd' = [fd EXCEPT ![p] = target[p]]
  BY DEF Open
<1>4. \A e \in Events, q \in Procs : Writing(q, e)' <=> Writing(q, e)
  BY <1>1, <1>3 DEF Writing, TypeOK
<1>5. \A e \in Events : Reading(e)' <=> Reading(e)
  BY <1>1 DEF Reading, loop
<1>6. \A e \in Events : Queued(e)' <=> Queued(e)
  BY <1>2, ConstantsAssumption DEF Queued, InFile
<1>7. HistoryApart'
  BY <1>1, <1>3 DEF SendOnce, HistoryApart, TypeOK, Files
<1>8. FilesDistinct'
  BY <1>1, <1>2 DEF SendOnce, FilesDistinct, Distinct, Filed, loop
<1>9. NoDuplicateSend' /\ Unsent' /\ OnePlace'
  BY <1>1, <1>4, <1>5, <1>6 DEF SendOnce, NoDuplicateSend, Unsent, OnePlace
<1> QED
  BY <1>7, <1>8, <1>9 DEF SendOnce

(* Appending an event that is not there keeps a file without repetition. *)
LEMMA AppendDistinct ==
  ASSUME NEW f \in Seq(Events) \cup {NoFile}, NEW e \in Events, ~InFile(f, e),
         Distinct(f), NEW c, Filed(f, c), To[e] = c
  PROVE  /\ Distinct(Append(Content(f), e)) /\ Filed(Append(Content(f), e), c)
         /\ \A d \in Events : InFile(Append(Content(f), e), d) <=> InFile(f, d) \/ d = e
<1> DEFINE s == Content(f)
           t == Append(s, e)
<1>1. s \in Seq(Events) /\ Content(t) = t
  BY ContentType, AppendType DEF Content
<1>2. \A i \in DOMAIN t : t[i] = IF i = Len(s) + 1 THEN e ELSE s[i]
  BY <1>1
<1>3. DOMAIN t = DOMAIN s \cup {Len(s) + 1} /\ Len(s) + 1 \notin DOMAIN s
  BY <1>1
<1> HIDE DEF s, t
<1>4. \A d \in Events : (\E i \in DOMAIN t : t[i] = d) <=> (\E i \in DOMAIN s : s[i] = d) \/ d = e
  BY <1>2, <1>3
<1>5. \A i \in DOMAIN s : s[i] # e /\ To[s[i]] = c
  BY DEF InFile, Filed, s
<1>6. \A i, j \in DOMAIN t : t[i] = t[j] => i = j
  BY <1>2, <1>3, <1>5 DEF Distinct, s
<1>7. \A i \in DOMAIN t : To[t[i]] = c
  BY <1>2, <1>3, <1>5
<1> QED
  BY <1>1, <1>4, <1>6, <1>7 DEF Distinct, Filed, InFile, s, t

(* Writing the event moves it from a process's hands into a file. *)
LEMMA OnceWrite ==
  ASSUME TypeOK, SendOnce, NEW p \in Procs, Write(p)
  PROVE  SendOnce'
<1> DEFINE e == inhand[p]
           c == To[e]
<1>0. e \in Events /\ c \in Contacts
  BY ConstantsAssumption DEF Write, TypeOK
<1>1. UNCHANGED <<sent, pc, cur, pos, created, target, inhand>>
  BY DEF Write, ghosts, loop
<1>2. /\ step' = [step EXCEPT ![p] = "unlock"] /\ step[p] = "write"
      /\ fd' = [fd EXCEPT ![p] = "none"]
  BY DEF Write
<1>3. HistoryApart'
  BY <1>1, <1>2 DEF SendOnce, HistoryApart, TypeOK
<1>4. \A d \in Events, q \in Procs : Writing(q, d)' <=> Writing(q, d) /\ q # p
  BY <1>1, <1>2 DEF Writing, TypeOK
<1>5. CASE fd[p] = "offline"
  <2>1. Writing(p, e) /\ ~Queued(e) /\ ~Reading(e) /\ sent[e] = 0 /\ e \in created
    BY <1>0, <1>2, <1>5 DEF SendOnce, HistoryApart, Writing, Unsent, OnePlace, TypeOK, Files
  <2>2. /\ UNCHANGED leftover
        /\ offline' = [offline EXCEPT ![c] = Append(Content(offline[c]), e)]
    BY <1>5 DEF Write
  <2>3. offline'[c] = Append(Content(offline[c]), e) /\ \A x \in Contacts \ {c} : offline'[x] = offline[x]
    BY <1>0, <2>2 DEF TypeOK
  <2>a. /\ To[e] = c /\ ~InFile(offline[c], e) /\ Distinct(offline[c])
        /\ Filed(offline[c], c) /\ offline[c] \in Seq(Events) \cup {NoFile}
    BY <1>0, <2>1 DEF TypeOK, SendOnce, FilesDistinct, Queued
  <2> HIDE DEF e, c
  <2>4. /\ Distinct(offline'[c]) /\ Filed(offline'[c], c)
        /\ \A d \in Events : InFile(offline'[c], d) <=> InFile(offline[c], d) \/ d = e
    BY <1>0, <2>a, <2>3, AppendDistinct
  <2>b. \A d \in Events : Queued(d) <=> InFile(offline[To[d]], d)
    BY DEF Queued
  <2>c. \A d \in Events : Queued(d)' <=> InFile(offline'[To[d]], d)
    BY DEF Queued, InFile, Content
  <2>5. \A d \in Events : Queued(d)' <=> Queued(d) \/ d = e
    <3>1. \A d \in Events : To[d] \in Contacts
      BY ConstantsAssumption
    <3> SUFFICES ASSUME NEW d \in Events PROVE Queued(d)' <=> Queued(d) \/ d = e
      OBVIOUS
    <3>2. CASE To[d] = c
      BY <2>b, <2>c, <2>4, <3>2
    <3>3. CASE To[d] # c
      BY <2>a, <2>b, <2>c, <2>3, <3>1, <3>3
    <3> QED
      BY <3>2, <3>3
  <2>6. \A d \in Events : Reading(d)' <=> Reading(d)
    BY <1>1, <2>2 DEF Reading
  <2>7. FilesDistinct'
    <3>1. \A x \in Contacts : Distinct(offline'[x]) /\ Filed(offline'[x], x)
      BY <2>3, <2>4 DEF SendOnce, FilesDistinct
    <3>2. \A x \in Contacts : Filed(leftover'[x], x)
      BY <2>2 DEF SendOnce, FilesDistinct
    <3>3. pc' = "read" =>
            /\ pos' <= Len(leftover'[cur'])
            /\ \A i, j \in DOMAIN leftover'[cur'] :
                 i > pos' /\ j > pos' /\ leftover'[cur'][i] = leftover'[cur'][j] => i = j
      BY <1>1, <2>2 DEF SendOnce, FilesDistinct
    <3> QED
      BY <3>1, <3>2, <3>3 DEF FilesDistinct, Distinct, Filed
  <2>8. NoDuplicateSend' /\ Unsent'
    BY <1>1, <1>4, <2>1, <2>5, <2>6 DEF SendOnce, NoDuplicateSend, Unsent
  <2>9. OnePlace'
    BY <1>0, <1>4, <2>1, <2>5, <2>6 DEF SendOnce, OnePlace
  <2> QED
    BY <1>3, <2>7, <2>8, <2>9 DEF SendOnce
<1>6. CASE fd[p] = "offline_"
  <2>1. Writing(p, e) /\ ~Queued(e) /\ ~Reading(e) /\ sent[e] = 0 /\ e \in created
    BY <1>0, <1>2, <1>6 DEF SendOnce, HistoryApart, Writing, Unsent, OnePlace, TypeOK, Files
  <2>2. /\ UNCHANGED offline
        /\ leftover' = [leftover EXCEPT ![c] = Append(Content(leftover[c]), e)]
    BY <1>6 DEF Write
  <2>3. leftover'[c] = Append(Content(leftover[c]), e) /\ \A x \in Contacts \ {c} : leftover'[x] = leftover[x]
    BY <1>0, <2>2 DEF TypeOK
  <2> DEFINE s == Content(leftover[c])
             t == leftover'[c]
  <2>4. s \in Seq(Events) /\ t \in Seq(Events) /\ Content(t) = t
    BY <1>0, <2>3, ContentType, AppendType DEF TypeOK, Content
  <2>5. /\ \A i \in DOMAIN t : t[i] = IF i = Len(s) + 1 THEN e ELSE s[i]
        /\ DOMAIN t = DOMAIN s \cup {Len(s) + 1} /\ Len(s) + 1 \notin DOMAIN s
        /\ Len(s) \in Nat /\ Len(t) = Len(s) + 1
    BY <1>0, <2>3, <2>4
  <2>6. Filed(t, c)
    <3>1. \A i \in DOMAIN s : To[s[i]] = c
      BY <1>0 DEF SendOnce, FilesDistinct, Filed
    <3> QED
      BY <2>4, <2>5, <3>1 DEF Filed
  <2>7. pc = "read" /\ cur = c => s = leftover[c] /\ pos <= Len(s)
    BY <1>0 DEF TypeOK, SendOnce, FilesDistinct, Content
  <2> HIDE DEF s, t, e, c
  <2>8. \A d \in Events : Queued(d)' <=> Queued(d)
    BY <2>2 DEF Queued
  <2>9. \A d \in Events : Reading(d)' => Reading(d) \/ d = e
    <3> SUFFICES ASSUME NEW d \in Events, Reading(d)', d # e PROVE Reading(d)
      OBVIOUS
    <3>0. pc' = "read" /\ cur' = To[d]
      BY DEF Reading
    <3>a. To[d] \in Contacts
      BY ConstantsAssumption
    <3>1. pc = "read" /\ cur = To[d] /\ cur \in Contacts
      BY <1>1, <3>0, <3>a
    <3>2. PICK i \in DOMAIN leftover'[cur] : i > pos /\ leftover'[cur][i] = d
      BY <1>1 DEF Reading
    <3>3. CASE cur = c
      BY <1>1, <2>5, <2>7, <3>1, <3>2, <3>3 DEF Reading, t
    <3>4. CASE cur # c
      BY <2>3, <3>1, <3>2, <3>4 DEF Reading
    <3> QED
      BY <3>3, <3>4
  <2>10. FilesDistinct'
    <3>1. \A x \in Contacts :
            Distinct(offline[x])' /\ Filed(offline[x], x)' /\ Filed(leftover[x], x)'
      <4> TAKE x \in Contacts
      <4>1. Distinct(offline[x]) /\ Filed(offline[x], x) /\ Filed(leftover[x], x)
        BY <1>0 DEF SendOnce, FilesDistinct
      <4>2. Distinct(offline[x])' /\ Filed(offline[x], x)'
        BY <2>2, <4>1 DEF Distinct, Filed, Content
      <4>3. Filed(leftover'[x], x)
        BY <2>3, <2>6, <4>1 DEF t
      <4> QED
        BY <4>2, <4>3 DEF Filed, Content
    <3>2. ASSUME pc' = "read"
          PROVE  pos' <= Len(leftover'[cur']) /\
                 \A i, j \in DOMAIN leftover'[cur'] :
                   i > pos' /\ j > pos' /\ leftover'[cur'][i] = leftover'[cur'][j] => i = j
      <4>1. pc = "read" /\ cur \in Contacts /\ pos \in Nat
        BY <1>1, <3>2 DEF TypeOK
      <4>2. CASE cur # c
        BY <1>1, <2>3, <4>1, <4>2 DEF SendOnce, FilesDistinct
      <4>3. CASE cur = c
        <5>1. s = leftover[c] /\ pos <= Len(s)
          BY <2>7, <4>1, <4>3
        <5>2. \A i \in DOMAIN s : i > pos => s[i] # e
          BY <2>1, <4>1, <4>3, <5>1 DEF Reading, c
        <5>3. \A i, j \in DOMAIN s : i > pos /\ j > pos /\ s[i] = s[j] => i = j
          BY <4>1, <4>3, <5>1 DEF SendOnce, FilesDistinct
        <5>4. \A i, j \in DOMAIN t : i > pos /\ j > pos /\ t[i] = t[j] => i = j
          BY <2>5, <5>2, <5>3
        <5>5. pos <= Len(t)
          BY <2>5, <4>1, <5>1
        <5> QED
          BY <1>1, <4>3, <5>4, <5>5 DEF t
      <4> QED
        BY <4>2, <4>3
    <3> QED
      BY <3>1, <3>2 DEF FilesDistinct
  <2>11. NoDuplicateSend' /\ Unsent'
    BY <1>1, <1>4, <2>1, <2>8, <2>9 DEF SendOnce, NoDuplicateSend, Unsent
  <2>12. OnePlace'
    BY <1>0, <1>4, <2>1, <2>8, <2>9 DEF SendOnce, OnePlace
  <2> QED
    BY <1>3, <2>10, <2>11, <2>12 DEF SendOnce
<1>7. CASE fd[p] \notin {"offline", "offline_"}
  <2>1. UNCHANGED <<offline, leftover, loop>>
    BY <1>7 DEF Write
  <2> QED
    BY <1>1, <1>3, <1>4, <2>1, QuietWriter
<1> QED
  BY <1>5, <1>6, <1>7

(* store() of an event that waits nowhere else and was never sent. *)
LEMMA OnceStore ==
  ASSUME TypeOK, SendOnce, Free(Im), NEW e \in Events, Store(e),
         sent[e] = 0, ~Queued(e), \A p \in Procs : ~Writing(p, e),
         created \subseteq created', e \in created',
         ~Reading(e)', \A d \in Events : Reading(d)' => Reading(d),
         FilesDistinct'
  PROVE  SendOnce'
<1>0. Im \in Procs /\ step[Im] = "no"
  BY DEF Procs, Free
<1>1. UNCHANGED offline
  BY DEF Store, Reject, Deliver, Postpone, disk
<1>2. \A d \in Events : Queued(d)' <=> Queued(d)
  BY <1>1 DEF Queued
<1>3. CASE Reject(e)
  <2>1. UNCHANGED <<step, target, inhand, fd, sent>>
    BY <1>3 DEF Reject, writer
  <2>2. \A d \in Events, q \in Procs : Writing(q, d)' <=> Writing(q, d)
    BY <2>1 DEF Writing
  <2> QED
    BY <1>2, <2>1, <2>2 DEF SendOnce, NoDuplicateSend, Unsent, OnePlace, HistoryApart
<1>4. CASE Deliver(e)
  <2>1. StartWrite(Im, e, "history")
    BY <1>4 DEF Deliver
  <2>2. \A d \in Events, q \in Procs : Writing(q, d)' => Writing(q, d)
    BY <1>0, <2>1 DEF Writing, StartWrite, TypeOK
  <2>3. HistoryApart'
    BY <1>0, <2>1 DEF HistoryApart, SendOnce, StartWrite, TypeOK
  <2>4. sent'[e] = 1 /\ \A d \in Events \ {e} : sent'[d] = sent[d]
    BY <1>4 DEF Deliver, TypeOK
  <2>5. NoDuplicateSend'
    BY <2>4 DEF NoDuplicateSend, SendOnce
  <2>6. Unsent'
    <3> SUFFICES ASSUME NEW d \in Events
                 PROVE  /\ Queued(d)' \/ Reading(d)' \/ (\E p \in Procs : Writing(p, d)')
                             => sent'[d] = 0 /\ d \in created'
                        /\ sent'[d] > 0 => d \in created'
      BY DEF Unsent
    <3>1. CASE d = e
      BY <1>2, <2>2, <3>1
    <3>2. CASE d # e
      BY <1>2, <2>2, <2>4, <3>2 DEF Unsent, SendOnce
    <3> QED
      BY <3>1, <3>2
  <2>7. OnePlace'
    BY <1>2, <2>2 DEF OnePlace, SendOnce
  <2> QED
    BY <2>3, <2>5, <2>6, <2>7 DEF SendOnce
<1>5. CASE Postpone(e)
  <2>1. StartWrite(Im, e, "offline") /\ UNCHANGED sent
    BY <1>5 DEF Postpone
  <2>2. \A d \in Events, q \in Procs : Writing(q, d)' <=> Writing(q, d) \/ (q = Im /\ d = e)
    BY <1>0, <2>1 DEF Writing, StartWrite, TypeOK
  <2>3. HistoryApart'
    BY <1>0, <2>1 DEF HistoryApart, SendOnce, StartWrite, TypeOK
  <2>4. NoDuplicateSend'
    BY <2>1 DEF NoDuplicateSend, SendOnce
  <2>5. Unsent'
    BY <1>2, <2>1, <2>2 DEF Unsent, SendOnce
  <2>6. OnePlace'
    BY <1>2, <2>2 DEF OnePlace, SendOnce
  <2> QED
    BY <2>3, <2>4, <2>5, <2>6 DEF SendOnce
<1> QED
  BY <1>3, <1>4, <1>5 DEF Store

LEMMA OnceSubmit ==
  ASSUME TypeOK, SendOnce, NEW e \in Events, Submit(e)
  PROVE  SendOnce'
<1>1. /\ Free(Im) /\ Store(e) /\ created' = created \cup {e} /\ e \notin created
      /\ pc = "idle" /\ UNCHANGED loop
  BY DEF Submit
<1>2. sent[e] = 0 /\ ~Queued(e) /\ \A p \in Procs : ~Writing(p, e)
  BY <1>1 DEF SendOnce, Unsent, TypeOK
<1>3. \A d \in Events : ~Reading(d)'
  BY <1>1 DEF Reading, loop
<1>4. UNCHANGED <<offline, leftover>>
  BY <1>1 DEF Store, Reject, Deliver, Postpone, disk
<1>5. FilesDistinct'
  BY <1>1, <1>4 DEF SendOnce, FilesDistinct, Distinct, Filed, loop
<1> QED
  BY <1>1, <1>2, <1>3, <1>5, OnceStore

LEMMA OnceSender ==
  ASSUME TypeOK, SendOnce, NEW p \in Senders, NEW e \in Events, SenderStore(p, e)
  PROVE  SendOnce'
<1>0. p \in Procs /\ step[p] = "no"
  BY DEF Procs, SenderStore, Free
<1>1. /\ StartWrite(p, e, "offline") /\ created' = created \cup {e} /\ e \notin created
      /\ UNCHANGED <<offline, leftover, pc, cur, pos, sent>>
  BY DEF SenderStore, loop, disk
<1>2. \A d \in Events, q \in Procs : Writing(q, d)' <=> Writing(q, d) \/ (q = p /\ d = e)
  BY <1>0, <1>1 DEF Writing, StartWrite, TypeOK
<1>3. \A d \in Events : (Queued(d)' <=> Queued(d)) /\ (Reading(d)' <=> Reading(d))
  BY <1>1 DEF Queued, Reading
<1>4. sent[e] = 0 /\ ~Queued(e) /\ ~Reading(e) /\ \A q \in Procs : ~Writing(q, e)
  BY <1>1 DEF SendOnce, Unsent, TypeOK
<1>5. HistoryApart'
  BY <1>0, <1>1 DEF HistoryApart, SendOnce, StartWrite, TypeOK
<1>6. FilesDistinct'
  BY <1>1 DEF SendOnce, FilesDistinct, Distinct, Filed
<1>7. NoDuplicateSend' /\ Unsent'
  BY <1>1, <1>2, <1>3, <1>4 DEF NoDuplicateSend, Unsent, SendOnce
<1>8. OnePlace'
  BY <1>2, <1>3, <1>4 DEF OnePlace, SendOnce
<1> QED
  BY <1>5, <1>6, <1>7, <1>8 DEF SendOnce

(* resend() takes the next event of the file it reads. *)
LEMMA OnceResendStore ==
  ASSUME TypeOK, SendOnce, ResendStore
  PROVE  SendOnce'
<1> DEFINE s == leftover[cur]
<1>1. /\ pc = "read" /\ Free(Im) /\ pos < Len(s) /\ pos' = pos + 1
      /\ Store(s[pos + 1]) /\ UNCHANGED <<pc, cur, created>>
  BY DEF ResendStore
<1>2. cur \in Contacts /\ s \in Seq(Events) /\ pos \in Nat /\ Content(s) = s
  BY <1>1 DEF TypeOK, Content
<1>3. PICK e \in Events : e = s[pos + 1] /\ Store(e) /\ pos + 1 \in DOMAIN s
  BY <1>1, <1>2
<1>4. To[e] = cur
  BY <1>2, <1>3 DEF SendOnce, FilesDistinct, Filed
<1>5. Reading(e)
  BY <1>1, <1>2, <1>3, <1>4 DEF Reading
<1>6. sent[e] = 0 /\ ~Queued(e) /\ e \in created /\ \A p \in Procs : ~Writing(p, e)
  BY <1>3, <1>5 DEF SendOnce, Unsent, OnePlace
<1>7. UNCHANGED <<offline, leftover>>
  BY <1>3 DEF Store, Reject, Deliver, Postpone, disk
<1>8. \A d \in Events : Reading(d)' => Reading(d)
  BY <1>1, <1>2, <1>7 DEF Reading
<1>a. \A i, j \in DOMAIN s : i > pos /\ j > pos /\ s[i] = s[j] => i = j
  BY <1>1 DEF SendOnce, FilesDistinct
<1>b. \A i \in DOMAIN s : i \in Nat /\ (i > pos' => i > pos /\ i # pos + 1)
  BY <1>1, <1>2
<1>9. ~Reading(e)'
  <2>1. \A i \in DOMAIN s : i > pos' => s[i] # e
    <3>1. pos + 1 > pos /\ s[pos + 1] = e
      BY <1>2, <1>3
    <3> HIDE DEF s
    <3> QED
      BY <1>3, <1>a, <1>b, <3>1
  <2> QED
    BY <1>1, <1>7, <2>1 DEF Reading
<1>10. FilesDistinct'
  <2>1. \A x \in Contacts : Distinct(offline'[x]) /\ Filed(offline'[x], x)
                             /\ Filed(leftover'[x], x)
    BY <1>7 DEF SendOnce, FilesDistinct
  <2>2. pos' <= Len(s)
    BY <1>1, <1>2
  <2>3. \A i, j \in DOMAIN s : i > pos' /\ j > pos' /\ s[i] = s[j] => i = j
    BY <1>a, <1>b
  <2> QED
    BY <1>1, <1>7, <2>1, <2>2, <2>3 DEF FilesDistinct, Distinct, Filed
<1>11. e \in created' /\ created \subseteq created'
  BY <1>1, <1>6
<1> HIDE DEF s
<1> QED
  BY <1>1, <1>3, <1>6, <1>8, <1>9, <1>10, <1>11, OnceStore

(* The rename turns the queue file into the file resend() reads. *)
LEMMA OnceRename ==
  ASSUME TypeOK, SendOnce, NEW c \in Contacts, ResendRename(c)
  PROVE  SendOnce'
<1>1. /\ pc = "resend" /\ pc' \in {"read", "unlink"} /\ cur' = c /\ pos' = 0
      /\ UNCHANGED <<step, target, inhand, sent, created>>
      /\ leftover' = [leftover EXCEPT ![c] = offline[c]] /\ offline[c] # NoFile
      /\ offline' = [offline EXCEPT ![c] = NoFile]
  BY DEF ResendRename, ghosts
<1>2. /\ leftover'[c] = offline[c] /\ offline'[c] = NoFile
      /\ offline[c] \in Seq(Events) /\ Content(offline[c]) = offline[c]
      /\ \A x \in Contacts \ {c} : offline'[x] = offline[x] /\ leftover'[x] = leftover[x]
  BY <1>1 DEF TypeOK, Content
<1>3. HistoryApart'
  <2>1. \A p \in Procs : (fd'[p] = "none" <=> fd[p] = "none")
                         /\ (fd'[p] = "history" <=> fd[p] = "history")
    BY DEF ResendRename, TypeOK, Descriptors
  <2> QED
    BY <1>1, <2>1 DEF SendOnce, HistoryApart
<1>4. \A d \in Events, p \in Procs : Writing(p, d)' <=> Writing(p, d)
  BY <1>1 DEF Writing
<1>5. \A d \in Events : ~Reading(d)
  BY <1>1 DEF Reading
<1>6. \A d \in Events : Queued(d)' <=> Queued(d) /\ To[d] # c
  <2> SUFFICES ASSUME NEW d \in Events PROVE Queued(d)' <=> Queued(d) /\ To[d] # c
    OBVIOUS
  <2>1. To[d] \in Contacts
    BY ConstantsAssumption
  <2>2. CASE To[d] = c
    BY <1>2, <2>2 DEF Queued, InFile, Content
  <2>3. CASE To[d] # c
    BY <1>2, <2>1, <2>3 DEF Queued, InFile, Content
  <2> QED
    BY <2>2, <2>3
<1>7. \A d \in Events : Reading(d)' => Queued(d) /\ To[d] = c
  BY <1>1, <1>2 DEF Reading, Queued, InFile
<1>8. FilesDistinct'
  <2>1. /\ Distinct(offline[c]) /\ Filed(offline[c], c)
    BY DEF SendOnce, FilesDistinct
  <2>2. /\ Distinct(offline'[c]) /\ Filed(offline'[c], c) /\ Filed(leftover'[c], c)
    BY <1>2, <2>1 DEF Distinct, Filed, Content
  <2>3. \A x \in Contacts : Distinct(offline'[x]) /\ Filed(offline'[x], x) /\ Filed(leftover'[x], x)
    BY <1>2, <2>2 DEF SendOnce, FilesDistinct
  <2>4. /\ pos' <= Len(leftover'[c])
        /\ \A i, j \in DOMAIN leftover'[c] : leftover'[c][i] = leftover'[c][j] => i = j
    BY <1>1, <1>2, <2>1 DEF Distinct
  <2> QED
    BY <1>1, <2>3, <2>4 DEF FilesDistinct, Distinct, Filed
<1>9. NoDuplicateSend' /\ Unsent'
  BY <1>1, <1>4, <1>6, <1>7 DEF SendOnce, NoDuplicateSend, Unsent
<1>10. OnePlace'
  BY <1>4, <1>6, <1>7 DEF SendOnce, OnePlace
<1> QED
  BY <1>3, <1>8, <1>9, <1>10 DEF SendOnce

(* Whatever offline_ still holds when it is removed is not read again. *)
LEMMA OnceUnlink ==
  ASSUME TypeOK, SendOnce, ResendUnlink
  PROVE  SendOnce'
<1>1. /\ pc' = "resend" /\ UNCHANGED <<offline, step, target, inhand, sent, created>>
      /\ leftover' = [leftover EXCEPT ![cur] = NoFile]
  BY DEF ResendUnlink, ghosts
<1>2. HistoryApart'
  <2>1. \A p \in Procs : (fd'[p] = "none" <=> fd[p] = "none")
                         /\ (fd'[p] = "history" <=> fd[p] = "history")
    BY DEF ResendUnlink, TypeOK, Descriptors
  <2> QED
    BY <1>1, <2>1 DEF SendOnce, HistoryApart
<1>3. \A d \in Events : /\ \A p \in Procs : Writing(p, d)' <=> Writing(p, d)
                        /\ ~Reading(d)' /\ (Queued(d)' <=> Queued(d))
  BY <1>1 DEF Writing, Reading, Queued
<1>4. FilesDistinct'
  <2>1. \A x \in Contacts : Filed(leftover'[x], x)
    BY <1>1 DEF Filed, Content, SendOnce, FilesDistinct, TypeOK
  <2>2. \A x \in Contacts : Distinct(offline'[x]) /\ Filed(offline'[x], x)
    BY <1>1 DEF SendOnce, FilesDistinct
  <2> QED
    BY <1>1, <2>1, <2>2 DEF FilesDistinct, Distinct, Filed
<1>5. NoDuplicateSend' /\ Unsent' /\ OnePlace'
  BY <1>1, <1>3 DEF SendOnce, NoDuplicateSend, Unsent, OnePlace
<1> QED
  BY <1>2, <1>4, <1>5 DEF SendOnce

LEMMA OnceResend ==
  ASSUME TypeOK, SendOnce, Resend
  PROVE  SendOnce'
<1>1. ASSUME ResendBegin \/ (\E c \in Contacts : ResendSkip(c)) \/ ResendEof \/ ResendEnd
      PROVE  SendOnce'
  <2>1. /\ UNCHANGED <<offline, leftover, sent, created, step, target, inhand, fd>>
        /\ pc' # "read" \/ UNCHANGED <<pc, cur, pos>>
    BY <1>1 DEF ResendBegin, ResendSkip, ResendEof, ResendEnd, disk, writer, ghosts
  <2>2. HistoryApart'
    BY <2>1 DEF HistoryApart, SendOnce
  <2>3. \A e \in Events : Reading(e)' => Reading(e)
    BY <2>1 DEF Reading
  <2>4. \A e \in Events, p \in Procs : Writing(p, e)' => Writing(p, e)
    BY <2>1 DEF Writing
  <2> QED
    BY <2>1, <2>2, <2>3, <2>4, Quiet
<1> QED
  BY <1>1, OnceRename, OnceUnlink, OnceResendStore DEF Resend

LEMMA OnceCrash ==
  ASSUME TypeOK, SendOnce, Crash
  PROVE  SendOnce'
<1>1. /\ UNCHANGED <<offline, leftover, sent, created>> /\ pc' = "down"
      /\ step' = [step EXCEPT ![Im] = "no"]
      /\ target' = [target EXCEPT ![Im] = "offline"]
      /\ inhand' = [inhand EXCEPT ![Im] = None] /\ fd' = [fd EXCEPT ![Im] = "none"]
  BY DEF Crash, disk
<1>2. \A e \in Events : ~Reading(e)'
  BY <1>1 DEF Reading
<1>3. \A e \in Events, p \in Procs : Writing(p, e)' => Writing(p, e)
  BY <1>1 DEF Writing, TypeOK
<1>4. HistoryApart'
  BY <1>1 DEF HistoryApart, SendOnce, TypeOK
<1> QED
  BY <1>1, <1>2, <1>3, <1>4, Quiet

LEMMA OnceNext == TypeOK /\ SendOnce /\ [Next]_vars => SendOnce'
<1> SUFFICES ASSUME TypeOK, SendOnce, [Next]_vars PROVE SendOnce'
  OBVIOUS
<1>1. ASSUME NEW p \in Procs, EventWrite(p) PROVE SendOnce'
  BY <1>1, OnceWriteQuiet, OnceOpen, OnceWrite DEF EventWrite
<1>2. ASSUME (\E h \in Hooks : HookChange(h)) \/ Tick \/ Restart \/ UNCHANGED vars
      PROVE  SendOnce'
  <2>1. /\ UNCHANGED <<offline, leftover, sent, created, step, target, inhand, fd>>
        /\ pc' # "read" \/ UNCHANGED <<pc, cur, pos>>
    BY <1>2 DEF HookChange, Tick, Restart, vars, disk, writer, loop, ghosts
  <2>2. HistoryApart'
    BY <2>1 DEF HistoryApart, SendOnce
  <2>3. \A e \in Events : Reading(e)' => Reading(e)
    BY <2>1 DEF Reading
  <2>4. \A e \in Events, p \in Procs : Writing(p, e)' => Writing(p, e)
    BY <2>1 DEF Writing
  <2> QED
    BY <2>1, <2>2, <2>3, <2>4, Quiet
<1> QED
  BY <1>1, <1>2, OnceSubmit, OnceSender, OnceResend, OnceCrash DEF Next

(* However resend() is interrupted, raced by command line senders or hit   *)
(* by failing files and sends, hook->send() accepts no event twice.        *)
THEOREM NeverSentTwice == Spec => []NoDuplicateSend
<1>1. Spec => [](TypeOK /\ SendOnce)
  BY TypeInit, TypeNext, SendOnceInit, OnceNext, PTL DEF Spec
<1>2. TypeOK /\ SendOnce => NoDuplicateSend
  BY DEF SendOnce
<1> QED
  BY <1>1, <1>2, PTL
=============================================================================
