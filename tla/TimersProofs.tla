---------------------------- MODULE TimersProofs ----------------------------
(* Proofs about Timers: the types, the bound on the reconnection period    *)
(* and that every status shown is the user's or will be taken back.        *)
EXTENDS Timers, TLAPS

-----------------------------------------------------------------------------
(* What a hook's link is after each of the hook's operations.              *)

LEMMA OffType == Off \in Links /\ Dead \in Links
  BY TimersAssumption DEF TimersAssumption, Off, Dead, Links, Statuses

LEMMA ConnectType ==
  ASSUME NEW h, NEW l \in Links PROVE connect(h, l) \in Links
<1>1. 0 \in 0 .. LoginTime
  BY TimersAssumption DEF TimersAssumption
<1>2. \A c \in {"off", "connecting"} :
        [l EXCEPT !.conn = c, !.work = 0] \in Links
  BY <1>1 DEF Links
<1> QED  BY <1>2 DEF connect

LEMMA DisconnectType ==
  ASSUME NEW h, NEW l \in Links PROVE disconnect(h, l) \in Links
<1>1. [Off EXCEPT !.our = l.our] \in Links
  BY OffType DEF Links
<1> QED  BY <1>1, OffType DEF disconnect, FiretalkClosed, Off

(* Nobody is logged in after a disconnection. *)
LEMMA DisconnectNotOn ==
  ASSUME NEW h, NEW l PROVE disconnect(h, l).conn # "on"
  BY DEF disconnect, FiretalkClosed, Dead, Off

LEMMA SetautostatusType ==
  ASSUME NEW h, NEW l \in Links, NEW st \in Statuses
  PROVE  setautostatus(h, l, st) \in Links
<1>1. [l EXCEPT !.our = st] \in Links
  BY DEF Links
<1> QED  BY <1>1, ConnectType, DisconnectType DEF setautostatus

(* After setautostatus(st) a hook that is logged in shows st. *)
LEMMA SetautostatusShows ==
  ASSUME NEW h, NEW l \in Links, NEW st \in Statuses,
         setautostatus(h, l, st).conn = "on"
  PROVE  setautostatus(h, l, st).our = st
<1>1. CASE st = "offline" /\ getstatus(l) # "offline"
  BY <1>1, DisconnectNotOn DEF setautostatus
<1>2. CASE st = "offline" /\ getstatus(l) = "offline"
  BY <1>2 DEF setautostatus, getstatus
<1>3. CASE st # "offline" /\ l.conn # "on"
  <2>1. connect(h, l).conn # "on"
    BY DEF connect, Links
  <2> QED  BY <1>3, <2>1 DEF setautostatus
<1>4. CASE st # "offline" /\ l.conn = "on"
  BY <1>4 DEF setautostatus, Links
<1> QED  BY <1>1, <1>2, <1>3, <1>4

(* A status other than offline leaves a logged in hook logged in. *)
LEMMA SetautostatusStays ==
  ASSUME NEW h, NEW l \in Links, NEW st \in Statuses \ {"offline"}, l.conn = "on"
  PROVE  setautostatus(h, l, st).conn = "on" /\ setautostatus(h, l, st).our = st
  BY DEF setautostatus, Links

(* The reconnection loop never makes a hook logged in. *)
LEMMA ReconnectedType ==
  ASSUME TypeOK, NEW h \in Hooks
  PROVE  /\ Reconnected(h) \in Links
         /\ Reconnected(h).conn = "on" => Reconnected(h) = link[h]
<1>1. link[h] \in Links
  BY DEF TypeOK
<1>2. CASE ~Due(h) \/ link[h].conn = "on"
  BY <1>1, <1>2 DEF Reconnected
<1>3. CASE Due(h) /\ link[h].conn \in {"connecting", "dead"}
  <2>1. Reconnected(h) = disconnect(h, link[h])
    BY <1>3 DEF Reconnected
  <2> QED  BY <1>1, <2>1, DisconnectNotOn, DisconnectType
<1>4. CASE Due(h) /\ link[h].conn = "off"
  <2>1. Reconnected(h) \in {connect(h, link[h]), link[h]}
    BY <1>4 DEF Reconnected
  <2>2. connect(h, link[h]).conn # "on"
    BY <1>1 DEF connect, Links
  <2> QED  BY <1>1, <1>4, <2>1, <2>2, ConnectType
<1> QED  BY <1>1, <1>2, <1>3, <1>4 DEF Links

LEMMA ToSetType ==
  ToSet \in {"available", "away", "notavail", "offline"}
  BY DEF ToSet, IdleStatus

-----------------------------------------------------------------------------
(* setauto(), of links that have a type and show what they should.         *)

LEMMA SetAutoType ==
  ASSUME manual \in [Hooks -> Statuses], NEW links \in [Hooks -> Links],
         NEW st \in {"available", "away", "notavail"}
  PROVE  SetAutoLinks(links, st) \in [Hooks -> Links]
<1> SUFFICES ASSUME NEW h \in Hooks PROVE SetAutoLinks(links, st)[h] \in Links
  BY DEF SetAutoLinks
<1>1. /\ setautostatus(h, links[h], st) \in Links
      /\ restorestatus(h, links[h]) \in Links
  BY SetautostatusType DEF restorestatus, Statuses
<1> QED  BY <1>1 DEF SetAutoLinks

(* Links in which every hook shows what ShowsChosen() allows.              *)
Shows(l, h, flag) ==
  l.conn = "on" =>
    \/ l.our = manual[h]
    \/ /\ flag
       /\ l.our \in {"away", "notavail"}
       /\ manual[h] \notin {"invisible", "offline"}

LEMMA SetAutoShows ==
  ASSUME manual \in [Hooks -> Statuses], NEW links \in [Hooks -> Links],
         NEW st \in {"available", "away", "notavail"},
         autoset \in BOOLEAN,
         \A h \in Hooks : Shows(links[h], h, autoset)
  PROVE  \A h \in Hooks : Shows(SetAutoLinks(links, st)[h], h,
                                SetAutoFlag(links, st))
<1> TAKE h \in Hooks
<1> DEFINE l == links[h]
           l1 == SetAutoLinks(links, st)[h]
           flag1 == SetAutoFlag(links, st)
<1>t. l \in Links /\ st \in Statuses \ {"offline"} /\ manual[h] \in Statuses
  BY DEF Statuses
<1>s. Shows(l, h, autoset)
  OBVIOUS
<1>1. CASE st = "available" /\ ~autoset
  <2>1. l1 = l /\ flag1 = autoset
    BY <1>1 DEF SetAutoLinks, SetAutoFlag
  <2> QED  BY <1>s, <2>1
<1>2. CASE st = "available" /\ autoset
  <2>1. SetAutoRestores(st)
    BY <1>2 DEF SetAutoRestores
  <2>2. CASE h \in SetAutoOn(links, st)
    <3>1. l1 = setautostatus(h, l, manual[h])
      BY <1>2, <2>1, <2>2 DEF SetAutoLinks, restorestatus
    <3>2. setautostatus(h, l, manual[h]).conn = "on" =>
            setautostatus(h, l, manual[h]).our = manual[h]
      <4> HIDE DEF l
      <4> QED  BY <1>t, SetautostatusShows
    <3> QED  BY <3>1, <3>2 DEF Shows
  <2>3. CASE h \notin SetAutoOn(links, st)
    <3>1. l1 = l
      BY <2>3 DEF SetAutoLinks
    <3>2. l.conn = "on" => l.our \in {"invisible", "offline"}
      BY <2>1, <2>3 DEF SetAutoOn
    <3> QED  BY <1>s, <3>1, <3>2 DEF Shows
  <2> QED  BY <2>2, <2>3
<1>3. CASE st # "available"
  <2>1. ~SetAutoRestores(st)
    BY <1>3 DEF SetAutoRestores
  <2>2. CASE h \in SetAutoOn(links, st)
    <3>1. l1 = setautostatus(h, l, st)
      BY <1>3, <2>1, <2>2 DEF SetAutoLinks
    <3>2. flag1
      BY <1>3, <2>1, <2>2 DEF SetAutoFlag
    <3>3. l.conn = "on" /\ l.our \notin {"invisible", "offline"}
      BY <2>2 DEF SetAutoOn
    <3>4. l1.our = st
      BY <1>t, <3>1, <3>3, SetautostatusStays
    <3>5. manual[h] \notin {"invisible", "offline"}
      BY <1>s, <3>3 DEF Shows
    <3> QED  BY <1>3, <3>2, <3>4, <3>5 DEF Shows
  <2>3. CASE h \notin SetAutoOn(links, st)
    <3>1. l1 = l
      BY <2>3 DEF SetAutoLinks
    <3>2. autoset => flag1
      BY <1>3, <2>1 DEF SetAutoFlag
    <3> QED  BY <1>s, <3>1, <3>2 DEF Shows
  <2> QED  BY <2>2, <2>3
<1> QED  BY <1>1, <1>2, <1>3

-----------------------------------------------------------------------------
(* Type correctness.                                                       *)

LEMMA SetAutoFlagType ==
  ASSUME autoset \in BOOLEAN, NEW links, NEW st
  PROVE  SetAutoFlag(links, st) \in BOOLEAN
  BY DEF SetAutoFlag, SetAutoRestores

LEMMA SetstatusType ==
  ASSUME TypeOK, NEW h \in Hooks, NEW st \in Choices, setstatus(h, st)
  PROVE  link' \in [Hooks -> Links] /\ manual' \in [Hooks -> Statuses]
<1>1. st \in Statuses
  BY TimersAssumption DEF TimersAssumption
<1>2. setautostatus(h, link[h], st) \in Links
  BY <1>1, SetautostatusType DEF TypeOK
<1> QED  BY <1>1, <1>2 DEF setstatus, TypeOK

(* The links that the reconnection loop leaves, and those after setauto(). *)
LEMMA AfterAutoType ==
  ASSUME TypeOK, NEW links, links = [h \in Hooks |-> Reconnected(h)]
  PROVE  /\ links \in [Hooks -> Links]
         /\ AfterAuto(links) \in [Hooks -> Links]
<1>1. links \in [Hooks -> Links]
  BY ReconnectedType
<1>2. AutoAwayDue => ToSet \in {"available", "away", "notavail"}
  BY ToSetType DEF AutoAwayDue
<1>3. AutoAwayDue => SetAutoLinks(links, ToSet) \in [Hooks -> Links]
  BY <1>1, <1>2, SetAutoType DEF TypeOK
<1> QED  BY <1>1, <1>3 DEF AfterAuto

LEMMA CheckDiskType ==
  ASSUME TypeOK, NEW links \in [Hooks -> Links], CheckDisk(links)
  PROVE  /\ link' \in [Hooks -> Links]
         /\ enough' \in BOOLEAN /\ resend' \in 0 .. PeriodResend + 1
<1>1. \A h \in Hooks : disconnect(h, links[h]) \in Links
  BY DisconnectType
<1>2. 0 \in 0 .. PeriodResend + 1
  BY TimersAssumption DEF TimersAssumption
<1> QED  BY <1>1, <1>2 DEF CheckDisk, TypeOK

LEMMA ExecTimersType ==
  ASSUME TypeOK, ExecTimers PROVE TypeOK'
<1> DEFINE links == [h \in Hooks |-> Reconnected(h)]
<1>1. links \in [Hooks -> Links] /\ AfterAuto(links) \in [Hooks -> Links]
  BY AfterAutoType
<1>2. /\ link' \in [Hooks -> Links]
      /\ enough' \in BOOLEAN /\ resend' \in 0 .. PeriodResend + 1
  BY <1>1, CheckDiskType DEF ExecTimers
<1>3. since' \in [Hooks -> 0 .. Long]
  <2>1. 0 \in 0 .. Long /\ Long \in 0 .. Long
    BY TimersAssumption DEF TimersAssumption, Long, MaxPeriod
  <2> QED  BY <2>1 DEF ExecTimers, TimerOf, TypeOK
<1>4. period' \in [Hooks -> Nat]
  <2> SUFFICES ASSUME NEW h \in Hooks PROVE Backoff(h) \in Nat
    BY DEF ExecTimers
  <2>1. period[h] \in Nat /\ First \in Nat
    BY TimersAssumption DEF TimersAssumption, TypeOK
  <2> QED  BY <2>1 DEF Backoff
<1>5. autostat' \subseteq {"away", "notavail"} /\ autoset' \in BOOLEAN
  <2>1. AutoAwayDue => ToSet \in {"available", "away", "notavail"}
    BY ToSetType DEF AutoAwayDue
  <2>2. autoset' \in BOOLEAN
    BY SetAutoFlagType DEF ExecTimers, AutoAway, TypeOK
  <2>3. autostat' \subseteq {"away", "notavail"}
    BY <2>1 DEF ExecTimers, AutoAway, TypeOK
  <2> QED  BY <2>2, <2>3
<1> QED  BY <1>2, <1>3, <1>4, <1>5 DEF ExecTimers, TypeOK, world

LEMMA UpToType ==
  ASSUME NEW limit \in Nat, NEW n \in 0 .. limit PROVE UpTo(limit, n) \in 0 .. limit
  BY DEF UpTo

LEMMA TickType ==
  ASSUME TypeOK, Tick PROVE TypeOK'
<1>1. /\ Long \in Nat /\ MaxIdle \in Nat /\ PeriodResend + 1 \in Nat
      /\ LoginTime \in Nat
  BY TimersAssumption DEF TimersAssumption, Long, MaxPeriod, MaxIdle
<1>2. /\ since' \in [Hooks -> 0 .. Long] /\ idle' \in 0 .. MaxIdle
      /\ resend' \in 0 .. PeriodResend + 1
  BY <1>1, UpToType DEF Tick, TypeOK
<1>3. link' \in [Hooks -> Links]
  <2> SUFFICES ASSUME NEW h \in Hooks PROVE link'[h] \in Links
    BY DEF Tick
  <2>1. UpTo(LoginTime, link[h].work) \in 0 .. LoginTime /\ link[h] \in Links
    BY <1>1, UpToType DEF TypeOK, Links
  <2> QED  BY <2>1 DEF Tick, Links
<1> QED  BY <1>2, <1>3 DEF Tick, TypeOK, auto, world

LEMMA InitType == Init => TypeOK
<1>1. /\ Long \in 0 .. Long /\ First \in Nat /\ 0 \in 0 .. MaxIdle
      /\ PeriodResend + 1 \in 0 .. PeriodResend + 1
      /\ 0 \in 0 .. MaxChanges /\ Choices \subseteq Statuses
  BY TimersAssumption DEF TimersAssumption, Long, MaxPeriod, MaxIdle
<1> QED  BY <1>1, OffType DEF Init, TypeOK

(* The link of a hook that the server has just accepted, before and after  *)
(* the hook sets the user's status. *)
LEMMA LoginLink ==
  ASSUME TypeOK, NEW h \in Hooks, Login(h)
  PROVE  /\ Accepted(h) \in Links
         /\ link' = [link EXCEPT ![h] = setautostatus(h, Accepted(h), manual[h])]
<1>1. 0 \in 0 .. LoginTime /\ link[h] \in Links
  BY TimersAssumption DEF TimersAssumption, TypeOK
<1>2. \A o \in Statuses :
        [link[h] EXCEPT !.conn = "on", !.work = 0, !.our = o] \in Links
  BY <1>1 DEF Links
<1>3. link[h].our \in Statuses /\ "available" \in Statuses
  BY <1>1 DEF Links, Statuses
<1>4. Accepted(h) \in Links
  BY <1>2, <1>3 DEF Accepted
<1>5. link' = [link EXCEPT ![h] = setautostatus(h, Accepted(h), manual[h])]
  BY DEF Login, restorestatus
<1> QED  BY <1>4, <1>5

LEMMA LoginType ==
  ASSUME TypeOK, NEW h \in Hooks, Login(h) PROVE link' \in [Hooks -> Links]
<1>1. setautostatus(h, Accepted(h), manual[h]) \in Links
  BY LoginLink, SetautostatusType DEF TypeOK
<1> QED  BY <1>1, LoginLink DEF TypeOK

LEMMA TypeInductive == TypeOK /\ [Next]_vars => TypeOK'
<1> SUFFICES ASSUME TypeOK, [Next]_vars PROVE TypeOK'
  OBVIOUS
<1>z. 0 \in 0 .. Long /\ 0 \in 0 .. MaxIdle
  BY TimersAssumption DEF TimersAssumption, Long, MaxPeriod, MaxIdle
<1>1. ASSUME NEW h \in Hooks, Login(h) PROVE TypeOK'
  <2>1. link' \in [Hooks -> Links]
    BY <1>1, LoginType
  <2> QED  BY <1>1, <2>1 DEF Login, TypeOK, clocks, auto, world
<1>2. ASSUME NEW h \in Hooks, ConnectionLost(h) PROVE TypeOK'
  <2>1. link' \in [Hooks -> Links]
    BY <1>2, OffType DEF ConnectionLost, TypeOK
  <2> QED  BY <1>2, <2>1 DEF ConnectionLost, TypeOK, clocks, auto, world
<1>3. ASSUME NEW h \in Hooks, NEW st \in Choices, changestatus(h, st)
      PROVE  TypeOK'
  <2>1. link' \in [Hooks -> Links] /\ manual' \in [Hooks -> Statuses]
    BY <1>3, SetstatusType DEF changestatus
  <2>2. changes' \in 0 .. MaxChanges
    BY <1>3, TimersAssumption DEF TimersAssumption, changestatus, TypeOK
  <2> QED  BY <1>3, <1>z, <2>1, <2>2 DEF changestatus, TypeOK, auto, world
<1>4. ASSUME NEW h \in Hooks, NEW st \in Choices, rereadstatus(h, st)
      PROVE  TypeOK'
  <2>1. link' \in [Hooks -> Links] /\ manual' \in [Hooks -> Statuses]
    BY <1>4, SetstatusType DEF rereadstatus
  <2>2. changes' \in 0 .. MaxChanges
    BY <1>4, TimersAssumption DEF TimersAssumption, rereadstatus, TypeOK
  <2> QED  BY <1>4, <2>1, <2>2 DEF rereadstatus, TypeOK, clocks, auto, world
<1>5. CASE ExecTimers
  BY <1>5, ExecTimersType
<1>6. CASE Tick
  BY <1>6, TickType
<1>7. CASE Keypress
  BY <1>7, <1>z DEF Keypress, TypeOK, auto, world
<1>8. CASE ToggleManager
  BY <1>8, <1>z DEF ToggleManager, TypeOK, auto
<1>9. CASE ToggleScreen
  BY <1>9 DEF ToggleScreen, TypeOK, clocks, auto
<1>10. CASE ToggleNet
  BY <1>10 DEF ToggleNet, TypeOK, clocks, auto
<1>11. CASE ToggleDisk
  BY <1>11 DEF ToggleDisk, TypeOK, clocks, auto
<1>12. CASE UNCHANGED vars
  BY <1>12 DEF vars, TypeOK, clocks, auto, world
<1> QED  BY <1>1, <1>2, <1>3, <1>4, <1>5, <1>6, <1>7, <1>8, <1>9, <1>10,
            <1>11, <1>12 DEF Next

(* Every variable of the timers keeps its type, whatever the user, the     *)
(* network and the disk do. *)
THEOREM TypeCorrect == Spec => []TypeOK
  BY InitType, TypeInductive, PTL DEF Spec

-----------------------------------------------------------------------------
(* The period of the reconnection timer.                                   *)

LEMMA BackoffBound ==
  ASSUME TypeOK, PeriodBound, NEW h \in Hooks
  PROVE  Backoff(h) >= First /\ Backoff(h) <= MaxPeriod
<1>1. /\ First \in Nat /\ Cap \in Nat /\ First <= MaxPeriod
      /\ period[h] \in Nat /\ period[h] >= First /\ period[h] <= MaxPeriod
  BY TimersAssumption DEF TimersAssumption, MaxPeriod, TypeOK, PeriodBound
<1>2. CASE ~Due(h) \/ link[h].conn = "on"
  BY <1>1, <1>2 DEF Backoff
<1>3. CASE Due(h) /\ link[h].conn # "on"
  <2>1. period[h] < Cap => period[h] + period[h] \div 2 <= MaxPeriod
    BY <1>1 DEF MaxPeriod
  <2>2. period[h] + period[h] \div 2 >= First
    BY <1>1
  <2> QED  BY <1>1, <1>3, <2>1, <2>2 DEF Backoff
<1> QED  BY <1>2, <1>3

(* However often the reconnection fails, its period stays between First    *)
(* and half as much again as the cap: exectimers()'s check of the cap      *)
(* before the period grows is enough. *)
THEOREM PeriodAlwaysBounded == Spec => []PeriodBound
<1>1. Init => PeriodBound
  BY TimersAssumption DEF TimersAssumption, Init, PeriodBound, MaxPeriod
<1>2. TypeOK /\ PeriodBound /\ [Next]_vars => PeriodBound'
  <2> SUFFICES ASSUME TypeOK, PeriodBound, [Next]_vars PROVE PeriodBound'
    OBVIOUS
  <2>1. CASE ExecTimers
    <3>1. period' = [h \in Hooks |-> Backoff(h)]
      BY <2>1 DEF ExecTimers
    <3> QED  BY <3>1, BackoffBound DEF PeriodBound
  <2>2. CASE period' = period
    BY <2>2 DEF PeriodBound
  <2>3. ExecTimers \/ period' = period
    BY DEF Next, vars, clocks, Login, ConnectionLost, changestatus,
           rereadstatus, Tick, Keypress, ToggleManager, ToggleScreen,
           ToggleNet, ToggleDisk
  <2> QED  BY <2>1, <2>2, <2>3
<1> QED  BY <1>1, <1>2, TypeCorrect, PTL DEF Spec

-----------------------------------------------------------------------------
(* Every status shown is the user's own or will be taken back.             *)

LEMMA ShowsIsShowsChosen ==
  ASSUME NEW h \in Hooks
  PROVE  ShowsChosen(h) <=> Shows(link[h], h, autoset)
  BY DEF ShowsChosen, Shows

(* After setstatus() a hook that is logged in shows the new choice. *)
LEMMA SetstatusShows ==
  ASSUME TypeOK, StatusIsChosen, NEW h \in Hooks, NEW st \in Choices,
         setstatus(h, st), UNCHANGED autoset
  PROVE  StatusIsChosen'
<1> SUFFICES ASSUME NEW k \in Hooks PROVE ShowsChosen(k)'
  BY DEF StatusIsChosen
<1>1. CASE k = h
  <2>1. link'[h] = setautostatus(h, link[h], st) /\ manual'[h] = st
    BY DEF setstatus, TypeOK
  <2>2. st \in Statuses /\ link[h] \in Links
    BY TimersAssumption DEF TimersAssumption, TypeOK
  <2>3. link'[h].conn = "on" => link'[h].our = st
    BY <2>1, <2>2, SetautostatusShows
  <2> QED  BY <1>1, <2>1, <2>3 DEF ShowsChosen
<1>2. CASE k # h
  <2>1. link'[k] = link[k] /\ manual'[k] = manual[k]
    BY <1>2 DEF setstatus, TypeOK
  <2> QED  BY <2>1 DEF ShowsChosen, StatusIsChosen
<1> QED  BY <1>1, <1>2

LEMMA ExecTimersShows ==
  ASSUME TypeOK, StatusIsChosen, ExecTimers PROVE StatusIsChosen'
<1> DEFINE links == [h \in Hooks |-> Reconnected(h)]
           after == AfterAuto(links)
<1>1. links \in [Hooks -> Links] /\ after \in [Hooks -> Links]
  BY AfterAutoType
<1>2. \A h \in Hooks : Shows(links[h], h, autoset)
  <2> TAKE h \in Hooks
  <2>1. links[h].conn = "on" => links[h] = link[h]
    BY ReconnectedType
  <2>2. Shows(link[h], h, autoset)
    BY ShowsIsShowsChosen DEF StatusIsChosen
  <2> QED  BY <2>1, <2>2 DEF Shows
<1>3. \A h \in Hooks : Shows(after[h], h, autoset')
  <2>1. CASE AutoAwayDue
    <3>1. ToSet \in {"available", "away", "notavail"}
      BY <2>1, ToSetType DEF AutoAwayDue
    <3>2. after = SetAutoLinks(links, ToSet)
      BY <2>1 DEF AfterAuto
    <3>3. autoset' = SetAutoFlag(links, ToSet)
      BY <2>1 DEF ExecTimers, AutoAway, SetAutoFlag, SetAutoOn, SetAutoRestores
    <3> QED  BY <1>1, <1>2, <3>1, <3>2, <3>3, SetAutoShows DEF TypeOK
  <2>2. CASE ~AutoAwayDue
    <3>1. after = links /\ autoset' = autoset
      BY <2>2 DEF AfterAuto, ExecTimers, AutoAway
    <3> QED  BY <1>2, <3>1
  <2> QED  BY <2>1, <2>2
<1>4. \A h \in Hooks : link'[h].conn = "on" => link'[h] = after[h]
  <2>1. CheckDisk(after)
    BY DEF ExecTimers
  <2>2. \A h \in Hooks : disconnect(h, after[h]).conn # "on"
    BY DisconnectNotOn
  <2> QED  BY <1>1, <2>1, <2>2 DEF CheckDisk
<1>5. manual' = manual
  BY DEF ExecTimers
<1> QED  BY <1>3, <1>4, <1>5 DEF StatusIsChosen, ShowsChosen, Shows

LEMMA LoginShows ==
  ASSUME TypeOK, StatusIsChosen, NEW h \in Hooks, Login(h)
  PROVE  StatusIsChosen'
<1> SUFFICES ASSUME NEW k \in Hooks PROVE ShowsChosen(k)'
  BY DEF StatusIsChosen
<1>1. manual' = manual /\ autoset' = autoset
  BY DEF Login, auto
<1>2. CASE k = h
  <2>1. link'[h] = setautostatus(h, Accepted(h), manual[h])
    BY LoginLink DEF TypeOK
  <2>2. link'[h].conn = "on" => link'[h].our = manual[h]
    BY <2>1, LoginLink, SetautostatusShows DEF TypeOK
  <2> QED  BY <1>1, <1>2, <2>2 DEF ShowsChosen
<1>3. CASE k # h
  <2>1. link'[k] = link[k]
    BY <1>3, LoginLink DEF TypeOK
  <2> QED  BY <1>1, <2>1 DEF ShowsChosen, StatusIsChosen
<1> QED  BY <1>2, <1>3

(* A step that neither logs a hook in nor touches a status keeps it. *)
LEMMA QuietShows ==
  ASSUME StatusIsChosen, UNCHANGED <<manual, autoset>>,
         \A h \in Hooks : link'[h].conn = "on" =>
                            link[h].conn = "on" /\ link'[h].our = link[h].our
  PROVE  StatusIsChosen'
  BY DEF StatusIsChosen, ShowsChosen

(* A logged in hook never shows a status that is neither its user's choice *)
(* nor an automatic one that setauto() will restore: the flag autoset,     *)
(* shared by all the hooks, is never cleared too early. *)
THEOREM StatusAlwaysChosen == Spec => []StatusIsChosen
<1>1. Init => StatusIsChosen
  BY DEF Init, StatusIsChosen, ShowsChosen, Off
<1>2. TypeOK /\ StatusIsChosen /\ [Next]_vars => StatusIsChosen'
  <2> SUFFICES ASSUME TypeOK, StatusIsChosen, [Next]_vars PROVE StatusIsChosen'
    OBVIOUS
  <2>1. ASSUME NEW h \in Hooks, Login(h) PROVE StatusIsChosen'
    BY <2>1, LoginShows
  <2>2. ASSUME NEW h \in Hooks, ConnectionLost(h) PROVE StatusIsChosen'
    <3>1. \A k \in Hooks : link'[k].conn = "on" => link'[k] = link[k]
      BY <2>2 DEF ConnectionLost, TypeOK, Off, Dead
    <3> QED  BY <2>2, <3>1, QuietShows DEF ConnectionLost, auto
  <2>3. ASSUME NEW h \in Hooks, NEW st \in Choices,
               changestatus(h, st) \/ rereadstatus(h, st)
        PROVE  StatusIsChosen'
    BY <2>3, SetstatusShows DEF changestatus, rereadstatus, auto
  <2>4. CASE ExecTimers
    BY <2>4, ExecTimersShows
  <2>5. CASE Tick
    <3>1. \A h \in Hooks : link'[h].conn = link[h].conn
                            /\ link'[h].our = link[h].our
      BY <2>5 DEF Tick, TypeOK, Links
    <3> QED  BY <2>5, <3>1, QuietShows DEF Tick, auto
  <2>6. CASE UNCHANGED <<link, manual, autoset>>
    BY <2>6, QuietShows
  <2>7. Keypress \/ ToggleManager \/ ToggleScreen \/ ToggleNet \/ ToggleDisk
          \/ UNCHANGED vars => UNCHANGED <<link, manual, autoset>>
    BY DEF Keypress, ToggleManager, ToggleScreen, ToggleNet, ToggleDisk, vars, auto
  <2> QED  BY <2>1, <2>2, <2>3, <2>4, <2>5, <2>6, <2>7 DEF Next
<1> QED  BY <1>1, <1>2, TypeCorrect, PTL DEF Spec

-----------------------------------------------------------------------------
(* The user's return.                                                      *)

LEMMA RestoredShows ==
  ASSUME TypeOK, StatusIsChosen, ExecTimers, AutoAwayOn, ToSet = "available",
         NEW h \in Hooks, link[h].conn = "on", link'[h].conn = "on"
  PROVE  link'[h].our = manual[h]
<1> DEFINE links == [k \in Hooks |-> Reconnected(k)]
           l == links[h]
           after == AfterAuto(links)
<1>1. link[h] \in Links /\ manual[h] \in Statuses /\ after \in [Hooks -> Links]
  BY AfterAutoType DEF TypeOK
<1>2. l = link[h]
  BY DEF Reconnected
<1>3. after = SetAutoLinks(links, "available")
  BY DEF AutoAwayDue, AfterAuto, TypeOK
<1>4. link'[h] = after[h]
  <2>1. CheckDisk(after)
    BY DEF ExecTimers
  <2>2. disconnect(h, after[h]).conn # "on"
    BY DisconnectNotOn
  <2> QED  BY <1>1, <2>1, <2>2 DEF CheckDisk
<1>5. Shows(link[h], h, autoset)
  BY ShowsIsShowsChosen DEF StatusIsChosen
<1>6. CASE autoset /\ h \in SetAutoOn(links, "available")
  <2>1. after[h] = setautostatus(h, link[h], manual[h])
    BY <1>2, <1>3, <1>6 DEF SetAutoLinks, SetAutoRestores, restorestatus
  <2> QED  BY <1>1, <1>4, <2>1, SetautostatusShows
<1>7. CASE autoset /\ h \notin SetAutoOn(links, "available")
  <2>1. after[h] = link[h]
    BY <1>2, <1>3, <1>7 DEF SetAutoLinks
  <2>2. l.our \in {"invisible", "offline"}
    BY <1>2, <1>7 DEF SetAutoOn, SetAutoRestores
  <2> QED  BY <1>2, <1>4, <1>5, <2>1, <2>2 DEF Shows
<1>8. CASE ~autoset
  <2>1. after[h] = link[h]
    BY <1>2, <1>3, <1>8 DEF SetAutoLinks
  <2> QED  BY <1>4, <1>5, <1>8, <2>1 DEF Shows
<1> QED  BY <1>6, <1>7, <1>8

(* The call of exectimers() that finds the user back gives every hook that *)
(* stays logged in the status he chose, also one whose own status changed  *)
(* while setauto() had it away: autostat never keeps "available" set, and  *)
(* setauto() passes over a hook only if it shows what was chosen.          *)
THEOREM BackAlwaysMeansBack == Spec => BackMeansBack
<1>1. TypeOK /\ StatusIsChosen /\ [Next]_vars =>
        [ExecTimers /\ AutoAwayOn /\ ToSet = "available" =>
           \A h \in Hooks : link[h].conn = "on" /\ link'[h].conn = "on" =>
                              link'[h].our = manual[h]]_vars
  BY RestoredShows
<1> QED  BY <1>1, TypeCorrect, StatusAlwaysChosen, PTL DEF Spec, BackMeansBack
=============================================================================
