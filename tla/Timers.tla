------------------------------- MODULE Timers -------------------------------
(***************************************************************************)
(* centerim::exectimers() and setauto() (src/src/centerim.cc) with the     *)
(* protocol hooks they drive (hooks/abstracthook.cc): reconnecting with a  *)
(* growing period, going away when the user is idle and coming back, and   *)
(* going offline when the disk is full.                                    *)
(*                                                                         *)
(* A hook is of one of three kinds.  When setautostatus() is called at     *)
(* login, aim, irc and jabber have set ourstatus to available, and msn     *)
(* (the set Msn) still has its last value.  aim and irc (Firetalk) are not *)
(* told by their library when a connection ends that was not logged in:    *)
(* such a link is "dead", the hook believes that it is connecting.         *)
(*                                                                         *)
(* Time is counted in ticks of the idle loop's select(): exectimers() runs *)
(* at least once in every tick.                                            *)
(***************************************************************************)
EXTENDS Integers, FiniteSets

CONSTANTS
  Hooks,         \* the configured protocols
  Msn, Firetalk, \* those of them that work like msnhook.cc, like aimhook.cc
  Choices,       \* the statuses the user picks from
  First, Cap,    \* reconnectInfo's period (30) and where it stops growing (180)
  LoginTime,     \* the ticks a login takes on a working network
  AwayAfter, NaAfter,  \* the auto-away and auto-N/A periods, zero is "off"
  Screen,        \* whether the "screen" option is on
  PeriodResend,  \* the ticks between two looks at the disk
  MaxChanges,    \* bounds the times the user changes a status
  Env            \* what the environment may do: "drop", "disk", "manager", "cli"

Statuses == {"available", "away", "notavail", "invisible", "offline"}

ASSUME TimersAssumption ==
  /\ Msn \subseteq Hooks /\ Firetalk \subseteq Hooks \ Msn
  /\ Choices \subseteq Statuses
  /\ First \in Nat \ {0, 1} /\ Cap \in Nat /\ First <= Cap
  /\ LoginTime \in Nat /\ AwayAfter \in Nat /\ NaAfter \in Nat
  /\ Screen \in BOOLEAN /\ PeriodResend \in Nat /\ MaxChanges \in Nat

VARIABLES
  link,          \* the connection of a hook and its ourstatus
  manual,        \* manualstatus, what the user chose
  since, period, \* reconnect[]: ticks since the timer was set, and the period
  idle,          \* ticks since the last key
  attached,      \* whether the screen session is attached
  autostat,      \* exectimers()'s statuses already set automatically
  autoset,       \* setauto()'s flag
  resend,        \* ticks since timer_resend
  enough,        \* conf->enoughdiskspace(), as of the last look
  net, disk,     \* whether the network works and the disk has room
  opened,        \* whether the account manager is open
  due,           \* whether exectimers() has yet to run in this tick
  changes        \* the times the user changed a status

clocks == <<since, period, idle, resend, due>>
auto == <<autostat, autoset>>
world == <<net, disk, opened, attached>>
vars == <<link, manual, clocks, auto, enough, world, changes>>

MaxPeriod == Cap + Cap \div 2
Long == MaxPeriod + 1                 \* "long ago", for a timer that is zero
MaxIdle == AwayAfter + NaAfter + 1

Links == [conn : {"off", "connecting", "dead", "on"}, our : Statuses,
          work : 0 .. LoginTime]
Off == [conn |-> "off", our |-> "offline", work |-> 0]
Dead == [Off EXCEPT !.conn = "dead"]

Init ==
  /\ link = [h \in Hooks |-> Off]
  /\ manual \in [Hooks -> Choices]
  /\ since = [h \in Hooks |-> Long] /\ period = [h \in Hooks |-> First]
  /\ idle = 0 /\ attached = TRUE
  /\ autostat = {} /\ autoset = FALSE
  /\ resend = PeriodResend + 1 /\ enough = TRUE
  /\ net = TRUE /\ disk = TRUE /\ opened = FALSE
  /\ due = TRUE /\ changes = 0

-----------------------------------------------------------------------------
(* The hooks.  A record l stands for the link of hook h.                   *)

(* Of the hooks other than msn, getstatus() never reads ourstatus before   *)
(* login and login sets it, so it counts as offline until then.            *)
getstatus(l) == IF l.conn = "off" THEN "offline" ELSE l.our

(* Without a network firetalk_signon() fails; msn waits for an answer.     *)
connect(h, l) ==
  [l EXCEPT !.conn = IF net \/ h \in Msn THEN "connecting" ELSE "off",
            !.work = 0]

(* What firetalk's disconnect() leaves of a link: without a login the      *)
(* callback that resets the hook is not called.                            *)
FiretalkClosed(l) == IF l.conn = "on" THEN Off ELSE Dead

(* msn's callback that would reset ourstatus finds the hook logged out.    *)
disconnect(h, l) ==
  IF h \in Firetalk /\ l.conn # "off" THEN FiretalkClosed(l)
  ELSE [Off EXCEPT !.our = IF h \in Msn THEN l.our ELSE @]

setautostatusAnyMutant(h, l, st) ==
  IF st = "offline" THEN l
  ELSE IF l.conn # "on" THEN connect(h, l)
  ELSE [l EXCEPT !.our = st]

setautostatus(h, l, st) ==
  IF st = "offline"
    THEN IF getstatus(l) # "offline" THEN disconnect(h, l) ELSE l
    ELSE IF l.conn # "on" THEN connect(h, l) ELSE [l EXCEPT !.our = st]

restorestatus(h, l) == setautostatus(h, l, manual[h])

(* abstracthook::setstatus(). *)
setstatus(h, st) ==
  /\ manual' = [manual EXCEPT ![h] = st]
  /\ link' = [link EXCEPT ![h] = setautostatus(h, @, st)]

(* The server accepts: the hook is logged in and sets the user's status.   *)
LoginReady(h) == link[h].conn = "connecting" /\ link[h].work = LoginTime /\ net

Accepted(h) ==
  [link[h] EXCEPT !.conn = "on", !.work = 0,
                  !.our = IF h \in Msn THEN link[h].our ELSE "available"]

Login(h) ==
  /\ LoginReady(h)
  /\ link' = [link EXCEPT ![h] = restorestatus(h, Accepted(h))]
  /\ UNCHANGED <<manual, clocks, auto, enough, world, changes>>

(* The server or the network ends the connection; msn's callback overlooks *)
(* a connection that is not logged in, and firetalk reports a login that   *)
(* is refused but not one whose connection ends.                           *)
ConnectionLost(h) ==
  /\ "drop" \in Env
  /\ \/ link[h].conn = "on" /\ link' = [link EXCEPT ![h] = Off]
     \/ /\ link[h].conn = "connecting" /\ ~net /\ h \notin Msn
        /\ \/ link' = [link EXCEPT ![h] = Off]
           \/ h \in Firetalk /\ link' = [link EXCEPT ![h] = Dead]
  /\ UNCHANGED <<manual, clocks, auto, enough, world, changes>>

-----------------------------------------------------------------------------
(* centerim::setauto(): the links after it, and whether any of them was    *)
(* set or restored.                                                        *)

SetAutoRestores(st) == autoset /\ st = "available"

(* The hooks setauto() touches. *)
SetAutoOn(links, st) ==
  {h \in Hooks : /\ links[h].conn = "on"
                 /\ links[h].our \notin {"invisible", "offline"}
                 /\ \/ SetAutoRestores(st)
                    \/ /\ st # links[h].our
                       /\ ~(st = "away" /\ links[h].our = "notavail")
                       /\ autoset => links[h].our = "away"}

SetAutoLinks(links, st) ==
  [h \in Hooks |->
     IF (st = "available" /\ ~autoset) \/ h \notin SetAutoOn(links, st)
       THEN links[h]
     ELSE IF SetAutoRestores(st) THEN restorestatus(h, links[h])
     ELSE setautostatus(h, links[h], st)]

SetAutoFlagMutant(links, st) ==
  IF SetAutoOn(links, st) = {} THEN autoset ELSE SetAutoRestores(st)

(* The flag keeps its value when no hook was touched. *)
SetAutoFlag(links, st) ==
  IF (st = "available" /\ ~autoset) \/ SetAutoOn(links, st) = {} THEN autoset
  ELSE ~SetAutoRestores(st)

-----------------------------------------------------------------------------
(* centerim::exectimers().                                                 *)

Due(h) == since[h] > period[h]

(* Some hook whose timer has run out is logged in. *)
Fonline == \E h \in Hooks : Due(h) /\ link[h].conn = "on"

(* Reconnecting: a login that takes longer than the period is broken off,  *)
(* to be tried again after the next one. *)
Reconnected(h) ==
  CASE ~Due(h) \/ link[h].conn = "on" -> link[h]
    [] Due(h) /\ link[h].conn \in {"connecting", "dead"} ->
         disconnect(h, link[h])
    [] Due(h) /\ link[h].conn = "off" ->
         IF manual[h] # "offline" /\ enough /\ ~opened
           THEN connect(h, link[h]) ELSE link[h]

BackoffCapMutant(h) ==
  CASE ~Due(h) -> period[h]
    [] Due(h) /\ link[h].conn = "on" -> First
    [] Due(h) /\ link[h].conn # "on" -> period[h] + period[h] \div 2

BackoffFixedMutant(h) == First

Backoff(h) ==
  CASE ~Due(h) -> period[h]
    [] Due(h) /\ link[h].conn = "on" -> First
    [] Due(h) /\ link[h].conn # "on" ->
         IF period[h] < Cap THEN period[h] + period[h] \div 2 ELSE period[h]

TimerOf(h) ==
  IF ~Due(h) THEN since[h] ELSE IF link[h].conn = "on" THEN Long ELSE 0

(* MINCK0: the shorter of two periods, of which zero means none. *)
ShortestPeriod ==
  IF AwayAfter = 0 \/ (NaAfter # 0 /\ NaAfter < AwayAfter)
    THEN NaAfter ELSE AwayAfter

(* The status the idle time calls for, "offline" for no change. *)
IdleStatus ==
  IF idle < ShortestPeriod THEN "available"
  ELSE IF NaAfter # 0 /\ idle > NaAfter THEN "notavail"
  ELSE IF AwayAfter # 0 /\ idle > AwayAfter THEN "away"
  ELSE "offline"

ToSet ==
  IF ~Screen THEN IdleStatus
  ELSE IF ~attached THEN "notavail"
  ELSE IF "notavail" \in autostat /\ IdleStatus # "notavail" THEN "available"
  ELSE IdleStatus

AutoAwayOn == Fonline /\ (AwayAfter # 0 \/ NaAfter # 0 \/ Screen)

AutoAwayDue == AutoAwayOn /\ ToSet # "offline" /\ ToSet \notin autostat

AutoAwayMarksBackMutant(links) ==
  /\ autoset' = IF AutoAwayDue THEN SetAutoFlag(links, ToSet) ELSE autoset
  /\ autostat' = IF AutoAwayDue THEN autostat \cup {ToSet} ELSE autostat

(* autostat[available] is never set: the user's return is seen each time.  *)
AutoAway(links) ==
  /\ autoset' = IF AutoAwayDue THEN SetAutoFlag(links, ToSet) ELSE autoset
  /\ autostat' = IF ~AutoAwayDue THEN autostat
                 ELSE IF ToSet = "available" THEN {}
                 ELSE autostat \cup {ToSet}

AfterAuto(links) ==
  IF AutoAwayDue THEN SetAutoLinks(links, ToSet) ELSE links

CheckDiskNoDisconnectMutant(links) ==
  IF resend > PeriodResend
    THEN enough' = disk /\ resend' = 0 /\ link' = links
    ELSE link' = links /\ UNCHANGED <<enough, resend>>

(* The disk is looked at before resend(), and without room for the events  *)
(* every hook goes offline, if one was found logged in.                    *)
CheckDisk(links) ==
  IF resend > PeriodResend
    THEN /\ enough' = disk /\ resend' = 0
         /\ link' = [h \in Hooks |-> IF ~disk /\ Fonline
                                       THEN disconnect(h, links[h])
                                       ELSE links[h]]
    ELSE link' = links /\ UNCHANGED <<enough, resend>>

ExecTimers ==
  LET links == [h \in Hooks |-> Reconnected(h)]
  IN  /\ period' = [h \in Hooks |-> Backoff(h)]
      /\ since' = [h \in Hooks |-> TimerOf(h)]
      /\ AutoAway(links)
      /\ CheckDisk(AfterAuto(links))
      /\ due' = FALSE
      /\ UNCHANGED <<manual, idle, world, changes>>

-----------------------------------------------------------------------------
(* The user and the rest of the world.                                     *)

(* Any key counts as a return. *)
Keypress ==
  /\ idle > 0
  /\ idle' = 0
  /\ UNCHANGED <<link, manual, since, period, resend, due, auto, enough,
                 world, changes>>

(* centerim::changestatus(), for one of the hooks; it takes keys. *)
changestatus(h, st) ==
  /\ enough /\ changes < MaxChanges
  /\ setstatus(h, st)
  /\ since' = [since EXCEPT ![h] = 0]
  /\ idle' = 0 /\ changes' = changes + 1
  /\ UNCHANGED <<period, resend, due, auto, enough, world>>

(* SIGUSR1: the command line left a status for the hook to take.           *)
rereadstatus(h, st) ==
  /\ "cli" \in Env /\ changes < MaxChanges
  /\ setstatus(h, st)
  /\ changes' = changes + 1
  /\ UNCHANGED <<clocks, auto, enough, world>>

(* The account manager opens and closes, with a key. *)
ToggleManager ==
  /\ "manager" \in Env
  /\ opened' = ~opened /\ idle' = 0
  /\ UNCHANGED <<link, manual, since, period, resend, due, auto, enough, net,
                 disk, attached, changes>>

ToggleScreen ==
  /\ Screen /\ attached' = ~attached
  /\ UNCHANGED <<link, manual, clocks, auto, enough, net, disk, opened, changes>>

ToggleNet ==
  /\ "drop" \in Env /\ net' = ~net
  /\ UNCHANGED <<link, manual, clocks, auto, enough, disk, opened, attached,
                 changes>>

ToggleDisk ==
  /\ "disk" \in Env /\ disk' = ~disk
  /\ UNCHANGED <<link, manual, clocks, auto, enough, net, opened, attached,
                 changes>>

UpTo(limit, n) == IF n < limit THEN n + 1 ELSE limit

(* A server that is ready to accept does so before the next tick. *)
Tick ==
  /\ ~due /\ \A h \in Hooks : ~LoginReady(h)
  /\ since' = [h \in Hooks |-> UpTo(Long, since[h])]
  /\ idle' = UpTo(MaxIdle, idle)
  /\ resend' = UpTo(PeriodResend + 1, resend)
  /\ link' = [h \in Hooks |->
                IF link[h].conn = "connecting" /\ net
                  THEN [link[h] EXCEPT !.work = UpTo(LoginTime, @)]
                  ELSE link[h]]
  /\ due' = TRUE
  /\ UNCHANGED <<manual, period, auto, enough, world, changes>>

Next ==
  \/ \E h \in Hooks :
       \/ Login(h) \/ ConnectionLost(h)
       \/ \E st \in Choices : changestatus(h, st) \/ rereadstatus(h, st)
  \/ ExecTimers \/ Tick
  \/ Keypress \/ ToggleManager \/ ToggleScreen \/ ToggleNet \/ ToggleDisk

Spec == Init /\ [][Next]_vars

(* The idle loop keeps calling exectimers(), time passes whatever the      *)
(* network does, and servers answer; the user and the network owe nothing. *)
FairSpec ==
  /\ Spec
  /\ WF_vars(ExecTimers /\ due) /\ SF_vars(Tick)
  /\ \A h \in Hooks : WF_vars(Login(h))

-----------------------------------------------------------------------------
(* Properties.                                                             *)

(* The types of the links, the timers and the automatic status. *)
TypeOK ==
  /\ link \in [Hooks -> Links] /\ manual \in [Hooks -> Statuses]
  /\ since \in [Hooks -> 0 .. Long] /\ period \in [Hooks -> Nat]
  /\ idle \in 0 .. MaxIdle /\ resend \in 0 .. PeriodResend + 1
  /\ autostat \subseteq {"away", "notavail"} /\ autoset \in BOOLEAN
  /\ enough \in BOOLEAN /\ net \in BOOLEAN /\ disk \in BOOLEAN
  /\ opened \in BOOLEAN /\ attached \in BOOLEAN /\ due \in BOOLEAN
  /\ changes \in 0 .. MaxChanges

(* The period of the reconnection timer starts at First, and however long  *)
(* a server stays away it never exceeds the cap by more than its last      *)
(* growth (30 and 268 seconds in centerim.cc).                             *)
PeriodBound == \A h \in Hooks : period[h] >= First /\ period[h] <= MaxPeriod

(* setauto() and the hooks: a hook that is logged in shows the status its  *)
(* user chose, or an automatic one that setauto() remembers to take back;  *)
(* an invisible user is never shown as away.                               *)
ShowsChosen(h) ==
  link[h].conn = "on" =>
    \/ link[h].our = manual[h]
    \/ /\ autoset
       /\ link[h].our \in {"away", "notavail"}
       /\ manual[h] \notin {"invisible", "offline"}

StatusIsChosen == \A h \in Hooks : ShowsChosen(h)

(* When exectimers() finds the user back at the keyboard, no logged in     *)
(* hook is left with a status the user has not chosen.                     *)
BackMeansBack ==
  [][ExecTimers /\ AutoAwayOn /\ ToSet = "available" =>
       \A h \in Hooks : link[h].conn = "on" /\ link'[h].conn = "on" =>
                          link'[h].our = manual[h]]_vars

(* While the user wants to be online, the network and the disk are fine    *)
(* and the account manager is closed, every hook is logged in again and    *)
(* again: the growing period gives a slow login the time it needs, and no  *)
(* timer starves it.  Only a firetalk hook whose first try to log in was   *)
(* broken off may stay dead, until its user sets a status.                 *)
CanConnect(h) == net /\ disk /\ ~opened /\ manual[h] # "offline"

Reconnects ==
  \A h \in Hooks :
    <>[]CanConnect(h) => \/ []<>(link[h].conn = "on")
                         \/ h \in Firetalk /\ <>[](link[h].conn = "dead")

Unconnected(h) == link[h].conn \in {"off", "dead"}

(* With the disk full for good every hook ends up offline and stays so,    *)
(* whatever was connecting when exectimers() noticed.                      *)
FullDiskMeansOffline ==
  \A h \in Hooks : <>[]~disk => <>[]Unconnected(h)

(* msnhook::setautostatus() (msnhook.cc:361) disconnects a hook only when   *)
(* getstatus() is not offline, which it is until a first status is sent:   *)
(* a hook that logs in after its user gave up stays logged in.             *)
Stranded(h) == h \in Msn /\ link[h].conn = "on" /\ link[h].our = "offline"

(* A hook the user has set offline, at whatever moment of a login, ends up *)
(* disconnected; only one of msn may instead be logged in with the status  *)
(* offline, which neither the timers nor its user's choice then end.       *)
OfflineMeansOff ==
  \A h \in Hooks :
    manual[h] = "offline" ~>
      Unconnected(h) \/ Stranded(h) \/ manual[h] # "offline"

(* README, 5.1: after the period of inactivity the status is switched to   *)
(* N/A, "to show your friends or colleagues you're somewhere away".        *)
AutoAwayApplies ==
  [][ExecTimers /\ AutoAwayOn /\ NaAfter # 0 /\ idle > NaAfter =>
       \A h \in Hooks : link[h].conn = "on" =>
                          link'[h].our # "available"]_vars
=============================================================================
