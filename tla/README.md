# CenterIM: models and proofs

TLA+ models of the parts of CenterIM that decide what happens to a user's
messages, contacts and connections, with the TLC configurations that check
them on small instances and proofs checked by TLAPS. All paths below are
relative to the repository.

## The system

CenterIM is a single-threaded text-mode messenger. `centerim::idle()` waits in
`select()` for keys and sockets, calls `exectimers()` on every turn, and hands
ready sockets to the protocol hooks, which call back into the event manager.
Other actors touch the same state: a second process started as
`centerim -s ...` appends to the files of the outgoing queue, signal handlers
run `rereadstatus()`, `clist.load()` and the saves, dialogs run the idle loop
while they wait for a key, and external actions run as child processes.

| component | state | operations | interacts with |
|---|---|---|---|
| event manager, outgoing (`src/eventmanager.cc`) | `offline`, `offline_`, `history` and lock files of every contact; `unsent`, `recentlysent`, `lastevent` | `store`, `eventwrite`, `setlock`, `resend` | hooks (send), external actions (verdict), command line senders (files), timers (call `resend`) |
| event manager, incoming, with the captcha (`src/eventmanager.cc`, `src/captcha.cc`) | the captcha map, settings | `store`, `docaptcha`, `checkcaptcha`, `getcaptchaquestion`, `donecaptcha` | contact list (adds, removes), outgoing side (sends the question) |
| main loop timers (`src/centerim.cc`) | `reconnect[]`, `autostat`, `autoset`, timers | `exectimers`, `setauto`, `changestatus`, `rereadstatus` | hooks (connect, disconnect, set status), event manager, disk check |
| contact list (`src/icqcontacts.cc`, `src/icqcontact.cc`) | the list, one directory per contact, `excluded`, `modified` | `addnew`, `remove`, `load`, `save`, `includeintolist`, `updateEntry` | event manager, groups, lists, hooks, dialogs |
| groups (`src/icqgroups.cc`, `src/icqgroup.cc`) | the vector of groups and its file | add, remove, rename, move, load, save | contacts, which refer to the identifiers |
| visible, invisible and ignore lists (`src/icqmlist.cc`) | the vector of entries and its file | load, save, push, del, the dialog | event manager, contact list, hooks |
| HTTP client with the RSS hook (`src/hooks/HTTPClient.cc`, `src/hooks/rsshook.cc`) | the request queue, the state machine, the socket, the `select()` sets | send, connect, receive, parse, time out | main loop (timers and sockets), event manager |
| LiveJournal hook (`src/hooks/ljhook.cc`) | login, friends, requests in an HTTP client of its own | login, post, friends, lookup | HTTP client, contact list (the user's own entry) |
| Gadu-Gadu hook (`src/hooks/gaduhook.cc`, `libgadu`) | the session, `flogged`, the watched contacts, searches | the steps of a login, contacts, send, directory | timers, event manager, contact list |
| irc hook (`src/hooks/irchook.cc`, `firetalk`) | the records of the channels, what was searched | join, leave, search, kicks, login | contact list (channels are contacts), firetalk |
| jabber hook (`src/hooks/jabberhook.cc`, `libjabber`) | the roster, the presence of every resource | login, status, roster pushes, presence | contact list, the server and the user's other clients |
| icq hook (`src/hooks/icqhook.cc`, `libicq2000`) | the client's state, its queue of edits and what it knows of the server's list | login, status, privacy lists, contacts one edit at a time | contact list, visible and invisible lists, timers, the server and the user's other clients |
| connections of the other hooks (msn, aim, yahoo) | `fonline`, `flogged`, `ourstatus`, `manualstatus` | `connect`, `disconnect`, `setautostatus`, callbacks | protocol libraries, timers |
| configuration, account manager, dialogs, history viewer, loggers, OTR and PGP | settings, screens | | all of the above |
| vendored libraries (`libicq2000`, `libmsn`, ...) | | | hooks |

What is hard here: the queue is a set of files shared by processes that agree
on a lock only half of them take; `resend()` puts events back into the queue
it is reading; a crash may come between any two system calls; the automatic
status is held in static variables shared by all the protocols while each of
them connects and drops on its own; logins race with timers, with the user and
with changes of the contact list, which the server and the user's other
clients change too; groups, contacts and lists are saved at different times,
and what a dialog has picked may be gone when it is used. The hazards, each at
its line, are listed in `PROJECT.json` with the properties that cover them.

## Modules

**EventManager** is `store()` of outgoing events, `eventwrite()` and
`resend()`. The program itself is the process `Im`; `Senders` are command line
processes. `eventwrite()` is cut at the system calls another process can see:
`LockWait`, `LockPass`, `LockMake` (`setlock`), `Open`, `OpenFails`, `Write`,
`Unlock`. `store()` is one of `Reject` (an external action refuses),
`Deliver` (sent, then written to the history) and `Postpone` (written to
`offline`); `Ready` is its test of the hook and of the flood gate. `resend()`
is `ResendBegin`, then for each contact `ResendSkip` or `ResendRename`,
`ResendStore` for every event read, `ResendEof`, `ResendUnlink`, and
`ResendEnd`. A descriptor follows the file it opened through a rename and a
removal (`fd` is `offline_` or `gone`). `Crash` forgets what is in memory and
keeps the files; `Restart` starts again. The contact list is fixed, times are
counted in ticks, and writing an event is one atomic append.

**OutQueue** is what the queue promises: an event is put in it, delivered at
most once, or dropped by the filter; with `MayLose` it may also vanish.
EventManager implements it (`QueueSpec`) under the mapping `Queue`.

**Incoming** is `store()` of incoming events with the anti-spam settings, the
captcha, and the clean-up on exit. As `imcontact::operator<` is always false
the `std::map` of the captcha has at most one entry, so its state is the one
variable `entry`; `test` remembers, as a ghost, the question each contact was
really given.

**Timers** is `exectimers()` with `setauto()`, the disk check, the two
status-setting operations of the user, and the hooks they drive. One
`ExecTimers` step is a whole call: the reconnection loop (`Reconnected`,
`Backoff`, `TimerOf`), the auto-away decision (`ToSet`, `AutoAway`, `AfterAuto`)
and `CheckDisk`, in that order. A hook's `link` is its connection with
`ourstatus`. Hooks in `Msn` call `setautostatus()` at login with the old
`ourstatus`; the others (aim, irc, jabber) set it to available first. For those
`ourstatus` is not observable before login and is kept as offline until then. An
msn hook that its user set offline during a login logs in all the same and stays
so (`Stranded`). Hooks in `Firetalk` (aim, irc) are not told when a connection
ends that was still signing on: `firetalk_disconnect()` returns early and calls
nobody, so the link is `dead`, the hook believes that it is connecting, and the
timers try in vain to disconnect it. The mail check, the autosave and the redraw
of `exectimers()` change nothing modelled here; its call of `resend()` is the
module EventManager.

**ContactList** is the contact list and its groups, in memory (`clist`,
`groups`, `last`) and on disk (`dir`, `file`). What a contact's files hold is
abstracted to a nick, a group and whether `excluded` exists. Adding is two
actions: `addnew()` ends with the contact's own files written (`save()`),
`Added` is the rest (`excludefromlist()`, or the group that a server named);
`adding` holds what the call still has to do, and only a `Crash` can come
between. The files that one `save()` writes are one step. Renaming, including,
moving, editing and removing are an action each, and so are the operations of
the group dialog, `Autosave`, `Quit`, `Crash`, `Start`, a server that says who
is in which group (`UpdateEntry`), a command line sender that makes a directory
and SIGUSR2 (`Reload`), which is taken between two handlers. Dialogs run the
idle loop, so that events, servers and signals act while `modal` says that one
is open. The order of the vector of groups matters in one place, `movedown()`,
which takes the last element for the largest: that is `last`.

**ModeList** is the three lists with their dialog: which entry means whom
(`who`), what is written (the name shown, and a number if there is one) and
what is read back (`ReadBack`); `meant` is, as a ghost, what the user asked for.

**HTTPClient** is the class of that name with the parts of the RSS hook that
drive it: `SendEvent` (with its test for an equal request), `Poll`
(`clearoutMessagesPoll()`: connect again, or `CheckTimeout`), the two halves of
`socket_cb()`, and `Connect()`, an operator because five callers use it with
different states to leave behind; it may begin to connect, connect at once, or
fail at the lookup, the socket or the limit of tries, and then reports the
request. For a readable socket `Recv()` and `Parse()` run as micro-steps: `pc`
is `recv` between two reads and `parse` between two lines. A reply is a sequence
of lines of one unit each, chosen when the request goes out; `got` and `parsed`
say how much of it is in `m_recv` and how much `Parse()` has taken, `from` where
this call of `Parse()` began, because the name of a header stays in a local
variable for the empty line that follows. `pc = "undefined"` means that the
front of an empty list was used, and nothing is said of what follows
(`Undefined`). `outcome` is what the hook was last told of a feed; `asked`
remembers, as a ghost, whose request really left. **FeedQueue** is what the
client promises the feeds: they wait in one queue, only its first is served, and
it leaves with the page it was sent for or with a failure; and alone, but for
one that the server refused again after asking it for a password (`barred`),
which may take the next along (`Overrun`). HTTPClient implements it
(`ServedInTurn`), the whole of the state machine and of `socket_cb()` being
hidden. Left out: the address a redirection leads to, proxies, the text of a
page, and a `WWW-Authenticate` header without parameters.

**LiveJournal** is the hook over such a client, seen a request at a time:
`SendEvent` ignores an equal request, begins to connect when idle, or fails at
once; `Connects`, `Fails` and the answers follow. The client is never polled
by this hook, so a connection that cannot be made leaves it `dead`. `told` and
`posts` remember, as ghosts, whom the user was told of and what became of a
post.

**Gadu** is the Gadu-Gadu hook over `libgadu`: the session goes through the
phases of a login (`hub`, `data`, `gg`, `tls`, `key`, `reply`), with the
retries on other servers and ports that the library makes, may lose its peer
without a word (`mute`), and is driven by `main()` and the timers. Contacts,
messages and the public directory (searches and details share one reply) are
actions of their own.

**Irc** is the list of channels of the irc hook: records that are joined or only
searched, contacts that stand for channels, `setautochannels()` with the
commands it sends, kicks and refusals. Where `channelfatal()` uses an iterator
into a vector assigned meanwhile, the model marks the record that has come to
that place. The loops that copy records into a new vector are `Those`, what is
at given places of a sequence, in its order. The connection has the `dead` state
of Timers.

**Jabber** is the login, the status, the roster and the presence of the jabber
hook against a server that keeps a roster (`kept`), subscriptions (`sub`) and
the presence of people's resources (`present`), with both directions of the
connection as queues. The user's other clients and the people in the roster
change things too, and the pushes cross what the hook sends. `reset` remembers,
as a ghost, of whom the hook was made to forget something.

**Icq** is the icq hook over `Client` of libicq2000 and a server: the login
(`auth`, `bos`, `in`), the status and the packets that go with it
(`StatusPackets`), the visible and invisible lists (`lst` in CenterIM,
`vislist` in the client, `privacy` at the server), and the contact list that
the server keeps. A change is queued (`sbl.edits`), sent as two packets
(`sbl.snacs`), each acknowledged, and the next begins when both are
(`processSblEdits`, `EditAck`, `NextEdit`). New contacts wait in `tosend` until
`DELAY_SENDNEW` has passed; it is a set, and any of it may be the next. The
server's list is taken as one packet, where `Client` may merge several
(`Client.cpp:1598`). A
packet that cannot be sent is a connection lost just after. Left out: contacts
that change their group, the commit packets and the texts of the edits.
`astray` remembers, as a ghost, the contacts of which the server is not told or
which it refuses, and `untold` that a change of visibility was not sent.

**MCHooks** puts HTTPClient, LiveJournal, Gadu, Irc and the login of Icq in one
state space; **MCContactList** does so with ContactList, ModeList, Incoming and
Jabber, and **MCSending** with EventManager and Icq, of which it explores two
slices (a user who is never invisible and has no privacy lists; one who has no
contact): the variable `part` names the component that moves, the others stay
where they began, so that the sum has as many states as its parts together. The
parts meet through interfaces that each models on its own side (the contact list
is a set of contacts in ModeList, Incoming and the hooks; the client is a queue
in LiveJournal). **MCEventManager**, **MCIncoming**, **MCModeList** and
**MCTimers** define the other instances. **EventManagerProofs**,
**QueueProofs**, **TimersProofs**, **HTTPClientProofs** and
**ContactListProofs** hold the theorems about the modules they are named for,
**ListsProofs** those about ModeList (`Ml`), Incoming (`In`) and Jabber (`Jb`),
**HooksProofs** those about LiveJournal (`Lj`), Gadu (`Gg`) and Irc (`Ic`),
**IcqProofs** those about Icq (`Iq`). An operator whose name ends in `Mutant` is
a plausible wrong version of the definition that follows it, kept to show that a
property notices.

## What the runs check

| run | instance | what it shows |
|---|---|---|
| `em_core` | 2 contacts, 3 events, 2 hooks, one event an action rejects, one send per period; icq with 1 contact in 1 group, or with 1 person on the visible and invisible lists, 2 packets under way | With one process and no fault nothing is lost, the history is exact, the unsent count is the number of events queued, the gate holds its limit, and once every hook stays logged in every event is sent: the gate and the requeueing starve nobody. Between two edits the icq client knows what the server keeps, and whoever was added or removed while logged in was added or removed there; an invisible icq user is seen by his visible list only, at every moment of the change. |
| `em_faults` | 1 contact, 2 events, a command line sender; crashes, files that do not open, refused sends | At most one send per event whatever fails, a history with nothing that was not sent, and the refinement of OutQueue with `MayLose`. |
| `em_sender_loss` (violated) | gate of 2, one sender, no fault | Finding 1. |
| `in_two_strangers` (violated) | two strangers | Finding 2. |
| `tm_away` | one hook of the kind of msn, one over firetalk; drops, statuses set from the command line, a screen that is detached | A status is always one the user chose or the automatic one in force, and coming back restores what was chosen. |
| `tm_reconnect` | a hook over firetalk and one of msn, `First` 2, `Cap` 3, a login that takes 3; drops, a filling disk, the account manager | The period stays within its bounds, a hook that is to be online is logged in again (a `dead` link excepted), a full disk leads to nobody online, and a hook set offline ends up so, but for one of msn that was set offline during a login (`Stranded`). |
| `tm_absent` (violated) | one hook | Finding 3. |
| `cl_core` | 1 contact, 2 nicks, 1 name and 3 groups at most; one icq contact on three lists; two strangers, one of them of irc; 1 buddy with 2 resources and 2 kinds of presence, 2 packets under way | A contact is in a group that exists, in memory and after a restart; changes not saved are marked; a stranger stays excluded on disk, but for a crash inside `addnew()` (`Exposed`); exchanging groups moves nobody to another name; the three lists keep their numbers; nobody enters without a right answer in time; the clean-up leaves no directory of nobody; and the jabber roster and presences agree with the server. |
| `cl_ignored` (violated) | one contact each of icq, gadu and another protocol | Finding 4. |
| `hooks` | 2 feeds (1 try, timeout 1, the replies of `Pages`); 1 post, 1 user, 2 friends; 1 event, 1 search; 2 channels, 2 messages under way; the login to icq, 2 packets under way | Every HTTP request is given its own answer, in its turn (the refinement of FeedQueue), but for a password refused again after a length (`Overrun`), and is reported in the end, a closed socket is not watched, posts are reported once, friends are known, a hook set offline is off, the Gadu-Gadu server watches the contact list, the first login to Gadu-Gadu and every login to icq come about, and the irc user is in the channels whose records say joined. |
| `lj_stuck` (violated) | no post, no lookup | Finding 5. |
| `gg_dropped` (violated) | 1 event | Finding 6. |

### Bounds

Sets are of model values; what grows is bounded by a constant or in a guard.

- *Events and contacts* (`em_*`). The files of different contacts meet only in
  the gate, in `todo` and in `unsent`, for which two contacts are enough. Three
  events make a queue from which one is sent, one put back and one appended
  while it is read. Events are created once each; the sequences in the files
  are bounded by that. With all faults at once the instance is smaller: the
  races are between one writer and one reader of one file.
- *The gate*: one send per period is the smallest gate that closes, two let a
  resend send twice in a row. Ages stop at `PERIOD_ATONCE` + 1.
- *The lock*: one look stands for the ten that `setlock()` takes, with a sleep of
  10 microseconds after each; that it is given up is what matters.
- *Timers*: idle times stop at the second threshold, periods at `Cap`, and
  `MaxChanges` bounds only the changes of an environment that would otherwise
  excuse the system. `First = 2`, `Cap = 3` and a login of 3 are the least
  numbers with which the first attempt is broken off and a later one is not.
- *Groups*: three identifiers are enough for a gap below the last; one contact,
  because contacts do not refer to each other.
- *Lists*: three entries of one contact meet; other protocols are in `cl_ignored`.
- *HTTP*: replies of a few lines with every status that `Parse()` tells apart
  (`Pages`), one of them a demand for a password that gives a length first and is
  long enough for `Recv()` to stop at it, with one feed in the queue and with
  two; one retry and a timeout of one tick. All replies end, which
  `EventuallyReported` needs: a server that dribbles for ever is not timed out.
- *Queues of packets* (Jabber, Irc, Icq): two under way, which is enough for a push
  to cross what the hook sends; a peer waits while a queue is full,
  and the icq user acts only while the queues have room. The icq parts are split
  because edits of the list and visibility share nothing but the connection;
  the proofs are about the two together.

`part` in MCHooks, MCContactList and MCSending makes runs of several components
that do not act on each other; it adds no behaviour to any of them.

`cl_core` counts states that differ only in the names of the two jabber
resources once (`SYMMETRY`): nothing in the code or the model tells one from
the other, and all its properties are about single states or steps.

### Fairness

- EventManager: the main loop keeps turning and the clock with it
  (`WF(Resend)`, `WF(Tick)`); `eventwrite()` is straight code whose only wait,
  for the lock, is counted (`WF(EventWrite(p))`); somebody starts the program
  again (`WF(Restart)`). `EventuallySent` assumes that the hooks stay logged in
  from some time on; nothing is assumed of refusals, of which that run has none.
- Timers: `exectimers()` is called on every turn of the main loop
  (`WF(ExecTimers /\ due)`), time passes although other things happen
  (`SF(Tick)`), and a server that is given `LoginTime` answers
  (`WF(Login(h))`). `Reconnects` is for a network that stays up.
- HTTPClient: `clearoutMessagesPoll()` is called by the timers, the clock runs
  and data that is there is read. LiveJournal, with its own client: the
  reconnection of the timers, and a server that answers while the network is
  good; the login needs `SF`, because lookups may come before it.
- Gadu: the reconnection of the timers, the next step of a login that is under
  way, and a lost peer that is noticed at last.
- Icq: the same: the reconnection of the timers (`WF(Reconnect)`), the next
  step of a login while the servers answer (`WF(LoginStep)`), and `PingServer()`,
  which fails at last when nobody is there (`WF(Noticed)`).

The runs check one type invariant where it costs little; those of Timers and
HTTPClient are proved for every instance and left out of the runs.

## Findings

1. `em_sender_loss`: a command line sender that has opened `offline` just
   before `resend()` renames it appends to the file that is then unlinked
   (`eventmanager.cc:272`, `:296`). `resend()` never takes the lock. README:1075
   says that queued events will be sent.
2. `in_two_strangers`: `imcontact::operator<` (`imcontact.cc:77`) is always
   false, so every contact is the same key of the captcha map.
3. `tm_absent`: a hook that logs in while the user is away is not set away
   (`centerim.cc:1671`): `autostat` remembers that it has been done.
4. `cl_ignored`: `icqmlist.cc:65` writes the name shown, `load()` takes it for
   the nick. An ignored gadu contact is nobody after a restart.
5. `lj_stuck`: `ljhook::exectimers()` does not poll its HTTP client; a login
   behind a lookup stays in the queue, equal logins are dropped, and a refused
   connection waits for ever.
6. `gg_dropped`: `flogged` of the Gadu-Gadu hook is never reset, so during a
   second login events are "sent" to a session that refuses them, recorded in
   the history, and gone.

Seen on the way, in the models but without a run of their own:

- msn: `setautostatus()` disconnects only if `getstatus()` is not offline
  (`msnhook.cc:361`), and during a login it is offline until the first status
  has been sent. A hook set offline at that time logs in and stays so, with the
  status offline: nothing in `exectimers()` disconnects a hook that is logged
  in, and choosing offline again does not either. README:676 speaks of "an
  ability to go offline". `Stranded` excuses it in `OfflineMeansOff`.
- `HTTPClient.cc:246`: `Parse()` sets the state again after `Connect()`, so a
  reconnection that failed at once is forgotten. A second 401 makes `Parse()`
  fail (`HTTPClient.cc:420`); `Recv()` reports the request, goes on to compare
  the length, and if that was given before and has arrived, throws to a handler
  that reports the front of the queue once more (`HTTPClient.cc:532`): the next
  feed is given that page as its own, or the front of an empty list is used.
  `Overrun` is that step, which `OwnAnswer` and FeedQueue except.
  `HTTPClient.cc:409` compares the length of a page with all of `m_recv`, the
  header included.
- A crash in `addnew()` between `save()` and `excludefromlist()`
  (`icqcontacts.cc:115`, `:120`) leaves a stranger's files without the one that
  excludes him, and he is a contact of the list at the next start: `Exposed` in
  `ExclusionStored`.
- Strangers who passed the test, and whose message waits in the directory, are
  dropped on exit if they were not included in the list.
- `includeintolist(groupid)` does not always mark the change of the group.
- LiveJournal: the user's own contact is available while logged out.
- Gadu-Gadu: a status chosen while connecting is lost; a late reply to a search
  becomes the details of the user's own contact.
- irc: `channelfatal()` goes on with an iterator into a vector that
  `setautochannels()` may have assigned; rooms entered as a guest are never
  left, because what would leave them, `chatnames()` and `endextended()`
  (`irchook.cc:1124`), are callbacks that this firetalk registers and never
  calls; a channel removed while offline is joined again, although
  README:291-293 says that removing leaves it.
- aim and irc: a login that ends early is reported by no callback; the hook
  believes that it connects until the program ends.
- jabber: `subscription="remove"` is handled like any roster push
  (`jabberhook.cc:1281`), so a removed contact comes back until the next login;
  presences survive removal and adding again; `includeintolist` sets a stranger
  offline who is online; priorities of -127 and less are ignored; `disconnect()`
  inside a handler of the login frees the connection that called it.
- icq: a connection that is lost while an edit waits for its acknowledgement
  leaves `m_sbl_inedit` set; no later edit is ever sent (`processSblEdits()`,
  `Client.cpp:2807`). `SignalConnect()` clears the queue of edits, so that
  contacts added while offline never reach the server's list (the upgrade that
  would bring them there is under `#if 0`), and contacts removed while offline,
  or before the server's list has arrived, are added back. Strangers who write
  are put on the server's list like contacts.
- icq: `offline` chosen while connecting does nothing; a status chosen before
  the first answer of the server calls `connect()` again; one chosen before the
  last is confirmed may leave the wrong list of the two at the server. Changes
  of the visible and invisible lists while online are not sent
  (`visiblelist_cb()` and `invisiblelist_cb()` are not connected,
  `Client.cpp:180`), although README:1028-1031 says that people on the invisible
  list never see the user's presence. `untold` excuses these moments in
  `PrivacyTold`.

## Proofs

TLAPS checks these for every value of the constants that meets the named
assumption of the module (`ConstantsAssumption`, `TimersAssumption`,
`HTTPAssumption`, `ContactListAssumption`; TLC evaluates them on the
instances). What a theorem assumes beyond that is written in it. ListsProofs
and HooksProofs speak of the compositions MCContactList and MCHooks, in which
every component has all of its behaviours in its own `part`; IcqProofs speaks
of `Icq` itself, of which the slices of MCSending are parts (`PartsAreIcq`).

**EventManagerProofs.** `TypeCorrect` is the type invariant. `NeverSentTwice`
(`NoDuplicateSend`) is not inductive by itself: it rests on *where* an event
may be. `SendOnce` says that an event that can still reach `hook->send()` has
not been sent (`Unsent`), that it is in one place only, of the queue file, the
unread rest of the file being read, and the hands of one writer (`OnePlace`),
that no file holds it twice and every file its own contact's (`FilesDistinct`),
and that a descriptor leads to the history only if it was meant to
(`HistoryApart`). The rename is the step that needs it all: it turns queued
events into unread ones and moves descriptors along.

**QueueProofs.** `QueueImplemented`: EventManager implements OutQueue. An event
is pending while it is kept anywhere and not done. The mapping needs `Known` (an
event kept anywhere was created, what was rejected waits nowhere any more) so
that nothing enters the queue twice, and, for the promise that nothing is lost,
`Orderly`: with one process and no fault `offline_` exists only while it is
read, all that has been read of it is settled or in hand, and a writer's
descriptor leads to the file it opened. With several processes or faults the
abstract queue may lose events, and does. `NothingIsLost` follows from the same
invariant. `UnsentIsExact` (`UnsentExact`) is inductive as `CountSound`: in the
middle of `resend()` the count stands for the contacts it has visited, and of
these for what is in a queue file or in hand to be put there; `OnePlace` is why
an event that is put back is counted once. `HistoryAlwaysSound` and
`HistoryComplete` rest on `Recorded`: the history and the record in hand
together are at most, or exactly, what was sent. `FloodGateHolds` rests on
`Flood`: every event sent in this run is no younger than `lastevent`, but for
the one whose history is being written; so when the quiet period lets the count
begin anew, nothing sent is left within the period; and the sends within the
period are at most the count, the one not yet counted included.

**TimersProofs.** `TypeCorrect`; `StatusAlwaysChosen` (`StatusIsChosen`: what a
logged in hook shows is the user's choice, or an automatic status while
`autoset` remembers to take it back), inductive with the types because nothing
but `exectimers()` clears `autoset`, and it does so only in a call that also
restores every hook; `PeriodAlwaysBounded` (`PeriodBound`): the test of the cap
before the period grows bounds it by half as much again; `BackAlwaysMeansBack`
(`BackMeansBack`), from the first two: the status to set is never kept as the
automatic one when it is "available", and `setauto()` passes over a hook only
if that hook already shows what its user chose.

**HTTPClientProofs.** `TypeCorrect`; `AlwaysCoherent` (`Coherent`): the sets of
`select()` hold no closed socket, a client that is not connected has none, and
an open one belongs to the request at the head of the queue, also in the middle
of `Recv()` and `Parse()`. Both are parts of one invariant, `Sane`, split by
variables (`QueueTypes`, `NetTypes`, `Linked`, ...); `ConnectSound` is the
lemma about `Connect()` that each of its callers cites. `QueueAlwaysSound`
(`QueueSound`) is inductive on top of `Sane`; its lemmas say what putting a
request at the end (`PutSound`) and taking one off the head (`PopSound`) keep.
`AnswersAreOwn` (`OwnAnswer`) is on top of both: what is
received is received for the head of the queue, which has been sent since it was
queued (`FrontAsked`). It is about steps, because the step that gives one feed
another's answer is in the code, and the property says which one it is:
`Tells` allows it in an `Overrun` only, and so it does the use of an empty list.
`FailsAlone` is the reason: `Recv()` goes on to the length after `Parse()` has
failed, but when the status line was wrong no length of that reply is known, so
that only a second refusal of a password is reported twice. Nothing is assumed
of the replies. `FeedsAreServedInTurn`
(`ServedInTurn`): HTTPClient implements FeedQueue. A step of the client is a
step of that queue, or one that it does not see; the step at which two
requests leave the queue together is FeedQueue's `Overrun`, possible only for
one that was asked for a password before, which is in `barred`
(`AuthenticateTurns`).

**ContactListProofs.** `Types`, `EverybodyInAGroup` (`GroupsExist`),
`NoChangeForgotten` (`ChangesMarked`) and `ExclusionOnDisk` (`ExclusionStored`),
all from one inductive invariant, `Sound`: the types; `ContactsSound`
(`EntrySound` of every contact: his group is in use, an unmodified nick is the
stored one, where a missing directory stands for the contact's own name, and a
stored exclusion is true, as is its absence once the files are complete);
`GroupsSound` (General and `last` are groups in use); `FileSound` (so is the
last group of the file that will be loaded); `EditSound` (the contact in an open
dialog exists); and `AddingSound` (the contact that `addnew()` is writing is in
memory, and its directory does not exclude it if it is to be in the list).
`ExclusionOnDisk` covers a crash between the two halves of `addnew()` and
excepts who is lost by it: a stranger whom `excludefromlist()` has not reached
(`Exposed`). `ChangesMarked` needs the clause about missing directories because
a contact may be in the list before anything is written. The action property
`MovesKeep` (`MovesKeepGroups`) follows from `TypeOK` and what the two exchanged
identifiers were.

**ListsProofs.** *Incoming*: `ListAlwaysMatchesDisk` (`ListMatchesDisk`) is
inductive as it stands, and `OnlyTheTestedEnter` (`OnlyTested`) follows from it
and a step; neither assumes anything of the constants; `OnlyTested` says that
who enters gave a right answer to the question held, in time, and not that it
was the question he was given, which fails (finding 2, run `in_two_strangers`).
`IncomingTypeCorrect` assumes a timeout in `Nat` and that `None` is not a
question. *ModeList*: `NumbersAlwaysExact` (`NumbersExact`) from `MlSound`: in
memory and in the file a number has one entry on a list, and nobody else's name
is taken for a number (`EntriesSound`); both say what the user meant (`Agrees`),
the file as of the last save; and what a dialog has picked is not on its list
yet (`PickedSound`). It assumes `MlConstants`: a nick is not an icq number.
*Jabber*: `JabberOfflineMeansOff` (`OfflineMeansOff`), `RosterIsListed`
(`RosterListed`) and `PresenceIsTheBest` (`PresenceIsBest`), all from `JbSound`.
A contact the server keeps is known to the hook, or will be by what is under
way, or is being removed (`RosterLearned`); nobody is announced before the
roster has come, and only who is announced is told of presences (`Announcing`);
the status of a resource is the one told last, or that one is under way and the
last of its kind, and its contact was introduced before it (`PresencesSound`). A
contact is assumed to have a resource to be online with. `JabberTypeCorrect`
adds what the contacts are shown as and the lengths of the two queues
(`JbRest`).

**HooksProofs.** *Gadu*: `GaduWatches` (`WatchedIsList`),
`GaduOnlineMeansConnected` (`OnlineMeansConnected`) and the gadu part of
`HooksOfflineMeansOff` (`OfflineMeansOff`) are inductive together with the types
of the session (`GgSound`). *LiveJournal*: `PostsAreTracked` (`PostsTracked`)
and `FriendsAreKnown` (`FriendsKnown`) from `LjSound`: a posting is in the
client's queue once if it waits and not otherwise (`LjQueued`), and the queue is
not empty while the client works. `LjConstants` says that a posting is not one
of the other requests. `GaduTypeCorrect` is about the types of all its
variables, the dialogs' included. *Irc*: its part of `HooksOfflineMeansOff`;
`ChannelsAreJoined` (`JoinedTracks`), from `IcSound`, which adds the types of
the records, of which no two are of one room, and of what is under way
(`IcTypes`); and `IrcTypeCorrect`. Sending commands settles a room if the last
one for it is a join, or if there is none and it was settled before (`IcSend`);
the commands of `setautochannels()` are a join last for whatever it newly joins
and nothing for whatever stays joined, for any old and new records
(`IcChanges`). That rests on what a loop that copies chosen records leaves: each
chosen place once, in order (`IcThose`), shown by counting the chosen places up
to each (`IcRank`). No bound on the messages under way is assumed.

**IcqProofs.** `ServerListFollows` (`ListFollows`), `PrivacyIsTold`
(`PrivacyTold`) and `IcqTypeCorrect`, from one invariant, `IqSound`, for any
number of contacts, people on the lists and packets under way, while a user
changes everything at once. `QuietOut`: without a login nothing is under way.
Visibility (`Visible`): the status the server shows, followed by those under
way, leads to the one last asked for (`Follows`); until a change is confirmed
only one is asked for (`OneAsked`, else `untold`); and the list that belongs to
it is at the server or ahead of the status in the queue, and never behind one
that would show an invisible user (`ListFirst`). The contact list (`Listed`):
the list is asked for once (`Requested`); one edit at most is under way, and it
is the first of `sbl.snacs` (`OneEdit`); what the client knows lags behind the
server by an edit that was accepted (`Known`); and of the edits of somebody that
wait or are under way, the last says what the user wants, or, if there are none,
the server has it already (`Agree`). `processSblEdits()` may drop an edit
because of a later one, which is why `Agree` speaks of the last only.
`IqConstants` says that the contact list is finite and everybody is in a group.

## What is only model-checked

Liveness and fairness (`EventuallySent`, `Reconnects`, `FullDiskMeansOffline`,
`OfflineMeansOff` of Timers, `EventuallyReported`, `LoginsComeAbout`,
`LoggedInAgain`) are out of the prover's reach. Every other
invariant and action property that a passing run checks is a theorem.

## Not modelled

| part | why |
|---|---|
| icq: messages and their acknowledgements, details, searches, direct connections, moves between groups | each a dialogue of its own with the server that touches neither login, list nor visibility; what the event manager sees of a send is a verdict in EventManager |
| yahoo hook, `libyahoo2` | callbacks of a library that parses several connections at once; the part that CenterIM decides, connecting and the account's statuses, is a hook of Timers; an attempt to connect that the library never ends is one more `dead` link |
| msn switchboards, file transfers, rooms, agents, vcards | each a protocol of its own; login and status of msn are in Timers |
| account registration, `imcontroller` | dialogs in a row, with no state of their own |
| OTR and PGP | wrappers of libotr and gpgme |
| history, loggers, event classes, formatting, parsing of feeds and pages | text; the order and number of writes to the history are in EventManager |
| screens, menus, editors, `kkconsui`, `kkstrtext` | pure input and output; dialogs appear as far as they hold what they picked over turns of the idle loop (ContactList, ModeList) |
| inside a signal handler | SIGUSR1 and SIGUSR2 run code that is not safe there; the models have the handler between two others only |
| proxies, TLS, sockets (`connwrap`) | failures and delays of connections are nondeterministic in every model that has one |

What could be added next: a directory of conversations and files of msn; the
agents and rooms of the jabber hook.
