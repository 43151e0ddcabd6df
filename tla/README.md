# restore-wss in TLA+

restore-wss puts a GNOME session back after a reboot. A Shell extension reports what is on screen, a
daemon keeps a snapshot of it on disk, and a restore starts the applications again and moves their
windows to where they were. This directory holds TLA+ modules of it, written from `src/`, the TLC
configurations that check them, and proofs that TLAPS checks.

    tlc -workers 2 -config daemon.cfg CaptureDaemon
    tlapm SessionRestart_proofs.tla

`PROJECT.json` lists every run with its configuration, every definition with the lines it models,
the hazards, the findings and, for each property, a mutated definition that breaks it.

## 1. The system

Four kinds of process take part; nothing is shared but files and D-Bus.

| part | source | state it keeps | operations | talks to |
|---|---|---|---|---|
| session core (in gnome-shell) | `extension/sessionCore.js`, `extension.js` | whether it is enabled, the debounce timer | enable, disable, ListWindows, GetLayout, PlaceWindow, LaunchApp, ExpectWindow, GetLaunchReport; signal WindowsChanged | daemon, over D-Bus |
| launcher (in gnome-shell) | `extension/placement.js` | a record per request, timers, handlers on new windows | launch, expect, report, attribution, placement | mutter, applications |
| monitors, window records | `extension/monitors.js`, `windowIntrospect.js` | the map from monitor index to connector | refresh, connectorFor, describe | mutter, asynchronously |
| daemon | `daemon.py`, `service.py` | the snapshot in memory, the dirty flag, the time of the last write | refresh, tick, write, Save, GetSnapshot, Status, PlanRestore, Restore | extension, store, NetworkManager |
| capture | `capture.py`, `model.py`, `diff.py` | none | capture, apply_exclusions, enrich_terminals, enrich_documents, enrich_browsers | the parts below |
| store | `storage.py` | `session.json`, `session.prev.json` | save, load | file system |
| login check | `login.py`, `cli.py` | none | decide | store, daemon |
| planning | `plan.py`, `matcher.py` | none | match_windows, build_plan | |
| execution | `restore.py`, `busclient.py` | the results, the outstanding launches | execute | extension, terminals, NetworkManager |
| browser capture | `browser.py`, `browsercorrelate.py`, `sessionfile.py`, `mozlz4.py` | none | read, correlate | Firefox's files |
| browser bridge | `bridge.py`, `native-host/`, `browser-extension/` | `report.json`, `request.json`, the add-on's port and timer | report, write_request, take_request, reconcile | three processes, through files |
| browser restore | `browserrestore.py` | none | plan_browser_restore | bridge |
| VPN | `vpn.py` | a cached list of connections | active_vpns, plan_vpn, activate | NetworkManager |
| terminals, policy | `terminals.py`, `procwalk.py`, `policy.py`, `redaction.py`, `terminalcmd.py` | none | read_tree, tabs_of, redact, decide, terminal_argv | /proc, terminal emulators |
| documents | `documents.py`, `recentfiles.py` | none | documents_for | /proc, recently-used lists |
| configuration | `config.py` | read once at start | load_config | |
| command line, review | `cli.py`, `review.py` | the plan under review | commands | daemon |

What is hard in it:

* a capture is two calls and a file write, in a process that gets signals meanwhile, with failures
  and restarts on either side;
* the snapshot has to survive exactly the moment nobody tests, and be the right one when the next
  boot asks for it, while the new session is being captured over it;
* windows have no identity: which window answers which request, and which window of a snapshot is
  which window on screen, are guesses made under races;
* a restore is a long conversation of many calls, any of which may fail, with two independent
  timeouts, and it may be repeated while it is still having effects;
* what is written down of terminals, monitors and VPNs is read bit by bit from things that change
  meanwhile, and is acted upon after a reboot, when nobody can ask any more;
* the browser is asked through a file, by a process that may not be there, to open what it may be
  opening by itself at that moment;
* a plan is agreed to by index and made again, from what is then on disk and open, before it is
  carried out.

What makes each part correct, in short: the store never loses what it acknowledged; the daemon never
forgets a change it was told of and gets it to disk in bounded time; a lost session is offered and
is the one that is restored; a request is answered with its own window, once, and reported as what
happened; a matching is one to one and best first; a restore repeated is a no-op; what is launched
is what was listed and ticked. Nothing excluded is recorded; a command is run again only if that
very command was run there and may be run; a document is opened unasked only if the application was
started with it; a window comes back on its monitor; tabs go to the window they were in or to none;
a browser window is not opened twice; a VPN that is up is left alone.

## 2. The modules

| module | models | composed of |
|---|---|---|
| `DurableSnapshot` | what the store promises: a register with acknowledged saves | |
| `SnapshotStore` | `storage.py`, by system calls | implements `DurableSnapshot` |
| `CaptureDaemon` | `sessionCore.js` and the capture loop of `daemon.py` | |
| `SessionRestart` | reboots, log-outs, the login check, PlanRestore as far as the files matter | extends `CaptureDaemon` |
| `Launcher` | `placement.js` | |
| `RestoreRun` | `restore.py: execute()` with failing calls, applications and the user | extends `Launcher` |
| `WindowMatching` | `matcher.py` | |
| `RepeatedRestore` | PlanRestore, the review and Restore on the matching, one restore after another | extends `WindowMatching` |
| `TerminalTabs` | `procwalk.py`, `terminals.py`, `redaction.py`, `policy.py`, `terminalcmd.py` against running processes | |
| `Documents` | `documents.py`, `recentfiles.py`, as functions | |
| `MonitorMap` | `monitors.js` against replugging | |
| `VpnConnections` | `vpn.py` and its callers against NetworkManager | |
| `TabCorrelation` | `browsercorrelate.py` | |
| `Selection` | sorting, and list comprehensions with a condition, as functions that proofs can use | |
| `SnapshotContent` | `capture.py`, `daemon.py: refresh()`, and after a reboot `plan.py: build_plan()` | extends the five modules above |
| `BrowserBridge` | `background.js`, the native host, `bridge.py`, `browserrestore.py`, `restore.py: _ask_the_browser()` | |

`MC*` modules give values to constants where a `.cfg` cannot; `*_proofs` modules hold the theorems.
Definitions whose comment begins with "Mutant:" are altered forms of the definition that follows,
with a plausible bug; nothing uses them but the mutation of the runs.

**SnapshotStore.** A file's content is the number of the save it holds. Each file has a `view` (what
a process reads) and a `durable` side (what is there after a power-off); a power-off keeps either,
and only what was fsynced is whole. `spoiled` says that the unreadable text of a damaged current
file was put over the previous one and no save has returned since. `BeginSave`, `WriteTemp`,
`SyncTemp`, `Rename`, `SyncDirectoryAfterCopy` and `SyncDirectoryAndReturn` are the steps of
`save()`, run twice: for the rotation and for the snapshot. `FailSave` is the except clause,
`ReadCurrent` and `ReadPrevious` are the rounds of `load()`, by any number of processes.
`KillDaemon`, `PowerOff` and `Damage` are the environment.

**CaptureDaemon.** `Change` re-arms the extension's timer, `DebounceFires` sends the signal,
`DeliverSignal` sets `_pending`. `tick()` is `TickIdle` or `TickCapture`; a capture reads the
windows (`StartCapture`) and the layout (`ReadLayout`) in two steps, between which the desktop may
change; what is done with it depends on `caller`, the handler the daemon is in. As in the code, the
daemon serves one handler at a time, so that signals and ticks wait. `CaptureFails` and `WriteFails`
are the exceptions, with what becomes of the handler: GLib drops a timer whose callback raised
(`timer`). `StartDaemon`, `Quit` (SIGTERM, with its last tick) and `Kill` restart it.

**SessionRestart** adds the boot id. The daemon (a systemd unit) and the login check (an autostart
entry) start in no order, as in the unit and the desktop file. `LoginCheck` is `decide()` on what is
then on disk; `BuildRestorePlan` loads the files on its own, whoever asked. At a log-out the daemon
stops with the graphical session it is part of, so a new session of the same boot (`LogOutAndIn`)
begins with it stopped.

**Launcher.** `Expect` and `Launch` make a record with a timer; `Notify` is each of the three
signals a new window may be looked at for and `Backstop` the timeout after them; each runs
`TryMatch`, which gives the window to the oldest waiting record of its application and starts a
placement (`PlaceWhenReady`) that waits for the first buffer. `Disable` forgets the records and the
ids, but not the placement timers, as `destroy()` does. `claims` and `moved` are history.

**RestoreRun.** `execute()` goes through the plan: `Place`, `LaunchApp`, `ExpectWindow` and `Spawn`,
each of which may fail, or not be answered in time and still be carried out; then rounds of `Ask`
until everything is settled or the deadline has passed (`Finish`). Applications that were started
open a window at any time or never, and the user may open one of the same application.

**WindowMatching.** One step is one round of the loop of `match_windows()`: the best remaining pair
is taken (`Take`), refused (`Refuse`) or passed over (`Pass`). A title is known by how often each
character occurs in it, which is all the similarity looks at, its length, and a number that tells
titles of the same characters apart. Scores are per cent rounded down where the code has floats.

**RepeatedRestore.** `stored` is what session.json says; the daemon may write it anew
(`WriteSnapshot`) between any two calls. `PlanRestore` and, once more, `Restore` load it and list
the open windows, in any stacking order (`StartPlan`); `Match` is the matching and `PlannedActions`
the sorted list that indices refer to. In between the user looks at the plan (`ShowPlan`) and says
yes to all of it on the command line (`SayYes`), or, once the review's own window is there
(`PresentReview`), to the switches that are on (`ClickRestore`). `Launch` starts what was chosen and
has no match; its windows come at any time or never. Windows are opened, closed and take on other
titles. `listed`, `agreed`, `launched` and `changed` are history, as are two marks: a launch is
`awaited` until the next restore or the next session.json, and a window that came while it was is
`restored` as long as it keeps its title. `MCRepeatedRestore` also starts from *scenes*, pairs of
lists of windows from which only the matching goes on.

**SnapshotContent.** `at` walks through `refresh()`: `ListWindows`, `Capture` (the layout,
`capture()` and the exclusions of applications), one terminal after the other (`BeginTree`,
`ReadProcess`, `AttachTerminal`), `EnrichDocuments`, `NoCorrelation` or `BeginCorrelation`,
`Correlate` and `AttachTabs`, `Record` with the VPNs; then again (`CaptureAgain`) or, after
`Reboot`, `BuildPlan`, `AskWhatIsUp`, `PlanConnections` and `Connect`. A *scene* is the session it
starts from. Between the steps processes run, monitors are replugged and VPNs come and go
(`SomeProcess`, `SomeMonitor`, `SomeConnection`), each in the phases in which somebody reads them.
`SceneAssumption` and `ReportAssumption` say what any scene is: of the types the extension, the
kernel, the add-on and NetworkManager report, with processes as job control has them
(`AreProcesses`). No window is open after the reboot, so `build_plan()` only launches:
`RepeatedRestore` has the rest of it.

**TerminalTabs.** The reader's state is `todo`, the files still to be read, and `tree`, the
processes read so far, in depth-first order; each of `stat`, `cmdline`, `cwd` and `children` is a
step. Processes fork, change group, exec, change directory, end, and are moved to the foreground, as
a kernel and a shell do it: a group is of one terminal, and a job leaves the group of its shell
before it does anything else, so that no child of it is left behind there (`NewGroup`). Without
that, a process that was never in the foreground could be in the group of one that was.
`ForegroundJob`, `Redact`, `Runs`, `TabPlans` and `TerminalArguments` are what the code makes of the
tree, up to the words on the emulator's command line. An argument is known by how `redact()`
classifies it.

**Selection** has what `sorted()` and a comprehension return, by where each entry comes from; TLC
compares it with the operators of the community modules (`SelectionAssumption`), which are recursive
and cannot be reasoned about here. **Documents** has one operator per source, `DocumentsFor` and
`WindowDocuments` with its limit and its fallback, and what `build_plan()` makes of confidences.
**MonitorMap** has the map, the calls not yet answered and the monitors that are there; `Answer` may
be an error, which leaves the map as it is or, if it is raised while the map is being filled, with
the first monitors only, and, unless it is the last one, of any layout. **VpnConnections** counts
the age of the cache and of each connection in steps of `VPN_POLL_SECONDS`; what is up
(`ReadActive`) and what is known at all (`PlanVpns`) are asked one after the other, and every answer
of NetworkManager may lack something, because the code takes an error for "not there".

**TabCorrelation.** One step is one round of the loop of `correlate()`: `PassOver`, `Withhold`,
`Give`; then `GiveTheOnlyOne`. How alike titles and sizes are is a constant, so that nothing depends
on the similarity.

**BrowserBridge.** A window is the set of its pages. The add-on posts a report (`Post`) or works on
a request: `Deliver` looks at what is open, then `LeaveAlone` and `CreateWindow` take one saved
window each, with everything else going on in between. `CreateWindow` is one step although the code
awaits `windows.create`, pins tabs and then adds the window to what it compares with: only the same
`reconcile()` reads that list, and it does so after all of it. A refused create or a refused
`tabs.update` is `CreateFails`. Several requests may be worked on at a time
(`tasks`). A host reads `request.json` and removes it in two steps (`ReadRequest`, `RemoveRequest`),
as `take_request()` does. The daemon plans from the report or the session file (`BuildPlan`), writes
a request (`AskBrowser`) and waits (`SeesTaken`, `GivesUp`). Firefox starts every host the add-on
connects to, brings back windows of its own, quits; hosts die; reports age.

## 3. The runs

Runs that must pass:

| run | bounds | what it shows |
|---|---|---|
| `store` | 4 saves, 2 failing system calls, 2 kills or power-offs, 1 damaged file of any kind, two loaders | `NeverTorn`, `AckedIsDurable`, `OneGenerationBack`, `LoadIsFresh`, `NeverBackwards`, `SpareCoversDamage`; `RefinesRegister`: the files implement the durable register |
| `daemon` | 2 desktops, write interval 2, 2 faults of every kind, paused or not, a desktop that pauses every other tick, fairness | `NoLostChange`, `QuitSaves`, `ReportedIsRecent` (what was signalled is on disk within the interval, or the longest burst and one tick more), `SettledIsSaved` (a desktop left alone ends up on disk) |
| `session_restart` | 2 boots, 2 desktops, 1 fault | `PreviousBootSpared`, `OfferIsOfLastBoot` |
| `restore_attribution` | a move, a launch, a terminal; 2 new windows, one of the user's; 1 failure | `DoneIsClaimed`, `OwnWindowClaimed` |
| `restore_outage` | two requests for one application or for two, 2 windows, the extension disabled once, fairness | `EveryActionOnce`, `RightApplication`, `OldestFirst`, `RestoreEnds` |
| `again_noop` | 2 restores, by way of the command line or the review; 1 or 2 saved windows on two workspaces; any switches on; one event (session.json is written, the user opens a window, a window is retitled), windows closed, late and restacked at will; two of the titles are exact matches and differ in length | `NeverTooMany`, `ListedIsLaunched` as long as `changed` is false |
| the scenes of `again_noop` | up to 2 saved and 3 live windows of 5 titles; 2 and 2 of two applications or none | `MatchingInv` (a stable pairing, one to one, best first), `NothingLeftSilently` |
| `browser_restore` | 2 restores, 2 pages, 2 kinds of snapshot, 2 starts of the browser, 2 hosts, 2 windows asked for, 2 events in all (a restore, a window that comes back or that the user opens or closes, something that dies or fails), fairness | `OneForOne`, `NeverDuplicated`, `DoneWasTaken`, `AskedIsOpened` |
| `capture_content` | the scenes of `MCSnapshotContent`: a terminal with up to four processes and 2 events, two windows on two monitors with 3 events, every kind of window that is left out, one window with every combination of sources of documents, up to two browser windows with up to two reported ones and three of one title with up to three in the session file, two VPNs with 5 events | `ExcludedStaysOut`, `JobWasForeground`, `RunsWhatRan`, `MonitorIsRight`, `PreTickedIsCertain`, `TabsFairlyGiven`, `VpnIsRecent`, `LeftAloneIfUp` |

The largest runs are `restore_attribution` (4.4 million distinct states), `restore_outage` and
`again_noop` (2 million each), `capture_content` and `browser_restore` (over a million each).

Why the bounds are enough: two generations of files need three acknowledged saves to rotate
everything out, and the fourth is the one that fails; a lost change needs one change during a
capture and one fault, a second fault while the first is being made good, and two desktops tell
"captured" from "not"; a desktop that changes in two tick periods running re-arms the debounce once,
and more often only moves the bound (`MaxBurst`). Attribution is between requests of one
application, so two requests and two windows show every order of claims, and a request of another
application every mistake across applications. A refusal needs two live candidates, and one that is
overtaken a second saved window. Indices shift with two actions and two orders, and one event can
change what a plan is made of between the two of one restore or between two restores. A second
request meets the first in the file, in a host and in the add-on, and one thing that happens meets
one request at each of its stages; of two pages one window can show what another shows and more. A
tree is read out of date by one event between two of its files, and a second one can undo what the
first did; a replug and another before the answer are two events, a third comes after it; a VPN that
changes, a poll that passes and a change back are three, and two more come around the reboot. A
rival tab set, and one to hide it, are three of each. The inductive invariants (`StoreInv`,
`LostChangeInv`, `SessionInv`, `LauncherInv`, `MatchingInv`) were checked by TLC before they were
proved, and the proofs take the bounds away.

Runs that must find a violation, each of a statement of the repository that the code does not keep:

| run | what happens |
|---|---|
| `session_login_race` | the first write of the new boot comes before the login check: no offer |
| `review_none` | Restore with every switch off sends an empty list, which means everything |
| `plan_remade` | a plan is shown, the daemon writes session.json, the user says yes: nothing is launched |
| `terminal_tabs_lost` | the second tab's `--tab` is behind the first job's `--` |

The models have the steps of more such disagreements, found while they were written. No run is kept
for these; some show when a constant of a run above is changed, as noted.

Store, daemon, session:

* `storage.py:70`: a damaged current file is rotated over the good previous one, so that a failure
  or a kill before the next rename leaves nothing that loads, against `storage.py:12-14` and
  `100-102` (what `SpareCoversDamage` exempts with `spoiled`, and nothing else). A current file
  that is JSON of another shape makes `load()` raise instead of falling back (`Escapes`), and one
  that is not UTF-8 makes every `save()` raise (`RefuseSave`), against the same lines.
* `daemon.py:362`: one exception in `tick()` ends the GLib timer: nothing is written until a Save or
  a restart, against `daemon.py:161`.
* `sessionCore.js:214`: a desktop that never pauses for the debounce is never reported (a `MaxBurst`
  above `MaxAge`), and a change in flight while the daemon restarts waits for the next one (what
  `missed` exempts), against "at most `max_interval` seconds stale" (`daemon.py:7-8`).
* `daemon.py:186`: Save writes while paused, and without the extension it writes a snapshot that was
  never captured (`HandleSave` without `CanRefresh`), against `daemon.py:99` and
  `limitations.md:150-151`.
* `daemon.py:199`: after this boot's first write, the plan is made from the running session and not
  from the lost one, against `daemon.py:195-197`. `session_login_race` is the same write.

Plan and restore:

* `daemon.py:237`: Restore applies the indices to a plan it makes anew. If the daemon has written
  session.json in between, the windows that were to be launched are no longer in it (`plan_remade`);
  if it did so with other titles or workspaces, or if a window came, went or was retitled, the
  indices mean other windows (`ListedIsLaunched` without `changed`), all against
  `protocol.py:67-69`. The review's own window does no harm unless a saved window looks like it.
  Restacking can be enough. Two
  open windows may both be exact matches of one saved window, with titles that have the same shares
  of characters but not the same length (`aab` and `aabaab`); which of them is taken depends on the
  stacking, and if only the shorter is a placeholder of the second saved window (`matcher.py:47`,
  `aaaaaaabbbb`), that window is placed in one plan and launched in the next. That is against
  `matcher.py:172-173`, "either choice is equally right"; `MCRepeatedRestore` shows it with titles
  of `ScaledTitle` in all places and `MaxEvents = 2`. Without such titles, and if
  saved windows have application ids, restacking changes nothing (`ListedIsLaunchedAlways`).
* `restore.py:135`: one launch report that is not answered ends the restore without any result
  (`AskFails`), against `restore.py:103`.
* `placement.js:301`: a window that announces itself again can be the answer to a second request,
  against `placement.js:155`; and a window the user opens is taken for the launch that waits
  (`placement.js:307`), against `restore.py:7-8`.
* `placement.js:148`: a placement whose size the client has yet to acknowledge is reported as
  refused.
* `placement.js:165`: launch ids start again after disable and enable, so that a launch is reported
  with the outcome of another (what `DoneIsClaimed` exempts with `outages`).
* `matcher.py:174`: titles of the same characters count as identical and are never refused, and a
  refused window may be matched with a worse candidate later on, against `matcher.py:172-173` and
  `13-14`.
* `plan.py:272`: a repeated restore opens a window a second time if it is under way still (a
  restore waits 20 s, a cold start takes 24 to 30 s by `placement.js:22-24`), came under another
  title or has changed its title. `NeverTooMany` counts the windows that a restore can know again
  (`restored`); without that mark, of all windows a restore opened, it fails. A window whose match
  was refused is launched even with `--yes` (`plan.py:132`, `257-258`).
* `review.py:83`: the review window looks for browser actions of kind "open" where the daemon sends
  "tabs", and its `restore_tabs` is passed on to nobody.

Capture:

* `terminals.py:120`: "the shallowest process" of a job is the first in depth-first order; a tab's
  directory is the job's (`terminals.py:150` says the shell's). Two windows of one terminal server
  each get the tabs of both, which `limitations.md:89-90` says; two windows of one process each get
  all its documents. Empty arguments are dropped (`procwalk.py:127`).
* `documents.py:181`: an argument that is a `file://` URI is taken without the tests a path has to
  pass. The name of an excluded document can still be recorded from a title, which is why
  `ExcludedStaysOut` exempts it.
* `browsercorrelate.py:130`: the rivals of a pair are the other tab sets of the window only, not the
  other windows of the tab set, against its comment at `17-20`.
* `monitors.js:9-10` says that the lookup is synchronous. Right after login the map is empty, and a
  plan made then keeps a window on a monitor that may not be there (what `PreTickedIsCertain`
  exempts).

Browser and VPN:

* `daemon.py:210`: a report or session file of a browser that has been closed since is taken for its
  windows, against "computed against the live browser" (`daemon.py:216`).
* `background.js:119`: a second saved window of the same pages is asked for by the plan and skipped
  by the add-on; two requests worked on at a time open both of their windows (what `NeverDuplicated`
  exempts with `before`).
* `restore-wss-firefox-host.py:132`: a request written between the read and the unlink is removed
  unread and is reported as done (`crossed`). One that was not taken stays, and is carried out
  whenever a host comes to it.
* `browserrestore.py:113`: windows are consumed in the order of the report, so that of {p}, {p, q}
  against open {p, q}, {p} the second is asked for although both are open.
* `vpn.py`: an error of NetworkManager is taken for "no VPN" or "no longer has this connection"
  (`misread`, `planMisread`); a VPN is "reconnected" when `ActivateConnection` has returned.

Deadlock is not checked where the bounds stop the system (no more saves, faults or windows are
allowed) or where it may stop by itself: a restore or a matching that is over.

**Fairness.** Three runs need it. `daemon`: timers fire, D-Bus delivers, calls return or time out
(`busclient.py` gives each a timeout), and the GLib main loop serves every ready source, so that a
source is served even if others are ready again and again, hence strong fairness for the daemon's
sources. Nothing is assumed of the desktop, of clients, or of the daemon being restarted:
`SettledIsSaved` supposes a desktop left alone and a healthy daemon. `restore_outage`: `execute()`
runs in one thread, its calls return or time out, and its deadline passes. Applications, the user
and the extension may do nothing for ever. `browser_restore`: a native host polls once a second
whatever else happens (`select` with a timeout), and the add-on goes on with a `reconcile()` it has
begun; nothing is assumed of the user, the browser's own session restore, or the daemon.
`AskedIsOpened` supposes that nothing dies or is closed meanwhile and no other restore begins.

## 4. The proofs

All theorems hold for every value of the constants that the named assumptions of the modules allow;
these say no more than that sentinels are distinct, bounds are numbers, and the characters that
`title_similarity()` counts (`ALPHABET`) finitely many. One theorem, `ListedIsLaunchedAlways`, has a
hypothesis of its own, which is discussed with it.

* **SnapshotStore_proofs.** `StoreInv` is inductive together with `TypeOK`: it says, at each stage
  of a save, what the temp file, the two names and their durable sides can hold. `AckedIsDurable`
  alone is not inductive: between the rename of the copy and the fsync of the directory the previous
  file may fall back, and it has to be known that the current one is then still the older
  acknowledged save. `NeverTorn`, `OneGenerationBack` and `LoadIsFresh` follow. `NeverBackwards`
  holds of damaged files too and rests on another invariant, `SavesNewer`: the snapshot being saved
  is newer than any on disk. `ImplementsRegister` takes initial states to initial states and every
  step to a step of the register or a stutter; a damaged file is a step after which the register
  promises nothing. `SpareCoversDamage` holds in the middle of saves and after failures, kills and
  power-offs. A damage finds the other file whole (`DamageIsCovered`, from `StoreInv`); after it,
  the current file covers the previous one until it is damaged itself, and the previous one covers
  the current one until the damage is copied over it, which is `spoiled`, or a save returns
  (`SpareInv`, `SpareKept`). It needs that a temp file is renamed only when its bytes are on the
  device (`NoTornFile`), and the files at rest and those a save leaves behind kept apart:
  `ShownOnceRenamed` and `DurableOlder` say what each can hold while it fails or is killed.
* **SessionRestart_proofs.** `NoLostChange` speaks of the main loop only; `LostChangeInv` says for
  every point of a handler who still knows of a change, and that a capture in progress is either
  true or contradicted by a signal under way. `QuitSaves` is an action property from the same
  invariant. `ReportedIsRecent` needs a bound on the age at every point a change can wait at:
  signal, debounce, capture, memory (`RecentInv`). The proof corrected the model. The age used to be
  counted from the last whole capture, of which three desktops and two torn captures show that it
  has no bound; what `session.json` says is now as old as the oldest of its parts, and the bound is
  tight. Across reboots, `SessionInv` says of which boot memory and both files are; the steps of the
  daemon are treated once, in a lemma, and reboots and logins after it.
* **Launcher_proofs.** `LauncherInv` orders the claims of an application by their requests;
  `OldestFirst` is one of its parts.
* **RestoreRun_proofs.** `RestoreUsesLauncher` shows that every step of the restore is a step of the
  launcher or leaves it alone, by which `OldestFirst` carries over. `RightApplication` needs that a
  placement timer keeps the application of its record even when the record is gone.
  `OwnWindowClaimed` rests on `Ownership`: who has made which request once, which window came of
  which, and that an unmistakable request is given no window but its own (`OwnWindowOnly`) and that
  one as soon as the Shell knows it (`KnownIsServed`). `DoneIsClaimed` needs that every id that is
  out is that of the record of its action (`IdsServe`), which is why it is about restores without an
  outage. `EveryActionOnce` counts: the lemmas on `Of` say what appending, taking the head and
  concatenating do to the number of entries of an action.
* **RepeatedRestore_proofs.** For the matching alone nothing is used of the scores but that they are
  a function, so its results hold for any similarity and any threshold. `Stable` needs `BestFirst`:
  whatever was taken comes before whatever is still to come. For the types of the restores, the
  order of `plan.actions.sort()` is shown to be total on the actions (`ActionsAreOrdered`), so that
  the plan lists each of them (`PlanIsList`). `NeverTooMany` is not inductive: it has to be known
  for whom the windows stand. `Accounted` says of each application that every window a restore
  opened has a saved window of its own, not being launched for that application, to which it would
  be an exact match. A restore may have to choose them anew: if a saved window finds no match, each
  open window that would be an exact match to it is another's exact match (`ExactAreMatched`), as
  exact matches come first and are never refused, so that one can be handed on and the saved window
  launched (`LaunchIsAccounted`). When session.json is written anew, the open windows stand for
  themselves. Being an exact match is an equivalence among windows of one application: it means the
  same shares of every character (`SumOfNaturals`, `SameShares`). There is no hypothesis: titles,
  missing application ids, slow starts and the user are as they may be, and what `restored` leaves
  out is said in section 3, `plan.py:272`.

  `ListedIsLaunched` compares two runs of `match_windows()` on one desktop stacked in two ways, so
  the loop is first replaced by what it computes. `MatchingIsDetermined`: at the end of every
  matching its pairs are the *outcome* of the scores (`IsOutcome`), which is a condition on a set of
  pairs that mentions no order of steps: a pair is in it if and only if it is due, that is, if it
  looks alike, no earlier pair has one of its windows, and unless its score is exact every rival
  went to an earlier pair. `Decided` is the invariant of the loop for that. Next, the outcomes of
  two stackings are compared (`OutcomesAlike`): the pairs fall into turns, one for each score and
  saved window, within which only the stacking decides; by induction over the turns (`OneTurnMore`)
  the same saved windows are matched with the same scores, and for every live window that one
  outcome has used up, the other has used up one that looks the same to all saved windows. Choices
  arise between exact matches alone, since with any other score a second candidate as good is a
  rival and both are refused; so it must make no difference which of two exact matches of one saved
  window is gone. It makes none (`KinScoreAlike`): exact matches have the same shares of every
  character, so they are as like any third title (`IdenticalAreAsLike`, by `SumsScale`), and by the
  hypothesis `Recognised` both or neither are its placeholder. Then the two plans read alike, line
  by line: the same saved window, placed or launched (`PlansReadAlike`, by `SortedAlike`). The
  review's own window comes between the two plans; a window that no saved window can be taken for
  changes no outcome and no plan (`StrangerIsIgnored`), wherever it is stacked (`RestackedLonger`).
  `ShownInv` carries this from the plan that is shown, through any number of restackings, to the
  plan that is carried out (`LaunchedIsListed`). `Recognised` says that titles with the same shares
  of characters are placeholders of the same titles, and that all windows have application ids
  (without one, a window matches by its class, and an exact match need not be one to all the
  others). The titles of `again_noop` satisfy it, though exact matches among them have different
  lengths; those of `ScaledTitle` do not, and with them the property fails (section 3,
  `daemon.py:237`).
* **SnapshotContent_proofs** proves every property of `capture_content`, for scenes of any size and
  any number of events between two steps. Each part has an inductive invariant.
  * *Terminals* (`TerminalInv`): the shell's foreground group and the group of a process are read
    from different files, between which both change, so that a member of that group need not have
    been in the foreground itself: it may have been forked after the group had gone to the
    background. But then its parent is of the group too, or has ended (`JobsOfTabs`); a parent is
    read before its children (`DepthFirst`, `ParentIsRead`, `ChildComesLater`); so the first member
    that is read was in the foreground (`FirstWasForeground`), and that one is the job.
    `RunsWhatRan` needs besides that redaction leaves nothing whole that it found wanting.
  * *VPN* (`VpnInv`): what the cache says of a connection was so no longer ago than its age
    (`CacheIsOfThen`), from which `VpnIsRecent`; what is to be activated was down when the daemon
    asked what is up, or has come up since (`PlannedWasDown`), from which `LeftAloneIfUp`.
  * *Tabs* (`CorrelationInv`): nothing is used of the likeness of titles but that it is per cent.
    `NoCoinToss` needs that a strongest rival exists (`StrongestExists`, from the well-foundedness
    of the numbers), and `WithheldForReason` that pairs come before what is still undecided
    (`GivenInOrder`).
  * *Windows* (`ContentInv`): the map of a monitor is right if no answer is out (`MapIsRight`), so
    what was listed is (`ListedIsRight`), so `MonitorIsRight`; what a terminal, a document or a tab
    set is recorded with has passed the filter of the step that records it, of `apply_exclusions()`
    or of `_filter_urls()` (`BlocksAllowed`), so `ExcludedStaysOut`; a document told by the command
    line alone is on it (`CommandLinesTold`).
  * *Plan* (`PlanInv`): a launch has the documents, the confidence and the monitor that
    `build_plan()` computes from its window (`PlanIsOfContent`), so `PreTickedIsCertain`.
* **Selection_proofs** has the lemmas on lists and folds the others share: a rank is a place,
  `InOrder` is a bijection onto the set and rises, sets in corresponding orders have corresponding
  lists (`SortedAlike`), an entry at some places is one of them; taking an
  entry out of a list leaves one less of its kind (`OneLessOfKind`); a fold over the subsets of a
  finite set exists (`FoldExists`), by which operators of the community modules that are defined by
  one can be unfolded. Induction is by the least number, which is proved to exist (`LeastNatural`,
  `CountingUp`).
* **BrowserBridge_proofs.** `NeverDuplicated` follows from `TasksKnow`: every window that was there
  when `reconcile()` looked, or that it made, is closed or is in the set it compares with. It holds
  for any number of hosts, requests and calls in flight. `DoneWasTaken` needs to know, while the
  daemon waits, that a host which is about to remove a request has read the daemon's, or the two
  crossed (`DoneInv`). `OneForOne` is about a fold: `PlanRounds` unfolds it into a sequence of
  plans, one after each saved window, and `FairRound` shows that a round which calls a window open
  takes a live one that shows at least its pages, so that, for any pages, the windows called open
  and the live ones left that show them never add up to more than there were (`Fair`). It needs the
  types (`BrowserTypes`).

Only model-checked: the liveness properties (`SettledIsSaved`, `RestoreEnds`, `AskedIsOpened`),
which are out of the prover's reach, and that `Selection` agrees with the recursive operators of the
community modules (`SelectionAssumption`). Every invariant and every other property that a passing
run checks is a theorem.

## 5. What is not modelled

* Geometry, stacking and window states, which are carried from the extension to the disk and back
  unread; creating workspaces and the final switch to one.
* Decoding and text: JSON and `/proc` syntax, mozlz4, XBEL, titles, the patterns of redaction,
  native-messaging frames, how alike two titles are to the browser correlation. What depends on the
  outcome takes it as a constant or as a class of values.
* Pinned tabs and the active tab of a browser window; a malformed report or request.
* Printing, argument parsing, the widgets, `diff.py`, Status; `install.sh`, the tools and CI; the
  interface descriptions.
* `browser_store` and `redact_options` of the configuration are parsed and used nowhere.
  `capture.paused` and all else of the configuration is read when the daemon starts.
* The composition of everything: the parts meet in the snapshot, and each of the modules takes it as
  the others leave it.

## 6. What is left

In this order:

1. `RestoreCall`: Restore as a D-Bus call with a timeout of five seconds, repeated while the daemon
   is still in `execute()`, which serves nothing else meanwhile; `RepeatedRestore` and `RestoreRun`
   below it.
2. Two writers of reports: hosts that store an older report after a newer one.
