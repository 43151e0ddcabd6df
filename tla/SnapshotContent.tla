-------------------------- MODULE SnapshotContent --------------------------
(***************************************************************************)
(* What a snapshot has in it and what is made of it after a reboot: the    *)
(* steps of refresh() in src/restore_wss/daemon.py, from the lists of the  *)
(* extension through capture.py, and build_restore_plan() with build_plan()*)
(* of plan.py for windows none of which is open.  (WindowMatching has the  *)
(* windows that are open, SnapshotStore the file, CaptureDaemon the times, *)
(* BrowserBridge what is made of tabs.)                                    *)
(*                                                                         *)
(* A scene is a session: its windows, what runs in its terminals, what its *)
(* browser reports, its monitors and its VPNs.  What goes on in it while a *)
(* snapshot is taken is TerminalTabs', MonitorMap's and VpnConnections'.   *)
(***************************************************************************)
EXTENDS TerminalTabs, TabCorrelation, Documents, MonitorMap, VpnConnections

CONSTANTS
  App, NoApp, Synthetic,       \* app_id; "window:..." stands for none
  Class, NoClass,              \* wm_class
  TerminalClass, BrowserClass, \* the classes that are terminals and browsers
  ExcludedName,                \* exclude_apps
  PrivateTitle,                \* the titles of private windows
  Url, ExcludedUrl,            \* addresses, those that match exclude_urls
  NoName,                      \* of a title no document has its name in
  BrowsersEnabled,             \* of [browsers]
  Scenes                       \* `goesOn' bounds what happens of each kind

ASSUME NameAssumption ==
  /\ {NoApp, Synthetic} \cap App = {} /\ Adapted \subseteq App
  /\ NoClass \notin Class /\ NoName \notin Document
  /\ PrivateTitle \subseteq Title /\ ExcludedUrl \subseteq Url
  /\ BrowsersEnabled \in BOOLEAN

(* A window of ListWindows, with what can be found out about its process.  *)
WindowInfo ==
  [normal : BOOLEAN, taskbar : BOOLEAN, app : App \cup {NoApp, Synthetic},
   class : Class \cup {NoClass}, pid : Nat, title : Title \cup {NoTitle},
   size : Size \cup {NoSize}, name : Document \cup {NoName},
   cmdline : Seq(CommandWord), openFiles : Seq(Document)]

(* A window of a report of the add-on, or of the session file.             *)
Tabbed == [url : Url, title : Title \cup {NoTitle}, active : BOOLEAN]
WindowReport == [tabs : Seq(Tabbed), size : Size \cup {NoSize}]

ASSUME SceneAssumption ==
  \A s \in Scenes :
    /\ s.windows \in Seq(WindowInfo) /\ s.plugged \in Layouts
    /\ s.showing \in [DOMAIN s.windows -> ConnectorsOf(s.plugged)]
    /\ s.recent \in Seq(RecentEntry) /\ s.history \in Seq(Document)
    /\ {s.reported, s.sessionFile} \subseteq Seq(WindowReport)
    /\ s.known \subseteq Connection /\ s.up \subseteq s.known
    /\ s.goesOn \in [{"processes", "monitors", "vpn"} -> Nat]
    /\ AreProcesses(s.procs, s.foreground, s.lastPid)

VARIABLES
  at,       \* where refresh() or the restore is
  scene,    \* the session
  events,   \* what has happened in it
  listing,  \* the reply to ListWindows: where each window is
  content,  \* result.snapshot
  left,     \* the terminal windows that have no block yet
  launches  \* the plan

contentVars == <<listing, content, left>>
sceneVars == <<scene, events>>
vars == <<at, sceneVars, contentVars, launches, terminalVars, tabVars, monitorVars, vpnVars>>

NoLaunch == <<>>

(* A window of the snapshot.  `browser' is <<>> without a block.           *)
Recorded(w, monitor) ==
  [of |-> w, monitor |-> monitor, tabs |-> <<>>, documents |-> <<>>, browser |-> <<>>]

WindowAt(k) == scene.windows[content[k].of]

-----------------------------------------------------------------------------
(* The lists of the extension and capture() *)

(* `on' and `sure' are for the properties only. *)
ListWindows ==
  /\ at = "idle" /\ at' = "listed"
  /\ listing' = [w \in DOMAIN scene.windows |->
       [index |-> IndexOf(w), connector |-> ConnectorFor(IndexOf(w)),
        on |-> showing[w], sure |-> unanswered = 0 /\ ~unknown]]
  /\ content' = <<>>
  /\ UNCHANGED <<sceneVars, left, launches, terminalVars, tabVars, monitorVars, vpnVars>>

IsRestorable(window) ==
  /\ window.normal
  /\ window.class # NoClass \/ window.app # NoApp
  /\ window.app # Synthetic
  /\ window.taskbar

(* excludes_app() *)
IsExcluded(window) == ExcludedName \cap {window.class, window.app} # {}

(* _monitor_connector(), the layout being read after the windows.          *)
MonitorOf(listed) ==
  IF listed.connector # NoConnector THEN listed.connector
  ELSE IF listed.index \in DOMAIN plugged THEN ConnectorFor(listed.index)
  ELSE NoConnector

IsTerminal(window) == window.class \in TerminalClass /\ window.pid # 0

(* GetLayout, capture() and apply_exclusions(). *)
Capture ==
  /\ at = "listed" /\ at' = "terminals"
  /\ LET kept == InOrder({w \in DOMAIN listing : IsRestorable(scene.windows[w])
                                                 /\ ~IsExcluded(scene.windows[w])})
     IN /\ content' = [k \in DOMAIN kept |-> Recorded(kept[k], MonitorOf(listing[kept[k]]))]
        /\ left' = {k \in DOMAIN kept : IsTerminal(scene.windows[kept[k]])}
  /\ UNCHANGED <<sceneVars, listing, launches, terminalVars, tabVars, monitorVars, vpnVars>>

-----------------------------------------------------------------------------
(* enrich_terminals() and enrich_documents() *)

BeginTree ==
  /\ at = "terminals" /\ left # {} /\ todo = <<>> /\ tree = <<>>
  /\ StartTree
  /\ UNCHANGED <<at, sceneVars, contentVars, launches, tabVars, monitorVars, vpnVars>>

ReadProcess ==
  /\ at = "terminals" /\ ReadTree
  /\ UNCHANGED <<at, sceneVars, contentVars, launches, tabVars, monitorVars, vpnVars>>

AttachTerminal ==
  /\ at = "terminals" /\ IsTreeRead
  /\ \E k \in left :
       /\ \A j \in left : k <= j
       /\ content' = [content EXCEPT ![k].tabs = TerminalBlock]
       /\ left' = left \ {k}
  /\ tree' = <<>>
  /\ UNCHANGED <<at, sceneVars, listing, launches, todo, processVars, wasForeground,
                 tabVars, monitorVars, vpnVars>>

ContextOf(window) ==
  [cmdline |-> window.cmdline, openFiles |-> window.openFiles,
   recent |-> scene.recent, history |-> scene.history]

EnrichDocuments ==
  /\ at = "terminals" /\ left = {} /\ at' = "browsers"
  /\ content' = [k \in DOMAIN content |->
       [content[k] EXCEPT !.documents =
          WindowDocuments(WindowAt(k).app, WindowAt(k).name, ContextOf(WindowAt(k)))]]
  /\ UNCHANGED <<sceneVars, listing, left, launches, terminalVars, tabVars, monitorVars,
                 vpnVars>>

-----------------------------------------------------------------------------
(* enrich_browsers() *)

IsBrowser(k) == WindowAt(k).class \in BrowserClass
LooksPrivate(k) == WindowAt(k).title \in PrivateTitle

(* Mutant: private windows are correlated like any other. *)
IsCorrelatedPrivately(k) == IsBrowser(k)

IsCorrelated(k) == IsBrowser(k) /\ ~LooksPrivate(k)

CorrelatedWindows == InOrder({k \in DOMAIN content : IsCorrelated(k)})

UnknownBlock == [tabs |-> <<>>, confidence |-> 0]

(* A fresh report goes before the session file. *)
Reports == IF scene.reported # <<>> THEN scene.reported ELSE scene.sessionFile

WithoutExcludedUrls(tabs) ==
  EntriesAt(tabs, {k \in DOMAIN tabs : tabs[k].url \notin ExcludedUrl})

(* active_title *)
ActiveTitle(tabs) ==
  LET active == EntriesAt(tabs, {k \in DOMAIN tabs : tabs[k].active}) IN
    IF active # <<>> THEN active[1].title
    ELSE IF tabs # <<>> THEN tabs[1].title
    ELSE NoTitle

(* What correlate() gets of a window that was reported. *)
AsBlock(report) ==
  LET tabs == WithoutExcludedUrls(report.tabs) IN
    [title |-> ActiveTitle(tabs), size |-> report.size,
     tabs |-> [k \in DOMAIN tabs |-> tabs[k].url]]

(* TabSet has what is left of every report. *)
ASSUME ReportAssumption ==
  \A s \in Scenes :
    /\ \A k \in DOMAIN s.reported : AsBlock(s.reported[k]) \in Block
    /\ \A k \in DOMAIN s.sessionFile : AsBlock(s.sessionFile[k]) \in Block

(* Nothing to correlate: no tabs are known of any window. *)
NoCorrelation ==
  /\ at = "browsers" /\ at' = "vpn"
  /\ ~BrowsersEnabled \/ CorrelatedWindows = <<>> \/ Reports = <<>>
  /\ content' = [k \in DOMAIN content |->
       IF BrowsersEnabled /\ IsBrowser(k)
       THEN [content[k] EXCEPT !.browser = <<UnknownBlock>>] ELSE content[k]]
  /\ UNCHANGED <<sceneVars, listing, left, launches, terminalVars, tabVars, monitorVars,
                 vpnVars>>

BeginCorrelation ==
  /\ at = "browsers" /\ at' = "correlating"
  /\ BrowsersEnabled /\ CorrelatedWindows # <<>> /\ Reports # <<>>
  /\ screen' = [i \in DOMAIN CorrelatedWindows |->
       LET window == WindowAt(CorrelatedWindows[i]) IN
         [title |-> window.title, size |-> window.size]]
  /\ blocks' = [i \in DOMAIN Reports |-> AsBlock(Reports[i])]
  /\ undecided' = TabCandidates' /\ pairs' = {}
  /\ UNCHANGED <<sceneVars, contentVars, launches, terminalVars, monitorVars, vpnVars>>

Correlate ==
  /\ at = "correlating" /\ CorrelationNext
  /\ UNCHANGED <<at, sceneVars, contentVars, launches, terminalVars, monitorVars, vpnVars>>

(* The block of a browser window, once the tabs are given. *)
GivenBlock(k) ==
  LET given == {p \in pairs : CorrelatedWindows[p.of[1]] = k} IN
    IF given = {} THEN UnknownBlock
    ELSE LET p == CHOOSE q \in given : TRUE
         IN [tabs |-> blocks[p.of[2]].tabs, confidence |-> p.confidence]

AttachTabs ==
  /\ at = "correlating" /\ undecided = {} /\ ~OnlyOneEach /\ at' = "vpn"
  /\ content' = [k \in DOMAIN content |->
       IF IsBrowser(k) THEN [content[k] EXCEPT !.browser = <<GivenBlock(k)>>]
       ELSE content[k]]
  /\ UNCHANGED <<sceneVars, listing, left, launches, terminalVars, tabVars, monitorVars,
                 vpnVars>>

-----------------------------------------------------------------------------
(* The end of refresh(), and a reboot *)

Record ==
  /\ at = "vpn" /\ at' = "saved"
  /\ RecordVpns
  /\ UNCHANGED <<sceneVars, contentVars, launches, terminalVars, tabVars, monitorVars>>

CaptureAgain ==
  /\ at = "saved" /\ at' = "idle"
  /\ UNCHANGED <<sceneVars, contentVars, launches, terminalVars, tabVars, monitorVars,
                 vpnVars>>

(* What was plugged in may not be any more. *)
Reboot ==
  /\ at = "saved" /\ at' = "booted"
  /\ plugged' \in IF scene.goesOn["monitors"] > 0 THEN Layouts ELSE {plugged}
  /\ showing' = [w \in DOMAIN showing |-> plugged'[1]]
  /\ EnableMonitors
  /\ StartVpns
  /\ UNCHANGED <<sceneVars, contentVars, launches, terminalVars, tabVars>>

-----------------------------------------------------------------------------
(* build_restore_plan() *)

(* resolve(): no connectors are known, or the one of the window is there.  *)
KeepsMonitor(monitor) ==
  monitor = NoConnector \/ ToldConnectors = {} \/ monitor \in ToldConnectors

Elsewhere == 60
Certain == 100

LaunchOf(k) ==
  LET window == content[k] IN
    [of |-> window.of,
     monitor |-> IF KeepsMonitor(window.monitor) THEN window.monitor ELSE NoConnector,
     uris |-> Openable(window.documents),
     confidence |-> WeakestOf(window.documents,
                      IF KeepsMonitor(window.monitor) THEN Certain ELSE Elsewhere),
     tabs |-> TabPlans(window.tabs)]

(* What has no application id is skipped. *)
BuildPlan ==
  /\ at = "booted" /\ at' = "planning"
  /\ LET launchable == InOrder({k \in DOMAIN content : WindowAt(k).app # NoApp})
     IN launches' = [i \in DOMAIN launchable |-> LaunchOf(launchable[i])]
  /\ UNCHANGED <<sceneVars, contentVars, terminalVars, tabVars, monitorVars, vpnVars>>

AskWhatIsUp ==
  /\ at = "planning" /\ at' = "asking"
  /\ ReadActive
  /\ UNCHANGED <<sceneVars, contentVars, launches, terminalVars, tabVars, monitorVars>>

PlanConnections ==
  /\ at = "asking" /\ at' = "planned"
  /\ PlanVpns
  /\ UNCHANGED <<sceneVars, contentVars, launches, terminalVars, tabVars, monitorVars>>

(* The end of execute(). *)
Connect ==
  /\ at = "planned"
  /\ \E c \in Connection : Activate(c)
  /\ UNCHANGED <<at, sceneVars, contentVars, launches, terminalVars, tabVars, monitorVars>>

-----------------------------------------------------------------------------
(* What goes on.  The processes matter while they are read, the monitors   *)
(* until the layout is, the connections in between.                        *)

Happening(kind, phases) ==
  /\ at \in phases /\ events < scene.goesOn[kind]
  /\ events' = events + 1
  /\ UNCHANGED <<at, scene, contentVars, launches, tabVars>>

SomeProcess ==
  /\ Happening("processes", {"terminals"}) /\ todo # <<>>
  /\ TerminalEvent
  /\ UNCHANGED <<monitorVars, vpnVars>>

SomeMonitor ==
  /\ Happening("monitors", {"idle", "listed", "booted"})
  /\ Replug
  /\ UNCHANGED <<terminalVars, vpnVars>>

SomeConnection ==
  /\ Happening("vpn", {"idle", "booted", "asking", "planned"})
  /\ VpnEvent
  /\ UNCHANGED <<terminalVars, monitorVars>>

MonitorsAnswer ==
  /\ at \in {"idle", "listed", "booted"}
  /\ Answer
  /\ UNCHANGED <<at, sceneVars, contentVars, launches, terminalVars, tabVars, vpnVars>>

-----------------------------------------------------------------------------
Init ==
  /\ at = "idle" /\ scene \in Scenes /\ events = 0
  /\ listing = <<>> /\ content = <<>> /\ left = {} /\ launches = NoLaunch
  /\ procs = scene.procs /\ foreground = scene.foreground
  /\ lastPid = scene.lastPid
  /\ todo = <<>> /\ tree = <<>> /\ wasForeground = {}
  /\ StartCorrelation(<<>>, <<>>)
  /\ plugged = scene.plugged /\ showing = scene.showing
  /\ byIndex = <<>> /\ unanswered = 1 /\ unknown = FALSE
  /\ known = scene.known /\ up = scene.up
  /\ cache = {} /\ sinceChecked = NeverChecked /\ misread = FALSE
  /\ recorded = {} /\ wasUp = {} /\ vpnPlan = <<>> /\ planMisread = FALSE /\ cameUp = {}
  /\ sinceUp = [c \in Connection |-> IF c \in up THEN 0 ELSE LongAgo]
  /\ sinceDown = [c \in Connection |-> IF c \in up THEN LongAgo ELSE 0]

Next ==
  \/ ListWindows \/ Capture
  \/ BeginTree \/ ReadProcess \/ AttachTerminal
  \/ EnrichDocuments
  \/ NoCorrelation \/ BeginCorrelation \/ Correlate \/ AttachTabs
  \/ Record \/ CaptureAgain \/ Reboot
  \/ BuildPlan \/ AskWhatIsUp \/ PlanConnections \/ Connect
  \/ SomeProcess \/ SomeMonitor \/ SomeConnection \/ MonitorsAnswer

Spec == Init /\ [][Next]_vars

-----------------------------------------------------------------------------
(* Properties *)

ContentTypeOK ==
  /\ TerminalTypeOK /\ TabsTypeOK /\ VpnTypeOK
  /\ at \in {"idle", "listed", "terminals", "browsers", "correlating", "vpn", "saved",
             "booted", "planning", "asking", "planned"}
  /\ events \in Nat
  /\ DOMAIN listing \subseteq DOMAIN scene.windows
  /\ left \subseteq DOMAIN content
  /\ \A k \in DOMAIN content :
       /\ content[k].of \in DOMAIN scene.windows
       /\ content[k].monitor \in Connector \cup {NoConnector}
       /\ content[k].tabs \in Seq(Tab) /\ content[k].documents \in Seq(Found)
       /\ Len(content[k].browser) <= 1
  /\ \A k \in DOMAIN launches : launches[k].confidence \in 0 .. 100

(* What the user asked never to record is in no snapshot: no window of an  *)
(* excluded application, no excluded directory, document or address, and   *)
(* no tabs of a private window (capture.py:150-151, 193, 258, 308, 344).   *)
ExcludedStaysOut ==
  \A k \in DOMAIN content :
    /\ ~IsExcluded(WindowAt(k))
    /\ \A i \in DOMAIN content[k].tabs :
         content[k].tabs[i].cwd \notin ExcludedPlace
    /\ \A i \in DOMAIN content[k].documents :
         content[k].documents[i].source # "title"
           => content[k].documents[i].of \notin ExcludedDocument
    /\ \A i \in DOMAIN content[k].browser :
         /\ LooksPrivate(k) => content[k].browser[i].tabs = <<>>
         /\ \A j \in DOMAIN content[k].browser[i].tabs :
              content[k].browser[i].tabs[j] \notin ExcludedUrl

(* A window is recorded on the monitor it was on when it was listed, if    *)
(* the extension knew by then what is plugged in where (monitors.js:77).   *)
MonitorIsRight ==
  \A k \in DOMAIN content :
    listing[content[k].of].sure => content[k].monitor = listing[content[k].of].on

(* Launches that are ticked to begin with (review.py:17-19) are certain:   *)
(* they open nothing but what was on the application's command line, and   *)
(* come back on the very monitor they were on, which is there, unless the  *)
(* extension knew of none.                                                 *)
PreTickedIsCertain ==
  at = "planned" =>
    \A k \in DOMAIN launches, j \in DOMAIN content :
      launches[k].confidence >= 90 /\ content[j].of = launches[k].of =>
        /\ \A i \in DOMAIN launches[k].uris :
             \E n \in DOMAIN WindowAt(j).cmdline :
               WindowAt(j).cmdline[n].of = launches[k].uris[i]
        /\ content[j].documents # <<>> => launches[k].uris # <<>>
        /\ launches[k].monitor = content[j].monitor
        /\ launches[k].monitor \in ToldConnectors \cup {NoConnector}
           \/ ToldConnectors = {}

(* What a snapshot says of the VPNs is no older than one poll: a connection *)
(* in it was up, and one not in it was down, at most VPN_POLL_SECONDS ago, *)
(* unless NetworkManager did not answer (daemon.py:126).                   *)
VpnIsRecent ==
  [][Record /\ ~misread' =>
       \A c \in Connection :
         IF c \in recorded' THEN sinceUp[c] <= PollSteps
         ELSE sinceDown[c] <= PollSteps]_vars

(* "One command line that reopens every tab of a terminal window"          *)
(* (terminalcmd.py:51).                                                    *)
EveryTabComesBack ==
  at = "planned" =>
    \A k \in DOMAIN launches :
      HasTabs => TabsOpened(TerminalArguments(launches[k].tabs)) = Len(launches[k].tabs)
=============================================================================
