--------------------------- MODULE BrowserBridge ---------------------------
(***************************************************************************)
(* Getting browser windows back: the daemon (browserrestore.py, bridge.py, *)
(* _ask_the_browser() of restore.py), the add-on (background.js) and the   *)
(* native hosts Firefox runs for it (restore-wss-firefox-host.py).  They   *)
(* meet in two files: report.json, which a host writes and the daemon      *)
(* reads, and request.json, which the daemon writes and a host takes.      *)
(*                                                                         *)
(* A window is the set of pages its tabs show; About stands for a blank    *)
(* tab.  Pinned tabs, the active tab and geometry are left out.  A window  *)
(* that changes its pages is a window closed and another opened; one that  *)
(* is created shows its pages at once.  What the add-on posts is in the    *)
(* file at once; that a slow host may store an older report after a newer  *)
(* one is left out.                                                        *)
(***************************************************************************)
EXTENDS Integers, Sequences, FiniteSets, SequencesExt, Selection

CONSTANTS
  Page, About,    \* what a tab shows
  Host, NoHost,   \* native hosts, and the add-on's port when there is none
  NoFile,         \* report.json when it is not there
  SavedLists,     \* the browser windows a snapshot may have
  LastSessions,   \* the windows Firefox may have had before the machine started
  UserWindows,    \* the windows the user may open
  MaxRestores,    \* bound: restores
  MaxAsked,       \* bound: windows that are asked for
  MaxStarts,      \* bound: times the browser is started
  MaxEvents       \* bound: restores, windows that come back or that the user
                  \* opens or closes, and things that go wrong

Pages == (SUBSET (Page \cup {About})) \ {{}}

(* A saved window: its tabs, none if they were never captured, and whether *)
(* the confidence is at least ACT_ON_CONFIDENCE.                           *)
Block == [tabs : SUBSET (Page \cup {About}), sure : BOOLEAN]

ASSUME BrowserAssumption ==
  /\ About \notin Page /\ NoHost \notin Host
  /\ SavedLists \subseteq Seq(Block)
  /\ LastSessions \subseteq Seq(Pages) /\ UserWindows \subseteq Pages
  /\ MaxRestores \in Nat /\ MaxAsked \in Nat /\ MaxStarts \in Nat
  /\ MaxEvents \in Nat

VARIABLES
  running,      \* Firefox runs
  starts,       \* how often it was started
  windows,      \* its windows in the order of their creation, {} if closed
  opened,       \* how many came back or were opened by the user
  unrestored,   \* windows of its last session it still brings back
  sessionFile,  \* the windows in its session file
  port,         \* `port' of background.js
  hostPc,       \* where each host is in its loop
  held,         \* the request a host has read
  tasks,        \* the reconcile() calls in flight
  report,       \* report.json
  dropExists,   \* the drop directory is there
  request,      \* request.json
  saved,        \* the browser windows of the snapshot
  pc,           \* where the daemon is
  restores,     \* restores so far
  plan,         \* plan.browser
  result,       \* what the daemon said of the last request
  taken,        \* history: the requests a host has read
  crossed,      \* history: the requests written while a host was removing
  faults        \* history: how often something went wrong or was closed

browserVars == <<running, starts, windows, opened, unrestored, sessionFile>>
addonVars == <<port, tasks>>
hostVars == <<hostPc, held>>
dropVars == <<report, dropExists, request>>
daemonVars == <<saved, pc, restores, plan, result>>
historyVars == <<taken, crossed, faults>>
vars == <<browserVars, addonVars, hostVars, dropVars, daemonVars, historyVars>>

Request == [n : 1 .. MaxRestores, windows : Seq(SUBSET Page)]
(* No request.json: nothing is asked for with the number of no restore. *)
NoRequest == [n |-> 0, windows |-> <<>>]

Report == [windows : Seq(Pages), fresh : BOOLEAN]

(* A reconcile(): for which request, what is left of it, the sets it knows *)
(* to be open and, for the properties, how many windows there were when it *)
(* looked and which it has made.                                           *)
Task == [n : 1 .. MaxRestores, host : Host, todo : Seq(SUBSET Page),
         existing : SUBSET Pages, before : Nat, made : SUBSET Nat]

OpenPages == EntriesAt(windows, {i \in DOMAIN windows : windows[i] # {}})
OpenSets == Range(windows) \ {{}}
Events == restores + opened + faults
Disturb == Events < MaxEvents /\ faults' = faults + 1

NoPlan == [asked |-> <<>>, already |-> {}, live |-> <<>>]

(* The machine starts.  What the last session left behind are the session  *)
(* file and, it may be, a report that is not ten minutes old.              *)
Init ==
  /\ running = FALSE /\ starts = 0 /\ windows = <<>> /\ opened = 0
  /\ unrestored = {} /\ sessionFile \in LastSessions
  /\ port = NoHost /\ tasks = {}
  /\ hostPc = [h \in Host |-> "off"] /\ held = [h \in Host |-> NoRequest]
  /\ report \in {NoFile, [windows |-> sessionFile, fresh |-> TRUE]}
  /\ dropExists = (report # NoFile) /\ request = NoRequest
  /\ saved \in SavedLists
  /\ pc = "idle" /\ restores = 0 /\ plan = NoPlan /\ result = "none"
  /\ taken = {} /\ crossed = {} /\ faults = 0

-----------------------------------------------------------------------------
(* The browser and its user *)

(* connect(): Firefox starts a host, which makes the drop directory. *)
Connect(h) ==
  /\ hostPc[h] = "off"
  /\ hostPc' = [hostPc EXCEPT ![h] = "polling"]
  /\ held' = [held EXCEPT ![h] = NoRequest]
  /\ port' = h
  /\ dropExists' = TRUE

(* Firefox starts with one window, and means to bring back some of the     *)
(* windows of its last session.  The add-on connects when it is loaded and *)
(* again in its onStartup listener: every host there can be runs, one of   *)
(* them is the port and the listeners of the others stay.                  *)
StartBrowser ==
  /\ ~running /\ starts < MaxStarts
  /\ running' = TRUE /\ starts' = starts + 1
  /\ windows' = Append(windows, {About})
  /\ unrestored' \in SUBSET Range(sessionFile)
  /\ hostPc' = [h \in Host |-> "polling"]
  /\ port' \in Host
  /\ dropExists' = TRUE
  /\ UNCHANGED <<opened, sessionFile, tasks, held, report, request, daemonVars,
                 historyVars>>

(* What Firefox writes down of its session, and windows_from_document()    *)
(* reads back: blank tabs are not in it.                                   *)
Session ==
  LET Kept == [i \in DOMAIN windows |-> windows[i] \ {About}]
  IN EntriesAt(Kept, {i \in DOMAIN Kept : Kept[i] # {}})

(* Quit or killed, with its hosts; a reconcile() in flight is gone.  The   *)
(* session file may or may not have the last of it.                        *)
QuitBrowser ==
  /\ running /\ running' = FALSE
  /\ windows' = [i \in DOMAIN windows |-> {}]
  /\ unrestored' = {} /\ sessionFile' \in {sessionFile, Session}
  /\ port' = NoHost /\ tasks' = {}
  /\ hostPc' = [h \in Host |-> "off"] /\ held' = [h \in Host |-> NoRequest]
  /\ Disturb
  /\ UNCHANGED <<starts, opened, dropVars, daemonVars, taken, crossed>>

(* A window of the last session comes back, or the user opens one.        *)
WindowAppears ==
  /\ running /\ Events < MaxEvents
  /\ opened' = opened + 1
  /\ \E pages \in unrestored \cup UserWindows :
       /\ windows' = Append(windows, pages)
       /\ unrestored' = unrestored \ {pages}
  /\ UNCHANGED <<running, starts, sessionFile, addonVars, hostVars, dropVars,
                 daemonVars, historyVars>>

UserClosesWindow ==
  /\ running
  /\ \E i \in DOMAIN windows :
       /\ windows[i] # {}
       /\ windows' = [windows EXCEPT ![i] = {}]
  /\ Disturb
  /\ UNCHANGED <<running, starts, opened, unrestored, sessionFile, addonVars, hostVars,
                 dropVars, daemonVars, taken, crossed>>

-----------------------------------------------------------------------------
(* The add-on *)

(* report(): to the port there is, else to a new one; and what the host    *)
(* does with it: read_frame(), handle(), store_report().                   *)
Post ==
  /\ \/ port # NoHost /\ UNCHANGED <<port, hostPc, held, dropExists>>
     \/ port = NoHost /\ \E h \in Host : Connect(h)
  /\ report' = [windows |-> OpenPages, fresh |-> TRUE]

(* Any change of a window or a tab makes a report due, be it that another  *)
(* tab is looked at.  After the last restore nobody reads it.              *)
ReportFires ==
  /\ running /\ (restores < MaxRestores \/ port = NoHost)
  /\ Post
  /\ UNCHANGED <<browserVars, tasks, request, daemonVars, historyVars>>

(* Mutant: reconcile() does not look what is open. *)
DeliverBlindly(h) ==
  /\ hostPc[h] = "sending"
  /\ hostPc' = [hostPc EXCEPT ![h] = "polling"]
  /\ held' = [held EXCEPT ![h] = NoRequest]
  /\ tasks' = tasks \cup {[n |-> held[h].n, host |-> h, todo |-> held[h].windows,
                           existing |-> {}, before |-> Len(windows),
                           made |-> {}]}
  /\ UNCHANGED <<browserVars, port, dropVars, daemonVars, historyVars>>

(* The host sends the request and reconcile() looks what is open. *)
Deliver(h) ==
  /\ hostPc[h] = "sending"
  /\ hostPc' = [hostPc EXCEPT ![h] = "polling"]
  /\ held' = [held EXCEPT ![h] = NoRequest]
  /\ tasks' = tasks \cup {[n |-> held[h].n, host |-> h, todo |-> held[h].windows,
                           existing |-> OpenSets, before |-> Len(windows),
                           made |-> {}]}
  /\ UNCHANGED <<browserVars, port, dropVars, daemonVars, historyVars>>

IsShown(pages, sets) == \E open \in sets : pages \subseteq open

(* Nothing to show, or some window it knows of shows it. *)
NeedsNoWindow(t) == Head(t.todo) = {} \/ IsShown(Head(t.todo), t.existing)

(* Mutant: `return' for `continue'. *)
LeaveRestAlone(t) ==
  /\ t.todo # <<>> /\ NeedsNoWindow(t)
  /\ tasks' = (tasks \ {t}) \cup {[t EXCEPT !.todo = <<>>]}
  /\ UNCHANGED <<browserVars, port, hostVars, dropVars, daemonVars, historyVars>>

LeaveAlone(t) ==
  /\ t.todo # <<>> /\ NeedsNoWindow(t)
  /\ tasks' = (tasks \ {t}) \cup {[t EXCEPT !.todo = Tail(@)]}
  /\ UNCHANGED <<browserVars, port, hostVars, dropVars, daemonVars, historyVars>>

(* windows.create(), after which the others go on.  `existing' is looked   *)
(* at by this call alone: that the pages are in it only when the tabs are  *)
(* pinned and one of them is made active makes no difference.              *)
CreateWindow(t) ==
  /\ t.todo # <<>> /\ ~NeedsNoWindow(t)
  /\ windows' = Append(windows, Head(t.todo))
  /\ tasks' = (tasks \ {t}) \cup
       {[t EXCEPT !.todo = Tail(@), !.existing = @ \cup {Head(t.todo)},
                  !.made = @ \cup {Len(windows) + 1}]}
  /\ UNCHANGED <<running, starts, opened, unrestored, sessionFile, port, hostVars, dropVars,
                 daemonVars, historyVars>>

(* windows.create() is refused, or tabs.update() of the window that was    *)
(* created: the rest of the request is dropped.                            *)
CreateFails(t) ==
  /\ t.todo # <<>> /\ ~NeedsNoWindow(t)
  /\ windows' \in {windows, Append(windows, Head(t.todo))}
  /\ tasks' = tasks \ {t} /\ Disturb
  /\ UNCHANGED <<running, starts, opened, unrestored, sessionFile, port, hostVars, dropVars,
                 daemonVars, taken, crossed>>

(* "Report immediately after acting". *)
FinishReconcile(t) ==
  /\ t.todo = <<>>
  /\ tasks' = tasks \ {t}
  /\ Post
  /\ UNCHANGED <<browserVars, request, daemonVars, historyVars>>

-----------------------------------------------------------------------------
(* The native hosts *)

(* take_request() in two steps: the file is read ... *)
ReadRequest(h) ==
  /\ hostPc[h] = "polling" /\ request # NoRequest
  /\ held' = [held EXCEPT ![h] = request]
  /\ hostPc' = [hostPc EXCEPT ![h] = "removing"]
  /\ taken' = taken \cup {request.n}
  /\ UNCHANGED <<browserVars, addonVars, dropVars, daemonVars, crossed, faults>>

(* ... and whatever is there by now is removed. *)
RemoveRequest(h) ==
  /\ hostPc[h] = "removing"
  /\ request' = NoRequest
  /\ hostPc' = [hostPc EXCEPT ![h] = "sending"]
  /\ UNCHANGED <<browserVars, addonVars, held, report, dropExists, daemonVars,
                 historyVars>>

(* A host dies by itself.  onDisconnect forgets the port, whichever it is. *)
HostDies(h) ==
  /\ hostPc[h] # "off"
  /\ hostPc' = [hostPc EXCEPT ![h] = "off"]
  /\ held' = [held EXCEPT ![h] = NoRequest]
  /\ port' = NoHost /\ Disturb
  /\ UNCHANGED <<browserVars, tasks, dropVars, daemonVars, taken, crossed>>

-----------------------------------------------------------------------------
(* The daemon *)

HasReport == report # NoFile /\ report.fresh /\ report.windows # <<>>

(* Firefox writes its session file every fifteen seconds: the steps in     *)
(* which it matters are those without a usable report.                     *)
FlushSession ==
  /\ running /\ ~HasReport /\ restores < MaxRestores
  /\ sessionFile' = Session
  /\ UNCHANGED <<running, starts, windows, opened, unrestored, addonVars, hostVars,
                 dropVars, daemonVars, historyVars>>

(* Ten minutes pass without a report; the session file is not that old if  *)
(* Firefox runs.                                                           *)
ReportAges ==
  /\ report # NoFile /\ report.fresh /\ restores < MaxRestores
  /\ report' = [report EXCEPT !.fresh = FALSE]
  /\ sessionFile' = IF running THEN Session ELSE sessionFile
  /\ UNCHANGED <<running, starts, windows, opened, unrestored, addonVars, hostVars, dropExists, request, daemonVars,
                 historyVars>>

(* The report if it is fresh and has windows, else the session file. *)
LiveWindows ==
  IF HasReport THEN report.windows ELSE sessionFile

(* The tabs of a saved window that can be asked for. *)
Urls(i) == saved[i].tabs \ {About}

IsRestorable(i) == saved[i].sure /\ Urls(i) # {}

FirstShowing(pages, list) ==
  CHOOSE k \in DOMAIN list :
    pages \subseteq list[k] /\ \A m \in 1 .. k - 1 : ~(pages \subseteq list[m])

(* Mutant: a live window is not consumed. *)
PlanWindowAgain(so_far, i) ==
  IF ~IsRestorable(i) THEN so_far
  ELSE IF IsShown(Urls(i), ToSet(so_far.live))
  THEN [so_far EXCEPT !.already = @ \cup {i}]
  ELSE [so_far EXCEPT !.asked = Append(@, Urls(i))]

(* Mutant: blank tabs are asked for. *)
PlanWindowWithBlanks(so_far, i) ==
  IF ~saved[i].sure \/ saved[i].tabs = {} THEN so_far
  ELSE IF IsShown(saved[i].tabs, ToSet(so_far.live))
  THEN [so_far EXCEPT !.already = @ \cup {i},
                      !.live = RemoveAt(@, FirstShowing(saved[i].tabs, @))]
  ELSE [so_far EXCEPT !.asked = Append(@, saved[i].tabs)]

(* One round of plan_browser_restore(). *)
PlanWindow(so_far, i) ==
  IF ~IsRestorable(i) THEN so_far
  ELSE IF IsShown(Urls(i), ToSet(so_far.live))
  THEN [so_far EXCEPT !.already = @ \cup {i},
                      !.live = RemoveAt(@, FirstShowing(Urls(i), @))]
  ELSE [so_far EXCEPT !.asked = Append(@, Urls(i))]

PlanOf(live) ==
  FoldLeft(PlanWindow, [asked |-> <<>>, already |-> {}, live |-> live],
           [i \in DOMAIN saved |-> i])

(* build_restore_plan(), its browser part.  The live windows it was made   *)
(* from are kept for the properties.                                       *)
BuildPlan ==
  /\ pc = "idle" /\ restores < MaxRestores /\ Events < MaxEvents
  /\ (restores + 1) * Cardinality({i \in DOMAIN saved : IsRestorable(i)}) <= MaxAsked
  /\ restores' = restores + 1
  /\ plan' = [PlanOf(LiveWindows) EXCEPT !.live = LiveWindows]
  /\ pc' = "planned"
  /\ UNCHANGED <<browserVars, addonVars, hostVars, dropVars, saved, result, historyVars>>

(* execute() has launched the applications: nothing is to be asked for, or *)
(* nobody is there to ask.                                                 *)
AskNobody ==
  /\ pc = "planned" /\ (plan.asked = <<>> \/ ~dropExists)
  /\ result' = IF plan.asked = <<>> THEN "none" ELSE "needs-you"
  /\ pc' = "idle"
  /\ UNCHANGED <<browserVars, addonVars, hostVars, dropVars, saved, restores, plan,
                 historyVars>>

(* write_request(): a request that still lies there is replaced. *)
AskBrowser ==
  /\ pc = "planned" /\ plan.asked # <<>> /\ dropExists
  /\ request' = [n |-> restores, windows |-> plan.asked]
  /\ pc' = "asking"
  /\ crossed' = IF \E h \in Host : hostPc[h] = "removing"
                THEN crossed \cup {restores} ELSE crossed
  /\ UNCHANGED <<browserVars, addonVars, hostVars, report, dropExists, saved, restores,
                 plan, result, taken, faults>>

(* Mutant: the browser is said to have been asked in any case. *)
SeesTakenAnyway ==
  /\ pc = "asking"
  /\ result' = "done" /\ pc' = "idle"
  /\ UNCHANGED <<browserVars, addonVars, hostVars, dropVars, saved, restores, plan,
                 historyVars>>

(* request_pending() is false. *)
SeesTaken ==
  /\ pc = "asking" /\ request = NoRequest
  /\ result' = "done" /\ pc' = "idle"
  /\ UNCHANGED <<browserVars, addonVars, hostVars, dropVars, saved, restores, plan,
                 historyVars>>

(* BROWSER_WAIT_SECONDS are over: the request stays where it is. *)
GivesUp ==
  /\ pc = "asking" /\ request # NoRequest
  /\ result' = "needs-you" /\ pc' = "idle"
  /\ UNCHANGED <<browserVars, addonVars, hostVars, dropVars, saved, restores, plan,
                 historyVars>>

-----------------------------------------------------------------------------
ReconcileStep ==
  \E t \in tasks : LeaveAlone(t) \/ CreateWindow(t) \/ FinishReconcile(t)

HostStep(h) == ReadRequest(h) \/ RemoveRequest(h) \/ Deliver(h)

Next ==
  \/ StartBrowser
  \/ QuitBrowser
  \/ WindowAppears
  \/ UserClosesWindow
  \/ FlushSession
  \/ ReportFires
  \/ ReconcileStep
  \/ \E t \in tasks : CreateFails(t)
  \/ \E h \in Host : HostStep(h) \/ HostDies(h)
  \/ ReportAges
  \/ BuildPlan
  \/ AskNobody
  \/ AskBrowser
  \/ SeesTaken
  \/ GivesUp

Spec == Init /\ [][Next]_vars

(* A host looks for a request every second, whatever else happens, and the *)
(* add-on goes on with what it has begun.                                  *)
FairSpec ==
  /\ Spec
  /\ WF_vars(ReconcileStep)
  /\ \A h \in Host :
       WF_vars(ReadRequest(h)) /\ WF_vars(RemoveRequest(h)) /\ WF_vars(Deliver(h))

-----------------------------------------------------------------------------
(* Properties *)

TypeOK ==
  /\ running \in BOOLEAN /\ starts \in 0 .. MaxStarts
  /\ windows \in Seq(Pages \cup {{}}) /\ opened \in 0 .. MaxEvents
  /\ unrestored \subseteq Pages /\ sessionFile \in Seq(Pages)
  /\ port \in Host \cup {NoHost} /\ tasks \subseteq Task
  /\ hostPc \in [Host -> {"off", "polling", "removing", "sending"}]
  /\ held \in [Host -> Request \cup {NoRequest}]
  /\ report \in Report \cup {NoFile} /\ dropExists \in BOOLEAN
  /\ request \in Request \cup {NoRequest}
  /\ saved \in Seq(Block) /\ pc \in {"idle", "planned", "asking"}
  /\ restores \in 0 .. MaxRestores
  /\ plan \in [asked : Seq(SUBSET Page), already : SUBSET Nat, live : Seq(Pages)]
  /\ result \in {"none", "done", "needs-you"}
  /\ taken \subseteq 1 .. MaxRestores /\ crossed \subseteq 1 .. MaxRestores
  /\ faults \in 0 .. MaxEvents

(* The add-on never opens what was open when it looked, nor the same thing *)
(* twice within one request: of an older window that shows the same pages  *)
(* it could not know (background.js:109-138).                              *)
NeverDuplicated ==
  [][ \A t \in tasks \ tasks', j \in DOMAIN windows :
        /\ Len(windows') > Len(windows)
        /\ Last(windows') \subseteq windows[j]
        => j > t.before /\ j \notin t.made ]_vars

(* One open window accounts for one saved window: for whatever pages, of   *)
(* the saved windows that are called open no more show them than there are *)
(* live windows showing them (browserrestore.py:113-126).                  *)
OneForOne ==
  \A pages \in SUBSET Page :
    Cardinality({i \in plan.already : pages \subseteq Urls(i)})
      <= Cardinality({k \in DOMAIN plan.live : pages \subseteq plan.live[k]})

(* The browser is said to have been asked only if a host has read this     *)
(* very request; the exception is a request that was written between the   *)
(* two halves of take_request(), which is removed unread                   *)
(* (restore.py:200-203, restore-wss-firefox-host.py:117-134).              *)
DoneWasTaken ==
  result = "done" /\ pc = "idle" => restores \in taken \cup crossed

(* A browser that runs, and goes on running undisturbed, opens what it was *)
(* asked for, even when the daemon has given up waiting (background.js,    *)
(* restore-wss-firefox-host.py:151-170).                                   *)
AskedIsOpened ==
  \A n \in 1 .. MaxRestores :
    (running /\ restores = n /\ request # NoRequest /\ request.n = n)
      ~> \/ faults > 0 \/ restores > n \/ n \in crossed
         \/ \A k \in DOMAIN plan.asked : IsShown(plan.asked[k], OpenSets)
=============================================================================
