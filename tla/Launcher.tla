------------------------------ MODULE Launcher ------------------------------
(***************************************************************************)
(* The half of a restore that runs inside gnome-shell                      *)
(* (src/extension/placement.js, class Launcher): it starts an application, *)
(* or is told that one will be started, and guesses which new window is    *)
(* the one that was asked for.  RestoreRun adds the daemon that asks.      *)
(*                                                                         *)
(* A request is a number the requester chooses; the code has no such       *)
(* thing, only the launch ids it hands out, which start again at 1 with    *)
(* every enable().  A size is "none" before the client's first buffer,     *)
(* "own" when the client chose it, "asked" when it took ours.              *)
(***************************************************************************)
EXTENDS Integers, Sequences

CONSTANTS
  App,          \* application ids
  Window,       \* the windows there can be
  Request,      \* the requests there can be
  Unplaced,     \* the window of a record that has none
  Refusals      \* whether a window refuses the size it is asked for

ASSUME AppAssumption == App # {}
ASSUME WindowAssumption == Unplaced \notin Window
ASSUME RequestAssumption == Request \subseteq Nat \ {0}
ASSUME RefusalsAssumption == Refusals \subseteq BOOLEAN

VARIABLES
  enabled,   \* the extension is enabled
  records,   \* Launcher._pending: records[n] is the record of launch id n
  tasks,     \* the _placeWhenReady timers that are running
  windows,   \* the windows
  claims,    \* history: which request has been given which window
  moved      \* history: which request's placement was applied to a window

launcherVars == <<enabled, records, tasks, windows, claims, moved>>

Kinds == {"launch", "expect"}

Record ==
  [kind : Kinds,
   state : {"waiting", "placed", "failed", "timeout"},
   app : App,
   for : Request,
   window : Window \cup {Unplaced},
   requested : BOOLEAN]     \* the placement has been asked for

Task == [for : Request, window : Window]

(* "watched": within the 1.5 s in which the launcher listens to it.        *)
WindowState ==
  [phase : {"none", "watched", "open", "gone"},
   app : App,
   known : BOOLEAN,              \* the Shell has found its application
   size : {"none", "own", "asked"},
   refuses : BOOLEAN,
   origin : Request \cup {0}]    \* the request it was started for, if any

LauncherTypeOK ==
  /\ enabled \in BOOLEAN
  /\ records \in Seq(Record)
  /\ tasks \subseteq Task
  /\ windows \in [Window -> WindowState]
  /\ claims \subseteq Task
  /\ moved \subseteq Task

IsOpen(w) == windows[w].phase \in {"watched", "open"}

-----------------------------------------------------------------------------
(* launch(), expect(), report() *)

Registered(kind, state, app, r) ==
  Append(records, [kind |-> kind, state |-> state, app |-> app, for |-> r,
                   window |-> Unplaced, requested |-> FALSE])

(* The id of the record that is registered next. *)
NextId(kind) == <<kind, Len(records) + 1>>

(* expect(): a placement for a window that somebody else will start. *)
Expect(app, r) ==
  /\ enabled
  /\ records' = Registered("expect", "waiting", app, r)
  /\ UNCHANGED <<enabled, tasks, windows, claims, moved>>

(* launch(): the application is started, or there is no desktop file for   *)
(* it, or starting it throws; a record is kept in any case.                *)
Launch(app, r, outcome) ==
  /\ enabled
  /\ outcome \in {"waiting", "failed"}
  /\ records' = Registered("launch", outcome, app, r)
  /\ UNCHANGED <<enabled, tasks, windows, claims, moved>>

(* LAUNCH_TIMEOUT_MS without a window. *)
LaunchTimeout(n) ==
  /\ n \in DOMAIN records
  /\ records[n].state = "waiting"
  /\ records' = [records EXCEPT ![n].state = "timeout"]
  /\ UNCHANGED <<enabled, tasks, windows, claims, moved>>

(* report(): the state, and whether the verdict says that the size was     *)
(* refused - what it compares is the size the window has at this moment.   *)
Known(id) == id[2] \in DOMAIN records /\ records[id[2]].kind = id[1]
ReportedState(id) == IF Known(id) THEN records[id[2]].state ELSE "unknown"
ReportedRefusal(id) ==
  /\ Known(id)
  /\ LET record == records[id[2]] IN
       /\ record.requested
       /\ record.window # Unplaced
       /\ IsOpen(record.window)
       /\ windows[record.window].size = "own"

-----------------------------------------------------------------------------
(* _tryMatch() and _placeWhenReady() *)

(* Mutant: a window of any application will do. *)
WaitingForAny(app) == {n \in DOMAIN records : records[n].state = "waiting"}

(* The records that wait for a window of the application. *)
Waiting(app) ==
  {n \in DOMAIN records : records[n].state = "waiting" /\ records[n].app = app}

(* Mutant: the comparison of the start times the other way round. *)
Newest(ids) == {n \in ids : \A m \in ids : n >= m}

Oldest(ids) == {n \in ids : \A m \in ids : n <= m}

(* _tryMatch(w), w being `now' by the end of this step: the window goes to *)
(* the record that has waited longest, and is placed at once if it has a   *)
(* size.                                                                   *)
TryMatch(w, now) ==
  /\ windows' = [windows EXCEPT ![w] = now]
  /\ \/ /\ ~now.known \/ Waiting(now.app) = {}
        /\ UNCHANGED <<records, tasks, claims, moved>>
     \/ /\ now.known
        /\ \E n \in Oldest(Waiting(now.app)) :
             LET task == [for |-> records[n].for, window |-> w] IN
               /\ records' = [records EXCEPT ![n] =
                    [@ EXCEPT !.state = "placed", !.window = w,
                              !.requested = (now.size # "none")]]
               /\ claims' = claims \cup {task}
               /\ IF now.size = "none"
                  THEN tasks' = tasks \cup {task} /\ UNCHANGED moved
                  ELSE moved' = moved \cup {task} /\ UNCHANGED tasks
  /\ UNCHANGED enabled

(* The record of a task, unless the extension was disabled meanwhile. *)
RecordOf(task) ==
  {n \in DOMAIN records :
     records[n].for = task.for /\ records[n].window = task.window}

(* _placeWhenReady() of a window that has a size by now, or after 40 tries *)
(* in vain, when a placement has no effect.  The timer outlives disable(). *)
PlaceWhenReady(task) ==
  /\ task \in tasks
  /\ tasks' = tasks \ {task}
  /\ moved' = IF IsOpen(task.window) /\ windows[task.window].size # "none"
              THEN moved \cup {task} ELSE moved
  /\ records' = [n \in DOMAIN records |->
       IF n \in RecordOf(task) THEN [records[n] EXCEPT !.requested = TRUE]
       ELSE records[n]]
  /\ UNCHANGED <<enabled, windows, claims>>

(* placeWindow() throws, the window being gone: the record fails. *)
PlaceThrows(task) ==
  /\ task \in tasks
  /\ ~IsOpen(task.window)
  /\ tasks' = tasks \ {task}
  /\ records' = [n \in DOMAIN records |->
       IF n \in RecordOf(task) THEN [records[n] EXCEPT !.state = "failed"]
       ELSE records[n]]
  /\ UNCHANGED <<enabled, windows, claims, moved>>

(* PlaceWindow, of a window that is open already. *)
PlaceWindow(w, r) ==
  /\ enabled /\ IsOpen(w)
  /\ moved' = moved \cup {[for |-> r, window |-> w]}
  /\ UNCHANGED <<enabled, records, tasks, windows, claims>>

-----------------------------------------------------------------------------
(* What the windows do *)

(* A new window.  The Shell may or may not know its application yet.       *)
WindowCreated(w, app, origin, refuses) ==
  /\ windows[w].phase = "none"
  /\ \E known \in BOOLEAN :
       TryMatch(w, [phase |-> IF enabled THEN "watched" ELSE "open",
                    app |-> app, known |-> known, size |-> "none",
                    refuses |-> refuses, origin |-> origin])

(* notify::title, notify::wm-class or notify::gtk-application-id: with it  *)
(* the application may become known.                                       *)
Notify(w) ==
  /\ windows[w].phase = "watched"
  /\ TryMatch(w, [windows[w] EXCEPT !.known = TRUE])

(* The 1500 ms backstop: one more attempt, and the last one. *)
Backstop(w) ==
  /\ windows[w].phase = "watched"
  /\ \E known \in {windows[w].known, TRUE} :
       TryMatch(w, [windows[w] EXCEPT !.phase = "open", !.known = known])

(* The client commits its first buffer. *)
FirstBuffer(w) ==
  /\ IsOpen(w)
  /\ windows[w].size = "none"
  /\ windows' = [windows EXCEPT ![w].size = "own"]
  /\ UNCHANGED <<enabled, records, tasks, claims, moved>>

(* It acknowledges the configure of a placement, unless it has a minimum   *)
(* size of its own.                                                        *)
Acknowledge(w) ==
  /\ IsOpen(w)
  /\ windows[w].size = "own" /\ ~windows[w].refuses
  /\ \E task \in moved : task.window = w
  /\ windows' = [windows EXCEPT ![w].size = "asked"]
  /\ UNCHANGED <<enabled, records, tasks, claims, moved>>

WindowCloses(w) ==
  /\ IsOpen(w)
  /\ windows' = [windows EXCEPT ![w].phase = "gone"]
  /\ UNCHANGED <<enabled, records, tasks, claims, moved>>

-----------------------------------------------------------------------------
(* disable() and enable() of the extension: destroy() forgets the records, *)
(* the next Launcher counts from 1 again and does not watch the windows of *)
(* the one before it.                                                      *)
Disable ==
  /\ enabled
  /\ enabled' = FALSE
  /\ records' = <<>>
  /\ windows' = [w \in Window |->
       [windows[w] EXCEPT !.phase = IF @ = "watched" THEN "open" ELSE @]]
  /\ UNCHANGED <<tasks, claims, moved>>

Enable ==
  /\ ~enabled
  /\ enabled' = TRUE
  /\ UNCHANGED <<records, tasks, windows, claims, moved>>

-----------------------------------------------------------------------------
LauncherInit ==
  /\ enabled = TRUE /\ records = <<>> /\ tasks = {}
  /\ claims = {} /\ moved = {}
  /\ windows \in [Window -> WindowState]
  /\ \A w \in Window : windows[w].phase # "watched"

RequestStep(r) ==
  \/ \E app \in App : Expect(app, r)
  \/ \E app \in App, outcome \in {"waiting", "failed"} :
       Launch(app, r, outcome)
  \/ \E w \in Window : PlaceWindow(w, r)

ShellStep(w) ==
  \/ \E app \in App, origin \in Request \cup {0}, refuses \in BOOLEAN :
       WindowCreated(w, app, origin, refuses)
  \/ Notify(w)
  \/ Backstop(w)
  \/ FirstBuffer(w)
  \/ Acknowledge(w)
  \/ WindowCloses(w)

LauncherNext ==
  \/ \E r \in Request : RequestStep(r)
  \/ \E w \in Window : ShellStep(w)
  \/ \E n \in DOMAIN records : LaunchTimeout(n)
  \/ \E task \in tasks : PlaceWhenReady(task) \/ PlaceThrows(task)
  \/ Disable
  \/ Enable

(* The launcher for any requester whatever. *)
LauncherSpec == LauncherInit /\ [][LauncherNext]_launcherVars

-----------------------------------------------------------------------------
(* Properties *)

(* Requests for one application are served in the order they were made:    *)
(* as long as one waits, no later one has been given a window, whichever   *)
(* notification of whichever window came first (placement.js:307-319).     *)
OldestFirst ==
  \A m, n \in DOMAIN records :
    m < n /\ records[m].app = records[n].app /\ records[m].state = "waiting"
      => records[n].window = Unplaced

(* Why that holds: a record that waits has no window.                      *)
WaitingIsUnplaced ==
  \A n \in DOMAIN records :
    records[n].state = "waiting" => records[n].window = Unplaced

(* The window of a record is one of its application, and has been there.   *)
WindowOfRecord ==
  \A n \in DOMAIN records :
    records[n].window # Unplaced =>
      /\ windows[records[n].window].app = records[n].app
      /\ windows[records[n].window].phase # "none"

LauncherInv == OldestFirst /\ WaitingIsUnplaced /\ WindowOfRecord
=============================================================================
