-------------------------- MODULE RepeatedRestore --------------------------
(***************************************************************************)
(* session.json restored again and again, by way of what the user is       *)
(* shown: a client (_restore() of src/restore_wss/cli.py, or the window of *)
(* review.py) asks the daemon for a plan, the user agrees to some of it,   *)
(* and the daemon makes another plan, of which it carries out the actions  *)
(* with the indices it is given.  Between the two the daemon may write     *)
(* session.json anew, and each plan loads it anew.  build_plan() matches   *)
(* the snapshot with the windows that are open and launches what has no    *)
(* match (the actions of a launch are those of RestoreRun; here an         *)
(* application just opens its window, some time).                          *)
(***************************************************************************)
EXTENDS WindowMatching, SequencesExt, Selection

CONSTANTS
  Snapshots,      \* the lists of windows session.json may begin with
  Workspace,      \* the workspace of the first, second ... saved window
  UserWindows,    \* the windows the user may open
  Review,         \* the window of review.py
  NewTitles,      \* the titles a window may take on
  MaxRestores,    \* bound: restores
  MaxEvents       \* bound: writes of session.json, windows the user opens, and
                  \* changes of titles

ASSUME SnapshotsAssumption ==
  /\ Snapshots \subseteq Seq(WindowRecord) /\ Workspace \in Seq(Nat)
  /\ \A snapshot \in Snapshots : Len(snapshot) <= Len(Workspace)
ASSUME DesktopAssumption ==
  /\ UserWindows \subseteq WindowRecord /\ Review \in WindowRecord
  /\ NewTitles \subseteq Title
ASSUME RestoreBoundsAssumption ==
  MaxRestores \in Nat /\ MaxEvents \in Nat

VARIABLES
  stored,     \* the windows of session.json
  pc,         \* what the daemon is doing
  client,     \* who asked for the plan that is shown
  shown,      \* the actions the client shows, none if it shows no plan
  only,       \* the indices handed to Restore
  desktop,    \* the open windows
  starting,   \* the launches whose window is not there yet
  restores,   \* restores so far
  events,     \* writes, windows the user has opened, and changes of titles
  listed,     \* history: the saved windows that the actions shown are of
  agreed,     \* history: which of them the user agreed to
  launched,   \* history: the saved windows that were launched then
  changed     \* history: what the plan shown was made of has changed, or none is

clientVars == <<client, shown, only, listed, agreed, launched>>
desktopVars == <<desktop, starting>>
vars == <<matchVars, stored, pc, clientVars, desktopVars, restores, events, changed>>

(* A window of the desktop: what the extension tells of it.  For the       *)
(* properties only: whether a restore opened it, while it was awaited and  *)
(* under the title it was saved with, which it has kept.                   *)
DesktopWindow == [window : WindowRecord, restored : BOOLEAN]

(* A launch: the restore that asked for it, the saved window it is for,    *)
(* and whether it is awaited still: neither was there another restore      *)
(* since, nor was session.json written without its window.                 *)
Starting == [restore : Nat, for : Nat, window : WindowRecord, awaited : BOOLEAN]

(* An action: of which saved window, and the live window that is placed, 0 *)
(* for a launch.                                                           *)
Action == [of : Nat, window : Nat]

RestoreTypeOK ==
  /\ TypeOK
  /\ stored \in Seq(WindowRecord)
  /\ pc \in {"idle", "planning", "restoring", "launching"}
  /\ client \in {"nobody", "terminal", "review", "presented"}
  /\ shown \in Seq(Action) /\ only \subseteq DOMAIN shown
  /\ \A k \in DOMAIN shown : shown[k].of \in DOMAIN listed
  /\ desktop \in Seq(DesktopWindow)
  /\ starting \subseteq Starting
  /\ restores \in 0 .. MaxRestores /\ events \in 0 .. MaxEvents
  /\ listed \in Seq(WindowRecord) /\ changed \in BOOLEAN
  /\ agreed \subseteq DOMAIN listed /\ launched \subseteq DOMAIN saved

RestoreInit ==
  /\ stored \in Snapshots
  /\ Start(<<<<>>, <<>>>>)
  /\ pc = "idle" /\ client = "nobody" /\ desktop = <<>> /\ starting = {}
  /\ shown = <<>> /\ only = {} /\ listed = <<>> /\ agreed = {} /\ launched = {}
  /\ restores = 0 /\ events = 0 /\ changed = TRUE

-----------------------------------------------------------------------------
(* build_plan() *)

(* The windows that are open, in the order in which they happen to be      *)
(* stacked.                                                                *)
Listings ==
  {[k \in DOMAIN desktop |-> desktop[stacked[k]].window] :
     stacked \in Bijection(DOMAIN desktop, DOMAIN desktop)}

(* build_restore_plan(): session.json is loaded and the desktop listed.    *)
StartPlan ==
  /\ saved' = stored
  /\ live' \in Listings
  /\ rest' = Candidates'
  /\ matches' = {} /\ ambiguous' = {}

(* The plan has been handed over; what it was made of is gone.             *)
DropPlan ==
  /\ saved' = <<>> /\ live' = <<>>
  /\ rest' = {} /\ matches' = {} /\ ambiguous' = {}

Match ==
  /\ pc \in {"planning", "restoring"}
  /\ \E c \in rest : Consider(c)
  /\ UNCHANGED <<stored, pc, clientVars, desktopVars, restores, events, changed>>

(* Mutant: whatever the matches. *)
ToLaunchAll == {i \in DOMAIN saved : saved[i].app # NoApp}

(* The saved windows without a match.  Those without an application id are *)
(* skipped.                                                                *)
ToLaunch == {i \in UnmatchedSaved : saved[i].app # NoApp}

Actions ==
  {[of |-> c[1], window |-> c[2]] : c \in matches}
    \cup {[of |-> i, window |-> 0] : i \in ToLaunch}

(* The order of plan.actions.sort(): places before launches, the first     *)
(* workspace first, and else as they were found.                           *)
IsAhead(a, b) ==
  LET IsPlace(action) == action.window # 0 IN
    \/ IsPlace(a) /\ ~IsPlace(b)
    \/ /\ IsPlace(a) <=> IsPlace(b)
       /\ \/ Workspace[a.of] < Workspace[b.of]
          \/ /\ Workspace[a.of] = Workspace[b.of]
             /\ IF IsPlace(a) THEN Precedes(<<a.of, a.window>>, <<b.of, b.window>>)
                ELSE a.of < b.of

PlannedActions ==
  Sorted(Actions, {p \in Actions \X Actions : IsAhead(p[1], p[2])})

-----------------------------------------------------------------------------
(* The daemon's own writes *)

(* No one waits for the launches that are under way any more. *)
Forsaken == {[start EXCEPT !.awaited = FALSE] : start \in starting}

(* tick() or handle_save(), between two calls of clients: a capture of the *)
(* desktop replaces session.json.  Bound: as many windows as have a        *)
(* workspace.                                                              *)
WriteSnapshot ==
  /\ pc = "idle" /\ events < MaxEvents
  /\ Len(desktop) <= Len(Workspace)
  /\ events' = events + 1
  /\ stored' \in Listings
  /\ starting' = Forsaken
  /\ changed' = (changed \/ stored' # stored)
  /\ UNCHANGED <<matchVars, pc, clientVars, desktop, restores>>

-----------------------------------------------------------------------------
(* The client *)

(* handle_plan_restore(), called by the command line or by the review.     *)
PlanRestore ==
  /\ pc = "idle" /\ restores < MaxRestores /\ client # "presented"
  /\ client' \in {"terminal", "review"}
  /\ StartPlan
  /\ pc' = "planning" /\ changed' = FALSE
  /\ shown' = <<>> /\ only' = {} /\ listed' = <<>> /\ agreed' = {} /\ launched' = {}
  /\ UNCHANGED <<stored, desktopVars, restores, events>>

ShowPlan ==
  /\ pc = "planning" /\ rest = {}
  /\ shown' = PlannedActions /\ listed' = saved
  /\ DropPlan
  /\ pc' = "idle"
  /\ UNCHANGED <<stored, client, only, agreed, launched, desktopVars, restores,
                 events, changed>>

(* Some saved window may be taken for the window. *)
IsLikeSaved(window) == \E i \in DOMAIN listed : WindowScore(listed[i], window) > 0

(* on_activate(): the plan is there before the window that shows it.  Its  *)
(* coming changes nothing unless the snapshot has a window like it.        *)
PresentReview ==
  /\ pc = "idle" /\ client = "review" /\ shown # <<>>
  /\ client' = "presented"
  /\ desktop' = Append(desktop, [window |-> Review, restored |-> FALSE])
  /\ changed' = (changed \/ IsLikeSaved(Review))
  /\ UNCHANGED <<matchVars, stored, pc, shown, only, listed, agreed, launched,
                 starting, events, restores>>

(* DaemonClient.restore() and handle_restore(), which makes a new plan. *)
Restore ==
  /\ pc = "idle" /\ shown # <<>>
  /\ restores' = restores + 1
  /\ StartPlan
  /\ pc' = "restoring"
  /\ starting' = Forsaken
  /\ UNCHANGED <<stored, client, shown, listed, launched, desktop, events, changed>>

(* The command line: the user says yes, or has given --yes.                *)
SayYes ==
  /\ client = "terminal"
  /\ Restore
  /\ only' = {} /\ agreed' = {shown[k].of : k \in DOMAIN shown}

(* The review window: Restore is clicked with some of the switches on.     *)
ClickRestore ==
  /\ client = "presented"
  /\ Restore
  /\ only' \in SUBSET DOMAIN shown /\ agreed' = {shown[k].of : k \in only'}

-----------------------------------------------------------------------------
(* handle_restore() and execute() *)

(* Mutant: the indices are taken of the launches alone. *)
ChosenOfLaunches ==
  LET launches == SelectSeq(PlannedActions, LAMBDA action : action.window = 0) IN
    {launches[k] : k \in IF only = {} THEN DOMAIN launches ELSE only \cap DOMAIN launches}

(* What is asked for of the new plan: with no index, all of it. *)
Chosen ==
  LET planned == PlannedActions IN
    {planned[k] : k \in IF only = {} THEN DOMAIN planned ELSE only \cap DOMAIN planned}

Launch ==
  /\ pc = "restoring" /\ rest = {}
  /\ launched' = {action.of : action \in {a \in Chosen : a.window = 0}}
  /\ starting' = starting \cup
       {[restore |-> restores, for |-> i, window |-> saved[i], awaited |-> TRUE] :
          i \in launched'}
  /\ pc' = "launching"
  /\ UNCHANGED <<matchVars, stored, client, shown, only, listed, agreed, desktop,
                 events, restores, changed>>

(* Mutant: the client's choice outlives the plan it was made of. *)
EndRestoreKeepingChoice ==
  /\ pc = "launching"
  /\ DropPlan
  /\ pc' = "idle" /\ client' = "nobody" /\ changed' = TRUE
  /\ shown' = <<>> /\ listed' = <<>> /\ agreed' = {} /\ launched' = {}
  /\ UNCHANGED <<stored, only, desktopVars, restores, events>>

(* The last launch has its window, or wait_seconds have passed.            *)
EndRestore ==
  /\ pc = "launching"
  /\ DropPlan
  /\ pc' = "idle" /\ client' = "nobody" /\ changed' = TRUE
  /\ shown' = <<>> /\ only' = {} /\ listed' = <<>> /\ agreed' = {} /\ launched' = {}
  /\ UNCHANGED <<stored, desktopVars, restores, events>>

-----------------------------------------------------------------------------
(* The desktop *)

(* What happens while the daemon matches comes after it here: the matching *)
(* is one call, of the windows as they were listed.                        *)
DesktopChanges ==
  /\ pc \in {"idle", "launching"}
  /\ changed' = (changed \/ pc = "idle")
  /\ UNCHANGED <<matchVars, stored, pc, shown, only, listed, agreed, launched,
                 restores>>

(* However long it took.  It may take on another title at once.            *)
ApplicationOpensWindow ==
  /\ \E start \in starting :
       /\ desktop' = Append(desktop, [window |-> start.window, restored |-> start.awaited])
       /\ starting' = starting \ {start}
  /\ UNCHANGED <<client, events>>
  /\ DesktopChanges

UserOpensWindow ==
  /\ events < MaxEvents
  /\ events' = events + 1
  /\ \E window \in UserWindows :
       desktop' = Append(desktop, [window |-> window, restored |-> FALSE])
  /\ UNCHANGED <<client, starting>>
  /\ DesktopChanges

WindowIsRetitled ==
  /\ events < MaxEvents
  /\ events' = events + 1
  /\ \E k \in DOMAIN desktop, title \in NewTitles :
       desktop' = [desktop EXCEPT ![k] = [window |-> [@.window EXCEPT !.title = title],
                                          restored |-> FALSE]]
  /\ UNCHANGED <<client, starting>>
  /\ DesktopChanges

(* Or an application quits; without its window the review is over. *)
UserClosesWindow ==
  /\ \E k \in DOMAIN desktop :
       /\ desktop' = RemoveAt(desktop, k)
       /\ client' = IF client = "presented" /\ desktop[k].window = Review THEN "nobody"
                    ELSE client
  /\ UNCHANGED <<starting, events>>
  /\ DesktopChanges

RestoreNext ==
  \/ WriteSnapshot
  \/ PlanRestore
  \/ Match
  \/ ShowPlan
  \/ PresentReview
  \/ SayYes
  \/ ClickRestore
  \/ Launch
  \/ EndRestore
  \/ ApplicationOpensWindow
  \/ UserOpensWindow
  \/ WindowIsRetitled
  \/ UserClosesWindow

RestoreSpec == RestoreInit /\ [][RestoreNext]_vars

-----------------------------------------------------------------------------
(* Properties *)

(* "Windows that are already open are moved, not launched again - this is  *)
(* what makes a second `restore-wss restore` a no-op and lets a            *)
(* half-finished restore be completed" (plan.py:257-258): however often    *)
(* and however much of session.json is restored, and whatever the user     *)
(* opens and closes and the daemon writes meanwhile, of no application are *)
(* there ever more restored windows than session.json has.  Counted are    *)
(* the windows that a restore can know again: they came, under the title   *)
(* they were saved with, before there was another restore or another       *)
(* session.json, and keep that title.  A window that comes later, or under *)
(* another title, is launched again by the restore after.  A saved window  *)
(* without an application id may stand for one of any application.         *)
NeverTooMany ==
  \A app \in App :
    Cardinality({k \in DOMAIN desktop :
                   desktop[k].restored /\ desktop[k].window.app = app})
      <= Cardinality({i \in DOMAIN stored : stored[i].app \in {app, NoApp}})

(* What Restore is asked for: with no index, all of it (protocol.py:67-69). *)
AskedFor ==
  {k \in IF only = {} THEN DOMAIN shown ELSE only : shown[k].window = 0}

(* Restore launches what was listed at the indices it is told, though it   *)
(* makes a plan of its own, of windows that were restacked meanwhile, with *)
(* the review's own window among them (daemon.py:236-241, plan.py:307): as *)
(* long as no other window came, went or changed its title since the first *)
(* plan, and session.json says what it said.  It depends on the titles: of *)
(* windows whose titles have the same shares of characters, and so are the *)
(* same to one saved window, only the shorter may be a placeholder of      *)
(* another, and restacking them changes what is launched.                  *)
ListedIsLaunched ==
  pc = "launching" /\ ~changed => launched = {shown[k].of : k \in AskedFor}

(* "Carry out the plan. `only` is a JSON array of action indices from      *)
(* PlanRestore, so the review step can restore a subset"                   *)
(* (protocol.py:67-69): whatever happens in between, a launch that was     *)
(* asked for is carried out, unless a window that looks like it is there.  *)
AskedForComesBack ==
  pc = "launching" =>
    \A k \in AskedFor :
      LET window == listed[shown[k].of] IN
        \/ \E i \in launched : saved[i] = window
        \/ \E l \in DOMAIN live : WindowScore(window, live[l]) >= Threshold

(* "Actions at or above this confidence are ticked to begin with. Below it *)
(* the user has to say yes" (review.py:17-18): nothing is launched that    *)
(* the user has not agreed to.                                             *)
UserSaidYes ==
  pc = "launching" => \A i \in launched : \E j \in agreed : listed[j] = saved[i]
=============================================================================
