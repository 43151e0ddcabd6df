----------------------------- MODULE RestoreRun -----------------------------
(***************************************************************************)
(* One Restore call: execute() of src/restore_wss/restore.py carries out   *)
(* the window actions of a plan through the extension's Launcher, while    *)
(* applications start at their own pace, the user opens windows too, and   *)
(* the extension may come and go.                                          *)
(*                                                                         *)
(* Request i is the i-th action of the plan.  A call to the extension is   *)
(* one step: it blocks the daemon, and the extension serves it in one go.  *)
(* The browser and the VPN half of execute() are left out.                 *)
(***************************************************************************)
EXTENDS Launcher, FiniteSets

CONSTANTS
  Plans,            \* the plans that may have to be carried out
  MaxUserWindows,   \* bound: windows the user opens meanwhile
  MaxFailures,      \* bound: calls, launches and processes that fail
  MaxOutages        \* bound: times the extension is disabled

Action == [kind : {"place", "launch", "terminal"}, app : App,
           window : Window \cup {Unplaced}]

ASSUME PlansAssumption ==
  \A p \in Plans :
    /\ p \in Seq(Action)
    /\ DOMAIN p \subseteq Request
    /\ \A i \in DOMAIN p : p[i].kind = "place" <=> p[i].window # Unplaced
    /\ \A i, j \in DOMAIN p :
         p[i].window = p[j].window /\ p[i].window # Unplaced => i = j
ASSUME RunBoundsAssumption ==
  MaxUserWindows \in Nat /\ MaxFailures \in Nat /\ MaxOutages \in Nat

VARIABLES
  plan,         \* plan.actions
  pc,           \* where execute() is
  at,           \* the action it has come to
  expected,     \* the launch id of the terminal it is about to start
  outstanding,  \* the launches without a result, with their launch ids
  round,        \* those of them it has yet to ask about in this round
  late,         \* the deadline has passed
  results,      \* result.results
  starting,     \* applications that were started and have no window yet
  outages,      \* times the extension was disabled
  failures      \* failures so far

runVars == <<plan, pc, at, expected, outstanding, round, late, results>>
envVars == <<starting, outages, failures>>
vars == <<launcherVars, runVars, envVars>>

LaunchId == Kinds \X (Nat \ {0})
NoId == <<"expect", 0>>
Issued == [action : Request, id : LaunchId]
Result == [action : Request, state : {"done", "failed", "pending"},
           refused : BOOLEAN]

TypeOK ==
  /\ LauncherTypeOK
  /\ plan \in Seq(Action) /\ DOMAIN plan \subseteq Request
  /\ pc \in {"begin", "issue", "spawn", "poll", "ask", "done", "raised"}
  /\ at \in 1 .. Len(plan) + 1
  /\ expected \in LaunchId \cup {NoId}
  /\ outstanding \in Seq(Issued) /\ round \in Seq(Issued)
  /\ late \in BOOLEAN
  /\ results \in Seq(Result)
  /\ starting \subseteq Request
  /\ outages \in Nat /\ failures \in Nat

PlaceActions(p, w) == {i \in DOMAIN p : p[i].window = w}

NotThere == [phase |-> "none", app |-> CHOOSE a \in App : TRUE,
             known |-> FALSE, size |-> "none", refuses |-> FALSE, origin |-> 0]

(* The windows of the plan's place actions are there from the beginning.   *)
Init ==
  /\ plan \in Plans
  /\ enabled = TRUE /\ records = <<>> /\ tasks = {}
  /\ claims = {} /\ moved = {}
  /\ windows = [w \in Window |->
       IF PlaceActions(plan, w) = {} THEN NotThere
       ELSE [NotThere EXCEPT
              !.phase = "open", !.known = TRUE, !.size = "own",
              !.app = plan[CHOOSE i \in PlaceActions(plan, w) : TRUE].app]]
  /\ pc = "begin" /\ at = 1 /\ expected = NoId
  /\ outstanding = <<>> /\ round = <<>> /\ late = FALSE /\ results = <<>>
  /\ starting = {} /\ outages = 0 /\ failures = 0

Fail ==
  /\ failures < MaxFailures
  /\ failures' = failures + 1

-----------------------------------------------------------------------------
(* execute() up to the last action *)

(* EnsureWorkspaces; an exception there ends the restore. *)
EnsureWorkspaces ==
  /\ pc = "begin"
  /\ \/ enabled /\ pc' = "issue" /\ UNCHANGED failures
     \/ enabled /\ pc' = "raised" /\ Fail
     \/ ~enabled /\ pc' = "raised" /\ UNCHANGED failures
  /\ UNCHANGED <<launcherVars, plan, at, expected, outstanding, round, late,
                 results, starting, outages>>

Current == plan[at]
Issuing(kind) == pc = "issue" /\ at <= Len(plan) /\ Current.kind = kind

(* The action is done with: its result, and on to the next one. *)
Conclude(state) ==
  /\ results' = Append(results, [action |-> at, state |-> state,
                                 refused |-> FALSE])
  /\ at' = at + 1
  /\ pc' = "issue"
  /\ expected' = NoId
  /\ UNCHANGED <<plan, outstanding, round, late>>

(* The launch has been asked for; its result comes later. *)
Await(id) ==
  /\ outstanding' = Append(outstanding, [action |-> at, id |-> id])
  /\ at' = at + 1
  /\ pc' = "issue"
  /\ expected' = NoId
  /\ UNCHANGED <<plan, round, late, results>>

(* PlaceWindow throws for a window that is gone.  A call that is not       *)
(* answered in time has failed too, whether it is carried out or not.      *)
Place ==
  /\ Issuing("place")
  /\ \/ PlaceWindow(Current.window, at) /\ Conclude("done") /\ UNCHANGED failures
     \/ /\ ~enabled \/ ~IsOpen(Current.window)
        /\ UNCHANGED <<launcherVars, failures>>
        /\ Conclude("failed")
     \/ /\ enabled /\ IsOpen(Current.window)
        /\ PlaceWindow(Current.window, at) \/ UNCHANGED launcherVars
        /\ Conclude("failed")
        /\ Fail
  /\ UNCHANGED <<starting, outages>>

(* LaunchApp answers with a launch id, whatever became of the launch. *)
LaunchApp ==
  /\ Issuing("launch")
  /\ Await(NextId("launch"))
  /\ \/ /\ Launch(Current.app, at, "waiting")
        /\ starting' = starting \cup {at}
        /\ UNCHANGED failures
     \/ /\ Launch(Current.app, at, "failed")
        /\ UNCHANGED starting
        /\ Fail
  /\ UNCHANGED outages

(* Mutant: the terminal is started before its window is expected. *)
ExpectAfterSpawn ==
  /\ Issuing("terminal")
  /\ \/ /\ at \notin starting
        /\ \A w \in Window : windows[w].origin # at
        /\ starting' = starting \cup {at}
        /\ UNCHANGED <<launcherVars, pc, expected>>
     \/ /\ at \in starting \/ \E w \in Window : windows[w].origin = at
        /\ Expect(Current.app, at)
        /\ expected' = NextId("expect")
        /\ pc' = "spawn"
        /\ UNCHANGED starting
  /\ UNCHANGED <<plan, at, outstanding, round, late, results, outages,
                 failures>>

(* ExpectWindow, for a terminal: the daemon starts it itself, afterwards. *)
ExpectWindow ==
  /\ Issuing("terminal")
  /\ Expect(Current.app, at)
  /\ expected' = NextId("expect")
  /\ pc' = "spawn"
  /\ UNCHANGED <<plan, at, outstanding, round, late, results, envVars>>

(* A call that the extension is not there for, or does not answer within   *)
(* CALL_TIMEOUT_MS: the action has failed.  What was not answered in time  *)
(* may still be carried out.                                               *)
CallFails ==
  /\ Issuing("launch") \/ Issuing("terminal")
  /\ Conclude("failed")
  /\ \/ /\ ~enabled
        /\ UNCHANGED <<launcherVars, starting, failures>>
     \/ /\ enabled
        /\ Fail
        /\ \/ Issuing("launch") /\ Launch(Current.app, at, "waiting")
              /\ starting' = starting \cup {at}
           \/ Issuing("terminal") /\ Expect(Current.app, at)
              /\ UNCHANGED starting
  /\ UNCHANGED outages

(* spawn(terminal_argv(...)); when it fails the expectation stays. *)
Spawn ==
  /\ pc = "spawn"
  /\ Await(expected)
  /\ starting' = starting \cup {at}
  /\ UNCHANGED <<launcherVars, outages, failures>>

SpawnFails ==
  /\ pc = "spawn"
  /\ Fail
  /\ Conclude("failed")
  /\ UNCHANGED <<launcherVars, starting, outages>>

(* The last action has been issued: the deadline is counted from here. *)
StartPolling ==
  /\ pc = "issue" /\ at > Len(plan)
  /\ pc' = "poll"
  /\ UNCHANGED <<launcherVars, plan, at, expected, outstanding, round, late,
                 results, envVars>>

-----------------------------------------------------------------------------
(* The polling loop *)

(* wait_seconds have passed. *)
Deadline ==
  /\ pc \in {"poll", "ask"}
  /\ ~late
  /\ late' = TRUE
  /\ UNCHANGED <<launcherVars, plan, pc, at, expected, outstanding, round,
                 results, envVars>>

(* The condition of the while loop, and sleep(0.5). *)
StartRound ==
  /\ pc = "poll"
  /\ outstanding # <<>> /\ ~late
  /\ pc' = "ask"
  /\ round' = outstanding
  /\ outstanding' = <<>>
  /\ UNCHANGED <<launcherVars, plan, at, expected, late, results, envVars>>

Settled == {"placed", "failed", "timeout", "unknown"}

(* Mutant: the result has the launcher's word for it. *)
ResultForRaw(issued) ==
  [action |-> issued.action, state |-> ReportedState(issued.id),
   refused |-> FALSE]

(* Mutant: a launch that has not failed is done, timed out or not. *)
ResultForUnlessFailed(issued) ==
  [action |-> issued.action,
   state |-> IF ReportedState(issued.id) = "failed" THEN "failed" ELSE "done",
   refused |-> FALSE]

(* _result_for() *)
ResultFor(issued) ==
  [action |-> issued.action,
   state |-> IF ReportedState(issued.id) = "placed" THEN "done" ELSE "failed",
   refused |-> ReportedState(issued.id) = "placed" /\ ReportedRefusal(issued.id)]

(* Mutant: a launch that has its result is asked about again. *)
AskAndKeep ==
  /\ pc = "ask" /\ round # <<>>
  /\ enabled
  /\ round' = Tail(round)
  /\ outstanding' = Append(outstanding, Head(round))
  /\ \/ ReportedState(Head(round).id) \in Settled
        /\ results' = Append(results, ResultFor(Head(round)))
     \/ ReportedState(Head(round).id) \notin Settled /\ UNCHANGED results
  /\ UNCHANGED <<launcherVars, plan, pc, at, expected, late, envVars>>

(* GetLaunchReport for the next of them. *)
Ask ==
  /\ pc = "ask" /\ round # <<>>
  /\ enabled
  /\ round' = Tail(round)
  /\ \/ /\ ReportedState(Head(round).id) \in Settled
        /\ results' = Append(results, ResultFor(Head(round)))
        /\ UNCHANGED outstanding
     \/ /\ ReportedState(Head(round).id) \notin Settled
        /\ outstanding' = Append(outstanding, Head(round))
        /\ UNCHANGED results
  /\ UNCHANGED <<launcherVars, plan, pc, at, expected, late, envVars>>

(* GetLaunchReport fails: nothing catches that, the restore ends here. *)
AskFails ==
  /\ pc = "ask" /\ round # <<>>
  /\ \/ ~enabled /\ UNCHANGED failures
     \/ enabled /\ Fail
  /\ pc' = "raised"
  /\ UNCHANGED <<launcherVars, plan, at, expected, outstanding, round, late,
                 results, starting, outages>>

EndRound ==
  /\ pc = "ask" /\ round = <<>>
  /\ pc' = "poll"
  /\ UNCHANGED <<launcherVars, plan, at, expected, outstanding, round, late,
                 results, envVars>>

(* Mutant: the loop goes on until every launch has its result. *)
FinishWithoutDeadline ==
  /\ pc = "poll"
  /\ outstanding = <<>>
  /\ pc' = "done"
  /\ UNCHANGED <<launcherVars, plan, at, expected, outstanding, round, late,
                 results, envVars>>

(* Whatever is left is pending; the answer goes out.                       *)
Finish ==
  /\ pc = "poll"
  /\ outstanding = <<>> \/ late
  /\ results' = results \o
       [n \in DOMAIN outstanding |->
          [action |-> outstanding[n].action, state |-> "pending",
           refused |-> FALSE]]
  /\ outstanding' = <<>>
  /\ pc' = "done"
  /\ UNCHANGED <<launcherVars, plan, at, expected, round, late, envVars>>

DaemonStep ==
  \/ EnsureWorkspaces
  \/ Place
  \/ LaunchApp
  \/ ExpectWindow
  \/ CallFails
  \/ Spawn
  \/ SpawnFails
  \/ StartPolling
  \/ StartRound
  \/ Ask
  \/ AskFails
  \/ EndRound
  \/ Finish

-----------------------------------------------------------------------------
(* Everything else *)

UserWindows == {w \in Window : /\ windows[w].phase # "none"
                               /\ windows[w].origin = 0
                               /\ PlaceActions(plan, w) = {}}

(* An application that was started opens its window, or the user opens one *)
(* of his own.                                                             *)
ApplicationOpensWindow ==
  \E w \in Window, i \in starting, refuses \in Refusals :
    /\ WindowCreated(w, plan[i].app, i, refuses)
    /\ starting' = starting \ {i}
    /\ UNCHANGED <<runVars, outages, failures>>

UserOpensWindow ==
  /\ Cardinality(UserWindows) < MaxUserWindows
  /\ \E w \in Window, app \in App, refuses \in Refusals :
       WindowCreated(w, app, 0, refuses)
  /\ UNCHANGED <<runVars, envVars>>

WindowStep ==
  /\ \E w \in Window :
       Notify(w) \/ Backstop(w) \/ FirstBuffer(w) \/ Acknowledge(w)
         \/ WindowCloses(w)
  /\ UNCHANGED <<runVars, envVars>>

LauncherTimer ==
  /\ \/ \E n \in DOMAIN records : LaunchTimeout(n)
     \/ \E task \in tasks : PlaceWhenReady(task) \/ PlaceThrows(task)
  /\ UNCHANGED <<runVars, envVars>>

ExtensionStep ==
  /\ \/ Disable /\ outages < MaxOutages /\ outages' = outages + 1
     \/ Enable /\ UNCHANGED outages
  /\ UNCHANGED <<runVars, starting, failures>>

Next ==
  \/ DaemonStep
  \/ Deadline
  \/ ApplicationOpensWindow
  \/ UserOpensWindow
  \/ WindowStep
  \/ LauncherTimer
  \/ ExtensionStep

Spec == Init /\ [][Next]_vars

(* The daemon does nothing but this, every call to the extension returns   *)
(* or times out, and the clock goes on.                                    *)
FairSpec == Spec /\ WF_vars(DaemonStep) /\ WF_vars(Deadline)

-----------------------------------------------------------------------------
(* Properties *)

Count(i) ==
  LET of(s) == Cardinality({n \in DOMAIN s : s[n].action = i})
  IN of(outstanding) + of(round) + of(results)

(* Every action of the plan has exactly one result when the answer goes    *)
(* out, and none is lost or reported twice on the way: not while a round   *)
(* of polling is half done, not when a launch settles in the middle of it  *)
(* (restore.py:96-146).                                                    *)
EveryActionOnce ==
  /\ \A i \in DOMAIN plan : Count(i) = IF i < at THEN 1 ELSE 0
  /\ pc = "done" => \A i \in DOMAIN plan :
                      \E n \in DOMAIN results : results[n].action = i

(* However late a placement comes - on a notification, from a timer, after *)
(* the records were forgotten - it is applied to a window of the           *)
(* application the plan has it for (placement.js:301-345).                 *)
RightApplication ==
  \A task \in moved \cup tasks :
    windows[task.window].app = plan[task.for].app

Launched(i) == plan[i].kind # "place"

(* A launch is reported as done only when a window was attributed to it    *)
(* (restore.py:217-225) - as long as the extension is not disabled         *)
(* meanwhile: with enable() the launch ids start again at 1, and a result  *)
(* may then be that of another launch (placement.js:161-165).              *)
DoneIsClaimed ==
  outages = 0 =>
    \A n \in DOMAIN results :
      results[n].state = "done" /\ Launched(results[n].action) =>
        \E task \in claims : task.for = results[n].action

(* Nobody else asks for the same application: its window is unmistakable.  *)
Unmistakable(i) ==
  /\ \A j \in DOMAIN plan : plan[j].app = plan[i].app => j = i
  /\ \A w \in UserWindows : windows[w].app # plan[i].app

(* The window an application opens goes to the request that started it,    *)
(* unless the Shell did not know it in time or the launcher had given up:  *)
(* it is expected before it can appear, however early that is              *)
(* (restore.py:107-114, placement.js:233-241).                             *)
OwnWindowClaimed ==
  \A w \in Window :
    LET i == windows[w].origin IN
      /\ outages = 0 /\ i # 0 /\ Unmistakable(i)
      /\ windows[w].phase = "open" /\ windows[w].known
      => \/ [for |-> i, window |-> w] \in claims
         \/ \E n \in DOMAIN records :
              records[n].for = i /\ records[n].state = "timeout"

(* A restore ends, whatever the extension and the applications do          *)
(* (restore.py:129-146).                                                   *)
RestoreEnds == <>(pc \in {"done", "raised"})
=============================================================================
