------------------------- MODULE RestoreRun_proofs -------------------------
(***************************************************************************)
(* Proofs about RestoreRun: its types, that the daemon and everything      *)
(* around it is one of the requesters Launcher allows for - so that what   *)
(* Launcher_proofs proves holds of every restore - and that no placement   *)
(* ever reaches a window of another application.                           *)
(***************************************************************************)
EXTENDS RestoreRun, Launcher_proofs, FiniteSetTheorems

(* A record is kept for an action of the plan, under its application.      *)
RecordsServe ==
  \A n \in DOMAIN records :
    /\ records[n].for \in DOMAIN plan
    /\ records[n].app = plan[records[n].for].app

(* The windows of the place actions are there, and are what the plan says. *)
PlacesThere ==
  \A i \in DOMAIN plan : plan[i].kind = "place" =>
    /\ plan[i].window \in Window
    /\ windows[plan[i].window].phase # "none"
    /\ windows[plan[i].window].app = plan[i].app

(* RightApplication, of windows that have been created.                    *)
PlacementsRight ==
  \A task \in moved \cup tasks :
    /\ task.for \in DOMAIN plan
    /\ windows[task.window].phase # "none"
    /\ windows[task.window].app = plan[task.for].app

Attribution == RecordsServe /\ PlacesThere /\ PlacementsRight

IInv ==
  /\ TypeOK
  /\ pc = "spawn" => at \in DOMAIN plan /\ expected \in LaunchId
  /\ starting \subseteq DOMAIN plan
  /\ Attribution

-----------------------------------------------------------------------------
(* Every step is a step of the launcher *)

LEMMA PlanFacts ==
  ASSUME plan \in Seq(Action), DOMAIN plan \subseteq Request, NEW i \in DOMAIN plan
  PROVE  /\ i \in Request /\ i \in Nat
         /\ plan[i] \in Action
         /\ plan[i].app \in App
<1>1. i \in Request /\ i \in Nat /\ plan[i] \in Action
  BY RequestAssumption
<1>2. QED
  BY <1>1 DEF Action

LEMMA CurrentFacts ==
  ASSUME TypeOK, NEW kind, Issuing(kind)
  PROVE  /\ at \in DOMAIN plan
         /\ at \in Request
         /\ Current \in Action
         /\ Current.app \in App
<1>1. at \in DOMAIN plan
  BY DEF TypeOK, Issuing
<1>2. QED
  BY <1>1, PlanFacts DEF TypeOK, Current

LEMMA EveryStep == IInv /\ [Next]_vars => [LauncherNext]_launcherVars
<1> SUFFICES ASSUME IInv, [Next]_vars
             PROVE  LauncherNext \/ UNCHANGED launcherVars
  OBVIOUS
<1>0. TypeOK /\ starting \subseteq DOMAIN plan
  BY DEF IInv
<1>1. CASE EnsureWorkspaces \/ Spawn \/ SpawnFails \/ StartPolling \/ StartRound
             \/ Ask \/ AskFails \/ EndRound \/ Finish \/ Deadline
  BY <1>1 DEF EnsureWorkspaces, Spawn, SpawnFails, StartPolling, StartRound,
              Ask, AskFails, EndRound, Finish, Deadline
<1>2. CASE Place
  <2>1. CASE UNCHANGED launcherVars
    BY <2>1
  <2>2. CASE PlaceWindow(Current.window, at)
    <3>1. at \in DOMAIN plan /\ at \in Request /\ Current.kind = "place"
      BY <1>0, <1>2, CurrentFacts DEF Place, Issuing
    <3>2. Current.window \in Window
      BY <3>1 DEF IInv, Attribution, PlacesThere, Current
    <3>3. QED
      BY <2>2, <3>1, <3>2 DEF LauncherNext, RequestStep
  <2>3. QED
    BY <1>2, <2>1, <2>2 DEF Place
<1>3. CASE LaunchApp \/ ExpectWindow \/ CallFails
  <2>1. Issuing("launch") \/ Issuing("terminal")
    BY <1>3 DEF LaunchApp, ExpectWindow, CallFails
  <2>2. at \in Request /\ Current.app \in App
    BY <1>0, <2>1, CurrentFacts
  <2>3. \/ Launch(Current.app, at, "waiting")
        \/ Launch(Current.app, at, "failed")
        \/ Expect(Current.app, at)
        \/ UNCHANGED launcherVars
    BY <1>3 DEF LaunchApp, ExpectWindow, CallFails
  <2>4. QED
    BY <2>2, <2>3 DEF LauncherNext, RequestStep
<1>4. CASE ApplicationOpensWindow
  <2>1. PICK w \in Window, i \in starting, refuses \in Refusals :
          WindowCreated(w, plan[i].app, i, refuses)
    BY <1>4 DEF ApplicationOpensWindow
  <2>2. i \in Request /\ plan[i].app \in App
    BY <1>0, PlanFacts DEF TypeOK
  <2>3. refuses \in BOOLEAN
    BY RefusalsAssumption
  <2>4. QED
    BY <2>1, <2>2, <2>3 DEF LauncherNext, ShellStep
<1>5. CASE UserOpensWindow
  BY <1>5, RefusalsAssumption DEF UserOpensWindow, LauncherNext, ShellStep
<1>6. CASE WindowStep
  BY <1>6 DEF WindowStep, LauncherNext, ShellStep
<1>7. CASE LauncherTimer
  BY <1>7 DEF LauncherTimer, LauncherNext
<1>8. CASE ExtensionStep
  BY <1>8 DEF ExtensionStep, LauncherNext
<1>9. CASE UNCHANGED vars
  BY <1>9 DEF vars
<1>10. QED
  BY <1>1, <1>2, <1>3, <1>4, <1>5, <1>6, <1>7, <1>8, <1>9 DEF Next, DaemonStep

-----------------------------------------------------------------------------
(* Types *)

LEMMA NextIdType ==
  ASSUME LauncherTypeOK, NEW kind \in Kinds
  PROVE  NextId(kind) \in LaunchId
  BY DEF LauncherTypeOK, NextId, LaunchId

LEMMA ConcludeTypes ==
  ASSUME TypeOK, at \in DOMAIN plan, NEW state \in {"done", "failed"},
         Conclude(state)
  PROVE  /\ plan' = plan /\ pc' = "issue"
         /\ at' \in 1 .. Len(plan) + 1
         /\ expected' = NoId
         /\ outstanding' = outstanding /\ round' = round /\ late' = late
         /\ results' \in Seq(Result)
<1>1. at \in Request
  BY PlanFacts DEF TypeOK
<1>2. [action |-> at, state |-> state, refused |-> FALSE] \in Result
  BY <1>1 DEF Result
<1>3. at' \in 1 .. Len(plan) + 1
  BY DEF TypeOK, Conclude
<1>4. QED
  BY <1>2, <1>3 DEF TypeOK, Conclude

LEMMA AwaitTypes ==
  ASSUME TypeOK, at \in DOMAIN plan, NEW id \in LaunchId, Await(id)
  PROVE  /\ plan' = plan /\ pc' = "issue"
         /\ at' \in 1 .. Len(plan) + 1
         /\ expected' = NoId
         /\ outstanding' \in Seq(Issued)
         /\ round' = round /\ late' = late /\ results' = results
<1>1. at \in Request
  BY PlanFacts DEF TypeOK
<1>2. [action |-> at, id |-> id] \in Issued
  BY <1>1 DEF Issued
<1>3. at' \in 1 .. Len(plan) + 1
  BY DEF TypeOK, Await
<1>4. QED
  BY <1>2, <1>3 DEF TypeOK, Await

LEMMA ResultForTypes ==
  ASSUME NEW issued \in Issued
  PROVE  ResultFor(issued) \in Result
  BY DEF Issued, Result, ResultFor, ReportedRefusal, ReportedState, Known

(* The half of IInv that is not about the launcher, but for Attribution.   *)
RunTypes ==
  /\ plan' = plan
  /\ pc' \in {"begin", "issue", "spawn", "poll", "ask", "done", "raised"}
  /\ at' \in 1 .. Len(plan) + 1
  /\ expected' \in LaunchId \cup {NoId}
  /\ outstanding' \in Seq(Issued) /\ round' \in Seq(Issued)
  /\ late' \in BOOLEAN
  /\ results' \in Seq(Result)
  /\ pc' = "spawn" => at' \in DOMAIN plan /\ expected' \in LaunchId
  /\ starting' \subseteq DOMAIN plan
  /\ outages' \in Nat /\ failures' \in Nat

LEMMA RunTypesStep == IInv /\ [Next]_vars => RunTypes
<1> SUFFICES ASSUME IInv, [Next]_vars PROVE RunTypes
  OBVIOUS
<1> USE DEF IInv
<1>1. CASE EnsureWorkspaces
  BY <1>1 DEF EnsureWorkspaces, Fail, TypeOK, RunTypes
<1>2. CASE Place
  <2>1. at \in DOMAIN plan
    BY <1>2, CurrentFacts DEF Place
  <2>2. Conclude("done") \/ Conclude("failed")
    BY <1>2 DEF Place
  <2>3. UNCHANGED <<starting, outages>> /\ failures' \in {failures, failures + 1}
    BY <1>2 DEF Place, Fail
  <2>4. QED
    BY <2>1, <2>2, <2>3, ConcludeTypes DEF TypeOK, RunTypes
<1>3. CASE LaunchApp
  <2>1. at \in DOMAIN plan
    BY <1>3, CurrentFacts DEF LaunchApp
  <2>2. NextId("launch") \in LaunchId
    BY NextIdType DEF Kinds, TypeOK
  <2>3. starting' \subseteq DOMAIN plan /\ outages' \in Nat /\ failures' \in Nat
    BY <1>3, <2>1 DEF LaunchApp, TypeOK, Fail
  <2>4. Await(NextId("launch"))
    BY <1>3 DEF LaunchApp
  <2>5. QED
    BY <2>1, <2>2, <2>3, <2>4, AwaitTypes DEF TypeOK, RunTypes
<1>4. CASE ExpectWindow
  <2>1. at \in DOMAIN plan
    BY <1>4, CurrentFacts DEF ExpectWindow
  <2>2. NextId("expect") \in LaunchId
    BY NextIdType DEF Kinds, TypeOK
  <2>3. QED
    BY <1>4, <2>1, <2>2 DEF ExpectWindow, TypeOK, RunTypes, envVars
<1>5. CASE CallFails
  <2>1. at \in DOMAIN plan
    BY <1>5, CurrentFacts DEF CallFails
  <2>2. starting' \subseteq DOMAIN plan /\ outages' \in Nat /\ failures' \in Nat
    BY <1>5, <2>1 DEF CallFails, TypeOK, Fail
  <2>3. Conclude("failed")
    BY <1>5 DEF CallFails
  <2>4. QED
    BY <2>1, <2>2, <2>3, ConcludeTypes DEF TypeOK, RunTypes
<1>6. CASE Spawn
  <2>1. at \in DOMAIN plan /\ expected \in LaunchId /\ Await(expected)
    BY <1>6 DEF Spawn
  <2>2. starting' \subseteq DOMAIN plan /\ outages' \in Nat /\ failures' \in Nat
    BY <1>6, <2>1 DEF Spawn, TypeOK
  <2>3. QED
    BY <2>1, <2>2, AwaitTypes DEF TypeOK, RunTypes
<1>7. CASE SpawnFails
  <2>1. at \in DOMAIN plan /\ Conclude("failed")
    BY <1>7 DEF SpawnFails
  <2>2. starting' \subseteq DOMAIN plan /\ outages' \in Nat /\ failures' \in Nat
    BY <1>7 DEF SpawnFails, TypeOK, Fail
  <2>3. QED
    BY <2>1, <2>2, ConcludeTypes DEF TypeOK, RunTypes
<1>8. CASE StartPolling \/ StartRound \/ EndRound \/ Deadline
  <2>1. CASE StartPolling
    BY <2>1 DEF StartPolling, TypeOK, RunTypes, envVars
  <2>2. CASE StartRound
    BY <2>2 DEF StartRound, TypeOK, RunTypes, envVars
  <2>3. CASE EndRound
    BY <2>3 DEF EndRound, TypeOK, RunTypes, envVars
  <2>4. CASE Deadline
    BY <2>4 DEF Deadline, TypeOK, RunTypes, envVars
  <2>5. QED
    BY <1>8, <2>1, <2>2, <2>3, <2>4
<1>9. CASE Ask
  <2>1. Head(round) \in Issued /\ Tail(round) \in Seq(Issued)
    <3>1. round # <<>> /\ round \in Seq(Issued)
      BY <1>9 DEF Ask, TypeOK
    <3>2. QED
      BY <3>1
  <2>2. ResultFor(Head(round)) \in Result
    BY <2>1, ResultForTypes
  <2>3. outstanding' \in Seq(Issued) /\ results' \in Seq(Result)
    <3>1. outstanding \in Seq(Issued) /\ results \in Seq(Result)
      BY DEF TypeOK
    <3>2. /\ outstanding' \in {outstanding, Append(outstanding, Head(round))}
          /\ results' \in {results, Append(results, ResultFor(Head(round)))}
      BY <1>9 DEF Ask
    <3>3. Append(outstanding, Head(round)) \in Seq(Issued)
      BY <2>1, <3>1
    <3>4. \A result \in Result : Append(results, result) \in Seq(Result)
      BY <3>1
    <3>5. QED
      BY <2>2, <3>1, <3>2, <3>3, <3>4
  <2>4. QED
    BY <1>9, <2>1, <2>3 DEF Ask, TypeOK, RunTypes, envVars
<1>10. CASE AskFails
  BY <1>10 DEF AskFails, Fail, TypeOK, RunTypes
<1>11. CASE Finish
  <2> DEFINE pending ==
        [n \in DOMAIN outstanding |->
           [action |-> outstanding[n].action, state |-> "pending",
            refused |-> FALSE]]
  <2>1. ASSUME NEW n \in DOMAIN outstanding
        PROVE  pending[n] \in Result
    <3>1. outstanding[n] \in Issued
      BY DEF TypeOK
    <3>2. QED
      BY <3>1 DEF Issued, Result
  <2>2. pending \in Seq(Result)
    <3>1. pending \in [1 .. Len(outstanding) -> Result]
          /\ Len(outstanding) \in Nat
      BY <2>1 DEF TypeOK
    <3> HIDE DEF pending
    <3>2. QED
      BY <3>1
  <2>3. results' = results \o pending
    BY <1>11 DEF Finish
  <2>4. results' \in Seq(Result)
    <3> HIDE DEF pending
    <3>1. QED
      BY <2>2, <2>3 DEF TypeOK
  <2>5. QED
    BY <1>11, <2>4 DEF Finish, TypeOK, RunTypes, envVars
<1>12. CASE ApplicationOpensWindow
  BY <1>12 DEF ApplicationOpensWindow, TypeOK, RunTypes, runVars
<1>13. CASE UserOpensWindow \/ WindowStep \/ LauncherTimer
  BY <1>13 DEF UserOpensWindow, WindowStep, LauncherTimer, TypeOK, RunTypes,
               runVars, envVars
<1>14. CASE ExtensionStep
  BY <1>14 DEF ExtensionStep, TypeOK, RunTypes, runVars
<1>15. CASE UNCHANGED vars
  BY <1>15 DEF vars, TypeOK, RunTypes, runVars, envVars
<1>16. QED
  BY <1>1, <1>2, <1>3, <1>4, <1>5, <1>6, <1>7, <1>8, <1>9, <1>10, <1>11,
     <1>12, <1>13, <1>14, <1>15 DEF Next, DaemonStep

-----------------------------------------------------------------------------
(* Attribution *)

LEMMA TaskWindows ==
  ASSUME LauncherTypeOK, NEW task \in moved \cup tasks
  PROVE  task.window \in Window
<1>1. task \in Task
  BY DEF LauncherTypeOK
<1>2. QED
  BY <1>1 DEF Task

(* A step that adds no record and no placement, and in which no window     *)
(* changes its application.                                                *)
LEMMA AttributionUndisturbed ==
  ASSUME LauncherTypeOK, Attribution, plan' = plan,
         DOMAIN records' \subseteq DOMAIN records,
         \A n \in DOMAIN records' :
           /\ records'[n].for = records[n].for
           /\ records'[n].app = records[n].app,
         moved' \cup tasks' \subseteq moved \cup tasks,
         \A w \in Window : windows[w].phase # "none" =>
           /\ windows'[w].app = windows[w].app
           /\ windows'[w].phase # "none"
  PROVE  Attribution'
<1>1. RecordsServe'
  BY DEF Attribution, RecordsServe
<1>2. PlacesThere'
  BY DEF Attribution, PlacesThere
<1>3. PlacementsRight'
  BY TaskWindows DEF Attribution, PlacementsRight
<1>4. QED
  BY <1>1, <1>2, <1>3 DEF Attribution

LEMMA AttributionRegistered ==
  ASSUME LauncherTypeOK, Attribution, plan' = plan,
         NEW kind, NEW state, NEW r \in DOMAIN plan,
         records' = Registered(kind, state, plan[r].app, r),
         UNCHANGED <<windows, tasks, moved>>
  PROVE  Attribution'
<1>1. /\ DOMAIN records = 1 .. Len(records) /\ Len(records) \in Nat
      /\ DOMAIN records' = 1 .. (Len(records) + 1)
      /\ \A n \in DOMAIN records : records'[n] = records[n]
  BY DEF LauncherTypeOK, Registered
<1>2. /\ records'[Len(records) + 1].for = r
      /\ records'[Len(records) + 1].app = plan[r].app
  BY DEF LauncherTypeOK, Registered
<1>3. \A n \in DOMAIN records' : n \in DOMAIN records \/ n = Len(records) + 1
  BY <1>1
<1>4. RecordsServe'
  BY <1>1, <1>2, <1>3 DEF Attribution, RecordsServe
<1>5. QED
  BY <1>4 DEF Attribution, PlacesThere, PlacementsRight

LEMMA AttributionMatched ==
  ASSUME LauncherTypeOK, Attribution, plan' = plan,
         NEW w \in Window, NEW now \in WindowState,
         now.phase # "none",
         windows[w].phase # "none" => now.app = windows[w].app,
         TryMatch(w, now)
  PROVE  Attribution'
<1>1. windows \in [Window -> WindowState]
      /\ windows' = [windows EXCEPT ![w] = now]
  BY DEF TryMatch, LauncherTypeOK
<1>2. \A v \in Window : windows[v].phase # "none" =>
        windows'[v].app = windows[v].app /\ windows'[v].phase # "none"
  BY <1>1
<1>3. CASE UNCHANGED <<records, tasks, moved>>
  BY <1>2, <1>3, AttributionUndisturbed
<1>4. ASSUME NEW k \in Oldest(Waiting(now.app)), NEW task,
             task = [for |-> records[k].for, window |-> w],
             records' = [records EXCEPT ![k] =
                          [@ EXCEPT !.state = "placed", !.window = w,
                                    !.requested = (now.size # "none")]],
             moved' \cup tasks' \subseteq moved \cup tasks \cup {task}
      PROVE  Attribution'
  <2>1. /\ k \in DOMAIN records
        /\ records[k] \in Record
        /\ records[k].app = now.app
    BY DEF Oldest, Waiting, LauncherTypeOK
  <2>2. /\ DOMAIN records' = DOMAIN records
        /\ \A m \in DOMAIN records : m # k => records'[m] = records[m]
    BY <1>4 DEF LauncherTypeOK
  <2>3. records'[k].for = records[k].for /\ records'[k].app = records[k].app
    BY <1>4, <2>1 DEF Record
  <2>4. RecordsServe'
    BY <2>2, <2>3 DEF Attribution, RecordsServe
  <2>5. PlacesThere'
    BY <1>2 DEF Attribution, PlacesThere
  <2>6. /\ task.for \in DOMAIN plan
        /\ windows'[task.window].phase # "none"
        /\ windows'[task.window].app = plan[task.for].app
    BY <1>1, <1>4, <2>1 DEF Attribution, RecordsServe
  <2>7. PlacementsRight'
    BY <1>2, <1>4, <2>6, TaskWindows DEF Attribution, PlacementsRight
  <2>8. QED
    BY <2>4, <2>5, <2>7 DEF Attribution
<1>5. QED
  BY <1>3, <1>4 DEF TryMatch

LEMMA AttributionStep == IInv /\ [Next]_vars => Attribution'
<1> SUFFICES ASSUME IInv, [Next]_vars PROVE Attribution'
  OBVIOUS
<1>0. /\ TypeOK /\ LauncherTypeOK /\ Attribution
      /\ starting \subseteq DOMAIN plan
      /\ plan' = plan
  BY RunTypesStep DEF IInv, TypeOK, RunTypes
<1>1. CASE UNCHANGED launcherVars
  BY <1>0, <1>1 DEF launcherVars, Attribution, RecordsServe, PlacesThere,
                    PlacementsRight
<1>2. CASE Place /\ PlaceWindow(Current.window, at)
  <2>1. at \in DOMAIN plan /\ Current.kind = "place"
    BY <1>0, <1>2, CurrentFacts DEF Place, Issuing
  <2>2. /\ moved' = moved \cup {[for |-> at, window |-> Current.window]}
        /\ UNCHANGED <<records, windows, tasks>>
    BY <1>2 DEF PlaceWindow
  <2>3. /\ windows[Current.window].phase # "none"
        /\ windows[Current.window].app = plan[at].app
    BY <1>0, <2>1 DEF Attribution, PlacesThere, Current
  <2>4. PlacementsRight'
    BY <1>0, <2>1, <2>2, <2>3 DEF Attribution, PlacementsRight
  <2>5. QED
    BY <1>0, <2>2, <2>4 DEF Attribution, RecordsServe, PlacesThere
<1>3. CASE LaunchApp \/ ExpectWindow \/ CallFails
  <2>1. at \in DOMAIN plan
    BY <1>0, <1>3, CurrentFacts DEF LaunchApp, ExpectWindow, CallFails
  <2>2. \/ Launch(plan[at].app, at, "waiting")
        \/ Launch(plan[at].app, at, "failed")
        \/ Expect(plan[at].app, at)
        \/ UNCHANGED launcherVars
    BY <1>3 DEF LaunchApp, ExpectWindow, CallFails, Current
  <2>3. CASE \E outcome : Launch(plan[at].app, at, outcome)
    BY <1>0, <2>1, <2>3, AttributionRegistered DEF Launch
  <2>4. CASE Expect(plan[at].app, at)
    BY <1>0, <2>1, <2>4, AttributionRegistered DEF Expect
  <2>5. QED
    BY <1>1, <2>2, <2>3, <2>4
<1>4. ASSUME NEW w \in Window, NEW app \in App,
             NEW origin \in Request \cup {0}, NEW refuses \in BOOLEAN,
             WindowCreated(w, app, origin, refuses)
      PROVE  Attribution'
  <2>1. PICK known \in BOOLEAN :
          TryMatch(w, [phase |-> IF enabled THEN "watched" ELSE "open",
                       app |-> app, known |-> known, size |-> "none",
                       refuses |-> refuses, origin |-> origin])
    BY <1>4 DEF WindowCreated
  <2> DEFINE now == [phase |-> IF enabled THEN "watched" ELSE "open",
                     app |-> app, known |-> known, size |-> "none",
                     refuses |-> refuses, origin |-> origin]
  <2>2. now \in WindowState /\ now.phase # "none"
    BY DEF WindowState
  <2>3. windows[w].phase = "none"
    BY <1>4 DEF WindowCreated
  <2>4. QED
    BY <1>0, <2>1, <2>2, <2>3, AttributionMatched
<1>5. CASE ApplicationOpensWindow
  <2>1. PICK w \in Window, i \in starting, refuses \in Refusals :
          WindowCreated(w, plan[i].app, i, refuses)
    BY <1>5 DEF ApplicationOpensWindow
  <2>2. i \in Request /\ plan[i].app \in App
    BY <1>0, PlanFacts DEF TypeOK
  <2>3. refuses \in BOOLEAN
    BY RefusalsAssumption
  <2>4. QED
    BY <1>4, <2>1, <2>2, <2>3
<1>6. CASE UserOpensWindow
  BY <1>4, <1>6, RefusalsAssumption DEF UserOpensWindow
<1>7. ASSUME NEW w \in Window, Notify(w)
      PROVE  Attribution'
  <2> DEFINE now == [windows[w] EXCEPT !.known = TRUE]
  <2>1. windows[w] \in WindowState
    BY <1>0 DEF LauncherTypeOK
  <2>2. /\ now \in WindowState
        /\ now.phase = windows[w].phase
        /\ now.app = windows[w].app
    BY <2>1 DEF WindowState
  <2>3. now.phase # "none" /\ TryMatch(w, now)
    BY <1>7, <2>2 DEF Notify
  <2>4. QED
    BY <1>0, <2>2, <2>3, AttributionMatched
<1>8. ASSUME NEW w \in Window, Backstop(w)
      PROVE  Attribution'
  <2>1. PICK known \in {windows[w].known, TRUE} :
          TryMatch(w, [windows[w] EXCEPT !.phase = "open", !.known = known])
    BY <1>8 DEF Backstop
  <2> DEFINE now == [windows[w] EXCEPT !.phase = "open", !.known = known]
  <2>0. windows[w] \in WindowState
    BY <1>0 DEF LauncherTypeOK
  <2>2. windows[w] \in WindowState /\ known \in BOOLEAN
    BY <2>0, <2>1 DEF WindowState
  <2>3. now \in WindowState /\ now.phase # "none" /\ now.app = windows[w].app
    BY <2>2 DEF WindowState
  <2>4. QED
    BY <1>0, <2>1, <2>3, AttributionMatched
<1>9. ASSUME NEW w \in Window, FirstBuffer(w) \/ Acknowledge(w) \/ WindowCloses(w)
      PROVE  Attribution'
  <2>1. \A v \in Window : windows[v] \in WindowState
    BY <1>0 DEF LauncherTypeOK
  <2>2. \A v \in Window : windows[v].phase # "none" =>
          windows'[v].app = windows[v].app /\ windows'[v].phase # "none"
    <3>1. CASE FirstBuffer(w)
      BY <1>0, <2>1, <3>1 DEF LauncherTypeOK, WindowState, FirstBuffer
    <3>2. CASE Acknowledge(w)
      BY <1>0, <2>1, <3>2 DEF LauncherTypeOK, WindowState, Acknowledge
    <3>3. CASE WindowCloses(w)
      BY <1>0, <2>1, <3>3 DEF LauncherTypeOK, WindowState, WindowCloses
    <3>4. QED
      BY <1>9, <3>1, <3>2, <3>3
  <2>3. UNCHANGED <<records, tasks, moved>>
    BY <1>9 DEF FirstBuffer, Acknowledge, WindowCloses
  <2>4. QED
    BY <1>0, <2>2, <2>3, AttributionUndisturbed
<1>10. CASE WindowStep
  BY <1>7, <1>8, <1>9, <1>10 DEF WindowStep
<1>11. ASSUME NEW n \in DOMAIN records, LaunchTimeout(n)
       PROVE  Attribution'
  <2>1. \A m \in DOMAIN records : records[m] \in Record
    BY <1>0 DEF LauncherTypeOK
  <2>2. /\ DOMAIN records' = DOMAIN records
        /\ \A m \in DOMAIN records :
             records'[m].for = records[m].for /\ records'[m].app = records[m].app
    BY <1>0, <1>11, <2>1 DEF LaunchTimeout, LauncherTypeOK, Record
  <2>3. QED
    BY <1>0, <1>11, <2>2, AttributionUndisturbed DEF LaunchTimeout
<1>12. ASSUME NEW task \in tasks, PlaceWhenReady(task) \/ PlaceThrows(task)
       PROVE  Attribution'
  <2>1. /\ DOMAIN records' = DOMAIN records
        /\ UNCHANGED windows
        /\ moved' \cup tasks' \subseteq moved \cup tasks
    BY <1>12 DEF PlaceWhenReady, PlaceThrows
  <2>2. ASSUME NEW m \in DOMAIN records
        PROVE  records'[m].for = records[m].for /\ records'[m].app = records[m].app
    <3>1. records[m] \in Record
      BY <1>0 DEF LauncherTypeOK
    <3>2. records'[m] \in {records[m], [records[m] EXCEPT !.requested = TRUE],
                           [records[m] EXCEPT !.state = "failed"]}
      BY <1>12 DEF PlaceWhenReady, PlaceThrows
    <3>3. QED
      BY <3>1, <3>2 DEF Record
  <2>3. QED
    BY <1>0, <2>1, <2>2, AttributionUndisturbed
<1>13. CASE LauncherTimer
  BY <1>11, <1>12, <1>13 DEF LauncherTimer
<1>14. CASE ExtensionStep
  <2>1. CASE Disable
    <3>1. \A v \in Window : windows[v] \in WindowState
      BY <1>0 DEF LauncherTypeOK
    <3>2. \A v \in Window : windows[v].phase # "none" =>
            windows'[v].app = windows[v].app /\ windows'[v].phase # "none"
      BY <2>1, <3>1 DEF Disable, WindowState
    <3>3. DOMAIN records' = {} /\ UNCHANGED <<tasks, moved>>
      BY <2>1 DEF Disable
    <3>4. QED
      BY <1>0, <3>2, <3>3, AttributionUndisturbed
  <2>2. CASE Enable
    BY <1>0, <2>2 DEF Enable, Attribution, RecordsServe, PlacesThere,
                      PlacementsRight
  <2>3. QED
    BY <1>14, <2>1, <2>2 DEF ExtensionStep
<1>15. CASE EnsureWorkspaces \/ Spawn \/ SpawnFails \/ StartPolling \/ StartRound
              \/ Ask \/ AskFails \/ EndRound \/ Finish \/ Deadline
              \/ UNCHANGED vars
  BY <1>1, <1>15 DEF EnsureWorkspaces, Spawn, SpawnFails, StartPolling,
     StartRound, Ask, AskFails, EndRound, Finish, Deadline, vars
<1>16. CASE Place
  BY <1>1, <1>2, <1>16 DEF Place
<1>17. QED
  BY <1>3, <1>5, <1>6, <1>10, <1>13, <1>14, <1>15, <1>16 DEF Next, DaemonStep

-----------------------------------------------------------------------------
(* The inductive invariant *)

LEMMA InitIInv == Init => IInv
<1> SUFFICES ASSUME Init PROVE IInv
  OBVIOUS
<1>1. plan \in Seq(Action) /\ DOMAIN plan \subseteq Request
  BY PlansAssumption DEF Init
<1>2. ASSUME NEW i \in DOMAIN plan
      PROVE  plan[i].app \in App /\ plan[i].window \in Window \cup {Unplaced}
  BY <1>1, PlanFacts DEF Action
<1>3. NotThere \in WindowState
  BY AppAssumption DEF NotThere, WindowState
<1>4. ASSUME NEW w \in Window, PlaceActions(plan, w) # {}
      PROVE  /\ windows[w] \in WindowState
             /\ windows[w].phase = "open"
             /\ \E i \in PlaceActions(plan, w) : windows[w].app = plan[i].app
  <2> DEFINE i == CHOOSE i \in PlaceActions(plan, w) : TRUE
  <2>1. i \in PlaceActions(plan, w)
    BY <1>4
  <2>2. i \in DOMAIN plan
    BY <2>1 DEF PlaceActions
  <2>3. windows[w] = [NotThere EXCEPT !.phase = "open", !.known = TRUE,
                                      !.size = "own", !.app = plan[i].app]
    BY <1>4 DEF Init
  <2>4. plan[i].app \in App
    BY <1>2, <2>2
  <2> HIDE DEF i
  <2>5. /\ windows[w] \in WindowState
        /\ windows[w].phase = "open"
        /\ windows[w].app = plan[i].app
    BY <1>3, <2>3, <2>4 DEF WindowState
  <2>6. QED
    BY <2>1, <2>5
<1>5. ASSUME NEW w \in Window, PlaceActions(plan, w) = {}
      PROVE  windows[w] \in WindowState
  BY <1>3, <1>5 DEF Init
<1>6. windows \in [Window -> WindowState]
  BY <1>4, <1>5 DEF Init
<1>0. /\ enabled = TRUE /\ records = <<>> /\ tasks = {}
      /\ claims = {} /\ moved = {}
      /\ pc = "begin" /\ at = 1 /\ expected = NoId
      /\ outstanding = <<>> /\ round = <<>> /\ late = FALSE /\ results = <<>>
      /\ starting = {} /\ outages = 0 /\ failures = 0
  BY Zenon DEF Init
<1>7. LauncherTypeOK
  BY <1>0, <1>6 DEF LauncherTypeOK
<1>8. TypeOK
  <2>1. at \in 1 .. Len(plan) + 1
    BY <1>0, <1>1
  <2>2. outstanding \in Seq(Issued) /\ round \in Seq(Issued)
        /\ results \in Seq(Result)
    BY <1>0
  <2>3. QED
    BY <1>0, <1>1, <1>7, <2>1, <2>2 DEF TypeOK
<1>9. PlacesThere
  <2> SUFFICES ASSUME NEW i \in DOMAIN plan, plan[i].kind = "place"
               PROVE  /\ plan[i].window \in Window
                      /\ windows[plan[i].window].phase # "none"
                      /\ windows[plan[i].window].app = plan[i].app
    BY DEF PlacesThere
  <2>1. plan[i].window # Unplaced /\ plan[i].window \in Window
    BY <1>2, PlansAssumption DEF Init
  <2>2. i \in PlaceActions(plan, plan[i].window)
    BY DEF PlaceActions
  <2>3. \A j \in PlaceActions(plan, plan[i].window) : j = i
    BY <2>1, PlansAssumption DEF PlaceActions, Init
  <2>4. QED
    BY <1>4, <2>1, <2>2, <2>3
<1>10. RecordsServe /\ PlacementsRight
  BY <1>0 DEF RecordsServe, PlacementsRight
<1>11. QED
  BY <1>0, <1>8, <1>9, <1>10 DEF IInv, Attribution

LEMMA InductiveStep == IInv /\ [Next]_vars => IInv'
<1> SUFFICES ASSUME IInv, [Next]_vars PROVE IInv'
  OBVIOUS
<1>1. LauncherTypeOK'
  BY EveryStep, TypeStep DEF IInv, TypeOK
<1>2. RunTypes
  BY RunTypesStep
<1>3. starting' \subseteq Request
  BY <1>2 DEF RunTypes, IInv, TypeOK
<1>4. TypeOK'
  BY <1>1, <1>2, <1>3 DEF RunTypes, IInv, TypeOK
<1>5. Attribution'
  BY AttributionStep
<1>6. QED
  BY <1>2, <1>4, <1>5 DEF RunTypes, IInv

(* Every variable of a restore keeps its type: the results are results of  *)
(* actions, the ids asked about were handed out (restore.py:76-179).       *)
THEOREM RestoreTypeCorrect == Spec => []TypeOK
<1>1. IInv => TypeOK
  BY DEF IInv
<1>2. QED
  BY <1>1, InitIInv, InductiveStep, PTL DEF Spec

(* No placement is ever applied to, or under way for, a window of another  *)
(* application than the plan has it for (placement.js:301-345).            *)
THEOREM RightApplicationAlways == Spec => []RightApplication
<1>1. IInv => RightApplication
  BY DEF IInv, Attribution, PlacementsRight, RightApplication
<1>2. QED
  BY <1>1, InitIInv, InductiveStep, PTL DEF Spec

(* The daemon, the applications and the user together ask of the launcher  *)
(* only what its own specification allows: a restore is a behaviour of     *)
(* LauncherSpec (restore.py:86-146, placement.js:161-346).                 *)
THEOREM RestoreUsesLauncher == Spec => LauncherSpec
<1>1. Init => LauncherInit
  <2> SUFFICES ASSUME Init PROVE LauncherInit
    OBVIOUS
  <2>1. windows \in [Window -> WindowState]
    BY InitIInv DEF IInv, TypeOK, LauncherTypeOK
  <2>2. \A w \in Window : windows[w].phase # "watched"
    BY DEF Init, NotThere
  <2>3. QED
    BY <2>1, <2>2 DEF Init, LauncherInit
<1>2. IInv /\ [Next]_vars => [LauncherNext]_launcherVars
  BY EveryStep
<1>3. QED
  BY <1>1, <1>2, InitIInv, InductiveStep, PTL DEF Spec, LauncherSpec

(* Hence in every restore requests for one application are served in the   *)
(* order of the plan (placement.js:307-319).                               *)
THEOREM RestoreOldestFirst == Spec => []OldestFirst
  BY RestoreUsesLauncher, OldestFirstAlways, PTL

-----------------------------------------------------------------------------
(* Which launch got which window *)

(* The plan is one of those the assumptions are about.                     *)
PlanGiven == plan \in Plans

(* What a record says it was given has been claimed for its request.       *)
RecordsClaimed ==
  \A n \in DOMAIN records :
    /\ records[n].state = "placed" => records[n].window # Unplaced
    /\ records[n].window # Unplaced =>
         [for |-> records[n].for, window |-> records[n].window] \in claims

(* A request is made once, for an action that is not a place action, and   *)
(* before the daemon turns to the next one.                                *)
RequestedOnce ==
  /\ pc = "spawn" => Launched(at)
  /\ \A n \in DOMAIN records :
       /\ Launched(records[n].for)
       /\ records[n].for < at \/ (pc = "spawn" /\ records[n].for = at)
  /\ \A m, n \in DOMAIN records : records[m].for = records[n].for => m = n

(* What was started, and the windows that came of it, belong to requests   *)
(* that have been made; each has one window at most.                       *)
StartedOnce ==
  /\ \A i \in starting : i < at /\ Launched(i)
  /\ \A w \in Window : windows[w].origin # 0 =>
       /\ windows[w].phase # "none"
       /\ windows[w].origin \in DOMAIN plan \ starting
       /\ windows[w].origin < at
       /\ Launched(windows[w].origin)
       /\ windows[w].app = plan[windows[w].origin].app
  /\ \A v, w \in Window :
       windows[v].origin = windows[w].origin /\ windows[w].origin # 0 => v = w

(* Every launch that was begun has its record, which waits, has given up   *)
(* or has a window.                                                        *)
Begun(i) ==
  \/ pc = "spawn" /\ i = at
  \/ i \in starting
  \/ \E w \in Window : windows[w].origin = i
HasRecord(i) ==
  \E n \in DOMAIN records :
    /\ records[n].for = i
    /\ records[n].state \in {"waiting", "timeout"} \/ records[n].window # Unplaced
BegunHasRecord == outages = 0 => \A i \in DOMAIN plan : Begun(i) => HasRecord(i)

(* An unmistakable request is given no window but its own, and that one as *)
(* soon as the Shell knows whose it is.                                    *)
OwnWindowOnly ==
  \A n \in DOMAIN records :
    records[n].window # Unplaced /\ Unmistakable(records[n].for) =>
      windows[records[n].window].origin = records[n].for
KnownIsServed ==
  \A n \in DOMAIN records, w \in Window :
    windows[w].origin = records[n].for /\ windows[w].known
      /\ Unmistakable(records[n].for)
      => records[n].state # "waiting"

Ownership ==
  /\ PlanGiven
  /\ RecordsClaimed
  /\ RequestedOnce
  /\ StartedOnce
  /\ BegunHasRecord
  /\ OwnWindowOnly
  /\ KnownIsServed

-----------------------------------------------------------------------------
(* The steps that could disturb it *)

LEMMA RecordFacts ==
  ASSUME LauncherTypeOK, NEW n \in DOMAIN records
  PROVE  /\ records[n] \in Record
         /\ records[n].for \in Request /\ records[n].for # 0
         /\ records[n].for \in Nat
         /\ records[n].window \in Window \cup {Unplaced}
<1>1. records[n] \in Record
  BY DEF LauncherTypeOK
<1>2. QED
  BY <1>1, RequestAssumption DEF Record

(* Windows that are there stay what they are, so that who has been         *)
(* mistakable stays so.                                                    *)
LEMMA UnmistakableBefore ==
  ASSUME plan' = plan, NEW i,
         \A w \in Window : windows[w].phase # "none" =>
           /\ windows'[w].phase # "none"
           /\ windows'[w].origin = windows[w].origin
           /\ windows'[w].app = windows[w].app,
         Unmistakable(i)'
  PROVE  Unmistakable(i)
<1>1. UserWindows \subseteq UserWindows'
  BY DEF UserWindows, PlaceActions
<1>2. \A w \in UserWindows : windows'[w].app = windows[w].app
  BY DEF UserWindows
<1>3. QED
  BY <1>1, <1>2 DEF Unmistakable

(* The records are as they were, but for a state that a timer has changed. *)
KeepsRecords ==
  /\ DOMAIN records' = DOMAIN records
  /\ \A n \in DOMAIN records :
       /\ records'[n].kind = records[n].kind
       /\ records'[n].for = records[n].for
       /\ records'[n].window = records[n].window
       /\ \/ records'[n].state = records[n].state
          \/ records[n].state = "waiting" /\ records'[n].state = "timeout"
          \/ records[n].window # Unplaced /\ records'[n].state = "failed"

KeepsWindows ==
  \A w \in Window :
    /\ windows'[w].phase = "none" <=> windows[w].phase = "none"
    /\ windows'[w].app = windows[w].app
    /\ windows'[w].known = windows[w].known
    /\ windows'[w].origin = windows[w].origin

(* A step that registers no record and matches no window.                  *)
LEMMA OwnershipKept ==
  ASSUME IInv, IInv', Ownership, plan' = plan, KeepsRecords, KeepsWindows,
         claims' = claims, outages' = 0 => outages = 0,
         \/ at' = at /\ (pc' = "spawn" <=> pc = "spawn")
         \/ at' = at + 1 /\ pc' # "spawn",
         \A i \in starting' : i \in starting \/ (pc = "spawn" /\ i = at /\ at' = at + 1)
  PROVE  Ownership'
<1> USE DEF KeepsRecords, KeepsWindows, Launched
<1>0. at \in Nat /\ LauncherTypeOK /\ plan \in Seq(Action)
  BY DEF IInv, TypeOK
<1>1. \A i : Unmistakable(i)' => Unmistakable(i)
  BY UnmistakableBefore
<1>2. RecordsClaimed'
  BY DEF Ownership, RecordsClaimed
<1>3. RequestedOnce'
  BY <1>0, RecordFacts DEF Ownership, RequestedOnce
<1>4. StartedOnce'
  <2>1. \A i \in starting' : i < at' /\ Launched(i)'
    BY <1>0 DEF Ownership, StartedOnce, RequestedOnce, IInv, TypeOK
  <2>2. ASSUME NEW w \in Window, windows'[w].origin # 0
        PROVE  /\ windows'[w].phase # "none"
               /\ windows'[w].origin \in DOMAIN plan' \ starting'
               /\ windows'[w].origin < at'
               /\ Launched(windows[w].origin)'
               /\ windows'[w].app = plan'[windows'[w].origin].app
    BY <1>0, <2>2 DEF Ownership, StartedOnce
  <2>3. QED
    BY <2>1, <2>2 DEF Ownership, StartedOnce
<1>5. BegunHasRecord'
  <2> SUFFICES ASSUME outages' = 0, NEW i \in DOMAIN plan, Begun(i)'
               PROVE  HasRecord(i)'
    BY DEF BegunHasRecord
  <2>1. Begun(i)
    BY DEF Begun
  <2>2. HasRecord(i)
    BY <2>1 DEF Ownership, BegunHasRecord
  <2>3. QED
    BY <2>2 DEF HasRecord
<1>6. OwnWindowOnly'
  BY <1>1, RecordFacts, <1>0 DEF Ownership, OwnWindowOnly
<1>7. KnownIsServed'
  BY <1>1 DEF Ownership, KnownIsServed
<1>8. QED
  BY <1>2, <1>3, <1>4, <1>5, <1>6, <1>7 DEF Ownership, PlanGiven

(* A record is registered for the action that the daemon has come to.      *)
LEMMA OwnershipRegistered ==
  ASSUME IInv, IInv', Ownership, plan' = plan, pc = "issue", at \in DOMAIN plan,
         Launched(at), NEW kind, NEW state,
         records' = Registered(kind, state, plan[at].app, at),
         UNCHANGED <<windows, claims, outages>>,
         state # "placed",
         \/ at' = at /\ pc' = "spawn" /\ state = "waiting"
              /\ starting' = starting
         \/ at' = at + 1 /\ pc' # "spawn" /\ starting' = starting
         \/ at' = at + 1 /\ pc' # "spawn" /\ state = "waiting"
              /\ starting' = starting \cup {at}
  PROVE  Ownership'
<1> DEFINE new == Len(records) + 1
<1>0. at \in Nat /\ LauncherTypeOK /\ plan \in Seq(Action)
  BY DEF IInv, TypeOK
<1>1. /\ DOMAIN records' = DOMAIN records \cup {new} /\ new \notin DOMAIN records
      /\ \A n \in DOMAIN records : records'[n] = records[n]
      /\ records'[new].for = at /\ records'[new].state = state
      /\ records'[new].window = Unplaced
  BY <1>0 DEF LauncherTypeOK, Registered
<1> HIDE DEF new
<1>2. \A i : Unmistakable(i)' => Unmistakable(i)
  BY UnmistakableBefore
<1>3. RecordsClaimed'
  BY <1>1 DEF Ownership, RecordsClaimed
<1>4. RequestedOnce'
  BY <1>0, <1>1, RecordFacts DEF Ownership, RequestedOnce, Launched
<1>5. StartedOnce'
  BY <1>0 DEF Ownership, StartedOnce, Launched, IInv, TypeOK
<1>6. BegunHasRecord'
  <2> SUFFICES ASSUME outages' = 0, NEW i \in DOMAIN plan, Begun(i)'
               PROVE  HasRecord(i)'
    BY DEF BegunHasRecord
  <2>1. CASE i = at /\ state = "waiting"
    BY <1>1, <2>1 DEF HasRecord
  <2>2. CASE Begun(i)
    BY <1>1, <2>2 DEF Ownership, BegunHasRecord, HasRecord
  <2>3. QED
    BY <2>1, <2>2 DEF Begun
<1>7. OwnWindowOnly'
  BY <1>1, <1>2 DEF Ownership, OwnWindowOnly
<1>8. KnownIsServed'
  <2> SUFFICES ASSUME NEW n \in DOMAIN records', NEW w \in Window,
                      windows[w].origin = records'[n].for, windows[w].known,
                      Unmistakable(records'[n].for)
               PROVE  records'[n].state # "waiting"
    BY <1>2 DEF KnownIsServed
  <2>1. n # new
    <3>1. windows[w].origin = 0 \/ windows[w].origin < at
      BY DEF Ownership, StartedOnce
    <3>2. at # 0 /\ ~(at < at)
      BY <1>0
    <3>3. QED
      BY <1>1, <3>1, <3>2
  <2>2. QED
    BY <1>1, <2>1 DEF Ownership, KnownIsServed
<1>9. QED
  BY <1>3, <1>4, <1>5, <1>6, <1>7, <1>8 DEF Ownership, PlanGiven
(* A window is matched: one that has just opened for a request or for the  *)
(* user, or one of which the launcher has learnt more.                     *)
LEMMA OwnershipMatched ==
  ASSUME IInv, IInv', Ownership, NEW w \in Window, NEW now \in WindowState,
         TryMatch(w, now), UNCHANGED <<plan, at, pc>>,
         outages' = 0 => outages = 0,
         now.phase # "none",
         windows[w].phase # "none" =>
           /\ now.app = windows[w].app /\ now.origin = windows[w].origin
           /\ windows[w].known => now.known
           /\ starting' = starting,
         windows[w].phase = "none" =>
           \/ now.origin = 0 /\ starting' = starting
           \/ /\ now.origin \in starting
              /\ starting' = starting \ {now.origin}
              /\ now.app = plan[now.origin].app
  PROVE  Ownership'
<1>0. /\ LauncherTypeOK /\ starting \subseteq DOMAIN plan
      /\ windows' = [windows EXCEPT ![w] = now]
      /\ \A i \in DOMAIN plan : i \in Nat /\ i # 0
  BY RequestAssumption DEF IInv, TypeOK, TryMatch
<1>1. windows'[w] = now /\ \A v \in Window : v # w => windows'[v] = windows[v]
  BY <1>0 DEF LauncherTypeOK
<1>2. \A i : Unmistakable(i)' => Unmistakable(i)
  BY <1>1, UnmistakableBefore
<1>3. now.origin # 0 => now.origin \in DOMAIN plan /\ now.app = plan[now.origin].app
  BY <1>0 DEF Ownership, StartedOnce
<1>4. ASSUME now.origin = 0, NEW j \in DOMAIN plan, Launched(j),
             now.app = plan[j].app, Unmistakable(j)'
      PROVE  FALSE
  <2>1. CASE PlaceActions(plan, w) = {}
    BY <1>1, <1>4, <2>1 DEF Unmistakable, UserWindows
  <2>2. ASSUME NEW i \in PlaceActions(plan, w) PROVE FALSE
    <3>1. i \in DOMAIN plan /\ plan[i].window = w /\ w # Unplaced
      BY WindowAssumption DEF PlaceActions
    <3>2. plan[i].kind = "place"
      BY <3>1, PlansAssumption DEF Ownership, PlanGiven
    <3>3. plan[i].app = plan[j].app
      BY <1>1, <1>4, <3>1, <3>2 DEF IInv, Attribution, PlacesThere
    <3>4. i = j
      BY <1>4, <3>1, <3>3 DEF Unmistakable
    <3>5. QED
      BY <1>4, <3>2, <3>4 DEF Launched
  <2>3. QED
    BY <2>1, <2>2
<1>5. ASSUME NEW n \in DOMAIN records, NEW r, r = records[n].for,
             Unmistakable(r)', records[n].app = now.app
      PROVE  now.origin = r
  <2>1. r \in DOMAIN plan /\ plan[r].app = now.app
    BY <1>5 DEF IInv, Attribution, RecordsServe
  <2>2. Launched(r)
    BY <1>5 DEF Ownership, RequestedOnce
  <2>3. now.origin # 0
    BY <1>4, <1>5, <2>1, <2>2
  <2>4. QED
    BY <1>2, <1>3, <1>5, <2>1, <2>3 DEF Unmistakable
<1>6. StartedOnce'
  <2>1. \A v \in Window : windows'[v].origin # 0 /\ v # w =>
          windows[v].origin = windows'[v].origin
    BY <1>1
  <2>2. CASE windows[w].phase # "none"
    BY <1>1, <2>2 DEF Ownership, StartedOnce, Launched
  <2>3. CASE windows[w].phase = "none" /\ now.origin = 0
    BY <1>1, <2>3, <1>0 DEF Ownership, StartedOnce, Launched
  <2>4. CASE windows[w].phase = "none" /\ now.origin \in starting
    BY <1>0, <1>1, <2>4 DEF Ownership, StartedOnce, Launched
  <2>5. QED
    BY <2>2, <2>3, <2>4
<1>7. \A i \in DOMAIN plan : Begun(i)' => Begun(i)
  <2> SUFFICES ASSUME NEW i \in DOMAIN plan, Begun(i)' PROVE Begun(i)
    OBVIOUS
  <2>1. CASE \E v \in Window : windows'[v].origin = i
    <3>1. PICK v \in Window : windows'[v].origin = i
      BY <2>1
    <3>2. CASE v = w
      BY <1>0, <1>1, <3>1, <3>2 DEF Begun
    <3>3. CASE v # w
      BY <1>1, <3>1, <3>3 DEF Begun
    <3>4. QED
      BY <3>2, <3>3
  <2>2. CASE i \in starting'
    BY <2>2 DEF Begun
  <2>3. QED
    BY <2>1, <2>2 DEF Begun
<1>8. CASE /\ UNCHANGED <<records, claims>>
           /\ ~now.known \/ Waiting(now.app) = {}
  <2>1. PlanGiven' /\ RecordsClaimed' /\ RequestedOnce'
    BY <1>8 DEF Ownership, PlanGiven, RecordsClaimed, RequestedOnce, Launched
  <2>2. BegunHasRecord'
    BY <1>7, <1>8 DEF Ownership, BegunHasRecord, HasRecord
  <2>3. OwnWindowOnly'
    <3> SUFFICES ASSUME NEW n \in DOMAIN records, records[n].window # Unplaced,
                        NEW r, r = records[n].for, Unmistakable(r)'
                 PROVE  windows'[records[n].window].origin = r
      BY <1>8 DEF OwnWindowOnly
    <3>1. windows[records[n].window].origin = records[n].for
      BY <1>2 DEF Ownership, OwnWindowOnly
    <3>2. records[n].window \in Window /\ records[n].for # 0
      BY <1>0, RecordFacts
    <3>3. windows[records[n].window].phase # "none"
      BY <3>1, <3>2 DEF Ownership, StartedOnce
    <3>4. QED
      BY <1>1, <3>1, <3>2, <3>3
  <2>4. KnownIsServed'
    <3> SUFFICES ASSUME NEW n \in DOMAIN records, NEW v \in Window,
                        windows'[v].origin = records[n].for, windows'[v].known,
                        NEW r, r = records[n].for, Unmistakable(r)'
                 PROVE  records[n].state # "waiting"
      BY <1>8 DEF KnownIsServed
    <3>1. CASE v # w
      BY <1>1, <1>2, <3>1 DEF Ownership, KnownIsServed
    <3>2. CASE v = w
      <4>1. Waiting(now.app) = {}
        BY <1>1, <1>8, <3>2
      <4>2. records[n].app = now.app
        <5>1. now.origin = records[n].for /\ now.origin # 0
          BY <1>0, <1>1, <3>2, RecordFacts
        <5>2. QED
          BY <1>3, <5>1 DEF IInv, Attribution, RecordsServe
      <4>3. QED
        BY <4>1, <4>2 DEF Waiting
    <3>3. QED
      BY <3>1, <3>2
  <2>5. QED
    BY <1>6, <2>1, <2>2, <2>3, <2>4 DEF Ownership
<1>9. ASSUME NEW k \in Oldest(Waiting(now.app)),
             records' = [records EXCEPT ![k] =
                          [@ EXCEPT !.state = "placed", !.window = w,
                                    !.requested = (now.size # "none")]],
             claims' = claims \cup {[for |-> records[k].for, window |-> w]}
      PROVE  Ownership'
  <2>1. /\ k \in DOMAIN records /\ records[k] \in Record
        /\ records[k].state = "waiting" /\ records[k].app = now.app
    BY <1>0 DEF Oldest, Waiting, LauncherTypeOK
  <2>2. /\ DOMAIN records' = DOMAIN records
        /\ \A n \in DOMAIN records : n # k => records'[n] = records[n]
        /\ \A n \in DOMAIN records : records'[n].for = records[n].for
        /\ records'[k].state = "placed" /\ records'[k].window = w
        /\ w # Unplaced
    BY <1>0, <1>9, <2>1, WindowAssumption DEF LauncherTypeOK, Record
  <2>3. PlanGiven' /\ RecordsClaimed' /\ RequestedOnce'
    BY <1>9, <2>2
       DEF Ownership, PlanGiven, RecordsClaimed, RequestedOnce, Launched
  <2>4. BegunHasRecord'
    <3>1. \A i : HasRecord(i) => HasRecord(i)'
      BY <2>2 DEF HasRecord
    <3>2. QED
      BY <1>7, <3>1 DEF Ownership, BegunHasRecord
  <2>5. OwnWindowOnly'
    <3> SUFFICES ASSUME NEW n \in DOMAIN records, records'[n].window # Unplaced,
                        NEW r, r = records[n].for, Unmistakable(r)'
                 PROVE  windows'[records'[n].window].origin = r
      BY <2>2 DEF OwnWindowOnly
    <3>1. CASE n = k
      BY <1>1, <1>5, <2>1, <2>2, <3>1
    <3>2. CASE n # k
      <4>1. records'[n] = records[n]
        BY <2>2, <3>2
      <4>2. windows[records[n].window].origin = records[n].for
        BY <1>2, <4>1 DEF Ownership, OwnWindowOnly
      <4>3. records[n].window \in Window /\ records[n].for # 0
        BY <1>0, <4>1, RecordFacts
      <4>4. windows[records[n].window].phase # "none"
        BY <4>2, <4>3 DEF Ownership, StartedOnce
      <4>5. QED
        BY <1>1, <4>1, <4>2, <4>3, <4>4
    <3>3. QED
      BY <3>1, <3>2
  <2>6. KnownIsServed'
    <3> SUFFICES ASSUME NEW n \in DOMAIN records, NEW v \in Window,
                        windows'[v].origin = records[n].for, windows'[v].known,
                        NEW r, r = records[n].for, Unmistakable(r)',
                        records'[n].state = "waiting"
                 PROVE  FALSE
      BY <2>2 DEF KnownIsServed
    <3>1. n # k /\ records'[n] = records[n]
      BY <2>2
    <3>2. CASE v # w
      BY <1>1, <1>2, <3>1, <3>2 DEF Ownership, KnownIsServed
    <3>3. CASE v = w
      <4>1. now.origin = records[n].for /\ now.origin # 0
        BY <1>0, <1>1, <3>3, RecordFacts
      <4>2. plan[records[n].for].app = now.app
        BY <1>3, <4>1
      <4>3. /\ records[k].for \in DOMAIN plan
            /\ plan[records[k].for].app = plan[records[n].for].app
        BY <2>1, <4>2 DEF IInv, Attribution, RecordsServe
      <4>4. records[k].for = records[n].for
        BY <1>2, <4>3 DEF Unmistakable
      <4>5. QED
        BY <2>1, <3>1, <4>4 DEF Ownership, RequestedOnce
    <3>4. QED
      BY <3>2, <3>3
  <2>7. QED
    BY <1>6, <2>3, <2>4, <2>5, <2>6 DEF Ownership
<1>10. QED
  BY <1>8, <1>9 DEF TryMatch
LEMMA OwnershipForgotten ==
  ASSUME IInv, IInv', Ownership, Disable, outages' # 0,
         UNCHANGED <<plan, at, pc, starting>>
  PROVE  Ownership'
<1>1. records' = <<>> /\ claims' = claims
  BY DEF Disable
<1>2. \A v \in Window : /\ windows'[v].origin = windows[v].origin
                        /\ windows'[v].app = windows[v].app
                        /\ windows'[v].phase = "none" <=> windows[v].phase = "none"
  <2>1. \A v \in Window : windows[v] \in WindowState
    BY DEF IInv, TypeOK, LauncherTypeOK
  <2>2. QED
    BY <2>1 DEF Disable, WindowState
<1>3. RecordsClaimed' /\ RequestedOnce' /\ OwnWindowOnly' /\ KnownIsServed'
  BY <1>1 DEF Ownership, RecordsClaimed, RequestedOnce, OwnWindowOnly,
              KnownIsServed, Launched
<1>4. StartedOnce'
  BY <1>2 DEF Ownership, StartedOnce, Launched
<1>5. QED
  BY <1>3, <1>4 DEF Ownership, PlanGiven, BegunHasRecord

LEMMA OwnershipStep ==
  ASSUME IInv, IInv', Ownership, [Next]_vars
  PROVE  Ownership'
<1>0. /\ TypeOK /\ LauncherTypeOK /\ starting \subseteq DOMAIN plan
      /\ plan' = plan
      /\ at \in Nat /\ outages \in Nat
      /\ \A v \in Window : windows[v] \in WindowState
      /\ \A n \in DOMAIN records : records[n] \in Record
  BY RunTypesStep DEF IInv, TypeOK, RunTypes, LauncherTypeOK
<1>1. ASSUME UNCHANGED <<records, windows, claims, outages>>,
             \/ at' = at /\ (pc' = "spawn" <=> pc = "spawn")
             \/ at' = at + 1 /\ pc' # "spawn",
             \A i \in starting' :
               i \in starting \/ (pc = "spawn" /\ i = at /\ at' = at + 1)
      PROVE  Ownership'
  <2>1. KeepsRecords /\ KeepsWindows
    BY <1>1 DEF KeepsRecords, KeepsWindows
  <2>2. QED
    BY <1>0, <1>1, <2>1, OwnershipKept
<1>2. CASE EnsureWorkspaces \/ StartPolling \/ StartRound \/ Ask \/ AskFails
             \/ EndRound \/ Finish \/ Deadline \/ UNCHANGED vars
  <2>1. /\ UNCHANGED <<launcherVars, at, starting, outages>>
        /\ pc' = "spawn" <=> pc = "spawn"
    BY <1>2 DEF EnsureWorkspaces, StartPolling, StartRound, Ask, AskFails,
                EndRound, Finish, Deadline, vars, runVars, envVars
  <2>2. QED
    BY <1>1, <2>1 DEF launcherVars
<1>3. CASE Place
  <2>1. /\ UNCHANGED <<records, windows, claims, starting, outages>>
        /\ at' = at + 1 /\ pc' = "issue"
    BY <1>3 DEF Place, PlaceWindow, Conclude, launcherVars, envVars
  <2>2. QED
    BY <1>1, <2>1
<1>4. ASSUME Issuing("launch") \/ Issuing("terminal")
      PROVE  at \in DOMAIN plan /\ Launched(at) /\ pc = "issue"
  BY <1>0, <1>4, CurrentFacts DEF Issuing, Current, Launched
<1>5. CASE LaunchApp
  <2>1. /\ at \in DOMAIN plan /\ Launched(at) /\ pc = "issue"
        /\ at' = at + 1 /\ pc' = "issue" /\ outages' = outages
    BY <1>4, <1>5 DEF LaunchApp, Await
  <2>2. CASE Launch(Current.app, at, "waiting") /\ starting' = starting \cup {at}
    BY <1>0, <2>1, <2>2, OwnershipRegistered DEF Launch, Current
  <2>3. CASE Launch(Current.app, at, "failed") /\ UNCHANGED starting
    BY <1>0, <2>1, <2>3, OwnershipRegistered DEF Launch, Current
  <2>4. QED
    BY <1>5, <2>2, <2>3 DEF LaunchApp
<1>6. CASE ExpectWindow
  <2>1. at \in DOMAIN plan /\ Launched(at) /\ pc = "issue"
    BY <1>4, <1>6 DEF ExpectWindow
  <2>2. QED
    BY <1>0, <1>6, <2>1, OwnershipRegistered
       DEF ExpectWindow, Expect, Current, envVars
<1>7. CASE CallFails
  <2>1. /\ at \in DOMAIN plan /\ Launched(at) /\ pc = "issue"
        /\ at' = at + 1 /\ pc' = "issue" /\ outages' = outages
    BY <1>4, <1>7 DEF CallFails, Conclude
  <2>2. CASE UNCHANGED <<launcherVars, starting>>
    BY <1>1, <2>1, <2>2 DEF launcherVars
  <2>3. CASE Launch(Current.app, at, "waiting") /\ starting' = starting \cup {at}
    BY <1>0, <2>1, <2>3, OwnershipRegistered DEF Launch, Current
  <2>4. CASE Expect(Current.app, at) /\ UNCHANGED starting
    BY <1>0, <2>1, <2>4, OwnershipRegistered DEF Expect, Current
  <2>5. QED
    BY <1>7, <2>2, <2>3, <2>4 DEF CallFails
<1>8. CASE Spawn \/ SpawnFails
  <2>1. /\ UNCHANGED <<launcherVars, outages>> /\ pc = "spawn"
        /\ at' = at + 1 /\ pc' = "issue"
        /\ starting' \subseteq starting \cup {at}
    BY <1>8 DEF Spawn, SpawnFails, Await, Conclude
  <2>2. QED
    BY <1>1, <2>1 DEF launcherVars
<1>9. ASSUME NEW w \in Window, NEW app \in App,
             NEW origin \in Request \cup {0}, NEW refuses \in BOOLEAN,
             WindowCreated(w, app, origin, refuses),
             UNCHANGED <<runVars, outages>>,
             \/ origin = 0 /\ starting' = starting
             \/ /\ origin \in starting /\ starting' = starting \ {origin}
                /\ app = plan[origin].app
      PROVE  Ownership'
  <2>1. PICK known \in BOOLEAN :
          TryMatch(w, [phase |-> IF enabled THEN "watched" ELSE "open",
                       app |-> app, known |-> known, size |-> "none",
                       refuses |-> refuses, origin |-> origin])
    BY <1>9 DEF WindowCreated
  <2> DEFINE now == [phase |-> IF enabled THEN "watched" ELSE "open",
                     app |-> app, known |-> known, size |-> "none",
                     refuses |-> refuses, origin |-> origin]
  <2>2. /\ now \in WindowState /\ now.phase # "none"
        /\ now.origin = origin /\ now.app = app
        /\ windows[w].phase = "none" /\ TryMatch(w, now)
    BY <1>9, <2>1 DEF WindowState, WindowCreated
  <2>3. UNCHANGED <<plan, at, pc, outages>>
    BY <1>9 DEF runVars
  <2> HIDE DEF now
  <2>4. QED
    BY <1>9, <2>2, <2>3, OwnershipMatched
<1>10. CASE ApplicationOpensWindow
  <2>1. PICK w \in Window, i \in starting, refuses \in Refusals :
          /\ WindowCreated(w, plan[i].app, i, refuses)
          /\ starting' = starting \ {i}
    BY <1>10 DEF ApplicationOpensWindow
  <2>2. i \in Request /\ plan[i].app \in App /\ refuses \in BOOLEAN
    BY <1>0, PlanFacts, RefusalsAssumption DEF TypeOK
  <2>3. UNCHANGED <<runVars, outages>>
    BY <1>10 DEF ApplicationOpensWindow
  <2>4. QED
    BY <1>9, <2>1, <2>2, <2>3
<1>11. CASE UserOpensWindow
  <2>1. PICK w \in Window, app \in App, refuses \in Refusals :
          WindowCreated(w, app, 0, refuses)
    BY <1>11 DEF UserOpensWindow
  <2>2. refuses \in BOOLEAN /\ UNCHANGED <<runVars, outages, starting>>
    BY <1>11, RefusalsAssumption DEF UserOpensWindow, envVars
  <2>3. QED
    BY <1>9, <2>1, <2>2
<1>12. CASE WindowStep
  <2>1. UNCHANGED <<plan, at, pc, starting, outages>>
    BY <1>12 DEF WindowStep, runVars, envVars
  <2>2. ASSUME NEW w \in Window, NEW phase \in {windows[w].phase, "open"},
               NEW known \in {windows[w].known, TRUE},
               windows[w].phase = "watched",
               TryMatch(w, [windows[w] EXCEPT !.phase = phase, !.known = known])
        PROVE  Ownership'
    <3> DEFINE now == [windows[w] EXCEPT !.phase = phase, !.known = known]
    <3>1. windows[w] \in WindowState
      BY <1>0
    <3>2. /\ now \in WindowState /\ now.phase # "none"
          /\ now.origin = windows[w].origin /\ now.app = windows[w].app
          /\ windows[w].known => now.known
      BY <2>2, <3>1 DEF WindowState
    <3> HIDE DEF now
    <3>3. TryMatch(w, now)
      BY <2>2 DEF now
    <3>4. windows[w].phase # "none"
      BY <2>2
    <3>5. QED
      BY <2>1, <3>2, <3>3, <3>4, OwnershipMatched
  <2>3. ASSUME NEW w \in Window, Notify(w) PROVE Ownership'
    <3>1. windows[w].phase = "watched"
          /\ TryMatch(w, [windows[w] EXCEPT !.known = TRUE])
      BY <2>3 DEF Notify
    <3>2. [windows[w] EXCEPT !.known = TRUE]
            = [windows[w] EXCEPT !.phase = windows[w].phase, !.known = TRUE]
      BY <1>0 DEF WindowState
    <3>3. QED
      BY <2>2, <3>1, <3>2
  <2>4. ASSUME NEW w \in Window, Backstop(w) PROVE Ownership'
    BY <2>2, <2>4 DEF Backstop
  <2>5. ASSUME NEW w \in Window, FirstBuffer(w) \/ Acknowledge(w) \/ WindowCloses(w)
        PROVE  Ownership'
    <3>1. UNCHANGED <<records, claims>>
      BY <2>5 DEF FirstBuffer, Acknowledge, WindowCloses
    <3>2. KeepsWindows
      <4>0. windows \in [Window -> WindowState]
        BY <1>0 DEF LauncherTypeOK
      <4>1. CASE FirstBuffer(w)
        BY <1>0, <4>0, <4>1 DEF FirstBuffer, KeepsWindows, WindowState
      <4>2. CASE Acknowledge(w)
        BY <1>0, <4>0, <4>2 DEF Acknowledge, KeepsWindows, WindowState
      <4>3. CASE WindowCloses(w)
        BY <1>0, <4>0, <4>3 DEF WindowCloses, IsOpen, KeepsWindows, WindowState
      <4>4. QED
        BY <2>5, <4>1, <4>2, <4>3
    <3>3. KeepsRecords
      BY <3>1 DEF KeepsRecords
    <3>4. QED
      BY <1>0, <2>1, <3>1, <3>2, <3>3, OwnershipKept
  <2>6. QED
    BY <1>12, <2>3, <2>4, <2>5 DEF WindowStep
<1>13. CASE LauncherTimer
  <2>1. UNCHANGED <<plan, at, pc, starting, outages, windows, claims>>
    BY <1>13 DEF LauncherTimer, runVars, envVars, LaunchTimeout,
                 PlaceWhenReady, PlaceThrows
  <2>2. ASSUME NEW n \in DOMAIN records, LaunchTimeout(n) PROVE KeepsRecords
    <3>1. records \in Seq(Record)
      BY <1>0 DEF LauncherTypeOK
    <3>2. QED
      BY <1>0, <2>2, <3>1 DEF LaunchTimeout, KeepsRecords, Record
  <2>3. ASSUME NEW task \in tasks, PlaceWhenReady(task) \/ PlaceThrows(task)
        PROVE  KeepsRecords
    <3>1. DOMAIN records' = DOMAIN records
      BY <2>3 DEF PlaceWhenReady, PlaceThrows
    <3>2. ASSUME NEW m \in DOMAIN records
          PROVE  /\ records'[m].kind = records[m].kind
                 /\ records'[m].for = records[m].for
                 /\ records'[m].window = records[m].window
                 /\ \/ records'[m].state = records[m].state
                    \/ records[m].window # Unplaced /\ records'[m].state = "failed"
      <4>1. task \in Task /\ task.window # Unplaced
        BY <1>0, WindowAssumption DEF LauncherTypeOK, Task
      <4>2. \/ records'[m] = records[m]
            \/ records'[m] = [records[m] EXCEPT !.requested = TRUE]
            \/ /\ records'[m] = [records[m] EXCEPT !.state = "failed"]
               /\ records[m].window # Unplaced
        BY <2>3, <4>1 DEF PlaceWhenReady, PlaceThrows, RecordOf
      <4>3. QED
        BY <1>0, <4>2 DEF Record
    <3>3. QED
      BY <3>1, <3>2 DEF KeepsRecords
  <2>4. KeepsWindows
    BY <2>1 DEF KeepsWindows
  <2>5. KeepsRecords
    BY <1>13, <2>2, <2>3 DEF LauncherTimer
  <2>6. QED
    BY <1>0, <2>1, <2>4, <2>5, OwnershipKept
<1>14. CASE ExtensionStep
  <2>1. UNCHANGED <<plan, at, pc, starting>>
    BY <1>14 DEF ExtensionStep, runVars
  <2>2. CASE Disable /\ outages' = outages + 1
    BY <1>0, <2>1, <2>2, OwnershipForgotten
  <2>3. CASE Enable /\ UNCHANGED outages
    BY <1>1, <2>1, <2>3 DEF Enable
  <2>4. QED
    BY <1>14, <2>2, <2>3 DEF ExtensionStep
<1>15. QED
  BY <1>2, <1>3, <1>5, <1>6, <1>7, <1>8, <1>10, <1>11, <1>12, <1>13, <1>14
     DEF Next, DaemonStep

LEMMA InitOwnership == Init => Ownership
<1> SUFFICES ASSUME Init PROVE Ownership
  OBVIOUS
<1>0. plan \in Plans /\ records = <<>> /\ starting = {} /\ pc = "begin"
  BY Zenon DEF Init
<1>1. /\ plan \in Plans /\ starting = {} /\ pc = "begin"
      /\ DOMAIN records = {}
  BY <1>0
<1>2. \A w \in Window : windows[w].origin = 0
  BY DEF Init, NotThere
<1>3. \A i \in DOMAIN plan : i # 0
  BY <1>1, PlansAssumption, RequestAssumption
<1>4. QED
  BY <1>1, <1>2, <1>3
     DEF Ownership, PlanGiven, RecordsClaimed, RequestedOnce, StartedOnce,
         BegunHasRecord, Begun, OwnWindowOnly, KnownIsServed

(* The window an application opens goes to the request that started it,    *)
(* for every plan in which nobody else asks for that application, however  *)
(* early or late the window, its name and the other requests come.         *)
THEOREM OwnWindowClaimedAlways == Spec => []OwnWindowClaimed
<1>1. IInv /\ Ownership => OwnWindowClaimed
  <2> SUFFICES ASSUME IInv, Ownership, NEW w \in Window, NEW i,
                      i = windows[w].origin, outages = 0, i # 0,
                      Unmistakable(i), windows[w].known
               PROVE  \/ [for |-> i, window |-> w] \in claims
                      \/ \E n \in DOMAIN records :
                           records[n].for = i /\ records[n].state = "timeout"
    BY DEF OwnWindowClaimed
  <2>1. i \in DOMAIN plan
    BY DEF Ownership, StartedOnce
  <2>2. PICK n \in DOMAIN records :
          /\ records[n].for = i
          /\ \/ records[n].state \in {"waiting", "timeout"}
             \/ records[n].window # Unplaced
    BY <2>1 DEF Ownership, BegunHasRecord, Begun, HasRecord
  <2>3. records[n].state # "waiting"
    BY <2>2 DEF Ownership, KnownIsServed
  <2>4. CASE records[n].window # Unplaced
    <3>1. windows[records[n].window].origin = i
      BY <2>2, <2>4 DEF Ownership, OwnWindowOnly
    <3>2. records[n].window \in Window
      BY <2>4, RecordFacts DEF IInv, TypeOK
    <3>3. records[n].window = w
      BY <3>1, <3>2 DEF Ownership, StartedOnce
    <3>4. QED
      BY <2>2, <2>4, <3>3 DEF Ownership, RecordsClaimed
  <2>5. QED
    BY <2>2, <2>3, <2>4
<1>2. QED
  BY <1>1, InitIInv, InductiveStep, InitOwnership, OwnershipStep, PTL DEF Spec
-----------------------------------------------------------------------------
(* What a result says *)

(* While the extension stays up, an id that is out is that of the record   *)
(* of its action.                                                          *)
ServesId(id, i) == Known(id) /\ records[id[2]].for = i
Serving == {issued \in Issued : ServesId(issued.id, issued.action)}
IdsServe ==
  outages = 0 =>
    /\ outstanding \in Seq(Serving) /\ round \in Seq(Serving)
    /\ pc = "spawn" => ServesId(expected, at)

(* DoneIsClaimed, of each result. *)
Truthful ==
  {result \in Result :
     result.state = "done" /\ Launched(result.action) =>
       \E task \in claims : task.for = result.action}
ResultsTruthful == outages = 0 => results \in Seq(Truthful)

ReportsTrue == IdsServe /\ ResultsTruthful

(* Unless the extension is disabled, a record once registered stays the    *)
(* record of its request, and what was claimed stays claimed.              *)
LEMMA RecordsStay ==
  ASSUME LauncherTypeOK, [LauncherNext]_launcherVars, enabled => enabled'
  PROVE  /\ claims \subseteq claims'
         /\ \A n \in DOMAIN records :
              /\ n \in DOMAIN records'
              /\ records'[n].kind = records[n].kind
              /\ records'[n].for = records[n].for
<1> DEFINE Stay == /\ claims \subseteq claims'
                   /\ \A n \in DOMAIN records :
                        /\ n \in DOMAIN records'
                        /\ records'[n].kind = records[n].kind
                        /\ records'[n].for = records[n].for
<1>0. /\ records \in Seq(Record)
      /\ \A n \in DOMAIN records : records[n] \in Record
  BY DEF LauncherTypeOK
<1>1. ASSUME NEW kind, NEW state, NEW app, NEW r,
             records' = Registered(kind, state, app, r), claims' = claims
      PROVE  Stay
  BY <1>0, <1>1 DEF Registered
<1>2. ASSUME NEW w, NEW now, TryMatch(w, now) PROVE Stay
  <2>1. CASE UNCHANGED <<records, claims>>
    BY <2>1
  <2>2. CASE now.known /\ ~ UNCHANGED <<records, claims>>
    <3>1. PICK n \in Oldest(Waiting(now.app)) :
            /\ records' = [records EXCEPT ![n] =
                 [@ EXCEPT !.state = "placed", !.window = w,
                           !.requested = (now.size # "none")]]
            /\ claims' = claims \cup {[for |-> records[n].for, window |-> w]}
      BY <1>2, <2>2 DEF TryMatch
    <3>2. n \in DOMAIN records
      BY DEF Oldest, Waiting
    <3>3. QED
      BY <1>0, <3>1, <3>2 DEF Record
  <2>3. QED
    BY <1>2, <2>1, <2>2 DEF TryMatch
<1>3. ASSUME NEW n \in DOMAIN records, LaunchTimeout(n) PROVE Stay
  BY <1>0, <1>3 DEF LaunchTimeout, Record
<1>4. ASSUME NEW task \in tasks, PlaceWhenReady(task) \/ PlaceThrows(task)
      PROVE  Stay
  <2>1. DOMAIN records' = DOMAIN records /\ claims' = claims
    BY <1>4 DEF PlaceWhenReady, PlaceThrows
  <2>2. \A m \in DOMAIN records :
          records'[m] \in {records[m], [records[m] EXCEPT !.requested = TRUE],
                           [records[m] EXCEPT !.state = "failed"]}
    BY <1>4 DEF PlaceWhenReady, PlaceThrows
  <2>3. QED
    BY <1>0, <2>1, <2>2 DEF Record
<1>5. CASE UNCHANGED <<records, claims>>
  BY <1>5
<1>6. ASSUME Disable PROVE FALSE
  BY <1>6 DEF Disable
<1>7. ASSUME NEW r \in Request, RequestStep(r) PROVE Stay
  <2>1. CASE \E app \in App : Expect(app, r)
    BY <1>1, <2>1 DEF Expect
  <2>2. CASE \E app \in App, outcome \in {"waiting", "failed"} :
               Launch(app, r, outcome)
    BY <1>1, <2>2 DEF Launch
  <2>3. CASE \E w \in Window : PlaceWindow(w, r)
    <3>1. UNCHANGED <<records, claims>>
      BY <2>3 DEF PlaceWindow
    <3>2. QED
      BY <1>5, <3>1
  <2>4. QED
    BY <1>7, <2>1, <2>2, <2>3 DEF RequestStep
<1>8. ASSUME NEW w \in Window, ShellStep(w) PROVE Stay
  <2>1. (\E now : TryMatch(w, now)) \/ UNCHANGED <<records, claims>>
    BY <1>8 DEF ShellStep, WindowCreated, Notify, Backstop, FirstBuffer,
                Acknowledge, WindowCloses
  <2>2. QED
    BY <1>2, <1>5, <2>1
<1>9. Stay
  <2>1. CASE UNCHANGED launcherVars \/ Enable
    <3>1. UNCHANGED <<records, claims>>
      BY <2>1 DEF Enable, launcherVars
    <3>2. QED
      BY <1>5, <3>1
  <2>2. CASE Disable
    BY <1>6, <2>2
  <2>3. QED
    BY <1>3, <1>4, <1>7, <1>8, <2>1, <2>2 DEF LauncherNext
<1>10. QED
  BY <1>9 DEF Stay

(* As long as it is not counted, no outage happens.                        *)
LEMMA StaysUp ==
  ASSUME IInv, [Next]_vars, outages' = 0
  PROVE  outages = 0 /\ (enabled => enabled')
<1>0. outages \in Nat
  BY DEF IInv, TypeOK
<1>1. CASE ExtensionStep
  BY <1>0, <1>1 DEF ExtensionStep, Enable
<1>2. CASE DaemonStep \/ Deadline \/ UNCHANGED vars
  BY <1>2 DEF DaemonStep, EnsureWorkspaces, Place, PlaceWindow, LaunchApp, Launch,
     ExpectWindow, Expect, CallFails, Spawn, SpawnFails, StartPolling, StartRound,
     Ask, AskFails, EndRound, Finish, Deadline, vars, launcherVars, envVars
<1>3. CASE ApplicationOpensWindow \/ UserOpensWindow \/ WindowStep \/ LauncherTimer
  <2>1. outages' = outages
    BY <1>3 DEF ApplicationOpensWindow, UserOpensWindow, WindowStep, LauncherTimer,
                envVars
  <2>2. ASSUME NEW w, NEW now, TryMatch(w, now) PROVE enabled' = enabled
    BY <2>2 DEF TryMatch
  <2>3. enabled' = enabled
    BY <1>3, <2>2 DEF ApplicationOpensWindow, UserOpensWindow, WindowStep,
       LauncherTimer, WindowCreated, Notify, Backstop, FirstBuffer, Acknowledge,
       WindowCloses, LaunchTimeout, PlaceWhenReady, PlaceThrows
  <2>4. QED
    BY <2>1, <2>3
<1>4. QED
  BY <1>1, <1>2, <1>3 DEF Next

LEMMA ServesIdStays ==
  ASSUME IInv, [Next]_vars, outages' = 0, NEW id \in LaunchId, NEW i, ServesId(id, i)
  PROVE  ServesId(id, i)'
<1>1. /\ claims \subseteq claims'
      /\ \A n \in DOMAIN records :
           /\ n \in DOMAIN records'
           /\ records'[n].kind = records[n].kind
           /\ records'[n].for = records[n].for
  BY StaysUp, EveryStep, RecordsStay DEF IInv, TypeOK
<1>2. QED
  BY <1>1 DEF ServesId, Known

(* What a step adds to what is out, and to the results.                    *)
LEMMA StillServing ==
  ASSUME IInv, [Next]_vars, outages' = 0
  PROVE  /\ Serving \subseteq Serving'
         /\ \A s \in Seq(Serving) : s \in Seq(Serving')
<1>1. ASSUME NEW issued \in Issued, ServesId(issued.id, issued.action)
      PROVE  ServesId(issued.id, issued.action)'
  <2>1. issued.id \in LaunchId
    BY DEF Issued
  <2>2. QED
    BY <1>1, <2>1, ServesIdStays
<1>2. Serving \subseteq Serving'
  BY <1>1 DEF Serving
<1>3. QED
  BY <1>2

LEMMA StillTruthful ==
  ASSUME IInv, [Next]_vars, outages' = 0
  PROVE  /\ Truthful \subseteq Truthful'
         /\ \A s \in Seq(Truthful) : s \in Seq(Truthful')
<1>1. claims \subseteq claims' /\ plan' = plan
  BY StaysUp, EveryStep, RecordsStay, RunTypesStep DEF IInv, TypeOK, RunTypes
<1>2. Truthful \subseteq Truthful'
  BY <1>1 DEF Truthful, Launched
<1>3. QED
  BY <1>2

LEMMA ConcludedTruthful ==
  ASSUME IInv, [Next]_vars, outages' = 0, results \in Seq(Truthful),
         at \in DOMAIN plan, NEW state \in {"done", "failed"}, Conclude(state),
         state = "done" => ~Launched(at)
  PROVE  results' \in Seq(Truthful')
<1> DEFINE result == [action |-> at, state |-> state, refused |-> FALSE]
<1>1. at \in Request
  BY PlanFacts DEF IInv, TypeOK
<1>2. result \in Truthful
  BY <1>1 DEF Truthful, Result
<1>3. Append(results, result) \in Seq(Truthful)
  BY <1>2
<1>4. results' = Append(results, result)
  BY DEF Conclude
<1>5. QED
  BY <1>3, <1>4, StillTruthful

LEMMA AwaitedServes ==
  ASSUME IInv, [Next]_vars, outages' = 0, outstanding \in Seq(Serving),
         at \in DOMAIN plan, NEW id \in LaunchId, Await(id),
         Known(id)', records'[id[2]].for = at
  PROVE  outstanding' \in Seq(Serving')
<1> DEFINE issued == [action |-> at, id |-> id]
<1>1. at \in Request
  BY PlanFacts DEF IInv, TypeOK
<1>2. issued \in Serving'
  BY <1>1 DEF Serving, Issued, ServesId
<1>3. outstanding \in Seq(Serving')
  BY StillServing
<1>4. outstanding' = Append(outstanding, issued)
  BY DEF Await
<1> HIDE DEF issued
<1>5. QED
  BY <1>2, <1>3, <1>4

(* A result of the launcher is done only for a record that has a window.   *)
LEMMA AnsweredTruthful ==
  ASSUME IInv, Ownership, NEW issued \in Serving
  PROVE  ResultFor(issued) \in Truthful
<1>1. issued \in Issued /\ ServesId(issued.id, issued.action)
  BY DEF Serving
<1>2. ResultFor(issued) \in Result
  BY <1>1, ResultForTypes
<1>3. ASSUME ResultFor(issued).state = "done"
      PROVE  \E task \in claims : task.for = issued.action
  <2> DEFINE n == issued.id[2]
  <2>1. n \in DOMAIN records /\ records[n].state = "placed"
        /\ records[n].for = issued.action
    BY <1>1, <1>3 DEF ResultFor, ReportedState, ServesId, Known
  <2>2. [for |-> records[n].for, window |-> records[n].window] \in claims
    BY <2>1 DEF Ownership, RecordsClaimed
  <2>3. QED
    BY <2>1, <2>2
<1>4. ResultFor(issued).action = issued.action
  BY DEF ResultFor
<1>5. QED
  BY <1>2, <1>3, <1>4 DEF Truthful

LEMMA ReportsStep ==
  IInv /\ Ownership /\ ReportsTrue /\ [Next]_vars => ReportsTrue'
<1> SUFFICES ASSUME IInv, Ownership, ReportsTrue, [Next]_vars, outages' = 0
             PROVE  /\ outstanding' \in Seq(Serving') /\ round' \in Seq(Serving')
                    /\ pc' = "spawn" => ServesId(expected, at)'
                    /\ results' \in Seq(Truthful')
  BY DEF ReportsTrue, IdsServe, ResultsTruthful
<1>1. /\ outstanding \in Seq(Serving) /\ round \in Seq(Serving)
      /\ pc = "spawn" => ServesId(expected, at)
      /\ results \in Seq(Truthful)
  BY StaysUp DEF ReportsTrue, IdsServe, ResultsTruthful
<1>2. LauncherTypeOK /\ (pc = "spawn" => at \in DOMAIN plan /\ expected \in LaunchId)
  BY DEF IInv, TypeOK
<1>3. ASSUME UNCHANGED outstanding PROVE outstanding' \in Seq(Serving')
  BY <1>1, <1>3, StillServing
<1>4. ASSUME UNCHANGED round PROVE round' \in Seq(Serving')
  BY <1>1, <1>4, StillServing
<1>5. ASSUME UNCHANGED results PROVE results' \in Seq(Truthful')
  BY <1>1, <1>5, StillTruthful
<1>6. ASSUME pc' = "spawn", pc = "spawn", UNCHANGED <<expected, at>>
      PROVE  ServesId(expected, at)'
  BY <1>1, <1>2, <1>6, ServesIdStays
<1>7. CASE UNCHANGED <<outstanding, round, results, expected, at>>
           /\ (pc' = "spawn" => pc = "spawn")
  BY <1>3, <1>4, <1>5, <1>6, <1>7
<1>8. CASE EnsureWorkspaces \/ StartPolling \/ Deadline \/ AskFails \/ EndRound
  BY <1>7, <1>8 DEF EnsureWorkspaces, StartPolling, Deadline, AskFails, EndRound
<1>9. CASE ApplicationOpensWindow \/ UserOpensWindow \/ WindowStep \/ LauncherTimer
             \/ ExtensionStep \/ UNCHANGED vars
  BY <1>7, <1>9 DEF ApplicationOpensWindow, UserOpensWindow, WindowStep,
                    LauncherTimer, ExtensionStep, vars, runVars
<1>10. CASE Place
  <2>1. at \in DOMAIN plan /\ ~Launched(at)
    BY <1>10, CurrentFacts DEF Place, Issuing, Current, Launched, IInv
  <2>2. Conclude("done") \/ Conclude("failed")
    BY <1>10 DEF Place
  <2>3. UNCHANGED <<outstanding, round>> /\ pc' = "issue"
    BY <2>2 DEF Conclude
  <2>4. results' \in Seq(Truthful')
    BY <1>1, <2>1, <2>2, ConcludedTruthful
  <2>5. QED
    BY <1>3, <1>4, <2>3, <2>4
<1>11. CASE CallFails \/ SpawnFails
  <2>1. at \in DOMAIN plan /\ Conclude("failed")
    BY <1>2, <1>11, CurrentFacts DEF CallFails, SpawnFails, IInv
  <2>2. UNCHANGED <<outstanding, round>> /\ pc' = "issue"
    BY <2>1 DEF Conclude
  <2>3. results' \in Seq(Truthful')
    BY <1>1, <2>1, ConcludedTruthful
  <2>4. QED
    BY <1>3, <1>4, <2>2, <2>3
<1>12. CASE LaunchApp
  <2>1. PICK id \in LaunchId : id = NextId("launch")
    BY <1>2, NextIdType DEF Kinds
  <2>2. at \in DOMAIN plan /\ Await(id)
    BY <1>12, <2>1, CurrentFacts DEF LaunchApp, IInv
  <2>3. PICK state : records' = Registered("launch", state, Current.app, at)
    BY <1>12 DEF LaunchApp, Launch
  <2>4. Known(id)' /\ records'[id[2]].for = at
    BY <1>2, <2>1, <2>3 DEF LauncherTypeOK, Registered, NextId, Known
  <2>5. outstanding' \in Seq(Serving')
    BY <1>1, <2>2, <2>4, AwaitedServes
  <2>6. UNCHANGED <<round, results>> /\ pc' = "issue"
    BY <2>2 DEF Await
  <2>7. QED
    BY <1>4, <1>5, <2>5, <2>6
<1>13. CASE ExpectWindow
  <2>1. /\ records' = Registered("expect", "waiting", Current.app, at)
        /\ expected' = NextId("expect") /\ at' = at
        /\ UNCHANGED <<outstanding, round, results>>
    BY <1>13 DEF ExpectWindow, Expect
  <2>2. ServesId(expected, at)'
    BY <1>2, <2>1 DEF LauncherTypeOK, Registered, NextId, Known, ServesId
  <2>3. QED
    BY <1>3, <1>4, <1>5, <2>1, <2>2
<1>14. CASE Spawn
  <2>1. at \in DOMAIN plan /\ expected \in LaunchId /\ Await(expected)
        /\ UNCHANGED records
    BY <1>2, <1>14 DEF Spawn, launcherVars
  <2>2. Known(expected) /\ records[expected[2]].for = at
    BY <1>1, <1>14 DEF Spawn, ServesId
  <2>3. outstanding' \in Seq(Serving')
    <3> DEFINE id == expected
    <3>1. Known(id) /\ records'[id[2]].for = at /\ UNCHANGED records
      BY <2>1, <2>2
    <3>2. PICK x \in LaunchId : x = id
      BY <2>1
    <3>3. Known(x)' /\ records'[x[2]].for = at /\ Await(x)
      BY <2>1, <3>1, <3>2 DEF Known
    <3>4. QED
      BY <1>1, <2>1, <3>3, AwaitedServes
  <2>4. UNCHANGED <<round, results>> /\ pc' = "issue"
    BY <2>1 DEF Await
  <2>5. QED
    BY <1>4, <1>5, <2>3, <2>4
<1>15. CASE StartRound
  <2>1. round' = outstanding /\ outstanding' = <<>> /\ pc' = "ask"
        /\ UNCHANGED results
    BY <1>15 DEF StartRound
  <2>2. outstanding' \in Seq(Serving') /\ round' \in Seq(Serving')
    BY <1>1, <2>1, StillServing
  <2>3. QED
    BY <1>5, <2>1, <2>2
<1>16. CASE Ask
  <2>1. round # <<>> /\ round' = Tail(round) /\ pc' = "ask"
        /\ \/ /\ results' = Append(results, ResultFor(Head(round)))
              /\ UNCHANGED outstanding
           \/ /\ outstanding' = Append(outstanding, Head(round))
              /\ UNCHANGED results
    BY <1>16 DEF Ask
  <2>2. PICK issued \in Serving : issued = Head(round)
    BY <1>1, <2>1
  <2>3. Tail(round) \in Seq(Serving)
    BY <1>1, <2>1
  <2>4. Append(outstanding, issued) \in Seq(Serving)
    BY <1>1
  <2>5. Append(results, ResultFor(issued)) \in Seq(Truthful)
    BY <1>1, AnsweredTruthful
  <2>6. outstanding' \in Seq(Serving) /\ round' \in Seq(Serving)
        /\ results' \in Seq(Truthful)
    BY <1>1, <2>1, <2>2, <2>3, <2>4, <2>5
  <2>7. QED
    BY <2>1, <2>6, StillServing, StillTruthful
<1>17. CASE Finish
  <2> DEFINE pending ==
        [n \in DOMAIN outstanding |->
           [action |-> outstanding[n].action, state |-> "pending",
            refused |-> FALSE]]
  <2>1. results' = results \o pending /\ outstanding' = <<>> /\ pc' = "done"
        /\ UNCHANGED round
    BY <1>17 DEF Finish
  <2>2. ASSUME NEW n \in DOMAIN outstanding PROVE pending[n] \in Truthful
    <3>1. outstanding[n] \in Issued
      BY DEF IInv, TypeOK
    <3>2. QED
      BY <3>1 DEF Issued, Result, Truthful
  <2>3. pending \in Seq(Truthful)
    <3>1. pending \in [1 .. Len(outstanding) -> Truthful]
          /\ Len(outstanding) \in Nat
      BY <1>1, <2>2
    <3> HIDE DEF pending
    <3>2. QED
      BY <3>1
  <2> HIDE DEF pending
  <2>4. results' \in Seq(Truthful)
    BY <1>1, <2>1, <2>3
  <2>5. outstanding' \in Seq(Serving')
    BY <2>1
  <2>6. QED
    BY <1>4, <2>1, <2>4, <2>5, StillTruthful
<1>18. QED
  BY <1>8, <1>9, <1>10, <1>11, <1>12, <1>13, <1>14, <1>15, <1>16, <1>17
     DEF Next, DaemonStep

(* While the extension stays up, no launch is reported as done to which no *)
(* window was attributed: not one that timed out or failed, and not one    *)
(* for which the daemon was told of another's record.                      *)
THEOREM DoneIsClaimedAlways == Spec => []DoneIsClaimed
<1>1. Init => ReportsTrue
  <2>1. ASSUME Init
        PROVE  outstanding = <<>> /\ round = <<>> /\ results = <<>> /\ pc = "begin"
    BY <2>1, Zenon DEF Init
  <2>2. QED
    BY <2>1 DEF ReportsTrue, IdsServe, ResultsTruthful
<1>2. ReportsTrue => DoneIsClaimed
  BY DEF ReportsTrue, ResultsTruthful, Truthful, DoneIsClaimed
<1>3. QED
  BY <1>1, <1>2, InitIInv, InductiveStep, InitOwnership, OwnershipStep,
     ReportsStep, PTL DEF Spec
-----------------------------------------------------------------------------
(* One result for each action *)

Those(s, i) == {n \in DOMAIN s : s[n].action = i}
Of(s, i) == Cardinality(Those(s, i))

LEMMA ThoseFinite ==
  ASSUME NEW S, NEW s \in Seq(S), NEW i
  PROVE  IsFiniteSet(Those(s, i)) /\ Of(s, i) \in Nat
<1>1. IsFiniteSet(1 .. Len(s))
  BY FS_Interval
<1>2. Those(s, i) \in SUBSET (1 .. Len(s))
  BY DEF Those
<1>3. IsFiniteSet(Those(s, i))
  BY <1>1, <1>2, FS_Subset
<1>4. QED
  BY <1>3, FS_CardinalityType DEF Of

LEMMA Shift ==
  ASSUME NEW M \in SUBSET Int, IsFiniteSet(M), NEW k \in Int
  PROVE  /\ IsFiniteSet({m + k : m \in M})
         /\ Cardinality({m + k : m \in M}) = Cardinality(M)
<1> DEFINE T == {m + k : m \in M}
           f == [m \in M |-> m + k]
<1>1. f \in [M -> T]
  OBVIOUS
<1>2. \A a, b \in M : f[a] = f[b] => a = b
  OBVIOUS
<1>3. \A t \in T : \E m \in M : f[m] = t
  OBVIOUS
<1>4. f \in Bijection(M, T)
  BY <1>1, <1>2, <1>3 DEF Bijection, Injection, Surjection, IsInjective
<1>5. ExistsBijection(M, T)
  BY <1>4 DEF ExistsBijection
<1>6. QED
  BY <1>5, FS_Bijection

LEMMA OfConcat ==
  ASSUME NEW S, NEW s \in Seq(S), NEW T, NEW t \in Seq(T), NEW i
  PROVE  Of(s \o t, i) = Of(s, i) + Of(t, i)
<1> DEFINE moved_t == {m + Len(s) : m \in Those(t, i)}
<1>0. Those(t, i) \in SUBSET Int /\ Len(s) \in Int
  BY DEF Those
<1>1. IsFiniteSet(Those(t, i))
  BY ThoseFinite
<1>2. IsFiniteSet(moved_t) /\ Cardinality(moved_t) = Of(t, i)
  BY <1>0, <1>1, Shift DEF Of
<1>3. Those(s \o t, i) = Those(s, i) \cup moved_t
  BY DEF Those
<1>4. Those(s, i) \cap moved_t = {}
  BY DEF Those
<1> HIDE DEF moved_t
<1>5. Cardinality(Those(s, i) \cup moved_t)
        = Of(s, i) + Of(t, i) - Cardinality({})
  BY <1>2, <1>4, ThoseFinite, FS_Union DEF Of
<1>6. QED
  BY <1>3, <1>5, FS_EmptySet, ThoseFinite DEF Of

LEMMA OfSingle ==
  ASSUME NEW x, NEW i
  PROVE  Of(<<x>>, i) = IF x.action = i THEN 1 ELSE 0
<1>1. Those(<<x>>, i) = IF x.action = i THEN {1} ELSE {}
  BY DEF Those
<1>2. QED
  BY <1>1, FS_EmptySet, FS_Singleton DEF Of

LEMMA OfAppend ==
  ASSUME NEW S, NEW s \in Seq(S), NEW x, NEW i
  PROVE  Of(Append(s, x), i) = Of(s, i) + (IF x.action = i THEN 1 ELSE 0)
<1>1. Append(s, x) = s \o <<x>>
  OBVIOUS
<1>2. <<x>> \in Seq({x})
  OBVIOUS
<1>3. Of(s \o <<x>>, i) = Of(s, i) + Of(<<x>>, i)
  BY <1>2, OfConcat
<1>4. Of(<<x>>, i) = IF x.action = i THEN 1 ELSE 0
  BY OfSingle
<1>5. QED
  BY <1>1, <1>3, <1>4

LEMMA OfTail ==
  ASSUME NEW S, NEW s \in Seq(S), s # <<>>, NEW i
  PROVE  Of(s, i) = Of(Tail(s), i) + (IF Head(s).action = i THEN 1 ELSE 0)
<1>1. s = <<Head(s)>> \o Tail(s)
  OBVIOUS
<1>2. <<Head(s)>> \in Seq({Head(s)}) /\ Tail(s) \in Seq(S)
  OBVIOUS
<1>3. Of(s, i) = Of(<<Head(s)>>, i) + Of(Tail(s), i)
  <2>1. Of(<<Head(s)>> \o Tail(s), i) = Of(<<Head(s)>>, i) + Of(Tail(s), i)
    BY <1>2, OfConcat
  <2>2. QED
    BY <1>1, <2>1, Zenon
<1>4. Of(<<Head(s)>>, i) = IF Head(s).action = i THEN 1 ELSE 0
  BY OfSingle
<1>5. Of(Tail(s), i) \in Nat
  BY <1>2, ThoseFinite
<1>6. QED
  BY <1>3, <1>4, <1>5

(* Each action the daemon has come past is in one of the three lists, once. *)
CountedOnce ==
  \A i \in DOMAIN plan :
    Of(outstanding, i) + Of(round, i) + Of(results, i) = IF i < at THEN 1 ELSE 0

(* Where execute() is, and what it has then.                               *)
Progress ==
  /\ pc \notin {"ask", "raised"} => round = <<>>
  /\ pc \in {"poll", "ask", "done"} => at > Len(plan)
  /\ pc = "done" => outstanding = <<>>

LEMMA ProgressStep == IInv /\ Progress /\ [Next]_vars => Progress'
<1> SUFFICES ASSUME IInv, Progress, [Next]_vars PROVE Progress'
  OBVIOUS
<1> USE DEF Progress
<1>1. CASE EnsureWorkspaces \/ StartPolling \/ Deadline \/ StartRound \/ Ask \/ AskFails
             \/ EndRound \/ Finish
  BY <1>1 DEF EnsureWorkspaces, StartPolling, Deadline, StartRound, Ask, AskFails,
              EndRound, Finish
<1>2. CASE Place \/ LaunchApp \/ ExpectWindow \/ CallFails \/ Spawn \/ SpawnFails
  <2>1. pc \in {"issue", "spawn"} /\ pc' \in {"issue", "spawn"} /\ UNCHANGED round
    BY <1>2 DEF Place, LaunchApp, ExpectWindow, CallFails, Spawn, SpawnFails, Issuing,
                Conclude, Await
  <2>2. QED
    BY <2>1
<1>3. CASE ApplicationOpensWindow \/ UserOpensWindow \/ WindowStep \/ LauncherTimer
             \/ ExtensionStep \/ UNCHANGED vars
  BY <1>3 DEF ApplicationOpensWindow, UserOpensWindow, WindowStep, LauncherTimer,
              ExtensionStep, vars, runVars
<1>4. QED
  BY <1>1, <1>2, <1>3 DEF Next, DaemonStep

LEMMA CountedStep == IInv /\ Progress /\ CountedOnce /\ [Next]_vars => CountedOnce'
<1> SUFFICES ASSUME IInv, Progress, CountedOnce, [Next]_vars PROVE CountedOnce'
  OBVIOUS
<1>0. plan' = plan
  BY RunTypesStep DEF RunTypes
<1> SUFFICES ASSUME NEW i \in DOMAIN plan
             PROVE  Of(outstanding', i) + Of(round', i) + Of(results', i)
                      = IF i < at' THEN 1 ELSE 0
  BY <1>0 DEF CountedOnce
<1>1. /\ outstanding \in Seq(Issued) /\ round \in Seq(Issued)
      /\ results \in Seq(Result) /\ at \in Nat /\ i \in Nat
  BY PlanFacts DEF IInv, TypeOK
<1>2. /\ Of(outstanding, i) \in Nat /\ Of(round, i) \in Nat
      /\ Of(results, i) \in Nat
  BY <1>1, ThoseFinite
<1>3. Of(outstanding, i) + Of(round, i) + Of(results, i) = IF i < at THEN 1 ELSE 0
  BY DEF CountedOnce
<1>4. Of(<<>>, i) = 0
  BY FS_EmptySet DEF Of, Those
<1>5. CASE UNCHANGED <<outstanding, round, results, at>>
  BY <1>3, <1>5
<1>6. ASSUME NEW state, Conclude(state)
      PROVE  Of(outstanding', i) + Of(round', i) + Of(results', i)
               = IF i < at' THEN 1 ELSE 0
  <2> DEFINE result == [action |-> at, state |-> state, refused |-> FALSE]
  <2>1. results' = Append(results, result) /\ at' = at + 1
        /\ UNCHANGED <<outstanding, round>>
    BY <1>6 DEF Conclude
  <2>2. result.action = at
    OBVIOUS
  <2> HIDE DEF result
  <2>3. Of(results', i) = Of(results, i) + (IF at = i THEN 1 ELSE 0)
    BY <1>1, <2>1, <2>2, OfAppend
  <2>4. QED
    BY <1>1, <1>2, <1>3, <2>1, <2>3
<1>7. ASSUME NEW id, Await(id)
      PROVE  Of(outstanding', i) + Of(round', i) + Of(results', i)
               = IF i < at' THEN 1 ELSE 0
  <2> DEFINE issued == [action |-> at, id |-> id]
  <2>1. outstanding' = Append(outstanding, issued) /\ at' = at + 1
        /\ UNCHANGED <<results, round>>
    BY <1>7 DEF Await
  <2>2. issued.action = at
    OBVIOUS
  <2> HIDE DEF issued
  <2>3. Of(outstanding', i) = Of(outstanding, i) + (IF at = i THEN 1 ELSE 0)
    BY <1>1, <2>1, <2>2, OfAppend
  <2>4. QED
    BY <1>1, <1>2, <1>3, <2>1, <2>3
<1>8. CASE EnsureWorkspaces \/ ExpectWindow \/ StartPolling \/ Deadline \/ AskFails
             \/ EndRound
  BY <1>5, <1>8 DEF EnsureWorkspaces, ExpectWindow, StartPolling, Deadline, AskFails,
                    EndRound
<1>9. CASE Place \/ CallFails \/ SpawnFails
  BY <1>6, <1>9 DEF Place, CallFails, SpawnFails
<1>10. CASE LaunchApp \/ Spawn
  BY <1>7, <1>10 DEF LaunchApp, Spawn
<1>11. CASE StartRound
  <2>1. round = <<>> /\ round' = outstanding /\ outstanding' = <<>>
        /\ UNCHANGED <<results, at>>
    BY <1>11 DEF StartRound, Progress
  <2>2. QED
    BY <1>2, <1>3, <1>4, <2>1
<1>12. CASE Ask
  <2>1. round # <<>> /\ round' = Tail(round) /\ UNCHANGED at
        /\ \/ /\ results' = Append(results, ResultFor(Head(round)))
              /\ UNCHANGED outstanding
           \/ /\ outstanding' = Append(outstanding, Head(round))
              /\ UNCHANGED results
    BY <1>12 DEF Ask
  <2>2. Of(round, i) = Of(Tail(round), i) + (IF Head(round).action = i THEN 1 ELSE 0)
    BY <1>1, <2>1, OfTail
  <2>3. Of(Tail(round), i) \in Nat
    <3>1. Tail(round) \in Seq(Issued)
      BY <1>1, <2>1
    <3>2. QED
      BY <3>1, ThoseFinite
  <2>4. ResultFor(Head(round)).action = Head(round).action
    BY DEF ResultFor
  <2>5. Of(Append(results, ResultFor(Head(round))), i)
          = Of(results, i) + (IF Head(round).action = i THEN 1 ELSE 0)
    BY <1>1, <2>4, OfAppend
  <2>6. Of(Append(outstanding, Head(round)), i)
          = Of(outstanding, i) + (IF Head(round).action = i THEN 1 ELSE 0)
    BY <1>1, OfAppend
  <2>7. Of(round', i) = Of(Tail(round), i) /\ at' = at
    BY <2>1
  <2>8. \/ /\ Of(results', i) = Of(Append(results, ResultFor(Head(round))), i)
           /\ Of(outstanding', i) = Of(outstanding, i)
        \/ /\ Of(outstanding', i) = Of(Append(outstanding, Head(round)), i)
           /\ Of(results', i) = Of(results, i)
    BY <2>1, Zenon
  <2>9. QED
    BY <1>2, <1>3, <2>2, <2>3, <2>5, <2>6, <2>7, <2>8
<1>13. CASE Finish
  <2> DEFINE pending ==
        [n \in DOMAIN outstanding |->
           [action |-> outstanding[n].action, state |-> "pending",
            refused |-> FALSE]]
  <2>1. results' = results \o pending /\ outstanding' = <<>>
        /\ UNCHANGED <<round, at>>
    BY <1>13 DEF Finish
  <2>2. Those(pending, i) = Those(outstanding, i)
    BY DEF Those
  <2>3. PICK S : pending \in Seq(S)
    <3> DEFINE S == {pending[n] : n \in DOMAIN outstanding}
    <3>1. DOMAIN outstanding = 1 .. Len(outstanding) /\ Len(outstanding) \in Nat
      BY <1>1
    <3>2. pending = [n \in 1 .. Len(outstanding) |-> pending[n]]
      BY <3>1
    <3>3. \A n \in 1 .. Len(outstanding) : pending[n] \in S
      BY <3>1
    <3> HIDE DEF pending, S
    <3>4. pending \in Seq(S)
      BY <3>1, <3>2, <3>3
    <3>5. QED
      BY <3>4
  <2> HIDE DEF pending
  <2>4. Of(results', i) = Of(results, i) + Of(outstanding, i)
    BY <1>1, <2>1, <2>2, <2>3, OfConcat DEF Of
  <2>5. QED
    BY <1>2, <1>3, <1>4, <2>1, <2>4
<1>14. CASE ApplicationOpensWindow \/ UserOpensWindow \/ WindowStep \/ LauncherTimer
              \/ ExtensionStep \/ UNCHANGED vars
  BY <1>5, <1>14 DEF ApplicationOpensWindow, UserOpensWindow, WindowStep,
                     LauncherTimer, ExtensionStep, vars, runVars
<1>15. QED
  BY <1>8, <1>9, <1>10, <1>11, <1>12, <1>13, <1>14 DEF Next, DaemonStep

(* Every action of every plan is waited for or has its result, and not     *)
(* both and not twice, at every moment of the restore; all of them have    *)
(* one when the answer goes out (restore.py:96-146).                       *)
THEOREM EveryActionOnceAlways == Spec => []EveryActionOnce
<1>1. Init => IInv /\ Progress /\ CountedOnce
  <2> SUFFICES ASSUME Init PROVE Progress /\ CountedOnce
    BY InitIInv
  <2>1. outstanding = <<>> /\ round = <<>> /\ results = <<>> /\ pc = "begin"
        /\ at = 1
    BY Zenon DEF Init
  <2>2. \A i \in DOMAIN plan : i \in Nat /\ ~(i < 1)
    <3>1. plan \in Seq(Action)
      BY InitIInv DEF IInv, TypeOK
    <3>2. QED
      BY <3>1
  <2>3. ASSUME NEW i PROVE Of(<<>>, i) = 0
    BY FS_EmptySet DEF Of, Those
  <2>4. QED
    BY <2>1, <2>2, <2>3 DEF Progress, CountedOnce
<1>2. IInv /\ Progress /\ CountedOnce => EveryActionOnce
  <2> SUFFICES ASSUME IInv, Progress, CountedOnce PROVE EveryActionOnce
    OBVIOUS
  <2>1. \A i : Count(i) = Of(outstanding, i) + Of(round, i) + Of(results, i)
    BY DEF Count, Of, Those
  <2>2. ASSUME pc = "done", NEW i \in DOMAIN plan
        PROVE  \E n \in DOMAIN results : results[n].action = i
    <3>1. outstanding = <<>> /\ round = <<>> /\ i < at
      BY <2>2 DEF Progress, IInv, TypeOK
    <3>2. Of(<<>>, i) = 0
      BY FS_EmptySet DEF Of, Those
    <3>3. results \in Seq(Result)
      BY DEF IInv, TypeOK
    <3>4. Of(results, i) = 1
      BY <3>1, <3>2, <3>3, ThoseFinite DEF CountedOnce
    <3>5. Those(results, i) # {}
      BY <3>4, FS_EmptySet DEF Of
    <3>6. QED
      BY <3>5 DEF Those
  <2>3. QED
    BY <2>1, <2>2 DEF EveryActionOnce, CountedOnce
<1>3. QED
  BY <1>1, <1>2, InductiveStep, ProgressStep, CountedStep, PTL DEF Spec
=============================================================================
