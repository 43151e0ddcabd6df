--------------------------- MODULE Launcher_proofs ---------------------------
(***************************************************************************)
(* Proofs about Launcher, for any requester: its type invariant and that   *)
(* requests for one application are served in the order they were made.    *)
(***************************************************************************)
EXTENDS Launcher, TLAPS

(* A step that changes records where they are keeps their number and kind. *)
LEMMA SameDomain ==
  ASSUME records \in Seq(Record), NEW f,
         f = [n \in DOMAIN records |-> f[n]],
         \A n \in DOMAIN records : f[n] \in Record
  PROVE  f \in Seq(Record) /\ DOMAIN f = DOMAIN records
  OBVIOUS

-----------------------------------------------------------------------------
(* Types *)

LEMMA TryMatchTypes ==
  ASSUME LauncherTypeOK, NEW w \in Window, NEW now \in WindowState,
         TryMatch(w, now)
  PROVE  LauncherTypeOK'
<1> USE DEF LauncherTypeOK
<1>1. windows' \in [Window -> WindowState] /\ enabled' \in BOOLEAN
  BY DEF TryMatch
<1>2. CASE UNCHANGED <<records, tasks, claims, moved>>
  BY <1>1, <1>2
<1>3. ASSUME NEW n \in Oldest(Waiting(now.app)), NEW task,
             task = [for |-> records[n].for, window |-> w],
             records' = [records EXCEPT ![n] =
                          [@ EXCEPT !.state = "placed", !.window = w,
                                    !.requested = (now.size # "none")]],
             claims' = claims \cup {task},
             tasks' \in {tasks, tasks \cup {task}},
             moved' \in {moved, moved \cup {task}}
      PROVE  LauncherTypeOK'
  <2>1. n \in 1 .. Len(records) /\ records[n] \in Record
    BY DEF Oldest, Waiting
  <2>2. task \in Task
    BY <1>3, <2>1 DEF Task, Record
  <2>3. [records[n] EXCEPT !.state = "placed", !.window = w,
                           !.requested = (now.size # "none")] \in Record
    BY <2>1 DEF Record
  <2>4. records' \in Seq(Record)
    BY <1>3, <2>1, <2>3
  <2>5. QED
    BY <1>1, <1>3, <2>2, <2>4
<1>4. QED
  BY <1>2, <1>3 DEF TryMatch

LEMMA TypeStep == LauncherTypeOK /\ [LauncherNext]_launcherVars => LauncherTypeOK'
<1> SUFFICES ASSUME LauncherTypeOK, [LauncherNext]_launcherVars
             PROVE  LauncherTypeOK'
  OBVIOUS
<1>1. ASSUME NEW r \in Request, NEW app \in App, Expect(app, r)
      PROVE  LauncherTypeOK'
  BY <1>1 DEF LauncherTypeOK, Expect, Registered, Record, Kinds
<1>2. ASSUME NEW r \in Request, NEW app \in App,
             NEW outcome \in {"waiting", "failed"}, Launch(app, r, outcome)
      PROVE  LauncherTypeOK'
  BY <1>2 DEF LauncherTypeOK, Launch, Registered, Record, Kinds
<1>3. ASSUME NEW r \in Request, NEW w \in Window, PlaceWindow(w, r)
      PROVE  LauncherTypeOK'
  BY <1>3 DEF LauncherTypeOK, PlaceWindow, Task
<1>4. ASSUME NEW w \in Window, NEW app \in App,
             NEW origin \in Request \cup {0}, NEW refuses \in BOOLEAN,
             WindowCreated(w, app, origin, refuses)
      PROVE  LauncherTypeOK'
  <2>1. PICK known \in BOOLEAN :
          TryMatch(w, [phase |-> IF enabled THEN "watched" ELSE "open",
                       app |-> app, known |-> known, size |-> "none",
                       refuses |-> refuses, origin |-> origin])
    BY <1>4 DEF WindowCreated
  <2> DEFINE now == [phase |-> IF enabled THEN "watched" ELSE "open",
                     app |-> app, known |-> known, size |-> "none",
                     refuses |-> refuses, origin |-> origin]
  <2>2. now \in WindowState
    BY DEF WindowState
  <2>3. QED
    BY <2>1, <2>2, TryMatchTypes
<1>5. ASSUME NEW w \in Window, Notify(w)
      PROVE  LauncherTypeOK'
  <2>1. [windows[w] EXCEPT !.known = TRUE] \in WindowState
    BY DEF LauncherTypeOK, WindowState
  <2>2. QED
    BY <1>5, <2>1, TryMatchTypes DEF Notify
<1>6. ASSUME NEW w \in Window, Backstop(w)
      PROVE  LauncherTypeOK'
  <2>1. PICK known \in {windows[w].known, TRUE} :
          TryMatch(w, [windows[w] EXCEPT !.phase = "open", !.known = known])
    BY <1>6 DEF Backstop
  <2>2. known \in BOOLEAN
    BY DEF LauncherTypeOK, WindowState
  <2>3. [windows[w] EXCEPT !.phase = "open", !.known = known] \in WindowState
    BY <2>2 DEF LauncherTypeOK, WindowState
  <2>4. QED
    BY <2>1, <2>3, TryMatchTypes
<1>7. ASSUME NEW w \in Window, FirstBuffer(w) \/ Acknowledge(w) \/ WindowCloses(w)
      PROVE  LauncherTypeOK'
  BY <1>7 DEF LauncherTypeOK, WindowState, FirstBuffer, Acknowledge, WindowCloses
<1>8. ASSUME NEW n \in DOMAIN records, LaunchTimeout(n)
      PROVE  LauncherTypeOK'
  <2>1. n \in 1 .. Len(records) /\ records[n] \in Record
    BY DEF LauncherTypeOK
  <2>2. [records[n] EXCEPT !.state = "timeout"] \in Record
    BY <2>1 DEF Record
  <2>3. records' \in Seq(Record)
    BY <1>8, <2>1, <2>2 DEF LauncherTypeOK, LaunchTimeout
  <2>4. QED
    BY <1>8, <2>3 DEF LauncherTypeOK, LaunchTimeout
<1>9. ASSUME NEW task \in tasks, PlaceWhenReady(task) \/ PlaceThrows(task)
      PROVE  LauncherTypeOK'
  <2>1. ASSUME NEW n \in DOMAIN records
        PROVE  /\ records[n] \in Record
               /\ [records[n] EXCEPT !.requested = TRUE] \in Record
               /\ [records[n] EXCEPT !.state = "failed"] \in Record
    <3>1. records[n] \in Record
      BY DEF LauncherTypeOK
    <3>2. QED
      BY <3>1 DEF Record
  <2>2. CASE PlaceWhenReady(task)
    <3> DEFINE f == [n \in DOMAIN records |->
           IF n \in RecordOf(task) THEN [records[n] EXCEPT !.requested = TRUE]
           ELSE records[n]]
    <3>1. \A n \in DOMAIN records : f[n] \in Record
      BY <2>1
    <3>2. f \in Seq(Record)
      <4> HIDE DEF f
      <4>1. f = [n \in DOMAIN records |-> f[n]]
        BY DEF f
      <4>2. QED
        BY <3>1, <4>1, SameDomain DEF LauncherTypeOK
    <3>3. QED
      BY <2>2, <3>2 DEF LauncherTypeOK, PlaceWhenReady
  <2>3. CASE PlaceThrows(task)
    <3> DEFINE f == [n \in DOMAIN records |->
           IF n \in RecordOf(task) THEN [records[n] EXCEPT !.state = "failed"]
           ELSE records[n]]
    <3>1. \A n \in DOMAIN records : f[n] \in Record
      BY <2>1
    <3>2. f \in Seq(Record)
      <4> HIDE DEF f
      <4>1. f = [n \in DOMAIN records |-> f[n]]
        BY DEF f
      <4>2. QED
        BY <3>1, <4>1, SameDomain DEF LauncherTypeOK
    <3>3. QED
      BY <2>3, <3>2 DEF LauncherTypeOK, PlaceThrows
  <2>4. QED
    BY <1>9, <2>2, <2>3
<1>10. ASSUME Disable
       PROVE  LauncherTypeOK'
  <2>1. ASSUME NEW w \in Window
        PROVE  [windows[w] EXCEPT !.phase = IF @ = "watched" THEN "open" ELSE @]
                 \in WindowState
    <3>1. windows[w] \in WindowState
      BY DEF LauncherTypeOK
    <3>2. QED
      BY <3>1 DEF WindowState
  <2>2. windows' \in [Window -> WindowState]
    BY <1>10, <2>1 DEF Disable
  <2>3. records' \in Seq(Record)
    BY <1>10 DEF Disable
  <2>4. QED
    BY <1>10, <2>2, <2>3 DEF LauncherTypeOK, Disable
<1>11. ASSUME Enable
       PROVE  LauncherTypeOK'
  BY <1>11 DEF LauncherTypeOK, Enable
<1>12. ASSUME UNCHANGED launcherVars
       PROVE  LauncherTypeOK'
  BY <1>12 DEF LauncherTypeOK, launcherVars
<1>13. QED
  BY <1>1, <1>2, <1>3, <1>4, <1>5, <1>6, <1>7, <1>8, <1>9, <1>10, <1>11, <1>12
     DEF LauncherNext, RequestStep, ShellStep

(* Every variable of the launcher keeps its type (placement.js).           *)
THEOREM LauncherTypeCorrect == LauncherSpec => []LauncherTypeOK
<1>1. LauncherInit => LauncherTypeOK
  BY DEF LauncherInit, LauncherTypeOK
<1>2. QED
  BY <1>1, TypeStep, PTL DEF LauncherSpec

-----------------------------------------------------------------------------
(* The invariant *)

(* A step that registers no record and gives no record a window, and in    *)
(* which no window changes its application, disturbs nothing.              *)
LEMMA Undisturbed ==
  ASSUME LauncherTypeOK, LauncherInv,
         DOMAIN records' = DOMAIN records,
         \A n \in DOMAIN records :
           /\ records'[n].app = records[n].app
           /\ records'[n].window = records[n].window
           /\ records'[n].state = "waiting" => records[n].state = "waiting",
         \A w \in Window : windows[w].phase # "none" =>
           /\ windows'[w].app = windows[w].app
           /\ windows'[w].phase # "none"
  PROVE  LauncherInv'
<1>1. OldestFirst' /\ WaitingIsUnplaced'
  BY DEF LauncherInv, OldestFirst, WaitingIsUnplaced
<1>2. ASSUME NEW n \in DOMAIN records
      PROVE  records[n].window \in Window \cup {Unplaced}
  <2>1. records[n] \in Record
    BY DEF LauncherTypeOK
  <2>2. QED
    BY <2>1 DEF Record
<1>3. WindowOfRecord'
  BY <1>2 DEF LauncherInv, WindowOfRecord
<1>4. QED
  BY <1>1, <1>3 DEF LauncherInv

(* A new record comes last, and has no window.                             *)
LEMMA RegisteredInv ==
  ASSUME LauncherTypeOK, LauncherInv, NEW kind, NEW state, NEW app, NEW r,
         records' = Registered(kind, state, app, r), UNCHANGED windows
  PROVE  LauncherInv'
<1>1. DOMAIN records = 1 .. Len(records) /\ Len(records) \in Nat
  BY DEF LauncherTypeOK
<1>2. DOMAIN records' = 1 .. (Len(records) + 1)
  BY DEF LauncherTypeOK, Registered
<1>3. \A n \in DOMAIN records : records'[n] = records[n]
  BY DEF LauncherTypeOK, Registered
<1>4. records'[Len(records) + 1].window = Unplaced
  BY DEF LauncherTypeOK, Registered
<1>5. \A n \in DOMAIN records' :
        n \in DOMAIN records \/ n = Len(records) + 1
  BY <1>1, <1>2
<1>6. \A m \in DOMAIN records', n \in DOMAIN records :
        m < n => m \in DOMAIN records
  BY <1>1, <1>2
<1>7. OldestFirst'
  BY <1>3, <1>4, <1>5, <1>6 DEF LauncherInv, OldestFirst
<1>8. WaitingIsUnplaced'
  BY <1>3, <1>4, <1>5 DEF LauncherInv, WaitingIsUnplaced
<1>9. WindowOfRecord'
  BY <1>3, <1>4, <1>5 DEF LauncherInv, WindowOfRecord
<1>10. QED
  BY <1>7, <1>8, <1>9 DEF LauncherInv

(* The heart of it: the window goes to the record that waited longest.     *)
LEMMA TryMatchInv ==
  ASSUME LauncherTypeOK, LauncherInv, NEW w \in Window, NEW now \in WindowState,
         now.phase # "none",
         windows[w].phase # "none" => now.app = windows[w].app,
         TryMatch(w, now)
  PROVE  LauncherInv'
<1>1. /\ windows' = [windows EXCEPT ![w] = now]
      /\ windows \in [Window -> WindowState]
  BY DEF TryMatch, LauncherTypeOK
<1>2. \A v \in Window : windows[v].phase # "none" =>
        windows'[v].app = windows[v].app /\ windows'[v].phase # "none"
  BY <1>1
<1>3. CASE UNCHANGED records
  BY <1>2, <1>3, Undisturbed
<1>4. ASSUME NEW k \in Oldest(Waiting(now.app)),
             records' = [records EXCEPT ![k] =
                          [@ EXCEPT !.state = "placed", !.window = w,
                                    !.requested = (now.size # "none")]]
      PROVE  LauncherInv'
  <2>1. /\ k \in DOMAIN records
        /\ records[k] \in Record
        /\ records[k].state = "waiting"
        /\ records[k].app = now.app
    BY DEF Oldest, Waiting, LauncherTypeOK
  <2>2. \A m \in DOMAIN records :
          records[m].state = "waiting" /\ records[m].app = now.app => k <= m
    BY DEF Oldest, Waiting
  <2>3. DOMAIN records' = DOMAIN records /\ DOMAIN records = 1 .. Len(records)
    BY <1>4 DEF LauncherTypeOK
  <2>4. \A m \in DOMAIN records : m # k => records'[m] = records[m]
    BY <1>4 DEF LauncherTypeOK
  <2>5. /\ records'[k].state = "placed"
        /\ records'[k].window = w
        /\ records'[k].app = records[k].app
    BY <1>4, <2>1 DEF Record
  <2>6. OldestFirst'
    <3> SUFFICES ASSUME NEW m \in DOMAIN records, NEW n \in DOMAIN records,
                        m < n, records'[m].app = records'[n].app,
                        records'[m].state = "waiting"
                 PROVE  records'[n].window = Unplaced
      BY <2>3 DEF OldestFirst
    <3>1. m # k /\ records'[m] = records[m]
      BY <2>4, <2>5
    <3>2. CASE n = k
      BY <2>1, <2>2, <2>3, <2>5, <3>1, <3>2
    <3>3. CASE n # k
      BY <2>4, <3>1, <3>3 DEF LauncherInv, OldestFirst
    <3>4. QED
      BY <3>2, <3>3
  <2>7. WaitingIsUnplaced'
    BY <2>3, <2>4, <2>5 DEF LauncherInv, WaitingIsUnplaced
  <2>8. WindowOfRecord'
    <3> SUFFICES ASSUME NEW n \in DOMAIN records, records'[n].window # Unplaced
                 PROVE  /\ windows'[records'[n].window].app = records'[n].app
                        /\ windows'[records'[n].window].phase # "none"
      BY <2>3 DEF WindowOfRecord
    <3>1. CASE n = k
      BY <1>1, <2>1, <2>5, <3>1
    <3>2. CASE n # k
      <4>1. records'[n] = records[n] /\ records[n] \in Record
        BY <2>4, <3>2 DEF LauncherTypeOK
      <4>2. records[n].window \in Window
        BY <4>1 DEF Record
      <4>3. QED
        BY <1>2, <4>1, <4>2 DEF LauncherInv, WindowOfRecord
    <3>3. QED
      BY <3>1, <3>2
  <2>9. QED
    BY <2>6, <2>7, <2>8 DEF LauncherInv
<1>5. QED
  BY <1>3, <1>4 DEF TryMatch

LEMMA InvariantStep ==
  LauncherTypeOK /\ LauncherInv /\ [LauncherNext]_launcherVars => LauncherInv'
<1> SUFFICES ASSUME LauncherTypeOK, LauncherInv, [LauncherNext]_launcherVars
             PROVE  LauncherInv'
  OBVIOUS
<1>1. ASSUME NEW r \in Request, NEW app \in App, Expect(app, r)
      PROVE  LauncherInv'
  BY <1>1, RegisteredInv DEF Expect
<1>2. ASSUME NEW r \in Request, NEW app \in App,
             NEW outcome \in {"waiting", "failed"}, Launch(app, r, outcome)
      PROVE  LauncherInv'
  BY <1>2, RegisteredInv DEF Launch
<1>3. ASSUME NEW r \in Request, NEW w \in Window, PlaceWindow(w, r)
      PROVE  LauncherInv'
  BY <1>3, Undisturbed DEF PlaceWindow
<1>4. ASSUME NEW w \in Window, NEW app \in App,
             NEW origin \in Request \cup {0}, NEW refuses \in BOOLEAN,
             WindowCreated(w, app, origin, refuses)
      PROVE  LauncherInv'
  <2>1. PICK known \in BOOLEAN :
          TryMatch(w, [phase |-> IF enabled THEN "watched" ELSE "open",
                       app |-> app, known |-> known, size |-> "none",
                       refuses |-> refuses, origin |-> origin])
    BY <1>4 DEF WindowCreated
  <2> DEFINE now == [phase |-> IF enabled THEN "watched" ELSE "open",
                     app |-> app, known |-> known, size |-> "none",
                     refuses |-> refuses, origin |-> origin]
  <2>2. now \in WindowState /\ now.phase # "none"
    BY DEF WindowState
  <2>3. windows[w].phase = "none"
    BY <1>4 DEF WindowCreated
  <2>4. QED
    BY <2>1, <2>2, <2>3, TryMatchInv
<1>5. ASSUME NEW w \in Window, Notify(w)
      PROVE  LauncherInv'
  <2> DEFINE now == [windows[w] EXCEPT !.known = TRUE]
  <2>1. windows[w] \in WindowState
    BY DEF LauncherTypeOK
  <2>2. /\ now \in WindowState
        /\ now.phase = windows[w].phase
        /\ now.app = windows[w].app
    BY <2>1 DEF WindowState
  <2>3. now.phase # "none" /\ TryMatch(w, now)
    BY <1>5, <2>2 DEF Notify
  <2>4. QED
    BY <2>2, <2>3, TryMatchInv
<1>6. ASSUME NEW w \in Window, Backstop(w)
      PROVE  LauncherInv'
  <2>1. PICK known \in {windows[w].known, TRUE} :
          TryMatch(w, [windows[w] EXCEPT !.phase = "open", !.known = known])
    BY <1>6 DEF Backstop
  <2> DEFINE now == [windows[w] EXCEPT !.phase = "open", !.known = known]
  <2>2. windows[w] \in WindowState /\ known \in BOOLEAN
    BY DEF LauncherTypeOK, WindowState
  <2>3. now \in WindowState /\ now.phase # "none" /\ now.app = windows[w].app
    BY <2>2 DEF WindowState
  <2>4. QED
    BY <2>1, <2>3, TryMatchInv
<1>7. ASSUME NEW w \in Window, FirstBuffer(w) \/ Acknowledge(w) \/ WindowCloses(w)
      PROVE  LauncherInv'
  <2>1. \A v \in Window : windows[v] \in WindowState
    BY DEF LauncherTypeOK
  <2>2. \A v \in Window : windows[v].phase # "none" =>
          windows'[v].app = windows[v].app /\ windows'[v].phase # "none"
    BY <1>7, <2>1
       DEF LauncherTypeOK, WindowState, FirstBuffer, Acknowledge, WindowCloses
  <2>3. UNCHANGED records
    BY <1>7 DEF FirstBuffer, Acknowledge, WindowCloses
  <2>4. QED
    BY <2>2, <2>3, Undisturbed
<1>8. ASSUME NEW n \in DOMAIN records, LaunchTimeout(n)
      PROVE  LauncherInv'
  <2>1. \A m \in DOMAIN records : records[m] \in Record
    BY DEF LauncherTypeOK
  <2>2. /\ DOMAIN records' = DOMAIN records
        /\ \A m \in DOMAIN records :
             /\ records'[m].app = records[m].app
             /\ records'[m].window = records[m].window
             /\ records'[m].state = "waiting" => records[m].state = "waiting"
    BY <1>8, <2>1 DEF LaunchTimeout, LauncherTypeOK, Record
  <2>3. QED
    BY <1>8, <2>2, Undisturbed DEF LaunchTimeout
<1>9. ASSUME NEW task \in tasks, PlaceWhenReady(task) \/ PlaceThrows(task)
      PROVE  LauncherInv'
  <2>1. DOMAIN records' = DOMAIN records /\ UNCHANGED windows
    BY <1>9 DEF PlaceWhenReady, PlaceThrows
  <2>2. ASSUME NEW m \in DOMAIN records
        PROVE  /\ records'[m].app = records[m].app
               /\ records'[m].window = records[m].window
               /\ records'[m].state = "waiting" => records[m].state = "waiting"
    <3>1. records[m] \in Record
      BY DEF LauncherTypeOK
    <3>2. records'[m] \in {records[m], [records[m] EXCEPT !.requested = TRUE],
                           [records[m] EXCEPT !.state = "failed"]}
      BY <1>9 DEF PlaceWhenReady, PlaceThrows
    <3>3. QED
      BY <3>1, <3>2 DEF Record
  <2>3. QED
    BY <2>1, <2>2, Undisturbed
<1>10. ASSUME Disable
       PROVE  LauncherInv'
  BY <1>10
     DEF Disable, LauncherInv, OldestFirst, WaitingIsUnplaced, WindowOfRecord
<1>11. ASSUME Enable \/ UNCHANGED launcherVars
       PROVE  LauncherInv'
  BY <1>11, Undisturbed DEF Enable, launcherVars
<1>12. QED
  BY <1>1, <1>2, <1>3, <1>4, <1>5, <1>6, <1>7, <1>8, <1>9, <1>10, <1>11
     DEF LauncherNext, RequestStep, ShellStep

(* The inductive invariant: requests are served in order, a record that    *)
(* waits has no window, and the window of a record is one of its           *)
(* application (placement.js:301-328).                                     *)
THEOREM LauncherInvariant == LauncherSpec => []LauncherInv
<1>1. LauncherInit => LauncherTypeOK /\ LauncherInv
  BY DEF LauncherInit, LauncherTypeOK, LauncherInv, OldestFirst,
         WaitingIsUnplaced, WindowOfRecord
<1>2. QED
  BY <1>1, TypeStep, InvariantStep, PTL DEF LauncherSpec

(* As long as one request for an application waits, no later one has been  *)
(* given a window (placement.js:307-319).                                  *)
THEOREM OldestFirstAlways == LauncherSpec => []OldestFirst
<1>1. LauncherInv => OldestFirst
  BY DEF LauncherInv
<1>2. QED
  BY <1>1, LauncherInvariant, PTL
=============================================================================
