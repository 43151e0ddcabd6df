----------------------- MODULE BrowserBridge_proofs -----------------------
(* Proofs about BrowserBridge: its types; the add-on duplicates no window  *)
(* it could know of; what is said to be asked for was read by a host; and  *)
(* one open window accounts for one saved window.                          *)
EXTENDS BrowserBridge, Selection_proofs

-----------------------------------------------------------------------------
(* What reconcile() knows: every window that was open when it looked, and  *)
(* every window it has made, is either closed by now or shows a set it     *)
(* compares with.                                                          *)

IsSequence(s) == \E S : s \in Seq(S)

IsTask(t) == {"todo", "existing", "before", "made"} \subseteq DOMAIN t

Knows(t, list) ==
  /\ t.before \in 0 .. Len(list)
  /\ t.made \subseteq DOMAIN list
  /\ \A j \in DOMAIN list :
       j <= t.before \/ j \in t.made => list[j] \in t.existing \cup {{}}

TasksKnow ==
  /\ IsSequence(windows)
  /\ \A t \in tasks : IsTask(t) /\ Knows(t, windows)

(* A list that is longer, or of which a window was closed, is still a      *)
(* sequence.                                                               *)
LEMMA AppendIsSequence ==
  ASSUME NEW s, IsSequence(s), NEW e
  PROVE  /\ IsSequence(Append(s, e))
         /\ Len(Append(s, e)) = Len(s) + 1
         /\ \A j \in DOMAIN s : j \in DOMAIN Append(s, e) /\ Append(s, e)[j] = s[j]
         /\ DOMAIN Append(s, e) = DOMAIN s \cup {Len(s) + 1}
         /\ DOMAIN s = 1 .. Len(s) /\ Len(s) \in Nat
         /\ Append(s, e)[Len(s) + 1] = e
<1>1. PICK S : s \in Seq(S)
  BY DEF IsSequence
<1>2. s \in Seq(S \cup {e}) /\ e \in S \cup {e}
  BY <1>1
<1>3. Append(s, e) \in Seq(S \cup {e})
  BY <1>2
<1>4. IsSequence(Append(s, e))
  BY <1>3 DEF IsSequence
<1> QED
  BY <1>2, <1>3, <1>4

(* ... and as long as before if windows were only closed. *)
LEMMA CloseIsSequence ==
  ASSUME NEW s, IsSequence(s), NEW t, DOMAIN t = DOMAIN s,
         \A j \in DOMAIN s : t[j] = s[j] \/ t[j] = {},
         t = [j \in DOMAIN s |-> t[j]]
  PROVE  IsSequence(t) /\ Len(t) = Len(s)
<1>1. PICK S : s \in Seq(S)
  BY DEF IsSequence
<1>2. DOMAIN s = 1 .. Len(s) /\ Len(s) \in Nat /\ \A j \in DOMAIN s : s[j] \in S
  BY <1>1
<1>3. t \in [1 .. Len(s) -> S \cup {{}}]
  BY <1>2
<1>4. t \in Seq(S \cup {{}})
  BY <1>2, <1>3
<1>5. IsSequence(t)
  BY <1>4 DEF IsSequence
<1>6. Len(t) = Len(s)
  BY <1>2, <1>3, <1>4
<1> QED
  BY <1>5, <1>6

(* What is known of a list is known when it grows ... *)
LEMMA KnowsLonger ==
  ASSUME NEW t, NEW s, IsSequence(s), NEW e, Knows(t, s)
  PROVE  Knows(t, Append(s, e))
<1>1. /\ DOMAIN s = 1 .. Len(s) /\ Len(s) \in Nat
      /\ Len(Append(s, e)) = Len(s) + 1
      /\ DOMAIN Append(s, e) = DOMAIN s \cup {Len(s) + 1}
      /\ \A j \in DOMAIN s : Append(s, e)[j] = s[j]
  BY AppendIsSequence
<1>2. t.before \in 0 .. Len(s) /\ t.made \subseteq DOMAIN s
  BY DEF Knows
<1>3. t.before \in 0 .. Len(Append(s, e)) /\ t.made \subseteq DOMAIN Append(s, e)
  BY <1>1, <1>2
<1>4. ASSUME NEW j \in DOMAIN Append(s, e), j <= t.before \/ j \in t.made
      PROVE  Append(s, e)[j] \in t.existing \cup {{}}
  <2>1. j \in DOMAIN s
    BY <1>1, <1>2, <1>4
  <2> QED
    BY <1>1, <1>4, <2>1 DEF Knows
<1> QED
  BY <1>3, <1>4 DEF Knows

(* ... or when windows of it are closed. *)
LEMMA KnowsClosed ==
  ASSUME NEW t, NEW s, NEW u, Len(u) = Len(s), DOMAIN u = DOMAIN s,
         \A j \in DOMAIN s : u[j] = s[j] \/ u[j] = {},
         Knows(t, s)
  PROVE  Knows(t, u)
BY DEF Knows

(* Nothing is open and nothing is asked for in the beginning. *)
LEMMA TasksKnowInit == Init => TasksKnow
<1> SUFFICES ASSUME Init PROVE TasksKnow
  OBVIOUS
<1>1. windows \in Seq({}) /\ tasks = {}
  BY DEF Init
<1> QED
  BY <1>1 DEF TasksKnow, IsSequence

(* Only a reconcile() that has made a window, or has just looked, knows more. *)
LEMMA TasksKnowNext == TasksKnow /\ [Next]_vars => TasksKnow'
<1> SUFFICES ASSUME TasksKnow, [Next]_vars PROVE TasksKnow'
  OBVIOUS
<1> USE DEF browserVars, addonVars, hostVars, dropVars, daemonVars, historyVars
<1>0. IsSequence(windows) /\ \A t \in tasks : IsTask(t) /\ Knows(t, windows)
  BY DEF TasksKnow
<1>1. ASSUME UNCHANGED <<windows, tasks>> PROVE TasksKnow'
  BY <1>1 DEF TasksKnow
<1>2. ASSUME NEW e, windows' = Append(windows, e), UNCHANGED tasks
      PROVE  TasksKnow'
  <2>1. IsSequence(windows')
    BY <1>0, <1>2, AppendIsSequence
  <2>2. \A t \in tasks : Knows(t, windows')
    BY <1>0, <1>2, KnowsLonger
  <2> QED
    BY <1>0, <1>2, <2>1, <2>2 DEF TasksKnow
<1>3. CASE StartBrowser
  BY <1>2, <1>3 DEF StartBrowser
<1>4. CASE QuitBrowser
  <2>1. windows' = [i \in DOMAIN windows |-> {}] /\ tasks' = {}
    BY <1>4 DEF QuitBrowser
  <2>2. IsSequence(windows')
    BY <1>0, <2>1, CloseIsSequence
  <2> QED
    BY <2>1, <2>2 DEF TasksKnow
<1>5. CASE WindowAppears
  BY <1>2, <1>5 DEF WindowAppears
<1>6. CASE UserClosesWindow
  <2>1. PICK i \in DOMAIN windows : windows' = [windows EXCEPT ![i] = {}]
    BY <1>6 DEF UserClosesWindow
  <2>2. /\ DOMAIN windows' = DOMAIN windows
        /\ \A j \in DOMAIN windows : windows'[j] = windows[j] \/ windows'[j] = {}
        /\ windows' = [j \in DOMAIN windows |-> windows'[j]]
        /\ tasks' = tasks
    BY <1>6, <2>1 DEF UserClosesWindow
  <2>3. IsSequence(windows') /\ Len(windows') = Len(windows)
    BY <1>0, <2>2, CloseIsSequence
  <2>4. \A t \in tasks : Knows(t, windows')
    BY <1>0, <2>2, <2>3, KnowsClosed
  <2> QED
    BY <1>0, <2>2, <2>3, <2>4 DEF TasksKnow
<1>7. CASE ReportFires
  BY <1>1, <1>7 DEF ReportFires, Post
<1>8. CASE ReconcileStep
  <2>1. PICK t \in tasks : LeaveAlone(t) \/ CreateWindow(t) \/ FinishReconcile(t)
    BY <1>8 DEF ReconcileStep
  <2>2. IsTask(t) /\ Knows(t, windows)
    BY <1>0
  <2>3. CASE LeaveAlone(t)
    <3> DEFINE u == [t EXCEPT !.todo = Tail(@)]
    <3>1. windows' = windows /\ tasks' = (tasks \ {t}) \cup {u}
      BY <2>3 DEF LeaveAlone
    <3>2. IsTask(u) /\ u.before = t.before /\ u.made = t.made /\ u.existing = t.existing
      BY <2>2 DEF IsTask
    <3> HIDE DEF u
    <3>3. Knows(u, windows)
      BY <2>2, <3>2 DEF Knows
    <3> QED
      BY <1>0, <3>1, <3>2, <3>3 DEF TasksKnow
  <2>4. CASE CreateWindow(t)
    <3> DEFINE u == [t EXCEPT !.todo = Tail(@), !.existing = @ \cup {Head(t.todo)},
                              !.made = @ \cup {Len(windows) + 1}]
    <3>1. /\ windows' = Append(windows, Head(t.todo))
          /\ tasks' = (tasks \ {t}) \cup {u}
      BY <2>4 DEF CreateWindow
    <3>2. /\ IsTask(u) /\ u.before = t.before
          /\ u.made = t.made \cup {Len(windows) + 1}
          /\ u.existing = t.existing \cup {Head(t.todo)}
      BY <2>2 DEF IsTask
    <3>3. \A v \in tasks : Knows(v, windows')
      BY <1>0, <3>1, KnowsLonger
    <3>4. /\ DOMAIN windows' = DOMAIN windows \cup {Len(windows) + 1}
          /\ windows'[Len(windows) + 1] = Head(t.todo)
          /\ IsSequence(windows')
      BY <1>0, <3>1, AppendIsSequence
    <3> HIDE DEF u
    <3>5. Knows(u, windows')
      <4>1. Knows(t, windows')
        BY <3>3
      <4>2. u.before \in 0 .. Len(windows') /\ u.made \subseteq DOMAIN windows'
        BY <4>1, <3>2, <3>4 DEF Knows
      <4>3. ASSUME NEW j \in DOMAIN windows', j <= u.before \/ j \in u.made
            PROVE  windows'[j] \in u.existing \cup {{}}
        <5>1. CASE j <= t.before \/ j \in t.made
          BY <4>1, <5>1, <3>2 DEF Knows
        <5>2. CASE j = Len(windows) + 1
          BY <5>2, <3>2, <3>4
        <5> QED
          BY <4>3, <3>2, <5>1, <5>2
      <4> QED
        BY <4>2, <4>3 DEF Knows
    <3> QED
      BY <1>0, <3>1, <3>2, <3>3, <3>4, <3>5 DEF TasksKnow
  <2>5. CASE FinishReconcile(t)
    BY <1>0, <2>5 DEF FinishReconcile, TasksKnow
  <2> QED
    BY <2>1, <2>3, <2>4, <2>5
<1>9. ASSUME NEW t \in tasks, CreateFails(t) PROVE TasksKnow'
  <2>1. windows' = windows \/ windows' = Append(windows, Head(t.todo))
    BY <1>9 DEF CreateFails
  <2>2. IsSequence(windows') /\ \A v \in tasks : Knows(v, windows')
    <3>1. CASE windows' = windows
      BY <1>0, <3>1
    <3>2. CASE windows' = Append(windows, Head(t.todo))
      BY <1>0, <3>2, AppendIsSequence, KnowsLonger
    <3> QED
      BY <2>1, <3>1, <3>2
  <2> QED
    BY <1>0, <1>9, <2>2 DEF CreateFails, TasksKnow
<1>10. ASSUME NEW h \in Host, HostStep(h) \/ HostDies(h) PROVE TasksKnow'
  <2>1. CASE ReadRequest(h)
    BY <1>1, <2>1 DEF ReadRequest
  <2>2. CASE RemoveRequest(h)
    BY <1>1, <2>2 DEF RemoveRequest
  <2>3. CASE Deliver(h)
    <3> DEFINE u == [n |-> held[h].n, host |-> h, todo |-> held[h].windows,
                     existing |-> OpenSets, before |-> Len(windows), made |-> {}]
    <3>1. windows' = windows /\ tasks' = tasks \cup {u}
      BY <2>3 DEF Deliver
    <3>2. IsTask(u)
      BY DEF IsTask
    <3>3. DOMAIN windows = 1 .. Len(windows) /\ Len(windows) \in Nat
      BY <1>0 DEF IsSequence
    <3>4. \A j \in DOMAIN windows : windows[j] \in OpenSets \cup {{}}
      BY DEF OpenSets, Range
    <3>5. Knows(u, windows)
      BY <3>3, <3>4 DEF Knows
    <3> QED
      BY <1>0, <3>1, <3>2, <3>5 DEF TasksKnow
  <2>4. CASE HostDies(h)
    BY <1>1, <2>4 DEF HostDies
  <2> QED
    BY <1>10, <2>1, <2>2, <2>3, <2>4 DEF HostStep
<1>11. CASE FlushSession
  BY <1>1, <1>11 DEF FlushSession
<1>12. CASE ReportAges
  BY <1>1, <1>12 DEF ReportAges
<1>13. CASE BuildPlan
  BY <1>1, <1>13 DEF BuildPlan
<1>14. CASE AskNobody \/ AskBrowser
  BY <1>1, <1>14 DEF AskNobody, AskBrowser
<1>15. CASE SeesTaken \/ GivesUp
  BY <1>1, <1>15 DEF SeesTaken, GivesUp
<1>16. CASE UNCHANGED vars
  BY <1>1, <1>16 DEF vars
<1> QED
  BY <1>3, <1>4, <1>5, <1>6, <1>7, <1>8, <1>9, <1>10, <1>11, <1>12, <1>13, <1>14,
     <1>15, <1>16 DEF Next

(* A window the add-on opens shows no less than nothing, and some window   *)
(* that shows all of it is none of those reconcile() knew.                 *)
LEMMA NeverDuplicatedStep ==
  ASSUME TasksKnow, [Next]_vars,
         NEW t \in tasks \ tasks', NEW j \in DOMAIN windows,
         Len(windows') > Len(windows), Last(windows') \subseteq windows[j]
  PROVE  j > t.before /\ j \notin t.made
<1> USE DEF browserVars, addonVars, hostVars, dropVars, daemonVars, historyVars
<1>1. /\ IsTask(t) /\ Knows(t, windows) /\ IsSequence(windows)
      /\ DOMAIN windows = 1 .. Len(windows) /\ Len(windows) \in Nat
  BY DEF TasksKnow, IsSequence
<1>2. CreateWindow(t) \/ CreateFails(t)
  <2>1. windows' # windows /\ tasks' # tasks
    BY <1>1
  <2>2. ~QuitBrowser
    <3>1. ASSUME QuitBrowser PROVE FALSE
      <4>1. windows' = [i \in DOMAIN windows |-> {}]
        BY <3>1 DEF QuitBrowser
      <4>2. Len(windows') = Len(windows)
        BY <1>1, <4>1, CloseIsSequence
      <4> QED
        BY <1>1, <4>2
    <3> QED
      BY <3>1
  <2>3. PICK u \in tasks : CreateWindow(u) \/ CreateFails(u)
    BY <2>1, <2>2 DEF Next, vars, StartBrowser, WindowAppears, UserClosesWindow,
      FlushSession, ReportFires, ReconcileStep, LeaveAlone, FinishReconcile, CreateFails,
      HostStep, ReadRequest, RemoveRequest, Deliver, HostDies, ReportAges, BuildPlan,
      AskNobody, AskBrowser, SeesTaken, GivesUp
  <2>4. tasks \ {u} \subseteq tasks'
    BY <2>3 DEF CreateWindow, CreateFails
  <2> QED
    BY <2>3, <2>4
<1>3. windows' = Append(windows, Head(t.todo)) /\ ~NeedsNoWindow(t)
  BY <1>1, <1>2 DEF CreateWindow, CreateFails
<1>4. Last(windows') = Head(t.todo)
  BY <1>1, <1>3, AppendIsSequence DEF Last
<1>5. ASSUME j <= t.before \/ j \in t.made PROVE FALSE
  <2>1. windows[j] \in t.existing \cup {{}}
    BY <1>1, <1>5 DEF Knows
  <2>2. Head(t.todo) \subseteq windows[j]
    BY <1>4
  <2> QED
    BY <1>3, <2>1, <2>2 DEF NeedsNoWindow, IsShown
<1>6. t.before \in Nat /\ j \in Nat
  BY <1>1 DEF Knows
<1> QED
  BY <1>5, <1>6

(* The add-on never opens what was open when it looked, nor the same thing *)
(* twice within one request (reconcile() of background.js).                *)
THEOREM BrowserNeverDuplicated == Spec => NeverDuplicated
<1>1. TasksKnow /\ [Next]_vars =>
        [ \A t \in tasks \ tasks', j \in DOMAIN windows :
            /\ Len(windows') > Len(windows)
            /\ Last(windows') \subseteq windows[j]
            => j > t.before /\ j \notin t.made ]_vars
  BY NeverDuplicatedStep
<1> QED
  BY <1>1, TasksKnowInit, TasksKnowNext, PTL DEF Spec, NeverDuplicated

-----------------------------------------------------------------------------
(* The result "done".  While the daemon waits, its request lies there or   *)
(* was read; a host that is about to remove what it has read removes the   *)
(* daemon's request only if it read that one, or the two crossed.          *)

(* The request that is being waited for has been read, or has crossed. *)
Known == restores \in taken \cup crossed

(* The inductive invariant. *)
DoneInv ==
  /\ restores \in Nat
  /\ pc \in {"planned", "asking"} => restores > 0
  /\ pc = "asking" => request.n = restores \/ Known
  /\ pc = "asking" /\ (\E h \in Host : hostPc[h] = "removing") => Known
  /\ hostPc = [h \in Host |-> hostPc[h]]
  /\ DoneWasTaken

(* No request has been made in the beginning. *)
LEMMA DoneInvInit == Init => DoneInv
BY DEF Init, DoneInv, DoneWasTaken

(* What is waited for lies there until a host that has read it removes it. *)
LEMMA DoneInvNext == DoneInv /\ [Next]_vars => DoneInv'
<1> SUFFICES ASSUME DoneInv, [Next]_vars PROVE DoneInv'
  OBVIOUS
<1> USE DEF browserVars, addonVars, hostVars, dropVars, daemonVars, historyVars,
            DoneInv, DoneWasTaken, Known
<1>1. ASSUME UNCHANGED <<request, daemonVars, taken, crossed>>,
             hostPc' = [h \in Host |-> hostPc'[h]],
             \A h \in Host : hostPc'[h] = "removing" => hostPc[h] = "removing"
      PROVE  DoneInv'
  BY <1>1
<1>2. CASE StartBrowser
  BY <1>1, <1>2 DEF StartBrowser
<1>3. CASE QuitBrowser
  BY <1>1, <1>3 DEF QuitBrowser
<1>4. CASE WindowAppears \/ UserClosesWindow \/ FlushSession \/ ReportAges
  BY <1>1, <1>4 DEF WindowAppears, UserClosesWindow, FlushSession, ReportAges
<1>5. ASSUME Post PROVE
        /\ hostPc' = [h \in Host |-> hostPc'[h]]
        /\ \A h \in Host : hostPc'[h] = "removing" => hostPc[h] = "removing"
  BY <1>5 DEF Post, Connect
<1>6. CASE ReportFires
  BY <1>1, <1>5, <1>6 DEF ReportFires
<1>7. CASE ReconcileStep
  BY <1>1, <1>5, <1>7 DEF ReconcileStep, LeaveAlone, CreateWindow, FinishReconcile
<1>8. ASSUME NEW t \in tasks, CreateFails(t) PROVE DoneInv'
  BY <1>1, <1>8 DEF CreateFails
<1>9. ASSUME NEW h \in Host, HostStep(h) PROVE DoneInv'
  <2>1. CASE ReadRequest(h)
    <3>1. taken' = taken \cup {request.n} /\ UNCHANGED <<request, daemonVars, crossed>>
      BY <2>1 DEF ReadRequest
    <3>2. pc = "asking" => Known'
      BY <3>1
    <3>3. hostPc' = [g \in Host |-> hostPc'[g]]
      BY <2>1 DEF ReadRequest
    <3> QED
      BY <3>1, <3>2, <3>3
  <2>2. CASE RemoveRequest(h)
    <3>1. /\ UNCHANGED <<daemonVars, taken, crossed>>
          /\ hostPc' = [hostPc EXCEPT ![h] = "sending"] /\ hostPc[h] = "removing"
      BY <2>2 DEF RemoveRequest
    <3>2. pc = "asking" => Known
      BY <3>1
    <3> QED
      BY <3>1, <3>2
  <2>3. CASE Deliver(h)
    BY <1>1, <2>3 DEF Deliver
  <2> QED
    BY <1>9, <2>1, <2>2, <2>3 DEF HostStep
<1>10. ASSUME NEW h \in Host, HostDies(h) PROVE DoneInv'
  BY <1>1, <1>10 DEF HostDies
<1>11. CASE BuildPlan
  BY <1>11 DEF BuildPlan
<1>12. CASE AskNobody
  BY <1>12 DEF AskNobody
<1>13. CASE AskBrowser
  BY <1>13 DEF AskBrowser
<1>14. CASE SeesTaken
  BY <1>14 DEF SeesTaken, NoRequest
<1>15. CASE GivesUp
  BY <1>15 DEF GivesUp
<1>16. CASE UNCHANGED vars
  BY <1>1, <1>16 DEF vars
<1> QED
  BY <1>2, <1>3, <1>4, <1>6, <1>7, <1>8, <1>9, <1>10, <1>11, <1>12, <1>13, <1>14,
     <1>15, <1>16 DEF Next

(* "asked the browser for ..." is said of a request that a host has read,  *)
(* or that crossed with a host removing another (_ask_the_browser()).      *)
THEOREM BrowserDoneWasTaken == Spec => []DoneWasTaken
<1>1. DoneInv => DoneWasTaken
  BY DEF DoneInv
<1> QED
  BY <1>1, DoneInvInit, DoneInvNext, PTL DEF Spec

-----------------------------------------------------------------------------
(* Types.  A host that has something to send has a request, and there is a *)
(* restore while the daemon is busy with one.                              *)
BrowserTypes ==
  /\ TypeOK
  /\ \A h \in Host : hostPc[h] \in {"removing", "sending"} => held[h] \in Request
  /\ pc \in {"planned", "asking"} => restores > 0

(* What is left of a list of windows without those that show nothing.      *)
LEMMA ShowingAreWindows ==
  ASSUME NEW s \in Seq(Pages \cup {{}})
  PROVE  EntriesAt(s, {i \in DOMAIN s : s[i] # {}}) \in Seq(Pages)
<1>1. PICK P \in SUBSET DOMAIN s : P = {i \in DOMAIN s : s[i] # {}}
  OBVIOUS
<1>2. PICK e : e = EntriesAt(s, P)
  OBVIOUS
<1>3. e \in Seq(Pages \cup {{}}) /\ \A k \in DOMAIN e : \E n \in P : e[k] = s[n]
  BY <1>2, EntriesAtPlaces
<1>4. \A n \in P : s[n] \in Pages
  BY <1>1
<1>5. \A k \in DOMAIN e : e[k] \in Pages
  BY <1>3, <1>4
<1>6. e \in Seq(Pages)
  BY <1>3, <1>5
<1> QED
  BY <1>1, <1>2, <1>6

(* What is open of the windows, and what Firefox writes down of them.      *)
LEMMA OpenAreWindows ==
  ASSUME windows \in Seq(Pages \cup {{}})
  PROVE  OpenPages \in Seq(Pages) /\ Session \in Seq(Pages) /\ OpenSets \subseteq Pages
<1>1. OpenPages \in Seq(Pages)
  BY ShowingAreWindows DEF OpenPages
<1>2. PICK kept : kept = [i \in DOMAIN windows |-> windows[i] \ {About}]
  OBVIOUS
<1>3. kept \in Seq(Pages \cup {{}})
  BY <1>2 DEF Pages
<1>4. Session = EntriesAt(kept, {i \in DOMAIN kept : kept[i] # {}})
  BY <1>2 DEF Session
<1>5. Session \in Seq(Pages)
  BY <1>3, <1>4, ShowingAreWindows
<1>6. OpenSets \subseteq Pages
  BY DEF OpenSets, Range
<1> QED
  BY <1>1, <1>5, <1>6

(* What a plan is while it is being made. *)
PlanRecord == [asked : Seq(SUBSET Page), already : SUBSET Nat, live : Seq(Pages)]

(* Of the windows that show some pages there is a first one.               *)
LEMMA FirstShows ==
  ASSUME NEW list \in Seq(Pages), NEW pages, IsShown(pages, ToSet(list))
  PROVE  FirstShowing(pages, list) \in DOMAIN list /\ pages \subseteq list[FirstShowing(pages, list)]
<1> DEFINE T == {k \in DOMAIN list : pages \subseteq list[k]}
<1>1. DOMAIN list = 1 .. Len(list) /\ Len(list) \in Nat
  OBVIOUS
<1>2. T # {} /\ T \in SUBSET Nat
  BY <1>1 DEF IsShown, ToSet
<1>3. PICK k \in T : \A m \in T : k <= m
  BY <1>2, LeastNatural
<1>4. \A m \in 1 .. k - 1 : ~ (pages \subseteq list[m])
  BY <1>1, <1>3
<1>5. \E n \in DOMAIN list : pages \subseteq list[n] /\ \A m \in 1 .. n - 1 : ~ (pages \subseteq list[m])
  BY <1>3, <1>4
<1> QED
  BY <1>5, Zenon DEF FirstShowing

(* A round of the planning either leaves a saved window out, or finds it   *)
(* among the live ones, of which it then takes one that shows it, or asks  *)
(* for it.                                                                 *)
LEMMA PlanRound ==
  ASSUME NEW p \in PlanRecord, saved \in Seq(Block), NEW i \in DOMAIN saved
  PROVE  /\ PlanWindow(p, i) \in PlanRecord
         /\ \/ PlanWindow(p, i).already = p.already /\ PlanWindow(p, i).live = p.live
            \/ /\ PlanWindow(p, i).already = p.already \cup {i}
               /\ \E k \in DOMAIN p.live : /\ Urls(i) \subseteq p.live[k]
                                           /\ PlanWindow(p, i).live = RemoveAt(p.live, k)
<1>1. p.asked \in Seq(SUBSET Page) /\ p.already \in SUBSET Nat /\ p.live \in Seq(Pages)
  BY DEF PlanRecord
<1>2. i \in Nat /\ Urls(i) \in SUBSET Page
  <2>1. saved[i] \in Block
    OBVIOUS
  <2>2. saved[i].tabs \in SUBSET (Page \cup {About})
    BY <2>1 DEF Block
  <2> QED
    BY <2>2 DEF Urls
<1>3. CASE ~IsRestorable(i)
  BY <1>3 DEF PlanWindow
<1>4. CASE IsRestorable(i) /\ IsShown(Urls(i), ToSet(p.live))
  <2>1. PICK k : k = FirstShowing(Urls(i), p.live)
    OBVIOUS
  <2>2. k \in DOMAIN p.live /\ Urls(i) \subseteq p.live[k]
    BY <1>1, <1>4, <2>1, FirstShows
  <2>3. RemoveAt(p.live, k) \in Seq(Pages)
    BY <1>1, <2>2, EntryRemoved
  <2>4. PlanWindow(p, i) = [p EXCEPT !.already = @ \cup {i}, !.live = RemoveAt(p.live, k)]
    BY <1>4, <2>1 DEF PlanWindow
  <2>5. PlanWindow(p, i) = [asked |-> p.asked, already |-> p.already \cup {i},
                            live |-> RemoveAt(p.live, k)]
    BY <2>4 DEF PlanRecord
  <2>6. PlanWindow(p, i) \in PlanRecord
    BY <1>1, <1>2, <2>3, <2>5 DEF PlanRecord
  <2> QED
    BY <2>2, <2>5, <2>6
<1>5. CASE IsRestorable(i) /\ ~IsShown(Urls(i), ToSet(p.live))
  <2>1. PlanWindow(p, i) = [p EXCEPT !.asked = Append(p.asked, Urls(i))]
    BY <1>5 DEF PlanWindow
  <2>2. PlanWindow(p, i) = [asked |-> Append(p.asked, Urls(i)), already |-> p.already,
                            live |-> p.live]
    BY <2>1 DEF PlanRecord
  <2>3. Append(p.asked, Urls(i)) \in Seq(SUBSET Page)
    BY <1>1, <1>2
  <2> QED
    BY <1>1, <2>2, <2>3 DEF PlanRecord
<1> QED
  BY <1>3, <1>4, <1>5

(* plan_browser_restore() goes from round to round. *)
LEMMA PlanRounds ==
  ASSUME saved \in Seq(Block), NEW live \in Seq(Pages)
  PROVE  \E r \in [0 .. Len(saved) -> PlanRecord] :
           /\ r[0] = [asked |-> <<>>, already |-> {}, live |-> live]
           /\ \A n \in 1 .. Len(saved) : r[n] = PlanWindow(r[n - 1], n)
           /\ PlanOf(live) = r[Len(saved)]
<1> DEFINE base == [asked |-> <<>>, already |-> {}, live |-> live]
           order == [i \in DOMAIN saved |-> i]
           body(g) == [s \in SUBSET DOMAIN order |->
                         IF s = {} THEN base
                         ELSE PlanWindow(g[s \ {Max(s)}], order[Max(s)])]
           iter == CHOOSE g : g = body(g)
<1>1. PlanOf(live) = iter[DOMAIN order]
  BY Zenon DEF PlanOf, FoldLeft, MapThenFoldSet
<1>2. PICK N \in Nat : N = Len(saved) /\ DOMAIN saved = 1 .. N
  OBVIOUS
<1>3. DOMAIN order = 1 .. N /\ \A i \in 1 .. N : order[i] = i
  BY <1>2
<1>4. ASSUME NEW s \in SUBSET (1 .. N), s # {} PROVE Max(s) \in s
  <2>1. \E y \in s : \A k \in s : y >= k
    BY <1>4, GreatestNumber
  <2> QED
    BY <2>1, Zenon DEF Max
<1>5. \E f \in [SUBSET (1 .. N) -> PlanRecord] : f = body(f)
  <2> DEFINE pick == [s \in SUBSET (1 .. N) |-> Max(s)]
             step == [p \in (1 .. N) \X PlanRecord |-> PlanWindow(p[2], p[1])]
  <2>1. step \in [(1 .. N) \X PlanRecord -> PlanRecord]
    BY <1>2, PlanRound
  <2>2. base \in PlanRecord
    BY DEF PlanRecord
  <2>3. \A s \in SUBSET (1 .. N) : s # {} => pick[s] \in s
    BY <1>4
  <2>4. IsFiniteSet(1 .. N)
    BY FS_Interval
  <2> HIDE DEF base, step, pick
  <2>5. PICK f \in [SUBSET (1 .. N) -> PlanRecord] :
          IsFold(f, SUBSET (1 .. N), base, pick, step)
    BY <2>1, <2>2, <2>3, <2>4, FoldExists
  <2>6. f = [s \in SUBSET (1 .. N) |->
               IF s = {} THEN base ELSE step[<<pick[s], f[s \ {pick[s]}]>>]]
    BY <2>5 DEF IsFold
  <2>7. \A s \in SUBSET (1 .. N) : s # {} =>
          step[<<pick[s], f[s \ {pick[s]}]>>] = PlanWindow(f[s \ {Max(s)}], order[Max(s)])
    <3> TAKE s \in SUBSET (1 .. N)
    <3> HAVE s # {}
    <3>1. PICK x : x = Max(s) /\ x = pick[s] /\ x \in 1 .. N
      BY <1>4 DEF pick
    <3>2. f[s \ {x}] \in PlanRecord
      OBVIOUS
    <3>3. step[<<x, f[s \ {x}]>>] = PlanWindow(f[s \ {x}], x)
      BY <3>1, <3>2 DEF step
    <3> QED
      BY <1>3, <3>1, <3>3
  <2> DEFINE next(s) == PlanWindow(f[s \ {Max(s)}], order[Max(s)])
  <2> HIDE DEF next
  <2>8. f = [s \in SUBSET (1 .. N) |-> IF s = {} THEN base ELSE next(s)]
    BY <2>6, <2>7 DEF next
  <2>9. f = body(f)
    BY <1>3, <2>8 DEF next
  <2> QED
    BY <2>9
<1>6. iter = body(iter)
  <2>1. \E f : f = body(f)
    BY <1>5
  <2> HIDE DEF body
  <2> QED
    BY <2>1
<1>7. \A s \in SUBSET (1 .. N) :
        iter[s] = IF s = {} THEN base ELSE PlanWindow(iter[s \ {Max(s)}], order[Max(s)])
  <2> HIDE DEF iter
  <2> QED
    BY <1>3, <1>6
<1> HIDE DEF iter, body
<1> DEFINE r == [n \in 0 .. N |-> iter[1 .. n]]
<1>8. r[0] = base
  <2>1. 1 .. 0 = {} /\ 0 \in 0 .. N /\ {} \in SUBSET (1 .. N)
    OBVIOUS
  <2>2. iter[{}] = base
    BY <1>7, <2>1, Zenon
  <2> QED
    BY <2>1, <2>2
<1>9. ASSUME NEW n \in 1 .. N PROVE r[n] = PlanWindow(r[n - 1], n)
  <2>1. 1 .. n \in SUBSET (1 .. N) /\ 1 .. n # {} /\ (1 .. n) \ {n} = 1 .. n - 1
    OBVIOUS
  <2>2. Max(1 .. n) = n
    <3>1. PICK x : x = Max(1 .. n)
      OBVIOUS
    <3>2. \E y \in 1 .. n : \A k \in 1 .. n : y >= k
      OBVIOUS
    <3>3. x \in 1 .. n /\ \A k \in 1 .. n : x >= k
      BY <3>1, <3>2, Zenon DEF Max
    <3> QED
      BY <3>1, <3>3
  <2>3. iter[1 .. n] = PlanWindow(iter[1 .. n - 1], n)
    BY <1>3, <1>7, <2>1, <2>2
  <2> QED
    BY <2>3
<1> HIDE DEF r
<1>10. \A n \in 0 .. N : r[n] \in PlanRecord
  <2>1. PICK Q : Q = {n \in 0 .. N : r[n] \in PlanRecord}
    OBVIOUS
  <2>2. base \in PlanRecord /\ 0 \in 0 .. N
    BY DEF PlanRecord
  <2>3. 0 \in Q
    BY <1>8, <2>1, <2>2
  <2>4. ASSUME NEW n \in 1 .. N, n - 1 \in Q PROVE n \in Q
    <3>1. n \in 0 .. N /\ PlanWindow(r[n - 1], n) \in PlanRecord
      BY <1>2, <2>1, <2>4, PlanRound
    <3> QED
      BY <1>9, <2>1, <3>1
  <2>5. \A n \in 0 .. N : n \in Q
    BY <2>3, <2>4, CountingUp
  <2> QED
    BY <2>1, <2>5
<1>11. r \in [0 .. N -> PlanRecord]
  <2>1. r = [n \in 0 .. N |-> r[n]]
    BY DEF r
  <2> QED
    BY <1>10, <2>1
<1>12. PlanOf(live) = r[N]
  BY <1>1, <1>3 DEF r
<1> QED
  BY <1>2, <1>8, <1>9, <1>11, <1>12

(* The saved windows a plan calls open that show some pages, and the live  *)
(* windows showing them that it has not taken.                             *)
Told(p, pages) == {i \in p.already : pages \subseteq Urls(i)}
Showing(pages) == {open \in Pages : pages \subseteq open}
Left(p, pages) == PlacesOf(p.live, Showing(pages))

(* What is called open and what is left, when a saved window is found.     *)
LEMMA ToldNext ==
  ASSUME NEW p, NEW q, NEW n, NEW pages, q.already = p.already \cup {n}
  PROVE  Told(q, pages) = IF pages \subseteq Urls(n) THEN Told(p, pages) \cup {n}
                                                     ELSE Told(p, pages)
BY DEF Told

(* With each saved window that is called open one live window is taken,    *)
(* one that shows all the saved one does.                                  *)
Fair(p, n, pages, most) ==
  /\ p.already \subseteq 1 .. n /\ IsFiniteSet(Told(p, pages))
  /\ Cardinality(Told(p, pages)) + Cardinality(Left(p, pages)) <= most

(* A round of the planning keeps it so.                                    *)
LEMMA FairRound ==
  ASSUME NEW p \in PlanRecord, NEW q, NEW n \in Nat, NEW pages \in SUBSET Page, NEW most \in Nat,
         NEW k \in DOMAIN p.live, Urls(n) \subseteq p.live[k], n > 0,
         q.live = RemoveAt(p.live, k), q.already = p.already \cup {n},
         Fair(p, n - 1, pages, most)
  PROVE  Fair(q, n, pages, most)
<1>1. p.already \subseteq 1 .. n - 1 /\ p.live \in Seq(Pages) /\ p.live[k] \in Pages
  BY DEF Fair, PlanRecord
<1>2. PICK told : told = Told(p, pages)
  OBVIOUS
<1>3. PICK left : left = Cardinality(Left(p, pages))
  OBVIOUS
<1>4. IsFiniteSet(told) /\ Cardinality(told) \in Nat /\ Cardinality(told) + left <= most
  BY <1>2, <1>3, FS_CardinalityType DEF Fair
<1>5. n \notin told /\ q.already \subseteq 1 .. n
  BY <1>1, <1>2 DEF Told
<1>6. left \in Nat
  BY <1>1, <1>3, PlacesAreFew DEF Left
<1>7. Cardinality(Left(q, pages)) = IF pages \subseteq p.live[k] THEN left - 1 ELSE left
  BY <1>1, <1>3, OneLessOfKind DEF Left, Showing
<1>8. CASE pages \subseteq Urls(n)
  <2>1. Told(q, pages) = told \cup {n}
    BY <1>2, <1>8, ToldNext
  <2>2. IsFiniteSet(Told(q, pages)) /\ Cardinality(Told(q, pages)) = Cardinality(told) + 1
    BY <1>4, <1>5, <2>1, FS_AddElement
  <2>3. Cardinality(Left(q, pages)) = left - 1
    BY <1>7, <1>8
  <2> QED
    BY <1>4, <1>5, <1>6, <2>2, <2>3 DEF Fair
<1>9. CASE ~ (pages \subseteq Urls(n))
  <2>1. Told(q, pages) = told
    BY <1>2, <1>9, ToldNext
  <2>2. Cardinality(Left(q, pages)) <= left /\ Cardinality(Left(q, pages)) \in Int
    BY <1>6, <1>7
  <2> QED
    BY <1>4, <1>5, <1>6, <2>1, <2>2 DEF Fair
<1> QED
  BY <1>8, <1>9

(* One live window accounts for one saved window. *)
LEMMA OneAccountsForOne ==
  ASSUME saved \in Seq(Block), NEW live \in Seq(Pages), NEW pages \in SUBSET Page
  PROVE  /\ PlanOf(live) \in PlanRecord
         /\ Cardinality({i \in PlanOf(live).already : pages \subseteq Urls(i)})
              <= Cardinality({k \in DOMAIN live : pages \subseteq live[k]})
<1>1. PICK N \in Nat : N = Len(saved) /\ DOMAIN saved = 1 .. N
  OBVIOUS
<1>2. PICK r \in [0 .. N -> PlanRecord] :
        /\ r[0] = [asked |-> <<>>, already |-> {}, live |-> live]
        /\ \A n \in 1 .. N : r[n] = PlanWindow(r[n - 1], n)
        /\ PlanOf(live) = r[N]
  BY <1>1, PlanRounds
<1>3. PICK most : most = Cardinality({k \in DOMAIN live : pages \subseteq live[k]})
  OBVIOUS
<1>4. Cardinality(Left(r[0], pages)) = most
  <2>1. Left(r[0], pages) = {k \in DOMAIN live : pages \subseteq live[k]}
    BY <1>2 DEF Left, PlacesOf, Showing
  <2> QED
    BY <1>3, <2>1
<1>5. most \in Nat
  <2>1. r[0].live = live
    BY <1>2
  <2> QED
    BY <1>4, <2>1, PlacesAreFew DEF Left
<1>6. Fair(r[0], 0, pages, most)
  <2>1. r[0].already = {} /\ Told(r[0], pages) = {}
    BY <1>2 DEF Told
  <2>2. IsFiniteSet(Told(r[0], pages)) /\ Cardinality(Told(r[0], pages)) = 0
    BY <2>1, FS_EmptySet
  <2> QED
    BY <1>4, <1>5, <2>1, <2>2 DEF Fair
<1>7. ASSUME NEW n \in 1 .. N, Fair(r[n - 1], n - 1, pages, most)
      PROVE  Fair(r[n], n, pages, most)
  <2>1. PICK p \in PlanRecord : p = r[n - 1]
    <3>1. n - 1 \in 0 .. N
      OBVIOUS
    <3> QED
      BY <3>1
  <2>2. PICK q : q = r[n]
    OBVIOUS
  <2>3. q = PlanWindow(p, n) /\ n \in DOMAIN saved /\ Fair(p, n - 1, pages, most)
    BY <1>1, <1>2, <1>7, <2>1, <2>2
  <2>4. CASE q.already = p.already /\ q.live = p.live
    <3>1. Told(q, pages) = Told(p, pages) /\ Left(q, pages) = Left(p, pages)
      BY <2>4 DEF Told, Left
    <3>2. q.already \subseteq 1 .. n
      BY <2>3, <2>4 DEF Fair
    <3>3. Fair(q, n, pages, most)
      BY <2>3, <3>1, <3>2 DEF Fair
    <3> QED
      BY <2>2, <3>3
  <2>5. CASE /\ q.already = p.already \cup {n}
             /\ \E k \in DOMAIN p.live : Urls(n) \subseteq p.live[k] /\ q.live = RemoveAt(p.live, k)
    <3>1. PICK k \in DOMAIN p.live : Urls(n) \subseteq p.live[k] /\ q.live = RemoveAt(p.live, k)
      BY <2>5
    <3>2. n \in Nat /\ n > 0
      OBVIOUS
    <3>3. Fair(q, n, pages, most)
      BY <1>5, <2>3, <2>5, <3>1, <3>2, FairRound
    <3> QED
      BY <2>2, <3>3
  <2> QED
    BY <2>3, <2>4, <2>5, PlanRound
<1>8. \A n \in 0 .. N : Fair(r[n], n, pages, most)
  <2>1. PICK Q : Q = {n \in 0 .. N : Fair(r[n], n, pages, most)}
    OBVIOUS
  <2>2. 0 \in Q
    BY <1>6, <2>1
  <2>3. ASSUME NEW n \in 1 .. N, n - 1 \in Q PROVE n \in Q
    BY <1>7, <2>1, <2>3
  <2>4. \A n \in 0 .. N : n \in Q
    BY <2>2, <2>3, CountingUp
  <2> QED
    BY <2>1, <2>4
<1>9. PICK p \in PlanRecord : p = r[N]
  OBVIOUS
<1>10. Fair(p, N, pages, most)
  BY <1>8, <1>9
<1>11. Cardinality(Told(p, pages)) <= most
  <2>1. PICK told, left : told = Cardinality(Told(p, pages)) /\ left = Cardinality(Left(p, pages))
    OBVIOUS
  <2>2. told \in Nat
    BY <1>10, <2>1, FS_CardinalityType DEF Fair
  <2>3. left \in Nat
    BY <1>9, <2>1, PlacesAreFew DEF Left, PlanRecord
  <2>4. told + left <= most
    BY <1>10, <2>1 DEF Fair
  <2> QED
    BY <1>5, <2>1, <2>2, <2>3, <2>4
<1>12. PlanOf(live) = p
  BY <1>2, <1>9
<1> HIDE DEF PlanOf
<1> QED
  BY <1>3, <1>11, <1>12 DEF Told

(* Every plan is one of what is saved and of some live windows.            *)
LEMMA LiveAreWindows ==
  ASSUME TypeOK
  PROVE  LiveWindows \in Seq(Pages)
<1>1. report \in Report \cup {NoFile} /\ sessionFile \in Seq(Pages)
  BY DEF TypeOK
<1>2. HasReport => report.windows \in Seq(Pages)
  BY <1>1 DEF HasReport, Report
<1> QED
  BY <1>1, <1>2 DEF LiveWindows

(* The types hold in the beginning. *)
LEMMA BrowserTypesInit == Init => BrowserTypes
<1> SUFFICES ASSUME Init PROVE BrowserTypes
  OBVIOUS
<1> USE DEF Init
<1>1. windows \in Seq(Pages \cup {{}}) /\ sessionFile \in Seq(Pages)
  BY BrowserAssumption
<1>2. report \in Report \cup {NoFile}
  <2>1. [windows |-> sessionFile, fresh |-> TRUE] \in Report
    BY <1>1 DEF Report
  <2>2. report \in {NoFile, [windows |-> sessionFile, fresh |-> TRUE]}
    OBVIOUS
  <2> HIDE DEF Init
  <2> QED
    BY <2>1, <2>2
<1>3. held \in [Host -> Request \cup {NoRequest}] /\ request \in Request \cup {NoRequest}
  OBVIOUS
<1>4. saved \in Seq(Block)
  BY BrowserAssumption
<1>5. plan \in [asked : Seq(SUBSET Page), already : SUBSET Nat, live : Seq(Pages)]
  BY DEF NoPlan
<1>6. /\ hostPc \in [Host -> {"off", "polling", "removing", "sending"}]
      /\ \A h \in Host : hostPc[h] \notin {"removing", "sending"}
  OBVIOUS
<1>7. /\ starts \in 0 .. MaxStarts /\ opened \in 0 .. MaxEvents
      /\ restores \in 0 .. MaxRestores /\ faults \in 0 .. MaxEvents
  BY BrowserAssumption
<1> QED
  BY <1>1, <1>2, <1>3, <1>4, <1>5, <1>6, <1>7 DEF BrowserTypes, TypeOK

(* Every action keeps the types: the lists stay lists of windows, what is  *)
(* asked for is a set of pages, and each bound is kept.                    *)
LEMMA BrowserTypesNext == BrowserTypes /\ [Next]_vars => BrowserTypes'
<1> SUFFICES ASSUME BrowserTypes, [Next]_vars PROVE BrowserTypes'
  OBVIOUS
<1> USE DEF browserVars, addonVars, hostVars, dropVars, daemonVars, historyVars
<1>0. /\ running \in BOOLEAN /\ starts \in 0 .. MaxStarts
      /\ windows \in Seq(Pages \cup {{}}) /\ opened \in 0 .. MaxEvents
      /\ unrestored \subseteq Pages /\ sessionFile \in Seq(Pages)
      /\ port \in Host \cup {NoHost} /\ tasks \subseteq Task
      /\ hostPc \in [Host -> {"off", "polling", "removing", "sending"}]
      /\ held \in [Host -> Request \cup {NoRequest}]
      /\ report \in Report \cup {NoFile} /\ dropExists \in BOOLEAN
      /\ request \in Request \cup {NoRequest}
      /\ saved \in Seq(Block) /\ pc \in {"idle", "planned", "asking"}
      /\ restores \in 0 .. MaxRestores
      /\ plan \in [asked : Seq(SUBSET Page), already : SUBSET Nat, live : Seq(Pages)]
      /\ result \in {"none", "done", "needs-you"}
      /\ taken \subseteq 1 .. MaxRestores /\ crossed \subseteq 1 .. MaxRestores
      /\ faults \in 0 .. MaxEvents
      /\ \A h \in Host : hostPc[h] \in {"removing", "sending"} => held[h] \in Request
      /\ pc \in {"planned", "asking"} => restores > 0
  BY DEF BrowserTypes, TypeOK
<1>N. MaxRestores \in Nat /\ MaxStarts \in Nat /\ MaxEvents \in Nat
  BY BrowserAssumption
<1>F. ASSUME Disturb PROVE faults' \in 0 .. MaxEvents
  BY <1>0, <1>N, <1>F DEF Disturb, Events
<1>P. ASSUME Post PROVE
        /\ port' \in Host \cup {NoHost} /\ dropExists' \in BOOLEAN
        /\ hostPc' \in [Host -> {"off", "polling", "removing", "sending"}]
        /\ held' \in [Host -> Request \cup {NoRequest}]
        /\ report' \in Report \cup {NoFile}
        /\ \A h \in Host : hostPc'[h] \in {"removing", "sending"} => held'[h] \in Request
  <2>1. report' = [windows |-> OpenPages, fresh |-> TRUE]
    BY <1>P DEF Post
  <2>2. report' \in Report
    BY <1>0, <2>1, OpenAreWindows DEF Report
  <2>3. CASE UNCHANGED <<port, hostPc, held, dropExists>>
    BY <1>0, <2>2, <2>3
  <2>4. ASSUME NEW h \in Host, Connect(h) PROVE
          /\ port' \in Host \cup {NoHost} /\ dropExists' \in BOOLEAN
          /\ hostPc' \in [Host -> {"off", "polling", "removing", "sending"}]
          /\ held' \in [Host -> Request \cup {NoRequest}]
          /\ \A g \in Host : hostPc'[g] \in {"removing", "sending"} => held'[g] \in Request
    BY <1>0, <2>4 DEF Connect
  <2> QED
    BY <1>P, <2>2, <2>3, <2>4 DEF Post
<1>1. CASE StartBrowser
  <2>1. {About} \in Pages /\ Range(sessionFile) \subseteq Pages
    BY <1>0 DEF Pages, Range
  <2>2. windows' \in Seq(Pages \cup {{}}) /\ unrestored' \subseteq Pages
    BY <1>0, <1>1, <2>1 DEF StartBrowser
  <2>3. starts' \in 0 .. MaxStarts
    BY <1>0, <1>N, <1>1 DEF StartBrowser
  <2>4. /\ hostPc' \in [Host -> {"off", "polling", "removing", "sending"}]
        /\ \A h \in Host : hostPc'[h] \notin {"removing", "sending"}
    BY <1>1 DEF StartBrowser
  <2> QED
    BY <1>0, <1>1, <2>2, <2>3, <2>4 DEF StartBrowser, BrowserTypes, TypeOK
<1>2. CASE QuitBrowser
  <2>1. windows' \in Seq(Pages \cup {{}})
    <3>1. windows' = [i \in 1 .. Len(windows) |-> {}] /\ Len(windows) \in Nat
      BY <1>0, <1>2 DEF QuitBrowser
    <3> QED
      BY <3>1
  <2>2. sessionFile' \in Seq(Pages)
    BY <1>0, <1>2, OpenAreWindows DEF QuitBrowser
  <2>3. faults' \in 0 .. MaxEvents
    BY <1>2, <1>F DEF QuitBrowser
  <2>4. /\ hostPc' \in [Host -> {"off", "polling", "removing", "sending"}]
        /\ \A h \in Host : hostPc'[h] \notin {"removing", "sending"}
        /\ held' \in [Host -> Request \cup {NoRequest}]
    BY <1>2 DEF QuitBrowser
  <2> QED
    BY <1>0, <1>2, <2>1, <2>2, <2>3, <2>4 DEF QuitBrowser, BrowserTypes, TypeOK
<1>3. CASE WindowAppears
  <2>1. windows' \in Seq(Pages \cup {{}}) /\ unrestored' \subseteq Pages
    BY <1>0, <1>3, BrowserAssumption DEF WindowAppears
  <2>2. opened' \in 0 .. MaxEvents
    BY <1>0, <1>N, <1>3 DEF WindowAppears, Events
  <2> QED
    BY <1>0, <1>3, <2>1, <2>2 DEF WindowAppears, BrowserTypes, TypeOK
<1>4. CASE UserClosesWindow
  <2>1. windows' \in Seq(Pages \cup {{}})
    BY <1>0, <1>4 DEF UserClosesWindow
  <2>2. faults' \in 0 .. MaxEvents
    BY <1>4, <1>F DEF UserClosesWindow
  <2> QED
    BY <1>0, <1>4, <2>1, <2>2 DEF UserClosesWindow, BrowserTypes, TypeOK
<1>5. CASE FlushSession
  <2>1. sessionFile' \in Seq(Pages)
    BY <1>0, <1>5, OpenAreWindows DEF FlushSession
  <2> QED
    BY <1>0, <1>5, <2>1 DEF FlushSession, BrowserTypes, TypeOK
<1>6. CASE ReportFires
  BY <1>0, <1>6, <1>P DEF ReportFires, BrowserTypes, TypeOK
<1>7. CASE ReconcileStep
  <2>1. PICK t \in tasks : LeaveAlone(t) \/ CreateWindow(t) \/ FinishReconcile(t)
    BY <1>7 DEF ReconcileStep
  <2>2. t \in Task
    BY <1>0
  <2>3. CASE LeaveAlone(t)
    <3>1. Tail(t.todo) \in Seq(SUBSET Page)
      BY <2>2, <2>3 DEF Task, LeaveAlone
    <3>2. [t EXCEPT !.todo = Tail(@)] \in Task
      BY <2>2, <3>1 DEF Task
    <3>3. tasks' \subseteq Task
      BY <1>0, <2>3, <3>2 DEF LeaveAlone
    <3> QED
      BY <1>0, <2>3, <3>3 DEF LeaveAlone, BrowserTypes, TypeOK
  <2>4. CASE CreateWindow(t)
    <3>1. t.todo \in Seq(SUBSET Page) /\ t.todo # <<>> /\ Head(t.todo) # {}
      BY <2>2, <2>4 DEF Task, CreateWindow, NeedsNoWindow
    <3>2. Tail(t.todo) \in Seq(SUBSET Page) /\ Head(t.todo) \in Pages
      BY <3>1 DEF Pages
    <3>3. Len(windows) + 1 \in Nat
      BY <1>0
    <3>4. [t EXCEPT !.todo = Tail(@), !.existing = @ \cup {Head(t.todo)},
                    !.made = @ \cup {Len(windows) + 1}] \in Task
      BY <2>2, <3>2, <3>3 DEF Task
    <3>5. tasks' \subseteq Task
      BY <1>0, <2>4, <3>4 DEF CreateWindow
    <3>6. windows' \in Seq(Pages \cup {{}})
      BY <1>0, <2>4, <3>2 DEF CreateWindow
    <3> QED
      BY <1>0, <2>4, <3>5, <3>6 DEF CreateWindow, BrowserTypes, TypeOK
  <2>5. CASE FinishReconcile(t)
    <3>1. tasks' \subseteq Task
      BY <1>0, <2>5 DEF FinishReconcile
    <3> QED
      BY <1>0, <1>P, <2>5, <3>1 DEF FinishReconcile, BrowserTypes, TypeOK
  <2> QED
    BY <2>1, <2>3, <2>4, <2>5
<1>8. ASSUME NEW t \in tasks, CreateFails(t) PROVE BrowserTypes'
  <2>1. tasks' \subseteq Task /\ faults' \in 0 .. MaxEvents
    BY <1>0, <1>8, <1>F DEF CreateFails
  <2>2. windows' \in Seq(Pages \cup {{}})
    <3>1. t.todo \in Seq(SUBSET Page) /\ t.todo # <<>> /\ Head(t.todo) # {}
      BY <1>0, <1>8 DEF Task, CreateFails, NeedsNoWindow
    <3>2. Head(t.todo) \in Pages
      BY <3>1 DEF Pages
    <3>3. windows \in Seq(Pages \cup {{}}) /\ Append(windows, Head(t.todo)) \in Seq(Pages \cup {{}})
      BY <1>0, <3>2
    <3>4. windows' = windows \/ windows' = Append(windows, Head(t.todo))
      BY <1>8 DEF CreateFails
    <3> QED
      BY <3>3, <3>4
  <2> QED
    BY <1>0, <1>8, <2>1, <2>2 DEF CreateFails, BrowserTypes, TypeOK
<1>9. ASSUME NEW h \in Host, ReadRequest(h) PROVE BrowserTypes'
  <2>1. request \in Request
    BY <1>0, <1>9 DEF ReadRequest
  <2>2. taken' \subseteq 1 .. MaxRestores
    BY <1>0, <1>9, <2>1 DEF ReadRequest, Request
  <2>3. /\ hostPc' \in [Host -> {"off", "polling", "removing", "sending"}]
        /\ held' \in [Host -> Request \cup {NoRequest}]
        /\ \A g \in Host : hostPc'[g] \in {"removing", "sending"} => held'[g] \in Request
    BY <1>0, <1>9, <2>1 DEF ReadRequest
  <2> QED
    BY <1>0, <1>9, <2>2, <2>3 DEF ReadRequest, BrowserTypes, TypeOK
<1>10. ASSUME NEW h \in Host, RemoveRequest(h) PROVE BrowserTypes'
  <2>1. /\ hostPc' \in [Host -> {"off", "polling", "removing", "sending"}]
        /\ \A g \in Host : hostPc'[g] \in {"removing", "sending"} => held[g] \in Request
    BY <1>0, <1>10 DEF RemoveRequest
  <2> QED
    BY <1>0, <1>10, <2>1 DEF RemoveRequest, BrowserTypes, TypeOK
<1>11. ASSUME NEW h \in Host, Deliver(h) PROVE BrowserTypes'
  <2>1. held[h] \in Request
    BY <1>0, <1>11 DEF Deliver
  <2>2. [n |-> held[h].n, host |-> h, todo |-> held[h].windows,
         existing |-> OpenSets, before |-> Len(windows), made |-> {}] \in Task
    BY <1>0, <2>1, OpenAreWindows DEF Task, Request
  <2>3. tasks' \subseteq Task
    BY <1>0, <1>11, <2>2 DEF Deliver
  <2>4. /\ hostPc' \in [Host -> {"off", "polling", "removing", "sending"}]
        /\ held' \in [Host -> Request \cup {NoRequest}]
        /\ \A g \in Host : hostPc'[g] \in {"removing", "sending"} => held'[g] \in Request
    BY <1>0, <1>11 DEF Deliver
  <2> QED
    BY <1>0, <1>11, <2>3, <2>4 DEF Deliver, BrowserTypes, TypeOK
<1>12. ASSUME NEW h \in Host, HostDies(h) PROVE BrowserTypes'
  <2>1. /\ hostPc' \in [Host -> {"off", "polling", "removing", "sending"}]
        /\ held' \in [Host -> Request \cup {NoRequest}]
        /\ \A g \in Host : hostPc'[g] \in {"removing", "sending"} => held'[g] \in Request
    BY <1>0, <1>12 DEF HostDies
  <2>2. faults' \in 0 .. MaxEvents
    BY <1>12, <1>F DEF HostDies
  <2> QED
    BY <1>0, <1>12, <2>1, <2>2 DEF HostDies, BrowserTypes, TypeOK
<1>13. CASE ReportAges
  <2>1. report \in Report
    BY <1>0, <1>13 DEF ReportAges
  <2>2. report' \in Report
    BY <1>13, <2>1 DEF ReportAges, Report
  <2>3. sessionFile' \in Seq(Pages)
    BY <1>0, <1>13, OpenAreWindows DEF ReportAges
  <2> QED
    BY <1>0, <1>13, <2>2, <2>3 DEF ReportAges, BrowserTypes, TypeOK
<1>14. CASE BuildPlan
  <2>1. PICK live \in Seq(Pages) : live = LiveWindows
    BY LiveAreWindows DEF BrowserTypes
  <2>2. PICK p \in PlanRecord : p = PlanOf(live)
    BY <1>0, <2>1, OneAccountsForOne
  <2>3. plan' = [p EXCEPT !.live = live]
    BY <1>14, <2>1, <2>2, Zenon DEF BuildPlan
  <2>4. plan' \in [asked : Seq(SUBSET Page), already : SUBSET Nat, live : Seq(Pages)]
    BY <2>3 DEF PlanRecord
  <2>5. restores' \in 0 .. MaxRestores /\ restores' > 0 /\ pc' = "planned"
    BY <1>0, <1>N, <1>14 DEF BuildPlan
  <2>6. UNCHANGED <<browserVars, addonVars, hostVars, dropVars, saved, result, historyVars>>
    BY <1>14, Zenon DEF BuildPlan
  <2> QED
    BY <1>0, <2>4, <2>5, <2>6 DEF BrowserTypes, TypeOK
<1>15. CASE AskNobody
  BY <1>0, <1>15 DEF AskNobody, BrowserTypes, TypeOK
<1>16. CASE AskBrowser
  <2>1. restores \in 1 .. MaxRestores
    BY <1>0, <1>N, <1>16 DEF AskBrowser
  <2>2. request' \in Request
    BY <1>0, <1>16, <2>1 DEF AskBrowser, Request
  <2>3. crossed' \subseteq 1 .. MaxRestores
    BY <1>0, <1>16, <2>1 DEF AskBrowser
  <2> QED
    BY <1>0, <1>16, <2>1, <2>2, <2>3 DEF AskBrowser, BrowserTypes, TypeOK
<1>17. CASE SeesTaken
  BY <1>0, <1>17 DEF SeesTaken, BrowserTypes, TypeOK
<1>18. CASE GivesUp
  BY <1>0, <1>18 DEF GivesUp, BrowserTypes, TypeOK
<1>19. CASE UNCHANGED vars
  BY <1>0, <1>19 DEF vars, BrowserTypes, TypeOK
<1> QED
  BY <1>1, <1>2, <1>3, <1>4, <1>5, <1>6, <1>7, <1>8, <1>9, <1>10, <1>11, <1>12,
     <1>13, <1>14, <1>15, <1>16, <1>17, <1>18, <1>19, Zenon DEF Next, HostStep

(* Type correctness of the browser bridge.                                 *)
THEOREM BrowserTypeCorrect == Spec => []TypeOK
<1>1. BrowserTypes => TypeOK
  BY DEF BrowserTypes
<1> QED
  BY <1>1, BrowserTypesInit, BrowserTypesNext, PTL DEF Spec

(* The plan was made of the snapshot and of the live windows it names.     *)
LEMMA OneForOneInit == Init => OneForOne
<1> SUFFICES ASSUME Init, NEW pages \in SUBSET Page
    PROVE  Cardinality({i \in plan.already : pages \subseteq Urls(i)})
             <= Cardinality({k \in DOMAIN plan.live : pages \subseteq plan.live[k]})
  BY DEF OneForOne
<1>1. /\ {i \in plan.already : pages \subseteq Urls(i)} = {}
      /\ {k \in DOMAIN plan.live : pages \subseteq plan.live[k]} = {}
  BY DEF Init, NoPlan
<1> QED
  BY <1>1, FS_EmptySet

(* Only the planning changes it, and it takes a live window for each.      *)
LEMMA OneForOneNext == BrowserTypes /\ OneForOne /\ [Next]_vars => OneForOne'
<1> SUFFICES ASSUME BrowserTypes, OneForOne, [Next]_vars PROVE OneForOne'
  OBVIOUS
<1>1. CASE UNCHANGED <<saved, plan>>
  BY <1>1 DEF OneForOne, Urls
<1>2. CASE BuildPlan
  <2>1. saved \in Seq(Block)
    BY DEF BrowserTypes, TypeOK
  <2>2. PICK live \in Seq(Pages) : live = LiveWindows
    BY LiveAreWindows DEF BrowserTypes
  <2>3. PICK p \in PlanRecord : p = PlanOf(live)
    BY <2>1, <2>2, OneAccountsForOne
  <2>4. plan' = [p EXCEPT !.live = live] /\ saved' = saved
    BY <1>2, <2>2, <2>3, Zenon DEF BuildPlan, daemonVars
  <2>5. plan'.already = p.already /\ plan'.live = live
    BY <2>4 DEF PlanRecord
  <2>6. \A pages \in SUBSET Page :
          Cardinality({i \in p.already : pages \subseteq Urls(i)})
            <= Cardinality({k \in DOMAIN live : pages \subseteq live[k]})
    BY <2>1, <2>3, OneAccountsForOne
  <2>7. \A i : (Urls(i))' = Urls(i)
    BY <2>4 DEF Urls
  <2> QED
    BY <2>5, <2>6, <2>7 DEF OneForOne
<1>3. CASE Next /\ ~BuildPlan
  BY <1>1, <1>3 DEF Next, vars, browserVars, addonVars, hostVars, dropVars, daemonVars,
    historyVars, StartBrowser, QuitBrowser, WindowAppears, UserClosesWindow,
    FlushSession, ReportFires, ReconcileStep, LeaveAlone, CreateWindow, FinishReconcile,
    CreateFails, HostStep, ReadRequest, RemoveRequest, Deliver, HostDies, ReportAges,
    AskNobody, AskBrowser, SeesTaken, GivesUp
<1>4. CASE UNCHANGED vars
  BY <1>1, <1>4 DEF vars, daemonVars
<1> QED
  BY <1>2, <1>3, <1>4

(* No more saved windows are called open than there are live windows that  *)
(* show what they show, whatever pages one looks at                        *)
(* (plan_browser_restore()).                                               *)
THEOREM BrowserOneForOne == Spec => []OneForOne
BY BrowserTypesInit, BrowserTypesNext, OneForOneInit, OneForOneNext, PTL DEF Spec
=============================================================================
