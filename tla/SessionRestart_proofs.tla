----------------------- MODULE SessionRestart_proofs -----------------------
(***************************************************************************)
(* Proofs about the capture loop, for every set of desktops and boots,     *)
(* every write interval and every number of changes and faults; and about  *)
(* the same loop across reboots, logins and restores.                      *)
(***************************************************************************)
EXTENDS SessionRestart, TLAPS

-----------------------------------------------------------------------------
(* One session (CaptureDaemon) *)

(* No step takes a variable out of its type. *)
LEMMA TypeStep == TypeOK /\ [Next]_vars => TypeOK'
<1> SUFFICES ASSUME TypeOK, [Next]_vars PROVE TypeOK'
  OBVIOUS
<1> USE DEF TypeOK, Seen
<1>1. ASSUME NEW d \in Desktop, Change(d)
       PROVE  TypeOK'
  <2>1. faults' \in Nat /\ age' \in 0 .. AgeCap
    BY <1>1, NumbersAssumption DEF Change, Fault
  <2>2. armed' \in BOOLEAN /\ noisy' \in BOOLEAN /\ missed' \in BOOLEAN
    BY <1>1 DEF Change
  <2>3. desktop' \in Desktop
    BY <1>1 DEF Change
  <2>4. UNCHANGED <<boot, core, burst, signal, daemonVars, disk>>
    BY <1>1 DEF Change
  <2>5. QED
    BY <2>1, <2>2, <2>3, <2>4 DEF daemonVars
<1>2. CASE DebounceFires
  <2>1. /\ armed' \in BOOLEAN /\ burst' \in Nat /\ signal' \in BOOLEAN
        /\ UNCHANGED <<worldVars, core, noisy, daemonVars, disk, historyVars>>
    BY <1>2 DEF DebounceFires
  <2>2. QED
    BY <2>1 DEF worldVars, daemonVars, historyVars
<1>3. CASE CoreDown
  <2>1. faults' \in Nat
    BY <1>3 DEF CoreDown, Fault
  <2>2. core' \in BOOLEAN /\ armed' \in BOOLEAN /\ missed' \in BOOLEAN
    BY <1>3 DEF CoreDown
  <2>3. UNCHANGED <<worldVars, noisy, burst, signal, daemonVars, disk, age>>
    BY <1>3 DEF CoreDown
  <2>4. QED
    BY <2>1, <2>2, <2>3 DEF worldVars, daemonVars
<1>4. CASE CoreUp
  <2>1. core' \in BOOLEAN /\ age' \in 0 .. AgeCap
    BY <1>4, NumbersAssumption DEF CoreUp
  <2>2. UNCHANGED <<worldVars, armed, noisy, burst, signal, daemonVars, disk,
                    missed, faults>>
    BY <1>4 DEF CoreUp
  <2>3. QED
    BY <2>1, <2>2 DEF worldVars, daemonVars
<1>5. CASE DeliverSignal
  <2>1. /\ signal' \in BOOLEAN /\ pending' \in BOOLEAN
        /\ UNCHANGED <<worldVars, coreVars, pc, caller, seen, memory, timer,
                       due, sinceWrite, paused, disk, historyVars>>
    BY <1>5 DEF DeliverSignal
  <2>2. QED
    BY <2>1 DEF worldVars, coreVars, historyVars
<1>6. CASE TickIdle
  <2>1. /\ due' \in BOOLEAN
        /\ UNCHANGED <<worldVars, coreVars, signal, pc, caller, seen, memory,
                       pending, timer, sinceWrite, paused, disk, historyVars>>
    BY <1>6 DEF TickIdle
  <2>2. QED
    BY <2>1 DEF worldVars, coreVars, historyVars
<1>7. CASE TickCapture
  BY <1>7 DEF TickCapture, StartCapture, worldVars, coreVars
<1>8. CASE HandleSave
  BY <1>8 DEF HandleSave, StartCapture, worldVars, coreVars
<1>9. CASE HandleGetSnapshot
  BY <1>9 DEF HandleGetSnapshot, StartCapture, worldVars, coreVars,
       historyVars
<1>10. CASE ReadLayout
  BY <1>10 DEF ReadLayout, EndHandler, Snapshot, worldVars, coreVars,
       historyVars
<1>11. CASE CaptureFails
  BY <1>11 DEF CaptureFails, Raise, EndHandler, Fault, worldVars, coreVars
<1>12. CASE Write
  <2>1. disk' \in [cur : File, prev : File]
    BY <1>12 DEF Write, Written, Rotated, File
  <2>2. age' \in 0 .. AgeCap /\ sinceWrite' \in 0 .. Interval
    BY <1>12, NumbersAssumption DEF Write, AgeWritten
  <2>3. QED
    BY <1>12, <2>1, <2>2 DEF Write, EndHandler, worldVars, coreVars
<1>13. CASE WriteFails
  <2>1. disk' \in [cur : File, prev : File]
    BY <1>13 DEF WriteFails, Written, Rotated, File
  <2>2. age' \in 0 .. AgeCap
    BY <1>13, NumbersAssumption DEF WriteFails, AgeWritten
  <2>3. QED
    BY <1>13, <2>1, <2>2 DEF WriteFails, Raise, EndHandler, Fault, worldVars,
                             coreVars
<1>14. ASSUME NEW isPaused \in PausedValues, StartDaemon(isPaused)
       PROVE  TypeOK'
  <2>1. memory' \in Snapshot
    BY <1>14 DEF StartDaemon, Blank, Snapshot
  <2>2. /\ age' \in 0 .. AgeCap /\ sinceWrite' \in 0 .. Interval
        /\ paused' \in BOOLEAN /\ missed' \in BOOLEAN
    BY <1>14, NumbersAssumption, KindsAssumption DEF StartDaemon
  <2>3. QED
    BY <1>14, <2>1, <2>2 DEF StartDaemon, StartCapture, EndHandler,
                             worldVars, coreVars
<1>15. CASE Quit
  <2>1. faults' \in Nat
    BY <1>15 DEF Quit, Fault
  <2>2. QED
    BY <1>15, <2>1 DEF Quit, StartCapture, ProcessGone, EndHandler,
                       worldVars, coreVars
<1>16. CASE Kill
  <2>1. faults' \in Nat
    BY <1>16 DEF Kill, Fault
  <2>2. QED
    BY <1>16, <2>1 DEF Kill, ProcessGone, EndHandler, worldVars, coreVars
<1>17. CASE ClockTick
  <2>1. age' \in 0 .. AgeCap /\ sinceWrite' \in 0 .. Interval
    BY <1>17, NumbersAssumption DEF ClockTick, Cap
  <2>2. burst' \in Nat
    BY <1>17 DEF ClockTick
  <2>3. due' \in BOOLEAN /\ noisy' \in BOOLEAN
    BY <1>17 DEF ClockTick
  <2>4. UNCHANGED <<worldVars, core, armed, signal, pc, caller, seen, memory,
                    pending, timer, paused, disk, missed, faults>>
    BY <1>17 DEF ClockTick
  <2>5. QED
    BY <2>1, <2>2, <2>3, <2>4 DEF worldVars
<1>18. CASE UNCHANGED vars
  BY <1>18 DEF vars, worldVars, coreVars, daemonVars, historyVars
<1>19. QED
  BY <1>1, <1>2, <1>3, <1>4, <1>5, <1>6, <1>7, <1>8, <1>9, <1>10, <1>11,
       <1>12, <1>13, <1>14, <1>15, <1>16, <1>17, <1>18 DEF Next, CoreStep,
       DaemonStep

(* The initial state is typed. *)
LEMMA InitTypes == Init => TypeOK
<1> SUFFICES ASSUME Init PROVE TypeOK
  OBVIOUS
<1>1. memory \in Snapshot
  BY NumbersAssumption DEF Init, Blank, Snapshot, Seen
<1>2. disk \in [cur : File, prev : File]
  BY DEF Init, File
<1>3. sinceWrite \in 0 .. Interval /\ age \in 0 .. AgeCap /\ burst \in Nat
  BY NumbersAssumption DEF Init
<1>4. QED
  BY <1>1, <1>2, <1>3, DesktopAssumption, NumbersAssumption
     DEF Init, TypeOK, Seen

(* Every variable keeps its type. *)
THEOREM TypeCorrect == Spec => []TypeOK
  BY InitTypes, TypeStep, PTL DEF Spec

-----------------------------------------------------------------------------
(* No step of the desktop, the extension or the daemon loses a change.     *)
LEMMA LostChangeStep == TypeOK /\ LostChangeInv /\ [Next]_vars => LostChangeInv'
<1> SUFFICES ASSUME TypeOK, LostChangeInv, [Next]_vars PROVE LostChangeInv'
  OBVIOUS
<1> USE DEF LostChangeInv, NothingForgotten, CaptureIsTrue, Reported, Saved,
            Describes
<1>1. ASSUME NEW d \in Desktop, Change(d)
      PROVE  LostChangeInv'
  BY <1>1 DEF Change, daemonVars
<1>2. CASE DebounceFires
  BY <1>2 DEF DebounceFires, worldVars, daemonVars, historyVars
<1>3. CASE CoreDown
  BY <1>3 DEF CoreDown, Fault, worldVars, daemonVars
<1>4. CASE CoreUp
  BY <1>4 DEF CoreUp, worldVars, daemonVars
<1>5. CASE DeliverSignal
  BY <1>5 DEF DeliverSignal, worldVars, coreVars, historyVars
<1>6. CASE TickIdle
  BY <1>6 DEF TickIdle, worldVars, coreVars, historyVars
<1>7. CASE TickCapture
  BY <1>7 DEF TickCapture, ShouldWrite, StartCapture, worldVars, coreVars
<1>8. CASE HandleSave
  BY <1>8 DEF HandleSave, StartCapture, worldVars, coreVars
<1>9. CASE HandleGetSnapshot
  BY <1>9 DEF HandleGetSnapshot, StartCapture, worldVars, coreVars, historyVars
<1>10. CASE ReadLayout
  BY <1>10 DEF ReadLayout, EndHandler, Snapshot, worldVars, coreVars,
       historyVars
<1>11. CASE CaptureFails
  BY <1>11 DEF CaptureFails, Raise, EndHandler, Fault, worldVars, coreVars
<1>12. CASE Write
  BY <1>12 DEF Write, TypeOK, Written, Rotated, EndHandler, worldVars, coreVars
<1>13. CASE WriteFails
  BY <1>13 DEF WriteFails, TypeOK, Written, Rotated, Raise, EndHandler, Fault,
       worldVars, coreVars
<1>14. ASSUME NEW isPaused \in PausedValues, StartDaemon(isPaused)
      PROVE  LostChangeInv'
  BY <1>14 DEF StartDaemon, StartCapture, EndHandler, Blank, Snapshot,
       worldVars, coreVars
<1>15. CASE Quit
  BY <1>15 DEF Quit, StartCapture, ProcessGone, EndHandler, Fault, worldVars,
       coreVars
<1>16. CASE Kill
  BY <1>16 DEF Kill, ProcessGone, EndHandler, Fault, worldVars, coreVars
<1>17. CASE ClockTick
  BY <1>17 DEF ClockTick, Cap, worldVars
<1>18. CASE UNCHANGED vars
  BY <1>18 DEF vars, worldVars, coreVars, daemonVars, historyVars
<1>19. QED
  BY <1>1, <1>2, <1>3, <1>4, <1>5, <1>6, <1>7, <1>8, <1>9, <1>10, <1>11,
       <1>12, <1>13, <1>14, <1>15, <1>16, <1>17, <1>18 DEF Next, CoreStep,
       DaemonStep

(* Whatever interleaves with a capture, what is not saved is pending, on   *)
(* its way, or will never be reported (the named parts of LostChangeInv).  *)
THEOREM LostChangeInvariant == Spec => []LostChangeInv
<1>1. Init => LostChangeInv
  BY DEF Init, LostChangeInv, NothingForgotten, CaptureIsTrue
<1>2. QED
  BY <1>1, TypeCorrect, LostChangeStep, PTL DEF Spec

(* While the daemon is in its main loop, no change is lost between the     *)
(* desktop and session.json.                                               *)
THEOREM NoLostChangeAlways == Spec => []NoLostChange
<1>1. LostChangeInv => NoLostChange
  BY DEF LostChangeInv, NothingForgotten, NoLostChange
<1>2. QED
  BY <1>1, LostChangeInvariant, PTL

(* Stopping the daemon leaves on disk what it knows of (daemon.py:364-369):*)
(* a stop that ends the process at once finds nothing pending, and the     *)
(* write of one that had something pending writes the desktop.             *)
THEOREM QuitSavesAlways == Spec => QuitSaves
<1>1. ASSUME TypeOK, LostChangeInv, [Next]_vars
      PROVE  [(Quit \/ Write) /\ pc' = "off" /\ CanRefresh /\ ~missed
                => Saved' \/ Reported]_vars
  <2> USE <1>1 DEF LostChangeInv, NothingForgotten, CaptureIsTrue, Saved,
                   Describes
  <2>1. ASSUME Quit, pc' = "off", CanRefresh, ~missed PROVE Saved' \/ Reported
    BY <2>1 DEF Quit, StartCapture, worldVars
  <2>2. ASSUME Write, ~missed PROVE Saved' \/ Reported
    BY <2>2 DEF Write, Written, Rotated, worldVars, TypeOK
  <2>3. QED
    BY <2>1, <2>2
<1>2. QED
  BY <1>1, TypeCorrect, LostChangeInvariant, PTL DEF Spec, QuitSaves

-----------------------------------------------------------------------------
(* The daemon is up as ReportedIsRecent asks, and in no handler that is    *)
(* about to write what it captures.                                        *)
Serving ==
  /\ pc # "off" /\ core /\ ~paused /\ timer /\ ~missed
  /\ caller \notin {"save", "tick"}

(* What a handler captured is the desktop, not the blank snapshot the      *)
(* process starts with; its write makes the file young.                    *)
NeverBlank ==
  /\ pc = "windows" => seen # Uncaptured
  /\ pc = "captured" /\ ~missed => memory.windows # Uncaptured

(* The parts of the staleness bound.  A file that is true has no age.      *)
TrueIsYoung == Serving /\ Saved => age = 0

(* Inside the write interval the file is as old as the last write ...      *)
YoungAfterWrite == Serving /\ sinceWrite < Interval => age <= sinceWrite

(* ... after it, as old as the burst that is on its way to be signalled,   *)
(* until the signal is in; then the next tick writes.                      *)
YoungWhileArmed == Serving /\ ~pending /\ ~signal /\ armed => age <= burst
YoungWhenSignalled == Serving /\ ~pending /\ signal => age <= MaxBurst
YoungBeforeTick ==
  Serving /\ pending /\ sinceWrite = Interval /\ ~due => age < MaxAge

RecentInv ==
  /\ burst <= MaxBurst
  /\ NeverBlank
  /\ TrueIsYoung
  /\ YoungAfterWrite
  /\ YoungWhileArmed
  /\ YoungWhenSignalled
  /\ YoungBeforeTick
  /\ Serving => age <= MaxAge

(* The two durations the bound is made of. *)
LEMMA BoundIsEnough ==
  /\ MaxAge \in Nat /\ MaxAge >= Interval /\ MaxAge > MaxBurst
  /\ Interval \in Nat \ {0} /\ MaxBurst \in Nat
BY NumbersAssumption DEF MaxAge

(* No step lets the file grow older than the parts of the bound say.       *)
LEMMA RecentStep ==
  ASSUME TypeOK, LostChangeInv, RecentInv, [Next]_vars
  PROVE  RecentInv'
<1> USE DesktopAssumption, NumbersAssumption
<1> USE DEF TypeOK, LostChangeInv, NothingForgotten, Reported, Saved, Describes,
            RecentInv, NeverBlank, TrueIsYoung, YoungAfterWrite, YoungWhileArmed,
            YoungWhenSignalled, YoungBeforeTick, Serving
<1>1. ASSUME NEW d \in Desktop, Change(d)
      PROVE  RecentInv'
  BY <1>1, BoundIsEnough DEF Change, Fault, daemonVars
<1>2. ASSUME NEW isPaused \in PausedValues, StartDaemon(isPaused)
      PROVE  RecentInv'
  BY <1>2, BoundIsEnough
     DEF StartDaemon, StartCapture, EndHandler, worldVars, coreVars
<1>3. CASE DebounceFires
  BY <1>3, BoundIsEnough DEF DebounceFires, worldVars, daemonVars, historyVars
<1>4. CASE CoreDown
  BY <1>4, BoundIsEnough DEF CoreDown, Fault, worldVars, daemonVars
<1>5. CASE CoreUp
  BY <1>5, BoundIsEnough DEF CoreUp, worldVars, daemonVars
<1>6. CASE DeliverSignal
  BY <1>6, BoundIsEnough DEF DeliverSignal, worldVars, coreVars, historyVars
<1>7. CASE TickIdle
  BY <1>7, BoundIsEnough DEF TickIdle, ShouldWrite, CanRefresh, worldVars,
       coreVars, historyVars
<1>8. CASE TickCapture
  BY <1>8, BoundIsEnough DEF TickCapture, StartCapture, worldVars, coreVars
<1>9. CASE HandleSave
  BY <1>9, BoundIsEnough DEF HandleSave, StartCapture, worldVars, coreVars
<1>10. CASE HandleGetSnapshot
  BY <1>10, BoundIsEnough DEF HandleGetSnapshot, StartCapture, worldVars,
       coreVars, historyVars
<1>11. CASE ReadLayout
  BY <1>11, BoundIsEnough DEF ReadLayout, EndHandler, Snapshot, worldVars,
       coreVars, historyVars
<1>12. CASE CaptureFails
  BY <1>12, BoundIsEnough DEF CaptureFails, Raise, EndHandler, Fault,
       worldVars, coreVars
<1>13. CASE Write
  BY <1>13, BoundIsEnough DEF Write, AgeWritten, Written, Rotated, EndHandler,
       worldVars, coreVars
<1>14. CASE WriteFails
  BY <1>14, BoundIsEnough DEF WriteFails, AgeWritten, Written, Rotated, Raise,
       EndHandler, Fault, worldVars, coreVars
<1>15. CASE Quit
  BY <1>15, BoundIsEnough DEF Quit, StartCapture, ProcessGone, EndHandler,
       Fault, worldVars, coreVars
<1>16. CASE Kill
  BY <1>16, BoundIsEnough DEF Kill, ProcessGone, EndHandler, Fault, worldVars,
       coreVars
<1>17. CASE ClockTick
  BY <1>17, BoundIsEnough DEF ClockTick, Cap, worldVars
<1>18. CASE UNCHANGED vars
  BY <1>18, BoundIsEnough DEF vars, worldVars, coreVars, daemonVars,
       historyVars
<1>19. QED
  BY <1>1, <1>2, <1>3, <1>4, <1>5, <1>6, <1>7, <1>8, <1>9, <1>10, <1>11,
     <1>12, <1>13, <1>14, <1>15, <1>16, <1>17, <1>18 DEF Next, CoreStep,
     DaemonStep

(* The file is at most MaxAge ticks older than the desktop it describes    *)
(* while what keeps it current is up, for every write interval and every   *)
(* burst length, through failing calls and torn captures.                  *)
THEOREM ReportedIsRecentAlways == Spec => []ReportedIsRecent
<1>1. Init => RecentInv
  BY BoundIsEnough
     DEF Init, RecentInv, NeverBlank, TrueIsYoung, YoungAfterWrite,
         YoungWhileArmed, YoungWhenSignalled, YoungBeforeTick, Serving
<1>2. LostChangeInv /\ RecentInv => ReportedIsRecent
  BY DEF LostChangeInv, NothingForgotten, RecentInv, Serving, ReportedIsRecent,
         Working
<1>3. QED
  BY <1>1, <1>2, RecentStep, TypeCorrect, LostChangeInvariant, PTL DEF Spec

-----------------------------------------------------------------------------
(* Reboots *)

(* What a step of the capture loop can do to the files and to what will be *)
(* written to them.                                                        *)
LEMMA CaptureShape ==
  [Next]_vars => /\ boot' = boot
                 /\ memory' = memory \/ memory'.boot = boot
                 /\ disk' \in {disk, Rotated, Written}
<1> SUFFICES ASSUME [Next]_vars
             PROVE  /\ boot' = boot
                    /\ memory' = memory \/ memory'.boot = boot
                    /\ disk' \in {disk, Rotated, Written}
  OBVIOUS
<1> USE DEF worldVars, coreVars, daemonVars, historyVars
<1>1. CASE CoreStep
  BY <1>1 DEF CoreStep, Change, DebounceFires, CoreDown, CoreUp
<1>2. CASE DeliverSignal \/ TickIdle \/ TickCapture \/ HandleSave
             \/ HandleGetSnapshot
  BY <1>2 DEF DeliverSignal, TickIdle, TickCapture, HandleSave,
              HandleGetSnapshot
<1>3. CASE ReadLayout \/ CaptureFails
  BY <1>3 DEF ReadLayout, CaptureFails
<1>4. CASE Write \/ WriteFails
  BY <1>4 DEF Write, WriteFails
<1>5. ASSUME NEW isPaused \in PausedValues, StartDaemon(isPaused)
      PROVE  /\ boot' = boot
             /\ memory'.boot = boot
             /\ disk' = disk
  BY <1>5 DEF StartDaemon, Blank
<1>6. CASE Quit \/ Kill \/ ClockTick
  BY <1>6 DEF Quit, Kill, ClockTick
<1>7. CASE UNCHANGED vars
  BY <1>7 DEF vars
<1>8. QED
  BY <1>1, <1>2, <1>3, <1>4, <1>5, <1>6, <1>7 DEF Next, DaemonStep

AllTypes == TypeOK /\ SessionTypeOK

(* Every variable keeps its type. *)
LEMMA SessionTypeStep == AllTypes /\ [SessionNext]_allVars => AllTypes'
<1> SUFFICES ASSUME AllTypes, [SessionNext]_allVars PROVE AllTypes'
  OBVIOUS
<1> USE DEF AllTypes
<1>1. Loaded \in File
  BY DEF Loaded, TypeOK
<1>2. CASE CaptureStep
  <2>1. TypeOK'
    BY <1>2, TypeStep DEF CaptureStep
  <2>2. writes' \in 0 .. 2
    <3>1. writes \in 0 .. 2
      BY DEF SessionTypeOK
    <3>2. writes' = writes \/ writes' = IF writes + 1 > 2 THEN 2 ELSE writes + 1
      BY <1>2 DEF CaptureStep, Cap
    <3>3. QED
      BY <3>1, <3>2
  <2>3. UNCHANGED <<first, login, offered, lastBoot>>
    BY <1>2 DEF CaptureStep
  <2>4. QED
    BY <2>1, <2>2, <2>3 DEF SessionTypeOK
<1>3. ASSUME NewSession
      PROVE  /\ desktop' \in Desktop
             /\ core' \in BOOLEAN /\ armed' \in BOOLEAN /\ noisy' \in BOOLEAN
             /\ burst' \in Nat
             /\ age' \in 0 .. AgeCap
             /\ login' = "due"
             /\ offered' \in File
             /\ disk' = disk /\ faults' = faults
  <2>1. age' \in 0 .. AgeCap /\ burst' \in Nat
    BY <1>3, NumbersAssumption DEF NewSession
  <2>2. QED
    BY <1>3, <2>1, DesktopAssumption DEF NewSession, File
<1>4. CASE Reboot
  <2>1. boot' \in Boots /\ memory' \in Snapshot
    BY <1>4 DEF Reboot, Snapshot, Seen
  <2>2. /\ pc' = "off" /\ caller' = "none" /\ seen' = Uncaptured
        /\ pending' = FALSE /\ timer' = FALSE /\ due' = FALSE
        /\ signal' = FALSE
    BY <1>4 DEF Reboot, ProcessGone, EndHandler
  <2>3. /\ missed' = FALSE /\ first' = TRUE /\ lastBoot' \in File
        /\ writes' = 0 /\ UNCHANGED <<sinceWrite, paused>>
    BY <1>4, <1>1 DEF Reboot
  <2>4. NewSession
    BY <1>4 DEF Reboot
  <2>5. TypeOK'
    BY <1>3, <2>1, <2>2, <2>3, <2>4 DEF TypeOK, Seen
  <2>6. SessionTypeOK'
    <3>1. first' \in BOOLEAN /\ writes' \in 0 .. 2
      BY <2>3
    <3>2. QED
      BY <1>3, <2>3, <2>4, <3>1 DEF SessionTypeOK
  <2>7. QED
    BY <2>5, <2>6
<1>5. CASE LogOutAndIn
  <2>1. NewSession
    BY <1>5 DEF LogOutAndIn
  <2>2. /\ missed' = FALSE /\ first' = FALSE
        /\ UNCHANGED <<boot, signal, daemonVars, lastBoot, writes>>
    BY <1>5 DEF LogOutAndIn
  <2>3. TypeOK'
    BY <1>3, <2>1, <2>2 DEF TypeOK, daemonVars
  <2>4. QED
    BY <1>3, <2>1, <2>2, <2>3 DEF SessionTypeOK
<1>6. CASE LoginCheck
  <2>1. TypeOK'
    BY <1>6, TypeStep DEF LoginCheck
  <2>2. login' \in {"due", "offered", "nothing", "same boot"}
        /\ offered' \in File
    BY <1>1, <1>6 DEF LoginCheck, Decision, File
  <2>3. login' = "offered" => offered' \in Snapshot
    BY <1>1, <1>6 DEF LoginCheck, Decision, File
  <2>4. QED
    BY <1>6, <2>1, <2>2, <2>3 DEF LoginCheck, SessionTypeOK
<1>7. CASE BuildRestorePlan
  <2>1. TypeOK'
    BY <1>7 DEF BuildRestorePlan, StartCapture, TypeOK, Seen, worldVars,
                coreVars, historyVars
  <2>2. QED
    BY <1>7, <2>1 DEF BuildRestorePlan, sessionVars, SessionTypeOK
<1>8. CASE UNCHANGED allVars
  <2>1. UNCHANGED vars /\ UNCHANGED sessionVars
    BY <1>8 DEF allVars
  <2>2. TypeOK'
    BY <2>1, TypeStep
  <2>3. QED
    BY <2>1, <2>2 DEF sessionVars, SessionTypeOK
<1>9. QED
  BY <1>2, <1>4, <1>5, <1>6, <1>7, <1>8 DEF SessionNext

(* Every variable keeps its type, across reboots and logins. *)
THEOREM SessionTypeCorrect == SessionSpec => [](TypeOK /\ SessionTypeOK)
<1>1. SessionInit => AllTypes
  BY InitTypes DEF SessionInit, AllTypes, SessionTypeOK, File
<1>2. AllTypes => TypeOK /\ SessionTypeOK
  BY DEF AllTypes
<1>3. QED
  BY <1>1, <1>2, SessionTypeStep, PTL DEF SessionSpec

-----------------------------------------------------------------------------
(* A write or the first half of one keeps the files in order and the       *)
(* snapshot this boot started from.                                        *)
LEMMA CaptureKeepsSession ==
  AllTypes /\ SessionInv /\ CaptureStep => SessionInv'
<1> SUFFICES ASSUME AllTypes, SessionInv, CaptureStep PROVE SessionInv'
  OBVIOUS
<1> USE DEF AllTypes, TypeOK, SessionInv, MemoryIsOfBoot, Untouched,
            Overwritten, PreviousBootSpared, OfferIsOfLastBoot, SpareIsOlder
<1>1. /\ boot' = boot
      /\ memory' = memory \/ memory'.boot = boot
      /\ disk' \in {disk, Rotated, Written}
  BY CaptureShape DEF CaptureStep
<1>2. UNCHANGED <<offered, lastBoot>>
  BY DEF CaptureStep
<1>3. boot \in Nat /\ memory.boot = boot /\ memory # NoSnapshot
  BY NumbersAssumption, NoSnapshotAssumption
<1>4. writes \in 0 .. 2
  BY DEF SessionTypeOK
<1>5. writes' = writes \/ writes' = IF writes + 1 > 2 THEN 2 ELSE writes + 1
  BY DEF CaptureStep, Cap
<1>6. disk' # disk => writes' = IF writes + 1 > 2 THEN 2 ELSE writes + 1
  BY DEF CaptureStep, Cap
<1>7. disk' = disk => writes' = writes
  BY DEF CaptureStep
<1>8. CASE disk' = disk
  BY <1>1, <1>2, <1>3, <1>7, <1>8
<1>9. ASSUME disk' # disk
      PROVE  /\ writes' # 0
             /\ writes' <= 1 => writes = 0
  BY <1>4, <1>6, <1>9
<1>10. MemoryIsOfBoot' /\ OfferIsOfLastBoot'
  BY <1>1, <1>2
<1>11. CASE disk' = Rotated /\ disk' # disk
  <2>1. disk'.cur = disk.cur /\ disk.cur # NoSnapshot /\ disk'.prev = disk.cur
    BY <1>11 DEF Rotated
  <2>2. disk.cur.boot \in Nat
    BY <2>1, NumbersAssumption DEF File, Snapshot
  <2>3. Untouched' /\ PreviousBootSpared'
    BY <1>2, <1>9, <1>11, <2>1
  <2>4. disk.cur.boot <= boot
    BY <2>1
  <2>5. Overwritten' /\ SpareIsOlder'
    BY <1>1, <1>2, <1>3, <2>1, <2>2, <2>4
  <2>6. QED
    BY <1>10, <2>3, <2>5
<1>12. CASE disk' = Written /\ disk' # disk
  <2>1. disk'.cur = memory
    BY <1>12 DEF Written, Rotated
  <2>2. disk'.prev = IF disk.cur = NoSnapshot THEN disk.prev ELSE disk.cur
    BY <1>12 DEF Written, Rotated
  <2>3. disk'.prev # NoSnapshot => disk'.prev.boot <= boot
    BY <1>3, <2>2
  <2>4. Untouched' /\ PreviousBootSpared'
    BY <1>2, <1>9, <1>12, <2>2
  <2>5. Overwritten' /\ SpareIsOlder'
    BY <1>1, <1>2, <1>3, <2>1, <2>2, <2>3
  <2>6. QED
    BY <1>10, <2>4, <2>5
<1>13. QED
  BY <1>1, <1>8, <1>11, <1>12

(* Until a boot has written, what would be loaded is what it started from; *)
(* once it has, what would be loaded is its own.                           *)
THEOREM SessionInvariant == SessionSpec => []SessionInv
<1> USE DEF SessionInv, MemoryIsOfBoot, Untouched, Overwritten,
            PreviousBootSpared, OfferIsOfLastBoot, SpareIsOlder
<1>1. SessionInit => SessionInv
  BY DEF SessionInit, Init, Blank
<1>2. AllTypes /\ SessionInv /\ [SessionNext]_allVars => SessionInv'
  <2> SUFFICES ASSUME AllTypes, SessionInv, [SessionNext]_allVars
               PROVE  SessionInv'
    OBVIOUS
  <2>1. CASE CaptureStep
    BY <2>1, CaptureKeepsSession
  <2>2. CASE Reboot
    <3>1. boot \in Nat /\ boot' = boot + 1
      BY <2>2, NumbersAssumption DEF Reboot, AllTypes, TypeOK
    <3>2. Loaded = disk.cur
      BY DEF Loaded
    <3>3. /\ memory'.boot = boot' /\ lastBoot' = disk.cur /\ writes' = 0
          /\ offered' = NoSnapshot /\ disk' = disk
      BY <2>2, <3>2 DEF Reboot, NewSession
    <3>4. SpareIsOlder'
      <4> SUFFICES ASSUME disk.cur # NoSnapshot PROVE disk.cur.boot <= boot'
        BY <3>3
      <4>1. disk.cur \in Snapshot
        BY DEF AllTypes, TypeOK, File
      <4>2. disk.cur.boot \in Nat
        BY <4>1, NumbersAssumption DEF Snapshot
      <4>3. QED
        BY <3>1, <4>2
    <3>5. QED
      BY <3>3, <3>4
  <2>3. CASE LogOutAndIn
    BY <2>3 DEF LogOutAndIn, NewSession, daemonVars
  <2>4. CASE LoginCheck
    <3>1. UNCHANGED <<boot, memory, disk, lastBoot, writes>>
      BY <2>4 DEF LoginCheck, vars, worldVars, daemonVars
    <3>2. Loaded = disk.cur
      BY DEF Loaded
    <3>3. offered' # NoSnapshot => offered' = lastBoot
      BY <2>4, <3>2 DEF LoginCheck, Decision
    <3>4. QED
      BY <3>1, <3>3
  <2>5. CASE BuildRestorePlan
    BY <2>5 DEF BuildRestorePlan, worldVars, sessionVars
  <2>6. CASE UNCHANGED allVars
    BY <2>6 DEF allVars, sessionVars, vars, worldVars, daemonVars
  <2>7. QED
    BY <2>1, <2>2, <2>3, <2>4, <2>5, <2>6 DEF SessionNext
<1>3. QED
  <2>1. SessionSpec => []AllTypes
    BY SessionTypeCorrect, PTL DEF AllTypes
  <2>2. QED
    BY <1>1, <1>2, <2>1, PTL DEF SessionSpec

(* The snapshot a boot started from survives its first write.              *)
THEOREM PreviousBootSparedAlways == SessionSpec => []PreviousBootSpared
<1>1. SessionInv => PreviousBootSpared
  BY DEF SessionInv
<1>2. QED
  BY <1>1, SessionInvariant, PTL

(* An offer at login is of the last snapshot of the boot before.           *)
THEOREM OfferIsOfLastBootAlways == SessionSpec => []OfferIsOfLastBoot
<1>1. SessionInv => OfferIsOfLastBoot
  BY DEF SessionInv
<1>2. QED
  BY <1>1, SessionInvariant, PTL

(* The two files are in the order they were written in, by boots.          *)
THEOREM SpareIsOlderAlways == SessionSpec => []SpareIsOlder
<1>1. SessionInv => SpareIsOlder
  BY DEF SessionInv
<1>2. QED
  BY <1>1, SessionInvariant, PTL
=============================================================================
