--------------------------- MODULE CaptureDaemon ---------------------------
(***************************************************************************)
(* The capture loop: the change tracking of the Shell extension            *)
(* (src/extension/sessionCore.js) and the daemon that re-reads the desktop *)
(* and writes it (src/restore_wss/daemon.py).  SessionRestart adds reboots,*)
(* the login check and the restore plan.                                   *)
(*                                                                         *)
(* A desktop is one of a few values; a snapshot holds the desktop as       *)
(* ListWindows and as GetLayout saw it, two calls with time in between.    *)
(* Time passes in units of the tick period (DEBOUNCE_SECONDS).  save() is  *)
(* one step here; SnapshotStore shows what that rests on.                  *)
(***************************************************************************)
EXTENDS Integers

CONSTANTS
  Desktop,       \* what the desktop can look like
  EmptyDesktop,  \* the one a session starts with
  Uncaptured,    \* the windows of a snapshot that was never captured
  NoSnapshot,    \* no file
  Boots,         \* boot ids, 1 for the first
  Interval,      \* MIN_WRITE_INTERVAL_SECONDS, in tick periods
  PausedValues,  \* the values capture.paused may have in config.toml
  MaxBurst,      \* bound: tick periods the desktop changes without a pause
  FaultKinds,    \* the faults that may happen
  MaxFaults,     \* bound: how many of them do
  AgeCap         \* staleness is counted up to here

ASSUME DesktopAssumption ==
  /\ EmptyDesktop \in Desktop
  /\ Uncaptured \notin Desktop

ASSUME NumbersAssumption ==
  /\ 1 \in Boots /\ Boots \subseteq Nat
  /\ Interval \in Nat \ {0}
  /\ MaxBurst \in Nat /\ MaxFaults \in Nat /\ AgeCap \in Nat

ASSUME KindsAssumption ==
  /\ PausedValues \subseteq BOOLEAN
  /\ FaultKinds \subseteq {"tear", "outage", "fail", "stop"}

VARIABLES
  desktop,     \* the desktop as it is
  boot,        \* which boot this is
  core,        \* the extension is enabled and on the bus
  armed,       \* its change debounce timer is running
  noisy,       \* the desktop changed in this tick period
  burst,       \* tick periods the debounce timer has been re-armed through
  signal,      \* a WindowsChanged is on its way to the daemon
  pc,          \* the daemon: "off", its main loop, or inside a handler
  caller,      \* which handler that is
  seen,        \* what ListWindows answered
  memory,      \* Daemon._snapshot
  pending,     \* Daemon._pending
  timer,       \* the tick timer still exists
  due,         \* and is due
  sinceWrite,  \* tick periods since _last_write, at most Interval
  paused,      \* config.paused, read when the daemon started
  disk,        \* session.json and session.prev.json
  missed,      \* history: a change happened that no signal will report
  age,         \* history: tick periods since each part of session.json was
               \* true, as long as both sides were there and nothing missed
  faults       \* history: faults so far

worldVars == <<desktop, boot>>
coreVars == <<core, armed, noisy, burst>>
daemonVars == <<pc, caller, seen, memory, pending, timer, due, sinceWrite,
                paused>>
historyVars == <<missed, age, faults>>
vars == <<worldVars, coreVars, signal, daemonVars, disk, historyVars>>

Seen == Desktop \cup {Uncaptured}
Snapshot == [boot : Boots, windows : Seen, layout : Seen]
File == Snapshot \cup {NoSnapshot}

ASSUME NoSnapshotAssumption == NoSnapshot \notin Snapshot

(* What the process starts with: Snapshot(boot_id=...) *)
Blank == [boot |-> boot, windows |-> Uncaptured, layout |-> Uncaptured]

(* s describes the desktop as it is, the same in both its parts.           *)
Describes(s) == s = [boot |-> boot, windows |-> desktop, layout |-> desktop]

(* session.json is current.                                                *)
Saved == Describes(disk.cur)

Cap(n, m) == IF n > m THEN m ELSE n

(* A fault of this kind happens. *)
Fault(kind) ==
  /\ kind \in FaultKinds
  /\ faults < MaxFaults
  /\ faults' = faults + 1

TypeOK ==
  /\ desktop \in Desktop
  /\ boot \in Boots
  /\ core \in BOOLEAN /\ armed \in BOOLEAN /\ noisy \in BOOLEAN
  /\ burst \in Nat
  /\ signal \in BOOLEAN
  /\ pc \in {"off", "loop", "windows", "captured"}
  /\ caller \in {"none", "start", "tick", "save", "get", "quit"}
  /\ seen \in Seen
  /\ memory \in Snapshot
  /\ pending \in BOOLEAN /\ timer \in BOOLEAN /\ due \in BOOLEAN
  /\ sinceWrite \in 0 .. Interval
  /\ paused \in BOOLEAN
  /\ disk \in [cur : File, prev : File]
  /\ missed \in BOOLEAN
  /\ age \in 0 .. AgeCap
  /\ faults \in Nat

Init ==
  /\ desktop = EmptyDesktop
  /\ boot = 1
  /\ core = TRUE /\ armed = FALSE /\ noisy = FALSE /\ burst = 0
  /\ signal = FALSE
  /\ pc = "off" /\ caller = "none"
  /\ seen = Uncaptured
  /\ memory = Blank
  /\ pending = FALSE /\ timer = FALSE /\ due = FALSE
  /\ sinceWrite = Interval
  /\ paused = FALSE
  /\ disk = [cur |-> NoSnapshot, prev |-> NoSnapshot]
  /\ missed = FALSE /\ age = 0 /\ faults = 0

-----------------------------------------------------------------------------
(* The extension *)

(* A signal the extension watches.  d may be the desktop as it was: a      *)
(* workspace switch, or a window that is not identified yet.  _changed()   *)
(* throws the running timer away and starts it again.                      *)
Change(d) ==
  /\ desktop' = d
  /\ \/ pc = "windows" /\ Fault("tear")
     \/ pc # "windows" /\ UNCHANGED faults
  /\ \/ core /\ armed' = TRUE /\ noisy' = TRUE /\ UNCHANGED missed
     \/ ~core /\ missed' = TRUE /\ UNCHANGED <<armed, noisy>>
  /\ UNCHANGED <<boot, core, burst, signal, daemonVars, disk>>
  /\ age' = IF Saved' THEN 0 ELSE age

(* CHANGE_DEBOUNCE_MS without a change: WindowsChanged goes out, to a      *)
(* daemon that is there to hear it.                                        *)
DebounceFires ==
  /\ armed
  /\ armed' = FALSE
  /\ burst' = 0
  /\ signal' = (signal \/ pc # "off")
  /\ UNCHANGED <<worldVars, core, noisy, daemonVars, disk, historyVars>>

(* disable(), with the debounce timer removed; or gnome-shell went away.   *)
CoreDown ==
  /\ core
  /\ Fault("outage")
  /\ core' = FALSE
  /\ armed' = FALSE
  /\ missed' = (missed \/ armed)
  /\ UNCHANGED <<worldVars, noisy, burst, signal, daemonVars, disk, age>>

(* enable(): it watches from here on, and emits nothing by itself.         *)
CoreUp ==
  /\ ~core
  /\ core' = TRUE
  /\ age' = 0
  /\ UNCHANGED <<worldVars, armed, noisy, burst, signal, daemonVars, disk,
                 missed, faults>>

-----------------------------------------------------------------------------
(* The daemon *)

(* Mutant: every signal starts the write interval again. *)
DeliverSignalAndWait ==
  /\ pc = "loop"
  /\ signal
  /\ signal' = FALSE
  /\ pending' = TRUE
  /\ sinceWrite' = 0
  /\ UNCHANGED <<worldVars, coreVars, pc, caller, seen, memory, timer, due,
                 paused, disk, historyVars>>

(* Mutant: the rate limit drops the signal instead of delaying the write. *)
DeliverSignalOrDrop ==
  /\ pc = "loop"
  /\ signal
  /\ signal' = FALSE
  /\ pending' = (pending \/ sinceWrite >= Interval)
  /\ UNCHANGED <<worldVars, coreVars, pc, caller, seen, memory, timer, due,
                 sinceWrite, paused, disk, historyVars>>

(* on_windows_changed() *)
DeliverSignal ==
  /\ pc = "loop"
  /\ signal
  /\ signal' = FALSE
  /\ pending' = TRUE
  /\ UNCHANGED <<worldVars, coreVars, pc, caller, seen, memory, timer, due,
                 sinceWrite, paused, disk, historyVars>>

(* refresh() does something only then. *)
CanRefresh == core /\ ~paused

(* refresh() up to the answer to ListWindows.                              *)
StartCapture(who) ==
  /\ pc' = "windows"
  /\ caller' = who
  /\ seen' = desktop

(* A handler ends and its locals are gone. *)
EndHandler(where) ==
  /\ pc' = where
  /\ caller' = "none"
  /\ seen' = Uncaptured

ShouldWrite == pending /\ sinceWrite >= Interval /\ CanRefresh

(* tick() with an early return. *)
TickIdle ==
  /\ pc = "loop" /\ due
  /\ ~ShouldWrite
  /\ due' = FALSE
  /\ UNCHANGED <<worldVars, coreVars, signal, pc, caller, seen, memory, pending,
                 timer, sinceWrite, paused, disk, historyVars>>

(* Mutant: the flag is cleared before the capture, not after the write. *)
TickCaptureClearsEarly ==
  /\ pc = "loop" /\ due
  /\ ShouldWrite
  /\ due' = FALSE
  /\ pending' = FALSE
  /\ StartCapture("tick")
  /\ missed' = FALSE
  /\ UNCHANGED <<worldVars, coreVars, signal, memory, timer, sinceWrite, paused,
                 disk, age, faults>>

(* tick() that gets as far as the capture. *)
TickCapture ==
  /\ pc = "loop" /\ due
  /\ ShouldWrite
  /\ due' = FALSE
  /\ StartCapture("tick")
  /\ missed' = FALSE
  /\ UNCHANGED <<worldVars, coreVars, signal, memory, pending, timer,
                 sinceWrite, paused, disk, age, faults>>

(* handle_save(): what refresh() returns is not looked at.                 *)
HandleSave ==
  /\ pc = "loop"
  /\ \/ CanRefresh /\ StartCapture("save") /\ missed' = FALSE
     \/ /\ ~CanRefresh
        /\ pc' = "captured" /\ caller' = "save"
        /\ missed' = TRUE
        /\ UNCHANGED seen
  /\ UNCHANGED <<worldVars, coreVars, signal, memory, pending, timer, due,
                 sinceWrite, paused, disk, age, faults>>

(* handle_get_snapshot(), and build_restore_plan() as far as it concerns   *)
(* the capture: a refresh and no write.                                    *)
HandleGetSnapshot ==
  /\ pc = "loop"
  /\ CanRefresh
  /\ StartCapture("get")
  /\ UNCHANGED <<worldVars, coreVars, signal, memory, pending, timer, due,
                 sinceWrite, paused, disk, historyVars>>

(* GetLayout answers; the snapshot is built and refresh() returns.         *)
ReadLayout ==
  /\ pc = "windows"
  /\ core
  /\ memory' = [boot |-> boot, windows |-> seen, layout |-> desktop]
  /\ \/ /\ caller \in {"tick", "save", "quit"}
        /\ pc' = "captured" /\ seen' = Uncaptured /\ UNCHANGED caller
     \/ caller \in {"start", "get"} /\ EndHandler("loop")
  /\ UNCHANGED <<worldVars, coreVars, signal, pending, timer, due, sinceWrite,
                 paused, disk, historyVars>>

(* An exception leaves a handler.  Out of the tick callback it costs the   *)
(* timer: PyGObject returns False for a callback that raised.  A D-Bus     *)
(* method answers with an error.  The SIGTERM handler never gets to        *)
(* loop.quit(): the daemon runs on until it is killed.                     *)
Raise ==
  /\ EndHandler("loop")
  /\ timer' = (timer /\ caller # "tick")
  /\ due' = (due /\ caller # "tick")
  /\ missed' = (missed \/ caller = "save")

(* Mutant: a failed capture leaves no snapshot in memory. *)
CaptureFailsToNone ==
  /\ pc = "windows"
  /\ \/ ~core /\ UNCHANGED faults
     \/ core /\ Fault("fail")
  /\ Raise
  /\ memory' = NoSnapshot
  /\ UNCHANGED <<worldVars, coreVars, signal, pending, sinceWrite, paused, disk,
                 age>>

(* One of the two calls fails: the extension is gone, or it timed out.     *)
CaptureFails ==
  /\ pc = "windows"
  /\ \/ ~core /\ UNCHANGED faults
     \/ core /\ Fault("fail")
  /\ Raise
  /\ UNCHANGED <<worldVars, coreVars, signal, memory, pending, sinceWrite,
                 paused, disk, age>>

(* Mutant: nothing is rotated. *)
RotatedNot == disk

(* What save() does to the two files: the rotation alone, and all of it. *)
Rotated == [disk EXCEPT !.prev = IF disk.cur = NoSnapshot THEN @ ELSE disk.cur]
Written == [Rotated EXCEPT !.cur = memory]

(* The age once the memory is on disk: either part of a capture, torn or   *)
(* not, was true a moment ago.                                             *)
AgeWritten == IF memory.windows = Uncaptured THEN age ELSE 0

(* write(): save() returned. *)
Write ==
  /\ pc = "captured"
  /\ disk' = Written
  /\ age' = AgeWritten
  /\ sinceWrite' = 0
  /\ pending' = FALSE
  /\ EndHandler(IF caller = "quit" THEN "off" ELSE "loop")
  /\ UNCHANGED <<worldVars, coreVars, signal, memory, timer, due, paused,
                 missed, faults>>

(* save() raised, before, between or after its two renames.                *)
WriteFails ==
  /\ pc = "captured"
  /\ Fault("fail")
  /\ \/ disk' \in {disk, Rotated} /\ UNCHANGED age
     \/ disk' = Written /\ age' = AgeWritten
  /\ Raise
  /\ UNCHANGED <<worldVars, coreVars, signal, memory, pending, sinceWrite,
                 paused>>

-----------------------------------------------------------------------------
(* Starts and stops *)

(* Daemon() and run(): nothing is pending, whatever the desktop looks      *)
(* like; the refresh fills the memory only.                                *)
StartDaemon(isPaused) ==
  /\ pc = "off"
  /\ memory' = Blank
  /\ pending' = FALSE /\ timer' = TRUE /\ due' = FALSE
  /\ sinceWrite' = Interval
  /\ paused' = isPaused
  /\ signal' = FALSE
  /\ missed' = ~Saved
  /\ age' = 0
  /\ \/ core /\ ~isPaused /\ StartCapture("start")
     \/ (~core \/ isPaused) /\ EndHandler("loop")
  /\ UNCHANGED <<worldVars, coreVars, disk, faults>>

(* What the process held goes with it. *)
ProcessGone ==
  /\ EndHandler("off")
  /\ pending' = FALSE /\ timer' = FALSE /\ due' = FALSE
  /\ signal' = FALSE

(* Mutant: a signal stops the daemon without a last tick. *)
QuitAtOnce ==
  /\ pc = "loop"
  /\ Fault("stop")
  /\ ProcessGone
  /\ UNCHANGED <<worldVars, coreVars, memory, sinceWrite, paused, disk, missed,
                 age>>

(* SIGTERM or SIGINT: tick(now=inf), which the rate limit never stops.     *)
Quit ==
  /\ pc = "loop"
  /\ Fault("stop")
  /\ \/ /\ pending /\ CanRefresh /\ StartCapture("quit")
        /\ UNCHANGED <<signal, pending, timer, due>>
     \/ ~(pending /\ CanRefresh) /\ ProcessGone
  /\ UNCHANGED <<worldVars, coreVars, memory, sinceWrite, paused, disk, missed,
                 age>>

(* The daemon crashes or is killed, wherever it is.                        *)
Kill ==
  /\ pc # "off"
  /\ Fault("stop")
  /\ ProcessGone
  /\ UNCHANGED <<worldVars, coreVars, memory, sinceWrite, paused, disk, missed,
                 age>>

(* A tick period passes.  Nothing in it takes that long: calls return,     *)
(* signals arrive, the tick timer is served, and the debounce timer has    *)
(* fired unless the desktop kept changing.                                 *)
ClockTick ==
  /\ pc \in {"off", "loop"}
  /\ pc = "loop" => ~signal /\ ~due
  /\ armed => noisy /\ burst < MaxBurst
  /\ burst' = IF armed THEN burst + 1 ELSE 0
  /\ noisy' = FALSE
  /\ due' = (timer /\ pc = "loop")
  /\ sinceWrite' = Cap(sinceWrite + 1, Interval)
  /\ age' = IF Saved \/ missed \/ ~core \/ pc = "off" THEN 0
            ELSE Cap(age + 1, AgeCap)
  /\ UNCHANGED <<worldVars, core, armed, signal, pc, caller, seen, memory,
                 pending, timer, paused, disk, missed, faults>>

-----------------------------------------------------------------------------
DaemonStep ==
  \/ DeliverSignal
  \/ TickIdle
  \/ TickCapture
  \/ HandleSave
  \/ HandleGetSnapshot
  \/ ReadLayout
  \/ CaptureFails
  \/ Write
  \/ WriteFails
  \/ \E isPaused \in PausedValues : StartDaemon(isPaused)
  \/ Quit
  \/ Kill

CoreStep ==
  \/ \E d \in Desktop : Change(d)
  \/ DebounceFires
  \/ CoreDown
  \/ CoreUp

Next == CoreStep \/ DaemonStep \/ ClockTick

Spec == Init /\ [][Next]_vars

(* Timers fire, messages are delivered and calls return.  The main loop    *)
(* serves every ready source, however often clients call: strong fairness. *)
Fairness ==
  /\ WF_vars(DebounceFires)
  /\ SF_vars(DeliverSignal)
  /\ SF_vars(TickIdle)
  /\ SF_vars(TickCapture)
  /\ WF_vars(ReadLayout)
  /\ WF_vars(Write)
  /\ SF_vars(ClockTick)

FairSpec == Spec /\ Fairness

-----------------------------------------------------------------------------
(* Properties *)

(* What is on its way from the extension to the daemon. *)
Reported == signal \/ armed

(* No change is lost between the desktop and the disk: whenever the daemon *)
(* is in its main loop, session.json is true or something is on its way to *)
(* make it so - the extension's timer, a signal, the pending flag - through*)
(* every interleaving of changes with the two calls of a capture and with  *)
(* failing writes (daemon.py:160-175).  What no signal will ever report is *)
(* counted as missed.                                                      *)
NoLostChange ==
  pc = "loop" /\ ~missed => Saved \/ pending \/ Reported

(* Why that holds: while a handler runs nothing is forgotten either, what  *)
(* a capture in progress will write is the desktop unless a change since   *)
(* then is on its way, and what fails stays pending (daemon.py:153-175).   *)
NothingForgotten ==
  /\ pc = "loop" => caller = "none"
  /\ pc # "off" /\ ~missed /\ caller # "save"
       => Saved \/ pending \/ Reported
CaptureIsTrue ==
  /\ pc = "windows" /\ ~missed => seen = desktop \/ Reported
  /\ pc = "captured" /\ ~missed => Describes(memory) \/ Reported
LostChangeInv == NothingForgotten /\ CaptureIsTrue

(* The write interval, or the longest burst and the tick that ends it.     *)
MaxAge == IF Interval > MaxBurst THEN Interval ELSE MaxBurst + 1
Captured(file) == file # NoSnapshot /\ file.windows # Uncaptured
Working == Captured(disk.cur) /\ pc = "loop" /\ core /\ ~paused

(* "at most max_interval seconds stale" (daemon.py:6-8): with the daemon,  *)
(* its timer and the extension up and no change that went unreported, a    *)
(* session.json that was captured at all describes the desktop of at most  *)
(* MaxAge ago, through failing and torn captures, rate limit and bursts:   *)
(* the interval alone decides unless the desktop is never quiet for longer.*)
ReportedIsRecent == Working /\ timer /\ ~missed => age <= MaxAge

(* Stopping the daemon writes what it knows to be unsaved, rate limit or   *)
(* not (daemon.py:364-369); only what it has not been told of is lost.     *)
QuitSaves ==
  [][(Quit \/ Write) /\ pc' = "off" /\ CanRefresh /\ ~missed
       => Saved' \/ Reported]_vars

(* Once the desktop stops changing and everything it takes stays up,       *)
(* session.json comes to describe it and stays so (daemon.py:1).           *)
Healthy == core /\ pc # "off" /\ timer /\ ~paused /\ ~missed
SettledIsSaved ==
  /\ <>[][~ \E d \in Desktop : Change(d)]_vars
  /\ <>[]Healthy
  => <>[]Saved
=============================================================================
