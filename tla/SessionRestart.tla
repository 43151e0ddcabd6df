--------------------------- MODULE SessionRestart ---------------------------
(***************************************************************************)
(* The capture loop across reboots, with what reads the snapshot back: the *)
(* autostart entry that decides whether to offer a restore                 *)
(* (src/restore_wss/login.py), the plan and the restore                    *)
(* (src/restore_wss/daemon.py).  A session starts empty, its daemon starts *)
(* with it and goes on capturing while the user looks at the offer.        *)
(***************************************************************************)
EXTENDS CaptureDaemon

VARIABLES
  first,     \* this is the first session of the boot
  login,     \* the autostart entry: not run yet, or what it decided
  offered,   \* the snapshot it decided on
  lastBoot,  \* history: what would have been loaded when this boot began
  writes     \* history: times this boot changed the files, at most 2

sessionVars == <<first, login, offered, lastBoot, writes>>
allVars == <<vars, sessionVars>>

(* SnapshotStore.load() *)
Loaded == IF disk.cur # NoSnapshot THEN disk.cur ELSE disk.prev

(* Snapshot.is_empty *)
HasWindows(s) == s.windows \notin {EmptyDesktop, Uncaptured}

SessionTypeOK ==
  /\ first \in BOOLEAN
  /\ login \in {"due", "offered", "nothing", "same boot"}
  /\ {offered, lastBoot} \subseteq File
  /\ login = "offered" => offered \in Snapshot
  /\ writes \in 0 .. 2

SessionInit ==
  /\ Init
  /\ first = TRUE
  /\ login = "due"
  /\ offered = NoSnapshot /\ lastBoot = NoSnapshot
  /\ writes = 0

-----------------------------------------------------------------------------
(* A step of the capture loop, which knows nothing of this module.         *)
CaptureStep ==
  /\ Next
  /\ writes' = IF disk' = disk THEN writes ELSE Cap(writes + 1, 2)
  /\ UNCHANGED <<first, login, offered, lastBoot>>

(* A new session: gnome-shell and the extension start on an empty desktop, *)
(* and the daemon is yet to start.                                         *)
NewSession ==
  /\ desktop' = EmptyDesktop
  /\ core' = TRUE /\ armed' = FALSE /\ noisy' = FALSE /\ burst' = 0
  /\ age' = 0
  /\ login' = "due"
  /\ offered' = NoSnapshot
  /\ UNCHANGED <<disk, faults>>

(* The machine goes down, with or without warning, and comes up again.     *)
Reboot ==
  /\ boot + 1 \in Boots
  /\ boot' = boot + 1
  /\ ProcessGone
  /\ memory' = [boot |-> boot', windows |-> Uncaptured, layout |-> Uncaptured]
  /\ missed' = FALSE
  /\ first' = TRUE
  /\ lastBoot' = Loaded
  /\ writes' = 0
  /\ NewSession
  /\ UNCHANGED <<sinceWrite, paused>>

(* Logging out stops the daemon (PartOf=graphical-session.target) and the  *)
(* next login starts another one.                                          *)
LogOutAndIn ==
  /\ pc = "off"
  /\ NewSession
  /\ missed' = FALSE
  /\ first' = FALSE
  /\ UNCHANGED <<boot, signal, daemonVars, lastBoot, writes>>

(* Mutant: the boot ids are not compared. *)
DecisionOnAnyBoot ==
  IF Loaded = NoSnapshot \/ ~HasWindows(Loaded) THEN "nothing" ELSE "offered"

(* decide() with restore.at_login on, on what load() returns in a process  *)
(* of its own, whether or not the daemon is there yet.                     *)
Decision ==
  IF Loaded = NoSnapshot \/ ~HasWindows(Loaded) THEN "nothing"
  ELSE IF Loaded.boot = boot THEN "same boot"
  ELSE "offered"

LoginCheck ==
  /\ login = "due"
  /\ login' = Decision
  /\ offered' = IF Decision = "offered" THEN Loaded ELSE NoSnapshot
  /\ UNCHANGED <<vars, first, lastBoot, writes>>

(* build_restore_plan(), for handle_plan_restore() or handle_restore(): the *)
(* snapshot is loaded, then the desktop is captured, which replaces the    *)
(* one in memory.  What execute() does to the windows then is the desktop  *)
(* changing; RepeatedRestore has the plans.                                *)
BuildRestorePlan ==
  /\ pc = "loop"
  /\ \/ CanRefresh /\ StartCapture("get")
     \/ ~CanRefresh /\ UNCHANGED <<pc, caller, seen>>
  /\ UNCHANGED <<worldVars, coreVars, signal, memory, pending, timer, due,
                 sinceWrite, paused, disk, historyVars, sessionVars>>

SessionNext ==
  \/ CaptureStep
  \/ Reboot
  \/ LogOutAndIn
  \/ LoginCheck
  \/ BuildRestorePlan

SessionSpec == SessionInit /\ [][SessionNext]_allVars

-----------------------------------------------------------------------------
(* Properties *)

(* The snapshot a boot started from is on disk, as the current one or the  *)
(* previous one, until the second write of that boot - including the       *)
(* writes that failed half-way (storage.py:63-73).                         *)
PreviousBootSpared ==
  lastBoot # NoSnapshot /\ writes <= 1 => lastBoot \in {disk.cur, disk.prev}

(* What is offered at login is the last snapshot of the boot before, never *)
(* an older one and never one of a session that is still there             *)
(* (login.py:30-46).                                                       *)
OfferIsOfLastBoot == offered # NoSnapshot => offered = lastBoot

(* The files never hold a snapshot that is older than the one it replaced: *)
(* the spare is of no later boot than the current one (storage.py:63-73).  *)
SpareIsOlder ==
  /\ disk.cur # NoSnapshot => disk.cur.boot <= boot
  /\ disk.prev # NoSnapshot =>
       disk.cur # NoSnapshot /\ disk.prev.boot <= disk.cur.boot

(* Why these hold: the daemon of a boot writes only snapshots of that boot, *)
(* and until it has, session.json is what the boot started from            *)
(* (daemon.py:69, 106-111, 153-158).                                       *)
MemoryIsOfBoot == memory.boot = boot
Untouched == writes = 0 => disk.cur = lastBoot
Overwritten ==
  \/ disk.cur = lastBoot
  \/ disk.cur # NoSnapshot /\ disk.cur.boot = boot
SessionInv ==
  /\ MemoryIsOfBoot
  /\ Untouched
  /\ Overwritten
  /\ PreviousBootSpared
  /\ OfferIsOfLastBoot
  /\ SpareIsOlder

(* A session with windows was lost to the reboot.                          *)
SessionLost == first /\ lastBoot # NoSnapshot /\ HasWindows(lastBoot)

(* "if that is still the current one, the session was not lost to a        *)
(* reboot" (login.py:8-11): an offer withheld for that reason is withheld  *)
(* rightly.                                                                *)
LoginIsHonest == login = "same boot" => ~SessionLost
=============================================================================
