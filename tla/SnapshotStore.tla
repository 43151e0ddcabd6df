--------------------------- MODULE SnapshotStore ---------------------------
(***************************************************************************)
(* The two-generation snapshot file pair of src/restore_wss/storage.py, at *)
(* the level of the system calls that matter for a crash: temp file,       *)
(* fsync, rename, fsync of the directory.                                  *)
(*                                                                         *)
(* A file's content is the number of the save whose snapshot it holds, or  *)
(* one of the sentinels below.  Every file has two sides: `view', what a   *)
(* process reads through the page cache, and `durable', what the device    *)
(* has.  One process saves (the daemon); any number of others load (the    *)
(* CLI's login-check, the restore planner), between any two of its steps.  *)
(*                                                                         *)
(* Not modelled: file modes, the names of temp files and the ones a killed *)
(* daemon leaves behind (nothing ever reads them).                         *)
(***************************************************************************)
EXTENDS Integers

CONSTANTS
  Loader,        \* the processes that call load()
  Absent,        \* no such file
  Garbled,       \* text that is not JSON: torn, truncated, overwritten
  Binary,        \* bytes that are not UTF-8
  Misshapen,     \* JSON that is not a snapshot object, e.g. []
  DamageKinds,   \* what outside damage may turn a file into
  MaxSaves,      \* bound: calls of save()
  MaxFailures,   \* bound: system calls that fail (disk full, I/O error)
  MaxCrashes,    \* bound: daemon kills and power-offs
  MaxDamages     \* bound: files damaged from outside

Unreadable == {Garbled, Binary, Misshapen}

ASSUME SentinelsAssumption ==
  /\ {Absent, Garbled, Binary, Misshapen} \cap Nat = {}
  /\ Absent \notin Unreadable
  /\ Garbled # Binary /\ Garbled # Misshapen /\ Binary # Misshapen

ASSUME BoundsAssumption ==
  /\ DamageKinds \subseteq Unreadable
  /\ MaxSaves \in Nat /\ MaxFailures \in Nat
  /\ MaxCrashes \in Nat /\ MaxDamages \in Nat

VARIABLES
  view,       \* view[n]: what a process reads from file n
  durable,    \* durable[n]: what the directory on the device has for n
  synced,     \* synced[n]: the bytes of view[n] are on the device
  stage,      \* how far _atomic_write has come
  target,     \* the file _atomic_write replaces
  text,       \* what it writes there
  tmpSynced,  \* the temp file's bytes are on the device
  payload,    \* the snapshot save() was called with
  outcome,    \* how the last call of save() ended
  attempts,   \* saves called so far: the number of the newest snapshot
  acked,      \* the newest save that returned
  ackedPrev,  \* the save that had returned before that one
  spoiled,    \* an unreadable current file went over the previous one, and
              \* no save has returned since
  loads,      \* loads[l]: where loader l is in load()
  faults      \* faults so far, by kind

saverVars == <<stage, target, text, tmpSynced, payload, outcome, attempts,
               acked, ackedPrev, spoiled>>
fileVars == <<view, durable, synced>>
vars == <<fileVars, saverVars, loads, faults>>

Names == {"session.json", "session.prev.json"}
Current == "session.json"
Previous == "session.prev.json"

Version == Nat \ {0}
Content == Version \cup Unreadable \cup {Absent}
Stages == {"idle", "open", "written", "synced", "renamed"}

IdleLoad == [pc |-> "idle", floor |-> 0, got |-> 0]

LoadState ==
  [pc : {"idle", "previous", "done", "raised"},
   floor : Nat,     \* acked when the load began
   got : Nat]       \* what it returned, 0 for None

TypeOK ==
  /\ view \in [Names -> Content]
  /\ durable \in [Names -> Content]
  /\ synced \in [Names -> BOOLEAN]
  /\ stage \in Stages
  /\ target \in Names
  /\ text \in Content
  /\ tmpSynced \in BOOLEAN
  /\ payload \in Nat
  /\ stage # "idle" => payload \in Version
  /\ outcome \in {"none", "returned", "raised"}
  /\ attempts \in Nat
  /\ acked \in Nat
  /\ ackedPrev \in Nat
  /\ spoiled \in BOOLEAN
  /\ loads \in [Loader -> LoadState]
  /\ faults \in [fail : Nat, crash : Nat, damage : Nat]

Init ==
  /\ view = [n \in Names |-> Absent]
  /\ durable = [n \in Names |-> Absent]
  /\ synced = [n \in Names |-> TRUE]
  /\ stage = "idle"
  /\ target = Current
  /\ text = Absent
  /\ tmpSynced = FALSE
  /\ payload = 0
  /\ outcome = "none"
  /\ attempts = 0
  /\ acked = 0
  /\ ackedPrev = 0
  /\ spoiled = FALSE
  /\ loads = [l \in Loader |-> IdleLoad]
  /\ faults = [fail |-> 0, crash |-> 0, damage |-> 0]

-----------------------------------------------------------------------------
(* save() and _atomic_write() *)

(* _atomic_write(n, c): mkstemp, nothing written yet. *)
OpenTemp(n, c) ==
  /\ target' = n
  /\ text' = c
  /\ tmpSynced' = FALSE
  /\ stage' = "open"

(* Mutant: the current file is not rotated. *)
BeginSaveWithoutRotation ==
  /\ stage = "idle"
  /\ attempts < MaxSaves
  /\ attempts' = attempts + 1
  /\ payload' = attempts + 1
  /\ outcome' = "none"
  /\ OpenTemp(Current, attempts + 1)
  /\ UNCHANGED <<fileVars, acked, ackedPrev, loads, faults, spoiled>>

(* Mutant: the current file is rotated by a rename instead of a copy. *)
BeginSaveByRename ==
  /\ stage = "idle"
  /\ attempts < MaxSaves
  /\ attempts' = attempts + 1
  /\ payload' = attempts + 1
  /\ outcome' = "none"
  /\ view' = [view EXCEPT ![Previous] = view[Current], ![Current] = Absent]
  /\ OpenTemp(Current, attempts + 1)
  /\ UNCHANGED <<durable, synced, acked, ackedPrev, loads, faults, spoiled>>

(* The entry of save().  A current file is read back and copied over the   *)
(* previous generation first; without one the snapshot is written at once. *)
BeginSave ==
  /\ stage = "idle"
  /\ attempts < MaxSaves
  /\ view[Current] # Binary
  /\ attempts' = attempts + 1
  /\ payload' = attempts + 1
  /\ outcome' = "none"
  /\ \/ view[Current] = Absent /\ OpenTemp(Current, attempts + 1)
     \/ view[Current] # Absent /\ OpenTemp(Previous, view[Current])
  /\ UNCHANGED <<fileVars, acked, ackedPrev, loads, faults, spoiled>>

(* current_path.read_text() raises UnicodeDecodeError: save() ends there. *)
RefuseSave ==
  /\ stage = "idle"
  /\ attempts < MaxSaves
  /\ view[Current] = Binary
  /\ attempts' = attempts + 1
  /\ payload' = attempts + 1
  /\ outcome' = "raised"
  /\ UNCHANGED <<fileVars, stage, target, text, tmpSynced, acked, ackedPrev,
                 loads, faults, spoiled>>

(* handle.write, handle.flush *)
WriteTemp ==
  /\ stage = "open"
  /\ stage' = "written"
  /\ UNCHANGED <<fileVars, target, text, tmpSynced, payload, outcome,
                 attempts, acked, ackedPrev, loads, faults, spoiled>>

(* Mutant: no fsync of the temp file. *)
SyncTempNot ==
  /\ stage = "written"
  /\ stage' = "synced"
  /\ UNCHANGED <<fileVars, target, text, tmpSynced, payload, outcome,
                 attempts, acked, ackedPrev, loads, faults, spoiled>>

(* os.fsync of the temp file *)
SyncTemp ==
  /\ stage = "written"
  /\ stage' = "synced"
  /\ tmpSynced' = TRUE
  /\ UNCHANGED <<fileVars, target, text, payload, outcome, attempts, acked,
                 ackedPrev, loads, faults, spoiled>>

(* os.replace(tmp, target): atomic for everybody who opens the target. *)
Rename ==
  /\ stage = "synced"
  /\ stage' = "renamed"
  /\ view' = [view EXCEPT ![target] = text]
  /\ synced' = [synced EXCEPT ![target] = tmpSynced]
  /\ spoiled' = (spoiled \/ (target = Previous /\ text \in Unreadable))
  /\ UNCHANGED <<durable, target, text, tmpSynced, payload, outcome, attempts,
                 acked, ackedPrev, loads, faults>>

(* _fsync_directory after the copy: the snapshot itself is next. *)
SyncDirectoryAfterCopy ==
  /\ stage = "renamed"
  /\ target = Previous
  /\ durable' = view
  /\ OpenTemp(Current, payload)
  /\ UNCHANGED <<view, synced, payload, outcome, attempts, acked, ackedPrev,
                 loads, faults, spoiled>>

(* Mutant: save() returns without the fsync of the directory. *)
ReturnWithoutSync ==
  /\ stage = "renamed"
  /\ target = Current
  /\ stage' = "idle"
  /\ outcome' = "returned"
  /\ acked' = payload
  /\ ackedPrev' = acked
  /\ spoiled' = FALSE
  /\ UNCHANGED <<fileVars, target, text, tmpSynced, payload, attempts,
                 loads, faults>>

(* _fsync_directory after the snapshot: save() returns. *)
SyncDirectoryAndReturn ==
  /\ stage = "renamed"
  /\ target = Current
  /\ durable' = view
  /\ stage' = "idle"
  /\ outcome' = "returned"
  /\ acked' = payload
  /\ ackedPrev' = acked
  /\ spoiled' = FALSE
  /\ UNCHANGED <<view, synced, target, text, tmpSynced, payload, attempts,
                 loads, faults>>

(* A system call fails: the temp file is unlinked and save() raises.  What *)
(* a rename has already put in place stays.                                *)
FailSave ==
  /\ stage # "idle"
  /\ faults.fail < MaxFailures
  /\ stage' = "idle"
  /\ outcome' = "raised"
  /\ faults' = [faults EXCEPT !.fail = @ + 1]
  /\ UNCHANGED <<fileVars, target, text, tmpSynced, payload, attempts,
                 acked, ackedPrev, loads, spoiled>>

-----------------------------------------------------------------------------
(* load() *)

(* What _load_one makes of a file: a snapshot, None, or an exception that  *)
(* it does not catch (AttributeError, from JSON of another shape).         *)
Parses(c) == c \in Version
Escapes(c) == c = Misshapen

(* Mutant: the previous generation is tried first. *)
ReadPreviousFirst(l) ==
  /\ loads[l].pc # "previous"
  /\ LET c == view[Previous]
         begun == [IdleLoad EXCEPT !.floor = acked]
     IN loads' = [loads EXCEPT ![l] =
          IF Parses(c) THEN [begun EXCEPT !.pc = "done", !.got = c]
          ELSE [begun EXCEPT !.pc = "previous"]]
  /\ UNCHANGED <<fileVars, saverVars, faults>>

ReadCurrent(l) ==
  /\ loads[l].pc # "previous"
  /\ LET c == view[Current]
         begun == [IdleLoad EXCEPT !.floor = acked]
     IN loads' = [loads EXCEPT ![l] =
          IF Parses(c) THEN [begun EXCEPT !.pc = "done", !.got = c]
          ELSE IF Escapes(c) THEN [begun EXCEPT !.pc = "raised"]
          ELSE [begun EXCEPT !.pc = "previous"]]
  /\ UNCHANGED <<fileVars, saverVars, faults>>

ReadPrevious(l) ==
  /\ loads[l].pc = "previous"
  /\ LET c == view[Previous]
     IN loads' = [loads EXCEPT ![l] =
          IF Parses(c) THEN [@ EXCEPT !.pc = "done", !.got = c]
          ELSE IF Escapes(c) THEN [@ EXCEPT !.pc = "raised"]
          ELSE [@ EXCEPT !.pc = "done"]]
  /\ UNCHANGED <<fileVars, saverVars, faults>>

-----------------------------------------------------------------------------
(* Faults *)

CountCrash ==
  /\ faults.crash < MaxCrashes
  /\ faults' = [faults EXCEPT !.crash = @ + 1]

(* The daemon is killed in the middle of a save; the machine stays up. *)
KillDaemon ==
  /\ stage # "idle"
  /\ CountCrash
  /\ stage' = "idle"
  /\ outcome' = "none"
  /\ UNCHANGED <<fileVars, target, text, tmpSynced, payload, attempts,
                 acked, ackedPrev, loads, spoiled>>

(* What file n may hold after the power came back: a rename that was not   *)
(* followed by an fsync of the directory may or may not have happened, and *)
(* a file whose bytes were not synced may be torn.                         *)
Survives(n) ==
  {durable[n], view[n]} \cup (IF synced[n] THEN {} ELSE {Garbled})

PowerOff ==
  /\ CountCrash
  /\ \E c \in Survives(Current), p \in Survives(Previous) :
       view' = [n \in Names |-> IF n = Current THEN c ELSE p]
  /\ durable' = view'
  /\ synced' = [n \in Names |-> TRUE]
  /\ stage' = "idle"
  /\ outcome' = "none"
  /\ loads' = [l \in Loader |-> IdleLoad]
  /\ UNCHANGED <<target, text, tmpSynced, payload, attempts, acked,
                 ackedPrev, spoiled>>

(* Something other than the store damages a file that is at rest. *)
Damage(n, kind) ==
  /\ faults.damage < MaxDamages
  /\ view[n] \in Version
  /\ view[n] = durable[n]
  /\ view' = [view EXCEPT ![n] = kind]
  /\ durable' = [durable EXCEPT ![n] = kind]
  /\ faults' = [faults EXCEPT !.damage = @ + 1]
  /\ UNCHANGED <<synced, saverVars, loads>>

-----------------------------------------------------------------------------
SaverStep ==
  \/ WriteTemp
  \/ SyncTemp
  \/ Rename
  \/ SyncDirectoryAfterCopy
  \/ SyncDirectoryAndReturn

Next ==
  \/ BeginSave
  \/ RefuseSave
  \/ SaverStep
  \/ FailSave
  \/ \E l \in Loader : ReadCurrent(l) \/ ReadPrevious(l)
  \/ KillDaemon
  \/ PowerOff
  \/ \E n \in Names, kind \in DamageKinds : Damage(n, kind)

Spec == Init /\ [][Next]_vars

-----------------------------------------------------------------------------
(* Properties *)

(* Whatever moment the power goes at, no file is left torn: a reader finds *)
(* a whole generation or no file (storage.py:6-11).                        *)
NeverTorn ==
  faults.damage = 0 =>
    \A n \in Names : Survives(n) \subseteq Version \cup {Absent}

(* A save that returned survives every power-off, in session.json itself:  *)
(* the current file then holds it or a later one.                          *)
AckedIsDurable ==
  faults.damage = 0 /\ acked > 0 =>
    \A c \in Survives(Current) : c \in Version /\ c >= acked

(* The previous generation is never the weak spot: at every moment,        *)
(* power-off included, it holds the save acknowledged before the last one  *)
(* or a later one, so losing session.json costs one acknowledged capture.  *)
OneGenerationBack ==
  faults.damage = 0 /\ ackedPrev > 0 =>
    \A p \in Survives(Previous) : p \in Version /\ p >= ackedPrev

(* A load that races with saves, kills and failures returns a snapshot at  *)
(* least as new as the last one acknowledged before the load began.        *)
LoadIsFresh ==
  faults.damage = 0 =>
    \A l \in Loader : loads[l].pc = "done" => loads[l].got >= loads[l].floor

(* Until the power goes or a file is damaged, a newer snapshot is never    *)
(* replaced by an older one, failed and killed saves included.             *)
NeverBackwards ==
  [][view[Current] \in Version =>
       \/ view'[Current] \in Version /\ view'[Current] >= view[Current]
       \/ faults'.crash > faults.crash \/ faults'.damage > faults.damage]_vars

(* One damaged file is covered by the other at every moment: in the middle *)
(* of a save, after saves that failed or were killed and after power-offs, *)
(* whichever file it was and whatever it was turned into, one of the two   *)
(* holds the save acknowledged before the last one or a later one, on the  *)
(* device as well (storage.py:12-14).  The one exception is a save that    *)
(* found the current file damaged, as text that could still be read, and   *)
(* has put that text over the good previous generation (storage.py:70):    *)
(* from then until a save returns nothing covers it, and a failure, a kill *)
(* or a power-off there leaves no file that loads.                         *)
SpareCoversDamage ==
  faults.damage <= 1 /\ ~spoiled /\ ackedPrev > 0 =>
    \E n \in Names :
      \A c \in Survives(n) : c \in Version /\ c >= ackedPrev

(* Why the first four hold: what each file holds relative to the save in   *)
(* progress.  Inductive together with TypeOK.                              *)
Counters ==
  /\ ackedPrev <= acked /\ acked <= attempts /\ payload <= attempts
  /\ stage # "idle" => payload = attempts

WholeFiles ==
  \A n \in Names :
    /\ synced[n]
    /\ \A c \in {view[n], durable[n]} :
         c = Absent \/ (c \in Version /\ c <= attempts)

CurrentKept ==
  /\ acked > 0 => \A c \in {view[Current], durable[Current]} :
                    c \in Version /\ c >= acked
  /\ durable[Current] \in Version =>
       view[Current] \in Version /\ durable[Current] <= view[Current]

PreviousKept ==
  ackedPrev > 0 => \A c \in {view[Previous], durable[Previous]} :
                    c \in Version /\ c >= ackedPrev

(* The copy is of the current file, which stays as it is meanwhile ...     *)
Rotating ==
  stage # "idle" /\ target = Previous =>
    /\ text \in Version
    /\ text = view[Current]
    /\ text < payload
    /\ stage = "renamed" => view[Previous] = text

(* ... and the snapshot is written only once the copy is on the device.    *)
Replacing ==
  stage # "idle" /\ target = Current =>
    /\ text = payload
    /\ stage = "renamed" => view[Current] = payload
    /\ stage # "renamed" /\ view[Current] \in Version =>
         view[Current] < payload
    /\ acked > 0 => \A c \in {view[Previous], durable[Previous]} :
                      c \in Version /\ c >= acked

StoreInv ==
  /\ Counters
  /\ faults.damage = 0 =>
       /\ WholeFiles
       /\ CurrentKept
       /\ PreviousKept
       /\ stage \in {"synced", "renamed"} => tmpSynced
       /\ Rotating
       /\ Replacing
       /\ \A l \in Loader :
            /\ loads[l].pc = "previous" => loads[l].floor = 0
            /\ loads[l].pc = "done" => loads[l].got >= loads[l].floor

(* The files implement the durable snapshot register. *)
Register == INSTANCE DurableSnapshot
              WITH visible <- IF view[Current] \in Version
                              THEN view[Current] ELSE 0,
                   kept <- acked,
                   intact <- faults.damage = 0

RefinesRegister == Register!AbsSpec
=============================================================================
