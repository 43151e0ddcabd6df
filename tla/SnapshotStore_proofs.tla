------------------------ MODULE SnapshotStore_proofs ------------------------
(***************************************************************************)
(* Proofs about the two-generation snapshot store, for every number of     *)
(* loaders, saves, failures, kills and power-offs.                         *)
(***************************************************************************)
EXTENDS SnapshotStore, TLAPS

(* Every variable keeps its type. *)
THEOREM TypeCorrect == Spec => []TypeOK
<1> USE SentinelsAssumption, BoundsAssumption
     DEF Version, Content, Unreadable, Names, Current, Previous
<1>1. Init => TypeOK
  <2> SUFFICES ASSUME Init PROVE TypeOK
    OBVIOUS
  <2>1. IdleLoad \in LoadState
    BY DEF IdleLoad, LoadState
  <2>2. QED
    BY <2>1 DEF Init, TypeOK, Stages
<1>2. TypeOK /\ [Next]_vars => TypeOK'
  <2> SUFFICES ASSUME TypeOK, [Next]_vars PROVE TypeOK'
    OBVIOUS
  <2>1. CASE BeginSave
    <3>1. attempts + 1 \in Content /\ view[Current] \in Content
      BY DEF TypeOK
    <3>2. target' \in Names /\ text' \in Content /\ tmpSynced' \in BOOLEAN
      BY <2>1, <3>1 DEF BeginSave, OpenTemp
    <3>3. QED
      BY <2>1, <3>2 DEF TypeOK, BeginSave, OpenTemp, fileVars, Stages
  <2>2. CASE RefuseSave
    BY <2>2 DEF TypeOK, RefuseSave, fileVars
  <2>3. CASE WriteTemp
    BY <2>3 DEF TypeOK, WriteTemp, fileVars, Stages
  <2>4. CASE SyncTemp
    BY <2>4 DEF TypeOK, SyncTemp, fileVars, Stages
  <2>5. CASE Rename
    BY <2>5 DEF TypeOK, Rename, Stages
  <2>6. CASE SyncDirectoryAfterCopy
    BY <2>6 DEF TypeOK, SyncDirectoryAfterCopy, OpenTemp, Stages, Content
  <2>7. CASE SyncDirectoryAndReturn
    BY <2>7 DEF TypeOK, SyncDirectoryAndReturn, Stages
  <2>8. CASE FailSave
    BY <2>8 DEF TypeOK, FailSave, fileVars, Stages
  <2>9. ASSUME NEW l \in Loader, ReadCurrent(l) PROVE TypeOK'
    <3>1. loads' \in [Loader -> LoadState]
      BY <2>9 DEF TypeOK, ReadCurrent, IdleLoad, LoadState, Parses, Escapes
    <3>2. QED
      BY <2>9, <3>1 DEF TypeOK, ReadCurrent, fileVars, saverVars
  <2>10. ASSUME NEW l \in Loader, ReadPrevious(l) PROVE TypeOK'
    <3>1. loads[l] \in LoadState /\ view[Previous] \in Content
      BY DEF TypeOK
    <3>2. \E s \in LoadState : loads' = [loads EXCEPT ![l] = s]
      <4>1. CASE Parses(view[Previous])
        BY <2>10, <3>1, <4>1 DEF ReadPrevious, LoadState, Parses
      <4>2. CASE ~Parses(view[Previous])
        BY <2>10, <3>1, <4>2 DEF ReadPrevious, LoadState
      <4>3. QED
        BY <4>1, <4>2
    <3>3. loads' \in [Loader -> LoadState]
      BY <3>2 DEF TypeOK
    <3>4. QED
      BY <2>10, <3>3 DEF TypeOK, ReadPrevious, fileVars, saverVars
  <2>11. CASE KillDaemon
    BY <2>11 DEF TypeOK, KillDaemon, CountCrash, fileVars, Stages
  <2>12. CASE PowerOff
    BY <2>12 DEF TypeOK, PowerOff, CountCrash, Survives, Stages, IdleLoad,
                 LoadState
  <2>13. ASSUME NEW n \in Names, NEW kind \in DamageKinds, Damage(n, kind)
         PROVE  TypeOK'
    BY <2>13 DEF TypeOK, Damage, saverVars
  <2>14. CASE UNCHANGED vars
    BY <2>14 DEF TypeOK, vars, fileVars, saverVars
  <2>15. QED
    BY <2>1, <2>2, <2>3, <2>4, <2>5, <2>6, <2>7, <2>8, <2>9, <2>10, <2>11,
       <2>12, <2>13, <2>14 DEF Next, SaverStep
<1>3. QED
  BY <1>1, <1>2, PTL DEF Spec

-----------------------------------------------------------------------------
(* The part of StoreInv that only counts.                                  *)
LEMMA CountersKept == TypeOK /\ Counters /\ [Next]_vars => Counters'
<1> SUFFICES ASSUME TypeOK, Counters, [Next]_vars PROVE Counters'
  OBVIOUS
<1> USE DEF TypeOK, Counters
<1>1. CASE BeginSave
  BY <1>1 DEF BeginSave
<1>2. CASE RefuseSave
  BY <1>2 DEF RefuseSave
<1>3. CASE SaverStep
  BY <1>3 DEF SaverStep, WriteTemp, SyncTemp, Rename, SyncDirectoryAfterCopy,
              SyncDirectoryAndReturn, OpenTemp
<1>4. CASE FailSave
  BY <1>4 DEF FailSave
<1>5. ASSUME NEW l \in Loader, ReadCurrent(l) \/ ReadPrevious(l) PROVE Counters'
  BY <1>5 DEF ReadCurrent, ReadPrevious, saverVars
<1>6. CASE KillDaemon
  BY <1>6 DEF KillDaemon
<1>7. CASE PowerOff
  BY <1>7 DEF PowerOff
<1>8. ASSUME NEW n \in Names, NEW kind \in DamageKinds, Damage(n, kind)
      PROVE  Counters'
  BY <1>8 DEF Damage, saverVars
<1>9. CASE UNCHANGED vars
  BY <1>9 DEF vars, saverVars
<1>10. QED
  BY <1>1, <1>2, <1>3, <1>4, <1>5, <1>6, <1>7, <1>8, <1>9 DEF Next

(* What StoreInv says of the files while nothing has damaged them.         *)
Undamaged ==
  /\ WholeFiles
  /\ CurrentKept
  /\ PreviousKept
  /\ stage \in {"synced", "renamed"} => tmpSynced
  /\ Rotating
  /\ Replacing

LoadsFresh ==
  \A l \in Loader :
    /\ loads[l].pc = "previous" => loads[l].floor = 0
    /\ loads[l].pc = "done" => loads[l].got >= loads[l].floor

(* Faults are only ever counted up.                                        *)
LEMMA DamageCountGrows ==
  TypeOK /\ [Next]_vars /\ faults'.damage = 0 => faults.damage = 0
<1> SUFFICES ASSUME TypeOK, [Next]_vars, faults'.damage = 0
             PROVE  faults.damage = 0
  OBVIOUS
<1>1. ASSUME NEW n \in Names, NEW kind \in DamageKinds, Damage(n, kind)
      PROVE  faults.damage = 0
  BY <1>1 DEF Damage, TypeOK
<1>2. CASE FailSave
  BY <1>2 DEF FailSave, TypeOK
<1>3. CASE KillDaemon
  BY <1>3 DEF KillDaemon, CountCrash, TypeOK
<1>4. CASE PowerOff
  BY <1>4 DEF PowerOff, CountCrash, TypeOK
<1>5. CASE \/ BeginSave \/ RefuseSave \/ SaverStep \/ UNCHANGED vars
          \/ \E l \in Loader : ReadCurrent(l) \/ ReadPrevious(l)
  BY <1>5 DEF BeginSave, RefuseSave, SaverStep, WriteTemp, SyncTemp, Rename,
              SyncDirectoryAfterCopy, SyncDirectoryAndReturn, ReadCurrent,
              ReadPrevious, vars
<1>6. QED
  BY <1>1, <1>2, <1>3, <1>4, <1>5 DEF Next

(* The files stay good through every step but a damage.                    *)
LEMMA UndamagedKept ==
  ASSUME TypeOK, TypeOK', Counters, Counters', Undamaged, [Next]_vars,
         faults'.damage = 0
  PROVE  Undamaged'
<1> USE SentinelsAssumption DEF Names, Current, Previous, Version, Stages
<1> USE DEF TypeOK, Counters, Undamaged, WholeFiles, CurrentKept, PreviousKept,
            Rotating, Replacing
<1>1. CASE BeginSave
  BY <1>1 DEF BeginSave, OpenTemp, fileVars
<1>2. CASE RefuseSave
  BY <1>2 DEF RefuseSave, fileVars
<1>3. CASE WriteTemp
  BY <1>3 DEF WriteTemp, fileVars
<1>4. CASE SyncTemp
  BY <1>4 DEF SyncTemp, fileVars
<1>5. CASE Rename
  BY <1>5 DEF Rename
<1>6. CASE SyncDirectoryAfterCopy
  BY <1>6 DEF SyncDirectoryAfterCopy, OpenTemp
<1>7. CASE SyncDirectoryAndReturn
  BY <1>7 DEF SyncDirectoryAndReturn
<1>8. CASE FailSave
  BY <1>8 DEF FailSave, fileVars
<1>9. ASSUME NEW l \in Loader, ReadCurrent(l) \/ ReadPrevious(l)
      PROVE  Undamaged'
  BY <1>9 DEF ReadCurrent, ReadPrevious, saverVars, fileVars
<1>10. CASE KillDaemon
  BY <1>10 DEF KillDaemon, fileVars
<1>11. CASE PowerOff
  BY <1>11 DEF PowerOff, Survives
<1>12. ASSUME NEW n \in Names, NEW kind \in DamageKinds, Damage(n, kind)
       PROVE  Undamaged'
  BY <1>12 DEF Damage
<1>13. CASE UNCHANGED vars
  BY <1>13 DEF vars, saverVars, fileVars
<1>14. QED
  BY <1>1, <1>2, <1>3, <1>4, <1>5, <1>6, <1>7, <1>8, <1>9, <1>10, <1>11,
     <1>12, <1>13 DEF Next, SaverStep

(* A load that found no current file began before anything was promised.   *)
LEMMA LoadsKept ==
  ASSUME TypeOK, Counters, Undamaged, LoadsFresh, [Next]_vars,
         faults'.damage = 0
  PROVE  LoadsFresh'
<1> USE DEF TypeOK, LoadsFresh, LoadState
<1>1. ASSUME NEW l \in Loader, ReadCurrent(l) PROVE LoadsFresh'
  <2>1. view[Current] = Absent \/ view[Current] \in Version
    BY DEF Undamaged, WholeFiles, Names, Current
  <2>2. CASE view[Current] = Absent
    <3>1. acked = 0
      BY <2>2, SentinelsAssumption DEF Undamaged, CurrentKept, Version, Current
    <3>2. ~Parses(view[Current]) /\ ~Escapes(view[Current])
      BY <2>2, SentinelsAssumption DEF Parses, Escapes, Version, Unreadable
    <3>3. QED
      BY <1>1, <3>1, <3>2 DEF ReadCurrent, IdleLoad
  <2>3. CASE view[Current] \in Version
    <3>1. view[Current] >= acked
      BY <2>3 DEF Undamaged, CurrentKept, Version, Current
    <3>2. QED
      BY <1>1, <2>3, <3>1 DEF ReadCurrent, IdleLoad, Parses, Version
  <2>4. QED
    BY <2>1, <2>2, <2>3
<1>2. ASSUME NEW l \in Loader, ReadPrevious(l) PROVE LoadsFresh'
  BY <1>2 DEF ReadPrevious, Parses, Version
<1>3. CASE PowerOff
  BY <1>3 DEF PowerOff, IdleLoad
<1>4. CASE UNCHANGED loads
  BY <1>4
<1>5. QED
  BY <1>1, <1>2, <1>3, <1>4
     DEF Next, SaverStep, BeginSave, RefuseSave, WriteTemp, SyncTemp, Rename,
         SyncDirectoryAfterCopy, SyncDirectoryAndReturn, FailSave, KillDaemon,
         Damage, vars

(* The inductive invariant holds of every reachable state.                 *)
THEOREM StoreInvariant == Spec => []StoreInv
<1>1. Init => StoreInv
  BY SentinelsAssumption
     DEF Init, StoreInv, Counters, WholeFiles, CurrentKept, PreviousKept,
         Rotating, Replacing, Version, Names, Current, Previous, IdleLoad
<1>2. StoreInv <=> Counters /\ (faults.damage = 0 => Undamaged /\ LoadsFresh)
  BY DEF StoreInv, Undamaged, LoadsFresh
<1>3. TypeOK /\ TypeOK' /\ StoreInv /\ [Next]_vars => StoreInv'
  <2> SUFFICES ASSUME TypeOK, TypeOK', StoreInv, [Next]_vars
               PROVE  StoreInv'
    OBVIOUS
  <2>1. Counters'
    BY <1>2, CountersKept
  <2>2. ASSUME faults'.damage = 0 PROVE Undamaged' /\ LoadsFresh'
    <3>1. faults.damage = 0
      BY <2>2, DamageCountGrows
    <3>2. Undamaged /\ LoadsFresh
      BY <1>2, <3>1
    <3>3. QED
      BY <1>2, <2>1, <2>2, <3>2, UndamagedKept, LoadsKept
  <2>3. QED
    BY <2>1, <2>2 DEF StoreInv, Undamaged, LoadsFresh
<1>4. QED
  BY <1>1, <1>3, TypeCorrect, PTL DEF Spec

(* As long as nothing damages the files from outside, no power-off leaves  *)
(* a torn one.                                                             *)
THEOREM NeverTornAlways == Spec => []NeverTorn
<1>1. StoreInv => NeverTorn
  BY DEF StoreInv, WholeFiles, NeverTorn, Survives
<1>2. QED
  BY <1>1, StoreInvariant, PTL

(* What save() has returned for is on the device.                          *)
THEOREM AckedIsDurableAlways == Spec => []AckedIsDurable
<1>1. StoreInv => AckedIsDurable
  BY DEF StoreInv, WholeFiles, CurrentKept, AckedIsDurable, Survives, Names,
         Current
<1>2. QED
  BY <1>1, StoreInvariant, PTL

(* The other file alone loses at most one acknowledged save.               *)
THEOREM OneGenerationBackAlways == Spec => []OneGenerationBack
<1>1. StoreInv => OneGenerationBack
  BY DEF StoreInv, WholeFiles, PreviousKept, OneGenerationBack, Survives,
         Names, Previous
<1>2. QED
  BY <1>1, StoreInvariant, PTL

(* Loads race with everything else and still return what was promised.     *)
THEOREM LoadIsFreshAlways == Spec => []LoadIsFresh
<1>1. StoreInv => LoadIsFresh
  BY DEF StoreInv, LoadIsFresh
<1>2. QED
  BY <1>1, StoreInvariant, PTL

-----------------------------------------------------------------------------
(* What holds of the numbers in the files even when they are damaged: the  *)
(* snapshot that is being saved is newer than every one on disk.           *)
NoneNewer ==
  \A n \in Names :
    /\ view[n] \in Version => view[n] <= attempts
    /\ durable[n] \in Version => durable[n] <= attempts

NewerToCome ==
  stage # "idle" =>
    /\ text \in Version => text <= attempts
    /\ target = Current => text = payload
    /\ ~(target = Current /\ stage = "renamed") /\ view[Current] \in Version
         => view[Current] < payload

SavesNewer == Counters /\ NoneNewer /\ NewerToCome

LEMMA SavesNewerKept ==
  ASSUME TypeOK, TypeOK', SavesNewer, [Next]_vars
  PROVE  SavesNewer'
<1> USE SentinelsAssumption DEF Names, Current, Previous, Version, Stages
<1>0. Counters'
  BY CountersKept DEF SavesNewer
<1> USE DEF TypeOK, SavesNewer, Counters, NoneNewer, NewerToCome
<1>1. CASE BeginSave
  BY <1>0, <1>1 DEF BeginSave, OpenTemp, fileVars
<1>2. CASE RefuseSave
  BY <1>0, <1>2 DEF RefuseSave, fileVars
<1>3. CASE WriteTemp \/ SyncTemp
  BY <1>0, <1>3 DEF WriteTemp, SyncTemp, fileVars
<1>4. CASE Rename
  BY <1>0, <1>4 DEF Rename
<1>5. CASE SyncDirectoryAfterCopy
  BY <1>0, <1>5 DEF SyncDirectoryAfterCopy, OpenTemp
<1>6. CASE SyncDirectoryAndReturn
  BY <1>0, <1>6 DEF SyncDirectoryAndReturn
<1>7. CASE FailSave \/ KillDaemon
  BY <1>0, <1>7 DEF FailSave, KillDaemon, fileVars
<1>8. ASSUME NEW l \in Loader, ReadCurrent(l) \/ ReadPrevious(l)
      PROVE  SavesNewer'
  BY <1>0, <1>8 DEF ReadCurrent, ReadPrevious, saverVars, fileVars
<1>9. CASE PowerOff
  BY <1>0, <1>9 DEF PowerOff, Survives
<1>10. ASSUME NEW n \in Names, NEW kind \in DamageKinds, Damage(n, kind)
       PROVE  SavesNewer'
  <2>1. kind \notin Version
    BY BoundsAssumption DEF Unreadable
  <2>2. QED
    BY <1>0, <1>10, <2>1 DEF Damage, saverVars
<1>11. CASE UNCHANGED vars
  BY <1>0, <1>11 DEF vars, saverVars, fileVars
<1>12. QED
  BY <1>1, <1>2, <1>3, <1>4, <1>5, <1>6, <1>7, <1>8, <1>9, <1>10, <1>11
     DEF Next, SaverStep

LEMMA SavesNewerAlways == Spec => []SavesNewer
<1>1. Init => SavesNewer
  BY SentinelsAssumption
     DEF Init, SavesNewer, Counters, NoneNewer, NewerToCome, Version, Names,
         Current, Previous
<1>2. QED
  BY <1>1, SavesNewerKept, TypeCorrect, PTL DEF Spec

(* Only the rename of a snapshot, a power-off and a damage change what is  *)
(* in the current file, and the rename puts a newer snapshot there.        *)
LEMMA CurrentStep ==
  ASSUME TypeOK, SavesNewer, [Next]_vars
  PROVE  \/ UNCHANGED view[Current]
         \/ /\ Rename /\ target = Current
            /\ view'[Current] = payload
            /\ view[Current] \in Version => view[Current] < payload
         \/ PowerOff
         \/ \E n \in Names, kind \in DamageKinds : Damage(n, kind)
<1> USE DEF TypeOK, Names, Current, Previous, Stages
<1>1. CASE Rename
  <2>1. CASE target = Current
    BY <1>1, <2>1 DEF Rename, SavesNewer, NewerToCome
  <2>2. CASE target = Previous
    BY <1>1, <2>2 DEF Rename
  <2>3. QED
    BY <2>1, <2>2
<1>2. CASE UNCHANGED view
  BY <1>2
<1>3. QED
  BY <1>1, <1>2
     DEF Next, SaverStep, BeginSave, RefuseSave, WriteTemp, SyncTemp,
         SyncDirectoryAfterCopy, SyncDirectoryAndReturn, FailSave,
         ReadCurrent, ReadPrevious, KillDaemon, fileVars, vars

(* Failed and killed saves included, and whatever was damaged before, no   *)
(* step but a power-off or a damage replaces a snapshot by an older one.   *)
THEOREM NeverBackwardsAlways == Spec => NeverBackwards
<1>1. TypeOK /\ TypeOK' /\ SavesNewer /\ [Next]_vars
        => [view[Current] \in Version =>
              \/ view'[Current] \in Version /\ view'[Current] >= view[Current]
              \/ faults'.crash > faults.crash
              \/ faults'.damage > faults.damage]_vars
  <2> SUFFICES ASSUME TypeOK, TypeOK', SavesNewer, [Next]_vars,
                      view[Current] \in Version
               PROVE  \/ view'[Current] \in Version
                         /\ view'[Current] >= view[Current]
                      \/ faults'.crash > faults.crash
                      \/ faults'.damage > faults.damage
    OBVIOUS
  <2>1. CASE PowerOff
    BY <2>1 DEF PowerOff, CountCrash, TypeOK
  <2>2. CASE UNCHANGED view[Current]
    BY <2>2 DEF Version
  <2>3. CASE /\ Rename /\ target = Current
             /\ view'[Current] = payload
             /\ view[Current] \in Version => view[Current] < payload
    BY <2>3 DEF Version, TypeOK
  <2>4. ASSUME NEW n \in Names, NEW kind \in DamageKinds, Damage(n, kind)
        PROVE  faults'.damage > faults.damage
    BY <2>4 DEF Damage, TypeOK
  <2>5. QED
    BY <2>1, <2>2, <2>3, <2>4, CurrentStep
<1>2. QED
  BY <1>1, SavesNewerAlways, TypeCorrect, PTL DEF Spec, NeverBackwards

-----------------------------------------------------------------------------
(* From its rename to the end of the save, the snapshot in the current     *)
(* file is not at rest: what the device has there is an older one, so      *)
(* nothing counts as damage to it.                                         *)
DurableOlder ==
  stage # "idle" /\ durable[Current] \in Version => durable[Current] < payload

ShownOnceRenamed ==
  stage = "renamed" /\ target = Current => view[Current] = payload

NotAtRest == DurableOlder /\ ShownOnceRenamed

LEMMA NotAtRestKept ==
  ASSUME TypeOK, SavesNewer, NotAtRest, [Next]_vars
  PROVE  NotAtRest'
<1> USE SentinelsAssumption DEF Names, Current, Previous, Version, Stages
<1> USE DEF TypeOK, SavesNewer, Counters, NoneNewer, NewerToCome, NotAtRest,
            DurableOlder, ShownOnceRenamed
<1>1. CASE BeginSave
  BY <1>1 DEF BeginSave, OpenTemp, fileVars
<1>2. CASE RefuseSave
  BY <1>2 DEF RefuseSave, fileVars
<1>3. CASE WriteTemp \/ SyncTemp
  BY <1>3 DEF WriteTemp, SyncTemp, fileVars
<1>4. CASE Rename
  BY <1>4 DEF Rename
<1>5. CASE SyncDirectoryAfterCopy
  BY <1>5 DEF SyncDirectoryAfterCopy, OpenTemp
<1>6. CASE SyncDirectoryAndReturn
  BY <1>6 DEF SyncDirectoryAndReturn
<1>7. CASE FailSave \/ KillDaemon \/ PowerOff
  BY <1>7 DEF FailSave, KillDaemon, PowerOff
<1>8. ASSUME NEW l \in Loader, ReadCurrent(l) \/ ReadPrevious(l)
      PROVE  NotAtRest'
  BY <1>8 DEF ReadCurrent, ReadPrevious, saverVars, fileVars
<1>9. ASSUME NEW n \in Names, NEW kind \in DamageKinds, Damage(n, kind)
      PROVE  NotAtRest'
  <2>1. kind \notin Version
    BY BoundsAssumption DEF Unreadable
  <2>2. QED
    BY <1>9, <2>1 DEF Damage, saverVars
<1>10. CASE UNCHANGED vars
  BY <1>10 DEF vars, saverVars, fileVars
<1>11. QED
  BY <1>1, <1>2, <1>3, <1>4, <1>5, <1>6, <1>7, <1>8, <1>9, <1>10
     DEF Next, SaverStep

(* A file that a damage of the other one leaves whole, on the device too.   *)
Whole(n, k) ==
  \A c \in {view[n], durable[n]} : c \in Version /\ c >= k

(* What is in the current file, or on its way into the previous one, is    *)
(* the damage or recent enough.                                            *)
DamagedOrRecent(c) == c \in Unreadable \/ (c \in Version /\ c >= ackedPrev)

PreviousCovers ==
  ackedPrev > 0 =>
    /\ Whole(Previous, ackedPrev)
    /\ DamagedOrRecent(view[Current]) /\ DamagedOrRecent(durable[Current])
    /\ stage # "idle" /\ target = Previous => DamagedOrRecent(text)

CurrentCovers == acked > 0 => Whole(Current, acked)

(* A temp file is renamed only once its bytes are on the device.           *)
NoTornFile ==
  /\ \A n \in Names : synced[n]
  /\ stage \in {"synced", "renamed"} => tmpSynced

(* Which of the two files covers a damage of the other.                    *)
SpareInv ==
  /\ NoTornFile
  /\ faults.damage <= 1 /\ ~spoiled => CurrentCovers \/ PreviousCovers

LEMMA NoTornFileKept ==
  ASSUME TypeOK, NoTornFile, [Next]_vars
  PROVE  NoTornFile'
<1> USE DEF TypeOK, NoTornFile, Names, Stages
<1>1. CASE BeginSave
  BY <1>1 DEF BeginSave, OpenTemp, fileVars
<1>2. CASE RefuseSave
  BY <1>2 DEF RefuseSave, fileVars
<1>3. CASE WriteTemp \/ SyncTemp
  BY <1>3 DEF WriteTemp, SyncTemp, fileVars
<1>4. CASE Rename
  BY <1>4 DEF Rename
<1>5. CASE SyncDirectoryAfterCopy
  BY <1>5 DEF SyncDirectoryAfterCopy, OpenTemp
<1>6. CASE SyncDirectoryAndReturn
  BY <1>6 DEF SyncDirectoryAndReturn
<1>7. CASE FailSave \/ KillDaemon \/ PowerOff
  BY <1>7 DEF FailSave, KillDaemon, PowerOff, fileVars
<1>8. ASSUME NEW l \in Loader, ReadCurrent(l) \/ ReadPrevious(l)
      PROVE  NoTornFile'
  BY <1>8 DEF ReadCurrent, ReadPrevious, saverVars, fileVars
<1>9. ASSUME NEW n \in Names, NEW kind \in DamageKinds, Damage(n, kind)
      PROVE  NoTornFile'
  BY <1>9 DEF Damage, saverVars
<1>10. CASE UNCHANGED vars
  BY <1>10 DEF vars, saverVars, fileVars
<1>11. QED
  BY <1>1, <1>2, <1>3, <1>4, <1>5, <1>6, <1>7, <1>8, <1>9, <1>10
     DEF Next, SaverStep

(* A file at rest that is damaged leaves the other one, which StoreInv     *)
(* says is whole: the current file with the newest acknowledged save, the  *)
(* previous one with the save before it.                                   *)
LEMMA DamageIsCovered ==
  ASSUME TypeOK, StoreInv, NEW n \in Names, NEW kind \in DamageKinds,
         Damage(n, kind), faults'.damage <= 1
  PROVE  (CurrentCovers \/ PreviousCovers)'
<1> USE SentinelsAssumption, BoundsAssumption
     DEF TypeOK, Names, Current, Previous, Version
<1>1. faults.damage = 0 /\ UNCHANGED <<acked, ackedPrev, stage, target, text>>
  BY DEF Damage, saverVars
<1>2. ackedPrev <= acked
  BY DEF StoreInv, Counters
<1>3. CASE n = Previous
  <2>1. UNCHANGED <<view[Current], durable[Current]>>
    BY <1>3 DEF Damage
  <2>2. CurrentCovers
    BY <1>1 DEF StoreInv, CurrentKept, CurrentCovers, Whole
  <2>3. CurrentCovers'
    BY <1>1, <2>1, <2>2 DEF CurrentCovers, Whole
  <2>4. QED
    BY <2>3
<1>4. CASE n = Current
  <2> SUFFICES ASSUME ackedPrev > 0 PROVE PreviousCovers'
    BY <1>1 DEF PreviousCovers
  <2>1. UNCHANGED <<view[Previous], durable[Previous]>>
    BY <1>4 DEF Damage
  <2>2. Whole(Previous, ackedPrev)'
    BY <1>1, <2>1 DEF StoreInv, PreviousKept, Whole
  <2>3. view'[Current] = kind /\ durable'[Current] = kind
    BY <1>4 DEF Damage
  <2>4. stage # "idle" /\ target = Previous => DamagedOrRecent(text)
    BY <1>1, <1>2 DEF StoreInv, Rotating, CurrentKept, DamagedOrRecent
  <2>5. QED
    BY <1>1, <2>2, <2>3, <2>4 DEF PreviousCovers, DamagedOrRecent
<1>5. QED
  BY <1>3, <1>4

(* Once there was a damage, the current file covers it until it is damaged *)
(* itself, and the previous one until the damage is copied over it.        *)
LEMMA SpareKept ==
  ASSUME TypeOK, TypeOK', StoreInv, SavesNewer, NotAtRest, SpareInv,
         [Next]_vars, faults'.damage <= 1, ~spoiled'
  PROVE  (CurrentCovers \/ PreviousCovers)'
<1> USE SentinelsAssumption DEF TypeOK, Names, Current, Previous, Version, Stages
<1>1. CASE SyncDirectoryAndReturn
  <2>1. view'[Current] = payload /\ durable' = view' /\ payload \in Version
        /\ acked' = payload
    BY <1>1 DEF SyncDirectoryAndReturn, NotAtRest, ShownOnceRenamed
  <2>2. CurrentCovers'
    BY <2>1 DEF CurrentCovers, Whole
  <2>3. QED
    BY <2>2
<1>2. ASSUME NEW n \in Names, NEW kind \in DamageKinds, Damage(n, kind)
      PROVE  (CurrentCovers \/ PreviousCovers)'
  BY <1>2, DamageIsCovered
<1> SUFFICES ASSUME ~SyncDirectoryAndReturn,
                    \A n \in Names, kind \in DamageKinds : ~Damage(n, kind)
             PROVE  (CurrentCovers \/ PreviousCovers)'
  BY <1>1, <1>2
<1>3. UNCHANGED <<acked, ackedPrev>> /\ faults.damage <= 1 /\ ~spoiled
  BY DEF Next, SaverStep, BeginSave, RefuseSave, WriteTemp, SyncTemp, Rename,
         SyncDirectoryAfterCopy, FailSave, ReadCurrent, ReadPrevious,
         KillDaemon, PowerOff, CountCrash, saverVars, vars
<1>4. CurrentCovers \/ PreviousCovers
  BY <1>3 DEF SpareInv
<1>5. ackedPrev <= acked /\ acked <= attempts
      /\ (stage # "idle" => payload = attempts)
  BY DEF StoreInv, Counters
<1>6. (stage # "idle" /\ target = Current) => text = payload
  BY DEF SavesNewer, NewerToCome
<1>7. ASSUME CurrentCovers PROVE CurrentCovers'
  <2>1. CASE Rename
    BY <1>3, <1>5, <1>6, <1>7, <2>1 DEF Rename, CurrentCovers, Whole
  <2>2. CASE SyncDirectoryAfterCopy
    BY <1>3, <1>7, <2>2 DEF SyncDirectoryAfterCopy, CurrentCovers, Whole
  <2>3. CASE PowerOff
    BY <1>3, <1>7, <2>3
       DEF PowerOff, Survives, CurrentCovers, Whole, SpareInv, NoTornFile
  <2>4. CASE UNCHANGED <<view, durable>>
    BY <1>3, <1>7, <2>4 DEF CurrentCovers, Whole
  <2>5. QED
    BY <2>1, <2>2, <2>3, <2>4
       DEF Next, SaverStep, BeginSave, RefuseSave, WriteTemp, SyncTemp,
           FailSave, ReadCurrent, ReadPrevious, KillDaemon, fileVars, vars
<1>8. ASSUME PreviousCovers, ackedPrev > 0 PROVE PreviousCovers'
  <2> USE DEF PreviousCovers, Whole, DamagedOrRecent
  <2>1. CASE BeginSave
    BY <1>3, <1>8, <2>1 DEF BeginSave, OpenTemp, fileVars
  <2>2. CASE Rename
    <3>1. CASE target = Previous
      <4>1. text \in Version /\ text >= ackedPrev
        BY <1>8, <2>2, <3>1 DEF Rename
      <4>2. QED
        BY <1>3, <1>8, <2>2, <3>1, <4>1 DEF Rename
    <3>2. CASE target = Current
      BY <1>3, <1>5, <1>6, <1>8, <2>2, <3>2 DEF Rename
    <3>3. QED
      BY <3>1, <3>2
  <2>3. CASE SyncDirectoryAfterCopy
    BY <1>3, <1>8, <2>3 DEF SyncDirectoryAfterCopy, OpenTemp
  <2>4. CASE PowerOff
    BY <1>3, <1>8, <2>4 DEF PowerOff, Survives, SpareInv, NoTornFile
  <2>5. CASE FailSave \/ KillDaemon \/ RefuseSave
    BY <1>3, <1>8, <2>5 DEF FailSave, KillDaemon, RefuseSave, fileVars
  <2>6. CASE WriteTemp \/ SyncTemp
    BY <1>3, <1>8, <2>6 DEF WriteTemp, SyncTemp, fileVars
  <2>7. CASE UNCHANGED vars \/ \E l \in Loader : ReadCurrent(l)
                                               \/ ReadPrevious(l)
    BY <1>3, <1>8, <2>7 DEF ReadCurrent, ReadPrevious, saverVars, fileVars, vars
  <2>8. QED
    BY <2>1, <2>2, <2>3, <2>4, <2>5, <2>6, <2>7 DEF Next, SaverStep
<1>9. CASE ackedPrev = 0
  BY <1>3, <1>9 DEF PreviousCovers
<1>10. QED
  BY <1>4, <1>7, <1>8, <1>9

(* A single damage never takes both generations, whichever file it hits    *)
(* and whatever moment of a save it hits it at, through failing saves,     *)
(* kills and power-offs; from the copy of a damaged current file over the  *)
(* previous one until the next save that returns, nothing is promised.     *)
THEOREM SpareCoversDamageAlways == Spec => []SpareCoversDamage
<1>1. Init => NotAtRest /\ SpareInv
  BY DEF Init, NotAtRest, DurableOlder, ShownOnceRenamed, SpareInv, NoTornFile,
         CurrentCovers
<1>2. TypeOK /\ TypeOK' /\ StoreInv /\ SavesNewer
        /\ NotAtRest /\ SpareInv /\ [Next]_vars
        => NotAtRest' /\ SpareInv'
  BY NotAtRestKept, SpareKept, NoTornFileKept DEF SpareInv
<1>3. TypeOK /\ StoreInv /\ SpareInv => SpareCoversDamage
  BY DEF TypeOK, StoreInv, Counters, SpareInv, NoTornFile, CurrentCovers,
         PreviousCovers, Whole, SpareCoversDamage, Survives, Names, Current,
         Previous, Version
<1>4. QED
  BY <1>1, <1>2, <1>3, TypeCorrect, StoreInvariant, SavesNewerAlways, PTL
     DEF Spec

(* The files implement the durable snapshot register, which promises       *)
(* nothing any more once somebody else has written to them.                *)
THEOREM ImplementsRegister == Spec => RefinesRegister
<1> DEFINE shown == IF view[Current] \in Version THEN view[Current] ELSE 0
<1>1. Init => Register!AbsInit
  BY SentinelsAssumption DEF Init, Register!AbsInit, Current, Names, Version
<1>2. TypeOK /\ TypeOK' /\ StoreInv /\ SavesNewer /\ [Next]_vars
        => [Register!AbsNext]_(Register!absVars)
  <2> SUFFICES ASSUME TypeOK, TypeOK', StoreInv, SavesNewer, [Next]_vars
               PROVE  [Register!AbsNext]_(Register!absVars)
    OBVIOUS
  <2>0. shown \in Nat /\ shown' \in Nat /\ acked \in Nat /\ acked' \in Nat
    BY DEF Version, TypeOK
  <2>1. CASE faults'.damage # 0
    BY <2>0, <2>1 DEF Register!AbsNext, Register!Spoil
  <2> SUFFICES ASSUME faults'.damage = 0
               PROVE  [Register!AbsNext]_(Register!absVars)
    BY <2>1
  <2>2. faults.damage = 0
    BY DamageCountGrows
  <2>3. CASE SyncDirectoryAndReturn
    <3>1. shown = payload /\ shown' = shown /\ acked' = payload
      BY <2>2, <2>3
         DEF SyncDirectoryAndReturn, StoreInv, Replacing, TypeOK, Current
    <3>2. QED
      BY <2>2, <3>1 DEF Register!AbsNext, Register!Promise
  <2>4. CASE PowerOff
    <3>1. acked' = acked
      BY <2>4 DEF PowerOff
    <3>2. view'[Current] \in {view[Current], durable[Current]}
      BY <2>2, <2>4 DEF PowerOff, Survives, StoreInv, WholeFiles, Names, Current
    <3>3. shown' <= shown
      BY <2>2, <3>2, SentinelsAssumption
         DEF StoreInv, CurrentKept, WholeFiles, Version, Names, Current
    <3>4. acked <= shown'
      BY <2>0, <2>2, <3>2 DEF StoreInv, CurrentKept, Version
    <3>5. shown' \in acked .. shown
      BY <2>0, <3>3, <3>4
    <3>6. QED
      BY <2>2, <3>1, <3>5 DEF Register!AbsNext, Register!Forget
  <2>5. CASE /\ Rename /\ target = Current
             /\ view'[Current] = payload
             /\ view[Current] \in Version => view[Current] < payload
    <3>1. acked' = acked /\ payload \in Version
      BY <2>5 DEF Rename, TypeOK
    <3>2. shown < payload /\ shown' = payload
      BY <2>5, <3>1 DEF Version
    <3>3. QED
      BY <2>0, <2>2, <3>1, <3>2 DEF Register!AbsNext, Register!Publish
  <2>6. CASE UNCHANGED view[Current] /\ ~SyncDirectoryAndReturn
                                     /\ ~PowerOff
    <3>1. acked' = acked
      BY <2>6
         DEF Next, SaverStep, BeginSave, RefuseSave, WriteTemp, SyncTemp,
             Rename, SyncDirectoryAfterCopy, FailSave, ReadCurrent,
             ReadPrevious, KillDaemon, Damage, saverVars, vars
    <3>2. QED
      BY <2>2, <2>6, <3>1 DEF Register!absVars
  <2>7. ASSUME NEW n \in Names, NEW kind \in DamageKinds, Damage(n, kind)
        PROVE  FALSE
    BY <2>2, <2>7 DEF Damage, TypeOK
  <2>8. QED
    BY <2>3, <2>4, <2>5, <2>6, <2>7, CurrentStep
<1>3. QED
  BY <1>1, <1>2, SavesNewerAlways, TypeCorrect, StoreInvariant, PTL
     DEF Spec, RefinesRegister, Register!AbsSpec
=============================================================================
