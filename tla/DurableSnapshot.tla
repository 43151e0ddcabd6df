-------------------------- MODULE DurableSnapshot --------------------------
(***************************************************************************)
(* What the snapshot store promises, without its files: somebody who loads *)
(* sees the newest published snapshot, a save that has returned survives   *)
(* every power-off, and only a power-off may take an unacknowledged        *)
(* snapshot away again (the four numbered points at the top of             *)
(* src/restore_wss/storage.py) - as long as nobody else writes the files.  *)
(* SnapshotStore is shown to implement this.                               *)
(*                                                                         *)
(* Snapshots are numbered in the order they are saved; 0 is "no snapshot". *)
(***************************************************************************)
EXTENDS Naturals

VARIABLES
  visible,   \* the snapshot a loader gets now
  kept,      \* the newest snapshot whose save has returned
  intact     \* nobody has tampered with the files

absVars == <<visible, kept, intact>>

AbsInit ==
  /\ visible = 0
  /\ kept = 0
  /\ intact = TRUE

(* A newer snapshot replaces the visible one, whole, in one step. *)
Publish ==
  /\ visible' \in Nat
  /\ visible' > visible
  /\ UNCHANGED kept

(* The save that published it returns: from here on it may not be lost. *)
Promise ==
  /\ kept' = visible
  /\ UNCHANGED visible

(* A power-off takes back what had been published and not yet promised. *)
Forget ==
  /\ visible' \in kept .. visible
  /\ UNCHANGED kept

(* A file is damaged from outside: from here on nothing is promised.       *)
Spoil ==
  /\ visible' \in Nat /\ kept' \in Nat
  /\ intact' = FALSE

AbsNext ==
  \/ intact /\ (Publish \/ Promise \/ Forget) /\ UNCHANGED intact
  \/ Spoil

AbsSpec == AbsInit /\ [][AbsNext]_absVars
=============================================================================
