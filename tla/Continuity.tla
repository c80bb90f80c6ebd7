------------------------------- MODULE Continuity -------------------------------
(***************************************************************************)
(* How HAL survives a restart and how it is put back:                      *)
(*   ContinuityEngine (hal/src/continuity_engine.rs): a snapshot is        *)
(*     written to a temporary file, synced and renamed;                    *)
(*   RecoveryKernel (recovery_kernel.rs): checkpoints of the state,        *)
(*     bounded, and a policy on going back to one;                         *)
(*   SelfPreservation (self_preservation.rs): hashes of HAL's own files    *)
(*     and the lockdown.                                                   *)
(* A power failure loses what was not synced.                              *)
(***************************************************************************)
EXTENDS Integers, Sequences, FiniteSets, SequencesExt

CONSTANTS
  Writers,        \* concurrent callers of write_snapshot, each call with its own temporary file
  MaxSnapshots,   \* bound: calls of write_snapshot
  MaxPoints,      \* 32 recovery points, scaled down
  MaxCheckpoints, \* bound: checkpoints taken
  OwnFiles        \* files self-preservation hashes

ASSUME ContinuityAssumption == {MaxSnapshots, MaxCheckpoints} \subseteq Nat /\ MaxPoints \in Nat \ {0}

Missing == -1
Partial == -2  \* a file whose contents never reached the disk

VARIABLES
  writer,     \* Writers -> what write_atomic has done: [step, snapshot]
  tmp,        \* temporary files left by calls that died, by snapshot
  file,       \* the snapshot file as readers see it
  onDisk,     \* what a power failure leaves of it: a set, one of which survives
  returned,   \* snapshots whose write_snapshot returned Ok
  settled,    \* history: some snapshot has reached the disk, its name included
  snapshots,  \* calls so far
  points,     \* RecoveryKernel.recovery_points: <<checkpoint number, label>>
  checkpoints, label, rollback, restored,
  baseline, contents, lockdown
snapshotVars == <<writer, tmp, file, onDisk, returned, settled, snapshots>>
recoveryVars == <<points, checkpoints, label, rollback, restored>>
guardVars == <<baseline, contents, lockdown>>
continuityVars == <<snapshotVars, recoveryVars, guardVars>>

ContinuityInit ==
  /\ writer = [w \in Writers |-> [step |-> "idle", snapshot |-> 0]]
  /\ tmp = {} /\ file = Missing /\ onDisk = {Missing} /\ returned = {} /\ snapshots = 0
  /\ settled = FALSE
  /\ points = <<>> /\ checkpoints = 0 /\ label = 0 /\ rollback = "RequiresHumanApproval"
  /\ restored = 0
  /\ baseline = [f \in {} |-> 0] /\ contents = [f \in OwnFiles |-> 0] /\ lockdown = "Normal"

-------------------------------------------------------------------------------
(* write_atomic, one action per system call.                               *)
CreateTmp(w) ==
  /\ writer[w].step = "idle" /\ snapshots < MaxSnapshots /\ snapshots' = snapshots + 1
  /\ writer' = [writer EXCEPT ![w] = [step |-> "created", snapshot |-> snapshots']]
  /\ UNCHANGED <<tmp, file, onDisk, returned, settled, recoveryVars, guardVars>>
\* write_all and sync_all.  An error of either leaves the temporary file.
SyncTmp(w) ==
  /\ writer[w].step = "created" /\ writer' = [writer EXCEPT ![w].step = "synced"]
  /\ UNCHANGED <<tmp, file, onDisk, returned, settled, snapshots, recoveryVars, guardVars>>
WriteFails(w) ==
  /\ writer[w].step \in {"created", "synced"} /\ writer' = [writer EXCEPT ![w].step = "idle"]
  /\ tmp' = tmp \cup {writer[w].snapshot}
  /\ UNCHANGED <<file, onDisk, returned, settled, snapshots, recoveryVars, guardVars>>
RenameUnsynced(w) == writer[w].step \in {"created", "synced"}
\* The directory is not synced: a power failure may undo the rename.
RenameReady(w) == writer[w].step = "synced"
Rename(w) ==
  /\ RenameReady(w) /\ writer' = [writer EXCEPT ![w].step = "idle"]
  /\ file' = writer[w].snapshot
  /\ onDisk' = onDisk \cup {IF writer[w].step = "synced" THEN file' ELSE Partial}
  /\ returned' = returned \cup {writer[w].snapshot}
  /\ UNCHANGED <<tmp, settled, snapshots, recoveryVars, guardVars>>
\* The kernel writes the directory back in its own time.
WriteBack ==
  /\ Partial \notin onDisk /\ onDisk' = {file} /\ settled' = (settled \/ file # Missing)
  /\ UNCHANGED <<writer, tmp, file, returned, snapshots, recoveryVars, guardVars>>
PowerFailure ==
  /\ \E f \in onDisk : file' = f /\ onDisk' = {f} /\ settled' = (settled \/ f # Missing)
  /\ tmp' = tmp \cup {writer[w].snapshot : w \in {x \in Writers : writer[x].step # "idle"}}
  /\ writer' = [w \in Writers |-> [step |-> "idle", snapshot |-> 0]]
  /\ UNCHANGED <<returned, snapshots, recoveryVars, guardVars>>

-------------------------------------------------------------------------------
CheckpointKeepsOldest ==
  /\ checkpoints < MaxCheckpoints /\ checkpoints' = checkpoints + 1
  /\ LET all == Append(points, [id |-> checkpoints', label |-> label]) IN
     points' = IF Len(all) > MaxPoints THEN Front(all) ELSE all
  /\ UNCHANGED <<label, rollback, restored, snapshotVars, guardVars>>
Checkpoint ==
  /\ checkpoints < MaxCheckpoints /\ checkpoints' = checkpoints + 1
  /\ LET all == Append(points, [id |-> checkpoints', label |-> label]) IN
     points' = IF Len(all) > MaxPoints THEN Tail(all) ELSE all
  /\ UNCHANGED <<label, rollback, restored, snapshotVars, guardVars>>
\* The caller changes current_state, or the policy.
ChangeState ==
  /\ label < MaxCheckpoints /\ label' = label + 1
  /\ UNCHANGED <<points, checkpoints, rollback, restored, snapshotVars, guardVars>>
SetRollbackPolicy(p) == rollback' = p /\ UNCHANGED <<points, checkpoints, label, restored, snapshotVars, guardVars>>
\* restore only finds the point: it puts no state back.
Restore(id) ==
  /\ rollback # "Forbidden" /\ \E i \in DOMAIN points : points[i].id = id
  /\ restored' = id /\ UNCHANGED <<points, checkpoints, label, rollback, snapshotVars, guardVars>>

-------------------------------------------------------------------------------
RegisterPath(f) ==
  /\ contents[f] # Missing
  /\ baseline' = [g \in DOMAIN baseline \cup {f} |-> IF g = f THEN contents[f] ELSE baseline[g]]
  /\ UNCHANGED <<contents, lockdown, snapshotVars, recoveryVars>>
FileChanges(f, c) == contents' = [contents EXCEPT ![f] = c] /\ UNCHANGED <<baseline, lockdown, snapshotVars, recoveryVars>>
VerifyIntegrity == \A f \in DOMAIN baseline : contents[f] = baseline[f]
EmergencyLockdown == lockdown' = "LockedDown" /\ UNCHANGED <<baseline, contents, snapshotVars, recoveryVars>>
ReleaseLockdown == lockdown' = "Normal" /\ UNCHANGED <<baseline, contents, snapshotVars, recoveryVars>>

\* The three share no state: a behaviour drives one of them.
SnapshotNext ==
  \/ \E w \in Writers : CreateTmp(w) \/ SyncTmp(w) \/ WriteFails(w) \/ Rename(w)
  \/ WriteBack \/ PowerFailure
RecoveryNext ==
  \/ Checkpoint \/ ChangeState
  \/ \E p \in {"Unrestricted", "RequiresHumanApproval", "Forbidden"} : SetRollbackPolicy(p)
  \/ \E id \in 1..MaxCheckpoints : Restore(id)
GuardNext ==
  \/ \E f \in OwnFiles : RegisterPath(f) \/ \E c \in {0, 1, Missing} : FileChanges(f, c)
  \/ EmergencyLockdown \/ ReleaseLockdown
ContinuityNext ==
  \/ checkpoints = 0 /\ label = 0 /\ lockdown = "Normal" /\ DOMAIN baseline = {} /\ SnapshotNext
  \/ snapshots = 0 /\ lockdown = "Normal" /\ DOMAIN baseline = {} /\ RecoveryNext
  \/ snapshots = 0 /\ checkpoints = 0 /\ label = 0 /\ GuardNext

ContinuityTypeOK ==
  /\ file \in 0..MaxSnapshots \cup {Missing, Partial} /\ tmp \subseteq 1..MaxSnapshots /\ settled \in BOOLEAN
  /\ \A w \in Writers : writer[w].step \in {"idle", "created", "synced"}
  /\ Len(points) <= MaxPoints /\ DOMAIN baseline \subseteq OwnFiles

(***************************************************************************)
(* Through failed writes, concurrent writers and power failures, whoever   *)
(* reads the snapshot file finds one that was written in full and          *)
(* acknowledged - and there is one from the first that reached the disk    *)
(* on; no temporary file left behind is one of them (write_atomic).  Not   *)
(* promised: that an acknowledged snapshot outlives a power failure.  The  *)
(* directory is not synced, so the one before it may come back, or none.   *)
(***************************************************************************)
SnapshotWhole ==
  /\ onDisk \cup {file} \subseteq returned \cup {Missing}
  /\ settled => Missing \notin onDisk \cup {file}
  /\ tmp \cap returned = {}

(***************************************************************************)
(* The recovery points are the latest checkpoints, in order, each with the *)
(* state it was taken of: nothing later than a kept point has been dropped *)
(* (checkpoint).                                                           *)
(***************************************************************************)
PointsAreLatest ==
  /\ \A i \in DOMAIN points : points[i].id = checkpoints - Len(points) + i
  /\ \A i, j \in DOMAIN points : i < j => points[i].label <= points[j].label

\* Inductive: a busy writer's snapshot is its own, neither left behind nor
\* acknowledged yet; and what readers see may be on the disk.
Busy == {w \in Writers : writer[w].step # "idle"}
SnapshotsInv ==
  /\ writer \in [Writers -> [step : {"idle", "created", "synced"}, snapshot : Nat]]
  /\ snapshots \in Nat /\ tmp \cup returned \subseteq 1..snapshots
  /\ \A w \in Busy : writer[w].snapshot \in (1..snapshots) \ (tmp \cup returned)
  /\ \A w, x \in Busy : writer[w].snapshot = writer[x].snapshot => w = x
  /\ onDisk \cup {file} \subseteq returned \cup {Missing} /\ tmp \cap returned = {}
SettledInv == settled \in BOOLEAN /\ file \in onDisk /\ (settled => Missing \notin onDisk)
PointsInv ==
  /\ points \in Seq([id : Nat, label : Nat]) /\ checkpoints \in Nat /\ label \in Nat
  /\ \A i \in DOMAIN points : points[i].label <= label
  /\ PointsAreLatest
================================================================================
