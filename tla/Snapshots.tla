----------------------------- MODULE Snapshots ------------------------------
(***************************************************************************)
(* Snapshots of the persist partition (libbb/bb_recovery.c:129-193,        *)
(* 215-261): create packs /persist into an archive under                   *)
(* /recovery/snapshots/<label> beside a manifest that names partition and  *)
(* archive; restore makes a new file system on every partition of the      *)
(* manifest (one, p9) and unpacks its archive there.                       *)
(*                                                                         *)
(* One caller at a time; the calls can be cut by a power failure between   *)
(* any two steps.  The tools are external: mkfs.ext4 with a single -F      *)
(* refuses a mounted partition, mount(2) on a mount point in use fails,    *)
(* tar fails on an archive that is cut short, and a file that the file     *)
(* system has not written out yet is empty or cut short after a power cut. *)
(***************************************************************************)
EXTENDS Naturals

CONSTANTS Label,
          Data,     \* contents of the persist partition; the next three are none
          Blank,    \* an empty file system, and an archive of one
          Partial,  \* an archive, or a partition, with a part of the files
          None      \* no such file

VARIABLES persist,          \* contents of p9
          persistMounted,   \* p9 is mounted at /persist
          recoveryMounted,  \* p8 is mounted at /recovery
          scratchMounted,   \* p9 is mounted at /tmp/reimage
          dirs,             \* labels with a directory
          manifest,         \* of each label: None, "empty" or "line"
          archive,          \* of each label
          unsynced,         \* labels whose files are not written out
          call              \* the call under way

mounts == <<persistMounted, recoveryMounted, scratchMounted>>
files  == <<dirs, manifest, archive, unsynced>>
vars   == <<persist, mounts, files, call>>

Idle == [op |-> "none"]
At(op, step) == call.op = op /\ call.step = step
Go(step) == call' = [call EXCEPT !.step = step]

Init ==
  /\ persist \in Data
  /\ persistMounted \in BOOLEAN
  /\ recoveryMounted = FALSE /\ scratchMounted = FALSE
  /\ dirs = {}
  /\ manifest = [l \in Label |-> None] /\ archive = [l \in Label |-> None]
  /\ unsynced = {}
  /\ call = Idle

Begin(op, l, step) ==
  /\ call = Idle
  /\ call' = [op |-> op, label |-> l, step |-> step]

\* A call returns; what it returns is in the step.
Return == call' = Idle

-----------------------------------------------------------------------------
(* bb_snapshot_create *)

\* A failed mount ends the call (-errno): /recovery was mounted already.
CreateMount(l) ==
  /\ ~recoveryMounted
  /\ Begin("create", l, "manifest")
  /\ recoveryMounted' = TRUE
  /\ dirs' = dirs \union {l}
  /\ UNCHANGED <<persist, persistMounted, scratchMounted, manifest, archive, unsynced>>

\* fopen empties an old manifest; without room for a new one the call ends (-1).
CreateManifest ==
  /\ At("create", "manifest")
  /\ \/ /\ manifest' = [manifest EXCEPT ![call.label] = "line"]
        /\ unsynced' = unsynced \union {call.label}
        /\ Go("archive")
     \/ /\ manifest[call.label] = None
        /\ Return
        /\ UNCHANGED <<manifest, unsynced>>
  /\ UNCHANGED <<persist, mounts, dirs, archive>>

\* tar and cp; their results are not looked at and the call returns 0.
CreateArchive ==
  /\ At("create", "archive")
  /\ \E a \in {Partial, IF persistMounted THEN persist ELSE Blank} :
       archive' = [archive EXCEPT ![call.label] = a]
  /\ unsynced' = unsynced \union {call.label}
  /\ Return
  /\ UNCHANGED <<persist, mounts, dirs, manifest>>

-----------------------------------------------------------------------------
(* bb_recovery_restore_snapshot, with bb_recovery_reimage for its archive *)

\* The directory is looked for before /recovery is mounted.
RestoreFind(l) ==
  /\ recoveryMounted /\ l \in dirs
  /\ Begin("restore", l, IF manifest[l] = "line" THEN "mkfs" ELSE "end")
  /\ UNCHANGED <<persist, mounts, files>>

\* The manifest has no line (returns 0), or does not exist (returns -1).
RestoreNothing ==
  /\ At("restore", "end")
  /\ Return
  /\ UNCHANGED <<persist, mounts, files>>

\* mkfs.ext4 -F refuses a partition that is mounted: one error.
Mkfs ==
  /\ At("restore", "mkfs")
  /\ IF persistMounted \/ scratchMounted
     THEN Return /\ UNCHANGED persist
     ELSE Go("mount") /\ persist' = Blank
  /\ UNCHANGED <<mounts, files>>

MountScratch ==
  /\ At("restore", "mount")
  /\ scratchMounted' = TRUE
  /\ Go("untar")
  /\ UNCHANGED <<persist, persistMounted, recoveryMounted, files>>

\* Variant: the commands are joined by ";", the last one's status counts.
UntarIgnored ==
  /\ At("restore", "untar")
  /\ persist' = (IF archive[call.label] = None THEN Blank ELSE archive[call.label])
  /\ Go("umount")
  /\ UNCHANGED <<mounts, files>>

\* A failing tar ends the && chain: the partition stays mounted, one error.
Untar ==
  /\ At("restore", "untar")
  /\ IF archive[call.label] \in Data \union {Blank}
     THEN Go("umount") /\ persist' = archive[call.label]
     ELSE Return /\ persist' = (IF archive[call.label] = None THEN Blank ELSE Partial)
  /\ UNCHANGED <<mounts, files>>

\* No errors: the call returns 0.
UmountScratch ==
  /\ At("restore", "umount")
  /\ scratchMounted' = FALSE
  /\ Return
  /\ UNCHANGED <<persist, persistMounted, recoveryMounted, files>>

-----------------------------------------------------------------------------
\* bb_recovery_list_snapshots: mounts /recovery unless that fails.
ListSnapshots ==
  /\ call = Idle
  /\ recoveryMounted' = TRUE
  /\ UNCHANGED <<persist, persistMounted, scratchMounted, files, call>>

\* bb_snapshot_delete
SnapshotDelete(l) ==
  /\ call = Idle
  /\ recoveryMounted' = TRUE
  /\ dirs' = dirs \ {l}
  /\ manifest' = [manifest EXCEPT ![l] = None]
  /\ archive' = [archive EXCEPT ![l] = None]
  /\ unsynced' = unsynced \ {l}
  /\ UNCHANGED <<persist, persistMounted, scratchMounted, call>>

\* The system, or recovery-init, mounts /persist and services write to it.
MountPersist ==
  /\ persistMounted' = TRUE
  /\ UNCHANGED <<persist, recoveryMounted, scratchMounted, files, call>>

WritePersist ==
  /\ persistMounted
  /\ persist' \in Data
  /\ UNCHANGED <<mounts, files, call>>

Sync ==
  /\ unsynced' = {}
  /\ UNCHANGED <<persist, mounts, dirs, manifest, archive, call>>

PowerCut ==
  /\ call' = Idle
  /\ persistMounted' = FALSE /\ recoveryMounted' = FALSE /\ scratchMounted' = FALSE
  /\ \E m \in [Label -> {None, "empty", "line"}], a \in [Label -> {None, Partial}] :
       /\ manifest' = [l \in Label |-> IF l \in unsynced THEN m[l] ELSE manifest[l]]
       /\ archive'  = [l \in Label |->
            IF l \in unsynced /\ archive[l] # None THEN a[l] ELSE archive[l]]
  /\ unsynced' = {}
  /\ persist' \in (IF scratchMounted THEN {persist, Partial} ELSE {persist})
  /\ UNCHANGED dirs

Next ==
  \/ \E l \in Label : CreateMount(l) \/ RestoreFind(l) \/ SnapshotDelete(l)
  \/ CreateManifest \/ CreateArchive
  \/ RestoreNothing \/ Mkfs \/ MountScratch \/ Untar \/ UmountScratch
  \/ ListSnapshots \/ MountPersist \/ WritePersist \/ Sync \/ PowerCut

Spec == Init /\ [][Next]_vars

-----------------------------------------------------------------------------
\* A restore that returns 0 for a manifest with a line has put the archive's
\* files, all of them and nothing else, on the partition, and has unmounted it
\* (bb_recovery.c:112-127, 153-165), unless somebody mounts and writes
\* /persist meanwhile.
RestoredIsSnapshot ==
  [][ UmountScratch /\ ~persistMounted =>
        /\ archive[call.label] \in Data \union {Blank}
        /\ persist' = archive[call.label]
        /\ ~scratchMounted' ]_vars
=============================================================================
