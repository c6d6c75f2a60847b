----------------------------- MODULE BootUpdate -----------------------------
(***************************************************************************)
(* A/B booting: the boot script (deploy/boot/boot.cmd), the service that   *)
(* confirms a boot (bb-boot-ok.service), the installer of update packages  *)
(* (tools/bb-update) and the factory reset (libbb/bb_recovery.c).  They    *)
(* share the boot environment, which U-Boot and fw_setenv write one        *)
(* variable or one saveenv at a time, and the boot and root partitions.    *)
(* The power can fail between any two steps.                               *)
(*                                                                         *)
(* A file is reduced to what it does when it is booted: the "factory" and  *)
(* a "good" package's boot, a "bad" package's and a "torn" one's do not.   *)
(***************************************************************************)
EXTENDS Integers

CONSTANTS
  BootLimit,   \* boots a slot gets before the other is tried (3)
  Packages,    \* packages that may be installed: "good", "bad", "noBoot"
  Mounts,      \* what may be mounted on /boot: "running", "other", "none"
  EnvFails,    \* can fw_setenv fail
  RootParts,   \* root partitions that rootfs_part may name: "a", "b"
  MaxSaveFails,\* bound: saves of the boot script that fail
  MaxResets,   \* bound: resets of a system that is not hung
  MaxJobs,     \* bound: installations and factory resets
  MaxHarms     \* bound: interrupted writes and bad packages

ASSUME LimitAssumption  == BootLimit \in Nat \ {0}
ASSUME ChoiceAssumption ==
  /\ Packages \subseteq {"good", "bad", "noBoot"}
  /\ Mounts \subseteq {"running", "other", "none"}
  /\ EnvFails \in BOOLEAN
  /\ RootParts \subseteq {"a", "b"}
ASSUME BoundAssumption ==
  MaxSaveFails \in Nat /\ MaxResets \in Nat /\ MaxJobs \in Nat /\ MaxHarms \in Nat

VARIABLES
  slot, attempt, ok,   \* boot_slot, boot_attempt, boot_ok in the saved environment
  rootPart,  \* rootfs_part, the root partition that every boot mounts
  power,     \* "uboot", "load", "hung" or "up"
  running,   \* the slot whose partition was booted last
  kernels,             \* per slot: the kernels in its boot partition, by name
  dtb,                 \* per slot: the device tree in its boot partition
  rootfs,              \* the two root partitions
  mount,     \* which slot's boot partition /boot is, as fstab has it
  confirm,   \* bb-boot-ok: its next command
  job, target, pkg,    \* the installer or the factory reset: next step, locals
  tries,     \* history: boots of slot since it was selected or confirmed
  inherited, \* history: the slot was written and its counter was not
  switched,  \* history: the slot was written since the last boot
  unsaved,   \* history: the boot script could not save what it chose
  saveFails, \* history: saves of the boot script that failed so far
  harms,     \* history: interrupted writes and bad packages so far
  resets, jobs

envVars  == <<slot, attempt, ok>>
diskVars == <<kernels, dtb, rootfs, mount, rootPart>>
saveVars == <<unsaved, saveFails>>
jobVars  == <<job, target, pkg, jobs>>
history  == <<tries, inherited, switched, harms>>
vars == <<envVars, power, running, diskVars, confirm, jobVars, history, saveVars, resets>>

Slots == {"a", "b"}
Other(s) == IF s = "a" THEN "b" ELSE "a"

\* Kernels in a boot partition.  The boot script loads "Image"; the installer
\* writes Image-<target>.
Names == {"Image", "Image-a", "Image-b"}
Loaded == "Image"
Written(s) == IF s = "a" THEN "Image-a" ELSE "Image-b"

Boots(file) == file \in {"factory", "good"}

\* What a boot of slot s loads from its boot partition, and the root partition
\* it mounts, which is the same for both slots: rootfs_part does not depend on
\* the slot.
BootFiles(s) == Boots(kernels[s][Loaded]) /\ Boots(dtb[s])
Works(s) == BootFiles(s) /\ rootfs[rootPart] = "factory"

\* The steps during which a file or partition is half written.
Writing == job \in {"dtbWrite", "rootWriteA", "rootWriteB"}

-----------------------------------------------------------------------------
\* The default environment (uboot-env.txt) or one without a slot, on a device
\* whose slots both work.
Init ==
  /\ slot \in Slots \cup {"unset"} /\ attempt = BootLimit /\ ok = 0
  /\ power = "uboot" /\ running = "a"
  /\ kernels = [s \in Slots |-> [n \in Names |-> IF n = Loaded THEN "factory" ELSE "none"]]
  /\ dtb = [s \in Slots |-> "factory"]
  /\ rootfs = [s \in Slots |-> "factory"]
  /\ mount \in Mounts /\ rootPart \in RootParts
  /\ confirm = "none" /\ job = "idle" /\ target = "a" /\ pkg = "noBoot"
  /\ tries = 0 /\ inherited = FALSE /\ switched = FALSE /\ harms = 0
  /\ unsaved = FALSE /\ saveFails = 0 /\ resets = 0 /\ jobs = 0

-----------------------------------------------------------------------------
(* boot.cmd *)

\* Anything but "a" and "b" is slot a.
Selected == IF slot \in Slots THEN slot ELSE "a"

\* saveenv with slot s and counter n: it may fail, and the script goes on with
\* what it has in memory.
Saves(s, n) ==
  \/ slot' = s /\ attempt' = n /\ unsaved' = FALSE /\ UNCHANGED saveFails
  \/ /\ saveFails < MaxSaveFails /\ saveFails' = saveFails + 1
     /\ unsaved' = TRUE /\ UNCHANGED <<slot, attempt>>

\* Variant: saves before it lowers the counter.
TrySavedFirst ==
  /\ power = "uboot" /\ attempt > 0
  /\ Saves(Selected, attempt)
  /\ power' = "load" /\ running' = Selected
  /\ tries' = BootLimit /\ switched' = FALSE
  /\ UNCHANGED <<ok, diskVars, confirm, jobVars, inherited, harms, resets>>

\* Tries left: lower the counter, save, and boot the selected slot.
Try ==
  /\ power = "uboot" /\ attempt > 0
  /\ Saves(Selected, attempt - 1)
  /\ power' = "load" /\ running' = Selected
  /\ tries' = tries + 1 /\ switched' = FALSE
  /\ UNCHANGED <<ok, diskVars, confirm, jobVars, inherited, harms, resets>>

\* Variant: saves before it changes the slot.
FallbackSavedFirst ==
  /\ power = "uboot" /\ attempt <= 0
  /\ Saves(Selected, BootLimit)
  /\ power' = "load" /\ running' = Other(Selected)
  /\ IF unsaved' THEN UNCHANGED <<tries, inherited>> ELSE tries' = 1 /\ inherited' = FALSE
  /\ switched' = FALSE
  /\ UNCHANGED <<ok, diskVars, confirm, jobVars, harms, resets>>

\* Variant: the other slot starts with a counter of one.
FallbackOnce ==
  /\ power = "uboot" /\ attempt <= 0
  /\ Saves(Other(Selected), 1)
  /\ power' = "load" /\ running' = Other(Selected)
  /\ IF unsaved' THEN UNCHANGED <<tries, inherited>> ELSE tries' = 1 /\ inherited' = FALSE
  /\ switched' = FALSE
  /\ UNCHANGED <<ok, diskVars, confirm, jobVars, harms, resets>>

\* None left: the other slot, with a full counter that this boot does not lower.
\* If that is not saved the environment still names the slot given up.
Fallback ==
  /\ power = "uboot" /\ attempt <= 0
  /\ Saves(Other(Selected), BootLimit)
  /\ power' = "load" /\ running' = Other(Selected)
  /\ IF unsaved' THEN UNCHANGED <<tries, inherited>> ELSE tries' = 1 /\ inherited' = FALSE
  /\ switched' = FALSE
  /\ UNCHANGED <<ok, diskVars, confirm, jobVars, harms, resets>>

\* Loads Image and the device tree from the slot's boot partition and starts them
\* on the root partition that rootfs_part names.
Boot ==
  /\ power = "load"
  /\ power' = IF Works(running) THEN "up" ELSE "hung"
  /\ confirm' = IF Works(running) THEN "ok" ELSE "none"
  /\ UNCHANGED <<envVars, running, diskVars, jobVars, history, saveVars, resets>>

\* The watchdog or a hand on the power switch ends a hang.
HangEnds ==
  /\ power = "hung" /\ power' = "uboot"
  /\ UNCHANGED <<envVars, running, diskVars, confirm, jobVars, history, saveVars, resets>>

\* A reboot, a power cut or a crash at any other time.  What was half written
\* stays so, and services and tools are gone, their locals with them.
Reset ==
  /\ power \in {"load", "up"} /\ resets < MaxResets
  /\ Writing => harms < MaxHarms
  /\ harms' = IF Writing THEN harms + 1 ELSE harms
  /\ resets' = resets + 1
  /\ power' = "uboot" /\ confirm' = "none"
  /\ job' = "idle" /\ target' = "a" /\ pkg' = "noBoot"
  /\ UNCHANGED <<envVars, running, diskVars, jobs, tries, inherited, switched, saveVars>>

-----------------------------------------------------------------------------
(* fw_setenv *)

\* A write that fails is reported to nobody but the shell.
Succeeds == IF EnvFails THEN BOOLEAN ELSE {TRUE}

\* Selects s; until its counter is written it has that of the slot before.
WriteSlot(s) ==
  /\ slot' = s /\ tries' = 0 /\ inherited' = TRUE /\ switched' = TRUE

\* A full counter.
WriteAttempt ==
  /\ attempt' = BootLimit /\ tries' = 0 /\ inherited' = FALSE

-----------------------------------------------------------------------------
(* bb-boot-ok.service: fw_setenv boot_ok 1 && fw_setenv boot_attempt 3 *)

ConfirmOk ==
  /\ power = "up" /\ confirm = "ok"
  /\ \E succeeds \in Succeeds :
       /\ ok' = IF succeeds THEN 1 ELSE ok
       /\ confirm' = IF succeeds THEN "attempt" ELSE "none"
  /\ UNCHANGED <<slot, attempt, power, running, diskVars, jobVars, history, saveVars, resets>>

ConfirmAttempt ==
  /\ power = "up" /\ confirm = "attempt"
  /\ confirm' = "none"
  /\ \E succeeds \in Succeeds :
       IF succeeds THEN WriteAttempt ELSE UNCHANGED <<attempt, tries, inherited>>
  /\ UNCHANGED <<slot, ok, power, running, diskVars, jobVars, switched, harms, saveVars, resets>>

-----------------------------------------------------------------------------
(* bb_update_install *)

\* Reads and unpacks the package and chooses the slot that is not selected; a
\* selection that cannot be read is taken for slot a.  A package that cannot be
\* read is refused with nothing changed.
InstallStart ==
  /\ power = "up" /\ job = "idle" /\ jobs < MaxJobs
  /\ pkg' \in Packages
  /\ \E succeeds \in Succeeds : target' = IF succeeds THEN Other(Selected) ELSE Other("a")
  /\ jobs' = jobs + 1
  /\ job' = "copy"
  /\ UNCHANGED <<envVars, power, running, diskVars, confirm, history, saveVars, resets>>

\* The slot whose boot partition is mounted on /boot; "none" is a directory.
Mounted == CASE mount = "running" -> running
             [] mount = "other"   -> Other(running)
             [] mount = "none"    -> "none"

\* The kernel is copied to /boot/Image-<target>, a name that the boot script
\* never loads, and the device trees over those in /boot.  Without boot files
\* (or with files below a directory, as bb_update_create packs them) neither
\* copy finds anything.
InstallCopy ==
  /\ power = "up" /\ job = "copy"
  /\ IF pkg = "noBoot" \/ Mounted = "none"
       THEN job' = "setSlot" /\ UNCHANGED <<kernels, dtb, harms>>
       ELSE /\ harms < MaxHarms \/ pkg = "good"
            /\ harms' = IF pkg = "bad" THEN harms + 1 ELSE harms
            /\ kernels' = [kernels EXCEPT ![Mounted][Written(target)] = pkg]
            /\ dtb' = [dtb EXCEPT ![Mounted] = "torn"]
            /\ job' = "dtbWrite"
  /\ UNCHANGED <<envVars, power, running, rootfs, mount, rootPart, confirm, target, pkg, jobs,
                 tries, inherited, switched, saveVars, resets>>

\* Variant: both slots get the device trees.
InstallCopiedToBoth ==
  /\ power = "up" /\ job = "dtbWrite"
  /\ dtb' = [s \in Slots |-> pkg]
  /\ job' = "setSlot"
  /\ UNCHANGED <<envVars, power, running, kernels, rootfs, mount, rootPart, confirm, target, pkg,
                 jobs, history, saveVars, resets>>

\* The copy ends, or stops short (the partition is full); nobody looks.
InstallCopied ==
  /\ power = "up" /\ job = "dtbWrite"
  /\ \/ dtb' = [dtb EXCEPT ![Mounted] = pkg] /\ UNCHANGED harms
     \/ harms < MaxHarms /\ harms' = harms + 1 /\ UNCHANGED dtb
  /\ job' = "setSlot"
  /\ UNCHANGED <<envVars, power, running, kernels, rootfs, mount, rootPart, confirm, target, pkg,
                 jobs, tries, inherited, switched, saveVars, resets>>

\* fw_setenv boot_slot, boot_attempt, boot_ok: shared with the factory reset.
SetSlot ==
  /\ power = "up" /\ job = "setSlot"
  /\ job' = "setAttempt"
  /\ \E succeeds \in Succeeds :
       IF succeeds THEN WriteSlot(target) ELSE UNCHANGED <<slot, tries, inherited, switched>>
  /\ UNCHANGED <<attempt, ok, power, running, diskVars, confirm, target, pkg, jobs,
                 harms, saveVars, resets>>

SetAttempt ==
  /\ power = "up" /\ job = "setAttempt"
  /\ job' = "setOk"
  /\ \E succeeds \in Succeeds :
       IF succeeds THEN WriteAttempt ELSE UNCHANGED <<attempt, tries, inherited>>
  /\ UNCHANGED <<slot, ok, power, running, diskVars, confirm, target, pkg, jobs,
                 switched, harms, saveVars, resets>>

SetOk ==
  /\ power = "up" /\ job = "setOk"
  /\ job' = "done"
  /\ \E succeeds \in Succeeds : ok' = IF succeeds THEN 0 ELSE ok
  /\ UNCHANGED <<slot, attempt, power, running, diskVars, confirm, target, pkg, jobs,
                 history, saveVars, resets>>

JobEnds ==
  /\ power = "up" /\ job = "done"
  /\ job' = "idle" /\ target' = "a" /\ pkg' = "noBoot"
  /\ UNCHANGED <<envVars, power, running, diskVars, confirm, jobs,
                 history, saveVars, resets>>

-----------------------------------------------------------------------------
(* bb_recovery_factory_reset *)

\* dd of a factory image: nothing happens if the image is not there, otherwise
\* the partition is torn until dd is through, and for good if dd stops short.
Reimage(at, s, writing, next) ==
  \/ /\ job = at
     /\ \/ job' = next /\ UNCHANGED rootfs
        \/ job' = writing /\ rootfs' = [rootfs EXCEPT ![s] = "torn"]
     /\ UNCHANGED harms
  \/ /\ job = writing
     /\ job' = next
     /\ \/ rootfs' = [rootfs EXCEPT ![s] = "factory"] /\ UNCHANGED harms
        \/ harms < MaxHarms /\ harms' = harms + 1 /\ UNCHANGED rootfs

ResetStart ==
  /\ power = "up" /\ job = "idle" /\ jobs < MaxJobs
  /\ jobs' = jobs + 1
  /\ job' = "rootA" /\ target' = "a" /\ pkg' = "noBoot"
  /\ UNCHANGED <<envVars, power, running, diskVars, confirm, history, saveVars, resets>>

ResetRoots ==
  /\ power = "up"
  /\ \/ Reimage("rootA", "a", "rootWriteA", "rootB")
     \/ Reimage("rootB", "b", "rootWriteB", "setSlot")
  /\ UNCHANGED <<envVars, power, running, kernels, dtb, mount, rootPart, confirm, target, pkg, jobs,
                 tries, inherited, switched, saveVars, resets>>

-----------------------------------------------------------------------------
Loader    == Try \/ Fallback \/ Boot
Confirm   == ConfirmOk \/ ConfirmAttempt
Install   == InstallStart \/ InstallCopy \/ InstallCopied
FactoryReset == ResetStart \/ ResetRoots
Job       == Install \/ FactoryReset \/ SetSlot \/ SetAttempt \/ SetOk \/ JobEnds

Next == Loader \/ HangEnds \/ Reset \/ Confirm \/ Job

Spec == Init /\ [][Next]_vars

\* The boot script runs on, and a device that hangs is reset sooner or later:
\* without that no boot counter can help.
FairSpec == Spec /\ WF_vars(Loader) /\ WF_vars(HangEnds)

-----------------------------------------------------------------------------
(* Properties *)

EnvTypeOK ==
  /\ slot \in Slots \cup {"unset"} /\ attempt \in 0 .. BootLimit /\ ok \in {0, 1}
  /\ power \in {"uboot", "load", "hung", "up"} /\ running \in Slots /\ rootPart \in Slots
DiskTypeOK ==
  /\ kernels \in [Slots -> [Names -> {"factory", "good", "bad", "none"}]]
  /\ dtb \in [Slots -> {"factory", "good", "bad", "torn"}]
  /\ rootfs \in [Slots -> {"factory", "torn"}]
  /\ mount \in {"running", "other", "none"}
JobTypeOK ==
  /\ confirm \in {"none", "ok", "attempt"}
  /\ job \in {"idle", "copy", "dtbWrite", "rootA", "rootWriteA", "rootB", "rootWriteB",
              "setSlot", "setAttempt", "setOk", "done"}
  /\ target \in Slots /\ pkg \in {"good", "bad", "noBoot"}
CountTypeOK ==
  /\ saveFails \in 0 .. MaxSaveFails /\ tries \in 0 .. BootLimit + 1 + saveFails
  /\ harms \in 0 .. MaxHarms /\ resets \in 0 .. MaxResets /\ jobs \in 0 .. MaxJobs
FlagTypeOK == inherited \in BOOLEAN /\ switched \in BOOLEAN /\ unsaved \in BOOLEAN

TypeOK == EnvTypeOK /\ DiskTypeOK /\ JobTypeOK /\ CountTypeOK /\ FlagTypeOK

\* The boot script gives a slot up only after BootLimit boots since the slot was
\* selected or confirmed, whatever resets, late confirmations and failed or
\* interrupted writes of the environment, the script's own among them, came in
\* between.  The one exception is a slot that was selected by a writer that did
\* not get to write its counter.
TriedBeforeAbandoned ==
  [][(power = "uboot" /\ power' = "load" /\ running' # Selected)
       => tries >= BootLimit \/ inherited]_vars

\* Unless the slot was rewritten since the boot, or the boot script could not save
\* its choice, the environment names the slot that runs, after any number of
\* fallbacks: the installer's "opposite of current" is then the slot that does
\* not run.
EnvNamesRunningSlot ==
  (power \in {"load", "hung", "up"} /\ ~switched /\ ~unsaved) => slot = running

\* It takes two harms (an interrupted write of a boot file or root partition, or
\* a bad package) to leave a device without a slot whose boot files are whole:
\* the installer never has the boot partitions of both slots open at once.  (Of
\* the root partition it cannot be said: one harm to it takes both slots.)
OneHarmLeavesASlot ==
  (harms <= 1 /\ ~Writing) => \E s \in Slots : BootFiles(s)

\* As long as some slot works, the device comes up, whatever the environment
\* says when it starts, if saves of the environment do not fail for ever.
ComesUp ==
  (\E s \in Slots : Works(s)) ~> (power = "up" \/ ~\E s \in Slots : Works(s))

-----------------------------------------------------------------------------
(* Statements of the header and the docs that the code does not live up to.  *)

\* "Install a .bbu package to the inactive slot" (tools/bb-update/bb_update.h:24):
\* when an installation is over, the slot it selected boots the new kernel.
InstallReachesSlot ==
  (job = "done" /\ pkg = "good") => kernels[target][Loaded] = pkg
=============================================================================
