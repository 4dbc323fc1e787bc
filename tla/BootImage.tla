----------------------------- MODULE BootImage -----------------------------
(***************************************************************************)
(* From package sources to the bootable image: build_rootfs_pipeline.sh    *)
(* and what it runs after the packages, rootfs_safe_clean.sh,              *)
(* mount_rootfs_zip.sh and lib/rpi5_image.sh, next to deploy_kernel.sh,    *)
(* which an operator may run in another terminal.                          *)
(*                                                                         *)
(* Contents are versions.  A step of a script is a command or a group of   *)
(* commands that leave nothing behind in between; each may fail, the       *)
(* operator may answer prompts either way and interrupt a script at any    *)
(* step.  The pipeline runs with "set -e"; lib/rpi5_image.sh started by    *)
(* itself does not, and goes on after a failed command.                    *)
(***************************************************************************)
EXTENDS Integers, Sequences, FiniteSets

CONSTANTS
    MaxVersion,     \* bound on the versions of the sources
    MaxInterrupts,  \* bound on the scripts interrupted
    MaxFaults,      \* bound on the commands that fail
    MaxRefusals,    \* bound on the prompts answered with no
    Standalone      \* lib/rpi5_image.sh is also started by itself

ASSUME BootImageAssumption ==
    /\ {MaxVersion, MaxInterrupts, MaxFaults, MaxRefusals} \subseteq Nat
    /\ Standalone \in BOOLEAN

None == -1
Torn == -2
Versions == 0 .. MaxVersion
Contents == Versions \cup {None, Torn}
Parts == {"archive", "kernel", "overlays"}
Devices == 0 .. 2 * (MaxInterrupts + MaxFaults + MaxRefusals)

VARIABLES
    pc, mode,       \* the step of the running script, and how it was started
    sdk,            \* environment-setup finds an SDK
    src, out,       \* version of the sources and of the packages' builds
    rootfs, new,    \* rpi_rootfs, and rootfs.cpio.gz while it is asked about
    boot,           \* boot[p]: what rpi_bootfs holds
    dpc,            \* the step of deploy_kernel.sh
    image,          \* image[p]: what this run copied to the boot partition
    disk,           \* what parted and mkfs.vfat made of the image
    loops, dev,     \* loop devices attached, and the one of this run
    mounts,         \* the devices mounted on the mount point, topmost first
    stray,          \* how scripts were started that copied elsewhere
    disturbed,      \* rpi_bootfs was changed while the image was made
    interrupts, faults, refusals

build == <<sdk, src, out, rootfs, new>>
card == <<image, disk, loops, dev, mounts, stray>>
bounds == <<interrupts, faults, refusals>>
vars == <<pc, mode, build, boot, dpc, card, disturbed, bounds>>

Empty == [p \in Parts |-> None]

Init ==
    /\ pc = "idle" /\ mode = "none"
    /\ sdk = FALSE /\ src = 0 /\ out = None /\ rootfs = None /\ new = None
    /\ boot = [p \in Parts |-> IF p = "archive" THEN None ELSE 0]
    /\ dpc = "idle"
    /\ image = Empty /\ disk = "blank"
    /\ loops = {} /\ dev = None /\ mounts = <<>> /\ stray = {} /\ disturbed = FALSE
    /\ interrupts = 0 /\ faults = 0 /\ refusals = 0

At(step) == pc = step
Goto(step) == pc' = step /\ mode' = IF step = "idle" THEN "none" ELSE mode

(* A prompt "[y/N]".                                                       *)
Yes == UNCHANGED refusals
No == refusals < MaxRefusals /\ refusals' = refusals + 1

(* A command fails.                                                        *)
Fault == faults < MaxFaults /\ faults' = faults + 1

Interrupted == interrupts < MaxInterrupts /\ interrupts' = interrupts + 1

(* Fault: without "set -e" in the pipeline either.                         *)
GoOn(step) == Goto(step)

(* After a failed command: "set -e" ends the pipeline, the script started  *)
(* by itself goes on with the next step.                                   *)
ErrExit(step) == IF mode = "image" THEN Goto(step) ELSE Goto("idle")

-----------------------------------------------------------------------------
(* build_rootfs_pipeline.sh                                                *)

Start(m) ==
    /\ pc \in {"idle", "done"}
    /\ m = "image" => Standalone
    /\ mode' = m
    /\ pc' = CASE m \in {"pipeline", "bootable"} -> "sdk" [] m = "archive" -> "archive"
               [] m = "image" -> "create"
    /\ disturbed' = FALSE
    /\ image' = Empty /\ disk' = "blank" /\ dev' = None
    /\ UNCHANGED <<build, boot, dpc, loops, mounts, stray, bounds>>

(* environment-setup is sourced before any build.sh has prepared an SDK.   *)
SourceSdk ==
    /\ At("sdk")
    /\ Goto(IF sdk THEN "build" ELSE "idle")
    /\ UNCHANGED <<build, boot, dpc, card, disturbed, bounds>>

(* The three build.sh: prepare_sdk asks before it overwrites an SDK whose  *)
(* tarball has changed, and a no ends build.sh with status 0 before        *)
(* anything is built.  A failing tar, after the rm -rf, leaves no SDK that *)
(* can be used.  Torn stands for builds of different versions too.         *)
BuildPackages ==
    /\ At("build")
    /\ \/ Yes /\ UNCHANGED <<sdk, faults>> /\ out' = src /\ Goto("clean")
       \/ No /\ UNCHANGED <<sdk, faults>> /\ out' \in {out, Torn} /\ Goto("clean")
       \/ /\ Fault /\ UNCHANGED refusals
          /\ sdk' \in {sdk, FALSE} /\ out' \in {out, Torn} /\ Goto("idle")
    /\ UNCHANGED <<src, rootfs, new, boot, dpc, card, disturbed, interrupts>>

(* rootfs_safe_clean.sh                                                    *)
SafeClean ==
    /\ At("clean")
    /\ \/ Yes /\ rootfs' = None
       \/ No /\ UNCHANGED rootfs
    /\ Goto("rootfs")
    /\ UNCHANGED <<sdk, src, out, new, boot, dpc, card, disturbed, interrupts, faults>>

(* rootfs-builder.sh and resolve-runtime-deps.sh: when they succeed the    *)
(* rootfs is that of the packages; a failing one leaves a part of it.      *)
PopulateRootfs ==
    /\ At("rootfs")
    /\ \/ rootfs' = out /\ UNCHANGED faults /\ Goto("archive")
       \/ rootfs' = Torn /\ Fault /\ Goto("idle")
    /\ UNCHANGED <<sdk, src, out, new, boot, dpc, card, disturbed, interrupts, refusals>>

-----------------------------------------------------------------------------
(* mount_rootfs_zip.sh                                                     *)

AfterArchive == IF mode = "bootable" THEN "create" ELSE "done"

(* find | cpio | gzip: only the status of gzip counts.                     *)
PackArchive ==
    /\ At("archive")
    /\ \/ new' = rootfs /\ UNCHANGED faults
       \/ new' = Torn /\ Fault
    /\ Goto("install")
    /\ UNCHANGED <<sdk, src, out, rootfs, boot, dpc, card, disturbed, interrupts, refusals>>

(* Fault: an archive that is there counts as unchanged.                    *)
KeepExisting ==
    /\ At("install")
    /\ \/ /\ boot["archive"] # None
          /\ Yes \/ No
          /\ Goto(AfterArchive) /\ new' = None /\ UNCHANGED boot
       \/ /\ Yes /\ Goto("copy_archive") /\ UNCHANGED new
          /\ boot' = [boot EXCEPT !["archive"] = Torn]
       \/ No /\ Goto(AfterArchive) /\ new' = None /\ UNCHANGED boot
    /\ UNCHANGED <<sdk, src, out, rootfs, dpc, card, disturbed, interrupts, faults>>

(* The prompts: install the first archive, delete one with the same hash,  *)
(* replace the old one.  The archive has the times and inodes of the files *)
(* in it, so the same root filesystem may give another hash.               *)
InstallArchive ==
    /\ At("install")
    /\ \/ /\ boot["archive"] = new
          /\ Yes \/ No
          /\ Goto(AfterArchive) /\ new' = None /\ UNCHANGED boot
       \/ /\ Yes /\ Goto("copy_archive") /\ UNCHANGED new
          /\ boot' = [boot EXCEPT !["archive"] = Torn]
       \/ No /\ Goto(AfterArchive) /\ new' = None /\ UNCHANGED boot
    /\ UNCHANGED <<sdk, src, out, rootfs, dpc, card, disturbed, interrupts, faults>>

(* cp over the archive of rpi_bootfs, not atomic.                          *)
CopyArchive ==
    /\ At("copy_archive")
    /\ \/ boot' = [boot EXCEPT !["archive"] = new] /\ UNCHANGED faults /\ Goto(AfterArchive)
       \/ Fault /\ Goto("idle") /\ UNCHANGED boot
    /\ new' = None
    /\ UNCHANGED <<sdk, src, out, rootfs, dpc, card, disturbed, interrupts, refusals>>

-----------------------------------------------------------------------------
(* lib/rpi5_image.sh                                                       *)

FirstFree == CHOOSE d \in Devices : d \notin loops /\ \A e \in Devices : e \notin loops => d <= e

(* rm of the old image, truncate and parted.                               *)
CreateImage ==
    /\ At("create")
    /\ disturbed' = (dpc # "idle")
    /\ \/ disk' = "partitioned" /\ Goto("attach") /\ UNCHANGED faults
       \/ disk' \in {"blank", "partitioned"} /\ Fault /\ ErrExit("attach")
    /\ UNCHANGED <<build, boot, dpc, image, loops, dev, mounts, stray, interrupts, refusals>>

(* Fault: without the check that losetup gave a device.                    *)
AttachUnchecked ==
    /\ At("attach")
    /\ \/ /\ dev' = FirstFree /\ loops' = loops \cup {FirstFree}
          /\ UNCHANGED faults
       \/ Fault /\ UNCHANGED <<dev, loops>>
    /\ Goto("partition")
    /\ UNCHANGED <<build, boot, dpc, image, disk, mounts, stray, disturbed, interrupts,
                   refusals>>

(* Fault: always the first loop device, which an earlier run may have left *)
(* attached.                                                               *)
AttachFirst ==
    /\ At("attach")
    /\ \/ /\ loops = {}
          /\ dev' = 0 /\ loops' = {0}
          /\ Goto("partition") /\ UNCHANGED faults
       \/ /\ IF loops # {} THEN UNCHANGED faults ELSE Fault
          /\ Goto("idle") /\ UNCHANGED <<dev, loops>>
    /\ UNCHANGED <<build, boot, dpc, image, disk, mounts, stray, disturbed, interrupts,
                   refusals>>

(* losetup --find                                                          *)
AttachLoop ==
    /\ At("attach")
    /\ \/ /\ loops # Devices
          /\ dev' = FirstFree /\ loops' = loops \cup {FirstFree}
          /\ Goto("partition") /\ UNCHANGED faults
       \/ /\ IF loops = Devices THEN UNCHANGED faults ELSE Fault
          /\ Goto("idle") /\ UNCHANGED <<dev, loops>>
    /\ UNCHANGED <<build, boot, dpc, image, disk, mounts, stray, disturbed, interrupts,
                   refusals>>

(* Twenty looks for the partition device, which may be late and which a    *)
(* blank image never gets; then losetup -d and return 1.                   *)
NoPartition == IF disk = "blank" THEN UNCHANGED faults ELSE Fault

WaitForPartition ==
    /\ At("partition")
    /\ \/ disk = "partitioned" /\ Goto("format") /\ UNCHANGED <<loops, faults>>
       \/ NoPartition /\ Goto("idle") /\ loops' = loops \ {dev}
    /\ UNCHANGED <<build, boot, dpc, image, disk, dev, mounts, stray, disturbed,
                   interrupts, refusals>>

Format ==
    /\ At("format")
    /\ \/ disk' = "fat" /\ UNCHANGED faults /\ Goto("mount")
       \/ Fault /\ ErrExit("mount") /\ UNCHANGED disk
    /\ UNCHANGED <<build, boot, dpc, image, loops, dev, mounts, stray, disturbed, interrupts,
                   refusals>>

(* mount stacks on what an earlier run left there; it fails on a partition *)
(* without a filesystem.                                                   *)
Mount ==
    /\ At("mount")
    /\ \/ /\ disk = "fat" /\ mounts' = <<dev>> \o mounts
          /\ Goto("copy") /\ UNCHANGED faults
       \/ /\ IF disk = "fat" THEN Fault ELSE UNCHANGED faults
          /\ ErrExit("copy") /\ UNCHANGED mounts
    /\ UNCHANGED <<build, boot, dpc, image, disk, loops, dev, stray, disturbed, interrupts,
                   refusals>>

BootFiles == Parts \ {"overlays"}
OnImage == mounts # <<>> /\ Head(mounts) = dev

(* The boot files, then the overlays; a failing "find -exec cp" is not     *)
(* noticed.                                                                *)
CopyFiles ==
    /\ At("copy")
    /\ \E copied \in SUBSET BootFiles :
         /\ IF OnImage
              THEN /\ image' = [p \in Parts |-> IF p \in copied THEN boot[p] ELSE image[p]]
                   /\ UNCHANGED stray
              ELSE stray' = stray \cup {mode} /\ UNCHANGED image
         /\ \/ copied = BootFiles /\ Goto("overlays") /\ UNCHANGED faults
            \/ copied # BootFiles /\ Fault /\ ErrExit("overlays")
    /\ UNCHANGED <<build, boot, dpc, disk, loops, dev, mounts, disturbed, interrupts, refusals>>

CopyOverlays ==
    /\ At("overlays")
    /\ \/ /\ OnImage /\ image' = [image EXCEPT !["overlays"] = boot["overlays"]]
          /\ UNCHANGED <<stray, faults>>
       \/ ~OnImage /\ stray' = stray \cup {mode} /\ UNCHANGED <<image, faults>>
       \/ Fault /\ UNCHANGED <<image, stray>>
    /\ Goto("unmount")
    /\ UNCHANGED <<build, boot, dpc, disk, loops, dev, mounts, disturbed, interrupts, refusals>>

OwnMounts(stack) == Cardinality({ i \in DOMAIN stack : stack[i] = dev })

(* Fault: umount once for each mount of the partition, and no more.        *)
UnmountOwn(stack) == SubSeq(stack, OwnMounts(stack) + 1, Len(stack))

(* unmount_partition_everywhere: umount of the mount point, which takes    *)
(* the topmost away, once for each mount of the partition that findmnt     *)
(* lists, and once more when something is still mounted there.             *)
Unmounted(stack) ==
    LET rest == SubSeq(stack, OwnMounts(stack) + 1, Len(stack))
    IN  IF rest = <<>> THEN rest ELSE Tail(rest)

Unmount ==
    /\ At("unmount")
    /\ mounts' = Unmounted(mounts)
    /\ IF mounts' = <<>> THEN Goto("detach") ELSE ErrExit("detach")
    /\ UNCHANGED <<build, boot, dpc, image, disk, loops, dev, stray, disturbed, bounds>>

(* "Unmount and detach now?"                                               *)
Detach ==
    /\ At("detach")
    /\ \/ /\ Yes /\ loops' = loops \ {dev}
          /\ mounts' = IF mounts = <<>> THEN mounts ELSE Tail(mounts)
       \/ No /\ UNCHANGED <<loops, mounts>>
    /\ Goto("done")
    /\ UNCHANGED <<build, boot, dpc, image, disk, dev, stray, disturbed, interrupts, faults>>

-----------------------------------------------------------------------------
(* deploy_kernel.sh, in another terminal: the kernel with its device tree, *)
(* then the overlays.                                                      *)
DeployOrder == [idle |-> "kernel", kernel |-> "overlays", overlays |-> "idle"]

DeployKernel ==
    /\ dpc' = DeployOrder[dpc]
    /\ boot' = IF dpc = "idle" THEN boot ELSE [boot EXCEPT ![dpc] = src]
    /\ disturbed' = (pc # "idle")
    /\ UNCHANGED <<pc, mode, build, card, bounds>>

(* Interrupted, or a cp that fails under "set -e".                         *)
InterruptDeployment ==
    /\ dpc # "idle" /\ Interrupted
    /\ dpc' = "idle"
    /\ boot' \in {boot, [boot EXCEPT ![dpc] = Torn]}
    /\ UNCHANGED <<pc, mode, build, card, disturbed, faults, refusals>>

(* What people do between and next to the scripts.                         *)
ChangeSources ==
    /\ src < MaxVersion /\ src' = src + 1
    /\ UNCHANGED <<pc, mode, sdk, out, rootfs, new, boot, dpc, card, disturbed, bounds>>

(* Without an SDK the operator starts a build.sh by itself, which prepares *)
(* one; it may be interrupted or fail, or the operator does not let it     *)
(* replace what is left of the old SDK.  The tarball is not one whose half *)
(* removed SDK still has its signature (SdkManager).                       *)
BuildAlone ==
    /\ pc \in {"idle", "done"} /\ ~sdk
    /\ \/ sdk' = TRUE /\ out' = src /\ UNCHANGED bounds
       \/ No /\ UNCHANGED <<sdk, out, interrupts, faults>>
       \/ Fault /\ out' \in {out, Torn} /\ UNCHANGED <<sdk, interrupts, refusals>>
       \/ Interrupted /\ out' \in {out, Torn} /\ UNCHANGED <<sdk, faults, refusals>>
    /\ UNCHANGED <<pc, mode, src, rootfs, new, boot, dpc, card, disturbed>>

(* An interrupted prepare_sdk may leave no SDK that can be used.           *)
Interrupt ==
    /\ pc \notin {"idle", "done"} /\ Interrupted
    /\ Goto("idle")
    /\ out' \in IF pc = "build" THEN {out, Torn} ELSE {out}
    /\ sdk' \in IF pc = "build" THEN {sdk, FALSE} ELSE {sdk}
    /\ rootfs' \in IF pc \in {"clean", "rootfs"} THEN {rootfs, Torn} ELSE {rootfs}
    /\ new' = None
    /\ UNCHANGED <<src, boot, dpc, card, disturbed, faults, refusals>>

-----------------------------------------------------------------------------
Step ==
    \/ SourceSdk \/ BuildPackages \/ SafeClean \/ PopulateRootfs
    \/ PackArchive \/ InstallArchive \/ CopyArchive
    \/ CreateImage \/ AttachLoop \/ WaitForPartition \/ Format \/ Mount
    \/ CopyFiles \/ CopyOverlays \/ Unmount \/ Detach

Next ==
    \/ \E m \in {"pipeline", "bootable", "archive", "image"} : Start(m)
    \/ Step \/ Interrupt \/ DeployKernel \/ InterruptDeployment \/ ChangeSources \/ BuildAlone

(* A started script goes on, and the operator builds an SDK whenever there *)
(* is none and starts the pipeline for an image again and again.           *)
Spec ==
    /\ Init /\ [][Next]_vars
    /\ WF_vars(Step) /\ SF_vars(BuildAlone) /\ SF_vars(Start("bootable"))

-----------------------------------------------------------------------------
TypeOK ==
    /\ src \in Versions /\ {out, rootfs, new} \subseteq Contents
    /\ boot \in [Parts -> Contents] /\ image \in [Parts -> Contents]
    /\ loops \subseteq Devices /\ dev \in Devices \cup {None}
    /\ mounts \in Seq(Devices)
    /\ {disturbed, sdk} \subseteq BOOLEAN /\ stray \subseteq {"bootable", "image"}
    /\ disk \in {"blank", "partitioned", "fat"}
    /\ dpc \in {"idle", "kernel", "overlays"}

(* An image the pipeline reports as created has a filesystem and holds     *)
(* what rpi_bootfs holds, whatever earlier runs left mounted or attached,  *)
(* unless rpi_bootfs was changed meanwhile (the overlays are left out:     *)
(* their copy may fail unnoticed); and the pipeline copies to its own      *)
(* image only, never into the directory under the mount point or onto the  *)
(* image of an interrupted run.                                            *)
ImageFaithful ==
    /\ pc = "done" /\ mode = "bootable" /\ ~disturbed =>
         disk = "fat" /\ \A p \in BootFiles : image[p] = boot[p]
    /\ "bootable" \notin stray

(* "All requested steps completed successfully.": rpi_bootfs has the root  *)
(* filesystem of the packages as they are built, whatever interrupted runs *)
(* left half written.  It takes that no prompt was answered with no and no *)
(* command failed: a refused SDK, a refused archive and a failing cpio go  *)
(* unnoticed.                                                              *)
CompleteIsCurrent ==
    pc = "done" /\ mode \in {"pipeline", "bootable"} /\ refusals = 0 /\ faults = 0 =>
        boot["archive"] = out

(* What is left behind is bounded by what went wrong: an interruption, a   *)
(* failed command or a no leaves at most a loop device and a mount, and a  *)
(* run that fails because of such a mount takes it away for the device it  *)
(* leaves itself.  What is mounted is attached.                            *)
LoopsAccounted ==
    /\ pc \in {"idle", "done"} =>
         Cardinality(loops) + Len(mounts) <= 2 * (interrupts + faults + refusals)
    /\ \A i \in DOMAIN mounts : mounts[i] \in loops

(* What interrupted runs left on the mount point is unmounted by later     *)
(* ones, and an operator who starts over, and builds the SDK again when an *)
(* interrupted or failing prepare_sdk has lost it, gets an image.          *)
ImageEventually == []<>(pc = "done" /\ mode = "bootable" /\ mounts = <<>>)
=============================================================================
