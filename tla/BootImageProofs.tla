-------------------------- MODULE BootImageProofs --------------------------
(***************************************************************************)
(* What holds of the scripts that make the image, whatever is interrupted, *)
(* refused or fails, however often.                                        *)
(***************************************************************************)
EXTENDS BootImage, FiniteSetTheorems, SequenceTheorems, WellFoundedInduction, TLAPS

(* The steps of the scripts.                                               *)
BuildSteps == {"build", "clean", "rootfs"}
ArchiveSteps == {"archive", "install", "copy_archive"}
LoopSteps == {"partition", "format", "mount", "copy", "overlays", "unmount", "detach"}
ImageSteps == {"create", "attach"} \cup LoopSteps
CopySteps == {"copy", "overlays", "unmount"}

(* Which script is where.                                                  *)
Control ==
    /\ pc \in {"idle", "sdk", "done"} \cup BuildSteps \cup ArchiveSteps \cup ImageSteps
    /\ mode \in IF pc = "idle" THEN {"none"}
                ELSE IF pc \in {"sdk"} \cup BuildSteps THEN {"pipeline", "bootable"}
                ELSE IF pc \in ArchiveSteps THEN {"pipeline", "bootable", "archive"}
                ELSE IF pc \in ImageSteps THEN {"bootable", "image"}
                ELSE {"pipeline", "bootable", "archive", "image"}

(* rpi_bootfs does not change unnoticed while an image is made.            *)
Watched == pc \in ImageSteps \ {"create"} /\ dpc # "idle" => disturbed

(* What the pipeline has done to its image.                                *)
Copied ==
    mode = "bootable" =>
        /\ pc \in CopySteps => OnImage
        /\ pc \in CopySteps \cup {"mount", "detach", "done"} => disk = "fat"
        /\ pc \in {"overlays", "unmount", "detach", "done"} /\ ~disturbed =>
             \A p \in BootFiles : image[p] = boot[p]
        /\ pc = "done" /\ dpc # "idle" => disturbed

(* How far the pipeline has brought the packages to rpi_bootfs.            *)
Chain ==
    mode \in {"pipeline", "bootable"} =>
        /\ pc \notin {"sdk", "idle"} => sdk
        /\ pc \in ArchiveSteps => rootfs = out
        /\ pc \in {"install", "copy_archive"} /\ faults = 0 => new = out
        /\ pc \in ImageSteps \cup {"done"} /\ refusals = 0 /\ faults = 0 => boot["archive"] = out

(* The device of this run is attached, and mounted on top or not at all.   *)
OwnDevice ==
    pc \in LoopSteps =>
        /\ dev \in loops
        /\ \A i \in DOMAIN mounts : mounts[i] = dev => i = 1 /\ pc \in CopySteps

Mounted == \A i \in DOMAIN mounts : mounts[i] \in loops

(* What is left behind, and what it is paid with: a run that has lost its  *)
(* filesystem or its mount has had a command fail.                         *)
LeftBehind == Cardinality(loops) + Len(mounts)
Paid == 2 * (interrupts + faults + refusals)

Account ==
    /\ pc \notin LoopSteps => LeftBehind <= Paid
    /\ pc \in {"partition", "format", "mount", "detach"} => LeftBehind <= Paid + 1
    /\ pc = "mount" /\ disk # "fat" => mode = "image" /\ LeftBehind <= Paid - 1
    /\ pc \in CopySteps => LeftBehind <= IF OnImage THEN Paid + 2 ELSE Paid - 1

Counters == interrupts \in Nat /\ faults \in Nat /\ refusals \in Nat

ImageInv ==
    /\ TypeOK /\ Counters /\ Control /\ Watched /\ Copied /\ Chain
    /\ OwnDevice /\ Mounted /\ Account

-----------------------------------------------------------------------------
LEMMA Constants ==
    /\ MaxVersion \in Nat /\ MaxInterrupts \in Nat /\ MaxFaults \in Nat /\ MaxRefusals \in Nat
    /\ 2 * (MaxInterrupts + MaxFaults + MaxRefusals) \in Nat
BY BootImageAssumption

LEMMA DeviceNumbers == Devices \subseteq Nat /\ IsFiniteSet(Devices)
BY Constants, FS_Interval DEF Devices

(* losetup --find gives a device that is free when there is one.           *)
LEMMA Free ==
    ASSUME loops \subseteq Devices, loops # Devices
    PROVE  FirstFree \in Devices /\ FirstFree \notin loops
<1> DEFINE free == Devices \ loops
<1>1. free \subseteq Nat /\ free # {}
  BY DeviceNumbers
<1>2. PICK d \in free : \A e \in free : <<e, d>> \notin OpToRel(<, Nat)
  BY <1>1, NatLessThanWellFounded, WFMin
<1>3. \A e \in free : d <= e
  <2> TAKE e \in free
  <2>1. <<e, d>> \in Nat \X Nat /\ <<e, d>>[1] = e /\ <<e, d>>[2] = d
    BY <1>1
  <2>2. ~(e < d)
    BY <1>2, <2>1 DEF OpToRel
  <2> QED
    BY <1>1, <2>2
<1>4. \E f \in Devices : f \notin loops /\ \A e \in Devices : e \notin loops => f <= e
  BY <1>3
<1> QED
  BY <1>4 DEF FirstFree

LEMMA LoopsFinite ==
    ASSUME TypeOK
    PROVE  IsFiniteSet(loops) /\ Cardinality(loops) \in Nat
BY DeviceNumbers, FS_Subset, FS_CardinalityType DEF TypeOK

LEMMA ImageInit == Init => ImageInv
<1> SUFFICES ASSUME Init PROVE ImageInv
  OBVIOUS
<1>1. TypeOK /\ Counters
  <2>1. 0 \in Versions
    BY Constants DEF Versions
  <2>2. {disturbed, sdk} \subseteq BOOLEAN
    BY DEF Init
  <2>3. boot \in [Parts -> Contents] /\ image \in [Parts -> Contents]
    BY <2>1 DEF Init, Contents, Empty
  <2> QED
    BY <2>1, <2>2, <2>3 DEF Init, TypeOK, Counters, Contents
<1>2. Control /\ Watched /\ Copied /\ Chain /\ OwnDevice /\ Mounted
  BY DEF Init, Control, Watched, Copied, Chain, OwnDevice, Mounted, BuildSteps, ArchiveSteps,
         ImageSteps, LoopSteps, CopySteps
<1>3. Account
  BY FS_EmptySet DEF Init, Account, LeftBehind, Paid, LoopSteps, CopySteps
<1> QED
  BY <1>1, <1>2, <1>3 DEF ImageInv

-----------------------------------------------------------------------------
LEMMA ControlStep ==
    ASSUME Control, [Next]_vars
    PROVE  Control'
<1> USE DEF Control, BuildSteps, ArchiveSteps, ImageSteps, LoopSteps, CopySteps
<1>1. ASSUME NEW m \in {"pipeline", "bootable", "archive", "image"}, Start(m)
      PROVE  Control'
  BY <1>1 DEF Start
<1>2. CASE SourceSdk
  BY <1>2 DEF SourceSdk, At, Goto
<1>3. CASE BuildPackages
  BY <1>3 DEF BuildPackages, At, Goto, Yes, No, Fault
<1>4. CASE SafeClean
  BY <1>4 DEF SafeClean, At, Goto, Yes, No
<1>5. CASE PopulateRootfs
  BY <1>5 DEF PopulateRootfs, At, Goto, Fault
<1>6. CASE PackArchive
  BY <1>6 DEF PackArchive, At, Goto, Fault
<1>7. CASE InstallArchive
  BY <1>7 DEF InstallArchive, At, Goto, AfterArchive, Yes, No
<1>8. CASE CopyArchive
  BY <1>8 DEF CopyArchive, At, Goto, AfterArchive, Fault
<1>9. CASE CreateImage
  BY <1>9 DEF CreateImage, At, Goto, ErrExit, Fault
<1>10. CASE AttachLoop
  BY <1>10 DEF AttachLoop, At, Goto, Fault
<1>11. CASE WaitForPartition
  BY <1>11 DEF WaitForPartition, At, Goto, NoPartition, Fault
<1>12. CASE Format
  BY <1>12 DEF Format, At, Goto, ErrExit, Fault
<1>13. CASE Mount
  BY <1>13 DEF Mount, At, Goto, ErrExit, Fault
<1>14. CASE CopyFiles
  BY <1>14 DEF CopyFiles, At, Goto, ErrExit, Fault
<1>15. CASE CopyOverlays
  BY <1>15 DEF CopyOverlays, At, Goto, Fault
<1>16. CASE Unmount
  BY <1>16 DEF Unmount, At, Goto, ErrExit
<1>17. CASE Detach
  BY <1>17 DEF Detach, At, Goto, Yes, No
<1>18. CASE Interrupt
  BY <1>18 DEF Interrupt, Interrupted, Goto
<1>19. CASE DeployKernel
  BY <1>19 DEF DeployKernel
<1>20. CASE InterruptDeployment
  BY <1>20 DEF InterruptDeployment, Interrupted
<1>21. CASE ChangeSources
  BY <1>21 DEF ChangeSources
<1>22. CASE BuildAlone
  BY <1>22 DEF BuildAlone, No, Fault, Interrupted
<1>23. CASE UNCHANGED vars
  BY <1>23 DEF vars, build, card, bounds
<1> QED
  BY <1>1, <1>2, <1>3, <1>4, <1>5, <1>6, <1>7, <1>8, <1>9, <1>10, <1>11, <1>12, <1>13,
     <1>14, <1>15, <1>16, <1>17, <1>18, <1>19, <1>20, <1>21, <1>22, <1>23 DEF Next, Step

-----------------------------------------------------------------------------
LEMMA CountersStep ==
    ASSUME Counters, [Next]_vars
    PROVE  Counters'
<1> USE DEF Counters
<1>1. ASSUME NEW m \in {"pipeline", "bootable", "archive", "image"}, Start(m)
      PROVE  Counters'
  BY <1>1 DEF Start, build, card, bounds
<1>2. CASE SourceSdk
  BY <1>2 DEF SourceSdk, At, Goto, build, card, bounds
<1>3. CASE BuildPackages
  <2>1. /\ \/ refusals' = refusals /\ faults' = faults
           \/ No /\ faults' = faults
           \/ Fault /\ refusals' = refusals
        /\ pc' \in {"clean", "idle"}
        /\ UNCHANGED <<interrupts, loops, mounts>>
    BY <1>3 DEF BuildPackages, Goto, Yes, card
  <2> QED
    BY <2>1 DEF No, Fault
<1>4. CASE SafeClean
  BY <1>4 DEF SafeClean, At, Goto, Yes, No, build, card, bounds
<1>5. CASE PopulateRootfs
  BY <1>5 DEF PopulateRootfs, At, Goto, Fault, build, card, bounds
<1>6. CASE PackArchive
  BY <1>6 DEF PackArchive, At, Goto, Fault, build, card, bounds
<1>7. CASE InstallArchive
  BY <1>7 DEF InstallArchive, At, Goto, AfterArchive, Yes, No, build, card, bounds
<1>8. CASE CopyArchive
  BY <1>8 DEF CopyArchive, At, Goto, AfterArchive, Fault, build, card, bounds
<1>9. CASE CreateImage
  BY <1>9 DEF CreateImage, At, Goto, ErrExit, Fault, build, card, bounds
<1>10. CASE AttachLoop
  BY <1>10 DEF AttachLoop, At, Goto, Fault, build, card, bounds
<1>11. CASE WaitForPartition
  BY <1>11 DEF WaitForPartition, At, Goto, NoPartition, Fault, build, card, bounds
<1>12. CASE Format
  BY <1>12 DEF Format, At, Goto, ErrExit, Fault, build, card, bounds
<1>13. CASE Mount
  BY <1>13 DEF Mount, At, Goto, ErrExit, Fault, build, card, bounds
<1>14. CASE CopyFiles
  BY <1>14 DEF CopyFiles, At, Goto, ErrExit, Fault, build, card, bounds
<1>15. CASE CopyOverlays
  BY <1>15 DEF CopyOverlays, At, Goto, Fault, build, card, bounds
<1>16. CASE Unmount
  BY <1>16 DEF Unmount, At, Goto, ErrExit, build, card, bounds
<1>17. CASE Detach
  BY <1>17 DEF Detach, At, Goto, Yes, No, build, card, bounds
<1>18. CASE Interrupt
  BY <1>18 DEF Interrupt, Interrupted, Goto, build, card, bounds
<1>19. CASE DeployKernel
  BY <1>19 DEF DeployKernel, build, card, bounds
<1>20. CASE InterruptDeployment
  BY <1>20 DEF InterruptDeployment, Interrupted, build, card, bounds
<1>21. CASE ChangeSources
  BY <1>21 DEF ChangeSources, build, card, bounds
<1>22. CASE BuildAlone
  BY <1>22 DEF BuildAlone, No, Fault, Interrupted, build, card, bounds
<1>23. CASE UNCHANGED vars
  BY <1>23 DEF vars, build, card, bounds
<1> QED
  BY <1>1, <1>2, <1>3, <1>4, <1>5, <1>6, <1>7, <1>8, <1>9, <1>10, <1>11, <1>12, <1>13,
     <1>14, <1>15, <1>16, <1>17, <1>18, <1>19, <1>20, <1>21, <1>22, <1>23 DEF Next, Step

(* What a part of rpi_bootfs or of the image is replaced by is contents.   *)
LEMMA PartReplaced ==
    ASSUME NEW f \in [Parts -> Contents], NEW p, NEW c \in Contents
    PROVE  [f EXCEPT ![p] = c] \in [Parts -> Contents]
OBVIOUS

(* umount takes the topmost away.                                          *)
LEMMA Pop ==
    ASSUME NEW s \in Seq(Devices), s # <<>>
    PROVE  /\ Tail(s) \in Seq(Devices)
           /\ Len(Tail(s)) = Len(s) - 1
           /\ \A i \in DOMAIN Tail(s) : i + 1 \in DOMAIN s /\ Tail(s)[i] = s[i + 1]
OBVIOUS

(* What Unmount leaves: the mount of this run and one more are gone.       *)
LEMMA UnmountedLeaves ==
    ASSUME mounts \in Seq(Devices), \A i \in DOMAIN mounts : mounts[i] = dev => i = 1
    PROVE  /\ Unmounted(mounts) \in Seq(Devices)
           /\ \A j \in DOMAIN Unmounted(mounts) : \E i \in DOMAIN mounts :
                 Unmounted(mounts)[j] = mounts[i] /\ mounts[i] # dev
           /\ OnImage => \/ Unmounted(mounts) = <<>> /\ Len(mounts) \in {1, 2}
                         \/ Len(Unmounted(mounts)) = Len(mounts) - 2
           /\ ~OnImage => Len(Unmounted(mounts)) <= Len(mounts)
<1> DEFINE own == { i \in DOMAIN mounts : mounts[i] = dev }
           rest == SubSeq(mounts, OwnMounts(mounts) + 1, Len(mounts))
<1>1. Unmounted(mounts) = IF rest = <<>> THEN rest ELSE Tail(rest)
  BY DEF Unmounted
<1>2. CASE OnImage
  <2>1. own = {1} /\ mounts # <<>>
    BY <1>2 DEF OnImage
  <2>2. OwnMounts(mounts) = 1
    BY <2>1, FS_Singleton DEF OwnMounts
  <2>3. rest = Tail(mounts)
    BY <2>1, <2>2
  <2>4. CASE Tail(mounts) = <<>>
    <3>1. Unmounted(mounts) = <<>>
      BY <1>1, <2>3, <2>4
    <3>2. Len(mounts) = 1
      <4>1. Len(Tail(mounts)) = Len(mounts) - 1 /\ Len(mounts) \in Nat
        BY <2>1, Pop
      <4>2. Len(Tail(mounts)) = 0
        BY <2>4, EmptySeq, Zenon
      <4> QED
        BY <4>1, <4>2
    <3>3. <<>> \in Seq(Devices) /\ DOMAIN <<>> = {}
      OBVIOUS
    <3> QED
      BY <1>2, <3>1, <3>2, <3>3
  <2>5. CASE Tail(mounts) # <<>>
    <3>1. Unmounted(mounts) = Tail(Tail(mounts))
      BY <1>1, <2>3, <2>5
    <3>2. /\ Tail(mounts) \in Seq(Devices) /\ Len(Tail(mounts)) = Len(mounts) - 1
          /\ \A i \in DOMAIN Tail(mounts) : i + 1 \in DOMAIN mounts /\ Tail(mounts)[i] = mounts[i + 1]
      BY <2>1, Pop
    <3>3. /\ Unmounted(mounts) \in Seq(Devices) /\ Len(Unmounted(mounts)) = Len(mounts) - 2
          /\ \A i \in DOMAIN Unmounted(mounts) :
                i + 1 \in DOMAIN Tail(mounts) /\ Unmounted(mounts)[i] = Tail(mounts)[i + 1]
      BY <2>5, <3>1, <3>2, Pop
    <3>4. ASSUME NEW j \in DOMAIN Unmounted(mounts)
          PROVE  \E i \in DOMAIN mounts : Unmounted(mounts)[j] = mounts[i] /\ mounts[i] # dev
      <4>1. j \in Nat \ {0} /\ j + 2 \in DOMAIN mounts /\ Unmounted(mounts)[j] = mounts[j + 2]
        BY <3>2, <3>3
      <4> QED
        BY <4>1
    <3> QED
      BY <1>2, <3>3, <3>4
  <2> QED
    BY <2>4, <2>5
<1>3. CASE ~OnImage
  <2>1. own = {}
    BY <1>3 DEF OnImage
  <2>2. OwnMounts(mounts) = 0
    BY <2>1, FS_EmptySet DEF OwnMounts
  <2>3. rest = mounts
    BY <2>2
  <2>4. CASE mounts = <<>>
    <3>1. Unmounted(mounts) = mounts /\ DOMAIN mounts = {}
      BY <1>1, <2>3, <2>4
    <3> QED
      BY <1>3, <3>1
  <2>5. CASE mounts # <<>>
    <3>1. Unmounted(mounts) = Tail(mounts)
      BY <1>1, <2>3, <2>5
    <3>2. /\ Unmounted(mounts) \in Seq(Devices) /\ Len(Unmounted(mounts)) = Len(mounts) - 1
          /\ \A i \in DOMAIN Unmounted(mounts) :
                i + 1 \in DOMAIN mounts /\ Unmounted(mounts)[i] = mounts[i + 1]
      BY <2>5, <3>1, Pop
    <3> QED
      BY <1>3, <2>1, <3>2
  <2> QED
    BY <2>4, <2>5
<1> QED
  BY <1>2, <1>3

LEMMA TypeStep ==
    ASSUME TypeOK, Control, OwnDevice, [Next]_vars
    PROVE  TypeOK'
<1>c. {None, Torn} \subseteq Contents /\ Versions \subseteq Contents
  BY DEF Contents
<1> USE <1>c DEF TypeOK
<1>1. ASSUME NEW m \in {"pipeline", "bootable", "archive", "image"}, Start(m)
      PROVE  TypeOK'
  <2>1. disturbed' \in BOOLEAN
    BY <1>1 DEF Start
  <2>2. image' \in [Parts -> Contents]
    BY <1>1 DEF Start, Empty
  <2> QED
    BY <1>1, <2>1, <2>2 DEF Start, build
<1>2. CASE SourceSdk
  BY <1>2 DEF SourceSdk, At, Goto, build, card, bounds
<1>3. CASE BuildPackages
  BY <1>3 DEF BuildPackages, At, Goto, Yes, No, Fault, build, card, bounds
<1>4. CASE SafeClean
  BY <1>4 DEF SafeClean, At, Goto, Yes, No, build, card, bounds
<1>5. CASE PopulateRootfs
  BY <1>5 DEF PopulateRootfs, At, Goto, Fault, build, card, bounds
<1>6. CASE PackArchive
  BY <1>6 DEF PackArchive, At, Goto, Fault, build, card, bounds
<1>7. CASE InstallArchive
  BY <1>7 DEF InstallArchive, At, Goto, AfterArchive, Yes, No, build, card, bounds
<1>8. CASE CopyArchive
  BY <1>8 DEF CopyArchive, At, Goto, AfterArchive, Fault, build, card, bounds
<1>9. CASE CreateImage
  BY <1>9 DEF CreateImage, At, Goto, ErrExit, Fault, build, card, bounds
<1>10. CASE AttachLoop
  BY <1>10, Free DEF AttachLoop, build
<1>11. CASE WaitForPartition
  BY <1>11 DEF WaitForPartition, At, Goto, NoPartition, Fault, build, card, bounds
<1>12. CASE Format
  BY <1>12 DEF Format, At, Goto, ErrExit, Fault, build, card, bounds
<1>13. CASE Mount
  <2>1. dev \in Devices
    BY <1>13 DEF Mount, At, OwnDevice, LoopSteps
  <2>2. mounts' \in Seq(Devices)
    <3>1. mounts' = <<dev>> \o mounts \/ mounts' = mounts
      BY <1>13 DEF Mount
    <3>2. <<dev>> \in Seq(Devices) /\ <<dev>> \o mounts \in Seq(Devices)
      BY <2>1, ConcatProperties
    <3> QED
      BY <3>1, <3>2
  <2> QED
    BY <1>13, <2>2 DEF Mount, build
<1>14. CASE CopyFiles
  <2>1. mode \in {"bootable", "image"}
    BY <1>14 DEF CopyFiles, At, Control, BuildSteps, ArchiveSteps, ImageSteps, LoopSteps
  <2>2. image' \in [Parts -> Contents]
    BY <1>14 DEF CopyFiles
  <2>3. stray' \subseteq {"bootable", "image"}
    BY <1>14, <2>1 DEF CopyFiles
  <2> QED
    BY <1>14, <2>2, <2>3 DEF CopyFiles, build
<1>15. CASE CopyOverlays
  <2>1. mode \in {"bootable", "image"}
    BY <1>15 DEF CopyOverlays, At, Control, BuildSteps, ArchiveSteps, ImageSteps, LoopSteps
  <2>2. image' \in [Parts -> Contents]
    BY <1>15 DEF CopyOverlays, Parts
  <2>3. stray' \subseteq {"bootable", "image"}
    BY <1>15, <2>1 DEF CopyOverlays
  <2> QED
    BY <1>15, <2>2, <2>3 DEF CopyOverlays, build
<1>16. CASE Unmount
  <2>1. mounts' \in Seq(Devices)
    BY <1>16, UnmountedLeaves DEF Unmount, At, OwnDevice, LoopSteps
  <2> QED
    BY <1>16, <2>1 DEF Unmount, build
<1>17. CASE Detach
  BY <1>17 DEF Detach, At, Goto, Yes, No, build, card, bounds
<1>18. CASE Interrupt
  BY <1>18 DEF Interrupt, Interrupted, Goto, build, card, bounds
<1>19. CASE DeployKernel
  <2>1. dpc' \in {"idle", "kernel", "overlays"}
    BY <1>19 DEF DeployKernel, DeployOrder
  <2>2. boot' \in [Parts -> Contents]
    BY <1>19 DEF DeployKernel
  <2>3. disturbed' \in BOOLEAN
    BY <1>19 DEF DeployKernel
  <2> QED
    BY <1>19, <2>1, <2>2, <2>3 DEF DeployKernel, build, card
<1>20. CASE InterruptDeployment
  BY <1>20 DEF InterruptDeployment, Interrupted, build, card, bounds
<1>21. CASE ChangeSources
  <2>1. src' \in Versions
    BY <1>21, Constants DEF ChangeSources, Versions
  <2> QED
    BY <1>21, <2>1 DEF ChangeSources, build, card
<1>22. CASE BuildAlone
  BY <1>22 DEF BuildAlone, No, Fault, Interrupted, build, card, bounds
<1>23. CASE UNCHANGED vars
  BY <1>23 DEF vars, build, card, bounds
<1> QED
  BY <1>1, <1>2, <1>3, <1>4, <1>5, <1>6, <1>7, <1>8, <1>9, <1>10, <1>11, <1>12, <1>13,
     <1>14, <1>15, <1>16, <1>17, <1>18, <1>19, <1>20, <1>21, <1>22, <1>23 DEF Next, Step

-----------------------------------------------------------------------------
LEMMA WatchedStep ==
    ASSUME TypeOK, Watched, [Next]_vars
    PROVE  Watched'
<1> USE DEF Watched, ImageSteps, LoopSteps
<1>1. ASSUME NEW m \in {"pipeline", "bootable", "archive", "image"}, Start(m)
      PROVE  Watched'
  BY <1>1 DEF Start, build, card, bounds
<1>2. CASE SourceSdk
  BY <1>2 DEF SourceSdk, At, Goto, build, card, bounds
<1>3. CASE BuildPackages
  BY <1>3 DEF BuildPackages, At, Goto, Yes, No, Fault, build, card, bounds
<1>4. CASE SafeClean
  BY <1>4 DEF SafeClean, At, Goto, Yes, No, build, card, bounds
<1>5. CASE PopulateRootfs
  BY <1>5 DEF PopulateRootfs, At, Goto, Fault, build, card, bounds
<1>6. CASE PackArchive
  BY <1>6 DEF PackArchive, At, Goto, Fault, build, card, bounds
<1>7. CASE InstallArchive
  BY <1>7 DEF InstallArchive, At, Goto, AfterArchive, Yes, No, build, card, bounds
<1>8. CASE CopyArchive
  BY <1>8 DEF CopyArchive, At, Goto, AfterArchive, Fault, build, card, bounds
<1>9. CASE CreateImage
  BY <1>9 DEF CreateImage, At, Goto, ErrExit, Fault, build, card, bounds
<1>10. CASE AttachLoop
  BY <1>10 DEF AttachLoop, At, Goto, Fault, build, card, bounds
<1>11. CASE WaitForPartition
  BY <1>11 DEF WaitForPartition, At, Goto, NoPartition, Fault, build, card, bounds
<1>12. CASE Format
  BY <1>12 DEF Format, At, Goto, ErrExit, Fault, build, card, bounds
<1>13. CASE Mount
  BY <1>13 DEF Mount, At, Goto, ErrExit, Fault, build, card, bounds
<1>14. CASE CopyFiles
  BY <1>14 DEF CopyFiles, At, Goto, ErrExit, Fault, build, card, bounds
<1>15. CASE CopyOverlays
  BY <1>15 DEF CopyOverlays, At, Goto, Fault, build, card, bounds
<1>16. CASE Unmount
  BY <1>16 DEF Unmount, At, Goto, ErrExit, build, card, bounds
<1>17. CASE Detach
  BY <1>17 DEF Detach, At, Goto, Yes, No, build, card, bounds
<1>18. CASE Interrupt
  BY <1>18 DEF Interrupt, Interrupted, Goto, build, card, bounds
<1>19. CASE DeployKernel
  BY <1>19 DEF DeployKernel, build, card, bounds
<1>20. CASE InterruptDeployment
  BY <1>20 DEF InterruptDeployment, Interrupted, build, card, bounds
<1>21. CASE ChangeSources
  BY <1>21 DEF ChangeSources, build, card, bounds
<1>22. CASE BuildAlone
  BY <1>22 DEF BuildAlone, No, Fault, Interrupted, build, card, bounds
<1>23. CASE UNCHANGED vars
  BY <1>23 DEF vars, build, card, bounds
<1> QED
  BY <1>1, <1>2, <1>3, <1>4, <1>5, <1>6, <1>7, <1>8, <1>9, <1>10, <1>11, <1>12, <1>13,
     <1>14, <1>15, <1>16, <1>17, <1>18, <1>19, <1>20, <1>21, <1>22, <1>23 DEF Next, Step

LEMMA CopiedStep ==
    ASSUME TypeOK, Control, Watched, Copied, OwnDevice, [Next]_vars
    PROVE  Copied'
<1> USE DEF Copied, OnImage, BootFiles, Control, BuildSteps, ArchiveSteps, ImageSteps, LoopSteps, CopySteps
<1>1. ASSUME NEW m \in {"pipeline", "bootable", "archive", "image"}, Start(m)
      PROVE  Copied'
  BY <1>1 DEF Start, build, card, bounds
<1>2. CASE SourceSdk
  BY <1>2 DEF SourceSdk, At, Goto, build, card, bounds
<1>3. CASE BuildPackages
  BY <1>3 DEF BuildPackages, At, Goto, Yes, No, Fault, build, card, bounds
<1>4. CASE SafeClean
  BY <1>4 DEF SafeClean, At, Goto, Yes, No, build, card, bounds
<1>5. CASE PopulateRootfs
  BY <1>5 DEF PopulateRootfs, At, Goto, Fault, build, card, bounds
<1>6. CASE PackArchive
  BY <1>6 DEF PackArchive, At, Goto, Fault, build, card, bounds
<1>7. CASE InstallArchive
  BY <1>7 DEF InstallArchive, At, Goto, AfterArchive, Yes, No, build, card, bounds
<1>8. CASE CopyArchive
  BY <1>8 DEF CopyArchive, At, Goto, AfterArchive, Fault, build, card, bounds
<1>9. CASE CreateImage
  BY <1>9 DEF CreateImage, At, Goto, ErrExit, Fault, build, card, bounds
<1>10. CASE AttachLoop
  BY <1>10 DEF AttachLoop, At, Goto, Fault, build, card, bounds
<1>11. CASE WaitForPartition
  BY <1>11 DEF WaitForPartition, At, Goto, NoPartition, Fault, build, card, bounds
<1>12. CASE Format
  BY <1>12 DEF Format, At, Goto, ErrExit, Fault, build, card, bounds
<1>13. CASE Mount
  BY <1>13 DEF Mount, At, Goto, ErrExit, Fault, build, card, bounds
<1>14. CASE CopyFiles
  BY <1>14 DEF CopyFiles, At, Goto, ErrExit, Fault, build, card, bounds
<1>15. CASE CopyOverlays
  <2>1. \A p \in BootFiles : image'[p] = image[p]
    BY <1>15 DEF CopyOverlays, TypeOK, Parts
  <2> QED
    BY <1>15, <2>1 DEF CopyOverlays, At, Goto, build, card, bounds
<1>16. CASE Unmount
  BY <1>16 DEF Unmount, At, Goto, ErrExit, build, card, bounds
<1>17. CASE Detach
  BY <1>17 DEF Detach, At, Goto, Watched, build, card, bounds
<1>18. CASE Interrupt
  BY <1>18 DEF Interrupt, Interrupted, Goto, build, card, bounds
<1>19. CASE DeployKernel
  BY <1>19 DEF DeployKernel, build, card, bounds
<1>20. CASE InterruptDeployment
  BY <1>20 DEF InterruptDeployment, Interrupted, Watched, build, card, bounds
<1>21. CASE ChangeSources
  BY <1>21 DEF ChangeSources, build, card, bounds
<1>22. CASE BuildAlone
  BY <1>22 DEF BuildAlone, No, Fault, Interrupted, build, card, bounds
<1>23. CASE UNCHANGED vars
  BY <1>23 DEF vars, build, card, bounds
<1> QED
  BY <1>1, <1>2, <1>3, <1>4, <1>5, <1>6, <1>7, <1>8, <1>9, <1>10, <1>11, <1>12, <1>13,
     <1>14, <1>15, <1>16, <1>17, <1>18, <1>19, <1>20, <1>21, <1>22, <1>23 DEF Next, Step

LEMMA ChainStep ==
    ASSUME TypeOK, Counters, Control, Chain, [Next]_vars
    PROVE  Chain'
<1> USE DEF Chain, Counters, Control, BuildSteps, ArchiveSteps, ImageSteps, LoopSteps, CopySteps
<1>1. ASSUME NEW m \in {"pipeline", "bootable", "archive", "image"}, Start(m)
      PROVE  Chain'
  BY <1>1 DEF Start, build, card, bounds
<1>2. CASE SourceSdk
  BY <1>2 DEF SourceSdk, At, Goto, build, card, bounds
<1>3. CASE BuildPackages
  BY <1>3 DEF BuildPackages, At, Goto, Yes, No, Fault, build, card, bounds
<1>4. CASE SafeClean
  BY <1>4 DEF SafeClean, At, Goto, Yes, No, build, card, bounds
<1>5. CASE PopulateRootfs
  BY <1>5 DEF PopulateRootfs, At, Goto, Fault, build, card, bounds
<1>6. CASE PackArchive
  BY <1>6 DEF PackArchive, At, Goto, Fault, build, card, bounds
<1>7. CASE InstallArchive
  BY <1>7 DEF InstallArchive, At, Goto, AfterArchive, Yes, No, build, card, bounds
<1>8. CASE CopyArchive
  <2>1. CASE boot' = [boot EXCEPT !["archive"] = new] /\ UNCHANGED faults /\ Goto(AfterArchive)
    <3>1. boot'["archive"] = new
      BY <2>1 DEF TypeOK, Parts
    <3> QED
      BY <1>8, <2>1, <3>1 DEF CopyArchive, At, Goto, AfterArchive
  <2>2. CASE Goto("idle")
    BY <2>2 DEF Goto
  <2> QED
    BY <1>8, <2>1, <2>2 DEF CopyArchive
<1>9. CASE CreateImage
  BY <1>9 DEF CreateImage, At, Goto, ErrExit, Fault, build, card, bounds
<1>10. CASE AttachLoop
  BY <1>10 DEF AttachLoop, At, Goto, Fault, build, card, bounds
<1>11. CASE WaitForPartition
  BY <1>11 DEF WaitForPartition, At, Goto, NoPartition, Fault, build, card, bounds
<1>12. CASE Format
  BY <1>12 DEF Format, At, Goto, ErrExit, Fault, build, card, bounds
<1>13. CASE Mount
  BY <1>13 DEF Mount, At, Goto, ErrExit, Fault, build, card, bounds
<1>14. CASE CopyFiles
  BY <1>14 DEF CopyFiles, At, Goto, ErrExit, Fault, build, card, bounds
<1>15. CASE CopyOverlays
  BY <1>15 DEF CopyOverlays, At, Goto, Fault, build, card, bounds
<1>16. CASE Unmount
  BY <1>16 DEF Unmount, At, Goto, ErrExit, build, card, bounds
<1>17. CASE Detach
  BY <1>17 DEF Detach, At, Goto, Yes, No, build, card, bounds
<1>18. CASE Interrupt
  BY <1>18 DEF Interrupt, Interrupted, Goto, build, card, bounds
<1>19. CASE DeployKernel
  <2>1. boot'["archive"] = boot["archive"]
    BY <1>19 DEF DeployKernel, TypeOK, Parts
  <2> QED
    BY <1>19, <2>1 DEF DeployKernel, build, card, bounds
<1>20. CASE InterruptDeployment
  <2>1. boot'["archive"] = boot["archive"]
    BY <1>20 DEF InterruptDeployment, Interrupted, TypeOK, Parts
  <2> QED
    BY <1>20, <2>1 DEF InterruptDeployment, Interrupted, build, card, bounds
<1>21. CASE ChangeSources
  BY <1>21 DEF ChangeSources, build, card, bounds
<1>22. CASE BuildAlone
  BY <1>22 DEF BuildAlone, No, Fault, Interrupted, build, card, bounds
<1>23. CASE UNCHANGED vars
  BY <1>23 DEF vars, build, card, bounds
<1> QED
  BY <1>1, <1>2, <1>3, <1>4, <1>5, <1>6, <1>7, <1>8, <1>9, <1>10, <1>11, <1>12, <1>13,
     <1>14, <1>15, <1>16, <1>17, <1>18, <1>19, <1>20, <1>21, <1>22, <1>23 DEF Next, Step

-----------------------------------------------------------------------------
LEMMA DeviceStep ==
    ASSUME TypeOK, OwnDevice, Mounted, [Next]_vars
    PROVE  OwnDevice' /\ Mounted'
<1> USE DEF OwnDevice, Mounted, LoopSteps, CopySteps
<1>1. ASSUME NEW m \in {"pipeline", "bootable", "archive", "image"}, Start(m)
      PROVE  OwnDevice' /\ Mounted'
  BY <1>1 DEF Start, build, card, bounds
<1>2. CASE SourceSdk
  BY <1>2 DEF SourceSdk, At, Goto, build, card, bounds
<1>3. CASE BuildPackages
  BY <1>3 DEF BuildPackages, At, Goto, Yes, No, Fault, build, card, bounds
<1>4. CASE SafeClean
  BY <1>4 DEF SafeClean, At, Goto, Yes, No, build, card, bounds
<1>5. CASE PopulateRootfs
  BY <1>5 DEF PopulateRootfs, At, Goto, Fault, build, card, bounds
<1>6. CASE PackArchive
  BY <1>6 DEF PackArchive, At, Goto, Fault, build, card, bounds
<1>7. CASE InstallArchive
  BY <1>7 DEF InstallArchive, At, Goto, AfterArchive, Yes, No, build, card, bounds
<1>8. CASE CopyArchive
  BY <1>8 DEF CopyArchive, At, Goto, AfterArchive, Fault, build, card, bounds
<1>9. CASE CreateImage
  BY <1>9 DEF CreateImage, At, Goto, ErrExit, Fault, build, card, bounds
<1>10. CASE AttachLoop
  BY <1>10, Free DEF AttachLoop, At, Goto, TypeOK, build
<1>11. CASE WaitForPartition
  BY <1>11 DEF WaitForPartition, At, Goto, NoPartition, Fault, build, card, bounds
<1>12. CASE Format
  BY <1>12 DEF Format, At, Goto, ErrExit, Fault, build, card, bounds
<1>13. CASE Mount
  <2>1. CASE mounts' = <<dev>> \o mounts /\ Goto("copy")
    <3>1. DOMAIN mounts' = 1 .. Len(mounts) + 1
      BY <2>1 DEF TypeOK
    <3>2. \A i \in DOMAIN mounts' : mounts'[i] = IF i = 1 THEN dev ELSE mounts[i - 1]
      BY <2>1 DEF TypeOK
    <3>3. \A i \in DOMAIN mounts : mounts[i] # dev
      BY <1>13 DEF Mount, At
    <3>4. ASSUME NEW i \in DOMAIN mounts', i # 1
          PROVE  mounts'[i] \in loops /\ mounts'[i] # dev
      <4>1. i - 1 \in DOMAIN mounts /\ mounts'[i] = mounts[i - 1]
        BY <3>1, <3>2, <3>4 DEF TypeOK
      <4> QED
        BY <3>3, <4>1
    <3> QED
      BY <1>13, <2>1, <3>2, <3>4 DEF Mount, At, Goto
  <2>2. CASE UNCHANGED mounts
    BY <1>13, <2>2 DEF Mount, At, Goto, ErrExit
  <2> QED
    BY <1>13, <2>1, <2>2 DEF Mount
<1>14. CASE CopyFiles
  BY <1>14 DEF CopyFiles, At, Goto, ErrExit, Fault, build, card, bounds
<1>15. CASE CopyOverlays
  BY <1>15 DEF CopyOverlays, At, Goto, Fault, build, card, bounds
<1>16. CASE Unmount
  <2>1. \A j \in DOMAIN mounts' : \E i \in DOMAIN mounts : mounts'[j] = mounts[i] /\ mounts[i] # dev
    BY <1>16, UnmountedLeaves DEF Unmount, At, TypeOK
  <2> QED
    BY <1>16, <2>1 DEF Unmount, At, Goto, ErrExit
<1>17. CASE Detach
  <2>1. \A j \in DOMAIN mounts' : \E i \in DOMAIN mounts : mounts'[j] = mounts[i]
    BY <1>17, Pop DEF Detach, TypeOK
  <2> QED
    BY <1>17, <2>1 DEF Detach, At, Goto
<1>18. CASE Interrupt
  BY <1>18 DEF Interrupt, Interrupted, Goto, build, card, bounds
<1>19. CASE DeployKernel
  BY <1>19 DEF DeployKernel, build, card, bounds
<1>20. CASE InterruptDeployment
  BY <1>20 DEF InterruptDeployment, Interrupted, build, card, bounds
<1>21. CASE ChangeSources
  BY <1>21 DEF ChangeSources, build, card, bounds
<1>22. CASE BuildAlone
  BY <1>22 DEF BuildAlone, No, Fault, Interrupted, build, card, bounds
<1>23. CASE UNCHANGED vars
  BY <1>23 DEF vars, build, card, bounds
<1> QED
  BY <1>1, <1>2, <1>3, <1>4, <1>5, <1>6, <1>7, <1>8, <1>9, <1>10, <1>11, <1>12, <1>13,
     <1>14, <1>15, <1>16, <1>17, <1>18, <1>19, <1>20, <1>21, <1>22, <1>23 DEF Next, Step

(* The counters only grow, by one and one at a time.                       *)
LEMMA PaidStep ==
    ASSUME Counters
    PROVE  /\ Paid \in Nat
           /\ UNCHANGED <<interrupts, faults, refusals>> => Paid' = Paid
           /\ interrupts' = interrupts + 1 /\ UNCHANGED <<faults, refusals>> => Paid' = Paid + 2
           /\ faults' = faults + 1 /\ UNCHANGED <<interrupts, refusals>> => Paid' = Paid + 2
           /\ refusals' = refusals + 1 /\ UNCHANGED <<interrupts, faults>> => Paid' = Paid + 2
BY DEF Counters, Paid

LEMMA LeftType ==
    ASSUME TypeOK
    PROVE  /\ LeftBehind \in Nat
           /\ UNCHANGED <<loops, mounts>> => LeftBehind' = LeftBehind
BY LoopsFinite DEF TypeOK, LeftBehind

LEMMA AccountStep ==
    ASSUME TypeOK, Counters, Control, Copied, OwnDevice, Account, [Next]_vars
    PROVE  Account'
<1> USE PaidStep, LeftType DEF Account, Control, BuildSteps, ArchiveSteps, ImageSteps, LoopSteps, CopySteps
<1>1. ASSUME NEW m \in {"pipeline", "bootable", "archive", "image"}, Start(m)
      PROVE  Account'
  BY <1>1 DEF Start, build, card, bounds
<1>2. CASE SourceSdk
  BY <1>2 DEF SourceSdk, At, Goto, build, card, bounds
<1>3. CASE BuildPackages
  <2>1. /\ \/ refusals' = refusals /\ faults' = faults
           \/ No /\ faults' = faults
           \/ Fault /\ refusals' = refusals
        /\ pc' \in {"clean", "idle"}
        /\ UNCHANGED <<interrupts, loops, mounts>>
    BY <1>3 DEF BuildPackages, Goto, Yes, card
  <2>2. LeftBehind <= Paid /\ LeftBehind' = LeftBehind
    BY <1>3, <2>1 DEF BuildPackages, At
  <2>3. Paid' \in Int /\ Paid \in Int /\ Paid <= Paid'
    BY <2>1 DEF No, Fault, Counters, Paid
  <2> QED
    BY <2>1, <2>2, <2>3
<1>4. CASE SafeClean
  BY <1>4 DEF SafeClean, At, Goto, Yes, No, build, card, bounds
<1>5. CASE PopulateRootfs
  BY <1>5 DEF PopulateRootfs, At, Goto, Fault, build, card, bounds
<1>6. CASE PackArchive
  BY <1>6 DEF PackArchive, At, Goto, Fault, build, card, bounds
<1>7. CASE InstallArchive
  BY <1>7 DEF InstallArchive, At, Goto, AfterArchive, Yes, No, build, card, bounds
<1>8. CASE CopyArchive
  BY <1>8 DEF CopyArchive, At, Goto, AfterArchive, Fault, build, card, bounds
<1>9. CASE CreateImage
  BY <1>9 DEF CreateImage, At, Goto, ErrExit, Fault, build, card, bounds
<1>10. CASE AttachLoop
  <2>1. CASE dev' = FirstFree /\ loops' = loops \cup {FirstFree} /\ Goto("partition") /\ UNCHANGED faults
    <3>1. Cardinality(loops') \in {Cardinality(loops), Cardinality(loops) + 1} /\ mounts' = mounts
      BY <1>10, <2>1, LoopsFinite, FS_AddElement DEF AttachLoop
    <3>2. LeftBehind' <= LeftBehind + 1 /\ LeftBehind' \in Nat
      BY <3>1, LoopsFinite DEF LeftBehind, TypeOK
    <3> QED
      BY <1>10, <2>1, <3>2 DEF AttachLoop, At, Goto
  <2>2. CASE UNCHANGED <<dev, loops>> /\ Goto("idle")
    BY <1>10, <2>2 DEF AttachLoop, At, Goto, Fault
  <2> QED
    BY <1>10, <2>1, <2>2 DEF AttachLoop
<1>11. CASE WaitForPartition
  <2>1. CASE Goto("format") /\ UNCHANGED <<loops, faults>>
    BY <1>11, <2>1 DEF WaitForPartition, At, Goto
  <2>2. CASE NoPartition /\ Goto("idle") /\ loops' = loops \ {dev}
    <3>1. Cardinality(loops') = Cardinality(loops) - 1 /\ mounts' = mounts
      BY <1>11, <2>2, LoopsFinite, FS_RemoveElement DEF WaitForPartition, At, OwnDevice
    <3>2. LeftBehind' = LeftBehind - 1
      BY <3>1, LoopsFinite DEF LeftBehind, TypeOK
    <3> QED
      BY <1>11, <2>2, <3>2 DEF WaitForPartition, At, Goto, NoPartition, Fault
  <2> QED
    BY <1>11, <2>1, <2>2 DEF WaitForPartition
<1>12. CASE Format
  BY <1>12 DEF Format, At, Goto, ErrExit, Fault, build, card, bounds
<1>13. CASE Mount
  <2>1. CASE disk = "fat" /\ mounts' = <<dev>> \o mounts /\ Goto("copy") /\ UNCHANGED faults
    <3>1. LeftBehind' = LeftBehind + 1
      BY <1>13, <2>1, LoopsFinite DEF Mount, LeftBehind, TypeOK
    <3>2. OnImage'
      BY <1>13, <2>1 DEF Mount, OnImage, TypeOK
    <3> QED
      BY <1>13, <2>1, <3>1, <3>2 DEF Mount, At, Goto
  <2>2. CASE UNCHANGED mounts /\ ErrExit("copy")
    <3>1. ~OnImage'
      BY <1>13, <2>2 DEF Mount, At, OnImage, OwnDevice, TypeOK
    <3> QED
      BY <1>13, <2>2, <3>1 DEF Mount, At, Goto, ErrExit, Fault
  <2> QED
    BY <1>13, <2>1, <2>2 DEF Mount
<1>14. CASE CopyFiles
  <2>1. OnImage' <=> OnImage
    BY <1>14 DEF CopyFiles, OnImage
  <2> QED
    BY <1>14, <2>1 DEF CopyFiles, At, Goto, ErrExit, Fault
<1>15. CASE CopyOverlays
  <2>1. OnImage' <=> OnImage
    BY <1>15 DEF CopyOverlays, OnImage
  <2> QED
    BY <1>15, <2>1 DEF CopyOverlays, At, Goto, Fault
<1>16. CASE Unmount
  <2>1. mounts' = Unmounted(mounts) /\ loops' = loops /\ Paid' = Paid /\ pc = "unmount"
    BY <1>16 DEF Unmount, At, bounds
  <2>2. /\ OnImage => \/ mounts' = <<>> /\ Len(mounts) \in {1, 2}
                      \/ Len(mounts') = Len(mounts) - 2
        /\ ~OnImage => Len(mounts') <= Len(mounts)
        /\ mounts' \in Seq(Devices)
    BY <2>1, UnmountedLeaves DEF OwnDevice, TypeOK
  <2>3. CASE OnImage
    <3>1. CASE mounts' = <<>>
      <4>1. Len(mounts') = 0
        BY <3>1, EmptySeq, Zenon
      <4>2. Len(mounts) >= 1
        BY <2>3 DEF OnImage, TypeOK
      <4>3. LeftBehind' <= LeftBehind - 1 /\ LeftBehind' \in Int
        BY <2>1, <4>1, <4>2, LoopsFinite DEF LeftBehind, TypeOK
      <4> QED
        BY <1>16, <2>1, <2>3, <3>1, <4>3 DEF Unmount, Goto
    <3>2. CASE mounts' # <<>>
      <4>1. Len(mounts') = Len(mounts) - 2
        BY <2>2, <2>3, <3>2
      <4>2. LeftBehind' = LeftBehind - 2
        BY <2>1, <4>1, LoopsFinite DEF LeftBehind, TypeOK
      <4> QED
        BY <1>16, <2>1, <2>3, <3>2, <4>2 DEF Unmount, Goto, ErrExit
    <3> QED
      BY <3>1, <3>2
  <2>4. CASE ~OnImage
    <3>1. LeftBehind' <= LeftBehind /\ LeftBehind' \in Int
      BY <2>1, <2>2, <2>4, LoopsFinite DEF LeftBehind, TypeOK
    <3> QED
      BY <1>16, <2>1, <2>4, <3>1 DEF Unmount, Goto, ErrExit
  <2> QED
    BY <2>3, <2>4
<1>17. CASE Detach
  <2>1. CASE Yes /\ loops' = loops \ {dev} /\ mounts' = IF mounts = <<>> THEN mounts ELSE Tail(mounts)
    <3>1. Len(mounts') <= Len(mounts) /\ Len(mounts') \in Nat
      BY <2>1, Pop DEF TypeOK
    <3>2. Cardinality(loops') = Cardinality(loops) - 1
      BY <1>17, <2>1, LoopsFinite, FS_RemoveElement DEF Detach, At, OwnDevice
    <3>3. LeftBehind' <= LeftBehind - 1 /\ LeftBehind' \in Int
      BY <3>1, <3>2, LoopsFinite DEF LeftBehind, TypeOK
    <3> QED
      BY <1>17, <2>1, <3>3 DEF Detach, At, Goto, Yes
  <2>2. CASE No /\ UNCHANGED <<loops, mounts>>
    BY <1>17, <2>2 DEF Detach, At, Goto, No
  <2> QED
    BY <1>17, <2>1, <2>2 DEF Detach
<1>18. CASE Interrupt
  BY <1>18 DEF Interrupt, Interrupted, Goto, build, card, bounds
<1>19. CASE DeployKernel
  BY <1>19 DEF DeployKernel, OnImage, build, card, bounds
<1>20. CASE InterruptDeployment
  BY <1>20 DEF InterruptDeployment, Interrupted, OnImage, build, card, bounds
<1>21. CASE ChangeSources
  BY <1>21 DEF ChangeSources, OnImage, build, card, bounds
<1>22. CASE BuildAlone
  BY <1>22 DEF BuildAlone, No, Fault, Interrupted, build, card, bounds
<1>23. CASE UNCHANGED vars
  BY <1>23 DEF vars, OnImage, build, card, bounds
<1> QED
  BY <1>1, <1>2, <1>3, <1>4, <1>5, <1>6, <1>7, <1>8, <1>9, <1>10, <1>11, <1>12, <1>13,
     <1>14, <1>15, <1>16, <1>17, <1>18, <1>19, <1>20, <1>21, <1>22, <1>23 DEF Next, Step

-----------------------------------------------------------------------------
LEMMA ImageStep == ImageInv /\ [Next]_vars => ImageInv'
BY CountersStep, TypeStep, ControlStep, WatchedStep, CopiedStep, ChainStep, DeviceStep, AccountStep
   DEF ImageInv

(* Every variable of the scripts keeps its type.                           *)
THEOREM BootImageTypeOK == Spec => []TypeOK
<1>1. ImageInv => TypeOK
  BY DEF ImageInv
<1> QED
  BY ImageInit, ImageStep, <1>1, PTL DEF Spec

(* What the pipeline never does: to copy to anything but its own image.    *)
LEMMA StrayStep ==
    ASSUME ImageInv, [Next]_vars, "bootable" \notin stray
    PROVE  "bootable" \notin stray'
<1>1. CASE CopyFiles
  BY <1>1 DEF CopyFiles, At, ImageInv, Control, Copied, BuildSteps, ArchiveSteps, ImageSteps, LoopSteps,
              CopySteps
<1>2. CASE CopyOverlays
  BY <1>2 DEF CopyOverlays, At, ImageInv, Control, Copied, BuildSteps, ArchiveSteps, ImageSteps, LoopSteps,
              CopySteps
<1>3. CASE ~CopyFiles /\ ~CopyOverlays
  <2>1. stray' = stray
    BY <1>3
       DEF Next, Step, Start, SourceSdk, BuildPackages, SafeClean, PopulateRootfs, PackArchive,
           InstallArchive, CopyArchive, CreateImage, AttachLoop, WaitForPartition, Format, Mount,
           Unmount, Detach, Interrupt, Interrupted, DeployKernel, InterruptDeployment, ChangeSources, BuildAlone,
           vars, card
  <2> QED
    BY <2>1
<1> QED
  BY <1>1, <1>2, <1>3

(* An image the pipeline reports as created has a filesystem and the files *)
(* of rpi_bootfs, and the pipeline copies to its own image only, whatever  *)
(* interrupted runs left attached or stacked on the mount point and        *)
(* however often that happened.                                            *)
THEOREM BootImageFaithful == Spec => []ImageFaithful
<1> DEFINE Inv == ImageInv /\ "bootable" \notin stray
<1>1. Init => Inv
  BY ImageInit DEF Init
<1>2. Inv /\ [Next]_vars => Inv'
  BY ImageStep, StrayStep
<1>3. Inv => ImageFaithful
  BY DEF ImageInv, Copied, ImageFaithful
<1> QED
  BY <1>1, <1>2, <1>3, PTL DEF Spec

(* A pipeline that ends with "All requested steps completed successfully." *)
(* without a refusal or a failed command has put the packages as they are  *)
(* built into rpi_bootfs, over whatever an interrupted run left there.     *)
THEOREM BootImageComplete == Spec => []CompleteIsCurrent
<1>1. ImageInv => CompleteIsCurrent
  BY DEF ImageInv, Chain, CompleteIsCurrent
<1> QED
  BY ImageInit, ImageStep, <1>1, PTL DEF Spec

(* Each interruption, failed command and refusal leaves at most a loop     *)
(* device and a mount behind, over any number of runs, and nothing stays   *)
(* mounted whose device was detached.                                      *)
THEOREM BootImageLoopsAccounted == Spec => []LoopsAccounted
<1>1. ImageInv => LoopsAccounted
  BY DEF ImageInv, Account, Mounted, LeftBehind, Paid, LoopsAccounted, LoopSteps
<1> QED
  BY ImageInit, ImageStep, <1>1, PTL DEF Spec
=============================================================================
