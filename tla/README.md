# TLA+ specification of the Raspberry Pi 5 platform

The repository builds and runs a Raspberry Pi 5 userspace: an SDK, three packages, a
root filesystem assembled from them, an initramfs and a bootable image, and on the
target BusyBox init, the BusyBox DHCP client and Dropbear. The host side is shell
scripts that keep state on disk from one run to the next (`rpi_rootfs/`, two ownership
manifests, a signed SDK directory, archives, loop devices) and that an operator may
cancel, that may fail half way and that may be killed at any point; the modules
describe them as state machines over *histories of runs*. The target side is three
long-running C programs that decide whether the board boots, has an address and can be
logged in to; the modules describe their event loops against everything that may
interleave with them.

## 1. Inventory

| Component | Source | State it keeps | Operations | Hard part |
|---|---|---|---|---|
| Package rootfs builder | `scripts/rootfs-builder.sh` | `rpi_rootfs/`, `package-files.manifest(.new)` | merge each `packages/*/install`, ask on conflicts, record, stale check, promote, banner | crash, cancel, releases that drop or change the kind of a path, links |
| Runtime dependency resolver | `scripts/resolve-runtime-deps.sh` | `rpi_rootfs/`, `runtime-libs.manifest(.new)` | scan ELF files, resolve recursively, copy link chains, stale check, promote | cyclic graphs, SDK changes, ownership conflicts, crash |
| SDK manager | `scripts/prepare-sdk.sh`, `sdk/environment-setup` | SDK directory, `.sdk-sha256` | compare, ask, remove, extract, sign, verify, select | crash in `rm -rf`, `tar` or before verification; replaced tarball |
| Safe rootfs clean | `scripts/rootfs_safe_clean.sh` | `rpi_rootfs/`, `.metadata` | remove generated directories and metadata | leaves `usr/share` without its manifest |
| Package build scripts | `packages/*/build.sh` | `build/`, `install/` | prepare SDK, configure, make, install | exit status 0 without a build; install tree not emptied |
| Pipeline | `scripts/build_rootfs_pipeline.sh` | none of its own | nine steps over all of the above | success of a step that did nothing; which SDK each step uses |
| Initramfs image | `scripts/mount_rootfs_zip.sh` | `rootfs.cpio.gz` twice | archive, compare, ask, install | old archive stays with status 0 |
| Bootable image | `lib/rpi5_image.sh` | image, loop device, mount | partition, attach, wait, format, mount, copy, unmount, detach | leaked loop devices and mounts, timeout |
| Kernel deployment | `kernel/deploy_kernel.sh` | `rpi_bootfs/` | compress, copy kernel, device tree, overlays, verify | half a deployment |
| Target boot | `rpi_rootfs/init`, `etc/inittab`, `etc/init.d/startup.sh` | mounts, network | mount, DHCP with a fallback, Dropbear | waits for the DHCP client |
| BusyBox init | `packages/busybox/source/init/init.c` | action list with pids, pending signals | run and wait, respawn, reload, ctrl-alt-del, stop and continue, shutdown | children ending, signals and reloads at any step |
| BusyBox udhcpc | `packages/busybox/source/networking/udhcp/dhcpc.c` | DHCP state, timers, lease, socket | discover, request, renew, rebind, release, give up | lost, late, duplicated replies; timeouts; signals |
| Dropbear session channel | `packages/dropbear-2026.91/source/src/common-channel.c`, `svr-chansession.c`, `cli-chansession.c` | two `struct Channel`, windows, buffers, descriptors | open, start a command, data both ways, window, eof, close, exit status | crossing packets, partial and failing writes, exit before output |

The scripts interact through files only. The builder reads what the package builds
install and writes the package manifest; the resolver reads the same install trees,
the sysroot of the SDK and the package manifest and writes the runtime manifest; the
safe clean removes both manifests; the package builds call the SDK manager; the
pipeline runs everything in order in one shell whose exported variables the scripts
inherit, and ends with the archive, which the kernel deployment shares `rpi_bootfs`
with, and the image made of `rpi_bootfs`. On the target `rpi_rootfs/init` execs
BusyBox init, whose sysinit entry runs `startup.sh`, which waits for `udhcpc` to get a
lease or to fail and then starts Dropbear. `lib/common.sh`, `lib/logging.sh` and
`lib/runtime.sh` are sourced by nothing.

What makes the parts correct:

- builder: the promoted manifest is exactly what the packages provide in the package
  namespaces; a successful run has installed everything; the stale check removes only
  what no package provides; configuration is never disposable; a later run recovers
  from any interruption;
- resolver: it terminates; the promoted manifest is the complete dependency closure;
  every required library name leads to the sysroot's content; nothing required is
  removed; a package's file has one owner;
- SDK manager: never a mixture of two SDKs; what is used is complete and current; a
  good tarball leads to an SDK in the end;
- pipeline, archive and image: what is reported as complete is what was built; an image
  holds what `rpi_bootfs` holds; what failures leave attached and mounted is bounded and
  cleared by later runs; who starts over gets an image;
- init: entries and processes stay in step; nothing runs twice; no death of a child is
  slept through; what must be restarted is; the machine goes down, in order;
- udhcpc: the interface has an address exactly while a lease is held and never longer
  than it was granted; only the first attempt may fail for want of one; the boot goes on;
- session channel: to the programs at its ends it is three pipes; the window is
  conserved; no assertion or fatal error is reached; the exit status arrives; the
  session ends.

## 2. Modules

| Module | Role |
|---|---|
| `RootfsTree` | the root filesystem: paths, entries (absent, directory, file, link, special), `Follow`, `Remove`, `Place`; shared by builder and resolver |
| `RootfsBuilder` | `rootfs-builder.sh` |
| `RuntimeResolver` | `resolve-runtime-deps.sh` |
| `SdkManager` | `prepare-sdk.sh` with the checks that follow it |
| `BootImage` | `build_rootfs_pipeline.sh`, `rootfs_safe_clean.sh`, `mount_rootfs_zip.sh`, `lib/rpi5_image.sh` and `deploy_kernel.sh` composed over versions of contents |
| `BusyboxInit` | `init.c`, with its children and the operator |
| `Udhcpc` | `dhcpc.c`, with DHCP servers, the network, the operator and the DHCP step of `startup.sh` |
| `SshSession` | a Dropbear session channel at client and server, with the network and the programs |
| `RemoteCommand` | what a session channel promises: three pipes and an exit status; `SshSession` implements it |
| `MC...` | instances for TLC |
| `...Proofs` | theorems and proofs |

Definitions commented `Fault:` are wrong variants of the definition after them; no
specification uses them, they exist to see that a property notices the fault.

### RootfsTree

A path is a model element with the set of paths below it and the namespace directory
it lies in. A file is its content (what `sha256sum` distinguishes), a link is its
target path. `Follow` is what `[ -f "$DEST" ]` and `sha256sum "$DEST"` look at: a
link is followed, `Exists` does not follow. Links name files, never directories, so
no path is reached through a link. File modes are left out.

### RootfsBuilder

`install` is the content of all `packages/*/install`, `fs` the root filesystem,
`oldM` and `newM` the two manifest files. `pc` is where the running script is, `todo`
the entries `find` has still to deliver, `cur` the entry at hand, `stale` the
remaining lines of the old manifest. `outcome` is how the last run ended and is reset
when something changes between runs.

One action per branch of `merge_package` (`MergeDirectory`, `MergeDirectoryFails`,
`MergeSkip`, `MergeConflict`, `MergeAbsent`), one per answer at a prompt
(`OverwriteYes`, `OverwriteNo`; `RemoveStale`, `KeepStale`, `StaleEndOfFile`), and
`CopyEntry`, `FinishMerge`, `StillProvided`, `Promote`, `InstallBanner`. `Remove` by
`rm -rf` and the copy that follows are two steps, so a kill fits between them;
`Killed` may also leave a torn copy. `Rebuild` replaces the install trees and
`HandEdit` changes the root filesystem between runs. `find`'s order is left open
except that a package is finished before the next and a directory comes before its
contents. `Start(s)` takes the shell the script was started from, since the banner
goes to an inherited `$ROOTFS`: the directory being built in the pipeline, another
one after `environment-setup` alone, unset in a plain shell. In a plain shell, which is
how the script's header shows its use, a run therefore always fails at the banner,
after the manifest was promoted.

### RuntimeResolver

A *world* is what the script reads: the sysroot tree, where `find` meets each library
name, `DT_NEEDED` of each library, the needs of each package ELF (interpreter first)
and the package manifest. It changes between runs only. The recursion of
`resolve_library` is the sequence `pending`: a library's own needs go in front when
its chain is copied. `RESOLVED_LIBS` is `resolved`; `VISITED_PATHS` adds nothing to
it, since a path ends in the library's name. `CURRENT` walks the link chain with
`realpath -m` as in the code (`RealPath`). The ownership check compares manifest
*lines*: the builder's have no leading slash, the resolver's have one.

Links of the sysroot are taken as links to other files of the sysroot, and no
modelled path lies inside another one (`ResolverTreeAssumption`).

### SdkManager

`tarball` is the tarball in buildroot's output, `dir`, `sdk` and `sha` the SDK
directory, the origin of each of its parts and `.sdk-sha256`. `rm -rf` and `tar` work
part by part. `KillPoints` and `SwapPoints` are the places where a build may be killed
and the tarball replaced, so each result says which interference it tolerates. `tar`
keeps the tarball it has opened. Some tarballs lack a sysroot or compiler, some are
truncated. A build ends `ready` when `environment-setup` and the checks of `build.sh`
accept the directory (no other compiler of that name being on the PATH); only
`custom-sdk` runs the SDK manager.

### BootImage

Contents are versions of the sources, `None` or `Torn`. `pc` is the step of the running
script and `mode` how it was started: the pipeline with and without `--bootable`,
`mount_rootfs_zip.sh` or `lib/rpi5_image.sh` alone. The pipeline has `set -e`, the image
script alone has not, so `ErrExit` decides what a failing command leads to. The package
builder and the resolver are one step here, with the outcomes their own modules give:
the rootfs is that of the packages, or they fail half way. A refused SDK ends `build.sh`
with status 0 (`BuildPackages`), a refused archive the archive script (`InstallArchive`);
a failing `cpio` (`PackArchive`) or `find -exec cp` (`CopyOverlays`) is not noticed, as in
the code. `loops` are the loop devices attached, `mounts` the stack of devices on the
one mount point; `Unmounted` is `unmount_partition_everywhere`, which takes this run's
partition and one more. `deploy_kernel.sh` runs next to all of it (`dpc`).

With two stale mounts on the mount point a run fails at the final check of
`unmount_partition_everywhere` and, under `set -e`, leaves its own loop device attached;
it has taken one stale mount away. That exchange is why `LoopsAccounted` bounds the sum
of devices and mounts.

`sdk` says whether there is a compiler. The pipeline needs it before it builds anything;
`prepare_sdk` inside the builds removes and extracts the SDK again, so an interruption or
a failing `tar` there (`BuildPackages`, `Interrupt`) loses it, and every pipeline stops at
its first step until somebody runs a `build.sh` by itself (`BuildAlone`).

### BusyboxInit

`list` is `init_action_list`, `proc` and `job` the process table, `pending` the blocked
signals `sigtimedwait` will take. A step is a system call that can block or be
interrupted: a fork and the store of its pid are two (`RunEntry`, `StorePid`), so are the
rounds of `waitfor`, the polls between the stages and each `waitpid`. `sigtimedwait`
takes the lowest signal number first, so SIGPWR, a halt signal like SIGUSR1, comes after
SIGCHLD. A shutdown discards the other pending signals. `Stop`, `StopReap` and `Continue` are
`stop_handler`, which runs inside any other step and reaps children. The instance uses
the platform's inittab and an edited one without the console entry, with the shutdown
entries in the other order and a wait and a restart entry.

### Udhcpc

The variables are those of the event loop. Time goes on in ticks in `poll()` and in the
pause after a read error only, and an elapsed timeout is served before time goes on.
`net` holds the replies the client would accept (those with its xid): it keeps the xid
from DISCOVER on, so old ones stay acceptable for `MaxAge`; `lessor` and `grant` record,
for the properties, who granted the address and for how much longer by the server's
clock. A lease is an unsigned number cut to `IntMax` and raised to `LeaseFloor`
(`Sanitized`). The client ends in three ways: it fails for want of a lease where `-n` says
so; it dies with status 1 when `change_listen_mode` cannot open a socket (for a search, a
renewal, a rebinding, on SIGUSR1 or after a read error), `poll()` fails or it cannot go to
the background (`Die`); when the interface is gone it ends with status 0. After the first
two a waiting `startup.sh` assigns the static address; a client that dies later leaves its
address on the interface, which no property about a running client covers. The
configuration script udhcpc calls (`default.script`) is not in the repository; the model
takes it to do what udhcpc's calls ask for: set the address on `bound` and `renew`, clear
it on `deconfig`.

### SshSession and RemoteCommand

`chan[e]` is `struct Channel` at one end; the helpers of `common-channel.c`
(`check_close`, `close_chan_fd`, `writechannel`, ...) are functions of it and the actions
are the packet handlers and the descriptor events of `channelio`. A write takes any
number of the bytes offered. `fatal` records the `dropbear_exit` or assertion an end
reached. Bytes are numbered, so the refinement sees loss, repetition and order.

A command exits by itself or is killed by a signal, with or without a name in `signames`
(`ExitSignals`): the server sends `exit-status`, `exit-signal` or nothing
(`closehandler`), and the client takes over the first and ignores the second
(`cli_chansessreq`). Processes the command leaves behind may hold its streams
(`Lingers`) and go on writing until the server closes the pipe (`Writes`, `Connected`).

`RemoteCommand` is written from the user's point of view: a byte arrives after those
before it, the end of a stream is seen only with all of its bytes, the status only of
a command that exited; when a user's program has gone the session may be cut. The
refinement mapping reads a reader's view off the descriptor it is served by.

## 3. Runs

| Run | Result | What it shows |
|---|---|---|
| `builder` | holds, 102 192 states | `ManifestExact`, `InstalledOnSuccess`, `StaleRemovalSparesProvided`, `ConfigurationPreserved` over all histories of three releases; the inductive invariant `MergeInv` |
| `builder_recovers` | holds, 102 192 states | `RecoversEventually`, over the same histories |
| `resolver` | holds, 14 956 states | `ManifestExact`, `LibrariesLoad`, `StaleRemovalSparesRequired`, `RunEnds`; the inductive invariant `Inv` |
| `sdk` | holds | `SameGeneration`, `ReadyIsCurrent`, `SdkEventuallyReady` with kills outside `rm -rf` and tarballs replaced between builds |
| `image` | holds, 700 296 states | `ImageFaithful`, `CompleteIsCurrent`, `LoopsAccounted`, `ImageEventually` |
| `init` | holds, 99 536 states | `EntryPidRuns`, `OneInstance`, `NoLostWakeup`, `ShutdownInOrder`, `RespawnsAgain`, `GoesDown` |
| `udhcpc` | holds, 1 794 517 states | `AddressMatchesState`, `LeaseHonoured`, `FailsOnlyAtBoot`, `BootContinues` |
| `channel` | holds, 331 482 states | `NeverFatal`, `WindowConserved`, `StatusReported`, the refinement `ThreePipes`, `SessionEnds` |
| `builder_file_becomes_directory` | violated | the stale check deletes a directory just installed |
| `resolver_owner` | violated | the package ownership check never matches |
| `sdk_interrupted_removal` | violated | an SDK with missing files passes as up to date |
| `channel_failed_write` | violated | a client that cannot write its output drops data for ever and never closes |

Each violated run states what a comment, message or document of the repository says;
`PROJECT.json` quotes it.

**Further departures.** These properties are stated in the modules and are false for the
code in cases the passing runs leave out on purpose. Each is refuted by the named run's
configuration with the change given:

| Property | Change | What happens |
|---|---|---|
| `RootfsBuilder!ContentOnSuccess` | `builder` with `Installs <- LinkBecomesFile`, `Edits = {}` | "Destination must also be a regular file" (rootfs-builder.sh:350), but `[ -f ]` and `sha256sum` follow a link: the file is skipped, then the link's target changes |
| `RootfsBuilder!PackageFilesRecorded` | `builder` with `TidySpec`, `Installs <- DroppedProgram`, `Edits = {}` | files of an interrupted run are in no manifest and are never stale |
| `RuntimeResolver!LibrariesLoad` | `resolver` with `Worlds <- LongChain` | "All required entries are copied" (resolve-runtime-deps.sh:383), but `realpath -m` skips the middle link |
| `RuntimeResolver!LibrariesLoad` | `resolver` with `Worlds <- LinkBecomesFile` | a new regular file is skipped because of an old link, whose target is then removed as stale |
| `BusyboxInit!WaitforReturns` | `init` with `"sysinit"` in `StopsIn` | `stop_handler` reaps the process `waitfor` waits for; `wait()` then blocks until another child ends |
| `BusyboxInit!EntryPidRuns` | `init` with `"respawn"` in `ForkFailsIn`, or in `StopsIn` | a failed fork stores -1 as the pid and the entry is never started again; a child reaped between `fork` and the store leaves a dead pid behind |
| `BusyboxInit!PowerFailHalts` | `init` | SIGPWR waits behind SIGCHLD: a respawn command that ends at once keeps it pending for ever, and a SIGQUIT discards it |
| `Udhcpc!LessorKnown` | `udhcpc` | after a rebinding ACK of another server `server_id` is still the old one |
| `SshSession!ClosedIsRemoved` | `channel` with `Bytes <- MCInput`, `CanLeave = {}`, `SpawnFails = FALSE` | both sides have closed, the server's exit was recorded with input still buffered, and no event calls `check_close` again |
| `SshSession!EofKeepsOutput` | `channel` with `Bytes <- MCInput`, `CanLeave = {}`, `Pty = TRUE` | the end of the input closes the terminal, which is also where the output is read |

Six more weaknesses are plain from the code and need no state exploration. The client of
a command killed by a signal ends with `EXIT_SUCCESS`, since it ignores `exit-signal`
(cli-chansession.c:70, cli-session.c:165); a DHCP client that cannot open a socket for a
renewal dies and leaves its address behind (udhcp/socket.c:86). In a plain
shell the builder fails at the banner after its promotion (rootfs-builder.sh:676); the
resolver takes `custom-sdk` whatever SDK the pipeline was started with
(build_rootfs_pipeline.sh:239); the safe clean keeps `usr/share` but not the manifest that
lists its files (rootfs_safe_clean.sh:155); Dropbear's install tree is not emptied before
`make install` (packages/dropbear-2026.91/build.sh:306).

`CompleteIsCurrent` holds only where no prompt was answered with no and no command
failed: with a refusal (also of the SDK, prepare-sdk.sh:151), or with a failing `cpio`,
the pipeline prints `All requested steps completed successfully.`
(build_rootfs_pipeline.sh:299) over an archive that is not that of the packages.
`ImageFaithful` speaks of the pipeline with `--bootable`; the image script started by
itself goes on after a failing `mount` and may report an image whose files lie under the
mount point. `GoesDown` excepts a SIGQUIT that is pending with a restart
entry listed: it is taken first, and the init it execs does not know the other signal.

**Bounds.** The histories of builder, resolver and SDK manager are unbounded: runs repeat
for ever, and the state spaces are finite because nothing counts. Builder: six paths
(two programs, one of them also a link; a directory and a file in it; configuration; the
banner), two packages and three releases are enough for a path provided twice, a dropped
path, a changed file, a link, a nested path, an unsupported entry, an unrecorded path and
their combinations with three hand edits; `builder_recovers` has the same ones. Resolver:
three libraries with a cycle, one of them a link to a versioned file, and five worlds
(first SDK, a package less, new library version, missing library, broken link). SDK:
three parts and four tarballs (two good, one without sysroot, one truncated).

Image: two versions, one interruption, one failing command and one refusal, in any number
of runs and in any order; together they leave up to three devices or mounts behind, which
is enough for stacked mounts and for a run that fails because of them. Init: two signals
or stops of any kind (a reload with a shutdown, two reloads that remove and add an entry),
one daemon, four pids of which the lowest free one is given out, so that pids are reused
at once; children end any number of times. Udhcpc: two servers, a lease below the floor
and one above `IntMax`, two DISCOVERs instead of five, retries every two ticks instead of
every three seconds, leases of 17 and of 40 ticks: the first satisfies
`TimeoutAssumption` as tightly as the code does, with the second a renewal is repeated; replies under way for one tick, one NAK, one
read error, two signals; renewals are unbounded. Channel: a window of three bytes, packets of two, one byte of input, two of
output and one of errors share it, so that the window runs out, is extended and is
contended for; the standard error may be held by a process left behind, and the signal has
a name. All output fits into the first window and every write extends it
(`WindowExtend` is 1), so the oversized-packet check, `recvdonelen`, a nameless signal and
processes that hold both streams rest on the theorems; `channel_failed_write` writes five
bytes of output. In `sdk` tarballs change between builds and `rm -rf` is not killed; other
moments rest on `SdkSameGeneration` and on `sdk_interrupted_removal`.

**Fairness.** `builder_recovers`, `resolver` and `sdk` assume weak fairness of the
script's own steps, prompts included: the shell keeps executing, and an operator who
is asked answers something. `builder_recovers` and `sdk` also assume that runs are
started again. The two recovery properties are conditional: from some point on
nobody kills, edits or replaces anything and the prompts are confirmed.
`RecoversEventually` grants one thing more: a file put by hand where a package has a
directory makes `mkdir -p` fail in every run until somebody removes it (`Blocked`). `image`
assumes weak fairness of a started script, and strong fairness of building an SDK that is
missing and of starting the pipeline for an image: `ImageEventually` is about an operator
who does not give up and who looks after the SDK. `init` assumes that process 1 is scheduled, that who stops it continues it, and
that the commands it *waits for* end, as the inittab's author must see to; nothing is
assumed of respawned commands. `udhcpc` assumes that the client is scheduled and time goes
on, nothing of servers or the network. `channel` assumes that both processes and the
transport go on while they have something to do, and that a program that reads takes
what it is offered; no program need write, end or exit. The bytes a program writes are
bounded, and a process left behind that writes for ever would keep the session open. No fairness is assumed of kills,
edits, failures or signals.

**Deadlock** is checked where a new run can always start (builder, resolver, SDK, image).
`init` stops when the machine is down, `udhcpc` when the client has ended, `channel` when
the session is over.

## 4. Theorems

Proved for all values of the constants that satisfy the named assumptions of the
modules (TLC evaluates the same assumptions in the runs):

- `BuilderInvariant`, `BuilderTypeOK`, `BuilderManifestExact`. The inductive invariant
  `Inv` adds to the types what each phase knows (`PhaseInv`), that the new manifest is
  exactly the package-owned paths already taken from `find` (`ManifestInv`), and that
  packages are merged one after the other with their directories present (`WalkInv`).
  `ManifestExact` alone is not inductive: it speaks about the end of a run, where
  `ManifestInv` with nothing left to deliver gives it.
- `BuilderConfigurationPreserved`, from `Inv`: old manifests hold package-owned paths
  only and nothing below such a path is configuration.
- `BuilderInstalledOnSuccess` and `BuilderStaleRemoval`, under `KindsFixed` (no release
  provides a file or link at a path that has paths below it), with `InstallInv`: what
  has been merged stays installed. Without `KindsFixed` the second one is false: that
  is run `builder_file_becomes_directory`.
- `ResolverInvariant`, `ResolverManifestExact`, `ResolverStaleRemoval`. `SoundInv`:
  only required libraries are resolved or pending. `CompleteInv`: what a processed ELF
  or copied library needs is resolved or pending, so with nothing pending the resolved
  set is closed and, with `SoundInv`, the least closed set. `RecordInv` ties the new
  manifest to the chains of the resolved libraries.
- `SdkTypeOK`, `SdkSameGeneration`, for every kind of interference, from
  `GenerationInv`: extraction starts without a directory and puts parts of one tarball.
- `SdkReadyIsCurrent`, if `SwapPoints = {"idle"}` and `"remove" \notin KillPoints`, from
  `SignatureInv`: outside `rm -rf` a signature is that of a complete SDK, or of a
  tarball that has no sysroot or compiler and that the later checks refuse. Without
  the second condition it is false (`sdk_interrupted_removal`); replacing the tarball
  at the prompt breaks it too, since the signature is computed before and stored after.

- `BuilderMergeInvariant` (the invariant of the run as one statement, under `KindsFixed`)
  and `ResolverTypeOK`.
- `UdhcpcTypeOK`, `UdhcpcAddressMatchesState`, `UdhcpcLeaseHonoured`,
  `UdhcpcFailsOnlyAtBoot`, from `ClientInv`, for any number of servers, lease times, lost,
  late and duplicated replies. `Asking`: a client that waits or holds a lease has a server
  and an address to name, so an ACK, however late, is one for that address.
  `OptionInForce`: `-n` is set exactly while `startup.sh` waits, which gives
  `FailsOnlyAtBoot`; it speaks of giving up for want of a lease, not of `Die`. `LeaseInv` is a budget:
  in each holding state it says how much of the lease is sure to be left when `poll()`
  times out. `LeaseHonoured` alone is not inductive, since it does not say that a
  renewal started late still leaves time for the rebinding that follows.
  The budget adds up under `TimeoutAssumption`: a renewal, a second one asked for by
  SIGUSR1 and the three rebinding packets fit into half of the shortest lease. The
  defaults of the code, 3 s and 30 s, satisfy it with 14 against 15; `-T 4` would not.
- `BootImageTypeOK`, `BootImageFaithful`, `BootImageComplete`, `BootImageLoopsAccounted`,
  from `ImageInv`, for any number of versions, interruptions, failures and refusals.
  `Chain` says how far the packages have come towards `rpi_bootfs`, `OwnDevice` and
  `Mounted` that a run's device is attached and, if mounted, on top of the stale ones,
  so that copies go where they should; `Copied` what is then on the image. `Account`
  charges every device and mount that is left behind to a disturbance: at most two
  each, with a credit while a run holds its own. A run of the image script by itself
  goes on after a failing `mkfs` or `mount` and must already have paid for it.
- `SshSessionInvariant`, `SshTypeOK`, `SshNeverFatal`, `SshWindowConserved`,
  `SshStatusReported`, from `SessionInv`, for every window, packet size and amount of
  data. `Protocol` has the phases of the opening and, for each end, what it has sent:
  nothing after a close, no data after an end of file, the status before the close unless
  a signal killed the command, and what the peer has been told of it. `Balance` has the window: what the sender may send
  and what is under way together never exceed what the receiver still admits, and are
  equal to it as long as nothing was dropped. It is what excludes the assertions and the fatal
  errors of `recv_msg_channel_data`; `NeverFatal` on its own says nothing of packets
  under way. The data under way are a sum over a queue, which is a recursive function; its
  facts (appending and taking a packet) are proved from the least number at which they
  could fail.
- `InitInvariant`, `InitTypeOK`, `InitOneInstance`, `InitNoLostWakeup`, for every inittab
  (the same command may occur on several lines), any number of processes and signals,
  and with stops and failing forks anywhere. `ListInv`: after any number of reloads no
  command is listed twice, and the entries not removed are lines of the loaded inittab
  in its order; it rests on lemmas about `new_init_action`, `parse_inittab` and the
  removal of stale entries, which are recursions over lists. `Kept`: every respawned
  process is held by an entry of its command, or was forked and its pid is about to be stored. With
  distinct commands this gives `OneInstance`, which by itself does not exclude a
  running process without an entry. `Watched`: while init starts processes or sleeps, the
  death of a listed process is announced by a pending SIGCHLD.
- `InitEntryPidRuns`, if `"respawn"` is neither in `ForkFailsIn` nor in `StopsIn`, with `Alive`
  (the forked process lives until its pid is stored). Both conditions are
  needed (section 3).
- `InitShutdownInOrder`, if `"shutdown" \notin ForkFailsIn`: a command that cannot be forked
  is not run. `ShutdownInv` says that the commands started so far are exactly the
  shutdown entries passed so far, by an increasing enumeration of their positions.
- `ResolverLibrariesLoad`, under `KindsKept` (no SDK, and no filesystem the resolver starts
  from, has a link where an SDK has a regular file) and `OneLinkChains` (a library's link
  names a file). `PlacedInv`, part of `Inv` under the first condition, says that every entry of
  the new manifest but the one at hand is in the filesystem as it is in the sysroot; `ManifestExact`
  alone knows names, not contents. The second condition is used only where a link is
  followed. Both are needed: they exclude exactly the cases `LinkBecomesFile` and
  `LongChain` of section 3. `Follow` is a bounded recursive function; that it exists, and what
  it gives after one link, is again proved from a least number.
- `SshThreePipes`: without a terminal (`~Pty`), `SshSession` implements `RemoteCommand`, for
  every window, packet size and amount of data. `SessionInv` knows lengths and windows but not
  which bytes are where, so `RefInv` adds, for each stream, `Flow`: the bytes its reader
  has, those buffered, those in the packets under way and those in the pipe follow one
  another without gap or repetition, up to the last one written; and `Sealed`: a descriptor closed for
  reading means that everything was read or that nobody is left to read, also when a
  process left behind wrote after the exit. `UserDone`: the client closes
  the user's output only after an end of file has come or when the user's program has gone.
  `Fate` has what each end and the packets between them know of the command: not started,
  running, exited, or failed to start. Each action then has a lemma (`Pipes...`) that it keeps `RefInv` and is a step of
  `RemoteCommand` or a stutter. With a terminal nothing is claimed: there the end of the
  input closes the descriptor the output is read from (`EofKeepsOutput`, section 3).

The inductive invariants of builder and resolver are checked by TLC in the runs (`MergeInv`,
`Inv`). Those of the other modules are stated in the proof modules.

Model-checked only: liveness (`RecoversEventually`, `RunEnds`, `SdkEventuallyReady`,
`ImageEventually`, `RespawnsAgain`, `GoesDown`, `BootContinues`, `SessionEnds`), which is
outside the proof system's reach. Every invariant, every action property and the refinement
that a run checks is stated by a theorem, under the conditions given above.

## 5. Not modelled

Wording and layout of the output, counters, file modes, host tool checks, argument
checks, and races between two copies of a script run at the same time (the scripts
are started by hand, one after the other). In the pipeline, which tarball an SDK comes
from: that the remains of an SDK pass as up to date when a switched tarball is switched
back (`sdk_interrupted_removal`) is not composed with it. In the resolver, the directories a copied
library lies in, and symbolic links to directories in the sysroot. In the SDK
manager, tarballs overwritten in place while `tar` reads them. In the safe clean, which
paths stay. In init, terminals, consoles and the environment; in the DHCP client, packet
layout, the ARP check, the options `startup.sh` does not give and `default.script`; in
Dropbear, the time between a `select()` that finds a pipe empty and the close it leads
to (what a process left behind writes in between meets a closed pipe), several
channels at once, forwarding, signals sent to the command, and the transport (key
exchange, encryption, authentication), whose reliable, ordered packets the channel
builds on.

The repository holds about 478 000 lines of implementation, nearly all of them vendored:
BusyBox's applets (two shells, a calculator, editors, archivers) of which the platform
starts a handful, Dropbear's ciphers, libtomcrypt and libtommath with their test vectors,
generated headers, and rt-tests. The scripts the platform wrote itself are modelled, and
of the vendored code the three event loops its boot and its remote login depend on. The
rest is parsing, formatting and arithmetic without interleavings or persistent state,
which a state machine would only repeat; a share of the lines as large as 30 % is out of
reach for faithful models.

## 6. Plan

The safe clean as an action of `RootfsBuilder` on single paths, with both manifests.
