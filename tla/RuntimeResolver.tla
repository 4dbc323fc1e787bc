--------------------------- MODULE RuntimeResolver ---------------------------
(***************************************************************************)
(* scripts/resolve-runtime-deps.sh: finds the libraries the packages' ELF  *)
(* files need, copies them with their link chains from the SDK sysroot     *)
(* into the root filesystem, records them in runtime-libs.manifest and     *)
(* offers to remove the ones no longer required.                           *)
(*                                                                         *)
(* A world is what the script reads: the sysroot, the ELF files of the     *)
(* packages and the package manifest.  It changes between two runs only.   *)
(***************************************************************************)
EXTENDS RootfsTree, Sequences

CONSTANTS
    Libs,       \* library names, as in DT_NEEDED and PT_INTERP
    Worlds,     \* what the script may find, see WorldType
    StartTrees, \* the root filesystems the first run may find
    Torn,       \* content of a file whose copy was interrupted
    NotFound    \* find_library printed nothing

(* w.tree   the sysroot                                                    *)
(* w.find   the path of the first file or link called l that find prints   *)
(* w.needs  DT_NEEDED of the library l, in the order readelf prints it     *)
(* w.elfs   one list per package ELF: its interpreter, then its DT_NEEDED  *)
(* w.owned  the paths in package-files.manifest                            *)
WorldType ==
    [tree : Trees, find : [Libs -> Paths \cup {NotFound}], needs : [Libs -> Seq(Libs)],
     elfs : SUBSET Seq(Libs), owned : SUBSET Paths]

ASSUME WorldAssumption ==
    /\ Worlds \subseteq WorldType
    /\ NotFound \notin Paths \cup Libs
    /\ \A w \in Worlds, l \in Libs :
          w.find[l] # NotFound => w.tree[w.find[l]] \in Links \cup Regulars

ASSUME ResolverTreeAssumption ==
    /\ StartTrees \subseteq [Paths -> Entries]
    /\ \A p \in Paths : Below[p] = {}
    /\ Torn \in Contents

VARIABLES
    world,    \* the sysroot, ELF files and package manifest in place
    fs,       \* the root filesystem
    oldM,     \* runtime-libs.manifest, as paths; empty when missing
    newM,     \* runtime-libs.manifest.new
    pc,       \* where the script is; "idle" between runs
    elfs,     \* package ELF files not yet processed
    pending,  \* names still to resolve, innermost recursion first
    resolved, \* RESOLVED_LIBS
    lib,      \* the library being copied
    current,  \* CURRENT, the link or file of its chain being copied
    stale,    \* lines of the old manifest not yet looked at
    outcome   \* how the last run ended, "none" once the world changed

process == <<elfs, pending, resolved, lib, current, stale>>
vars == <<world, fs, oldM, newM, pc, process, outcome>>

NoLib == NotFound
NoPath == NotFound

Init ==
    /\ world \in Worlds
    /\ fs \in StartTrees
    /\ oldM = {} /\ newM = {}
    /\ pc = "idle" /\ outcome = "none"
    /\ elfs = {} /\ pending = <<>> /\ resolved = {}
    /\ lib = NoLib /\ current = NoPath /\ stale = {}

-----------------------------------------------------------------------------
(* Fault: the new manifest of a run that did not finish is not emptied.    *)
StartKeepsNewManifest ==
    /\ pc = "idle"
    /\ pc' = "scan"
    /\ elfs' = world.elfs
    /\ outcome' = "running"
    /\ UNCHANGED <<world, fs, oldM, newM, pending, resolved, lib, current, stale>>

Start ==
    /\ pc = "idle"
    /\ pc' = "scan"
    /\ newM' = {}
    /\ elfs' = world.elfs
    /\ outcome' = "running"
    /\ UNCHANGED <<world, fs, oldM, pending, resolved, lib, current, stale>>

Exit(status) ==
    /\ pc' = "idle"
    /\ outcome' = status
    /\ elfs' = {} /\ pending' = <<>> /\ resolved' = {}
    /\ lib' = NoLib /\ current' = NoPath /\ stale' = {}

Scanning == pc = "scan" /\ UNCHANGED <<world, fs, oldM, newM, stale>>

(* process_elf: the interpreter and the needed libraries come next.        *)
ProcessElf(e) ==
    /\ Scanning
    /\ pending = <<>>
    /\ e \in elfs
    /\ elfs' = elfs \ {e}
    /\ pending' = e
    /\ UNCHANGED <<pc, resolved, lib, current, outcome>>

(* resolve_library of the next name: known already, not in the sysroot, or *)
(* found.  A path ends in its name, so VISITED_PATHS adds nothing to       *)
(* RESOLVED_LIBS.                                                          *)
AlreadyResolved ==
    /\ Scanning
    /\ pending # <<>>
    /\ Head(pending) \in resolved
    /\ pending' = Tail(pending)
    /\ UNCHANGED <<pc, elfs, resolved, lib, current, outcome>>

(* Fault: a library that is not found is passed over.                      *)
NotFoundPassedOver ==
    /\ Scanning
    /\ pending # <<>>
    /\ Head(pending) \notin resolved
    /\ world.find[Head(pending)] = NotFound
    /\ pending' = Tail(pending)
    /\ UNCHANGED <<pc, elfs, resolved, lib, current, outcome>>

DependencyNotFound ==
    /\ pc = "scan"
    /\ pending # <<>>
    /\ Head(pending) \notin resolved
    /\ world.find[Head(pending)] = NotFound
    /\ Exit("failed")
    /\ UNCHANGED <<world, fs, oldM, newM>>

(* Fault: the library is not marked as resolved before its own needs are.  *)
ResolveUnmarked ==
    /\ Scanning
    /\ pending # <<>>
    /\ Head(pending) \notin resolved
    /\ world.find[Head(pending)] # NotFound
    /\ lib' = Head(pending)
    /\ current' = world.find[Head(pending)]
    /\ pending' = Tail(pending)
    /\ pc' = "copy"
    /\ UNCHANGED <<elfs, resolved, outcome>>

ResolveLibrary ==
    /\ Scanning
    /\ pending # <<>>
    /\ Head(pending) \notin resolved
    /\ world.find[Head(pending)] # NotFound
    /\ resolved' = resolved \cup {Head(pending)}
    /\ lib' = Head(pending)
    /\ current' = world.find[Head(pending)]
    /\ pending' = Tail(pending)
    /\ pc' = "copy"
    /\ UNCHANGED <<elfs, outcome>>

-----------------------------------------------------------------------------
(* A line of package-files.manifest is relative; sysroot_to_rootfs_path    *)
(* puts a slash in front, and grep -Fx compares whole lines.               *)
RelativeLine(p) == <<p>>
RootedLine(p) == <<"/", p>>
is_package_owned(p) == RootedLine(p) \in { RelativeLine(q) : q \in world.owned }

(* Fault: a regular file is taken as copied without comparing SHA256.      *)
SameKind(s, p) ==
    \/ s \in Links /\ fs[p] = s
    \/ s \in Regulars /\ Follow(fs, p) \in Regulars

(* The destination already is the sysroot's entry s: same link target, or  *)
(* same SHA256 of the file the destination leads to.                       *)
SameEntry(s, p) ==
    \/ s \in Links /\ fs[p] = s
    \/ s \in Regulars /\ Follow(fs, p) = s

(* Fault: the library's name is recorded in place of its path.             *)
CopyRecordsName(guard, label) ==
    /\ pc = "copy"
    /\ guard
    /\ newM' = newM \cup {lib}
    /\ IF is_package_owned(current)
       THEN Exit("failed")
       ELSE pc' = label /\ UNCHANGED <<process, outcome>>
    /\ UNCHANGED <<world, fs, oldM>>

(* copy_runtime_file records the path, gives up when a package owns it,    *)
(* then copies what is absent, skips what is the same and asks otherwise.  *)
copy_runtime_file(guard, label) ==
    /\ pc = "copy"
    /\ guard
    /\ newM' = newM \cup {current}
    /\ IF is_package_owned(current)
       THEN Exit("failed")
       ELSE pc' = label /\ UNCHANGED <<process, outcome>>
    /\ UNCHANGED <<world, fs, oldM>>

CopyAbsent   == copy_runtime_file(~Exists(fs, current), "place")
CopySkip     == copy_runtime_file(SameEntry(world.tree[current], current), "next")
CopyConflict == copy_runtime_file(/\ Exists(fs, current)
                                  /\ ~SameEntry(world.tree[current], current), "ask")

(* "Overwrite runtime file? [y/N]": y, anything else, end of file.         *)
OverwriteYes ==
    /\ pc = "ask"
    /\ fs' = Remove(fs, current)
    /\ pc' = "place"
    /\ UNCHANGED <<world, oldM, newM, process, outcome>>

OverwriteNo ==
    /\ pc = "ask"
    /\ newM' = {}
    /\ Exit("cancelled")
    /\ UNCHANGED <<world, fs, oldM>>

OverwriteEndOfFile ==
    /\ pc = "ask"
    /\ Exit("cancelled")
    /\ UNCHANGED <<world, fs, oldM, newM>>

PlaceEntry ==
    /\ pc = "place"
    /\ fs' = Place(fs, current, world.tree[current])
    /\ pc' = "next"
    /\ UNCHANGED <<world, oldM, newM, process, outcome>>

-----------------------------------------------------------------------------
(* realpath -m: the end of the chain of links from p, if it has one.       *)
LinkClosed(t, S) == \A q \in S : t[q] \in Links => t[q].to \in S
EndOf(t, p, q) ==
    /\ t[q] \notin Links
    /\ \A S \in SUBSET Paths : p \in S /\ LinkClosed(t, S) => q \in S
RealPath(t, p) ==
    IF \E q \in Paths : EndOf(t, p, q) THEN CHOOSE q \in Paths : EndOf(t, p, q) ELSE NotFound

(* The loop of copy_library_chain after a copy: CURRENT is a file, and the *)
(* library's own needs come next; or a link, and its end comes next.       *)
ChainEnd ==
    /\ pc = "next"
    /\ world.tree[current] \notin Links
    /\ pending' = world.needs[lib] \o pending
    /\ lib' = NoLib /\ current' = NoPath
    /\ pc' = "scan"
    /\ UNCHANGED <<world, fs, oldM, newM, elfs, resolved, stale, outcome>>

Target == RealPath(world.tree, world.tree[current].to)
Broken == Target = NotFound \/ ~Exists(world.tree, Target)

ChainNext ==
    /\ pc = "next"
    /\ world.tree[current] \in Links
    /\ ~Broken
    /\ current' = Target
    /\ pc' = "copy"
    /\ UNCHANGED <<world, fs, oldM, newM, elfs, pending, resolved, lib, stale, outcome>>

ChainBroken ==
    /\ pc = "next"
    /\ world.tree[current] \in Links
    /\ Broken
    /\ Exit("failed")
    /\ UNCHANGED <<world, fs, oldM, newM>>

-----------------------------------------------------------------------------
FinishScan ==
    /\ pc = "scan"
    /\ elfs = {} /\ pending = <<>>
    /\ pc' = "stale"
    /\ stale' = oldM
    /\ UNCHANGED <<world, fs, oldM, newM, elfs, pending, resolved, lib, current, outcome>>

(* Fault: the new manifest is not consulted.                               *)
ListedAndPresent(p) == Exists(fs, p)

IsStale(p) == p \notin newM /\ Exists(fs, p)

NextLine(p) ==
    /\ pc = "stale"
    /\ p \in stale
    /\ stale' = stale \ {p}
    /\ UNCHANGED <<world, oldM, newM, pc, elfs, pending, resolved, lib, current, outcome>>

StillRequired(p) == NextLine(p) /\ ~IsStale(p) /\ UNCHANGED fs

(* "Remove stale runtime file? [y/N]": y, anything else, end of file.      *)
RemoveStale(p) == NextLine(p) /\ IsStale(p) /\ fs' = Remove(fs, p)

KeepStale(p) == NextLine(p) /\ IsStale(p) /\ UNCHANGED fs

StaleEndOfFile(p) ==
    /\ pc = "stale"
    /\ p \in stale
    /\ IsStale(p)
    /\ Exit("cancelled")
    /\ UNCHANGED <<world, fs, oldM, newM>>

(* mv runtime-libs.manifest.new runtime-libs.manifest, and the report.     *)
Promote ==
    /\ pc = "stale"
    /\ stale = {}
    /\ oldM' = newM
    /\ newM' = {}
    /\ Exit("ok")
    /\ UNCHANGED <<world, fs>>

-----------------------------------------------------------------------------
Killed ==
    /\ pc # "idle"
    /\ Exit("killed")
    /\ \/ UNCHANGED fs
       \/ /\ pc = "place"
          /\ world.tree[current] \in Regulars
          /\ fs' = Place(fs, current, File(Torn))
    /\ UNCHANGED <<world, oldM, newM>>

(* A new SDK or rebuilt packages between two runs.                         *)
ChangeWorld ==
    /\ pc = "idle"
    /\ world' \in Worlds \ {world}
    /\ outcome' = "none"
    /\ UNCHANGED <<fs, oldM, newM, pc, process>>

Resolve ==
    \/ \E e \in elfs : ProcessElf(e)
    \/ AlreadyResolved \/ DependencyNotFound \/ ResolveLibrary
    \/ CopyAbsent \/ CopySkip \/ CopyConflict
    \/ OverwriteYes \/ OverwriteNo \/ OverwriteEndOfFile \/ PlaceEntry
    \/ ChainEnd \/ ChainNext \/ ChainBroken
    \/ FinishScan

Reconcile ==
    \/ \E p \in Paths :
          \/ StillRequired(p)
          \/ RemoveStale(p)
          \/ KeepStale(p)
          \/ StaleEndOfFile(p)
    \/ Promote

Next == Start \/ Resolve \/ Reconcile \/ Killed \/ ChangeWorld

Spec == Init /\ [][Next]_vars

(* The script goes on until a prompt, and the operator answers it.         *)
LiveSpec == Spec /\ WF_vars(Resolve) /\ WF_vars(Reconcile)

-----------------------------------------------------------------------------
TypeOK ==
    /\ world \in Worlds
    /\ fs \in [Paths -> Entries]
    /\ oldM \in SUBSET Paths
    /\ newM \in SUBSET Paths
    /\ pc \in {"idle", "scan", "copy", "ask", "place", "next", "stale"}
    /\ elfs \in SUBSET Seq(Libs)
    /\ pending \in Seq(Libs)
    /\ resolved \in SUBSET Libs
    /\ lib \in Libs \cup {NoLib}
    /\ current \in Paths \cup {NoPath}
    /\ stale \in SUBSET Paths
    /\ outcome \in {"none", "running", "ok", "cancelled", "failed", "killed"}

(* The dependency graph of the ELF files: the least set of libraries that  *)
(* has what each package ELF needs and what each of its members needs.     *)
NamesIn(s) == { s[i] : i \in DOMAIN s }
ClosedUnderNeeds(w, S) ==
    /\ \A e \in w.elfs : NamesIn(e) \subseteq S
    /\ \A l \in S : NamesIn(w.needs[l]) \subseteq S
Required(w) == { l \in Libs : \A S \in SUBSET Libs : ClosedUnderNeeds(w, S) => l \in S }

(* The link the library is found as and the file at the end of its chain.  *)
Chain(w, l) ==
    {w.find[l]} \cup (IF w.tree[w.find[l]] \in Links
                      THEN {RealPath(w.tree, w.tree[w.find[l]].to)} ELSE {})

FilesOf(w, S) == UNION { Chain(w, l) : l \in S }
RequiredFiles(w) == FilesOf(w, Required(w))

(* After a successful run runtime-libs.manifest holds the files of all     *)
(* libraries of the complete dependency graph, cyclic or shared ones       *)
(* included, and no others, whatever cancelled and killed runs and other   *)
(* SDKs came before.                                                       *)
ManifestExact == outcome = "ok" => oldM = RequiredFiles(world)

(* After a successful run every required library name leads, in the root   *)
(* filesystem, to the content it leads to in the sysroot.                  *)
LibrariesLoad ==
    outcome = "ok" =>
        \A l \in Required(world) :
            Follow(fs, world.find[l]) = Follow(world.tree, world.find[l])

(* After a successful run no file a package owns is in the runtime         *)
(* manifest: package ownership takes priority.                             *)
OneOwner == outcome = "ok" => oldM \cap world.owned = {}

(* A step of the stale check removes nothing that is a required file.      *)
StaleRemovalSparesRequired ==
    [][pc = "stale" => \A p \in RequiredFiles(world) : Exists(fs, p) => Exists(fs', p)]_vars

(* Every run ends, dependency cycles among the libraries notwithstanding.  *)
RunEnds == pc # "idle" ~> pc = "idle"

-----------------------------------------------------------------------------
(* The parts of the inductive invariant behind RuntimeResolverProofs.      *)

Copying == pc \in {"copy", "ask", "place", "next"}

(* A library is at hand exactly while its chain is copied, and the entry   *)
(* at hand is the link it was found as or the end of that link.            *)
ChainInv ==
    /\ outcome = "running" <=> pc # "idle"
    /\ pc = "idle" => elfs = {} /\ pending = <<>> /\ resolved = {}
    /\ pc = "stale" => elfs = {} /\ pending = <<>>
    /\ Copying <=> lib # NoLib
    /\ Copying =>
          /\ lib \in resolved
          /\ current \in Chain(world, lib)
          /\ world.tree[current] \in Links => current = world.find[lib]
          /\ current \in Paths
    /\ \A l \in resolved : world.find[l] # NotFound

(* Only required libraries are resolved or pending.                        *)
SoundInv ==
    /\ elfs \subseteq world.elfs
    /\ resolved \cup NamesIn(pending) \subseteq Required(world)

(* What a processed ELF file or a copied library needs is resolved or      *)
(* pending.                                                                *)
CompleteInv ==
    pc # "idle" =>
        /\ \A e \in world.elfs \ elfs : NamesIn(e) \subseteq resolved \cup NamesIn(pending)
        /\ \A l \in resolved \ {lib} :
              NamesIn(world.needs[l]) \subseteq resolved \cup NamesIn(pending)

(* The new manifest: the chains of the copied libraries, and what has been *)
(* recorded of the chain at hand.                                          *)
Recorded ==
    IF Copying
    THEN (IF current = world.find[lib] THEN {} ELSE {world.find[lib]})
            \cup (IF pc = "copy" THEN {} ELSE {current})
    ELSE {}

RecordInv ==
    pc # "idle" => newM = FilesOf(world, resolved \ {lib}) \cup Recorded

(* Where one sysroot has a regular file, neither another sysroot nor the   *)
(* first root filesystem has a link; and the link a library is found as    *)
(* leads to its file directly.                                             *)
KindsKept ==
    \A v \in Worlds, p \in Paths :
        v.tree[p] \in Regulars =>
            \A t \in { w.tree : w \in Worlds } \cup StartTrees : t[p] \notin Links

OneLinkChains ==
    \A w \in Worlds, l \in Libs :
        w.find[l] # NotFound /\ w.tree[w.find[l]] \in Links =>
            w.tree[w.tree[w.find[l]].to] \notin Links

(* What the new manifest lists is in place, but for the entry at hand      *)
(* while it is replaced; no link stands where a file of a sysroot goes.    *)
PlacedInv ==
    /\ \A v \in Worlds, p \in Paths : v.tree[p] \in Regulars => fs[p] \notin Links
    /\ pc # "idle" =>
          \A p \in newM \ (IF pc \in {"ask", "place"} THEN {current} ELSE {}) :
              fs[p] = world.tree[p]
    /\ outcome = "ok" => \A p \in oldM : fs[p] = world.tree[p]

Inv ==
    /\ TypeOK /\ ChainInv /\ SoundInv /\ CompleteInv /\ RecordInv /\ ManifestExact
    /\ KindsKept => PlacedInv
=============================================================================
