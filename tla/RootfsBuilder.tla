---------------------------- MODULE RootfsBuilder ----------------------------
(***************************************************************************)
(* scripts/rootfs-builder.sh: merges every packages/*/install tree into    *)
(* the root filesystem, records the package-owned paths in a new manifest, *)
(* offers to remove the stale ones and promotes the new manifest.          *)
(*                                                                         *)
(* One behaviour is a history of runs of the script.  Between two runs a   *)
(* package may be rebuilt and somebody may edit the root filesystem by     *)
(* hand; a run may be cancelled at a prompt, or killed at any point.       *)
(***************************************************************************)
EXTENDS RootfsTree

CONSTANTS
    Packages,     \* the directories packages/*
    Installs,     \* the install trees package builds can leave behind
    Edits,        \* the changes <<path, entry>> made to the rootfs by hand
    Torn,         \* content of a file whose copy was interrupted
    Banner,       \* content of lib/banner
    BannerPath,   \* usr/bin/banner
    Shells        \* where the script is started from, see Start

(* The `case` of is_package_owned.                                          *)
PackageNamespaces == {"bin", "sbin", "usr/bin", "usr/sbin", "usr/share"}

is_package_owned(p) == Namespace[p] \in PackageNamespaces

ASSUME InstallsAssumption ==
    /\ Installs \subseteq [Packages -> Trees]
    /\ \A i \in Installs, k \in Packages :
          /\ \A t \in LinkTargets : i[k][t] # Dir
          /\ i[k][BannerPath] = Absent

ASSUME EditsAssumption ==
    /\ Edits \subseteq Paths \X Entries
    /\ \A t \in LinkTargets : <<t, Dir>> \notin Edits
    /\ \A e \in Edits : e[1] = BannerPath => e[2] \in Regulars \cup {Absent}

ASSUME ContentsAssumption ==
    /\ Torn \in Contents
    /\ Banner \in Contents
    /\ BannerPath \in Paths \ LinkTargets
    /\ Namespace[BannerPath] = "usr/bin"
    /\ \A p \in Paths : BannerPath \notin Below[p]
    /\ Below[BannerPath] = {}
    /\ Shells \subseteq {"pipeline", "sdk", "plain"}

VARIABLES
    install,  \* install[k]: the tree packages/k/install
    fs,       \* the root filesystem
    oldM,     \* package-files.manifest, empty when the file is missing
    newM,     \* package-files.manifest.new
    pc,       \* where the script is; "idle" between runs
    shell,    \* the shell the current run was started from
    todo,     \* the <<package, path>> find has still to deliver
    cur,      \* the <<package, path>> being merged, or merged last
    stale,    \* lines of the old manifest not yet looked at
    outcome   \* how the last run ended, "none" once things changed since

vars == <<install, fs, oldM, newM, pc, shell, todo, cur, stale, outcome>>

NoEntry == <<>>

Provided(i) == { e \in Packages \X Paths : i[e[1]][e[2]] # Absent }

Init ==
    /\ install \in Installs
    /\ fs = [p \in Paths |-> Absent]
    /\ oldM = {} /\ newM = {}
    /\ pc = "idle" /\ shell = "none" /\ outcome = "none"
    /\ todo = {} /\ cur = NoEntry /\ stale = {}

-----------------------------------------------------------------------------
(* Fault: the new manifest of a run that did not finish is not emptied.    *)
StartKeepsNewManifest(s) ==
    /\ pc = "idle"
    /\ pc' = "merge"
    /\ shell' = s
    /\ todo' = Provided(install)
    /\ cur' = NoEntry
    /\ outcome' = "running"
    /\ UNCHANGED <<install, fs, oldM, newM, stale>>

(* A run starts: metadata directory, old manifest touched, new one emptied, *)
(* find lists the install trees.  The shell it is started from decides     *)
(* what $ROOTFS and $PROJECT_ROOT are when the banner is installed.        *)
Start(s) ==
    /\ pc = "idle"
    /\ pc' = "merge"
    /\ shell' = s
    /\ newM' = {}
    /\ todo' = Provided(install)
    /\ cur' = NoEntry
    /\ outcome' = "running"
    /\ UNCHANGED <<install, fs, oldM, stale>>

(* The script ends with the given status; its process is gone, the files   *)
(* it wrote stay, the new manifest included.                               *)
Exit(status) ==
    /\ pc' = "idle"
    /\ outcome' = status
    /\ shell' = "none"
    /\ todo' = {}
    /\ cur' = NoEntry
    /\ stale' = {}

(* Faults: the namespace is recorded in place of the path; every path is   *)
(* recorded, configuration included.                                       *)
RecordNamespace(p) == newM' = IF is_package_owned(p) THEN newM \cup {Namespace[p]} ELSE newM
RecordEverything(p) == newM' = newM \cup {p}

record_manifest(p) == newM' = IF is_package_owned(p) THEN newM \cup {p} ELSE newM

(* The entry p of package k comes next out of find, which walks one install *)
(* tree after the other and delivers a directory before what is in it.     *)
NextSource(k, p) ==
    /\ pc = "merge"
    /\ <<k, p>> \in todo
    /\ \A q \in Paths : p \in Below[q] => <<k, q>> \notin todo
    /\ cur # NoEntry => k = cur[1] \/ \A q \in Paths : <<cur[1], q>> \notin todo

Take(k, p) ==
    /\ NextSource(k, p)
    /\ todo' = todo \ {<<k, p>>}
    /\ cur' = <<k, p>>
    /\ UNCHANGED <<install, oldM, shell, stale, outcome>>

(* SOURCE is a directory: mkdir -p, and set -e when something else is there. *)
MergeDirectory(k, p) ==
    /\ Take(k, p)
    /\ install[k][p] = Dir
    /\ fs[p] \in {Absent, Dir}
    /\ fs' = Place(fs, p, Dir)
    /\ UNCHANGED <<newM, pc>>

MergeDirectoryFails(k, p) ==
    /\ NextSource(k, p)
    /\ install[k][p] = Dir
    /\ fs[p] \notin {Absent, Dir}
    /\ Exit("failed")
    /\ UNCHANGED <<install, fs, oldM, newM>>

(* Fault: a regular file is taken as installed without comparing SHA256.   *)
SameKind(s, t, p) ==
    \/ s \in Links /\ t[p] = s
    \/ s \in Regulars /\ Follow(t, p) \in Regulars

(* The destination already is what the package provides: a link with the   *)
(* same target, or for a regular SOURCE equal SHA256 of SOURCE and of the  *)
(* file DEST leads to.                                                     *)
SameEntry(s, t, p) ==
    \/ s \in Links /\ t[p] = s
    \/ s \in Regulars /\ Follow(t, p) = s

Supported(s) == s \in Links \cup Regulars

(* [SKIP], and the warning about a source that is neither link nor file:   *)
(* the path is in the new manifest, the root filesystem is left alone.     *)
MergeSkip(k, p) ==
    /\ Take(k, p)
    /\ install[k][p] # Dir
    /\ Supported(install[k][p]) => SameEntry(install[k][p], fs, p)
    /\ record_manifest(p)
    /\ UNCHANGED <<fs, pc>>

(* Fault: a conflict ends the script, there is no prompt.                  *)
ConflictFails(k, p) ==
    /\ NextSource(k, p)
    /\ Supported(install[k][p])
    /\ Exists(fs, p)
    /\ ~SameEntry(install[k][p], fs, p)
    /\ Exit("failed")
    /\ UNCHANGED <<install, fs, oldM, newM>>

(* Something else is there: the prompt is shown.                           *)
MergeConflict(k, p) ==
    /\ Take(k, p)
    /\ Supported(install[k][p])
    /\ Exists(fs, p)
    /\ ~SameEntry(install[k][p], fs, p)
    /\ record_manifest(p)
    /\ pc' = "ask"
    /\ UNCHANGED fs

MergeAbsent(k, p) ==
    /\ Take(k, p)
    /\ Supported(install[k][p])
    /\ ~Exists(fs, p)
    /\ record_manifest(p)
    /\ pc' = "copy"
    /\ UNCHANGED fs

(* "Overwrite existing entry? [y/N]": y, or anything else and end of file. *)
OverwriteYes ==
    /\ pc = "ask"
    /\ fs' = Remove(fs, cur[2])
    /\ pc' = "copy"
    /\ UNCHANGED <<install, oldM, newM, shell, todo, cur, stale, outcome>>

OverwriteNo ==
    /\ pc = "ask"
    /\ Exit("cancelled")
    /\ UNCHANGED <<install, fs, oldM, newM>>

CopyEntry ==
    /\ pc = "copy"
    /\ fs' = Place(fs, cur[2], install[cur[1]][cur[2]])
    /\ pc' = "merge"
    /\ UNCHANGED <<install, oldM, newM, shell, todo, cur, stale, outcome>>

(* Fault: the loop over the packages ends before the last tree is done.    *)
FinishEarly ==
    /\ pc = "merge"
    /\ cur # NoEntry
    /\ \A p \in Paths : <<cur[1], p>> \notin todo
    /\ pc' = "stale"
    /\ stale' = oldM
    /\ todo' = {}
    /\ UNCHANGED <<install, fs, oldM, newM, shell, cur, outcome>>

(* All trees are merged: sort -u, then the old manifest is read.           *)
FinishMerge ==
    /\ pc = "merge"
    /\ todo = {}
    /\ pc' = "stale"
    /\ stale' = oldM
    /\ UNCHANGED <<install, fs, oldM, newM, shell, todo, cur, outcome>>

-----------------------------------------------------------------------------
(* Fault: the new manifest is not consulted.                               *)
ListedAndPresent(p) == Exists(fs, p)

IsStale(p) == p \notin newM /\ Exists(fs, p)

(* The loop over the old manifest goes on after the line p.                *)
NextLine(p) ==
    /\ pc = "stale"
    /\ p \in stale
    /\ stale' = stale \ {p}
    /\ UNCHANGED <<install, oldM, newM, pc, shell, todo, cur, outcome>>

StillProvided(p) == NextLine(p) /\ ~IsStale(p) /\ UNCHANGED fs

(* "Remove stale package file? [y/N]": y, anything else, end of file.      *)
RemoveStale(p) == NextLine(p) /\ IsStale(p) /\ fs' = Remove(fs, p)

KeepStale(p) == NextLine(p) /\ IsStale(p) /\ UNCHANGED fs

StaleEndOfFile(p) ==
    /\ pc = "stale"
    /\ p \in stale
    /\ IsStale(p)
    /\ Exit("cancelled")
    /\ UNCHANGED <<install, fs, oldM, newM>>

(* mv package-files.manifest.new package-files.manifest                    *)
Promote ==
    /\ pc = "stale"
    /\ stale = {}
    /\ oldM' = newM
    /\ newM' = {}
    /\ pc' = "banner"
    /\ UNCHANGED <<install, fs, shell, todo, cur, stale, outcome>>

(* The banner goes to $ROOTFS, which this script never sets: the pipeline  *)
(* exports it as the directory being built, sdk/environment-setup as       *)
(* another one, and in a plain shell set -u ends the script.               *)
InstallBanner ==
    /\ pc = "banner"
    /\ fs' = IF shell = "pipeline" THEN Place(fs, BannerPath, File(Banner)) ELSE fs
    /\ Exit(IF shell = "plain" THEN "failed" ELSE "ok")
    /\ UNCHANGED <<install, oldM, newM>>

-----------------------------------------------------------------------------
(* The script is killed; a file being copied may be left torn.             *)
Killed ==
    /\ pc # "idle"
    /\ Exit("killed")
    /\ \/ UNCHANGED fs
       \/ /\ pc = "copy"
          /\ install[cur[1]][cur[2]] \in Regulars
          /\ fs' = Place(fs, cur[2], File(Torn))
    /\ UNCHANGED <<install, oldM, newM>>

(* A package is rebuilt between two runs.                                  *)
Rebuild ==
    /\ pc = "idle"
    /\ install' \in Installs \ {install}
    /\ outcome' = "none"
    /\ UNCHANGED <<fs, oldM, newM, pc, shell, todo, cur, stale>>

(* Somebody edits the root filesystem between two runs.                    *)
HandEdit(p, e) ==
    /\ pc = "idle"
    /\ e # Absent => \A q \in Paths : p \in Below[q] => fs[q] \in {Absent, Dir}
    /\ fs' = IF e = Absent THEN Remove(fs, p) ELSE Place(Remove(fs, p), p, e)
    /\ outcome' = "none"
    /\ UNCHANGED <<install, oldM, newM, pc, shell, todo, cur, stale>>

Merge ==
    \/ \E k \in Packages, p \in Paths :
          \/ MergeDirectory(k, p)
          \/ MergeDirectoryFails(k, p)
          \/ MergeSkip(k, p)
          \/ MergeConflict(k, p)
          \/ MergeAbsent(k, p)
    \/ OverwriteYes
    \/ OverwriteNo
    \/ CopyEntry
    \/ FinishMerge

Reconcile ==
    \/ \E p \in Paths :
          \/ StillProvided(p)
          \/ RemoveStale(p)
          \/ KeepStale(p)
          \/ StaleEndOfFile(p)
    \/ Promote
    \/ InstallBanner

Environment ==
    \/ Killed
    \/ Rebuild
    \/ \E e \in Edits : HandEdit(e[1], e[2])

Next ==
    \/ \E s \in Shells : Start(s)
    \/ Merge
    \/ Reconcile
    \/ Environment

Spec == Init /\ [][Next]_vars

-----------------------------------------------------------------------------
TypeOK ==
    /\ install \in Installs
    /\ fs \in [Paths -> Entries]
    /\ oldM \in SUBSET Paths
    /\ newM \in SUBSET Paths
    /\ pc \in {"idle", "merge", "ask", "copy", "stale", "banner"}
    /\ shell \in Shells \cup {"none"}
    /\ todo \in SUBSET (Packages \X Paths)
    /\ cur \in (Packages \X Paths) \cup {NoEntry}
    /\ stale \in SUBSET Paths
    /\ outcome \in {"none", "running", "ok", "cancelled", "failed", "killed"}

(* What a package provides at p, directories aside.                        *)
Provides(k, p) == install[k][p] \notin {Absent, Dir}

OwnedProvided == { p \in Paths : is_package_owned(p) /\ \E k \in Packages : Provides(k, p) }

(* A run that got as far as promoting a manifest leaves the complete and    *)
(* exact set of package-owned paths of the current install trees in        *)
(* package-files.manifest: no cancelled or killed run's half manifest is   *)
(* ever promoted, nothing of an earlier run leaks into it.                 *)
ManifestExact ==
    pc = "banner" \/ outcome = "ok" => oldM = OwnedProvided

(* The entry at p is one that some package provides there, or a link that  *)
(* [ -f "$DEST" ] followed to a file.                                      *)
InstalledAt(p) ==
    \E k \in Packages :
        /\ Supported(install[k][p])
        /\ \/ fs[p] = install[k][p]
           \/ fs[p] \in Links /\ install[k][p] \in Regulars

(* After a successful run every link and regular file of every install     *)
(* tree, recorded or not, is in the root filesystem, whatever earlier      *)
(* runs, cancellations, crashes and hand edits had left there.             *)
InstalledOnSuccess ==
    outcome = "ok" =>
        \A k \in Packages, p \in Paths : Supported(install[k][p]) => InstalledAt(p)

(* After a successful run a path provided as a regular file has the content *)
(* some package provides there ("Destination must also be a regular file", *)
(* then equal SHA256 or an overwrite).                                     *)
ContentOnSuccess ==
    outcome = "ok" =>
        \A p \in Paths :
            (\E k \in Packages : install[k][p] \in Regulars) =>
                \E k \in Packages : install[k][p] \in {fs[p], Follow(fs, p)}

(* What the stale check removes is provided by none of the current         *)
(* packages ("is no longer provided by the current packages").             *)
StaleRemovalSparesProvided ==
    [][pc = "stale" => \A k \in Packages, p \in Paths :
            Provides(k, p) /\ Exists(fs, p) => Exists(fs', p)]_vars

(* Configuration, what lies outside the package namespaces, is changed by  *)
(* the script only after the operator confirmed the overwrite of a path a  *)
(* package provides there, in that very run: no manifest of any earlier    *)
(* run makes it disposable.                                                *)
ConfigurationPreserved ==
    [][\A p \in Paths :
        ~is_package_owned(p) /\ Exists(fs, p) /\ fs'[p] # fs[p] =>
            \/ pc = "idle"
            \/ pc = "ask" /\ (p = cur[2] \/ p \in Below[cur[2]])
                /\ Supported(install[cur[1]][cur[2]])]_vars

(* Every package file the builder left in the root filesystem is recorded  *)
(* in the manifest once a run succeeded.                                   *)
PackageFilesRecorded ==
    outcome = "ok" =>
        \A p \in Paths \ {BannerPath} :
            is_package_owned(p) /\ fs[p] \in Links \cup Regulars => p \in oldM

(* Every run ends: the script goes on until it waits at a prompt, and the  *)
(* operator answers.                                                       *)
Fairness == WF_vars(Merge) /\ WF_vars(Reconcile)
LiveSpec == Spec /\ Fairness /\ WF_vars(\E s \in Shells : Start(s))

(* Nothing interferes: no kill, edit or rebuild, no refused overwrite, and *)
(* no start from a plain shell, where the banner always fails.             *)
Consenting ==
    ~(Environment \/ OverwriteNo \/ (\E p \in Paths : StaleEndOfFile(p)) \/ Start("plain"))

(* Something else lies where a package has a directory: mkdir -p fails in  *)
(* every run until somebody clears the way.                                *)
Blocked ==
    \E k \in Packages, p \in Paths : install[k][p] = Dir /\ fs[p] \notin {Absent, Dir}

(* Whatever cancelled and killed runs, rebuilt packages and hand edits     *)
(* left behind, once nothing interferes any more and the operator confirms *)
(* the overwrites, later runs succeed; only a file put in the place of a   *)
(* package's directory stays in their way.                                 *)
RecoversEventually ==
    <>[][Consenting]_vars => []<>(outcome = "ok" \/ (pc = "idle" /\ Blocked))
-----------------------------------------------------------------------------
(* The parts of the inductive invariant behind the theorems of             *)
(* RootfsBuilderProofs.                                                    *)

Merging == pc \in {"merge", "ask", "copy"}

(* What the script's process knows in each phase.                          *)
PhaseInv ==
    /\ outcome = "running" <=> pc # "idle"
    /\ Merging => todo \subseteq Provided(install)
    /\ ~Merging => todo = {}
    /\ pc \in {"ask", "copy"} =>
          /\ cur # NoEntry
          /\ cur \notin todo
          /\ \A q \in Paths : cur[2] \in Below[q] => <<cur[1], q>> \notin todo
          /\ Supported(install[cur[1]][cur[2]])
    /\ pc = "copy" => ~Exists(fs, cur[2])

(* The old manifest holds package-owned paths only, and the new one exactly *)
(* the package-owned paths already taken from find.                        *)
ManifestInv ==
    /\ \A p \in oldM : is_package_owned(p)
    /\ stale \subseteq oldM
    /\ Merging \/ pc = "stale" =>
          newM = { p \in Paths : /\ is_package_owned(p)
                                 /\ \E k \in Packages : Provides(k, p) /\ <<k, p>> \notin todo }

(* Packages are merged one after the other, and the directories already    *)
(* taken from the current one are directories of the root filesystem.      *)
WalkInv ==
    Merging =>
        /\ \A k \in Packages :
              \/ cur # NoEntry /\ k = cur[1]
              \/ \A p \in Paths : <<k, p>> \notin todo
              \/ \A p \in Paths : install[k][p] # Absent => <<k, p>> \in todo
        /\ cur # NoEntry =>
              \A p \in Paths :
                  install[cur[1]][p] = Dir /\ <<cur[1], p>> \notin todo => fs[p] = Dir

Inv == TypeOK /\ PhaseInv /\ ManifestInv /\ WalkInv /\ ManifestExact

(* No release turns a directory of paths into a file, or back.             *)
KindsFixed ==
    \A i \in Installs, k \in Packages, p \in Paths :
        i[k][p] \notin {Absent, Dir} => Below[p] = {}

(* What has been merged so far is installed, but for the entry at hand.    *)
InstallInv ==
    /\ \A p \in oldM : Below[p] = {}
    /\ pc # "idle" \/ outcome = "ok" =>
          \A k \in Packages, p \in Paths :
              /\ Supported(install[k][p])
              /\ <<k, p>> \notin todo
              /\ pc \in {"ask", "copy"} => p # cur[2]
              => InstalledAt(p)

MergeInv == Inv /\ InstallInv
=============================================================================
