----------------------------- MODULE SdkManager -----------------------------
(***************************************************************************)
(* scripts/prepare-sdk.sh as every packages/*/build.sh runs it for the     *)
(* custom SDK, up to the checks that follow: the SDK directory is          *)
(* extracted from the tarball, signed with the tarball's SHA256, verified, *)
(* and sdk/environment-setup selects its compiler and sysroot.             *)
(*                                                                         *)
(* One behaviour is a history of builds.  rm -rf and tar work file by      *)
(* file; a build may be killed and the tarball may be replaced.            *)
(***************************************************************************)
CONSTANTS
    Parts,       \* the files and directories of an SDK
    Compiler,    \* bin/aarch64-buildroot-linux-gnu-gcc
    Sysroot,     \* the directory called sysroot
    Tarballs,    \* SDK tarballs, as their SHA256 tells them apart
    Ships,       \* Ships[t]: the parts in the tarball t
    Truncated,   \* tarballs tar fails on, after some of their parts
    None,        \* no file, no signature, no tarball
    KillPoints,  \* where a build may be killed
    SwapPoints   \* where the tarball may be replaced

Labels == {"idle", "check", "ask", "remove", "extract", "tar", "store",
           "verify", "discard", "setup"}

ASSUME SdkAssumption ==
    /\ Compiler \in Parts
    /\ Sysroot \in Parts
    /\ Ships \in [Tarballs -> SUBSET Parts]
    /\ Truncated \subseteq Tarballs
    /\ None \notin Tarballs
    /\ KillPoints \subseteq Labels \ {"idle"}
    /\ SwapPoints \subseteq Labels

VARIABLES
    tarball,  \* the tarball in buildroot's output/images, or None
    dir,      \* is there an SDK directory?
    sdk,      \* sdk[p]: the tarball the part p came from, or None
    sha,      \* .sdk-sha256 in the SDK directory, or None
    pc,       \* where the build is; "idle" between builds
    current,  \* CURRENT_SHA
    reading,  \* the tarball tar has opened
    outcome   \* how the last build ended, "none" once the tarball changed

disk == <<tarball, dir, sdk, sha>>
vars == <<tarball, dir, sdk, sha, pc, current, reading, outcome>>

Empty == [p \in Parts |-> None]

(* What tar leaves of the tarball t in an empty directory.                 *)
ContentsOf(t) == [p \in Parts |-> IF p \in Ships[t] THEN t ELSE None]

Init ==
    /\ tarball \in Tarballs \cup {None}
    /\ dir = FALSE /\ sdk = Empty /\ sha = None
    /\ pc = "idle" /\ current = None /\ reading = None /\ outcome = "none"

-----------------------------------------------------------------------------
Exit(status) ==
    /\ pc' = "idle"
    /\ outcome' = status
    /\ current' = None
    /\ reading' = None

Goto(label) == pc' = label /\ UNCHANGED <<reading, outcome>>

(* Fault: the tarball's path is taken for its SHA256.                      *)
StartWithPath ==
    /\ pc = "idle"
    /\ tarball # None
    /\ pc' = "check"
    /\ current' = "path"
    /\ outcome' = "running"
    /\ UNCHANGED <<disk, reading>>

(* The tarball is looked for and its SHA256 computed.                      *)
Start ==
    /\ pc = "idle"
    /\ tarball # None
    /\ pc' = "check"
    /\ current' = tarball
    /\ outcome' = "running"
    /\ UNCHANGED <<disk, reading>>

TarballNotFound ==
    /\ pc = "idle"
    /\ tarball = None
    /\ Exit("failed")
    /\ UNCHANGED disk

(* Fault: an existing SDK is used whatever its signature is.               *)
AnySdkWillDo ==
    /\ pc = "check"
    /\ dir
    /\ Goto("setup")
    /\ UNCHANGED <<disk, current>>

(* An existing SDK is used when its signature is the tarball's; otherwise, *)
(* signed or not, the operator is asked.                                   *)
UpToDate ==
    /\ pc = "check"
    /\ dir
    /\ sha = current
    /\ Goto("setup")
    /\ UNCHANGED <<disk, current>>

(* Fault: an SDK without a signature ends the build, nobody is asked.      *)
UnsignedSdkFails ==
    /\ pc = "check"
    /\ dir
    /\ sha # current
    /\ IF sha = None THEN Exit("failed") ELSE Goto("ask") /\ UNCHANGED current
    /\ UNCHANGED disk

Mismatch ==
    /\ pc = "check"
    /\ dir
    /\ sha # current
    /\ Goto("ask")
    /\ UNCHANGED <<disk, current>>

NoSdkYet ==
    /\ pc = "check"
    /\ ~dir
    /\ Goto("extract")
    /\ UNCHANGED <<disk, current>>

(* Fault: the new SDK is extracted over the old one.                       *)
OverwriteInPlace == pc = "ask" /\ Goto("extract") /\ UNCHANGED <<disk, current>>

(* "Overwrite existing SDK? [y/N]": y; anything else, which ends the build *)
(* with status 0; end of file, which set -e turns into a failure.          *)
OverwriteYes == pc = "ask" /\ Goto("remove") /\ UNCHANGED <<disk, current>>

OverwriteNo == pc = "ask" /\ Exit("cancelled") /\ UNCHANGED disk

OverwriteEndOfFile == pc = "ask" /\ Exit("failed") /\ UNCHANGED disk

-----------------------------------------------------------------------------
(* rm -rf "$SDK_DIR", before an extraction or of an SDK that failed its    *)
(* verification: entries go one by one in any order, the directory last.   *)
Removing == pc \in {"remove", "discard"}

RemovePart(p) ==
    /\ Removing
    /\ sdk[p] # None
    /\ sdk' = [sdk EXCEPT ![p] = None]
    /\ UNCHANGED <<tarball, dir, sha, pc, current, reading, outcome>>

RemoveSignature ==
    /\ Removing
    /\ sha # None
    /\ sha' = None
    /\ UNCHANGED <<tarball, dir, sdk, pc, current, reading, outcome>>

RemoveDirectory ==
    /\ Removing
    /\ sdk = Empty
    /\ sha = None
    /\ dir' = FALSE
    /\ IF pc = "remove" THEN Goto("extract") /\ UNCHANGED current ELSE Exit("failed")
    /\ UNCHANGED <<tarball, sdk, sha>>

(* Fault: the signature is stored before the tarball is extracted.         *)
SignThenOpen ==
    /\ pc = "extract"
    /\ dir' = TRUE
    /\ sha' = current
    /\ reading' = tarball
    /\ pc' = "tar"
    /\ UNCHANGED <<tarball, sdk, current, outcome>>

(* mkdir -p and tar -xzf, which opens whatever tarball is there by now.    *)
OpenTarball ==
    /\ pc = "extract"
    /\ dir' = TRUE
    /\ reading' = tarball
    /\ pc' = "tar"
    /\ UNCHANGED <<tarball, sdk, sha, current, outcome>>

ExtractPart(p) ==
    /\ pc = "tar"
    /\ reading # None
    /\ p \in Ships[reading]
    /\ sdk[p] # reading
    /\ sdk' = [sdk EXCEPT ![p] = reading]
    /\ UNCHANGED <<tarball, dir, sha, pc, current, reading, outcome>>

TarFails ==
    /\ pc = "tar"
    /\ reading \in Truncated \cup {None}
    /\ Exit("failed")
    /\ UNCHANGED disk

TarDone ==
    /\ pc = "tar"
    /\ reading \in Tarballs \ Truncated
    /\ \A p \in Ships[reading] : sdk[p] = reading
    /\ Goto("store")
    /\ UNCHANGED <<disk, current>>

StoreSha ==
    /\ pc = "store"
    /\ sha' = current
    /\ Goto("verify")
    /\ UNCHANGED <<tarball, dir, sdk, current>>

(* The sysroot must be there, and the compiler.                            *)
Complete == sdk[Sysroot] # None /\ sdk[Compiler] # None

Verified == pc = "verify" /\ Complete /\ Goto("setup") /\ UNCHANGED <<disk, current>>

VerifyFails == pc = "verify" /\ ~Complete /\ Goto("discard") /\ UNCHANGED <<disk, current>>

(* environment-setup: directory, compiler, gcc -print-sysroot; build.sh    *)
(* then wants the compiler and the sysroot itself.                         *)
LoadEnvironment ==
    /\ pc = "setup"
    /\ Exit(IF dir /\ Complete THEN "ready" ELSE "failed")
    /\ UNCHANGED disk

-----------------------------------------------------------------------------
Killed ==
    /\ pc \in KillPoints
    /\ Exit("killed")
    /\ UNCHANGED disk

(* Buildroot produces another tarball, or it is cleaned away.              *)
ReplaceTarball ==
    /\ pc \in SwapPoints
    /\ tarball' \in (Tarballs \cup {None}) \ {tarball}
    /\ outcome' = IF pc = "idle" THEN "none" ELSE outcome
    /\ UNCHANGED <<dir, sdk, sha, pc, current, reading>>

Prepare ==
    \/ Start \/ TarballNotFound
    \/ UpToDate \/ Mismatch \/ NoSdkYet
    \/ OverwriteYes \/ OverwriteNo \/ OverwriteEndOfFile
    \/ \E p \in Parts : RemovePart(p) \/ ExtractPart(p)
    \/ RemoveSignature \/ RemoveDirectory
    \/ OpenTarball \/ TarFails \/ TarDone
    \/ StoreSha \/ Verified \/ VerifyFails
    \/ LoadEnvironment

Next == Prepare \/ Killed \/ ReplaceTarball

Spec == Init /\ [][Next]_vars

(* Builds are started again and again and the operator answers.            *)
LiveSpec == Spec /\ WF_vars(Prepare)

-----------------------------------------------------------------------------
TypeOK ==
    /\ tarball \in Tarballs \cup {None}
    /\ dir \in BOOLEAN
    /\ sdk \in [Parts -> Tarballs \cup {None}]
    /\ sha \in Tarballs \cup {None}
    /\ pc \in Labels
    /\ current \in Tarballs \cup {None}
    /\ reading \in Tarballs \cup {None}
    /\ outcome \in {"none", "running", "ready", "cancelled", "failed", "killed"}

(* Compiler, libc, headers and sysroot in the SDK directory always come    *)
(* from the same tarball, whatever extractions and removals were           *)
(* interrupted and whatever replaced the tarball meanwhile.                *)
SameGeneration == \A p, q \in Parts : sdk[p] # None /\ sdk[q] # None => sdk[p] = sdk[q]

(* A build that goes on to compile does so with the complete SDK of the    *)
(* tarball that is there ("Existing SDK is up to date").                   *)
ReadyIsCurrent == outcome = "ready" => sdk = ContentsOf(tarball)

(* A tarball an SDK can be made of.                                        *)
Usable(t) == {Compiler, Sysroot} \subseteq Ships[t]
Good(t) == t \in Tarballs \ Truncated /\ Usable(t)

Consenting == ~(Killed \/ ReplaceTarball \/ OverwriteNo \/ OverwriteEndOfFile)

(* Whatever interrupted builds and bad tarballs left behind, once a good   *)
(* tarball stays in place, nobody interferes and the operator confirms the *)
(* overwrite, a build gets its SDK.                                        *)
SdkEventuallyReady ==
    <>[][Consenting]_vars /\ <>[]Good(tarball) => []<>(outcome = "ready")
-----------------------------------------------------------------------------
(* The parts of the inductive invariants behind SdkManagerProofs.          *)

(* Nothing is left when there is no directory, extraction starts without   *)
(* one, and tar has put only parts of its own tarball there.               *)
GenerationInv ==
    /\ ~dir => sdk = Empty /\ sha = None
    /\ pc = "extract" => ~dir
    /\ pc \in {"tar", "store"} => dir
    /\ pc = "tar" => /\ sha = None
                     /\ \A p \in Parts : sdk[p] # None =>
                           reading # None /\ sdk[p] = reading /\ p \in Ships[reading]

(* Nothing but what the tarball t ships, and all of it if t is usable.     *)
FromTarball(t) ==
    /\ \A p \in Parts \ Ships[t] : sdk[p] = None
    /\ Usable(t) => sdk = ContentsOf(t)

(* A signature tells the truth about a usable SDK except during rm -rf.    *)
SignatureInv ==
    /\ outcome = "running" <=> pc # "idle"
    /\ pc # "idle" => current = tarball /\ tarball # None
    /\ pc = "tar" => reading = tarball
    /\ pc \in {"store", "verify"} => sdk = ContentsOf(tarball)
    /\ pc = "verify" => sha = tarball
    /\ pc = "setup" => FromTarball(tarball)
    /\ pc = "discard" => /\ sha \in {None, tarball}
                         /\ ~Usable(tarball)
                         /\ \A p \in Parts \ Ships[tarball] : sdk[p] = None
    /\ sha # None /\ ~Removing => FromTarball(sha)

SdkInv == TypeOK /\ SameGeneration /\ GenerationInv
ReadyInv == SdkInv /\ SignatureInv /\ ReadyIsCurrent
=============================================================================
