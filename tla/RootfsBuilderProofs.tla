------------------------- MODULE RootfsBuilderProofs -------------------------
(***************************************************************************)
(* Theorems about RootfsBuilder, for every set of paths, packages, install *)
(* trees and hand edits.                                                   *)
(***************************************************************************)
EXTENDS RootfsBuilder, TLAPS

(* The kinds of entries are different, so the tests [ -L ], [ -d ] and     *)
(* [ -f ] of the script exclude each other.                                *)
LEMMA EntryKinds ==
    /\ Absent # Dir
    /\ Absent \notin Links \cup Regulars
    /\ Dir \notin Links \cup Regulars
    /\ Links \cap Regulars = {}
    /\ {Absent, Dir} \cup Links \cup Regulars \subseteq Entries
    /\ \A s : Supported(s) <=> s \in Links \cup Regulars
    /\ File(Torn) \in Regulars
    /\ File(Banner) \in Regulars
<1>1. /\ \A e \in Links : e.kind = "link"
      /\ \A e \in Regulars : e.kind = "file"
      /\ Absent.kind = "absent" /\ Dir.kind = "dir"
  BY DEF Absent, Dir, Links, Regulars, Link, File
<1>2. Absent # Dir /\ Absent \notin Links \cup Regulars /\ Dir \notin Links \cup Regulars
  BY <1>1
<1>3. Links \cap Regulars = {}
  BY <1>1
<1>4. {Absent, Dir} \cup Links \cup Regulars \subseteq Entries
  BY DEF Entries
<1>5. File(Torn) \in Regulars /\ File(Banner) \in Regulars
  BY ContentsAssumption DEF Regulars
<1> QED BY <1>2, <1>3, <1>4, <1>5 DEF Supported

(* rm -rf removes exactly the path and what lies below it.                 *)
LEMMA RemoveFacts ==
    ASSUME NEW t \in [Paths -> Entries], NEW p \in Paths
    PROVE  /\ Remove(t, p) \in [Paths -> Entries]
           /\ \A q \in Paths : Remove(t, p)[q] =
                 IF q = p \/ q \in Below[p] THEN Absent ELSE t[q]
  BY EntryKinds DEF Remove

(* Placing an entry changes the path and the directories above it.         *)
LEMMA PlaceFacts ==
    ASSUME NEW t \in [Paths -> Entries], NEW p \in Paths, NEW e \in Entries
    PROVE  /\ Place(t, p, e) \in [Paths -> Entries]
           /\ \A q \in Paths : Place(t, p, e)[q] =
                 IF q = p THEN e ELSE IF p \in Below[q] THEN Dir ELSE t[q]
  BY EntryKinds DEF Place

(* The install trees are directory trees.                                  *)
LEMMA InstallFacts ==
    ASSUME NEW i \in Installs, NEW k \in Packages
    PROVE  /\ i[k] \in [Paths -> Entries]
           /\ \A p \in Paths : i[k][p] \in Entries
           /\ \A p, q \in Paths : q \in Below[p] /\ i[k][q] # Absent => i[k][p] = Dir
           /\ i[k][BannerPath] = Absent
  BY InstallsAssumption, ContentsAssumption DEF Trees, Shaped

LEMMA PairFacts ==
    ASSUME NEW k, NEW p
    PROVE  <<k, p>> # NoEntry
  BY DEF NoEntry

-----------------------------------------------------------------------------
(* The type invariant holds of every history of runs of the script.        *)
LEMMA TypeOKStep == TypeOK /\ PhaseInv /\ [Next]_vars => TypeOK'
<1> SUFFICES ASSUME TypeOK, PhaseInv, [Next]_vars PROVE TypeOK'
    OBVIOUS
<1> USE DEF TypeOK
<1>cur. ASSUME pc \in {"ask", "copy"}
        PROVE  /\ cur \in Packages \X Paths
               /\ cur[1] \in Packages /\ cur[2] \in Paths
               /\ install[cur[1]][cur[2]] \in Entries
  BY <1>cur, InstallFacts DEF PhaseInv
<1>1. ASSUME NEW s \in Shells, Start(s) PROVE TypeOK'
  BY <1>1 DEF Start, Provided, NoEntry
<1>2. ASSUME NEW k \in Packages, NEW p \in Paths, MergeDirectory(k, p) PROVE TypeOK'
  <2>1. fs' \in [Paths -> Entries]
    BY <1>2, PlaceFacts, EntryKinds DEF MergeDirectory
  <2> QED BY <1>2, <2>1 DEF MergeDirectory, Take
<1>3. ASSUME NEW k \in Packages, NEW p \in Paths, MergeDirectoryFails(k, p) PROVE TypeOK'
  BY <1>3 DEF MergeDirectoryFails, Exit
<1>4. ASSUME NEW k \in Packages, NEW p \in Paths,
             MergeSkip(k, p) \/ MergeConflict(k, p) \/ MergeAbsent(k, p) PROVE TypeOK'
  BY <1>4 DEF MergeSkip, MergeConflict, MergeAbsent, Take, record_manifest
<1>5. CASE OverwriteYes
  BY <1>5, <1>cur, RemoveFacts DEF OverwriteYes
<1>6. CASE OverwriteNo
  BY <1>6 DEF OverwriteNo, Exit
<1>7. CASE CopyEntry
  BY <1>7, <1>cur, PlaceFacts DEF CopyEntry
<1>8. CASE FinishMerge
  BY <1>8 DEF FinishMerge
<1>9. ASSUME NEW p \in Paths, StillProvided(p) \/ KeepStale(p) PROVE TypeOK'
  BY <1>9 DEF StillProvided, KeepStale, NextLine
<1>10. ASSUME NEW p \in Paths, RemoveStale(p) PROVE TypeOK'
  BY <1>10, RemoveFacts DEF RemoveStale, NextLine
<1>11. ASSUME NEW p \in Paths, StaleEndOfFile(p) PROVE TypeOK'
  BY <1>11 DEF StaleEndOfFile, Exit
<1>12. CASE Promote
  BY <1>12 DEF Promote
<1>13. CASE InstallBanner
  <2>1. fs' \in [Paths -> Entries]
    BY <1>13, PlaceFacts, EntryKinds, ContentsAssumption DEF InstallBanner
  <2> QED BY <1>13, <2>1 DEF InstallBanner, Exit
<1>14. CASE Killed
  <2>1. fs' \in [Paths -> Entries]
    BY <1>14, <1>cur, PlaceFacts, EntryKinds DEF Killed
  <2> QED BY <1>14, <2>1 DEF Killed, Exit
<1>15. CASE Rebuild
  BY <1>15 DEF Rebuild
<1>16. ASSUME NEW e \in Edits, HandEdit(e[1], e[2]) PROVE TypeOK'
  <2>1. e[1] \in Paths /\ e[2] \in Entries
    BY EditsAssumption
  <2>2. fs' \in [Paths -> Entries]
    BY <1>16, <2>1, RemoveFacts, PlaceFacts DEF HandEdit
  <2> QED BY <1>16, <2>2 DEF HandEdit
<1>17. CASE UNCHANGED vars
  BY <1>17 DEF vars
<1> QED
  BY <1>1, <1>2, <1>3, <1>4, <1>5, <1>6, <1>7, <1>8, <1>9, <1>10, <1>11, <1>12,
     <1>13, <1>14, <1>15, <1>16, <1>17 DEF Next, Merge, Reconcile, Environment
(* What the process knows in each phase stays true.                        *)
LEMMA PhaseStep == TypeOK /\ PhaseInv /\ [Next]_vars => PhaseInv'
<1> SUFFICES ASSUME TypeOK, PhaseInv, [Next]_vars PROVE PhaseInv'
    OBVIOUS
<1> USE DEF PhaseInv, Merging
<1>cur. ASSUME pc \in {"ask", "copy"} PROVE cur \in Packages \X Paths
  BY <1>cur DEF TypeOK
<1>1. ASSUME NEW s \in Shells, Start(s) PROVE PhaseInv'
  BY <1>1 DEF Start
<1>2. ASSUME NEW k \in Packages, NEW p \in Paths, MergeDirectory(k, p) PROVE PhaseInv'
  BY <1>2 DEF MergeDirectory, Take, NextSource, Provided
<1>3. ASSUME NEW k \in Packages, NEW p \in Paths, MergeDirectoryFails(k, p) PROVE PhaseInv'
  BY <1>3 DEF MergeDirectoryFails, Exit
<1>4. ASSUME NEW k \in Packages, NEW p \in Paths,
             MergeSkip(k, p) \/ MergeConflict(k, p) \/ MergeAbsent(k, p) PROVE PhaseInv'
  BY <1>4, PairFacts DEF MergeSkip, MergeConflict, MergeAbsent, Take, NextSource, Provided, Exists
<1>5. CASE OverwriteYes
  BY <1>5, <1>cur, RemoveFacts DEF OverwriteYes, Exists, TypeOK
<1>6. CASE OverwriteNo
  BY <1>6 DEF OverwriteNo, Exit
<1>7. CASE CopyEntry
  BY <1>7 DEF CopyEntry
<1>8. CASE FinishMerge
  BY <1>8 DEF FinishMerge
<1>9. ASSUME NEW p \in Paths, StillProvided(p) \/ KeepStale(p) PROVE PhaseInv'
  BY <1>9 DEF StillProvided, KeepStale, NextLine
<1>10. ASSUME NEW p \in Paths, RemoveStale(p) PROVE PhaseInv'
  BY <1>10 DEF RemoveStale, NextLine
<1>11. ASSUME NEW p \in Paths, StaleEndOfFile(p) PROVE PhaseInv'
  BY <1>11 DEF StaleEndOfFile, Exit
<1>12. CASE Promote
  BY <1>12 DEF Promote
<1>13. CASE InstallBanner
  BY <1>13 DEF InstallBanner, Exit
<1>14. CASE Killed
  BY <1>14 DEF Killed, Exit
<1>15. CASE Rebuild
  BY <1>15 DEF Rebuild
<1>16. ASSUME NEW e \in Edits, HandEdit(e[1], e[2]) PROVE PhaseInv'
  BY <1>16 DEF HandEdit
<1>17. CASE UNCHANGED vars
  BY <1>17 DEF vars, Provided, Exists
<1> QED
  BY <1>1, <1>2, <1>3, <1>4, <1>5, <1>6, <1>7, <1>8, <1>9, <1>10, <1>11, <1>12,
     <1>13, <1>14, <1>15, <1>16, <1>17 DEF Next, Merge, Reconcile, Environment

(* The manifests: a line of the new one for each package-owned entry taken *)
(* from find, and promotion only of a complete one.                        *)
LEMMA ManifestStep ==
    TypeOK /\ PhaseInv /\ ManifestInv /\ ManifestExact /\ [Next]_vars =>
        ManifestInv' /\ ManifestExact'
<1> SUFFICES ASSUME TypeOK, PhaseInv, ManifestInv, ManifestExact, [Next]_vars
             PROVE  ManifestInv' /\ ManifestExact'
    OBVIOUS
<1> DEFINE Goal == ManifestInv' /\ ManifestExact'
<1> USE DEF ManifestInv, ManifestExact, OwnedProvided, PhaseInv, Merging
<1>1. ASSUME NEW s \in Shells, Start(s) PROVE Goal
  <2>1. \A k \in Packages, p \in Paths : Provides(k, p) => <<k, p>> \in todo'
    BY <1>1 DEF Start, Provided, Provides
  <2>2. \A k \in Packages, p \in Paths : Provides(k, p)' <=> Provides(k, p)
    BY <1>1 DEF Start, Provides
  <2> QED BY <1>1, <2>1, <2>2 DEF Start
<1>2. ASSUME NEW k \in Packages, NEW p \in Paths, MergeDirectory(k, p) PROVE Goal
  <2>1. ~Provides(k, p)
    BY <1>2 DEF MergeDirectory, Provides
  <2> QED BY <1>2, <2>1 DEF MergeDirectory, Take, NextSource, Provides
<1>3. ASSUME NEW k \in Packages, NEW p \in Paths, MergeDirectoryFails(k, p) PROVE Goal
  BY <1>3 DEF MergeDirectoryFails, NextSource, Exit
<1>4. ASSUME NEW k \in Packages, NEW p \in Paths,
             MergeSkip(k, p) \/ MergeConflict(k, p) \/ MergeAbsent(k, p) PROVE Goal
  <2>1. /\ pc = "merge" /\ pc' \in {"merge", "ask", "copy"}
        /\ <<k, p>> \in todo /\ todo' = todo \ {<<k, p>>}
        /\ UNCHANGED <<install, oldM, stale, outcome>>
        /\ record_manifest(p)
    BY <1>4 DEF MergeSkip, MergeConflict, MergeAbsent, Take, NextSource
  <2>2. Provides(k, p)
    <3>1. install[k][p] # Absent
      BY <2>1 DEF Provided
    <3>2. install[k][p] # Dir
      BY <1>4, EntryKinds DEF MergeSkip, MergeConflict, MergeAbsent
    <3> QED BY <3>1, <3>2 DEF Provides
  <2>3. \A j \in Packages, q \in Paths : Provides(j, q)' <=> Provides(j, q)
    BY <2>1 DEF Provides
  <2> QED BY <2>1, <2>2, <2>3 DEF record_manifest
<1>5. CASE OverwriteYes
  BY <1>5 DEF OverwriteYes, Provides
<1>6. CASE OverwriteNo
  BY <1>6 DEF OverwriteNo, Exit
<1>7. CASE CopyEntry
  BY <1>7 DEF CopyEntry, Provides
<1>8. CASE FinishMerge
  BY <1>8 DEF FinishMerge, Provides
<1>9. ASSUME NEW p \in Paths, StillProvided(p) \/ KeepStale(p) PROVE Goal
  BY <1>9 DEF StillProvided, KeepStale, NextLine, Provides
<1>10. ASSUME NEW p \in Paths, RemoveStale(p) PROVE Goal
  BY <1>10 DEF RemoveStale, NextLine, Provides
<1>11. ASSUME NEW p \in Paths, StaleEndOfFile(p) PROVE Goal
  BY <1>11 DEF StaleEndOfFile, Exit
<1>12. CASE Promote
  BY <1>12 DEF Promote, Provides
<1>13. CASE InstallBanner
  BY <1>13 DEF InstallBanner, Exit, Provides
<1>14. CASE Killed
  BY <1>14 DEF Killed, Exit
<1>15. CASE Rebuild
  BY <1>15 DEF Rebuild
<1>16. ASSUME NEW e \in Edits, HandEdit(e[1], e[2]) PROVE Goal
  BY <1>16 DEF HandEdit
<1>17. CASE UNCHANGED vars
  BY <1>17 DEF vars, Provides
<1> QED
  BY <1>1, <1>2, <1>3, <1>4, <1>5, <1>6, <1>7, <1>8, <1>9, <1>10, <1>11, <1>12,
     <1>13, <1>14, <1>15, <1>16, <1>17 DEF Next, Merge, Reconcile, Environment

(* The directories find delivered before an entry of the same package are  *)
(* directories of the root filesystem when that entry is merged, so        *)
(* mkdir -p "$(dirname "$DEST")" has nothing to do.                        *)
LEMMA ParentsReady ==
    ASSUME TypeOK, PhaseInv, WalkInv,
           NEW k \in Packages, NEW p \in Paths, NextSource(k, p),
           NEW q \in Paths, p \in Below[q]
    PROVE  fs[q] = Dir
<1>1. Merging /\ <<k, p>> \in todo /\ <<k, q>> \notin todo
  BY DEF NextSource, Merging
<1>2. install[k][p] # Absent /\ install[k][q] = Dir
  BY <1>1, InstallFacts DEF PhaseInv, Provided, TypeOK
<1>3. cur # NoEntry /\ k = cur[1]
  BY <1>1, <1>2, EntryKinds DEF WalkInv
<1> QED BY <1>1, <1>2, <1>3 DEF WalkInv

(* The same for the entry at hand between its prompt and its copy.         *)
LEMMA ParentsStayReady ==
    ASSUME TypeOK, PhaseInv, WalkInv, pc \in {"ask", "copy"}
    PROVE  /\ cur \in Packages \X Paths
           /\ cur[1] \in Packages /\ cur[2] \in Paths
           /\ install[cur[1]][cur[2]] \in Entries \ {Absent, Dir}
           /\ ~Exists(fs, cur[2]) \/ pc = "ask"
  BY InstallFacts, EntryKinds DEF TypeOK, PhaseInv

LEMMA WalkStep == TypeOK /\ PhaseInv /\ WalkInv /\ [Next]_vars => WalkInv'
<1> SUFFICES ASSUME TypeOK, PhaseInv, WalkInv, [Next]_vars PROVE WalkInv'
    OBVIOUS
<1>1. ASSUME NEW s \in Shells, Start(s) PROVE WalkInv'
  BY <1>1 DEF Start, WalkInv, Provided
<1>t. ASSUME NEW k \in Packages, NEW p \in Paths, Take(k, p),
             \A q \in Paths : fs[q] = Dir => fs'[q] = Dir,
             install[k][p] = Dir => fs'[p] = Dir
      PROVE  WalkInv'
  <2>1. Merging /\ <<k, p>> \in todo
    BY <1>t DEF Take, NextSource, Merging
  <2>2. /\ cur' = <<k, p>> /\ cur' # NoEntry /\ cur'[1] = k
        /\ todo' = todo \ {<<k, p>>} /\ install' = install
    BY <1>t, PairFacts DEF Take
  <2>3. ASSUME NEW j \in Packages, j # k
        PROVE  \/ \A q \in Paths : <<j, q>> \notin todo'
               \/ \A q \in Paths : install[j][q] # Absent => <<j, q>> \in todo'
    BY <1>t, <2>1, <2>2, <2>3 DEF WalkInv, Take, NextSource
  <2>4. ASSUME NEW q \in Paths, install[k][q] = Dir, <<k, q>> \notin todo'
        PROVE  fs'[q] = Dir
    <3>1. CASE q = p
      BY <1>t, <2>4, <3>1
    <3>2. CASE q # p
      <4>1. <<k, q>> \notin todo
        BY <2>2, <2>4, <3>2
      <4>2. cur # NoEntry /\ k = cur[1]
        BY <2>1, <2>4, <4>1, EntryKinds DEF WalkInv
      <4> QED BY <1>t, <2>1, <2>4, <4>1, <4>2 DEF WalkInv
    <3> QED BY <3>1, <3>2
  <2> QED BY <2>2, <2>3, <2>4 DEF WalkInv
<1>2. ASSUME NEW k \in Packages, NEW p \in Paths, MergeDirectory(k, p) PROVE WalkInv'
  <2>1. fs' = Place(fs, p, Dir) /\ Dir \in Entries
    BY <1>2, EntryKinds DEF MergeDirectory
  <2>2. fs'[p] = Dir /\ \A q \in Paths : fs[q] = Dir => fs'[q] = Dir
    BY <2>1, PlaceFacts DEF TypeOK
  <2> QED BY <1>2, <1>t, <2>2 DEF MergeDirectory
<1>3. ASSUME NEW k \in Packages, NEW p \in Paths, MergeDirectoryFails(k, p) PROVE WalkInv'
  BY <1>3 DEF MergeDirectoryFails, Exit, WalkInv, Merging
<1>4. ASSUME NEW k \in Packages, NEW p \in Paths,
             MergeSkip(k, p) \/ MergeConflict(k, p) \/ MergeAbsent(k, p) PROVE WalkInv'
  BY <1>4, <1>t, EntryKinds DEF MergeSkip, MergeConflict, MergeAbsent
<1>5. CASE OverwriteYes
  <2>1. /\ cur[1] \in Packages /\ cur[2] \in Paths
        /\ install[cur[1]][cur[2]] \notin {Absent, Dir}
    BY <1>5, ParentsStayReady DEF OverwriteYes
  <2>2. \A q \in Paths : q = cur[2] \/ q \in Below[cur[2]] => install[cur[1]][q] # Dir
    BY <2>1, InstallFacts, EntryKinds DEF TypeOK
  <2>3. \A q \in Paths : ~(q = cur[2] \/ q \in Below[cur[2]]) => fs'[q] = fs[q]
    BY <1>5, <2>1, RemoveFacts DEF OverwriteYes, TypeOK
  <2> QED BY <1>5, <2>1, <2>2, <2>3 DEF OverwriteYes, WalkInv, Merging
<1>6. CASE OverwriteNo
  BY <1>6 DEF OverwriteNo, Exit, WalkInv, Merging
<1>7. CASE CopyEntry
  <2>1. /\ cur[1] \in Packages /\ cur[2] \in Paths
        /\ install[cur[1]][cur[2]] \in Entries \ {Absent, Dir}
    BY <1>7, ParentsStayReady DEF CopyEntry
  <2>2. \A q \in Paths : q # cur[2] /\ fs[q] = Dir => fs'[q] = Dir
    BY <1>7, <2>1, PlaceFacts DEF CopyEntry, TypeOK
  <2> QED BY <1>7, <2>1, <2>2 DEF CopyEntry, WalkInv, Merging
<1>8. CASE FinishMerge
  BY <1>8 DEF FinishMerge, WalkInv, Merging
<1>9. ASSUME NEW p \in Paths, StillProvided(p) \/ KeepStale(p) \/ RemoveStale(p) PROVE WalkInv'
  BY <1>9 DEF StillProvided, KeepStale, RemoveStale, NextLine, WalkInv, Merging
<1>10. ASSUME NEW p \in Paths, StaleEndOfFile(p) PROVE WalkInv'
  BY <1>10 DEF StaleEndOfFile, Exit, WalkInv, Merging
<1>11. CASE Promote
  BY <1>11 DEF Promote, WalkInv, Merging
<1>12. CASE InstallBanner
  BY <1>12 DEF InstallBanner, Exit, WalkInv, Merging
<1>13. CASE Killed
  BY <1>13 DEF Killed, Exit, WalkInv, Merging
<1>14. CASE Rebuild
  BY <1>14 DEF Rebuild, WalkInv, Merging
<1>15. ASSUME NEW e \in Edits, HandEdit(e[1], e[2]) PROVE WalkInv'
  BY <1>15 DEF HandEdit, WalkInv, Merging
<1>16. CASE UNCHANGED vars
  BY <1>16 DEF vars, WalkInv, Merging
<1> QED
  BY <1>1, <1>2, <1>3, <1>4, <1>5, <1>6, <1>7, <1>8, <1>9, <1>10, <1>11, <1>12,
     <1>13, <1>14, <1>15, <1>16 DEF Next, Merge, Reconcile, Environment

-----------------------------------------------------------------------------
LEMMA InitInv == Init => Inv
<1> SUFFICES ASSUME Init PROVE Inv
    OBVIOUS
<1>1. TypeOK
  BY EntryKinds DEF Init, TypeOK
<1>2. PhaseInv /\ ManifestInv /\ WalkInv /\ ManifestExact
  BY DEF Init, PhaseInv, ManifestInv, WalkInv, ManifestExact, Merging
<1> QED BY <1>1, <1>2 DEF Inv

LEMMA NextInv == Inv /\ [Next]_vars => Inv'
  BY TypeOKStep, PhaseStep, ManifestStep, WalkStep DEF Inv

(* Every history of runs of rootfs-builder.sh stays within the types and   *)
(* keeps the inductive invariant.                                          *)
THEOREM BuilderInvariant == Spec => []Inv
<1>1. Init => Inv
  BY InitInv
<1>2. Inv /\ [Next]_vars => Inv'
  BY NextInv
<1> QED BY <1>1, <1>2, PTL DEF Spec

(* The state of the script and of the root filesystem is well typed.       *)
THEOREM BuilderTypeOK == Spec => []TypeOK
<1>1. Inv => TypeOK
  BY DEF Inv
<1> QED BY <1>1, BuilderInvariant, PTL

(* Whatever runs were cancelled or killed before, the manifest a run       *)
(* promotes is complete and exact for the install trees it merged.         *)
THEOREM BuilderManifestExact == Spec => []ManifestExact
<1>1. Inv => ManifestExact
  BY DEF Inv
<1> QED BY <1>1, BuilderInvariant, PTL

-----------------------------------------------------------------------------
(* Copying or tearing an entry changes no existing entry: the destination  *)
(* is absent and the directories above it are there.                       *)
LEMMA PlaceCurrent ==
    ASSUME Inv, pc = "copy", NEW e \in Entries, NEW q \in Paths, Exists(fs, q)
    PROVE  Place(fs, cur[2], e)[q] = fs[q]
<1>1. /\ cur \in Packages \X Paths
      /\ cur[1] \in Packages /\ cur[2] \in Paths
      /\ install[cur[1]][cur[2]] \notin {Absent, Dir}
      /\ ~Exists(fs, cur[2])
  BY ParentsStayReady DEF Inv
<1>2. cur # NoEntry /\ Merging
  BY DEF Inv, PhaseInv, Merging
<1>3. ASSUME cur[2] \in Below[q] PROVE fs[q] = Dir
  <2>1. install[cur[1]][q] = Dir
    BY <1>1, <1>3, InstallFacts DEF Inv, TypeOK
  <2>2. <<cur[1], q>> \notin todo
    BY <1>3 DEF Inv, PhaseInv
  <2> QED BY <1>2, <2>1, <2>2 DEF Inv, WalkInv
<1>4. Place(fs, cur[2], e)[q] =
        IF q = cur[2] THEN e ELSE IF cur[2] \in Below[q] THEN Dir ELSE fs[q]
  BY <1>1, PlaceFacts DEF Inv, TypeOK
<1> QED BY <1>1, <1>3, <1>4 DEF Exists

(* Outside the package namespaces nothing that exists is changed or        *)
(* removed, unless the operator confirmed the overwrite of a path a        *)
(* package provides there.  It needs no assumption on the install trees.   *)
THEOREM BuilderConfigurationPreserved == Spec => ConfigurationPreserved
<1> DEFINE Kept(p) ==
        ~is_package_owned(p) /\ Exists(fs, p) /\ fs'[p] # fs[p] =>
            \/ pc = "idle"
            \/ pc = "ask" /\ (p = cur[2] \/ p \in Below[cur[2]])
                /\ Supported(install[cur[1]][cur[2]])
<1>1. ASSUME Inv, [Next]_vars, NEW p \in Paths PROVE Kept(p)
  <2> SUFFICES ASSUME pc # "idle", ~is_package_owned(p), Exists(fs, p), fs'[p] # fs[p]
               PROVE  pc = "ask" /\ (p = cur[2] \/ p \in Below[cur[2]])
                        /\ Supported(install[cur[1]][cur[2]])
      OBVIOUS
  <2>f. fs \in [Paths -> Entries]
    BY <1>1 DEF Inv, TypeOK
  <2>1. ASSUME NEW k \in Packages, NEW q \in Paths, MergeDirectory(k, q) PROVE FALSE
    <3>1. \A r \in Paths : q \in Below[r] => fs[r] = Dir
      BY <1>1, <2>1, ParentsReady DEF Inv, MergeDirectory, Take
    <3>2. fs' = Place(fs, q, Dir) /\ fs[q] \in {Absent, Dir}
      BY <2>1 DEF MergeDirectory
    <3>3. fs'[p] = IF p = q THEN Dir ELSE IF q \in Below[p] THEN Dir ELSE fs[p]
      BY <2>f, <3>2, PlaceFacts, EntryKinds
    <3> QED BY <3>1, <3>2, <3>3 DEF Exists
  <2>2. CASE OverwriteYes
    BY <1>1, <2>2, <2>f, RemoveFacts, ParentsStayReady DEF OverwriteYes, Inv, PhaseInv
  <2>3. CASE CopyEntry
    <3>1. pc = "copy" /\ install[cur[1]][cur[2]] \in Entries
      BY <1>1, <2>3, ParentsStayReady DEF CopyEntry, Inv
    <3> QED BY <1>1, <2>3, <3>1, PlaceCurrent DEF CopyEntry
  <2>4. ASSUME NEW q \in Paths, RemoveStale(q) PROVE FALSE
    <3>1. q \in oldM /\ is_package_owned(q)
      BY <1>1, <2>4 DEF RemoveStale, NextLine, Inv, ManifestInv
    <3>2. \A r \in Below[q] : is_package_owned(r)
      BY <3>1, NamespaceAssumption, BelowAssumption DEF is_package_owned
    <3>3. fs'[p] = IF p = q \/ p \in Below[q] THEN Absent ELSE fs[p]
      BY <2>4, <2>f, RemoveFacts DEF RemoveStale
    <3> QED BY <3>1, <3>2, <3>3
  <2>5. CASE InstallBanner
    <3>1. is_package_owned(BannerPath) /\ BannerPath \in Paths /\ BannerPath \notin Below[p]
      BY ContentsAssumption DEF is_package_owned, PackageNamespaces
    <3>2. p # BannerPath /\ File(Banner) \in Entries
      BY <3>1, EntryKinds
    <3>3. Place(fs, BannerPath, File(Banner))[p] = fs[p]
      BY <2>f, <3>1, <3>2, PlaceFacts
    <3>4. fs'[p] = fs[p]
      BY <2>5, <3>3 DEF InstallBanner
    <3> QED BY <3>4
  <2>6. CASE Killed
    BY <1>1, <2>6, PlaceCurrent, EntryKinds DEF Killed
  <2>7. CASE UNCHANGED fs
    BY <2>7
  <2> QED
    BY <1>1, <2>1, <2>2, <2>3, <2>4, <2>5, <2>6, <2>7
       DEF Next, Merge, Reconcile, Environment, vars, Start, MergeDirectoryFails, MergeSkip,
           MergeConflict, MergeAbsent, OverwriteNo, FinishMerge, StillProvided, KeepStale,
           StaleEndOfFile, Promote, Rebuild, HandEdit
<1>2. Inv /\ [Next]_vars => [\A p \in Paths : Kept(p)]_vars
  BY <1>1
<1> QED BY <1>2, BuilderInvariant, PTL DEF Spec, ConfigurationPreserved

-----------------------------------------------------------------------------
(* What has been merged stays installed, when no release turns a directory *)
(* into a file or back.                                                    *)
LEMMA InstallStep ==
    ASSUME KindsFixed, MergeInv, [Next]_vars
    PROVE  InstallInv'
<1> DEFINE Wanted(k, p) ==
        /\ Supported(install[k][p])
        /\ <<k, p>> \notin todo
        /\ pc \in {"ask", "copy"} => p # cur[2]
<1>f. TypeOK /\ fs \in [Paths -> Entries] /\ install \in Installs
  BY DEF MergeInv, Inv, TypeOK
<1>k. ASSUME NEW k \in Packages, NEW p \in Paths, Supported(install[k][p]) PROVE Below[p] = {}
  BY <1>f, <1>k, EntryKinds DEF KindsFixed
<1>o. \A p \in oldM' : Below[p] = {}
  <2>1. CASE Promote
    <3>1. \A p \in newM : p \in Paths /\ \E k \in Packages : Provides(k, p)
      BY <2>1 DEF Promote, MergeInv, Inv, ManifestInv
    <3> QED BY <1>f, <2>1, <3>1 DEF Promote, Provides, KindsFixed
  <2>2. CASE UNCHANGED oldM
    BY <2>2 DEF MergeInv, InstallInv
  <2> QED
    BY <2>1, <2>2
       DEF Next, Merge, Reconcile, Environment, vars, Start, MergeDirectory, MergeDirectoryFails,
           MergeSkip, MergeConflict, MergeAbsent, Take, OverwriteYes, OverwriteNo, CopyEntry,
           FinishMerge, StillProvided, RemoveStale, KeepStale, NextLine, StaleEndOfFile,
           InstallBanner, Killed, Rebuild, HandEdit
<1> SUFFICES ASSUME (pc # "idle" \/ outcome = "ok")',
                    NEW k \in Packages, NEW p \in Paths, Wanted(k, p)'
             PROVE  InstalledAt(p)'
  BY <1>o DEF InstallInv
<1>w. ASSUME pc # "idle" \/ outcome = "ok", Wanted(k, p) PROVE InstalledAt(p)
  BY <1>w DEF MergeInv, InstallInv
<1>s. ASSUME UNCHANGED install, fs'[p] = fs[p], InstalledAt(p) PROVE InstalledAt(p)'
  BY <1>s DEF InstalledAt
<1>1. ASSUME NEW s \in Shells, Start(s) PROVE FALSE
  BY <1>1, EntryKinds DEF Start, Provided
<1>2. ASSUME NEW j \in Packages, NEW q \in Paths, MergeDirectory(j, q) PROVE InstalledAt(p)'
  <2>1. install' = install /\ pc = "merge" /\ pc' = "merge" /\ todo' = todo \ {<<j, q>>}
    BY <1>2 DEF MergeDirectory, Take, NextSource
  <2>2. Wanted(k, p)
    BY <1>2, <2>1, EntryKinds DEF MergeDirectory
  <2>3. InstalledAt(p)
    BY <1>w, <2>1, <2>2
  <2>4. fs'[p] = fs[p]
    <3>1. fs[p] \in Links \cup Regulars
      BY <2>3, EntryKinds DEF InstalledAt
    <3>2. p # q
      BY <1>2, <3>1, EntryKinds DEF MergeDirectory
    <3>3. q \notin Below[p]
      BY <1>k, <2>2
    <3> QED BY <1>2, <1>f, <3>2, <3>3, PlaceFacts, EntryKinds DEF MergeDirectory
  <2> QED BY <1>s, <2>1, <2>3, <2>4
<1>3. ASSUME NEW j \in Packages, NEW q \in Paths, MergeSkip(j, q) PROVE InstalledAt(p)'
  <2>1. /\ install' = install /\ fs' = fs /\ pc = "merge" /\ pc' = "merge"
        /\ todo' = todo \ {<<j, q>>}
    BY <1>3 DEF MergeSkip, Take, NextSource
  <2>2. CASE <<k, p>> \notin todo
    BY <1>s, <1>w, <2>1, <2>2
  <2>3. CASE <<k, p>> \in todo
    <3>1. k = j /\ p = q
      BY <2>1, <2>3
    <3>2. SameEntry(install[k][p], fs, p) /\ Supported(install[k][p])
      BY <1>3, <2>1, <3>1 DEF MergeSkip
    <3>3. InstalledAt(p)
      BY <3>2, EntryKinds DEF SameEntry, Follow, InstalledAt
    <3> QED BY <1>s, <2>1, <3>3
  <2> QED BY <2>2, <2>3
<1>4. ASSUME NEW j \in Packages, NEW q \in Paths,
             MergeConflict(j, q) \/ MergeAbsent(j, q) PROVE InstalledAt(p)'
  <2>1. /\ install' = install /\ fs' = fs /\ pc = "merge" /\ pc' \in {"ask", "copy"}
        /\ todo' = todo \ {<<j, q>>} /\ cur' = <<j, q>>
    BY <1>4 DEF MergeConflict, MergeAbsent, Take, NextSource
  <2>2. p # q
    BY <2>1
  <2>3. Wanted(k, p)
    BY <2>1, <2>2
  <2> QED BY <1>s, <1>w, <2>1, <2>3
<1>5. CASE OverwriteYes
  <2>1. /\ install' = install /\ pc = "ask" /\ pc' = "copy" /\ todo' = todo /\ cur' = cur
        /\ cur[1] \in Packages /\ cur[2] \in Paths
        /\ Supported(install[cur[1]][cur[2]])
    BY <1>5, ParentsStayReady DEF OverwriteYes, MergeInv, Inv, PhaseInv
  <2>2. Wanted(k, p) /\ p # cur[2]
    BY <2>1
  <2>3. Below[cur[2]] = {}
    BY <1>k, <2>1
  <2>4. fs'[p] = fs[p]
    <3>1. fs' = Remove(fs, cur[2])
      BY <1>5 DEF OverwriteYes
    <3>2. fs'[p] = IF p = cur[2] \/ p \in Below[cur[2]] THEN Absent ELSE fs[p]
      BY <1>f, <2>1, <3>1, RemoveFacts
    <3> QED BY <2>2, <2>3, <3>2
  <2> QED BY <1>s, <1>w, <2>1, <2>2, <2>4
<1>6. CASE CopyEntry
  <2>1. /\ install' = install /\ pc = "copy" /\ pc' = "merge" /\ todo' = todo
        /\ cur[1] \in Packages /\ cur[2] \in Paths
        /\ install[cur[1]][cur[2]] \in Entries
        /\ Supported(install[cur[1]][cur[2]])
    BY <1>6, ParentsStayReady DEF CopyEntry, MergeInv, Inv, PhaseInv
  <2>2. fs'[p] = IF p = cur[2] THEN install[cur[1]][cur[2]]
                 ELSE IF cur[2] \in Below[p] THEN Dir ELSE fs[p]
    BY <1>6, <1>f, <2>1, PlaceFacts DEF CopyEntry
  <2>3. CASE p = cur[2]
    BY <2>1, <2>2, <2>3 DEF InstalledAt
  <2>4. CASE p # cur[2]
    <3>1. Below[p] = {}
      BY <1>k, <2>1
    <3>2. Wanted(k, p)
      BY <2>1, <2>4
    <3> QED BY <1>s, <1>w, <2>1, <2>2, <2>4, <3>1, <3>2
  <2> QED BY <2>3, <2>4
<1>7. CASE FinishMerge \/ Promote
  <2>1. UNCHANGED <<install, fs, todo>> /\ pc \in {"merge", "stale"} /\ todo = {}
    BY <1>7 DEF FinishMerge, Promote, MergeInv, Inv, PhaseInv, Merging
  <2> QED BY <1>s, <1>w, <2>1
<1>8. ASSUME NEW q \in Paths, StillProvided(q) \/ KeepStale(q) PROVE InstalledAt(p)'
  BY <1>8, <1>s, <1>w DEF StillProvided, KeepStale, NextLine
<1>9. ASSUME NEW q \in Paths, RemoveStale(q) PROVE InstalledAt(p)'
  <2>1. /\ UNCHANGED <<install, todo, pc>> /\ pc = "stale" /\ q \in oldM /\ q \notin newM
        /\ todo = {} /\ fs' = Remove(fs, q)
    BY <1>9 DEF RemoveStale, NextLine, IsStale, MergeInv, Inv, ManifestInv, PhaseInv, Merging
  <2>2. p # q
    <3>1. is_package_owned(q)
      BY <2>1 DEF MergeInv, Inv, ManifestInv
    <3>2. ~Provides(k, q)
      BY <2>1, <3>1 DEF MergeInv, Inv, ManifestInv
    <3> QED BY <2>1, <3>2, EntryKinds DEF Provides
  <2>3. Below[q] = {}
    BY <2>1 DEF MergeInv, InstallInv
  <2>4. fs'[p] = fs[p]
    BY <1>f, <2>1, <2>2, <2>3, RemoveFacts
  <2> QED BY <1>s, <1>w, <2>1, <2>4
<1>10. CASE InstallBanner
  <2>1. install' = install /\ pc = "banner" /\ todo = {}
    BY <1>10 DEF InstallBanner, MergeInv, Inv, PhaseInv, Merging
  <2>2. p # BannerPath /\ BannerPath \notin Below[p] /\ BannerPath \in Paths
    BY <1>f, <2>1, InstallFacts, EntryKinds, ContentsAssumption
  <2>3. fs'[p] = fs[p]
    BY <1>10, <1>f, <2>2, PlaceFacts, EntryKinds DEF InstallBanner
  <2> QED BY <1>s, <1>w, <2>1, <2>3
<1>11. CASE Killed \/ OverwriteNo
  BY <1>11 DEF Killed, OverwriteNo, Exit
<1>12. ASSUME NEW j \in Packages, NEW q \in Paths, MergeDirectoryFails(j, q) PROVE FALSE
  BY <1>12 DEF MergeDirectoryFails, Exit
<1>13. ASSUME NEW q \in Paths, StaleEndOfFile(q) PROVE FALSE
  BY <1>13 DEF StaleEndOfFile, Exit
<1>14. CASE Rebuild
  BY <1>14 DEF Rebuild
<1>15. ASSUME NEW e \in Edits, HandEdit(e[1], e[2]) PROVE FALSE
  BY <1>15 DEF HandEdit
<1>16. CASE UNCHANGED vars
  BY <1>16, <1>s, <1>w DEF vars
<1> QED
  BY <1>1, <1>2, <1>3, <1>4, <1>5, <1>6, <1>7, <1>8, <1>9, <1>10, <1>11, <1>12, <1>13,
     <1>14, <1>15, <1>16 DEF MergeInv, Next, Merge, Reconcile, Environment

(* At every point of every run what has been merged so far is installed    *)
(* and recorded, whatever earlier runs and hand edits left behind, when no *)
(* release turns a directory into a file or back.                          *)
THEOREM BuilderMergeInvariant ==
    ASSUME KindsFixed
    PROVE  Spec => []MergeInv
<1>1. Init => MergeInv
  BY InitInv DEF Init, MergeInv, InstallInv
<1>2. MergeInv /\ [Next]_vars => MergeInv'
  BY NextInv, InstallStep DEF MergeInv
<1> QED BY <1>1, <1>2, PTL DEF Spec

(* After every successful run all links and regular files of all install   *)
(* trees are in the root filesystem, when no release turns a directory     *)
(* into a file or back.                                                    *)
THEOREM BuilderInstalledOnSuccess ==
    ASSUME KindsFixed
    PROVE  Spec => []InstalledOnSuccess
<1>1. Spec => []MergeInv
  BY BuilderMergeInvariant
<1>2. MergeInv => InstalledOnSuccess
  BY DEF MergeInv, Inv, PhaseInv, Merging, InstallInv, InstalledOnSuccess
<1> QED BY <1>1, <1>2, PTL

(* The stale check removes nothing that a current package provides, under  *)
(* the same assumption; without it RemoveStale takes the directory a       *)
(* former file has become, with what was just installed in it.             *)
THEOREM BuilderStaleRemoval ==
    ASSUME KindsFixed
    PROVE  Spec => StaleRemovalSparesProvided
<1> DEFINE Spares ==
        pc = "stale" => \A k \in Packages, p \in Paths :
            Provides(k, p) /\ Exists(fs, p) => Exists(fs', p)
<1>1. ASSUME MergeInv, [Next]_vars PROVE Spares
  <2> SUFFICES ASSUME pc = "stale", NEW k \in Packages, NEW p \in Paths,
                      Provides(k, p), Exists(fs, p)
               PROVE  Exists(fs', p)
      OBVIOUS
  <2>1. ASSUME NEW q \in Paths, RemoveStale(q) PROVE Exists(fs', p)
    <3>1. /\ q \in oldM /\ q \notin newM /\ todo = {} /\ fs' = Remove(fs, q)
          /\ is_package_owned(q) /\ Below[q] = {}
      BY <1>1, <2>1
         DEF RemoveStale, NextLine, IsStale, MergeInv, Inv, ManifestInv, PhaseInv, Merging, InstallInv
    <3>2. p # q
      BY <1>1, <3>1 DEF MergeInv, Inv, ManifestInv
    <3>3. fs'[p] = IF p = q \/ p \in Below[q] THEN Absent ELSE fs[p]
      BY <1>1, <3>1, RemoveFacts DEF MergeInv, Inv, TypeOK
    <3> QED BY <3>1, <3>2, <3>3 DEF Exists
  <2>2. CASE UNCHANGED fs
    BY <2>2 DEF Exists
  <2> QED
    BY <1>1, <2>1, <2>2
       DEF Next, Merge, Reconcile, Environment, vars, Start, MergeDirectory, MergeDirectoryFails,
           MergeSkip, MergeConflict, MergeAbsent, Take, NextSource, OverwriteYes, OverwriteNo,
           CopyEntry, FinishMerge, StillProvided, KeepStale, StaleEndOfFile, Promote,
           InstallBanner, Killed, Rebuild, HandEdit
<1>2. MergeInv /\ [Next]_vars => [Spares]_vars
  BY <1>1
<1>3. Spec => []MergeInv
  BY BuilderMergeInvariant
<1> QED BY <1>2, <1>3, PTL DEF Spec, StaleRemovalSparesProvided

=============================================================================
