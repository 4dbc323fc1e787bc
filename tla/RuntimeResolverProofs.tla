------------------------ MODULE RuntimeResolverProofs ------------------------
(***************************************************************************)
(* Theorems about RuntimeResolver, for every dependency graph (cyclic ones *)
(* too), every sysroot and every history of runs.                          *)
(***************************************************************************)
EXTENDS RuntimeResolver, SequenceTheorems, WellFoundedInduction, TLAPS

LEMMA EntryFacts ==
    /\ Absent \notin Links \cup Regulars
    /\ {Absent, Dir} \cup Links \cup Regulars \subseteq Entries
    /\ File(Torn) \in Entries
<1>1. /\ \A e \in Links : e.kind = "link"
      /\ \A e \in Regulars : e.kind = "file"
      /\ Absent.kind = "absent"
  BY DEF Absent, Links, Regulars, Link, File
<1>2. Absent \notin Links \cup Regulars
  BY <1>1
<1> QED BY <1>2, ResolverTreeAssumption DEF Entries, Regulars

LEMMA RemoveType ==
    ASSUME NEW t \in [Paths -> Entries], NEW p \in Paths
    PROVE  Remove(t, p) \in [Paths -> Entries]
  BY EntryFacts DEF Remove

LEMMA PlaceType ==
    ASSUME NEW t \in [Paths -> Entries], NEW p \in Paths, NEW e \in Entries
    PROVE  Place(t, p, e) \in [Paths -> Entries]
  BY EntryFacts DEF Place

LEMMA WorldFacts ==
    ASSUME NEW w \in Worlds
    PROVE  /\ w.tree \in [Paths -> Entries]
           /\ w.find \in [Libs -> Paths \cup {NotFound}]
           /\ w.needs \in [Libs -> Seq(Libs)]
           /\ w.elfs \in SUBSET Seq(Libs)
           /\ \A l \in Libs : w.find[l] # NotFound => w.tree[w.find[l]] \in Links \cup Regulars
  BY WorldAssumption DEF WorldType, Trees

LEMMA NamesRange ==
    ASSUME NEW s \in Seq(Libs)
    PROVE  NamesIn(s) = { s[i] : i \in 1..Len(s) }
  BY DEF NamesIn

(* Sequences as work lists: the names of a list, of its tail and of two    *)
(* lists one after the other.                                              *)
LEMMA NamesFacts ==
    ASSUME NEW s \in Seq(Libs)
    PROVE  /\ NamesIn(s) \subseteq Libs
           /\ s = <<>> => NamesIn(s) = {}
           /\ s # <<>> => /\ Head(s) \in Libs
                          /\ Tail(s) \in Seq(Libs)
                          /\ NamesIn(s) = {Head(s)} \cup NamesIn(Tail(s))
<1>1. NamesIn(s) = { s[i] : i \in 1..Len(s) }
  BY DEF NamesIn
<1>2. ASSUME s # <<>>
      PROVE  /\ Head(s) \in Libs /\ Tail(s) \in Seq(Libs)
             /\ NamesIn(s) = {Head(s)} \cup NamesIn(Tail(s))
  <2>1. Len(s) \in Nat /\ Len(s) >= 1 /\ Head(s) = s[1] /\ Head(s) \in Libs
    BY <1>2
  <2>2. Tail(s) \in Seq(Libs) /\ Len(Tail(s)) = Len(s) - 1
    BY <1>2
  <2>3. \A i \in 1..Len(Tail(s)) : Tail(s)[i] = s[i + 1]
    BY <1>2, HeadTailProperties, Zenon
  <2>4. NamesIn(Tail(s)) = { Tail(s)[i] : i \in 1..Len(Tail(s)) }
    BY <2>2, NamesRange, Zenon
  <2>5. \A x \in NamesIn(s) : x = Head(s) \/ x \in NamesIn(Tail(s))
    <3> SUFFICES ASSUME NEW i \in 1..Len(s), i # 1 PROVE s[i] \in NamesIn(Tail(s))
      BY <1>1, <2>1
    <3>1. i - 1 \in 1..Len(Tail(s)) /\ (i - 1) + 1 = i
      BY <2>1, <2>2
    <3> QED BY <2>3, <2>4, <3>1
  <2>6. \A x \in NamesIn(Tail(s)) : x \in NamesIn(s)
    BY <1>1, <2>1, <2>2, <2>3, <2>4
  <2>7. Head(s) \in NamesIn(s)
    BY <1>1, <2>1
  <2> QED BY <2>1, <2>2, <2>5, <2>6, <2>7
<1> QED BY <1>1, <1>2

LEMMA ConcatNames ==
    ASSUME NEW s \in Seq(Libs), NEW t \in Seq(Libs)
    PROVE  s \o t \in Seq(Libs) /\ NamesIn(s \o t) = NamesIn(s) \cup NamesIn(t)
<1>1. s \o t \in Seq(Libs) /\ Len(s \o t) = Len(s) + Len(t) /\ Len(s) \in Nat /\ Len(t) \in Nat
  OBVIOUS
<1>2. \A i \in 1..Len(s) : (s \o t)[i] = s[i]
  OBVIOUS
<1>3. \A i \in 1..Len(t) : (s \o t)[Len(s) + i] = t[i]
  OBVIOUS
<1>4. /\ NamesIn(s) = { s[i] : i \in 1..Len(s) }
      /\ NamesIn(t) = { t[i] : i \in 1..Len(t) }
      /\ NamesIn(s \o t) = { (s \o t)[i] : i \in 1..(Len(s) + Len(t)) }
  BY <1>1 DEF NamesIn
<1>5. NamesIn(s) \subseteq NamesIn(s \o t)
  BY <1>1, <1>2, <1>4
<1>6. NamesIn(t) \subseteq NamesIn(s \o t)
  <2> SUFFICES ASSUME NEW i \in 1..Len(t) PROVE t[i] \in NamesIn(s \o t)
    BY <1>4
  <2>1. Len(s) + i \in 1..(Len(s) + Len(t))
    BY <1>1
  <2> QED BY <1>3, <1>4, <2>1
<1>7. NamesIn(s \o t) \subseteq NamesIn(s) \cup NamesIn(t)
  <2> SUFFICES ASSUME NEW i \in 1..(Len(s) + Len(t)) PROVE (s \o t)[i] \in NamesIn(s) \cup NamesIn(t)
    BY <1>4
  <2>1. CASE i <= Len(s)
    <3>1. i \in 1..Len(s)
      BY <1>1, <2>1
    <3> QED BY <1>2, <1>4, <3>1
  <2>2. CASE i > Len(s)
    <3>1. i - Len(s) \in 1..Len(t) /\ Len(s) + (i - Len(s)) = i
      BY <1>1, <2>2
    <3> QED BY <1>3, <1>4, <3>1
  <2> QED BY <1>1, <2>1, <2>2
<1> QED BY <1>1, <1>5, <1>6, <1>7

(* The required libraries contain what the ELF files need and what they    *)
(* need themselves, and lie in every set that does.                        *)
LEMMA RequiredFacts ==
    ASSUME NEW w \in Worlds
    PROVE  /\ Required(w) \subseteq Libs
           /\ \A e \in w.elfs : NamesIn(e) \subseteq Required(w)
           /\ \A l \in Required(w) : NamesIn(w.needs[l]) \subseteq Required(w)
           /\ \A S \in SUBSET Libs : ClosedUnderNeeds(w, S) => Required(w) \subseteq S
<1>1. \A e \in w.elfs : NamesIn(e) \subseteq Libs
  BY WorldFacts, NamesFacts
<1>2. \A l \in Libs : NamesIn(w.needs[l]) \subseteq Libs
  BY WorldFacts, NamesFacts
<1>3. \A e \in w.elfs : NamesIn(e) \subseteq Required(w)
  BY <1>1 DEF Required, ClosedUnderNeeds
<1>4. \A l \in Required(w) : NamesIn(w.needs[l]) \subseteq Required(w)
  BY <1>2 DEF Required, ClosedUnderNeeds
<1> QED BY <1>3, <1>4 DEF Required

(* The files of no library, and of one library more.                       *)
LEMMA FilesFacts ==
    ASSUME NEW w, NEW S, NEW x
    PROVE  /\ FilesOf(w, {}) = {}
           /\ FilesOf(w, S \cup {x}) = FilesOf(w, S) \cup Chain(w, x)
<1>1. FilesOf(w, {}) = {}
  BY DEF FilesOf
<1>2. \A T, f : f \in FilesOf(w, T) <=> \E l \in T : f \in Chain(w, l)
  BY DEF FilesOf
<1>3. \A f : f \in FilesOf(w, S \cup {x}) <=> f \in FilesOf(w, S) \cup Chain(w, x)
  BY <1>2
<1> QED BY <1>1, <1>3

(* realpath never ends at a link.                                          *)
LEMMA RealPathFacts ==
    ASSUME NEW t, NEW p, RealPath(t, p) # NotFound
    PROVE  RealPath(t, p) \in Paths /\ t[RealPath(t, p)] \notin Links
<1>1. \E q \in Paths : EndOf(t, p, q)
  BY DEF RealPath
<1>2. RealPath(t, p) = CHOOSE q \in Paths : EndOf(t, p, q)
  BY <1>1 DEF RealPath
<1> QED BY <1>1, <1>2 DEF EndOf
-----------------------------------------------------------------------------
LEMMA TypeOKStep == TypeOK /\ ChainInv /\ [Next]_vars => TypeOK'
<1> SUFFICES ASSUME TypeOK, ChainInv, [Next]_vars PROVE TypeOK'
    OBVIOUS
<1> USE DEF TypeOK, process, NoLib, NoPath
<1>w. /\ world.tree \in [Paths -> Entries]
      /\ world.find \in [Libs -> Paths \cup {NotFound}]
      /\ world.needs \in [Libs -> Seq(Libs)]
      /\ world.elfs \in SUBSET Seq(Libs)
  BY WorldFacts
<1>c. ASSUME pc \in {"copy", "ask", "place", "next"}
      PROVE  current \in Paths /\ lib \in Libs /\ world.tree[current] \in Entries
  BY <1>c, <1>w DEF ChainInv, Copying
<1>x. ASSUME NEW st \in {"ok", "cancelled", "failed", "killed"}, Exit(st),
             world' = world, fs' \in [Paths -> Entries], oldM' \in SUBSET Paths,
             newM' \in SUBSET Paths
      PROVE  TypeOK'
  BY <1>x DEF Exit
<1>1. CASE Start
  BY <1>1, <1>w DEF Start
<1>2. ASSUME NEW e \in elfs, ProcessElf(e) PROVE TypeOK'
  BY <1>2 DEF ProcessElf, Scanning
<1>3. CASE AlreadyResolved
  BY <1>3, NamesFacts DEF AlreadyResolved, Scanning
<1>4. CASE DependencyNotFound
  BY <1>4, <1>x DEF DependencyNotFound
<1>5. CASE ResolveLibrary
  BY <1>5, <1>w, NamesFacts DEF ResolveLibrary, Scanning
<1>6. CASE CopyAbsent \/ CopySkip \/ CopyConflict
  <2>1. /\ newM' = newM \cup {current} /\ current \in Paths
        /\ UNCHANGED <<world, fs, oldM>>
        /\ Exit("failed") \/ (pc' \in {"place", "next", "ask"} /\ UNCHANGED <<process, outcome>>)
    BY <1>6, <1>c DEF CopyAbsent, CopySkip, CopyConflict, copy_runtime_file
  <2> QED BY <1>x, <2>1
<1>7. CASE OverwriteYes
  BY <1>7, <1>c, RemoveType DEF OverwriteYes
<1>8. CASE OverwriteNo \/ OverwriteEndOfFile
  BY <1>8, <1>x DEF OverwriteNo, OverwriteEndOfFile
<1>9. CASE PlaceEntry
  BY <1>9, <1>c, PlaceType DEF PlaceEntry
<1>10. CASE ChainEnd
  <2>1. world.needs[lib] \o pending \in Seq(Libs)
    BY <1>10, <1>c, <1>w, ConcatNames DEF ChainEnd
  <2> QED BY <1>10, <2>1 DEF ChainEnd
<1>11. CASE ChainNext
  <2>1. current' \in Paths
    BY <1>11, RealPathFacts DEF ChainNext, Broken, Target
  <2> QED BY <1>11, <2>1 DEF ChainNext
<1>12. CASE ChainBroken
  BY <1>12, <1>x DEF ChainBroken
<1>13. CASE FinishScan
  BY <1>13 DEF FinishScan
<1>14. ASSUME NEW p \in Paths, StillRequired(p) \/ KeepStale(p) PROVE TypeOK'
  BY <1>14 DEF StillRequired, KeepStale, NextLine
<1>15. ASSUME NEW p \in Paths, RemoveStale(p) PROVE TypeOK'
  BY <1>15, RemoveType DEF RemoveStale, NextLine
<1>16. ASSUME NEW p \in Paths, StaleEndOfFile(p) PROVE TypeOK'
  BY <1>16, <1>x DEF StaleEndOfFile
<1>17. CASE Promote
  BY <1>17, <1>x DEF Promote
<1>18. CASE Killed
  <2>1. fs' \in [Paths -> Entries]
    BY <1>18, <1>c, PlaceType, EntryFacts DEF Killed
  <2> QED BY <1>18, <1>x, <2>1 DEF Killed
<1>19. CASE ChangeWorld
  BY <1>19 DEF ChangeWorld
<1>20. CASE UNCHANGED vars
  BY <1>20 DEF vars
<1> QED
  BY <1>1, <1>2, <1>3, <1>4, <1>5, <1>6, <1>7, <1>8, <1>9, <1>10, <1>11, <1>12, <1>13,
     <1>14, <1>15, <1>16, <1>17, <1>18, <1>19, <1>20 DEF Next, Resolve, Reconcile

-----------------------------------------------------------------------------
(* The rest of the inductive invariant.                                    *)
GraphInv == ChainInv /\ SoundInv /\ CompleteInv /\ RecordInv /\ ManifestExact

(* A run that ends without success leaves nothing to show.                 *)
LEMMA ExitStep ==
    ASSUME NEW st \in {"cancelled", "failed", "killed"}, Exit(st)
    PROVE  GraphInv'
<1>0. <<>> \in Seq(Libs)
  OBVIOUS
<1>1. NamesIn(<<>>) = {}
  BY <1>0, NamesFacts, Zenon
<1>2. /\ pc' = "idle" /\ outcome' = st /\ elfs' = {} /\ pending' = <<>> /\ resolved' = {}
      /\ lib' = NoLib
  BY DEF Exit
<1>3. ChainInv'
  BY <1>2 DEF ChainInv, Copying
<1>4. SoundInv'
  BY <1>1, <1>2 DEF SoundInv
<1>5. CompleteInv' /\ RecordInv' /\ ManifestExact'
  BY <1>2 DEF CompleteInv, RecordInv, ManifestExact
<1> QED BY <1>3, <1>4, <1>5 DEF GraphInv

(* At the end of the scan the resolved libraries are the required ones and *)
(* the new manifest holds their files.                                     *)
LEMMA ScanComplete ==
    ASSUME TypeOK, GraphInv, pc \in {"scan", "stale"}, elfs = {}, pending = <<>>
    PROVE  resolved = Required(world) /\ newM = RequiredFiles(world)
<1>1. NamesIn(pending) = {} /\ lib = NoLib /\ NoLib \notin resolved
  BY NamesFacts, WorldAssumption DEF TypeOK, GraphInv, ChainInv, Copying, NoLib
<1>2. ClosedUnderNeeds(world, resolved)
  BY <1>1 DEF GraphInv, CompleteInv, ClosedUnderNeeds
<1>3. resolved = Required(world)
  BY <1>2, RequiredFacts DEF TypeOK, GraphInv, SoundInv
<1>4. newM = FilesOf(world, resolved)
  BY <1>1 DEF GraphInv, RecordInv, Recorded, Copying
<1> QED BY <1>3, <1>4 DEF RequiredFiles

LEMMA GraphStep == TypeOK /\ GraphInv /\ [Next]_vars => GraphInv'
<1> SUFFICES ASSUME TypeOK, GraphInv, [Next]_vars PROVE GraphInv'
    OBVIOUS
<1>i. ChainInv /\ SoundInv /\ CompleteInv /\ RecordInv /\ ManifestExact
  BY DEF GraphInv
<1>n. NoLib \notin Libs /\ NoLib = NotFound /\ NoPath = NotFound /\ NotFound \notin Paths
  BY WorldAssumption DEF NoLib, NoPath
<1>w. /\ world \in Worlds
      /\ world.tree \in [Paths -> Entries]
      /\ world.find \in [Libs -> Paths \cup {NotFound}]
      /\ world.needs \in [Libs -> Seq(Libs)]
      /\ world.elfs \in SUBSET Seq(Libs)
  BY WorldFacts DEF TypeOK
<1>p. pending \in Seq(Libs) /\ resolved \subseteq Libs /\ lib \in Libs \cup {NoLib}
  BY DEF TypeOK
(* Steps that leave the scan alone: only fs, or lines of the old manifest. *)
<1>u. ASSUME UNCHANGED <<world, oldM, newM, elfs, pending, resolved, lib, current, outcome>>,
             \/ pc' = pc
             \/ pc \in {"ask", "place"} /\ pc' \in {"place", "next"}
      PROVE  GraphInv'
  <2>1. pc = pc' \/ (pc \in {"ask", "place"} /\ pc' \in {"place", "next"})
    BY <1>u
  <2>2. ChainInv'
    BY <1>u, <1>i, <2>1 DEF ChainInv, Copying
  <2>3. SoundInv' /\ CompleteInv' /\ ManifestExact'
    BY <1>u, <1>i, <2>1 DEF SoundInv, CompleteInv, ManifestExact
  <2>4. Recorded' = Recorded
    BY <1>u, <2>1 DEF Recorded, Copying
  <2>5. RecordInv'
    BY <1>u, <1>i, <2>1, <2>4 DEF RecordInv
  <2> QED BY <2>2, <2>3, <2>5 DEF GraphInv
<1>1. CASE Start
  <2>1. /\ pc = "idle" /\ pc' = "scan" /\ newM' = {} /\ elfs' = world.elfs /\ outcome' = "running"
        /\ UNCHANGED <<world, pending, resolved, lib, current>>
        /\ resolved = {} /\ pending = <<>> /\ lib = NoLib
    BY <1>1, <1>i DEF Start, ChainInv, Copying
  <2>2. ChainInv'
    BY <2>1, <1>i DEF ChainInv, Copying
  <2>3. SoundInv' /\ CompleteInv' /\ ManifestExact'
    BY <2>1, <1>i DEF SoundInv, CompleteInv, ManifestExact
  <2>4. RecordInv'
    BY <2>1, FilesFacts DEF RecordInv, Recorded, Copying
  <2> QED BY <2>2, <2>3, <2>4 DEF GraphInv
<1>2. ASSUME NEW e \in elfs, ProcessElf(e) PROVE GraphInv'
  <2>1. /\ pc = "scan" /\ pc' = pc /\ pending = <<>> /\ pending' = e /\ elfs' = elfs \ {e}
        /\ UNCHANGED <<world, oldM, newM, resolved, lib, current, outcome>>
    BY <1>2 DEF ProcessElf, Scanning
  <2>2. NamesIn(pending) = {} /\ NamesIn(e) \subseteq Required(world) /\ e \in world.elfs
    BY <1>i, <1>p, <1>w, <2>1, NamesFacts, RequiredFacts DEF SoundInv
  <2>3. ChainInv'
    BY <1>i, <2>1 DEF ChainInv, Copying
  <2>4. SoundInv' /\ CompleteInv'
    BY <1>i, <2>1, <2>2 DEF SoundInv, CompleteInv
  <2>5. RecordInv' /\ ManifestExact'
    BY <1>i, <2>1 DEF RecordInv, Recorded, Copying, ManifestExact
  <2> QED BY <2>3, <2>4, <2>5 DEF GraphInv
<1>3. CASE AlreadyResolved
  <2>1. /\ pc = "scan" /\ pc' = pc /\ pending # <<>> /\ pending' = Tail(pending)
        /\ Head(pending) \in resolved
        /\ UNCHANGED <<world, oldM, newM, elfs, resolved, lib, current, outcome>>
    BY <1>3 DEF AlreadyResolved, Scanning
  <2>2. NamesIn(pending) = {Head(pending)} \cup NamesIn(pending')
    BY <1>p, <2>1, NamesFacts
  <2>3. ChainInv'
    BY <1>i, <2>1 DEF ChainInv, Copying
  <2>4. SoundInv' /\ CompleteInv'
    BY <1>i, <2>1, <2>2 DEF SoundInv, CompleteInv
  <2>5. RecordInv' /\ ManifestExact'
    BY <1>i, <2>1 DEF RecordInv, Recorded, Copying, ManifestExact
  <2> QED BY <2>3, <2>4, <2>5 DEF GraphInv
<1>4. CASE DependencyNotFound
  BY <1>4, ExitStep DEF DependencyNotFound
<1>5. CASE ResolveLibrary
  <2> DEFINE l == Head(pending)
  <2>1. /\ pc = "scan" /\ pc' = "copy" /\ pending # <<>> /\ pending' = Tail(pending)
        /\ l \notin resolved /\ world.find[l] # NotFound /\ resolved' = resolved \cup {l}
        /\ lib' = l /\ current' = world.find[l]
        /\ UNCHANGED <<world, oldM, newM, elfs, outcome>>
    BY <1>5 DEF ResolveLibrary, Scanning
  <2>2. NamesIn(pending) = {l} \cup NamesIn(pending') /\ l \in Libs
    BY <1>p, <2>1, NamesFacts
  <2>3. lib = NoLib /\ lib' # NoLib /\ current' \in Paths /\ current' \in Chain(world, l)
    BY <1>i, <1>n, <1>w, <2>1, <2>2 DEF ChainInv, Copying, Chain
  <2>4. ChainInv'
    BY <1>i, <2>1, <2>3 DEF ChainInv, Copying
  <2>6. resolved' \ {lib'} = resolved \ {lib}
    BY <1>p, <1>n, <2>1, <2>3
  <2>8. resolved' \cup NamesIn(pending') = resolved \cup NamesIn(pending)
    BY <2>1, <2>2
  <2>5. SoundInv' /\ CompleteInv'
    BY <1>i, <2>1, <2>6, <2>8 DEF SoundInv, CompleteInv
  <2>7. RecordInv' /\ ManifestExact'
    BY <1>i, <2>1, <2>6 DEF RecordInv, Recorded, Copying, ManifestExact
  <2> QED BY <2>4, <2>5, <2>7 DEF GraphInv
<1>6. CASE CopyAbsent \/ CopySkip \/ CopyConflict
  <2>1. CASE Exit("failed")
    BY <2>1, ExitStep
  <2>2. CASE pc' \in {"place", "next", "ask"} /\ UNCHANGED <<process, outcome>>
    <3>1. /\ pc = "copy" /\ newM' = newM \cup {current} /\ pc' \in {"place", "next", "ask"}
          /\ UNCHANGED <<world, oldM, elfs, pending, resolved, lib, current, outcome>>
      BY <1>6, <2>2 DEF CopyAbsent, CopySkip, CopyConflict, copy_runtime_file, process
    <3>2. ChainInv'
      BY <1>i, <3>1 DEF ChainInv, Copying
    <3>3. SoundInv' /\ CompleteInv' /\ ManifestExact'
      BY <1>i, <3>1 DEF SoundInv, CompleteInv, ManifestExact
    <3>4. Recorded' = Recorded \cup {current}
      BY <3>1 DEF Recorded, Copying
    <3>6. newM = FilesOf(world, resolved \ {lib}) \cup Recorded
      BY <1>i, <3>1 DEF RecordInv
    <3>7. newM' = FilesOf(world, resolved \ {lib}) \cup Recorded'
      BY <3>1, <3>4, <3>6
    <3>5. RecordInv'
      BY <3>1, <3>7 DEF RecordInv
    <3> QED BY <3>2, <3>3, <3>5 DEF GraphInv
  <2> QED BY <1>6, <2>1, <2>2 DEF CopyAbsent, CopySkip, CopyConflict, copy_runtime_file
<1>7. CASE OverwriteYes \/ PlaceEntry
  BY <1>7, <1>u DEF OverwriteYes, PlaceEntry, process
<1>8. CASE OverwriteNo \/ OverwriteEndOfFile
  BY <1>8, ExitStep DEF OverwriteNo, OverwriteEndOfFile
<1>9. CASE ChainEnd
  <2>1. /\ pc = "next" /\ pc' = "scan" /\ world.tree[current] \notin Links
        /\ pending' = world.needs[lib] \o pending /\ lib' = NoLib
        /\ UNCHANGED <<world, oldM, newM, elfs, resolved, outcome>>
        /\ lib \in resolved /\ lib \in Libs
        /\ current \in Chain(world, lib)
    BY <1>9, <1>i, <1>p DEF ChainEnd, ChainInv, Copying
  <2>2. NamesIn(pending') = NamesIn(world.needs[lib]) \cup NamesIn(pending)
    BY <1>p, <1>w, <2>1, ConcatNames
  <2>3. ChainInv'
    BY <1>i, <2>1 DEF ChainInv, Copying
  <2>4. SoundInv' /\ CompleteInv'
    BY <1>i, <1>w, <2>1, <2>2, RequiredFacts DEF SoundInv, CompleteInv
  <2>5. Recorded = Chain(world, lib)
    BY <2>1 DEF Recorded, Copying, Chain
  <2>6. resolved' \ {lib'} = (resolved \ {lib}) \cup {lib}
    BY <1>n, <1>p, <2>1
  <2>9. newM = FilesOf(world, resolved \ {lib}) \cup Chain(world, lib)
    BY <1>i, <2>1, <2>5 DEF RecordInv
  <2>10. FilesOf(world, (resolved \ {lib}) \cup {lib})
            = FilesOf(world, resolved \ {lib}) \cup Chain(world, lib)
    BY FilesFacts
  <2>7. newM' = FilesOf(world, resolved' \ {lib'})
    BY <2>1, <2>6, <2>9, <2>10
  <2>8. RecordInv' /\ ManifestExact'
    BY <1>i, <2>1, <2>7 DEF RecordInv, Recorded, Copying, ManifestExact
  <2> QED BY <2>3, <2>4, <2>8 DEF GraphInv
<1>10. CASE ChainNext
  <2>1. /\ pc = "next" /\ pc' = "copy" /\ world.tree[current] \in Links
        /\ current = world.find[lib] /\ lib \in resolved
        /\ current' = RealPath(world.tree, world.tree[current].to) /\ current' # NotFound
        /\ UNCHANGED <<world, oldM, newM, elfs, pending, resolved, lib, outcome>>
    BY <1>10, <1>i DEF ChainNext, Target, Broken, ChainInv, Copying
  <2>2. current' \in Paths /\ world.tree[current'] \notin Links /\ current' # current
    BY <2>1, RealPathFacts
  <2>3. current' \in Chain(world, lib)
    BY <2>1 DEF Chain
  <2>4. ChainInv'
    BY <1>i, <2>1, <2>2, <2>3 DEF ChainInv, Copying
  <2>5. SoundInv' /\ CompleteInv' /\ ManifestExact'
    BY <1>i, <2>1 DEF SoundInv, CompleteInv, ManifestExact
  <2>6. Recorded' = Recorded
    BY <2>1, <2>2 DEF Recorded, Copying
  <2>7. RecordInv'
    BY <1>i, <2>1, <2>6 DEF RecordInv
  <2> QED BY <2>4, <2>5, <2>7 DEF GraphInv
<1>11. CASE ChainBroken
  BY <1>11, ExitStep DEF ChainBroken
<1>12. CASE FinishScan
  <2>1. /\ pc = "scan" /\ pc' = "stale" /\ elfs = {} /\ pending = <<>>
        /\ UNCHANGED <<world, oldM, newM, elfs, pending, resolved, lib, current, outcome>>
    BY <1>12 DEF FinishScan
  <2>2. ChainInv'
    BY <1>i, <2>1 DEF ChainInv, Copying
  <2>3. SoundInv' /\ CompleteInv' /\ ManifestExact'
    BY <1>i, <2>1 DEF SoundInv, CompleteInv, ManifestExact
  <2>4. RecordInv'
    BY <1>i, <2>1 DEF RecordInv, Recorded, Copying
  <2> QED BY <2>2, <2>3, <2>4 DEF GraphInv
<1>13. ASSUME NEW q \in Paths, StillRequired(q) \/ KeepStale(q) \/ RemoveStale(q) PROVE GraphInv'
  BY <1>13, <1>u DEF StillRequired, KeepStale, RemoveStale, NextLine
<1>14. ASSUME NEW q \in Paths, StaleEndOfFile(q) PROVE GraphInv'
  BY <1>14, ExitStep DEF StaleEndOfFile
<1>15. CASE Promote
  <2>1. /\ pc = "stale" /\ oldM' = newM /\ world' = world /\ Exit("ok")
        /\ elfs = {} /\ pending = <<>>
    BY <1>15, <1>i DEF Promote, ChainInv
  <2>2. oldM' = RequiredFiles(world)
    BY <2>1, ScanComplete
  <2>3. /\ pc' = "idle" /\ outcome' = "ok" /\ elfs' = {} /\ pending' = <<>> /\ resolved' = {}
        /\ lib' = NoLib
    BY <2>1 DEF Exit
  <2>4. ManifestExact'
    BY <2>1, <2>2 DEF ManifestExact
  <2>5. NamesIn(pending') = {}
    BY <1>i, <1>p, <2>1, <2>3, NamesFacts
  <2>6. ChainInv' /\ SoundInv' /\ CompleteInv' /\ RecordInv'
    BY <2>3, <2>5 DEF ChainInv, Copying, SoundInv, CompleteInv, RecordInv
  <2> QED BY <2>4, <2>6 DEF GraphInv
<1>16. CASE Killed
  BY <1>16, ExitStep DEF Killed
<1>17. CASE ChangeWorld
  <2>1. /\ pc = "idle" /\ outcome' = "none"
        /\ UNCHANGED <<pc, elfs, pending, resolved, lib>>
        /\ elfs = {} /\ pending = <<>> /\ resolved = {}
    BY <1>17, <1>i DEF ChangeWorld, process, ChainInv
  <2>2. NamesIn(pending) = {}
    BY <1>p, <2>1, NamesFacts
  <2>3. ChainInv' /\ SoundInv' /\ CompleteInv' /\ RecordInv' /\ ManifestExact'
    BY <1>i, <2>1, <2>2
       DEF ChainInv, Copying, SoundInv, CompleteInv, RecordInv, ManifestExact
  <2> QED BY <2>3 DEF GraphInv
<1>18. CASE UNCHANGED vars
  BY <1>18, <1>u DEF vars, process
<1> QED
  BY <1>1, <1>2, <1>3, <1>4, <1>5, <1>6, <1>7, <1>8, <1>9, <1>10, <1>11, <1>12, <1>13,
     <1>14, <1>15, <1>16, <1>17, <1>18 DEF Next, Resolve, Reconcile

-----------------------------------------------------------------------------
(* What is in place in the root filesystem.                                *)

(* A step that changes the entry at p only.                                *)
LEMMA EntryChanged ==
    ASSUME NEW t \in [Paths -> Entries], NEW p \in Paths, NEW e
    PROVE  /\ Place(t, p, e) = [q \in Paths |-> IF q = p THEN e ELSE t[q]]
           /\ Remove(t, p) = [q \in Paths |-> IF q = p THEN Absent ELSE t[q]]
  BY ResolverTreeAssumption DEF Place, Remove

LEMMA PlacedStep ==
    ASSUME KindsKept, TypeOK, GraphInv, PlacedInv, [Next]_vars
    PROVE  PlacedInv'
<1> DEFINE Hand == IF pc \in {"ask", "place"} THEN {current} ELSE {}
           Bare(t) == \A v \in Worlds, p \in Paths : v.tree[p] \in Regulars => t[p] \notin Links
<1>a. /\ Bare(fs)
      /\ pc # "idle" => \A p \in newM \ Hand : fs[p] = world.tree[p]
      /\ outcome = "ok" => \A p \in oldM : fs[p] = world.tree[p]
  BY DEF PlacedInv
<1>b. /\ fs \in [Paths -> Entries] /\ world \in Worlds /\ world.tree \in [Paths -> Entries]
      /\ newM \subseteq Paths /\ oldM \subseteq Paths
      /\ outcome = "running" <=> pc # "idle"
  BY WorldFacts DEF TypeOK, GraphInv, ChainInv
<1>c. ASSUME Copying PROVE current \in Paths
  BY <1>c DEF GraphInv, ChainInv
<1>d. ASSUME NEW p \in Paths, NEW e \in Entries,
             e \in Links => e = world.tree[p],
             fs' = [q \in Paths |-> IF q = p THEN e ELSE fs[q]]
      PROVE  Bare(fs')
  BY <1>a, <1>b, <1>d DEF KindsKept
<1>e. Absent \notin Links /\ Absent \in Entries /\ File(Torn) \in Entries /\ File(Torn) \notin Links
  <2>1. /\ \A e \in Links : e.kind = "link"
        /\ Absent.kind = "absent" /\ File(Torn).kind = "file"
    BY DEF Absent, Links, Link, File
  <2> QED
    BY <2>1, EntryFacts
(* The run goes on, with nothing more recorded and no entry changed.       *)
<1>u. ASSUME UNCHANGED <<world, fs, newM>>, oldM' = oldM \/ outcome' # "ok",
             pc \notin {"idle", "ask", "place"}, pc' \notin {"idle", "ask", "place"},
             outcome' = outcome
      PROVE  PlacedInv'
  BY <1>u, <1>a, <1>b DEF PlacedInv
(* It ends, and has not been successful.                                   *)
<1>x. ASSUME NEW st \in {"cancelled", "failed", "killed"}, Exit(st), Bare(fs')
      PROVE  PlacedInv'
  BY <1>x DEF PlacedInv, Exit
<1>1. CASE Start
  BY <1>1, <1>a DEF PlacedInv, Start
<1>2. CASE (\E e \in elfs : ProcessElf(e)) \/ AlreadyResolved \/ ResolveLibrary
  BY <1>2, <1>u DEF ProcessElf, AlreadyResolved, ResolveLibrary, Scanning
<1>3. CASE DependencyNotFound \/ ChainBroken \/ OverwriteNo \/ OverwriteEndOfFile
  BY <1>3, <1>x, <1>a DEF DependencyNotFound, ChainBroken, OverwriteNo, OverwriteEndOfFile
<1>4. CASE CopyAbsent \/ CopyConflict
  <2>1. CASE Exit("failed")
    BY <1>4, <1>a, <2>1, <1>x DEF CopyAbsent, CopyConflict, copy_runtime_file
  <2>2. CASE pc' \in {"place", "ask"} /\ UNCHANGED <<process, outcome>>
    <3>1. /\ pc = "copy" /\ newM' = newM \cup {current} /\ UNCHANGED <<world, fs, oldM, current, outcome>>
      BY <1>4, <2>2 DEF CopyAbsent, CopyConflict, copy_runtime_file, process
    <3> QED
      BY <1>a, <2>2, <3>1 DEF PlacedInv
  <2> QED
    BY <1>4, <2>1, <2>2 DEF CopyAbsent, CopyConflict, copy_runtime_file
<1>5. CASE CopySkip
  <2>1. CASE Exit("failed")
    BY <1>5, <1>a, <2>1, <1>x DEF CopySkip, copy_runtime_file
  <2>2. CASE pc' = "next" /\ UNCHANGED <<process, outcome>>
    <3>1. /\ pc = "copy" /\ newM' = newM \cup {current} /\ UNCHANGED <<world, fs, oldM, current, outcome>>
          /\ SameEntry(world.tree[current], current) /\ current \in Paths
      BY <1>5, <1>c, <2>2 DEF CopySkip, copy_runtime_file, process, Copying
    <3>2. fs[current] = world.tree[current]
      BY <1>a, <1>b, <3>1 DEF SameEntry, Follow
    <3> QED
      BY <1>a, <2>2, <3>1, <3>2 DEF PlacedInv
  <2> QED
    BY <1>5, <2>1, <2>2 DEF CopySkip, copy_runtime_file
<1>6. CASE OverwriteYes
  <2>1. /\ pc = "ask" /\ pc' = "place" /\ fs' = Remove(fs, current) /\ current \in Paths
        /\ UNCHANGED <<world, oldM, newM, current, outcome>>
    BY <1>6, <1>c DEF OverwriteYes, Copying, process
  <2>2. fs' = [q \in Paths |-> IF q = current THEN Absent ELSE fs[q]]
    BY <1>b, <2>1, EntryChanged
  <2>3. Bare(fs')
    BY <1>d, <1>e, <2>1, <2>2
  <2>4. outcome # "ok"
    BY <1>b, <2>1
  <2> QED
    BY <1>a, <1>b, <2>1, <2>2, <2>3, <2>4 DEF PlacedInv
<1>7. CASE PlaceEntry
  <2>1. /\ pc = "place" /\ pc' = "next" /\ fs' = Place(fs, current, world.tree[current])
        /\ current \in Paths
        /\ UNCHANGED <<world, oldM, newM, current, outcome>>
    BY <1>7, <1>c DEF PlaceEntry, Copying, process
  <2>2. fs' = [q \in Paths |-> IF q = current THEN world.tree[current] ELSE fs[q]]
    BY <1>b, <2>1, EntryChanged
  <2>3. Bare(fs')
    BY <1>b, <1>d, <2>1, <2>2
  <2>4. outcome # "ok"
    BY <1>b, <2>1
  <2> QED
    BY <1>a, <1>b, <2>1, <2>2, <2>3, <2>4 DEF PlacedInv
<1>8. CASE ChainEnd \/ ChainNext \/ FinishScan
  BY <1>8, <1>u DEF ChainEnd, ChainNext, FinishScan
<1>9. ASSUME NEW q \in Paths, StillRequired(q) \/ KeepStale(q) PROVE PlacedInv'
  BY <1>9, <1>u DEF StillRequired, KeepStale, NextLine
<1>10. ASSUME NEW q \in Paths, RemoveStale(q) PROVE PlacedInv'
  <2>1. /\ pc = "stale" /\ pc' = pc /\ fs' = Remove(fs, q) /\ q \notin newM
        /\ UNCHANGED <<world, oldM, newM, current, outcome>>
    BY <1>10 DEF RemoveStale, NextLine, IsStale
  <2>2. fs' = [r \in Paths |-> IF r = q THEN Absent ELSE fs[r]]
    BY <1>b, <2>1, EntryChanged
  <2>3. Bare(fs')
    BY <1>d, <1>e, <2>2
  <2>4. outcome # "ok"
    BY <1>b, <2>1
  <2> QED
    BY <1>a, <1>b, <2>1, <2>2, <2>3, <2>4 DEF PlacedInv
<1>11. ASSUME NEW q \in Paths, StaleEndOfFile(q) PROVE PlacedInv'
  BY <1>11, <1>x, <1>a DEF StaleEndOfFile
<1>12. CASE Promote
  <2>1. pc = "stale" /\ pc' = "idle" /\ oldM' = newM /\ UNCHANGED <<world, fs>>
    BY <1>12 DEF Promote, Exit
  <2> QED
    BY <1>a, <2>1 DEF PlacedInv
<1>13. CASE Killed
  <2>1. CASE UNCHANGED fs
    BY <1>13, <1>x, <1>a, <2>1 DEF Killed
  <2>2. CASE pc = "place" /\ fs' = Place(fs, current, File(Torn))
    <3>1. current \in Paths
      BY <1>c, <2>2 DEF Copying
    <3>2. fs' = [q \in Paths |-> IF q = current THEN File(Torn) ELSE fs[q]]
      BY <1>b, <2>2, <3>1, EntryChanged
    <3>3. Bare(fs')
      BY <1>d, <1>e, <3>1, <3>2
    <3> QED
      BY <1>13, <1>x, <3>3 DEF Killed
  <2> QED
    BY <1>13, <2>1, <2>2 DEF Killed
<1>14. CASE ChangeWorld
  BY <1>14, <1>a DEF PlacedInv, ChangeWorld
<1>15. CASE UNCHANGED vars
  BY <1>15, <1>a DEF PlacedInv, vars, process
<1> QED
  BY <1>1, <1>2, <1>3, <1>4, <1>5, <1>6, <1>7, <1>8, <1>9, <1>10, <1>11, <1>12, <1>13,
     <1>14, <1>15 DEF Next, Resolve, Reconcile

-----------------------------------------------------------------------------
(* What a name leads to.                                                   *)

LEMMA LeastNumber ==
    ASSUME NEW S, S \subseteq Nat, S # {}
    PROVE  \E d \in S : \A e \in S : ~(e < d)
<1>1. PICK d \in S : \A e \in S : <<e, d>> \notin OpToRel(<, Nat)
  BY NatLessThanWellFounded, WFMin
<1>2. ASSUME NEW e \in S PROVE ~(e < d)
  <2>1. <<e, d>> \in Nat \X Nat /\ <<e, d>>[1] = e /\ <<e, d>>[2] = d
    OBVIOUS
  <2> QED
    BY <1>1, <2>1 DEF OpToRel
<1> QED
  BY <1>2

(* The walk of LinkEnd from every path, over up to m links.                *)
IsWalk(f, t, m) ==
    f = [n \in 0 .. m |->
           [q \in Paths |-> IF n > 0 /\ t[q] \in Links THEN f[n - 1][t[q].to] ELSE t[q]]]

LEMMA WalkExists ==
    ASSUME NEW t \in [Paths -> Entries], NEW m \in Nat
    PROVE  \E f : IsWalk(f, t, m)
<1> DEFINE Step(x, n) == [q \in Paths |-> IF n > 0 /\ t[q] \in Links THEN x[t[q].to] ELSE t[q]]
           Bad == { n \in Nat : ~\E f : IsWalk(f, t, n) }
<1> SUFFICES ASSUME Bad # {} PROVE FALSE
  OBVIOUS
<1>1. PICK k \in Bad : \A n \in Bad : ~(n < k)
  <2>1. Bad \subseteq Nat
    OBVIOUS
  <2> HIDE DEF Bad
  <2> QED
    BY <2>1, LeastNumber
<1>2. k \in Nat /\ ~\E f : IsWalk(f, t, k)
  BY <1>1
<1>3. \A f, n : IsWalk(f, t, n) <=> f = [i \in 0 .. n |-> Step(f[i - 1], i)]
  BY DEF IsWalk
<1> HIDE DEF Step
<1>4. CASE k = 0
  <2> DEFINE f == [i \in 0 .. 0 |-> t]
  <2>1. f[0] = t /\ \A x : Step(x, 0) = t
    BY DEF Step
  <2>2. f = [i \in 0 .. 0 |-> Step(f[i - 1], i)]
    BY <2>1
  <2> QED
    BY <1>2, <1>3, <1>4, <2>2
<1>5. CASE k # 0
  <2>1. k - 1 \in Nat /\ k - 1 \notin Bad
    BY <1>1, <1>2, <1>5
  <2>2. PICK g : IsWalk(g, t, k - 1)
    BY <2>1
  <2> DEFINE f == [i \in 0 .. k |-> IF i < k THEN g[i] ELSE Step(g[k - 1], k)]
  <2>3. \A i \in 0 .. k - 1 : g[i] = Step(g[i - 1], i)
    BY <1>3, <2>2
  <2>a. \A x, y : Step(x, 0) = Step(y, 0)
    BY DEF Step
  <2>4. ASSUME NEW i \in 0 .. k PROVE f[i] = Step(f[i - 1], i)
    <3>1. CASE i = 0
      BY <1>2, <1>5, <2>3, <2>a, <3>1
    <3>2. CASE i # 0 /\ i < k
      <4>1. i \in 0 .. k - 1 /\ f[i] = g[i] /\ f[i - 1] = g[i - 1]
        BY <1>2, <3>2
      <4> QED
        BY <2>3, <4>1
    <3>3. CASE i = k
      BY <1>2, <1>5, <3>3
    <3> QED
      BY <1>2, <3>1, <3>2, <3>3
  <2>5. f = [i \in 0 .. k |-> Step(f[i - 1], i)]
    BY <2>4
  <2> QED
    BY <1>2, <1>3, <2>5
<1> QED
  BY <1>4, <1>5

(* A link that leads to its file directly is followed to that file.        *)
LEMMA FollowOne ==
    ASSUME NEW t \in [Paths -> Entries], NEW p \in Paths, t[p] \in Links, t[t[p].to] \notin Links
    PROVE  Follow(t, p) = t[t[p].to]
<1> DEFINE walk == CHOOSE f : f = [n \in 0 .. MaxHops |->
               [q \in Paths |-> IF n > 0 /\ t[q] \in Links THEN f[n - 1][t[q].to] ELSE t[q]]]
<1>1. \E f : IsWalk(f, t, MaxHops)
  BY WalkExists DEF MaxHops
<1>2. IsWalk(walk, t, MaxHops)
  BY <1>1 DEF IsWalk
<1>3. LinkEnd(t, p) = walk[MaxHops][p]
  BY DEF LinkEnd
<1>4. t[p].to \in Paths /\ MaxHops = 40
  BY LinkAssumption DEF Links, Link, MaxHops
<1> HIDE DEF walk
<1>5. walk[40][p] = walk[39][t[p].to] /\ walk[39][t[p].to] = t[t[p].to]
  BY <1>2, <1>4 DEF IsWalk
<1> QED
  BY <1>3, <1>4, <1>5 DEF Follow

(* realpath of a path that is no link is the path itself.                  *)
LEMMA RealPathHere ==
    ASSUME NEW t, NEW p \in Paths, t[p] \notin Links
    PROVE  RealPath(t, p) = p
<1>1. EndOf(t, p, p)
  BY DEF EndOf
<1>2. ASSUME NEW q \in Paths, EndOf(t, p, q) PROVE q = p
  <2>1. {p} \in SUBSET Paths /\ p \in {p} /\ LinkClosed(t, {p})
    BY DEF LinkClosed
  <2> QED
    BY <1>2, <2>1 DEF EndOf
<1> QED
  BY <1>1, <1>2 DEF RealPath

-----------------------------------------------------------------------------
(* The invariant holds of every history of runs of the resolver.           *)
THEOREM ResolverInvariant == Spec => []Inv
<1>1. Init => Inv
  <2> SUFFICES ASSUME Init PROVE Inv
    OBVIOUS
  <2>1. TypeOK
    BY ResolverTreeAssumption DEF Init, TypeOK
  <2>2. NamesIn(pending) = {}
    BY <2>1, NamesFacts DEF Init, TypeOK
  <2>3. KindsKept => PlacedInv
    BY DEF Init, KindsKept, PlacedInv
  <2> QED
    BY <2>1, <2>2, <2>3
       DEF Init, Inv, ChainInv, Copying, SoundInv, CompleteInv, RecordInv, ManifestExact
<1>2. Inv /\ [Next]_vars => Inv'
  <2> SUFFICES ASSUME Inv, [Next]_vars PROVE Inv'
    OBVIOUS
  <2>1. TypeOK /\ GraphInv /\ (KindsKept => PlacedInv)
    BY DEF Inv, GraphInv
  <2>2. TypeOK' /\ GraphInv'
    BY <2>1, TypeOKStep, GraphStep DEF GraphInv
  <2>3. KindsKept => PlacedInv'
    BY <2>1, PlacedStep
  <2> QED
    BY <2>2, <2>3 DEF Inv, GraphInv, KindsKept
<1> QED BY <1>1, <1>2, PTL DEF Spec

(* The variables of the resolver keep their types: the manifests it reads  *)
(* and writes hold paths of the root filesystem only.                      *)
THEOREM ResolverTypeOK == Spec => []TypeOK
<1>1. Inv => TypeOK
  BY DEF Inv
<1> QED BY <1>1, ResolverInvariant, PTL

(* A promoted runtime manifest is exactly the set of files of the complete *)
(* dependency graph: the recursion of resolve_library misses nothing and   *)
(* adds nothing, on cyclic and shared dependencies too, and no cancelled   *)
(* or killed run ever leaves a manifest behind.                            *)
THEOREM ResolverManifestExact == Spec => []ManifestExact
<1>1. Inv => ManifestExact
  BY DEF Inv
<1> QED BY <1>1, ResolverInvariant, PTL

(* The stale check never removes a file of the current dependency graph:   *)
(* it starts only when the new manifest is complete.                       *)
THEOREM ResolverStaleRemoval == Spec => StaleRemovalSparesRequired
<1> DEFINE Spares ==
        pc = "stale" => \A p \in RequiredFiles(world) : Exists(fs, p) => Exists(fs', p)
<1>1. ASSUME Inv, [Next]_vars PROVE Spares
  <2> SUFFICES ASSUME pc = "stale", NEW p \in RequiredFiles(world), Exists(fs, p)
               PROVE  Exists(fs', p)
      OBVIOUS
  <2>1. newM = RequiredFiles(world) /\ newM \subseteq Paths
    BY <1>1, ScanComplete DEF Inv, GraphInv, ChainInv, TypeOK
  <2>2. ASSUME NEW q \in Paths, RemoveStale(q) PROVE Exists(fs', p)
    <3>1. q # p /\ Below[q] = {} /\ p \in Paths /\ fs' = Remove(fs, q)
      BY <2>1, <2>2, ResolverTreeAssumption DEF RemoveStale, IsStale
    <3>2. fs'[p] = fs[p]
      BY <3>1 DEF Remove
    <3> QED BY <3>2 DEF Exists
  <2>3. CASE UNCHANGED fs
    BY <2>3 DEF Exists
  <2> QED
    BY <1>1, <2>2, <2>3
       DEF Next, Resolve, Reconcile, vars, Start, ProcessElf, Scanning, AlreadyResolved,
           DependencyNotFound, ResolveLibrary, CopyAbsent, CopySkip, CopyConflict,
           copy_runtime_file, OverwriteYes, OverwriteNo, OverwriteEndOfFile, PlaceEntry,
           ChainEnd, ChainNext, ChainBroken, FinishScan, StillRequired, KeepStale,
           StaleEndOfFile, Promote, Killed, ChangeWorld
<1>2. Inv /\ [Next]_vars => [Spares]_vars
  BY <1>1
<1> QED BY <1>2, ResolverInvariant, PTL DEF Spec, StaleRemovalSparesRequired

(* After a successful run every required library name leads, in the root   *)
(* filesystem, to what it leads to in the sysroot, whatever cancelled and  *)
(* killed runs, torn copies and other SDKs came before: copy_runtime_file  *)
(* has placed or compared every entry the manifest lists and the stale     *)
(* check has removed none of them.  The two conditions are what            *)
(* copy_library_chain and its SHA256 comparison rely on: realpath -m skips *)
(* the middle of a longer chain, and [ -f ] follows a link left by an SDK  *)
(* that had one where this one has a file.                                 *)
THEOREM ResolverLibrariesLoad ==
    ASSUME KindsKept, OneLinkChains
    PROVE  Spec => []LibrariesLoad
<1>1. ASSUME Inv PROVE LibrariesLoad
  <2> SUFFICES ASSUME outcome = "ok", NEW l \in Required(world)
               PROVE  Follow(fs, world.find[l]) = Follow(world.tree, world.find[l])
    BY DEF LibrariesLoad
  <2> DEFINE p == world.find[l]
             t == world.tree
  <2>1. /\ world \in Worlds /\ fs \in [Paths -> Entries] /\ t \in [Paths -> Entries]
        /\ l \in Libs /\ oldM \subseteq Paths
    BY <1>1, WorldFacts, RequiredFacts DEF Inv, TypeOK
  <2>2. /\ Chain(world, l) \subseteq oldM
        /\ \A q \in oldM : fs[q] = t[q]
    <3>1. oldM = RequiredFiles(world) /\ PlacedInv
      BY <1>1 DEF Inv, ManifestExact
    <3>2. Chain(world, l) \subseteq RequiredFiles(world)
      BY DEF RequiredFiles, FilesOf
    <3> QED
      BY <3>1, <3>2 DEF PlacedInv
  <2>3. p \in Paths /\ fs[p] = t[p]
    BY <2>1, <2>2 DEF Chain
  <2>4. CASE t[p] \notin Links
    BY <2>3, <2>4 DEF Follow
  <2>5. CASE t[p] \in Links
    <3> DEFINE q == t[p].to
    <3>1. p # NotFound /\ q \in Paths /\ t[q] \notin Links
      BY <2>1, <2>3, <2>5, WorldAssumption, LinkAssumption DEF OneLinkChains, Links, Link
    <3>2. RealPath(t, q) = q
      BY <3>1, RealPathHere
    <3>3. fs[q] = t[q]
      BY <2>2, <2>5, <3>2 DEF Chain
    <3> QED
      BY <2>1, <2>3, <2>5, <3>1, <3>3, FollowOne
  <2> QED
    BY <2>4, <2>5
<1> QED BY <1>1, ResolverInvariant, PTL

=============================================================================
