-------------------------- MODULE SdkManagerProofs --------------------------
(***************************************************************************)
(* What holds of SdkManager for every set of tarballs and parts.           *)
(***************************************************************************)
EXTENDS SdkManager, TLAPS

USE DEF Labels

(* The steps of a build that leave the SDK directory alone.                *)
LEMMA Quiet ==
    ASSUME SdkInv, UNCHANGED <<dir, sdk, sha>>,
           pc' \in Labels \ {"tar", "extract", "store"},
           tarball' \in Tarballs \cup {None},
           current' \in Tarballs \cup {None},
           reading' \in Tarballs \cup {None},
           outcome' \in {"none", "running", "ready", "cancelled", "failed", "killed"}
    PROVE  SdkInv'
BY DEF SdkInv, TypeOK, SameGeneration, GenerationInv

LEMMA SdkInit == Init => SdkInv
BY SdkAssumption DEF Init, SdkInv, TypeOK, SameGeneration, GenerationInv, Empty

LEMMA SdkStep ==
    ASSUME SdkInv, [Next]_vars
    PROVE  SdkInv'
<1> USE SdkAssumption
<1>t. TypeOK /\ SameGeneration /\ GenerationInv
  BY DEF SdkInv
<1> USE <1>t DEF TypeOK
<1>1. CASE Start
  BY <1>1, Quiet DEF Start, disk
<1>2. CASE TarballNotFound
  BY <1>2, Quiet DEF TarballNotFound, Exit, disk
<1>3. CASE UpToDate \/ Mismatch \/ OverwriteYes \/ Verified \/ VerifyFails
  BY <1>3, Quiet DEF UpToDate, Mismatch, OverwriteYes, Verified, VerifyFails, Goto, disk
<1>4. CASE NoSdkYet
  BY <1>4 DEF NoSdkYet, Goto, disk, SdkInv, SameGeneration, GenerationInv
<1>5. CASE OverwriteNo \/ OverwriteEndOfFile \/ TarFails \/ Killed
  BY <1>5, Quiet DEF OverwriteNo, OverwriteEndOfFile, TarFails, Killed, Exit, disk
<1>6. CASE LoadEnvironment
  BY <1>6, Quiet DEF LoadEnvironment, Exit, disk
<1>7. CASE ReplaceTarball
  BY <1>7 DEF ReplaceTarball, SdkInv, SameGeneration, GenerationInv
<1>8. ASSUME NEW p \in Parts, RemovePart(p)
      PROVE  SdkInv'
  <2>1. \A q \in Parts : sdk'[q] = IF q = p THEN None ELSE sdk[q]
    BY <1>8 DEF RemovePart
  <2>2. sdk' \in [Parts -> Tarballs \cup {None}]
    BY <1>8 DEF RemovePart
  <2>3. dir
    BY <1>8 DEF RemovePart, GenerationInv, Empty
  <2> QED
    BY <1>8, <2>1, <2>2, <2>3 DEF RemovePart, Removing, SdkInv, SameGeneration, GenerationInv
<1>9. CASE RemoveSignature
  BY <1>9 DEF RemoveSignature, Removing, SdkInv, SameGeneration, GenerationInv
<1>10. CASE RemoveDirectory
  BY <1>10 DEF RemoveDirectory, Removing, Goto, Exit, SdkInv, SameGeneration, GenerationInv
<1>11. CASE OpenTarball
  BY <1>11 DEF OpenTarball, SdkInv, SameGeneration, GenerationInv, Empty
<1>12. ASSUME NEW p \in Parts, ExtractPart(p)
       PROVE  SdkInv'
  <2>1. \A q \in Parts : sdk'[q] = IF q = p THEN reading ELSE sdk[q]
    BY <1>12 DEF ExtractPart
  <2>2. sdk' \in [Parts -> Tarballs \cup {None}]
    BY <1>12 DEF ExtractPart
  <2>3. dir
    BY <1>12 DEF ExtractPart, GenerationInv
  <2> QED
    BY <1>12, <2>1, <2>2, <2>3 DEF ExtractPart, SdkInv, SameGeneration, GenerationInv
<1>13. CASE StoreSha
  <2>1. dir
    BY <1>13 DEF StoreSha, GenerationInv
  <2> QED
    BY <1>13, <2>1 DEF StoreSha, Goto, SdkInv, SameGeneration, GenerationInv
<1>14. CASE TarDone
  BY <1>14 DEF TarDone, Goto, disk, SdkInv, SameGeneration, GenerationInv
<1>15. CASE UNCHANGED vars
  BY <1>15 DEF vars, SdkInv, SameGeneration, GenerationInv
<1> QED
  BY <1>1, <1>2, <1>3, <1>4, <1>5, <1>6, <1>7, <1>8, <1>9, <1>10, <1>11, <1>12, <1>13, <1>14, <1>15
     DEF Next, Prepare

(* The SDK directory never mixes the files of two tarballs: a mismatch or  *)
(* a missing signature leads to rm -rf before the next tar, and an         *)
(* interrupted removal or extraction leaves files of one tarball only.     *)
THEOREM SdkSameGeneration == Spec => []SameGeneration
<1>1. SdkInv /\ [Next]_vars => SdkInv'
  BY SdkStep
<1>2. SdkInv => SameGeneration
  BY DEF SdkInv
<1> QED
  BY SdkInit, <1>1, <1>2, PTL DEF Spec

(* Every variable of the SDK manager keeps its type.                       *)
THEOREM SdkTypeOK == Spec => []TypeOK
<1>1. SdkInv /\ [Next]_vars => SdkInv'
  BY SdkStep
<1>2. SdkInv => TypeOK
  BY DEF SdkInv
<1> QED
  BY SdkInit, <1>1, <1>2, PTL DEF Spec

-----------------------------------------------------------------------------
LEMMA ReadyInit == Init => ReadyInv
BY SdkInit, SdkAssumption DEF Init, ReadyInv, SignatureInv, ReadyIsCurrent

LEMMA ReadyStep ==
    ASSUME ReadyInv, [Next]_vars,
           SwapPoints = {"idle"}, "remove" \notin KillPoints
    PROVE  SignatureInv' /\ ReadyIsCurrent'
<1> USE SdkAssumption
<1>t. TypeOK /\ GenerationInv /\ SignatureInv /\ ReadyIsCurrent
  BY DEF ReadyInv, SdkInv
<1> USE <1>t DEF TypeOK
<1> USE DEF SignatureInv, ReadyIsCurrent, Removing
<1>1. CASE Start
  BY <1>1 DEF Start, disk, FromTarball, ContentsOf
<1>2. CASE TarballNotFound
  BY <1>2 DEF TarballNotFound, Exit, disk, FromTarball, ContentsOf
<1>3. CASE UpToDate \/ Mismatch \/ NoSdkYet \/ OverwriteYes
  BY <1>3 DEF UpToDate, Mismatch, NoSdkYet, OverwriteYes, Goto, disk, FromTarball, ContentsOf
<1>4. CASE OverwriteNo \/ OverwriteEndOfFile
  BY <1>4 DEF OverwriteNo, OverwriteEndOfFile, Exit, disk, FromTarball, ContentsOf
<1>5. ASSUME NEW p \in Parts, RemovePart(p)
      PROVE  SignatureInv' /\ ReadyIsCurrent'
  BY <1>5 DEF RemovePart
<1>6. CASE RemoveSignature
  BY <1>6 DEF RemoveSignature
<1>7. CASE RemoveDirectory
  BY <1>7 DEF RemoveDirectory, Goto, Exit
<1>8. CASE OpenTarball
  BY <1>8 DEF OpenTarball, GenerationInv
<1>9. ASSUME NEW p \in Parts, ExtractPart(p)
      PROVE  SignatureInv' /\ ReadyIsCurrent'
  BY <1>9 DEF ExtractPart, GenerationInv
<1>10. CASE TarFails
  BY <1>10 DEF TarFails, Exit, disk, GenerationInv
<1>11. CASE TarDone
  <2>1. sdk = ContentsOf(tarball)
    BY <1>11 DEF TarDone, GenerationInv, ContentsOf
  <2> QED
    BY <1>11, <2>1 DEF TarDone, Goto, disk, GenerationInv, ContentsOf
<1>12. CASE StoreSha
  <2>1. FromTarball(tarball)
    BY <1>12 DEF StoreSha, FromTarball, ContentsOf
  <2> QED
    BY <1>12, <2>1 DEF StoreSha, Goto, FromTarball, ContentsOf
<1>13. CASE Verified
  <2>1. FromTarball(tarball)
    BY <1>13 DEF Verified, FromTarball, ContentsOf
  <2> QED
    BY <1>13, <2>1 DEF Verified, Goto, disk, FromTarball, ContentsOf
<1>14. CASE VerifyFails
  <2>1. ~Usable(tarball)
    BY <1>14 DEF VerifyFails, Complete, ContentsOf, Usable
  <2> QED
    BY <1>14, <2>1 DEF VerifyFails, Goto, disk, ContentsOf
<1>15. CASE LoadEnvironment
  <2>1. Complete => Usable(tarball)
    BY <1>15 DEF LoadEnvironment, Complete, FromTarball, Usable
  <2> QED
    BY <1>15, <2>1 DEF LoadEnvironment, Exit, disk, FromTarball, ContentsOf
<1>16. CASE Killed
  <2>1. pc # "remove"
    BY <1>16 DEF Killed
  <2>2. sha # None => FromTarball(sha)
    BY <2>1 DEF FromTarball
  <2> QED
    BY <1>16, <2>2 DEF Killed, Exit, disk, FromTarball, ContentsOf
<1>17. CASE ReplaceTarball
  BY <1>17 DEF ReplaceTarball, FromTarball, ContentsOf
<1>18. CASE UNCHANGED vars
  BY <1>18 DEF vars, FromTarball, ContentsOf
<1> QED
  BY <1>1, <1>2, <1>3, <1>4, <1>5, <1>6, <1>7, <1>8, <1>9, <1>10, <1>11, <1>12, <1>13,
     <1>14, <1>15, <1>16, <1>17, <1>18 DEF Next, Prepare

(* If the tarball is replaced between builds only, and no build is killed  *)
(* in the middle of removing an SDK it replaces, a build that goes on to   *)
(* compile has the complete SDK of the present tarball: the signature is   *)
(* then never stored for, or left with, anything else.                     *)
THEOREM SdkReadyIsCurrent ==
    ASSUME SwapPoints = {"idle"}, "remove" \notin KillPoints
    PROVE  Spec => []ReadyIsCurrent
<1>1. ReadyInv /\ [Next]_vars => ReadyInv'
  BY SdkStep, ReadyStep DEF ReadyInv
<1>2. ReadyInv => ReadyIsCurrent
  BY DEF ReadyInv
<1> QED
  BY ReadyInit, <1>1, <1>2, PTL DEF Spec
=============================================================================
