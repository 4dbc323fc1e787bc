---------------------------- MODULE MCSdkManager ----------------------------
(* Instances of SdkManager for TLC.                                        *)
EXTENDS SdkManager, TLC

(* Two good releases of the SDK, one without a sysroot and one whose       *)
(* tarball is cut short.                                                   *)
MCParts == {"gcc", "sysroot", "libz"}
MCShips == "old" :> {"gcc", "sysroot"} @@ "new" :> MCParts
           @@ "bare" :> {"gcc", "libz"} @@ "cut" :> MCParts

(* Killed anywhere but between the deletions of rm -rf before extraction.  *)
OutsideRemoval == Labels \ {"idle", "remove"}
Anywhere == Labels \ {"idle"}
=============================================================================
