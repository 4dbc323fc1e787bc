--------------------------- MODULE MCRootfsBuilder ---------------------------
(* Instances of RootfsBuilder for TLC.                                     *)
EXTENDS RootfsBuilder, TLC

(* usr/bin/a and usr/bin/b are programs, usr/share/d/x lies in a directory *)
(* and etc/c is configuration.                                             *)
MCPaths == {"a", "b", "c", "d", "d/x", "banner"}
MCNamespace ==
    [p \in MCPaths |-> CASE p \in {"a", "b", "banner"} -> "usr/bin"
                         [] p \in {"d", "d/x"} -> "usr/share"
                         [] p = "c" -> "etc"]
MCBelow == [p \in MCPaths |-> IF p = "d" THEN {"d/x"} ELSE {}]

Tree(f) == [p \in MCPaths |-> IF p \in DOMAIN f THEN f[p] ELSE Absent]
Both(f, g) == [k \in {"k1", "k2"} |-> Tree(IF k = "k1" THEN f ELSE g)]

One == File("one")
Two == File("two")

(* Releases of two packages: a link and a directory that come and go, a    *)
(* path both packages provide, a changed program, a configuration file and *)
(* an entry of an unsupported type.                                        *)
Releases == {
    Both("a" :> One @@ "b" :> Link("a"), "d" :> Dir @@ "d/x" :> One),
    Both("a" :> Two @@ "c" :> One, "d" :> Dir),
    Both("a" :> Two, "a" :> One @@ "b" :> Special @@ "d" :> Dir @@ "d/x" :> One) }

(* The operator's own edits of the root filesystem between two runs.       *)
HandEdits == { <<"c", Two>>, <<"d", Two>>, <<"d", Absent>> }

(* A path that is a file in one release and a directory in another; the    *)
(* operator clears the way by hand when mkdir -p fails.                    *)
FileBecomesDirectory == {
    Both("d" :> One, <<>>),
    Both("d" :> Dir @@ "d/x" :> One, <<>>) }
ClearTheWay == { <<"d", Absent>> }

(* A link in one release, a program of its own in the other.               *)
LinkBecomesFile == {
    Both("a" :> One @@ "b" :> Link("a"), <<>>),
    Both("a" :> Two @@ "b" :> One, <<>>) }

(* A program that a later release drops.                                   *)
DroppedProgram == {
    Both("a" :> One, "b" :> One),
    Both("a" :> Two, <<>>) }

(* The operator removes whatever the script calls stale.                   *)
TidySpec == Init /\ [][Next /\ ~\E p \in Paths : KeepStale(p)]_vars
=============================================================================
