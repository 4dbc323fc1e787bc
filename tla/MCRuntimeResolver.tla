-------------------------- MODULE MCRuntimeResolver --------------------------
(* Instances of RuntimeResolver for TLC.                                   *)
EXTENDS RuntimeResolver, TLC

(* The loader and libc need each other; libz is a link to a versioned file *)
(* and needs libc.                                                         *)
MCPaths == {"ld.so", "libc.so.6", "libz.so.1", "libz.so.1.3", "libz.so.1.3.1"}
MCBelow == [p \in MCPaths |-> {}]
MCNamespace == [p \in MCPaths |-> IF p = "ld.so" THEN "usr/bin" ELSE "lib"]
MCLibs == {"ld", "libc", "libz"}

Tree(f) == [p \in MCPaths |-> IF p \in DOMAIN f THEN f[p] ELSE Absent]
Core == "ld.so" :> File("one") @@ "libc.so.6" :> File("one")
Find == "ld" :> "ld.so" @@ "libc" :> "libc.so.6" @@ "libz" :> "libz.so.1"
Needs == "ld" :> <<"libc">> @@ "libc" :> <<"ld">> @@ "libz" :> <<"libc">>
NoLibz == [Find EXCEPT !["libz"] = "none"]
Shell == <<"ld", "libc">>
Server == <<"ld", "libz", "libc">>
Static == <<>>

World(tree, find, programs) ==
    [tree |-> Tree(tree), find |-> find, needs |-> Needs, elfs |-> programs, owned |-> {}]

(* The first SDK; packages without the server; an SDK with a new libz; one *)
(* without libz; one whose libz link is broken.                            *)
Sdks == {
    World(Core @@ "libz.so.1" :> Link("libz.so.1.3") @@ "libz.so.1.3" :> File("one"),
          Find, {Shell, Server}),
    World(Core @@ "libz.so.1" :> Link("libz.so.1.3") @@ "libz.so.1.3" :> File("one"),
          Find, {Shell, Static}),
    World(Core @@ "libz.so.1" :> Link("libz.so.1.3.1") @@ "libz.so.1.3.1" :> File("two"),
          Find, {Server}),
    World(Core, NoLibz, {Server}),
    World(Core @@ "libz.so.1" :> Link("libz.so.1.3"), Find, {Server}) }

EmptyTree == { Tree(<<>>) }

(* libz.so.1 -> libz.so.1.3 -> libz.so.1.3.1                               *)
LongChain == {
    World(Core @@ "libz.so.1" :> Link("libz.so.1.3") @@ "libz.so.1.3" :> Link("libz.so.1.3.1")
               @@ "libz.so.1.3.1" :> File("one"), Find, {Server}) }

(* An SDK that ships libz as a plain file instead of a link.               *)
LinkBecomesFile == {
    World(Core @@ "libz.so.1" :> Link("libz.so.1.3") @@ "libz.so.1.3" :> File("one"),
          Find, {Server}),
    World(Core @@ "libz.so.1" :> File("one"), Find, {Server}) }

(* A package that ships usr/bin/ld.so itself, where find meets the loader. *)
PackageOwnsLoader == { [World(Core, NoLibz, {Shell}) EXCEPT !.owned = {"ld.so"}] }
LoaderInstalled == { Tree("ld.so" :> File("one")) }
=============================================================================
