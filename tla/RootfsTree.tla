----------------------------- MODULE RootfsTree -----------------------------
(***************************************************************************)
(* The target root filesystem (rpi_rootfs/) as the build scripts see it: a *)
(* set of relative paths, each absent or holding one entry.  Shared by the *)
(* package builder, the safe clean and the runtime dependency resolver.    *)
(***************************************************************************)
EXTENDS Naturals

CONSTANTS
    Paths,      \* relative paths below the namespace directories
    Below,      \* Below[p]: the paths strictly inside the directory p
    Namespace,  \* Namespace[p]: the top directory p lives in, "usr/bin" ...
    LinkTargets,\* the paths symbolic links point at
    Contents    \* file contents, what sha256sum tells apart

ASSUME BelowAssumption ==
    /\ Below \in [Paths -> SUBSET Paths]
    /\ \A p \in Paths : p \notin Below[p]
    /\ \A p, q \in Paths : q \in Below[p] => Below[q] \subseteq Below[p]

ASSUME NamespaceAssumption ==
    /\ Namespace \in [Paths -> STRING]
    /\ \A p, q \in Paths : q \in Below[p] => Namespace[q] = Namespace[p]

(* Links name files, never directories: no path is reached through a link. *)
ASSUME LinkAssumption ==
    /\ LinkTargets \subseteq Paths
    /\ \A p \in LinkTargets : Below[p] = {}

-----------------------------------------------------------------------------
(* Entries: what `[ -L ]`, `[ -d ]` and `[ -f ]` distinguish.              *)
Absent  == [kind |-> "absent"]
Dir     == [kind |-> "dir"]
Special == [kind |-> "special"]           \* fifo, socket or device node
File(c) == [kind |-> "file", data |-> c]
Link(t) == [kind |-> "link", to |-> t]

Regulars == { File(c) : c \in Contents }
Links    == { Link(t) : t \in LinkTargets }
Entries  == {Absent, Dir, Special} \cup Regulars \cup Links

(* Directory structure: an entry lies in directories only.                 *)
Shaped(t) == \A p, q \in Paths : q \in Below[p] /\ t[q] # Absent => t[p] = Dir

Trees == { t \in [Paths -> Entries] : Shaped(t) }

-----------------------------------------------------------------------------
(* `[ -e "$DEST" ] || [ -L "$DEST" ]`                                      *)
Exists(t, p) == t[p] # Absent

(* The entry `[ -f "$DEST" ]` and sha256sum look at: links are followed,   *)
(* at most MaxHops times as the kernel does before ELOOP.                  *)
MaxHops == 40

LinkEnd(t, p) ==
    LET walk[n \in 0..MaxHops] ==
            [q \in Paths |-> IF n > 0 /\ t[q] \in Links THEN walk[n - 1][t[q].to] ELSE t[q]]
    IN  walk[MaxHops][p]

Follow(t, p) == IF t[p] \in Links THEN LinkEnd(t, p) ELSE t[p]

(* rm -rf "$DEST"                                                          *)
Remove(t, p) == [q \in Paths |-> IF q = p \/ q \in Below[p] THEN Absent ELSE t[q]]

(* mkdir -p "$(dirname "$DEST")", then ln -s, install -m or mkdir of e.    *)
Place(t, p, e) ==
    [q \in Paths |-> IF q = p THEN e ELSE IF p \in Below[q] THEN Dir ELSE t[q]]

=============================================================================
