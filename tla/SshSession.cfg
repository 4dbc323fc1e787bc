SPECIFICATION Spec
CONSTANTS
    Window = 3
    MaxPacket = 2
    Bytes <- MCBytes
    CanLeave = {"out"}
    Lingers = {"err"}
    ExitSignals = {"none", "named"}
    SpawnFails = TRUE
    Pty = FALSE
CHECK_DEADLOCK FALSE
INVARIANTS
    TypeOK
    NeverFatal
    WindowConserved
    StatusReported
PROPERTIES
    ThreePipes
    SessionEnds
