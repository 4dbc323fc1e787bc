SPECIFICATION Spec
CONSTANTS
    Window = 3
    MaxPacket = 2
    Bytes <- MCOutput
    CanLeave = {"out"}
    Lingers = {}
    ExitSignals = {"none"}
    SpawnFails = FALSE
    Pty = FALSE
CHECK_DEADLOCK FALSE
PROPERTIES
    FailedWriteCloses
