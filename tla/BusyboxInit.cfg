SPECIFICATION Spec
CONSTANTS
    Commands <- MCCommands
    Inittabs <- MCInittabs
    Pids = {1, 2, 3, 4}
    Signals = {"HUP", "INT", "QUIT", "USR1", "USR2", "TERM", "PWR"}
    MaxSignals = 2
    MaxDaemons = 1
    ForkFailsIn = {"sysinit", "wait", "once", "ctrlaltdel"}
    StopsIn = {"poll1", "poll2", "once", "sigwait", "reap"}
CHECK_DEADLOCK FALSE
INVARIANTS
    TypeOK
    EntryPidRuns
    OneInstance
    NoLostWakeup
    ShutdownInOrder
PROPERTIES
    RespawnsAgain
    GoesDown
