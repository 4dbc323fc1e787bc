CONSTANTS
    Parts <- MCParts
    Compiler = "gcc"
    Sysroot = "sysroot"
    Tarballs = {"old", "new", "bare", "cut"}
    Ships <- MCShips
    Truncated = {"cut"}
    None = "none"
    KillPoints <- OutsideRemoval
    SwapPoints = {"idle"}
SPECIFICATION LiveSpec
INVARIANT TypeOK
INVARIANT SameGeneration
INVARIANT ReadyIsCurrent
PROPERTY SdkEventuallyReady
