CONSTANTS
    Parts <- MCParts
    Compiler = "gcc"
    Sysroot = "sysroot"
    Tarballs = {"old", "new", "bare", "cut"}
    Ships <- MCShips
    Truncated = {"cut"}
    None = "none"
    KillPoints <- Anywhere
    SwapPoints = {"idle"}
SPECIFICATION Spec
INVARIANT ReadyIsCurrent
