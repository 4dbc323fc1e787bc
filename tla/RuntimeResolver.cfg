CONSTANTS
    Paths <- MCPaths
    Below <- MCBelow
    Namespace <- MCNamespace
    LinkTargets = {"libz.so.1.3", "libz.so.1.3.1"}
    Contents = {"one", "two", "torn"}
    Libs <- MCLibs
    Worlds <- Sdks
    StartTrees <- EmptyTree
    Torn = "torn"
    NotFound = "none"
SPECIFICATION LiveSpec
INVARIANT Inv
INVARIANT TypeOK
INVARIANT ManifestExact
INVARIANT LibrariesLoad
PROPERTY StaleRemovalSparesRequired
PROPERTY RunEnds
