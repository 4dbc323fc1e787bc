CONSTANTS
    Paths <- MCPaths
    Below <- MCBelow
    Namespace <- MCNamespace
    LinkTargets = {"libz.so.1.3", "libz.so.1.3.1"}
    Contents = {"one", "two", "torn"}
    Libs <- MCLibs
    Worlds <- PackageOwnsLoader
    StartTrees <- LoaderInstalled
    Torn = "torn"
    NotFound = "none"
SPECIFICATION Spec
INVARIANT OneOwner
