CONSTANTS
    Paths <- MCPaths
    Below <- MCBelow
    Namespace <- MCNamespace
    LinkTargets = {"a"}
    Contents = {"one", "two", "torn", "banner"}
    Packages = {"k1", "k2"}
    Installs <- Releases
    Edits <- HandEdits
    Torn = "torn"
    Banner = "banner"
    BannerPath = "banner"
    Shells = {"pipeline", "sdk", "plain"}
SPECIFICATION LiveSpec
PROPERTY RecoversEventually
