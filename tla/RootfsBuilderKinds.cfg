CONSTANTS
    Paths <- MCPaths
    Below <- MCBelow
    Namespace <- MCNamespace
    LinkTargets = {"a"}
    Contents = {"one", "two", "torn", "banner"}
    Packages = {"k1", "k2"}
    Installs <- FileBecomesDirectory
    Edits <- ClearTheWay
    Torn = "torn"
    Banner = "banner"
    BannerPath = "banner"
    Shells = {"pipeline"}
SPECIFICATION Spec
PROPERTY StaleRemovalSparesProvided
