CONSTANTS
    FirstImports <- MCFirst
    LaterImports <- MCLater
    Channels = {"directory", "zip"}
    MaxImports = 2
    Principals = {"u1"}
    Computers = {"c1"}
    Homes <- MCHomes
    ShippedRules <- MCRules
    RuleOverrides <- MCOverrides
    Admx <- MCAdmx
    WriterThreshold = 2
    Terms = {"A", "p", "u1", "edit"}
    PathsIn <- MCPathsIn
    DomainName = "dom"
    Parts <- MCParts
    Templates <- MCTemplates
SPECIFICATION PipelineSpec
INVARIANTS
    ReopenAnswersAlike
    TokenIsClosure
    TrusteeFormIrrelevant
    RollupIsNaive
    LoopbackComputerWins
    NothingVanishes
    CoverageHonest
    BlockedIsResolvedWhole
    DiffsAgree
