CONSTANTS
    FirstImports <- MCFirst
    LaterImports <- MCLater
    Channels = {"directory"}
    MaxImports = 2
    Principals = {"u1"}
    Computers = {"c1"}
    Homes <- MCHomes
    ShippedRules <- MCRules
    RuleOverrides <- MCOverrides
    Admx <- MCAdmx
    WriterThreshold = 2
    Terms = {"A", "p", "u1", "edit"}
    PathsIn <- MCPathsIn
    DomainName = "dom"
    Parts <- MCParts
    Templates <- MCTemplates
SPECIFICATION PipelineSpec
INVARIANT TokenExpandsBothWays
