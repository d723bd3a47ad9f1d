CONSTANTS
    MaxDocumentSources = 5
    Foreign <- AllForeign
    OwnTool <- Bomly1
    Manufacturers = {0, 5}
    DefaultName = 7
    MaxForeign = 2
    MaxBuilds = 2
    SourceGraphs <- AllGraphs
    ForeignDocuments <- AllDocuments
    IDString <- Shared
    Projects <- AllProjects
    Overrides = {0, 22}
    MaxHops = 2
    Holdings <- MCHoldings
    ForeignClaims <- MCForeignClaims
    MaxClaimHops = 3
    ScanPairs <- MCScanPairs
    Writers = {"this", "older", "later", "plain"}
    RecordBounds <- MCBounds
SPECIFICATION Spec
INVARIANTS
    IdentityNamesOneInventory
    NoDocumentLinksItself
    ProvenanceSurvives
    RestatementIsFixedPoint
    StructureSurvives
    EveryComponentIsRead
    ScopesSurvive
    EveryLicenseIsNamed
    ConclusionsStayApart
    OriginsAreNotClaimed
    AdvisoriesStayTheirOwn
    ClaimsSettle
    ChangesAreToldOnce
    RecordsCompareAlike
    DigestsFollowContent
CHECK_DEADLOCK FALSE
