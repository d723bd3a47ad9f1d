CONSTANTS
    Dependencies  = {3, 4, 5}
    Structural    = {1, 2}
    Links        <- AllLinks
    WalkLinks    <- ScopedLinks
    Relationships = {"", "unknown", "transitive"}
    Carried      <- Primaries
    RootIDs       = {1, 3, 9}
SPECIFICATION Spec
INVARIANTS
    SortIsExact
    PathsAreExact
    RelationshipsAgree
    ScopesFollowPaths
PROPERTIES
    QueriesReturn
CHECK_DEADLOCK FALSE
