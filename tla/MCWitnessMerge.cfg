CONSTANTS
    Graphs       = {left, right}
    Reports     <- AllWitnesses
    MaxReports   = 3
    p = p
    q = q
    PURLs = {p, q}
    Witnesses <- Packages
    PublishableValues <- PublishedValues
    MaxSteps = 5
SPECIFICATION Spec
SYMMETRY GraphSymmetry
INVARIANTS
    FoldIgnoresOrder
    FirstStatedStands
    LicensesSurvive
    RefNamesOneLicense
    VerificationStaysWithItsIssuer
    WitnessesSurvive
    RationaleHasItsState
CHECK_DEADLOCK FALSE
