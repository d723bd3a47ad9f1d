CONSTANTS
    manifest   = manifest
    module     = module
    dependency = dependency
    s1 = s1
    s2 = s2
    ManifestIDs   = {manifest}
    ModuleIDs     = {module}
    DependencyIDs = {dependency}
    Sites         = {s1, s2}
    Promotable   <- AllPromotable
    NoNode        = NoNode
    MaxSlots      = 4
SYMMETRY Symmetry
SPECIFICATION Spec
INVARIANTS
    StoreInv
PROPERTIES
    ImplementsPackageGraph
    DependencyClaimNeverWeakens
    PromotionKeepsEdges
