SPECIFICATION ReconcileSpec
CONSTANTS
    c1 = c1
    Clients <- OneClient
    MaxId = 6
    TopTier = 3
    SeedTier <- SmallTree
    SeedParts <- SmallTreeLinks
    MaxWrites = 2
    ActivityTier = 2
    SeedPending <- CandidateOfTree
INVARIANTS ReconcileTypeOK RevisionNamesContent
PROPERTIES LayersKept OrphanedOnlyByDelete ProtectedUnlessCandidate
