SPECIFICATION SynthesisSpec
CONSTANTS
    MaxId = 7
    FirstRows <- TwoGoals
    FirstLinks <- TwoGoalLinks
    Batches <- EditorBatches
    Candidates <- OneOrTwoCandidates
    FirstAnswers <- ModelAnswers
    RefinedAnswers <- RefinedOnes
    MaxBatches = 1
    MaxProposals = 1
    MaxPasses = 2
INVARIANTS SynthesisTypeOK
PROPERTIES PassesKeepOwned PlacesAreKept
CHECK_DEADLOCK FALSE
