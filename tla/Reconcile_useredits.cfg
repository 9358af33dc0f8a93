SPECIFICATION ReconcileSpec
CONSTANTS
    c1 = c1
    Clients <- OneClient
    MaxId = 4
    TopTier = 2
    SeedTier <- TwoActivities
    SeedParts <- TwoActivitiesLinks
    MaxWrites = 2
    ActivityTier = 2
    SeedPending <- SecondActivity
PROPERTIES ReconcileKeepsUserEdits
