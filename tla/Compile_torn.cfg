SPECIFICATION CompileSpec
CONSTANTS
    c1 = c1  c2 = c2  r1 = r1  r2 = r2  e1 = e1
    Recorder = Recorder
    Original = Original
    Fresh = Fresh
    NoFile = NoFile
    Tokens <- TwoTokens
    Swaps <- TwoSwaps
    Edits <- OneEdit
    LastStamp = 1
SYMMETRY Symmetric
INVARIANT CopyHasItsLog
CHECK_DEADLOCK FALSE
