CONSTANTS
    PreviewLimit = 2
    MaxReplays = 2
    Sources <- AllSources
SPECIFICATION Spec
INVARIANTS
    ReplayFindsOriginal
    ReplaysAreAlike
    ReplayableAgain
