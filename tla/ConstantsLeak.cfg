SPECIFICATION FrontSpec
CONSTANTS
    Sources <- LeakySources
    Prelude <- MCPrelude
    MaxOptDepth = 3
    Fuel = 3
INVARIANTS
    ConstsInitialized
