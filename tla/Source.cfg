\* The lexer and the parser with scaled numbers, the frontend on eight families of sources.
SPECIFICATION SourceSpec
CONSTANTS
    Texts <- MCTexts
    Int32Max = 7
    Int64Max = 127
    MaxRecursionDepth = 7
    MaxPieces = 3
    MaxOps = 3
    Sources <- SoundSources
    Prelude <- MCPrelude
    MaxOptDepth = 3
    Fuel = 3
INVARIANTS
    TokensCover
    NumbersExact
    TreesFaithful
    ErrorsSurface
    PrecedenceAgrees
    AcceptedSound
    ConstsInitialized
    ExhaustiveTaken
    RecursionHonest
    ImportsSettled
PROPERTIES
    AnalysisEnds
