SPECIFICATION Spec
CONSTANTS
    ByteBits = 3
    MaxInlineSize = 12
    FormatVersion = 20
    StackCapacity = 24
    MaxOptimizeItrs = 5
    Structs <- MCStructs
    Unions <- MCUnions
    Programs <- Miscompiled
\* The program ends, and with it the process.
CHECK_DEADLOCK FALSE
INVARIANTS
    PassesPreserveMeaning
