SPECIFICATION Spec
CONSTANTS
    IntHalf = 4
    LongHalf = 16
    ByteHalf = 2
    Vars <- TwoVars
    Entries <- LoopEntries
    Registers <- TwoRegisters
    InitialKeys <- TwoVars
    InitialLocals <- SomeArguments
    Garbage = 5
    Wild = TRUE
    MaxStack = 3
    MaxSteps = 6
PROPERTY RefinesByteCode
