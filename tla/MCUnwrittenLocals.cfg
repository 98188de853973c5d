SPECIFICATION Spec
CONSTANTS
    IntHalf = 4
    LongHalf = 16
    ByteHalf = 2
    Vars <- TwoVars
    Entries <- SomeEntries
    Registers <- TwoRegisters
    InitialKeys <- NoVars
    InitialLocals <- NoArguments
    Garbage = 5
    Wild = FALSE
    MaxStack = 3
    MaxSteps = 6
INVARIANT NoLocalIsLost
