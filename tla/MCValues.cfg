SPECIFICATION Spec
CONSTANTS
    IntHalf = 4
    LongHalf = 16
    ByteHalf = 2
    Vars <- TwoVars
    Entries <- SomeEntries
    Registers <- TwoRegisters
    InitialKeys <- TwoVars
    InitialLocals <- SomeArguments
    Garbage = 1
    Wild = FALSE
    MaxStack = 3
    MaxSteps = 7
INVARIANTS
    ValuesTypeOK
    RegistersPartitioned
PROPERTIES
    RefinesByteCode
    DecidesAsByteCode
