SPECIFICATION Spec
CONSTANTS
    Code <- FunctionInsideTrace
    MainMethod = 1
    UninitPcs <- Garbage
    UninitFlags = {FALSE}
    HotThreshold = 2
    NumRegisters = 11
    MaxRecorded = 20
    MaxFrames = 2
INVARIANTS
    NeverAborts
