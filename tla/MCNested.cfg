SPECIFICATION Spec
CONSTANTS
    Code <- Nested
    MainMethod = 1
    UninitPcs <- Garbage
    UninitFlags = {FALSE}
    HotThreshold = 2
    NumRegisters = 11
    MaxRecorded = 20
    MaxFrames = 1
PROPERTIES
    RefinesInterpreter
