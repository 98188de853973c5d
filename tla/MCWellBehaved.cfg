SPECIFICATION FairSpec
CONSTANTS
    Code <- WellBehaved
    MainMethod = 1
    UninitPcs <- Garbage
    UninitFlags = {FALSE}
    HotThreshold = 2
    NumRegisters = 11
    MaxRecorded = 20
    MaxFrames = 6
INVARIANTS
    NeverAborts
    NeverUnderflows
    RecordingIsAPath
    RecordingsUndisturbed
    LoopsCompiled
    StartsBetweenStatements
PROPERTIES
    RefinesInterpreter
    HotLoopsGetCompiled
