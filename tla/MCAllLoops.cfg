SPECIFICATION Spec
CONSTANTS
    Code <- AllLoops
    MainMethod = 1
    UninitPcs <- Garbage
    UninitFlags = {TRUE, FALSE}
    HotThreshold = 2
    NumRegisters = 2
    MaxRecorded = 20
    MaxFrames = 4
INVARIANTS
    TypeOK
    ExitTableDense
    StubsMatchExitTable
    OnlyHotCodeCompiled
    JumpsAreBound
    GuardsAgree
PROPERTIES
    TracesNeverReplaced
    AbortsHaveReason
