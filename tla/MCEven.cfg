SPECIFICATION Spec
CONSTANTS
    Code <- Even
    MainMethod = 1
    UninitPcs <- Garbage
    UninitFlags = {FALSE}
    HotThreshold = 2
    NumRegisters = 11
    MaxRecorded = 20
    MaxFrames = 1
INVARIANTS
    GuardsAgree
