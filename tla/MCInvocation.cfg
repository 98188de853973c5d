SPECIFICATION Spec
CONSTANTS
    Values = {0, 1}
    Signatures <- SomeSignatures
    MaxFrames = 3
    MaxOperands = 3
INVARIANTS
    CallTypeOK
    SizesAddUp
PROPERTY CallsKeepConvention
