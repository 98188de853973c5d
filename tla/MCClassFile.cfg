SPECIFICATION Spec
CONSTANT ClassFiles <- SmallClassFiles
INVARIANTS
    LoadingTypeOK
    ReadableIsLoaded
    ParsedAsWritten
    MethodsAsWritten
PROPERTIES
    AttributesKeepToTheirLength
    ParserAdvances
