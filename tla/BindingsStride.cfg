SPECIFICATION Spec
CONSTANTS
    MaxParameters = 1
    None = None
    Statements = {s1}
    Explicits = {}
    Buffers = {a}
    Lengths <- NoLength
    TypePairs <- OtherPairs
    BindTypes = {0}
    LastSet = 2

INVARIANTS
    SetReadsItsElement
