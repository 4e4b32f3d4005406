SPECIFICATION Spec
CONSTANTS
    MaxParameters = 2
    None = None
    Statements = {s1}
    Explicits = {x}
    Buffers = {a, b}
    Lengths <- SomeLengths
    TypePairs <- SuitingPairs
    BindTypes = {0, 8}
    LastSet = 2
SYMMETRY Symmetry
CONSTRAINT ExplicitsAreSmall
INVARIANTS
    TypeOK
    RequestCarriesBindings
    BufferKeepsItsType
    SqlTypeIsKept
    CountIsHighestBound
    SetReadsItsElement
