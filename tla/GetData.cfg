CONSTANTS
  Cols = {c1, c2}
  Kinds = {"string", "null"}
  MaxLength = 2
  Buffers = {1, 2, 3, 4, 5}
  SizeModulus = 16
SPECIFICATION Spec
INVARIANTS
  TypeOK
  PartsAreSuccessive
  EndMeansAll
  LastIsOnce
PROPERTIES
  ReadingEnds
