CONSTANTS
  Cols = {c1}
  Kinds = {"converted"}
  MaxLength = 2
  Buffers = {2, 4}
  SizeModulus = 16
SPECIFICATION Spec
INVARIANT PartsAreSuccessive
