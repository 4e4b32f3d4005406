SPECIFICATION Spec
CONSTANTS
  Symbols = {"single", "double", "backslash", "?", "@", "a", "1", " "}
  MaxLength = 6
INVARIANTS
  ParametersAreUnquotedMarks
  OnlyParametersAreReplaced
CHECK_DEADLOCK FALSE
