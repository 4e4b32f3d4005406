SPECIFICATION Spec
CONSTANTS
  Symbols = {"single", "double", "backslash", "?", "@", "a", "1", " "}
  MaxLength = 5
INVARIANT EveryUnquotedMarkIsFound
CHECK_DEADLOCK FALSE
