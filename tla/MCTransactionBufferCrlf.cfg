CONSTANTS
  MaxSize = 8
  Lengths = {2, 3, 4}
  Limits = {0, 1, 2, 3, 5}
  Terminator = 2
  Escapes = FALSE
SPECIFICATION Spec
INVARIANT AskedFor
