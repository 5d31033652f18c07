SPECIFICATION Spec
CONSTANTS
  a = a
  b = b
  cr = cr
  lf = lf
  Char = {a, b, cr, lf}
  Eol = cr
  Filtered = lf
  InSize = 4
  OutSizePwr = 2
  Width = 3
  Messages <- SomeMessages
  Sizes = {1, 3, 4}
  Wrap = 2
INVARIANTS
  StoppedCoherently
