CONSTANTS
  a = a
  b = b
  Vecs = {a, b}
  Std = Std
  UMax = 3
  Total = 5
  OverflowChecks = FALSE
  InlineSize <- MCInlineSize
SPECIFICATION Spec
PROPERTIES AppendAddsTheLengths
SYMMETRY Symmetry
