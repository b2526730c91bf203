CONSTANTS
  a = a
  b = b
  Vecs = {a, b}
  Std = Std
  UMax = 3
  Total = 5
  OverflowChecks = TRUE
  InlineSize <- MCInlineSize
SPECIFICATION Spec
INVARIANTS ZstTypeOK EachDroppedOnce RangesAreRight
SYMMETRY Symmetry
