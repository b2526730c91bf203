SPECIFICATION FairDrainSpec
CONSTANTS
  Std = Std
  Raw = Raw
  a = a
  e1 = e1
  e2 = e2
  e3 = e3
  e4 = e4
  e5 = e5
  p1 = p1
  p2 = p2
  NullPtr = NullPtr
  Uninit = Uninit
  UMax = 15
  MaxCap = 4
  Handles <- MCHandles
  InlineSize <- OneInline
  Elems = {e1, e2, e3}
  Ptrs = {p1, p2}
PROPERTIES SpliceDropReturns
