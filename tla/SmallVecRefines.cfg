SPECIFICATION Spec
CONSTANTS
  Std = Std
  Raw = Raw
  a = a
  b = b
  e1 = e1
  e2 = e2
  e3 = e3
  e4 = e4
  p1 = p1
  p2 = p2
  p3 = p3
  NullPtr = NullPtr
  Uninit = Uninit
  UMax = 15
  MaxCap = 3
  Handles <- MCHandles
  InlineSize <- EqualSizes
  Elems = {e1, e2, e3}
  Ptrs = {p1, p2}
SYMMETRY Sym
PROPERTIES ImplementsVec CallsDoWhatVecDoes
