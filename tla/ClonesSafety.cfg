SPECIFICATION SmallSpec
CONSTANTS
  Std = Std
  Raw = Raw
  a = a
  b = b
  e1 = e1
  e2 = e2
  e3 = e3
  e4 = e4
  e5 = e5
  p1 = p1
  p2 = p2
  p3 = p3
  NullPtr = NullPtr
  Uninit = Uninit
  UMax = 7
  ChunkRoom = 2
  MaxCap = 3
  Handles <- MCHandles
  InlineSize <- MixedSizes
  Elems = {e1, e2, e3, e4, e5}
  Ptrs = {p1, p2}
SYMMETRY Sym
INVARIANTS CloneTypeOK CloneAccountedFor GuardStaysInBounds
PROPERTIES CallAddsWhatIsDue PanicKeepsOldValues IterTakesFromTheEnds ClonesLoseNoBlock
CHECK_DEADLOCK FALSE
