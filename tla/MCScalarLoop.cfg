SPECIFICATION Spec
CONSTANTS
  WordBits = 2
  HalfBits = 1
  Operands <- MCOperands
  Ops64 <- CopyOps
  Ops32 = {}
  Jmps64 <- AllJmps
  Jmps32 <- UnsignedJmps
  LoopHead = TRUE
INVARIANTS KnownBitsHold UnsignedBoundsHold SignedBoundsHold
PROPERTY HeadGrows
CHECK_DEADLOCK FALSE
