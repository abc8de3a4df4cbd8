SPECIFICATION Spec
CONSTANTS
  WordBits = 3
  HalfBits = 2
  Operands <- MCOperands
  Ops64 <- SoundOps64
  Ops32 <- SoundOps32
  Jmps64 <- AllJmps
  Jmps32 <- UnsignedJmps
  LoopHead = FALSE
INVARIANTS TypeOK KnownBitsHold UnsignedBoundsHold WrappedBoundsHold
CHECK_DEADLOCK FALSE
