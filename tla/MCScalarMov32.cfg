SPECIFICATION Spec
CONSTANTS
  WordBits = 3
  HalfBits = 2
  Operands <- MCOperands
  Ops64 = {}
  Ops32 = {"Mov"}
  Jmps64 = {}
  Jmps32 = {}
  LoopHead = FALSE
INVARIANT UnsignedBoundsHold
CHECK_DEADLOCK FALSE
