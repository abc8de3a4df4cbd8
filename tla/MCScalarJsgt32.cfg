SPECIFICATION Spec
CONSTANTS
  WordBits = 3
  HalfBits = 2
  Operands <- MCOperands
  Ops64 = {}
  Ops32 = {}
  Jmps64 = {}
  Jmps32 = {"Jsgt"}
  LoopHead = FALSE
INVARIANT UnsignedBoundsHold
CHECK_DEADLOCK FALSE
