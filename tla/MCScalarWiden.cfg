SPECIFICATION Spec
CONSTANTS
  WordBits = 3
  HalfBits = 2
  Operands <- MCOperands
  Ops64 = {"Add", "Mov"}
  Ops32 = {}
  Jmps64 = {"Jle"}
  Jmps32 = {}
  LoopHead = TRUE
INVARIANT UnsignedBoundsHold
CHECK_DEADLOCK FALSE
