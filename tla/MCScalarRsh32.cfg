SPECIFICATION Spec
CONSTANTS
  WordBits = 3
  HalfBits = 2
  Operands <- MCOperands
  Ops64 = {}
  Ops32 = {"Rsh"}
  Jmps64 = {}
  Jmps32 = {}
  LoopHead = FALSE
INVARIANT KnownBitsHold
CHECK_DEADLOCK FALSE
