SPECIFICATION Spec
CONSTANTS
  WordBits = 3
  HalfBits = 2
  Operands <- MCOperands
  Ops64 = {"Mov"}
  Ops32 = {}
  Jmps64 = {}
  Jmps32 = {}
  LoopHead = FALSE
INVARIANT NoDivisionByZero
CHECK_DEADLOCK FALSE
