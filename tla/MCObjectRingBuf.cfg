SPECIFICATION Spec
CONSTANTS
  WordBits = 4
  HalfBits = 2
  STACK_SIZE = 4
  DW = 2
  Jobs <- RingBufJobs
  Registers <- MCRegisters
  Unknown = {0}
INVARIANTS NoNullDereference
CHECK_DEADLOCK FALSE
