SPECIFICATION Spec
CONSTANTS
  WordBits = 4
  HalfBits = 2
  STACK_SIZE = 4
  DW = 2
  Jobs <- ReadJobs
  Registers <- MCRegisters
  Unknown = {0, 1}
INVARIANTS SpecHolds
CHECK_DEADLOCK FALSE
