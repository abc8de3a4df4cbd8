SPECIFICATION Spec
CONSTANTS
  WordBits = 4
  HalfBits = 2
  STACK_SIZE = 4
  DW = 2
  Jobs <- MCJobs
  Registers <- MCRegisters
  Unknown = {0}
INVARIANTS TypeOK ScansAgree FrameClaimsHold ClaimedAccessesInside CheckedNullSafety TypeClaimsHold LoopFreeSpecHolds
PROPERTIES RunsTheProgramme
CHECK_DEADLOCK FALSE
