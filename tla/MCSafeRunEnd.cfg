SPECIFICATION RunSpec
CONSTANTS
  MaxStatesPerPc = 2
  ComplexityLimit = 12
  MaxVal = 2
  Program <- TwoEnds
  State <- MCState
  Entry <- Uninit
  ErrorKind <- MCErrorKind
  Size <- MCSize
  IsBackEdge <- MCIsBackEdge
  IsSubstate <- MCIsSubstate
  Widen <- MCWiden
  Exec <- MCExec
  Conc <- MCConc
  ConcEntry <- MCConcEntry
  Gamma <- MCGamma
  CStep <- MCCStep
  Fault <- MCFault
INVARIANT NeverFallsThrough
CHECK_DEADLOCK FALSE
