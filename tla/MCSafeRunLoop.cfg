SPECIFICATION FairRunSpec
CONSTANTS
  MaxStatesPerPc = 2
  ComplexityLimit = 12
  MaxVal = 2
  Program <- CountingLoops
  State <- MCState
  Entry <- Uninit
  ErrorKind <- MCErrorKind
  Size <- MCSize
  IsBackEdge <- MCIsBackEdge
  IsSubstate <- MCIsSubstate
  Widen <- MCWiden
  Exec <- MCExec
  Conc <- MCConc
  ConcEntry <- MCConcEntry
  Gamma <- MCGamma
  CStep <- MCCStep
  Fault <- MCFault
PROPERTY RunsEnd
CHECK_DEADLOCK FALSE
