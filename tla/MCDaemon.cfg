CONSTANTS
  e1 = e1
  e2 = e2
  a1 = a1
  tcp = tcp
  uds = uds
  NoJob = NoJob
  Callers <- MCCallers
  Of <- MCOf
  Listeners <- MCListeners
SPECIFICATION ExitSpec
CHECK_DEADLOCK FALSE
INVARIANTS
  GaugeCounts
  CutOffForCause
  ExitMeansIt
PROPERTIES
  SignalEndsProcess
  CallersHear
