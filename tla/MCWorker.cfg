SPECIFICATION Spec
CONSTANTS
  r1 = r1
  r2 = r2
  g1 = g1
  a1 = a1
  a2 = a2
  d1 = d1
  boot = boot
  up = up
  up2 = up2
  Nobody = Nobody
  Callers = {r1, r2, g1, a1, a2, d1}
  Op <- MCOp
  Target <- MCTarget
  Specs <- MCSpecs
  BootSpecs = {boot}
  Capacity = 1
  QueueDepth = 1
  MaxChunks = 2
  MaxBackground = 1
INVARIANTS
  ReadsWaitOneChunk
  WorkedSpecStaysLoaded
  MenuAgrees
  JobsInOnePlace
CHECK_DEADLOCK FALSE
