CONSTANTS
  None = None
  Rows <- MCRows
  Width <- MCWidth
  Eos <- MCEos
  Schemas <- MCSchemas
  Asked <- MCAsked
  MaxTokens = 5
  PerField = 2
  Floor = 4
  Remaining = {3, 8}
  Sampled <- MCSampled
  ProbeBytes <- MCProbeBytes
SPECIFICATION Spec
INVARIANTS
  AdmitsExactlyDocuments NeverStuck MaskIsTheGrammar FinishedReportsValidate
  SlotsAreSlots
CHECK_DEADLOCK FALSE
