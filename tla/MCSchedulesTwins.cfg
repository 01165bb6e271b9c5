SPECIFICATION Spec
CONSTANTS
  CHUNK = 2
  ContextLimit = 24
  Loaded <- Both
  Described <- Schemas
  Block <- Blocks
  Label <- Labels
  Systems <- NoSystem
  Turns <- SomeTurns
  Inputs <- SomeInputs
  Slots <- TwoSlots
  Closing <- Close
  Reply <- Replied
  Words <- SomeWords
  MaxChats = 2
  MaxStates = 2
INVARIANTS
  ReadsAreTheirOwn
