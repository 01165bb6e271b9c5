CONSTANTS
  u1 = u1
  a1 = a1
  u2 = u2
  a2 = a2
  c1 = c1
  c2 = c2
  s1 = s1
  None = None
  NoGroup = NoGroup
  Checkpoints <- MCCheckpoints
  Contexts <- MCContexts
  Prefixes <- MCPrefixes
  Turns <- MCTurns
  SpecOrder <- MCSpecOrder
  BootSpecs = {s1}
  SpecCapacity = 1
  TailReadable = {s1}
  Prompts = {}
  Fields = 1
  CheckpointSize <- MCCheckpointSize
  ChatBudget = 4
  ChatBytes <- MCChatBytes
  KeySize <- MCKeySize
  StateBudget = 2
  StateBytes <- MCStateBytes
  DescribedCapacity = 1
SPECIFICATION Spec
INVARIANTS NoOrphans NothingPulledAway HoldsNeverRefused
PROPERTIES ReadsFollowTheChat
