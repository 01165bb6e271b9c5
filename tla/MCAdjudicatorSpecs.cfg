CONSTANTS
  u = u
  a = a
  p = p
  q = q
  s1 = s1
  s2 = s2
  None = None
  NoGroup = NoGroup
  Checkpoints = {u, a}
  Contexts = {}
  Prefixes <- MCPrefixes
  Turns <- MCTurns
  SpecOrder <- MCSpecOrder
  BootSpecs = {}
  SpecCapacity = 1
  TailReadable = {s1, s2}
  Prompts = {p, q}
  Fields = 2
  CheckpointSize <- MCCheckpointSize
  ChatBudget = 2
  ChatBytes <- MCBytes
  KeySize <- MCKeySize
  StateBudget = 2
  StateBytes <- MCBytes
  DescribedCapacity = 1
SPECIFICATION Spec
INVARIANTS CachedSpecsLoaded
