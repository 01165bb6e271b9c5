CONSTANTS
  None = None
  CheckpointIds = {"id", "id2"}
  MAX_STATE_BYTES = 3
  MAX_INPUT_LABEL_BYTES = 2
  MAX_INPUT_BYTES = 7
  Merges <- MCMerges
  Wide = "w"
  ContextLimit = 62
  Eos = "eos"
  MiB = 10
  WordMax = 9000
  MinCapacity = 128
  Slack = 10
  Chats <- MCChats
  ContextBuilds <- MCContextBuilds
  Adjudications <- MCAdjudications
  Opinions <- MCOpinions
  Ids64 <- MCIds64
  Turns <- MCTurns
  Specs <- MCSpecs
  States <- MCStates
  Spelled <- MCSpelled
  Floats <- MCFloats
  ReadSets <- MCReadSets
  PoolMethods = {"linear", "log_linear"}
  PoolWeights <- MCPoolWeights
  Probes <- MCProbes
  Picks <- MCPicks
  OptionSets <- MCOptionSets
  VocabularySize = 8
  Rows <- MCRows
  TopKs = {0, 2, 5}
  TokenSets <- MCTokenSets
  Masks <- MCMasks
  TokenizeTexts <- MCTokenizeTexts
  TokenizeContexts <- MCTokenizeContexts
  Labellings <- MCLabellings
  SpanTexts <- MCSpanTexts
  RouteLists <- MCRouteLists
  RoutedTexts <- MCRoutedTexts
  Tokenizations <- MCTokenizations
  Histories <- MCHistories
  ClauseSets <- MCClauseSets
  LabelMaps <- MCLabelMaps
  QueryIds <- MCQueryIds
  Retrievers <- MCRetrievers
  Clis <- MCClis
  Hosts <- MCHosts
  EncoderBodies <- MCEncoderBodies
SPECIFICATION Spec
INVARIANTS
  PromptsKeepTheirTurns ReadsScoreTheirTokens PoolsAreFair EncodersReadTheirText
  ServesWhatItLoaded
