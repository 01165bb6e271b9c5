CONSTANTS
  MaxTokens = 3
  None = None
  Vocabulary <- MCVocabulary
SPECIFICATION StreamSpec
INVARIANTS
  HearsTheWholeTurn
  TokensSpellTheText
  StopsAtNextBoundary
PROPERTIES
  StreamsEnd
