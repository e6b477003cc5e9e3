SPECIFICATION Spec
CONSTANTS
  Atn <- MCAtn
  Entry <- MCEntry
  StartRule = "startRule"
  Files <- MCFiles
  MaxCalls = 3
INVARIANTS TypeOK CacheIsTransparent LLDecidesCorrectly EdgesAreReaches ContextsCanonical
