SPECIFICATION Spec
CONSTANTS
  Atn <- nestedAtn
  Entry <- nestedEntry
  StartRule = "nested"
  Files <- nestedFiles
  MaxCalls = 1
INVARIANT LLDecidesCorrectly
