SPECIFICATION Spec
CONSTANTS
  Atn <- atn
  Entry <- ruleToStartState
  StartRule = "startRule"
  MaxDepth = 8
INVARIANTS LookIsComplete LookIsExactInContext LL1Sound
CHECK_DEADLOCK FALSE
