SPECIFICATION Spec
CONSTANTS
  Atn <- atn
  Entry <- ruleToStartState
  StartRule = "startRule"
  Samples <- twice
  Typos = {}
  Inputs <- MCInputs
  Plans <- defaults
  nextTokens <- MCNextTokens
  nextTokensIn <- MCNextTokensIn
  visitDecision <- MCDecide
INVARIANT FailsafeOnlyWhenStuck
