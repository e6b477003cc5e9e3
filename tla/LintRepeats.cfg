SPECIFICATION Spec
CONSTANTS
  Atn <- atn
  Entry <- ruleToStartState
  StartRule = "startRule"
  Samples <- printed
  Typos <- nothing
  Inputs <- MCInputs
  Plans <- lint
  nextTokens <- MCNextTokens
  nextTokensIn <- MCNextTokensIn
  visitDecision <- MCDecide
INVARIANT ReportsMoveOn
