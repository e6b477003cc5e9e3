SPECIFICATION Spec
CONSTANTS
  Atn <- atn
  Entry <- ruleToStartState
  StartRule = "startRule"
  Samples <- small
  Typos <- typos
  Inputs <- MCInputs
  Plans <- uses
  nextTokens <- MCNextTokens
  nextTokensIn <- MCNextTokensIn
  visitDecision <- MCDecide
INVARIANTS TypeOK StackFollowsAtn TreeKeepsTokens WholeFileRead ReportedIffInvalid CleanTreeSpansFile ExpectedExact DefaultReportsMoveOn BailsOnlyIfInvalid AdvisedWell
PROPERTIES Terminates SLLSafe
