CONSTANTS
  Char <- MCChar
  Configs <- MCConfigs
  Plans <- MCPlans
  ModeNames = {"DEFAULT_MODE", "OUTER", "INNER"}
  Wide <- MCWide
  StartConfigs <- MCStartConfigs
  Reach <- MCReach
  IsAccepting <- MCIsAccepting
  TypeOf <- MCTypeOf
  ActionsOf <- MCActionsOf
  Atn <- MCAtn
  Entry <- MCEntry
  Rules <- MCRules
SPECIFICATION Spec
INVARIANTS TypeOK LongestMatch TokensTile DeliversWellFormed
PROPERTY Ends
