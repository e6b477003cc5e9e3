SPECIFICATION Spec
CONSTANTS
  Paths <- MCPaths
  Texts <- MCTexts
  Args <- MCArgs
  Configs <- MCConfigs
INVARIANTS TypeOK NoneSkipped VerdictOfTextRead LexicalErrorsOnce SteadyFilesLinted DiesOfKnownCauses
PROPERTY Finishes
