SPECIFICATION Spec
CONSTANTS
  Paths <- MCPaths
  Texts <- MCTexts
  Args <- MCArgs
  Configs <- MCConfigs
INVARIANT PrintsOwnTree
