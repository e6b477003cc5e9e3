SPECIFICATION Spec
CONSTANTS
  MaxWords = 4
  Sources <- MCSources
  Channel = 0
  MaxLook = 3
  WordSize = 16
INVARIANT LookbehindOnChannel
