SPECIFICATION Spec
CONSTANTS
  MaxWords = 4
  Sources <- MCSources
  Channel = 0
  MaxLook = 3
  WordSize = 16
INVARIANTS TypeOK BufferIsPrefix CursorOnChannel LookaheadCorrect LookbehindCorrect HiddenRightCorrect HiddenLeftCorrect
PROPERTY ImplementsCursor
