SPECIFICATION Spec
CONSTANTS
  Control = 2
  Shapes <- OneShape
  Times = {0, 3, 7}
  ChunkSizes = {4, 8}
  Default = 4
  Extended = 6
  Word = 16
  MaxMsgs = 4
  MaxWire = 2
INVARIANTS InSync
CHECK_DEADLOCK FALSE
