SPECIFICATION Spec
CONSTANTS
  Control = 2
  Shapes <- FourShapes
  Times = {0, 1, 2, 3}
  ChunkSizes = {4, 8}
  Default = 4
  Extended = 6
  Word = 16
  MaxMsgs = 4
  MaxWire = 2
INVARIANTS TypeOK InSync ReceivedAsSent TimestampsNeverAhead
CHECK_DEADLOCK FALSE
