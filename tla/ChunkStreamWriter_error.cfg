SPECIFICATION FairSpec
CONSTANTS
  Senders = {g1, g2}
  Reserved = {2}
  Base = 2
  MaxId = 4
  MaxChunks = 2
  MaxMsgs = 2
PROPERTIES WriteErrorEndsWriteTo
CHECK_DEADLOCK FALSE
