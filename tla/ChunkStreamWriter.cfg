SPECIFICATION FairSpec
CONSTANTS
  Senders = {g1, g2}
  Reserved = {2}
  Base = 2
  MaxId = 4
  MaxChunks = 2
  MaxMsgs = 3
INVARIANTS ResultIsTrue WireInOrder ReportIsAwaited
PROPERTIES CloseReleases
CHECK_DEADLOCK FALSE
