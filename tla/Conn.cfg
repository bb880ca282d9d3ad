SPECIFICATION FairConnSpec
CONSTANTS
  Reader = reader
  Acks = {a1}
  Senders = {reader, a1}
  Control = 2
  Reserved = {2}
  Base = 2
  MaxId = 4
  MaxChunks = 1
  MaxMsgs = 40
  MaxReads = 2
INVARIANTS ConnTypeOK DestroyedOnce NothingAfterClose
PROPERTIES ConnectionEnds NoGoroutineLeft
CHECK_DEADLOCK FALSE
