SPECIFICATION FairSessionSpec
CONSTANTS
  Size = 14
  DigestLength = 2
  Modulus = 2
  Area <- AreaOf
  Bytes = {0, 1}
  HmacFP <- PlayerHmac
  HmacFMS <- ServerHmac
  Hellos <- ClientHellos
  Fills <- FourVary
  Commands <- LibraryCommands
  Foreign <- ForeignMessages
  MaxReads = 4
INVARIANTS SessionTypeOK StartsAligned AnswerValidates RoutedToItsStream ComesBack
PROPERTIES HandshakeEnds
CHECK_DEADLOCK FALSE
