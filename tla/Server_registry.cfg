SPECIFICATION FairSpec
CONSTANTS
  c1 = c1
  c2 = c2
  s1 = s1
  s2 = s2
  s3 = s3
  Conns = {c1, c2}
  Streams = {s1, s2, s3}
  Owner <- TwoAndOne
  Names = {"a", "b", ""}
  SingleUse = TRUE
  MaxMedia = 3
  MaxPlayers = 3
INVARIANTS TypeOK RegisteredIsOpen ClosedByOwner NothingLeaks SourceIsOwn CountIsExact
PROPERTIES EndsWithConnection
CHECK_DEADLOCK FALSE
