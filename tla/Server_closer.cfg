SPECIFICATION Spec
CONSTANTS
  c1 = c1
  c2 = c2
  s1 = s1
  s2 = s2
  s3 = s3
  Conns = {c1, c2}
  Streams = {s1, s2}
  Owner <- OneEach
  Names = {"a", "b"}
  SingleUse = FALSE
  MaxMedia = 2
  MaxPlayers = 2
INVARIANTS ClosedByOwner
CHECK_DEADLOCK FALSE
