SPECIFICATION Spec
CONSTANTS
  Publishers = {p1}
  Subs = {s1}
  Closers = {c1}
  Kinds = {"keyframe", "aacHeader", "audio"}
  MaxTags = 3
INVARIANTS AudioConfigured
CHECK_DEADLOCK FALSE
