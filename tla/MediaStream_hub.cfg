SPECIFICATION Spec
CONSTANTS
  Publishers = {p1}
  Subs = {s1, s2}
  Closers = {c1}
  Kinds = {"seqHeader", "keyframe", "interframe"}
  MaxTags = 4
INVARIANTS TypeOK StartsAtFirstKeyFrame VideoConfigured NoChannelPanic SendHasReader
PROPERTIES ImplementsBroadcast
CHECK_DEADLOCK FALSE
