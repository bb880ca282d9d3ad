SPECIFICATION FairPipelineSpec
CONSTANTS
  Publishers = {p1}
  Subs = {s1, s2}
  Watchers = {s2}
  Closers = {"reader", "server"}
  Kinds = {"seqHeader", "interframe"}
  MaxTags = 3
  KindSize <- SizeOfKind
  MaxSize = 4
INVARIANTS BudgetExact ViewedInOrder
PROPERTIES CallsReturn BuffersEnd PlayersEnd AllDelivered
CHECK_DEADLOCK FALSE
