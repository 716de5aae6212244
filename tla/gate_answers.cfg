CONSTANTS
  c1 = c1  c2 = c2
  b1 = b1  b2 = b2
  t1 = t1
  Calls = {c1, c2}
  Waiters = {c1, c2}
  Bindings = {b1, b2}
  Tools = {t1}
  BindingOf <- SameBinding
  ToolOf <- ToolOfAll
  AppTools = {t1}
  Keyed = {}
  Posture <- SecondClosed
  Offered = {"once", "deny"}
  MaxAsks = 4
  MaxGrants = 2
SPECIFICATION Spec
CHECK_DEADLOCK FALSE
INVARIANTS
  AskQueueConsistent
  WaitersAskIsLive
PROPERTIES
  EveryCallAnswered
