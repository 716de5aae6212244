CONSTANTS
  r1 = r1  r2 = r2  r3 = r3
  o1 = o1
  t1 = t1  t2 = t2
  Requests = {r1, r2}
  Ops = {o1}
  Texts = {t1}
  OpOf <- SameOp
  TextOf <- RetryTexts
  Submits = {o1}
  Rank <- AskOrder
  Offered = {"once", "never"}
  MaxAsks = 4
  MaxRevocations = 1
  MaxRestarts = 1
SPECIFICATION Spec
CHECK_DEADLOCK FALSE
PROPERTIES
  EverySendAnswered
