CONSTANTS
  r1 = r1  r2 = r2  r3 = r3
  o1 = o1
  t1 = t1  t2 = t2
  Requests = {r1, r2, r3}
  Ops = {o1}
  Texts = {t1}
  OpOf <- SameOp
  TextOf <- RetryTexts
  Submits = {}
  Rank <- AskOrder
  Offered = {"once"}
  MaxAsks = 1
  MaxRevocations = 0
  MaxRestarts = 0
SYMMETRY Retries
SPECIFICATION Spec
CHECK_DEADLOCK FALSE
INVARIANTS
  AtMostOnce
