CONSTANTS
  r1 = r1  r2 = r2  r3 = r3
  o1 = o1
  t1 = t1  t2 = t2
  Requests = {r1, r2, r3}
  Ops = {o1}
  Texts = {t1, t2}
  OpOf <- SameOp
  TextOf <- MixedTexts
  Submits = {o1}
  Rank <- AskOrder
  Offered = {"once", "always"}
  MaxAsks = 2
  MaxRevocations = 1
  MaxRestarts = 1
SPECIFICATION Spec
CHECK_DEADLOCK FALSE
INVARIANTS
  TypeOK
  WaitingProvesNoEffect
  ReplayOnlyAfterRewind
  SuccessIsDelivery
  OneTextPerOperation
