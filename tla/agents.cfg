CONSTANTS
  m1 = m1  m2 = m2
  worker = worker  other = other  kid = kid  tool = tool  star = star
  a1 = a1  a2 = a2
  Callers = {m1, m2}
  Agents = {worker, kid}
  Tools = {tool}
  Star = star
  Creators = {}
  Identities = {kid}
  Cards <- WorkerSoft
  Wants <- AnyWant
  Admissions = {a1, a2}
  Quota <- Calling
  MaxRuns = 2
SPECIFICATION Spec
SYMMETRY Threads
CHECK_DEADLOCK FALSE
INVARIANTS
  TypeOK
  OneRunAtATime
  ScopeHolds
  BorrowedAcrossFinish
PROPERTIES
  FinishedStaysFinished
