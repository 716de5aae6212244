CONSTANTS
  m1 = m1  m2 = m2
  worker = worker  other = other  kid = kid  tool = tool  star = star
  a1 = a1  a2 = a2
  Callers = {m1, m2}
  Agents = {worker, other, kid}
  Tools = {tool}
  Star = star
  Creators = {}
  Identities = {}
  Cards <- Both
  Wants <- AnyWant
  Admissions = {a1, a2}
  Quota <- Racing
  MaxRuns = 4
SPECIFICATION Spec
SYMMETRY Threads
CHECK_DEADLOCK FALSE
INVARIANTS
  ChildWithinParent
