CONSTANTS
  m1 = m1  m2 = m2
  a1 = a1  a2 = a2
  q1 = q1
  Threads = {m1, m2}
  Approvals = {a1}
  Questions = {q1}
  Choices = {"once", "always", "deny", "never"}
  MaxGrants = 2
  MaxCrashes = 1
SPECIFICATION Spec
SYMMETRY Same
CHECK_DEADLOCK FALSE
INVARIANTS
  TypeOK
  QueueFaithful
  GrantsFaithful
