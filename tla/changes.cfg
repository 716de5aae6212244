CONSTANTS
  host = host  cli = cli
  e1 = e1  e2 = e2
  Procs = {host, cli}
  Sets = {e1, e2}
  MaxOps = 3
  MaxRev = 1
SPECIFICATION Spec
SYMMETRY Same
CHECK_DEADLOCK FALSE
INVARIANTS
  TypeOK
  StatusFaithful
PROPERTIES
  OnlyItsOwnEdit
