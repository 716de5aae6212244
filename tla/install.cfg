CONSTANTS
  p1 = p1  p2 = p2
  v1 = v1  v2 = v2
  launcher = launcher  dropin = dropin  profile = profile  bundle = bundle
  None = None
  Procs = {p1, p2}
  Versions = {v1, v2}
  Order <- AllPaths
  DropIns = {dropin}
  Profiles = {profile}
  Bundles = {bundle}
  Kinds = {"install", "update", "rollback", "register", "uninstall", "launch"}
  MaxStarts = 2
  MaxCrashes = 1
  MaxEdits = 1
SPECIFICATION Spec
SYMMETRY Processes
CHECK_DEADLOCK FALSE
INVARIANTS
  TypeOK
  FilesMatchReceipt
  LaunchersResolve
  DisplacedBundleKept
PROPERTIES
  ForeignContentKept
  OneVersionInForce
