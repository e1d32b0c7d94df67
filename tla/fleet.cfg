CONSTANTS
  Vpns = {1, 2}
  Proxies = {3}
  Idents = {i1, i2, i3}
  Names = {n1, n2}
  Pairs = {k1, k2}
  ServiceIds = {s1, s2}
  None = None
  Ops = {"user_add", "user_rm", "enable", "disable", "switch",
         "deploy", "target", "attach", "detach", "cleanup", "server_add"}
  MaxEdits = 3
  MaxFaults = 1
CHECK_DEADLOCK FALSE
SPECIFICATION Spec
SYMMETRY Interchangeable
INVARIANTS
  TypeOK
  DeployIsAdmitted
  ServesItsUsers
  RelayReaches
