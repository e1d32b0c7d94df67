CONSTANTS
  Servers = {1, 2}
  Deployed = {1, 2}
  Uuids = {u1}
  NoUuid = NoUuid
  Ops = {"add", "rm"}
  MaxCommands = 3
  MaxFaults = 1
  MaxBlocks = 0
SPECIFICATION Spec
INVARIANT RemovedIsGone
CHECK_DEADLOCK FALSE
