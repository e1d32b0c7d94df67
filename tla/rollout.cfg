CONSTANTS
  Servers = {1, 2}
  Deployed = {1, 2}
  Uuids = {u1, u2}
  NoUuid = NoUuid
  Ops = {"add", "rm", "enable", "disable", "expiry_past", "expiry_clear",
         "quota_on", "quota_off", "quota_reset",
         "deploy", "reconcile", "server_add", "server_cleanup"}
  MaxCommands = 4
  MaxFaults = 2
  MaxBlocks = 1
CHECK_DEADLOCK FALSE
SPECIFICATION Spec
INVARIANTS TypeOK ServedAsRecorded SettledServersAgree
PROPERTY OnlyReconcileMixesIdentities
