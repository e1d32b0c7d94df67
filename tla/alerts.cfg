CONSTANTS
  Settings <- MCSettings
  Owner = "owner"
  Dead = "dead"
  Stray = "stray"
  MaxAlerts = 2
  MaxEvents = 1
  Handlers = {h1, h2}
  MaxFaults = 2
CHECK_DEADLOCK FALSE
SPECIFICATION Spec
INVARIANTS
  TypeOK
  AcceptedIsDelivered
  DuplicatesHaveACause
PROPERTIES
  EveryAlertArrives
