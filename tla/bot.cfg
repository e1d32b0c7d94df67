CONSTANTS
  Probed = {"agent", "grafana"}
  Agent = "agent"
  Xray = "xray"
  Said <- MCSaid
  MaxUpdates = 3
  MaxPolls = 1
  MaxFaults = 2
CHECK_DEADLOCK FALSE
SPECIFICATION Spec
INVARIANTS
  TypeOK
  OnlyAsked
  ForgottenIsHandled
PROPERTIES
  EveryUpdateHandled
