\* Five lines, a log of at most one, and two faults of any kind.
SPECIFICATION FairTailerSpec
CONSTANTS
  MaxBytes = 3
  BatchSize = 2
  Faults = {"agent_stop", "meta", "truncate", "record", "log_lost"}
  MaxLines = 5
  MaxFaults = 2
INVARIANTS
  TailerTypeOK
  NothingTwice
  LossIsBounded
PROPERTIES
  UnreadIsRecorded
