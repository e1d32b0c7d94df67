CONSTANTS
  Keep = 2
  LooksLikeStamp = FALSE
  MaxBundles = 3
  MaxTokens = 2
  MaxArchives = 3
  MaxCommands = 4
  MaxFaults = 2
CHECK_DEADLOCK FALSE
SPECIFICATION Spec
INVARIANTS
  TypeOK
  RefusedNeverRuns
  WayBack
  ArchivesKept
  SecretsKept
  SuccessIsReal
