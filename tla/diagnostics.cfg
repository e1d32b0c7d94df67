\* One user, two networks of which one gets a bucket, sessions that hold one
\* event, and a statement that fails.
SPECIFICATION FairSpec
CONSTANTS
  Emails = {alice}
  Sources = {home, work}
  SourceBucketCap = 1
  DebugEventCap = 1
  Durations = {0, 3}
  DefaultDuration = 1
  SessionMax = 2
  Retention = 1
  LastTime = 3
  MaxEvents = 2
  MaxStarts = 2
  MaxErrors = 1
INVARIANTS
  TypeOK
  LimitsHold
PROPERTIES
  ExpiredIsCleaned
