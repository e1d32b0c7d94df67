\* One user, the ticker and one POST /collect, two days of two hours, and
\* every fault once: Xray restarts, the agent crashes, a statement fails.
SPECIFICATION FairSpec
CONSTANTS
  alice = alice
  Emails <- OneEmail
  Ticker = ticker
  Requests = {post}
  HoursPerDay = 2
  LastHour = 2
  MaxBytes = 2
  MaxRestarts = 1
  MaxCrashes = 1
  MaxErrors = 1
INVARIANTS
  TypeOK
  NoOverBilling
  NothingLostButByRestart
  WindowsAgree
PROPERTIES
  LedgerSpec
  EverythingBilled
