\* One working tab with three requests, and everything that may disturb it once.
SPECIFICATION FairSpec
CONSTANTS
  Tabs = {t1, t2}
  None = None
  Requests = {r1, r2, r3}
  MaxSignIns = 1
  MaxDisturbances = 1
INVARIANTS TypeOK OneLiveToken RetryIsNewer
PROPERTIES StaysSignedIn RefusedIsSettled
CHECK_DEADLOCK FALSE
