SPECIFICATION FairSpec
CONSTANTS
  Tasks = {t1}
  Workers = {w1, w2}
  Scans = {s1, s2}
  LeaseIds = {1, 2}
  MaxCrashes = 1
  None = None
INVARIANT OneCopy
PROPERTIES ImplementsAtLeastOnce EventuallyHandled
CHECK_DEADLOCK FALSE
