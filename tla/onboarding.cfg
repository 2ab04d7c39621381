\* Two accounts, two submissions and two disturbances of any kind.
CONSTANTS
  None = None
  a1 = a1  a2 = a2
  Accounts = {a1, a2}
  InitAccount = a1
  MaxRuns = 2
  MaxDisturbances = 2
  MaxRetries = 1
SPECIFICATION FairSpec
INVARIANTS SuccessMeansOnboarded ResumesCleanly
PROPERTIES RunsEnd
CHECK_DEADLOCK FALSE
