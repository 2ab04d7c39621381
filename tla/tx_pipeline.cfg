\* One tab, two calls, one transaction from elsewhere, one fault.
CONSTANTS
  None = None
  t1 = t1  c1 = c1  c2 = c2
  Tabs = {t1}
  Calls = {c1, c2}
  MaxTx = 4
  MaxOthers = 1
  MaxFaults = 1
  MaxMutationRetries = 1
  UnluckyHashes = {1}
SPECIFICATION FairSpec
INVARIANTS AttemptLandsOnce HistoryTruthful NoSelfConflict
PROPERTIES NothingForgotten PendingSettles CallEnds
CHECK_DEADLOCK FALSE
