\* One call whose answer is lost.
CONSTANTS
  None = None
  t1 = t1  c1 = c1
  Tabs = {t1}
  Calls = {c1}
  MaxTx = 2
  MaxOthers = 1
  MaxFaults = 1
  MaxMutationRetries = 1
  UnluckyHashes = {1}
SPECIFICATION Spec
INVARIANTS CallLandsOnce
CHECK_DEADLOCK FALSE
