\* Two accounts, two overlapping polls, and two changes of any kind in the extension.
CONSTANTS
  None = None
  a1 = a1 a2 = a2 k1 = k1 k2 = k2
  Accounts = {a1, a2}
  Checks = {k1, k2}
  MaxChanges = 2
SPECIFICATION FairSpec
INVARIANTS MarkerMatches
PROPERTIES FollowsFreighter
