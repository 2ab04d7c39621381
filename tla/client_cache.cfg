\* Two of everything; one endpoint of two may be down, and a page of
\* three reads then goes back to it: FailoverAfter is two.
CONSTANTS
  None = None
  Now = Now
  b1 = b1 b2 = b2
  Accounts = {1, 2}
  Home = 2
  Bots = {b1, b2}
  Reads <- MCReads
  Areas <- MCAreas
  BoardSize = 1
  MaxSeason = 2
  Endpoints = 2
  FailoverAfter = 2
SPECIFICATION FairSpec
INVARIANTS EditsSettle
PROPERTIES PagesCatchUp LeavesDeadEndpoint
