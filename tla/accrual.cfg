\* One user whose bots, registration and record change in every order.
CONSTANTS
  Users = {u1}
  Hour = 2
  AmtScale = 10
  InitPointsPerAmt = 2
  MaxPointsPerCall = 4
  RateChoices = {0, 1, 3}
  PriceChoices = {0, 1, 2, 4}
  MaxTime = 4
SPECIFICATION FairSpec
INVARIANTS RegistryNeverAhead
PROPERTIES ImplementsPointMeter BacklogDrains
CHECK_DEADLOCK FALSE
