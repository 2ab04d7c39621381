\* Five listings over pages of two, read one at a time by a client whose
\* filter wants three of them and may examine two ids per call.
CONSTANTS
  PageSize = 2
  MaxListings = 5
  Limit = 1
  FilterScan = 2
  Wanted = {1, 4, 5}
SPECIFICATION ScanSpec
INVARIANTS SteadyListingsSeenOnce
PROPERTIES ScanEnds
CHECK_DEADLOCK FALSE
