\* A listing that is sold or ends with an accepted offer, three events in four ledgers
\* of which the node keeps two, one fault.  The other three ends (cancel, reclaimed,
\* deactive) take the branch of sold; the theorem about ghost listings has them all.
CONSTANTS
  None = None
  cash = cash
  Listings = {1}
  Currencies = {cash}
  Prices = {1, 2}
  Kinds = {"listed", "price_upd", "sold", "offer_acc", "mint"}
  MaxLedger = 4
  MaxEvents = 3
  MaxFaults = 1
  PageLimit = 1
  Retention = 2
  DefaultStart = 0
SPECIFICATION FairSpec
INVARIANTS NoGap DerivedExact DailyAddsUp NoGhostListing
PROPERTIES ImplementsEventLog EverythingIndexed
CHECK_DEADLOCK FALSE
