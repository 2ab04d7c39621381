\* Two bots of one tier listed, repriced, bought, cancelled, reclaimed and
\* compacted by two users, with the market paused and the minimum price raised
\* at any moment.
CONSTANTS
  u1 = u1  u2 = u2  u3 = u3  n1 = n1  n2 = n2  b1 = b1  b2 = b2
  common = common  rare = rare  amt = amt
  Users = {u1, u2}
  Market = Market
  None = None
  Keeper = u1
  Nfts <- OneNft
  Bots = {b1, b2}
  Currencies = {amt}
  Tiers = {common}
  TierOf <- OneTier
  MinterOf <- MintedByFirst
  InitOwner <- BotsApart
  InitBalance <- RichUsers
  InitAdmin = u1
  InitNft = n1
  InitFeeBps = 500
  RoyaltyBps = 500
  DefaultListingCap = 50
  MaxOffersPerBot = 25
  PageSize = 2
  Prices <- CheapAndDear
  Durations <- OneDay
  OfferTerms <- Never
  FeeChoices <- Never
  CapChoices <- Never
  MinPriceChoices = {40}
  PauseChoices <- OnlyPause
  Removable <- Never
  Nominees <- Never
  Withdrawals <- Never
  Payments <- Never
  BotRecipients <- Never
  Burnable <- Never
  MaxTime = 2
  MaxListings = 3
  MaxOffers = 0
SPECIFICATION FairSpec
INVARIANTS BotIndexSound CountersExact FloorExact PagesSound
PROPERTIES HistoryFrozen ListingsDrain
CHECK_DEADLOCK FALSE
