\* Bids on one bot by two bidders while its owner lists, sells and moves it;
\* with fees withdrawn and the currency delisted at any moment.
CONSTANTS
  u1 = u1  u2 = u2  u3 = u3  n1 = n1  n2 = n2  b1 = b1  b2 = b2
  common = common  rare = rare  amt = amt
  Users = {u1, u2, u3}
  Market = Market
  None = None
  Keeper = u3
  Nfts <- OneNft
  Bots = {b1}
  Currencies = {amt}
  Tiers = {common}
  TierOf <- OneTier
  MinterOf <- MintedByThird
  InitOwner <- AllOwnedByFirst
  InitBalance <- RichUsers
  InitAdmin = u1
  InitNft = n1
  InitFeeBps = 500
  RoyaltyBps = 500
  DefaultListingCap = 50
  MaxOffersPerBot = 2
  PageSize = 2
  Prices <- Cheap
  Durations <- OneDay
  OfferTerms <- OneDay
  FeeChoices <- Never
  CapChoices <- Never
  MinPriceChoices <- Never
  PauseChoices <- Never
  Removable = {amt}
  Nominees <- Never
  Withdrawals <- One
  Payments <- Never
  BotRecipients <- Never
  Burnable <- Never
  MaxTime = 1
  MaxListings = 1
  MaxOffers = 3
SPECIFICATION FairSpec
INVARIANTS BooksBalance OfferIndexExact
PROPERTIES BidsDrain
CHECK_DEADLOCK FALSE
