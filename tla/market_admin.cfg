\* Two NFT contracts to rotate between, two fees, a cap of one listing, an admin
\* handover, a pause, a delisted currency and bots moved outside the market, while
\* listings and bids run past their expiry.
CONSTANTS
  u1 = u1  u2 = u2  u3 = u3  n1 = n1  n2 = n2  b1 = b1  b2 = b2
  common = common  rare = rare  amt = amt
  Users = {u1, u2}
  Market = Market
  None = None
  Keeper = u1
  Nfts <- TwoNfts
  Bots = {b1}
  Currencies = {amt}
  Tiers = {common}
  TierOf <- OneTier
  MinterOf <- MintedByFirst
  InitOwner <- AllOwnedByFirst
  InitBalance <- RichUsers
  InitAdmin = u1
  InitNft = n1
  InitFeeBps = 250
  RoyaltyBps = 500
  DefaultListingCap = 50
  MaxOffersPerBot = 25
  PageSize = 2
  Prices = {40}
  Durations <- OneDay
  OfferTerms <- OneDay
  FeeChoices <- FeesTooHigh
  CapChoices = {1}
  MinPriceChoices <- Never
  PauseChoices <- OnlyPause
  Removable = {amt}
  Nominees = {u2}
  Withdrawals <- Never
  Payments <- Never
  BotRecipients = {u2}
  Burnable <- Never
  MaxTime = 2
  MaxListings = 2
  MaxOffers = 1
SPECIFICATION Spec
INVARIANTS Backed NoStrandedBot ExitsOpenInTurn
CHECK_DEADLOCK FALSE
