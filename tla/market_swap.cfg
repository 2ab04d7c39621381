\* The whole interface on one bot, against the abstract specification, with the
\* fee changed between listing, bid and sale.
CONSTANTS
  u1 = u1  u2 = u2  u3 = u3  n1 = n1  n2 = n2  b1 = b1  b2 = b2
  common = common  rare = rare  amt = amt
  Users = {u1, u2, u3}
  Market = Market
  None = None
  Keeper = u1
  Nfts <- OneNft
  Bots = {b1}
  Currencies = {amt}
  Tiers = {common}
  TierOf <- OneTier
  MinterOf <- MintedByThird
  InitOwner <- AllOwnedByFirst
  InitBalance <- RichBuyer
  InitAdmin = u1
  InitNft = n1
  InitFeeBps = 500
  RoyaltyBps = 500
  DefaultListingCap = 50
  MaxOffersPerBot = 25
  PageSize = 2
  Prices = {40}
  Durations <- OneDay
  OfferTerms <- OneDay
  FeeChoices = {250}
  CapChoices <- Never
  MinPriceChoices <- Never
  PauseChoices <- Never
  Removable <- Never
  Nominees <- Never
  Withdrawals <- One
  Payments = {80}
  BotRecipients = {u3, Market}
  Burnable = {b1}
  MaxTime = 1
  MaxListings = 2
  MaxOffers = 1
SPECIFICATION Spec
PROPERTIES ImplementsAtomicSwap
CHECK_DEADLOCK FALSE
