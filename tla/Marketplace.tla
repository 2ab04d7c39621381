----------------------------- MODULE Marketplace -----------------------------
(***************************************************************************)
(* The marketplace contract with the two contracts it settles through: the *)
(* bot NFT contract that says who owns a bot, and the token contracts that *)
(* hold the currencies.                                                    *)
(*                                                                         *)
(* Every action is one contract invocation.  The host runs invocations one *)
(* at a time and undoes every write of an invocation that returns an error *)
(* or panics, so a failing call is a stuttering step and a handler's       *)
(* guards are the conjuncts that do not mention primed variables.  The     *)
(* reentrancy lock is therefore clear between any two steps.               *)
(*                                                                         *)
(* Time is counted in days.  Listing and offer ids are positions in the    *)
(* sequences `listings` and `offers`; 0 is "no listing".                   *)
(***************************************************************************)
EXTENDS Pricing, ListingIndex, FiniteSets

CONSTANTS
  Users,            \* accounts that can sign
  Market,           \* the marketplace contract's own address
  None,             \* "no address": a burned bot's owner, no pending admin
  Nfts,             \* contracts that answer the bot_nft probe
  Bots,             \* bot ids
  Currencies,       \* token contracts
  Tiers,            \* bot tiers
  TierOf,           \* [Nfts -> [Bots -> Tiers]]
  MinterOf,         \* [Nfts -> [Bots -> Users]]
  InitOwner,        \* [Nfts -> [Bots -> Users]]
  InitBalance,      \* [Currencies -> [Users -> Nat]]
  InitAdmin, InitNft, InitFeeBps, RoyaltyBps,     \* initialize's arguments
  DefaultListingCap,   \* 50 in the contract
  MaxOffersPerBot      \* 25 in the contract

CONSTANTS            \* the arguments the callers choose from
  Prices, Durations, OfferTerms, FeeChoices, CapChoices, MinPriceChoices,
  PauseChoices, Removable, Nominees, Withdrawals, Payments, BotRecipients, Burnable

CONSTANTS            \* bounds on what grows without limit
  MaxTime, MaxListings, MaxOffers

Holders == Users \cup {Market}
ListingIds == 1 .. MaxListings
OfferIds == 1 .. MaxOffers
MinDuration == 1
MaxDuration == 90
MaxOfferDuration == 30

ASSUME UsersAssumption == Market \notin Users /\ None \notin Users \cup {Market}
ASSUME BotsAssumption ==
  /\ InitNft \in Nfts
  /\ TierOf \in [Nfts -> [Bots -> Tiers]]
  /\ MinterOf \in [Nfts -> [Bots -> Users]]
  /\ InitOwner \in [Nfts -> [Bots -> Users]]
ASSUME TiersAssumption == IsFiniteSet(Tiers)
ASSUME MoneyAssumption ==
  /\ InitBalance \in [Currencies -> [Users -> Nat]]
  /\ RoyaltyBps \in Nat /\ InitFeeBps \in Nat
  /\ InitFeeBps + RoyaltyBps <= BpsDenominator
ASSUME CallerAssumption ==
  /\ InitAdmin \in Users /\ Nominees \subseteq Users
  /\ BotRecipients \subseteq Holders /\ Burnable \subseteq Bots
  /\ PauseChoices \subseteq BOOLEAN /\ Removable \subseteq Currencies
  /\ Prices \subseteq Int /\ MinPriceChoices \subseteq Int
  /\ Withdrawals \subseteq Int /\ Payments \subseteq Nat
  /\ Durations \subseteq Nat /\ OfferTerms \subseteq Nat
  /\ FeeChoices \subseteq Nat /\ CapChoices \subseteq Nat
ASSUME BoundsAssumption ==
  /\ DefaultListingCap \in Nat /\ MaxOffersPerBot \in Nat
  /\ MaxTime \in Nat /\ MaxListings \in Nat /\ MaxOffers \in Nat

VARIABLES
  now,            \* ledger timestamp
  owner,          \* bot NFT contracts: who owns a bot
  balance,        \* token contracts: who holds how much
  config,         \* Config: admin, bot NFT contract, fee
  pendingAdmin,   \* PendingAdmin
  paused,         \* Paused
  listingCap,     \* ListingCap
  minPrice,       \* MinPrice(currency), 0 when the admin has set none
  allowed,        \* AllowedCurrencies
  listings,       \* Listing(id)
  botListing,     \* BotListing(bot)
  activeCount,    \* ActiveListingCount
  sellerActive,   \* UserActiveListingCount(seller)
  pages,          \* ListingPage(n)
  sellerLog,      \* UserListingPage(seller, n), its pages in one sequence
  floor,          \* TierStats(tier): floor_price, floor_listing_id
  sales,          \* TierStats(tier): volume, sale_count, last_sale_price
  purchases,      \* UserPurchasePage(buyer, n), its pages in one sequence
  offers,         \* Offer(id)
  botOffers,      \* BotOffers(bot)
  fees            \* Fees(currency)

adminVars   == <<config, pendingAdmin, paused, listingCap, minPrice, allowed>>
listingVars == <<listings, botListing, activeCount, sellerActive, floor>>
indexVars   == <<pages, sellerLog>>
saleVars    == <<sales, purchases>>
offerVars   == <<offers, botOffers>>
vars == <<now, owner, balance, adminVars, listingVars, indexVars, saleVars,
          offerVars, fees>>

-----------------------------------------------------------------------------
(* What the contract stores.                                                *)

Listing == [seller : Users, bot : Bots, tier : Tiers, price : Nat,
            currency : Currencies, active : BOOLEAN, expires : Nat]

Offer == [buyer : Users, bot : Bots, amount : Nat, currency : Currencies,
          expires : Nat, status : {"Active", "Accepted", "Cancelled"}]

(* listing is 0 for a purchase that settled an offer.                       *)
Purchase == [listing : Nat, bot : Bots, seller : Users, price : Nat,
             currency : Currencies]

-----------------------------------------------------------------------------
(* Reads.                                                                   *)

ActiveIds(ls) == {id \in DOMAIN ls : ls[id].active}

MinPriceFor(c) ==
  IF minPrice[c] # 0 THEN minPrice[c] ELSE DefaultMinPrice(config.fee)

BotOwner(b) == owner[config.nft][b]

(* The seller whose active listing escrows a bot the contract holds.        *)
HasActiveListing(b) == botListing[b] # 0 /\ listings[botListing[b]].active

EffectiveOwner(b) ==
  IF BotOwner(b) = Market /\ HasActiveListing(b)
  THEN listings[botListing[b]].seller
  ELSE BotOwner(b)

(* The cheapest active listing of a tier among the indexed ids, the oldest  *)
(* of several; <<0, 0>> when the tier has none.                             *)
NoFloor == [price |-> 0, id |-> 0]

ScanFloor(ls, t) ==
  LET onSale == {id \in IndexedIds(pages) \cap ActiveIds(ls) : ls[id].tier = t}
      Beats(i, j) == \/ ls[i].price < ls[j].price
                     \/ ls[i].price = ls[j].price /\ i <= j
  IN  IF onSale = {} THEN NoFloor
      ELSE LET best == CHOOSE i \in onSale : \A j \in onSale : Beats(i, j)
           IN  [price |-> ls[best].price, id |-> best]

-----------------------------------------------------------------------------
(* Writes shared by several handlers.                                       *)

Pred(n) == IF n > 0 THEN n - 1 ELSE 0    \* saturating_sub(1)

Transfer(money, from, to, amount) ==
  LET debited == [money EXCEPT ![from] = @ - amount]
  IN  [debited EXCEPT ![to] = @ + amount]

(* A slip: the seller is paid the fee the platform also books.              *)
PayOutWithFee(money, seller, minter, split) ==
  Transfer(Transfer(money, Market, seller, split.payout + split.fee),
           Market, minter, split.royalty)

(* The contract pays a sale out of its own balance and keeps the fee.       *)
PayOut(money, seller, minter, split) ==
  Transfer(Transfer(money, Market, seller, split.payout),
           Market, minter, split.royalty)

SplitOf(price, b, seller) ==
  Split(price, config.fee, RoyaltyBps, MinterOf[config.nft][b] = seller)

MoveBot(b, to) == owner' = [owner EXCEPT ![config.nft][b] = to]

RecordSale(t, price) ==
  sales' = [sales EXCEPT ![t] = [volume |-> @.volume + price,
                                 count  |-> @.count + 1,
                                 last   |-> price]]

(* A slip: the history page is rewritten instead of extended.               *)
AddPurchaseOverwriting(buyer, purchase) ==
  purchases' = [purchases EXCEPT ![buyer] = <<purchase>>]

AddPurchase(buyer, purchase) ==
  purchases' = [purchases EXCEPT ![buyer] = Append(@, purchase)]

AccrueFee(c, fee) == fees' = [fees EXCEPT ![c] = @ + fee]

(* Slips in deactivate_listing the checks must notice: an exit that leaves   *)
(* the bot index behind, one that forgets the seller's count.               *)
DeactivateKeepingIndex(id) ==
  /\ listings' = [listings EXCEPT ![id].active = FALSE]
  /\ activeCount' = Pred(activeCount)
  /\ sellerActive' = [sellerActive EXCEPT ![listings[id].seller] = Pred(@)]
  /\ UNCHANGED <<botListing, floor>>

DeactivateKeepingCount(id) ==
  /\ listings' = [listings EXCEPT ![id].active = FALSE]
  /\ botListing' = [botListing EXCEPT ![listings[id].bot] = 0]
  /\ activeCount' = Pred(activeCount)
  /\ UNCHANGED <<sellerActive, floor>>

(* deactivate_listing with on_listing_removed and                           *)
(* decrement_user_active_listing_count: the only way a listing ends.        *)
Deactivate(id) ==
  LET l == listings[id]
      retired == [listings EXCEPT ![id].active = FALSE]
  IN  /\ listings' = retired
      /\ botListing' = [botListing EXCEPT ![l.bot] = 0]
      /\ activeCount' = Pred(activeCount)
      /\ sellerActive' = [sellerActive EXCEPT ![l.seller] = Pred(@)]
      /\ floor' = IF floor[l.tier].id = id
                  THEN [floor EXCEPT ![l.tier] = ScanFloor(retired, l.tier)]
                  ELSE floor

(* Slips in closing an offer: the record stays open, the index keeps it.    *)
CloseOfferInIndexOnly(o, status) ==
  /\ botOffers' = [botOffers EXCEPT ![offers[o].bot] = Without(@, {o})]
  /\ UNCHANGED offers

CloseOfferInRecordOnly(o, status) ==
  /\ offers' = [offers EXCEPT ![o].status = status]
  /\ UNCHANGED botOffers

CloseOffer(o, status) ==
  /\ offers' = [offers EXCEPT ![o].status = status]
  /\ botOffers' = [botOffers EXCEPT ![offers[o].bot] = Without(@, {o})]

(* A slip: a refund refused once its currency is delisted.                  *)
RefundIfAllowed(o) ==
  LET offer == offers[o] IN
  /\ offer.currency \in allowed
  /\ balance' = [balance EXCEPT ![offer.currency] =
                   Transfer(@, Market, offer.buyer, offer.amount)]
  /\ CloseOffer(o, "Cancelled")

(* refund_offer                                                             *)
Refund(o) ==
  LET offer == offers[o] IN
  /\ balance[offer.currency][Market] >= offer.amount
  /\ balance' = [balance EXCEPT ![offer.currency] =
                   Transfer(@, Market, offer.buyer, offer.amount)]
  /\ CloseOffer(o, "Cancelled")

-----------------------------------------------------------------------------
(* Listings.                                                                *)

ListBot(seller, b, price, c, days) ==
  LET id == Len(listings) + 1
      tier == TierOf[config.nft][b]
  IN
  /\ Len(listings) < MaxListings
  /\ ~paused
  /\ days \in MinDuration .. MaxDuration
  /\ price > 0
  /\ sellerActive[seller] < listingCap
  /\ c \in allowed
  /\ price >= MinPriceFor(c)
  /\ BotOwner(b) = seller
  /\ MoveBot(b, Market)
  /\ listings' = Append(listings,
       [seller |-> seller, bot |-> b, tier |-> tier, price |-> price,
        currency |-> c, active |-> TRUE, expires |-> now + days])
  /\ botListing' = [botListing EXCEPT ![b] = id]
  /\ pages' = AppendListingId(pages, id)
  /\ activeCount' = activeCount + 1
  /\ floor' = IF floor[tier].price = 0 \/ price < floor[tier].price
              THEN [floor EXCEPT ![tier] = [price |-> price, id |-> id]]
              ELSE floor
  /\ sellerLog' = [sellerLog EXCEPT ![seller] = Append(@, id)]
  /\ sellerActive' = [sellerActive EXCEPT ![seller] = @ + 1]
  /\ UNCHANGED <<now, balance, adminVars, saleVars, offerVars, fees>>

BuyBot(buyer, id) ==
  LET l == listings[id]
      c == l.currency
      split == SplitOf(l.price, l.bot, l.seller)
      minter == MinterOf[config.nft][l.bot]
  IN
  /\ ~paused
  /\ l.seller # buyer
  /\ l.active
  /\ now <= l.expires
  /\ c \in allowed
  /\ BotOwner(l.bot) = Market
  /\ MoveBot(l.bot, buyer)
  /\ balance[c][buyer] >= l.price
  /\ balance' = [balance EXCEPT ![c] =
       PayOut(Transfer(@, buyer, Market, l.price), l.seller, minter, split)]
  /\ AccrueFee(c, split.fee)
  /\ RecordSale(l.tier, l.price)
  /\ Deactivate(id)
  /\ AddPurchase(buyer, [listing |-> id, bot |-> l.bot, seller |-> l.seller,
                         price |-> l.price, currency |-> c])
  /\ UNCHANGED <<now, adminVars, indexVars, offerVars>>

(* Works while the marketplace is paused.                                   *)
CancelListing(seller, id) ==
  LET l == listings[id] IN
  /\ l.seller = seller
  /\ l.active
  /\ BotOwner(l.bot) = Market
  /\ MoveBot(l.bot, seller)
  /\ Deactivate(id)
  /\ UNCHANGED <<now, balance, adminVars, indexVars, saleVars, offerVars, fees>>

(* Slips in reclaim_expired: it opens in the last instant a buyer still     *)
(* has; it closes while the market is paused.                               *)
ReclaimAtExpiry(id) ==
  LET l == listings[id] IN
  /\ l.active
  /\ now >= l.expires
  /\ BotOwner(l.bot) = Market
  /\ MoveBot(l.bot, l.seller)
  /\ Deactivate(id)
  /\ UNCHANGED <<now, balance, adminVars, indexVars, saleVars, offerVars, fees>>

ReclaimUnlessPaused(id) ==
  LET l == listings[id] IN
  /\ ~paused
  /\ l.active
  /\ now > l.expires
  /\ BotOwner(l.bot) = Market
  /\ MoveBot(l.bot, l.seller)
  /\ Deactivate(id)
  /\ UNCHANGED <<now, balance, adminVars, indexVars, saleVars, offerVars, fees>>

(* Anybody may call it; it works while the marketplace is paused.           *)
ReclaimExpired(id) ==
  LET l == listings[id] IN
  /\ l.active
  /\ now > l.expires
  /\ BotOwner(l.bot) = Market
  /\ MoveBot(l.bot, l.seller)
  /\ Deactivate(id)
  /\ UNCHANGED <<now, balance, adminVars, indexVars, saleVars, offerVars, fees>>

(* Slips in update_price: an ended listing can be repriced; a raised floor  *)
(* is not rescanned.                                                        *)
UpdatePriceOfEnded(seller, id, price) ==
  /\ ~paused
  /\ listings[id].seller = seller
  /\ price >= MinPriceFor(listings[id].currency)
  /\ listings' = [listings EXCEPT ![id].price = price]
  /\ UNCHANGED <<now, owner, balance, adminVars, botListing, activeCount,
                 sellerActive, floor, indexVars, saleVars, offerVars, fees>>

UpdatePriceWithoutRescan(seller, id, price) ==
  LET l == listings[id]
      undercuts == price < floor[l.tier].price
  IN
  /\ ~paused
  /\ l.seller = seller
  /\ l.active
  /\ price >= MinPriceFor(l.currency)
  /\ listings' = [listings EXCEPT ![id].price = price]
  /\ floor' = [floor EXCEPT ![l.tier] =
                 IF undercuts THEN [price |-> price, id |-> id] ELSE @]
  /\ UNCHANGED <<now, owner, balance, adminVars, botListing, activeCount,
                 sellerActive, indexVars, saleVars, offerVars, fees>>

UpdatePrice(seller, id, price) ==
  LET l == listings[id]
      repriced == [listings EXCEPT ![id].price = price]
      holdsFloor == floor[l.tier].id = id
      undercuts == floor[l.tier].price = 0 \/ price < floor[l.tier].price
  IN
  /\ ~paused
  /\ l.seller = seller
  /\ l.active
  /\ price > 0
  /\ price >= MinPriceFor(l.currency)
  /\ listings' = repriced
  /\ floor' = [floor EXCEPT ![l.tier] =
                 IF undercuts THEN [price |-> price, id |-> id]
                 ELSE IF holdsFloor THEN ScanFloor(repriced, l.tier) ELSE @]
  /\ UNCHANGED <<now, owner, balance, adminVars, botListing, activeCount,
                 sellerActive, indexVars, saleVars, offerVars, fees>>

(* Anybody may call it.                                                     *)
CompactPage(n) ==
  LET kept == Compacted(pages[n], ActiveIds(listings)) IN
  /\ kept # pages[n]
  /\ pages' = [pages EXCEPT ![n] = kept]
  /\ UNCHANGED <<now, owner, balance, adminVars, listingVars, sellerLog,
                 saleVars, offerVars, fees>>

-----------------------------------------------------------------------------
(* Offers.                                                                  *)

MakeOffer(buyer, b, amount, c, days) ==
  LET o == Len(offers) + 1 IN
  /\ Len(offers) < MaxOffers
  /\ ~paused
  /\ amount > 0
  /\ c \in allowed
  /\ amount >= MinPriceFor(c)
  /\ days \in 1 .. MaxOfferDuration
  /\ BotOwner(b) # None
  /\ EffectiveOwner(b) # buyer
  /\ Len(botOffers[b]) < MaxOffersPerBot
  /\ balance[c][buyer] >= amount
  /\ balance' = [balance EXCEPT ![c] = Transfer(@, buyer, Market, amount)]
  /\ offers' = Append(offers,
       [buyer |-> buyer, bot |-> b, amount |-> amount, currency |-> c,
        expires |-> now + days, status |-> "Active"])
  /\ botOffers' = [botOffers EXCEPT ![b] = Append(@, o)]
  /\ UNCHANGED <<now, owner, adminVars, listingVars, indexVars, saleVars, fees>>

(* The seller holds the bot directly, or through an active listing, which   *)
(* ends with the sale.                                                      *)
AcceptOffer(seller, o) ==
  LET offer == offers[o]
      b == offer.bot
      c == offer.currency
      split == SplitOf(offer.amount, b, seller)
  IN
  /\ ~paused
  /\ offer.status = "Active"
  /\ now < offer.expires
  /\ offer.buyer # seller
  /\ c \in allowed
  /\ \/ /\ BotOwner(b) = seller
        /\ UNCHANGED listingVars
     \/ /\ BotOwner(b) = Market
        /\ HasActiveListing(b)
        /\ listings[botListing[b]].seller = seller
        /\ Deactivate(botListing[b])
  /\ MoveBot(b, offer.buyer)
  /\ balance[c][Market] >= split.payout + split.royalty
  /\ balance' = [balance EXCEPT ![c] =
       PayOut(@, seller, MinterOf[config.nft][b], split)]
  /\ AccrueFee(c, split.fee)
  /\ CloseOffer(o, "Accepted")
  /\ RecordSale(TierOf[config.nft][b], offer.amount)
  /\ AddPurchase(offer.buyer, [listing |-> 0, bot |-> b, seller |-> seller,
                               price |-> offer.amount, currency |-> c])
  /\ UNCHANGED <<now, adminVars, indexVars>>

(* Before expiry only the buyer may; from expires on anybody.  Works while  *)
(* the marketplace is paused.                                               *)
CancelOffer(caller, o) ==
  LET offer == offers[o] IN
  /\ offer.status = "Active"
  /\ now >= offer.expires \/ caller = offer.buyer
  /\ Refund(o)
  /\ UNCHANGED <<now, owner, adminVars, listingVars, indexVars, saleVars, fees>>

DismissOffer(caller, o) ==
  LET offer == offers[o] IN
  /\ offer.status = "Active"
  /\ caller = config.admin \/ EffectiveOwner(offer.bot) = caller
  /\ Refund(o)
  /\ UNCHANGED <<now, owner, adminVars, listingVars, indexVars, saleVars, fees>>

-----------------------------------------------------------------------------
(* The admin.  Each takes the admin's signature; admin is a state variable, *)
(* so the caller is not a parameter.                                        *)

WithdrawFees(c, to, amount) ==
  /\ amount > 0
  /\ amount <= fees[c]
  /\ balance[c][Market] >= amount
  /\ balance' = [balance EXCEPT ![c] = Transfer(@, Market, to, amount)]
  /\ fees' = [fees EXCEPT ![c] = @ - amount]
  /\ UNCHANGED <<now, owner, adminVars, listingVars, indexVars, saleVars, offerVars>>

marketVars == <<now, owner, balance, listingVars, indexVars, saleVars, offerVars,
                fees>>

(* A slip: the NFT contract is not checked against the active listings      *)
(* (#912).                                                                 *)
SetBotNftUnchecked(nft) ==
  /\ config' = [config EXCEPT !.nft = nft]
  /\ UNCHANGED <<marketVars, pendingAdmin, paused, listingCap, minPrice, allowed>>

SetFeeBps(bps) ==
  /\ bps + RoyaltyBps <= BpsDenominator
  /\ config' = [config EXCEPT !.fee = bps]
  /\ UNCHANGED <<marketVars, pendingAdmin, paused, listingCap, minPrice, allowed>>

SetBotNft(nft) ==
  /\ activeCount = 0
  /\ config' = [config EXCEPT !.nft = nft]
  /\ UNCHANGED <<marketVars, pendingAdmin, paused, listingCap, minPrice, allowed>>

ProposeAdmin(nominee) ==
  /\ pendingAdmin' = nominee
  /\ UNCHANGED <<marketVars, config, paused, listingCap, minPrice, allowed>>

(* Signed by the nominee.                                                   *)
AcceptAdmin ==
  /\ pendingAdmin # None
  /\ config' = [config EXCEPT !.admin = pendingAdmin]
  /\ pendingAdmin' = None
  /\ UNCHANGED <<marketVars, paused, listingCap, minPrice, allowed>>

SetPaused(flag) ==
  /\ paused' = flag
  /\ UNCHANGED <<marketVars, config, pendingAdmin, listingCap, minPrice, allowed>>

SetListingCap(cap) ==
  /\ listingCap' = cap
  /\ UNCHANGED <<marketVars, config, pendingAdmin, paused, minPrice, allowed>>

SetMinPrice(c, price) ==
  /\ price > 0
  /\ minPrice' = [minPrice EXCEPT ![c] = price]
  /\ UNCHANGED <<marketVars, config, pendingAdmin, paused, listingCap, allowed>>

AddAllowedCurrency(c) ==
  /\ allowed' = allowed \cup {c}
  /\ UNCHANGED <<marketVars, config, pendingAdmin, paused, listingCap, minPrice>>

RemoveAllowedCurrency(c) ==
  /\ allowed' = allowed \ {c}
  /\ UNCHANGED <<marketVars, config, pendingAdmin, paused, listingCap, minPrice>>

-----------------------------------------------------------------------------
(* What happens around the contract.                                        *)

Tick ==
  /\ now < MaxTime
  /\ now' = now + 1
  /\ UNCHANGED <<owner, balance, adminVars, listingVars, indexVars, saleVars,
                 offerVars, fees>>

(* An owner moves a bot outside the marketplace.  The NFT contract reports  *)
(* the move with on_bot_moved unless the bot goes to the marketplace; only  *)
(* the configured NFT contract is heard.                                    *)
TransferBot(nft, b, to) ==
  LET reported == nft = config.nft /\ to # Market IN
  /\ owner[nft][b] \in Users \ {to}
  /\ owner' = [owner EXCEPT ![nft][b] = to]
  /\ IF reported /\ HasActiveListing(b)
     THEN Deactivate(botListing[b])
     ELSE UNCHANGED listingVars
  /\ UNCHANGED <<now, balance, adminVars, indexVars, saleVars, offerVars, fees>>

(* burn does not report.                                                    *)
BurnBot(nft, b) ==
  /\ owner[nft][b] \in Users
  /\ owner' = [owner EXCEPT ![nft][b] = None]
  /\ UNCHANGED <<now, balance, adminVars, listingVars, indexVars, saleVars,
                 offerVars, fees>>

Pay(c, from, to, amount) ==
  /\ balance[c][from] >= amount
  /\ balance' = [balance EXCEPT ![c] = Transfer(@, from, to, amount)]
  /\ UNCHANGED <<now, owner, adminVars, listingVars, indexVars, saleVars,
                 offerVars, fees>>

-----------------------------------------------------------------------------

Init ==
  /\ now = 0
  /\ owner = InitOwner
  /\ balance = [c \in Currencies |->
                 [h \in Holders |-> IF h = Market THEN 0 ELSE InitBalance[c][h]]]
  /\ config = [admin |-> InitAdmin, nft |-> InitNft, fee |-> InitFeeBps]
  /\ pendingAdmin = None
  /\ paused = FALSE
  /\ listingCap = DefaultListingCap
  /\ minPrice = [c \in Currencies |-> 0]
  /\ allowed = {}
  /\ listings = << >>
  /\ botListing = [b \in Bots |-> 0]
  /\ activeCount = 0
  /\ sellerActive = [u \in Users |-> 0]
  /\ pages = << >>
  /\ sellerLog = [u \in Users |-> << >>]
  /\ floor = [t \in Tiers |-> NoFloor]
  /\ sales = [t \in Tiers |-> [volume |-> 0, count |-> 0, last |-> 0]]
  /\ purchases = [u \in Users |-> << >>]
  /\ offers = << >>
  /\ botOffers = [b \in Bots |-> << >>]
  /\ fees = [c \in Currencies |-> 0]

ListingStep ==
  \/ \E s \in Users, b \in Bots, p \in Prices, c \in Currencies, d \in Durations :
       ListBot(s, b, p, c, d)
  \/ \E u \in Users, id \in DOMAIN listings : BuyBot(u, id)
  \/ \E s \in Users, id \in DOMAIN listings : CancelListing(s, id)
  \/ \E id \in DOMAIN listings : ReclaimExpired(id)
  \/ \E s \in Users, id \in DOMAIN listings, p \in Prices : UpdatePrice(s, id, p)
  \/ \E n \in DOMAIN pages : CompactPage(n)

OfferStep ==
  \/ \E u \in Users, b \in Bots, p \in Prices, c \in Currencies, d \in OfferTerms :
       MakeOffer(u, b, p, c, d)
  \/ \E s \in Users, o \in DOMAIN offers : AcceptOffer(s, o)
  \/ \E u \in Users, o \in DOMAIN offers : CancelOffer(u, o)
  \/ \E u \in Users, o \in DOMAIN offers : DismissOffer(u, o)

AdminStep ==
  \/ \E c \in Currencies, to \in Users, a \in Withdrawals : WithdrawFees(c, to, a)
  \/ \E bps \in FeeChoices : SetFeeBps(bps)
  \/ \E nft \in Nfts : SetBotNft(nft)
  \/ \E u \in Nominees : ProposeAdmin(u)
  \/ AcceptAdmin
  \/ \E flag \in PauseChoices : SetPaused(flag)
  \/ \E cap \in CapChoices : SetListingCap(cap)
  \/ \E c \in Currencies, p \in MinPriceChoices : SetMinPrice(c, p)
  \/ \E c \in Currencies : AddAllowedCurrency(c)
  \/ \E c \in Removable : RemoveAllowedCurrency(c)

OutsideStep ==
  \/ Tick
  \/ \E nft \in Nfts, b \in Bots, to \in BotRecipients : TransferBot(nft, b, to)
  \/ \E nft \in Nfts, b \in Burnable : BurnBot(nft, b)
  \/ \E c \in Currencies, u \in Users, h \in Holders, a \in Payments : Pay(c, u, h, a)

Next == ListingStep \/ OfferStep \/ AdminStep \/ OutsideStep

Spec == Init /\ [][Next]_vars

=============================================================================
