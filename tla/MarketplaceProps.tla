--------------------------- MODULE MarketplaceProps ---------------------------
(***************************************************************************)
(* What the marketplace contract must keep true.  The invariants are       *)
(* conjuncts a proof can be built from; sums over data are kept apart.     *)
(***************************************************************************)
EXTENDS Marketplace, Functions

ActiveOffers == {o \in DOMAIN offers : offers[o].status = "Active"}

(* Every variable has the shape the contract stores; the two indexes that   *)
(* are rewritten by filtering have theirs in PagesSound and OfferIndexExact.*)
TypeOK ==
  /\ now \in Nat
  /\ owner \in [Nfts -> [Bots -> Holders \cup {None}]]
  /\ balance \in [Currencies -> [Holders -> Nat]]
  /\ config \in [admin : Users, nft : Nfts, fee : Nat]
  /\ config.fee + RoyaltyBps <= BpsDenominator
  /\ pendingAdmin \in Users \cup {None}
  /\ paused \in BOOLEAN
  /\ listingCap \in Nat
  /\ minPrice \in [Currencies -> Nat]
  /\ allowed \subseteq Currencies
  /\ listings \in Seq(Listing)
  /\ botListing \in [Bots -> Nat]
  /\ activeCount \in Nat
  /\ sellerActive \in [Users -> Nat]
  /\ sellerLog \in [Users -> Seq(Nat)]
  /\ floor \in [Tiers -> [price : Nat, id : Nat]]
  /\ sales \in [Tiers -> [volume : Nat, count : Nat, last : Nat]]
  /\ purchases \in [Users -> Seq(Purchase)]
  /\ offers \in Seq(Offer)
  /\ fees \in [Currencies -> Nat]

-----------------------------------------------------------------------------
(* Custody.                                                                 *)

(* Every active listing is backed: the contract owns its bot in the NFT     *)
(* contract it currently settles through, and the bot index points back at  *)
(* the listing, so a bot has at most one (list_bot, buy_bot, set_bot_nft).  *)
Backed ==
  \A id \in ActiveIds(listings) :
    /\ BotOwner(listings[id].bot) = Market
    /\ botListing[listings[id].bot] = id

(* The bot index holds nothing but active listings of that bot, so neither  *)
(* effective_owner nor on_bot_moved can act on a listing that has ended.    *)
BotIndexSound ==
  \A b \in Bots : botListing[b] # 0 =>
    /\ botListing[b] \in ActiveIds(listings)
    /\ listings[botListing[b]].bot = b

(* Unless an owner sends one there outside a listing, the contract holds no *)
(* bot that no listing can give back, in this NFT contract or an earlier.   *)
NoStrandedBot ==
  Market \notin BotRecipients =>
    \A nft \in Nfts, b \in Bots : owner[nft][b] = Market =>
      nft = config.nft /\ botListing[b] # 0

(* The counters that gate set_bot_nft and list_bot count the listings that  *)
(* are active, whichever of the five exits ended the others.                *)
CountersExact ==
  /\ activeCount = Cardinality(ActiveIds(listings))
  /\ \A u \in Users : sellerActive[u] =
       Cardinality({id \in ActiveIds(listings) : listings[id].seller = u})

(* A seller can take the bot of an active listing back in every state: a    *)
(* pause, a delisted currency or a changed admin never locks it in.         *)
SellerCanExit ==
  \A id \in ActiveIds(listings) : ENABLED CancelListing(listings[id].seller, id)

(* A bidder can always take an open bid back, and once the bid has expired  *)
(* anybody can send it back, whatever the admin did in between.             *)
BidderCanExit ==
  \A o \in ActiveOffers : \A u \in Users :
    (u = offers[o].buyer \/ now >= offers[o].expires) => ENABLED CancelOffer(u, o)

(* At no instant can a listing be both bought and reclaimed, nor a bid both *)
(* accepted and sent back by a stranger: the handlers agree on the last     *)
(* instant, which is inclusive for a listing and exclusive for an offer.    *)
ExpiryIsOneSided ==
  /\ \A id \in ActiveIds(listings) :
       ~(ENABLED ReclaimExpired(id) /\ \E u \in Users : ENABLED BuyBot(u, id))
  /\ \A o \in ActiveOffers :
       ~(/\ \E u \in Users \ {offers[o].buyer} : ENABLED CancelOffer(u, o)
         /\ \E s \in Users : ENABLED AcceptOffer(s, o))

(* All three: a way out is always open to its owner, opens to everybody in  *)
(* turn, and is never open to a stranger while the other party can settle.  *)
ExitsOpenInTurn == SellerCanExit /\ BidderCanExit /\ ExpiryIsOneSided

-----------------------------------------------------------------------------
(* Money.                                                                   *)

Amounts == [o \in DOMAIN offers |-> offers[o].amount]

BidsIn(c) == {o \in ActiveOffers : offers[o].currency = c}

Escrowed(c) == SumFunctionOnSet(Amounts, BidsIn(c))

(* The contract holds enough of each currency to refund every open bid and  *)
(* to pay out every accrued fee at the same time.                           *)
Solvent ==
  \A c \in Currencies : balance[c][Market] >= fees[c] + Escrowed(c)

(* The published statistics agree with the buyers' histories, over both     *)
(* ways to sell: as many sales, for as much.                                *)
Bought == UNION {{u} \X DOMAIN purchases[u] : u \in Users}

SalesMatchPurchases ==
  /\ SumFunction([t \in Tiers |-> sales[t].count]) = Cardinality(Bought)
  /\ SumFunction([t \in Tiers |-> sales[t].volume])
       = SumFunction([p \in Bought |-> purchases[p[1]][p[2]].price])

(* Both: what is owed can be paid, and what is published is what was paid.  *)
BooksBalance == Solvent /\ SalesMatchPurchases

-----------------------------------------------------------------------------
(* Indexes.                                                                 *)

(* A bot's open-offer index is exactly its active offers, oldest first, and *)
(* never longer than the limit.                                             *)
OfferIndexExact ==
  /\ botOffers \in [Bots -> Seq(OfferIds)]
  /\ \A b \in Bots :
    /\ IdsOf(botOffers[b]) = {o \in ActiveOffers : offers[o].bot = b}
    /\ Ascending(botOffers[b])
    /\ Len(botOffers[b]) <= MaxOffersPerBot

(* The id index lists every active listing, in ascending order within and   *)
(* across pages, whatever was compacted: what ids_after relies on.          *)
PagesSound ==
  /\ pages \in Seq(Seq(ListingIds))
  /\ ActiveIds(listings) \subseteq IndexedIds(pages)
  /\ \A n \in DOMAIN pages : Ascending(pages[n]) /\ Len(pages[n]) <= PageSize
  /\ \A m, n \in DOMAIN pages : m < n =>
       \A i \in IdsOf(pages[m]), j \in IdsOf(pages[n]) : i < j

(* The floor kept up to date one change at a time is what a full rescan of  *)
(* the active listings would find, and names a listing that has that price. *)
FloorExact ==
  \A t \in Tiers :
    LET onSale == {id \in ActiveIds(listings) : listings[id].tier = t} IN
    IF onSale = {} THEN floor[t] = NoFloor
    ELSE /\ floor[t].id \in onSale
         /\ floor[t].price = listings[floor[t].id].price
         /\ \A id \in onSale : floor[t].price <= listings[id].price

-----------------------------------------------------------------------------
(* What a step may never do.                                                *)

(* A listing or an offer that has ended is history: nothing changes it or   *)
(* brings it back, and no record is ever dropped.                           *)
PastKept ==
  /\ Len(listings') >= Len(listings) /\ Len(offers') >= Len(offers)
  /\ \A id \in DOMAIN listings : ~listings[id].active => listings'[id] = listings[id]
  /\ \A o \in DOMAIN offers : offers[o].status # "Active" => offers'[o] = offers[o]

HistoryFrozen == [][PastKept]_vars

-----------------------------------------------------------------------------
(* Liveness.  Ledger time passes, and one third party that is neither the   *)
(* seller nor the bidder keeps calling the two permissionless clean-ups.    *)
(* Nothing is assumed of sellers, bidders or the admin.                     *)

CONSTANT Keeper

ASSUME KeeperAssumption == Keeper \in Users

KeeperReclaims(id) == id \in DOMAIN listings /\ ReclaimExpired(id)
KeeperRefunds(o) == o \in DOMAIN offers /\ CancelOffer(Keeper, o)

FairSpec ==
  /\ Spec
  /\ WF_vars(Tick)
  /\ \A id \in ListingIds : WF_vars(KeeperReclaims(id))
  /\ \A o \in OfferIds : WF_vars(KeeperRefunds(o))

(* Escrow never depends on its owner coming back: a listing that expires    *)
(* within the modelled time leaves the market and its bot leaves escrow,    *)
(* also while the market is paused.                                         *)
ListingsDrain ==
  \A id \in ListingIds :
    (id \in ActiveIds(listings) /\ listings[id].expires < MaxTime)
      ~> (id \notin ActiveIds(listings))

(* Nor does a bid: an offer that expires within the modelled time is        *)
(* refunded.  Offers are finitely many here and end once, so this says that *)
(* from some moment on no such offer is open.                               *)
BidsDrain ==
  <>[](\A o \in ActiveOffers : offers[o].expires > MaxTime)

-----------------------------------------------------------------------------
(* The promise.  A user's wealth counts the bids that can still be taken    *)
(* back; the treasury is whatever else the contract holds.                  *)

Held(nft, b) ==
  IF nft = config.nft THEN EffectiveOwner(b) ELSE owner[nft][b]

RoyaltyOf(price) == BpsOf(price, RoyaltyBps)

BidsOf(c, u) == {o \in BidsIn(c) : offers[o].buyer = u}

OpenBids(c, u) == SumFunctionOnSet(Amounts, BidsOf(c, u))

Promise == INSTANCE AtomicSwap WITH
  RoyaltyOf <- RoyaltyOf,
  FeeAt <- BpsOf,
  holder <- [nft \in Nfts |-> [b \in Bots |-> Held(nft, b)]],
  wealth <- [c \in Currencies |-> [u \in Users |-> balance[c][u] + OpenBids(c, u)]],
  treasury <- [c \in Currencies |-> balance[c][Market] - Escrowed(c)],
  entrusted <- [nft \in Nfts |-> [b \in Bots |-> owner[nft][b] = Market]],
  pledged <- [c \in Currencies |-> [u \in Users |-> OpenBids(c, u)]],
  feeBps <- config.fee

(* Whatever handlers run in whatever order, users see nothing but atomic    *)
(* swaps of a bot against its price, gifts and payments.                    *)
ImplementsAtomicSwap == Promise!Spec

=============================================================================
