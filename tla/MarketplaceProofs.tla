------------------------- MODULE MarketplaceProofs --------------------------
(***************************************************************************)
(* What the marketplace contract keeps true for every set of users, bots,  *)
(* currencies and NFT contracts, every fee and every number of steps: the  *)
(* types, that every active listing is backed by a bot in escrow, that the *)
(* counters which gate set_bot_nft and list_bot are exact, that an ended   *)
(* listing or offer stays as it ended, and that the open-offer index, the  *)
(* paged id index and the floor prices always say what the records say.    *)
(*                                                                         *)
(* The first facts are inductive only together.  A sale or a reported move *)
(* follows the bot index into the listings, so no balance or counter goes  *)
(* negative only while that index is sound; set_bot_nft keeps listings     *)
(* backed because activeCount = 0 means no listing is active; the counter  *)
(* is exact because a listing ends only once; and what ends is found       *)
(* through the bot index.  The indexes and the floor are then proved on    *)
(* top of them: a rescan finds the floor because every active listing is   *)
(* indexed.                                                                *)
(*                                                                         *)
(* The second half is about the money: what the contract owes its bidders  *)
(* and the platform it can always pay, its published statistics are what   *)
(* was paid, and every handler is, for the users, one step of AtomicSwap   *)
(* or none at all.  A handler touches a few of the balances, bids and      *)
(* purchases; the sums over all of them are followed with the lemmas of    *)
(* DataLemmas: adding or removing one bid, and one purchase, changes a sum *)
(* by its amount.  The margin of what is held over what is owed is then    *)
(* never lowered, and the wealth of a user, the balance and the open bids, *)
(* moves only as an atomic swap, a gift or a payment would move it.        *)
(***************************************************************************)
EXTENDS MarketplaceProps, DataLemmas

-----------------------------------------------------------------------------
(* What the settlement arithmetic guarantees for every amount and fee.      *)

(* Division by the denominator, as the quotient and the remainder it is.    *)
LEMMA DivMod ==
  ASSUME NEW a \in Nat
  PROVE  /\ a \div BpsDenominator \in Nat
         /\ a % BpsDenominator \in Nat /\ a % BpsDenominator <= 9999
         /\ a = BpsDenominator * (a \div BpsDenominator) + (a % BpsDenominator)
BY DEF BpsDenominator

(* The facts about products are stated once, apart from the division.       *)
LEMMA ProductMonotone ==
  ASSUME NEW x \in Nat, NEW y \in Nat, NEW z \in Nat, y <= z
  PROVE  x * y \in Nat /\ x * y <= x * z
<1>1. PICK d \in Nat : z = y + d
  BY z - y \in Nat
<1>2. x * z = x * y + x * d
  BY <1>1
<1>3. x * y \in Nat /\ x * d \in Nat
  BY <1>1
<1>4. QED
  BY <1>2, <1>3

(* p stands for r * bps: its ten-thousandth never exceeds r.                *)
LEMMA PartBound ==
  ASSUME NEW p \in Nat, NEW r \in Nat, p <= r * 10000
  PROVE  p \div 10000 \in Nat /\ p \div 10000 <= r /\ 10000 * (p \div 10000) <= p
OBVIOUS

(* The same bounds on the quotient and the remainder of an amount.          *)
LEMMA PartsFit ==
  ASSUME NEW q \in Nat, NEW r \in Nat, NEW bps \in Nat, bps <= 10000
  PROVE  /\ q * bps \in Nat /\ r * bps \in Nat /\ (r * bps) \div 10000 \in Nat
         /\ q * bps <= q * 10000 /\ r * bps <= r * 10000
         /\ (r * bps) \div 10000 <= r
<1>1. q * bps \in Nat /\ q * bps <= q * 10000
  BY ProductMonotone
<1>2. r * bps \in Nat /\ r * bps <= r * 10000
  BY ProductMonotone
<1>3. (r * bps) \div 10000 \in Nat /\ (r * bps) \div 10000 <= r
  BY <1>2, PartBound
<1>4. QED
  BY <1>1, <1>2, <1>3

(* Neither product of bps_of exceeds the amount's own width, so splitting   *)
(* quotient from remainder is enough to make every i128 amount settle       *)
(* (#917): quotient * bps stays within the amount, remainder * bps below    *)
(* 10_000 squared, and the fee never exceeds the amount.                    *)
THEOREM BpsOfFits ==
  ASSUME NEW a \in Nat, NEW bps \in Nat, bps <= BpsDenominator
  PROVE  /\ (a \div BpsDenominator) * bps <= a
         /\ (a % BpsDenominator) * bps <= (BpsDenominator - 1) * BpsDenominator
         /\ BpsOf(a, bps) \in Nat /\ BpsOf(a, bps) <= a
<1>1. PICK q \in Nat, r \in Nat :
        /\ q = a \div BpsDenominator /\ r = a % BpsDenominator
        /\ r <= 9999 /\ a = 10000 * q + r
  BY DivMod DEF BpsDenominator
<1>2. bps <= 10000
  BY DEF BpsDenominator
<1>3. /\ q * bps \in Nat /\ r * bps \in Nat /\ (r * bps) \div 10000 \in Nat
      /\ q * bps <= q * 10000 /\ r * bps <= r * 10000 /\ (r * bps) \div 10000 <= r
  BY <1>2, PartsFit
<1>4. q * bps <= a /\ q * bps + ((r * bps) \div 10000) <= a
  BY <1>1, <1>3
<1>5. r * bps <= (10000 - 1) * 10000
  BY <1>1, <1>3
<1>6. BpsOf(a, bps) = q * bps + ((r * bps) \div 10000)
  BY <1>1 DEF BpsOf, BpsDenominator
<1>7. BpsOf(a, bps) \in Nat /\ BpsOf(a, bps) <= a
  BY <1>3, <1>4, <1>6
<1>8. QED
  BY <1>1, <1>4, <1>5, <1>7 DEF BpsDenominator

(* It is the exact fee: the same floor as one wide product and division.    *)
THEOREM BpsOfIsFloor ==
  ASSUME NEW a \in Nat, NEW bps \in Nat
  PROVE  BpsOf(a, bps) = (a * bps) \div BpsDenominator
<1>1. SUFFICES ASSUME NEW q \in Nat, NEW r \in Nat, r <= 9999, a = 10000 * q + r
               PROVE  q * bps + ((r * bps) \div 10000) = (a * bps) \div 10000
  BY DivMod DEF BpsOf, BpsDenominator
<1>2. a * bps = 10000 * (q * bps) + r * bps
  BY <1>1
<1>3. q * bps \in Nat /\ r * bps \in Nat
  BY ProductMonotone, bps <= bps
<1>4. ASSUME NEW m \in Nat, NEW n \in Nat
      PROVE  m + (n \div 10000) = (10000 * m + n) \div 10000
  OBVIOUS
<1>5. QED
  BY <1>2, <1>3, <1>4

(* Fee and royalty together never exceed the price, so checked_sub cannot   *)
(* fail and the payout is never negative, as long as the two rates add up   *)
(* to at most 10,000: what initialize and set_fee_bps enforce (#911).       *)
THEOREM FeeAndRoyaltyFit ==
  ASSUME NEW a \in Nat, NEW f \in Nat, NEW g \in Nat, f + g <= BpsDenominator
  PROVE  BpsOf(a, f) \in Nat /\ BpsOf(a, g) \in Nat /\ BpsOf(a, f) + BpsOf(a, g) <= a
<1>1. PICK q \in Nat, r \in Nat :
        /\ q = a \div BpsDenominator /\ r = a % BpsDenominator
        /\ r <= 9999 /\ a = 10000 * q + r
  BY DivMod DEF BpsDenominator
<1>2. /\ BpsOf(a, f) = q * f + ((r * f) \div 10000)
      /\ BpsOf(a, g) = q * g + ((r * g) \div 10000)
  BY <1>1 DEF BpsOf, BpsDenominator
<1>3. f + g \in Nat /\ f + g <= 10000
  BY DEF BpsDenominator
<1>4. q * (f + g) = q * f + q * g /\ r * (f + g) = r * f + r * g
  OBVIOUS
<1>5. q * (f + g) <= q * 10000 /\ r * (f + g) <= r * 10000
  BY <1>3, ProductMonotone
<1>6. q * f \in Nat /\ q * g \in Nat /\ r * f \in Nat /\ r * g \in Nat
  BY ProductMonotone, f <= f, g <= g
<1>7. ASSUME NEW m \in Nat, NEW n \in Nat, m + n <= r * 10000
      PROVE  /\ m \div 10000 \in Nat /\ n \div 10000 \in Nat
             /\ (m \div 10000) + (n \div 10000) <= r
  BY <1>7
<1>8. /\ (r * f) \div 10000 \in Nat /\ (r * g) \div 10000 \in Nat
      /\ ((r * f) \div 10000) + ((r * g) \div 10000) <= r
  BY <1>4, <1>5, <1>6, <1>7
<1>9. QED
  BY <1>1, <1>2, <1>4, <1>5, <1>6, <1>8

(* A sale distributes exactly its price, whoever minted the bot: no unit is *)
(* stranded in the contract and none is paid out of somebody else's escrow. *)
THEOREM SplitIsExact ==
  ASSUME NEW price \in Nat, NEW f \in Nat, NEW g \in Nat, f + g <= BpsDenominator,
         NEW waived \in BOOLEAN
  PROVE  LET s == Split(price, f, g, waived) IN
         /\ s.fee \in Nat /\ s.royalty \in Nat /\ s.payout \in Nat
         /\ s.fee + s.royalty + s.payout = price
<1> DEFINE fee == BpsOf(price, f)
           royalty == IF waived THEN 0 ELSE BpsOf(price, g)
<1>1. /\ BpsOf(price, f) \in Nat /\ BpsOf(price, g) \in Nat
      /\ BpsOf(price, f) + BpsOf(price, g) <= price
  BY FeeAndRoyaltyFit
<1>2. fee \in Nat /\ royalty \in Nat /\ fee + royalty <= price
  BY <1>1
<1>3. Split(price, f, g, waived)
        = [fee |-> fee, royalty |-> royalty, payout |-> price - fee - royalty]
  BY DEF Split
<1> HIDE DEF fee, royalty
<1>4. price - fee - royalty \in Nat /\ fee + royalty + (price - fee - royalty) = price
  BY <1>2
<1>5. QED
  BY <1>2, <1>3, <1>4

(* n over k, without its remainder, misses n by less than k.                *)
LEMMA DivBound ==
  ASSUME NEW n \in Nat, NEW k \in Nat, k > 0
  PROVE  n \div k \in Nat /\ n < (n \div k) * k + k
OBVIOUS

(* The default minimum price earns a fee: any amount at or above it pays at *)
(* least one unit (list_bot's "the default guarantees fee >= 1").           *)
THEOREM DefaultMinPriceEarnsFee ==
  ASSUME NEW bps \in Nat, bps > 0, NEW a \in Nat, a >= DefaultMinPrice(bps)
  PROVE  BpsOf(a, bps) >= 1
<1> DEFINE d == DefaultMinPrice(bps)
<1>1. 10000 + bps - 1 \in Nat /\ d = (10000 + bps - 1) \div bps
  BY DEF DefaultMinPrice, BpsDenominator
<1>2. d \in Nat /\ 10000 + bps - 1 < d * bps + bps
  BY <1>1, DivBound
<1> HIDE DEF d
<1>3. d * bps \in Nat /\ bps * d = d * bps /\ a * bps = bps * a
  BY <1>2
<1>4. bps * d <= bps * a /\ a >= d
  BY <1>2, ProductMonotone DEF d
<1>5. a * bps \in Nat /\ a * bps >= 10000
  BY <1>2, <1>3, <1>4
<1>6. ASSUME NEW p \in Nat, p >= 10000 PROVE p \div 10000 >= 1
  BY <1>6
<1>7. BpsOf(a, bps) = (a * bps) \div 10000
  BY BpsOfIsFloor DEF BpsDenominator
<1>8. QED
  BY <1>5, <1>6, <1>7

-----------------------------------------------------------------------------
(* Constants and data.                                                      *)

LEMMA Addresses ==
  /\ Market \in Holders /\ Users \subseteq Holders /\ Market \notin Users
  /\ None \notin Holders /\ None # Market
BY UsersAssumption DEF Holders

LEMMA ListingAt ==
  ASSUME NEW ls \in Seq(Listing), NEW i \in DOMAIN ls
  PROVE  /\ i \in 1 .. Len(ls) /\ i \in Nat /\ Len(ls) \in Nat
         /\ ls[i] \in Listing
         /\ ls[i].seller \in Users /\ ls[i].bot \in Bots /\ ls[i].tier \in Tiers
         /\ ls[i].price \in Nat /\ ls[i].currency \in Currencies
<1>1. Len(ls) \in Nat /\ DOMAIN ls = 1 .. Len(ls)
  BY LenProperties
<1>2. ls[i] \in Listing
  BY <1>1, ElementOfSeq
<1>3. QED
  BY <1>1, <1>2 DEF Listing

LEMMA OfferAt ==
  ASSUME NEW os \in Seq(Offer), NEW o \in DOMAIN os
  PROVE  /\ o \in 1 .. Len(os) /\ Len(os) \in Nat
         /\ os[o] \in Offer
         /\ os[o].buyer \in Users /\ os[o].bot \in Bots
         /\ os[o].amount \in Nat /\ os[o].currency \in Currencies
<1>1. Len(os) \in Nat /\ DOMAIN os = 1 .. Len(os)
  BY LenProperties
<1>2. os[o] \in Offer
  BY <1>1, ElementOfSeq
<1>3. QED
  BY <1>1, <1>2 DEF Offer

(* Some listing is the cheapest and, among the cheapest, the oldest, so     *)
(* scan_floor's answer is defined whenever the tier has a listing.          *)
LEMMA ScanFloorFinds ==
  ASSUME NEW ls \in Seq(Listing), NEW t,
         NEW onSale, onSale = {id \in IndexedIds(pages) \cap ActiveIds(ls) : ls[id].tier = t}
  PROVE  IF onSale = {} THEN ScanFloor(ls, t) = NoFloor
         ELSE \E found \in onSale :
                /\ ScanFloor(ls, t) = [price |-> ls[found].price, id |-> found]
                /\ \A j \in onSale : ls[found].price <= ls[j].price
<1> DEFINE Beats(i, j) == \/ ls[i].price < ls[j].price
                          \/ ls[i].price = ls[j].price /\ i <= j
<1>1. CASE onSale = {}
  BY <1>1 DEF ScanFloor, NoFloor
<1>2. CASE onSale # {}
  <2>1. \A i \in onSale : i \in Nat /\ ls[i].price \in Nat
    BY ListingAt DEF ActiveIds
  <2> DEFINE prices == {ls[i].price : i \in onSale}
  <2>2. PICK p \in prices : \A q \in prices : p <= q
    <3>1. prices \subseteq Nat /\ prices # {}
      BY <1>2, <2>1
    <3> HIDE DEF prices
    <3>2. QED
      BY <3>1, LeastNat
  <2> DEFINE cheapest == {i \in onSale : ls[i].price = p}
  <2>3. PICK best \in cheapest : \A j \in cheapest : best <= j
    BY <2>1, <2>2, LeastNat
  <2>4. ASSUME NEW j \in onSale PROVE Beats(best, j)
    <3>1. best \in onSale /\ ls[best].price = p /\ p <= ls[j].price
      BY <2>2, <2>3, <2>4
    <3>2. ls[j].price = p => best <= j
      BY <2>3, <2>4
    <3>3. p \in Nat /\ ls[j].price \in Nat
      BY <2>1, <2>4, <3>1
    <3>4. QED
      BY <3>1, <3>2, <3>3
  <2>5. \E i \in onSale : \A j \in onSale : Beats(i, j)
    BY <2>3, <2>4
  <2> DEFINE found == CHOOSE i \in onSale : \A j \in onSale : Beats(i, j)
  <2>6. found \in onSale /\ \A j \in onSale : Beats(found, j)
    BY <2>5
  <2>7. ScanFloor(ls, t) = [price |-> ls[found].price, id |-> found]
    BY <1>2 DEF ScanFloor
  <2> HIDE DEF found
  <2>8. \A j \in onSale : ls[found].price <= ls[j].price
    BY <2>1, <2>6
  <2>9. QED
    BY <1>2, <2>6, <2>7, <2>8
<1>3. QED
  BY <1>1, <1>2

LEMMA ScanFloorType ==
  ASSUME NEW ls \in Seq(Listing), NEW t
  PROVE  ScanFloor(ls, t) \in [price : Nat, id : Nat]
<1> DEFINE onSale == {id \in IndexedIds(pages) \cap ActiveIds(ls) : ls[id].tier = t}
<1>1. \A i \in onSale : i \in Nat /\ ls[i].price \in Nat
  BY ListingAt DEF ActiveIds
<1>2. CASE onSale = {}
  <2>1. ScanFloor(ls, t) = NoFloor
    BY <1>2, ScanFloorFinds
  <2>2. QED
    BY <2>1 DEF NoFloor
<1>3. CASE onSale # {}
  <2>1. PICK found \in onSale : ScanFloor(ls, t) = [price |-> ls[found].price, id |-> found]
    BY <1>3, ScanFloorFinds
  <2>2. QED
    BY <1>1, <2>1
<1>4. QED
  BY <1>2, <1>3

-----------------------------------------------------------------------------
(* Money.                                                                   *)

(* A covered transfer leaves no balance negative.                           *)
LEMMA TransferType ==
  ASSUME NEW money \in [Holders -> Nat], NEW from \in Holders, NEW to \in Holders,
         NEW amount \in Nat, money[from] >= amount
  PROVE  /\ Transfer(money, from, to, amount) \in [Holders -> Nat]
         /\ from # to => Transfer(money, from, to, amount)[to] = money[to] + amount
         /\ \A h \in Holders \ {from, to} : Transfer(money, from, to, amount)[h] = money[h]
         /\ from # to => Transfer(money, from, to, amount)[from] = money[from] - amount
BY DEF Transfer

(* A sale can be paid out of a balance that covers its two legs.            *)
LEMMA PayOutType ==
  ASSUME NEW money \in [Holders -> Nat], NEW seller \in Users, NEW minter \in Users,
         NEW split, split.payout \in Nat, split.royalty \in Nat,
         money[Market] >= split.payout + split.royalty
  PROVE  PayOut(money, seller, minter, split) \in [Holders -> Nat]
<1> DEFINE paid == Transfer(money, Market, seller, split.payout)
<1>1. money[Market] >= split.payout /\ money[Market] \in Nat
  BY Addresses
<1>2. paid \in [Holders -> Nat] /\ paid[Market] = money[Market] - split.payout
  BY <1>1, Addresses, TransferType
<1>3. paid[Market] >= split.royalty
  BY <1>1, <1>2
<1>4. Transfer(paid, Market, minter, split.royalty) \in [Holders -> Nat]
  BY <1>2, <1>3, Addresses, TransferType
<1>5. QED
  BY <1>4 DEF PayOut

LEMMA SplitOfType ==
  ASSUME TypeOK, NEW price \in Nat, NEW b, NEW seller
  PROVE  LET s == SplitOf(price, b, seller) IN
         /\ s.fee \in Nat /\ s.royalty \in Nat /\ s.payout \in Nat
         /\ s.fee + s.royalty + s.payout = price
<1>1. config.fee \in Nat /\ RoyaltyBps \in Nat /\ config.fee + RoyaltyBps <= BpsDenominator
  BY MoneyAssumption DEF TypeOK
<1>2. (MinterOf[config.nft][b] = seller) \in BOOLEAN
  OBVIOUS
<1>3. QED
  BY <1>1, <1>2, SplitIsExact, Zenon DEF SplitOf

LEMMA MinterType ==
  ASSUME TypeOK, NEW b \in Bots
  PROVE  MinterOf[config.nft][b] \in Users
BY BotsAssumption DEF TypeOK

-----------------------------------------------------------------------------
(* How a listing or an offer ends.                                          *)

LEMMA DeactivateType ==
  ASSUME TypeOK, NEW id \in DOMAIN listings, Deactivate(id)
  PROVE  /\ listings' \in Seq(Listing) /\ botListing' \in [Bots -> Nat]
         /\ activeCount' \in Nat /\ sellerActive' \in [Users -> Nat]
         /\ floor' \in [Tiers -> [price : Nat, id : Nat]]
<1> DEFINE retired == [listings EXCEPT ![id].active = FALSE]
           ended == [listings[id] EXCEPT !.active = FALSE]
<1>1. listings \in Seq(Listing) /\ listings[id] \in Listing /\ id \in 1 .. Len(listings)
  BY ListingAt DEF TypeOK
<1>2. ended \in Listing
  BY <1>1 DEF Listing
<1>3. retired = [listings EXCEPT ![id] = ended]
  OBVIOUS
<1>4. retired \in Seq(Listing)
  BY <1>1, <1>2, <1>3, ExceptSeq
<1>5. listings' \in Seq(Listing)
  BY <1>4 DEF Deactivate
<1>6. botListing' \in [Bots -> Nat]
  BY DEF Deactivate, TypeOK
<1>7. activeCount' \in Nat
  BY DEF Deactivate, TypeOK, Pred
<1>8. sellerActive' \in [Users -> Nat]
  <2>1. sellerActive[listings[id].seller] \in Nat => Pred(sellerActive[listings[id].seller]) \in Nat
    BY DEF Pred
  <2>2. sellerActive \in [Users -> Nat]
    BY DEF TypeOK
  <2>3. sellerActive' = [sellerActive EXCEPT ![listings[id].seller] = Pred(@)]
    BY DEF Deactivate
  <2>4. QED
    BY <2>1, <2>2, <2>3
<1>9. floor' \in [Tiers -> [price : Nat, id : Nat]]
  <2>1. ScanFloor(retired, listings[id].tier) \in [price : Nat, id : Nat]
    BY <1>4, ScanFloorType
  <2>2. QED
    BY <2>1 DEF Deactivate, TypeOK
<1>10. QED
  BY <1>5, <1>6, <1>7, <1>8, <1>9

LEMMA CloseOfferType ==
  ASSUME TypeOK, NEW o \in DOMAIN offers, NEW status \in {"Accepted", "Cancelled"},
         CloseOffer(o, status)
  PROVE  offers' \in Seq(Offer)
<1> DEFINE closed == [offers[o] EXCEPT !.status = status]
<1>1. offers \in Seq(Offer) /\ offers[o] \in Offer /\ o \in 1 .. Len(offers)
  BY OfferAt DEF TypeOK
<1>2. closed \in Offer
  BY <1>1 DEF Offer
<1>3. offers' = [offers EXCEPT ![o] = closed]
  BY DEF CloseOffer
<1>4. QED
  BY <1>1, <1>2, <1>3, ExceptSeq

LEMMA RefundType ==
  ASSUME TypeOK, NEW o \in DOMAIN offers, Refund(o)
  PROVE  offers' \in Seq(Offer) /\ balance' \in [Currencies -> [Holders -> Nat]]
<1> DEFINE c == offers[o].currency
           refunded == Transfer(balance[c], Market, offers[o].buyer, offers[o].amount)
<1>1. /\ offers[o].buyer \in Holders /\ offers[o].amount \in Nat
      /\ c \in Currencies /\ balance[c] \in [Holders -> Nat]
  BY OfferAt, Addresses DEF TypeOK
<1>2. balance[c][Market] >= offers[o].amount
  BY DEF Refund
<1>3. refunded \in [Holders -> Nat]
  BY <1>1, <1>2, Addresses, TransferType
<1>4. balance' = [balance EXCEPT ![c] = refunded]
  BY DEF Refund
<1>5. balance' \in [Currencies -> [Holders -> Nat]]
  BY <1>1, <1>3, <1>4 DEF TypeOK
<1>6. offers' \in Seq(Offer)
  BY CloseOfferType DEF Refund
<1>7. QED
  BY <1>5, <1>6

-----------------------------------------------------------------------------
(* Type correctness.                                                        *)

(* A sale is recorded without spoiling the statistics or the history.       *)
LEMMA SaleType ==
  ASSUME TypeOK, NEW t \in Tiers, NEW price \in Nat, NEW c \in Currencies,
         NEW fee \in Nat, NEW buyer \in Users, NEW purchase \in Purchase,
         RecordSale(t, price), AddPurchase(buyer, purchase), AccrueFee(c, fee)
  PROVE  /\ sales' \in [Tiers -> [volume : Nat, count : Nat, last : Nat]]
         /\ purchases' \in [Users -> Seq(Purchase)]
         /\ fees' \in [Currencies -> Nat]
<1>1. sales' \in [Tiers -> [volume : Nat, count : Nat, last : Nat]]
  <2>1. sales[t] \in [volume : Nat, count : Nat, last : Nat]
    BY DEF TypeOK
  <2>2. [volume |-> sales[t].volume + price, count |-> sales[t].count + 1,
         last |-> price] \in [volume : Nat, count : Nat, last : Nat]
    BY <2>1
  <2>3. QED
    BY <2>2 DEF TypeOK, RecordSale
<1>2. Append(purchases[buyer], purchase) \in Seq(Purchase)
  BY AppendProperties DEF TypeOK
<1>3. purchases' \in [Users -> Seq(Purchase)]
  BY <1>2 DEF TypeOK, AddPurchase
<1>4. fees' \in [Currencies -> Nat]
  <2>1. fees \in [Currencies -> Nat]
    BY DEF TypeOK
  <2>2. fees' = [fees EXCEPT ![c] = fees[c] + fee]
    BY DEF AccrueFee
  <2>3. QED
    BY <2>1, <2>2
<1>5. QED
  BY <1>1, <1>3, <1>4

LEMMA MoveBotType ==
  ASSUME TypeOK, NEW b, NEW to \in Holders, MoveBot(b, to)
  PROVE  owner' \in [Nfts -> [Bots -> Holders \cup {None}]]
BY DEF TypeOK, MoveBot

LEMMA TypeInit ==
  ASSUME Init
  PROVE  TypeOK
<1>2. owner \in [Nfts -> [Bots -> Holders \cup {None}]]
  <2>1. InitOwner \in [Nfts -> [Bots -> Users]] /\ owner = InitOwner
    BY BotsAssumption DEF Init
  <2>2. \A nft \in Nfts : owner[nft] \in [Bots -> Holders \cup {None}]
    BY <2>1, Addresses
  <2>3. QED
    BY <2>1, <2>2
<1>3. balance \in [Currencies -> [Holders -> Nat]]
  <2>1. \A c \in Currencies, h \in Holders : h # Market => InitBalance[c][h] \in Nat
    BY MoneyAssumption DEF Holders
  <2>2. balance = [c \in Currencies |->
                    [h \in Holders |-> IF h = Market THEN 0 ELSE InitBalance[c][h]]]
    BY DEF Init
  <2>3. QED
    BY <2>1, <2>2
<1>4. /\ config \in [admin : Users, nft : Nfts, fee : Nat]
      /\ config.fee + RoyaltyBps <= BpsDenominator
  <2>1. config = [admin |-> InitAdmin, nft |-> InitNft, fee |-> InitFeeBps]
    BY DEF Init
  <2>2. /\ InitAdmin \in Users /\ InitNft \in Nfts /\ InitFeeBps \in Nat
        /\ InitFeeBps + RoyaltyBps <= BpsDenominator
    BY BotsAssumption, MoneyAssumption, CallerAssumption
  <2>3. QED
    BY <2>1, <2>2
<1>5. /\ listings \in Seq(Listing) /\ offers \in Seq(Offer)
      /\ sellerLog \in [Users -> Seq(Nat)] /\ purchases \in [Users -> Seq(Purchase)]
  <2>1. /\ listings = << >> /\ offers = << >>
        /\ sellerLog = [u \in Users |-> << >>] /\ purchases = [u \in Users |-> << >>]
    BY DEF Init
  <2>2. << >> \in Seq(Nat) /\ << >> \in Seq(Purchase)
    BY EmptySeq
  <2>3. << >> \in Seq(Listing) /\ << >> \in Seq(Offer)
    BY EmptySeq
  <2>4. QED
    BY <2>1, <2>2, <2>3
<1>6. /\ floor \in [Tiers -> [price : Nat, id : Nat]]
      /\ sales \in [Tiers -> [volume : Nat, count : Nat, last : Nat]]
  <2>1. /\ floor = [t \in Tiers |-> [price |-> 0, id |-> 0]]
        /\ sales = [t \in Tiers |-> [volume |-> 0, count |-> 0, last |-> 0]]
    BY DEF Init, NoFloor
  <2>2. QED
    BY <2>1
<1>7. /\ now \in Nat /\ listingCap \in Nat /\ activeCount \in Nat
      /\ pendingAdmin \in Users \cup {None} /\ paused \in BOOLEAN
      /\ allowed \subseteq Currencies
  BY BoundsAssumption DEF Init
<1>8. /\ minPrice \in [Currencies -> Nat] /\ fees \in [Currencies -> Nat]
      /\ botListing \in [Bots -> Nat] /\ sellerActive \in [Users -> Nat]
  BY Zenon DEF Init
<1>9. QED
  BY <1>2, <1>3, <1>4, <1>5, <1>6, <1>7, <1>8 DEF TypeOK

LEMMA ListBotType ==
  ASSUME TypeOK, NEW s \in Users, NEW b \in Bots, NEW p \in Prices,
         NEW c \in Currencies, NEW d \in Durations, ListBot(s, b, p, c, d)
  PROVE  TypeOK'
<1> DEFINE id == Len(listings) + 1
           tier == TierOf[config.nft][b]
           new == [seller |-> s, bot |-> b, tier |-> tier, price |-> p,
                   currency |-> c, active |-> TRUE, expires |-> now + d]
<1>1. tier \in Tiers /\ p \in Nat /\ id \in Nat
  BY BotsAssumption, CallerAssumption, LenProperties DEF TypeOK, ListBot
<1>2. new \in Listing
  BY <1>1, CallerAssumption DEF TypeOK, Listing
<1>3. listings' \in Seq(Listing)
  BY <1>2, AppendProperties DEF TypeOK, ListBot
<1>4. owner' \in [Nfts -> [Bots -> Holders \cup {None}]]
  BY Addresses, MoveBotType DEF ListBot
<1>5. /\ botListing' \in [Bots -> Nat] /\ activeCount' \in Nat
      /\ sellerActive' \in [Users -> Nat]
      /\ floor' \in [Tiers -> [price : Nat, id : Nat]]
  <2>1. botListing' = [botListing EXCEPT ![b] = id] /\ activeCount' = activeCount + 1
    BY DEF ListBot
  <2>2. sellerActive' \in [Users -> Nat]
    <3>1. sellerActive \in [Users -> Nat]
      BY DEF TypeOK
    <3>2. sellerActive' = [sellerActive EXCEPT ![s] = sellerActive[s] + 1]
      BY DEF ListBot
    <3>3. QED
      BY <3>1, <3>2
  <2>3. /\ floor' = floor \/ floor' = [floor EXCEPT ![tier] = [price |-> p, id |-> id]]
        /\ [price |-> p, id |-> id] \in [price : Nat, id : Nat]
    BY <1>1 DEF ListBot
  <2>4. floor' \in [Tiers -> [price : Nat, id : Nat]]
    BY <2>3 DEF TypeOK
  <2>5. botListing \in [Bots -> Nat] /\ activeCount \in Nat
    BY DEF TypeOK
  <2>6. botListing' \in [Bots -> Nat] /\ activeCount' \in Nat
    BY <1>1, <2>1, <2>5
  <2>7. QED
    BY <2>2, <2>4, <2>6
<1>6. sellerLog' \in [Users -> Seq(Nat)]
  <2>1. Append(sellerLog[s], id) \in Seq(Nat)
    BY <1>1, AppendProperties DEF TypeOK
  <2>2. QED
    BY <2>1 DEF TypeOK, ListBot
<1>7. QED
  BY <1>3, <1>4, <1>5, <1>6
  DEF TypeOK, ListBot, adminVars, saleVars, offerVars

LEMMA BuyBotType ==
  ASSUME TypeOK, NEW u \in Users, NEW id \in DOMAIN listings, BuyBot(u, id)
  PROVE  TypeOK'
<1> DEFINE l == listings[id]
           c == l.currency
           split == SplitOf(l.price, l.bot, l.seller)
           minter == MinterOf[config.nft][l.bot]
           received == Transfer(balance[c], u, Market, l.price)
<1>1. /\ l.seller \in Users /\ l.bot \in Bots /\ l.tier \in Tiers
      /\ l.price \in Nat /\ c \in Currencies /\ id \in Nat
  BY ListingAt DEF TypeOK
<1>2. /\ split.fee \in Nat /\ split.royalty \in Nat /\ split.payout \in Nat
      /\ split.fee + split.royalty + split.payout = l.price
  BY <1>1, SplitOfType
<1>3. minter \in Users
  BY <1>1, MinterType
<1>4. balance[c] \in [Holders -> Nat] /\ u \in Holders /\ u # Market
  BY <1>1, Addresses DEF TypeOK
<1>5. /\ received \in [Holders -> Nat]
      /\ received[Market] = balance[c][Market] + l.price
  <2>1. balance[c][u] >= l.price
    BY DEF BuyBot
  <2>2. QED
    BY <1>1, <1>4, <2>1, Addresses, TransferType
<1>6. balance[c][Market] \in Nat
  BY <1>4, Addresses
<1>7. received[Market] >= split.payout + split.royalty
  BY <1>1, <1>2, <1>5, <1>6
<1>8. PayOut(received, l.seller, minter, split) \in [Holders -> Nat]
  BY <1>1, <1>2, <1>3, <1>5, <1>7, PayOutType
<1>9. balance' = [balance EXCEPT ![c] = PayOut(received, l.seller, minter, split)]
  BY DEF BuyBot
<1>10. balance' \in [Currencies -> [Holders -> Nat]]
  BY <1>8, <1>9 DEF TypeOK
<1>11. owner' \in [Nfts -> [Bots -> Holders \cup {None}]]
  BY <1>4, MoveBotType DEF BuyBot
<1> DEFINE purchase == [listing |-> id, bot |-> l.bot, seller |-> l.seller,
                        price |-> l.price, currency |-> c]
<1>12. purchase \in Purchase
  BY <1>1 DEF Purchase
<1>13. /\ RecordSale(l.tier, l.price) /\ AccrueFee(c, split.fee)
       /\ AddPurchase(u, purchase) /\ Deactivate(id)
  BY DEF BuyBot
<1>14. /\ sales' \in [Tiers -> [volume : Nat, count : Nat, last : Nat]]
       /\ purchases' \in [Users -> Seq(Purchase)] /\ fees' \in [Currencies -> Nat]
  BY <1>1, <1>2, <1>12, <1>13, SaleType
<1>15. QED
  BY <1>10, <1>11, <1>13, <1>14, DeactivateType
  DEF TypeOK, BuyBot, adminVars, indexVars, offerVars

(* The three ways a bot leaves escrow or changes hands without a payment.   *)
LEMMA ExitType ==
  ASSUME TypeOK, NEW id \in DOMAIN listings, NEW to \in Holders,
         MoveBot(listings[id].bot, to), Deactivate(id),
         UNCHANGED <<now, balance, adminVars, indexVars, saleVars, offerVars, fees>>
  PROVE  TypeOK'
<1>1. owner' \in [Nfts -> [Bots -> Holders \cup {None}]]
  BY MoveBotType
<1>2. QED
  BY <1>1, DeactivateType DEF TypeOK, adminVars, indexVars, saleVars, offerVars

LEMMA UpdatePriceType ==
  ASSUME TypeOK, NEW s \in Users, NEW id \in DOMAIN listings, NEW p \in Prices,
         UpdatePrice(s, id, p)
  PROVE  TypeOK'
<1> DEFINE l == listings[id]
           repriced == [listings EXCEPT ![id].price = p]
           new == [l EXCEPT !.price = p]
<1>1. /\ l \in Listing /\ l.tier \in Tiers /\ id \in Nat /\ id \in 1 .. Len(listings)
      /\ listings \in Seq(Listing)
  BY ListingAt DEF TypeOK
<1>2. p \in Nat
  BY CallerAssumption DEF UpdatePrice
<1>3. new \in Listing
  BY <1>1, <1>2 DEF Listing
<1>4. repriced = [listings EXCEPT ![id] = new]
  OBVIOUS
<1>5. repriced \in Seq(Listing)
  BY <1>1, <1>3, <1>4, ExceptSeq
<1>6. ScanFloor(repriced, l.tier) \in [price : Nat, id : Nat]
  BY <1>5, ScanFloorType
<1>7. [price |-> p, id |-> id] \in [price : Nat, id : Nat]
  BY <1>1, <1>2
<1>8. floor \in [Tiers -> [price : Nat, id : Nat]]
  BY DEF TypeOK
<1>9. PICK f \in [price : Nat, id : Nat] : floor' = [floor EXCEPT ![l.tier] = f]
  <2>1. \/ floor' = [floor EXCEPT ![l.tier] = [price |-> p, id |-> id]]
        \/ floor' = [floor EXCEPT ![l.tier] = ScanFloor(repriced, l.tier)]
        \/ floor' = [floor EXCEPT ![l.tier] = floor[l.tier]]
    BY DEF UpdatePrice
  <2>2. floor[l.tier] \in [price : Nat, id : Nat]
    BY <1>1, <1>8
  <2>3. QED
    BY <1>6, <1>7, <2>1, <2>2
<1>10. floor' \in [Tiers -> [price : Nat, id : Nat]]
  BY <1>8, <1>9
<1>11. listings' \in Seq(Listing)
  BY <1>5 DEF UpdatePrice
<1>12. QED
  BY <1>10, <1>11
  DEF TypeOK, UpdatePrice, adminVars, indexVars, saleVars, offerVars

LEMMA MakeOfferType ==
  ASSUME TypeOK, NEW u \in Users, NEW b \in Bots, NEW p \in Prices,
         NEW c \in Currencies, NEW d \in OfferTerms, MakeOffer(u, b, p, c, d)
  PROVE  TypeOK'
<1> DEFINE new == [buyer |-> u, bot |-> b, amount |-> p, currency |-> c,
                   expires |-> now + d, status |-> "Active"]
           escrowed == Transfer(balance[c], u, Market, p)
<1>1. p \in Nat /\ now + d \in Nat
  BY CallerAssumption DEF TypeOK, MakeOffer
<1>2. new \in Offer
  BY <1>1 DEF Offer
<1>3. offers' \in Seq(Offer)
  <2>1. offers \in Seq(Offer) /\ offers' = Append(offers, new)
    BY DEF TypeOK, MakeOffer
  <2>2. QED
    BY <1>2, <2>1, AppendProperties
<1>4. escrowed \in [Holders -> Nat]
  <2>1. balance[c] \in [Holders -> Nat] /\ u \in Holders
    BY Addresses DEF TypeOK
  <2>2. balance[c][u] >= p
    BY DEF MakeOffer
  <2>3. QED
    BY <1>1, <2>1, <2>2, Addresses, TransferType
<1>5. balance' \in [Currencies -> [Holders -> Nat]]
  <2>1. balance' = [balance EXCEPT ![c] = escrowed]
    BY DEF MakeOffer
  <2>2. QED
    BY <1>4, <2>1 DEF TypeOK
<1>6. QED
  BY <1>3, <1>5
  DEF TypeOK, MakeOffer, adminVars, listingVars, indexVars, saleVars

LEMMA AcceptOfferType ==
  ASSUME TypeOK, NEW s \in Users, NEW o \in DOMAIN offers, AcceptOffer(s, o),
         BotIndexSound
  PROVE  TypeOK'
<1> DEFINE offer == offers[o]
           b == offer.bot
           c == offer.currency
           split == SplitOf(offer.amount, b, s)
           minter == MinterOf[config.nft][b]
           tier == TierOf[config.nft][b]
           purchase == [listing |-> 0, bot |-> b, seller |-> s,
                        price |-> offer.amount, currency |-> c]
<1>1. /\ offer.buyer \in Users /\ b \in Bots /\ offer.amount \in Nat
      /\ c \in Currencies
  BY OfferAt DEF TypeOK
<1>2. /\ split.fee \in Nat /\ split.royalty \in Nat /\ split.payout \in Nat
  BY <1>1, SplitOfType
<1>3. minter \in Users /\ tier \in Tiers
  <2>1. config.nft \in Nfts
    BY DEF TypeOK
  <2>2. TierOf[config.nft] \in [Bots -> Tiers]
    BY <2>1, BotsAssumption
  <2>3. QED
    BY <1>1, <2>2, MinterType
<1>4. balance[c] \in [Holders -> Nat]
  BY <1>1 DEF TypeOK
<1>5. balance[c][Market] >= split.payout + split.royalty
  BY DEF AcceptOffer
<1>6. PayOut(balance[c], s, minter, split) \in [Holders -> Nat]
  BY <1>2, <1>3, <1>4, <1>5, PayOutType
<1>7. balance' \in [Currencies -> [Holders -> Nat]]
  <2>1. balance' = [balance EXCEPT ![c] = PayOut(balance[c], s, minter, split)]
    BY DEF AcceptOffer
  <2>2. QED
    BY <1>6, <2>1 DEF TypeOK
<1>8. owner' \in [Nfts -> [Bots -> Holders \cup {None}]]
  BY <1>1, Addresses, MoveBotType DEF AcceptOffer
<1>9. purchase \in Purchase
  BY <1>1 DEF Purchase
<1>10. /\ RecordSale(tier, offer.amount) /\ AccrueFee(c, split.fee)
       /\ AddPurchase(offer.buyer, purchase) /\ CloseOffer(o, "Accepted")
  BY DEF AcceptOffer
<1>11. /\ sales' \in [Tiers -> [volume : Nat, count : Nat, last : Nat]]
       /\ purchases' \in [Users -> Seq(Purchase)] /\ fees' \in [Currencies -> Nat]
  BY <1>1, <1>2, <1>3, <1>9, <1>10, SaleType
<1>12. offers' \in Seq(Offer)
  BY <1>10, CloseOfferType
<1>13. /\ listings' \in Seq(Listing) /\ botListing' \in [Bots -> Nat]
       /\ activeCount' \in Nat /\ sellerActive' \in [Users -> Nat]
       /\ floor' \in [Tiers -> [price : Nat, id : Nat]]
  <2>1. CASE UNCHANGED listingVars
    BY <2>1 DEF TypeOK, listingVars
  <2>2. CASE HasActiveListing(b) /\ Deactivate(botListing[b])
    <3>1. botListing[b] \in DOMAIN listings
      BY <1>1, <2>2 DEF BotIndexSound, HasActiveListing, ActiveIds
    <3>2. QED
      BY <2>2, <3>1, DeactivateType
  <2>3. QED
    BY <2>1, <2>2 DEF AcceptOffer
<1>14. QED
  BY <1>7, <1>8, <1>11, <1>12, <1>13
  DEF TypeOK, AcceptOffer, adminVars, indexVars

LEMMA RefundOnlyType ==
  ASSUME TypeOK, NEW o \in DOMAIN offers, Refund(o),
         UNCHANGED <<now, owner, adminVars, listingVars, indexVars, saleVars, fees>>
  PROVE  TypeOK'
BY RefundType DEF TypeOK, adminVars, listingVars, indexVars, saleVars

LEMMA WithdrawFeesType ==
  ASSUME TypeOK, NEW c \in Currencies, NEW to \in Users, NEW a \in Withdrawals,
         WithdrawFees(c, to, a)
  PROVE  TypeOK'
<1>1. /\ a \in Nat /\ fees[c] - a \in Nat /\ balance[c] \in [Holders -> Nat]
      /\ balance[c][Market] >= a
  <2>1. fees \in [Currencies -> Nat] /\ balance[c] \in [Holders -> Nat]
    BY DEF TypeOK
  <2>2. a \in Int /\ a > 0 /\ a <= fees[c] /\ balance[c][Market] >= a
    BY CallerAssumption DEF WithdrawFees
  <2>3. QED
    BY <2>1, <2>2
<1>2. Transfer(balance[c], Market, to, a) \in [Holders -> Nat]
  BY <1>1, Addresses, TransferType
<1>3. balance' \in [Currencies -> [Holders -> Nat]]
  <2>1. balance' = [balance EXCEPT ![c] = Transfer(balance[c], Market, to, a)]
    BY DEF WithdrawFees
  <2>2. QED
    BY <1>2, <2>1 DEF TypeOK
<1>4. fees' \in [Currencies -> Nat]
  <2>1. fees' = [fees EXCEPT ![c] = fees[c] - a]
    BY DEF WithdrawFees
  <2>2. QED
    BY <1>1, <2>1 DEF TypeOK
<1>5. QED
  BY <1>3, <1>4
  DEF TypeOK, WithdrawFees, adminVars, listingVars, indexVars, saleVars, offerVars

LEMMA PayType ==
  ASSUME TypeOK, NEW c \in Currencies, NEW u \in Users, NEW h \in Holders,
         NEW a \in Payments, Pay(c, u, h, a)
  PROVE  TypeOK'
<1>1. a \in Nat /\ balance[c] \in [Holders -> Nat] /\ balance[c][u] >= a
  BY CallerAssumption DEF TypeOK, Pay
<1>2. Transfer(balance[c], u, h, a) \in [Holders -> Nat]
  BY <1>1, Addresses, TransferType
<1>3. balance' \in [Currencies -> [Holders -> Nat]]
  <2>1. balance' = [balance EXCEPT ![c] = Transfer(balance[c], u, h, a)]
    BY DEF Pay
  <2>2. QED
    BY <1>2, <2>1 DEF TypeOK
<1>4. QED
  BY <1>3 DEF TypeOK, Pay, adminVars, listingVars, indexVars, saleVars, offerVars

LEMMA AdminType ==
  ASSUME TypeOK, AdminStep
  PROVE  TypeOK'
<1>1. CASE \E c \in Currencies, to \in Users, a \in Withdrawals : WithdrawFees(c, to, a)
  BY <1>1, WithdrawFeesType
<1>2. ASSUME NEW bps \in FeeChoices, SetFeeBps(bps) PROVE TypeOK'
  <2>1. bps \in Nat /\ config \in [admin : Users, nft : Nfts, fee : Nat]
    BY CallerAssumption DEF TypeOK
  <2>2. bps + RoyaltyBps <= BpsDenominator /\ config' = [config EXCEPT !.fee = bps]
    BY <1>2 DEF SetFeeBps
  <2>3. /\ config' \in [admin : Users, nft : Nfts, fee : Nat]
        /\ config'.fee + RoyaltyBps <= BpsDenominator
    BY <2>1, <2>2
  <2>4. QED
    BY <1>2, <2>3 DEF TypeOK, SetFeeBps, marketVars, listingVars, indexVars,
                      saleVars, offerVars
<1>3. ASSUME NEW nft \in Nfts, SetBotNft(nft) PROVE TypeOK'
  <2>1. config \in [admin : Users, nft : Nfts, fee : Nat]
    BY DEF TypeOK
  <2>2. config' = [config EXCEPT !.nft = nft]
    BY <1>3 DEF SetBotNft
  <2>3. config' \in [admin : Users, nft : Nfts, fee : Nat] /\ config'.fee = config.fee
    BY <2>1, <2>2
  <2>4. QED
    BY <1>3, <2>3 DEF TypeOK, SetBotNft, marketVars, listingVars, indexVars,
                      saleVars, offerVars
<1>4. ASSUME NEW u \in Nominees, ProposeAdmin(u) PROVE TypeOK'
  BY <1>4, CallerAssumption DEF TypeOK, ProposeAdmin, marketVars, listingVars,
                                indexVars, saleVars, offerVars
<1>5. CASE AcceptAdmin
  <2>1. pendingAdmin \in Users /\ config \in [admin : Users, nft : Nfts, fee : Nat]
    BY <1>5 DEF TypeOK, AcceptAdmin
  <2>2. config' = [config EXCEPT !.admin = pendingAdmin]
    BY <1>5 DEF AcceptAdmin
  <2>3. config' \in [admin : Users, nft : Nfts, fee : Nat] /\ config'.fee = config.fee
    BY <2>1, <2>2
  <2>4. QED
    BY <1>5, <2>3 DEF TypeOK, AcceptAdmin, marketVars, listingVars, indexVars,
                      saleVars, offerVars
<1>6. ASSUME NEW flag \in PauseChoices, SetPaused(flag) PROVE TypeOK'
  BY <1>6, CallerAssumption DEF TypeOK, SetPaused, marketVars, listingVars,
                                indexVars, saleVars, offerVars
<1>7. ASSUME NEW cap \in CapChoices, SetListingCap(cap) PROVE TypeOK'
  BY <1>7, CallerAssumption DEF TypeOK, SetListingCap, marketVars, listingVars,
                                indexVars, saleVars, offerVars
<1>8. ASSUME NEW c \in Currencies, NEW p \in MinPriceChoices, SetMinPrice(c, p)
      PROVE  TypeOK'
  <2>1. p \in Nat
    BY <1>8, CallerAssumption DEF SetMinPrice
  <2>2. minPrice' \in [Currencies -> Nat]
    BY <1>8, <2>1 DEF TypeOK, SetMinPrice
  <2>3. QED
    BY <1>8, <2>2 DEF TypeOK, SetMinPrice, marketVars, listingVars, indexVars,
                      saleVars, offerVars
<1>9. ASSUME NEW c \in Currencies, AddAllowedCurrency(c) PROVE TypeOK'
  BY <1>9 DEF TypeOK, AddAllowedCurrency, marketVars, listingVars, indexVars,
              saleVars, offerVars
<1>10. ASSUME NEW c \in Removable, RemoveAllowedCurrency(c) PROVE TypeOK'
  BY <1>10 DEF TypeOK, RemoveAllowedCurrency, marketVars, listingVars, indexVars,
               saleVars, offerVars
<1>11. QED
  BY <1>1, <1>2, <1>3, <1>4, <1>5, <1>6, <1>7, <1>8, <1>9, <1>10 DEF AdminStep

LEMMA OutsideType ==
  ASSUME TypeOK, BotIndexSound, OutsideStep
  PROVE  TypeOK'
<1>1. CASE Tick
  <2>1. now' \in Nat
    BY <1>1 DEF TypeOK, Tick
  <2>2. QED
    BY <1>1, <2>1 DEF TypeOK, Tick, adminVars, listingVars, indexVars, saleVars, offerVars
<1>2. ASSUME NEW nft \in Nfts, NEW b \in Bots, NEW to \in BotRecipients,
             TransferBot(nft, b, to)
      PROVE  TypeOK'
  <2>1. owner' \in [Nfts -> [Bots -> Holders \cup {None}]]
    BY <1>2, CallerAssumption DEF TypeOK, TransferBot
  <2>2. CASE UNCHANGED listingVars
    BY <1>2, <2>1, <2>2 DEF TypeOK, TransferBot, adminVars, listingVars, indexVars,
                            saleVars, offerVars
  <2>3. CASE HasActiveListing(b) /\ Deactivate(botListing[b])
    <3>1. botListing[b] \in DOMAIN listings
      BY <2>3 DEF BotIndexSound, HasActiveListing, ActiveIds
    <3>2. QED
      BY <1>2, <2>1, <2>3, <3>1, DeactivateType
      DEF TypeOK, TransferBot, adminVars, indexVars, saleVars, offerVars
  <2>4. QED
    BY <1>2, <2>2, <2>3 DEF TransferBot
<1>3. ASSUME NEW nft \in Nfts, NEW b \in Burnable, BurnBot(nft, b) PROVE TypeOK'
  <2>1. owner' \in [Nfts -> [Bots -> Holders \cup {None}]]
    BY <1>3, CallerAssumption DEF TypeOK, BurnBot
  <2>2. QED
    BY <1>3, <2>1 DEF TypeOK, BurnBot, adminVars, listingVars, indexVars, saleVars,
                      offerVars
<1>4. CASE \E c \in Currencies, u \in Users, h \in Holders, a \in Payments : Pay(c, u, h, a)
  BY <1>4, PayType
<1>5. QED
  BY <1>1, <1>2, <1>3, <1>4 DEF OutsideStep

LEMMA TypeStep ==
  ASSUME TypeOK, BotIndexSound, [Next]_vars
  PROVE  TypeOK'
<1>1. CASE ListingStep
  <2>1. ASSUME NEW s \in Users, NEW id \in DOMAIN listings, CancelListing(s, id)
        PROVE  TypeOK'
    BY <2>1, Addresses, ExitType DEF CancelListing
  <2>2. ASSUME NEW id \in DOMAIN listings, ReclaimExpired(id)
        PROVE  TypeOK'
    <3>1. listings[id].seller \in Holders
      BY ListingAt, Addresses DEF TypeOK
    <3>2. QED
      BY <2>2, <3>1, ExitType DEF ReclaimExpired
  <2>3. ASSUME NEW n \in DOMAIN pages, CompactPage(n) PROVE TypeOK'
    BY <2>3 DEF TypeOK, CompactPage, adminVars, listingVars, saleVars, offerVars
  <2>4. QED
    BY <1>1, <2>1, <2>2, <2>3, ListBotType, BuyBotType, UpdatePriceType DEF ListingStep
<1>2. CASE OfferStep
  <2>1. ASSUME NEW u \in Users, NEW o \in DOMAIN offers,
               CancelOffer(u, o) \/ DismissOffer(u, o)
        PROVE  TypeOK'
    BY <2>1, RefundOnlyType DEF CancelOffer, DismissOffer
  <2>2. QED
    BY <1>2, <2>1, MakeOfferType, AcceptOfferType DEF OfferStep
<1>3. CASE AdminStep
  BY <1>3, AdminType
<1>4. CASE OutsideStep
  BY <1>4, OutsideType
<1>5. CASE UNCHANGED vars
  BY <1>5 DEF TypeOK, vars, adminVars, listingVars, indexVars, saleVars, offerVars
<1>6. QED
  BY <1>1, <1>2, <1>3, <1>4, <1>5 DEF Next

-----------------------------------------------------------------------------
(* Custody: what is listed, escrowed and counted.                           *)

Custody == Backed /\ BotIndexSound /\ CountersExact

IInv == TypeOK /\ Custody

ActiveOf(ls, u) == {id \in ActiveIds(ls) : ls[id].seller = u}

-----------------------------------------------------------------------------
(* Counting.                                                                *)

LEMMA ActiveFinite ==
  ASSUME TypeOK
  PROVE  /\ IsFiniteSet(ActiveIds(listings))
         /\ Cardinality(ActiveIds(listings)) \in Nat
         /\ \A u : /\ IsFiniteSet(ActiveOf(listings, u))
                   /\ Cardinality(ActiveOf(listings, u)) \in Nat
<1>1. Len(listings) \in Nat /\ DOMAIN listings = 1 .. Len(listings)
  BY LenProperties DEF TypeOK
<1>2. IsFiniteSet(1 .. Len(listings))
  BY <1>1, FS_Interval
<1>3. ActiveIds(listings) \in SUBSET (1 .. Len(listings))
  BY <1>1 DEF ActiveIds
<1>4. IsFiniteSet(ActiveIds(listings))
  BY <1>2, <1>3, FS_Subset
<1>5. \A u : IsFiniteSet(ActiveOf(listings, u))
  <2>1. \A u : ActiveOf(listings, u) \in SUBSET ActiveIds(listings)
    BY DEF ActiveOf
  <2>2. QED
    BY <1>4, <2>1, FS_Subset
<1>6. QED
  BY <1>4, <1>5, FS_CardinalityType

(* The counters count an active listing before it ends.                     *)
LEMMA CountersPositive ==
  ASSUME IInv, NEW id \in ActiveIds(listings)
  PROVE  /\ activeCount > 0 /\ sellerActive[listings[id].seller] > 0
         /\ listings[id].seller \in Users
<1> DEFINE u == listings[id].seller
<1>1. u \in Users
  BY ListingAt DEF IInv, TypeOK, ActiveIds
<1>2. id \in ActiveOf(listings, u)
  BY DEF ActiveOf
<1>3. /\ activeCount = Cardinality(ActiveIds(listings))
      /\ sellerActive[u] = Cardinality(ActiveOf(listings, u))
  BY <1>1 DEF IInv, Custody, CountersExact, ActiveOf
<1>4. TypeOK
  BY DEF IInv
<1>5. Cardinality(ActiveIds(listings)) # 0 /\ Cardinality(ActiveOf(listings, u)) # 0
  BY <1>2, <1>4, ActiveFinite, FS_EmptySet
<1>6. QED
  BY <1>1, <1>3, <1>4, <1>5, ActiveFinite

LEMMA NoneActive ==
  ASSUME IInv, activeCount = 0
  PROVE  ActiveIds(listings) = {}
BY CountersPositive

-----------------------------------------------------------------------------
(* The three ways a step can touch the active listings.                     *)

(* It leaves them as they are, escrowed and counted.                        *)
LEMMA SameActive ==
  ASSUME IInv,
         ActiveIds(listings') = ActiveIds(listings),
         \A id \in ActiveIds(listings) :
           /\ listings'[id].bot = listings[id].bot
           /\ listings'[id].seller = listings[id].seller
           /\ owner'[config'.nft][listings[id].bot] = Market,
         UNCHANGED <<botListing, activeCount, sellerActive>>
  PROVE  Custody'
<1>1. Backed'
  BY DEF IInv, Custody, Backed, BotOwner
<1>2. BotIndexSound'
  BY DEF IInv, Custody, BotIndexSound
<1>3. CountersExact'
  <2>1. \A u \in Users : {id \in ActiveIds(listings') : listings'[id].seller = u}
                           = {id \in ActiveIds(listings) : listings[id].seller = u}
    OBVIOUS
  <2>2. QED
    BY <2>1 DEF IInv, Custody, CountersExact
<1>4. QED
  BY <1>1, <1>2, <1>3 DEF Custody

(* It ends one and releases its bot.                                        *)
LEMMA Retired ==
  ASSUME IInv, NEW id \in ActiveIds(listings), NEW to,
         Deactivate(id), MoveBot(listings[id].bot, to), config' = config
  PROVE  Custody'
<1> DEFINE A == ActiveIds(listings)
           l == listings[id]
           u == l.seller
<1>1. /\ listings \in Seq(Listing) /\ id \in DOMAIN listings /\ TypeOK
      /\ l.bot \in Bots /\ u \in Users /\ listings[id] \in Listing
      /\ id \in 1 .. Len(listings) /\ id \in Nat
      /\ DOMAIN listings = 1 .. Len(listings)
  BY ListingAt, LenProperties DEF IInv, TypeOK, ActiveIds
<1>2. /\ listings' = [listings EXCEPT ![id].active = FALSE]
      /\ botListing' = [botListing EXCEPT ![l.bot] = 0]
      /\ activeCount' = Pred(activeCount)
      /\ sellerActive' = [sellerActive EXCEPT ![u] = Pred(sellerActive[u])]
  BY DEF Deactivate
<1>3. /\ \A j \in DOMAIN listings \ {id} : listings'[j] = listings[j]
      /\ ~listings'[id].active
      /\ DOMAIN listings' = DOMAIN listings
  BY <1>1, <1>2 DEF Listing
<1>4. ActiveIds(listings') = A \ {id}
  BY <1>3 DEF ActiveIds
<1>5. \A j \in A \ {id} : listings[j].bot # l.bot
  BY DEF IInv, Custody, Backed
<1>6. \A j \in A : listings[j].bot \in Bots
  BY <1>1, ListingAt DEF ActiveIds
<1>7. Backed'
  <2>1. ASSUME NEW j \in A \ {id}
        PROVE  owner'[config.nft][listings[j].bot] = Market /\ botListing'[listings[j].bot] = j
    <3>1. owner[config.nft][listings[j].bot] = Market /\ botListing[listings[j].bot] = j
      BY DEF IInv, Custody, Backed, BotOwner
    <3>2. config.nft \in Nfts /\ owner \in [Nfts -> [Bots -> Holders \cup {None}]]
      BY DEF IInv, TypeOK
    <3>3. owner'[config.nft][listings[j].bot] = owner[config.nft][listings[j].bot]
      BY <1>5, <1>6, <3>2 DEF MoveBot
    <3>4. botListing \in [Bots -> Nat]
      BY DEF IInv, TypeOK
    <3>5. QED
      BY <1>2, <1>5, <1>6, <3>1, <3>3, <3>4
  <2>2. QED
    BY <1>3, <1>4, <2>1 DEF Backed, BotOwner, ActiveIds
<1>8. BotIndexSound'
  <2>1. ASSUME NEW b \in Bots, botListing'[b] # 0
        PROVE  botListing'[b] \in A \ {id} /\ listings'[botListing'[b]].bot = b
    <3>1. botListing \in [Bots -> Nat]
      BY DEF IInv, TypeOK
    <3>2. b # l.bot /\ botListing'[b] = botListing[b]
      BY <1>2, <2>1, <3>1
    <3>3. botListing[b] \in A /\ listings[botListing[b]].bot = b
      BY <2>1, <3>2 DEF IInv, Custody, BotIndexSound
    <3>4. QED
      BY <1>3, <3>2, <3>3 DEF ActiveIds
  <2>2. QED
    BY <1>4, <2>1 DEF BotIndexSound
<1>9. CountersExact'
  <2>1. /\ activeCount = Cardinality(A)
        /\ \A v \in Users : sellerActive[v] = Cardinality(ActiveOf(listings, v))
    BY DEF IInv, Custody, CountersExact, ActiveOf
  <2>2. activeCount > 0 /\ sellerActive[u] > 0
    BY CountersPositive
  <2>3. activeCount' = Cardinality(A \ {id})
    <3>1. IsFiniteSet(A)
      BY <1>1, ActiveFinite
    <3>2. Cardinality(A \ {id}) = Cardinality(A) - 1
      BY <3>1, FS_RemoveElement
    <3>3. QED
      BY <1>2, <2>1, <2>2, <3>2 DEF Pred
  <2>4. ASSUME NEW v \in Users
        PROVE  sellerActive'[v] = Cardinality(ActiveOf(listings', v))
    <3>1. sellerActive \in [Users -> Nat] /\ IsFiniteSet(ActiveOf(listings, v))
      BY <1>1, ActiveFinite DEF TypeOK
    <3>2. CASE v = u
      <4>1. ActiveOf(listings', v) = ActiveOf(listings, v) \ {id}
        BY <1>3, <1>4 DEF ActiveOf, ActiveIds
      <4>2. id \in ActiveOf(listings, v)
        BY <3>2 DEF ActiveOf
      <4>3. Cardinality(ActiveOf(listings', v)) = Cardinality(ActiveOf(listings, v)) - 1
        BY <3>1, <4>1, <4>2, FS_RemoveElement
      <4>4. sellerActive'[v] = sellerActive[v] - 1
        BY <1>2, <2>2, <3>1, <3>2 DEF Pred
      <4>5. QED
        BY <2>1, <4>3, <4>4
    <3>3. CASE v # u
      <4>1. ActiveOf(listings', v) = ActiveOf(listings, v)
        BY <1>3, <1>4, <3>3 DEF ActiveOf, ActiveIds
      <4>2. sellerActive'[v] = sellerActive[v]
        BY <1>2, <3>1, <3>3
      <4>3. QED
        BY <2>1, <4>1, <4>2
    <3>4. QED
      BY <3>2, <3>3
  <2>5. QED
    BY <1>4, <2>3, <2>4 DEF CountersExact, ActiveOf
<1>10. QED
  BY <1>7, <1>8, <1>9 DEF Custody

(* It adds one for a bot that a user held.                                  *)
LEMMA Listed ==
  ASSUME IInv, NEW s \in Users, NEW b \in Bots, NEW p \in Prices,
         NEW c \in Currencies, NEW d \in Durations, ListBot(s, b, p, c, d)
  PROVE  Custody'
<1> DEFINE A == ActiveIds(listings)
           id == Len(listings) + 1
           new == [seller |-> s, bot |-> b, tier |-> TierOf[config.nft][b], price |-> p,
                   currency |-> c, active |-> TRUE, expires |-> now + d]
<1>1. /\ listings \in Seq(Listing) /\ TypeOK /\ Len(listings) \in Nat
      /\ DOMAIN listings = 1 .. Len(listings)
      /\ botListing \in [Bots -> Nat] /\ sellerActive \in [Users -> Nat]
      /\ config.nft \in Nfts /\ owner \in [Nfts -> [Bots -> Holders \cup {None}]]
  BY LenProperties DEF IInv, TypeOK
<1>2. /\ listings' = Append(listings, new)
      /\ botListing' = [botListing EXCEPT ![b] = id]
      /\ activeCount' = activeCount + 1
      /\ sellerActive' = [sellerActive EXCEPT ![s] = sellerActive[s] + 1]
      /\ owner' = [owner EXCEPT ![config.nft][b] = Market]
      /\ owner[config.nft][b] = s /\ config' = config
  BY DEF ListBot, MoveBot, BotOwner, adminVars
<1>3. /\ DOMAIN listings' = 1 .. id
      /\ listings'[id] = new
      /\ \A j \in DOMAIN listings : listings'[j] = listings[j]
  <2>1. Len(listings') = id /\ DOMAIN listings' = 1 .. Len(listings')
    BY <1>1, <1>2
  <2>2. QED
    BY <1>1, <1>2, <2>1
<1>4. id \notin DOMAIN listings /\ id \in DOMAIN listings' /\ id # 0
  BY <1>1, <1>3
<1>5. ActiveIds(listings') = A \cup {id}
  <2>1. DOMAIN listings' = DOMAIN listings \cup {id}
    BY <1>1, <1>3
  <2>2. listings'[id].active
    BY <1>3
  <2>3. \A j \in DOMAIN listings : listings'[j].active <=> listings[j].active
    BY <1>3
  <2>4. QED
    BY <2>1, <2>2, <2>3 DEF ActiveIds
<1>6. \A j \in A : listings[j].bot # b /\ listings[j].bot \in Bots /\ j # id
  <2>1. \A j \in A : owner[config.nft][listings[j].bot] = Market
    BY DEF IInv, Custody, Backed, BotOwner
  <2>2. QED
    BY <1>1, <1>2, <1>4, <2>1, Addresses, ListingAt DEF ActiveIds
<1>7. Backed'
  <2>1. owner'[config.nft][b] = Market /\ botListing'[b] = id
    BY <1>1, <1>2
  <2>2. ASSUME NEW j \in A
        PROVE  owner'[config.nft][listings[j].bot] = Market /\ botListing'[listings[j].bot] = j
    <3>1. owner[config.nft][listings[j].bot] = Market /\ botListing[listings[j].bot] = j
      BY DEF IInv, Custody, Backed, BotOwner
    <3>2. QED
      BY <1>1, <1>2, <1>6, <3>1
  <2>3. \A j \in A : listings'[j] = listings[j]
    BY <1>3 DEF ActiveIds
  <2>4. listings'[id].bot = b
    BY <1>3
  <2>5. \A j \in A \cup {id} : /\ owner'[config'.nft][listings'[j].bot] = Market
                              /\ botListing'[listings'[j].bot] = j
    BY <1>2, <2>1, <2>2, <2>3, <2>4
  <2>6. QED
    BY <1>5, <2>5 DEF Backed, BotOwner
<1>8. BotIndexSound'
  <2>1. ASSUME NEW v \in Bots \ {b}, botListing'[v] # 0
        PROVE  botListing'[v] \in A /\ listings'[botListing'[v]].bot = v
    <3>1. botListing'[v] = botListing[v]
      BY <1>1, <1>2
    <3>2. botListing[v] \in A /\ listings[botListing[v]].bot = v
      BY <2>1, <3>1 DEF IInv, Custody, BotIndexSound
    <3>3. QED
      BY <1>3, <3>1, <3>2 DEF ActiveIds
  <2>2. botListing'[b] = id /\ listings'[id].bot = b
    BY <1>1, <1>2, <1>3
  <2>3. QED
    BY <1>5, <2>1, <2>2 DEF BotIndexSound
<1>9. CountersExact'
  <2>1. /\ activeCount = Cardinality(A)
        /\ \A u \in Users : sellerActive[u] = Cardinality(ActiveOf(listings, u))
    BY DEF IInv, Custody, CountersExact, ActiveOf
  <2>2. IsFiniteSet(A) /\ id \notin A
    BY <1>1, <1>4, ActiveFinite DEF ActiveIds
  <2>3. activeCount' = Cardinality(A \cup {id})
    BY <1>2, <2>1, <2>2, FS_AddElement
  <2>4. ASSUME NEW u \in Users
        PROVE  sellerActive'[u] = Cardinality(ActiveOf(listings', u))
    <3>1. IsFiniteSet(ActiveOf(listings, u)) /\ id \notin ActiveOf(listings, u)
      BY <1>1, <2>2, ActiveFinite DEF ActiveOf
    <3>2. \A j \in A : listings'[j] = listings[j]
      BY <1>3 DEF ActiveIds
    <3>3. CASE u = s
      <4>1. ActiveOf(listings', u) = ActiveOf(listings, u) \cup {id}
        BY <1>3, <1>5, <3>2, <3>3 DEF ActiveOf
      <4>2. Cardinality(ActiveOf(listings', u)) = Cardinality(ActiveOf(listings, u)) + 1
        BY <3>1, <4>1, FS_AddElement
      <4>3. QED
        BY <1>1, <1>2, <2>1, <3>3, <4>2
    <3>4. CASE u # s
      <4>1. ActiveOf(listings', u) = ActiveOf(listings, u)
        BY <1>3, <1>5, <3>2, <3>4 DEF ActiveOf
      <4>2. QED
        BY <1>1, <1>2, <2>1, <3>4, <4>1
    <3>5. QED
      BY <3>3, <3>4
  <2>5. QED
    BY <1>5, <2>3, <2>4 DEF CountersExact, ActiveOf
<1>10. QED
  BY <1>7, <1>8, <1>9 DEF Custody

-----------------------------------------------------------------------------
(* Every step.                                                              *)

(* A step that leaves the listings and every bot in escrow alone.           *)
LEMMA ListingsUntouched ==
  ASSUME IInv, UNCHANGED listingVars, config'.nft = config.nft,
         \A b \in Bots : BotOwner(b) = Market => owner'[config.nft][b] = Market
  PROVE  Custody'
<1>1. /\ listings' = listings
      /\ UNCHANGED <<botListing, activeCount, sellerActive>>
  BY DEF listingVars
<1>2. ASSUME NEW id \in ActiveIds(listings)
      PROVE  owner'[config'.nft][listings[id].bot] = Market
  <2>1. listings[id].bot \in Bots
    BY ListingAt DEF IInv, TypeOK, ActiveIds
  <2>2. BotOwner(listings[id].bot) = Market
    BY DEF IInv, Custody, Backed
  <2>3. QED
    BY <2>1, <2>2
<1>3. QED
  BY <1>1, <1>2, SameActive

LEMMA UpdatePriceCustody ==
  ASSUME IInv, NEW s \in Users, NEW id \in DOMAIN listings, NEW p \in Prices,
         UpdatePrice(s, id, p)
  PROVE  Custody'
<1>1. /\ listings' = [listings EXCEPT ![id].price = p]
      /\ UNCHANGED <<botListing, activeCount, sellerActive, owner, config>>
  BY DEF UpdatePrice, adminVars
<1>2. listings[id] \in Listing
  BY ListingAt DEF IInv, TypeOK
<1>3. /\ DOMAIN listings' = DOMAIN listings
      /\ \A j \in DOMAIN listings : /\ listings'[j].bot = listings[j].bot
                                    /\ listings'[j].seller = listings[j].seller
                                    /\ listings'[j].active = listings[j].active
  BY <1>1, <1>2 DEF Listing
<1>4. ActiveIds(listings') = ActiveIds(listings)
  BY <1>3 DEF ActiveIds
<1>5. QED
  BY <1>1, <1>3, <1>4, SameActive DEF IInv, Custody, Backed, BotOwner, ActiveIds

LEMMA AcceptOfferCustody ==
  ASSUME IInv, NEW s \in Users, NEW o \in DOMAIN offers, AcceptOffer(s, o)
  PROVE  Custody'
<1> DEFINE b == offers[o].bot
<1>1. b \in Bots
  BY OfferAt DEF IInv, TypeOK
<1>2. MoveBot(b, offers[o].buyer) /\ config' = config
  BY DEF AcceptOffer, adminVars
<1>3. CASE BotOwner(b) = s /\ UNCHANGED listingVars
  <2>1. \A v \in Bots : BotOwner(v) = Market => v # b
    BY <1>3, Addresses
  <2>2. config.nft \in Nfts /\ owner \in [Nfts -> [Bots -> Holders \cup {None}]]
    BY DEF IInv, TypeOK
  <2>3. \A v \in Bots : BotOwner(v) = Market => owner'[config.nft][v] = Market
    BY <1>2, <2>1, <2>2 DEF MoveBot, BotOwner
  <2>4. QED
    BY <1>2, <1>3, <2>3, ListingsUntouched
<1>4. CASE HasActiveListing(b) /\ Deactivate(botListing[b])
  <2>1. botListing[b] \in ActiveIds(listings) /\ listings[botListing[b]].bot = b
    BY <1>1, <1>4 DEF HasActiveListing, IInv, Custody, BotIndexSound
  <2>2. QED
    BY <1>2, <1>4, <2>1, Retired
<1>5. QED
  BY <1>3, <1>4 DEF AcceptOffer

(* An NFT contract reports a move of a bot its owner held directly, so the  *)
(* report of the configured contract finds no active listing.               *)
LEMMA ReportFindsNothing ==
  ASSUME IInv, NEW nft \in Nfts, NEW b \in Bots, NEW to, TransferBot(nft, b, to)
  PROVE  UNCHANGED listingVars
<1>1. nft = config.nft /\ HasActiveListing(b) => FALSE
  <2>1. SUFFICES ASSUME nft = config.nft, HasActiveListing(b) PROVE FALSE
    OBVIOUS
  <2>2. botListing[b] \in ActiveIds(listings) /\ listings[botListing[b]].bot = b
    BY <2>1 DEF HasActiveListing, IInv, Custody, BotIndexSound
  <2>3. owner[nft][b] = Market
    BY <2>1, <2>2 DEF IInv, Custody, Backed, BotOwner
  <2>4. QED
    BY <2>3, Addresses DEF TransferBot
<1>2. QED
  BY <1>1 DEF TransferBot

LEMMA TransferBotCustody ==
  ASSUME IInv, NEW nft \in Nfts, NEW b \in Bots, NEW to, TransferBot(nft, b, to)
  PROVE  Custody'
<1>1. /\ owner[nft][b] \in Users /\ owner' = [owner EXCEPT ![nft][b] = to]
      /\ config' = config
  BY DEF TransferBot, adminVars
<1>2. UNCHANGED listingVars
  BY ReportFindsNothing
<1>3. config.nft \in Nfts /\ owner \in [Nfts -> [Bots -> Holders \cup {None}]]
  BY DEF IInv, TypeOK
<1>4. \A v \in Bots : BotOwner(v) = Market => owner'[config.nft][v] = Market
  BY <1>1, <1>3, Addresses DEF BotOwner
<1>5. QED
  BY <1>1, <1>2, <1>4, ListingsUntouched

LEMMA BurnBotCustody ==
  ASSUME IInv, NEW nft \in Nfts, NEW b, BurnBot(nft, b)
  PROVE  Custody'
<1>1. /\ owner[nft][b] \in Users /\ owner' = [owner EXCEPT ![nft][b] = None]
      /\ config' = config /\ UNCHANGED listingVars
  BY DEF BurnBot, adminVars
<1>2. config.nft \in Nfts /\ owner \in [Nfts -> [Bots -> Holders \cup {None}]]
  BY DEF IInv, TypeOK
<1>3. \A v \in Bots : BotOwner(v) = Market => owner'[config.nft][v] = Market
  BY <1>1, <1>2, Addresses DEF BotOwner
<1>4. QED
  BY <1>1, <1>3, ListingsUntouched

(* No listing is active when the NFT contract is replaced.                  *)
LEMMA SetBotNftCustody ==
  ASSUME IInv, NEW nft \in Nfts, SetBotNft(nft)
  PROVE  Custody'
<1>1. ActiveIds(listings) = {}
  BY NoneActive DEF SetBotNft
<1>2. listings' = listings /\ UNCHANGED <<botListing, activeCount, sellerActive>>
  BY DEF SetBotNft, marketVars, listingVars
<1>3. QED
  BY <1>1, <1>2, SameActive

LEMMA AdminCustody ==
  ASSUME IInv, AdminStep
  PROVE  Custody'
<1>1. CASE \E nft \in Nfts : SetBotNft(nft)
  BY <1>1, SetBotNftCustody
<1>2. CASE ~(\E nft \in Nfts : SetBotNft(nft))
  <2>1. config \in [admin : Users, nft : Nfts, fee : Nat]
    BY DEF IInv, TypeOK
  <2>2. UNCHANGED <<listingVars, owner>> /\ config'.nft = config.nft
    BY <1>2, <2>1
    DEF AdminStep, WithdrawFees, SetFeeBps, ProposeAdmin, AcceptAdmin, SetPaused,
        SetListingCap, SetMinPrice, AddAllowedCurrency, RemoveAllowedCurrency,
        marketVars, adminVars
  <2>3. QED
    BY <2>2, ListingsUntouched DEF BotOwner
<1>3. QED
  BY <1>1, <1>2

LEMMA CustodyStep ==
  ASSUME IInv, [Next]_vars
  PROVE  Custody'
<1>1. CASE ListingStep
  <2>1. ASSUME NEW u \in Users, NEW id \in DOMAIN listings, BuyBot(u, id)
        PROVE  Custody'
    BY <2>1, Retired DEF BuyBot, ActiveIds, adminVars
  <2>2. ASSUME NEW s \in Users, NEW id \in DOMAIN listings, CancelListing(s, id)
        PROVE  Custody'
    BY <2>2, Retired DEF CancelListing, ActiveIds, adminVars
  <2>3. ASSUME NEW id \in DOMAIN listings, ReclaimExpired(id)
        PROVE  Custody'
    BY <2>3, Retired DEF ReclaimExpired, ActiveIds, adminVars
  <2>4. ASSUME NEW n \in DOMAIN pages, CompactPage(n) PROVE Custody'
    BY <2>4, ListingsUntouched DEF CompactPage, adminVars, BotOwner
  <2>5. QED
    BY <1>1, <2>1, <2>2, <2>3, <2>4, Listed, UpdatePriceCustody DEF ListingStep
<1>2. CASE OfferStep
  <2>1. ASSUME UNCHANGED <<listingVars, owner, adminVars>> PROVE Custody'
    BY <2>1, ListingsUntouched DEF adminVars, BotOwner
  <2>2. QED
    <3>1. ASSUME NEW u \in Users, NEW b \in Bots, NEW p \in Prices,
                 NEW c \in Currencies, NEW d \in OfferTerms, MakeOffer(u, b, p, c, d)
          PROVE  Custody'
      BY <2>1, <3>1 DEF MakeOffer
    <3>2. ASSUME NEW u \in Users, NEW o \in DOMAIN offers,
                 CancelOffer(u, o) \/ DismissOffer(u, o)
          PROVE  Custody'
      BY <2>1, <3>2 DEF CancelOffer, DismissOffer
    <3>3. QED
      BY <1>2, <3>1, <3>2, AcceptOfferCustody DEF OfferStep
<1>3. CASE AdminStep
  BY <1>3, AdminCustody
<1>4. CASE OutsideStep
  <2>1. ASSUME UNCHANGED <<listingVars, owner, adminVars>> PROVE Custody'
    BY <2>1, ListingsUntouched DEF adminVars, BotOwner
  <2>2. QED
    BY <1>4, <2>1, TransferBotCustody, BurnBotCustody DEF OutsideStep, Tick, Pay
<1>5. CASE UNCHANGED vars
  BY <1>5, ListingsUntouched DEF vars, adminVars, BotOwner
<1>6. QED
  BY <1>1, <1>2, <1>3, <1>4, <1>5 DEF Next

-----------------------------------------------------------------------------
(* The results.                                                             *)

LEMMA InvInit ==
  ASSUME Init
  PROVE  IInv
<1>1. TypeOK
  BY TypeInit
<1>2. ActiveIds(listings) = {}
  BY DEF Init, ActiveIds
<1>3. /\ botListing = [b \in Bots |-> 0] /\ activeCount = 0
      /\ sellerActive = [u \in Users |-> 0]
  BY DEF Init
<1>4. Backed /\ BotIndexSound
  BY <1>2, <1>3 DEF Backed, BotIndexSound
<1>5. \A u \in Users : {id \in ActiveIds(listings) : listings[id].seller = u} = {}
  BY <1>2
<1>6. CountersExact
  BY <1>2, <1>3, <1>5, FS_EmptySet DEF CountersExact
<1>7. QED
  BY <1>1, <1>4, <1>6 DEF IInv, Custody

LEMMA InvStep ==
  ASSUME IInv, [Next]_vars
  PROVE  IInv'
<1>1. TypeOK'
  BY TypeStep DEF IInv, Custody
<1>2. Custody'
  BY CustodyStep
<1>3. QED
  BY <1>1, <1>2 DEF IInv

LEMMA Invariant == Spec => []IInv
<1>1. Init => IInv
  BY InvInit
<1>2. IInv /\ [Next]_vars => IInv'
  BY InvStep
<1>3. QED
  BY <1>1, <1>2, PTL DEF Spec

(* No handler ever stores a value of the wrong shape: no negative balance,  *)
(* fee ledger or counter, no listing or offer of an unknown bot, and rates  *)
(* that add up to at most the whole price.                                  *)
THEOREM TypeCorrect == Spec => []TypeOK
<1>1. IInv => TypeOK
  BY DEF IInv
<1>2. QED
  BY <1>1, Invariant, PTL

(* An active listing always has its bot in escrow, in the NFT contract the  *)
(* marketplace settles through now, and is the only one of that bot.        *)
THEOREM ListingsAreBacked == Spec => []Backed
<1>1. IInv => Backed
  BY DEF IInv, Custody
<1>2. QED
  BY <1>1, Invariant, PTL

(* The index that effective_owner and on_bot_moved follow never names a     *)
(* listing that has ended or that sells another bot.                        *)
THEOREM BotIndexIsSound == Spec => []BotIndexSound
<1>1. IInv => BotIndexSound
  BY DEF IInv, Custody
<1>2. QED
  BY <1>1, Invariant, PTL

(* The counters that gate set_bot_nft and the per-seller cap count exactly  *)
(* the active listings: no exit forgets one or counts one twice.            *)
THEOREM CountersAreExact == Spec => []CountersExact
<1>1. IInv => CountersExact
  BY DEF IInv, Custody
<1>2. QED
  BY <1>1, Invariant, PTL

-----------------------------------------------------------------------------
(* No stranded bot.                                                         *)

LEMMA NothingEscrowed ==
  ASSUME NoStrandedBot, config'.nft = config.nft, botListing' = botListing,
         \A nft \in Nfts, b \in Bots : owner'[nft][b] = Market => owner[nft][b] = Market
  PROVE  NoStrandedBot'
BY DEF NoStrandedBot

LEMMA Released ==
  ASSUME IInv, NoStrandedBot, NEW id \in ActiveIds(listings), NEW to, to # Market,
         Deactivate(id), MoveBot(listings[id].bot, to), config' = config
  PROVE  NoStrandedBot'
<1> DEFINE bot == listings[id].bot
<1>1. /\ config.nft \in Nfts /\ owner \in [Nfts -> [Bots -> Holders \cup {None}]]
      /\ botListing \in [Bots -> Nat] /\ bot \in Bots
  BY ListingAt DEF IInv, TypeOK, ActiveIds
<1>2. /\ owner' = [owner EXCEPT ![config.nft][bot] = to]
      /\ botListing' = [botListing EXCEPT ![bot] = 0]
  BY DEF MoveBot, Deactivate
<1>3. SUFFICES ASSUME Market \notin BotRecipients, NEW nft \in Nfts, NEW b \in Bots,
                      owner'[nft][b] = Market
               PROVE  nft = config.nft /\ botListing'[b] # 0
  BY DEF NoStrandedBot
<1>4. ~(nft = config.nft /\ b = bot) /\ owner[nft][b] = Market
  BY <1>1, <1>2, <1>3
<1>5. nft = config.nft /\ botListing[b] # 0
  BY <1>3, <1>4 DEF NoStrandedBot
<1>6. QED
  BY <1>1, <1>2, <1>4, <1>5

LEMMA NoStrandedStep ==
  ASSUME IInv, NoStrandedBot, [Next]_vars, Market \notin BotRecipients
  PROVE  NoStrandedBot'
<1>1. /\ config.nft \in Nfts /\ owner \in [Nfts -> [Bots -> Holders \cup {None}]]
      /\ botListing \in [Bots -> Nat] /\ listings \in Seq(Listing)
      /\ config \in [admin : Users, nft : Nfts, fee : Nat]
  BY DEF IInv, TypeOK
<1>2. ASSUME UNCHANGED <<listingVars, owner>>, config'.nft = config.nft
      PROVE  NoStrandedBot'
  BY <1>2, NothingEscrowed DEF listingVars
<1>3. CASE ListingStep
  <2>1. ASSUME NEW s \in Users, NEW b \in Bots, NEW p \in Prices, NEW c \in Currencies,
               NEW d \in Durations, ListBot(s, b, p, c, d)
        PROVE  NoStrandedBot'
    <3>1. /\ owner' = [owner EXCEPT ![config.nft][b] = Market]
          /\ botListing' = [botListing EXCEPT ![b] = Len(listings) + 1]
          /\ config' = config
      BY <2>1 DEF ListBot, MoveBot, adminVars
    <3>2. Len(listings) + 1 # 0
      BY <1>1, LenProperties
    <3>3. ASSUME NEW nft \in Nfts, NEW v \in Bots, owner'[nft][v] = Market
          PROVE  nft = config.nft /\ botListing'[v] # 0
      <4>1. CASE nft = config.nft /\ v = b
        BY <1>1, <3>1, <3>2, <4>1
      <4>2. CASE ~(nft = config.nft /\ v = b)
        <5>1. owner[nft][v] = Market
          BY <1>1, <3>1, <3>3, <4>2
        <5>2. nft = config.nft /\ botListing[v] # 0
          BY <5>1 DEF NoStrandedBot
        <5>3. QED
          BY <1>1, <3>1, <4>2, <5>2
      <4>3. QED
        BY <4>1, <4>2
    <3>4. QED
      BY <3>1, <3>3 DEF NoStrandedBot
  <2>2. ASSUME NEW u \in Users, NEW id \in DOMAIN listings, BuyBot(u, id)
        PROVE  NoStrandedBot'
    BY <2>2, Released, Addresses DEF BuyBot, ActiveIds, adminVars
  <2>3. ASSUME NEW s \in Users, NEW id \in DOMAIN listings, CancelListing(s, id)
        PROVE  NoStrandedBot'
    BY <2>3, Released, Addresses DEF CancelListing, ActiveIds, adminVars
  <2>4. ASSUME NEW id \in DOMAIN listings, ReclaimExpired(id)
        PROVE  NoStrandedBot'
    <3>1. listings[id].seller # Market
      BY <1>1, ListingAt, Addresses
    <3>2. QED
      BY <2>4, <3>1, Released DEF ReclaimExpired, ActiveIds, adminVars
  <2>5. ASSUME NEW s \in Users, NEW id \in DOMAIN listings, NEW p \in Prices,
               UpdatePrice(s, id, p)
        PROVE  NoStrandedBot'
    BY <2>5, NothingEscrowed DEF UpdatePrice, adminVars
  <2>6. ASSUME NEW n \in DOMAIN pages, CompactPage(n) PROVE NoStrandedBot'
    BY <1>2, <2>6 DEF CompactPage, adminVars
  <2>7. QED
    BY <1>3, <2>1, <2>2, <2>3, <2>4, <2>5, <2>6 DEF ListingStep
<1>4. CASE OfferStep
  <2>1. ASSUME NEW u \in Users, NEW b \in Bots, NEW p \in Prices,
               NEW c \in Currencies, NEW d \in OfferTerms, MakeOffer(u, b, p, c, d)
        PROVE  NoStrandedBot'
    BY <1>2, <2>1 DEF MakeOffer, adminVars
  <2>2. ASSUME NEW u \in Users, NEW o \in DOMAIN offers,
               CancelOffer(u, o) \/ DismissOffer(u, o)
        PROVE  NoStrandedBot'
    BY <1>2, <2>2 DEF CancelOffer, DismissOffer, adminVars
  <2>3. ASSUME NEW s \in Users, NEW o \in DOMAIN offers, AcceptOffer(s, o)
        PROVE  NoStrandedBot'
    <3> DEFINE b == offers[o].bot
               to == offers[o].buyer
    <3>1. b \in Bots /\ to \in Users /\ to # Market
      <4>1. TypeOK
        BY DEF IInv
      <4>2. b \in Bots /\ to \in Users
        BY <4>1, OfferAt DEF TypeOK
      <4>3. QED
        BY <4>2, Addresses
    <3>2. MoveBot(b, to) /\ config' = config
      BY <2>3 DEF AcceptOffer, adminVars
    <3>3. CASE UNCHANGED listingVars
      <4>1. \A nft \in Nfts, v \in Bots : owner'[nft][v] = Market => owner[nft][v] = Market
        BY <1>1, <3>1, <3>2 DEF MoveBot
      <4>2. QED
        BY <3>2, <3>3, <4>1, NothingEscrowed DEF listingVars
    <3>4. CASE HasActiveListing(b) /\ Deactivate(botListing[b])
      <4>1. botListing[b] \in ActiveIds(listings) /\ listings[botListing[b]].bot = b
        BY <3>1, <3>4 DEF HasActiveListing, IInv, Custody, BotIndexSound
      <4>2. QED
        BY <3>1, <3>2, <3>4, <4>1, Released
    <3>5. QED
      BY <2>3, <3>3, <3>4 DEF AcceptOffer
  <2>4. QED
    BY <1>4, <2>1, <2>2, <2>3 DEF OfferStep
<1>5. CASE AdminStep
  <2>1. ASSUME NEW nft \in Nfts, SetBotNft(nft) PROVE NoStrandedBot'
    <3>1. ActiveIds(listings) = {} /\ owner' = owner
      BY <2>1, NoneActive DEF SetBotNft, marketVars
    <3>2. \A b \in Bots : botListing[b] = 0
      BY <3>1 DEF IInv, Custody, BotIndexSound
    <3>3. \A other \in Nfts, b \in Bots : owner[other][b] # Market
      BY <3>2 DEF NoStrandedBot
    <3>4. QED
      BY <3>1, <3>3 DEF NoStrandedBot
  <2>2. CASE ~(\E nft \in Nfts : SetBotNft(nft))
    <3>1. UNCHANGED <<listingVars, owner>> /\ config'.nft = config.nft
      BY <1>1, <1>5, <2>2
      DEF AdminStep, WithdrawFees, SetFeeBps, ProposeAdmin, AcceptAdmin, SetPaused,
          SetListingCap, SetMinPrice, AddAllowedCurrency, RemoveAllowedCurrency,
          marketVars, adminVars
    <3>2. QED
      BY <1>2, <3>1
  <2>3. QED
    BY <2>1, <2>2
<1>6. CASE OutsideStep
  <2>1. ASSUME NEW nft \in Nfts, NEW b \in Bots, NEW to \in BotRecipients,
               TransferBot(nft, b, to)
        PROVE  NoStrandedBot'
    <3>1. UNCHANGED listingVars
      BY <2>1, ReportFindsNothing
    <3>2. owner' = [owner EXCEPT ![nft][b] = to] /\ config' = config /\ to # Market
      BY <2>1 DEF TransferBot, adminVars
    <3>3. \A n \in Nfts, v \in Bots : owner'[n][v] = Market => owner[n][v] = Market
      BY <1>1, <3>2
    <3>4. QED
      BY <3>1, <3>2, <3>3, NothingEscrowed DEF listingVars
  <2>2. ASSUME NEW nft \in Nfts, NEW b \in Burnable, BurnBot(nft, b)
        PROVE  NoStrandedBot'
    <3>1. /\ owner' = [owner EXCEPT ![nft][b] = None] /\ config' = config
          /\ botListing' = botListing
      BY <2>2 DEF BurnBot, adminVars, listingVars
    <3>2. \A n \in Nfts, v \in Bots : owner'[n][v] = Market => owner[n][v] = Market
      BY <1>1, <3>1, Addresses
    <3>3. QED
      BY <3>1, <3>2, NothingEscrowed
  <2>3. CASE \/ Tick
             \/ \E c \in Currencies, u \in Users, h \in Holders, a \in Payments : Pay(c, u, h, a)
    BY <1>2, <2>3 DEF Tick, Pay, adminVars
  <2>4. QED
    BY <1>6, <2>1, <2>2, <2>3 DEF OutsideStep
<1>7. CASE UNCHANGED vars
  BY <1>2, <1>7 DEF vars, adminVars
<1>8. QED
  BY <1>3, <1>4, <1>5, <1>6, <1>7 DEF Next

(* A bot in escrow can be given back: if nobody sends the contract a bot    *)
(* outside list_bot, it holds none without a listing that releases it, in   *)
(* the current NFT contract or in one it used before.                       *)
THEOREM NothingStranded == Spec => []NoStrandedBot
<1>1. Init => NoStrandedBot
  <2>1. SUFFICES ASSUME Init, NEW nft \in Nfts, NEW b \in Bots, owner[nft][b] = Market
                 PROVE  FALSE
    BY DEF NoStrandedBot
  <2>2. owner = InitOwner /\ InitOwner[nft][b] \in Users
    BY <2>1, BotsAssumption DEF Init
  <2>3. QED
    BY <2>1, <2>2, Addresses
<1>2. IInv /\ NoStrandedBot /\ [Next]_vars => NoStrandedBot'
  <2>1. Market \in BotRecipients => NoStrandedBot'
    BY DEF NoStrandedBot
  <2>2. QED
    BY <2>1, NoStrandedStep
<1>3. QED
  BY <1>1, <1>2, Invariant, PTL DEF Spec

-----------------------------------------------------------------------------
(* Ended listings and offers.                                               *)

ListingsKept ==
  /\ Len(listings') >= Len(listings)
  /\ \A id \in DOMAIN listings : ~listings[id].active => listings'[id] = listings[id]

OffersKept ==
  /\ Len(offers') >= Len(offers)
  /\ \A o \in DOMAIN offers : offers[o].status # "Active" => offers'[o] = offers[o]

LEMMA ListingsSame ==
  ASSUME IInv, listings' = listings
  PROVE  ListingsKept
BY LenProperties DEF IInv, TypeOK, ListingsKept

LEMMA OffersSame ==
  ASSUME IInv, offers' = offers
  PROVE  OffersKept
BY LenProperties DEF IInv, TypeOK, OffersKept

(* Only an active listing is rewritten.                                     *)
LEMMA ListingRewritten ==
  ASSUME IInv, NEW id \in ActiveIds(listings), NEW l,
         listings' = [listings EXCEPT ![id] = l], listings' \in Seq(Listing)
  PROVE  ListingsKept
<1>1. /\ Len(listings) \in Nat /\ DOMAIN listings = 1 .. Len(listings)
      /\ Len(listings') \in Nat /\ DOMAIN listings' = 1 .. Len(listings')
  BY LenProperties DEF IInv, TypeOK
<1>2. DOMAIN listings' = DOMAIN listings
  OBVIOUS
<1>3. Len(listings') = Len(listings)
  BY <1>1, <1>2
<1>4. \A j \in DOMAIN listings : ~listings[j].active => listings'[j] = listings[j]
  BY DEF ActiveIds
<1>5. QED
  BY <1>1, <1>3, <1>4 DEF ListingsKept

LEMMA ListingEnded ==
  ASSUME IInv, NEW id \in ActiveIds(listings), Deactivate(id)
  PROVE  ListingsKept
<1>1. listings' = [listings EXCEPT ![id] = [listings[id] EXCEPT !.active = FALSE]]
  BY DEF Deactivate
<1>2. listings' \in Seq(Listing)
  BY DeactivateType DEF IInv, ActiveIds
<1>3. QED
  BY <1>1, <1>2, ListingRewritten

LEMMA OfferClosed ==
  ASSUME IInv, NEW o \in DOMAIN offers, offers[o].status = "Active",
         NEW status \in {"Accepted", "Cancelled"}, CloseOffer(o, status)
  PROVE  OffersKept
<1> DEFINE closed == [offers[o] EXCEPT !.status = status]
<1>1. offers \in Seq(Offer) /\ offers[o] \in Offer /\ o \in 1 .. Len(offers)
  BY OfferAt DEF IInv, TypeOK
<1>2. closed \in Offer /\ offers' = [offers EXCEPT ![o] = closed]
  BY <1>1 DEF Offer, CloseOffer
<1>3. /\ Len(offers') = Len(offers) /\ Len(offers) \in Nat
      /\ DOMAIN offers = 1 .. Len(offers)
      /\ \A j \in 1 .. Len(offers) : j # o => offers'[j] = offers[j]
  BY <1>1, <1>2, ExceptSeq, LenProperties
<1>4. QED
  BY <1>3 DEF OffersKept

LEMMA PastStep ==
  ASSUME IInv, Next
  PROVE  PastKept
<1>1. SUFFICES ListingsKept /\ OffersKept
  BY DEF PastKept, ListingsKept, OffersKept
<1>2. CASE ListingStep
  <2>1. offers' = offers
    <3>1. \A s \in Users, b \in Bots, p \in Prices, c \in Currencies, d \in Durations :
            ListBot(s, b, p, c, d) => offers' = offers
      BY DEF ListBot, offerVars
    <3>2. \A u \in Users, id \in DOMAIN listings :
            BuyBot(u, id) \/ CancelListing(u, id) => offers' = offers
      BY DEF BuyBot, CancelListing, offerVars
    <3>3. \A id \in DOMAIN listings : ReclaimExpired(id) => offers' = offers
      BY DEF ReclaimExpired, offerVars
    <3>4. \A s \in Users, id \in DOMAIN listings, p \in Prices :
            UpdatePrice(s, id, p) => offers' = offers
      BY DEF UpdatePrice, offerVars
    <3>5. \A n \in DOMAIN pages : CompactPage(n) => offers' = offers
      BY DEF CompactPage, offerVars
    <3>6. QED
      BY <1>2, <3>1, <3>2, <3>3, <3>4, <3>5 DEF ListingStep
  <2>2. ListingsKept
    <3>1. ASSUME NEW s \in Users, NEW b \in Bots, NEW p \in Prices, NEW c \in Currencies,
                 NEW d \in Durations, ListBot(s, b, p, c, d)
          PROVE  ListingsKept
      <4>1. PICK l : listings' = Append(listings, l)
        BY <3>1 DEF ListBot
      <4>2. listings \in Seq(Listing) /\ listings' \in Seq(Listing)
        BY <3>1, ListBotType DEF IInv, TypeOK
      <4>3. /\ Len(listings) \in Nat /\ DOMAIN listings = 1 .. Len(listings)
            /\ Len(listings') = Len(listings) + 1
            /\ \A j \in 1 .. Len(listings) : listings'[j] = listings[j]
        BY <4>1, <4>2, LenProperties
      <4>4. QED
        BY <4>3 DEF ListingsKept
    <3>2. ASSUME NEW u \in Users, NEW id \in DOMAIN listings, BuyBot(u, id)
          PROVE  ListingsKept
      BY <3>2, ListingEnded DEF BuyBot, ActiveIds
    <3>3. ASSUME NEW s \in Users, NEW id \in DOMAIN listings, CancelListing(s, id)
          PROVE  ListingsKept
      BY <3>3, ListingEnded DEF CancelListing, ActiveIds
    <3>4. ASSUME NEW id \in DOMAIN listings, ReclaimExpired(id)
          PROVE  ListingsKept
      BY <3>4, ListingEnded DEF ReclaimExpired, ActiveIds
    <3>5. ASSUME NEW s \in Users, NEW id \in DOMAIN listings, NEW p \in Prices,
                 UpdatePrice(s, id, p)
          PROVE  ListingsKept
      <4>1. listings' = [listings EXCEPT ![id] = [listings[id] EXCEPT !.price = p]]
        BY <3>5 DEF UpdatePrice
      <4>2. id \in ActiveIds(listings)
        BY <3>5 DEF UpdatePrice, ActiveIds
      <4>3. listings' \in Seq(Listing)
        BY <3>5, UpdatePriceType DEF IInv, TypeOK
      <4>4. QED
        BY <4>1, <4>2, <4>3, ListingRewritten
    <3>6. ASSUME NEW n \in DOMAIN pages, CompactPage(n) PROVE ListingsKept
      BY <3>6, ListingsSame DEF CompactPage, listingVars
    <3>7. QED
      BY <1>2, <3>1, <3>2, <3>3, <3>4, <3>5, <3>6 DEF ListingStep
  <2>3. QED
    BY <2>1, <2>2, OffersSame
<1>3. CASE OfferStep
  <2>1. ASSUME NEW u \in Users, NEW b \in Bots, NEW p \in Prices,
               NEW c \in Currencies, NEW d \in OfferTerms, MakeOffer(u, b, p, c, d)
        PROVE  ListingsKept /\ OffersKept
    <3>1. PICK o : offers' = Append(offers, o)
      BY <2>1 DEF MakeOffer
    <3>2. offers \in Seq(Offer) /\ offers' \in Seq(Offer)
      BY <2>1, MakeOfferType DEF IInv, TypeOK
    <3>3. /\ Len(offers) \in Nat /\ DOMAIN offers = 1 .. Len(offers)
          /\ Len(offers') = Len(offers) + 1
          /\ \A j \in 1 .. Len(offers) : offers'[j] = offers[j]
      BY <3>1, <3>2, LenProperties
    <3>4. OffersKept
      BY <3>3 DEF OffersKept
    <3>5. QED
      BY <2>1, <3>4, ListingsSame DEF MakeOffer, listingVars
  <2>2. ASSUME NEW u \in Users, NEW o \in DOMAIN offers,
               CancelOffer(u, o) \/ DismissOffer(u, o)
        PROVE  ListingsKept /\ OffersKept
    BY <2>2, OfferClosed, ListingsSame DEF CancelOffer, DismissOffer, Refund, listingVars
  <2>3. ASSUME NEW s \in Users, NEW o \in DOMAIN offers, AcceptOffer(s, o)
        PROVE  ListingsKept /\ OffersKept
    <3>1. OffersKept
      BY <2>3, OfferClosed DEF AcceptOffer
    <3>2. offers[o].bot \in Bots
      BY OfferAt DEF IInv, TypeOK
    <3>3. CASE UNCHANGED listingVars
      BY <3>1, <3>3, ListingsSame DEF listingVars
    <3>4. CASE HasActiveListing(offers[o].bot) /\ Deactivate(botListing[offers[o].bot])
      BY <3>1, <3>2, <3>4, ListingEnded DEF HasActiveListing, IInv, Custody, BotIndexSound
    <3>5. QED
      BY <2>3, <3>3, <3>4 DEF AcceptOffer
  <2>4. QED
    BY <1>3, <2>1, <2>2, <2>3 DEF OfferStep
<1>4. CASE AdminStep
  <2>1. listings' = listings /\ offers' = offers
    BY <1>4 DEF AdminStep, WithdrawFees, SetFeeBps, SetBotNft, ProposeAdmin, AcceptAdmin,
                SetPaused, SetListingCap, SetMinPrice, AddAllowedCurrency,
                RemoveAllowedCurrency, marketVars, listingVars, offerVars
  <2>2. QED
    BY <2>1, ListingsSame, OffersSame
<1>5. CASE OutsideStep
  <2>1. ASSUME NEW nft \in Nfts, NEW b \in Bots, NEW to \in BotRecipients,
               TransferBot(nft, b, to)
        PROVE  listings' = listings /\ offers' = offers
    BY <2>1, ReportFindsNothing DEF TransferBot, listingVars, offerVars
  <2>2. listings' = listings /\ offers' = offers
    BY <1>5, <2>1 DEF OutsideStep, Tick, BurnBot, Pay, listingVars, offerVars
  <2>3. QED
    BY <2>2, ListingsSame, OffersSame
<1>6. QED
  BY <1>2, <1>3, <1>4, <1>5 DEF Next

(* An ended listing or offer never changes and never comes back, and no     *)
(* record disappears: a stale id can never be bought, repriced or refunded. *)
THEOREM HistoryIsFrozen == Spec => HistoryFrozen
<1>1. IInv /\ [Next]_vars => [PastKept]_vars
  BY PastStep
<1>2. QED
  BY <1>1, Invariant, PTL DEF Spec, HistoryFrozen

-----------------------------------------------------------------------------
(* What one step can do to the offers and to the listings.                  *)

LEMMA OfferEffect ==
  ASSUME IInv, [Next]_vars
  PROVE  \/ UNCHANGED offerVars
         \/ \E u \in Users, b \in Bots, p \in Prices, c \in Currencies, d \in OfferTerms :
              MakeOffer(u, b, p, c, d)
         \/ \E o \in ActiveOffers, status \in {"Accepted", "Cancelled"} :
              CloseOffer(o, status)
<1>1. CASE UNCHANGED vars
  BY <1>1 DEF vars
<1>2. CASE ListingStep
  <2>1. ASSUME NEW u \in Users, NEW id \in DOMAIN listings,
               BuyBot(u, id) \/ CancelListing(u, id) \/ ReclaimExpired(id)
        PROVE  UNCHANGED offerVars
    BY <2>1 DEF BuyBot, CancelListing, ReclaimExpired
  <2>2. ASSUME NEW id \in DOMAIN listings, ReclaimExpired(id)
        PROVE  UNCHANGED offerVars
    BY <2>2 DEF ReclaimExpired
  <2>3. ASSUME NEW s, NEW id, NEW p, UpdatePrice(s, id, p)
        PROVE  UNCHANGED offerVars
    BY <2>3 DEF UpdatePrice
  <2>4. ASSUME NEW s, NEW b, NEW p, NEW c, NEW d, ListBot(s, b, p, c, d)
        PROVE  UNCHANGED offerVars
    BY <2>4 DEF ListBot
  <2>5. ASSUME NEW n, CompactPage(n)
        PROVE  UNCHANGED offerVars
    BY <2>5 DEF CompactPage
  <2>6. QED
    BY <1>2, <2>1, <2>2, <2>3, <2>4, <2>5 DEF ListingStep
<1>3. CASE OfferStep
  <2>1. ASSUME NEW u \in Users, NEW o \in DOMAIN offers,
               CancelOffer(u, o) \/ DismissOffer(u, o)
        PROVE  o \in ActiveOffers /\ CloseOffer(o, "Cancelled")
    BY <2>1 DEF CancelOffer, DismissOffer, Refund, ActiveOffers
  <2>2. ASSUME NEW s \in Users, NEW o \in DOMAIN offers, AcceptOffer(s, o)
        PROVE  o \in ActiveOffers /\ CloseOffer(o, "Accepted")
    BY <2>2 DEF AcceptOffer, ActiveOffers
  <2>3. QED
    BY <1>3, <2>1, <2>2 DEF OfferStep
<1>4. CASE AdminStep
  BY <1>4 DEF AdminStep, WithdrawFees, SetFeeBps, SetBotNft, ProposeAdmin, AcceptAdmin,
              SetPaused, SetListingCap, SetMinPrice, AddAllowedCurrency,
              RemoveAllowedCurrency, marketVars
<1>5. CASE OutsideStep
  BY <1>5 DEF OutsideStep, Tick, TransferBot, BurnBot, Pay
<1>6. QED
  BY <1>1, <1>2, <1>3, <1>4, <1>5 DEF Next

LEMMA ListingEffect ==
  ASSUME IInv, [Next]_vars
  PROVE  \/ UNCHANGED <<listings, floor, pages>>
         \/ \E s \in Users, b \in Bots, p \in Prices, c \in Currencies, d \in Durations :
              ListBot(s, b, p, c, d)
         \/ \E id \in ActiveIds(listings) : Deactivate(id) /\ UNCHANGED pages
         \/ \E s \in Users, id \in ActiveIds(listings), p \in Prices : UpdatePrice(s, id, p)
         \/ \E n \in DOMAIN pages : CompactPage(n)
<1>1. CASE UNCHANGED vars
  BY <1>1 DEF vars, listingVars, indexVars
<1>2. CASE ListingStep
  <2>1. ASSUME NEW u \in Users, NEW id \in DOMAIN listings,
               BuyBot(u, id) \/ CancelListing(u, id) \/ ReclaimExpired(id)
        PROVE  id \in ActiveIds(listings) /\ Deactivate(id) /\ UNCHANGED pages
    BY <2>1 DEF BuyBot, CancelListing, ReclaimExpired, ActiveIds, indexVars
  <2>2. ASSUME NEW s \in Users, NEW id \in DOMAIN listings, NEW p \in Prices,
               UpdatePrice(s, id, p)
        PROVE  id \in ActiveIds(listings)
    BY <2>2 DEF UpdatePrice, ActiveIds
  <2>3. ASSUME NEW id \in DOMAIN listings, ReclaimExpired(id)
        PROVE  id \in ActiveIds(listings) /\ Deactivate(id) /\ UNCHANGED pages
    BY <2>3 DEF ReclaimExpired, ActiveIds, indexVars
  <2>4. QED
    BY <1>2, <2>1, <2>2, <2>3 DEF ListingStep
<1>3. CASE OfferStep
  <2>1. ASSUME NEW s \in Users, NEW o \in DOMAIN offers, AcceptOffer(s, o),
               ~(UNCHANGED <<listings, floor, pages>>)
        PROVE  \E id \in ActiveIds(listings) : Deactivate(id) /\ UNCHANGED pages
    <3>1. offers[o].bot \in Bots
      BY OfferAt DEF IInv, TypeOK
    <3>2. HasActiveListing(offers[o].bot) /\ Deactivate(botListing[offers[o].bot])
          /\ UNCHANGED pages
      BY <2>1 DEF AcceptOffer, listingVars, indexVars
    <3>3. QED
      BY <3>1, <3>2 DEF HasActiveListing, IInv, Custody, BotIndexSound
  <2>2. ASSUME NEW u \in Users, NEW o \in DOMAIN offers,
               CancelOffer(u, o) \/ DismissOffer(u, o)
        PROVE  UNCHANGED <<listings, floor, pages>>
    BY <2>2 DEF CancelOffer, DismissOffer, listingVars, indexVars
  <2>3. ASSUME NEW u, NEW b, NEW p, NEW c, NEW d, MakeOffer(u, b, p, c, d)
        PROVE  UNCHANGED <<listings, floor, pages>>
    BY <2>3 DEF MakeOffer, listingVars, indexVars
  <2>4. QED
    BY <1>3, <2>1, <2>2, <2>3 DEF OfferStep
<1>4. CASE AdminStep
  BY <1>4 DEF AdminStep, WithdrawFees, SetFeeBps, SetBotNft, ProposeAdmin, AcceptAdmin,
              SetPaused, SetListingCap, SetMinPrice, AddAllowedCurrency,
              RemoveAllowedCurrency, marketVars, listingVars, indexVars
<1>5. CASE OutsideStep
  <2>1. ASSUME NEW nft \in Nfts, NEW b \in Bots, NEW to \in BotRecipients,
               TransferBot(nft, b, to)
        PROVE  UNCHANGED <<listings, floor, pages>>
    BY <2>1, ReportFindsNothing DEF TransferBot, listingVars, indexVars
  <2>2. QED
    BY <1>5, <2>1 DEF OutsideStep, Tick, BurnBot, Pay, listingVars, indexVars
<1>6. QED
  BY <1>1, <1>2, <1>3, <1>4, <1>5 DEF Next

(* What closing an offer changes of its record.                             *)
LEMMA Closed ==
  ASSUME TypeOK, NEW o \in ActiveOffers, NEW status \in {"Accepted", "Cancelled"},
         CloseOffer(o, status)
  PROVE  /\ DOMAIN offers' = DOMAIN offers
         /\ \A j \in DOMAIN offers \ {o} : offers'[j] = offers[j]
         /\ \A j \in DOMAIN offers : /\ offers'[j].buyer = offers[j].buyer
                                     /\ offers'[j].bot = offers[j].bot
                                     /\ offers'[j].amount = offers[j].amount
                                     /\ offers'[j].currency = offers[j].currency
         /\ ActiveOffers' = ActiveOffers \ {o}
<1> DEFINE closed == [offers[o] EXCEPT !.status = status]
<1>1. /\ offers[o] \in Offer /\ o \in DOMAIN offers
      /\ offers' = [offers EXCEPT ![o] = closed]
  BY OfferAt DEF TypeOK, ActiveOffers, CloseOffer
<1>2. /\ closed.buyer = offers[o].buyer /\ closed.bot = offers[o].bot
      /\ closed.amount = offers[o].amount /\ closed.currency = offers[o].currency
      /\ closed.status = status
  BY <1>1, Zenon DEF Offer
<1> HIDE DEF closed
<1>3. /\ DOMAIN offers' = DOMAIN offers /\ offers'[o] = closed
      /\ \A j \in DOMAIN offers \ {o} : offers'[j] = offers[j]
  BY <1>1
<1>4. ActiveOffers' = ActiveOffers \ {o}
  BY <1>1, <1>2, <1>3 DEF ActiveOffers
<1>5. QED
  BY <1>2, <1>3, <1>4

LEMMA Ended ==
  ASSUME TypeOK, NEW id \in ActiveIds(listings), Deactivate(id)
  PROVE  /\ DOMAIN listings' = DOMAIN listings
         /\ \A j \in DOMAIN listings \ {id} : listings'[j] = listings[j]
         /\ ActiveIds(listings') = ActiveIds(listings) \ {id}
<1> DEFINE ended == [listings[id] EXCEPT !.active = FALSE]
<1>1. /\ listings[id] \in Listing /\ id \in DOMAIN listings
      /\ listings' = [listings EXCEPT ![id] = ended]
  BY ListingAt DEF TypeOK, ActiveIds, Deactivate
<1>2. ~ended.active
  BY <1>1, Zenon DEF Listing
<1> HIDE DEF ended
<1>3. /\ DOMAIN listings' = DOMAIN listings /\ listings'[id] = ended
      /\ \A j \in DOMAIN listings \ {id} : listings'[j] = listings[j]
  BY <1>1
<1>4. ActiveIds(listings') = ActiveIds(listings) \ {id}
  BY <1>1, <1>2, <1>3 DEF ActiveIds
<1>5. QED
  BY <1>3, <1>4

-----------------------------------------------------------------------------
(* The open-offer index of a bot.                                           *)

LEMMA AppendOfferId ==
  ASSUME NEW s \in Seq(OfferIds), NEW x \in OfferIds,
         Ascending(s), \A y \in IdsOf(s) : y < x
  PROVE  /\ Append(s, x) \in Seq(OfferIds) /\ IdsOf(Append(s, x)) = IdsOf(s) \cup {x}
         /\ Ascending(Append(s, x))
<1>1. OfferIds \subseteq Nat
  BY BoundsAssumption DEF OfferIds
<1> HIDE DEF OfferIds
<1>2. QED
  BY <1>1, AppendAscending

LEMMA MakeOfferIndex ==
  ASSUME TypeOK, OfferIndexExact, NEW u \in Users, NEW b \in Bots, NEW p \in Prices,
         NEW c \in Currencies, NEW d \in OfferTerms, MakeOffer(u, b, p, c, d)
  PROVE  OfferIndexExact'
<1> DEFINE o == Len(offers) + 1
           new == [buyer |-> u, bot |-> b, amount |-> p, currency |-> c,
                   expires |-> now + d, status |-> "Active"]
           A == ActiveOffers
<1>1. /\ offers' = Append(offers, new) /\ Len(offers) < MaxOffers
      /\ botOffers' = [botOffers EXCEPT ![b] = Append(botOffers[b], o)]
      /\ Len(botOffers[b]) < MaxOffersPerBot
  BY DEF MakeOffer
<1>2. offers \in Seq(Offer) /\ new \in Offer
  BY CallerAssumption DEF TypeOK, Offer, MakeOffer
<1>3. /\ Len(offers) \in Nat /\ DOMAIN offers = 1 .. Len(offers)
      /\ DOMAIN offers' = DOMAIN offers \cup {o} /\ o \notin DOMAIN offers
      /\ offers'[o] = new /\ \A j \in DOMAIN offers : offers'[j] = offers[j]
  BY <1>1, <1>2, Appended
<1>4. new.status = "Active" /\ new.bot = b
  OBVIOUS
<1> HIDE DEF new
<1>5. ActiveOffers' = A \cup {o} /\ A \subseteq DOMAIN offers
  BY <1>3, <1>4 DEF ActiveOffers
<1>6. /\ botOffers \in [Bots -> Seq(OfferIds)] /\ botOffers[b] \in Seq(OfferIds)
      /\ OfferIds \subseteq Nat /\ o \in OfferIds /\ MaxOffers \in Nat
      /\ MaxOffersPerBot \in Nat
  BY <1>1, <1>3, BoundsAssumption DEF OfferIndexExact, OfferIds
<1>7. \A y \in IdsOf(botOffers[b]) : y < o
  BY <1>3, <1>5 DEF OfferIndexExact
<1>8. /\ Append(botOffers[b], o) \in Seq(OfferIds)
      /\ IdsOf(Append(botOffers[b], o)) = IdsOf(botOffers[b]) \cup {o}
      /\ Ascending(Append(botOffers[b], o))
  <2>1. Ascending(botOffers[b])
    BY DEF OfferIndexExact
  <2> HIDE DEF o
  <2>2. QED
    BY <1>6, <1>7, <2>1, AppendOfferId
<1>9. botOffers' \in [Bots -> Seq(OfferIds)]
  BY <1>1, <1>6, <1>8
<1>10. ASSUME NEW v \in Bots
       PROVE  /\ IdsOf(botOffers'[v]) = {q \in ActiveOffers' : offers'[q].bot = v}
              /\ Ascending(botOffers'[v])
              /\ Len(botOffers'[v]) <= MaxOffersPerBot
  <2>1. /\ IdsOf(botOffers[v]) = {q \in A : offers[q].bot = v}
        /\ Ascending(botOffers[v]) /\ Len(botOffers[v]) <= MaxOffersPerBot
    BY DEF OfferIndexExact
  <2>2. CASE v = b
    <3>1. botOffers'[v] = Append(botOffers[v], o)
      BY <1>1, <1>6, <2>2
    <3>2. Len(botOffers'[v]) <= MaxOffersPerBot
      BY <1>1, <1>6, <2>2, <3>1, Appended
    <3>3. {q \in ActiveOffers' : offers'[q].bot = v} = {q \in A : offers[q].bot = v} \cup {o}
      BY <1>3, <1>4, <1>5, <2>2
    <3>4. QED
      BY <1>8, <2>1, <2>2, <3>1, <3>2, <3>3
  <2>3. CASE v # b
    <3>1. botOffers'[v] = botOffers[v]
      BY <1>1, <1>6, <2>3
    <3>2. {q \in ActiveOffers' : offers'[q].bot = v} = {q \in A : offers[q].bot = v}
      BY <1>3, <1>4, <1>5, <2>3
    <3>3. QED
      BY <2>1, <3>1, <3>2
  <2>4. QED
    BY <2>2, <2>3
<1>11. QED
  BY <1>9, <1>10 DEF OfferIndexExact

LEMMA CloseOfferIndex ==
  ASSUME TypeOK, OfferIndexExact, NEW o \in ActiveOffers,
         NEW status \in {"Accepted", "Cancelled"}, CloseOffer(o, status)
  PROVE  OfferIndexExact'
<1> DEFINE b == offers[o].bot
           kept == Without(botOffers[b], {o})
           A == ActiveOffers
<1>1. b \in Bots
  BY OfferAt DEF TypeOK, ActiveOffers
<1>2. /\ botOffers \in [Bots -> Seq(OfferIds)] /\ botOffers[b] \in Seq(OfferIds)
      /\ OfferIds \subseteq Nat
  BY <1>1 DEF OfferIndexExact, OfferIds
<1>3. botOffers' = [botOffers EXCEPT ![b] = kept]
  BY DEF CloseOffer
<1>4. /\ kept \in Seq(OfferIds) /\ Len(kept) <= Len(botOffers[b])
      /\ IdsOf(kept) = IdsOf(botOffers[b]) \ {o}
      /\ Ascending(botOffers[b]) => Ascending(kept)
  BY <1>2, WithoutKeeps
<1> HIDE DEF kept
<1>5. /\ ActiveOffers' = A \ {o} /\ A \subseteq DOMAIN offers
      /\ \A j \in DOMAIN offers : offers'[j].bot = offers[j].bot
  BY Closed DEF ActiveOffers
<1>6. ASSUME NEW v \in Bots
      PROVE  /\ IdsOf(botOffers'[v]) = {q \in ActiveOffers' : offers'[q].bot = v}
             /\ Ascending(botOffers'[v])
             /\ Len(botOffers'[v]) <= MaxOffersPerBot
  <2>1. /\ IdsOf(botOffers[v]) = {q \in A : offers[q].bot = v}
        /\ Ascending(botOffers[v]) /\ Len(botOffers[v]) <= MaxOffersPerBot
    BY DEF OfferIndexExact
  <2>2. {q \in ActiveOffers' : offers'[q].bot = v} = {q \in A : offers[q].bot = v} \ {o}
    BY <1>5
  <2>3. CASE v = b
    <3>1. botOffers'[v] = kept
      BY <1>1, <1>2, <1>3, <2>3
    <3>2. Len(kept) \in Nat /\ Len(botOffers[v]) \in Nat /\ MaxOffersPerBot \in Nat
      BY <1>2, <1>4, <2>3, LenProperties, BoundsAssumption
    <3>3. QED
      BY <1>4, <2>1, <2>2, <2>3, <3>1, <3>2
  <2>4. CASE v # b
    <3>1. botOffers'[v] = botOffers[v]
      BY <1>1, <1>2, <1>3, <2>4
    <3>2. {q \in A : offers[q].bot = v} \ {o} = {q \in A : offers[q].bot = v}
      BY <2>4
    <3>3. QED
      BY <2>1, <2>2, <3>1, <3>2
  <2>5. QED
    BY <2>3, <2>4
<1>7. botOffers' \in [Bots -> Seq(OfferIds)]
  BY <1>1, <1>2, <1>3, <1>4
<1>8. QED
  BY <1>6, <1>7 DEF OfferIndexExact

LEMMA OfferIndexInit ==
  ASSUME Init
  PROVE  OfferIndexExact
<1>1. offers = << >> /\ botOffers = [b \in Bots |-> << >>]
  BY DEF Init
<1>2. << >> \in Seq(OfferIds) /\ Len(<< >>) = 0 /\ DOMAIN << >> = {}
  BY EmptySeq
<1>3. ActiveOffers = {} /\ IdsOf(<< >>) = {} /\ Ascending(<< >>)
  BY <1>1, <1>2 DEF ActiveOffers, IdsOf, Ascending
<1>4. QED
  BY <1>1, <1>2, <1>3, BoundsAssumption DEF OfferIndexExact

LEMMA OfferIndexStep ==
  ASSUME IInv, OfferIndexExact, [Next]_vars
  PROVE  OfferIndexExact'
<1>1. CASE UNCHANGED offerVars
  BY <1>1 DEF OfferIndexExact, ActiveOffers, offerVars
<1>2. CASE ~(UNCHANGED offerVars)
  BY <1>2, OfferEffect, MakeOfferIndex, CloseOfferIndex DEF IInv
<1>3. QED
  BY <1>1, <1>2

(* The index that make_offer counts against the limit and the clients read  *)
(* names the open offers of a bot and nothing else, oldest first, however   *)
(* they were accepted, cancelled or dismissed.                              *)
THEOREM OfferIndexIsExact == Spec => []OfferIndexExact
<1>1. Init => OfferIndexExact
  BY OfferIndexInit
<1>2. IInv /\ OfferIndexExact /\ [Next]_vars => OfferIndexExact'
  BY OfferIndexStep
<1>3. QED
  BY <1>1, <1>2, Invariant, PTL DEF Spec

-----------------------------------------------------------------------------
(* The paged id index.                                                      *)

(* PagesSound alone does not say that the next id is larger than every      *)
(* indexed one.                                                             *)
PagesInv == PagesSound /\ IndexedIds(pages) \subseteq DOMAIN listings

LEMMA AppendListingIdOrders ==
  ASSUME NEW index, NEW T, NEW id, NewId(index, T, PageSize, id), PageSize \in Nat
  PROVE  LET new == AppendListingId(index, id) IN
         /\ IsIndex(new, T, PageSize)
         /\ IndexedIds(new) = IndexedIds(index) \cup {id}
<1>1. CASE index = << >> \/ Len(index[Len(index)]) >= PageSize
  <2>1. AppendListingId(index, id) = OnNewPage(index, id)
    BY <1>1 DEF AppendListingId, OnNewPage
  <2>2. QED
    BY <2>1, PageOpened
<1>2. CASE ~(index = << >> \/ Len(index[Len(index)]) >= PageSize)
  <2>1. Len(index[Len(index)]) < PageSize
    <3>1. index \in Seq(Seq(T))
      BY DEF NewId, IsIndex
    <3>2. index[Len(index)] \in Seq(T)
      BY <1>2, <3>1, LenProperties, ElementOfSeq, EmptySeq
    <3>3. QED
      BY <1>2, <3>2, LenProperties
  <2>2. AppendListingId(index, id) = OnLastPage(index, id)
    BY <1>2 DEF AppendListingId, OnLastPage
  <2>3. QED
    BY <1>2, <2>1, <2>2, LastPageGrows
<1>3. QED
  BY <1>1, <1>2

LEMMA PagesShape ==
  PagesSound <=> /\ pages \in Seq(Seq(ListingIds)) /\ OrderedPages(pages, PageSize)
                 /\ ActiveIds(listings) \subseteq IndexedIds(pages)
BY DEF PagesSound, OrderedPages

LEMMA ListBotPages ==
  ASSUME TypeOK, PagesInv, NEW s \in Users, NEW b \in Bots, NEW p \in Prices,
         NEW c \in Currencies, NEW d \in Durations, ListBot(s, b, p, c, d)
  PROVE  PagesInv'
<1> DEFINE id == Len(listings) + 1
           new == [seller |-> s, bot |-> b, tier |-> TierOf[config.nft][b], price |-> p,
                   currency |-> c, active |-> TRUE, expires |-> now + d]
<1>1. /\ listings' = Append(listings, new) /\ Len(listings) < MaxListings
      /\ pages' = AppendListingId(pages, id)
  BY DEF ListBot
<1>2. listings \in Seq(Listing) /\ listings' \in Seq(Listing) /\ new \in Listing
  <2>1. listings' \in Seq(Listing) /\ listings \in Seq(Listing)
    BY ListBotType DEF TypeOK
  <2>2. Len(listings) \in Nat /\ id \in DOMAIN listings' /\ listings'[id] = new
    BY <1>1, <2>1, AppendProperties, LenProperties
  <2>3. QED
    BY <2>1, <2>2, ElementOfSeq, LenProperties
<1>3. /\ Len(listings) \in Nat /\ DOMAIN listings = 1 .. Len(listings)
      /\ DOMAIN listings' = DOMAIN listings \cup {id} /\ id \notin DOMAIN listings
      /\ \A j \in DOMAIN listings : listings'[j] = listings[j]
  BY <1>1, <1>2, Appended
<1>4. ActiveIds(listings') \subseteq ActiveIds(listings) \cup {id}
  BY <1>3 DEF ActiveIds
<1>5. /\ ListingIds \subseteq Nat /\ id \in ListingIds
      /\ \A i \in IndexedIds(pages) : i < id
  BY <1>1, <1>3, BoundsAssumption DEF PagesInv, ListingIds
<1>6. /\ pages' \in Seq(Seq(ListingIds)) /\ OrderedPages(pages', PageSize)
      /\ IndexedIds(pages') = IndexedIds(pages) \cup {id}
  <2>1. pages \in Seq(Seq(ListingIds)) /\ OrderedPages(pages, PageSize)
    BY PagesShape DEF PagesInv
  <2>2. ListingIds \subseteq Nat /\ id \in ListingIds
    BY <1>5
  <2>3. \A i \in IndexedIds(pages) : i < id
    BY <1>5
  <2> HIDE DEF id
  <2>4. NewId(pages, ListingIds, PageSize, id) /\ PageSize \in Nat
    BY <2>1, <2>2, <2>3, PageSizeAssumption DEF NewId, IsIndex
  <2>5. /\ IsIndex(AppendListingId(pages, id), ListingIds, PageSize)
        /\ IndexedIds(AppendListingId(pages, id)) = IndexedIds(pages) \cup {id}
    BY <2>4, AppendListingIdOrders
  <2>6. QED
    BY <1>1, <2>5 DEF IsIndex
<1>7. QED
  BY <1>3, <1>4, <1>6 DEF PagesInv, PagesSound, OrderedPages

LEMMA CompactPagePages ==
  ASSUME TypeOK, PagesInv, NEW n \in DOMAIN pages, CompactPage(n)
  PROVE  PagesInv'
<1> DEFINE live == ActiveIds(listings)
<1>1. pages' = CompactedAt(pages, n, live) /\ listings' = listings
  BY DEF CompactPage, CompactedAt, listingVars
<1>2. IsIndex(pages, ListingIds, PageSize) /\ live \subseteq IndexedIds(pages)
  BY PagesShape DEF PagesInv, IsIndex, ListingIds
<1>3. PageSize \in Nat
  BY PageSizeAssumption
<1> HIDE DEF live
<1>4. /\ IsIndex(pages', ListingIds, PageSize) /\ IndexedIds(pages') \subseteq IndexedIds(pages)
      /\ live \subseteq IndexedIds(pages')
  BY <1>1, <1>2, <1>3, PageCompacted
<1>5. PagesSound'
  BY <1>1, <1>4 DEF PagesSound, IsIndex, OrderedPages, live
<1>6. QED
  BY <1>1, <1>4, <1>5 DEF PagesInv

-----------------------------------------------------------------------------
(* The floor of a tier.                                                     *)

OnSale(ls, t) == {id \in ActiveIds(ls) : ls[id].tier = t}

FloorIs(f, ls, t) ==
  IF OnSale(ls, t) = {} THEN f = NoFloor
  ELSE /\ f.id \in OnSale(ls, t)
       /\ f.price = ls[f.id].price
       /\ \A id \in OnSale(ls, t) : f.price <= ls[id].price

(* list_bot reads a floor price of 0 as "no floor": right because no listing *)
(* is free.                                                                 *)
PricesPositive == \A id \in ActiveIds(listings) : listings[id].price > 0

FloorInv == FloorExact /\ PricesPositive

LEMMA FloorShape ==
  FloorExact <=> \A t \in Tiers : FloorIs(floor[t], listings, t)
BY DEF FloorExact, FloorIs, OnSale

(* A rescan finds the floor because every active listing is indexed.        *)
LEMMA RescanIsFloor ==
  ASSUME NEW ls \in Seq(Listing), NEW t, ActiveIds(ls) \subseteq IndexedIds(pages)
  PROVE  FloorIs(ScanFloor(ls, t), ls, t)
<1>1. OnSale(ls, t) = {id \in IndexedIds(pages) \cap ActiveIds(ls) : ls[id].tier = t}
  BY DEF OnSale
<1>2. CASE OnSale(ls, t) = {}
  <2>1. ScanFloor(ls, t) = NoFloor
    BY <1>1, <1>2, ScanFloorFinds
  <2>2. QED
    BY <1>2, <2>1 DEF FloorIs
<1>3. CASE OnSale(ls, t) # {}
  <2>1. PICK found \in OnSale(ls, t) :
          /\ ScanFloor(ls, t) = [price |-> ls[found].price, id |-> found]
          /\ \A j \in OnSale(ls, t) : ls[found].price <= ls[j].price
    BY <1>1, <1>3, ScanFloorFinds
  <2>2. QED
    BY <1>3, <2>1 DEF FloorIs
<1>4. QED
  BY <1>2, <1>3

(* A tier none of whose active listings changes keeps its floor.            *)
LEMMA OtherTier ==
  ASSUME NEW f, NEW ls, NEW new, NEW t, FloorIs(f, ls, t),
         OnSale(new, t) = OnSale(ls, t),
         \A id \in OnSale(ls, t) : new[id].price = ls[id].price
  PROVE  FloorIs(f, new, t)
BY DEF FloorIs

(* What an existing floor says of the active listings of its tier.          *)
LEMMA FloorKnown ==
  ASSUME TypeOK, FloorInv, NEW t \in Tiers
  PROVE  /\ floor[t].price \in Nat /\ FloorIs(floor[t], listings, t)
         /\ floor[t].price = 0 <=> OnSale(listings, t) = {}
         /\ \A id \in OnSale(listings, t) :
              /\ listings[id].price \in Nat /\ listings[id].price > 0
              /\ floor[t].price <= listings[id].price
<1>1. floor[t].price \in Nat /\ FloorIs(floor[t], listings, t)
  BY FloorShape DEF TypeOK, FloorInv
<1>2. \A id \in OnSale(listings, t) : listings[id].price \in Nat /\ listings[id].price > 0
  BY ListingAt DEF TypeOK, FloorInv, PricesPositive, OnSale, ActiveIds
<1>3. QED
  BY <1>1, <1>2 DEF FloorIs, NoFloor

LEMMA ListBotFloor ==
  ASSUME TypeOK, FloorInv, NEW s \in Users, NEW b \in Bots, NEW p \in Prices,
         NEW c \in Currencies, NEW d \in Durations, ListBot(s, b, p, c, d)
  PROVE  FloorInv'
<1> DEFINE id == Len(listings) + 1
           tier == TierOf[config.nft][b]
           new == [seller |-> s, bot |-> b, tier |-> tier, price |-> p,
                   currency |-> c, active |-> TRUE, expires |-> now + d]
           entry == [price |-> p, id |-> id]
<1>1. /\ listings' = Append(listings, new) /\ p > 0 /\ p \in Nat
      /\ floor' = IF floor[tier].price = 0 \/ p < floor[tier].price
                  THEN [floor EXCEPT ![tier] = entry] ELSE floor
  BY CallerAssumption DEF ListBot
<1>2. tier \in Tiers /\ floor \in [Tiers -> [price : Nat, id : Nat]]
  BY BotsAssumption DEF TypeOK
<1>3. /\ listings \in Seq(Listing) /\ listings' \in Seq(Listing)
  BY ListBotType DEF TypeOK
<1>4. /\ DOMAIN listings' = DOMAIN listings \cup {id} /\ id \notin DOMAIN listings
      /\ listings'[id] = new /\ \A j \in DOMAIN listings : listings'[j] = listings[j]
  <2>1. /\ Len(listings) \in Nat /\ DOMAIN listings = 1 .. Len(listings)
        /\ DOMAIN listings' = 1 .. id
        /\ listings'[id] = new /\ \A j \in 1 .. Len(listings) : listings'[j] = listings[j]
    BY <1>1, <1>3, AppendProperties, LenProperties
  <2>2. QED
    BY <2>1
<1>5. new.active /\ new.tier = tier /\ new.price = p
  OBVIOUS
<1>6. entry.price = p /\ entry.id = id
  OBVIOUS
<1> HIDE DEF new, tier, id, entry
<1>7. ActiveIds(listings') = ActiveIds(listings) \cup {id}
  BY <1>4, <1>5 DEF ActiveIds
<1>8. PricesPositive'
  BY <1>1, <1>4, <1>5, <1>7 DEF FloorInv, PricesPositive, ActiveIds
<1>9. ASSUME NEW t \in Tiers PROVE FloorIs(floor'[t], listings', t)
  <2>1. /\ floor[t].price \in Nat /\ FloorIs(floor[t], listings, t)
        /\ floor[t].price = 0 <=> OnSale(listings, t) = {}
        /\ \A j \in OnSale(listings, t) :
             listings[j].price \in Nat /\ floor[t].price <= listings[j].price
    BY FloorKnown
  <2>2. \A j \in OnSale(listings, t) : listings'[j] = listings[j]
    BY <1>4 DEF OnSale, ActiveIds
  <2>3. CASE t # tier
    <3>1. OnSale(listings', t) = OnSale(listings, t) /\ floor'[t] = floor[t]
      BY <1>1, <1>2, <1>4, <1>5, <1>7, <2>3 DEF OnSale, ActiveIds
    <3>2. QED
      BY <2>1, <2>2, <3>1, OtherTier
  <2>4. CASE t = tier
    <3>1. OnSale(listings', t) = OnSale(listings, t) \cup {id}
      BY <1>4, <1>5, <1>7, <2>4 DEF OnSale, ActiveIds
    <3>2. CASE floor[tier].price = 0 \/ p < floor[tier].price
      <4>1. floor'[t] = entry
        BY <1>1, <1>2, <2>4, <3>2
      <4>2. ASSUME NEW j \in OnSale(listings, t) PROVE p <= listings'[j].price
        <5>1. listings[j].price \in Nat /\ floor[t].price <= listings[j].price
          BY <2>1
        <5>2. floor[t].price # 0
          BY <2>1
        <5>3. listings'[j].price = listings[j].price
          BY <2>2
        <5>4. p < floor[t].price
          BY <2>4, <3>2, <5>2
        <5>5. QED
          BY <1>1, <2>1, <5>1, <5>3, <5>4
      <4>3. ASSUME NEW j \in OnSale(listings', t)
            PROVE  floor'[t].price <= listings'[j].price
        <5>1. CASE j = id
          BY <1>1, <1>4, <1>5, <1>6, <4>1, <5>1
        <5>2. CASE j \in OnSale(listings, t)
          BY <1>6, <4>1, <4>2, <5>2
        <5>3. QED
          BY <3>1, <5>1, <5>2
      <4>4. /\ OnSale(listings', t) # {}
            /\ floor'[t].id \in OnSale(listings', t)
            /\ floor'[t].price = listings'[floor'[t].id].price
        BY <1>4, <1>5, <1>6, <3>1, <4>1
      <4>5. QED
        BY <4>3, <4>4 DEF FloorIs
    <3>3. CASE ~(floor[tier].price = 0 \/ p < floor[tier].price)
      <4>1. floor'[t] = floor[t] /\ floor[t].price <= p
        BY <1>1, <2>1, <2>4, <3>3
      <4>2. OnSale(listings, t) # {}
        BY <2>1, <2>4, <3>3
      <4>3. /\ floor[t].id \in OnSale(listings, t)
            /\ floor[t].price = listings[floor[t].id].price
        BY <2>1, <4>2 DEF FloorIs
      <4>4. QED
        BY <1>4, <1>5, <2>1, <2>2, <3>1, <4>1, <4>3 DEF FloorIs
    <3>4. QED
      BY <3>2, <3>3
  <2>5. QED
    BY <2>3, <2>4
<1>10. FloorExact'
  BY <1>9 DEF FloorExact, FloorIs, OnSale
<1>11. QED
  BY <1>8, <1>10 DEF FloorInv

LEMMA DeactivateFloor ==
  ASSUME TypeOK, PagesInv, FloorInv, NEW id \in ActiveIds(listings), Deactivate(id)
  PROVE  FloorInv'
<1> DEFINE tier == listings[id].tier
           retired == [listings EXCEPT ![id].active = FALSE]
<1>1. /\ listings' = retired
      /\ floor' = IF floor[tier].id = id
                  THEN [floor EXCEPT ![tier] = ScanFloor(retired, tier)] ELSE floor
  BY DEF Deactivate
<1>2. tier \in Tiers /\ floor \in [Tiers -> [price : Nat, id : Nat]]
  BY ListingAt DEF TypeOK, ActiveIds
<1>3. /\ \A j \in DOMAIN listings \ {id} : listings'[j] = listings[j]
      /\ ActiveIds(listings') = ActiveIds(listings) \ {id}
      /\ listings' \in Seq(Listing)
  BY Ended, DeactivateType DEF ActiveIds
<1> HIDE DEF retired, tier
<1>4. PricesPositive'
  BY <1>3 DEF FloorInv, PricesPositive, ActiveIds
<1>5. ASSUME NEW t \in Tiers PROVE FloorIs(floor'[t], listings', t)
  <2>1. FloorIs(floor[t], listings, t)
    BY FloorKnown
  <2>2. \A j \in OnSale(listings, t) \ {id} : listings'[j] = listings[j]
    BY <1>3 DEF OnSale, ActiveIds
  <2>3. OnSale(listings', t) = OnSale(listings, t) \ {id}
    BY <1>3, <2>2 DEF OnSale, ActiveIds
  <2>4. CASE t # tier
    <3>1. id \notin OnSale(listings, t) /\ floor'[t] = floor[t]
      BY <1>1, <1>2, <2>4 DEF OnSale, tier
    <3>2. OnSale(listings', t) = OnSale(listings, t)
      BY <2>3, <3>1
    <3>3. QED
      BY <2>1, <2>2, <3>1, <3>2, OtherTier
  <2>5. CASE t = tier /\ floor[tier].id = id
    <3>1. floor'[t] = ScanFloor(listings', t)
      BY <1>1, <1>2, <2>5
    <3>2. ActiveIds(listings') \subseteq IndexedIds(pages)
      BY <1>3 DEF PagesInv, PagesSound
    <3>3. QED
      BY <1>3, <3>1, <3>2, RescanIsFloor
  <2>6. CASE t = tier /\ floor[tier].id # id
    <3>1. floor'[t] = floor[t] /\ id \in OnSale(listings, t)
      BY <1>1, <2>6 DEF OnSale, tier
    <3>2. floor[t].id \in OnSale(listings, t) \ {id}
      BY <2>1, <2>6, <3>1 DEF FloorIs
    <3>3. QED
      BY <2>1, <2>2, <2>3, <3>1, <3>2 DEF FloorIs
  <2>7. QED
    BY <2>4, <2>5, <2>6
<1>6. FloorExact'
  BY <1>5 DEF FloorExact, FloorIs, OnSale
<1>7. QED
  BY <1>4, <1>6 DEF FloorInv

(* What repricing changes of a listing.                                     *)
LEMMA Repriced ==
  ASSUME TypeOK, NEW s \in Users, NEW id \in ActiveIds(listings), NEW p \in Prices,
         UpdatePrice(s, id, p)
  PROVE  /\ DOMAIN listings' = DOMAIN listings /\ listings' \in Seq(Listing)
         /\ \A j \in DOMAIN listings \ {id} : listings'[j] = listings[j]
         /\ listings'[id].price = p /\ p \in Nat /\ p > 0
         /\ listings'[id].tier = listings[id].tier
         /\ ActiveIds(listings') = ActiveIds(listings)
<1> DEFINE repriced == [listings[id] EXCEPT !.price = p]
<1>1. /\ listings[id] \in Listing /\ id \in DOMAIN listings
      /\ listings' = [listings EXCEPT ![id] = repriced]
  BY ListingAt DEF TypeOK, ActiveIds, UpdatePrice
<1>2. /\ repriced.price = p /\ repriced.tier = listings[id].tier
      /\ repriced.active = listings[id].active
  BY <1>1, Zenon DEF Listing
<1> HIDE DEF repriced
<1>3. /\ DOMAIN listings' = DOMAIN listings /\ listings'[id] = repriced
      /\ \A j \in DOMAIN listings \ {id} : listings'[j] = listings[j]
  BY <1>1
<1>4. ActiveIds(listings') = ActiveIds(listings)
  BY <1>1, <1>2, <1>3 DEF ActiveIds
<1>5. listings' \in Seq(Listing)
  BY UpdatePriceType DEF TypeOK, ActiveIds
<1>6. p \in Nat /\ p > 0
  BY CallerAssumption DEF UpdatePrice
<1>7. QED
  BY <1>2, <1>3, <1>4, <1>5, <1>6

LEMMA UpdatePriceFloor ==
  ASSUME TypeOK, PagesInv, FloorInv, NEW s \in Users, NEW id \in ActiveIds(listings),
         NEW p \in Prices, UpdatePrice(s, id, p)
  PROVE  FloorInv'
<1> DEFINE tier == listings[id].tier
           undercuts == floor[tier].price = 0 \/ p < floor[tier].price
           entry == [price |-> p, id |-> id]
<1>1. /\ floor' = [floor EXCEPT ![tier] =
                     IF undercuts THEN entry
                     ELSE IF floor[tier].id = id THEN ScanFloor(listings', tier)
                     ELSE floor[tier]]
  BY DEF UpdatePrice
<1>2. tier \in Tiers /\ floor \in [Tiers -> [price : Nat, id : Nat]]
  BY ListingAt DEF TypeOK, ActiveIds
<1>3. /\ listings' \in Seq(Listing)
      /\ \A j \in DOMAIN listings \ {id} : listings'[j] = listings[j]
      /\ listings'[id].price = p /\ p \in Nat /\ p > 0
      /\ listings'[id].tier = tier
      /\ ActiveIds(listings') = ActiveIds(listings)
  BY Repriced
<1>4. entry.price = p /\ entry.id = id
  OBVIOUS
<1> HIDE DEF entry, undercuts
<1>5. PricesPositive'
  BY <1>3 DEF FloorInv, PricesPositive, ActiveIds
<1>6. \A t \in Tiers : OnSale(listings', t) = OnSale(listings, t)
  BY <1>3 DEF OnSale, ActiveIds
<1>7. id \in OnSale(listings, tier)
  BY DEF OnSale
<1> HIDE DEF tier
<1>8. ASSUME NEW t \in Tiers PROVE FloorIs(floor'[t], listings', t)
  <2>1. /\ floor[t].price \in Nat /\ FloorIs(floor[t], listings, t)
        /\ floor[t].price = 0 <=> OnSale(listings, t) = {}
        /\ \A j \in OnSale(listings, t) :
             listings[j].price \in Nat /\ floor[t].price <= listings[j].price
    BY FloorKnown
  <2>2. \A j \in OnSale(listings, t) \ {id} : listings'[j] = listings[j]
    BY <1>3 DEF OnSale, ActiveIds
  <2>3. CASE t # tier
    <3>1. id \notin OnSale(listings, t) /\ floor'[t] = floor[t]
      BY <1>1, <1>2, <2>3 DEF OnSale, tier
    <3>2. QED
      BY <1>6, <2>1, <2>2, <3>1, OtherTier
  <2>4. CASE t = tier /\ undercuts
    <3>1. floor'[t] = entry /\ p < floor[t].price
      BY <1>1, <1>2, <1>7, <2>1, <2>4 DEF undercuts
    <3>2. \A j \in OnSale(listings, t) : p <= listings'[j].price
      <4>1. \A j \in OnSale(listings, t) \ {id} : p <= listings'[j].price
        BY <1>3, <2>1, <2>2, <3>1
      <4>2. QED
        BY <1>3, <4>1
    <3>3. QED
      BY <1>3, <1>4, <1>6, <1>7, <2>4, <3>1, <3>2 DEF FloorIs
  <2>5. CASE t = tier /\ ~undercuts /\ floor[tier].id = id
    <3>1. floor'[t] = ScanFloor(listings', t)
      BY <1>1, <1>2, <2>5
    <3>2. ActiveIds(listings') \subseteq IndexedIds(pages)
      BY <1>3 DEF PagesInv, PagesSound
    <3>3. QED
      BY <1>3, <3>1, <3>2, RescanIsFloor
  <2>6. CASE t = tier /\ ~undercuts /\ floor[tier].id # id
    <3>1. floor'[t] = floor[t] /\ floor[t].price <= p
      BY <1>1, <1>2, <1>3, <2>1, <2>6 DEF undercuts
    <3>2. /\ floor[t].id \in OnSale(listings, t) \ {id}
          /\ floor[t].price = listings[floor[t].id].price
      BY <1>7, <2>1, <2>6 DEF FloorIs
    <3>3. \A j \in OnSale(listings, t) : floor[t].price <= listings'[j].price
      <4>1. \A j \in OnSale(listings, t) \ {id} : floor[t].price <= listings'[j].price
        BY <2>1, <2>2
      <4>2. QED
        BY <1>3, <3>1, <4>1
    <3>4. QED
      BY <1>6, <2>2, <3>1, <3>2, <3>3 DEF FloorIs
  <2>7. QED
    BY <2>3, <2>4, <2>5, <2>6
<1>9. FloorExact'
  BY <1>8 DEF FloorExact, FloorIs, OnSale
<1>10. QED
  BY <1>5, <1>9 DEF FloorInv

-----------------------------------------------------------------------------
(* The indexes of the listings through every step.                          *)

LEMMA PagesStep ==
  ASSUME IInv, PagesInv, [Next]_vars
  PROVE  PagesInv'
<1>1. TypeOK
  BY DEF IInv
<1>2. CASE UNCHANGED <<listings, floor, pages>>
  BY <1>2 DEF PagesInv, PagesSound
<1>3. ASSUME NEW id \in ActiveIds(listings), Deactivate(id), UNCHANGED pages
      PROVE  PagesInv'
  BY <1>1, <1>3, Ended DEF PagesInv, PagesSound
<1>4. ASSUME NEW s \in Users, NEW id \in ActiveIds(listings), NEW p \in Prices,
             UpdatePrice(s, id, p)
      PROVE  PagesInv'
  <2>1. pages' = pages
    BY <1>4 DEF UpdatePrice, indexVars
  <2>2. QED
    BY <1>1, <1>4, <2>1, Repriced DEF PagesInv, PagesSound
<1>5. QED
  BY <1>1, <1>2, <1>3, <1>4, ListingEffect, ListBotPages, CompactPagePages

LEMMA FloorStep ==
  ASSUME IInv, PagesInv, FloorInv, [Next]_vars
  PROVE  FloorInv'
<1>1. TypeOK
  BY DEF IInv
<1>2. ASSUME UNCHANGED <<listings, floor>> PROVE FloorInv'
  BY <1>2 DEF FloorInv, FloorExact, PricesPositive
<1>3. ASSUME NEW n \in DOMAIN pages, CompactPage(n)
      PROVE  FloorInv'
  BY <1>2, <1>3 DEF CompactPage, listingVars
<1>4. QED
  BY <1>1, <1>2, <1>3, ListingEffect, ListBotFloor, DeactivateFloor, UpdatePriceFloor

LEMMA IndexInit ==
  ASSUME Init
  PROVE  PagesInv /\ FloorInv
<1>1. /\ listings = << >> /\ pages = << >>
      /\ floor = [t \in Tiers |-> NoFloor]
  BY DEF Init
<1>2. ActiveIds(listings) = {} /\ IndexedIds(pages) = {}
  BY <1>1 DEF ActiveIds, IndexedIds
<1>3. PagesInv
  BY <1>1, <1>2 DEF PagesInv, PagesSound
<1>4. FloorInv
  BY <1>1, <1>2 DEF FloorInv, FloorExact, PricesPositive
<1>5. QED
  BY <1>3, <1>4

LEMMA IndexInvariant == Spec => [](PagesInv /\ FloorInv)
<1>1. Init => PagesInv /\ FloorInv
  BY IndexInit
<1>2. IInv /\ PagesInv /\ FloorInv /\ [Next]_vars => (PagesInv /\ FloorInv)'
  BY PagesStep, FloorStep
<1>3. QED
  BY <1>1, <1>2, Invariant, PTL DEF Spec

(* Every active listing is in the id index, in ascending order within and   *)
(* across pages that never overflow, whatever was compacted, so the paged   *)
(* reads of the market page cannot miss one.                                *)
THEOREM PagesAreSound == Spec => []PagesSound
<1>1. PagesInv => PagesSound
  BY DEF PagesInv
<1>2. QED
  BY <1>1, IndexInvariant, PTL

(* The floor price that list_bot, the sales, the exits and update_price     *)
(* keep up to date by single changes is always the one a full rescan would  *)
(* find.                                                                    *)
THEOREM FloorIsExact == Spec => []FloorExact
<1>1. FloorInv => FloorExact
  BY DEF FloorInv
<1>2. QED
  BY <1>1, IndexInvariant, PTL

-----------------------------------------------------------------------------
(* The money.                                                              *)

(* What a sum of zero or more makes of one of its cases.                    *)
If(condition, amount) == IF condition THEN amount ELSE 0

-----------------------------------------------------------------------------
(* The open bids.                                                           *)

LEMMA BidsFinite ==
  ASSUME TypeOK, NEW S, S \subseteq ActiveOffers
  PROVE  /\ IsFiniteSet(S) /\ \A o \in S : Amounts[o] = offers[o].amount /\ Amounts[o] \in Nat
         /\ SumFunctionOnSet(Amounts, S) \in Nat
<1>1. Len(offers) \in Nat /\ DOMAIN offers = 1 .. Len(offers)
  BY LenProperties DEF TypeOK
<1>2. IsFiniteSet(S)
  <2>1. IsFiniteSet(1 .. Len(offers))
    BY <1>1, FS_Interval
  <2>2. S \subseteq 1 .. Len(offers)
    BY <1>1 DEF ActiveOffers
  <2>3. QED
    BY <2>1, <2>2, FS_Subset
<1>3. \A o \in S : Amounts[o] = offers[o].amount /\ Amounts[o] \in Nat
  BY OfferAt DEF TypeOK, ActiveOffers, Amounts
<1>4. SumFunctionOnSet(Amounts, S) \in Nat
  <2>1. \A o \in S : Amounts[o] \in Nat
    BY <1>3
  <2>2. QED
    BY <1>2, <2>1, SumNat
<1>5. QED
  BY <1>2, <1>3, <1>4

LEMMA EscrowType ==
  ASSUME TypeOK, NEW c, NEW u
  PROVE  /\ BidsIn(c) \subseteq ActiveOffers /\ BidsOf(c, u) \subseteq ActiveOffers
         /\ Escrowed(c) \in Nat /\ OpenBids(c, u) \in Nat
<1>1. BidsIn(c) \subseteq ActiveOffers /\ BidsOf(c, u) \subseteq ActiveOffers
  BY DEF BidsIn, BidsOf
<1>2. QED
  BY <1>1, BidsFinite DEF Escrowed, OpenBids

LEMMA AmountsNat ==
  ASSUME TypeOK, NEW e \in Currencies
  PROVE  /\ Escrowed(e) \in Nat /\ balance[e][Market] \in Nat /\ fees[e] \in Nat
         /\ \A h \in Holders : balance[e][h] \in Nat
         /\ \A u : OpenBids(e, u) \in Nat
<1>1. /\ balance[e][Market] \in Nat /\ fees[e] \in Nat
      /\ \A h \in Holders : balance[e][h] \in Nat
  BY Addresses DEF TypeOK
<1>2. Escrowed(e) \in Nat /\ \A u : OpenBids(e, u) \in Nat
  BY EscrowType
<1>3. QED
  BY <1>1, <1>2

(* make_offer adds the bid to what its currency and its buyer have open.    *)
LEMMA BidMade ==
  ASSUME TypeOK, NEW u \in Users, NEW b \in Bots, NEW p \in Prices,
         NEW c \in Currencies, NEW d \in OfferTerms, MakeOffer(u, b, p, c, d)
  PROVE  /\ p \in Nat
         /\ \A e : Escrowed(e)' = Escrowed(e) + If(e = c, p)
         /\ \A e, v : OpenBids(e, v)' = OpenBids(e, v) + If(e = c /\ v = u, p)
<1> DEFINE o == Len(offers) + 1
           new == [buyer |-> u, bot |-> b, amount |-> p, currency |-> c,
                   expires |-> now + d, status |-> "Active"]
           A == ActiveOffers
           F == Amounts
           G == Amounts'
<1>1. offers' = Append(offers, new) /\ p > 0 /\ p \in Nat
  BY CallerAssumption DEF MakeOffer
<1>2. offers \in Seq(Offer) /\ new \in Offer
  BY <1>1, CallerAssumption DEF TypeOK, Offer, MakeOffer
<1>3. /\ DOMAIN offers' = DOMAIN offers \cup {o} /\ o \notin DOMAIN offers
      /\ offers'[o] = new /\ \A j \in DOMAIN offers : offers'[j] = offers[j]
  BY <1>1, <1>2, Appended
<1>4. /\ new.status = "Active" /\ new.buyer = u /\ new.currency = c /\ new.amount = p
  OBVIOUS
<1> HIDE DEF new, o
<1>5. ActiveOffers' = A \cup {o} /\ A \subseteq DOMAIN offers /\ o \notin A
  BY <1>3, <1>4 DEF ActiveOffers
<1>6. G[o] = p /\ \A j \in A : G[j] = F[j]
  BY <1>3, <1>4, <1>5 DEF Amounts
<1>7. ASSUME NEW S, S \subseteq A
      PROVE  /\ SumFunctionOnSet(G, S) = SumFunctionOnSet(F, S) + 0
             /\ SumFunctionOnSet(G, S \cup {o}) = SumFunctionOnSet(F, S) + p
  <2>1. /\ IsFiniteSet(S) /\ \A j \in S : F[j] \in Nat
        /\ SumFunctionOnSet(F, S) \in Nat
    BY <1>7, BidsFinite
  <2>2. \A j \in S : G[j] = F[j]
    BY <1>6, <1>7
  <2>3. \A j \in S \cup {o} : G[j] \in Int
    BY <1>1, <1>6, <2>1, <2>2
  <2>4. o \notin S
    BY <1>5, <1>7
  <2> HIDE DEF F, G
  <2>5. SumFunctionOnSet(G, S) = SumFunctionOnSet(F, S)
    BY <2>1, <2>2, SumAgree
  <2>6. SumFunctionOnSet(G, S \cup {o}) = SumFunctionOnSet(G, S) + G[o]
    BY <2>1, <2>3, <2>4, SumAdd
  <2>7. QED
    BY <1>6, <2>1, <2>5, <2>6
<1>8. ASSUME NEW e PROVE Escrowed(e)' = Escrowed(e) + If(e = c, p)
  <2>1. BidsIn(e) \subseteq A
    BY DEF BidsIn
  <2>2. BidsIn(e)' = IF e = c THEN BidsIn(e) \cup {o} ELSE BidsIn(e)
    BY <1>3, <1>4, <1>5 DEF BidsIn
  <2>3. Escrowed(e)' = SumFunctionOnSet(G, BidsIn(e)')
    BY DEF Escrowed
  <2>4. Escrowed(e) = SumFunctionOnSet(F, BidsIn(e))
    BY DEF Escrowed
  <2> HIDE DEF F, G
  <2>5. QED
    BY <1>7, <2>1, <2>2, <2>3, <2>4 DEF If
<1>9. ASSUME NEW e, NEW v PROVE OpenBids(e, v)' = OpenBids(e, v) + If(e = c /\ v = u, p)
  <2>1. BidsOf(e, v) \subseteq A
    BY DEF BidsIn, BidsOf
  <2>2. BidsOf(e, v)' = IF e = c /\ v = u THEN BidsOf(e, v) \cup {o} ELSE BidsOf(e, v)
    BY <1>3, <1>4, <1>5 DEF BidsIn, BidsOf
  <2>3. OpenBids(e, v)' = SumFunctionOnSet(G, BidsOf(e, v)')
    BY DEF OpenBids
  <2>4. OpenBids(e, v) = SumFunctionOnSet(F, BidsOf(e, v))
    BY DEF OpenBids
  <2> HIDE DEF F, G
  <2>5. QED
    BY <1>7, <2>1, <2>2, <2>3, <2>4 DEF If
<1>10. QED
  BY <1>1, <1>8, <1>9

(* Accepting or refunding takes it off again, once.                         *)
LEMMA BidClosed ==
  ASSUME TypeOK, NEW o \in ActiveOffers, NEW status \in {"Accepted", "Cancelled"},
         CloseOffer(o, status)
  PROVE  /\ offers[o].amount \in Nat
         /\ \A e : Escrowed(e) = Escrowed(e)' + If(e = offers[o].currency, offers[o].amount)
         /\ \A e, v : OpenBids(e, v) = OpenBids(e, v)'
              + If(e = offers[o].currency /\ v = offers[o].buyer, offers[o].amount)
         /\ \A e, v : Escrowed(e)' \in Nat /\ OpenBids(e, v)' \in Nat
<1> DEFINE A == ActiveOffers
           F == Amounts
           G == Amounts'
           c == offers[o].currency
           u == offers[o].buyer
           p == offers[o].amount
<1>1. /\ DOMAIN offers' = DOMAIN offers
      /\ \A j \in DOMAIN offers : /\ offers'[j].buyer = offers[j].buyer
                                  /\ offers'[j].amount = offers[j].amount
                                  /\ offers'[j].currency = offers[j].currency
      /\ ActiveOffers' = A \ {o} /\ A \subseteq DOMAIN offers
  BY Closed DEF ActiveOffers
<1>2. \A j \in A : G[j] = F[j] /\ F[j] = offers[j].amount
  BY <1>1 DEF Amounts
<1>3. p \in Nat
  BY OfferAt DEF TypeOK, ActiveOffers
<1>4. ASSUME NEW S, S \subseteq A
      PROVE  /\ SumFunctionOnSet(G, S \ {o}) \in Nat
             /\ SumFunctionOnSet(F, S)
                  = SumFunctionOnSet(G, S \ {o}) + If(o \in S, p)
  <2>1. /\ IsFiniteSet(S) /\ \A j \in S : F[j] \in Nat
        /\ SumFunctionOnSet(F, S) \in Nat
    BY <1>4, BidsFinite
  <2>2. IsFiniteSet(S \ {o}) /\ \A j \in S \ {o} : F[j] = G[j] /\ F[j] \in Nat
    BY <1>2, <1>4, <2>1, FS_Subset
  <2>3. F[o] = p
    BY <1>2
  <2> HIDE DEF F, G
  <2>4. SumFunctionOnSet(F, S \ {o}) = SumFunctionOnSet(G, S \ {o})
    BY <2>2, SumAgree
  <2>5. SumFunctionOnSet(F, S \ {o}) \in Nat
    BY <2>2, SumNat
  <2>6. CASE o \in S
    <3>1. \A j \in S : F[j] \in Int
      BY <2>1
    <3>2. SumFunctionOnSet(F, S) = F[o] + SumFunctionOnSet(F, S \ {o})
      BY <2>1, <2>6, <3>1, SumRemove
    <3>3. QED
      BY <1>3, <2>3, <2>4, <2>5, <2>6, <3>2 DEF If
  <2>7. CASE o \notin S
    <3>1. S \ {o} = S
      BY <2>7
    <3>2. SumFunctionOnSet(F, S \ {o}) = SumFunctionOnSet(F, S)
      BY <3>1, Zenon
    <3>3. QED
      BY <2>4, <2>5, <2>7, <3>2 DEF If
  <2>8. QED
    BY <2>6, <2>7
<1>5. ASSUME NEW e PROVE Escrowed(e) = Escrowed(e)' + If(e = c, p) /\ Escrowed(e)' \in Nat
  <2>1. BidsIn(e) \subseteq A /\ (o \in BidsIn(e) <=> e = c)
    BY DEF BidsIn
  <2>2. BidsIn(e)' = BidsIn(e) \ {o}
    BY <1>1 DEF BidsIn
  <2>3. Escrowed(e)' = SumFunctionOnSet(G, BidsIn(e)')
    BY DEF Escrowed
  <2>4. Escrowed(e) = SumFunctionOnSet(F, BidsIn(e))
    BY DEF Escrowed
  <2> HIDE DEF F, G, c, p
  <2>5. QED
    BY <1>4, <2>1, <2>2, <2>3, <2>4 DEF If
<1>6. ASSUME NEW e, NEW v
      PROVE  OpenBids(e, v) = OpenBids(e, v)' + If(e = c /\ v = u, p) /\ OpenBids(e, v)' \in Nat
  <2>1. BidsOf(e, v) \subseteq A /\ (o \in BidsOf(e, v) <=> e = c /\ v = u)
    BY DEF BidsIn, BidsOf
  <2>2. BidsOf(e, v)' = BidsOf(e, v) \ {o}
    BY <1>1 DEF BidsIn, BidsOf
  <2>3. OpenBids(e, v)' = SumFunctionOnSet(G, BidsOf(e, v)')
    BY DEF OpenBids
  <2>4. OpenBids(e, v) = SumFunctionOnSet(F, BidsOf(e, v))
    BY DEF OpenBids
  <2> HIDE DEF F, G, c, p, u
  <2>5. QED
    BY <1>4, <2>1, <2>2, <2>3, <2>4 DEF If
<1>7. QED
  BY <1>3, <1>5, <1>6

LEMMA BidsSame ==
  ASSUME offers' = offers, NEW e, NEW v
  PROVE  Escrowed(e)' = Escrowed(e) /\ OpenBids(e, v)' = OpenBids(e, v)
<1>1. Amounts' = Amounts /\ ActiveOffers' = ActiveOffers
  BY DEF Amounts, ActiveOffers
<1>2. BidsIn(e)' = BidsIn(e)
  BY <1>1, Zenon DEF BidsIn
<1>3. BidsOf(e, v)' = BidsOf(e, v)
  BY <1>2, Zenon DEF BidsOf
<1>4. QED
  BY <1>1, <1>2, <1>3 DEF Escrowed, OpenBids

-----------------------------------------------------------------------------
(* What a payment does to every balance, whoever pays whom.                 *)

Moves(money, moved, from, to, amount) ==
  \A h \in Holders : moved[h] = money[h] - If(h = from, amount) + If(h = to, amount)

LEMMA TransferAt ==
  ASSUME NEW money \in [Holders -> Nat], NEW from \in Holders, NEW to \in Holders,
         NEW amount \in Nat
  PROVE  Moves(money, Transfer(money, from, to, amount), from, to, amount)
<1> DEFINE half == [money EXCEPT ![from] = @ - amount]
           whole == [half EXCEPT ![to] = @ + amount]
<1>1. half \in [Holders -> Int]
  OBVIOUS
<1>2. \A h \in Holders : half[h] = money[h] - If(h = from, amount)
  BY DEF If
<1> HIDE DEF half
<1>3. \A h \in Holders : whole[h] = half[h] + If(h = to, amount)
  BY <1>1 DEF If
<1>4. whole = Transfer(money, from, to, amount)
  BY Zenon DEF Transfer, half
<1> HIDE DEF whole
<1>5. Moves(money, whole, from, to, amount)
  BY <1>2, <1>3 DEF Moves
<1>6. QED
  BY <1>4, <1>5

LEMMA PayOutAt ==
  ASSUME NEW money \in [Holders -> Nat], NEW seller \in Users, NEW minter \in Users,
         NEW split, split.payout \in Nat, split.royalty \in Nat,
         money[Market] >= split.payout + split.royalty
  PROVE  LET paid == PayOut(money, seller, minter, split) IN
         /\ paid[Market] = money[Market] - split.payout - split.royalty
         /\ \A u \in Users : paid[u] = money[u] + If(u = seller, split.payout)
                                              + If(u = minter, split.royalty)
<1> DEFINE half == Transfer(money, Market, seller, split.payout)
           paid == PayOut(money, seller, minter, split)
<1>1. money[Market] \in Nat /\ money[Market] >= split.payout
  BY Addresses
<1>2. half \in [Holders -> Nat]
  BY <1>1, Addresses, TransferType
<1>3. \A h \in Holders : half[h] = money[h] - If(h = Market, split.payout)
                                            + If(h = seller, split.payout)
  <2>1. Moves(money, half, Market, seller, split.payout)
    BY Addresses, TransferAt
  <2>2. QED
    BY <2>1, Zenon DEF Moves
<1>4. \A h \in Holders : paid[h] = half[h] - If(h = Market, split.royalty)
                                           + If(h = minter, split.royalty)
  <2>1. paid = Transfer(half, Market, minter, split.royalty)
    BY DEF PayOut
  <2> HIDE DEF half, paid
  <2>2. Moves(half, paid, Market, minter, split.royalty)
    BY <1>2, <2>1, Addresses, TransferAt
  <2>3. QED
    BY <2>2, Zenon DEF Moves
<1> HIDE DEF half, paid
<1>5. paid[Market] = money[Market] - split.payout - split.royalty
  BY <1>1, <1>3, <1>4, Addresses DEF If
<1>6. ASSUME NEW u \in Users
      PROVE  paid[u] = money[u] + If(u = seller, split.payout) + If(u = minter, split.royalty)
  <2>1. u \in Holders /\ u # Market /\ money[u] \in Nat
    BY Addresses
  <2>2. half[u] = money[u] + If(u = seller, split.payout)
    BY <1>3, <2>1 DEF If
  <2>3. paid[u] = half[u] + If(u = minter, split.royalty)
    BY <1>2, <1>4, <2>1 DEF If
  <2>4. QED
    BY <2>2, <2>3
<1>7. QED
  BY <1>5, <1>6 DEF paid

(* buy_bot, on every balance of every currency.                             *)
LEMMA BuyBotAt ==
  ASSUME TypeOK, NEW u \in Users, NEW id \in DOMAIN listings, BuyBot(u, id)
  PROVE  LET l == listings[id]
             split == SplitOf(l.price, l.bot, l.seller)
             minter == MinterOf[config.nft][l.bot]
         IN
         /\ \A e \in Currencies : fees'[e] = fees[e] + If(e = l.currency, split.fee)
         /\ \A e \in Currencies :
              balance'[e][Market] = balance[e][Market] + If(e = l.currency, split.fee)
         /\ \A e \in Currencies, v \in Users :
              balance'[e][v] = balance[e][v]
                - If(e = l.currency /\ v = u, l.price)
                + If(e = l.currency /\ v = l.seller, split.payout)
                + If(e = l.currency /\ v = minter, split.royalty)
<1> DEFINE l == listings[id]
           c == l.currency
           split == SplitOf(l.price, l.bot, l.seller)
           minter == MinterOf[config.nft][l.bot]
           received == Transfer(balance[c], u, Market, l.price)
           paid == PayOut(received, l.seller, minter, split)
<1>1. l.seller \in Users /\ l.bot \in Bots /\ l.price \in Nat /\ c \in Currencies
  BY ListingAt DEF TypeOK
<1>2. /\ split.fee \in Nat /\ split.royalty \in Nat /\ split.payout \in Nat
      /\ split.fee + split.royalty + split.payout = l.price
  BY <1>1, SplitOfType
<1>3. minter \in Users
  BY <1>1, MinterType
<1>4. /\ balance \in [Currencies -> [Holders -> Nat]] /\ fees \in [Currencies -> Nat]
      /\ balance[c] \in [Holders -> Nat]
      /\ u \in Holders /\ u # Market /\ Market \in Holders /\ Users \subseteq Holders
  BY <1>1, Addresses DEF TypeOK
<1>5. balance[c][u] >= l.price /\ balance[c][Market] \in Nat
  BY <1>4 DEF BuyBot
<1>6. received \in [Holders -> Nat]
  BY <1>1, <1>4, <1>5, TransferType
<1>7. \A h \in Holders : received[h] = balance[c][h] - If(h = u, l.price)
                                                  + If(h = Market, l.price)
  <2>1. Moves(balance[c], received, u, Market, l.price)
    BY <1>1, <1>4, TransferAt
  <2>2. QED
    BY <2>1, Zenon DEF Moves
<1>8. balance' = [balance EXCEPT ![c] = paid] /\ fees' = [fees EXCEPT ![c] = @ + split.fee]
  BY DEF BuyBot, AccrueFee
<1> HIDE DEF split, minter, received
<1>9. received[Market] = balance[c][Market] + l.price
  BY <1>1, <1>4, <1>5, <1>7 DEF If
<1>10. received[Market] >= split.payout + split.royalty
  BY <1>1, <1>2, <1>5, <1>9
<1>11. /\ paid[Market] = received[Market] - split.payout - split.royalty
       /\ \A v \in Users : paid[v] = received[v] + If(v = l.seller, split.payout)
                                                 + If(v = minter, split.royalty)
  BY <1>1, <1>2, <1>3, <1>6, <1>10, PayOutAt
<1> HIDE DEF paid
<1>12. paid[Market] = balance[c][Market] + split.fee
  BY <1>1, <1>2, <1>5, <1>9, <1>11
<1>13. \A v \in Users : received[v] = balance[c][v] - If(v = u, l.price)
  BY <1>1, <1>4, <1>7, Addresses DEF If
<1>14. \A e \in Currencies : fees'[e] = fees[e] + If(e = c, split.fee)
  BY <1>1, <1>2, <1>4, <1>8 DEF If
<1>15. \A e \in Currencies : balance'[e] = IF e = c THEN paid ELSE balance[e]
  BY <1>1, <1>4, <1>8
<1>16. \A e \in Currencies : balance'[e][Market] = balance[e][Market] + If(e = c, split.fee)
  BY <1>4, <1>12, <1>15 DEF If
<1>17. ASSUME NEW e \in Currencies, NEW v \in Users
       PROVE  balance'[e][v] = balance[e][v] - If(e = c /\ v = u, l.price)
                + If(e = c /\ v = l.seller, split.payout) + If(e = c /\ v = minter, split.royalty)
  <2>1. CASE e = c
    BY <1>11, <1>13, <1>15, <2>1 DEF If
  <2>2. CASE e # c
    <3>1. balance'[e][v] = balance[e][v] /\ balance[e][v] \in Nat
      BY <1>4, <1>15, <2>2
    <3>2. QED
      BY <2>2, <3>1 DEF If
  <2>3. QED
    BY <2>1, <2>2
<1>18. QED
  BY <1>14, <1>16, <1>17 DEF split, minter

(* accept_offer, likewise: the money was in the contract already.           *)
LEMMA AcceptOfferAt ==
  ASSUME TypeOK, NEW s \in Users, NEW o \in DOMAIN offers, AcceptOffer(s, o)
  PROVE  LET offer == offers[o]
             split == SplitOf(offer.amount, offer.bot, s)
             minter == MinterOf[config.nft][offer.bot]
         IN
         /\ \A e \in Currencies : fees'[e] = fees[e] + If(e = offer.currency, split.fee)
         /\ \A e \in Currencies : balance'[e][Market] =
              balance[e][Market] - If(e = offer.currency, split.payout + split.royalty)
         /\ \A e \in Currencies, v \in Users :
              balance'[e][v] = balance[e][v]
                + If(e = offer.currency /\ v = s, split.payout)
                + If(e = offer.currency /\ v = minter, split.royalty)
<1> DEFINE offer == offers[o]
           c == offer.currency
           split == SplitOf(offer.amount, offer.bot, s)
           minter == MinterOf[config.nft][offer.bot]
           paid == PayOut(balance[c], s, minter, split)
<1>1. offer.bot \in Bots /\ offer.amount \in Nat /\ c \in Currencies
  BY OfferAt DEF TypeOK
<1>2. split.fee \in Nat /\ split.royalty \in Nat /\ split.payout \in Nat
  BY <1>1, SplitOfType
<1>3. minter \in Users
  BY <1>1, MinterType
<1>4. /\ balance \in [Currencies -> [Holders -> Nat]] /\ fees \in [Currencies -> Nat]
      /\ balance[c] \in [Holders -> Nat] /\ Market \in Holders /\ Users \subseteq Holders
  BY <1>1, Addresses DEF TypeOK
<1>5. /\ balance[c][Market] >= split.payout + split.royalty
      /\ balance' = [balance EXCEPT ![c] = paid]
      /\ fees' = [fees EXCEPT ![c] = @ + split.fee]
  BY DEF AcceptOffer, AccrueFee
<1> HIDE DEF split, minter
<1>6. /\ paid[Market] = balance[c][Market] - split.payout - split.royalty
      /\ \A v \in Users : paid[v] = balance[c][v] + If(v = s, split.payout)
                                                  + If(v = minter, split.royalty)
  BY <1>2, <1>3, <1>4, <1>5, PayOutAt
<1> HIDE DEF paid
<1>7. \A e \in Currencies : fees'[e] = fees[e] + If(e = c, split.fee)
  BY <1>1, <1>2, <1>4, <1>5 DEF If
<1>8. \A e \in Currencies : balance'[e] = IF e = c THEN paid ELSE balance[e]
  BY <1>1, <1>4, <1>5
<1>9. ASSUME NEW e \in Currencies
      PROVE  balance'[e][Market] = balance[e][Market] - If(e = c, split.payout + split.royalty)
  <2>1. balance[e][Market] \in Nat
    BY <1>4
  <2>2. QED
    BY <1>2, <1>6, <1>8, <2>1 DEF If
<1>10. ASSUME NEW e \in Currencies, NEW v \in Users
       PROVE  balance'[e][v] = balance[e][v] + If(e = c /\ v = s, split.payout)
                                             + If(e = c /\ v = minter, split.royalty)
  <2>1. balance[e][v] \in Nat
    BY <1>4
  <2>2. CASE e = c
    BY <1>6, <1>8, <2>2 DEF If
  <2>3. CASE e # c
    BY <1>8, <2>1, <2>3 DEF If
  <2>4. QED
    BY <2>2, <2>3
<1>11. QED
  BY <1>7, <1>9, <1>10 DEF split, minter

(* refund_offer, likewise.                                                  *)
LEMMA RefundAt ==
  ASSUME TypeOK, NEW o \in DOMAIN offers, Refund(o)
  PROVE  LET offer == offers[o] IN
         /\ \A e \in Currencies : balance'[e][Market] =
              balance[e][Market] - If(e = offer.currency, offer.amount)
         /\ \A e \in Currencies, v \in Users : balance'[e][v] =
              balance[e][v] + If(e = offer.currency /\ v = offer.buyer, offer.amount)
<1> DEFINE offer == offers[o]
           c == offer.currency
<1>1. offer.buyer \in Users /\ offer.amount \in Nat /\ c \in Currencies
  BY OfferAt DEF TypeOK
<1>2. /\ balance \in [Currencies -> [Holders -> Nat]] /\ balance[c] \in [Holders -> Nat]
      /\ Market \in Holders /\ Users \subseteq Holders /\ offer.buyer # Market
      /\ Market \notin Users
  BY <1>1, Addresses DEF TypeOK
<1>3. balance' = [balance EXCEPT ![c] = Transfer(@, Market, offer.buyer, offer.amount)]
  BY DEF Refund
<1>4. \A h \in Holders : Transfer(balance[c], Market, offer.buyer, offer.amount)[h]
         = balance[c][h] - If(h = Market, offer.amount) + If(h = offer.buyer, offer.amount)
  <2>1. Moves(balance[c], Transfer(balance[c], Market, offer.buyer, offer.amount),
              Market, offer.buyer, offer.amount)
    BY <1>1, <1>2, TransferAt
  <2>2. QED
    BY <2>1, Zenon DEF Moves
<1>5. \A e \in Currencies, h \in Holders : balance'[e][h] =
         IF e = c THEN Transfer(balance[c], Market, offer.buyer, offer.amount)[h]
         ELSE balance[e][h]
  BY <1>1, <1>2, <1>3
<1>6. ASSUME NEW e \in Currencies
      PROVE  balance'[e][Market] = balance[e][Market] - If(e = c, offer.amount)
  <2>1. balance[e][Market] \in Nat
    BY <1>2
  <2>2. QED
    BY <1>1, <1>2, <1>4, <1>5, <2>1 DEF If
<1>7. ASSUME NEW e \in Currencies, NEW v \in Users
      PROVE  balance'[e][v] = balance[e][v] + If(e = c /\ v = offer.buyer, offer.amount)
  <2>1. balance[e][v] \in Nat /\ v \in Holders /\ v # Market
    BY <1>2
  <2>2. QED
    BY <1>1, <1>4, <1>5, <2>1 DEF If
<1>8. QED
  BY <1>6, <1>7

-----------------------------------------------------------------------------
(* Solvency.                                                                *)

(* The handlers that touch money, an open bid or a fee.                     *)
LEMMA MoneyEffect ==
  ASSUME [Next]_vars
  PROVE  \/ UNCHANGED <<balance, fees, offers>>
         \/ \E u \in Users, id \in DOMAIN listings : BuyBot(u, id)
         \/ \E u \in Users, b \in Bots, p \in Prices, c \in Currencies, d \in OfferTerms :
              MakeOffer(u, b, p, c, d)
         \/ \E s \in Users, o \in DOMAIN offers : AcceptOffer(s, o)
         \/ \E o \in ActiveOffers : Refund(o) /\ UNCHANGED fees
         \/ \E c \in Currencies, to \in Users, a \in Withdrawals : WithdrawFees(c, to, a)
         \/ \E c \in Currencies, u \in Users, h \in Holders, a \in Payments : Pay(c, u, h, a)
<1>1. ASSUME ListingStep
      PROVE  \/ UNCHANGED <<balance, fees, offers>>
             \/ \E u \in Users, id \in DOMAIN listings : BuyBot(u, id)
  <2>1. CASE \E s \in Users, b \in Bots, p \in Prices, c \in Currencies, d \in Durations :
               ListBot(s, b, p, c, d)
    BY <2>1 DEF ListBot, offerVars
  <2>2. CASE \E u \in Users, id \in DOMAIN listings : BuyBot(u, id)
    BY <2>2
  <2>3. CASE \E s \in Users, id \in DOMAIN listings : CancelListing(s, id)
    BY <2>3 DEF CancelListing, offerVars
  <2>4. CASE \E id \in DOMAIN listings : ReclaimExpired(id)
    BY <2>4 DEF ReclaimExpired, offerVars
  <2>5. CASE \E s \in Users, id \in DOMAIN listings, p \in Prices : UpdatePrice(s, id, p)
    BY <2>5 DEF UpdatePrice, offerVars
  <2>6. CASE \E n \in DOMAIN pages : CompactPage(n)
    BY <2>6 DEF CompactPage, offerVars
  <2>7. QED
    BY <1>1, <2>1, <2>2, <2>3, <2>4, <2>5, <2>6 DEF ListingStep
<1>2. ASSUME OfferStep
      PROVE  \/ \E u \in Users, b \in Bots, p \in Prices, c \in Currencies, d \in OfferTerms :
                  MakeOffer(u, b, p, c, d)
             \/ \E s \in Users, o \in DOMAIN offers : AcceptOffer(s, o)
             \/ \E o \in ActiveOffers : Refund(o) /\ UNCHANGED fees
  <2>1. CASE \E u \in Users, o \in DOMAIN offers : CancelOffer(u, o)
    BY <2>1 DEF CancelOffer, ActiveOffers
  <2>2. CASE \E u \in Users, o \in DOMAIN offers : DismissOffer(u, o)
    BY <2>2 DEF DismissOffer, ActiveOffers
  <2>3. QED
    BY <1>2, <2>1, <2>2 DEF OfferStep
<1>3. ASSUME AdminStep
      PROVE  \/ UNCHANGED <<balance, fees, offers>>
             \/ \E c \in Currencies, to \in Users, a \in Withdrawals : WithdrawFees(c, to, a)
  BY <1>3 DEF AdminStep, SetFeeBps, SetBotNft, ProposeAdmin, AcceptAdmin, SetPaused,
              SetListingCap, SetMinPrice, AddAllowedCurrency, RemoveAllowedCurrency,
              marketVars, offerVars
<1>4. ASSUME OutsideStep
      PROVE  \/ UNCHANGED <<balance, fees, offers>>
             \/ \E c \in Currencies, u \in Users, h \in Holders, a \in Payments : Pay(c, u, h, a)
  BY <1>4 DEF OutsideStep, Tick, TransferBot, BurnBot, offerVars
<1>5. CASE UNCHANGED vars
  BY <1>5 DEF vars, offerVars
<1>6. QED
  BY <1>1, <1>2, <1>3, <1>4, <1>5 DEF Next

LEMMA WithdrawFeesAt ==
  ASSUME TypeOK, NEW c \in Currencies, NEW to \in Users, NEW a \in Withdrawals,
         WithdrawFees(c, to, a)
  PROVE  /\ a \in Nat /\ a <= fees[c]
         /\ \A e \in Currencies : fees'[e] = fees[e] - If(e = c, a)
         /\ \A e \in Currencies : balance'[e][Market] = balance[e][Market] - If(e = c, a)
         /\ \A e \in Currencies, v \in Users :
              balance'[e][v] = balance[e][v] + If(e = c /\ v = to, a)
<1>1. /\ a \in Nat /\ a <= fees[c]
      /\ balance' = [balance EXCEPT ![c] = Transfer(balance[c], Market, to, a)]
      /\ fees' = [fees EXCEPT ![c] = @ - a]
  BY CallerAssumption DEF WithdrawFees
<1>2. /\ balance \in [Currencies -> [Holders -> Nat]] /\ balance[c] \in [Holders -> Nat]
      /\ fees \in [Currencies -> Nat]
      /\ Market \in Holders /\ Users \subseteq Holders /\ Market \notin Users
  BY Addresses DEF TypeOK
<1>3. \A h \in Holders : Transfer(balance[c], Market, to, a)[h]
         = balance[c][h] - If(h = Market, a) + If(h = to, a)
  <2>1. Moves(balance[c], Transfer(balance[c], Market, to, a), Market, to, a)
    BY <1>1, <1>2, TransferAt
  <2>2. QED
    BY <2>1, Zenon DEF Moves
<1>4. \A e \in Currencies, h \in Holders : /\ balance[e][h] \in Nat
         /\ balance'[e][h] = IF e = c THEN Transfer(balance[c], Market, to, a)[h]
                             ELSE balance[e][h]
  BY <1>1, <1>2
<1>5. \A e \in Currencies : fees'[e] = fees[e] - If(e = c, a)
  BY <1>1, <1>2 DEF If
<1>6. \A e \in Currencies : balance'[e][Market] = balance[e][Market] - If(e = c, a)
  BY <1>1, <1>2, <1>3, <1>4 DEF If
<1>7. \A e \in Currencies, v \in Users :
        balance'[e][v] = balance[e][v] + If(e = c /\ v = to, a)
  BY <1>1, <1>2, <1>3, <1>4 DEF If
<1>8. QED
  BY <1>1, <1>5, <1>6, <1>7

LEMMA PayAt ==
  ASSUME TypeOK, NEW c \in Currencies, NEW u \in Users, NEW h \in Holders,
         NEW a \in Payments, Pay(c, u, h, a)
  PROVE  /\ a \in Nat /\ balance[c][u] >= a
         /\ \A e \in Currencies, g \in Holders :
              balance'[e][g] = balance[e][g] - If(e = c /\ g = u, a) + If(e = c /\ g = h, a)
<1>1. /\ a \in Nat /\ balance[c][u] >= a
      /\ balance' = [balance EXCEPT ![c] = Transfer(balance[c], u, h, a)]
  BY CallerAssumption DEF Pay
<1>2. /\ balance \in [Currencies -> [Holders -> Nat]] /\ balance[c] \in [Holders -> Nat]
      /\ u \in Holders
  BY Addresses DEF TypeOK
<1>3. \A g \in Holders : Transfer(balance[c], u, h, a)[g]
         = balance[c][g] - If(g = u, a) + If(g = h, a)
  <2>1. Moves(balance[c], Transfer(balance[c], u, h, a), u, h, a)
    BY <1>1, <1>2, TransferAt
  <2>2. QED
    BY <2>1, Zenon DEF Moves
<1>4. \A e \in Currencies, g \in Holders : /\ balance[e][g] \in Nat
         /\ balance'[e][g] = IF e = c THEN Transfer(balance[c], u, h, a)[g]
                             ELSE balance[e][g]
  BY <1>1, <1>2
<1>5. \A e \in Currencies, g \in Holders :
        balance'[e][g] = balance[e][g] - If(e = c /\ g = u, a) + If(e = c /\ g = h, a)
  BY <1>1, <1>3, <1>4 DEF If
<1>6. QED
  BY <1>1, <1>5

(* make_offer: what it takes from the bidder stays in the contract.         *)
LEMMA MakeOfferAt ==
  ASSUME TypeOK, NEW u \in Users, NEW b \in Bots, NEW p \in Prices,
         NEW c \in Currencies, NEW d \in OfferTerms, MakeOffer(u, b, p, c, d)
  PROVE  /\ p \in Nat /\ balance[c][u] >= p
         /\ \A e \in Currencies : balance'[e][Market] = balance[e][Market] + If(e = c, p)
         /\ \A e \in Currencies, v \in Users :
              balance'[e][v] = balance[e][v] - If(e = c /\ v = u, p)
<1>1. /\ p \in Nat /\ balance[c][u] >= p
      /\ balance' = [balance EXCEPT ![c] = Transfer(balance[c], u, Market, p)]
  BY CallerAssumption DEF MakeOffer
<1>2. /\ balance \in [Currencies -> [Holders -> Nat]] /\ balance[c] \in [Holders -> Nat]
      /\ Market \in Holders /\ Users \subseteq Holders /\ Market \notin Users
  BY Addresses DEF TypeOK
<1>3. \A h \in Holders : Transfer(balance[c], u, Market, p)[h]
         = balance[c][h] - If(h = u, p) + If(h = Market, p)
  <2>1. Moves(balance[c], Transfer(balance[c], u, Market, p), u, Market, p)
    BY <1>1, <1>2, TransferAt
  <2>2. QED
    BY <2>1, Zenon DEF Moves
<1>4. \A e \in Currencies, h \in Holders : /\ balance[e][h] \in Nat
         /\ balance'[e][h] = IF e = c THEN Transfer(balance[c], u, Market, p)[h]
                             ELSE balance[e][h]
  BY <1>1, <1>2
<1>5. \A e \in Currencies : balance'[e][Market] = balance[e][Market] + If(e = c, p)
  BY <1>1, <1>2, <1>3, <1>4 DEF If
<1>6. \A e \in Currencies, v \in Users :
        balance'[e][v] = balance[e][v] - If(e = c /\ v = u, p)
  BY <1>1, <1>2, <1>3, <1>4 DEF If
<1>7. QED
  BY <1>1, <1>5, <1>6

(* What the contract holds of a currency beyond what it owes its bidders.   *)
Free(c) == balance[c][Market] - Escrowed(c)

(* The fee of a settled amount.                                             *)
FeeOf(amount, b, seller) == SplitOf(amount, b, seller).fee

(* A sale leaves exactly its fee, by either way to sell; a bid made or sent *)
(* back leaves nothing.                                                     *)
LEMMA BuyBotFree ==
  ASSUME TypeOK, NEW u \in Users, NEW id \in DOMAIN listings, BuyBot(u, id), NEW e \in Currencies
  PROVE  LET l == listings[id] IN
         Free(e)' = Free(e) + If(e = l.currency, FeeOf(l.price, l.bot, l.seller))
<1> DEFINE l == listings[id]
           f == FeeOf(l.price, l.bot, l.seller)
<1>1. balance'[e][Market] = balance[e][Market] + If(e = l.currency, f)
  BY BuyBotAt DEF FeeOf
<1>2. l.price \in Nat
  BY ListingAt DEF TypeOK
<1>3. f \in Nat
  BY <1>2, SplitOfType DEF FeeOf
<1>4. Escrowed(e)' = Escrowed(e)
  BY BidsSame DEF BuyBot, offerVars
<1>5. Escrowed(e) \in Nat /\ balance[e][Market] \in Nat
  BY AmountsNat
<1> HIDE DEF f
<1>6. QED
  BY <1>1, <1>3, <1>4, <1>5 DEF Free, If, f

LEMMA MakeOfferFree ==
  ASSUME TypeOK, NEW u \in Users, NEW b \in Bots, NEW p \in Prices, NEW c \in Currencies,
         NEW d \in OfferTerms, MakeOffer(u, b, p, c, d), NEW e \in Currencies
  PROVE  Free(e)' = Free(e)
<1>1. p \in Nat /\ balance'[e][Market] = balance[e][Market] + If(e = c, p)
  BY MakeOfferAt
<1>2. Escrowed(e)' = Escrowed(e) + If(e = c, p)
  BY BidMade
<1>3. Escrowed(e) \in Nat /\ balance[e][Market] \in Nat
  BY AmountsNat
<1>4. QED
  BY <1>1, <1>2, <1>3 DEF Free, If

LEMMA AcceptOfferFree ==
  ASSUME TypeOK, NEW s \in Users, NEW o \in DOMAIN offers, AcceptOffer(s, o), NEW e \in Currencies
  PROVE  LET offer == offers[o] IN
         Free(e)' = Free(e) + If(e = offer.currency, FeeOf(offer.amount, offer.bot, s))
<1> DEFINE offer == offers[o]
           split == SplitOf(offer.amount, offer.bot, s)
<1>1. balance'[e][Market]
        = balance[e][Market] - If(e = offer.currency, split.payout + split.royalty)
  BY AcceptOfferAt
<1>2. o \in ActiveOffers /\ CloseOffer(o, "Accepted")
  BY DEF AcceptOffer, ActiveOffers
<1>3. /\ offer.amount \in Nat /\ Escrowed(e)' \in Nat
      /\ Escrowed(e) = Escrowed(e)' + If(e = offer.currency, offer.amount)
  BY <1>2, BidClosed
<1>4. /\ split.fee \in Nat /\ split.royalty \in Nat /\ split.payout \in Nat
      /\ split.fee + split.royalty + split.payout = offer.amount
  BY <1>3, SplitOfType
<1>5. balance[e][Market] \in Nat
  BY Addresses DEF TypeOK
<1>6. FeeOf(offer.amount, offer.bot, s) = split.fee
  BY DEF FeeOf
<1> HIDE DEF split, offer
<1>7. Free(e)' = Free(e) + If(e = offer.currency, split.fee)
  BY <1>1, <1>3, <1>4, <1>5 DEF Free, If
<1>8. QED
  BY <1>6, <1>7 DEF offer

LEMMA RefundFree ==
  ASSUME TypeOK, NEW o \in ActiveOffers, Refund(o), NEW e \in Currencies
  PROVE  Free(e)' = Free(e)
<1>1. balance'[e][Market] = balance[e][Market] - If(e = offers[o].currency, offers[o].amount)
  BY RefundAt DEF ActiveOffers
<1>2. /\ offers[o].amount \in Nat /\ Escrowed(e)' \in Nat
      /\ Escrowed(e) = Escrowed(e)' + If(e = offers[o].currency, offers[o].amount)
  BY BidClosed DEF Refund
<1>3. balance[e][Market] \in Nat
  BY Addresses DEF TypeOK
<1>4. QED
  BY <1>1, <1>2, <1>3 DEF Free, If

Margin == \A c \in Currencies : Free(c) >= fees[c]

LEMMA SolventShape == TypeOK => (Solvent <=> Margin)
<1> SUFFICES ASSUME TypeOK PROVE Solvent <=> Margin
  OBVIOUS
<1>1. \A c \in Currencies : /\ Escrowed(c) \in Nat /\ balance[c][Market] \in Nat
                            /\ fees[c] \in Nat
  BY AmountsNat
<1>2. QED
  BY <1>1 DEF Solvent, Margin, Free

(* No step lowers the margin of what is held over what is owed.             *)
LEMMA SolventStep ==
  ASSUME TypeOK, TypeOK', Solvent, [Next]_vars
  PROVE  Solvent'
<1>1. \A c \in Currencies : Free(c) >= fees[c] /\ Free(c) \in Int /\ fees[c] \in Nat
  BY SolventShape, AmountsNat DEF Margin, Free
<1>2. SUFFICES ASSUME NEW e \in Currencies PROVE Free(e)' >= fees'[e]
  <2>1. TypeOK' => (Solvent' <=> Margin')
    BY SolventShape, PTL
  <2>2. QED
    BY <2>1 DEF Margin
<1>3. Escrowed(e) \in Nat /\ balance[e][Market] \in Nat
  BY AmountsNat
<1>4. CASE UNCHANGED <<balance, fees, offers>>
  <2>1. Escrowed(e)' = Escrowed(e)
    BY <1>4, BidsSame
  <2>2. QED
    BY <1>1, <1>4, <2>1 DEF Free
<1>5. ASSUME NEW u \in Users, NEW id \in DOMAIN listings, BuyBot(u, id)
      PROVE  Free(e)' >= fees'[e]
  <2> DEFINE f == FeeOf(listings[id].price, listings[id].bot, listings[id].seller)
  <2>1. Free(e)' = Free(e) + If(e = listings[id].currency, f)
    BY <1>5, BuyBotFree
  <2>2. fees'[e] = fees[e] + If(e = listings[id].currency, f)
    BY <1>5, BuyBotAt DEF FeeOf
  <2>3. f \in Nat
    BY ListingAt, SplitOfType DEF TypeOK, FeeOf
  <2> HIDE DEF f
  <2>4. QED
    BY <1>1, <2>1, <2>2, <2>3 DEF If
<1>6. ASSUME NEW u \in Users, NEW b \in Bots, NEW p \in Prices, NEW c \in Currencies,
             NEW d \in OfferTerms, MakeOffer(u, b, p, c, d)
      PROVE  Free(e)' >= fees'[e]
  <2>1. fees' = fees
    BY <1>6 DEF MakeOffer
  <2>2. QED
    BY <1>1, <1>6, <2>1, MakeOfferFree
<1>7. ASSUME NEW s \in Users, NEW o \in DOMAIN offers, AcceptOffer(s, o)
      PROVE  Free(e)' >= fees'[e]
  <2> DEFINE f == FeeOf(offers[o].amount, offers[o].bot, s)
  <2>1. Free(e)' = Free(e) + If(e = offers[o].currency, f)
    BY <1>7, AcceptOfferFree
  <2>2. fees'[e] = fees[e] + If(e = offers[o].currency, f)
    BY <1>7, AcceptOfferAt DEF FeeOf
  <2>3. f \in Nat
    BY OfferAt, SplitOfType DEF TypeOK, FeeOf
  <2> HIDE DEF f
  <2>4. QED
    BY <1>1, <2>1, <2>2, <2>3 DEF If
<1>8. ASSUME NEW o \in ActiveOffers, Refund(o), UNCHANGED fees
      PROVE  Free(e)' >= fees'[e]
  BY <1>1, <1>8, RefundFree
<1>9. ASSUME NEW c \in Currencies, NEW to \in Users, NEW a \in Withdrawals,
             WithdrawFees(c, to, a)
      PROVE  Free(e)' >= fees'[e]
  <2>1. /\ a \in Nat /\ fees'[e] = fees[e] - If(e = c, a)
        /\ balance'[e][Market] = balance[e][Market] - If(e = c, a)
    BY <1>9, WithdrawFeesAt
  <2>2. Escrowed(e)' = Escrowed(e)
    BY <1>9, BidsSame DEF WithdrawFees, offerVars
  <2>3. QED
    BY <1>1, <1>3, <2>1, <2>2 DEF Free, If
<1>10. ASSUME NEW c \in Currencies, NEW u \in Users, NEW h \in Holders, NEW a \in Payments,
              Pay(c, u, h, a)
       PROVE  Free(e)' >= fees'[e]
  <2>1. a \in Nat /\ balance'[e][Market] = balance[e][Market] + If(e = c /\ Market = h, a)
    BY <1>3, <1>10, PayAt, Addresses DEF If
  <2>2. Escrowed(e)' = Escrowed(e) /\ fees' = fees
    BY <1>10, BidsSame DEF Pay, offerVars
  <2>3. QED
    BY <1>1, <1>3, <2>1, <2>2 DEF Free, If
<1>11. QED
  BY <1>4, <1>5, <1>6, <1>7, <1>8, <1>9, <1>10, MoneyEffect

-----------------------------------------------------------------------------
(* The published statistics.                                                *)

Counts == [t \in Tiers |-> sales[t].count]
Volumes == [t \in Tiers |-> sales[t].volume]
Paid == [p \in Bought |-> purchases[p[1]][p[2]].price]

(* The histories are finite however many users there may be.                *)
SalesInv == SalesMatchPurchases /\ IsFiniteSet(Bought)

SalesAgree ==
  /\ SumFunctionOnSet(Counts, Tiers) = Cardinality(Bought)
  /\ SumFunctionOnSet(Volumes, Tiers) = SumFunctionOnSet(Paid, Bought)

LEMMA SalesShape == SalesMatchPurchases <=> SalesAgree
<1>1. DOMAIN Counts = Tiers /\ DOMAIN Volumes = Tiers /\ DOMAIN Paid = Bought
  BY DEF Counts, Volumes, Paid
<1>2. /\ SumFunction(Counts) = SumFunctionOnSet(Counts, Tiers)
      /\ SumFunction(Volumes) = SumFunctionOnSet(Volumes, Tiers)
      /\ SumFunction(Paid) = SumFunctionOnSet(Paid, Bought)
  BY <1>1, Zenon DEF SumFunction, SumFunctionOnSet, FoldFunction
<1>3. QED
  BY <1>2, Zenon DEF SalesMatchPurchases, SalesAgree, Counts, Volumes, Paid

(* A purchase is a buyer and a position in its history.                     *)
BoughtAt ==
  \A p : p \in Bought <=> \E u \in Users : \E n \in DOMAIN purchases[u] : p = <<u, n>>

LEMMA BoughtIs == BoughtAt
<1>1. ASSUME NEW p
      PROVE  p \in Bought <=> \E u \in Users : p \in {u} \X DOMAIN purchases[u]
  BY Zenon DEF Bought
<1>2. ASSUME NEW p, NEW u
      PROVE  p \in {u} \X DOMAIN purchases[u] <=> \E n \in DOMAIN purchases[u] : p = <<u, n>>
  OBVIOUS
<1>3. QED
  BY <1>1, <1>2 DEF BoughtAt

(* Recording a sale and adding it to the buyer's history keep in step.      *)
LEMMA SaleBooks ==
  ASSUME TypeOK, SalesInv, NEW t \in Tiers, NEW price \in Nat, NEW buyer \in Users,
         NEW purchase \in Purchase, purchase.price = price,
         RecordSale(t, price), AddPurchase(buyer, purchase)
  PROVE  SalesInv'
<1> DEFINE n == Len(purchases[buyer]) + 1
           new == <<buyer, n>>
           B == Bought
<1>1. /\ purchases \in [Users -> Seq(Purchase)] /\ purchases[buyer] \in Seq(Purchase)
      /\ sales \in [Tiers -> [volume : Nat, count : Nat, last : Nat]]
      /\ IsFiniteSet(Tiers) /\ IsFiniteSet(B)
      /\ SumFunctionOnSet(Counts, Tiers) = Cardinality(B)
      /\ SumFunctionOnSet(Volumes, Tiers) = SumFunctionOnSet(Paid, B)
  BY TiersAssumption, SalesShape DEF TypeOK, SalesInv, SalesAgree
<1>2. /\ purchases' = [purchases EXCEPT ![buyer] = Append(purchases[buyer], purchase)]
      /\ DOMAIN Append(purchases[buyer], purchase) = DOMAIN purchases[buyer] \cup {n}
      /\ n \notin DOMAIN purchases[buyer]
      /\ Append(purchases[buyer], purchase)[n] = purchase
      /\ \A k \in DOMAIN purchases[buyer] :
           Append(purchases[buyer], purchase)[k] = purchases[buyer][k]
  BY <1>1, Appended DEF AddPurchase
<1> HIDE DEF n
<1>3. /\ \A u \in Users : DOMAIN purchases'[u] =
              IF u = buyer THEN DOMAIN purchases[u] \cup {n} ELSE DOMAIN purchases[u]
      /\ \A u \in Users : \A k \in DOMAIN purchases[u] : purchases'[u][k] = purchases[u][k]
      /\ purchases'[buyer][n] = purchase
  BY <1>1, <1>2
<1>4. \A p : p \in B <=> \E u \in Users : \E k \in DOMAIN purchases[u] : p = <<u, k>>
  BY BoughtIs DEF BoughtAt
<1>14. \A p : p \in Bought' <=> \E u \in Users : \E k \in DOMAIN purchases'[u] : p = <<u, k>>
  <2>1. BoughtAt'
    BY BoughtIs, PTL
  <2>2. QED
    BY <2>1, Zenon DEF BoughtAt
<1>5. Bought' = B \cup {new} /\ new \notin B
  <2>1. new \notin B
    BY <1>2, <1>4
  <2>2. new \in Bought'
    BY <1>3, <1>14
  <2>3. ASSUME NEW p \in B PROVE p \in Bought'
    <3>0. PICK u \in Users : \E k \in DOMAIN purchases[u] : p = <<u, k>>
      BY <1>4, <2>3
    <3>1. PICK k \in DOMAIN purchases[u] : p = <<u, k>>
      BY <3>0
    <3>2. k \in DOMAIN purchases'[u]
      BY <1>3, <3>1
    <3>3. QED
      BY <1>14, <3>1, <3>2
  <2>4. ASSUME NEW p \in Bought' PROVE p \in B \cup {new}
    <3>0. PICK u \in Users : \E k \in DOMAIN purchases'[u] : p = <<u, k>>
      BY <1>14, <2>4
    <3>1. PICK k \in DOMAIN purchases'[u] : p = <<u, k>>
      BY <3>0
    <3>2. CASE k \in DOMAIN purchases[u]
      BY <1>4, <3>1, <3>2
    <3>3. CASE k \notin DOMAIN purchases[u]
      <4>1. u = buyer /\ k = n
        BY <1>3, <3>1, <3>3
      <4>2. QED
        BY <3>1, <4>1
    <3>4. QED
      BY <3>2, <3>3
  <2>5. QED
    BY <2>1, <2>2, <2>3, <2>4
<1>6. IsFiniteSet(Bought') /\ Cardinality(Bought') = Cardinality(B) + 1
  BY <1>1, <1>5, FS_AddElement
<1>7. Paid'[new] = price /\ \A p \in B : Paid'[p] = Paid[p] /\ Paid[p] \in Nat
  <2>1. \A p \in Bought' : Paid'[p] = purchases'[p[1]][p[2]].price
    BY DEF Paid
  <2>2. Paid'[new] = price
    BY <1>3, <1>5, <2>1
  <2>3. ASSUME NEW p \in B PROVE Paid'[p] = Paid[p] /\ Paid[p] \in Nat
    <3>1. Paid[p] = purchases[p[1]][p[2]].price
      BY DEF Paid
    <3>2. PICK u \in Users : \E k \in DOMAIN purchases[u] : p = <<u, k>>
      BY <1>4, <1>14
    <3>3. PICK k \in DOMAIN purchases[u] : p = <<u, k>>
      BY <3>2
    <3>4. purchases'[u][k] = purchases[u][k]
      BY <1>3
    <3>5. purchases[u][k] \in Purchase
      <4>1. purchases[u] \in Seq(Purchase)
        BY <1>1
      <4>2. QED
        BY <4>1, ElementOfSeq, LenProperties
    <3>6. purchases[u][k].price \in Nat
      BY <3>5 DEF Purchase
    <3>7. QED
      BY <1>5, <2>1, <3>1, <3>3, <3>4, <3>6
  <2>4. QED
    BY <2>2, <2>3
<1>8. SumFunctionOnSet(Paid', Bought') = SumFunctionOnSet(Paid, B) + price
  <2> DEFINE G == Paid'
             F == Paid
  <2>1. \A p \in B : G[p] = F[p]
    BY <1>7
  <2>2. \A p \in B \cup {new} : G[p] \in Int
    BY <1>7
  <2>3. G[new] = price
    BY <1>7
  <2> HIDE DEF G, F, new, B
  <2>4. SumFunctionOnSet(G, B) = SumFunctionOnSet(F, B)
    BY <1>1, <2>1, SumAgree
  <2>5. SumFunctionOnSet(G, B \cup {new}) = SumFunctionOnSet(G, B) + G[new]
    BY <1>1, <1>5, <2>2, SumAdd
  <2>6. SumFunctionOnSet(G, Bought') = SumFunctionOnSet(G, B \cup {new})
    BY <1>5, Zenon
  <2>7. QED
    BY <2>3, <2>4, <2>5, <2>6 DEF G, F
<1>9. /\ \A x \in Tiers : Counts[x] \in Nat /\ Volumes[x] \in Nat
      /\ \A x \in Tiers : Counts'[x] \in Nat /\ Volumes'[x] \in Nat
      /\ \A x \in Tiers \ {t} : Counts'[x] = Counts[x] /\ Volumes'[x] = Volumes[x]
      /\ Counts'[t] = Counts[t] + 1 /\ Volumes'[t] = Volumes[t] + price
  BY <1>1 DEF RecordSale, Counts, Volumes
<1>10. /\ SumFunctionOnSet(Counts', Tiers) = SumFunctionOnSet(Counts, Tiers) + 1
       /\ SumFunctionOnSet(Volumes', Tiers) = SumFunctionOnSet(Volumes, Tiers) + price
  <2> DEFINE C == Counts
             D == Counts'
             V == Volumes
             W == Volumes'
  <2>1. /\ \A x \in Tiers : C[x] \in Int /\ D[x] \in Int
        /\ \A x \in Tiers \ {t} : D[x] = C[x]
        /\ D[t] - C[t] = 1
    BY <1>9
  <2>2. /\ \A x \in Tiers : V[x] \in Int /\ W[x] \in Int
        /\ \A x \in Tiers \ {t} : W[x] = V[x]
        /\ W[t] - V[t] = price
    BY <1>9
  <2> HIDE DEF C, D, V, W
  <2>8. IsFiniteSet(Tiers)
    BY <1>1
  <2>3. SumFunctionOnSet(D, Tiers) = SumFunctionOnSet(C, Tiers) + (D[t] - C[t])
    BY <2>1, <2>8, SumChange
  <2>4. SumFunctionOnSet(W, Tiers) = SumFunctionOnSet(V, Tiers) + (W[t] - V[t])
    BY <2>2, <2>8, SumChange
  <2>5. SumFunctionOnSet(D, Tiers) = SumFunctionOnSet(C, Tiers) + 1
    BY <2>1, <2>3
  <2>6. SumFunctionOnSet(W, Tiers) = SumFunctionOnSet(V, Tiers) + price
    BY <2>2, <2>4
  <2>7. QED
    BY <2>5, <2>6, Zenon DEF C, D, V, W
<1>11. /\ SumFunctionOnSet(Counts', Tiers) = Cardinality(Bought')
       /\ SumFunctionOnSet(Volumes', Tiers) = SumFunctionOnSet(Paid', Bought')
  BY <1>1, <1>6, <1>8, <1>10
<1>12. SalesMatchPurchases'
  <2>1. SalesMatchPurchases' <=> SalesAgree'
    BY SalesShape, PTL
  <2>2. QED
    BY <1>11, <2>1 DEF SalesAgree
<1>13. QED
  BY <1>6, <1>12 DEF SalesInv

LEMMA SalesStep ==
  ASSUME TypeOK, SalesInv, [Next]_vars
  PROVE  SalesInv'
<1>1. CASE UNCHANGED saleVars
  <2>1. sales' = sales /\ purchases' = purchases
    BY <1>1 DEF saleVars
  <2>2. Bought' = Bought
    BY <2>1, Zenon DEF Bought
  <2>3. SalesMatchPurchases'
    BY <2>1, <2>2, Zenon DEF SalesInv, SalesMatchPurchases
  <2>4. QED
    BY <2>2, <2>3 DEF SalesInv
<1>2. ASSUME NEW u \in Users, NEW id \in DOMAIN listings, BuyBot(u, id)
      PROVE  SalesInv'
  <2> DEFINE l == listings[id]
             purchase == [listing |-> id, bot |-> l.bot, seller |-> l.seller,
                          price |-> l.price, currency |-> l.currency]
  <2>1. /\ l.seller \in Users /\ l.bot \in Bots /\ l.tier \in Tiers
        /\ l.price \in Nat /\ l.currency \in Currencies /\ id \in Nat
    BY ListingAt DEF TypeOK
  <2>2. purchase \in Purchase /\ purchase.price = l.price
    BY <2>1 DEF Purchase
  <2>3. RecordSale(l.tier, l.price) /\ AddPurchase(u, purchase)
    BY <1>2 DEF BuyBot
  <2> HIDE DEF purchase, l
  <2>4. QED
    BY <2>1, <2>2, <2>3, SaleBooks
<1>3. ASSUME NEW s \in Users, NEW o \in DOMAIN offers, AcceptOffer(s, o)
      PROVE  SalesInv'
  <2> DEFINE offer == offers[o]
             tier == TierOf[config.nft][offer.bot]
             purchase == [listing |-> 0, bot |-> offer.bot, seller |-> s,
                          price |-> offer.amount, currency |-> offer.currency]
  <2>1. /\ offer.buyer \in Users /\ offer.bot \in Bots /\ offer.amount \in Nat
        /\ offer.currency \in Currencies
    BY OfferAt DEF TypeOK
  <2>2. purchase \in Purchase /\ purchase.price = offer.amount
    BY <2>1 DEF Purchase
  <2>3. tier \in Tiers
    BY <2>1, BotsAssumption DEF TypeOK
  <2>4. RecordSale(tier, offer.amount) /\ AddPurchase(offer.buyer, purchase)
    BY <1>3 DEF AcceptOffer
  <2> HIDE DEF purchase, tier, offer
  <2>5. QED
    BY <2>1, <2>2, <2>3, <2>4, SaleBooks
<1>4. \/ UNCHANGED saleVars
      \/ \E u \in Users, id \in DOMAIN listings : BuyBot(u, id)
      \/ \E s \in Users, o \in DOMAIN offers : AcceptOffer(s, o)
  <2>1. ASSUME ListingStep
        PROVE  UNCHANGED saleVars \/ \E u \in Users, id \in DOMAIN listings : BuyBot(u, id)
    <3>1. CASE \E s \in Users, b \in Bots, p \in Prices, c \in Currencies, d \in Durations :
                 ListBot(s, b, p, c, d)
      BY <3>1 DEF ListBot
    <3>2. CASE \E s \in Users, id \in DOMAIN listings : CancelListing(s, id)
      BY <3>2 DEF CancelListing
    <3>3. CASE \E id \in DOMAIN listings : ReclaimExpired(id)
      BY <3>3 DEF ReclaimExpired
    <3>4. CASE \E s \in Users, id \in DOMAIN listings, p \in Prices : UpdatePrice(s, id, p)
      BY <3>4 DEF UpdatePrice
    <3>5. CASE \E n \in DOMAIN pages : CompactPage(n)
      BY <3>5 DEF CompactPage
    <3>6. QED
      BY <2>1, <3>1, <3>2, <3>3, <3>4, <3>5 DEF ListingStep
  <2>2. ASSUME OfferStep
        PROVE  UNCHANGED saleVars \/ \E s \in Users, o \in DOMAIN offers : AcceptOffer(s, o)
    <3>1. CASE \E u \in Users, b \in Bots, p \in Prices, c \in Currencies, d \in OfferTerms :
                 MakeOffer(u, b, p, c, d)
      BY <3>1 DEF MakeOffer
    <3>2. CASE \E u \in Users, o \in DOMAIN offers : CancelOffer(u, o)
      BY <3>2 DEF CancelOffer
    <3>3. CASE \E u \in Users, o \in DOMAIN offers : DismissOffer(u, o)
      BY <3>3 DEF DismissOffer
    <3>4. QED
      BY <2>2, <3>1, <3>2, <3>3 DEF OfferStep
  <2>3. AdminStep => UNCHANGED saleVars
    BY DEF AdminStep, WithdrawFees, SetFeeBps, SetBotNft, ProposeAdmin, AcceptAdmin,
      SetPaused, SetListingCap, SetMinPrice, AddAllowedCurrency, RemoveAllowedCurrency, marketVars
  <2>4. OutsideStep \/ UNCHANGED vars => UNCHANGED saleVars
    BY DEF OutsideStep, Tick, TransferBot, BurnBot, Pay, vars
  <2> QED
    BY <2>1, <2>2, <2>3, <2>4 DEF Next
<1>5. QED
  BY <1>1, <1>2, <1>3, <1>4

LEMMA BooksInit ==
  ASSUME Init
  PROVE  Solvent /\ SalesInv
<1>1. TypeOK
  BY TypeInit
<1>2. ActiveOffers = {} /\ \A c : BidsIn(c) = {}
  BY DEF Init, ActiveOffers, BidsIn
<1>3. \A c : Escrowed(c) = 0
  BY <1>2, SumEmpty DEF Escrowed
<1>4. Solvent
  <2>1. \A c \in Currencies : balance[c][Market] = 0 /\ fees[c] = 0
    BY Addresses DEF Init
  <2>2. QED
    BY <1>3, <2>1 DEF Solvent
<1>5. Bought = {}
  <2>1. \A u \in Users : DOMAIN purchases[u] = {}
    BY DEF Init
  <2>2. \A p : p \notin Bought
    BY <2>1, BoughtIs DEF BoughtAt
  <2>3. QED
    BY <2>2
<1>6. IsFiniteSet(Bought) /\ Cardinality(Bought) = 0
  BY <1>5, FS_EmptySet
<1>7. SumFunctionOnSet(Counts, Tiers) = 0 /\ SumFunctionOnSet(Volumes, Tiers) = 0
  <2>1. \A t \in Tiers : Counts[t] = 0 /\ Volumes[t] = 0
    BY DEF Init, Counts, Volumes
  <2>2. QED
    BY <2>1, TiersAssumption, SumZero
<1>8. SumFunctionOnSet(Paid, Bought) = 0
  BY <1>5, SumEmpty
<1>9. QED
  BY <1>4, <1>6, <1>7, <1>8, SalesShape DEF SalesInv, SalesAgree

LEMMA BooksInvariant == Spec => [](Solvent /\ SalesInv)
<1>1. Init => Solvent /\ SalesInv
  BY BooksInit
<1>2. TypeOK /\ TypeOK' /\ Solvent /\ SalesInv /\ [Next]_vars => (Solvent /\ SalesInv)'
  BY SolventStep, SalesStep
<1>3. QED
  BY <1>1, <1>2, TypeCorrect, PTL DEF Spec

(* What is owed can be paid, and what is published is what was paid.        *)
THEOREM BooksAlwaysBalance == Spec => []BooksBalance
<1>1. Solvent /\ SalesInv => BooksBalance
  BY DEF SalesInv, BooksBalance
<1>2. QED
  BY <1>1, BooksInvariant, PTL

-----------------------------------------------------------------------------
(* The abstract specification.                                              *)

(* What a user can still get at, and the abstract variables.                *)
Wealth(c, u) == balance[c][u] + OpenBids(c, u)

holderBar == [nft \in Nfts |-> [b \in Bots |-> Held(nft, b)]]
wealthBar == [c \in Currencies |-> [u \in Users |-> Wealth(c, u)]]
treasuryBar == [c \in Currencies |-> Free(c)]
entrustedBar == [nft \in Nfts |-> [b \in Bots |-> owner[nft][b] = Market]]
pledgedBar == [c \in Currencies |-> [u \in Users |-> OpenBids(c, u)]]

LEMMA BarVars == Promise!vars = <<holderBar, wealthBar, treasuryBar>>
BY DEF Promise!vars, holderBar, wealthBar, treasuryBar, Wealth, Free

(* What a step does to who may dispose of which bot, and to the money.      *)
HoldersKept == \A n \in Nfts, x \in Bots : Held(n, x)' = Held(n, x)

HolderMoves(nft, b, to) ==
  \A n \in Nfts, x \in Bots :
    Held(n, x)' = IF n = nft /\ x = b THEN to ELSE Held(n, x)

WealthKept == \A e \in Currencies, v \in Users : Wealth(e, v)' = Wealth(e, v)

FreeKept == \A e \in Currencies : Free(e)' = Free(e)

LEMMA HolderBarKept == ASSUME HoldersKept PROVE holderBar' = holderBar
BY DEF HoldersKept, holderBar

LEMMA WealthBarKept == ASSUME WealthKept PROVE wealthBar' = wealthBar
BY DEF WealthKept, wealthBar

LEMMA FreeBarKept == ASSUME FreeKept PROVE treasuryBar' = treasuryBar
BY DEF FreeKept, treasuryBar

LEMMA HolderBarMoves ==
  ASSUME NEW nft \in Nfts, NEW b \in Bots, NEW to, HolderMoves(nft, b, to)
  PROVE  /\ holderBar[nft][b] = Held(nft, b)
         /\ holderBar' = [holderBar EXCEPT ![nft][b] = to]
<1>1. holderBar[nft][b] = Held(nft, b)
  BY DEF holderBar
<1>2. holderBar' = [n \in Nfts |-> [x \in Bots |-> Held(n, x)']]
  BY DEF holderBar
<1>3. [holderBar EXCEPT ![nft][b] = to] =
        [n \in Nfts |-> [x \in Bots |-> IF n = nft /\ x = b THEN to ELSE Held(n, x)]]
  BY DEF holderBar
<1>4. QED
  BY <1>1, <1>2, <1>3 DEF HolderMoves

LEMMA WealthType ==
  ASSUME TypeOK, NEW c \in Currencies, NEW u \in Users
  PROVE  Wealth(c, u) \in Nat /\ Free(c) \in Int /\ balance[c][u] <= Wealth(c, u)
<1>1. balance[c][u] \in Nat /\ OpenBids(c, u) \in Nat /\ Escrowed(c) \in Nat
      /\ balance[c][Market] \in Nat
  BY AmountsNat, Addresses
<1>2. QED
  BY <1>1 DEF Wealth, Free

(* Delivery against payment, said pointwise.                                *)
MoneyTrades(c, buyer, seller, minter, price, payout, royalty, fee) ==
  /\ \A e \in Currencies : Free(e)' = Free(e) + If(e = c, fee)
  /\ \A e \in Currencies, v \in Users : Wealth(e, v)' = Wealth(e, v)
       - If(e = c /\ v = buyer, price) + If(e = c /\ v = seller, payout)
       + If(e = c /\ v = minter, royalty)

LEMMA TradeIs ==
  ASSUME TypeOK, NEW nft \in Nfts, NEW b \in Bots, NEW buyer \in Users, NEW c \in Currencies,
         NEW price \in Prices, NEW fee \in Nat, NEW royalty \in Nat, NEW payout \in Nat,
         fee + royalty + payout = price,
         HolderMoves(nft, b, buyer), NEW seller, seller = Held(nft, b),
         seller \in Users, seller # buyer,
         NEW minter \in Users, minter = MinterOf[nft][b],
         royalty = IF minter = seller THEN 0 ELSE RoyaltyOf(price),
         price <= Wealth(c, buyer), fee = BpsOf(price, config.fee),
         MoneyTrades(c, buyer, seller, minter, price, payout, royalty, fee)
  PROVE  Promise!Trade(nft, b, buyer)
<1> DEFINE w == wealthBar[c]
           paid == [w EXCEPT ![buyer] = @ - price]
           received == [paid EXCEPT ![seller] = @ + price]
           docked == [received EXCEPT ![seller] = @ - royalty]
           settled == [docked EXCEPT ![minter] = @ + royalty]
           final == [settled EXCEPT ![seller] = @ - fee]
<1>1. holderBar[nft][b] = seller /\ holderBar' = [holderBar EXCEPT ![nft][b] = buyer]
  BY HolderBarMoves
<1>2. price \in Nat
  OBVIOUS
<1>3. /\ \A e \in Currencies, v \in Users : Wealth(e, v) \in Nat
      /\ \A e \in Currencies : Free(e) \in Int
  <2>1. \A e \in Currencies : /\ balance[e][Market] \in Nat /\ Escrowed(e) \in Nat
                              /\ \A v \in Users : balance[e][v] \in Nat /\ OpenBids(e, v) \in Nat
    BY AmountsNat, Addresses
  <2>2. QED
    BY <2>1 DEF Wealth, Free
<1>4. w \in [Users -> Int] /\ \A v \in Users : w[v] = Wealth(c, v)
  BY <1>3 DEF wealthBar
<1> HIDE DEF w
<1>5. paid \in [Users -> Int] /\ \A v \in Users : paid[v] = w[v] - If(v = buyer, price)
  BY <1>2, <1>4 DEF If
<1> HIDE DEF paid
<1>6. received \in [Users -> Int] /\ \A v \in Users : received[v] = paid[v] + If(v = seller, price)
  BY <1>2, <1>5 DEF If
<1> HIDE DEF received
<1>7. docked \in [Users -> Int] /\ \A v \in Users : docked[v] = received[v] - If(v = seller, royalty)
  BY <1>6 DEF If
<1> HIDE DEF docked
<1>8. settled \in [Users -> Int] /\ \A v \in Users : settled[v] = docked[v] + If(v = minter, royalty)
  BY <1>7 DEF If
<1> HIDE DEF settled
<1>9. final \in [Users -> Int] /\ \A v \in Users : final[v] = settled[v] - If(v = seller, fee)
  BY <1>8 DEF If
<1> HIDE DEF final
<1>10. \A v \in Users : final[v] = Wealth(c, v)'
  <2> SUFFICES ASSUME NEW v \in Users PROVE final[v] = Wealth(c, v)'
    OBVIOUS
  <2>1. Wealth(c, v)' = Wealth(c, v) - If(v = buyer, price) + If(v = seller, payout)
                          + If(v = minter, royalty)
    BY DEF If, MoneyTrades
  <2>2. Wealth(c, v) \in Nat
    BY <1>3
  <2>3. /\ If(v = buyer, price) \in Nat /\ If(v = minter, royalty) \in Nat
        /\ If(v = seller, price) \in Nat /\ If(v = seller, royalty) \in Nat
        /\ If(v = seller, fee) \in Nat /\ If(v = seller, payout) \in Nat
    BY <1>2 DEF If
  <2>4. If(v = seller, payout) = If(v = seller, price) - If(v = seller, royalty) - If(v = seller, fee)
    BY <1>2 DEF If
  <2>5. received[v] = Wealth(c, v) - If(v = buyer, price) + If(v = seller, price)
    BY <1>4, <1>5, <1>6
  <2>6. settled[v] = received[v] - If(v = seller, royalty) + If(v = minter, royalty)
    BY <1>7, <1>8
  <2>7. final[v] = settled[v] - If(v = seller, fee)
    BY <1>9
  <2>8. QED
    BY <2>1, <2>2, <2>3, <2>4, <2>5, <2>6, <2>7
<1>11. wealthBar' = [wealthBar EXCEPT ![c] = final]
  <2>1. \A e \in Currencies \ {c} : \A v \in Users : Wealth(e, v)' = Wealth(e, v)
    BY <1>3 DEF If, MoneyTrades
  <2>2. wealthBar' = [e \in Currencies |-> [v \in Users |-> Wealth(e, v)']]
    BY DEF wealthBar
  <2>3. final = [v \in Users |-> Wealth(c, v)']
    BY <1>9, <1>10
  <2>4. [wealthBar EXCEPT ![c] = final] =
          [e \in Currencies |-> IF e = c THEN final ELSE [v \in Users |-> Wealth(e, v)]]
    BY DEF wealthBar
  <2>5. QED
    BY <2>1, <2>2, <2>3, <2>4
<1>12. /\ treasuryBar'[c] - treasuryBar[c] = fee
       /\ treasuryBar' = [treasuryBar EXCEPT ![c] = @ + fee]
  <2>1. /\ treasuryBar' = [e \in Currencies |-> Free(e)']
        /\ treasuryBar'[c] = Free(c)' /\ treasuryBar[c] = Free(c)
    BY DEF treasuryBar
  <2>2. Free(c)' = Free(c) + fee /\ Free(c) \in Int /\ \A e \in Currencies \ {c} : Free(e)' = Free(e)
    BY <1>3 DEF If, MoneyTrades
  <2>3. [treasuryBar EXCEPT ![c] = @ + fee] =
          [e \in Currencies |-> IF e = c THEN Free(c) + fee ELSE Free(e)]
    BY DEF treasuryBar
  <2>4. treasuryBar' = [treasuryBar EXCEPT ![c] = @ + fee]
    BY <2>1, <2>2, <2>3
  <2>5. treasuryBar'[c] - treasuryBar[c] = fee
    <3>1. treasuryBar'[c] - treasuryBar[c] = Free(c)' - Free(c)
      BY <2>1, Zenon
    <3>2. QED
      BY <2>2, <3>1
  <2>6. QED
    BY <2>4, <2>5
<1>13. /\ price <= wealthBar[c][buyer]
       /\ settled = Promise!Moved(Promise!Moved(wealthBar[c], buyer, seller, price),
                                  seller, minter, royalty)
  <2>1. price <= wealthBar[c][buyer]
    BY <1>4 DEF w
  <2>2. settled = Promise!Moved(Promise!Moved(wealthBar[c], buyer, seller, price),
                                seller, minter, royalty)
    BY Zenon DEF settled, docked, received, paid, w, Promise!Moved
  <2>3. QED
    BY <2>1, <2>2
<1> DEFINE Settles(e, p) ==
             LET r == IF minter = seller THEN 0 ELSE RoyaltyOf(p)
                 f == BpsOf(p, config.fee)
                 done == Promise!Moved(Promise!Moved(wealthBar[e], buyer, seller, p),
                                       seller, minter, r)
             IN  /\ p <= wealthBar[e][buyer]
                 /\ wealthBar' = [wealthBar EXCEPT ![e] = [done EXCEPT ![seller] = @ - f]]
                 /\ treasuryBar' = [treasuryBar EXCEPT ![e] = @ + f]
<1>14. Settles(c, price)
  BY <1>11, <1>12, <1>13, Zenon DEF final
<1> DEFINE Agreed(e, p) ==
             LET r == IF MinterOf[nft][b] = holderBar[nft][b] THEN 0 ELSE RoyaltyOf(p)
                 f == BpsOf(p, config.fee)
                 done == Promise!Moved(Promise!Moved(wealthBar[e], buyer, holderBar[nft][b], p),
                                       holderBar[nft][b], MinterOf[nft][b], r)
             IN  /\ p <= wealthBar[e][buyer]
                 /\ wealthBar' = [wealthBar EXCEPT ![e] =
                                    [done EXCEPT ![holderBar[nft][b]] = @ - f]]
                 /\ treasuryBar' = [treasuryBar EXCEPT ![e] = @ + f]
<1>15. Agreed(c, price)
  BY <1>1, <1>14, Zenon
<1>16. \E e \in Currencies, p \in Prices : Agreed(e, p)
  <2> HIDE DEF Agreed
  <2>1. QED
    BY <1>15
<1>17. /\ holderBar[nft][b] \in Users \ {buyer}
       /\ holderBar' = [holderBar EXCEPT ![nft][b] = buyer]
  BY <1>1
<1>18. QED
  BY <1>16, <1>17, ZenonT(60)
  DEF Promise!Trade, holderBar, wealthBar, treasuryBar, Wealth, Free

LEMMA StutterIs ==
  ASSUME HoldersKept, WealthKept, FreeKept
  PROVE  UNCHANGED Promise!vars
BY HolderBarKept, WealthBarKept, FreeBarKept, BarVars
DEF holderBar, wealthBar, treasuryBar, Wealth, Free, Promise!vars

LEMMA GiveAwayIs ==
  ASSUME NEW nft \in Nfts, NEW b \in Bots, NEW to \in Holders \cup {None},
         HolderMoves(nft, b, to), Held(nft, b) \in Users, WealthKept, FreeKept,
         owner[nft][b] # Market, UNCHANGED offers
  PROVE  Promise!Next
<1>1. holderBar[nft][b] \in Users /\ holderBar' = [holderBar EXCEPT ![nft][b] = to]
  BY HolderBarMoves
<1>2. wealthBar' = wealthBar /\ treasuryBar' = treasuryBar
  <2>1. wealthBar' = wealthBar
    BY WealthBarKept
  <2>2. treasuryBar' = treasuryBar
    BY FreeBarKept
  <2>3. QED
    BY <2>1, <2>2
<1>3. ~entrustedBar[nft][b] /\ pledgedBar' = pledgedBar
  BY BidsSame DEF entrustedBar, pledgedBar
<1>4. Promise!GiveAway(nft, b, to)
  BY <1>1, <1>2, <1>3, Zenon
  DEF Promise!GiveAway, holderBar, wealthBar, treasuryBar, entrustedBar, pledgedBar, Wealth, Free
<1>5. QED
  BY <1>4 DEF Promise!Next, Promise!Parties, Holders

(* Nothing that is with the market moves with a payment.                    *)
LEMMA PaymentIs ==
  ASSUME HoldersKept, UNCHANGED <<owner, offers>>, NEW c \in Currencies,
         \/ \E u, v \in Users : \E a \in {wealthBar'[c][v] - wealthBar[c][v]} :
              Promise!PayUser(c, u, v, a)
         \/ \E u \in Users : \E a \in {treasuryBar'[c] - treasuryBar[c]} : Promise!Donate(c, u, a)
         \/ \E u \in Users : \E a \in {wealthBar'[c][u] - wealthBar[c][u]} :
              Promise!SpendTreasury(c, u, a)
  PROVE  Promise!Next
<1>1. /\ holderBar' = holderBar
      /\ entrustedBar' = entrustedBar /\ pledgedBar' = pledgedBar
  BY HolderBarKept, BidsSame DEF entrustedBar, pledgedBar
<1>2. Promise!Payment(c)
  BY <1>1, Zenon
  DEF Promise!Payment, holderBar, wealthBar, treasuryBar, entrustedBar, pledgedBar, Wealth, Free
<1>3. QED
  BY <1>2 DEF Promise!Next

(* Money leaves a user for another, for the platform, or the platform for a *)
(* user.                                                                    *)
LEMMA PayUserIs ==
  ASSUME TypeOK, HoldersKept, FreeKept, UNCHANGED <<owner, offers>>, NEW c \in Currencies, NEW u \in Users, NEW v \in Users,
         u # v, NEW a \in Nat, a <= Wealth(c, u),
         \A e \in Currencies, w \in Users : Wealth(e, w)' = Wealth(e, w)
           - If(e = c /\ w = u, a) + If(e = c /\ w = v, a)
  PROVE  Promise!Next
<1> DEFINE half == [wealthBar[c] EXCEPT ![u] = @ - a]
           whole == [half EXCEPT ![v] = @ + a]
<1>1. \A e \in Currencies, w \in Users : Wealth(e, w) \in Nat
  BY WealthType
<1>2. half \in [Users -> Int] /\ \A w \in Users : half[w] = Wealth(c, w) - If(w = u, a)
  BY <1>1 DEF wealthBar, If
<1>3. whole \in [Users -> Int] /\ \A w \in Users : whole[w] = half[w] + If(w = v, a)
  <2> HIDE DEF half
  <2>1. QED
    BY <1>2 DEF If
<1>4. whole = Promise!Moved(wealthBar[c], u, v, a)
  BY Zenon DEF Promise!Moved
<1> HIDE DEF half, whole
<1>5. whole = [w \in Users |-> Wealth(c, w)']
  <2>1. \A w \in Users : whole[w] = Wealth(c, w)'
    BY <1>1, <1>2, <1>3 DEF If
  <2>2. QED
    BY <1>3, <2>1
<1>6. wealthBar' = [wealthBar EXCEPT ![c] = whole]
  <2>1. \A e \in Currencies \ {c} : \A w \in Users : Wealth(e, w)' = Wealth(e, w)
    BY <1>1 DEF If
  <2>2. wealthBar' = [e \in Currencies |-> [w \in Users |-> Wealth(e, w)']]
    BY DEF wealthBar
  <2>3. [wealthBar EXCEPT ![c] = whole] =
          [e \in Currencies |-> IF e = c THEN whole ELSE [w \in Users |-> Wealth(e, w)]]
    BY DEF wealthBar
  <2>4. QED
    BY <1>5, <2>1, <2>2, <2>3
<1>7. wealthBar'[c][v] - wealthBar[c][v] = a /\ a \in 0 .. wealthBar[c][u]
  <2>1. /\ wealthBar'[c][v] = Wealth(c, v)' /\ wealthBar[c][v] = Wealth(c, v)
        /\ wealthBar[c][u] = Wealth(c, u)
    BY DEF wealthBar
  <2>2. Wealth(c, v)' = Wealth(c, v) + a
    BY <1>1 DEF If
  <2>3. QED
    BY <1>1, <2>1, <2>2
<1>8. treasuryBar' = treasuryBar
  BY FreeBarKept
<1>9. Promise!PayUser(c, u, v, a)
  BY <1>4, <1>6, <1>7, <1>8, Zenon
  DEF Promise!PayUser, holderBar, wealthBar, treasuryBar, Wealth, Free
<1>10. QED
  BY <1>7, <1>9, PaymentIs

WealthChanges(c, u, a) ==
  \A e \in Currencies, w \in Users :
    Wealth(e, w)' = Wealth(e, w) + If(e = c /\ w = u, a)

LEMMA WealthBarAt ==
  ASSUME TypeOK, NEW c \in Currencies, NEW u \in Users, NEW a \in Int,
         WealthChanges(c, u, a)
  PROVE  /\ wealthBar' = [wealthBar EXCEPT ![c][u] = @ + a]
         /\ wealthBar[c][u] = Wealth(c, u) /\ wealthBar'[c][u] - wealthBar[c][u] = a
<1>1. \A e \in Currencies, w \in Users : Wealth(e, w) \in Nat
  BY WealthType
<1>2. wealthBar' = [e \in Currencies |-> [w \in Users |-> Wealth(e, w)']]
  BY DEF wealthBar
<1>3. [wealthBar EXCEPT ![c][u] = @ + a] = [e \in Currencies |-> [w \in Users |->
         IF e = c /\ w = u THEN Wealth(c, u) + a ELSE Wealth(e, w)]]
  BY DEF wealthBar
<1>4. \A e \in Currencies, w \in Users : Wealth(e, w)' =
         IF e = c /\ w = u THEN Wealth(c, u) + a ELSE Wealth(e, w)
  BY <1>1 DEF If, WealthChanges
<1>5. wealthBar' = [wealthBar EXCEPT ![c][u] = @ + a]
  BY <1>2, <1>3, <1>4
<1>6. wealthBar[c][u] = Wealth(c, u) /\ wealthBar'[c][u] = Wealth(c, u) + a
  BY <1>4 DEF wealthBar
<1>7. QED
  BY <1>1, <1>5, <1>6

LEMMA TreasuryBarAt ==
  ASSUME TypeOK, NEW c \in Currencies, NEW a \in Int,
         \A e \in Currencies : Free(e)' = Free(e) + If(e = c, a)
  PROVE  /\ treasuryBar' = [treasuryBar EXCEPT ![c] = @ + a]
         /\ treasuryBar[c] = Free(c) /\ treasuryBar'[c] - treasuryBar[c] = a
<1>1. \A e \in Currencies : Free(e) \in Int
  BY AmountsNat DEF Free
<1>2. treasuryBar' = [e \in Currencies |-> Free(e)']
  BY DEF treasuryBar
<1>3. [treasuryBar EXCEPT ![c] = @ + a]
        = [e \in Currencies |-> IF e = c THEN Free(c) + a ELSE Free(e)]
  BY DEF treasuryBar
<1>4. \A e \in Currencies : Free(e)' = IF e = c THEN Free(c) + a ELSE Free(e)
  BY <1>1 DEF If
<1>5. treasuryBar' = [treasuryBar EXCEPT ![c] = @ + a]
  BY <1>2, <1>3, <1>4
<1>6. treasuryBar[c] = Free(c) /\ treasuryBar'[c] = Free(c) + a
  BY <1>4 DEF treasuryBar
<1>7. QED
  BY <1>1, <1>5, <1>6

LEMMA DonateIs ==
  ASSUME TypeOK, HoldersKept, UNCHANGED <<owner, offers>>, NEW c \in Currencies, NEW u \in Users,
         NEW a \in Nat, a <= Wealth(c, u),
         \A e \in Currencies, w \in Users :
           Wealth(e, w)' = Wealth(e, w) + If(e = c /\ w = u, -a),
         \A e \in Currencies : Free(e)' = Free(e) + If(e = c, a)
  PROVE  Promise!Next
<1> DEFINE less == -a
<1>1. /\ wealthBar' = [wealthBar EXCEPT ![c][u] = @ + less]
      /\ wealthBar[c][u] = Wealth(c, u)
  <2>1. PICK m \in Int : m = -a
    OBVIOUS
  <2>2. m \in Int /\ WealthChanges(c, u, m)
    BY <2>1 DEF WealthChanges
  <2>3. /\ wealthBar' = [wealthBar EXCEPT ![c][u] = @ + m]
        /\ wealthBar[c][u] = Wealth(c, u)
    BY <2>2, WealthBarAt
  <2>4. QED
    BY <2>1, <2>3, Zenon
<1>2. /\ treasuryBar' = [treasuryBar EXCEPT ![c] = @ + a]
      /\ treasuryBar'[c] - treasuryBar[c] = a
  BY TreasuryBarAt
<1>3. wealthBar' = [wealthBar EXCEPT ![c][u] = @ - a] /\ a \in 0 .. wealthBar[c][u]
  <2>1. Wealth(c, u) \in Nat
    BY WealthType
  <2>2. wealthBar[c][u] + less = wealthBar[c][u] - a
    BY <1>1, <2>1
  <2>3. wealthBar' = [wealthBar EXCEPT ![c][u] = @ - a]
    BY <1>1, <2>2, Zenon
  <2>4. a \in 0 .. wealthBar[c][u]
    <3>1. wealthBar[c][u] = Wealth(c, u)
      BY <1>1
    <3>2. QED
      BY <2>1, <3>1
  <2>5. QED
    BY <2>3, <2>4
<1>4. Promise!Donate(c, u, a)
  BY <1>2, <1>3, Zenon
  DEF Promise!Donate, holderBar, wealthBar, treasuryBar, Wealth, Free
<1>5. QED
  BY <1>2, <1>4, PaymentIs

LEMMA SpendTreasuryIs ==
  ASSUME TypeOK, HoldersKept, UNCHANGED <<owner, offers>>, NEW c \in Currencies, NEW u \in Users,
         NEW a \in Nat, a <= Free(c),
         \A e \in Currencies, w \in Users :
           Wealth(e, w)' = Wealth(e, w) + If(e = c /\ w = u, a),
         \A e \in Currencies : Free(e)' = Free(e) + If(e = c, -a)
  PROVE  Promise!Next
<1> DEFINE less == -a
<1>1. /\ wealthBar' = [wealthBar EXCEPT ![c][u] = @ + a]
      /\ wealthBar'[c][u] - wealthBar[c][u] = a
  <2>1. WealthChanges(c, u, a)
    BY DEF WealthChanges
  <2>2. QED
    BY <2>1, WealthBarAt
<1>2. /\ treasuryBar' = [treasuryBar EXCEPT ![c] = @ + less]
      /\ treasuryBar[c] = Free(c)
  <2>1. PICK m \in Int : m = -a
    OBVIOUS
  <2>2. \A e \in Currencies : Free(e)' = Free(e) + If(e = c, m)
    BY <2>1
  <2>3. QED
    BY <2>1, <2>2, TreasuryBarAt
<1>3. treasuryBar' = [treasuryBar EXCEPT ![c] = @ - a] /\ a \in 0 .. treasuryBar[c]
  <2>1. Free(c) \in Int
    BY AmountsNat DEF Free
  <2>2. treasuryBar[c] + less = treasuryBar[c] - a
    BY <1>2, <2>1
  <2>3. treasuryBar' = [treasuryBar EXCEPT ![c] = @ - a]
    BY <1>2, <2>2, Zenon
  <2>4. a \in 0 .. treasuryBar[c]
    <3>1. treasuryBar[c] = Free(c)
      BY <1>2
    <3>2. QED
      BY <2>1, <3>1
  <2>5. QED
    BY <2>3, <2>4
<1>4. Promise!SpendTreasury(c, u, a)
  BY <1>1, <1>3, Zenon
  DEF Promise!SpendTreasury, holderBar, wealthBar, treasuryBar, Wealth, Free
<1>5. QED
  BY <1>1, <1>4, PaymentIs

-----------------------------------------------------------------------------
(* Who may dispose of a bot, handler by handler.                            *)

(* An indexed listing is an active listing of that bot, which the contract  *)
(* holds for its seller.                                                    *)
LEMMA HeldIs ==
  ASSUME IInv, NEW n \in Nfts, NEW x \in Bots
  PROVE  /\ botListing[x] # 0 =>
              /\ botListing[x] \in ActiveIds(listings) /\ botListing[x] \in DOMAIN listings
              /\ listings[botListing[x]].bot = x /\ BotOwner(x) = Market
              /\ listings[botListing[x]].seller \in Users
              /\ HasActiveListing(x)
         /\ n # config.nft => Held(n, x) = owner[n][x]
         /\ botListing[x] = 0 => Held(n, x) = owner[n][x]
         /\ n = config.nft /\ botListing[x] # 0 => Held(n, x) = listings[botListing[x]].seller
<1>1. ASSUME botListing[x] # 0
      PROVE  /\ botListing[x] \in ActiveIds(listings) /\ botListing[x] \in DOMAIN listings
             /\ listings[botListing[x]].bot = x /\ BotOwner(x) = Market
             /\ listings[botListing[x]].seller \in Users
             /\ HasActiveListing(x)
  <2>1. botListing[x] \in ActiveIds(listings) /\ listings[botListing[x]].bot = x
    BY <1>1 DEF IInv, Custody, BotIndexSound
  <2>2. botListing[x] \in DOMAIN listings /\ listings[botListing[x]].active
    BY <2>1 DEF ActiveIds
  <2>3. BotOwner(x) = Market
    BY <2>1 DEF IInv, Custody, Backed
  <2>4. listings[botListing[x]].seller \in Users
    BY <2>2, ListingAt DEF IInv, TypeOK
  <2>5. QED
    BY <1>1, <2>1, <2>2, <2>3, <2>4 DEF HasActiveListing
<1>2. QED
  BY <1>1 DEF Held, EffectiveOwner, BotOwner, HasActiveListing

(* Held, in a state reached by a step, needs only the parts it reads.       *)
LEMMA HeldNext ==
  ASSUME NEW n \in Nfts, NEW x \in Bots
  PROVE  /\ n # config'.nft => Held(n, x)' = owner'[n][x]
         /\ owner'[n][x] # Market => Held(n, x)' = owner'[n][x]
         /\ botListing'[x] = 0 => Held(n, x)' = owner'[n][x]
         /\ n = config'.nft /\ owner'[n][x] = Market /\ botListing'[x] # 0
              /\ listings'[botListing'[x]].active
              => Held(n, x)' = listings'[botListing'[x]].seller
BY DEF Held, EffectiveOwner, BotOwner, HasActiveListing

LEMMA OwnersUntouched ==
  ASSUME IInv, owner' = owner, config'.nft = config.nft, botListing' = botListing,
         \A x \in Bots : botListing[x] # 0 =>
           /\ listings'[botListing[x]].active
           /\ listings'[botListing[x]].seller = listings[botListing[x]].seller
  PROVE  HoldersKept
<1> SUFFICES ASSUME NEW n \in Nfts, NEW x \in Bots PROVE Held(n, x)' = Held(n, x)
  BY DEF HoldersKept
<1>1. CASE botListing[x] = 0
  BY <1>1, HeldIs, HeldNext
<1>2. CASE botListing[x] # 0 /\ n # config.nft
  BY <1>2, HeldIs, HeldNext
<1>3. CASE botListing[x] # 0 /\ n = config.nft
  BY <1>3, HeldIs, HeldNext DEF BotOwner
<1>4. QED
  BY <1>1, <1>2, <1>3

(* A bot nobody has listed changes owner.                                   *)
LEMMA OwnerMoves ==
  ASSUME IInv, UNCHANGED listingVars, config'.nft = config.nft,
         NEW nft \in Nfts, NEW b \in Bots, NEW to, owner[nft][b] \in Users,
         owner' = [owner EXCEPT ![nft][b] = to]
  PROVE  Held(nft, b) = owner[nft][b] /\ HolderMoves(nft, b, to)
<1>1. owner \in [Nfts -> [Bots -> Holders \cup {None}]]
  BY DEF IInv, TypeOK
<1>2. \A n \in Nfts, x \in Bots : owner'[n][x] = IF n = nft /\ x = b THEN to ELSE owner[n][x]
  BY <1>1
<1>3. botListing' = botListing /\ listings' = listings
  BY DEF listingVars
<1>4. nft = config.nft => botListing[b] = 0
  BY HeldIs, Addresses DEF BotOwner
<1>5. Held(nft, b) = owner[nft][b]
  BY <1>4, HeldIs
<1>6. ASSUME NEW n \in Nfts, NEW x \in Bots
      PROVE  Held(n, x)' = IF n = nft /\ x = b THEN to ELSE Held(n, x)
  <2>1. CASE n = nft /\ x = b
    BY <1>2, <1>3, <1>4, <2>1, HeldNext
  <2>2. CASE ~(n = nft /\ x = b)
    <3>1. owner'[n][x] = owner[n][x]
      BY <1>2, <2>2
    <3>2. CASE botListing[x] = 0
      BY <1>3, <2>2, <3>1, <3>2, HeldIs, HeldNext
    <3>3. CASE botListing[x] # 0 /\ n # config.nft
      BY <1>3, <2>2, <3>1, <3>3, HeldIs, HeldNext
    <3>4. CASE botListing[x] # 0 /\ n = config.nft
      BY <1>3, <2>2, <3>1, <3>4, HeldIs, HeldNext DEF BotOwner, ActiveIds
    <3>5. QED
      BY <3>2, <3>3, <3>4
  <2>3. QED
    BY <2>1, <2>2
<1>7. QED
  BY <1>5, <1>6 DEF HolderMoves

(* list_bot: the seller keeps disposing of the bot the contract now holds.  *)
LEMMA ListBotHolders ==
  ASSUME IInv, NEW s \in Users, NEW b \in Bots, NEW p \in Prices, NEW c \in Currencies,
         NEW d \in Durations, ListBot(s, b, p, c, d)
  PROVE  HoldersKept
<1> DEFINE id == Len(listings) + 1
           new == [seller |-> s, bot |-> b, tier |-> TierOf[config.nft][b], price |-> p,
                   currency |-> c, active |-> TRUE, expires |-> now + d]
<1>1. /\ listings' = Append(listings, new) /\ botListing' = [botListing EXCEPT ![b] = id]
      /\ BotOwner(b) = s /\ owner' = [owner EXCEPT ![config.nft][b] = Market]
      /\ config' = config
  BY DEF ListBot, MoveBot, adminVars
<1>2. /\ listings \in Seq(Listing) /\ owner \in [Nfts -> [Bots -> Holders \cup {None}]]
      /\ botListing \in [Bots -> Nat] /\ config.nft \in Nfts
  BY DEF IInv, TypeOK
<1>3. new \in Listing
  BY <1>1, <1>2, CallerAssumption, BotsAssumption DEF IInv, TypeOK, Listing, ListBot
<1>4. /\ Len(listings) \in Nat /\ listings'[id] = new
      /\ \A j \in DOMAIN listings : listings'[j] = listings[j]
  BY <1>1, <1>2, <1>3, Appended
<1>5. new.active /\ new.seller = s
  OBVIOUS
<1>6. id # 0
  BY <1>4
<1> HIDE DEF new, id
<1>7. botListing[b] = 0
  BY <1>1, HeldIs, Addresses, <1>2
<1>8. ASSUME NEW n \in Nfts, NEW x \in Bots PROVE Held(n, x)' = Held(n, x)
  <2>1. owner'[n][x] = IF n = config.nft /\ x = b THEN Market ELSE owner[n][x]
    BY <1>1, <1>2
  <2>2. botListing'[x] = IF x = b THEN id ELSE botListing[x]
    BY <1>1, <1>2
  <2>3. CASE n # config.nft
    BY <1>1, <2>1, <2>3, HeldIs, HeldNext
  <2>4. CASE n = config.nft /\ x = b
    <3>1. Held(n, x)' = s
      <4>1. owner'[n][x] = Market /\ botListing'[x] = id /\ n = config'.nft
        BY <1>1, <2>1, <2>2, <2>4
      <4>2. listings'[id].active /\ listings'[id].seller = s
        BY <1>4, <1>5
      <4>3. QED
        BY <1>6, <4>1, <4>2, HeldNext
    <3>2. Held(n, x) = s
      BY <1>1, <1>7, <2>4, HeldIs DEF BotOwner
    <3>3. QED
      BY <3>1, <3>2
  <2>5. CASE n = config.nft /\ x # b /\ botListing[x] = 0
    BY <1>1, <2>1, <2>2, <2>5, HeldIs, HeldNext
  <2>6. CASE n = config.nft /\ x # b /\ botListing[x] # 0
    <3>1. /\ botListing[x] \in ActiveIds(listings) /\ botListing[x] \in DOMAIN listings
          /\ BotOwner(x) = Market /\ Held(n, x) = listings[botListing[x]].seller
      BY <2>6, HeldIs
    <3>2. listings'[botListing'[x]] = listings[botListing[x]]
      BY <1>4, <2>2, <2>6, <3>1
    <3>3. QED
      BY <1>1, <2>1, <2>2, <2>6, <3>1, <3>2, HeldNext DEF BotOwner, ActiveIds
  <2>7. QED
    BY <2>3, <2>4, <2>5, <2>6
<1>9. QED
  BY <1>8 DEF HoldersKept

(* A listing that ends hands its bot from its seller to the receiver.       *)
LEMMA EndedHolders ==
  ASSUME IInv, NEW id \in ActiveIds(listings), NEW to \in Users, Deactivate(id),
         MoveBot(listings[id].bot, to), config' = config
  PROVE  /\ Held(config.nft, listings[id].bot) = listings[id].seller
         /\ HolderMoves(config.nft, listings[id].bot, to)
         /\ listings[id].bot \in Bots /\ config.nft \in Nfts
<1> DEFINE b == listings[id].bot
<1>1. /\ id \in DOMAIN listings /\ b \in Bots /\ config.nft \in Nfts /\ id # 0
      /\ owner \in [Nfts -> [Bots -> Holders \cup {None}]] /\ botListing \in [Bots -> Nat]
  BY ListingAt, SMTT(20) DEF IInv, TypeOK, ActiveIds
<1>2. botListing[b] = id
  BY DEF IInv, Custody, Backed
<1>3. /\ botListing' = [botListing EXCEPT ![b] = 0]
      /\ owner' = [owner EXCEPT ![config.nft][b] = to]
  BY DEF Deactivate, MoveBot
<1>4. \A j \in DOMAIN listings \ {id} : listings'[j] = listings[j]
  BY Ended DEF IInv
<1> HIDE DEF b
<1>5. Held(config.nft, b) = listings[id].seller
  BY <1>1, <1>2, HeldIs
<1>6. ASSUME NEW n \in Nfts, NEW x \in Bots
      PROVE  Held(n, x)' = IF n = config.nft /\ x = b THEN to ELSE Held(n, x)
  <2>1. owner'[n][x] = IF n = config.nft /\ x = b THEN to ELSE owner[n][x]
    BY <1>1, <1>3
  <2>2. botListing'[x] = IF x = b THEN 0 ELSE botListing[x]
    BY <1>1, <1>3
  <2>3. CASE n # config.nft
    BY <2>1, <2>3, HeldIs, HeldNext
  <2>4. CASE n = config.nft /\ x = b
    BY <2>1, <2>2, <2>4, HeldNext
  <2>5. CASE n = config.nft /\ x # b /\ botListing[x] = 0
    BY <2>1, <2>2, <2>5, HeldIs, HeldNext
  <2>6. CASE n = config.nft /\ x # b /\ botListing[x] # 0
    <3>1. /\ botListing[x] \in ActiveIds(listings) /\ botListing[x] \in DOMAIN listings
          /\ BotOwner(x) = Market /\ Held(n, x) = listings[botListing[x]].seller
          /\ listings[botListing[x]].bot = x
      BY <2>6, HeldIs
    <3>2. botListing[x] # id
      BY <2>6, <3>1 DEF b
    <3>3. listings'[botListing'[x]] = listings[botListing[x]]
      BY <1>4, <2>2, <2>6, <3>1, <3>2
    <3>4. QED
      BY <2>1, <2>2, <2>6, <3>1, <3>3, HeldNext DEF BotOwner, ActiveIds
  <2>7. QED
    BY <2>3, <2>4, <2>5, <2>6
<1>7. QED
  BY <1>1, <1>5, <1>6 DEF HolderMoves, b

LEMMA ReturnedHolders ==
  ASSUME IInv, NEW id \in ActiveIds(listings), Deactivate(id),
         MoveBot(listings[id].bot, listings[id].seller), config' = config
  PROVE  HoldersKept
<1>1. listings[id].seller \in Users
  BY ListingAt DEF IInv, TypeOK, ActiveIds
<1>2. /\ Held(config.nft, listings[id].bot) = listings[id].seller
      /\ HolderMoves(config.nft, listings[id].bot, listings[id].seller)
  BY <1>1, EndedHolders
<1>3. QED
  BY <1>2 DEF HolderMoves, HoldersKept

LEMMA UpdatePriceHolders ==
  ASSUME IInv, NEW s \in Users, NEW id \in DOMAIN listings, NEW p \in Prices,
         UpdatePrice(s, id, p)
  PROVE  HoldersKept
<1>1. /\ listings' = [listings EXCEPT ![id].price = p] /\ owner' = owner
      /\ config' = config /\ botListing' = botListing
  BY DEF UpdatePrice, adminVars
<1>2. ASSUME NEW j \in DOMAIN listings
      PROVE  listings'[j].seller = listings[j].seller /\ listings'[j].active = listings[j].active
  <2>1. listings[j] \in Listing
    BY ListingAt DEF IInv, TypeOK
  <2>2. CASE j = id
    <3>1. listings'[j] = [listings[j] EXCEPT !.price = p]
      BY <1>1, <2>2, Zenon
    <3>2. QED
      BY <2>1, <3>1, Zenon DEF Listing
  <2>3. CASE j # id
    BY <1>1, <2>3
  <2>4. QED
    BY <2>2, <2>3
<1>3. \A x \in Bots : botListing[x] # 0 =>
        /\ listings'[botListing[x]].active
        /\ listings'[botListing[x]].seller = listings[botListing[x]].seller
  <2>1. \A x \in Bots : botListing[x] # 0 =>
          botListing[x] \in DOMAIN listings /\ listings[botListing[x]].active
    BY DEF IInv, Custody, BotIndexSound, ActiveIds
  <2>2. QED
    BY <1>2, <2>1
<1>4. QED
  BY <1>1, <1>3, OwnersUntouched

(* set_bot_nft: no bot is in escrow when the contract changes collection.   *)
LEMMA SetBotNftHolders ==
  ASSUME IInv, NEW nft \in Nfts, SetBotNft(nft)
  PROVE  HoldersKept
<1>1. ActiveIds(listings) = {}
  BY NoneActive DEF SetBotNft
<1>2. \A x \in Bots : botListing[x] = 0
  BY <1>1 DEF IInv, Custody, BotIndexSound
<1>3. owner' = owner /\ botListing' = botListing
  BY DEF SetBotNft, marketVars, listingVars
<1>4. QED
  BY <1>2, <1>3, HeldIs, HeldNext DEF HoldersKept

-----------------------------------------------------------------------------
(* Every step is a step of the promise, or changes nothing in it.           *)

(* Trades are made at prices somebody named.                                *)
PricesNamed ==
  /\ \A id \in DOMAIN listings : listings[id].price \in Prices
  /\ \A o \in DOMAIN offers : offers[o].amount \in Prices

LEMMA MoneyUntouched ==
  ASSUME UNCHANGED <<balance, offers>>
  PROVE  WealthKept /\ FreeKept
<1>1. \A e, v : Escrowed(e)' = Escrowed(e) /\ OpenBids(e, v)' = OpenBids(e, v)
  BY BidsSame
<1>2. QED
  BY <1>1 DEF WealthKept, FreeKept, Wealth, Free

LEMMA RoyaltyIs ==
  \A price, b, seller :
    /\ SplitOf(price, b, seller).royalty =
         IF MinterOf[config.nft][b] = seller THEN 0 ELSE RoyaltyOf(price)
    /\ SplitOf(price, b, seller).fee = BpsOf(price, config.fee)
BY DEF SplitOf, Split, RoyaltyOf

LEMMA BuyBotSwaps ==
  ASSUME IInv, PricesNamed, NEW u \in Users, NEW id \in DOMAIN listings, BuyBot(u, id)
  PROVE  Promise!Next
<1> DEFINE l == listings[id]
           split == SplitOf(l.price, l.bot, l.seller)
           minter == MinterOf[config.nft][l.bot]
<1>1. /\ TypeOK /\ l.seller \in Users /\ l.bot \in Bots /\ l.price \in Nat
      /\ l.currency \in Currencies /\ l.price \in Prices /\ config.nft \in Nfts
  BY ListingAt DEF IInv, TypeOK, PricesNamed
<1>2. /\ id \in ActiveIds(listings) /\ l.seller # u /\ Deactivate(id)
      /\ MoveBot(l.bot, u) /\ config' = config /\ balance[l.currency][u] >= l.price
      /\ UNCHANGED offers
  BY DEF BuyBot, ActiveIds, adminVars, offerVars
<1>3. Held(config.nft, l.bot) = l.seller /\ HolderMoves(config.nft, l.bot, u)
  BY <1>2, EndedHolders
<1>4. /\ split.fee \in Nat /\ split.royalty \in Nat /\ split.payout \in Nat
      /\ split.fee + split.royalty + split.payout = l.price
  BY <1>1, SplitOfType
<1>5. minter \in Users
  BY <1>1, MinterType
<1>6. /\ split.royalty = IF minter = l.seller THEN 0 ELSE RoyaltyOf(l.price)
      /\ split.fee = BpsOf(l.price, config.fee)
  BY RoyaltyIs
<1>7. \A e \in Currencies : Free(e)' = Free(e) + If(e = l.currency, split.fee)
  BY <1>1, BuyBotFree DEF FeeOf
<1>8. \A e \in Currencies, v \in Users : balance'[e][v] = balance[e][v]
        - If(e = l.currency /\ v = u, l.price) + If(e = l.currency /\ v = l.seller, split.payout)
        + If(e = l.currency /\ v = minter, split.royalty)
  BY <1>1, BuyBotAt
<1> HIDE DEF split, minter
<1>9. PICK nft \in Nfts, b \in Bots, c \in Currencies, s \in Users, m \in Users :
        nft = config.nft /\ b = l.bot /\ c = l.currency /\ s = l.seller /\ m = minter
  BY <1>1, <1>5
<1>10. PICK p \in Prices, fee \in Nat, royalty \in Nat, payout \in Nat :
         /\ p = l.price /\ fee = split.fee /\ royalty = split.royalty
         /\ payout = split.payout
  BY <1>1, <1>4
<1>11. /\ p \in Nat /\ fee + royalty + payout = p /\ s # u
       /\ s = Held(nft, b) /\ m = MinterOf[nft][b]
       /\ royalty = IF m = s THEN 0 ELSE RoyaltyOf(p)
       /\ fee = BpsOf(p, config.fee)
  BY <1>1, <1>2, <1>3, <1>4, <1>6, <1>9, <1>10 DEF minter
<1>12. HolderMoves(nft, b, u)
  BY <1>3, <1>9 DEF HolderMoves
<1>13. p <= Wealth(c, u)
  <2>1. balance[c][u] <= Wealth(c, u) /\ Wealth(c, u) \in Nat /\ balance[c][u] \in Nat
    BY <1>1, WealthType, AmountsNat, Addresses
  <2>2. QED
    BY <1>2, <1>9, <1>10, <1>11, <2>1
<1>14. MoneyTrades(c, u, s, m, p, payout, royalty, fee)
  <2>1. \A e \in Currencies : Free(e)' = Free(e) + If(e = c, fee)
    BY <1>7, <1>9, <1>10
  <2>2. ASSUME NEW e \in Currencies, NEW v \in Users
        PROVE  Wealth(e, v)' = Wealth(e, v) - If(e = c /\ v = u, p)
                 + If(e = c /\ v = s, payout) + If(e = c /\ v = m, royalty)
    <3>1. balance'[e][v] = balance[e][v] - If(e = c /\ v = u, p)
            + If(e = c /\ v = s, payout) + If(e = c /\ v = m, royalty)
      BY <1>8, <1>9, <1>10
    <3>2. OpenBids(e, v)' = OpenBids(e, v) /\ OpenBids(e, v) \in Nat /\ balance[e][v] \in Nat
      BY <1>1, <1>2, BidsSame, AmountsNat, Addresses
    <3>3. /\ If(e = c /\ v = u, p) \in Nat /\ If(e = c /\ v = s, payout) \in Nat
          /\ If(e = c /\ v = m, royalty) \in Nat
      BY <1>11 DEF If
    <3>4. QED
      BY <3>1, <3>2, <3>3 DEF Wealth
  <2>3. QED
    BY <2>1, <2>2 DEF MoneyTrades
<1>15. Promise!Trade(nft, b, u)
  BY <1>1, <1>11, <1>12, <1>13, <1>14, TradeIs
<1>16. QED
  BY <1>15, Zenon DEF Promise!Next

(* accept_offer: the seller holds the bot, or is its listing's seller.      *)
LEMMA AcceptOfferHolders ==
  ASSUME IInv, NEW s \in Users, NEW o \in DOMAIN offers, AcceptOffer(s, o)
  PROVE  /\ Held(config.nft, offers[o].bot) = s
         /\ HolderMoves(config.nft, offers[o].bot, offers[o].buyer)
<1> DEFINE b == offers[o].bot
           buyer == offers[o].buyer
<1>1. b \in Bots /\ buyer \in Users /\ config.nft \in Nfts
  BY OfferAt DEF IInv, TypeOK
<1>2. MoveBot(b, buyer) /\ config' = config
  BY DEF AcceptOffer, adminVars
<1>3. CASE BotOwner(b) = s /\ UNCHANGED listingVars
  <2>1. owner' = [owner EXCEPT ![config.nft][b] = buyer] /\ owner[config.nft][b] = s
    BY <1>2, <1>3 DEF MoveBot, BotOwner
  <2>2. QED
    BY <1>1, <1>2, <1>3, <2>1, OwnerMoves
<1>4. CASE /\ HasActiveListing(b) /\ listings[botListing[b]].seller = s
           /\ Deactivate(botListing[b])
  <2>1. /\ botListing[b] \in ActiveIds(listings) /\ listings[botListing[b]].bot = b
    BY <1>1, <1>4, HeldIs DEF HasActiveListing
  <2>2. QED
    BY <1>1, <1>2, <1>4, <2>1, EndedHolders
<1>5. QED
  BY <1>3, <1>4 DEF AcceptOffer

LEMMA AcceptOfferSwaps ==
  ASSUME IInv, PricesNamed, NEW s \in Users, NEW o \in DOMAIN offers, AcceptOffer(s, o)
  PROVE  Promise!Next
<1> DEFINE offer == offers[o]
           split == SplitOf(offer.amount, offer.bot, s)
           minter == MinterOf[config.nft][offer.bot]
<1>1. /\ TypeOK /\ offer.buyer \in Users /\ offer.bot \in Bots /\ offer.amount \in Nat
      /\ offer.currency \in Currencies /\ offer.amount \in Prices /\ config.nft \in Nfts
  BY OfferAt DEF IInv, TypeOK, PricesNamed
<1>2. /\ o \in ActiveOffers /\ offer.buyer # s /\ CloseOffer(o, "Accepted")
  BY DEF AcceptOffer, ActiveOffers
<1>3. Held(config.nft, offer.bot) = s /\ HolderMoves(config.nft, offer.bot, offer.buyer)
  BY AcceptOfferHolders
<1>4. /\ split.fee \in Nat /\ split.royalty \in Nat /\ split.payout \in Nat
      /\ split.fee + split.royalty + split.payout = offer.amount
  BY <1>1, SplitOfType
<1>5. minter \in Users
  BY <1>1, MinterType
<1>6. /\ split.royalty = IF minter = s THEN 0 ELSE RoyaltyOf(offer.amount)
      /\ split.fee = BpsOf(offer.amount, config.fee)
  BY RoyaltyIs
<1>7. \A e \in Currencies : Free(e)' = Free(e) + If(e = offer.currency, split.fee)
  BY <1>1, AcceptOfferFree DEF FeeOf
<1>8. \A e \in Currencies, v \in Users : balance'[e][v] = balance[e][v]
        + If(e = offer.currency /\ v = s, split.payout)
        + If(e = offer.currency /\ v = minter, split.royalty)
  BY <1>1, AcceptOfferAt
<1>9. \A e, v :
        /\ OpenBids(e, v) = OpenBids(e, v)'
             + If(e = offer.currency /\ v = offer.buyer, offer.amount)
        /\ OpenBids(e, v)' \in Nat
  BY <1>1, <1>2, BidClosed
<1> HIDE DEF split, minter
<1>10. PICK nft \in Nfts, b \in Bots, c \in Currencies, u \in Users, m \in Users :
         nft = config.nft /\ b = offer.bot /\ c = offer.currency /\ u = offer.buyer /\ m = minter
  BY <1>1, <1>5
<1>11. PICK p \in Prices, fee \in Nat, royalty \in Nat, payout \in Nat :
         /\ p = offer.amount /\ fee = split.fee /\ royalty = split.royalty
         /\ payout = split.payout
  BY <1>1, <1>4
<1>12. /\ p \in Nat /\ fee + royalty + payout = p /\ s # u
       /\ s = Held(nft, b) /\ m = MinterOf[nft][b]
       /\ royalty = IF m = s THEN 0 ELSE RoyaltyOf(p)
       /\ fee = BpsOf(p, config.fee)
  BY <1>1, <1>2, <1>3, <1>4, <1>6, <1>10, <1>11 DEF minter
<1>13. HolderMoves(nft, b, u)
  BY <1>3, <1>10 DEF HolderMoves
<1>14. \A e \in Currencies, v \in Users :
         /\ OpenBids(e, v) = OpenBids(e, v)' + If(e = c /\ v = u, p)
         /\ OpenBids(e, v)' \in Nat
  BY <1>9, <1>10, <1>11
<1>15. p <= Wealth(c, u)
  <2>1. OpenBids(c, u) = OpenBids(c, u)' + p /\ OpenBids(c, u)' \in Nat
    BY <1>14 DEF If
  <2>2. balance[c][u] \in Nat
    BY <1>1, AmountsNat, Addresses
  <2>3. QED
    BY <1>12, <2>1, <2>2 DEF Wealth
<1>16. MoneyTrades(c, u, s, m, p, payout, royalty, fee)
  <2>1. \A e \in Currencies : Free(e)' = Free(e) + If(e = c, fee)
    BY <1>7, <1>10, <1>11
  <2>2. ASSUME NEW e \in Currencies, NEW v \in Users
        PROVE  Wealth(e, v)' = Wealth(e, v) - If(e = c /\ v = u, p)
                 + If(e = c /\ v = s, payout) + If(e = c /\ v = m, royalty)
    <3>1. balance'[e][v] = balance[e][v] + If(e = c /\ v = s, payout)
            + If(e = c /\ v = m, royalty)
      BY <1>8, <1>10, <1>11
    <3>2. /\ OpenBids(e, v) = OpenBids(e, v)' + If(e = c /\ v = u, p)
          /\ OpenBids(e, v)' \in Nat /\ balance[e][v] \in Nat
      BY <1>1, <1>14, AmountsNat, Addresses
    <3>3. /\ If(e = c /\ v = u, p) \in Nat /\ If(e = c /\ v = s, payout) \in Nat
          /\ If(e = c /\ v = m, royalty) \in Nat
      BY <1>12 DEF If
    <3>4. QED
      BY <3>1, <3>2, <3>3 DEF Wealth
  <2>3. QED
    BY <2>1, <2>2 DEF MoneyTrades
<1>17. Promise!Trade(nft, b, u)
  BY <1>1, <1>12, <1>13, <1>15, <1>16, TradeIs
<1>18. QED
  BY <1>17, Zenon DEF Promise!Next

(* A bid is still its bidder's, made or sent back.                          *)
LEMMA MakeOfferStutters ==
  ASSUME IInv, NEW u \in Users, NEW b \in Bots, NEW p \in Prices, NEW c \in Currencies,
         NEW d \in OfferTerms, MakeOffer(u, b, p, c, d)
  PROVE  UNCHANGED Promise!vars
<1>1. TypeOK
  BY DEF IInv
<1>2. HoldersKept
  <2>1. \A x \in Bots : botListing[x] # 0 => listings[botListing[x]].active
    BY DEF IInv, Custody, BotIndexSound, ActiveIds
  <2>2. QED
    BY <2>1, OwnersUntouched DEF MakeOffer, adminVars, listingVars
<1>3. FreeKept
  BY <1>1, MakeOfferFree DEF FreeKept
<1>4. WealthKept
  <2> SUFFICES ASSUME NEW e \in Currencies, NEW v \in Users
               PROVE  Wealth(e, v)' = Wealth(e, v)
    BY DEF WealthKept
  <2>1. p \in Nat /\ balance'[e][v] = balance[e][v] - If(e = c /\ v = u, p)
    BY <1>1, MakeOfferAt
  <2>2. OpenBids(e, v)' = OpenBids(e, v) + If(e = c /\ v = u, p)
    BY <1>1, BidMade
  <2>3. OpenBids(e, v) \in Nat /\ balance[e][v] \in Nat
    BY <1>1, AmountsNat, Addresses
  <2>4. QED
    BY <2>1, <2>2, <2>3 DEF Wealth, If
<1>5. QED
  BY <1>2, <1>3, <1>4, StutterIs

LEMMA RefundStutters ==
  ASSUME IInv, NEW o \in ActiveOffers, Refund(o), UNCHANGED <<owner, adminVars, listingVars>>
  PROVE  UNCHANGED Promise!vars
<1>1. TypeOK /\ o \in DOMAIN offers
  BY DEF IInv, ActiveOffers
<1>2. HoldersKept
  <2>1. \A x \in Bots : botListing[x] # 0 => listings[botListing[x]].active
    BY DEF IInv, Custody, BotIndexSound, ActiveIds
  <2>2. QED
    BY <2>1, OwnersUntouched DEF adminVars, listingVars
<1>3. FreeKept
  BY <1>1, RefundFree DEF FreeKept
<1>4. WealthKept
  <2> SUFFICES ASSUME NEW e \in Currencies, NEW v \in Users
               PROVE  Wealth(e, v)' = Wealth(e, v)
    BY DEF WealthKept
  <2> DEFINE more == If(e = offers[o].currency /\ v = offers[o].buyer, offers[o].amount)
  <2>1. balance'[e][v] = balance[e][v] + more
    BY <1>1, RefundAt
  <2>2. offers[o].amount \in Nat /\ OpenBids(e, v) = OpenBids(e, v)' + more
        /\ OpenBids(e, v)' \in Nat
    BY <1>1, BidClosed DEF Refund
  <2>3. balance[e][v] \in Nat
    BY <1>1, AmountsNat, Addresses
  <2>4. more \in Nat
    BY <2>2 DEF If
  <2> HIDE DEF more
  <2>5. QED
    BY <2>1, <2>2, <2>3, <2>4 DEF Wealth
<1>5. QED
  BY <1>2, <1>3, <1>4, StutterIs

(* The fees are the platform's, and only the platform's.                    *)
LEMMA WithdrawFeesSpends ==
  ASSUME IInv, Solvent, NEW c \in Currencies, NEW to \in Users, NEW a \in Withdrawals,
         WithdrawFees(c, to, a)
  PROVE  Promise!Next
<1>1. TypeOK
  BY DEF IInv
<1>2. HoldersKept
  <2>1. \A x \in Bots : botListing[x] # 0 => listings[botListing[x]].active
    BY DEF IInv, Custody, BotIndexSound, ActiveIds
  <2>2. QED
    BY <2>1, OwnersUntouched DEF WithdrawFees, adminVars, listingVars
<1>3. /\ a \in Nat /\ a <= fees[c]
      /\ \A e \in Currencies : balance'[e][Market] = balance[e][Market] - If(e = c, a)
      /\ \A e \in Currencies, v \in Users :
           balance'[e][v] = balance[e][v] + If(e = c /\ v = to, a)
  BY <1>1, WithdrawFeesAt
<1>4. \A e, v : Escrowed(e)' = Escrowed(e) /\ OpenBids(e, v)' = OpenBids(e, v)
  BY BidsSame DEF WithdrawFees, offerVars
<1>5. \A e \in Currencies, v \in Users : balance[e][v] \in Nat /\ OpenBids(e, v) \in Nat
  BY <1>1, AmountsNat, Addresses
<1>6. \A e \in Currencies : balance[e][Market] \in Nat /\ Escrowed(e) \in Nat /\ fees[e] \in Nat
  BY <1>1, AmountsNat
<1>7. a <= Free(c)
  BY <1>3, <1>6 DEF Solvent, Free
<1>8. \A e \in Currencies, w \in Users : Wealth(e, w)' = Wealth(e, w) + If(e = c /\ w = to, a)
  BY <1>3, <1>4, <1>5 DEF Wealth, If
<1>9. \A e \in Currencies : Free(e)' = Free(e) + If(e = c, -a)
  BY <1>3, <1>4, <1>6 DEF Free, If
<1>10. UNCHANGED <<owner, offers>>
  BY DEF WithdrawFees, offerVars
<1>11. QED
  BY <1>1, <1>2, <1>3, <1>7, <1>8, <1>9, <1>10, SpendTreasuryIs

LEMMA PaySwaps ==
  ASSUME IInv, NEW c \in Currencies, NEW u \in Users, NEW h \in Holders,
         NEW a \in Payments, Pay(c, u, h, a)
  PROVE  Promise!Next \/ UNCHANGED Promise!vars
<1>1. TypeOK
  BY DEF IInv
<1>2. HoldersKept
  <2>1. \A x \in Bots : botListing[x] # 0 => listings[botListing[x]].active
    BY DEF IInv, Custody, BotIndexSound, ActiveIds
  <2>2. QED
    BY <2>1, OwnersUntouched DEF Pay, adminVars, listingVars
<1>3. /\ a \in Nat /\ balance[c][u] >= a
      /\ \A e \in Currencies, g \in Holders :
           balance'[e][g] = balance[e][g] - If(e = c /\ g = u, a) + If(e = c /\ g = h, a)
  BY <1>1, PayAt
<1>4. \A e, v : Escrowed(e)' = Escrowed(e) /\ OpenBids(e, v)' = OpenBids(e, v)
  BY BidsSame DEF Pay, offerVars
<1>5. \A e \in Currencies, v \in Users : balance[e][v] \in Nat /\ OpenBids(e, v) \in Nat
  BY <1>1, AmountsNat, Addresses
<1>6. \A e \in Currencies : balance[e][Market] \in Nat /\ Escrowed(e) \in Nat
  BY <1>1, AmountsNat
<1>7. a <= Wealth(c, u)
  BY <1>3, <1>5 DEF Wealth
<1>8. /\ Users \subseteq Holders /\ Market \in Holders /\ Market \notin Users
      /\ UNCHANGED <<owner, offers>>
  BY Addresses DEF Pay, offerVars
<1>9. CASE h = Market
  <2>1. \A e \in Currencies, w \in Users : Wealth(e, w)' = Wealth(e, w) + If(e = c /\ w = u, -a)
    BY <1>3, <1>4, <1>5, <1>8, <1>9 DEF Wealth, If
  <2>2. \A e \in Currencies : Free(e)' = Free(e) + If(e = c, a)
    BY <1>3, <1>4, <1>6, <1>8, <1>9 DEF Free, If
  <2>3. QED
    BY <1>1, <1>2, <1>3, <1>7, <1>8, <2>1, <2>2, DonateIs
<1>10. CASE h \in Users
  <2>1. \A e \in Currencies, w \in Users : Wealth(e, w)' = Wealth(e, w)
          - If(e = c /\ w = u, a) + If(e = c /\ w = h, a)
    BY <1>3, <1>4, <1>5, <1>8, <1>10 DEF Wealth, If
  <2>2. FreeKept
    BY <1>3, <1>4, <1>6, <1>8, <1>10 DEF Free, If, FreeKept
  <2>3. CASE u # h
    BY <1>1, <1>2, <1>3, <1>7, <1>8, <1>10, <2>1, <2>2, <2>3, PayUserIs
  <2>4. CASE u = h
    <3>1. \A e \in Currencies, w \in Users : Wealth(e, w) \in Nat
      BY <1>5 DEF Wealth
    <3>2. WealthKept
      BY <1>3, <2>1, <2>4, <3>1 DEF WealthKept, If
    <3>3. QED
      BY <1>2, <2>2, <3>2, StutterIs
  <2>5. QED
    BY <2>3, <2>4
<1>11. QED
  BY <1>9, <1>10 DEF Holders

(* A step that touches neither escrow nor money.                            *)
LEMMA IdleStutters ==
  ASSUME IInv, UNCHANGED <<balance, offers, owner, listings, botListing>>,
         config'.nft = config.nft
  PROVE  UNCHANGED Promise!vars
<1>1. HoldersKept
  <2>1. \A x \in Bots : botListing[x] # 0 => listings[botListing[x]].active
    BY DEF IInv, Custody, BotIndexSound, ActiveIds
  <2>2. QED
    BY <2>1, OwnersUntouched
<1>2. WealthKept /\ FreeKept
  BY MoneyUntouched
<1>3. QED
  BY <1>1, <1>2, StutterIs

(* The owner of a bot gives it away outside the marketplace, or burns it.   *)
LEMMA OwnerMovesSwaps ==
  ASSUME IInv, NEW nft \in Nfts, NEW b \in Bots, NEW to \in Holders \cup {None},
         owner[nft][b] \in Users, owner' = [owner EXCEPT ![nft][b] = to],
         UNCHANGED <<balance, offers, listingVars>>, config'.nft = config.nft
  PROVE  Promise!Next
<1>1. Held(nft, b) \in Users /\ HolderMoves(nft, b, to)
  BY OwnerMoves
<1>2. WealthKept /\ FreeKept
  BY MoneyUntouched
<1>3. owner[nft][b] # Market
  BY Addresses
<1>4. QED
  BY <1>1, <1>2, <1>3, GiveAwayIs

LEMMA ListingSwaps ==
  ASSUME IInv, PricesNamed, ListingStep
  PROVE  Promise!Next \/ UNCHANGED Promise!vars
<1>1. ASSUME NEW s \in Users, NEW b \in Bots, NEW p \in Prices, NEW c \in Currencies,
             NEW d \in Durations, ListBot(s, b, p, c, d)
      PROVE  UNCHANGED Promise!vars
  <2>1. HoldersKept
    BY <1>1, ListBotHolders
  <2>2. WealthKept /\ FreeKept
    BY <1>1, MoneyUntouched DEF ListBot, offerVars
  <2>3. QED
    BY <2>1, <2>2, StutterIs
<1>2. ASSUME NEW u \in Users, NEW id \in DOMAIN listings, BuyBot(u, id)
      PROVE  Promise!Next
  BY <1>2, BuyBotSwaps
<1>3. ASSUME NEW id \in DOMAIN listings,
             CancelListing(listings[id].seller, id) \/ ReclaimExpired(id)
      PROVE  UNCHANGED Promise!vars
  <2>1. /\ id \in ActiveIds(listings) /\ Deactivate(id) /\ config' = config
        /\ MoveBot(listings[id].bot, listings[id].seller)
        /\ UNCHANGED <<balance, offers>>
    BY <1>3 DEF CancelListing, ReclaimExpired, ActiveIds, adminVars, offerVars
  <2>2. HoldersKept
    BY <2>1, ReturnedHolders
  <2>3. WealthKept /\ FreeKept
    BY <2>1, MoneyUntouched
  <2>4. QED
    BY <2>2, <2>3, StutterIs
<1>4. ASSUME NEW s \in Users, NEW id \in DOMAIN listings, NEW p \in Prices,
             UpdatePrice(s, id, p)
      PROVE  UNCHANGED Promise!vars
  <2>1. HoldersKept
    BY <1>4, UpdatePriceHolders
  <2>2. WealthKept /\ FreeKept
    BY <1>4, MoneyUntouched DEF UpdatePrice, offerVars
  <2>3. QED
    BY <2>1, <2>2, StutterIs
<1>5. ASSUME NEW n \in DOMAIN pages, CompactPage(n)
      PROVE  UNCHANGED Promise!vars
  BY <1>5, IdleStutters DEF CompactPage, adminVars, listingVars, offerVars
<1>6. ASSUME NEW s \in Users, NEW id \in DOMAIN listings, CancelListing(s, id)
      PROVE  UNCHANGED Promise!vars
  <2>1. CancelListing(listings[id].seller, id)
    BY <1>6 DEF CancelListing
  <2>2. QED
    BY <1>3, <2>1
<1>7. QED
  BY <1>1, <1>2, <1>3, <1>4, <1>5, <1>6 DEF ListingStep

LEMMA OfferSwaps ==
  ASSUME IInv, PricesNamed, OfferStep
  PROVE  Promise!Next \/ UNCHANGED Promise!vars
<1>1. ASSUME NEW u \in Users, NEW b \in Bots, NEW p \in Prices, NEW c \in Currencies,
             NEW d \in OfferTerms, MakeOffer(u, b, p, c, d)
      PROVE  UNCHANGED Promise!vars
  BY <1>1, MakeOfferStutters
<1>2. ASSUME NEW s \in Users, NEW o \in DOMAIN offers, AcceptOffer(s, o)
      PROVE  Promise!Next
  BY <1>2, AcceptOfferSwaps
<1>3. ASSUME NEW u \in Users, NEW o \in DOMAIN offers, CancelOffer(u, o) \/ DismissOffer(u, o)
      PROVE  UNCHANGED Promise!vars
  <2>1. o \in ActiveOffers /\ Refund(o) /\ UNCHANGED <<owner, adminVars, listingVars>>
    BY <1>3 DEF CancelOffer, DismissOffer, ActiveOffers
  <2>2. QED
    BY <2>1, RefundStutters
<1>4. QED
  BY <1>1, <1>2, <1>3 DEF OfferStep

LEMMA AdminSwaps ==
  ASSUME IInv, Solvent, AdminStep
  PROVE  Promise!Next \/ UNCHANGED Promise!vars
<1>1. ASSUME NEW c \in Currencies, NEW to \in Users, NEW a \in Withdrawals, WithdrawFees(c, to, a)
      PROVE  Promise!Next
  BY <1>1, WithdrawFeesSpends
<1>2. ASSUME NEW nft \in Nfts, SetBotNft(nft)
      PROVE  UNCHANGED Promise!vars
  <2>1. HoldersKept
    BY <1>2, SetBotNftHolders
  <2>2. WealthKept /\ FreeKept
    BY <1>2, MoneyUntouched DEF SetBotNft, marketVars, offerVars
  <2>3. QED
    BY <2>1, <2>2, StutterIs
<1>3. ASSUME UNCHANGED marketVars, config'.nft = config.nft
      PROVE  UNCHANGED Promise!vars
  BY <1>3, IdleStutters DEF marketVars, listingVars, offerVars
<1>4. \/ \E c \in Currencies, to \in Users, a \in Withdrawals : WithdrawFees(c, to, a)
      \/ \E nft \in Nfts : SetBotNft(nft)
      \/ UNCHANGED marketVars /\ config'.nft = config.nft
  <2>1. ASSUME NEW bps \in FeeChoices, SetFeeBps(bps)
        PROVE  UNCHANGED marketVars /\ config'.nft = config.nft
    <3>1. config \in [admin : Users, nft : Nfts, fee : Nat] /\ config' = [config EXCEPT !.fee = bps]
      BY <2>1 DEF SetFeeBps, IInv, TypeOK
    <3>2. config'.nft = config.nft
      BY <3>1, Zenon
    <3>3. QED
      BY <2>1, <3>2 DEF SetFeeBps
  <2>2. ASSUME AcceptAdmin
        PROVE  UNCHANGED marketVars /\ config'.nft = config.nft
    <3>1. /\ config \in [admin : Users, nft : Nfts, fee : Nat]
          /\ config' = [config EXCEPT !.admin = pendingAdmin]
      BY <2>2 DEF AcceptAdmin, IInv, TypeOK
    <3>2. config'.nft = config.nft
      BY <3>1, Zenon
    <3>3. QED
      BY <2>2, <3>2 DEF AcceptAdmin
  <2>3. QED
    BY <2>1, <2>2 DEF AdminStep, ProposeAdmin, SetPaused, SetListingCap, SetMinPrice,
      AddAllowedCurrency, RemoveAllowedCurrency
<1>5. QED
  BY <1>1, <1>2, <1>3, <1>4

LEMMA OutsideSwaps ==
  ASSUME IInv, OutsideStep
  PROVE  Promise!Next \/ UNCHANGED Promise!vars
<1>1. CASE Tick
  BY <1>1, IdleStutters DEF Tick, adminVars, listingVars, offerVars
<1>2. ASSUME NEW nft \in Nfts, NEW b \in Bots, NEW to \in BotRecipients, TransferBot(nft, b, to)
      PROVE  Promise!Next
  <2>1. UNCHANGED listingVars
    BY <1>2, ReportFindsNothing
  <2>2. to \in Holders \cup {None}
    BY CallerAssumption
  <2>3. /\ owner[nft][b] \in Users /\ owner' = [owner EXCEPT ![nft][b] = to]
        /\ UNCHANGED <<balance, offers>> /\ config'.nft = config.nft
    BY <1>2 DEF TransferBot, adminVars, offerVars
  <2>4. QED
    BY <2>1, <2>2, <2>3, OwnerMovesSwaps
<1>3. ASSUME NEW nft \in Nfts, NEW b \in Burnable, BurnBot(nft, b)
      PROVE  Promise!Next
  <2>1. b \in Bots /\ None \in Holders \cup {None}
    BY CallerAssumption
  <2>2. /\ owner[nft][b] \in Users /\ owner' = [owner EXCEPT ![nft][b] = None]
        /\ UNCHANGED <<balance, offers, listingVars>> /\ config'.nft = config.nft
    BY <1>3 DEF BurnBot, adminVars, offerVars
  <2>3. QED
    BY <2>1, <2>2, OwnerMovesSwaps
<1>4. ASSUME NEW c \in Currencies, NEW u \in Users, NEW h \in Holders, NEW a \in Payments,
             Pay(c, u, h, a)
      PROVE  Promise!Next \/ UNCHANGED Promise!vars
  BY <1>4, PaySwaps
<1>5. QED
  BY <1>1, <1>2, <1>3, <1>4 DEF OutsideStep

LEMMA SwapStep ==
  ASSUME IInv, Solvent, PricesNamed, [Next]_vars
  PROVE  Promise!Next \/ UNCHANGED Promise!vars
<1>1. CASE UNCHANGED vars
  BY <1>1, IdleStutters DEF vars, adminVars, listingVars, offerVars
<1>2. QED
  BY <1>1, ListingSwaps, OfferSwaps, AdminSwaps, OutsideSwaps DEF Next

(* The prices in the books are prices somebody named.                       *)
LEMMA PricesNamedStep ==
  ASSUME IInv, PricesNamed, [Next]_vars
  PROVE  PricesNamed'
<1>1. \A id \in DOMAIN listings' : listings'[id].price \in Prices
  <2>1. CASE UNCHANGED <<listings, floor, pages>>
    BY <2>1 DEF PricesNamed
  <2>2. ASSUME NEW s \in Users, NEW b \in Bots, NEW p \in Prices, NEW c \in Currencies,
               NEW d \in Durations, ListBot(s, b, p, c, d)
        PROVE  \A id \in DOMAIN listings' : listings'[id].price \in Prices
    <3> DEFINE new == [seller |-> s, bot |-> b, tier |-> TierOf[config.nft][b], price |-> p,
                       currency |-> c, active |-> TRUE, expires |-> now + d]
    <3>1. listings' = Append(listings, new) /\ listings \in Seq(Listing)
      BY <2>2 DEF ListBot, IInv, TypeOK
    <3>2. new \in Listing
      BY <2>2, CallerAssumption, BotsAssumption DEF IInv, TypeOK, Listing, ListBot
    <3>3. new.price = p
      OBVIOUS
    <3> HIDE DEF new
    <3>4. /\ DOMAIN listings' = DOMAIN listings \cup {Len(listings) + 1}
          /\ listings'[Len(listings) + 1] = new
          /\ \A j \in DOMAIN listings : listings'[j] = listings[j]
      BY <3>1, <3>2, Appended
    <3>5. QED
      BY <3>3, <3>4 DEF PricesNamed
  <2>3. ASSUME NEW id \in ActiveIds(listings), Deactivate(id)
        PROVE  \A j \in DOMAIN listings' : listings'[j].price \in Prices
    <3>1. id \in DOMAIN listings /\ listings[id] \in Listing
      BY ListingAt DEF IInv, TypeOK, ActiveIds
    <3>2. listings'[id] = [listings[id] EXCEPT !.active = FALSE]
      BY <2>3, <3>1, Zenon DEF Deactivate
    <3>3. listings'[id].price = listings[id].price
      BY <3>1, <3>2, Zenon DEF Listing
    <3>4. DOMAIN listings' = DOMAIN listings /\ \A j \in DOMAIN listings \ {id} : listings'[j] = listings[j]
      BY <2>3, Ended DEF IInv
    <3>5. QED
      BY <3>1, <3>3, <3>4 DEF PricesNamed
  <2>4. ASSUME NEW s \in Users, NEW id \in ActiveIds(listings), NEW p \in Prices,
               UpdatePrice(s, id, p)
        PROVE  \A j \in DOMAIN listings' : listings'[j].price \in Prices
    <3>1. /\ DOMAIN listings' = DOMAIN listings /\ listings'[id].price = p
          /\ \A j \in DOMAIN listings \ {id} : listings'[j] = listings[j]
      BY <2>4, Repriced DEF IInv
    <3>2. QED
      BY <3>1 DEF PricesNamed
  <2>5. ASSUME NEW n \in DOMAIN pages, CompactPage(n)
        PROVE  \A j \in DOMAIN listings' : listings'[j].price \in Prices
    BY <2>5 DEF CompactPage, listingVars, PricesNamed
  <2>6. QED
    BY <2>1, <2>2, <2>3, <2>4, <2>5, ListingEffect
<1>2. \A o \in DOMAIN offers' : offers'[o].amount \in Prices
  <2>1. CASE UNCHANGED offerVars
    BY <2>1 DEF offerVars, PricesNamed
  <2>2. ASSUME NEW u \in Users, NEW b \in Bots, NEW p \in Prices, NEW c \in Currencies,
               NEW d \in OfferTerms, MakeOffer(u, b, p, c, d)
        PROVE  \A o \in DOMAIN offers' : offers'[o].amount \in Prices
    <3> DEFINE new == [buyer |-> u, bot |-> b, amount |-> p, currency |-> c,
                       expires |-> now + d, status |-> "Active"]
    <3>1. offers' = Append(offers, new) /\ offers \in Seq(Offer)
      BY <2>2 DEF MakeOffer, IInv, TypeOK
    <3>2. new \in Offer
      BY <2>2, CallerAssumption DEF IInv, TypeOK, Offer, MakeOffer
    <3>3. new.amount = p
      OBVIOUS
    <3> HIDE DEF new
    <3>4. /\ DOMAIN offers' = DOMAIN offers \cup {Len(offers) + 1}
          /\ offers'[Len(offers) + 1] = new
          /\ \A j \in DOMAIN offers : offers'[j] = offers[j]
      BY <3>1, <3>2, Appended
    <3>5. QED
      BY <3>3, <3>4 DEF PricesNamed
  <2>3. ASSUME NEW o \in ActiveOffers, NEW status \in {"Accepted", "Cancelled"},
               CloseOffer(o, status)
        PROVE  \A j \in DOMAIN offers' : offers'[j].amount \in Prices
    <3>1. /\ DOMAIN offers' = DOMAIN offers
          /\ \A j \in DOMAIN offers : offers'[j].amount = offers[j].amount
      BY <2>3, Closed DEF IInv
    <3>2. QED
      BY <3>1 DEF PricesNamed
  <2>4. QED
    BY <2>1, <2>2, <2>3, OfferEffect
<1>3. QED
  BY <1>1, <1>2 DEF PricesNamed

LEMMA SwapInit ==
  ASSUME Init
  PROVE  PricesNamed /\ Promise!Init
<1>1. TypeOK /\ IInv
  BY InvInit DEF IInv
<1>2. PricesNamed
  BY DEF Init, PricesNamed
<1>3. \A c, u : Escrowed(c) = 0 /\ OpenBids(c, u) = 0
  <2>1. ActiveOffers = {}
    BY DEF Init, ActiveOffers
  <2>2. \A c, u : BidsIn(c) = {} /\ BidsOf(c, u) = {}
    BY <2>1 DEF BidsIn, BidsOf
  <2>3. QED
    BY <2>2, SumEmpty DEF Escrowed, OpenBids
<1>4. holderBar \in [Nfts -> [Bots -> Users]]
  <2>1. ASSUME NEW n \in Nfts, NEW x \in Bots PROVE Held(n, x) \in Users
    BY <1>1, HeldIs, BotsAssumption DEF Init
  <2>2. QED
    BY <2>1 DEF holderBar
<1>5. wealthBar \in [Currencies -> [Users -> Nat]]
  BY <1>1, WealthType DEF wealthBar
<1>6. treasuryBar = [c \in Currencies |-> 0]
  <2>1. \A c \in Currencies : Free(c) = 0
    BY <1>3, Addresses DEF Free, Init
  <2>2. QED
    BY <2>1 DEF treasuryBar
<1>7. Promise!Init
  BY <1>4, <1>5, <1>6, Zenon DEF Promise!Init, holderBar, wealthBar, treasuryBar, Wealth, Free
<1>8. QED
  BY <1>2, <1>7

LEMMA PricesAreNamed == Spec => []PricesNamed
<1>1. Init => PricesNamed
  BY SwapInit
<1>2. IInv /\ PricesNamed /\ [Next]_vars => PricesNamed'
  BY PricesNamedStep
<1>3. QED
  BY <1>1, <1>2, Invariant, PTL DEF Spec

(* Users see nothing but atomic swaps of a bot against its price, gifts and *)
(* payments, whatever handlers run in whatever order.                       *)
THEOREM MarketplaceImplementsAtomicSwap == Spec => ImplementsAtomicSwap
<1>1. Init => Promise!Init
  BY SwapInit
<1>2. IInv /\ Solvent /\ PricesNamed /\ [Next]_vars => [Promise!Next]_(Promise!vars)
  BY SwapStep
<1>3. Spec => [](Solvent /\ SalesInv)
  BY BooksInvariant
<1>4. QED
  BY <1>1, <1>2, <1>3, Invariant, PricesAreNamed, PTL DEF Spec, Promise!Spec, ImplementsAtomicSwap

=============================================================================
