------------------------------ MODULE AtomicSwap ------------------------------
(***************************************************************************)
(* What the marketplace promises its users, with no listing, escrow, offer *)
(* or index in it: a bot has one holder who may dispose of it, a user has  *)
(* one wealth per currency, and the platform has a treasury.  A bot and    *)
(* its price change hands in one step or not at all; nothing else moves a  *)
(* bot except its holder giving it away, and nothing else moves money      *)
(* except its owner paying it or the admin spending the treasury.  What a  *)
(* user has left with the market is part of it, and handing it over or     *)
(* taking it back is no step; but it can leave its owner by a trade only:  *)
(* only a bot at hand is given away, and a payment leaves open bids alone. *)
(***************************************************************************)
EXTENDS Integers

CONSTANTS Users, Market, None, Nfts, Bots, Currencies, MinterOf, RoyaltyOf(_),
          FeeAt(_, _),  \* the platform's fee of a price at a rate
          Prices        \* the prices trades are made at

Parties == Users \cup {Market}

VARIABLES
  holder,    \* [Nfts -> [Bots -> Parties \cup {None}]]: who may dispose of a bot
  wealth,    \* [Currencies -> [Users -> Nat]]: what a user can still get at
  treasury,  \* [Currencies -> Nat]: what belongs to the platform
  entrusted, \* [Nfts -> [Bots -> BOOLEAN]]: the bots left with the market,
  pledged,   \* [Currencies -> [Users -> Nat]]: and the money
  feeBps     \* the fee in force, which the platform sets as it pleases

vars == <<holder, wealth, treasury>>

Moved(money, from, to, amount) ==
  LET debited == [money EXCEPT ![from] = @ - amount]
  IN  [debited EXCEPT ![to] = @ + amount]

(* Delivery against payment.  The minter gets the royalty on a resale only, *)
(* and the platform's fee comes out of what is left.                        *)
Trade(nft, b, buyer) ==
  LET seller == holder[nft][b]
      minter == MinterOf[nft][b]
  IN
  /\ seller \in Users \ {buyer}
  /\ holder' = [holder EXCEPT ![nft][b] = buyer]
  /\ \E c \in Currencies, price \in Prices :
       LET royalty == IF minter = seller THEN 0 ELSE RoyaltyOf(price)
           fee == FeeAt(price, feeBps)
           settled == Moved(Moved(wealth[c], buyer, seller, price),
                            seller, minter, royalty)
       IN
       /\ price <= wealth[c][buyer]
       /\ wealth' = [wealth EXCEPT ![c] = [settled EXCEPT ![seller] = @ - fee]]
       /\ treasury' = [treasury EXCEPT ![c] = @ + fee]

GiveAway(nft, b, to) ==
  /\ holder[nft][b] \in Users /\ ~entrusted[nft][b]
  /\ holder' = [holder EXCEPT ![nft][b] = to]
  /\ UNCHANGED <<wealth, treasury, pledged>>

PayUser(c, from, to, amount) ==
  /\ UNCHANGED treasury
  /\ amount \in 0 .. wealth[c][from]
  /\ wealth' = [wealth EXCEPT ![c] = Moved(@, from, to, amount)]

Donate(c, from, amount) ==
  /\ amount \in 0 .. wealth[c][from]
  /\ wealth' = [wealth EXCEPT ![c][from] = @ - amount]
  /\ treasury' = [treasury EXCEPT ![c] = @ + amount]

SpendTreasury(c, to, amount) ==
  /\ amount \in 0 .. treasury[c]
  /\ treasury' = [treasury EXCEPT ![c] = @ - amount]
  /\ wealth' = [wealth EXCEPT ![c][to] = @ + amount]

(* The amounts are read off the step, so that the conjuncts above are what  *)
(* restricts them and no range has to be enumerated.                        *)
Payment(c) ==
  /\ UNCHANGED <<holder, entrusted, pledged>>
  /\ \/ \E from, to \in Users :
          \E amount \in {wealth'[c][to] - wealth[c][to]} : PayUser(c, from, to, amount)
     \/ \E from \in Users :
          \E amount \in {treasury'[c] - treasury[c]} : Donate(c, from, amount)
     \/ \E to \in Users :
          \E amount \in {wealth'[c][to] - wealth[c][to]} : SpendTreasury(c, to, amount)

Init ==
  /\ holder \in [Nfts -> [Bots -> Users]]
  /\ wealth \in [Currencies -> [Users -> Nat]]
  /\ treasury = [c \in Currencies |-> 0]

Next ==
  \/ \E nft \in Nfts, b \in Bots, buyer \in Users : Trade(nft, b, buyer)
  \/ \E nft \in Nfts, b \in Bots, to \in Parties \cup {None} : GiveAway(nft, b, to)
  \/ \E c \in Currencies : Payment(c)

Spec == Init /\ [][Next]_vars

=============================================================================
