------------------------------- MODULE Pricing -------------------------------
(***************************************************************************)
(* The integer arithmetic of the marketplace contract: how a settled       *)
(* amount splits between seller, minter and platform, and the smallest     *)
(* price the contract accepts by default.  Amounts are the contract's i128 *)
(* base units; they are never negative where these operators are applied.  *)
(***************************************************************************)
EXTENDS Integers

BpsDenominator == 10000

(* amount * bps / 10_000, computed on the quotient and the remainder of     *)
(* amount apart so that no product exceeds the amount's own width.          *)
BpsOf(amount, bps) ==
  (amount \div BpsDenominator) * bps
    + ((amount % BpsDenominator) * bps) \div BpsDenominator

(* How a price splits: the royalty is waived, and stays with the seller,    *)
(* when the seller is the bot's minter.                                     *)
Split(price, feeBps, royaltyBps, minterIsSeller) ==
  LET fee     == BpsOf(price, feeBps)
      royalty == IF minterIsSeller THEN 0 ELSE BpsOf(price, royaltyBps)
  IN  [fee |-> fee, royalty |-> royalty, payout |-> price - fee - royalty]

(* ceil(10_000 / fee_bps): the smallest price whose fee is at least one.    *)
DefaultMinPrice(feeBps) ==
  IF feeBps = 0 THEN 1 ELSE (BpsDenominator + feeBps - 1) \div feeBps

=============================================================================
