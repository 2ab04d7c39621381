---------------------------- MODULE MCMarketplace ----------------------------
(***************************************************************************)
(* The marketplace on small instances.  At the prices below and with fees  *)
(* of 250 or 500 basis points every fee and royalty is at least one unit.  *)
(***************************************************************************)
EXTENDS MarketplaceProps

CONSTANTS u1, u2, u3, n1, n2, b1, b2, common, rare, amt

(* u1 holds every bot at first; u3, where there is one, minted them.        *)
OneNft == {n1}
TwoNfts == {n1, n2}
OneTier == [nft \in Nfts |-> [b \in Bots |-> common]]
AllOwnedByFirst == [nft \in Nfts |-> [b \in Bots |-> u1]]
BotsApart == [nft \in Nfts |-> [b \in Bots |-> IF b = b1 THEN u1 ELSE u2]]
MintedByFirst == [nft \in Nfts |-> [b \in Bots |-> u1]]
MintedByThird == [nft \in Nfts |-> [b \in Bots |-> u3]]
RichUsers == [c \in Currencies |-> [u \in Users |-> 60]]
RichBuyer == [c \in Currencies |-> [u \in Users |-> IF u = u2 THEN 80 ELSE 0]]

Never == {}
Cheap == {20}
CheapAndDear == {20, 40}
OneDay == {1}
OnlyPause == {TRUE}
One == {1}
FeesTooHigh == {250, 9900}

=============================================================================
