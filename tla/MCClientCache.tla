--------------------------- MODULE MCClientCache ---------------------------
(* The page areas of the instance: the listings of the market page; what    *)
(* the account can put up for sale, and the details read of it; three reads *)
(* of the board at once while an endpoint may be down, one more than cannot *)
(* take the client back to it; the dashboard's counters, and the board      *)
(* beside them; the board and the account's own rank, or of a season; the   *)
(* account's bots; the market's figures; the sellers of the listings; the   *)
(* points of the board's rows; the account's profile and balance; the bots  *)
(* on the cards.                                                            *)
EXTENDS ClientCache

MCReads == {"listings", "myListings", "bots", "botDetails", "marketStats",
            "accrualState", "leaderboard", "rank", "season", "profile", "profilePoints",
            "amtBalance", "sellers", "rowStates"}
Market == {"buy", "list", "cancel"}
PageArea(queries, kinds, outage, bound) ==
  [queries |-> queries, kinds |-> kinds, outage |-> outage, bound |-> bound]
MCAreas ==
  {PageArea(<<"listings", "myListings">>, Market, FALSE, 2),
   PageArea(<<"bots", "myListings">>, Market, FALSE, 2),
   PageArea(<<"bots", "myListings", "botDetails">>, Market, FALSE, 1),
   PageArea(<<"leaderboard", "rank", "season">>, {}, TRUE, 0),
   PageArea(<<"accrualState", "leaderboard">>, {"claim"}, FALSE, 3),
   PageArea(<<"accrualState", "leaderboard">>, {"claim"}, TRUE, 2),
   PageArea(<<"leaderboard", "rank">>, {"claim"}, TRUE, 2),
   PageArea(<<"leaderboard", "season">>, {"claim", "rollover"}, FALSE, 4),
   PageArea(<<"bots", "botDetails">>, Market, FALSE, 3),
   PageArea(<<"listings", "marketStats">>, Market, FALSE, 1),
   PageArea(<<"listings", "sellers">>, Market, FALSE, 2),
   PageArea(<<"leaderboard", "rowStates">>, {"claim"}, FALSE, 2),
   PageArea(<<"accrualState", "profile">>, {"claim"}, FALSE, 2),
   PageArea(<<"profilePoints", "amtBalance">>, {"claim"}, FALSE, 1),
   PageArea(<<"listings", "botDetails">>, Market, FALSE, 1)}
=============================================================================
