---------------------------- MODULE ClientCache ----------------------------
(***************************************************************************)
(* The web client's query cache: what the pages show of the chain.  Every  *)
(* query is polled; a mutation (buy, list, cancel, claim) edits the cached *)
(* answers at once, takes the edit back if it fails, and refetches what it *)
(* may have changed when it settles.  Meanwhile the chain moves, other     *)
(* mutations overlap, reads of an earlier state of the chain are still     *)
(* under way, and the wallet may switch to another account.                *)
(*                                                                         *)
(* Queries do not read each other: a behaviour follows the queries of one  *)
(* page area (a member of Areas).  External: React Query; the wallet and   *)
(* the network, from which a mutation learns that its transaction landed,  *)
(* or an error, whether it landed or not.                                  *)
(***************************************************************************)
EXTENDS RpcReads, Sequences, FiniteSets, Functions

CONSTANTS
  Accounts, Bots, \* accounts are numbered, in the order that breaks ties
  Areas,          \* page areas, one followed in each behaviour: its queries, in any
                  \* order; the kinds of transaction that matter to it; whether an
                  \* endpoint may be down; and a bound on the mutations, the moves of others, the account
                  \* switches and the views turned to, taken together
  Home,           \* the account the wallet starts with
  MaxSeason,      \* bound: seasons the registry reports, after season 0 (none yet)
  BoardSize,      \* rows of the leaderboard
  Now             \* the time of this tab, which no claim on the chain has

Kinds == {"buy", "list", "cancel", "claim", "rollover"}

ASSUME CacheAssumption ==
  /\ Home \in Accounts /\ Accounts \subseteq Nat /\ Now \notin Nat
  /\ BoardSize \in Nat /\ MaxSeason \in Nat /\ None \notin Nat
  /\ Areas \subseteq [queries : UNION {[1 .. n -> Reads] : n \in 1 .. 3}, kinds : SUBSET Kinds,
                      outage : BOOLEAN, bound : Nat]

VARIABLES
  chain,      \* owner of each bot, the bots listed, the season, claims per account and season
  moves,      \* of others, and views the user turned to, so far
  me,         \* the connected account
  selected,   \* the season the board is shown for, None for all time
  area,       \* the page area that is followed
  cache,      \* per query: see NoEntry
  muts        \* the mutations of this tab, in order

clientVars == <<chain, moves, me, selected, area, cache, muts>>
followed == DOMAIN cache      \* the queries of area
cacheVars == <<rpcVars, clientVars>>

---------------------------------------------------------------------------
(* External: what the chain answers, as the client parses it.              *)

Listing(b) == [bot |-> b, seller |-> chain.owner[b]]
GetActiveListings == {Listing(b) : b \in chain.listed}
GetUserListings(a) == {l \in GetActiveListings : l.seller = a}
GetUserBots(a) == {b \in Bots \ chain.listed : chain.owner[b] = a}
GetUserBotsDetailed(ids) == ids      \* bots are not burnt
GetAmtBalance(a) == SumFunction(chain.claims[a])     \* what it was claimed for; it stays
GetAccrualState(a) == SumFunction(chain.claims[a])
GetMarketStats == Cardinality(chain.listed)

(* A board holds the accounts with most points, of all seasons or of one.   *)
Points(a, season) == IF season = None THEN SumFunction(chain.claims[a]) ELSE chain.claims[a][season]
Ahead(a, season) ==
  {b \in Accounts : \/ Points(b, season) > Points(a, season)
                    \/ Points(b, season) = Points(a, season) /\ b < a}
RankOf(a, season) == Cardinality(Ahead(a, season)) + 1
GetUserRank(a) == RankOf(a, None)
GetLeaderboard == {a \in Accounts : GetUserRank(a) <= BoardSize}
GetLeaderboardForSeason(season) ==
  {a \in Accounts : RankOf(a, season) <= BoardSize /\ Points(a, season) > 0}
GetSeason == chain.season

GetUserPoints(a) == Points(a, None)
GetUserProfile(a) == [address |-> a, points |-> Points(a, None)]
GetUsersBatch(as) == [a \in as |-> GetUserProfile(a)]
GetAccrualStates(as) == [a \in as |-> GetAccrualState(a)]

(* The answer to a query with a key: the account, the bots, the season or   *)
(* the accounts (sellers of the listings, rows of the board) it is about.   *)
Fetched(q, key) ==
  CASE q = "listings" -> GetActiveListings
    [] q = "marketStats" -> GetMarketStats
    [] q = "myListings" -> GetUserListings(key)
    [] q = "bots" -> GetUserBots(key)
    [] q = "botDetails" -> GetUserBotsDetailed(key.ids)
    [] q = "accrualState" -> GetAccrualState(key)
    [] q = "season" -> GetSeason
    [] q = "rank" -> GetUserRank(key)
    [] q = "amtBalance" -> GetAmtBalance(key)
    [] q = "profilePoints" -> GetUserPoints(key)
    [] q = "profile" -> GetUserProfile(key)
    [] q = "sellers" -> GetUsersBatch(key)
    [] q = "rowStates" -> GetAccrualStates(key)
    [] q = "leaderboard" /\ key = None -> GetLeaderboard
    [] q = "leaderboard" /\ key # None -> GetLeaderboardForSeason(key)
AddressScoped == {"myListings", "bots", "accrualState", "rank", "profile", "profilePoints", "amtBalance"}

---------------------------------------------------------------------------
(* Transactions: what each does to the chain, and when it can.             *)

Operations == [kind : {"buy", "list", "cancel"}, by : Accounts, bot : Bots]
              \cup [kind : {"claim"}, by : Accounts, bot : {None}]
Rollover == [kind |-> "rollover", by |-> None, bot |-> None]     \* the registry's admin

CanLand(op) ==
  CASE op.kind = "buy" -> op.bot \in chain.listed /\ chain.owner[op.bot] # op.by
    [] op.kind = "cancel" -> op.bot \in chain.listed /\ chain.owner[op.bot] = op.by
    [] op.kind = "list" -> op.bot \in GetUserBots(op.by)
    [] op.kind = "claim" -> TRUE
    [] op.kind = "rollover" -> chain.season < MaxSeason

Landed(op) ==
  CASE op.kind = "buy" -> [chain EXCEPT !.owner[op.bot] = op.by, !.listed = @ \ {op.bot}]
    [] op.kind = "cancel" -> [chain EXCEPT !.listed = @ \ {op.bot}]
    [] op.kind = "list" -> [chain EXCEPT !.listed = @ \cup {op.bot}]
    [] op.kind = "claim" -> [chain EXCEPT !.claims[op.by][chain.season] = @ + 1]
    [] op.kind = "rollover" -> [chain EXCEPT !.season = @ + 1]

---------------------------------------------------------------------------
(* The cache: what a query is asked for, its answer, whether it is fetching *)
(* and whether it failed.  edits and of are ghosts: the mutations whose     *)
(* edit the data still has, and the account it is about.                    *)

NoEntry == [key |-> None, data |-> None, fetching |-> FALSE, failed |-> FALSE,
            edits |-> {}, of |-> None]
Enabled(q, key) == /\ q = "botDetails" => key.ids # {}
                   /\ q \in {"sellers", "rowStates"} => key # {}
OrNone(c, q) == IF q \notin DOMAIN c \/ c[q].data = None THEN {} ELSE c[q].data

(* The board's season: the one selected, once the registry reports seasons. *)
SeasonAvailable(c) == "season" \in DOMAIN c /\ c["season"].data \notin {None, 0}
ActiveSeason(c, sel) == IF SeasonAvailable(c) THEN sel ELSE None

(* The bots and the sellers a page needs details of.                        *)
CachedListings(c) == OrNone(c, "listings") \cup OrNone(c, "myListings")
RelevantBotIds(c) == OrNone(c, "bots") \cup {l.bot : l \in CachedListings(c)}
SellerAddresses(c) == {l.seller : l \in CachedListings(c)}

KeyOf(q, c, who, sel) ==
  CASE q \in AddressScoped -> who
    [] q = "botDetails" -> [who |-> who, ids |-> RelevantBotIds(c)]
    [] q = "sellers" -> SellerAddresses(c)
    [] q = "rowStates" -> IF ActiveSeason(c, sel) = None THEN OrNone(c, "leaderboard") ELSE {}
    [] q = "leaderboard" -> ActiveSeason(c, sel)
    [] OTHER -> None

(* A query whose key changes is another query, fetched as it is mounted     *)
(* (an answer React Query may still hold for that key is left out).         *)
Query(q, key) == [NoEntry EXCEPT !.key = key, !.fetching = Enabled(q, key)]
Rekeyed(c, who, sel) ==
  [q \in DOMAIN c |-> IF c[q].key = KeyOf(q, c, who, sel) THEN c[q]
                      ELSE Query(q, KeyOf(q, c, who, sel))]

Invalidated(c, qs) ==
  [q \in DOMAIN c |-> IF q \in qs /\ Enabled(q, c[q].key)
                      THEN [c[q] EXCEPT !.fetching = TRUE] ELSE c[q]]

(* The hooks: the queries a mutation edits at once, and those it refetches   *)
(* when it settles.  A purchase takes the listing out of the buyer's own    *)
(* listings too, and does not refetch them.                                 *)
UseBuyBot == [edits |-> {"listings", "myListings"},
              refetches |-> {"listings", "bots", "botDetails", "accrualState"}]
UseCancelListing == [edits |-> {"listings", "myListings"},
                     refetches |-> {"listings", "myListings", "bots", "botDetails"}]
UseListBot == [edits |-> {"bots"},
               refetches |-> {"listings", "myListings", "bots", "botDetails"}]
UseClaim == [edits |-> {"accrualState"},
             refetches |-> {"accrualState", "leaderboard", "profile", "profilePoints", "amtBalance"}]

Hook(kind) == CASE kind = "buy" -> UseBuyBot [] kind = "cancel" -> UseCancelListing
                [] kind = "list" -> UseListBot [] kind = "claim" -> UseClaim
EditedBy(kind) == Hook(kind).edits
InvalidatedBy(kind) == Hook(kind).refetches

Edit(op, data) ==
  CASE data = None -> None
    [] data # None /\ op.kind \in {"buy", "cancel"} -> {l \in data : l.bot # op.bot}
    [] data # None /\ op.kind = "list" -> data \ {op.bot}
    [] data # None /\ op.kind = "claim" -> Now

(* setQueryData: nothing is written where there is nothing.                 *)
Written(entry, data, edits, of) ==
  IF data = None THEN entry
  ELSE [entry EXCEPT !.data = data, !.failed = FALSE, !.edits = edits, !.of = of]

(* onMutate, for mutation i: fetches are cancelled, the data is kept, edited. *)
Optimistic(i, op) ==
  [q \in followed |->
     IF q \notin EditedBy(op.kind) THEN cache[q]
     ELSE LET e == [cache[q] EXCEPT !.fetching = FALSE]
              edited == Edit(op, e.data)
          IN Written(e, edited, IF edited = e.data THEN e.edits ELSE e.edits \cup {i}, e.of)]

(* The callbacks of the mutation a hook made last see the account connected *)
(* by then; those of the ones before, the account it was made by.           *)
Unsettled == {i \in DOMAIN muts : muts[i].at # "settled"}
Latest(i) == \A j \in DOMAIN muts : j > i => muts[j].op.kind # muts[i].op.kind
InReach(i) ==
  IF Latest(i) \/ muts[i].op.by = me THEN followed ELSE followed \ AddressScoped

(* onError                                                                  *)
RolledBack(i) ==
  [q \in followed |->
     IF q \in EditedBy(muts[i].op.kind) \cap InReach(i)
     THEN LET was == muts[i].previous[q] IN Written(cache[q], was.data, was.edits, was.of)
     ELSE cache[q]]

(* A slip: nothing is refetched.                                            *)
SettledWithoutRefetch(i, failed) == IF failed THEN RolledBack(i) ELSE cache

(* onSettled, after onError where the mutation failed.                      *)
SettledCache(i, failed) ==
  Invalidated(IF failed THEN RolledBack(i) ELSE cache,
              InvalidatedBy(muts[i].op.kind) \cap InReach(i))

---------------------------------------------------------------------------
(* What the pages show.                                                    *)

Follows(qs) == qs \subseteq followed
Loading(q) == cache[q].data = None /\ cache[q].fetching
Outage(q) == ~Loading(q) /\ cache[q].failed
Rows(q) == IF Loading(q) \/ Outage(q) \/ cache[q].data = None THEN {} ELSE cache[q].data

(* The card of a listing: the seller cancels it, anybody else buys it,      *)
(* unless the mutation the page made last is already at it.                 *)
Underway(op) == \E i \in Unsettled : Latest(i) /\ muts[i].op.kind = op.kind /\ muts[i].op.bot = op.bot
CanBuy(op) ==
  /\ Follows({"listings"}) /\ ~Underway(op)
  /\ \E l \in Rows("listings") : l.bot = op.bot /\ l.seller # me
CanCancel(op) ==
  /\ ~Underway(op)
  /\ \E q \in {"listings", "myListings"} \cap followed :
       \E l \in Rows(q) : l.bot = op.bot /\ l.seller = me

(* Owned bots, of those whose details were read, that are for sale neither  *)
(* on the chain nor by this page: the form that puts one up for sale can be *)
(* closed and opened for another.                                           *)
UnlistedOwnedBots ==
  {b \in OrNone(cache, "bots") : "botDetails" \in followed => b \in OrNone(cache, "botDetails")}
    \ {l.bot : l \in OrNone(cache, "myListings")}
CanList(op) == Follows({"bots", "myListings"}) /\ op.bot \in UnlistedOwnedBots

(* The claim button: the dashboard shows its skeleton during a refetch.  That *)
(* points are pending is left open: it is read once per answer of accrualState. *)
DashboardShown == ~cache["accrualState"].fetching
CanClaim(op) == Follows({"accrualState"}) /\ DashboardShown /\ ~Underway(op)

(* The account's own row, under the table when it is not in it.             *)
PinnedRank ==
  IF ActiveSeason(cache, selected) # None \/ Rows("leaderboard") = {} \/ me \in Rows("leaderboard")
  THEN None ELSE cache["rank"].data

(* The dashboard's grid, empty during an outage of either query; and the card *)
(* of a listing, of the bot that is for sale once its details were read.    *)
BotsShown ==
  IF Outage("bots") \/ Outage("botDetails") \/ Loading("bots") THEN {} ELSE Rows("botDetails")
CardBot(l) == IF l.bot \in Rows("botDetails") THEN l.bot ELSE None

(* A row shows the points of its account, a card the name of its seller, once *)
(* they were read; the profile page the profile, or that there is none.     *)
Batch(q) == IF cache[q].data = None THEN <<>> ELSE cache[q].data
RowAccrued(a) == IF a \in DOMAIN Batch("rowStates") THEN Batch("rowStates")[a] ELSE None
SellerShown(l) ==
  IF l.seller \in DOMAIN Batch("sellers") THEN Batch("sellers")[l.seller].address ELSE None
ProfileShown == IF Loading("profile") \/ Outage("profile") THEN None
                ELSE cache["profile"].data

Offered(op) ==
  CASE op.kind = "buy" -> CanBuy(op)
    [] op.kind = "cancel" -> CanCancel(op)
    [] op.kind = "list" -> CanList(op)
    [] op.kind = "claim" -> CanClaim(op)

---------------------------------------------------------------------------
Init ==
  /\ area \in Areas /\ RpcInit(Range(area.queries)) /\ (rpc.down # None => area.outage)
  /\ \E owner \in [Bots -> Accounts], listed \in SUBSET Bots :
       /\ \A a \in Accounts : \E b \in Bots : owner[b] = a
       /\ "buy" \notin area.kinds => listed = {}
       /\ chain = [owner |-> owner, listed |-> listed, season |-> 0,
                   claims |-> [a \in Accounts |-> [s \in 0 .. MaxSeason |-> 0]]]
  /\ moves = 0 /\ me = Home /\ selected = None /\ muts = <<>>
  /\ LET none == [q \in Range(area.queries) |-> NoEntry]
     IN cache = [q \in DOMAIN none |-> [NoEntry EXCEPT !.key = KeyOf(q, none, me, selected)]]

Spent == Len(muts) + moves + IF me = Home THEN 0 ELSE 1

(* The cache becomes c, beside the reads that are under way.  A query that  *)
(* is fetched now starts one, or joins the same one; those of a query that  *)
(* has another key by then are nobody's any more.                           *)
Show(c, reads) ==
  /\ cache' = Rekeyed(c, me', selected')
  /\ sims' = LET Kept(q) == cache'[q].key = cache[q].key
                 Starts(q) == cache'[q].fetching /\ ~(Kept(q) /\ cache[q].fetching)
             IN SimulateContractCall([q \in followed |-> IF Kept(q) THEN reads[q] ELSE NoSim],
                                     {q \in followed : Starts(q)})

(* The interval; a fetch under way is joined.  The first is the page's mount. *)
Poll(q) ==
  /\ q \in followed /\ ~cache[q].fetching /\ Enabled(q, cache[q].key)
  /\ UNCHANGED <<rpc, chain, moves, me, selected, area, muts>>
  /\ Show(Invalidated(cache, {q}), sims)

Answer(q) ==
  /\ q \in followed /\ AnswerRead(q, Fetched(q, cache[q].key))
  /\ UNCHANGED clientVars

Retry(q) == q \in followed /\ RetryRead(q) /\ UNCHANGED clientVars

GiveUp(q) ==
  /\ q \in followed /\ GiveUpRead(q)
  /\ cache' = IF cache[q].fetching
              THEN [cache EXCEPT ![q].fetching = FALSE, ![q].failed = TRUE] ELSE cache
  /\ UNCHANGED <<chain, moves, me, selected, area, muts>>

(* A slip: the answer stays in the map of reads under way.                  *)
DeliverKept(q) ==
  /\ q \in followed /\ Answered(q) /\ cache[q].fetching
  /\ UNCHANGED <<rpcVars, chain, moves, me, selected, area, muts>>
  /\ cache' = [cache EXCEPT ![q].data = sims[q].answer, ![q].fetching = FALSE, ![q].failed = FALSE]

(* The answer arrives: it is dropped where the fetch was cancelled.  What   *)
(* is asked for with it, the details of bots or the board of a season, is   *)
(* asked for anew.                                                          *)
Deliver(q) ==
  /\ q \in followed /\ Answered(q)
  /\ UNCHANGED <<rpc, chain, moves, me, selected, area, muts>>
  /\ LET answered == [NoEntry EXCEPT !.key = cache[q].key, !.data = sims[q].answer,
                                     !.of = IF q \in AddressScoped THEN me ELSE None]
     IN Show(IF cache[q].fetching THEN [cache EXCEPT ![q] = answered] ELSE cache,
             [sims EXCEPT ![q] = NoSim])

Mutate(op) ==
  /\ Spent < area.bound /\ op.by = me /\ Offered(op)
  /\ muts' = Append(muts, [op |-> op, at |-> "sent",
                           previous |-> [q \in followed \cap EditedBy(op.kind) |->
                                         [cache[q] EXCEPT !.fetching = FALSE, !.failed = FALSE]]])
  /\ UNCHANGED <<rpc, chain, moves, me, selected, area>>
  /\ Show(Optimistic(Len(muts) + 1, op), sims)

Land(i) ==
  /\ muts[i].at = "sent" /\ CanLand(muts[i].op)
  /\ chain' = Landed(muts[i].op)
  /\ muts' = [muts EXCEPT ![i].at = "landed"]
  /\ UNCHANGED <<rpcVars, moves, me, selected, area, cache>>

(* The tab learns the outcome: an error may be about one that landed.       *)
Settle(i, failed) ==
  /\ (muts[i].at = "landed" \/ (muts[i].at = "sent" /\ failed))
  /\ muts' = [muts EXCEPT ![i].at = "settled", ![i].previous = None, ![i].op.bot = None]
  /\ UNCHANGED <<rpc, chain, moves, me, selected, area>>
  /\ Show(SettledCache(i, failed), sims)

(* A transaction of somebody else, of another tab, or one given up before.  *)
LandElsewhere(op) ==
  /\ Spent < area.bound /\ op.kind \in area.kinds /\ CanLand(op)
  /\ chain' = Landed(op) /\ moves' = moves + 1
  /\ UNCHANGED <<rpcVars, me, selected, area, cache, muts>>

(* The buttons above the board: all time, or the season reported last.      *)
SelectPeriod(period) ==
  /\ Spent < area.bound /\ SeasonAvailable(cache)
  /\ period \in {None, cache["season"].data} /\ period # selected
  /\ selected' = period /\ moves' = moves + 1
  /\ UNCHANGED <<rpc, chain, me, area, muts>>
  /\ Show(cache, sims)

(* The wallet switches, and the old account's answers are evicted.          *)
SwitchAccount(a) ==
  /\ Spent < area.bound /\ me = Home /\ a # me
  /\ me' = a
  /\ UNCHANGED <<rpc, chain, moves, selected, area, muts>>
  /\ Show(cache, sims)

Progress(q) == Answer(q) \/ Retry(q) \/ GiveUp(q) \/ Deliver(q)

Next ==
  \/ \E q \in followed : Poll(q) \/ Answer(q) \/ Retry(q) \/ GiveUp(q) \/ Deliver(q)
  \/ \E op \in Operations : Mutate(op) \/ LandElsewhere(op)
  \/ LandElsewhere(Rollover)
  \/ \E i \in DOMAIN muts : Land(i) \/ \E failed \in BOOLEAN : Settle(i, failed)
  \/ \E a \in Accounts : SwitchAccount(a)
  \/ \E period \in {None} \cup 0 .. MaxSeason : SelectPeriod(period)

Spec == Init /\ [][Next]_cacheVars

(* Fairness, per query: the page stays open in a visible tab, so it is polled, *)
(* and a call that was made is answered or fails.  Nothing is assumed of    *)
(* mutations, of the user, or of the wallet.                                *)
FairSpec ==
  /\ Spec
  /\ \A i \in 1 .. 3 : /\ WF_cacheVars(i \in DOMAIN area.queries /\ Poll(area.queries[i]))
                       /\ WF_cacheVars(i \in DOMAIN area.queries /\ Progress(area.queries[i]))

---------------------------------------------------------------------------
(* A query that no mutation under way edits, that is not being fetched and  *)
(* does not show an outage, has an answer of the chain about the connected  *)
(* account: an edit goes with its mutation, whatever others overlapped it,  *)
(* and however it ended (useMarketplace.ts: onMutate, onError, onSettled).  *)
(* A purchase that fails puts back the account's own listings and leaves    *)
(* them to the next poll: they are left out once one has.                   *)
Disturbed(q) ==
  \/ \E i \in Unsettled : q \in EditedBy(muts[i].op.kind)
  \/ q = "myListings" /\ \E i \in DOMAIN muts : muts[i].op.kind = "buy"
EditsSettle ==
  \A q \in followed :
    cache[q].data # None /\ ~cache[q].fetching /\ ~cache[q].failed /\ ~Disturbed(q)
      => cache[q].edits = {} /\ (q \in AddressScoped => cache[q].of = me)

(* The condition on what the pages promise where an endpoint is down: in the *)
(* end no more reads are asked of it at a time than move the client away.   *)
(* With one more, those that fail late, after the client has moved on, can   *)
(* be as many failures in a row as take it back, again and again.           *)
AskedOfDead == {q \in followed : Asking(q) /\ sims[q].at = rpc.down}
FewAtOnce == <>[](Cardinality(AskedOfDead) <= FailoverAfter)

(* In the end the pages show the chain: no card of a listing that ended, no *)
(* owned bot missing, the account once on the board with its own rank; with *)
(* whatever edits, failures, stale answers and switches before.             *)
TrueView ==
  /\ \A q \in followed :
       /\ ~Loading(q) /\ ~Outage(q)
       /\ Enabled(q, cache[q].key) => cache[q].data = Fetched(q, cache[q].key)
  /\ followed = {"bots", "botDetails"} => BotsShown = GetUserBots(me)     \* the dashboard
  /\ Follows({"listings", "botDetails"}) => \A l \in Rows("listings") : CardBot(l) = l.bot
  /\ Follows({"bots", "myListings"}) => UnlistedOwnedBots = GetUserBots(me)
  /\ Follows({"leaderboard", "rank"}) =>
       PinnedRank = IF me \in GetLeaderboard THEN None ELSE GetUserRank(me)
  /\ Follows({"leaderboard", "rowStates"}) =>
       \A a \in Rows("leaderboard") : RowAccrued(a) = GetAccrualState(a)
  /\ Follows({"listings", "sellers"}) => \A l \in Rows("listings") : SellerShown(l) = chain.owner[l.bot]
  /\ Follows({"profile"}) => ProfileShown = GetUserProfile(me)
PagesCatchUp == FewAtOnce => <>[]TrueView

(* A client that fails over never stays with an endpoint that is down.  It  *)
(* leaves it for good when, in the end, few enough reads are asked of it.   *)
LeavesDeadEndpoint ==
  /\ []<>(rpc.active # rpc.down)
  /\ FewAtOnce => <>[](rpc.active # rpc.down)
=============================================================================
