# AutoMint: verification development

TLA+ models of the AutoMint contracts and services, the TLC runs that check
them on small instances, and proofs of the properties that matter most, checked
by TLAPS for every value of the constants. Modules are translated from the
source under `src/`; `PROJECT.json` maps each definition to its lines.

## 1. The system

AutoMint is a game economy on Stellar/Soroban: users register, own bots (NFTs),
accrue points per second at the rate of their bots, redeem points for AMT
tokens, and trade bots. Five contracts hold the state; a web frontend submits
transactions; an indexer follows the contracts' events.

| Component | Source | State | Operations | Correct when |
|---|---|---|---|---|
| Marketplace | `contracts/marketplace` | config, listings, bot and id indexes, counters, tier statistics, offers, retained fees, histories | list, buy, cancel, reclaim, reprice, compact; make, accept, cancel, dismiss offers; fee withdrawal and other admin calls; `on_bot_moved` | escrow is backed and can always be left, money is conserved, indexes and counters agree with the records, a sale is atomic |
| Bot NFT | `contracts/bot_nft` | bots, owners' lists, tier index and supplies, approvals, tier rates and caps | mint (three ways), transfer, approve, burn, admin calls | supply caps hold, indexes agree with ownership, approvals die with a transfer |
| Accrual | `contracts/accrual` | per user: rate, last settlement, remainder, carry, lifetime; freeze flags; points per AMT | start, sync, settle, claim, stop, freeze, reconfigure | points are earned once, for the time and rate that earned them, and each is minted at most once |
| Registry | `contracts/registry` | profiles, usernames, two paged user indexes, cached count, leaderboards, seasons, writers, admin handover | register, unregister, add points, bot counts, claimed amount, seasons, admin handover | the indexes and the count agree with the profiles, points only grow |
| Token | `contracts/token` | balances, supply, allowances, cap, mint window, pause, admin handover | transfer, batch, approve, mint, burn, admin calls | balances add up to the supply, cap and window hold, allowances are not overspent |
| Common, testutils | `contracts/common`, `contracts/testutils` | none | shared types, test deployment | - |
| Indexer | `indexer/src` | SQLite: events, derived listings and totals, checkpoint | poll cycle over pages, retries, abort, migration, API reads | no event is missed or counted twice across crashes, derived state agrees with the chain |
| Transaction pipeline | `frontend/src/lib/{transaction,retry}.ts`, `store/txStore.ts` | per-account queue, persisted history, status rows | build, simulate, sign, send, poll, retry, resume | no double effect, no final status that contradicts the ledger, no call that blocks the queue |
| RPC access | `frontend/src/lib/stellar.ts` | reads under way, active endpoint, failures in a row | shared simulations, retries, failover | a dead endpoint is left |
| Wallet session | `frontend/src/hooks/useWallet.ts`, `store/walletStore.ts` | session, marker in local storage | connect, restore, poll, disconnect | the session follows the extension, the marker says what the session is |
| Onboarding | `frontend/src/hooks/useAccrual.ts`, dashboard components | runs of a three-step registration | submit, detect what landed, run a step, resume | success is true, a resumed run does not repeat a step |
| Query cache | `frontend/src/hooks`, `lib/contracts.ts`, the pages | cached answers per query and key | poll, optimistic edit, rollback, refetch, season, account switch | what is shown becomes what is on chain |

How they interact. The marketplace takes and returns bots through the NFT
contract's `transfer`, and money through SEP-41 tokens. The NFT contract reports
every move that does not go to the marketplace by calling `on_bot_moved`, and
tells accrual to `sync_rate` and the registry to change `bot_count`, ignoring
failures. Accrual reads rates from the NFT contract, credits points in the
registry and mints through the token. The indexer polls a node for events and
derives its own tables from them. In the frontend the wallet session says for
whom to act; a mutation of the query cache runs one call of the transaction
pipeline, onboarding up to three; all of them read through the shared RPC client.

What is hard. An invocation is atomic: the host runs one at a time and undoes
an invocation that fails, also in its callees, so on chain the difficulty is in
long sequences of legal calls by several parties, in redundant state (five ways
to end a listing, each of which must update five records), in boundaries of
time and of integer division, and in calls whose failure is swallowed. Off
chain it is crashes between two writes, retries, timeouts that race a late
answer, and tabs that share a store. `PROJECT.json` lists each hazard at its
line with the properties that cover it.

## 2. Modules

| Module | Models |
|---|---|
| `Pricing` | integer arithmetic of a sale: `bps_of`, the split, the default minimum price |
| `IdLists` | lists of ids: which ids a page or an index holds, what stays when some go |
| `ListingIndex` | the paged id index: append |
| `Marketplace` | the marketplace contract with ownership in the NFT contracts and balances in the token contracts |
| `AtomicSwap` | the abstract specification: what the marketplace promises its users |
| `MarketplaceProps` | type invariant, invariants, action and liveness properties, the refinement mapping |
| `ListingScan` | a client that pages through the listings while they change |
| `MCMarketplace` | constants for TLC |
| `Accrual` | the accrual contract, with the bots' rates, the registry's points and the mint it calls |
| `PointMeter` | the abstract specification: what accrual promises a user |
| `Indexer` | the node's window of the chain, the poll cycle with its crashes, the database and what the API serves of it |
| `EventLog` | the abstract specification: what an indexer promises |
| `TxPipeline` | queue, submission, retries, persisted history, resumption; tabs, network and node around them |
| `RpcReads` | one shared read with its retries, and the failover between endpoints |
| `ClientCache` | the query cache over `RpcReads`: queries, optimistic mutations, pages |
| `MCClientCache` | the page areas for TLC |
| `Wallet` | the wallet session against a changing extension |
| `Onboarding` | runs of the registration form |
| `DataLemmas` | lemmas the proofs share: sums over finite sets, sums and counts by parts, induction over the naturals, lists and pages of ids |
| `MarketplaceProofs` | prices, types, custody, history, offer index, listing pages, floor and books of the marketplace, and that it implements `AtomicSwap` |
| `ClientReadsProofs` | what a client is shown: the paging of `ListingScan`, the query cache of `ClientCache` |
| `AccrualProofs`, `IndexerProofs`, `TxProofs`, `WalletProofs`, `OnboardingProofs` | theorems about the module of the same name |

### State and actions of `Marketplace`

Every variable is a storage key of the contract, named in its comment.
`owner` is the owner of a bot per NFT contract (there may be several, because
`set_bot_nft` rotates between them) and `balance` the token balances; the
contract's own address `Market` holds escrow. Ids are positions in `listings`
and `offers`. The pages of a user's listing and purchase history are kept as one
sequence.

One action is one successful invocation. Its conjuncts without primes are the
checks of the handler, in the order of the code, the others are its writes; a
call that fails leaves no trace and is a stuttering step. So the writes the
source makes before it returns an error (for example the deactivation of a stale
listing in `buy_bot`, lines 751-769) are not in the model: the host undoes them.
`on_bot_moved` has no action of its own because only the NFT contract can call
it: it is part of `TransferBot`. For a move the marketplace itself makes, the
host refuses the call back into a contract on the stack and the NFT contract
ignores that, so the handler's own `Deactivate` is the only one.

Time is in days. `TransferBot`, `BurnBot`, `Pay` and `Tick` are what happens
around the contract.

### The promise

`AtomicSwap` knows no listing, escrow, offer or index. A bot has one holder who
may dispose of it, a user one wealth per currency, the platform a treasury.
A bot and its price change hands in one step; otherwise bots move only when
their holder gives them away and money only when its owner pays it or the admin
spends the treasury. The fee of a trade is that of the rate in force. What a user has
left with the market (`entrusted` bots, `pledged` bids) can be handed over and taken
back unseen, but leaves its owner by a trade only: only a bot at hand is given away, and
a payment leaves open bids as they are. So a sale that moves the bot and skips a leg of the
payment, or closes a bid for nothing, does not pass for a gift. The refinement mapping in `MarketplaceProps` gives an
escrowed bot to the seller of its active listing (`effective_owner`), adds a
user's open bids to the balance, and leaves to the treasury what the contract
holds beyond open bids. So listing, cancelling, bidding and refunding must all
be invisible, and a sale by either path must be exactly one trade.

### `Accrual` and `PointMeter`

`record` is the `UserAccrual` of each user, `started` says which are stored;
`points` and `claimed` are the registry's fields, `minted` what the token was
told to mint, `botRate` what the bot contract would answer. One action is one
successful invocation here too. A call of `settle` with several users is a
sequence of `Settle` steps at one moment: it treats them one after the other and
skips those it cannot settle. A mint the token refuses fails the claim, which is
a stuttering step. The model takes the caller to name the registry and token the
configuration names, and leaves out the registry admin's own `set_points`.

`BotsChange` does not touch the record. The bot contract does call `sync_rate`
when a bot is minted or transferred, but accrual then asks the bot contract for
the rate while that contract is on the stack; the host refuses to enter it again
and the bot contract ignores the failure. A burn or a new tier rate calls
nothing. So the record keeps its rate until somebody calls `sync_rate`.

`PointMeter` has no settlements: a meter per user runs at the user's rate, a
point is an hour of it, a redemption gives all unspent points for whole tokens.
The mapping adds what is settled (`lifetime`), the remainder, and the time since
the last settlement. Any settlement, by anybody, at any moment, must leave the meter
where it is, and the rate it sets (the old one, that of the bots, or none) counts from
that moment on: a `sync_rate` that values past time at the new rate or a
`stop_accrual` that forfeits it is no step of `PointMeter`. One exception is part of the
abstract specification because the code needs it: `StartAgain`, a second
`start_accrual`, whose rate counts for exactly the time since the last settlement and
no more (section 4). `restarts` flips with it, so no other call can pass for one.

### `Indexer` and `EventLog`

`chain` and `height` are the node's, `market` is what the marketplace contract
would say, kept only to be compared with. `rows`, `derived`, `checkpoint` and
`version` are the database, `origin` and `orphaned` are history variables (where the
log begins, and whether a first cycle died between its two writes), `pc`, `start`, `next`, `batch`, `latest` the poller's
locals. A cycle asks where to start (`StartPoll`, `AnswerOldest`), reads pages
(`AnswerPage`) while the chain grows under it, stores the batch with what it
implies in one database transaction (`InsertBatch`) and then the checkpoint
(`SaveCheckpoint`). `Crash` may come between any two of these; `Boot` opens the
database, migrates an old one (`Legacy`) by replaying its events, and starts. The
node refuses a ledger it has not closed or no longer has (`RefusePoll`), and any
request may fail (`FailPoll`). The events are abstracted to their kind, listing,
price and currency. In `EventLog` there are a published sequence and a log that is
always a first part of it: no crash, no page boundary and no re-fetch may show.

### `TxPipeline`

`job` is one call of `executeTransaction` per user action, with the stage it is
in; `queue` and `running` the per-account promise chain of a tab; `memory` and
`storage` the transaction store and what is persisted of it; `txs` the network's
view. Each await of the code ends a step: build on the account's sequence number,
simulate, sign, send, and the answers of a send (`ReplyAccepted`, `ReplyBadSeq`
with its one rebuild, `ReplyRefused`, `SendThrows`, after which the mutation may
run again), polling, the 60 seconds after which it gives up, and the resumption of
what was pending when a tab was opened. What a status row shows is not modelled
(section 4). Steps that a resolved promise runs at
once, such as the start of the next call when one ends, are part of the step that
resolves it.

### `Wallet`

`ext` is the extension, `store` the session store, `flow` what each asynchronous
operation has learnt so far: connecting, restoring, and two polls that overlap.
An operation asks for the address and the network one after the other and writes
the store when it has both, so each of them can act on answers that are out of
date; `Compare` and `Establish` are those writes.

### `Onboarding`

`run` is one submission of the form, with the account it was made for, what it
found on chain when it looked, the step it is at and how often it was retried;
`pool` is what has been submitted. The dashboard replaces the form by a skeleton
whenever it reads again (`Skeleton`), so a run goes on without its form and a
second one can be started; accounts and network change in the wallet, the page is
reloaded, another device does a step, and an answer is lost. `alone` records that
nothing of that kind happened to the account of a run.

### `ClientCache` and `RpcReads`

`cache` holds, per query followed, its key, answer, optimistic edits and whether
it is being fetched or has failed. A mutation saves a snapshot of what it edits,
edits, and when it settles puts the snapshot back if it failed and refetches what
it invalidates; meanwhile its transaction may land or not, whatever the mutation
was told. The answers a read gives are functions of a small chain state (who owns
and lists what, who claimed, the season). A behaviour follows one page area, that
is two queries with the mutations that touch them: queries do not read each
other, so pairs show the interference. `RpcReads` is the client under it: reads of
the same thing share one simulation, transient failures are repeated on the
endpoint active by then, and enough failures in a row move on to the next.

## 3. Runs

| Run | Question | Bounds |
|---|---|---|
| `market_listings` | do indexes, counters and floor survive every exit of a listing, under pause and a raised minimum price, and do expired listings leave without their owners? | 2 bots of one tier with 2 owners, 3 listings, 2 prices, pages of 2 ids, 2 days |
| `market_offers` | do the books balance and is every expired bid refunded, with bids racing a listing, an expiry, a delisted currency and fee withdrawals? | 1 bot, 3 users, 3 bids, 2 slots per bot, 1 listing |
| `market_admin` | do custody and the exits of sellers and bidders survive every admin call, a rotation of the NFT contract, a pause and a delisted currency included, before and after expiry? | 2 NFT contracts, 2 listings of 1 day, 1 offer, 2 fees, a cap of 1, 2 days |
| `market_swap` | does the marketplace implement `AtomicSwap`, with bots and money also moved, burned and sent to the contract directly, and the fee changed in between? | 1 bot, 2 listings, 1 bid, 2 fees |
| `listing_scan` | does a paging client see every steady listing once and get to the end? | 5 listings, pages of 2, one result or two examined ids per call: a call ends inside a page, at its edge and among tombstones |
| `accrual` | does accrual implement `PointMeter`, does the registry never get ahead of it, and does a backlog above the registry's limit drain? | 1 user, an hour of 2 seconds, rates 0, 1, 3, prices 1, 2, 4 and the refused 0, at most 4 points per registry call, 4 seconds |
| `indexer` | is the events table without gaps below the checkpoint, is what the API serves what the events say and what the chain says, does every event arrive? | 4 ledgers of which the node keeps 2, 3 events (listed, repriced, sold, ended by an offer, minted, one of a reverted call) in pages of 1, 1 listing, 2 prices, 1 fault; a fresh and an old database |
| `tx_pipeline` | does a run of the pipeline have effect at most once, does the history tell the truth and survive closed tabs, does everything come to an end? | 1 tab, 2 calls, 4 transactions, 1 from another device, 1 fault, 1 retry |
| `claim_resubmit` | violated: a submitted transaction is never resubmitted | 1 tab, 1 call, 2 transactions, 1 fault |
| `wallet` | does the session follow the extension, and does its marker match it? | 2 accounts, 2 overlapping polls, 2 changes in the extension |
| `onboarding` | is success true, is a resumed run clean, does every run end? | 2 accounts, 2 submissions, 2 disturbances, 1 retry |
| `client_cache` | do edits go with their mutations, do the pages catch up, is a dead endpoint left? | 15 page areas of 2 or 3 queries, 2 accounts, 2 bots, 2 seasons, up to 4 operations, 2 endpoints of which one may be down, and a threshold of 2 with 3 reads at once, so that the page does go back to it |

Why the bounds are enough. Handlers of the marketplace touch one listing, one
offer and one bot at a time, so two of each show interference, and a third
listing shows what happens to an index or a floor whose middle element leaves.
Pages of two ids make every case of `append_listing_id` and `ids_after` happen
(room, full page, skipped page, emptied page). Prices of 20 and 40 at 500 basis
points make fee and royalty at least one unit, so that forgetting a leg shows in
the balances. Two slots per bot put the offer limit in reach. Accrual's records do
not touch each other, so one user shows everything about points (the proofs are
for any set of users); an hour of two seconds and odd rates make remainders, and
prices that do not divide the carry leave a rest after a claim. Four ledgers of
which two are kept let the poller fall behind the window or not, and let a first
cycle die and the next one begin behind a gap, which three do not (`NoGap`
without its exception, and `NoGhostListing` without either of its two, are violated
within these bounds); pages of one event put a page boundary between any two.
`cancel`, `reclaimed` and `deactive` end a listing in the branch that `sold` takes too,
so the run leaves them out; the theorem has every kind. A listing is reclaimed only
after its last day, which is why the runs that reclaim have two days. An event that
cannot be decoded is left out of the rows as one of a reverted call is, so the run
has the second only. One fault reaches every single point
of failure of the pipeline with the other call waiting behind it. Two changes in
the extension are an account switched and switched back (or switched while the
network changes), which is what a pair of answers can miss. A poll that runs
between the edit and the refetch of a mutation, and a second mutation that takes
its snapshot in between, need two operations. Bounds named in the modules
(`MaxTime`, `MaxListings`, `MaxOffers`, `MaxTx`, `MaxLedger`, `MaxEvents`,
`MaxFaults`, `MaxOthers`, `MaxChanges`, `MaxRuns`, `MaxDisturbances`, `MaxRetries`,
`MaxMutationRetries`, `bound` of an area) only cap what grows without limit. Runs
set `CHECK_DEADLOCK FALSE` where the bounded system may run out of moves;
`wallet` and `client_cache` poll for ever and do not.

Fairness.

* `FairSpec` of the marketplace assumes that ledger time passes (`WF(Tick)`) and
  that one third party, the keeper, who is neither seller nor bidder, calls
  `reclaim_expired` and `cancel_offer` when they are possible: both are
  permissionless in the code for exactly that purpose. Nothing is assumed of
  sellers, bidders or the admin.
* `Accrual`: the user keeps claiming and somebody, who may be anybody because
  `sync_rate` asks for no authorisation, keeps syncing; nothing of the admin, who
  may freeze at any moment.
* `ListingScan`: a client that has begun to page calls again.
* `Indexer`: the process runs and is started again, the node answers. Faults are
  finite; that ledgers close is not assumed.
* `TxPipeline`: a call advances, because the node answers or the request fails,
  the user signs or declines, and polling has a time limit; the
  network includes or expires what it has accepted; a closed tab is opened again
  some day. The query with which a resumption settles a record is strongly fair:
  a tab that is opened again and again is once open long enough.
  `PendingSettles` adds, for each tab, that it is closed again and again, because only
  opening resumes.
* `Wallet`: the extension answers, the poll's interval comes round. Nothing of
  the user.
* `Onboarding`: a run advances and its transactions are included or expire.
* `ClientCache`: a visible tab polls, and a read under way is answered or fails.
  Nothing is assumed of mutations, the chain or the user.

## 4. Findings

* `claim_resubmit`: the mutation defaults promise "a submitted transaction is never
  resubmitted (#497)" (`frontend/src/app/providers.tsx:31-32`). When
  `sendTransaction` throws in transit, `submitTxWithHash` rethrows, the call fails
  with a network error, and `retryMutation` runs the whole mutation again,
  although the first transaction may have been accepted: both can land. Within one run of
  `executeTransaction` it cannot happen (`AttemptLandsOnce`).

Seen while modelling, without a run of their own.

Contracts:

* Lines 83-86 of the marketplace say that open offers settle through the
  configured NFT contract "so `set_bot_nft` is rejected"; it is rejected for
  listings only. An offer that is open during a rotation is accepted with the bot
  of the same id in the new contract.
* Lines 445-446 say every accepted price earns a fee; an explicit minimum does not
  guarantee it.
* `stop_accrual` is documented to pause accrual until `start_accrual`; starting
  again sets the rate without settling or moving `last_claim_ts`, so the pause is
  paid at the new rate. `freeze` is documented to block a user from being settled;
  `stop_accrual` does not ask.
* `set_accrual` of the bot contract says a rate change never needs a manual
  follow-up; burns and tier rates make none, and the one that mints and transfers
  make cannot succeed (see `BotsChange` above).
* `add_claimed_amt` of the registry documents its argument in base units and gets
  whole tokens, and `docs/contracts/accrual.md` says `start_accrual` can only be
  called once.

Indexer:

* `accept_offer` of a bot that is listed ends the listing on chain but emits only
  `offer_acc`, which the database derives nothing of (`db.ts:195-243`); the listing
  stays active in the API until another event of it arrives. It is the first exception
  (`EndedByOffer`) of `NoGhostListing`, which otherwise speaks of every listing.
* `indexer/README.md:32` promises "no gaps". When the very first cycle dies between
  `insertEvents` (`poller.ts:139`) and `saveCheckpoint` (`:142-145`) there are rows and no
  checkpoint, so the next start asks for the node's oldest ledger again; if the
  window has moved on meanwhile, what lies between is never fetched. A listing
  whose end was in the gap is shown as active for ever, with every ledger since stored.
  So `NoGap` has an exception, `orphaned`, which says exactly that this happened, and
  `NoGhostListing` a second one (`Interrupted`: an event of the listing is missing
  before a stored one). With `AM_START_LEDGER` set every cold start begins at the same
  ledger and there is no gap (`NoGapFromConfiguredStart`). TLC finds
  both cases from four ledgers on; the disagreement has no run of its own.
* A poller that asks again before a new ledger has closed is refused by the node
  and is not ready meanwhile; one that fell behind the node's window is refused
  for ever and never recovers by itself.

Client:

* Two tabs persist the whole history each and overwrite each other's records
  (`txStore.ts:69-70` speaks of a tab closed mid-confirmation only); so
  `NothingForgotten` is checked and proved for one tab.
* A status row may spin for ever. `executeTransactionInternal` throws without
  `onStatus({stage: "error"})` when `getAccount` (`transaction.ts:341`), the request of the
  simulation (`:353`) or anything in the rebuild after BAD_SEQ but a simulation error
  (`:417`, `:432`, `:450`, `:454`) fails, and `onError` of the hooks ends no row
  (`useAccrual.ts:506-518`, `useMarketplace.ts:89-100`); a retry of the mutation adds a row
  and leaves the earlier one as it is. `CallEnds` therefore speaks of the call and of the
  queue behind it, not of its row.
* The comment at `useAccrual.ts:69-73` describes a resumption that the dashboard
  cannot offer once `registered` is cached as true. The dashboard shows its
  skeleton on every poll (`dashboard/page.tsx:79-87`), which unmounts the banner of
  a run under way.
* The connect buttons of the marketplace page only call `setConnecting`
  (`marketplace/page.tsx:329`, `:400`): nothing connects.
* `useBuyBot` rolls `myListings` back without invalidating it; of two overlapping
  mutations the second takes its snapshot of the first one's edit. Both are
  repaired by the next poll, which also overwrites an edit whose mutation is
  still under way. A rollback after an account switch writes the snapshot of one
  account under the key of the other.
* Failover: reads that fail late, after the client has moved on, count as failures of
  the new endpoint (`stellar.ts:96-105`), so a page that asks one read more at once than the
  threshold can be taken back to the endpoint that is down, again and again. The run
  has such a page; `PagesCatchUp` and the second half of `LeavesDeadEndpoint` are claimed on the condition
  (`FewAtOnce`) that in the end no more reads than the threshold are asked of it at a time. A read under way when a
  transaction lands is joined by later readers (`invalidateReadCaches` is called by
  `submitTx` only, which the application never calls).
* The effect of the dashboard that reads pending points has no cancellation;
  `bumpUserBots` only builds a transaction and never submits it; `listBot` edits a
  key nobody reads; `useAllBotDetails` drops bots whose own read failed;
  `evictAddressCache` misses the key of all bot details; after a season rolls over
  the page stays at the old one while its button names the new one. The preflight
  report caches outages although a comment says a rejected preflight must not
  poison the cache: a failure is a result there, never a rejection.
* The client calls `buy_bot` and `cancel_listing` with the id alone, `mint_tier`
  with three arguments and maps `get_active_listings` as a list; the contracts of
  this commit take the caller too (`marketplace/src/lib.rs:696`, `:897`), two
  arguments (`bot_nft/src/lib.rs:481`), and return a pair (`:1138`). `ClientCache`
  takes what the client reads and means, not its encoding.

## 5. Theorems

Of the marketplace and accrual. Assumptions: the named `ASSUME`s of `Marketplace` and `ListingIndex` (addresses
distinct, initial ownership and money well-typed, `fee + royalty <= 10,000` at
initialisation, argument sets well-typed). All sets are arbitrary, so the
theorems hold for any number of users, bots, currencies, listings and offers.

* Arithmetic: `BpsOfIsFloor`, `FeeAndRoyaltyFit`,
  `SplitIsExact`, `DefaultMinPriceEarnsFee`. `SplitIsExact` is why a sale pays
  out exactly its price and why the payout cannot go negative.
* `TypeCorrect`. It needs the bound `config.fee + RoyaltyBps <= 10,000` as part of
  the type, because it is what makes a payout a natural number, and the guards
  on balances, because a token transfer must not go below zero.
* `ListingsAreBacked`, `BotIndexIsSound`, `CountersAreExact`. None is inductive
  alone. Removing a listing keeps the counters exact only if it was active and
  the bot index entry that is cleared is its own; an active listing keeps its
  bot only if no transfer, burn or rotation can reach it, for which the rotation
  guard must mean what it says, that is the counter must be exact; and a new
  listing may overwrite the index entry of a bot only because an owned bot
  cannot be actively listed. So the inductive invariant is
  `IInv == TypeOK /\ Backed /\ BotIndexSound /\ CountersExact`, with one lemma per
  action (`CustodyStep`). `ReportFindsNothing` shows that a reported transfer
  never finds an active listing: the branch of `on_bot_moved` that ends one is
  defensive.
* `NothingStranded`. A deposit outside a listing is excluded by assumption, then
  a bot can enter the contract only by `list_bot` and every exit that clears the
  index moves the bot out in the same step.
* `HistoryIsFrozen`, an action property from the same invariant.
* `OfferIndexIsExact`, inductive with the types: closing an offer removes one
  element of one bot's list and keeps the order of the rest (`Without`), and a new
  offer is later than all of them.
* `PagesAreSound`. The pages alone do not say that an id appended is new, so
  the invariant adds that every indexed id is the id of a listing. Compacting a
  page keeps the ids of active listings and their order (`Compacted`).
* `FloorIsExact`. A removal rescans the tier only when the price that leaves is
  the floor; that a rescan is what an incremental update gives rests on the
  uniqueness of the least price.
* `BooksAlwaysBalance`. Its first half says, in each currency, that what the
  contract holds is at least all open bids and retained fees. A step changes at
  most one bid and a few balances; `MoneyEffect` gives, for every handler that pays,
  how holdings, bids and fees change, and the margin never falls. Its second half
  (published sales and volume are the purchases on record) needs that the
  purchases are finitely many, so that adding one adds its price.
* `MarketplaceImplementsAtomicSwap`, from `IInv`, the margin above and `PricesNamed`
  (every price and bid on record is one a caller named). For each handler
  one lemma says who effectively holds which bot after it (`...Holders`), one what
  it does to wealth and treasury, and together they are a trade, a gift, a payment or nothing. The
  margin is needed because what the treasury may spend is the holding beyond the bids.
* `AccrualImplementsMeter`, `RegistryIsNeverAhead` and `TypeCorrect` of
  `AccrualProofs`, from the assumptions `UnitAssumption` and `ChoiceAssumption`.
  The inductive invariant is `TypeOK /\ Unstarted /\ RegistryNeverAhead`:
  `Unstarted` (a user without a record has a record of zeros) is what makes a
  first start add nothing to the meter. The refinement rests on two facts of
  arithmetic: banking moves whole points from the numerator to the carry and
  keeps the rest (`BankedFacts`, `BankedWorth`), so the meter is the same before
  and after, and the quotient of the meter by the hour is the lifetime plus the
  pending points (`DivOfSum`), so a claim mints what the abstract redemption mints.

Of the indexer (`IndexerProofs`, for any chain, window, page size and number of
faults, from `IndexerAssumption`): `TypeCorrect`, `NoGapEver` and
`NoGapFromConfiguredStart`. `NoGap` says nothing of a cycle under way, so the
inductive invariant adds two parts. `ChainOK`: ledgers do not go down along the
chain, no event lies beyond the ledger being filled, and the checkpoint is not
ahead of the chain. `CycleOK`: what a cycle holds at each `pc`: it starts no
later than the ledger after the checkpoint; while it pages, everything from its
start up to the cursor is in the batch; when it has the last page, everything up
to the latest ledger; when it has stored the batch, everything that counts. The heart is one
lemma about a page: a page that is not full reaches the end of what the node had
closed, so an event it does not hold is of a later ledger. That is the half of `NoGap` which has no
exception. For the other half `OrphanOK` says that, until a first cycle has died between its two
writes, no cold start happens with rows in the table, and `ColdStart` that one from a configured ledger begins where the
last did; so the argument about what follows `origin` reaches behind every row. On top of that invariant:

* `IndexerImplementsEventLog`, with `LogOK`: from the ledger the log begins at
  (`origin`) on, no event that counts is missing before a stored one, and a database
  without a checkpoint cannot begin again at an earlier ledger. Then the sorted rows are a first part of the
  sorted events, before and after each step, and a checkpoint only lengthens it.
* `DerivedIsExact`. `InsertBatch` derives from the new events only, so the proof must say
  that replaying a set of events and then later ones is replaying both. That is true of
  events in order, which is where `LogOK` is used: what is new in a batch comes
  after every row. What a migration replays is all rows.
* `DailyAlwaysAddsUp`: sums by day and totals are two partitions of the
  same rows (`SumPartition`, `CountPartition`), since every event is of one
  ledger that has been reached (`DaysOK`).
* `NoGhosts`, with no condition on the chain: `MirrorOK` says that a replay of all events
  of the chain gives what the marketplace would answer, except for a listing that an
  accepted offer ended, and `LateReplay` that a replay of some of the events of a listing without one missing
  in between calls it nothing that the full one does not, at the same price.

Of the wallet (`WalletProofs`): `TypeCorrect`, `MarkerAlwaysMatches` and
`RestoreNeverOutlivesItsReason`. A restore that fails clears the marker, which
is harmless only while nobody has connected meanwhile, and one that succeeds
connects. So `MarkerMatches` needs `RestoreHasReason`: a restore is under way only for a
session that is marked and not connected, which holds because every write of the
store that ends that condition also ends the restore.

Of onboarding (`OnboardingProofs`): `TypeCorrect`, `SuccessIsTrue`,
`ResumingIsClean`. What a run believes must be true of the account it was submitted
for, not of the one connected now: a step it knows to be done, or has passed, has
landed there, and landed steps stay. A run that is alone is the only one of its
account that goes on, and what is in the pool for that account is its own present
step, which has not landed; a second submission, another device or a lost answer
each end `alone`. So the contract never refuses it.

Of the transaction pipeline (`TxProofs`, for any number of tabs, calls, retries and
faults, which is more than the run covers): `TypeCorrect`, `AnAttemptLandsOnce`,
`HistoryIsTruthful`. `CallsOK` says for each stage what of the call can have been
accepted: nothing of this attempt before it has sent and after a refusal, which are the only places
where it builds again; anything at most once after that, and every way on from
there ends the attempt. To keep it, a call that starts must be one that has not
sent, so `QueuesOK` says that who waits in a queue is at such a place, once, in
its own tab. `OnePerAttempt` is then stronger than the property: at most one
accepted transaction, whatever became of it. `HistoriesOK` says of every list in
memory and in storage that it names only accepted transactions and calls them
only what they are; a list that overwrites another one is as true as that.

Two theorems of `TxProofs` are for one tab (`OneTab`, as a hypothesis): `OneTabSignsNext`
(`NoSelfConflict`) and `OneTabForgetsNothing` (`NothingForgotten`). With two tabs both are
false: each has a queue and a memory of its own. The invariant `SInv` adds to the one above
that the tab is serial. The call being processed is the only one at an attempt
(`RunningOK`), and it ends when its tab closes (`LiveOK`). Until another device uses the account
or a call ends without an outcome, what the network still holds is what that call is waiting for,
so the sequence number read for the next one is the next (`SerialOK`). An open tab's memory is
what local storage holds (`MirrorsOK`); what it resumes is recorded as pending and is not
what a call of its own is waiting for, so no record is settled twice (`ResumesOK`); what is polled for is recorded (`Recorded`).

Of a client that pages (`ClientReadsProofs`, for any page size, limit and filter):
`PagingVisitsOnce`. Each call examines the first ids after the cursor, in order
(`ReadFrom`), and the cursor it returns has passed no match that it did not return
(`Answers`). Between two calls `IndexOK` says that ids are appended after all others and that a
compaction, which drops whole runs of ids, drops none that is active. So `ReaderOK`: what the
client was given ascends and does not go beyond the cursor, and no steady listing at or before the
cursor is missing in it. A cursor that stands still means that no id was left.

Of the query cache (also `ClientReadsProofs`): `EditsAreTakenBack`. `EditsSettle` speaks of
moments at which no mutation is under way, so the invariant `CInv` must say why
an optimistic edit is in order at every other moment: a mutation under way will refetch the
query whichever way it ends (`WillRefetch`), and where the query is about an account that
mutation is one of the connected account, for after a switch the callbacks of the old account
act on the old keys; or it is what a purchase leaves to the next poll (`LeftToPoll`).

Induction over data. The library's induction theorems take an operator and
cannot be used here. `LeastNat` and `NatSetInduction` of `DataLemmas` say the same of a
set of naturals, which is a value; so the facts about sums, replays and sorted logs are
proved as "the set of the lengths for which this holds contains 0 and with
every n its successor". The functions themselves are recursive functions on the naturals,
whose existence is proved once each (`ReplayExists`, `OrderExists`, `FilterExists`,
`CollectedExists`). The lemmas on lists of ids (`WithoutKeeps`, `PageReplaced`, `PageOpened`,
`LastPageGrows`, `PageCompacted`) serve the marketplace's own index and its reader alike.

Model-checked only. Liveness (every property with `~>` or `<>`), and
`ExitsOpenInTurn`, which mentions `ENABLED`, are out of the prover's reach. Every other property that a passing run checks, invariant, action property or
refinement, is stated by a theorem.

## 6. Plan

Done: the marketplace with its proofs of custody, accrual with its refinement,
the indexer, the transaction pipeline, wallet, onboarding and query cache, and
the proofs of section 5.

Left, in this order:

1. `Token`: balances, allowances by ledger, cap, mint window, admin handover, as
   the callee of a claim (a claim above the window or the cap fails as a whole).
2. `BotNft`: minting, caps, approvals, indexes, the best-effort callbacks.
3. `Registry` without the leaderboard, which waits for a source that compiles.

## 7. Not modelled, and why

* Storage TTL and archival (a persistent entry that expires is restored by the
  host before use), contract upgrade, and the reentrancy lock, which is clear
  between any two steps. Token contracts are exact: a transfer either moves the
  amount or fails.
* The token contract and most of the bot and registry contracts: the parts
  modelled meet them in a transfer, a rate, a profile and a mint only. The
  registry's leaderboard functions (lines 885-937 of its source) are two versions
  of the same function merged into one that does not compile, so they have no
  behaviour to model.
* Of the indexer: paging through raw events, configuration, and the parsing of
  requests. The node is one node whose latest ledger does not go back.
* Of the client: what nothing uses (`useDashboardData`, `useUserTotalRate`, `useBotDetails` of a
  single bot, `useAnimatedPoints`, `useMintTierBot`, `connectFreighter`, `submitTx`,
  `buildPreparedTx`, the generated bindings), what is read once (tier catalogue,
  preflight), the ledger clock offset, the pruning of old records, layout,
  formatting and analytics. Clocks agree.
* Scripts and CI keep no state of the system.
