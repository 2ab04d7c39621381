------------------------------ MODULE Indexer ------------------------------
(***************************************************************************)
(* The event indexer: a process that pages through the events of a ledger  *)
(* node, stores them in a database together with the marketplace state     *)
(* they imply, and remembers the last ledger it has seen in a checkpoint.  *)
(* The process can crash between any two of its writes, can be asked to    *)
(* stop, and is started again on the same database.                        *)
(*                                                                         *)
(* The node is external: ledgers close with events in them, it keeps the   *)
(* last Retention ledgers and refuses requests outside them, answers pages *)
(* of PageLimit events with a cursor while a page is full, and may fail.   *)
(* All answers come from one node, whose latest ledger never goes back.    *)
(*                                                                         *)
(* An event's id is its position in the chain.  A poll cycle is            *)
(* synchronous from the moment the last page is in (poller.ts:117-144), so *)
(* only a crash can fall between its two writes.                           *)
(***************************************************************************)
EXTENDS Naturals, FiniteSets, Sequences, Functions

CONSTANTS
  Listings,        \* listing ids, a finite set
  Currencies, Prices,
  Kinds,           \* the event names the chain may emit
  MaxLedger,       \* bound: ledgers that close
  MaxEvents,       \* bound: events ever emitted
  MaxFaults,       \* bound: deaths, stops and failed cycles
  PageLimit,       \* events of one page, 100 in the code
  Retention,       \* ledgers the node keeps
  DefaultStart,    \* AM_START_LEDGER, 0 when unset
  None

ASSUME IndexerAssumption ==
  /\ IsFiniteSet(Listings) /\ IsFiniteSet(Currencies)
  /\ MaxLedger \in Nat /\ MaxEvents \in Nat /\ MaxFaults \in Nat
  /\ PageLimit \in Nat \ {0} /\ Retention \in Nat \ {0}
  /\ DefaultStart \in Nat /\ Prices \subseteq Nat \ {0} /\ None \notin Nat

VARIABLES
  \* the chain and its node
  height,      \* the latest closed ledger
  chain,       \* all events ever emitted, in order
  market,      \* the listings as they are on chain
  \* the database
  rows,        \* the ids in the events table
  checkpoint,  \* last_ledger, or None
  derived,     \* the listings table and the aggregates
  version,     \* of the derivation, the marketplace_schema row
  \* the process
  pc,          \* "down", "ready", "asking", "paging", "fetched", "inserted" or "asleep"
  aborted,     \* a stop signal has arrived
  start,       \* first ledger of the cycle
  batch,       \* ids fetched in the cycle
  next,        \* where the next page begins, as an id
  latest,      \* the largest latestLedger a page reported
  faults,      \* deaths, stops and failed cycles so far
  succeeded,   \* whether the last cycle of this process did
  origin,      \* history: where the last cycle without a checkpoint began
  orphaned     \* history: such a cycle died between its two writes

chainVars == <<height, chain, market>>
dbVars == <<rows, checkpoint, derived, version>>
cycleVars == <<start, batch, next, latest, succeeded>>
vars == <<chainVars, dbVars, pc, aborted, cycleVars, faults, origin, orphaned>>

---------------------------------------------------------------------------
(* The derivation: what one event does to the listings and the totals.     *)

Absent == [status |-> "absent", price |-> 0, currency |-> None]
NothingDerived ==
  [listings |-> [l \in Listings |-> Absent],
   volume   |-> [c \in Currencies |-> 0],
   minted   |-> 0]

(* closeListing: a listing never seen gets a row, so that the floor can     *)
(* never count it.                                                          *)
Closed(table, l, status) ==
  [table EXCEPT ![l].status = status]

EndKinds == {"sold", "cancel", "reclaimed", "deactive"}

(* As version 1 did: sold is not handled.                                   *)
ApplyListingStateV1(e, table) ==
  CASE e.kind = "listed" ->
         [table EXCEPT ![e.listing] =
            [status |-> "active", price |-> e.price, currency |-> e.currency]]
    [] e.kind = "reclaimed" -> Closed(table, e.listing, e.kind)
    [] OTHER -> table

(* applyListingState, one branch per event name it knows.                   *)
ApplyListingState(e, table) ==
  CASE e.kind = "listed" ->
         [table EXCEPT ![e.listing] =
            [status |-> "active", price |-> e.price, currency |-> e.currency]]
    [] e.kind \in EndKinds -> Closed(table, e.listing, e.kind)
    [] e.kind = "price_upd" /\ table[e.listing].status = "active" ->
         [table EXCEPT ![e.listing].price = e.price]
    [] OTHER -> table

(* A total that is set where it should be added to.                         *)
AddAggregateSetting(d, e) ==
  CASE e.kind = "sold" -> [d EXCEPT !.volume[e.currency] = e.price]
    [] e.kind = "mint" -> [d EXCEPT !.minted = e.price]
    [] OTHER -> d

AddAggregate(d, e) ==
  CASE e.kind = "sold" -> [d EXCEPT !.volume[e.currency] = @ + e.price]
    [] e.kind = "mint" -> [d EXCEPT !.minted = @ + e.price]
    [] OTHER -> d

ApplyDerivedState(e, d) ==
  AddAggregate([d EXCEPT !.listings = ApplyListingState(e, @)], e)

(* The events with these ids, applied in their order.  Rows are inserted in *)
(* chain order (ImplementsEventLog), so this is also rowid order.           *)
Replay(ids, d) ==
  LET after[n \in 0 .. Len(chain)] ==
        IF n = 0 THEN d
        ELSE IF n \in ids THEN ApplyDerivedState(chain[n], after[n - 1])
        ELSE after[n - 1]
  IN  after[Len(chain)]

---------------------------------------------------------------------------
(* What the database answers.                                              *)

ActiveListings == {l \in Listings : derived.listings[l].status = "active"}
ActiveIn(c) == {l \in ActiveListings : derived.listings[l].currency = c}

FloorPrice(c) ==
  IF ActiveIn(c) = {} THEN None
  ELSE CHOOSE p \in {derived.listings[l].price : l \in ActiveIn(c)} :
         \A l \in ActiveIn(c) : p <= derived.listings[l].price

MarketSummaries ==
  [c \in {c \in Currencies : derived.volume[c] > 0 \/ ActiveIn(c) # {}} |->
     [volume |-> derived.volume[c], floor |-> FloorPrice(c),
      active |-> Cardinality(ActiveIn(c))]]

OfKind(kind) == {i \in rows : chain[i].kind = kind}
CountOf(kind) == Cardinality(OfKind(kind))

(* Figures recomputed from the events of one day; a ledger is a day.  The    *)
(* rows the API returns are kept by column here.                            *)
OnDay(day, kind) == {i \in OfKind(kind) : chain[i].ledger = day}
Total(ids) == SumFunction([i \in ids |-> chain[i].price])

Daily ==
  [claims |-> [day \in 1 .. MaxLedger |-> Cardinality(OnDay(day, "claim"))],
   minted |-> [day \in 1 .. MaxLedger |-> Total(OnDay(day, "mint"))],
   volume |-> [c \in Currencies |-> [day \in 1 .. MaxLedger |->
     Total({i \in OnDay(day, "sold") : chain[i].currency = c})]]]

Summary ==
  [claims |-> CountOf("claim"), minted |-> derived.minted, markets |-> MarketSummaries,
   active |-> Cardinality(ActiveListings), latest |-> IF checkpoint = None THEN 0 ELSE checkpoint]


---------------------------------------------------------------------------
(* The chain and its node (external).                                      *)

Oldest == IF height < Retention THEN 1 ELSE height - Retention + 1
ClosedIds == {i \in 1 .. Len(chain) : chain[i].ledger <= height}

Event(kind, l, p, c, ok) ==
  [kind |-> kind, listing |-> l, price |-> p, currency |-> c, ok |-> ok,
   ledger |-> height + 1]

Emit(e) ==
  /\ e.kind \in Kinds /\ Len(chain) < MaxEvents /\ height < MaxLedger
  /\ chain' = Append(chain, e)
  /\ UNCHANGED <<height, dbVars, pc, aborted, cycleVars, faults, origin, orphaned>>

EmitListed == \E l \in Listings, p \in Prices, c \in Currencies :
  /\ market[l].status = "absent"
  /\ Emit(Event("listed", l, p, c, TRUE))
  /\ market' = [market EXCEPT ![l] = [status |-> "active", price |-> p, currency |-> c]]

EmitPriceUpd == \E l \in Listings, p \in Prices :
  /\ market[l].status = "active" /\ market[l].price # p
  /\ Emit(Event("price_upd", l, p, market[l].currency, TRUE))
  /\ market' = [market EXCEPT ![l].price = p]

(* A listing ends by one of four events of its own, or with offer_acc when  *)
(* an offer for the listed bot is accepted.                                 *)
EmitEnd == \E l \in Listings, kind \in EndKinds \cup {"offer_acc"} :
  /\ market[l].status = "active"
  /\ Emit(Event(kind, l, market[l].price, market[l].currency, TRUE))
  /\ market' = [market EXCEPT ![l].status = "ended"]

(* Events that touch no listing: mints and claims, a sale in a reverted     *)
(* call, and an event whose topics do not decode.                           *)
EmitOther == \E kind \in {"mint", "claim", "sold", "junk"}, l \in Listings :
  /\ kind = "sold" => market[l].status = "active"
  /\ Emit(Event(kind, l, 1, market[l].currency, kind # "sold"))
  /\ UNCHANGED market

CloseLedger ==
  /\ height < MaxLedger
  /\ height' = height + 1
  /\ UNCHANGED <<chain, market, dbVars, pc, aborted, cycleVars, faults, origin, orphaned>>

---------------------------------------------------------------------------
(* The process.                                                            *)

(* main and buildRuntime open the database; its constructor rebuilds what   *)
(* an older version derived, before the first poll.                         *)
Boot ==
  /\ pc = "down"
  /\ derived' = IF version = "2" THEN derived
                ELSE [Replay(rows, NothingDerived) EXCEPT !.minted = derived.minted]
  /\ version' = "2"
  /\ pc' = "ready" /\ aborted' = FALSE
  /\ UNCHANGED <<chainVars, rows, checkpoint, cycleVars, faults, origin, orphaned>>

Begin(ledger) ==
  /\ start' = ledger
  /\ origin' = IF checkpoint = None THEN ledger ELSE origin
  /\ batch' = {} /\ next' = None /\ latest' = 0
  /\ pc' = "paging" /\ UNCHANGED <<succeeded, orphaned>>

(* What a cycle keeps in local variables is gone when it ends.              *)
EndCycle(result) ==
  start' = 0 /\ batch' = {} /\ next' = None /\ latest' = 0 /\ succeeded' = result

(* The readiness probe, but for a success that is too long ago.             *)
Health == [liveness |-> TRUE, readiness |-> succeeded]

(* As before #1228: a cold start asks for ledger 0, which no node has.       *)
StartPollAtZero ==
  /\ pc = "ready" /\ ~aborted
  /\ Begin(IF checkpoint # None THEN checkpoint + 1 ELSE DefaultStart)
  /\ UNCHANGED <<chainVars, dbVars, aborted, faults>>

(* resolveStartLedger: after the checkpoint, or on a cold start at the      *)
(* configured ledger, or else at the oldest one the node will name.         *)
StartPoll ==
  /\ pc = "ready" /\ ~aborted
  /\ IF checkpoint # None THEN Begin(checkpoint + 1)
     ELSE IF DefaultStart > 0 THEN Begin(DefaultStart)
     ELSE pc' = "asking" /\ UNCHANGED <<cycleVars, origin, orphaned>>
  /\ UNCHANGED <<chainVars, dbVars, aborted, faults>>

AnswerOldest ==
  /\ pc = "asking"
  /\ Begin(Oldest)
  /\ UNCHANGED <<chainVars, dbVars, aborted, faults>>

(* The ids that a request reaches: from the start ledger, or after the      *)
(* cursor; the node refuses a position outside its window.                  *)
Reach == {i \in ClosedIds : IF next = None THEN chain[i].ledger >= start ELSE i >= next}
Refused ==
  IF next = None THEN start < Oldest \/ start > height
  ELSE chain[next - 1].ledger < Oldest
Page == {i \in Reach : Cardinality({j \in Reach : j < i}) < PageLimit}
LastOf(ids) == CHOOSE i \in ids : \A j \in ids : j <= i

AnswerPage ==
  /\ pc = "paging" /\ ~aborted /\ ~Refused
  /\ batch' = batch \cup Page
  /\ latest' = IF height > latest THEN height ELSE latest
  /\ IF Cardinality(Page) = PageLimit
     THEN pc' = "paging" /\ next' = LastOf(Page) + 1
     ELSE pc' = "fetched" /\ UNCHANGED next
  /\ UNCHANGED <<chainVars, dbVars, aborted, start, succeeded, faults, origin, orphaned>>

(* A failed request is repeated by withRetry with nothing changed, a        *)
(* stuttering step here, until the retries are used up or the error is not  *)
(* transient, as a refusal is: then the cycle ends without a write.         *)
RefusePoll ==
  /\ pc = "paging" /\ ~aborted /\ Refused
  /\ pc' = "asleep" /\ EndCycle(FALSE)
  /\ UNCHANGED <<chainVars, dbVars, aborted, faults, origin, orphaned>>

FailPoll ==
  /\ pc \in {"asking", "paging"} /\ ~aborted /\ faults < MaxFaults
  /\ pc' = "asleep" /\ faults' = faults + 1 /\ EndCycle(FALSE)
  /\ UNCHANGED <<chainVars, dbVars, aborted, origin, orphaned>>

(* pollOnceInternal from the last page to insertEvents: what failed on      *)
(* chain or does not decode is left out, the rest is stored, and only what  *)
(* was not stored before is derived from.                                   *)
Decodable(i) == chain[i].kind # "junk"     \* of a known contract, named by a symbol
Relevant(i) == chain[i].ok /\ Decodable(i)
(* Slips in storing a batch: the first ledger is taken for the one already  *)
(* done; what was stored before is derived from again.                      *)
InsertBatchPastStart ==
  /\ pc = "fetched" /\ ~aborted
  /\ LET fresh == {i \in batch : Relevant(i) /\ chain[i].ledger > start} \ rows IN
     /\ rows' = rows \cup fresh
     /\ derived' = Replay(fresh, derived)
  /\ pc' = "inserted"
  /\ UNCHANGED <<chainVars, checkpoint, version, aborted, cycleVars,
                 faults, origin, orphaned>>

InsertBatchAgain ==
  /\ pc = "fetched" /\ ~aborted
  /\ rows' = rows \cup {i \in batch : Relevant(i)}
  /\ derived' = Replay({i \in batch : Relevant(i)}, derived)
  /\ pc' = "inserted"
  /\ UNCHANGED <<chainVars, checkpoint, version, aborted, cycleVars,
                 faults, origin, orphaned>>

InsertBatch ==
  /\ pc = "fetched" /\ ~aborted
  /\ LET fresh == {i \in batch : Relevant(i)} \ rows IN
     /\ rows' = rows \cup fresh
     /\ derived' = Replay(fresh, derived)
  /\ pc' = "inserted"
  /\ UNCHANGED <<chainVars, checkpoint, version, aborted, cycleVars,
                 faults, origin, orphaned>>

(* The node is asked again for its latest ledger when the batch is in.      *)
SaveCheckpointLate ==
  /\ pc = "inserted"
  /\ checkpoint' = height
  /\ pc' = "asleep" /\ EndCycle(TRUE)
  /\ UNCHANGED <<chainVars, rows, derived, version, aborted, faults, origin, orphaned>>

SaveCheckpoint ==
  /\ pc = "inserted"
  /\ checkpoint' = IF latest > 0 THEN latest ELSE checkpoint
  /\ pc' = "asleep" /\ EndCycle(TRUE)
  /\ UNCHANGED <<chainVars, rows, derived, version, aborted, faults, origin, orphaned>>

Wake ==
  /\ pc = "asleep" /\ ~aborted
  /\ pc' = "ready"
  /\ UNCHANGED <<chainVars, dbVars, aborted, cycleVars, faults, origin, orphaned>>

(* SIGINT or SIGTERM; its handler runs when the process awaits.             *)
Signal ==
  /\ pc \in {"ready", "asking", "paging", "fetched", "asleep"} /\ ~aborted
  /\ faults < MaxFaults
  /\ aborted' = TRUE /\ faults' = faults + 1
  /\ UNCHANGED <<chainVars, dbVars, pc, cycleVars, origin, orphaned>>

(* run returns without another write, the server drains, the database is    *)
(* closed and the process exits.                                            *)
Stop ==
  /\ aborted /\ pc # "down"
  /\ pc' = "down" /\ EndCycle(FALSE)
  /\ UNCHANGED <<chainVars, dbVars, aborted, faults, origin, orphaned>>

Crash ==
  /\ pc # "down" /\ faults < MaxFaults
  /\ pc' = "down" /\ faults' = faults + 1 /\ aborted' = FALSE /\ EndCycle(FALSE)
  /\ orphaned' = (orphaned \/ (pc = "inserted" /\ checkpoint = None))
  /\ UNCHANGED <<chainVars, dbVars, origin>>

---------------------------------------------------------------------------
Fresh ==
  /\ height = 0 /\ chain = << >> /\ market = [l \in Listings |-> Absent]
  /\ rows = {} /\ checkpoint = None /\ derived = NothingDerived
  /\ version \in {"none", "2"}
  /\ origin = None

(* A database of the version that knew neither sold nor cancel: it still    *)
(* shows a listing that was sold, and counted no volume in its currency.    *)
Legacy ==
  \E l \in Listings, p \in Prices, c \in Currencies :
  LET listed == [status |-> "active", price |-> p, currency |-> c] IN
  /\ MaxLedger > 0 /\ MaxEvents > 1 /\ height = 1
  /\ chain = << [Event("listed", l, p, c, TRUE) EXCEPT !.ledger = 1],
                [Event("sold", l, p, c, TRUE) EXCEPT !.ledger = 1] >>
  /\ market = [k \in Listings |-> IF k = l THEN [listed EXCEPT !.status = "ended"]
                                  ELSE Absent]
  /\ rows = {1, 2} /\ checkpoint = 1 /\ version = "1" /\ origin = 1
  /\ derived = [NothingDerived EXCEPT !.listings[l] = listed]

Init ==
  /\ Fresh \/ Legacy
  /\ pc = "down" /\ aborted = FALSE /\ faults = 0 /\ orphaned = FALSE
  /\ start = 0 /\ batch = {} /\ next = None /\ latest = 0 /\ succeeded = FALSE

Chain == EmitListed \/ EmitPriceUpd \/ EmitEnd \/ EmitOther \/ CloseLedger
Process == Boot \/ StartPoll \/ InsertBatch \/ SaveCheckpoint \/ Wake \/ Stop
Node == AnswerOldest \/ AnswerPage \/ RefusePoll

Next == Chain \/ Process \/ Node \/ FailPoll \/ Signal \/ Crash

Spec == Init /\ [][Next]_vars

(* The process is restarted and takes its own steps, and the node answers   *)
(* what is asked of it; how often a cycle dies or fails is bounded.         *)
FairSpec == Spec /\ WF_vars(Process) /\ WF_vars(Node)

---------------------------------------------------------------------------
EventKinds == EndKinds \cup {"listed", "price_upd", "offer_acc", "mint", "claim", "junk"}
Events == [kind : EventKinds, listing : Listings, price : Nat, currency : Currencies \cup {None},
           ok : BOOLEAN, ledger : Nat]

TypeOK ==
  /\ height \in Nat /\ chain \in Seq(Events)
  /\ market \in [Listings -> [status : {"absent", "active", "ended"}, price : Nat,
                             currency : Currencies \cup {None}]]
  /\ rows \subseteq 1 .. Len(chain)
  /\ checkpoint \in Nat \cup {None} /\ origin \in Nat \cup {None}
  /\ pc \in {"down", "ready", "asking", "paging", "fetched", "inserted", "asleep"}
  /\ aborted \in BOOLEAN /\ version \in {"none", "1", "2"}
  /\ start \in Nat /\ batch \subseteq 1 .. Len(chain)
  /\ next \in Nat \cup {None} /\ latest \in Nat
  /\ succeeded \in BOOLEAN /\ orphaned \in BOOLEAN
  /\ faults \in Nat

(* The ids the database promises to hold once it has seen this ledger.      *)
Promised(ledger) ==
  {i \in 1 .. Len(chain) : /\ Relevant(i) /\ chain[i].ledger <= ledger
                           /\ origin # None /\ chain[i].ledger >= origin}

Covered == checkpoint # None => Promised(checkpoint) \subseteq rows

(* "no gaps" (indexer/README.md:32), as far as the code keeps it.  From the *)
(* cold start on that led to the first checkpoint, the checkpoint passes no *)
(* event that counts and is not in the events table, whatever crashed and   *)
(* however the chain grew between two pages.  Nor is there a gap behind an  *)
(* older row, but after one accident: a first cycle stores its events, dies *)
(* before saveCheckpoint (poller.ts:142-145), and the next cold start, with  *)
(* no AM_START_LEDGER, begins at a later ledger than that cycle had reached.*)
NoGap ==
  /\ Covered
  /\ checkpoint # None /\ (orphaned => DefaultStart > 0) =>
       \A i \in 1 .. Len(chain), j \in rows :
         Relevant(i) /\ chain[i].ledger <= checkpoint /\ j < i => i \in rows

(* "no double-counts": while the process runs, listings, volume and minted  *)
(* total are what one replay of the events table gives, also after a        *)
(* re-fetch, a crash inside a cycle and the migration of an old database.   *)
DerivedExact ==
  pc # "down" /\ version = "2" => derived = Replay(rows, NothingDerived)

(* The two ways the API counts agree: the daily figures add up to the       *)
(* incrementally kept totals of the summary, and its markets to the listings. *)
DailyAddsUp ==
  pc # "down" /\ version = "2" =>
    LET days == Daily
        all == Summary
    IN
    /\ SumFunction([c \in DOMAIN all.markets |-> all.markets[c].active]) = all.active
    /\ SumFunction(days.claims) = all.claims
    /\ SumFunction(days.minted) = all.minted
    /\ \A c \in Currencies : SumFunction(days.volume[c]) = derived.volume[c]

(* The two ways to a ghost listing: it ended when an offer was accepted,    *)
(* which the database does not take for an end (db.ts:195-243); or an event *)
(* of it is missing behind one that is stored (see NoGap).                  *)
ListingKinds == EndKinds \cup {"listed", "price_upd"}
Tells(i, l) == Relevant(i) /\ chain[i].kind \in ListingKinds /\ chain[i].listing = l
EndedByOffer(l) ==
  \E i \in 1 .. Len(chain) : chain[i].kind = "offer_acc" /\ chain[i].listing = l
Interrupted(l) ==
  \E i \in (1 .. Len(chain)) \ rows, j \in rows : Tells(i, l) /\ Tells(j, l) /\ j < i

(* Once every closed event is stored, what the API calls active is active   *)
(* on chain at the price it shows, but for those two accidents.  If the     *)
(* database covers the chain from its first ledger, it shows what is for    *)
(* sale and the listings that an accepted offer ended, nothing else, and    *)
(* the floor of a currency without such a ghost is the lowest price asked.  *)
CaughtUp ==
  /\ pc \notin {"down", "inserted"} /\ checkpoint = height
  /\ \A i \in 1 .. Len(chain) : chain[i].ledger <= height
NoGhostListing ==
  CaughtUp =>
    /\ \A l \in ActiveListings :
         derived.listings[l] = market[l] \/ EndedByOffer(l) \/ Interrupted(l)
    /\ origin = 1 =>
         /\ ActiveListings = {l \in Listings : market[l].status = "active" \/ EndedByOffer(l)}
         /\ \A c \in DOMAIN MarketSummaries :
              LET asked == {market[l].price : l \in
                              {k \in Listings : /\ market[k].status = "active"
                                                /\ market[k].currency = c}}
                  floor == MarketSummaries[c].floor
              IN (\A l \in Listings : EndedByOffer(l) => market[l].currency # c) =>
                   IF asked = {} THEN floor = None
                   ELSE floor \in asked /\ \A p \in asked : floor <= p

(* The events table is an event log: it only ever grows, in order, and from *)
(* the first checkpoint on, it is at every moment a first part of all the   *)
(* events that count, none left out.                                        *)
InOrder(ids) ==
  LET upTo[n \in 0 .. Len(chain)] ==
        IF n = 0 THEN << >>
        ELSE IF n \in ids THEN Append(upTo[n - 1], n)
        ELSE upTo[n - 1]
  IN  upTo[Len(chain)]
Published ==
  rows \cup {i \in ClosedIds : /\ checkpoint # None
                               /\ Relevant(i) /\ chain[i].ledger >= origin}
Log == INSTANCE EventLog WITH
  published <- InOrder(Published), log <- InOrder(rows)
ImplementsEventLog == Log!Spec

(* In the end every event that counts is stored, over crashes, stops and    *)
(* failing cycles, unless the node dropped its ledger first or the first    *)
(* cycle began after it.  A process that fell behind, and cannot go on, does *)
(* not go on reporting that it is ready.                                    *)
FellBehind == checkpoint # None /\ checkpoint + 1 < Oldest
Owed(i) == i \in ClosedIds /\ Relevant(i) /\ chain[i].ledger >= DefaultStart
BeganAfter(i) == i \in ClosedIds /\ origin # None /\ origin > chain[i].ledger
EverythingIndexed ==
  <>[](/\ \A i \in 1 .. MaxEvents : Owed(i) => i \in rows \/ FellBehind \/ BeganAfter(i)
       /\ FellBehind => ~Health.readiness)
=============================================================================
