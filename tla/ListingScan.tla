----------------------------- MODULE ListingScan -----------------------------
(***************************************************************************)
(* A client that pages through the marketplace's listings while others     *)
(* list, end and compact them.  One call of get_active_listings or         *)
(* get_listings_filtered is one step; the client keeps the cursor between  *)
(* calls, and everything may change there.                                 *)
(*                                                                         *)
(* The marketplace is reduced to its id index and to which listings are    *)
(* active: an active listing's bot is always in escrow (Backed in          *)
(* MarketplaceProps), so the read's own check of that never skips one.     *)
(* Which listings the filter matches is fixed: one that is repriced into   *)
(* or out of the filter during a scan is promised nothing.                 *)
(***************************************************************************)
EXTENDS ListingIndex, SequencesExt

CONSTANTS
  MaxListings,     \* bound on the listings ever made
  Limit,           \* the client's page length
  FilterScan,      \* MAX_FILTER_SCAN, 200 in the contract
  Wanted           \* the listing ids the client's filter matches

ASSUME ScanAssumption ==
  /\ MaxListings \in Nat /\ Limit \in Nat \ {0} /\ FilterScan \in Nat \ {0}
  /\ Wanted \subseteq 1 .. MaxListings

VARIABLES
  pages,      \* the index
  listed,     \* how many listings were ever made
  active,     \* the ids of the active ones
  phase,      \* the client: "idle", "scanning" or "done"
  filtered,   \* which of the two reads it uses
  cursor,     \* what it passes to its next call
  seen,       \* the listings it was given, in order
  steady      \* the listings active at every moment since the scan began

readerVars == <<phase, filtered, cursor, seen>>
vars == <<pages, listed, active, readerVars, steady>>

ScanFactor == 4

(* The ids of a page after the cursor.  A page whose last id is not after   *)
(* it is skipped without being read.                                        *)
Later(page, from) ==
  IF page = << >> \/ Last(page) <= from THEN << >> ELSE Without(page, 0 .. from)

(* Up to max indexed ids after the cursor.                                  *)
IdsAfter(index, from, max) ==
  LET upTo[n \in 0 .. Len(index)] ==
        IF n = 0 THEN << >> ELSE upTo[n - 1] \o Later(index[n], from)
      all == upTo[Len(index)]
  IN  SubSeq(all, 1, IF Len(all) < max THEN Len(all) ELSE max)

(* The ids among these whose listings match the filters.                    *)
Matches(ids, matching) == Without(ids, IdsOf(ids) \ matching)

ScanWrapping(from, ids, matching) ==
  [found |-> Matches(ids, matching),
   next  |-> IF ids = << >> THEN 0 ELSE Last(ids)]

ScanToLastFound(from, ids, matching) ==
  LET found == Matches(ids, matching) IN
  [found |-> found, next |-> IF found = << >> THEN from ELSE Last(found)]

(* One read: go through the ids in order and stop at the Limit-th match.    *)
Scan(from, ids, matching) ==
  LET Hits(k) == Matches(SubSeq(ids, 1, k), matching)
      full == {k \in DOMAIN ids : Len(Hits(k)) = Limit}
      examined == IF full = {} THEN Len(ids) ELSE Min(full)
  IN  [found |-> Hits(examined),
       next  |-> IF examined = 0 THEN from ELSE ids[examined]]

(* The listings that the client's current scan returns.                     *)
Selected == {id \in active : filtered => id \in Wanted}

Budget == IF filtered THEN FilterScan ELSE Limit * ScanFactor

-----------------------------------------------------------------------------

ScanInit ==
  /\ pages = << >>
  /\ listed = 0
  /\ active = {}
  /\ phase = "idle" /\ filtered = FALSE /\ cursor = 0 /\ seen = << >>
  /\ steady = {}

ListBot ==
  /\ listed < MaxListings
  /\ listed' = listed + 1
  /\ pages' = AppendListingId(pages, listed + 1)
  /\ active' = active \cup {listed + 1}
  /\ UNCHANGED <<readerVars, steady>>

(* Sold, cancelled, reclaimed or closed by an accepted offer.               *)
EndListing(id) ==
  /\ active' = active \ {id}
  /\ steady' = steady \ {id}
  /\ UNCHANGED <<pages, listed, readerVars>>

CompactPage(n) ==
  LET kept == Compacted(pages[n], active) IN
  /\ kept # pages[n]
  /\ pages' = [pages EXCEPT ![n] = kept]
  /\ UNCHANGED <<listed, active, readerVars, steady>>

Begin ==
  /\ phase = "idle"
  /\ phase' = "scanning"
  /\ filtered' \in BOOLEAN
  /\ steady' = active
  /\ UNCHANGED <<pages, listed, active, cursor, seen>>

(* The client stops when the cursor it gets back is the one it passed.      *)
Fetch ==
  /\ phase = "scanning"
  /\ \E ids \in {IdsAfter(pages, cursor, Budget)} :
       LET read == Scan(cursor, ids, Selected) IN
       /\ seen' = seen \o read.found
       /\ cursor' = read.next
       /\ phase' = IF read.next = cursor THEN "done" ELSE phase
  /\ UNCHANGED <<pages, listed, active, filtered, steady>>

ScanNext ==
  \/ ListBot
  \/ \E id \in active : EndListing(id)
  \/ \E n \in DOMAIN pages : CompactPage(n)
  \/ Begin
  \/ Fetch

(* The client calls again as long as its scan is not over.                  *)
ScanSpec == ScanInit /\ [][ScanNext]_vars /\ WF_vars(Fetch)

-----------------------------------------------------------------------------

TypeOK ==
  /\ pages \in Seq(Seq(1 .. MaxListings))
  /\ listed \in 0 .. MaxListings
  /\ active \subseteq 1 .. listed /\ steady \subseteq active
  /\ phase \in {"idle", "scanning", "done"} /\ filtered \in BOOLEAN
  /\ cursor \in 0 .. listed
  /\ seen \in Seq(1 .. MaxListings)

(* Paging visits every listing that was there all along and that the filter *)
(* wants, whatever was listed, ended or compacted between two calls         *)
(* (get_active_listings: "every active listing is visited exactly once").   *)
EverySteadyListingSeen ==
  phase = "done" =>
    \A id \in steady : (filtered => id \in Wanted) => id \in ToSet(seen)

(* ... and none twice.                                                      *)
NothingTwice == \A i, j \in DOMAIN seen : i < j => seen[i] < seen[j]
SteadyListingsSeenOnce == EverySteadyListingSeen /\ NothingTwice

(* The stopping rule is reached: a client that keeps paging gets to the     *)
(* end, however many tombstones a call has to skip.                         *)
ScanEnds == (phase = "scanning") ~> (phase = "done")

=============================================================================
