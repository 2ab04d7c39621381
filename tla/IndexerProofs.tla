--------------------------- MODULE IndexerProofs ---------------------------
(***************************************************************************)
(* The indexer, for any chain, any page size, any window of the node and   *)
(* any number of crashes, stops and failed cycles:                         *)
(*                                                                         *)
(* - from the cold start on that led to the first checkpoint it leaves no  *)
(*   gap.  The checkpoint is the largest ledger that a page reported, and  *)
(*   the node closes ledgers between two pages; so the argument is about   *)
(*   what a cycle holds at every moment (CycleOK): with a cursor, every    *)
(*   event before it; after the last page, every event up to the ledger    *)
(*   that page reported.  The last page is the one that is not full, and   *)
(*   therefore everything that it could have reached.                      *)
(* - behind older rows it leaves a gap only if a first cycle died between  *)
(*   its two writes (OrphanOK): until then there are no rows without a     *)
(*   checkpoint.                                                           *)
(* - its events table is an event log (the refinement).  What is needed    *)
(*   beyond CycleOK is that nothing counted is missing before a row since  *)
(*   the current origin, also while a cycle is in progress (LogOK).        *)
(* - what it derives is one replay of that table.  Replay is a recursion   *)
(*   on the length of the chain; the facts about it are proved by          *)
(*   induction over the set of the numbers that have them.                 *)
(* - its two ways to count agree, and what it shows is what is on the      *)
(*   chain, but for listings that end with an accepted offer.              *)
(***************************************************************************)
EXTENDS Indexer, DataLemmas, SequencesExt

Ids == 1 .. Len(chain)

(* Events are emitted in the order of their ledgers, none of which is later *)
(* than the open one.                                                       *)
ChainOK ==
  /\ \A i \in Ids : chain[i].ledger <= height + 1
  /\ \A i, j \in Ids : i <= j => chain[i].ledger <= chain[j].ledger

(* What the cycle in progress holds.                                        *)
CycleOK ==
  /\ latest <= height
  /\ checkpoint # None => checkpoint <= height /\ origin # None
  /\ pc = "asking" => checkpoint = None
  /\ pc \in {"paging", "fetched", "inserted"} =>
       origin # None /\ start = IF checkpoint = None THEN origin ELSE checkpoint + 1
  /\ pc = "paging" /\ next # None =>
       /\ next \in 1 .. Len(chain) + 1
       /\ \A i \in Ids : i < next /\ chain[i].ledger >= start => i \in batch
  /\ pc = "fetched" =>
       \A i \in Ids : chain[i].ledger >= start /\ chain[i].ledger <= latest => i \in batch
  /\ pc = "inserted" =>
       \A i \in Ids : Relevant(i) /\ chain[i].ledger >= start /\ chain[i].ledger <= latest =>
         i \in rows

IInv == TypeOK /\ ChainOK /\ CycleOK /\ Covered

---------------------------------------------------------------------------
(* Pages.                                                                  *)

LEMMA GreatestElement ==
  ASSUME NEW S \in SUBSET Nat, S # {}, NEW n \in Nat, \A y \in S : y <= n
  PROVE  \E x \in S : \A y \in S : y <= x
<1> DEFINE T == {k \in Nat : \A y \in S : y <= k}
<1>1. n \in T OBVIOUS
<1>2. PICK k \in T : \A j \in T : k <= j BY <1>1, LeastNat
<1>3. k \in S
  <2> SUFFICES ASSUME k \notin S PROVE FALSE OBVIOUS
  <2>1. \A y \in S : y < k BY <1>2
  <2>2. k > 0
    <3>1. PICK y \in S : y < k BY <2>1
    <3>2. y \in Nat OBVIOUS
    <3> QED BY <3>1, <3>2
  <2>3. k - 1 \in Nat /\ \A y \in S : y <= k - 1 BY <1>2, <2>1, <2>2
  <2>4. k - 1 \in T BY <2>3
  <2> QED BY <1>2, <2>4
<1> QED BY <1>2, <1>3

(* The first n members of a finite set of numbers, as the node selects      *)
(* them: n of them with no other before the last, or all.                   *)
FirstOf(S, n) == {i \in S : Cardinality({j \in S : j < i}) < n}

LEMMA FirstIsFull ==
  ASSUME NEW S \in SUBSET Nat, IsFiniteSet(S), NEW n \in Nat \ {0}
  PROVE  /\ \A i \in FirstOf(S, n), j \in S : j < i => j \in FirstOf(S, n)
         /\ Cardinality(FirstOf(S, n)) = n \/ FirstOf(S, n) = S
<1> DEFINE Before(i) == {j \in S : j < i}
           F == FirstOf(S, n)
<1>1. \A i : IsFiniteSet(Before(i)) /\ Cardinality(Before(i)) \in Nat
  BY FS_Subset, FS_CardinalityType
<1>2. F \subseteq S /\ \A i \in S : i \in F <=> Cardinality(Before(i)) < n
  BY DEF FirstOf
<1>3. ASSUME NEW i \in F, NEW j \in S, j < i PROVE j \in F
  <2>1. i \in Nat /\ j \in Nat BY <1>2
  <2>2. Before(j) \subseteq Before(i)
    <3> SUFFICES ASSUME NEW x \in S, x < j PROVE x < i OBVIOUS
    <3>1. x \in Nat OBVIOUS
    <3> QED BY <3>1, <2>1, <1>3
  <2>3. Cardinality(Before(j)) <= Cardinality(Before(i)) BY <1>1, <2>2, FS_Subset
  <2>4. Cardinality(Before(i)) < n BY <1>2
  <2> HIDE DEF Before
  <2>5. Cardinality(Before(j)) < n BY <1>1, <2>3, <2>4
  <2> QED BY <2>5, <1>2
<1>4. ASSUME F # S PROVE Cardinality(F) = n
  <2>1. S \ F # {} /\ S \ F \in SUBSET Nat BY <1>2, <1>4
  <2>2. PICK m \in S \ F : \A y \in S \ F : m <= y BY <2>1, LeastNat, Zenon
  <2>3. F = Before(m)
    <3>1. ASSUME NEW y \in F PROVE y < m
      <4>1. ~(m < y) BY <1>3, <2>2
      <4>2. y # m BY <2>2
      <4>3. y \in Nat /\ m \in Nat BY <1>2, <2>1, <2>2
      <4> QED BY <4>1, <4>2, <4>3
    <3>2. ASSUME NEW y \in S, y < m PROVE y \in F
      BY <2>2, <3>2
    <3> QED BY <3>1, <3>2, <1>2
  <2>4. ~(Cardinality(Before(m)) < n) BY <1>2, <2>2
  <2>5. IsFiniteSet(F) /\ Cardinality(F) \in Nat /\ Cardinality(F) >= n
    BY <2>3, <2>4, <1>1
  <2>6. F # {} BY <2>5, FS_EmptySet
  <2>7. F \in SUBSET Nat /\ m \in Nat /\ \A y \in F : y <= m
    <3>1. F \in SUBSET Nat /\ m \in Nat BY <1>2, <2>1, <2>2
    <3>2. ASSUME NEW y \in F PROVE y <= m
      <4>1. y < m /\ y \in Nat BY <2>3, <3>1
      <4> QED BY <4>1, <3>1
    <3> QED BY <3>1, <3>2
  <2>8. PICK k \in F : \A y \in F : y <= k BY <2>2, <2>6, <2>7, GreatestElement
  <2>9. F = Before(k) \cup {k}
    <3>1. \A y \in F : y < k \/ y = k BY <2>7, <2>8
    <3>2. \A y \in Before(k) : y \in F BY <1>3
    <3> QED BY <3>1, <3>2, <2>8, <1>2
  <2>10. k \notin Before(k) BY <2>7
  <2>11. Cardinality(F) = Cardinality(Before(k)) + 1
    <3> HIDE DEF Before, F
    <3> QED BY <1>1, <2>9, <2>10, FS_AddElement
  <2>12. Cardinality(Before(k)) < n BY <1>2, <2>8
  <2> HIDE DEF Before, F
  <2> QED BY <1>1, <2>5, <2>11, <2>12
<1> QED BY <1>3, <1>4

(* A page that is full holds the first of what it reaches, up to its last   *)
(* event; one that is not holds everything.                                 *)
LEMMA PageIsFirst ==
  ASSUME TypeOK
  PROVE  /\ Page \subseteq Reach /\ Reach \subseteq Ids
         /\ Cardinality(Page) # PageLimit => Page = Reach
         /\ Cardinality(Page) = PageLimit =>
              /\ LastOf(Page) \in Page
              /\ \A i \in Reach : i <= LastOf(Page) => i \in Page
<1>1. chain \in Seq(Events) /\ Len(chain) \in Nat BY DEF TypeOK
<1>2. Reach \subseteq Ids BY DEF Reach, ClosedIds, Ids
<1>3. Ids \subseteq Nat /\ IsFiniteSet(Ids) BY <1>1, FS_Interval DEF Ids
<1>4. IsFiniteSet(Reach) /\ Reach \in SUBSET Nat BY <1>2, <1>3, FS_Subset
<1>5. Page = FirstOf(Reach, PageLimit) BY DEF Page, FirstOf
<1>6. PageLimit \in Nat \ {0} BY IndexerAssumption
<1>7. /\ \A i \in Page, j \in Reach : j < i => j \in Page
      /\ Cardinality(Page) = PageLimit \/ Page = Reach
  BY <1>4, <1>5, <1>6, FirstIsFull
<1>8. Page \subseteq Reach BY DEF Page
<1>9. ASSUME Cardinality(Page) = PageLimit
      PROVE  /\ LastOf(Page) \in Page
             /\ \A i \in Reach : i <= LastOf(Page) => i \in Page
  <2>1. Page # {} BY <1>6, <1>9, FS_EmptySet
  <2>2. Page \in SUBSET Nat /\ \A i \in Page : i <= Len(chain)
    BY <1>1, <1>2, <1>4, <1>8 DEF Ids
  <2>3. \E i \in Page : \A j \in Page : j <= i BY <1>1, <2>1, <2>2, GreatestElement
  <2>4. LastOf(Page) \in Page BY <2>3, Zenon DEF LastOf
  <2>5. \A i \in Reach : i <= LastOf(Page) => i < LastOf(Page) \/ i = LastOf(Page)
    <3> TAKE i \in Reach
    <3>1. i \in Nat /\ LastOf(Page) \in Nat BY <1>4, <2>2, <2>4
    <3> QED BY <3>1
  <2> QED BY <2>4, <2>5, <1>7
<1> QED BY <1>2, <1>7, <1>8, <1>9

---------------------------------------------------------------------------
(* The chain grows.                                                        *)

LEMMA TypeParts ==
  ASSUME TypeOK
  PROVE  /\ height \in Nat /\ chain \in Seq(Events) /\ Len(chain) \in Nat /\ latest \in Nat
         /\ \A i \in Ids : i \in Nat /\ chain[i] \in Events /\ chain[i].ledger \in Nat
         /\ start \in Nat /\ (checkpoint # None => checkpoint \in Nat)
         /\ (origin # None => origin \in Nat) /\ None \notin Nat
<1>1. chain \in Seq(Events) BY DEF TypeOK
<1>2. \A i \in Ids : chain[i] \in Events BY <1>1 DEF Ids
<1>3. \A i \in Ids : i \in Nat /\ chain[i].ledger \in Nat BY <1>1, <1>2 DEF Ids, Events
<1> QED BY <1>1, <1>2, <1>3, IndexerAssumption DEF TypeOK

(* An emitted event is later than everything a cycle or the checkpoint has  *)
(* got to.                                                                  *)
LEMMA EmitKeepsInvariant ==
  ASSUME IInv, NEW e \in Events, e.ledger = height + 1, Emit(e),
         market' \in [Listings -> [status : {"absent", "active", "ended"}, price : Nat,
                                   currency : Currencies \cup {None}]]
  PROVE  IInv'
<1> USE TypeParts DEF IInv
<1> DEFINE n == Len(chain) + 1
<1>1. chain' = Append(chain, e) /\ height' = height
      /\ UNCHANGED <<rows, checkpoint, derived, version, pc, aborted, start, batch, next, latest,
                     succeeded, faults, origin, orphaned>>
  BY DEF Emit, dbVars, cycleVars
<1>2. /\ chain' \in Seq(Events) /\ Len(chain') = n
      /\ \A i \in Ids : chain'[i] = chain[i]
      /\ chain'[n] = e
  BY <1>1 DEF Ids
<1>3. \A i : i \in Ids' <=> i \in Ids \/ i = n BY <1>2, SMT DEF Ids
<1>4. \A i \in Ids : i < n BY SMT DEF Ids
<1>5. TypeOK'
  <2>1. rows' \subseteq 1 .. Len(chain') /\ batch' \subseteq 1 .. Len(chain')
    BY <1>1, <1>3 DEF TypeOK, Ids
  <2> QED BY <1>1, <1>2, <2>1 DEF TypeOK
<1>6. ChainOK'
  <2>1. \A i \in Ids' : chain'[i].ledger <= height + 1 BY <1>2, <1>3 DEF ChainOK
  <2>2. ASSUME NEW i \in Ids', NEW j \in Ids', i <= j
        PROVE  chain'[i].ledger <= chain'[j].ledger
    <3>1. CASE j = n BY <3>1, <2>1, <1>2
    <3>2. CASE j \in Ids
      <4>1. i \in Ids
        <5>1. i # n BY <2>2, <3>2, <1>4
        <5> QED BY <5>1, <1>3
      <4> QED BY <4>1, <3>2, <2>2, <1>2 DEF ChainOK
    <3> QED BY <3>1, <3>2, <1>3
  <2> QED BY <2>1, <2>2, <1>1 DEF ChainOK
<1>7. \A i \in Ids' : i \in Ids \/ chain'[i].ledger = height + 1 BY <1>2, <1>3
<1>8. CycleOK'
  <2>1. next # None /\ pc = "paging" => next \in 1 .. Len(chain') + 1 /\ ~(n < next)
    BY <1>2, SMT DEF CycleOK
  <2>2. pc = "paging" /\ next # None =>
          \A i \in Ids' : i < next /\ chain'[i].ledger >= start => i \in batch
    BY <2>1, <1>2, <1>3 DEF CycleOK
  <2>3. latest < height + 1 BY DEF CycleOK
  <2>4. \A i \in Ids' : chain'[i].ledger <= latest => i \in Ids
    BY <2>3, <1>7
  <2>5. pc = "fetched" =>
          \A i \in Ids' : chain'[i].ledger >= start /\ chain'[i].ledger <= latest => i \in batch
    BY <2>4, <1>2 DEF CycleOK
  <2>6. pc = "inserted" =>
          \A i \in Ids' : Relevant(i)' /\ chain'[i].ledger >= start /\ chain'[i].ledger <= latest
             => i \in rows
    BY <2>4, <1>2 DEF CycleOK, Relevant, Decodable
  <2> QED BY <2>1, <2>2, <2>5, <2>6, <1>1 DEF CycleOK
<1>9. Covered'
  <2> SUFFICES ASSUME checkpoint # None, NEW i \in Ids', Relevant(i)',
                      chain'[i].ledger <= checkpoint, origin # None, chain'[i].ledger >= origin
               PROVE  i \in rows
    BY <1>1 DEF Covered, Promised, Ids
  <2>1. checkpoint < height + 1 /\ checkpoint \in Nat BY DEF CycleOK
  <2>2. i \in Ids BY <2>1, <1>7
  <2>3. Relevant(i) BY <2>2, <1>2 DEF Relevant, Decodable
  <2> QED BY <2>2, <2>3, <1>2 DEF Covered, Promised, Ids
<1> QED BY <1>5, <1>6, <1>8, <1>9

(* Anything but the chain and the process's own position.                   *)
LEMMA ChainKeepsInvariant ==
  ASSUME IInv, EmitListed \/ EmitPriceUpd \/ EmitEnd \/ EmitOther \/ CloseLedger
  PROVE  IInv'
<1> USE TypeParts DEF IInv
<1> DEFINE Markets == [Listings -> [status : {"absent", "active", "ended"}, price : Nat,
                                    currency : Currencies \cup {None}]]
<1>1. market \in Markets BY DEF TypeOK
<1>2. ASSUME NEW kind \in EventKinds, NEW l \in Listings, NEW p \in Nat,
             NEW c \in Currencies \cup {None}, NEW ok \in BOOLEAN
      PROVE  Event(kind, l, p, c, ok) \in Events /\ Event(kind, l, p, c, ok).ledger = height + 1
  <2>1. height + 1 \in Nat OBVIOUS
  <2> QED BY <2>1, Zenon DEF Event, Events
<1>3. \A l \in Listings : market[l].price \in Nat /\ market[l].currency \in Currencies \cup {None}
  BY <1>1
<1>4. \A p \in Prices : p \in Nat BY IndexerAssumption
<1>5. CASE EmitListed
  <2>1. PICK l \in Listings, p \in Prices, c \in Currencies :
          /\ Emit(Event("listed", l, p, c, TRUE))
          /\ market' = [market EXCEPT ![l] = [status |-> "active", price |-> p, currency |-> c]]
    BY <1>5, Zenon DEF EmitListed
  <2>2. market' \in Markets BY <2>1, <1>1, <1>4
  <2>3. "listed" \in EventKinds /\ p \in Nat /\ TRUE \in BOOLEAN BY <1>4 DEF EventKinds
  <2>4. /\ Event("listed", l, p, c, TRUE) \in Events
        /\ Event("listed", l, p, c, TRUE).ledger = height + 1
    BY <2>3, <1>2
  <2> QED BY <2>1, <2>2, <2>4, EmitKeepsInvariant
<1>6. CASE EmitPriceUpd
  <2>1. PICK l \in Listings, p \in Prices :
          /\ Emit(Event("price_upd", l, p, market[l].currency, TRUE))
          /\ market' = [market EXCEPT ![l].price = p]
    BY <1>6, Zenon DEF EmitPriceUpd
  <2>2. market' \in Markets BY <2>1, <1>1, <1>4
  <2>3. "price_upd" \in EventKinds /\ p \in Nat /\ TRUE \in BOOLEAN BY <1>4 DEF EventKinds
  <2>4. /\ Event("price_upd", l, p, market[l].currency, TRUE) \in Events
        /\ Event("price_upd", l, p, market[l].currency, TRUE).ledger = height + 1
    BY <2>3, <1>2, <1>3
  <2> QED BY <2>1, <2>2, <2>4, EmitKeepsInvariant
<1>7. CASE EmitEnd
  <2>1. PICK l \in Listings, kind \in EndKinds \cup {"offer_acc"} :
          /\ Emit(Event(kind, l, market[l].price, market[l].currency, TRUE))
          /\ market' = [market EXCEPT ![l].status = "ended"]
    BY <1>7, Zenon DEF EmitEnd
  <2>2. market' \in Markets BY <2>1, <1>1
  <2>3. kind \in EventKinds BY DEF EndKinds, EventKinds
  <2>4. TRUE \in BOOLEAN OBVIOUS
  <2>5. /\ Event(kind, l, market[l].price, market[l].currency, TRUE) \in Events
        /\ Event(kind, l, market[l].price, market[l].currency, TRUE).ledger = height + 1
    BY <2>3, <2>4, <1>2, <1>3
  <2> QED BY <2>1, <2>2, <2>5, EmitKeepsInvariant
<1>8. CASE EmitOther
  <2>1. PICK kind \in {"mint", "claim", "sold", "junk"}, l \in Listings :
          /\ Emit(Event(kind, l, 1, market[l].currency, kind # "sold"))
          /\ market' = market
    BY <1>8, Zenon DEF EmitOther
  <2>2. (kind # "sold") \in BOOLEAN /\ 1 \in Nat OBVIOUS
  <2>4. kind \in EventKinds BY DEF EventKinds, EndKinds
  <2>3. /\ Event(kind, l, 1, market[l].currency, kind # "sold") \in Events
        /\ Event(kind, l, 1, market[l].currency, kind # "sold").ledger = height + 1
    BY <2>2, <2>4, <1>2, <1>3
  <2> QED BY <2>1, <2>3, <1>1, EmitKeepsInvariant
<1>9. CASE CloseLedger
  <2>1. height' = height + 1
        /\ UNCHANGED <<chain, market, rows, checkpoint, derived, version, pc, aborted, start, batch,
                       next, latest, succeeded, faults, origin, orphaned>>
    BY <1>9 DEF CloseLedger, dbVars, cycleVars
  <2>2. TypeOK' BY <2>1 DEF TypeOK
  <2>3. ChainOK'
    <3>1. \A i \in Ids : chain[i].ledger <= height + 1 + 1 BY DEF ChainOK
    <3> QED BY <3>1, <2>1 DEF ChainOK, Ids
  <2>4. CycleOK'
    <3>1. latest <= height + 1 /\ (checkpoint # None => checkpoint <= height + 1)
      BY DEF CycleOK
    <3> QED BY <3>1, <2>1 DEF CycleOK, Ids, Relevant, Decodable
  <2>5. Covered' BY <2>1 DEF Covered, Promised, Relevant, Decodable
  <2> QED BY <2>2, <2>3, <2>4, <2>5
<1> QED BY <1>5, <1>6, <1>7, <1>8, <1>9

---------------------------------------------------------------------------
(* The process moves, and the chain does not.                              *)

(* A step that ends a cycle, or is outside one, leaves only the checkpoint  *)
(* to account for.                                                          *)
LEMMA OutsideKeepsInvariant ==
  ASSUME IInv, UNCHANGED chainVars, UNCHANGED <<rows, checkpoint, origin>>, TypeOK',
         latest' = 0, pc' \notin {"asking", "paging", "fetched", "inserted"}
  PROVE  IInv'
<1>1. ChainOK' BY DEF IInv, ChainOK, chainVars, Ids
<1>2. Covered' BY DEF IInv, Covered, Promised, Relevant, Decodable, chainVars
<1>3. height \in Nat BY DEF IInv, TypeOK
<1>4. CycleOK' BY <1>3 DEF IInv, CycleOK, chainVars
<1> QED BY <1>1, <1>2, <1>4 DEF IInv

(* A cycle begins after the checkpoint, or where a cold start begins.       *)
LEMMA BeginKeepsInvariant ==
  ASSUME IInv, UNCHANGED <<chainVars, dbVars, aborted, faults>>, NEW ledger \in Nat,
         Begin(ledger), checkpoint # None => ledger = checkpoint + 1
  PROVE  IInv'
<1> USE TypeParts DEF IInv
<1>1. /\ start' = ledger /\ batch' = {} /\ next' = None /\ latest' = 0 /\ pc' = "paging"
      /\ origin' = IF checkpoint = None THEN ledger ELSE origin
      /\ succeeded' = succeeded /\ orphaned' = orphaned
      /\ UNCHANGED <<height, chain, market, rows, checkpoint, version, aborted, faults>>
  BY DEF Begin, chainVars, dbVars
<1>2. TypeOK' BY <1>1 DEF TypeOK
<1>3. ChainOK' BY <1>1 DEF ChainOK, Ids
<1>4. Covered' BY <1>1 DEF Covered, Promised, Relevant, Decodable
<1>5. CycleOK'
  <2>1. origin' # None /\ start' = IF checkpoint = None THEN origin' ELSE checkpoint + 1
    BY <1>1 DEF CycleOK
  <2> QED BY <1>1, <2>1 DEF CycleOK
<1> QED BY <1>2, <1>3, <1>4, <1>5

LEMMA StartPollKeepsInvariant == ASSUME IInv, StartPoll PROVE IInv'
<1> USE TypeParts DEF IInv
<1>1. CASE checkpoint # None
  <2>1. checkpoint + 1 \in Nat BY <1>1
  <2>2. Begin(checkpoint + 1) BY <1>1 DEF StartPoll
  <2> QED BY <1>1, <2>1, <2>2, BeginKeepsInvariant DEF StartPoll
<1>2. CASE checkpoint = None /\ DefaultStart > 0
  <2>1. Begin(DefaultStart) BY <1>2 DEF StartPoll
  <2> QED BY <1>2, <2>1, IndexerAssumption, BeginKeepsInvariant DEF StartPoll
<1>3. CASE checkpoint = None /\ ~(DefaultStart > 0)
  <2>1. pc' = "asking" /\ UNCHANGED <<height, chain, market, rows, checkpoint, derived, version,
          aborted, start, batch, next, latest, succeeded, faults, origin, orphaned>>
    BY <1>3 DEF StartPoll, chainVars, dbVars, cycleVars
  <2> QED BY <1>3, <2>1
          DEF TypeOK, ChainOK, CycleOK, Covered, Ids, Promised, Relevant, Decodable
<1> QED BY <1>1, <1>2, <1>3

LEMMA AnswerOldestKeepsInvariant == ASSUME IInv, AnswerOldest PROVE IInv'
<1>1. checkpoint = None BY DEF AnswerOldest, IInv, CycleOK
<1>2. Oldest \in Nat
  <2>1. height \in Nat /\ Retention \in Nat BY IndexerAssumption DEF IInv, TypeOK
  <2> QED BY <2>1, SMT DEF Oldest
<1> QED BY <1>1, <1>2, BeginKeepsInvariant DEF AnswerOldest

(* A page is in: with a cursor, everything before the cursor is; after the  *)
(* last page, everything up to the ledger it reported.                      *)
LEMMA AnswerPageKeepsInvariant == ASSUME IInv, AnswerPage PROVE IInv'
<1> USE TypeParts DEF IInv
<1>1. /\ batch' = batch \cup Page /\ latest' = height /\ pc = "paging"
      /\ UNCHANGED <<height, chain, market, rows, checkpoint, derived, version, aborted, start,
                     succeeded, faults, origin, orphaned>>
  BY DEF AnswerPage, chainVars, dbVars, CycleOK
<1>2. /\ Page \subseteq Reach /\ Reach \subseteq Ids
      /\ Cardinality(Page) # PageLimit => Page = Reach
      /\ Cardinality(Page) = PageLimit =>
           /\ LastOf(Page) \in Page
           /\ \A i \in Reach : i <= LastOf(Page) => i \in Page
  BY PageIsFirst
<1>3. ChainOK' BY <1>1 DEF ChainOK, Ids
<1>4. Covered' BY <1>1 DEF Covered, Promised, Relevant, Decodable
<1>5. batch' \subseteq 1 .. Len(chain') BY <1>1, <1>2 DEF TypeOK, Ids
<1>6. ASSUME NEW i \in Ids, chain[i].ledger <= height, chain[i].ledger >= start, i \notin batch
      PROVE  i \in Reach
  <2>1. i \in ClosedIds BY <1>6 DEF ClosedIds, Ids
  <2>2. CASE next = None BY <2>1, <2>2, <1>6 DEF Reach
  <2>3. CASE next # None
    <3>1. next \in Nat /\ ~(i < next) BY <2>3, <1>1, <1>6 DEF CycleOK
    <3>2. i >= next BY <3>1, <1>6
    <3> QED BY <2>1, <2>3, <3>2 DEF Reach
  <2> QED BY <2>2, <2>3
<1>7. CASE Cardinality(Page) = PageLimit
  <2> DEFINE n == LastOf(Page)
  <2>1. pc' = "paging" /\ next' = n + 1 BY <1>7 DEF AnswerPage
  <2>2. n \in Page /\ n \in Ids /\ \A i \in Reach : i <= n => i \in Page BY <1>2, <1>7
  <2>3. n \in Nat /\ n + 1 \in 1 .. Len(chain) + 1 /\ n + 1 \in Nat
    BY <2>2, SMT DEF Ids
  <2>4. chain[n].ledger <= height BY <1>2, <2>2 DEF Reach, ClosedIds
  <2> HIDE DEF n
  <2>5. ASSUME NEW i \in Ids, i < n + 1, chain[i].ledger >= start PROVE i \in batch'
    <3>1. i <= n BY <2>3, <2>5
    <3>2. chain[i].ledger <= height
      <4>1. chain[i].ledger <= chain[n].ledger BY <3>1, <2>2 DEF ChainOK
      <4> QED BY <4>1, <2>2, <2>4
    <3>3. i \in batch \/ i \in Reach BY <3>2, <1>6, <2>5
    <3> QED BY <3>1, <3>3, <1>1, <2>2
  <2>6. TypeOK' BY <1>1, <1>5, <2>1, <2>3 DEF TypeOK
  <2>7. CycleOK' BY <1>1, <2>1, <2>3, <2>5 DEF CycleOK, Ids
  <2> QED BY <2>6, <2>7, <1>3, <1>4
<1>8. CASE Cardinality(Page) # PageLimit
  <2>1. pc' = "fetched" /\ next' = next BY <1>8 DEF AnswerPage
  <2>2. \A i \in Ids : chain[i].ledger >= start /\ chain[i].ledger <= height => i \in batch'
    BY <1>1, <1>2, <1>6, <1>8
  <2>3. TypeOK' BY <1>1, <1>5, <2>1 DEF TypeOK
  <2>4. CycleOK' BY <1>1, <2>1, <2>2 DEF CycleOK, Ids
  <2> QED BY <2>3, <2>4, <1>3, <1>4
<1> QED BY <1>7, <1>8

LEMMA InsertBatchKeepsInvariant == ASSUME IInv, InsertBatch PROVE IInv'
<1> USE TypeParts DEF IInv
<1>1. /\ rows' = rows \cup {i \in batch : Relevant(i)} /\ pc = "fetched" /\ pc' = "inserted"
      /\ UNCHANGED <<height, chain, market, checkpoint, version, aborted, start, batch, next,
                     latest, succeeded, faults, origin, orphaned>>
  BY DEF InsertBatch, chainVars, cycleVars
<1>2. TypeOK' BY <1>1 DEF TypeOK
<1>3. ChainOK' BY <1>1 DEF ChainOK, Ids
<1>4. Covered' BY <1>1 DEF Covered, Promised, Relevant, Decodable
<1>5. CycleOK' BY <1>1 DEF CycleOK, Ids, Relevant, Decodable
<1> QED BY <1>2, <1>3, <1>4, <1>5

(* The checkpoint moves to the ledger the last page reported: up to the old *)
(* checkpoint nothing was missing, and from there on the cycle stored all.  *)
LEMMA SaveCheckpointKeepsInvariant == ASSUME IInv, SaveCheckpoint PROVE IInv'
<1> USE TypeParts DEF IInv
<1>1. /\ checkpoint' = IF latest > 0 THEN latest ELSE checkpoint
      /\ pc = "inserted" /\ pc' = "asleep" /\ start' = 0 /\ batch' = {} /\ next' = None
      /\ latest' = 0 /\ succeeded' = TRUE
      /\ UNCHANGED <<height, chain, market, rows, derived, version, aborted, faults, origin, orphaned>>
  BY DEF SaveCheckpoint, EndCycle, chainVars
<1>2. TypeOK' BY <1>1 DEF TypeOK
<1>3. ChainOK' BY <1>1 DEF ChainOK, Ids
<1>4. origin # None /\ start = IF checkpoint = None THEN origin ELSE checkpoint + 1
  BY <1>1 DEF CycleOK
<1>5. CycleOK' BY <1>1, <1>4 DEF CycleOK
<1>6. ASSUME latest > 0, NEW i \in Ids, Relevant(i), chain[i].ledger <= latest,
             chain[i].ledger >= origin
      PROVE  i \in rows
  <2>1. CASE chain[i].ledger >= start BY <2>1, <1>1, <1>6 DEF CycleOK
  <2>2. CASE ~(chain[i].ledger >= start)
    <3>1. checkpoint # None /\ start = checkpoint + 1 BY <2>2, <1>4, <1>6
    <3>2. chain[i].ledger <= checkpoint BY <2>2, <3>1
    <3> QED BY <3>1, <3>2, <1>4, <1>6 DEF Covered, Promised, Ids
  <2> QED BY <2>1, <2>2
<1>7. Covered'
  <2>1. CASE latest > 0
    BY <2>1, <1>1, <1>6 DEF Covered, Promised, Relevant, Decodable, Ids
  <2>2. CASE ~(latest > 0)
    BY <2>2, <1>1 DEF Covered, Promised, Relevant, Decodable
  <2> QED BY <2>1, <2>2
<1> QED BY <1>2, <1>3, <1>5, <1>7

LEMMA OtherStepsKeepInvariant ==
  ASSUME IInv, Boot \/ RefusePoll \/ FailPoll \/ Wake \/ Signal \/ Stop \/ Crash
  PROVE  IInv'
<1> USE TypeParts
<1>1. faults + 1 \in Nat /\ 0 \in Nat BY DEF IInv, TypeOK
<1>2. CASE RefusePoll \/ FailPoll \/ Stop \/ Crash
  <2>1. UNCHANGED <<chainVars, dbVars, origin>> /\ pc' \in {"asleep", "down"}
        /\ faults' \in {faults, faults + 1} /\ aborted' \in {aborted, FALSE} /\ EndCycle(FALSE)
    BY <1>2 DEF RefusePoll, FailPoll, Stop, Crash
  <2>2. orphaned' \in BOOLEAN BY <1>2, Zenon DEF RefusePoll, FailPoll, Stop, Crash, IInv, TypeOK
  <2>4. TypeOK' BY <2>1, <2>2, <1>1 DEF IInv, TypeOK, EndCycle, chainVars, dbVars
  <2>3. pc' \notin {"asking", "paging", "fetched", "inserted"} BY <2>1
  <2> QED BY <2>1, <2>3, <2>4, OutsideKeepsInvariant DEF dbVars, EndCycle
<1>3. CASE Boot \/ Wake
  <2>1. UNCHANGED <<height, chain, market, rows, checkpoint, origin, start, batch, next, latest,
                    succeeded, faults, orphaned>>
        /\ pc' = "ready" /\ aborted' \in {aborted, FALSE} /\ version' \in {version, "2"}
    BY <1>3 DEF Boot, Wake, chainVars, dbVars, cycleVars
  <2> QED BY <2>1
          DEF IInv, TypeOK, ChainOK, CycleOK, Covered, Ids, Promised, Relevant, Decodable
<1>4. CASE Signal
  <2>1. UNCHANGED <<height, chain, market, rows, checkpoint, derived, version, origin, pc, start,
                    batch, next, latest, succeeded, orphaned>>
        /\ aborted' = TRUE /\ faults' = faults + 1
    BY <1>4 DEF Signal, chainVars, dbVars, cycleVars
  <2> QED BY <2>1, <1>1
          DEF IInv, TypeOK, ChainOK, CycleOK, Covered, Ids, Promised, Relevant, Decodable
<1> QED BY <1>2, <1>3, <1>4

---------------------------------------------------------------------------
LEMMA InitInvariant == Init => IInv
<1> SUFFICES ASSUME Init PROVE IInv OBVIOUS
<1> USE IndexerAssumption
<1>1. /\ pc = "down" /\ aborted = FALSE /\ faults = 0 /\ start = 0 /\ batch = {}
      /\ next = None /\ latest = 0 /\ succeeded = FALSE /\ orphaned = FALSE
  BY DEF Init
<1>2. CASE Fresh
  <2>1. /\ height = 0 /\ chain = << >> /\ rows = {} /\ checkpoint = None /\ origin = None
        /\ version \in {"none", "2"} /\ market = [l \in Listings |-> Absent]
    BY <1>2 DEF Fresh
  <2>2. Absent \in [status : {"absent", "active", "ended"}, price : Nat,
                    currency : Currencies \cup {None}]
    BY DEF Absent
  <2>3. chain \in Seq(Events) /\ Len(chain) = 0 BY <2>1
  <2>4. TypeOK BY <1>1, <2>1, <2>2, <2>3 DEF TypeOK
  <2>5. Ids = {} BY <2>3 DEF Ids
  <2>6. ChainOK BY <2>5 DEF ChainOK
  <2>7. CycleOK BY <1>1, <2>1 DEF CycleOK
  <2>8. Covered BY <2>1 DEF Covered
  <2> QED BY <2>4, <2>6, <2>7, <2>8 DEF IInv
<1>3. CASE Legacy
  <2> DEFINE Old(l, p, c) ==
        LET listed == [status |-> "active", price |-> p, currency |-> c] IN
        /\ MaxLedger > 0 /\ MaxEvents > 1 /\ height = 1
        /\ chain = << [Event("listed", l, p, c, TRUE) EXCEPT !.ledger = 1],
                      [Event("sold", l, p, c, TRUE) EXCEPT !.ledger = 1] >>
        /\ market = [k \in Listings |-> IF k = l THEN [listed EXCEPT !.status = "ended"]
                                        ELSE Absent]
        /\ rows = {1, 2} /\ checkpoint = 1 /\ version = "1" /\ origin = 1
        /\ derived = [NothingDerived EXCEPT !.listings[l] = listed]
  <2>0. PICK l \in Listings, p \in Prices, c \in Currencies : Old(l, p, c)
    BY <1>3, Zenon DEF Legacy
  <2>1. /\ height = 1
        /\ chain = << [Event("listed", l, p, c, TRUE) EXCEPT !.ledger = 1],
                      [Event("sold", l, p, c, TRUE) EXCEPT !.ledger = 1] >>
        /\ market = [k \in Listings |->
                       IF k = l THEN [[status |-> "active", price |-> p, currency |-> c]
                                        EXCEPT !.status = "ended"]
                       ELSE Absent]
        /\ rows = {1, 2} /\ checkpoint = 1 /\ version = "1" /\ origin = 1
    BY <2>0
  <2> DEFINE e == [Event("listed", l, p, c, TRUE) EXCEPT !.ledger = 1]
             f == [Event("sold", l, p, c, TRUE) EXCEPT !.ledger = 1]
             m == [status |-> "active", price |-> p, currency |-> c]
  <2>2. p \in Nat /\ "listed" \in EventKinds /\ "sold" \in EventKinds
    BY DEF EventKinds, EndKinds
  <2>3. e \in Events /\ f \in Events /\ e.ledger = 1 /\ f.ledger = 1
    <3>1. 1 \in Nat OBVIOUS
    <3> QED BY <2>2, <3>1, Zenon DEF Event, Events
  <2>4. [m EXCEPT !.status = "ended"] \in [status : {"absent", "active", "ended"}, price : Nat,
                                           currency : Currencies \cup {None}]
        /\ Absent \in [status : {"absent", "active", "ended"}, price : Nat,
                       currency : Currencies \cup {None}]
    BY <2>2 DEF Absent
  <2> HIDE DEF e, f, m
  <2>5. chain = <<e, f>> BY <2>1 DEF e, f
  <2>6. chain \in Seq(Events) /\ Len(chain) = 2 /\ chain[1] = e /\ chain[2] = f
    BY <2>3, <2>5
  <2>7. \A i : i \in Ids <=> i = 1 \/ i = 2 BY <2>6, SMT DEF Ids
  <2>8. market \in [Listings -> [status : {"absent", "active", "ended"}, price : Nat,
                                 currency : Currencies \cup {None}]]
    BY <2>1, <2>4 DEF m
  <2>9. rows = Ids BY <2>1, <2>7
  <2>10. TypeOK BY <1>1, <2>1, <2>6, <2>8, <2>9 DEF TypeOK, Ids
  <2>11. ChainOK
    <3>1. \A i \in Ids : chain[i].ledger = 1 BY <2>3, <2>6, <2>7
    <3>2. height = 1 BY <2>1
    <3> QED BY <3>1, <3>2 DEF ChainOK
  <2>12. CycleOK BY <1>1, <2>1 DEF CycleOK
  <2>13. Covered BY <2>9 DEF Covered, Promised, Ids
  <2> QED BY <2>10, <2>11, <2>12, <2>13 DEF IInv
<1> QED BY <1>2, <1>3 DEF Init

(* Every step keeps the invariant.                                          *)
LEMMA NextInvariant == IInv /\ [Next]_vars => IInv'
<1> SUFFICES ASSUME IInv, [Next]_vars PROVE IInv' OBVIOUS
<1>1. CASE Chain BY <1>1, ChainKeepsInvariant DEF Chain
<1>2. CASE StartPoll BY <1>2, StartPollKeepsInvariant
<1>3. CASE AnswerOldest BY <1>3, AnswerOldestKeepsInvariant
<1>4. CASE AnswerPage BY <1>4, AnswerPageKeepsInvariant
<1>5. CASE InsertBatch BY <1>5, InsertBatchKeepsInvariant
<1>6. CASE SaveCheckpoint BY <1>6, SaveCheckpointKeepsInvariant
<1>7. CASE Boot \/ RefusePoll \/ FailPoll \/ Wake \/ Signal \/ Stop \/ Crash
  BY <1>7, OtherStepsKeepInvariant
<1>8. CASE UNCHANGED vars
  BY <1>8 DEF vars, chainVars, dbVars, cycleVars, IInv, TypeOK, ChainOK, CycleOK, Covered, Ids,
              Promised, Relevant, Decodable
<1> QED BY <1>1, <1>2, <1>3, <1>4, <1>5, <1>6, <1>7, <1>8 DEF Next, Process, Node

LEMMA InvariantHolds == Spec => []IInv
BY InitInvariant, NextInvariant, PTL DEF Spec

(* Every reachable state of the indexer, its node and its database is       *)
(* well-formed.                                                             *)
THEOREM TypeCorrect == Spec => []TypeOK
<1>1. IInv => TypeOK BY DEF IInv
<1> QED BY InvariantHolds, <1>1, PTL

---------------------------------------------------------------------------
(* Replaying.                                                              *)

(* What is derived after each id of a chain, from the ids below.           *)
IsReplay(ch, ids, d, n, g) ==
  g = [i \in 0 .. n |->
         IF i = 0 THEN d
         ELSE IF i \in ids THEN ApplyDerivedState(ch[i], g[i - 1])
         ELSE g[i - 1]]

ReplayOf(ch, ids, d, n) == (CHOOSE g : IsReplay(ch, ids, d, n, g))[n]

LEMMA ReplayAt ==
  ASSUME NEW ch, NEW ids, NEW d, NEW n \in Nat, NEW g, IsReplay(ch, ids, d, n, g)
  PROVE  /\ g[0] = d
         /\ \A i \in 1 .. n :
              g[i] = IF i \in ids THEN ApplyDerivedState(ch[i], g[i - 1]) ELSE g[i - 1]
<1>1. \A i \in 0 .. n :
        g[i] = IF i = 0 THEN d
               ELSE IF i \in ids THEN ApplyDerivedState(ch[i], g[i - 1])
               ELSE g[i - 1]
  BY Zenon DEF IsReplay
<1>2. 0 \in 0 .. n /\ \A i \in 1 .. n : i \in 0 .. n /\ i # 0
  OBVIOUS
<1> QED BY <1>1, <1>2

(* A replay of n ids goes on to one of n + 1.                              *)
LEMMA ReplayExtends ==
  ASSUME NEW ch, NEW ids, NEW d, NEW n \in Nat, NEW g, IsReplay(ch, ids, d, n, g)
  PROVE  \E h : IsReplay(ch, ids, d, n + 1, h)
<1> DEFINE k == n + 1
           last == IF k \in ids THEN ApplyDerivedState(ch[k], g[n]) ELSE g[n]
           h == [i \in 0 .. k |-> IF i = k THEN last ELSE g[i]]
           Step(f, i) == IF i = 0 THEN d
                         ELSE IF i \in ids THEN ApplyDerivedState(ch[i], f[i - 1])
                         ELSE f[i - 1]
<1>1. \A i \in 0 .. n : h[i] = g[i]
  OBVIOUS
<1>2. ASSUME NEW i \in 0 .. k PROVE h[i] = Step(h, i)
  <2>1. CASE i = k
    <3>1. i # 0 /\ i - 1 = n /\ n \in 0 .. n /\ k \in 0 .. k BY <2>1
    <3>2. h[k] = last /\ h[n] = g[n] BY <3>1, <1>1
    <3> HIDE DEF h
    <3>3. Step(h, i) = IF k \in ids THEN ApplyDerivedState(ch[k], h[n]) ELSE h[n]
      BY <2>1, <3>1
    <3> QED BY <2>1, <3>2, <3>3
  <2>2. CASE i # k
    <3>1. i \in 0 .. n /\ (i # 0 => i \in 1 .. n /\ i - 1 \in 0 .. n) BY <2>2
    <3>2. h[i] = g[i] /\ (i # 0 => h[i - 1] = g[i - 1]) BY <1>1, <3>1
    <3>3. g[0] = d /\ \A j \in 1 .. n :
            g[j] = IF j \in ids THEN ApplyDerivedState(ch[j], g[j - 1]) ELSE g[j - 1]
      BY ReplayAt
    <3> HIDE DEF h
    <3>4. CASE i = 0
      BY <3>2, <3>3, <3>4
    <3>5. CASE i # 0
      <4>1. g[i] = IF i \in ids THEN ApplyDerivedState(ch[i], g[i - 1]) ELSE g[i - 1]
        BY <3>1, <3>3, <3>5
      <4>2. h[i] = g[i] /\ h[i - 1] = g[i - 1]
        BY <3>2, <3>5
      <4> QED BY <3>5, <4>1, <4>2
    <3> QED BY <3>4, <3>5
  <2> QED BY <2>1, <2>2
<1>3. h = [i \in 0 .. k |-> Step(h, i)]
  <2>1. h = [i \in 0 .. k |-> h[i]] OBVIOUS
  <2> HIDE DEF h, Step
  <2> QED BY <1>2, <2>1
<1> HIDE DEF h
<1>4. IsReplay(ch, ids, d, k, h) BY <1>3 DEF IsReplay
<1> QED BY <1>4

LEMMA ReplayExists ==
  ASSUME NEW ch, NEW ids, NEW d, NEW n \in Nat
  PROVE  \E g : IsReplay(ch, ids, d, n, g)
<1> DEFINE G == {k \in Nat : \E g : IsReplay(ch, ids, d, k, g)}
<1>1. 0 \in G
  <2>1. IsReplay(ch, ids, d, 0, [i \in 0 .. 0 |-> d]) BY DEF IsReplay
  <2> QED BY <2>1
<1>2. \A k \in Nat : k \in G => k + 1 \in G BY ReplayExtends
<1> HIDE DEF G
<1>3. Nat \subseteq G BY <1>1, <1>2, NatSetInduction
<1> QED BY <1>3 DEF G

(* A replay takes the ids one at a time, in their order.                   *)
LEMMA ReplayStarts == ASSUME NEW ch, NEW ids, NEW d PROVE ReplayOf(ch, ids, d, 0) = d
<1> DEFINE g == CHOOSE g : IsReplay(ch, ids, d, 0, g)
<1>1. IsReplay(ch, ids, d, 0, g) BY ReplayExists, Zenon
<1>2. ReplayOf(ch, ids, d, 0) = g[0] BY Zenon DEF ReplayOf
<1> HIDE DEF g
<1> QED BY <1>1, <1>2, ReplayAt

LEMMA ReplayGoesOn ==
  ASSUME NEW ch, NEW ids, NEW d, NEW n \in Nat
  PROVE  ReplayOf(ch, ids, d, n + 1) =
           IF n + 1 \in ids THEN ApplyDerivedState(ch[n + 1], ReplayOf(ch, ids, d, n))
           ELSE ReplayOf(ch, ids, d, n)
<1> DEFINE f(k) == CHOOSE g : IsReplay(ch, ids, d, k, g)
<1>1. \A k \in Nat : IsReplay(ch, ids, d, k, f(k))
  BY ReplayExists, Zenon
<1>2. \A k \in Nat : ReplayOf(ch, ids, d, k) = f(k)[k]
  BY Zenon DEF ReplayOf
<1> HIDE DEF f
<1>3. \A i \in 0 .. n : f(n + 1)[i] = f(n)[i]
  <2> DEFINE g == f(n)
             h == f(n + 1)
             G == {i \in Nat : i <= n => h[i] = g[i]}
  <2>1. IsReplay(ch, ids, d, n, g) /\ IsReplay(ch, ids, d, n + 1, h) BY <1>1
  <2> HIDE DEF g, h
  <2>2. 0 \in G BY <2>1, ReplayAt
  <2>3. ASSUME NEW i \in Nat, i \in G PROVE i + 1 \in G
    <3> SUFFICES ASSUME i + 1 <= n PROVE h[i + 1] = g[i + 1] OBVIOUS
    <3>1. i + 1 \in 1 .. n /\ i + 1 \in 1 .. n + 1 /\ (i + 1) - 1 = i OBVIOUS
    <3>2. h[i] = g[i] BY <2>3
    <3>3. g[i + 1] = IF i + 1 \in ids THEN ApplyDerivedState(ch[i + 1], g[i]) ELSE g[i]
      BY <2>1, <3>1, ReplayAt
    <3>4. h[i + 1] = IF i + 1 \in ids THEN ApplyDerivedState(ch[i + 1], h[i]) ELSE h[i]
      <4>1. \A j \in 1 .. n + 1 :
              h[j] = IF j \in ids THEN ApplyDerivedState(ch[j], h[j - 1]) ELSE h[j - 1]
        BY <2>1, ReplayAt
      <4> QED BY <4>1, <3>1
    <3> QED BY <3>2, <3>3, <3>4
  <2> HIDE DEF G
  <2>4. Nat \subseteq G BY <2>2, <2>3, NatSetInduction
  <2>5. \A i \in 0 .. n : h[i] = g[i] BY <2>4 DEF G
  <2> QED BY <2>5 DEF g, h
<1> DEFINE h == f(n + 1)
<1>4. \A i \in 1 .. n + 1 :
        h[i] = IF i \in ids THEN ApplyDerivedState(ch[i], h[i - 1]) ELSE h[i - 1]
  BY <1>1, ReplayAt
<1>5. h[n] = f(n)[n] BY <1>3
<1>6. n + 1 \in 1 .. n + 1 /\ (n + 1) - 1 = n OBVIOUS
<1> HIDE DEF h
<1>7. h[n + 1] = IF n + 1 \in ids THEN ApplyDerivedState(ch[n + 1], h[n]) ELSE h[n]
  BY <1>4, <1>6
<1> QED BY <1>2, <1>5, <1>7 DEF h

(* The definition the database's constructor and insertBatch are modelled   *)
(* by is this replay, of the whole chain.                                   *)
LEMMA ReplayIs ==
  ASSUME NEW ids, NEW d
  PROVE  Replay(ids, d) = ReplayOf(chain, ids, d, Len(chain))
BY Zenon DEF Replay, ReplayOf, IsReplay

(* Ids that are not replayed change nothing.                               *)
LEMMA ReplayIdle ==
  ASSUME NEW ch, NEW ids, NEW d, NEW m \in Nat, NEW n \in Nat, m <= n,
         \A i \in Nat : m < i /\ i <= n => i \notin ids
  PROVE  ReplayOf(ch, ids, d, n) = ReplayOf(ch, ids, d, m)
<1> DEFINE R(k) == ReplayOf(ch, ids, d, k)
           G == {k \in Nat : m <= k /\ k <= n => R(k) = R(m)}
<1>1. \A k \in Nat : k + 1 \notin ids => R(k + 1) = R(k) BY ReplayStarts, ReplayGoesOn
<1> HIDE DEF R
<1>2. 0 \in G
  <2>1. m <= 0 => m = 0 OBVIOUS
  <2> QED BY <2>1
<1>3. ASSUME NEW k \in Nat, k \in G PROVE k + 1 \in G
  <2> SUFFICES ASSUME m <= k + 1, k + 1 <= n PROVE R(k + 1) = R(m) OBVIOUS
  <2>1. CASE m = k + 1 BY <2>1
  <2>2. CASE m # k + 1
    <3>1. m <= k /\ k <= n BY <2>2
    <3>2. R(k) = R(m) BY <1>3, <3>1
    <3>3. k + 1 \notin ids BY <3>1
    <3> QED BY <1>1, <3>2, <3>3
  <2> QED BY <2>1, <2>2
<1> HIDE DEF G
<1>4. n \in G BY <1>2, <1>3, NatSetInduction
<1>5. R(n) = R(m) BY <1>4 DEF G
<1> QED BY <1>5 DEF R

(* Two chains that agree on what is replayed give the same.                *)
LEMMA ReplayAgrees ==
  ASSUME NEW ch, NEW dh, NEW ids, NEW d, NEW n \in Nat,
         \A i \in ids : ch[i] = dh[i]
  PROVE  ReplayOf(ch, ids, d, n) = ReplayOf(dh, ids, d, n)
<1> DEFINE G == {k \in Nat : ReplayOf(ch, ids, d, k) = ReplayOf(dh, ids, d, k)}
<1>1. 0 \in G BY ReplayStarts, ReplayGoesOn
<1>2. ASSUME NEW k \in Nat, k \in G PROVE k + 1 \in G
  <2>1. ReplayOf(ch, ids, d, k) = ReplayOf(dh, ids, d, k) BY <1>2
  <2>2. ReplayOf(ch, ids, d, k + 1) =
          IF k + 1 \in ids THEN ApplyDerivedState(ch[k + 1], ReplayOf(ch, ids, d, k))
          ELSE ReplayOf(ch, ids, d, k)
    BY ReplayStarts, ReplayGoesOn
  <2>3. ReplayOf(dh, ids, d, k + 1) =
          IF k + 1 \in ids THEN ApplyDerivedState(dh[k + 1], ReplayOf(dh, ids, d, k))
          ELSE ReplayOf(dh, ids, d, k)
    BY ReplayStarts, ReplayGoesOn
  <2>4. ReplayOf(ch, ids, d, k + 1) = ReplayOf(dh, ids, d, k + 1)
    BY <2>1, <2>2, <2>3
  <2> QED BY <2>4
<1> HIDE DEF G
<1>3. n \in G BY <1>1, <1>2, NatSetInduction
<1> QED BY <1>3 DEF G

(* What a batch adds to the derived state of the rows before it is what one *)
(* replay of all the rows gives.                                            *)
LEMMA ReplayAppends ==
  ASSUME NEW ch, NEW A \in SUBSET Nat, NEW C \in SUBSET Nat, NEW d, NEW n \in Nat,
         \A a \in A, c \in C : a < c
  PROVE  ReplayOf(ch, A \cup C, d, n) = ReplayOf(ch, C, ReplayOf(ch, A, d, n), n)
<1> DEFINE R(k) == ReplayOf(ch, A \cup C, d, k)
           X(k) == ReplayOf(ch, A, d, k)
           Y(x, k) == ReplayOf(ch, C, x, k)
           G == {k \in Nat : R(k) = Y(X(k), k)}
<1>1. /\ R(0) = d
      /\ \A k \in Nat : R(k + 1) = IF k + 1 \in A \cup C
                                   THEN ApplyDerivedState(ch[k + 1], R(k)) ELSE R(k)
  BY ReplayStarts, ReplayGoesOn
<1>2. /\ X(0) = d
      /\ \A k \in Nat : X(k + 1) = IF k + 1 \in A
                                   THEN ApplyDerivedState(ch[k + 1], X(k)) ELSE X(k)
  BY ReplayStarts, ReplayGoesOn
<1>3. \A x : /\ Y(x, 0) = x
            /\ \A k \in Nat : Y(x, k + 1) = IF k + 1 \in C
                                   THEN ApplyDerivedState(ch[k + 1], Y(x, k)) ELSE Y(x, k)
  BY ReplayStarts, ReplayGoesOn
<1>4. ASSUME NEW a \in A, NEW k \in Nat, k <= a, NEW x PROVE Y(x, k) = x
  <2>1. \A i \in Nat : 0 < i /\ i <= k => i \notin C
    <3> SUFFICES ASSUME NEW i \in C, i <= k PROVE FALSE OBVIOUS
    <3>1. a < i /\ i \in Nat /\ a \in Nat OBVIOUS
    <3> QED BY <1>4, <3>1
  <2>2. ReplayOf(ch, C, x, k) = ReplayOf(ch, C, x, 0) BY <2>1, ReplayIdle
  <2> QED BY <2>2, <1>3
<1> HIDE DEF R, X, Y
<1>5. 0 \in G BY <1>1, <1>2, <1>3
<1>6. ASSUME NEW k \in Nat, k \in G PROVE k + 1 \in G
  <2>1. R(k) = Y(X(k), k) BY <1>6
  <2>2. CASE k + 1 \in A
    <3>1. Y(X(k), k) = X(k) /\ Y(X(k + 1), k + 1) = X(k + 1) BY <2>2, <1>4
    <3>2. R(k + 1) = ApplyDerivedState(ch[k + 1], R(k)) BY <1>1, <2>2
    <3>3. X(k + 1) = ApplyDerivedState(ch[k + 1], X(k)) BY <1>2, <2>2
    <3>4. R(k + 1) = Y(X(k + 1), k + 1) BY <2>1, <3>1, <3>2, <3>3
    <3> QED BY <3>4
  <2>3. CASE k + 1 \notin A
    <3>1. X(k + 1) = X(k) BY <1>2, <2>3
    <3>2. R(k + 1) = IF k + 1 \in C THEN ApplyDerivedState(ch[k + 1], R(k)) ELSE R(k)
      BY <1>1, <2>3
    <3>3. Y(X(k), k + 1) = IF k + 1 \in C
                           THEN ApplyDerivedState(ch[k + 1], Y(X(k), k)) ELSE Y(X(k), k)
      BY <1>3
    <3>4. R(k + 1) = Y(X(k + 1), k + 1) BY <2>1, <3>1, <3>2, <3>3
    <3> QED BY <3>4
  <2> QED BY <2>2, <2>3
<1> HIDE DEF G
<1>7. n \in G BY <1>5, <1>6, NatSetInduction
<1>8. R(n) = Y(X(n), n) BY <1>7 DEF G
<1> QED BY <1>8 DEF R, X, Y

---------------------------------------------------------------------------
(* Ordering.                                                               *)

(* Each part of the ordering of ids, likewise.                             *)
IsOrder(ids, n, g) ==
  g = [i \in 0 .. n |->
         IF i = 0 THEN << >>
         ELSE IF i \in ids THEN Append(g[i - 1], i)
         ELSE g[i - 1]]

OrderOf(ids, n) == (CHOOSE g : IsOrder(ids, n, g))[n]

LEMMA OrderAt ==
  ASSUME NEW ids, NEW n \in Nat, NEW g, IsOrder(ids, n, g)
  PROVE  /\ g[0] = << >>
         /\ \A i \in 1 .. n :
              g[i] = IF i \in ids THEN Append(g[i - 1], i) ELSE g[i - 1]
<1>1. \A i \in 0 .. n :
        g[i] = IF i = 0 THEN << >>
               ELSE IF i \in ids THEN Append(g[i - 1], i)
               ELSE g[i - 1]
  BY Zenon DEF IsOrder
<1>2. 0 \in 0 .. n /\ \A i \in 1 .. n : i \in 0 .. n /\ i # 0
  OBVIOUS
<1> QED BY <1>1, <1>2

LEMMA OrderExtends ==
  ASSUME NEW ids, NEW n \in Nat, NEW g, IsOrder(ids, n, g)
  PROVE  \E h : IsOrder(ids, n + 1, h)
<1> DEFINE k == n + 1
           last == IF k \in ids THEN Append(g[n], k) ELSE g[n]
           h == [i \in 0 .. k |-> IF i = k THEN last ELSE g[i]]
           Step(f, i) == IF i = 0 THEN << >>
                         ELSE IF i \in ids THEN Append(f[i - 1], i)
                         ELSE f[i - 1]
<1>1. \A i \in 0 .. n : h[i] = g[i]
  OBVIOUS
<1>2. ASSUME NEW i \in 0 .. k PROVE h[i] = Step(h, i)
  <2>1. CASE i = k
    <3>1. i # 0 /\ i - 1 = n /\ n \in 0 .. n /\ k \in 0 .. k BY <2>1
    <3>2. h[k] = last /\ h[n] = g[n] BY <3>1, <1>1
    <3> HIDE DEF h
    <3>3. Step(h, i) = IF k \in ids THEN Append(h[n], k) ELSE h[n]
      BY <2>1, <3>1
    <3> QED BY <2>1, <3>2, <3>3
  <2>2. CASE i # k
    <3>1. i \in 0 .. n /\ (i # 0 => i \in 1 .. n /\ i - 1 \in 0 .. n) BY <2>2
    <3>2. h[i] = g[i] /\ (i # 0 => h[i - 1] = g[i - 1]) BY <1>1, <3>1
    <3>3. g[0] = << >> /\ \A j \in 1 .. n :
            g[j] = IF j \in ids THEN Append(g[j - 1], j) ELSE g[j - 1]
      BY OrderAt
    <3> HIDE DEF h
    <3>4. CASE i = 0
      BY <3>2, <3>3, <3>4
    <3>5. CASE i # 0
      <4>1. g[i] = IF i \in ids THEN Append(g[i - 1], i) ELSE g[i - 1]
        BY <3>1, <3>3, <3>5
      <4>2. h[i] = g[i] /\ h[i - 1] = g[i - 1]
        BY <3>2, <3>5
      <4> QED BY <3>5, <4>1, <4>2
    <3> QED BY <3>4, <3>5
  <2> QED BY <2>1, <2>2
<1>3. h = [i \in 0 .. k |-> Step(h, i)]
  <2>1. h = [i \in 0 .. k |-> h[i]] OBVIOUS
  <2> HIDE DEF h, Step
  <2> QED BY <1>2, <2>1
<1> HIDE DEF h
<1>4. IsOrder(ids, k, h) BY <1>3 DEF IsOrder
<1> QED BY <1>4

LEMMA OrderExists ==
  ASSUME NEW ids, NEW n \in Nat
  PROVE  \E g : IsOrder(ids, n, g)
<1> DEFINE G == {k \in Nat : \E g : IsOrder(ids, k, g)}
<1>1. 0 \in G
  <2>1. IsOrder(ids, 0, [i \in 0 .. 0 |-> << >>]) BY DEF IsOrder
  <2> QED BY <2>1
<1>2. \A k \in Nat : k \in G => k + 1 \in G BY OrderExtends
<1> HIDE DEF G
<1>3. Nat \subseteq G BY <1>1, <1>2, NatSetInduction
<1> QED BY <1>3 DEF G

LEMMA OrderStarts == ASSUME NEW ids PROVE OrderOf(ids, 0) = << >>
<1> DEFINE g == CHOOSE g : IsOrder(ids, 0, g)
<1>1. IsOrder(ids, 0, g) BY OrderExists, Zenon
<1>2. OrderOf(ids, 0) = g[0] BY Zenon DEF OrderOf
<1> HIDE DEF g
<1> QED BY <1>1, <1>2, OrderAt

LEMMA OrderGoesOn ==
  ASSUME NEW ids, NEW n \in Nat
  PROVE  OrderOf(ids, n + 1) =
           IF n + 1 \in ids THEN Append(OrderOf(ids, n), n + 1) ELSE OrderOf(ids, n)
<1> DEFINE f(k) == CHOOSE g : IsOrder(ids, k, g)
<1>1. \A k \in Nat : IsOrder(ids, k, f(k))
  BY OrderExists, Zenon
<1>2. \A k \in Nat : OrderOf(ids, k) = f(k)[k]
  BY Zenon DEF OrderOf
<1> HIDE DEF f
<1>3. \A i \in 0 .. n : f(n + 1)[i] = f(n)[i]
  <2> DEFINE g == f(n)
             h == f(n + 1)
             G == {i \in Nat : i <= n => h[i] = g[i]}
  <2>1. IsOrder(ids, n, g) /\ IsOrder(ids, n + 1, h) BY <1>1
  <2> HIDE DEF g, h
  <2>2. 0 \in G
    <3>1. g[0] = << >> BY <2>1, OrderAt
    <3>2. n + 1 \in Nat OBVIOUS
    <3>3. h[0] = << >> BY <2>1, <3>2, OrderAt
    <3> QED BY <3>1, <3>3
  <2>3. ASSUME NEW i \in Nat, i \in G PROVE i + 1 \in G
    <3> SUFFICES ASSUME i + 1 <= n PROVE h[i + 1] = g[i + 1] OBVIOUS
    <3>1. i + 1 \in 1 .. n /\ i + 1 \in 1 .. n + 1 /\ (i + 1) - 1 = i OBVIOUS
    <3>2. h[i] = g[i] BY <2>3
    <3>3. g[i + 1] = IF i + 1 \in ids THEN Append(g[i], i + 1) ELSE g[i]
      BY <2>1, <3>1, OrderAt
    <3>4. h[i + 1] = IF i + 1 \in ids THEN Append(h[i], i + 1) ELSE h[i]
      <4>1. \A j \in 1 .. n + 1 :
              h[j] = IF j \in ids THEN Append(h[j - 1], j) ELSE h[j - 1]
        BY <2>1, OrderAt
      <4> QED BY <4>1, <3>1
    <3> QED BY <3>2, <3>3, <3>4
  <2> HIDE DEF G
  <2>4. Nat \subseteq G BY <2>2, <2>3, NatSetInduction
  <2>5. \A i \in 0 .. n : h[i] = g[i] BY <2>4 DEF G
  <2> QED BY <2>5 DEF g, h
<1> DEFINE h == f(n + 1)
<1>4. \A i \in 1 .. n + 1 :
        h[i] = IF i \in ids THEN Append(h[i - 1], i) ELSE h[i - 1]
  BY <1>1, OrderAt
<1>5. h[n] = f(n)[n] BY <1>3
<1>6. n + 1 \in 1 .. n + 1 /\ (n + 1) - 1 = n OBVIOUS
<1> HIDE DEF h
<1>7. h[n + 1] = IF n + 1 \in ids THEN Append(h[n], n + 1) ELSE h[n]
  BY <1>4, <1>6
<1> QED BY <1>2, <1>5, <1>7 DEF h

LEMMA InOrderIs ==
  ASSUME NEW ids
  PROVE  InOrder(ids) = OrderOf(ids, Len(chain))
BY Zenon DEF InOrder, OrderOf, IsOrder

LEMMA OrderIdle ==
  ASSUME NEW ids, NEW m \in Nat, NEW n \in Nat, m <= n,
         \A i \in Nat : m < i /\ i <= n => i \notin ids
  PROVE  OrderOf(ids, n) = OrderOf(ids, m)
<1> DEFINE R(k) == OrderOf(ids, k)
           G == {k \in Nat : m <= k /\ k <= n => R(k) = R(m)}
<1>1. \A k \in Nat : k + 1 \notin ids => R(k + 1) = R(k) BY OrderStarts, OrderGoesOn
<1> HIDE DEF R
<1>2. 0 \in G
  <2>1. m <= 0 => m = 0 OBVIOUS
  <2> QED BY <2>1
<1>3. ASSUME NEW k \in Nat, k \in G PROVE k + 1 \in G
  <2> SUFFICES ASSUME m <= k + 1, k + 1 <= n PROVE R(k + 1) = R(m) OBVIOUS
  <2>1. CASE m = k + 1 BY <2>1
  <2>2. CASE m # k + 1
    <3>1. m <= k /\ k <= n BY <2>2
    <3>2. R(k) = R(m) BY <1>3, <3>1
    <3>3. k + 1 \notin ids BY <3>1
    <3> QED BY <1>1, <3>2, <3>3
  <2> QED BY <2>1, <2>2
<1> HIDE DEF G
<1>4. n \in G BY <1>2, <1>3, NatSetInduction
<1>5. R(n) = R(m) BY <1>4 DEF G
<1> QED BY <1>5 DEF R

LEMMA OrderType == ASSUME NEW ids, NEW n \in Nat PROVE OrderOf(ids, n) \in Seq(Nat)
<1> DEFINE G == {k \in Nat : OrderOf(ids, k) \in Seq(Nat)}
<1>1. 0 \in G
  <2>1. OrderOf(ids, 0) = << >> BY OrderStarts, OrderGoesOn
  <2>2. << >> \in Seq(Nat) OBVIOUS
  <2> QED BY <2>1, <2>2
<1>2. ASSUME NEW k \in Nat, k \in G PROVE k + 1 \in G
  <2>1. OrderOf(ids, k) \in Seq(Nat) BY <1>2
  <2>2. OrderOf(ids, k + 1) = IF k + 1 \in ids THEN Append(OrderOf(ids, k), k + 1)
                             ELSE OrderOf(ids, k)
    BY OrderStarts, OrderGoesOn
  <2>3. Append(OrderOf(ids, k), k + 1) \in Seq(Nat) BY <2>1, AppendProperties
  <2>4. OrderOf(ids, k + 1) \in Seq(Nat) BY <2>1, <2>2, <2>3
  <2> QED BY <2>4
<1> HIDE DEF G
<1>3. n \in G BY <1>1, <1>2, NatSetInduction
<1> QED BY <1>3 DEF G

LEMMA PrefixItself == ASSUME NEW s \in Seq(Nat) PROVE IsPrefix(s, s)
<1>1. Len(s) \in Nat BY LenProperties
<1> QED BY <1>1 DEF IsPrefix

LEMMA PrefixAppend ==
  ASSUME NEW s \in Seq(Nat), NEW t \in Seq(Nat), IsPrefix(s, t), NEW x \in Nat
  PROVE  IsPrefix(s, Append(t, x))
<1>1. /\ Len(s) \in Nat /\ Len(t) \in Nat /\ Len(s) <= Len(t)
      /\ Append(t, x) \in Seq(Nat) /\ Len(Append(t, x)) = Len(t) + 1
      /\ \A i \in 1 .. Len(t) : Append(t, x)[i] = t[i]
  BY LenProperties, AppendProperties DEF IsPrefix
<1>2. SubSeq(Append(t, x), 1, Len(s)) = SubSeq(t, 1, Len(s))
  <2>1. \A i \in 1 .. Len(s) : i \in 1 .. Len(t) BY <1>1
  <2>2. \A i \in 1 .. Len(s) : Append(t, x)[i] = t[i] BY <1>1, <2>1
  <2>3. /\ SubSeq(Append(t, x), 1, Len(s)) = [i \in 1 .. Len(s) |-> Append(t, x)[i]]
        /\ SubSeq(t, 1, Len(s)) = [i \in 1 .. Len(s) |-> t[i]]
    BY <1>1, SMT
  <2> QED BY <2>2, <2>3
<1> QED BY <1>1, <1>2 DEF IsPrefix

(* More ids, all after the others, make a longer sequence.                 *)
LEMMA OrderGrows ==
  ASSUME NEW A \in SUBSET Nat, NEW B \in SUBSET Nat, NEW n \in Nat, A \subseteq B,
         \A a \in A, b \in B \ A : a < b
  PROVE  IsPrefix(OrderOf(A, n), OrderOf(B, n))
<1> DEFINE X(k) == OrderOf(A, k)
           Y(k) == OrderOf(B, k)
           Same(k) == \A i \in B \ A : i > k
           G == {k \in Nat : IsPrefix(X(k), Y(k)) /\ (Same(k) => X(k) = Y(k))}
<1>1. \A k \in Nat : X(k) \in Seq(Nat) /\ Y(k) \in Seq(Nat) BY OrderType
<1>2. X(0) = << >> /\ \A k \in Nat :
        X(k + 1) = IF k + 1 \in A THEN Append(X(k), k + 1) ELSE X(k)
  BY OrderStarts, OrderGoesOn
<1>3. Y(0) = << >> /\ \A k \in Nat :
        Y(k + 1) = IF k + 1 \in B THEN Append(Y(k), k + 1) ELSE Y(k)
  BY OrderStarts, OrderGoesOn
<1> HIDE DEF X, Y
<1>4. 0 \in G
  <2>1. X(0) = Y(0) /\ X(0) \in Seq(Nat) BY <1>1, <1>2, <1>3
  <2>2. IsPrefix(X(0), Y(0)) BY <2>1, PrefixItself
  <2> QED BY <2>1, <2>2
<1>5. ASSUME NEW k \in Nat, k \in G PROVE k + 1 \in G
  <2>1. IsPrefix(X(k), Y(k)) /\ (Same(k) => X(k) = Y(k)) BY <1>5
  <2>2. Same(k + 1) => Same(k)
    <3> SUFFICES ASSUME \A i \in B \ A : i > k + 1, NEW i \in B \ A PROVE i > k OBVIOUS
    <3>1. i > k + 1 /\ i \in Nat OBVIOUS
    <3> QED BY <3>1
  <2>3. CASE k + 1 \in A
    <3>1. Same(k + 1)
      <4> SUFFICES ASSUME NEW i \in B \ A PROVE i > k + 1 OBVIOUS
      <4>1. k + 1 < i /\ i \in Nat BY <2>3
      <4> QED BY <4>1
    <3>2. X(k) = Y(k) BY <2>1, <2>2, <3>1
    <3>3. X(k + 1) = Append(X(k), k + 1) BY <1>2, <2>3
    <3>4. Y(k + 1) = Append(Y(k), k + 1) BY <1>3, <2>3
    <3>5. X(k + 1) = Y(k + 1) BY <3>2, <3>3, <3>4
    <3>6. X(k + 1) \in Seq(Nat) BY <1>1
    <3>7. IsPrefix(X(k + 1), Y(k + 1)) BY <3>5, <3>6, PrefixItself
    <3> QED BY <3>5, <3>7
  <2>4. CASE k + 1 \notin A /\ k + 1 \in B
    <3>1. X(k + 1) = X(k) BY <1>2, <2>4
    <3>2. Y(k + 1) = Append(Y(k), k + 1) BY <1>3, <2>4
    <3>3. X(k) \in Seq(Nat) /\ Y(k) \in Seq(Nat) /\ IsPrefix(X(k), Y(k)) /\ k + 1 \in Nat
      BY <1>1, <2>1
    <3>0. IsPrefix(X(k), Append(Y(k), k + 1)) BY <3>3, PrefixAppend
    <3>5. IsPrefix(X(k + 1), Y(k + 1)) BY <3>0, <3>1, <3>2
    <3>4. ~Same(k + 1)
      <4>1. ~(k + 1 > k + 1) OBVIOUS
      <4> QED BY <2>4, <4>1
    <3> QED BY <3>4, <3>5
  <2>5. CASE k + 1 \notin B
    <3>1. X(k + 1) = X(k) BY <1>2, <2>5
    <3>2. Y(k + 1) = Y(k) BY <1>3, <2>5
    <3>3. IsPrefix(X(k + 1), Y(k + 1)) BY <2>1, <3>1, <3>2
    <3>4. Same(k + 1) => X(k + 1) = Y(k + 1) BY <2>1, <2>2, <3>1, <3>2
    <3> QED BY <3>3, <3>4
  <2> QED BY <2>3, <2>4, <2>5
<1> HIDE DEF G
<1>6. n \in G BY <1>4, <1>5, NatSetInduction
<1>7. IsPrefix(X(n), Y(n)) BY <1>6 DEF G
<1> QED BY <1>7 DEF X, Y

---------------------------------------------------------------------------
(* The rows are an initial part of what counts.                            *)

(* Where a database without a checkpoint began, a new cold start does not   *)
(* begin before.                                                            *)
OriginOK ==
  checkpoint = None /\ origin # None =>
    IF DefaultStart > 0 THEN origin = DefaultStart ELSE origin <= Oldest

(* Since the current origin, no event that counts is missing before a row.  *)
NoHole ==
  \A i \in Ids, j \in rows :
    i <= j /\ Relevant(i) /\ origin # None /\ chain[i].ledger >= origin => i \in rows

BatchOK ==
  /\ \A i \in batch : /\ chain[i].ledger <= height /\ chain[i].ledger <= latest
                       /\ chain[i].ledger >= start
  /\ pc = "paging" /\ next # None => next - 1 \in batch
  /\ pc = "asking" => ~(DefaultStart > 0)
  /\ pc \in {"fetched", "inserted"} => start <= latest

LogOK ==
  /\ OriginOK /\ NoHole /\ BatchOK
  /\ \A i \in rows : chain[i].ledger <= height
  /\ origin = None => rows = {}
  /\ checkpoint # None => origin <= checkpoint

(* What a step may do to the log: it appends rows that count, all newer than *)
(* the others, to a chain that only grows.                                  *)
Grows ==
  /\ rows \subseteq rows'
  /\ \A b \in rows' \ rows : /\ Relevant(b)' /\ origin' # None /\ chain'[b].ledger >= origin'
                             /\ \A a \in rows : a < b
  /\ Len(chain) <= Len(chain') /\ \A i \in Ids : chain'[i] = chain[i]
  /\ height <= height'
  /\ checkpoint # None => checkpoint' # None /\ origin' = origin

LEMMA Emits ==
  ASSUME EmitListed \/ EmitPriceUpd \/ EmitEnd \/ EmitOther
  PROVE  \E e : Emit(e) /\ e.ledger = height + 1
<1>1. \A kind, l, p, c, ok : Event(kind, l, p, c, ok).ledger = height + 1 BY DEF Event
<1>2. CASE EmitListed
  <2>1. PICK l \in Listings, p \in Prices, c \in Currencies : Emit(Event("listed", l, p, c, TRUE))
    BY <1>2, Zenon DEF EmitListed
  <2> QED BY <1>1, <2>1
<1>3. CASE EmitPriceUpd
  <2>1. PICK l \in Listings, p \in Prices :
          Emit(Event("price_upd", l, p, market[l].currency, TRUE))
    BY <1>3, Zenon DEF EmitPriceUpd
  <2> QED BY <1>1, <2>1
<1>4. CASE EmitEnd
  <2>1. PICK l \in Listings, kind \in EndKinds \cup {"offer_acc"} :
          Emit(Event(kind, l, market[l].price, market[l].currency, TRUE))
    BY <1>4, Zenon DEF EmitEnd
  <2> QED BY <1>1, <2>1
<1>5. CASE EmitOther
  <2>1. PICK kind \in {"mint", "claim", "sold", "junk"}, l \in Listings :
          Emit(Event(kind, l, 1, market[l].currency, kind # "sold"))
    BY <1>5, Zenon DEF EmitOther
  <2> QED BY <1>1, <2>1
<1> QED BY <1>2, <1>3, <1>4, <1>5

LEMMA EmitLog ==
  ASSUME IInv, LogOK, NEW e, Emit(e), e.ledger = height + 1
  PROVE  LogOK' /\ Grows
<1> DEFINE n == Len(chain) + 1
<1>1. /\ height \in Nat /\ Len(chain) \in Nat /\ chain \in Seq(Events)
      /\ rows \subseteq Ids /\ batch \subseteq Ids /\ latest \in Nat /\ latest <= height
  BY TypeParts DEF IInv, TypeOK, CycleOK, Ids
<1>2. /\ chain' = Append(chain, e)
      /\ UNCHANGED <<height, rows, checkpoint, pc, start, batch, next, latest, origin>>
  BY DEF Emit, dbVars, cycleVars
<1>3. Len(chain') = n /\ chain'[n] = e /\ \A i \in Ids : chain'[i] = chain[i]
  BY <1>1, <1>2, AppendProperties DEF Ids
<1>4. \A i : i \in Ids' <=> i \in Ids \/ i = n BY <1>1, <1>3, SMT DEF Ids
<1>5. \A i \in Ids : i < n /\ i \in Nat BY <1>1 DEF Ids
<1>6. NoHole'
  <2> SUFFICES ASSUME NEW i \in Ids', NEW j \in rows, i <= j, Relevant(i)', origin # None,
                      chain'[i].ledger >= origin
               PROVE  i \in rows
    BY <1>2 DEF NoHole
  <2>1. j \in Ids /\ j < n /\ j \in Nat /\ n \in Nat BY <1>1, <1>5
  <2>2. i # n BY <2>1
  <2>3. i \in Ids /\ chain'[i] = chain[i] BY <1>3, <1>4, <2>2
  <2>4. Relevant(i) BY <2>3 DEF Relevant, Decodable
  <2> QED BY <2>3, <2>4 DEF LogOK, NoHole
<1>7. OriginOK' BY <1>2 DEF LogOK, OriginOK, Oldest
<1>8. BatchOK' BY <1>1, <1>2, <1>3 DEF LogOK, BatchOK
<1>9. LogOK' BY <1>1, <1>2, <1>3, <1>6, <1>7, <1>8 DEF LogOK
<1>10. Grows
  <2>1. rows' = rows /\ origin' = origin /\ height' = height /\ checkpoint' = checkpoint BY <1>2
  <2>2. Len(chain) <= Len(chain') /\ height <= height BY <1>1, <1>3
  <2> QED BY <1>3, <2>1, <2>2 DEF Grows
<1> QED BY <1>9, <1>10

LEMMA CloseLedgerLog == ASSUME IInv, LogOK, CloseLedger PROVE LogOK' /\ Grows
<1>1. /\ height \in Nat /\ Len(chain) \in Nat /\ batch \subseteq Ids /\ rows \subseteq Ids
      /\ \A i \in Ids : chain[i].ledger \in Nat
      /\ Retention \in Nat
      /\ origin # None => origin \in Nat
  BY TypeParts, IndexerAssumption DEF IInv, TypeOK, Ids
<1>2. /\ height' = height + 1
      /\ UNCHANGED <<chain, rows, checkpoint, pc, start, batch, next, latest, origin>>
  BY DEF CloseLedger, dbVars, cycleVars
<1>3. Oldest <= Oldest' /\ Oldest \in Nat /\ Oldest' \in Nat BY <1>1, <1>2 DEF Oldest
<1>4. OriginOK' BY <1>1, <1>2, <1>3 DEF LogOK, OriginOK
<1>5. NoHole' BY <1>2 DEF LogOK, NoHole, Ids, Relevant, Decodable
<1>6. \A i \in Ids : chain[i].ledger <= height => chain[i].ledger <= height + 1 BY <1>1
<1>7. BatchOK' BY <1>1, <1>2, <1>6 DEF LogOK, BatchOK
<1>8. LogOK' BY <1>1, <1>2, <1>4, <1>5, <1>6, <1>7 DEF LogOK
<1>9. Grows BY <1>1, <1>2 DEF Grows
<1> QED BY <1>8, <1>9

(* A step that touches neither the chain nor the rows grows nothing.       *)
LEMMA StillGrows ==
  ASSUME IInv, UNCHANGED <<chain, height, rows, checkpoint>>, checkpoint # None => origin' = origin
  PROVE  Grows
<1>1. height \in Nat /\ Len(chain) \in Nat BY TypeParts DEF IInv
<1> QED BY <1>1 DEF Grows

LEMMA BeginLog ==
  ASSUME IInv, LogOK, NEW ledger \in Nat, Begin(ledger), UNCHANGED <<chain, height, rows, checkpoint>>,
         checkpoint = None =>
           IF DefaultStart > 0 THEN ledger = DefaultStart ELSE ledger = Oldest
  PROVE  LogOK' /\ Grows
<1>1. /\ start' = ledger /\ batch' = {} /\ next' = None /\ latest' = 0 /\ pc' = "paging"
      /\ origin' = IF checkpoint = None THEN ledger ELSE origin
  BY DEF Begin
<1>2. /\ height \in Nat /\ Retention \in Nat /\ Oldest \in Nat /\ Oldest' = Oldest
      /\ DefaultStart \in Nat /\ None \notin Nat
      /\ origin # None => origin \in Nat
      /\ \A i \in Ids : chain[i].ledger \in Nat
      /\ rows \subseteq Ids
  BY TypeParts, IndexerAssumption DEF IInv, TypeOK, Oldest, Ids
<1>3. checkpoint = None => origin = None \/ origin <= ledger
  BY <1>2 DEF LogOK, OriginOK
<1>4. OriginOK' BY <1>1, <1>2 DEF LogOK, OriginOK
<1>5. NoHole'
  <2> SUFFICES ASSUME NEW i \in Ids, NEW j \in rows, i <= j, Relevant(i), origin' # None,
                      chain[i].ledger >= origin'
               PROVE  i \in rows
    BY DEF NoHole, Ids, Relevant, Decodable
  <2>1. origin # None BY DEF LogOK
  <2>2. chain[i].ledger >= origin
    BY <1>1, <1>2, <1>3, <2>1
  <2> QED BY <2>1, <2>2 DEF LogOK, NoHole
<1>6. BatchOK' BY <1>1 DEF BatchOK
<1>7. origin' = None => rows' = {}
  BY <1>1, <1>2 DEF LogOK
<1>8. LogOK' BY <1>1, <1>4, <1>5, <1>6, <1>7 DEF LogOK
<1>9. Grows BY <1>1, StillGrows
<1> QED BY <1>8, <1>9

LEMMA StartPollLog == ASSUME IInv, LogOK, StartPoll PROVE LogOK' /\ Grows
<1>1. UNCHANGED <<chain, height, rows, checkpoint>> BY DEF StartPoll, chainVars, dbVars
<1>2. CASE checkpoint # None
  <2>1. checkpoint + 1 \in Nat /\ Begin(checkpoint + 1)
    BY <1>2, TypeParts DEF StartPoll, IInv
  <2> QED BY <1>1, <1>2, <2>1, BeginLog
<1>3. CASE checkpoint = None /\ DefaultStart > 0
  <2>1. Begin(DefaultStart) /\ DefaultStart \in Nat BY <1>3, IndexerAssumption DEF StartPoll
  <2> QED BY <1>1, <1>3, <2>1, BeginLog
<1>4. CASE checkpoint = None /\ ~(DefaultStart > 0)
  <2>1. pc' = "asking" /\ UNCHANGED <<start, batch, next, latest, origin>>
    BY <1>4 DEF StartPoll, cycleVars
  <2>2. OriginOK' BY <1>1, <2>1 DEF LogOK, OriginOK, Oldest
  <2>3. NoHole' BY <1>1, <2>1 DEF LogOK, NoHole, Ids, Relevant, Decodable
  <2>4. BatchOK' BY <1>1, <1>4, <2>1 DEF LogOK, BatchOK
  <2>5. LogOK' BY <1>1, <2>1, <2>2, <2>3, <2>4 DEF LogOK
  <2> QED BY <1>1, <2>1, <2>5, StillGrows
<1> QED BY <1>2, <1>3, <1>4

LEMMA AnswerOldestLog == ASSUME IInv, LogOK, AnswerOldest PROVE LogOK' /\ Grows
<1>1. /\ UNCHANGED <<chain, height, rows, checkpoint>> /\ Begin(Oldest)
      /\ checkpoint = None /\ ~(DefaultStart > 0)
  BY DEF AnswerOldest, chainVars, dbVars, IInv, CycleOK, LogOK, BatchOK
<1>2. Oldest \in Nat
  <2>1. height \in Nat /\ Retention \in Nat BY IndexerAssumption, TypeParts DEF IInv
  <2> QED BY <2>1 DEF Oldest
<1> QED BY <1>1, <1>2, BeginLog

LEMMA AnswerPageLog == ASSUME IInv, LogOK, AnswerPage PROVE LogOK' /\ Grows
<1>1. /\ batch' = batch \cup Page /\ latest' = height /\ pc = "paging"
      /\ UNCHANGED <<height, chain, rows, checkpoint, start, origin>>
  BY TypeParts DEF AnswerPage, chainVars, dbVars, CycleOK, IInv
<1>2. /\ Page \subseteq Reach /\ Reach \subseteq Ids
      /\ Cardinality(Page) = PageLimit => LastOf(Page) \in Page
  BY PageIsFirst DEF IInv
<1>3. /\ height \in Nat /\ batch \subseteq Ids
      /\ \A i \in Ids : i \in Nat /\ chain[i].ledger \in Nat
      /\ start \in Nat
  BY TypeParts DEF IInv, TypeOK, Ids
<1>4. ASSUME NEW i \in Page PROVE chain[i].ledger <= height /\ chain[i].ledger >= start
  <2>1. i \in Reach /\ i \in Ids /\ chain[i].ledger <= height BY <1>2 DEF Reach, ClosedIds
  <2>2. CASE next = None BY <2>1, <2>2 DEF Reach
  <2>3. CASE next # None
    <3>1. next - 1 \in batch /\ chain[next - 1].ledger >= start /\ next - 1 \in Ids
      BY <1>1, <1>3, <2>3 DEF LogOK, BatchOK
    <3>2. next \in Nat BY <1>1, <2>3 DEF IInv, CycleOK
    <3>3. i >= next /\ i \in Nat BY <1>3, <2>1, <2>3 DEF Reach
    <3>4. next - 1 <= i BY <3>2, <3>3
    <3>5. chain[next - 1].ledger <= chain[i].ledger BY <2>1, <3>1, <3>4 DEF IInv, ChainOK
    <3> QED BY <1>3, <2>1, <3>1, <3>5
  <2> QED BY <2>2, <2>3
<1>5. \A i \in batch' : chain[i].ledger <= height /\ chain[i].ledger >= start
  BY <1>1, <1>4 DEF LogOK, BatchOK
<1>6. pc' = "paging" /\ next' # None => next' - 1 \in batch'
  <2> SUFFICES ASSUME pc' = "paging" PROVE next' - 1 \in batch' OBVIOUS
  <2>1. Cardinality(Page) = PageLimit /\ next' = LastOf(Page) + 1 BY DEF AnswerPage
  <2>2. LastOf(Page) \in Page /\ LastOf(Page) \in Nat BY <1>2, <1>3, <2>1
  <2>3. next' - 1 = LastOf(Page) BY <2>1, <2>2
  <2> QED BY <1>1, <2>2, <2>3
<1>7. pc' # "asking" BY DEF AnswerPage
<1>11. start <= height
  <2>1. CASE next = None BY <1>3, <2>1 DEF AnswerPage, Refused
  <2>2. CASE next # None
    <3>1. next - 1 \in batch BY <1>1, <2>2 DEF LogOK, BatchOK
    <3>2. chain[next - 1].ledger \in Nat /\ chain[next - 1].ledger <= height
          /\ chain[next - 1].ledger >= start
      BY <1>3, <1>5, <1>1, <3>1
    <3> QED BY <1>3, <3>2
  <2> QED BY <2>1, <2>2
<1>8. BatchOK' BY <1>1, <1>5, <1>6, <1>7, <1>11 DEF BatchOK
<1>9. OriginOK' /\ NoHole'
  BY <1>1 DEF LogOK, OriginOK, Oldest, NoHole, Ids, Relevant, Decodable
<1>10. LogOK' BY <1>1, <1>8, <1>9 DEF LogOK
<1> QED BY <1>1, <1>10, StillGrows

(* What a cycle fetched is newer than what is stored, or stored already:    *)
(* otherwise the rows would have a hole.                                    *)
LEMMA InsertBatchLog == ASSUME IInv, LogOK, InsertBatch PROVE LogOK' /\ Grows
<1> DEFINE good == {i \in batch : Relevant(i)}
<1>1. /\ rows' = rows \cup good /\ pc = "fetched" /\ pc' = "inserted"
      /\ UNCHANGED <<height, chain, checkpoint, start, batch, next, latest, origin>>
  BY DEF InsertBatch, chainVars, cycleVars
<1>2. /\ height \in Nat /\ batch \subseteq Ids /\ rows \subseteq Ids
      /\ \A i \in Ids : i \in Nat /\ chain[i].ledger \in Nat
      /\ start \in Nat /\ latest \in Nat /\ Len(chain) \in Nat
      /\ (checkpoint # None => checkpoint \in Nat) /\ (origin # None => origin \in Nat)
  BY TypeParts DEF IInv, TypeOK, Ids
<1>3. /\ origin # None /\ start = IF checkpoint = None THEN origin ELSE checkpoint + 1
      /\ \A i \in Ids : chain[i].ledger >= start /\ chain[i].ledger <= latest => i \in batch
  BY <1>1 DEF IInv, CycleOK
<1>4. \A i \in batch : /\ chain[i].ledger <= height /\ chain[i].ledger <= latest
                       /\ chain[i].ledger >= start
  BY DEF LogOK, BatchOK
<1> HIDE DEF good
<1>5. ASSUME NEW i \in Ids, Relevant(i), chain[i].ledger <= latest, chain[i].ledger >= origin
      PROVE  i \in rows'
  <2>1. CASE chain[i].ledger >= start
    BY <1>1, <1>3, <1>5, <2>1 DEF good
  <2>2. CASE ~(chain[i].ledger >= start)
    <3>1. checkpoint # None /\ start = checkpoint + 1 BY <1>3, <1>5, <2>2
    <3>2. chain[i].ledger <= checkpoint BY <1>2, <2>2, <3>1
    <3>3. i \in rows BY <1>3, <1>5, <3>1, <3>2 DEF IInv, Covered, Promised, Ids
    <3> QED BY <1>1, <3>3
  <2> QED BY <2>1, <2>2
<1>6. NoHole'
  <2> SUFFICES ASSUME NEW i \in Ids, NEW j \in rows', i <= j, Relevant(i), chain[i].ledger >= origin
               PROVE  i \in rows'
    BY <1>1 DEF NoHole, Ids, Relevant, Decodable
  <2>1. CASE j \in rows BY <2>1, <1>1, <1>3 DEF LogOK, NoHole
  <2>2. CASE j \in batch
    <3>1. j \in Ids /\ chain[j].ledger <= latest BY <1>2, <1>4, <2>2
    <3>2. chain[i].ledger <= chain[j].ledger BY <3>1 DEF IInv, ChainOK
    <3>3. chain[i].ledger <= latest BY <1>2, <3>1, <3>2
    <3> QED BY <1>5, <3>3
  <2> QED BY <2>1, <2>2, <1>1 DEF good
<1>7. OriginOK' BY <1>1 DEF LogOK, OriginOK, Oldest
<1>8. BatchOK' BY <1>1 DEF LogOK, BatchOK
<1>9. \A i \in rows' : chain'[i].ledger <= height' BY <1>1, <1>4 DEF LogOK, good
<1>10. LogOK' BY <1>1, <1>3, <1>6, <1>7, <1>8, <1>9 DEF LogOK
<1>11. ASSUME NEW b \in rows' \ rows
       PROVE  /\ Relevant(b)' /\ origin' # None /\ chain'[b].ledger >= origin'
              /\ \A a \in rows : a < b
  <2>1. b \in batch /\ b \in Ids /\ Relevant(b) BY <1>1, <1>2, <1>11 DEF good
  <2>2. chain[b].ledger >= start /\ chain[b].ledger >= origin
    <3>1. chain[b].ledger >= start BY <1>4, <2>1
    <3>2. CASE checkpoint = None BY <1>3, <3>1, <3>2
    <3>3. CASE checkpoint # None
      <4>1. origin <= checkpoint /\ start = checkpoint + 1 BY <1>3, <3>3 DEF LogOK
      <4>2. chain[b].ledger \in Nat /\ checkpoint \in Nat /\ origin \in Nat BY <1>2, <1>3, <2>1, <3>3
      <4> QED BY <3>1, <4>1, <4>2
    <3> QED BY <3>1, <3>2, <3>3
  <2>3. Relevant(b)' BY <1>1, <2>1 DEF Relevant, Decodable
  <2>4. ASSUME NEW a \in rows PROVE a < b
    <3>1. a \in Ids /\ a \in Nat /\ b \in Nat BY <1>2, <2>1
    <3>2. ~(b <= a) BY <1>3, <1>11, <2>1, <2>2 DEF LogOK, NoHole
    <3> QED BY <3>1, <3>2
  <2> QED BY <1>1, <1>3, <2>2, <2>3, <2>4
<1>12. Grows
  <2>1. height <= height /\ Len(chain) <= Len(chain) BY <1>2
  <2> QED BY <1>1, <1>11, <2>1 DEF Grows
<1> QED BY <1>10, <1>12

LEMMA SaveCheckpointLog == ASSUME IInv, LogOK, SaveCheckpoint PROVE LogOK' /\ Grows
<1>1. /\ checkpoint' = IF latest > 0 THEN latest ELSE checkpoint
      /\ pc = "inserted" /\ pc' = "asleep" /\ batch' = {}
      /\ UNCHANGED <<height, chain, rows, origin>>
  BY DEF SaveCheckpoint, EndCycle, chainVars
<1>2. /\ origin # None /\ origin \in Nat /\ latest \in Nat /\ start \in Nat /\ None \notin Nat
      /\ (checkpoint # None => checkpoint \in Nat)
      /\ start = IF checkpoint = None THEN origin ELSE checkpoint + 1
      /\ height \in Nat /\ Len(chain) \in Nat
  BY <1>1, TypeParts DEF IInv, CycleOK
<1>3. start <= latest BY <1>1 DEF LogOK, BatchOK
<1>4. checkpoint' # None => origin <= checkpoint'
  <2>1. CASE latest > 0
    <3>1. CASE checkpoint = None BY <1>1, <1>2, <1>3, <2>1, <3>1
    <3>2. CASE checkpoint # None
      <4>1. origin <= checkpoint BY <3>2 DEF LogOK
      <4> QED BY <1>1, <1>2, <1>3, <2>1, <3>2, <4>1
    <3> QED BY <3>1, <3>2
  <2>2. CASE ~(latest > 0)
    BY <1>1, <2>2 DEF LogOK
  <2> QED BY <2>1, <2>2
<1>5. checkpoint' = None => checkpoint = None BY <1>1, <1>2
<1>6. OriginOK' BY <1>1, <1>5 DEF LogOK, OriginOK, Oldest
<1>7. NoHole' BY <1>1 DEF LogOK, NoHole, Ids, Relevant, Decodable
<1>8. BatchOK' BY <1>1 DEF BatchOK
<1>9. LogOK' BY <1>1, <1>4, <1>6, <1>7, <1>8 DEF LogOK
<1>10. Grows BY <1>1, <1>2, <1>5 DEF Grows
<1> QED BY <1>9, <1>10

LEMMA OtherLog ==
  ASSUME IInv, LogOK, Boot \/ RefusePoll \/ FailPoll \/ Wake \/ Signal \/ Stop \/ Crash
  PROVE  LogOK' /\ Grows
<1>1. UNCHANGED <<height, chain, rows, checkpoint, origin>>
  BY DEF Boot, RefusePoll, FailPoll, Wake, Signal, Stop, Crash, chainVars, dbVars
<1>2. OriginOK' /\ NoHole'
  BY <1>1 DEF LogOK, OriginOK, Oldest, NoHole, Ids, Relevant, Decodable
<1>3. BatchOK'
  <2>1. CASE RefusePoll \/ FailPoll \/ Stop \/ Crash
    <3>1. batch' = {} /\ pc' \in {"asleep", "down"}
      BY <2>1 DEF RefusePoll, FailPoll, Stop, Crash, EndCycle
    <3> QED BY <3>1 DEF BatchOK
  <2>2. CASE Boot \/ Wake
    <3>1. pc' = "ready" /\ UNCHANGED <<start, batch, latest>>
      BY <2>2 DEF Boot, Wake, cycleVars
    <3> QED BY <1>1, <3>1 DEF LogOK, BatchOK
  <2>3. CASE Signal
    <3>1. UNCHANGED <<pc, next, start, batch, latest>> BY <2>3 DEF Signal, cycleVars
    <3> QED BY <1>1, <3>1 DEF LogOK, BatchOK
  <2> QED BY <2>1, <2>2, <2>3
<1>4. LogOK' BY <1>1, <1>2, <1>3 DEF LogOK
<1> QED BY <1>1, <1>4, StillGrows

LEMMA LogStep ==
  ASSUME IInv, LogOK, Next
  PROVE  LogOK' /\ Grows
<1>1. CASE EmitListed \/ EmitPriceUpd \/ EmitEnd \/ EmitOther BY <1>1, Emits, EmitLog
<1>2. CASE CloseLedger BY <1>2, CloseLedgerLog
<1>3. CASE StartPoll BY <1>3, StartPollLog
<1>4. CASE AnswerOldest BY <1>4, AnswerOldestLog
<1>5. CASE AnswerPage BY <1>5, AnswerPageLog
<1>6. CASE InsertBatch BY <1>6, InsertBatchLog
<1>7. CASE SaveCheckpoint BY <1>7, SaveCheckpointLog
<1>8. CASE Boot \/ RefusePoll \/ FailPoll \/ Wake \/ Signal \/ Stop \/ Crash BY <1>8, OtherLog
<1> QED BY <1>1, <1>2, <1>3, <1>4, <1>5, <1>6, <1>7, <1>8 DEF Next, Chain, Process, Node

LEMMA LogInit == Init => LogOK
<1> SUFFICES ASSUME Init PROVE LogOK OBVIOUS
<1>1. pc = "down" /\ batch = {} BY DEF Init
<1>2. BatchOK BY <1>1 DEF BatchOK
<1>3. CASE Fresh
  <2>1. rows = {} /\ checkpoint = None /\ origin = None BY <1>3 DEF Fresh
  <2> QED BY <1>2, <2>1 DEF LogOK, OriginOK, NoHole
<1>4. CASE Legacy
  <2>1. PICK l \in Listings, p \in Prices, c \in Currencies :
          /\ height = 1 /\ rows = {1, 2} /\ checkpoint = 1 /\ origin = 1
          /\ chain = << [Event("listed", l, p, c, TRUE) EXCEPT !.ledger = 1],
                        [Event("sold", l, p, c, TRUE) EXCEPT !.ledger = 1] >>
    BY <1>4, ZenonT(60) DEF Legacy
  <2>2. Len(chain) = 2 BY <2>1
  <2>3. chain[1].ledger = 1 /\ chain[2].ledger = 1
    <3>1. /\ [Event("listed", l, p, c, TRUE) EXCEPT !.ledger = 1].ledger = 1
          /\ [Event("sold", l, p, c, TRUE) EXCEPT !.ledger = 1].ledger = 1
      BY DEF Event
    <3> QED BY <2>1, <3>1
  <2>4. Ids = {1, 2} BY <2>2 DEF Ids
  <2>5. checkpoint # None /\ origin # None BY <2>1, IndexerAssumption
  <2>6. NoHole BY <2>1, <2>4 DEF NoHole
  <2>7. rows = {1, 2} /\ height = 1 /\ checkpoint = 1 /\ origin = 1 BY <2>1
  <2>8. \A i \in rows : chain[i].ledger <= height BY <2>3, <2>7
  <2>9. OriginOK BY <2>5 DEF OriginOK
  <2>10. origin <= checkpoint BY <2>7
  <2> HIDE <1>4
  <2> QED BY <1>2, <2>5, <2>6, <2>8, <2>9, <2>10 DEF LogOK
<1> QED BY <1>3, <1>4 DEF Init

LEMMA LogInvariant == Spec => [](IInv /\ LogOK)
<1>1. Init => IInv /\ LogOK BY InitInvariant, LogInit
<1>2. IInv /\ LogOK /\ [Next]_vars => (IInv /\ LogOK)'
  <2> SUFFICES ASSUME IInv, LogOK, [Next]_vars PROVE LogOK' BY NextInvariant
  <2>1. CASE Next BY <2>1, LogStep
  <2>2. CASE UNCHANGED vars
    BY <2>2 DEF vars, chainVars, dbVars, cycleVars, LogOK, OriginOK, NoHole, BatchOK, Ids, Relevant,
                Decodable, Oldest
  <2> QED BY <2>1, <2>2
<1> QED BY <1>1, <1>2, PTL DEF Spec

---------------------------------------------------------------------------
(* The refinement.                                                         *)

RowFacts ==
  /\ height \in Nat /\ Len(chain) \in Nat /\ Ids \subseteq Nat
  /\ \A i \in Ids : chain[i].ledger \in Nat
  /\ rows \subseteq Ids /\ Published \subseteq Ids /\ rows \subseteq Published
  /\ \A a \in rows, b \in Published \ rows : a < b

LEMMA RowsBelow == IInv /\ LogOK => RowFacts
<1> SUFFICES ASSUME IInv, LogOK PROVE RowFacts OBVIOUS
<1>0. height \in Nat /\ \A i \in Ids : chain[i].ledger \in Nat BY TypeParts DEF IInv
<1>1. rows \subseteq Ids /\ Len(chain) \in Nat /\ Ids \subseteq Nat
  BY TypeParts DEF IInv, TypeOK, Ids
<1>2. Published \subseteq Ids /\ rows \subseteq Published
  BY <1>1 DEF Published, ClosedIds, Ids
<1>3. ASSUME NEW a \in rows, NEW b \in Published \ rows PROVE a < b
  <2>1. b \in Ids /\ checkpoint # None /\ Relevant(b) /\ chain[b].ledger >= origin
    BY <1>3 DEF Published, ClosedIds, Ids
  <2>2. origin # None BY <2>1 DEF IInv, CycleOK
  <2>3. ~(b <= a) BY <1>3, <2>1, <2>2 DEF LogOK, NoHole
  <2>4. a \in Nat /\ b \in Nat BY <1>1, <2>1
  <2> QED BY <2>3, <2>4
<1> QED BY <1>0, <1>1, <1>2, <1>3 DEF RowFacts

(* What is published is appended to, in the order of the chain.            *)
LEMMA PublishedGrows ==
  ASSUME IInv, LogOK, IInv', LogOK', RowFacts, RowFacts', Grows
  PROVE  /\ Published \subseteq Published'
         /\ \A a \in Published, b \in Published' \ Published : a < b
<1>1. /\ Len(chain) \in Nat /\ Len(chain') \in Nat /\ Len(chain) <= Len(chain')
      /\ \A i \in Ids : chain'[i] = chain[i]
      /\ height \in Nat /\ height' \in Nat /\ height <= height'
      /\ \A i \in Ids' : chain'[i].ledger \in Nat
      /\ \A i \in Ids : chain[i].ledger \in Nat
  BY DEF Grows, RowFacts
<1>2. Ids \subseteq Ids' /\ Ids' \subseteq Nat BY <1>1 DEF Ids
<1>3. \A i \in Ids : i \in ClosedIds <=> chain[i].ledger <= height BY DEF Ids, ClosedIds
<1>4. \A i \in Ids' : i \in ClosedIds' <=> chain'[i].ledger <= height' BY DEF Ids, ClosedIds
<1>5. \A i \in Ids : Relevant(i)' <=> Relevant(i) BY <1>1 DEF Relevant, Decodable
<1>6. ASSUME NEW i \in Published PROVE i \in Published'
  <2>1. CASE i \in rows BY <2>1 DEF Grows, Published
  <2>2. CASE i \notin rows
    <3>1. i \in ClosedIds /\ i \in Ids /\ checkpoint # None /\ Relevant(i) /\ chain[i].ledger >= origin
      BY <2>2 DEF Published, ClosedIds, Ids
    <3>2. checkpoint' # None /\ origin' = origin BY <3>1 DEF Grows
    <3>3. i \in ClosedIds' BY <1>1, <1>2, <1>3, <1>4, <3>1
    <3> QED BY <1>1, <1>5, <3>1, <3>2, <3>3 DEF Published
  <2> QED BY <2>1, <2>2
<1>7. ASSUME NEW a \in Published, NEW b \in Published' \ Published PROVE a < b
  <2>1. a \in Ids /\ b \in Ids' /\ a \in Nat /\ b \in Nat /\ b \notin rows
    BY <1>2, <1>7 DEF RowFacts
  <2>2. Relevant(b)' /\ origin' # None /\ chain'[b].ledger >= origin'
    <3>1. CASE b \in rows' BY <2>1, <3>1 DEF Grows
    <3>2. CASE b \notin rows'
      BY <1>7, <3>2 DEF Published, IInv, CycleOK
    <3> QED BY <3>1, <3>2
  <2> SUFFICES ASSUME b <= a PROVE FALSE BY <2>1
  <2>3. b \in Ids
    <3>1. a <= Len(chain) /\ 1 <= b BY <2>1 DEF Ids
    <3> QED BY <1>1, <2>1, <3>1 DEF Ids
  <2>4. chain'[b] = chain[b] /\ Relevant(b) BY <1>1, <1>5, <2>2, <2>3
  <2>5. CASE a \in rows
    <3>1. b \notin rows' BY <2>1, <2>5, <2>3 DEF Grows
    <3>2. a \in rows' BY <2>5 DEF Grows
    <3> QED BY <2>1, <2>2, <3>1, <3>2 DEF LogOK, NoHole
  <2>6. CASE a \notin rows
    <3>1. a \in ClosedIds /\ checkpoint # None /\ chain[a].ledger <= height
      BY <1>7, <2>6, <2>1, <1>3 DEF Published
    <3>2. origin' = origin BY <3>1 DEF Grows
    <3>3. chain[b].ledger <= chain[a].ledger BY <2>1, <2>3 DEF IInv, ChainOK
    <3>4. b \in ClosedIds BY <1>1, <1>3, <2>1, <2>3, <3>1, <3>3
    <3>5. b \in Published BY <2>2, <2>4, <3>1, <3>2, <3>4 DEF Published
    <3> QED BY <1>7, <3>5
  <2> QED BY <2>5, <2>6
<1> QED BY <1>6, <1>7

LEMMA LogGrows ==
  ASSUME IInv, LogOK, IInv', LogOK', RowFacts, RowFacts', Grows
  PROVE  Log!Next
<1>1. Len(chain) \in Nat /\ Len(chain') \in Nat /\ Len(chain) <= Len(chain')
  BY DEF Grows, RowFacts
<1>2. ASSUME NEW ids \in SUBSET Nat, ids \subseteq Ids
      PROVE  OrderOf(ids, Len(chain)) = OrderOf(ids, Len(chain'))
  <2>1. \A i \in Nat : Len(chain) < i /\ i <= Len(chain') => i \notin ids
    BY <1>1, <1>2 DEF Ids
  <2> QED BY <1>1, <2>1, OrderIdle
<1>3. /\ InOrder(rows) = OrderOf(rows, Len(chain))
      /\ InOrder(Published) = OrderOf(Published, Len(chain))
  BY InOrderIs
<1>4. /\ InOrder(rows)' = OrderOf(rows', Len(chain'))
      /\ InOrder(Published)' = OrderOf(Published', Len(chain'))
  <2>1. InOrder(rows)' = OrderOf(rows', Len(chain')) BY Zenon DEF InOrder, OrderOf, IsOrder
  <2>2. InOrder(Published)' = OrderOf(Published', Len(chain')) BY Zenon DEF InOrder, OrderOf, IsOrder
  <2> QED BY <2>1, <2>2
<1>5. /\ rows \subseteq Ids /\ Published \subseteq Ids /\ Ids \subseteq Nat
      /\ rows' \subseteq Published' /\ Published' \subseteq Ids' /\ Ids' \subseteq Nat
      /\ \A a \in rows', b \in Published' \ rows' : a < b
  BY DEF RowFacts
<1>6. /\ rows \subseteq rows' /\ \A a \in rows, b \in rows' \ rows : a < b BY DEF Grows
<1>7. /\ Published \subseteq Published'
      /\ \A a \in Published, b \in Published' \ Published : a < b
  BY PublishedGrows
<1>8. IsPrefix(OrderOf(rows, Len(chain')), OrderOf(rows', Len(chain')))
  BY <1>1, <1>5, <1>6, OrderGrows
<1>9. IsPrefix(OrderOf(Published, Len(chain')), OrderOf(Published', Len(chain')))
  BY <1>1, <1>5, <1>7, OrderGrows
<1>10. IsPrefix(OrderOf(rows', Len(chain')), OrderOf(Published', Len(chain')))
  BY <1>1, <1>5, OrderGrows
<1>11. /\ IsPrefix(InOrder(rows), InOrder(rows)')
       /\ IsPrefix(InOrder(Published), InOrder(Published)')
       /\ IsPrefix(InOrder(rows)', InOrder(Published)')
  BY <1>2, <1>3, <1>4, <1>5, <1>8, <1>9, <1>10
<1> QED BY <1>11 DEF Log!Next, Log!IsPrefix, IsPrefix

LEMMA LogBegins == Init => Log!Init
<1> SUFFICES ASSUME Init PROVE Log!Init OBVIOUS
<1>1. RowFacts BY InitInvariant, LogInit, RowsBelow
<1>2. InOrder(rows) = OrderOf(rows, Len(chain)) /\ InOrder(Published) = OrderOf(Published, Len(chain))
  BY InOrderIs
<1>3. IsPrefix(OrderOf(rows, Len(chain)), OrderOf(Published, Len(chain)))
  BY <1>1, OrderGrows DEF RowFacts
<1>4. IsPrefix(InOrder(rows), InOrder(Published)) BY <1>2, <1>3
<1> QED BY <1>4 DEF Log!Init, Log!IsPrefix, IsPrefix

(* The events table is an append-only log of the events that count: over    *)
(* crashes, stops, failed cycles, re-fetched pages and cold starts, each     *)
(* event is stored once, in order, and after the first checkpoint none of   *)
(* the events before it is left out.                                        *)
THEOREM IndexerImplementsEventLog == Spec => ImplementsEventLog
<1>1. Init => Log!Init BY LogBegins
<1>2. IInv /\ LogOK /\ [Next]_vars /\ RowFacts /\ IInv' /\ LogOK' /\ RowFacts' => [Log!Next]_(Log!vars)
  <2> SUFFICES ASSUME IInv, LogOK, [Next]_vars, IInv', LogOK', RowFacts, RowFacts'
               PROVE  Log!Next \/ UNCHANGED Log!vars
    OBVIOUS
  <2>1. CASE Next
    <3>1. Grows BY <2>1, LogStep
    <3> QED BY <3>1, LogGrows
  <2>2. CASE UNCHANGED vars
    <3>1. UNCHANGED <<height, chain, rows, checkpoint, origin>>
      BY <2>2 DEF vars, chainVars, dbVars
    <3>2. InOrder(rows)' = InOrder(rows) /\ InOrder(Published)' = InOrder(Published)
      BY <3>1 DEF InOrder, Published, ClosedIds, Relevant, Decodable
    <3> QED BY <3>2 DEF Log!vars
  <2> QED BY <2>1, <2>2
<1>3. IInv /\ LogOK => RowFacts BY RowsBelow
<1> QED BY <1>1, <1>2, <1>3, LogInvariant, PTL DEF Spec, ImplementsEventLog, Log!Spec

---------------------------------------------------------------------------
(* What is derived.                                                        *)

Entries == [status : EventKinds \cup {"absent", "active"}, price : Nat,
            currency : Currencies \cup {None}]
DerivedStates == [listings : [Listings -> Entries], volume : [Currencies -> Nat], minted : Nat]

LEMMA NothingDerivedType == NothingDerived \in DerivedStates
<1>1. Absent \in Entries BY SMT DEF Absent, Entries, EventKinds
<1>2. [l \in Listings |-> Absent] \in [Listings -> Entries] BY <1>1
<1>3. [c \in Currencies |-> 0] \in [Currencies -> Nat] OBVIOUS
<1>4. 0 \in Nat OBVIOUS
<1> QED BY <1>2, <1>3, <1>4, Zenon DEF NothingDerived, DerivedStates

LEMMA ListingStateType ==
  ASSUME NEW e \in Events, NEW table \in [Listings -> Entries]
  PROVE  ApplyListingState(e, table) \in [Listings -> Entries]
<1>1. /\ e.kind \in EventKinds /\ e.listing \in Listings /\ e.price \in Nat
      /\ e.currency \in Currencies \cup {None}
  BY DEF Events
<1>2. table[e.listing] \in Entries BY <1>1
<1>3. [status |-> "active", price |-> e.price, currency |-> e.currency] \in Entries
  BY <1>1, Zenon DEF Entries
<1>4. ASSUME NEW s \in EventKinds PROVE [table[e.listing] EXCEPT !.status = s] \in Entries
  BY <1>2, <1>4, Zenon DEF Entries
<1>5. [table[e.listing] EXCEPT !.price = e.price] \in Entries
  BY <1>1, <1>2, Zenon DEF Entries
<1>6. \A x \in Entries : [table EXCEPT ![e.listing] = x] \in [Listings -> Entries]
  OBVIOUS
<1>7. \A s \in EventKinds : Closed(table, e.listing, s) \in [Listings -> Entries]
  <2> SUFFICES ASSUME NEW s \in EventKinds
               PROVE  Closed(table, e.listing, s) \in [Listings -> Entries]
    OBVIOUS
  <2>1. Closed(table, e.listing, s) =
          [table EXCEPT ![e.listing] = [table[e.listing] EXCEPT !.status = s]]
    BY Zenon DEF Closed
  <2> QED BY <1>4, <1>6, <2>1
<1>8. [table EXCEPT ![e.listing].price = e.price] \in [Listings -> Entries]
  <2>1. [table EXCEPT ![e.listing].price = e.price] =
          [table EXCEPT ![e.listing] = [table[e.listing] EXCEPT !.price = e.price]]
    BY Zenon
  <2> QED BY <1>5, <1>6, <2>1
<1>9. EndKinds \subseteq EventKinds BY DEF EventKinds
<1> DEFINE listed == [table EXCEPT ![e.listing] =
                        [status |-> "active", price |-> e.price, currency |-> e.currency]]
           priced == [table EXCEPT ![e.listing].price = e.price]
<1>10. ApplyListingState(e, table) \in {listed, Closed(table, e.listing, e.kind), priced, table}
  BY Zenon DEF ApplyListingState
<1>11. listed \in [Listings -> Entries] BY <1>3, <1>6
<1>12. Closed(table, e.listing, e.kind) \in [Listings -> Entries] BY <1>1, <1>7
<1> HIDE DEF listed, priced
<1>13. priced \in [Listings -> Entries] BY <1>8 DEF priced
<1> QED BY <1>10, <1>11, <1>12, <1>13

(* One event adds its price to one total at most, and touches one listing.  *)
LEMMA ApplyFacts ==
  ASSUME NEW e \in Events, NEW d \in DerivedStates
  PROVE  /\ ApplyDerivedState(e, d) \in DerivedStates
         /\ ApplyDerivedState(e, d).listings = ApplyListingState(e, d.listings)
         /\ ApplyDerivedState(e, d).minted =
              IF e.kind = "mint" THEN d.minted + e.price ELSE d.minted
         /\ \A c \in Currencies : ApplyDerivedState(e, d).volume[c] =
              IF e.kind = "sold" /\ e.currency = c THEN d.volume[c] + e.price ELSE d.volume[c]
<1> DEFINE table == ApplyListingState(e, d.listings)
           x == [d EXCEPT !.listings = table]
<1>1. /\ d.listings \in [Listings -> Entries] /\ d.volume \in [Currencies -> Nat]
      /\ d.minted \in Nat /\ e.price \in Nat
  BY DEF DerivedStates, Events
<1>2. table \in [Listings -> Entries] BY <1>1, ListingStateType
<1> HIDE DEF table
<1>3. /\ x \in DerivedStates /\ x.volume = d.volume /\ x.minted = d.minted
      /\ x.listings = ApplyListingState(e, d.listings)
  <2>1. x \in DerivedStates BY <1>2, Zenon DEF DerivedStates
  <2>2. x.volume = d.volume BY Zenon DEF DerivedStates
  <2>3. x.minted = d.minted BY Zenon DEF DerivedStates
  <2>4. x.listings = table BY Zenon DEF DerivedStates
  <2> QED BY <2>1, <2>2, <2>3, <2>4 DEF table
<1>4. ApplyDerivedState(e, d) = AddAggregate(x, e)
  BY Zenon DEF ApplyDerivedState, table
<1> HIDE DEF x
<1>5. CASE e.kind = "sold"
  <2> DEFINE v == [x.volume EXCEPT ![e.currency] = @ + e.price]
             y == [x EXCEPT !.volume = v]
  <2>2. \A c \in Currencies :
          v[c] = IF e.currency = c THEN d.volume[c] + e.price ELSE d.volume[c]
    BY <1>1, <1>3
  <2>1. v \in [Currencies -> Nat]
    <3>1. DOMAIN v = Currencies /\ v = [c \in DOMAIN v |-> v[c]] BY <1>1, <1>3
    <3>2. \A c \in Currencies : v[c] \in Nat BY <1>1, <2>2
    <3> HIDE DEF v
    <3> QED BY <3>1, <3>2
  <2>3. AddAggregate(x, e) = y
    BY <1>5, Zenon DEF AddAggregate
  <2> HIDE DEF v
  <2>4. y \in DerivedStates BY <1>3, <2>1, Zenon DEF DerivedStates
  <2>5. y.volume = v BY <1>3, Zenon DEF DerivedStates
  <2>6. y.minted = x.minted BY <1>3, Zenon DEF DerivedStates
  <2>8. y.listings = x.listings BY <1>3, Zenon DEF DerivedStates
  <2> HIDE DEF y
  <2>7. e.kind # "mint" BY <1>5
  <2> QED BY <1>3, <1>4, <1>5, <2>2, <2>3, <2>4, <2>5, <2>6, <2>7, <2>8
<1>6. CASE e.kind = "mint"
  <2> DEFINE m == x.minted + e.price
             y == [x EXCEPT !.minted = m]
  <2>1. m \in Nat BY <1>1, <1>3
  <2>2. e.kind # "sold" BY <1>6
  <2>3. AddAggregate(x, e) = y
    BY <1>6, <2>2, Zenon DEF AddAggregate
  <2>4. m = d.minted + e.price BY <1>3
  <2> HIDE DEF m
  <2>5. y \in DerivedStates BY <1>3, <2>1, Zenon DEF DerivedStates
  <2>6. y.minted = m BY <1>3, Zenon DEF DerivedStates
  <2>7. y.volume = x.volume BY <1>3, Zenon DEF DerivedStates
  <2>8. y.listings = x.listings BY <1>3, Zenon DEF DerivedStates
  <2> HIDE DEF y
  <2> QED BY <1>3, <1>4, <1>6, <2>2, <2>3, <2>4, <2>5, <2>6, <2>7, <2>8
<1>7. CASE e.kind \notin {"sold", "mint"}
  <2>1. AddAggregate(x, e) = x BY <1>7, Zenon DEF AddAggregate
  <2> QED BY <1>3, <1>4, <1>7, <2>1
<1> QED BY <1>5, <1>6, <1>7

LEMMA ReplayType ==
  ASSUME NEW ch, NEW ids, \A i \in ids : ch[i] \in Events,
         NEW d \in DerivedStates, NEW n \in Nat
  PROVE  ReplayOf(ch, ids, d, n) \in DerivedStates
<1> DEFINE R(k) == ReplayOf(ch, ids, d, k)
           G == {k \in Nat : R(k) \in DerivedStates}
<1>1. R(0) = d BY ReplayStarts
<1>2. \A k \in Nat : R(k + 1) = IF k + 1 \in ids THEN ApplyDerivedState(ch[k + 1], R(k)) ELSE R(k)
  BY ReplayGoesOn
<1> HIDE DEF R
<1>3. 0 \in G BY <1>1
<1>4. \A k \in Nat : k \in G => k + 1 \in G BY <1>2, ApplyFacts
<1> HIDE DEF G
<1>5. n \in G BY <1>3, <1>4, NatSetInduction
<1> QED BY <1>5 DEF G, R

---------------------------------------------------------------------------
(* The derived state is one replay of the rows.                            *)

FromRows == Replay(rows, NothingDerived)

RowsReplayed == FromRows = ReplayOf(chain, rows, NothingDerived, Len(chain))

LEMMA FromRowsIs == RowsReplayed
BY ReplayIs DEF FromRows, RowsReplayed

LEMMA FromRowsType == TypeOK => FromRows \in DerivedStates
<1> SUFFICES ASSUME TypeOK PROVE FromRows \in DerivedStates OBVIOUS
<1>1. rows \subseteq Ids /\ Len(chain) \in Nat BY TypeParts DEF TypeOK, Ids
<1>2. \A i \in rows : chain[i] \in Events BY <1>1, TypeParts
<1>3. ReplayOf(chain, rows, NothingDerived, Len(chain)) \in DerivedStates
  BY <1>1, <1>2, NothingDerivedType, ReplayType
<1> QED BY <1>3, FromRowsIs DEF RowsReplayed

(* A chain that grows changes nothing in what its first part gives.        *)
LEMMA FromRowsStays ==
  ASSUME RowFacts, RowFacts', Grows, rows' = rows
  PROVE  FromRows' = FromRows
<1>1. /\ Len(chain) \in Nat /\ Len(chain') \in Nat /\ Len(chain) <= Len(chain')
      /\ \A i \in rows : i \in Ids /\ chain[i] = chain'[i]
  BY DEF Grows, RowFacts
<1>2. \A i \in Nat : Len(chain) < i /\ i <= Len(chain') => i \notin rows
  BY <1>1 DEF Ids
<1>3. ReplayOf(chain', rows, NothingDerived, Len(chain')) =
        ReplayOf(chain', rows, NothingDerived, Len(chain))
  BY <1>1, <1>2, ReplayIdle
<1>4. ReplayOf(chain, rows, NothingDerived, Len(chain)) =
        ReplayOf(chain', rows, NothingDerived, Len(chain))
  BY <1>1, ReplayAgrees
<1>5. FromRows' = ReplayOf(chain', rows', NothingDerived, Len(chain'))
  <2>1. RowsReplayed' BY FromRowsIs, PTL
  <2> QED BY <2>1 DEF RowsReplayed
<1> QED BY <1>3, <1>4, <1>5, FromRowsIs DEF RowsReplayed

(* Whatever the version that the database was written by, its minted total  *)
(* is right; all the rest is once the process runs.                         *)
DerivedOK ==
  /\ pc # "down" => version = "2"
  /\ version = "2" => derived = FromRows
  /\ derived.minted = FromRows.minted

LEMMA InsertBatchDerived ==
  ASSUME IInv, LogOK, RowFacts, RowFacts', DerivedOK, InsertBatch, Grows
  PROVE  DerivedOK'
<1> DEFINE fresh == {i \in batch : Relevant(i)} \ rows
<1>1. /\ rows' = rows \cup fresh /\ derived' = Replay(fresh, derived) /\ pc = "fetched"
      /\ chain' = chain /\ version' = version
  BY Zenon DEF InsertBatch, chainVars
<1>2. version = "2" /\ derived = FromRows BY <1>1 DEF DerivedOK
<1>3. \A a \in rows, b \in fresh : a < b BY <1>1 DEF Grows
<1>4. rows \in SUBSET Nat /\ fresh \in SUBSET Nat /\ Len(chain) \in Nat
  BY <1>1, TypeParts DEF IInv, TypeOK, Ids
<1> HIDE DEF fresh
<1>5. derived' = ReplayOf(chain, fresh, derived, Len(chain)) BY <1>1, ReplayIs
<1>6. ReplayOf(chain, rows \cup fresh, NothingDerived, Len(chain)) =
        ReplayOf(chain, fresh, ReplayOf(chain, rows, NothingDerived, Len(chain)), Len(chain))
  BY <1>3, <1>4, ReplayAppends
<1>7. FromRows' = ReplayOf(chain', rows', NothingDerived, Len(chain'))
  <2>1. RowsReplayed' BY FromRowsIs, PTL
  <2> QED BY <2>1 DEF RowsReplayed
<1>8. derived' = FromRows' BY <1>1, <1>2, <1>5, <1>6, <1>7, FromRowsIs DEF RowsReplayed
<1> QED BY <1>1, <1>2, <1>8 DEF DerivedOK

LEMMA BootDerived ==
  ASSUME IInv, DerivedOK, Boot, FromRows' = FromRows
  PROVE  DerivedOK'
<1>1. version' = "2" /\ derived' = IF version = "2" THEN derived
                                  ELSE [FromRows EXCEPT !.minted = derived.minted]
  BY Zenon DEF Boot, FromRows
<1>2. derived' = FromRows
  <2>1. CASE version = "2" BY <1>1, <2>1 DEF DerivedOK
  <2>2. CASE version # "2"
    <3>1. FromRows \in DerivedStates BY FromRowsType DEF IInv
    <3>2. [FromRows EXCEPT !.minted = FromRows.minted] = FromRows
      BY <3>1, Zenon DEF DerivedStates
    <3> QED BY <1>1, <2>2, <3>2 DEF DerivedOK
  <2> QED BY <2>1, <2>2
<1> QED BY <1>1, <1>2 DEF DerivedOK

LEMMA StepDerived ==
  ASSUME IInv, IInv', LogOK, LogOK', DerivedOK, Next
  PROVE  DerivedOK'
<1>1. Grows BY LogStep
<1>2. RowFacts /\ RowFacts' BY RowsBelow, PTL
<1>3. CASE InsertBatch BY <1>1, <1>2, <1>3, InsertBatchDerived
<1>4. rows' = rows => FromRows' = FromRows BY <1>1, <1>2, FromRowsStays
<1>5. CASE Boot
  <2>1. rows' = rows BY <1>5 DEF Boot
  <2> QED BY <1>4, <1>5, <2>1, BootDerived
<1>6. CASE EmitListed \/ EmitPriceUpd \/ EmitEnd \/ EmitOther \/ CloseLedger
  <2>1. UNCHANGED <<dbVars, pc>>
    <3>1. CASE EmitListed \/ EmitPriceUpd \/ EmitEnd \/ EmitOther
      <4>1. PICK e : Emit(e) BY <3>1, Emits
      <4> QED BY <4>1 DEF Emit
    <3> QED BY <1>6, <3>1 DEF CloseLedger
  <2> QED BY <1>4, <2>1 DEF DerivedOK, dbVars
<1>7. CASE StartPoll \/ AnswerOldest \/ AnswerPage \/ SaveCheckpoint \/ RefusePoll \/ FailPoll
           \/ Wake \/ Signal \/ Stop \/ Crash
  <2>1. rows' = rows /\ derived' = derived /\ version' = version
    BY <1>7, Zenon DEF StartPoll, AnswerOldest, AnswerPage, SaveCheckpoint, RefusePoll, FailPoll, Wake,
                Signal, Stop, Crash, dbVars
  <2>2. pc' # "down" => pc # "down"
    BY <1>7 DEF StartPoll, AnswerOldest, AnswerPage, SaveCheckpoint, RefusePoll, FailPoll, Wake,
                Signal, Stop, Crash, Begin
  <2> QED BY <1>4, <2>1, <2>2 DEF DerivedOK
<1> QED BY <1>3, <1>5, <1>6, <1>7 DEF Next, Chain, Process, Node

LEMMA InitDerived == Init => DerivedOK
<1> SUFFICES ASSUME Init PROVE DerivedOK OBVIOUS
<1>1. pc = "down" BY DEF Init
<1>2. CASE Fresh
  <2>1. /\ rows = {} /\ derived = NothingDerived /\ chain = << >>
    BY <1>2 DEF Fresh
  <2>2. Len(chain) = 0 BY <2>1
  <2>3. FromRows = NothingDerived BY <2>2, FromRowsIs, ReplayStarts DEF RowsReplayed
  <2> QED BY <1>1, <2>1, <2>3 DEF DerivedOK
<1>3. CASE Legacy
  <2>1. PICK l \in Listings, p \in Prices, c \in Currencies :
          /\ height = 1 /\ version = "1" /\ rows = {1, 2}
          /\ chain = << [Event("listed", l, p, c, TRUE) EXCEPT !.ledger = 1],
                        [Event("sold", l, p, c, TRUE) EXCEPT !.ledger = 1] >>
          /\ derived = [NothingDerived EXCEPT !.listings[l] =
                          [status |-> "active", price |-> p, currency |-> c]]
    BY <1>3, Zenon DEF Legacy
  <2>2. derived.minted = NothingDerived.minted
    <3>1. NothingDerived \in DerivedStates BY NothingDerivedType
    <3> QED BY <2>1, <3>1, Zenon DEF DerivedStates
  <2>3. chain[1] \in Events /\ chain[2] \in Events /\ Len(chain) = 2
    <3>1. Len(chain) = 2 BY <2>1
    <3>2. TypeOK BY InitInvariant DEF IInv
    <3> QED BY <3>1, <3>2, TypeParts DEF Ids
  <2>4. chain[1].kind = "listed" /\ chain[2].kind = "sold"
    <3>1. [Event("listed", l, p, c, TRUE) EXCEPT !.ledger = 1].kind = "listed" BY DEF Event
    <3>2. [Event("sold", l, p, c, TRUE) EXCEPT !.ledger = 1].kind = "sold" BY DEF Event
    <3> QED BY <2>1, <3>1, <3>2
  <2>5. rows = {1, 2} /\ version = "1" BY <2>1
  <2> DEFINE R(n) == ReplayOf(chain, rows, NothingDerived, n)
  <2>6. R(0) = NothingDerived BY ReplayStarts
  <2>7. \A n \in Nat : R(n + 1) = IF n + 1 \in rows THEN ApplyDerivedState(chain[n + 1], R(n))
                                  ELSE R(n)
    BY ReplayGoesOn
  <2> HIDE DEF R
  <2>8. R(1) = ApplyDerivedState(chain[1], NothingDerived)
    <3>1. R(0 + 1) = ApplyDerivedState(chain[0 + 1], R(0)) BY <2>5, <2>7
    <3> QED BY <2>6, <3>1
  <2>9. R(2) = ApplyDerivedState(chain[2], R(1))
    <3>1. R(1 + 1) = ApplyDerivedState(chain[1 + 1], R(1)) BY <2>5, <2>7
    <3> QED BY <3>1
  <2>10. R(1) \in DerivedStates /\ R(1).minted = NothingDerived.minted
    BY <2>3, <2>4, <2>8, NothingDerivedType, ApplyFacts
  <2>11. R(2).minted = NothingDerived.minted
    BY <2>3, <2>4, <2>9, <2>10, ApplyFacts
  <2>12. FromRows = R(2) BY <2>3, FromRowsIs DEF RowsReplayed, R
  <2>13. version # "2" BY <2>5
  <2> HIDE <1>3
  <2>14. derived.minted = FromRows.minted BY <2>2, <2>11, <2>12
  <2> QED BY <1>1, <2>13, <2>14 DEF DerivedOK
<1> QED BY <1>2, <1>3 DEF Init

LEMMA DerivedInvariant == Spec => [](IInv /\ LogOK /\ DerivedOK)
<1>1. Init => DerivedOK BY InitDerived
<1>2. IInv /\ IInv' /\ LogOK /\ LogOK' /\ DerivedOK /\ [Next]_vars => DerivedOK'
  <2> SUFFICES ASSUME IInv, IInv', LogOK, LogOK', DerivedOK, [Next]_vars PROVE DerivedOK'
    OBVIOUS
  <2>1. CASE Next BY <2>1, StepDerived
  <2>2. CASE UNCHANGED vars
    BY <2>2 DEF vars, chainVars, dbVars, cycleVars, DerivedOK, FromRows, Replay
  <2> QED BY <2>1, <2>2
<1> QED BY <1>1, <1>2, LogInvariant, PTL DEF Spec

(* While the process runs, the listings, the volumes and the minted total   *)
(* in the database are what one replay of the events table gives: for any   *)
(* chain, page size and window, after any re-fetch, crash or migration.     *)
THEOREM DerivedIsExact == Spec => []DerivedExact
<1>1. DerivedOK => DerivedExact BY DEF DerivedOK, DerivedExact, FromRows
<1> QED BY <1>1, DerivedInvariant, PTL

---------------------------------------------------------------------------
(* The two ways to count agree.                                            *)

(* Every event lies on a day, and a listing is asked in a known currency.   *)
DaysOK ==
  /\ height <= MaxLedger
  /\ \A i \in Ids : /\ 1 <= chain[i].ledger
                    /\ chain[i].kind = "listed" => chain[i].currency \in Currencies

LEMMA EmitDays ==
  ASSUME IInv, DaysOK, NEW e, Emit(e), e.ledger = height + 1,
         e.kind = "listed" => e.currency \in Currencies
  PROVE  DaysOK'
<1>1. chain' = Append(chain, e) /\ height' = height /\ height \in Nat /\ Len(chain) \in Nat
  BY DEF Emit, IInv, TypeOK
<1>2. Len(chain') = Len(chain) + 1 /\ chain'[Len(chain) + 1] = e
      /\ \A i \in Ids : chain'[i] = chain[i]
  BY <1>1 DEF IInv, TypeOK, Ids
<1>3. \A i \in Ids' : i \in Ids \/ i = Len(chain) + 1 BY <1>1, <1>2 DEF Ids
<1>4. 1 <= e.ledger BY <1>1
<1> QED BY <1>1, <1>2, <1>3, <1>4 DEF DaysOK

LEMMA StepDays ==
  ASSUME IInv, DaysOK, Next
  PROVE  DaysOK'
<1>1. \A kind, l, p, c, ok : /\ Event(kind, l, p, c, ok).ledger = height + 1
                             /\ Event(kind, l, p, c, ok).kind = kind
                             /\ Event(kind, l, p, c, ok).currency = c
  BY DEF Event
<1>2. CASE EmitListed
  <2>1. PICK l \in Listings, p \in Prices, c \in Currencies : Emit(Event("listed", l, p, c, TRUE))
    BY <1>2, Zenon DEF EmitListed
  <2>2. Event("listed", l, p, c, TRUE).ledger = height + 1
        /\ Event("listed", l, p, c, TRUE).currency \in Currencies
    BY DEF Event
  <2> QED BY <2>1, <2>2, EmitDays
<1>3. CASE EmitPriceUpd \/ EmitEnd \/ EmitOther
  <2>1. PICK kind, l, p, c, ok :
          kind \in EventKinds \ {"listed"} /\ Emit(Event(kind, l, p, c, ok))
    <3>1. CASE EmitPriceUpd
      <4>1. "price_upd" \in EventKinds \ {"listed"} BY DEF EventKinds, EndKinds
      <4> QED BY <3>1, <4>1, Zenon DEF EmitPriceUpd
    <3>2. CASE EmitEnd
      <4>1. EndKinds \cup {"offer_acc"} \subseteq EventKinds \ {"listed"} BY DEF EventKinds, EndKinds
      <4> QED BY <3>2, <4>1, Zenon DEF EmitEnd
    <3>3. CASE EmitOther
      <4>1. {"mint", "claim", "sold", "junk"} \subseteq EventKinds \ {"listed"}
        BY DEF EventKinds, EndKinds
      <4> QED BY <3>3, <4>1, Zenon DEF EmitOther
    <3> QED BY <1>3, <3>1, <3>2, <3>3
  <2>2. Event(kind, l, p, c, ok).ledger = height + 1 /\ Event(kind, l, p, c, ok).kind # "listed"
    BY <1>1, <2>1
  <2> QED BY <2>1, <2>2, EmitDays
<1>4. CASE CloseLedger
  <2>1. height < MaxLedger /\ height' = height + 1 /\ chain' = chain /\ height \in Nat /\ MaxLedger \in Nat
    BY <1>4, IndexerAssumption DEF CloseLedger, IInv, TypeOK
  <2> QED BY <2>1 DEF DaysOK, Ids
<1>5. CASE UNCHANGED chainVars BY <1>5 DEF chainVars, DaysOK, Ids
<1>6. Next => EmitListed \/ EmitPriceUpd \/ EmitEnd \/ EmitOther \/ CloseLedger \/ UNCHANGED chainVars
  BY Zenon DEF Next, Chain, Process, Node, Boot, StartPoll, InsertBatch, SaveCheckpoint, Wake, Stop,
     AnswerOldest, AnswerPage, RefusePoll, FailPoll, Signal, Crash
<1> QED BY <1>2, <1>3, <1>4, <1>5, <1>6

LEMMA InitDays == Init => DaysOK
<1> SUFFICES ASSUME Init PROVE DaysOK OBVIOUS
<1>1. CASE Fresh
  <2>1. height = 0 /\ Len(chain) = 0 /\ MaxLedger \in Nat BY <1>1, IndexerAssumption DEF Fresh
  <2> QED BY <2>1 DEF DaysOK, Ids
<1>2. CASE Legacy
  <2>1. PICK l \in Listings, p \in Prices, c \in Currencies :
          /\ height = 1 /\ MaxLedger > 0
          /\ chain = << [Event("listed", l, p, c, TRUE) EXCEPT !.ledger = 1],
                        [Event("sold", l, p, c, TRUE) EXCEPT !.ledger = 1] >>
    BY <1>2, Zenon DEF Legacy
  <2>2. /\ [Event("listed", l, p, c, TRUE) EXCEPT !.ledger = 1].ledger = 1
        /\ [Event("listed", l, p, c, TRUE) EXCEPT !.ledger = 1].currency = c
        /\ [Event("sold", l, p, c, TRUE) EXCEPT !.ledger = 1].ledger = 1
        /\ [Event("sold", l, p, c, TRUE) EXCEPT !.ledger = 1].kind = "sold"
    BY DEF Event
  <2>3. /\ chain[1].ledger = 1 /\ chain[1].currency \in Currencies
        /\ chain[2].ledger = 1 /\ chain[2].kind = "sold" /\ Len(chain) = 2
    BY <2>1, <2>2
  <2>4. height <= MaxLedger BY <2>1, IndexerAssumption
  <2>5. Ids = {1, 2} BY <2>3 DEF Ids
  <2> HIDE <1>2
  <2>6. \A i \in Ids : i = 1 \/ i = 2 BY <2>5
  <2> QED BY <2>3, <2>4, <2>6 DEF DaysOK
<1> QED BY <1>1, <1>2 DEF Init

(* What was paid in the events with these ids.                             *)
Paid(ids) == SumFunctionOnSet([i \in Ids |-> chain[i].price], ids)
Upto(ids, n) == {i \in ids : i <= n}

LEMMA TotalIsPaid ==
  ASSUME NEW ids, ids \subseteq Ids
  PROVE  Total(ids) = Paid(ids)
<1> DEFINE f == [i \in ids |-> chain[i].price]
           g == [i \in Ids |-> chain[i].price]
<1>1. DOMAIN f = ids /\ \A i \in ids : f[i] = g[i] OBVIOUS
<1>2. IsFiniteSet(ids)
  <2>1. IsFiniteSet(Ids) BY FS_Interval DEF Ids
  <2> QED BY <2>1, FS_Subset
<1>3. Total(ids) = SumFunctionOnSet(f, ids) BY <1>1 DEF Total, SumFunction
<1> HIDE DEF f, g
<1> QED BY <1>1, <1>2, <1>3, SumAgree DEF Paid, g

LEMMA PaidParts ==
  ASSUME TypeOK, NEW ids, ids \subseteq Ids
  PROVE  /\ IsFiniteSet(ids)
         /\ \A i \in ids : [j \in Ids |-> chain[j].price][i] = chain[i].price
                           /\ chain[i].price \in Nat
<1>1. IsFiniteSet(Ids)
  <2>1. Len(chain) \in Nat BY DEF TypeOK
  <2> QED BY <2>1, FS_Interval DEF Ids
<1>2. \A i \in ids : chain[i].price \in Nat
  <2>1. \A i \in Ids : chain[i] \in Events BY TypeParts
  <2> QED BY <2>1 DEF Events
<1> QED BY <1>1, <1>2, FS_Subset

LEMMA PaidUpto ==
  ASSUME TypeOK, NEW ids, ids \subseteq Ids
  PROVE  /\ Paid(Upto(ids, 0)) = 0
         /\ Upto(ids, Len(chain)) = ids
         /\ \A k \in Nat : Paid(Upto(ids, k + 1)) =
              IF k + 1 \in ids THEN Paid(Upto(ids, k)) + chain[k + 1].price
              ELSE Paid(Upto(ids, k))
<1>1. Len(chain) \in Nat /\ \A i \in ids : i \in Nat /\ 1 <= i /\ i <= Len(chain)
  BY DEF TypeOK, Ids
<1>2. Upto(ids, 0) = {}
  <2>1. \A i \in ids : ~(i <= 0) BY <1>1
  <2> QED BY <2>1 DEF Upto
<1>3. Upto(ids, Len(chain)) = ids BY <1>1 DEF Upto
<1>4. ASSUME NEW k \in Nat PROVE Paid(Upto(ids, k + 1)) =
              IF k + 1 \in ids THEN Paid(Upto(ids, k)) + chain[k + 1].price
              ELSE Paid(Upto(ids, k))
  <2>1. CASE k + 1 \in ids
    <3> DEFINE f == [i \in Ids |-> chain[i].price]
               S == Upto(ids, k)
    <3>1. Upto(ids, k + 1) = S \cup {k + 1} /\ k + 1 \notin S /\ S \subseteq Ids
      <4>1. \A i \in ids : i <= k + 1 <=> i <= k \/ i = k + 1 BY <1>1
      <4>2. ~(k + 1 <= k) /\ S \subseteq ids BY DEF Upto
      <4> QED BY <2>1, <4>1, <4>2 DEF Upto
    <3>2. S \cup {k + 1} \subseteq Ids BY <2>1, <3>1
    <3> HIDE DEF S
    <3>3. IsFiniteSet(S) /\ (\A i \in S \cup {k + 1} : f[i] \in Int) /\ f[k + 1] = chain[k + 1].price
      <4>1. IsFiniteSet(S) BY <3>1, PaidParts
      <4>2. \A i \in S \cup {k + 1} : f[i] = chain[i].price /\ chain[i].price \in Nat
        BY <3>2, PaidParts
      <4> HIDE DEF f
      <4> QED BY <4>1, <4>2
    <3> HIDE DEF f
    <3>4. SumFunctionOnSet(f, S \cup {k + 1}) = SumFunctionOnSet(f, S) + f[k + 1]
      BY <3>1, <3>3, SumAdd
    <3> QED BY <2>1, <3>1, <3>3, <3>4 DEF Paid, f, S
  <2>2. CASE k + 1 \notin ids
    <3>1. \A i \in ids : i <= k + 1 <=> i <= k BY <1>1, <2>2
    <3>2. Upto(ids, k + 1) = Upto(ids, k) BY <3>1 DEF Upto
    <3> QED BY <2>2, <3>2
  <2> QED BY <2>1, <2>2
<1> QED BY <1>2, <1>3, <1>4, SumEmpty DEF Paid

SoldIn(c) == {i \in OfKind("sold") : chain[i].currency = c}

(* What the events table adds up to, whatever order it is read in.         *)
LEMMA FromRowsTotals ==
  ASSUME TypeOK
  PROVE  /\ FromRows.minted = Paid(OfKind("mint"))
         /\ \A c \in Currencies : FromRows.volume[c] = Paid(SoldIn(c))
<1> DEFINE R(n) == ReplayOf(chain, rows, NothingDerived, n)
<1>1. /\ rows \subseteq Ids /\ Len(chain) \in Nat /\ rows \subseteq Nat
      /\ \A i \in rows : chain[i] \in Events
  <2>1. rows \subseteq Ids /\ Len(chain) \in Nat BY DEF TypeOK, Ids
  <2> QED BY <2>1, TypeParts
<1>2. R(0) = NothingDerived BY ReplayStarts
<1>3. \A k \in Nat : R(k + 1) = IF k + 1 \in rows THEN ApplyDerivedState(chain[k + 1], R(k)) ELSE R(k)
  BY ReplayGoesOn
<1>4. \A k \in Nat : R(k) \in DerivedStates BY <1>1, NothingDerivedType, ReplayType
<1>5. FromRows = R(Len(chain)) BY FromRowsIs DEF RowsReplayed
<1> HIDE DEF R
<1>6. /\ NothingDerived.minted = 0
      /\ \A c \in Currencies : NothingDerived.volume[c] = 0
  BY DEF NothingDerived
<1>7. FromRows.minted = Paid(OfKind("mint"))
  <2> DEFINE S == OfKind("mint")
             P(k) == Paid(Upto(S, k))
             G == {k \in Nat : R(k).minted = P(k)}
  <2>1. S \subseteq Ids /\ \A i \in Nat : i \in S <=> i \in rows /\ chain[i].kind = "mint"
    BY <1>1 DEF OfKind
  <2> HIDE DEF S
  <2>2. /\ P(0) = 0 /\ P(Len(chain)) = Paid(S)
        /\ \A k \in Nat : P(k + 1) = IF k + 1 \in S THEN P(k) + chain[k + 1].price ELSE P(k)
    BY <2>1, PaidUpto
  <2> HIDE DEF P
  <2>3. 0 \in G BY <1>2, <1>6, <2>2
  <2>4. ASSUME NEW k \in Nat, k \in G PROVE k + 1 \in G
    <3>1. k + 1 \in rows => R(k + 1).minted =
            IF chain[k + 1].kind = "mint" THEN R(k).minted + chain[k + 1].price ELSE R(k).minted
      <4> SUFFICES ASSUME k + 1 \in rows PROVE R(k + 1).minted =
            IF chain[k + 1].kind = "mint" THEN R(k).minted + chain[k + 1].price ELSE R(k).minted
        OBVIOUS
      <4>1. chain[k + 1] \in Events /\ R(k) \in DerivedStates
            /\ R(k + 1) = ApplyDerivedState(chain[k + 1], R(k))
        BY <1>1, <1>3, <1>4
      <4> QED BY <4>1, ApplyFacts
    <3>2. k + 1 \in Nat /\ R(k).minted = P(k) BY <2>4
    <3>3. R(k + 1).minted = P(k + 1)
      <4>1. CASE k + 1 \in rows BY <2>1, <2>2, <3>1, <3>2, <4>1
      <4>2. CASE k + 1 \notin rows BY <1>3, <2>1, <2>2, <3>2, <4>2
      <4> QED BY <4>1, <4>2
    <3> QED BY <3>2, <3>3
  <2> HIDE DEF G
  <2>5. Len(chain) \in G BY <1>1, <2>3, <2>4, NatSetInduction
  <2> QED BY <1>5, <2>2, <2>5 DEF G, S
<1>8. ASSUME NEW c \in Currencies PROVE FromRows.volume[c] = Paid(SoldIn(c))
  <2> DEFINE S == SoldIn(c)
             P(k) == Paid(Upto(S, k))
             G == {k \in Nat : R(k).volume[c] = P(k)}
  <2>1. S \subseteq Ids
        /\ \A i \in Nat : i \in S <=> i \in rows /\ chain[i].kind = "sold" /\ chain[i].currency = c
    BY <1>1 DEF OfKind, SoldIn
  <2> HIDE DEF S
  <2>2. /\ P(0) = 0 /\ P(Len(chain)) = Paid(S)
        /\ \A k \in Nat : P(k + 1) = IF k + 1 \in S THEN P(k) + chain[k + 1].price ELSE P(k)
    BY <2>1, PaidUpto
  <2> HIDE DEF P
  <2>3. 0 \in G BY <1>2, <1>6, <2>2
  <2>4. ASSUME NEW k \in Nat, k \in G PROVE k + 1 \in G
    <3>1. k + 1 \in rows => R(k + 1).volume[c] =
            IF chain[k + 1].kind = "sold" /\ chain[k + 1].currency = c
            THEN R(k).volume[c] + chain[k + 1].price ELSE R(k).volume[c]
      <4> SUFFICES ASSUME k + 1 \in rows PROVE R(k + 1).volume[c] =
            IF chain[k + 1].kind = "sold" /\ chain[k + 1].currency = c
            THEN R(k).volume[c] + chain[k + 1].price ELSE R(k).volume[c]
        OBVIOUS
      <4>1. chain[k + 1] \in Events /\ R(k) \in DerivedStates
            /\ R(k + 1) = ApplyDerivedState(chain[k + 1], R(k))
        BY <1>1, <1>3, <1>4
      <4> QED BY <4>1, ApplyFacts
    <3>2. k + 1 \in Nat /\ R(k).volume[c] = P(k) BY <2>4
    <3>3. R(k + 1).volume[c] = P(k + 1)
      <4>1. CASE k + 1 \in rows BY <2>1, <2>2, <3>1, <3>2, <4>1
      <4>2. CASE k + 1 \notin rows BY <1>3, <2>1, <2>2, <3>2, <4>2
      <4> QED BY <4>1, <4>2
    <3> QED BY <3>2, <3>3
  <2> HIDE DEF G
  <2>5. Len(chain) \in G BY <1>1, <2>3, <2>4, NatSetInduction
  <2> QED BY <1>5, <2>2, <2>5 DEF G, S
<1> QED BY <1>7, <1>8

(* What one event does to one listing.                                     *)
Effect(e, l, old, new) ==
  /\ l # e.listing => new = old
  /\ l = e.listing /\ e.kind = "listed" =>
       new = [status |-> "active", price |-> e.price, currency |-> e.currency]
  /\ l = e.listing /\ e.kind \in EndKinds => new = [old EXCEPT !.status = e.kind]
  /\ l = e.listing /\ e.kind = "price_upd" =>
       new = IF old.status = "active" THEN [old EXCEPT !.price = e.price] ELSE old
  /\ e.kind \notin EndKinds \cup {"listed", "price_upd"} => new = old

LEMMA ListingEffect ==
  ASSUME NEW e \in Events, NEW d \in DerivedStates, NEW l \in Listings
  PROVE  Effect(e, l, d.listings[l], ApplyDerivedState(e, d).listings[l])
<1> DEFINE table == d.listings
<1>1. table \in [Listings -> Entries] /\ e.listing \in Listings BY DEF DerivedStates, Events
<1>2. ApplyDerivedState(e, d).listings = ApplyListingState(e, table) BY ApplyFacts
<1> HIDE DEF table
<1>3. CASE e.kind = "listed"
  <2>2. e.kind \notin EndKinds /\ e.kind # "price_upd" BY <1>3 DEF EndKinds
  <2>1. ApplyListingState(e, table) =
          [table EXCEPT ![e.listing] =
             [status |-> "active", price |-> e.price, currency |-> e.currency]]
    BY <1>3, <2>2, Zenon DEF ApplyListingState
  <2> QED BY <1>1, <1>2, <1>3, <2>1, <2>2 DEF table, Effect
<1>4. CASE e.kind \in EndKinds
  <2>1. e.kind # "listed" /\ e.kind # "price_upd" BY <1>4 DEF EndKinds
  <2>2. ApplyListingState(e, table) = Closed(table, e.listing, e.kind)
    BY <1>4, <2>1, Zenon DEF ApplyListingState
  <2>3. Closed(table, e.listing, e.kind) =
          [table EXCEPT ![e.listing] = [table[e.listing] EXCEPT !.status = e.kind]]
    BY Zenon DEF Closed
  <2> QED BY <1>1, <1>2, <1>4, <2>1, <2>2, <2>3 DEF table, Effect
<1>5. CASE e.kind = "price_upd"
  <2>1. e.kind \notin EndKinds /\ e.kind # "listed" BY <1>5 DEF EndKinds
  <2>2. CASE table[e.listing].status = "active"
    <3>1. ApplyListingState(e, table) = [table EXCEPT ![e.listing].price = e.price]
      BY <1>5, <2>1, <2>2, Zenon DEF ApplyListingState
    <3>2. [table EXCEPT ![e.listing].price = e.price] =
            [table EXCEPT ![e.listing] = [table[e.listing] EXCEPT !.price = e.price]]
      BY Zenon
    <3> QED BY <1>1, <1>2, <1>5, <2>1, <2>2, <3>1, <3>2 DEF table, Effect
  <2>3. CASE table[e.listing].status # "active"
    <3>1. ApplyListingState(e, table) = table
      BY <1>5, <2>1, <2>3, Zenon DEF ApplyListingState
    <3> QED BY <1>1, <1>2, <1>5, <2>1, <2>3, <3>1 DEF table, Effect
  <2> QED BY <2>2, <2>3
<1>6. CASE e.kind \notin EndKinds \cup {"listed", "price_upd"}
  <2>1. ApplyListingState(e, table) = table BY <1>6, Zenon DEF ApplyListingState
  <2> QED BY <1>2, <1>6, <2>1 DEF table, Effect
<1> QED BY <1>3, <1>4, <1>5, <1>6

(* An active listing is asked for in a currency that is known.             *)
LEMMA ActiveTyped ==
  ASSUME TypeOK, DaysOK, NEW l \in Listings, FromRows.listings[l].status = "active"
  PROVE  FromRows.listings[l].currency \in Currencies
<1> DEFINE R(n) == ReplayOf(chain, rows, NothingDerived, n)
           G == {n \in Nat : R(n).listings[l].status = "active" =>
                               R(n).listings[l].currency \in Currencies}
<1>1. /\ Len(chain) \in Nat
      /\ \A i \in rows : /\ chain[i] \in Events
                         /\ chain[i].kind = "listed" => chain[i].currency \in Currencies
  <2>1. rows \subseteq Ids /\ Len(chain) \in Nat BY DEF TypeOK, Ids
  <2> QED BY <2>1, TypeParts DEF DaysOK
<1>2. R(0) = NothingDerived BY ReplayStarts
<1>3. \A k \in Nat : R(k + 1) = IF k + 1 \in rows THEN ApplyDerivedState(chain[k + 1], R(k)) ELSE R(k)
  BY ReplayGoesOn
<1>4. \A k \in Nat : R(k) \in DerivedStates BY <1>1, NothingDerivedType, ReplayType
<1>5. FromRows = R(Len(chain)) BY FromRowsIs DEF RowsReplayed
<1> HIDE DEF R
<1>6. NothingDerived.listings[l].status # "active"
  <2>1. NothingDerived.listings[l] = Absent BY DEF NothingDerived
  <2>2. Absent.status = "absent" BY DEF Absent
  <2> QED BY <2>1, <2>2
<1>7. 0 \in G BY <1>2, <1>6
<1>8. ASSUME NEW k \in Nat, k \in G PROVE k + 1 \in G
  <2>1. CASE k + 1 \in rows
    <3> DEFINE e == chain[k + 1]
               old == R(k).listings[l]
               new == R(k + 1).listings[l]
    <3>1. e \in Events /\ (e.kind = "listed" => e.currency \in Currencies) BY <1>1, <2>1
    <3>2. R(k + 1) = ApplyDerivedState(e, R(k)) /\ R(k) \in DerivedStates BY <1>3, <1>4, <2>1
    <3>3. old \in Entries BY <3>2 DEF DerivedStates
    <3>4. old.status = "active" => old.currency \in Currencies BY <1>8
    <3> HIDE DEF e
    <3>5. Effect(e, l, old, new) BY <3>1, <3>2, ListingEffect
    <3> HIDE DEF old, new
    <3> USE DEF Effect
    <3>6. /\ [old EXCEPT !.status = e.kind].status = e.kind
          /\ [old EXCEPT !.price = e.price].currency = old.currency
      BY <3>3, Zenon DEF Entries
    <3>7. e.kind \in EndKinds => e.kind # "active" BY DEF EndKinds
    <3>8. new.status = "active" => new.currency \in Currencies
      <4>1. CASE l = e.listing /\ e.kind = "listed" BY <3>1, <3>5, <4>1
      <4>2. CASE l = e.listing /\ e.kind \in EndKinds BY <3>5, <3>6, <3>7, <4>2
      <4>3. CASE l = e.listing /\ e.kind = "price_upd"
        <5>1. new = IF old.status = "active" THEN [old EXCEPT !.price = e.price] ELSE old
          BY <3>5, <4>3
        <5> QED BY <3>4, <3>6, <5>1
      <4>4. CASE new = old BY <3>4, <4>4
      <4> QED BY <3>5, <4>1, <4>2, <4>3, <4>4
    <3> QED BY <3>8 DEF new
  <2>2. CASE k + 1 \notin rows
    <3>1. R(k + 1) = R(k) BY <1>3, <2>2
    <3> QED BY <1>8, <3>1
  <2> QED BY <2>1, <2>2
<1> HIDE DEF G
<1>9. Len(chain) \in G BY <1>1, <1>7, <1>8, NatSetInduction
<1> QED BY <1>5, <1>9 DEF G

LedgerOf == [i \in Ids |-> chain[i].ledger]

(* Adding up by day adds up.                                               *)
LEMMA DaysAddUp ==
  ASSUME IInv, LogOK, DaysOK, NEW ids, ids \subseteq rows
  PROVE  /\ SumFunctionOnSet([d \in 1 .. MaxLedger |-> Total({i \in ids : chain[i].ledger = d})],
                             1 .. MaxLedger) = Total(ids)
         /\ SumFunctionOnSet([d \in 1 .. MaxLedger |-> Cardinality({i \in ids : chain[i].ledger = d})],
                             1 .. MaxLedger) = Cardinality(ids)
<1> DEFINE D == 1 .. MaxLedger
           f == [i \in Ids |-> chain[i].price]
           t == [d \in D |-> Total({i \in ids : chain[i].ledger = d})]
           k == [d \in D |-> Cardinality({i \in ids : chain[i].ledger = d})]
<1>1. TypeOK /\ rows \subseteq Ids /\ ids \subseteq Ids BY DEF IInv, TypeOK, Ids
<1>2. IsFiniteSet(D) /\ MaxLedger \in Nat BY IndexerAssumption, FS_Interval
<1>3. \A i \in ids : LedgerOf[i] = chain[i].ledger /\ LedgerOf[i] \in D
  <2> SUFFICES ASSUME NEW i \in ids PROVE LedgerOf[i] = chain[i].ledger /\ LedgerOf[i] \in D
    OBVIOUS
  <2>1. i \in Ids /\ i \in rows BY <1>1
  <2>2. LedgerOf[i] = chain[i].ledger BY <2>1 DEF LedgerOf
  <2>3. chain[i].ledger \in Nat /\ height \in Nat BY <1>1, <2>1, TypeParts
  <2>4. 1 <= chain[i].ledger /\ chain[i].ledger <= height /\ height <= MaxLedger
    BY <2>1 DEF DaysOK, LogOK
  <2> QED BY <1>2, <2>2, <2>3, <2>4
<1>4. IsFiniteSet(ids) /\ \A i \in ids : f[i] \in Int
  <2>1. /\ IsFiniteSet(ids)
        /\ \A i \in ids : f[i] = chain[i].price /\ chain[i].price \in Nat
    BY <1>1, PaidParts
  <2> HIDE DEF f
  <2> QED BY <2>1
<1> HIDE DEF D
<1>5. \A d \in D : InClass(ids, LedgerOf, d) = {i \in ids : chain[i].ledger = d}
  BY <1>3 DEF InClass
<1>6. ASSUME NEW d \in D PROVE t[d] = ClassSums(f, ids, LedgerOf, D)[d]
  <2>1. t[d] = Total(InClass(ids, LedgerOf, d)) BY <1>5
  <2>2. InClass(ids, LedgerOf, d) \subseteq Ids BY <1>1 DEF InClass
  <2>3. t[d] = SumFunctionOnSet(f, InClass(ids, LedgerOf, d))
    BY <2>1, <2>2, TotalIsPaid DEF Paid
  <2> QED BY <2>3 DEF ClassSums
<1>7. SumFunctionOnSet(f, ids) = Total(ids) BY <1>1, TotalIsPaid DEF Paid
<1> HIDE DEF f, t
<1>8. SumFunctionOnSet(t, D) = SumFunctionOnSet(ClassSums(f, ids, LedgerOf, D), D)
  BY <1>2, <1>6, SumAgree
<1>9. SumFunctionOnSet(ClassSums(f, ids, LedgerOf, D), D) = SumFunctionOnSet(f, ids)
  BY <1>2, <1>3, <1>4, SumPartition
<1>10. SumFunctionOnSet(k, D) = Cardinality(ids)
  <2>1. \A d \in D : k[d] = [e \in D |-> Cardinality(InClass(ids, LedgerOf, e))][d] BY <1>5
  <2> HIDE DEF k
  <2>2. SumFunctionOnSet(k, D) =
          SumFunctionOnSet([e \in D |-> Cardinality(InClass(ids, LedgerOf, e))], D)
    BY <1>2, <2>1, SumAgree
  <2> QED BY <1>2, <1>3, <1>4, <2>2, CountPartition
<1> QED BY <1>7, <1>8, <1>9, <1>10 DEF t, k, D

(* Every active listing is in the summary of one market.                   *)
LEMMA MarketsAddUp ==
  ASSUME TypeOK, DaysOK, derived = FromRows
  PROVE  SumFunction([c \in DOMAIN Summary.markets |-> Summary.markets[c].active]) = Summary.active
<1> DEFINE D == {c \in Currencies : derived.volume[c] > 0 \/ ActiveIn(c) # {}}
           g == [l \in Listings |-> derived.listings[l].currency]
           f == [c \in DOMAIN Summary.markets |-> Summary.markets[c].active]
<1>1. Summary.markets = MarketSummaries /\ Summary.active = Cardinality(ActiveListings)
  BY DEF Summary
<1>2. DOMAIN f = D /\ \A c \in D : f[c] = Cardinality(ActiveIn(c))
  BY <1>1 DEF MarketSummaries
<1>3. IsFiniteSet(D) /\ IsFiniteSet(ActiveListings)
  BY IndexerAssumption, FS_Subset DEF ActiveListings
<1>4. \A l \in ActiveListings : g[l] = derived.listings[l].currency BY DEF ActiveListings
<1>5. \A c : ActiveIn(c) = InClass(ActiveListings, g, c) BY <1>4 DEF ActiveIn, InClass
<1>6. ASSUME NEW l \in ActiveListings PROVE g[l] \in D
  <2>1. l \in Listings /\ FromRows.listings[l].status = "active" BY DEF ActiveListings
  <2>2. g[l] \in Currencies BY <1>4, <2>1, ActiveTyped
  <2>3. l \in ActiveIn(g[l]) BY <1>5 DEF InClass
  <2> QED BY <2>2, <2>3
<1>7. SumFunction(f) = SumFunctionOnSet(f, D) BY <1>2 DEF SumFunction
<1> HIDE DEF f, g, D
<1>8. \A c \in D : f[c] = [e \in D |-> Cardinality(InClass(ActiveListings, g, e))][c]
  BY <1>2, <1>5
<1>9. SumFunctionOnSet(f, D) =
        SumFunctionOnSet([e \in D |-> Cardinality(InClass(ActiveListings, g, e))], D)
  BY <1>3, <1>8, SumAgree
<1>10. SumFunctionOnSet([e \in D |-> Cardinality(InClass(ActiveListings, g, e))], D) =
         Cardinality(ActiveListings)
  BY <1>3, <1>6, CountPartition
<1> QED BY <1>1, <1>7, <1>9, <1>10 DEF f

LEMMA AddsUp ==
  ASSUME IInv, LogOK, DerivedOK, DaysOK
  PROVE  DailyAddsUp
<1> SUFFICES ASSUME version = "2"
             PROVE
    /\ SumFunction([c \in DOMAIN Summary.markets |-> Summary.markets[c].active]) = Summary.active
    /\ SumFunction(Daily.claims) = Summary.claims
    /\ SumFunction(Daily.minted) = Summary.minted
    /\ \A c \in Currencies : SumFunction(Daily.volume[c]) = derived.volume[c]
  BY DEF DailyAddsUp
<1>1. derived = FromRows /\ TypeOK BY DEF DerivedOK, IInv
<1>2. /\ derived.minted = Paid(OfKind("mint"))
      /\ \A c \in Currencies : derived.volume[c] = Paid(SoldIn(c))
  BY <1>1, FromRowsTotals
<1>3. \A kind : OfKind(kind) \subseteq rows BY DEF OfKind
<1>4. rows \subseteq Ids BY <1>1 DEF TypeOK, Ids
<1>5. Summary.claims = CountOf("claim") /\ Summary.minted = derived.minted BY DEF Summary
<1> DEFINE D == 1 .. MaxLedger
<1>6. \A kind, d : OnDay(d, kind) = {i \in OfKind(kind) : chain[i].ledger = d} BY DEF OnDay
<1>7. SumFunction(Daily.claims) = Summary.claims
  <2>1. Daily.claims =
          [d \in D |-> Cardinality({i \in OfKind("claim") : chain[i].ledger = d})]
    BY DEF Daily, OnDay
  <2>2. SumFunctionOnSet([d \in D |-> Cardinality({i \in OfKind("claim") : chain[i].ledger = d})], D)
          = Cardinality(OfKind("claim"))
    BY <1>3, DaysAddUp
  <2> QED BY <1>5, <2>1, <2>2 DEF SumFunction, CountOf
<1>8. SumFunction(Daily.minted) = Summary.minted
  <2>1. Daily.minted =
          [d \in D |-> Total({i \in OfKind("mint") : chain[i].ledger = d})]
    BY DEF Daily, OnDay
  <2>2. SumFunctionOnSet([d \in D |-> Total({i \in OfKind("mint") : chain[i].ledger = d})], D)
          = Total(OfKind("mint"))
    BY <1>3, DaysAddUp
  <2>3. Total(OfKind("mint")) = Paid(OfKind("mint"))
    <3>1. OfKind("mint") \subseteq Ids BY <1>3, <1>4
    <3> QED BY <3>1, TotalIsPaid
  <2> QED BY <1>2, <1>5, <2>1, <2>2, <2>3 DEF SumFunction
<1>9. ASSUME NEW c \in Currencies
      PROVE  SumFunction(Daily.volume[c]) = derived.volume[c]
  <2>1. Daily.volume[c] =
          [d \in D |-> Total({i \in SoldIn(c) : chain[i].ledger = d})]
    <3>1. ASSUME NEW d \in D
          PROVE  {i \in OnDay(d, "sold") : chain[i].currency = c} =
                   {i \in SoldIn(c) : chain[i].ledger = d}
      BY DEF OnDay, SoldIn
    <3>2. Daily.volume[c] =
            [d \in D |-> Total({i \in OnDay(d, "sold") : chain[i].currency = c})]
      BY DEF Daily
    <3> QED BY <3>1, <3>2
  <2>2. SoldIn(c) \subseteq rows BY <1>3 DEF SoldIn
  <2>3. SumFunctionOnSet([d \in D |-> Total({i \in SoldIn(c) : chain[i].ledger = d})], D)
          = Total(SoldIn(c))
    BY <2>2, DaysAddUp
  <2>4. Total(SoldIn(c)) = Paid(SoldIn(c))
    <3>1. SoldIn(c) \subseteq Ids BY <2>2, <1>4
    <3> QED BY <3>1, TotalIsPaid
  <2> QED BY <1>2, <2>1, <2>3, <2>4 DEF SumFunction
<1>10. SumFunction([c \in DOMAIN Summary.markets |-> Summary.markets[c].active]) = Summary.active
  BY <1>1, MarketsAddUp
<1> QED BY <1>7, <1>8, <1>9, <1>10

LEMMA AllInvariant == Spec => [](IInv /\ LogOK /\ DerivedOK /\ DaysOK)
<1>1. Init => DaysOK BY InitDays
<1>2. IInv /\ DaysOK /\ [Next]_vars => DaysOK'
  <2> SUFFICES ASSUME IInv, DaysOK, [Next]_vars PROVE DaysOK' OBVIOUS
  <2>1. CASE Next BY <2>1, StepDays
  <2>2. CASE UNCHANGED vars BY <2>2 DEF vars, chainVars, DaysOK, Ids
  <2> QED BY <2>1, <2>2
<1> QED BY <1>1, <1>2, DerivedInvariant, PTL DEF Spec

(* The figures of the days, recomputed from the events table on every       *)
(* request, add up to the totals that are kept as events come in, and the   *)
(* listings of the markets to the number of active listings.                *)
THEOREM DailyAlwaysAddsUp == Spec => []DailyAddsUp
BY AllInvariant, AddsUp, PTL

---------------------------------------------------------------------------
(* Gaps behind older rows.                                                 *)

(* What the histories say.  Until a first cycle dies between its two writes *)
(* there are no rows without a checkpoint, but while those writes go on.    *)
OrphanOK ==
  /\ pc = "inserted" => ~aborted
  /\ ~orphaned /\ checkpoint = None =>
       rows = {} \/ (pc = "inserted" /\ rows \subseteq batch)
  /\ (orphaned => DefaultStart > 0) => \A j \in rows : chain[j].ledger >= origin
  /\ DefaultStart > 0 /\ origin # None => origin <= DefaultStart

(* A new origin comes with a cold start and with nothing else.             *)
LEMMA ColdStart ==
  ASSUME Next
  PROVE  /\ orphaned => orphaned'
         /\ \/ origin' = origin
            \/ /\ checkpoint = None /\ checkpoint' = None
               /\ pc # "inserted" /\ rows' = rows /\ chain' = chain
<1>1. CASE EmitListed \/ EmitPriceUpd \/ EmitEnd \/ EmitOther
  <2>1. PICK e : Emit(e) BY <1>1, Emits
  <2> QED BY <2>1 DEF Emit
<1>2. CASE CloseLedger \/ Boot \/ AnswerPage \/ RefusePoll \/ InsertBatch \/ SaveCheckpoint \/ Wake
           \/ FailPoll \/ Signal \/ Stop
  <2>1. UNCHANGED <<origin, orphaned>>
    BY <1>2 DEF CloseLedger, Boot, AnswerPage, RefusePoll, InsertBatch, SaveCheckpoint, Wake,
                FailPoll, Signal, Stop
  <2> QED BY <2>1
<1>3. CASE Crash BY <1>3 DEF Crash
<1>4. CASE StartPoll \/ AnswerOldest
  <2>1. /\ pc # "inserted" /\ UNCHANGED <<chain, rows, checkpoint>>
    BY <1>4 DEF StartPoll, AnswerOldest, chainVars, dbVars
  <2>2. (\E ledger : Begin(ledger)) \/ UNCHANGED <<origin, orphaned>>
    BY <1>4 DEF StartPoll, AnswerOldest
  <2>3. ASSUME NEW ledger, Begin(ledger)
        PROVE  orphaned' = orphaned /\ (checkpoint # None => origin' = origin)
    BY <2>3 DEF Begin
  <2> QED BY <2>1, <2>2, <2>3
<1> QED BY <1>1, <1>2, <1>3, <1>4 DEF Next, Chain, Process, Node

LEMMA OrphanInit == Init => OrphanOK
<1> SUFFICES ASSUME Init PROVE OrphanOK OBVIOUS
<1>1. pc = "down" BY DEF Init
<1>2. CASE Fresh
  <2>1. rows = {} /\ origin = None BY <1>2 DEF Fresh
  <2> QED BY <1>1, <2>1 DEF OrphanOK
<1>3. CASE Legacy
  <2>1. rows = {1, 2} /\ checkpoint = 1 /\ origin = 1 BY <1>3, ZenonT(60) DEF Legacy
  <2>2. DaysOK BY InitDays
  <2>3. TypeOK BY InitInvariant DEF IInv
  <2>4. \A j \in rows : j \in Ids BY <2>3 DEF TypeOK, Ids
  <2>5. \A j \in rows : chain[j].ledger >= origin
    <3>1. \A j \in Ids : chain[j].ledger \in Nat /\ 1 <= chain[j].ledger BY <2>2, <2>3, TypeParts DEF DaysOK
    <3> QED BY <2>1, <2>4, <3>1
  <2>6. checkpoint # None BY <2>1, IndexerAssumption
  <2>7. DefaultStart > 0 => origin <= DefaultStart BY <2>1, IndexerAssumption
  <2> HIDE <1>3
  <2> QED BY <1>1, <2>5, <2>6, <2>7 DEF OrphanOK
<1> QED BY <1>2, <1>3 DEF Init

(* The rows of a cycle that reached no checkpoint.                         *)
LEMMA OrphanRows ==
  ASSUME IInv, LogOK, DaysOK, OrphanOK, Next, ~orphaned', checkpoint' = None
  PROVE  rows' = {} \/ (pc' = "inserted" /\ rows' \subseteq batch')
<1>1. ~orphaned /\ checkpoint = None
  <2>1. Grows BY LogStep
  <2> QED BY <2>1, ColdStart DEF Grows
<1>2. rows = {} \/ (pc = "inserted" /\ rows \subseteq batch) BY <1>1 DEF OrphanOK
<1>3. CASE EmitListed \/ EmitPriceUpd \/ EmitEnd \/ EmitOther
  <2>1. PICK e : Emit(e) BY <1>3, Emits
  <2> QED BY <1>2, <2>1 DEF Emit, dbVars, cycleVars
<1>4. CASE CloseLedger \/ Signal BY <1>2, <1>4 DEF CloseLedger, Signal, dbVars, cycleVars
<1>5. CASE Boot \/ StartPoll \/ AnswerOldest \/ AnswerPage \/ RefusePoll \/ FailPoll \/ Wake
  <2>1. pc # "inserted" /\ rows' = rows
    BY <1>5 DEF Boot, StartPoll, AnswerOldest, AnswerPage, RefusePoll, FailPoll, Wake, dbVars
  <2> QED BY <1>2, <2>1
<1>6. CASE InsertBatch
  <2>1. pc = "fetched" BY <1>6 DEF InsertBatch
  <2>2. rows' \subseteq rows \cup batch /\ pc' = "inserted" /\ batch' = batch
    BY <1>6 DEF InsertBatch, cycleVars
  <2> QED BY <1>2, <2>1, <2>2
<1>7. CASE SaveCheckpoint
  <2>1. pc = "inserted" /\ rows' = rows /\ checkpoint' = IF latest > 0 THEN latest ELSE checkpoint
    BY <1>7 DEF SaveCheckpoint
  <2>2. latest \in Nat /\ None \notin Nat BY IndexerAssumption DEF IInv, TypeOK
  <2>3. latest = 0 BY <2>1, <2>2
  <2>4. \A i \in batch : chain[i].ledger <= latest BY DEF LogOK, BatchOK
  <2>5. \A i \in batch : chain[i].ledger \in Nat /\ 1 <= chain[i].ledger
    <3>1. \A i \in batch : i \in Ids BY DEF IInv, TypeOK, Ids
    <3> QED BY <3>1, TypeParts DEF DaysOK, IInv
  <2>6. batch = {} BY <2>3, <2>4, <2>5
  <2> QED BY <1>2, <2>1, <2>6
<1>8. CASE Stop
  <2>1. pc # "inserted" BY <1>8 DEF Stop, OrphanOK
  <2> QED BY <1>2, <1>8, <2>1 DEF Stop, dbVars
<1>9. CASE Crash
  <2>1. pc # "inserted" BY <1>1, <1>9 DEF Crash
  <2> QED BY <1>2, <1>9, <2>1 DEF Crash, dbVars
<1> QED BY <1>3, <1>4, <1>5, <1>6, <1>7, <1>8, <1>9 DEF Next, Chain, Process, Node

LEMMA OrphanStep ==
  ASSUME IInv, IInv', LogOK, LogOK', DaysOK, OrphanOK, Next
  PROVE  OrphanOK'
<1>1. Grows BY LogStep
<1>2. pc' = "inserted" => ~aborted'
  <2>1. CASE EmitListed \/ EmitPriceUpd \/ EmitEnd \/ EmitOther
    <3>1. PICK e : Emit(e) BY <2>1, Emits
    <3> QED BY <3>1 DEF Emit, OrphanOK
  <2>2. CASE CloseLedger BY <2>2 DEF CloseLedger, OrphanOK
  <2>3. CASE InsertBatch BY <2>3 DEF InsertBatch
  <2>4. CASE Signal BY <2>4 DEF Signal
  <2>5. CASE Boot \/ StartPoll \/ AnswerOldest \/ AnswerPage \/ RefusePoll \/ FailPoll \/ Wake
             \/ SaveCheckpoint \/ Stop \/ Crash
    BY <2>5 DEF Boot, StartPoll, AnswerOldest, AnswerPage, RefusePoll, FailPoll, Wake,
                SaveCheckpoint, Stop, Crash, Begin
  <2> QED BY <2>1, <2>2, <2>3, <2>4, <2>5 DEF Next, Chain, Process, Node
<1>3. ~orphaned' /\ checkpoint' = None => rows' = {} \/ (pc' = "inserted" /\ rows' \subseteq batch')
  BY OrphanRows
<1>4. /\ checkpoint' = None /\ origin' # None /\ DefaultStart > 0 => origin' = DefaultStart
      /\ checkpoint = None /\ origin # None /\ DefaultStart > 0 => origin = DefaultStart
  BY DEF LogOK, OriginOK
<1>5. DefaultStart > 0 /\ origin' # None => origin' <= DefaultStart
  <2> SUFFICES ASSUME DefaultStart > 0, origin' # None PROVE origin' <= DefaultStart OBVIOUS
  <2>1. CASE origin' = origin BY <2>1 DEF OrphanOK
  <2>2. CASE origin' # origin
    <3>1. origin' = DefaultStart BY <1>4, <2>2, ColdStart
    <3> QED BY <3>1, IndexerAssumption
  <2> QED BY <2>1, <2>2
<1>6. ASSUME orphaned' => DefaultStart > 0, NEW j \in rows' PROVE chain'[j].ledger >= origin'
  <2>1. CASE j \notin rows BY <1>1, <2>1, <1>6 DEF Grows
  <2>2. CASE j \in rows
    <3>1. j \in Ids BY <2>2 DEF IInv, TypeOK, Ids
    <3>2. chain'[j] = chain[j] BY <1>1, <3>1 DEF Grows
    <3>3. chain[j].ledger >= origin BY <1>6, <2>2, ColdStart DEF OrphanOK
    <3>4. CASE origin' = origin BY <3>2, <3>3, <3>4
    <3>5. CASE origin' # origin
      <4>1. checkpoint = None /\ checkpoint' = None /\ pc # "inserted" BY <3>5, ColdStart
      <4>2. origin # None /\ origin' # None
        <5>1. rows # {} /\ rows' # {} BY <1>6, <2>2
        <5> QED BY <5>1 DEF LogOK
      <4>3. orphaned
        <5>1. ~orphaned => rows = {} BY <4>1 DEF OrphanOK
        <5> QED BY <2>2, <5>1
      <4>4. DefaultStart > 0 BY <1>6, <4>3, ColdStart
      <4> QED BY <1>4, <3>5, <4>1, <4>2, <4>4
    <3> QED BY <3>4, <3>5
  <2> QED BY <2>1, <2>2
<1> QED BY <1>2, <1>3, <1>5, <1>6 DEF OrphanOK

LEMMA OrphanInvariant == Spec => [](IInv /\ LogOK /\ OrphanOK)
<1>1. Init => OrphanOK BY OrphanInit
<1>2. IInv /\ IInv' /\ LogOK /\ LogOK' /\ DaysOK /\ OrphanOK /\ [Next]_vars => OrphanOK'
  <2> SUFFICES ASSUME IInv, IInv', LogOK, LogOK', DaysOK, OrphanOK, [Next]_vars PROVE OrphanOK'
    OBVIOUS
  <2>1. CASE Next BY <2>1, OrphanStep
  <2>2. CASE UNCHANGED vars BY <2>2 DEF vars, chainVars, dbVars, cycleVars, OrphanOK
  <2> QED BY <2>1, <2>2
<1> QED BY <1>1, <1>2, AllInvariant, PTL DEF Spec

(* No event that counts is missing up to the checkpoint: from the cold      *)
(* start on that led to the first checkpoint, and behind every older row    *)
(* too unless a first cycle stored its events and died before its           *)
(* checkpoint; for any chain, page size, window, and schedule of crashes,   *)
(* stops and failures.                                                      *)
THEOREM NoGapEver == Spec => []NoGap
<1>1. IInv /\ LogOK /\ OrphanOK => NoGap
  <2> SUFFICES ASSUME IInv, LogOK, OrphanOK, checkpoint # None, orphaned => DefaultStart > 0,
                      NEW i \in 1 .. Len(chain), NEW j \in rows,
                      Relevant(i), chain[i].ledger <= checkpoint, j < i
               PROVE  i \in rows
    BY DEF NoGap, IInv
  <2>1. i \in Ids /\ j \in Ids BY DEF IInv, TypeOK, Ids
  <2>2. origin # None BY DEF LogOK
  <2>3. chain[j].ledger >= origin BY DEF OrphanOK
  <2>4. j <= i BY <2>1 DEF Ids
  <2>5. chain[j].ledger <= chain[i].ledger BY <2>1, <2>4 DEF IInv, ChainOK
  <2>6. chain[i].ledger \in Nat /\ chain[j].ledger \in Nat /\ origin \in Nat
    BY <2>1, <2>2, TypeParts DEF IInv
  <2>7. chain[i].ledger >= origin BY <2>3, <2>5, <2>6
  <2>8. i \in Promised(checkpoint) BY <2>2, <2>7 DEF Promised
  <2> QED BY <2>8 DEF IInv, Covered
<1> QED BY <1>1, OrphanInvariant, PTL

(* With AM_START_LEDGER set there is no exception: whatever happens, the    *)
(* database has every event from that ledger to its checkpoint.             *)
THEOREM NoGapFromConfiguredStart ==
  ASSUME DefaultStart > 0
  PROVE  Spec => [](checkpoint # None =>
                      \A i \in Ids : Relevant(i) /\ chain[i].ledger \in DefaultStart .. checkpoint
                                     => i \in rows)
<1>1. IInv /\ LogOK /\ OrphanOK =>
        (checkpoint # None =>
           \A i \in Ids : Relevant(i) /\ chain[i].ledger \in DefaultStart .. checkpoint => i \in rows)
  <2> SUFFICES ASSUME IInv, LogOK, OrphanOK, checkpoint # None, NEW i \in Ids, Relevant(i),
                      chain[i].ledger \in DefaultStart .. checkpoint
               PROVE  i \in rows
    OBVIOUS
  <2>1. origin # None BY DEF IInv, CycleOK
  <2>2. origin \in Nat /\ origin <= DefaultStart /\ DefaultStart \in Nat
    BY <2>1, TypeParts, IndexerAssumption DEF IInv, OrphanOK
  <2>3. checkpoint \in Nat BY DEF IInv, TypeOK
  <2>4. chain[i].ledger \in Nat /\ DefaultStart <= chain[i].ledger /\ chain[i].ledger <= checkpoint
    BY <2>2, <2>3
  <2>5. chain[i].ledger >= origin BY <2>2, <2>4
  <2>6. i \in Promised(checkpoint) BY <2>1, <2>4, <2>5 DEF Promised, Ids
  <2> QED BY <2>6 DEF IInv, Covered
<1> QED BY <1>1, OrphanInvariant, PTL

---------------------------------------------------------------------------
(* What the database shows is what is on the chain.                        *)

(* A replay depends on what it replays only.                               *)
LEMMA ReplayLocal ==
  ASSUME NEW ch, NEW dh, NEW A, NEW B, NEW d, NEW n \in Nat,
         \A i \in 1 .. n : (i \in A <=> i \in B) /\ (i \in A => ch[i] = dh[i])
  PROVE  ReplayOf(ch, A, d, n) = ReplayOf(dh, B, d, n)
<1> DEFINE X(k) == ReplayOf(ch, A, d, k)
           Y(k) == ReplayOf(dh, B, d, k)
           G == {k \in Nat : k <= n => X(k) = Y(k)}
<1>1. /\ X(0) = d
      /\ \A k \in Nat : X(k + 1) = IF k + 1 \in A THEN ApplyDerivedState(ch[k + 1], X(k)) ELSE X(k)
  BY ReplayStarts, ReplayGoesOn
<1>2. /\ Y(0) = d
      /\ \A k \in Nat : Y(k + 1) = IF k + 1 \in B THEN ApplyDerivedState(dh[k + 1], Y(k)) ELSE Y(k)
  BY ReplayStarts, ReplayGoesOn
<1> HIDE DEF X, Y
<1>3. 0 \in G BY <1>1, <1>2
<1>4. ASSUME NEW k \in Nat, k \in G PROVE k + 1 \in G
  <2> SUFFICES ASSUME k + 1 <= n PROVE X(k + 1) = Y(k + 1) OBVIOUS
  <2>1. k + 1 \in 1 .. n /\ X(k) = Y(k) BY <1>4
  <2> QED BY <1>1, <1>2, <2>1
<1> HIDE DEF G
<1>5. n \in G BY <1>3, <1>4, NatSetInduction
<1>6. X(n) = Y(n) BY <1>5 DEF G
<1> QED BY <1>6 DEF X, Y

Counted == {i \in Ids : Relevant(i)}
OnChain == ReplayOf(chain, Counted, NothingDerived, Len(chain))

(* The market is what all the events that count say of it, but for a listing *)
(* that an accepted offer ended: of that they know nothing.                *)
Shown(l) == [market[l] EXCEPT !.status = "active"]
Mirrored(l) ==
  /\ EndedByOffer(l) => market[l].status = "ended"
  /\ market[l].status = "active" \/ EndedByOffer(l) => OnChain.listings[l] = Shown(l)
  /\ market[l].status # "active" /\ ~EndedByOffer(l) => OnChain.listings[l].status # "active"
MirrorOK ==
  /\ rows \subseteq Counted
  /\ \A l \in Listings : Mirrored(l)

LEMMA OnChainType == TypeOK => OnChain \in DerivedStates
<1> SUFFICES ASSUME TypeOK PROVE OnChain \in DerivedStates OBVIOUS
<1>1. \A i \in Counted : chain[i] \in Events BY TypeParts DEF Counted
<1>2. Len(chain) \in Nat BY TypeParts
<1> QED BY <1>1, <1>2, NothingDerivedType, ReplayType DEF OnChain

LEMMA OnChainGrows ==
  ASSUME IInv, IInv', NEW e, Emit(e)
  PROVE  /\ e \in Events
         /\ OnChain' = IF e.ok /\ e.kind # "junk" THEN ApplyDerivedState(e, OnChain) ELSE OnChain
         /\ Counted \subseteq Counted'
<1> DEFINE n == Len(chain)
           S == Counted'
           R(k) == ReplayOf(chain', S, NothingDerived, k)
<1>1. chain' = Append(chain, e) /\ n \in Nat BY DEF Emit, IInv, TypeOK
<1>2. Len(chain') = n + 1 /\ chain'[n + 1] = e /\ \A i \in 1 .. n : chain'[i] = chain[i]
  BY <1>1 DEF IInv, TypeOK
<1>3. e \in Events
  <2>1. n + 1 \in 1 .. Len(chain') BY <1>1, <1>2
  <2> QED BY <1>2, <2>1 DEF IInv, TypeOK
<1>4. \A i \in 1 .. n : i \in S <=> i \in Counted
  BY <1>1, <1>2 DEF Counted, Ids, Relevant, Decodable
<1>5. n + 1 \in S <=> e.ok /\ e.kind # "junk"
  <2>1. n + 1 \in Ids' BY <1>1, <1>2 DEF Ids
  <2> QED BY <1>2, <2>1 DEF Counted, Relevant, Decodable
<1>6. OnChain' = R(n + 1) BY <1>2 DEF OnChain
<1> HIDE DEF S, n
<1>7. R(n + 1) = IF n + 1 \in S THEN ApplyDerivedState(e, R(n)) ELSE R(n)
  <2>1. n \in Nat BY <1>1
  <2>2. R(n + 1) = IF n + 1 \in S THEN ApplyDerivedState(chain'[n + 1], R(n)) ELSE R(n)
    BY ONLY <2>1, ReplayGoesOn
  <2> HIDE DEF R
  <2> QED BY <1>2, <2>2
<1>8. R(n) = ReplayOf(chain, Counted, NothingDerived, n)
  <2>1. \A i \in 1 .. n : (i \in S <=> i \in Counted) /\ (i \in S => chain'[i] = chain[i])
    BY <1>2, <1>4
  <2>2. n \in Nat BY <1>1
  <2> QED BY ONLY <2>1, <2>2, ReplayLocal
<1>9. R(n) = OnChain BY <1>8 DEF OnChain, n
<1> HIDE DEF R
<1>10. OnChain' = IF e.ok /\ e.kind # "junk" THEN ApplyDerivedState(e, OnChain) ELSE OnChain
  BY <1>5, <1>6, <1>7, <1>9
<1>11. Counted \subseteq Counted' BY <1>4 DEF Counted, Ids, S, n
<1> QED BY <1>3, <1>10, <1>11

LEMMA OfferGrows ==
  ASSUME IInv, IInv', NEW e, Emit(e), NEW l
  PROVE  EndedByOffer(l)' <=> EndedByOffer(l) \/ (e.kind = "offer_acc" /\ e.listing = l)
<1>1. chain' = Append(chain, e) /\ Len(chain) \in Nat BY DEF Emit, IInv, TypeOK
<1>2. Len(chain') = Len(chain) + 1 /\ chain'[Len(chain) + 1] = e
      /\ \A i \in Ids : chain'[i] = chain[i]
  BY <1>1 DEF IInv, TypeOK, Ids
<1>3. \A i : i \in 1 .. Len(chain') <=> i \in Ids \/ i = Len(chain) + 1 BY <1>1, <1>2 DEF Ids
<1> QED BY <1>2, <1>3 DEF EndedByOffer, Ids

LEMMA ShownAs ==
  ASSUME TypeOK, NEW l \in Listings
  PROVE  /\ Shown(l).status = "active" /\ Shown(l).price = market[l].price
         /\ Shown(l).currency = market[l].currency
         /\ market[l].status = "active" => Shown(l) = market[l]
<1>1. market[l] \in [status : {"absent", "active", "ended"}, price : Nat,
                     currency : Currencies \cup {None}]
  BY DEF TypeOK
<1> QED BY <1>1 DEF Shown

(* A listing that an event does not touch stays as it was on both sides.   *)
LEMMA MirrorElsewhere ==
  ASSUME IInv, IInv', MirrorOK, NEW e, Emit(e), NEW l \in Listings, market'[l] = market[l],
         \/ l # e.listing \/ e.kind \in {"mint", "claim", "junk"} \/ (e.kind = "sold" /\ ~e.ok)
  PROVE  Mirrored(l)'
<1>1. /\ e \in Events
      /\ OnChain' = IF e.ok /\ e.kind # "junk" THEN ApplyDerivedState(e, OnChain) ELSE OnChain
  BY OnChainGrows
<1>2. OnChain \in DerivedStates BY OnChainType DEF IInv
<1>3. OnChain'.listings[l] = OnChain.listings[l]
  <2>1. CASE e.ok /\ e.kind # "junk"
    <3>1. OnChain' = ApplyDerivedState(e, OnChain) BY <1>1, <2>1
    <3>2. e.kind \in {"mint", "claim"} => e.kind \notin EndKinds \cup {"listed", "price_upd"}
      BY DEF EndKinds
    <3>3. l # e.listing \/ e.kind \notin EndKinds \cup {"listed", "price_upd"} BY <2>1, <3>2
    <3>4. Effect(e, l, OnChain.listings[l], ApplyDerivedState(e, OnChain).listings[l])
      BY <1>1, <1>2, ListingEffect
    <3>5. ApplyDerivedState(e, OnChain).listings[l] = OnChain.listings[l]
      BY <3>3, <3>4 DEF Effect
    <3> QED BY <3>1, <3>5
  <2>2. CASE ~(e.ok /\ e.kind # "junk") BY <1>1, <2>2
  <2> QED BY <2>1, <2>2
<1>4. EndedByOffer(l)' <=> EndedByOffer(l) BY OfferGrows
<1>5. Shown(l)' = Shown(l) BY DEF Shown
<1>6. Mirrored(l) BY DEF MirrorOK
<1> QED BY <1>3, <1>4, <1>5, <1>6 DEF Mirrored

(* The step that lists, prices or ends a listing does so on both sides, but *)
(* for an accepted offer, which ends it on chain only.                     *)
LEMMA EmitMirror ==
  ASSUME IInv, IInv', MirrorOK, EmitListed \/ EmitPriceUpd \/ EmitEnd \/ EmitOther
  PROVE  \A l \in Listings : Mirrored(l)'
<1>1. OnChain \in DerivedStates BY OnChainType DEF IInv
<1>2. market \in [Listings -> [status : {"absent", "active", "ended"}, price : Nat,
                               currency : Currencies \cup {None}]]
  BY DEF IInv, TypeOK
<1>3. ASSUME NEW l \in Listings
      PROVE  /\ Shown(l)'.status = "active" /\ Shown(l)'.price = market'[l].price
             /\ market'[l].status = "active" => Shown(l)' = market'[l]
             /\ market[l].status = "active" => Shown(l) = market[l]
  <2>1. market[l].status = "active" => Shown(l) = market[l] BY ShownAs DEF IInv
  <2>2. market'[l] \in [status : {"absent", "active", "ended"}, price : Nat,
                        currency : Currencies \cup {None}]
    BY DEF IInv, TypeOK
  <2> QED BY <2>1, <2>2 DEF Shown
<1>4. \A l \in Listings : EndedByOffer(l) => market[l].status = "ended"
  BY DEF MirrorOK, Mirrored
<1>5. CASE EmitListed
  <2>1. PICK l \in Listings, p \in Prices, c \in Currencies :
          /\ market[l].status = "absent"
          /\ Emit(Event("listed", l, p, c, TRUE))
          /\ market' = [market EXCEPT ![l] = [status |-> "active", price |-> p, currency |-> c]]
    BY <1>5, Zenon DEF EmitListed
  <2> DEFINE e == Event("listed", l, p, c, TRUE)
  <2>2. e.kind = "listed" /\ e.listing = l /\ e.price = p /\ e.currency = c /\ e.ok = TRUE
    BY DEF Event
  <2>3. Emit(e) BY <2>1
  <2> HIDE DEF e
  <2>4. e \in Events /\ OnChain' = ApplyDerivedState(e, OnChain) BY <2>2, <2>3, OnChainGrows
  <2>5. ApplyDerivedState(e, OnChain).listings[l] = [status |-> "active", price |-> p, currency |-> c]
    <3>1. Effect(e, l, OnChain.listings[l], ApplyDerivedState(e, OnChain).listings[l])
      BY <1>1, <2>4, ListingEffect
    <3> QED BY <2>2, <3>1 DEF Effect
  <2>6. market'[l] = [status |-> "active", price |-> p, currency |-> c]
        /\ \A k \in Listings \ {l} : market'[k] = market[k]
    BY <1>2, <2>1
  <2>7. ~EndedByOffer(l)' BY <1>4, <2>1, <2>2, <2>3, OfferGrows
  <2>8. OnChain'.listings[l] = Shown(l)' /\ market'[l].status = "active"
    <3>1. market'[l].status = "active" BY <2>6
    <3>2. OnChain'.listings[l] = market'[l] BY <2>4, <2>5, <2>6
    <3> QED BY <1>3, <3>1, <3>2
  <2>9. Mirrored(l)' BY <2>7, <2>8 DEF Mirrored
  <2>10. \A k \in Listings \ {l} : Mirrored(k)' BY <2>2, <2>3, <2>6, MirrorElsewhere
  <2> QED BY <2>9, <2>10
<1>6. CASE EmitPriceUpd
  <2>1. PICK l \in Listings, p \in Prices :
          /\ market[l].status = "active"
          /\ Emit(Event("price_upd", l, p, market[l].currency, TRUE))
          /\ market' = [market EXCEPT ![l].price = p]
    BY <1>6, Zenon DEF EmitPriceUpd
  <2> DEFINE e == Event("price_upd", l, p, market[l].currency, TRUE)
  <2>2. e.kind = "price_upd" /\ e.listing = l /\ e.price = p /\ e.ok = TRUE BY DEF Event
  <2>3. Emit(e) BY <2>1
  <2> HIDE DEF e
  <2>4. e \in Events /\ OnChain' = ApplyDerivedState(e, OnChain) BY <2>2, <2>3, OnChainGrows
  <2>5. OnChain.listings[l] = market[l] BY <1>3, <2>1 DEF MirrorOK, Mirrored
  <2>6. ApplyDerivedState(e, OnChain).listings[l] =
          IF OnChain.listings[l].status = "active"
          THEN [OnChain.listings[l] EXCEPT !.price = e.price] ELSE OnChain.listings[l]
    <3>1. Effect(e, l, OnChain.listings[l], ApplyDerivedState(e, OnChain).listings[l])
      BY <1>1, <2>4, ListingEffect
    <3> QED BY <2>2, <3>1 DEF Effect
  <2>7. ApplyDerivedState(e, OnChain).listings[l] = [market[l] EXCEPT !.price = p]
    BY <2>1, <2>2, <2>5, <2>6
  <2>8. market' = [market EXCEPT ![l] = [market[l] EXCEPT !.price = p]] BY <2>1, Zenon
  <2>9. market'[l] = [market[l] EXCEPT !.price = p]
        /\ \A k \in Listings \ {l} : market'[k] = market[k]
    BY <1>2, <2>8
  <2>10. [market[l] EXCEPT !.price = p].status = "active"
    <3>1. market[l] \in [status : {"absent", "active", "ended"}, price : Nat,
                         currency : Currencies \cup {None}]
      BY <1>2
    <3> QED BY <2>1, <3>1, Zenon
  <2>11. ~EndedByOffer(l)' BY <1>4, <2>1, <2>2, <2>3, OfferGrows
  <2>12. OnChain'.listings[l] = Shown(l)' /\ market'[l].status = "active"
    BY <1>3, <2>4, <2>7, <2>9, <2>10
  <2>13. Mirrored(l)' BY <2>11, <2>12 DEF Mirrored
  <2>14. \A k \in Listings \ {l} : Mirrored(k)' BY <2>2, <2>3, <2>9, MirrorElsewhere
  <2> QED BY <2>13, <2>14
<1>7. CASE EmitEnd
  <2>1. PICK l \in Listings, kind \in EndKinds \cup {"offer_acc"} :
          /\ market[l].status = "active"
          /\ Emit(Event(kind, l, market[l].price, market[l].currency, TRUE))
          /\ market' = [market EXCEPT ![l].status = "ended"]
    BY <1>7, Zenon DEF EmitEnd
  <2> DEFINE e == Event(kind, l, market[l].price, market[l].currency, TRUE)
  <2>2. e.kind = kind /\ e.listing = l /\ e.ok = TRUE BY DEF Event
  <2>3. Emit(e) BY <2>1
  <2> HIDE DEF e
  <2>4. kind # "junk" /\ kind # "active" BY <2>1 DEF EndKinds
  <2>5. e \in Events /\ OnChain' = ApplyDerivedState(e, OnChain)
    BY <2>2, <2>3, <2>4, OnChainGrows
  <2>6. Effect(e, l, OnChain.listings[l], OnChain'.listings[l])
    BY <1>1, <2>5, ListingEffect
  <2>7. market' = [market EXCEPT ![l] = [market[l] EXCEPT !.status = "ended"]] BY <2>1, Zenon
  <2>8. market'[l] = [market[l] EXCEPT !.status = "ended"]
        /\ \A k \in Listings \ {l} : market'[k] = market[k]
    BY <1>2, <2>7
  <2>9. market[l] \in [status : {"absent", "active", "ended"}, price : Nat,
                       currency : Currencies \cup {None}]
    BY <1>2
  <2>10. market'[l].status = "ended"
    <3>1. [market[l] EXCEPT !.status = "ended"].status = "ended" BY <2>9, Zenon
    <3> QED BY <2>8, <3>1
  <2>11. ASSUME kind = "offer_acc" PROVE Mirrored(l)'
    <3>1. EndedByOffer(l)' BY <2>2, <2>3, <2>11, OfferGrows
    <3>2. OnChain.listings[l] = market[l] BY <1>3, <2>1 DEF MirrorOK, Mirrored
    <3>3. OnChain'.listings[l] = OnChain.listings[l] BY <2>2, <2>6, <2>11 DEF Effect, EndKinds
    <3>4. Shown(l)' = market[l] BY <2>1, <2>8, <2>9 DEF Shown
    <3>5. OnChain'.listings[l] = Shown(l)' /\ market'[l].status # "active"
      BY <2>10, <3>2, <3>3, <3>4
    <3> QED BY <2>10, <3>1, <3>5, Zenon DEF Mirrored
  <2>12. ASSUME kind # "offer_acc" PROVE Mirrored(l)'
    <3>1. kind \in EndKinds BY <2>1, <2>12
    <3>2. OnChain'.listings[l] = [OnChain.listings[l] EXCEPT !.status = kind]
      BY <2>2, <2>6, <3>1 DEF Effect
    <3>3. [OnChain.listings[l] EXCEPT !.status = kind].status = kind
      <4>1. OnChain.listings[l] \in Entries BY <1>1 DEF DerivedStates
      <4> QED BY <4>1, Zenon DEF Entries
    <3>4. ~EndedByOffer(l)' BY <1>4, <2>1, <2>2, <2>3, <2>12, OfferGrows
    <3>5. market'[l].status # "active" /\ OnChain'.listings[l].status # "active"
      BY <2>4, <2>10, <3>2, <3>3
    <3> QED BY <3>4, <3>5, Zenon DEF Mirrored
  <2>13. \A k \in Listings \ {l} : Mirrored(k)' BY <2>2, <2>3, <2>8, MirrorElsewhere
  <2> QED BY <2>11, <2>12, <2>13
<1>8. CASE EmitOther
  <2>1. PICK kind \in {"mint", "claim", "sold", "junk"}, l \in Listings :
          /\ Emit(Event(kind, l, 1, market[l].currency, kind # "sold")) /\ market' = market
    BY <1>8, Zenon DEF EmitOther
  <2> DEFINE e == Event(kind, l, 1, market[l].currency, kind # "sold")
  <2>2. e.kind = kind /\ (kind = "sold" => ~e.ok) BY DEF Event
  <2>3. Emit(e) BY <2>1
  <2> HIDE DEF e
  <2>4. e.kind \in {"mint", "claim", "junk"} \/ (e.kind = "sold" /\ ~e.ok) BY <2>2
  <2> QED BY <2>1, <2>3, <2>4, MirrorElsewhere
<1> QED BY <1>5, <1>6, <1>7, <1>8

LEMMA StepMirror ==
  ASSUME IInv, IInv', LogOK, LogOK', MirrorOK, [Next]_vars
  PROVE  MirrorOK'
<1>1. CASE UNCHANGED <<chain, market>>
  <2>1. ASSUME NEW l \in Listings PROVE Mirrored(l)'
    <3>1. Shown(l)' = Shown(l) /\ market'[l] = market[l] BY <1>1 DEF Shown
    <3>2. EndedByOffer(l)' <=> EndedByOffer(l) BY <1>1 DEF EndedByOffer
    <3>3. OnChain' = OnChain BY <1>1 DEF OnChain, Counted, Ids, Relevant, Decodable
    <3>4. Mirrored(l) BY DEF MirrorOK
    <3> QED BY <3>1, <3>2, <3>3, <3>4 DEF Mirrored
  <2>2. Counted' = Counted BY <1>1 DEF Counted, Ids, Relevant, Decodable
  <2>3. CASE UNCHANGED vars BY <2>1, <2>2, <2>3 DEF MirrorOK, vars, dbVars
  <2>4. CASE Next
    <3>1. Grows /\ rows' \subseteq Ids' BY <2>4, LogStep DEF IInv, TypeOK, Ids
    <3>2. rows' \subseteq Counted' BY <2>2, <3>1 DEF Grows, MirrorOK, Counted
    <3> QED BY <2>1, <3>2 DEF MirrorOK
  <2> QED BY <2>3, <2>4
<1>2. CASE EmitListed \/ EmitPriceUpd \/ EmitEnd \/ EmitOther
  <2>1. \A l \in Listings : Mirrored(l)' BY <1>2, EmitMirror
  <2>2. PICK e : Emit(e) BY <1>2, Emits
  <2>3. rows' = rows /\ Counted \subseteq Counted' BY <2>2, OnChainGrows DEF Emit, dbVars
  <2> QED BY <2>1, <2>3 DEF MirrorOK
<1>3. Next => EmitListed \/ EmitPriceUpd \/ EmitEnd \/ EmitOther \/ UNCHANGED <<chain, market>>
  BY Zenon DEF Next, Chain, Process, Node, Boot, StartPoll, InsertBatch, SaveCheckpoint, Wake, Stop,
     AnswerOldest, AnswerPage, RefusePoll, FailPoll, Signal, Crash, CloseLedger, chainVars
<1>4. UNCHANGED vars => UNCHANGED <<chain, market>> BY DEF vars, chainVars
<1> QED BY <1>1, <1>2, <1>3, <1>4

LEMMA InitMirror == Init => MirrorOK
<1> SUFFICES ASSUME Init PROVE MirrorOK OBVIOUS
<1>1. \A l \in Listings : NothingDerived.listings[l] = Absent BY DEF NothingDerived
<1>2. Absent.status = "absent" BY DEF Absent
<1>3. CASE Fresh
  <2>1. rows = {} /\ chain = << >> /\ market = [l \in Listings |-> Absent] BY <1>3 DEF Fresh
  <2>2. Len(chain) = 0 BY <2>1
  <2>3. OnChain = NothingDerived BY <2>2, ReplayStarts DEF OnChain
  <2>4. ASSUME NEW l \in Listings PROVE Mirrored(l)
    <3>1. market[l].status # "active" /\ OnChain.listings[l].status # "active"
      BY <1>1, <1>2, <2>1, <2>3
    <3>2. ~EndedByOffer(l) BY <2>2 DEF EndedByOffer
    <3> QED BY <3>1, <3>2 DEF Mirrored
  <2> QED BY <2>1, <2>4 DEF MirrorOK
<1>4. CASE Legacy
  <2>1. PICK l \in Listings, p \in Prices, c \in Currencies :
          /\ rows = {1, 2}
          /\ chain = << [Event("listed", l, p, c, TRUE) EXCEPT !.ledger = 1],
                        [Event("sold", l, p, c, TRUE) EXCEPT !.ledger = 1] >>
          /\ market = [k \in Listings |->
                         IF k = l THEN [[status |-> "active", price |-> p, currency |-> c]
                                          EXCEPT !.status = "ended"]
                         ELSE Absent]
    BY <1>4, ZenonT(60) DEF Legacy
  <2>2. /\ [Event("listed", l, p, c, TRUE) EXCEPT !.ledger = 1].kind = "listed"
        /\ [Event("listed", l, p, c, TRUE) EXCEPT !.ledger = 1].listing = l
        /\ [Event("listed", l, p, c, TRUE) EXCEPT !.ledger = 1].ok = TRUE
        /\ [Event("sold", l, p, c, TRUE) EXCEPT !.ledger = 1].kind = "sold"
        /\ [Event("sold", l, p, c, TRUE) EXCEPT !.ledger = 1].listing = l
        /\ [Event("sold", l, p, c, TRUE) EXCEPT !.ledger = 1].ok = TRUE
    BY DEF Event
  <2>3. /\ Len(chain) = 2 /\ chain[1].kind = "listed" /\ chain[1].listing = l /\ chain[1].ok = TRUE
        /\ chain[2].kind = "sold" /\ chain[2].listing = l /\ chain[2].ok = TRUE
    <3> DEFINE e == [Event("listed", l, p, c, TRUE) EXCEPT !.ledger = 1]
               f == [Event("sold", l, p, c, TRUE) EXCEPT !.ledger = 1]
    <3>1. chain = <<e, f>> BY <2>1
    <3>2. e.kind = "listed" /\ e.listing = l /\ e.ok = TRUE
          /\ f.kind = "sold" /\ f.listing = l /\ f.ok = TRUE
      BY <2>2
    <3> HIDE DEF e, f
    <3>3. Len(chain) = 2 /\ chain[1] = e /\ chain[2] = f BY <3>1
    <3> QED BY <3>2, <3>3
  <2>4. rows = {1, 2} BY <2>1
  <2>5. \A k \in Listings : market[k].status # "active"
    <3>1. [[status |-> "active", price |-> p, currency |-> c] EXCEPT !.status = "ended"].status
            = "ended"
      OBVIOUS
    <3> QED BY <1>2, <2>1, <3>1
  <2> HIDE <1>4
  <2>6. Counted = {1, 2}
    <3>1. Ids = {1, 2} BY <2>3 DEF Ids
    <3>2. Relevant(1) /\ Relevant(2) BY <2>3 DEF Relevant, Decodable
    <3> QED BY <3>1, <3>2 DEF Counted
  <2>7. chain[1] \in Events /\ chain[2] \in Events
    <3>1. 1 \in Ids /\ 2 \in Ids BY <2>3 DEF Ids
    <3>2. TypeOK BY InitInvariant DEF IInv
    <3> QED BY <3>1, <3>2, TypeParts
  <2> DEFINE R(n) == ReplayOf(chain, Counted, NothingDerived, n)
  <2>8. R(0) = NothingDerived BY ReplayStarts
  <2>9. \A n \in Nat : R(n + 1) = IF n + 1 \in Counted THEN ApplyDerivedState(chain[n + 1], R(n))
                                  ELSE R(n)
    BY ReplayGoesOn
  <2>10. OnChain = R(2) BY <2>3 DEF OnChain
  <2> HIDE DEF R
  <2>11. R(1) = ApplyDerivedState(chain[1], NothingDerived)
    <3>1. R(0 + 1) = ApplyDerivedState(chain[0 + 1], R(0)) BY <2>6, <2>9
    <3> QED BY <2>8, <3>1
  <2>12. R(2) = ApplyDerivedState(chain[2], R(1))
    <3>1. R(1 + 1) = ApplyDerivedState(chain[1 + 1], R(1)) BY <2>6, <2>9
    <3> QED BY <3>1
  <2>13. R(1) \in DerivedStates BY <2>7, <2>11, NothingDerivedType, ApplyFacts
  <2>14. ASSUME NEW k \in Listings PROVE R(2).listings[k].status # "active"
    <3>1. Effect(chain[1], k, NothingDerived.listings[k], R(1).listings[k])
      BY <2>7, <2>11, NothingDerivedType, ListingEffect
    <3>2. Effect(chain[2], k, R(1).listings[k], R(2).listings[k])
      BY <2>7, <2>12, <2>13, ListingEffect
    <3>3. CASE k = l
      <4>1. chain[2].kind \in EndKinds BY <2>3 DEF EndKinds
      <4>2. R(2).listings[k] = [R(1).listings[k] EXCEPT !.status = chain[2].kind]
        BY <2>3, <3>2, <3>3, <4>1 DEF Effect
      <4>3. R(1).listings[k] \in Entries BY <2>13 DEF DerivedStates
      <4>4. [R(1).listings[k] EXCEPT !.status = chain[2].kind].status = chain[2].kind
        BY <4>3, Zenon DEF Entries
      <4> QED BY <2>3, <4>2, <4>4
    <3>4. CASE k # l
      <4>1. R(2).listings[k] = NothingDerived.listings[k] BY <2>3, <3>1, <3>2, <3>4 DEF Effect
      <4> QED BY <1>1, <1>2, <4>1
    <3> QED BY <3>3, <3>4
  <2>15. \A k \in Listings : ~EndedByOffer(k)
    <3>1. \A i \in 1 .. Len(chain) : i = 1 \/ i = 2 BY <2>3
    <3> QED BY <2>3, <3>1 DEF EndedByOffer
  <2>16. \A k \in Listings : Mirrored(k) BY <2>5, <2>10, <2>14, <2>15 DEF Mirrored
  <2> QED BY <2>4, <2>6, <2>16 DEF MirrorOK
<1> QED BY <1>3, <1>4 DEF Init

(* Events that tell nothing of a listing leave it as it was.               *)
LEMMA SilentEvent ==
  ASSUME NEW e \in Events, NEW d \in DerivedStates, NEW l \in Listings,
         ~(e.kind \in ListingKinds /\ e.listing = l)
  PROVE  ApplyDerivedState(e, d).listings[l] = d.listings[l]
<1>1. Effect(e, l, d.listings[l], ApplyDerivedState(e, d).listings[l]) BY ListingEffect
<1> QED BY <1>1 DEF Effect, ListingKinds

LEMMA SilentReplay ==
  ASSUME TypeOK, NEW S, S \subseteq Counted, NEW l \in Listings, NEW n \in Nat,
         \A i \in S : i <= n => ~Tells(i, l)
  PROVE  ReplayOf(chain, S, NothingDerived, n).listings[l] = NothingDerived.listings[l]
<1> DEFINE X(k) == ReplayOf(chain, S, NothingDerived, k)
           G == {k \in Nat : k <= n => X(k).listings[l] = NothingDerived.listings[l]}
<1>1. X(0) = NothingDerived BY ReplayStarts
<1>2. \A k \in Nat : X(k + 1) = IF k + 1 \in S THEN ApplyDerivedState(chain[k + 1], X(k)) ELSE X(k)
  BY ReplayGoesOn, SMTT(20)
<1>3. \A i \in S : chain[i] \in Events /\ Relevant(i) BY TypeParts DEF Counted
<1>4. \A k \in Nat : X(k) \in DerivedStates BY <1>3, NothingDerivedType, ReplayType
<1> HIDE DEF X
<1>5. 0 \in G BY <1>1
<1>6. ASSUME NEW k \in Nat, k \in G PROVE k + 1 \in G
  <2> SUFFICES ASSUME k + 1 <= n PROVE X(k + 1).listings[l] = NothingDerived.listings[l] OBVIOUS
  <2>1. X(k).listings[l] = NothingDerived.listings[l] BY <1>6
  <2>2. CASE k + 1 \in S
    <3>1. ~(chain[k + 1].kind \in ListingKinds /\ chain[k + 1].listing = l) BY <1>3, <2>2 DEF Tells
    <3>2. ApplyDerivedState(chain[k + 1], X(k)).listings[l] = X(k).listings[l]
      BY <1>3, <1>4, <2>2, <3>1, SilentEvent
    <3> QED BY <1>2, <2>1, <2>2, <3>2
  <2>3. CASE k + 1 \notin S BY <1>2, <2>1, <2>3
  <2> QED BY <2>2, <2>3
<1> HIDE DEF G
<1>7. n \in G BY <1>5, <1>6, NatSetInduction
<1>8. X(n).listings[l] = NothingDerived.listings[l] BY <1>7 DEF G
<1> QED BY <1>8 DEF X

(* A replay that begins late knows less of a listing, but says nothing      *)
(* wrong of it, if it misses none of its events behind one it has.         *)
LEMMA LateReplay ==
  ASSUME TypeOK, NEW S, S \subseteq Counted, NEW l \in Listings,
         \A i \in Counted, j \in S : Tells(i, l) /\ Tells(j, l) /\ j < i => i \in S,
         ReplayOf(chain, S, NothingDerived, Len(chain)).listings[l].status = "active"
  PROVE  ReplayOf(chain, S, NothingDerived, Len(chain)).listings[l] = OnChain.listings[l]
<1> DEFINE A == Counted
           X(n) == ReplayOf(chain, S, NothingDerived, n)
           Y(n) == ReplayOf(chain, A, NothingDerived, n)
           Agree(n) == X(n).listings[l].status = "active" => X(n).listings[l] = Y(n).listings[l]
           G == {n \in Nat : Agree(n)}
<1>1. Len(chain) \in Nat /\ A \subseteq Nat /\ \A i \in A : chain[i] \in Events /\ Relevant(i)
  BY TypeParts DEF Counted
<1>2. NothingDerived.listings[l].status # "active"
  <2>1. NothingDerived.listings[l] = Absent BY DEF NothingDerived
  <2>2. Absent.status = "absent" BY DEF Absent
  <2> QED BY <2>1, <2>2
<1>3. X(0) = NothingDerived BY ReplayStarts
<1>4. \A k \in Nat : X(k + 1) = IF k + 1 \in S THEN ApplyDerivedState(chain[k + 1], X(k)) ELSE X(k)
  BY ReplayGoesOn, SMTT(20)
<1>5. \A k \in Nat : Y(k + 1) = IF k + 1 \in A THEN ApplyDerivedState(chain[k + 1], Y(k)) ELSE Y(k)
  BY ReplayGoesOn, SMTT(20)
<1>6. \A k \in Nat : X(k) \in DerivedStates /\ Y(k) \in DerivedStates
  BY <1>1, NothingDerivedType, ReplayType
<1>7. ASSUME NEW k \in Nat, \A i \in S : i <= k => ~Tells(i, l)
      PROVE  X(k).listings[l] = NothingDerived.listings[l]
  BY <1>7, SilentReplay
<1> HIDE DEF A, X, Y
<1>8. 0 \in G BY <1>2, <1>3
<1>9. ASSUME NEW k \in Nat, k \in G PROVE k + 1 \in G
  <2>1. Agree(k) BY <1>9
  <2>2. CASE k + 1 \in S
    <3> DEFINE e == chain[k + 1]
               x == X(k).listings[l]
               y == Y(k).listings[l]
               xn == X(k + 1).listings[l]
               yn == Y(k + 1).listings[l]
    <3>1. k + 1 \in A BY <2>2 DEF A
    <3>2. e \in Events /\ X(k + 1) = ApplyDerivedState(e, X(k)) /\ Y(k + 1) = ApplyDerivedState(e, Y(k))
      BY <1>1, <1>4, <1>5, <2>2, <3>1
    <3>3. Effect(e, l, x, xn) BY <1>6, <3>2, ListingEffect
    <3>4. Effect(e, l, y, yn) BY <1>6, <3>2, ListingEffect
    <3>5. x \in Entries BY <1>6 DEF DerivedStates
    <3>6. x.status = "active" => x = y BY <2>1
    <3>7. e.kind \in EndKinds => e.kind # "active" BY DEF EndKinds
    <3> HIDE DEF e, x, y, xn, yn
    <3>8. [x EXCEPT !.status = e.kind].status = e.kind BY <3>5, Zenon DEF Entries
    <3>9. xn.status = "active" => xn = yn
      <4>1. CASE l = e.listing /\ e.kind = "listed" BY <3>3, <3>4, <4>1 DEF Effect
      <4>2. CASE l = e.listing /\ e.kind \in EndKinds
        <5>1. xn = [x EXCEPT !.status = e.kind] BY <3>3, <4>2 DEF Effect
        <5> QED BY <3>7, <3>8, <4>2, <5>1
      <4>3. CASE l = e.listing /\ e.kind = "price_upd"
        <5>1. xn = IF x.status = "active" THEN [x EXCEPT !.price = e.price] ELSE x
          BY <3>3, <4>3 DEF Effect
        <5>2. yn = IF y.status = "active" THEN [y EXCEPT !.price = e.price] ELSE y
          BY <3>4, <4>3 DEF Effect
        <5> QED BY <3>6, <5>1, <5>2
      <4>4. CASE l # e.listing \/ e.kind \notin EndKinds \cup {"listed", "price_upd"}
        <5>1. xn = x /\ yn = y BY <3>3, <3>4, <4>4 DEF Effect
        <5> QED BY <3>6, <5>1
      <4> QED BY <4>1, <4>2, <4>3, <4>4
    <3> QED BY <3>9 DEF xn, yn
  <2>3. CASE k + 1 \in A /\ k + 1 \notin S /\ Tells(k + 1, l)
    <3>1. \A i \in S : i <= k + 1 => ~Tells(i, l)
      <4> SUFFICES ASSUME NEW i \in S, i <= k + 1, Tells(i, l) PROVE FALSE OBVIOUS
      <4>1. i \in Nat /\ i # k + 1 BY <1>1, <2>3 DEF A
      <4>2. i < k + 1 BY <4>1
      <4> QED BY <2>3, <4>2 DEF A
    <3>2. X(k + 1).listings[l] = NothingDerived.listings[l]
      <4>1. k + 1 \in Nat OBVIOUS
      <4> QED BY <1>7, <3>1, <4>1
    <3> QED BY <1>2, <3>2
  <2>4. CASE k + 1 \in A /\ k + 1 \notin S /\ ~Tells(k + 1, l)
    <3>1. chain[k + 1] \in Events /\ ~(chain[k + 1].kind \in ListingKinds /\ chain[k + 1].listing = l)
      BY <1>1, <2>4 DEF Tells
    <3>2. X(k + 1) = X(k) BY <1>4, <2>4
    <3>3. Y(k + 1) = ApplyDerivedState(chain[k + 1], Y(k)) BY <1>5, <2>4
    <3>4. Y(k + 1).listings[l] = Y(k).listings[l] BY <1>6, <3>1, <3>3, SilentEvent
    <3> QED BY <2>1, <3>2, <3>4
  <2>5. CASE k + 1 \notin A /\ k + 1 \notin S
    <3>1. X(k + 1) = X(k) /\ Y(k + 1) = Y(k) BY <1>4, <1>5, <2>5
    <3> QED BY <2>1, <3>1
  <2> QED BY <2>2, <2>3, <2>4, <2>5 DEF A
<1> HIDE DEF G
<1>10. Len(chain) \in G BY <1>1, <1>8, <1>9, NatSetInduction
<1>11. Agree(Len(chain)) BY <1>10 DEF G
<1> QED BY <1>11 DEF OnChain, X, Y, A

(* The lowest of the active listings' prices is one of them.               *)
LEMMA FloorIsLeast ==
  ASSUME TypeOK, derived \in DerivedStates, NEW c, ActiveIn(c) # {}
  PROVE  /\ FloorPrice(c) \in {derived.listings[l].price : l \in ActiveIn(c)}
         /\ \A l \in ActiveIn(c) : FloorPrice(c) <= derived.listings[l].price
<1> DEFINE P == {derived.listings[l].price : l \in ActiveIn(c)}
           Least(p) == \A l \in ActiveIn(c) : p <= derived.listings[l].price
<1>1. P \subseteq Nat /\ P # {} BY DEF DerivedStates, Entries, ActiveIn, ActiveListings
<1>2. PICK p \in P : \A q \in P : p <= q
  <2> HIDE DEF P
  <2> QED BY <1>1, LeastNat
<1>3. Least(p) BY <1>2
<1>4. FloorPrice(c) = CHOOSE q \in P : Least(q) BY Zenon DEF FloorPrice
<1> HIDE DEF P, Least
<1>5. FloorPrice(c) \in P /\ Least(FloorPrice(c)) BY <1>2, <1>3, <1>4
<1> QED BY <1>5 DEF P, Least

(* The market as the summary should show it.                               *)
OnSale(c) == {k \in Listings : market[k].status = "active" /\ market[k].currency = c}
AskedIn(c) == {market[l].price : l \in OnSale(c)}
FloorShown(c) ==
  IF AskedIn(c) = {} THEN MarketSummaries[c].floor = None
  ELSE MarketSummaries[c].floor \in AskedIn(c)
       /\ \A p \in AskedIn(c) : MarketSummaries[c].floor <= p
Haunted(c) == \E l \in Listings : EndedByOffer(l) /\ market[l].currency = c
AllShown ==
  /\ ActiveListings = {l \in Listings : market[l].status = "active" \/ EndedByOffer(l)}
  /\ \A c \in DOMAIN MarketSummaries : ~Haunted(c) => FloorShown(c)

LEMMA ShowsTheChain ==
  ASSUME IInv, LogOK, DerivedOK, DaysOK, MirrorOK
  PROVE  NoGhostListing
<1> SUFFICES ASSUME CaughtUp
             PROVE  /\ \A l \in ActiveListings :
                         derived.listings[l] = market[l] \/ EndedByOffer(l) \/ Interrupted(l)
                    /\ origin = 1 => AllShown
  BY Zenon DEF NoGhostListing, AllShown, Haunted, FloorShown, AskedIn, OnSale
<1>1. TypeOK /\ Covered BY DEF IInv
<1>2. derived = FromRows BY DEF CaughtUp, DerivedOK
<1>3. derived \in DerivedStates BY <1>1, <1>2, FromRowsType
<1>4. FromRows = ReplayOf(chain, rows, NothingDerived, Len(chain))
  BY FromRowsIs DEF RowsReplayed
<1>5. rows \subseteq Counted BY DEF MirrorOK
<1>6. ASSUME NEW l \in ActiveListings, ~EndedByOffer(l), ~Interrupted(l)
      PROVE  derived.listings[l] = market[l]
  <2>1. l \in Listings /\ FromRows.listings[l].status = "active" BY <1>2 DEF ActiveListings
  <2>2. \A i \in Counted, j \in rows : Tells(i, l) /\ Tells(j, l) /\ j < i => i \in rows
    BY <1>6 DEF Interrupted, Counted, Ids
  <2>3. FromRows.listings[l] = OnChain.listings[l]
    <3>1. ReplayOf(chain, rows, NothingDerived, Len(chain)).listings[l].status = "active"
      BY <1>4, <2>1
    <3>2. ReplayOf(chain, rows, NothingDerived, Len(chain)).listings[l] = OnChain.listings[l]
      BY <1>1, <1>5, <2>1, <2>2, <3>1, LateReplay
    <3> QED BY <1>4, <3>2
  <2>4. Mirrored(l) BY <2>1 DEF MirrorOK
  <2>5. market[l].status = "active" BY <1>6, <2>1, <2>3, <2>4 DEF Mirrored
  <2>6. OnChain.listings[l] = Shown(l) BY <2>4, <2>5 DEF Mirrored
  <2>7. Shown(l) = market[l] BY <1>1, <2>1, <2>5, ShownAs
  <2> QED BY <1>2, <2>3, <2>6, <2>7
<1>7. ASSUME origin = 1 PROVE AllShown
  <2>1. rows = Counted
    <3>1. checkpoint = height /\ height \in Nat /\ \A i \in Ids : chain[i].ledger <= height
      BY <1>1, TypeParts DEF CaughtUp, Ids
    <3>2. checkpoint # None BY <3>1, IndexerAssumption
    <3>3. origin # None BY <1>7, IndexerAssumption
    <3>4. \A i \in Counted : i \in Promised(checkpoint)
      <4>1. \A i \in Counted : i \in 1 .. Len(chain) /\ Relevant(i) /\ chain[i].ledger <= checkpoint
                               /\ chain[i].ledger >= 1
        <5>1. \A i \in Ids : chain[i].ledger \in Nat BY <1>1, TypeParts
        <5> QED BY <3>1, <5>1 DEF Counted, Ids, DaysOK
      <4> QED BY <1>7, <3>3, <4>1 DEF Promised
    <3>5. Promised(checkpoint) \subseteq rows BY <1>1, <3>2 DEF Covered
    <3> QED BY <1>5, <3>4, <3>5
  <2>2. derived = OnChain BY <1>2, <1>4, <2>1 DEF OnChain
  <2>3. \A l \in Listings : Mirrored(l) BY DEF MirrorOK
  <2>4. ASSUME NEW l \in Listings
        PROVE  l \in ActiveListings <=> market[l].status = "active" \/ EndedByOffer(l)
    <3>1. Mirrored(l) BY <2>3
    <3>2. Shown(l).status = "active" BY <1>1, ShownAs
    <3> QED BY <2>2, <3>1, <3>2 DEF ActiveListings, Mirrored
  <2>5. ActiveListings = {l \in Listings : market[l].status = "active" \/ EndedByOffer(l)}
    BY <2>4 DEF ActiveListings
  <2>6. ASSUME NEW l \in ActiveListings
        PROVE  /\ derived.listings[l].price = market[l].price
               /\ derived.listings[l].currency = market[l].currency
    <3>1. l \in Listings /\ (market[l].status = "active" \/ EndedByOffer(l)) BY <2>5
    <3>2. OnChain.listings[l] = Shown(l) BY <2>3, <3>1 DEF Mirrored
    <3> QED BY <1>1, <2>2, <3>1, <3>2, ShownAs
  <2>7. ASSUME NEW c \in DOMAIN MarketSummaries, ~Haunted(c) PROVE FloorShown(c)
    <3>1. c \in Currencies /\ MarketSummaries[c].floor = FloorPrice(c) BY DEF MarketSummaries
    <3>2. \A k \in Listings : k \in ActiveIn(c) <=> k \in OnSale(c)
      BY <2>4, <2>6, <2>7 DEF ActiveIn, OnSale, Haunted
    <3>3. ActiveIn(c) \subseteq ActiveListings /\ ActiveIn(c) = OnSale(c)
      BY <3>2 DEF ActiveIn, ActiveListings, OnSale
    <3>4. AskedIn(c) = {derived.listings[l].price : l \in ActiveIn(c)}
      BY <2>6, <3>3 DEF AskedIn
    <3>5. CASE ActiveIn(c) = {}
      <4>1. AskedIn(c) = {} BY <3>4, <3>5
      <4>2. FloorPrice(c) = None BY <3>5 DEF FloorPrice
      <4> QED BY <3>1, <4>1, <4>2 DEF FloorShown
    <3>6. CASE ActiveIn(c) # {}
      <4>1. /\ FloorPrice(c) \in {derived.listings[l].price : l \in ActiveIn(c)}
            /\ \A l \in ActiveIn(c) : FloorPrice(c) <= derived.listings[l].price
        BY <1>1, <1>3, <3>6, FloorIsLeast
      <4>2. FloorPrice(c) \in AskedIn(c) /\ \A p \in AskedIn(c) : FloorPrice(c) <= p
        BY <3>4, <4>1
      <4> QED BY <3>1, <4>2 DEF FloorShown
    <3> QED BY <3>5, <3>6
  <2> QED BY <2>5, <2>7 DEF AllShown
<1> QED BY <1>6, <1>7

(* Once caught up, on any chain and after any schedule of crashes, the API  *)
(* calls active what is active, at its price; but for a listing that an     *)
(* accepted offer ended, and one with an event missing behind a stored one. *)
THEOREM NoGhosts == Spec => []NoGhostListing
<1>1. Init => MirrorOK BY InitMirror
<1>2. IInv /\ IInv' /\ LogOK /\ LogOK' /\ MirrorOK /\ [Next]_vars => MirrorOK'
  <2> SUFFICES ASSUME IInv, IInv', LogOK, LogOK', MirrorOK, [Next]_vars PROVE MirrorOK'
    OBVIOUS
  <2> QED BY StepMirror
<1>3. IInv /\ LogOK /\ DerivedOK /\ DaysOK /\ MirrorOK => NoGhostListing BY ShowsTheChain
<1> QED BY <1>1, <1>2, <1>3, AllInvariant, PTL DEF Spec
=============================================================================
