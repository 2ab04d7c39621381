-------------------------- MODULE ClientReadsProofs --------------------------
(***************************************************************************)
(* What a client is shown of the chain, for every value of the constants.  *)
(*                                                                         *)
(* Paging (ListingScan).  A call looks at the first ids after the cursor,  *)
(* in order (ReadFrom), so the cursor it returns has passed no matching id *)
(* that it did not return (Answers).  Between calls ids are appended after *)
(* all others and pages are compacted, which moves no id that is active    *)
(* (IndexOK); so the client has every steady listing up to its cursor      *)
(* (ReaderOK), and the cursor stands still only where the index ends.      *)
(*                                                                         *)
(* The query cache (ClientCache).  EditsSettle speaks of the moments when  *)
(* no mutation is under way for a query; the invariant (CInv) has to say   *)
(* why an answer with an edit in it is in order at the other moments: some *)
(* mutation under way will refetch it however it ends (WillRefetch), which *)
(* must be one of the connected account where the query is about an        *)
(* account, for the callbacks of others do not reach it after a switch; or *)
(* it is what a purchase leaves to the next poll (LeftToPoll).             *)
(***************************************************************************)
EXTENDS ListingScan, ClientCache, DataLemmas

---------------------------------------------------------------------------
(* The ids after a cursor.                                                  *)

LEMMA LaterIds ==
  ASSUME NEW page \in Seq(Nat), Ascending(page), NEW from \in Nat
  PROVE  /\ Later(page, from) \in Seq(Nat) /\ Ascending(Later(page, from))
         /\ IdsOf(Later(page, from)) = {x \in IdsOf(page) : from < x}
<1>1. /\ Len(page) \in Nat /\ DOMAIN page = 1 .. Len(page)
      /\ \A i \in 1 .. Len(page) : page[i] \in Nat
  BY LenProperties, ElementOfSeq
<1>2. CASE page = << >> \/ Last(page) <= from
  <2>1. Later(page, from) = << >>
    BY <1>2 DEF Later
  <2>2. \A i \in DOMAIN page : ~(from < page[i])
    <3>1. ASSUME NEW i \in DOMAIN page, page # << >> PROVE ~(from < page[i])
      <4>1. Len(page) \in DOMAIN page /\ Last(page) = page[Len(page)]
        BY <1>1, <3>1 DEF Last
      <4>2. page[i] <= page[Len(page)]
        BY <1>1, <4>1 DEF Ascending
      <4>3. QED
        BY <1>1, <1>2, <3>1, <4>1, <4>2
    <3>2. QED
      BY <3>1
  <2>3. << >> \in Seq(Nat) /\ Ascending(<< >>) /\ IdsOf(<< >>) = {}
    BY DEF Ascending, IdsOf
  <2>4. {x \in IdsOf(page) : from < x} = {}
    BY <2>2 DEF IdsOf
  <2>5. QED
    BY <2>1, <2>3, <2>4
<1>3. CASE ~(page = << >> \/ Last(page) <= from)
  <2>1. Later(page, from) = Without(page, 0 .. from)
    BY <1>3 DEF Later
  <2>2. /\ Without(page, 0 .. from) \in Seq(Nat) /\ Ascending(Without(page, 0 .. from))
        /\ IdsOf(Without(page, 0 .. from)) = IdsOf(page) \ (0 .. from)
    BY WithoutKeeps
  <2>3. IdsOf(page) \subseteq Nat
    BY <1>1 DEF IdsOf
  <2>4. IdsOf(page) \ (0 .. from) = {x \in IdsOf(page) : from < x}
    BY <2>3
  <2>5. QED
    BY <2>1, <2>2, <2>4
<1>4. QED
  BY <1>2, <1>3

(* Two lists, one before the other.                                         *)
LEMMA Joined ==
  ASSUME NEW s \in Seq(Nat), NEW t \in Seq(Nat), Ascending(s), Ascending(t),
         \A x \in IdsOf(s), y \in IdsOf(t) : x < y
  PROVE  s \o t \in Seq(Nat) /\ Ascending(s \o t) /\ IdsOf(s \o t) = IdsOf(s) \cup IdsOf(t)
<1> DEFINE m == Len(s)
           n == Len(t)
           st == s \o t
<1>1. /\ m \in Nat /\ n \in Nat /\ DOMAIN s = 1 .. m /\ DOMAIN t = 1 .. n
      /\ st \in Seq(Nat) /\ DOMAIN st = 1 .. (m + n)
      /\ \A i \in 1 .. (m + n) : st[i] = IF i <= m THEN s[i] ELSE t[i - m]
  BY LenProperties, ConcatProperties
<1> HIDE DEF st, m, n
<1>2. /\ \A i \in 1 .. m : i \in 1 .. (m + n) /\ st[i] = s[i]
      /\ \A i \in 1 .. (m + n) : i \notin 1 .. m => i - m \in 1 .. n /\ st[i] = t[i - m]
  <2>1. ASSUME NEW i \in 1 .. m PROVE i \in 1 .. (m + n) /\ st[i] = s[i]
    <3>1. i \in 1 .. (m + n) /\ i <= m
      BY <1>1
    <3>2. QED
      BY <1>1, <3>1
  <2>2. ASSUME NEW i \in 1 .. (m + n), i \notin 1 .. m
        PROVE  i - m \in 1 .. n /\ st[i] = t[i - m]
    <3>1. i - m \in 1 .. n /\ ~(i <= m)
      BY <1>1, <2>2
    <3>2. QED
      BY <1>1, <3>1
  <2>3. QED
    BY <2>1, <2>2
<1>3. \A i \in 1 .. n : i + m \in 1 .. (m + n) /\ st[i + m] = t[i]
  <2>1. SUFFICES ASSUME NEW i \in 1 .. n PROVE i + m \in 1 .. (m + n) /\ st[i + m] = t[i]
    OBVIOUS
  <2>2. i + m \in 1 .. (m + n) /\ ~(i + m <= m) /\ (i + m) - m = i
    BY <1>1
  <2>3. QED
    BY <1>1, <2>2
<1>4. ASSUME NEW i \in 1 .. (m + n), NEW j \in 1 .. (m + n), i < j
      PROVE  st[i] < st[j]
  <2>1. CASE j \in 1 .. m
    <3>1. i \in 1 .. m
      BY <1>1, <1>4, <2>1
    <3>2. s[i] < s[j]
      BY <1>1, <1>4, <2>1, <3>1 DEF Ascending
    <3>3. QED
      BY <1>2, <2>1, <3>1, <3>2
  <2>2. CASE j \notin 1 .. m /\ i \notin 1 .. m
    <3>1. /\ i - m \in 1 .. n /\ j - m \in 1 .. n /\ i - m < j - m
          /\ st[i] = t[i - m] /\ st[j] = t[j - m]
      BY <1>1, <1>2, <1>4, <2>2
    <3>2. QED
      BY <1>1, <3>1 DEF Ascending
  <2>3. CASE j \notin 1 .. m /\ i \in 1 .. m
    <3>1. j - m \in 1 .. n /\ st[i] = s[i] /\ st[j] = t[j - m]
      BY <1>2, <2>3
    <3>2. s[i] \in IdsOf(s) /\ t[j - m] \in IdsOf(t)
      BY <1>1, <2>3, <3>1 DEF IdsOf
    <3>3. QED
      BY <3>1, <3>2
  <2>4. QED
    BY <2>1, <2>2, <2>3
<1>5. Ascending(st)
  BY <1>1, <1>4 DEF Ascending
<1>6. IdsOf(st) = IdsOf(s) \cup IdsOf(t)
  <2>1. IdsOf(st) \subseteq IdsOf(s) \cup IdsOf(t)
    BY <1>1, <1>2 DEF IdsOf
  <2>2. IdsOf(s) \subseteq IdsOf(st)
    BY <1>1, <1>2 DEF IdsOf
  <2>3. IdsOf(t) \subseteq IdsOf(st)
    <3>1. IdsOf(t) = {t[i] : i \in 1 .. n} /\ IdsOf(st) = {st[i] : i \in 1 .. (m + n)}
      BY <1>1 DEF IdsOf
    <3>2. QED
      BY <1>3, <3>1
  <2>4. QED
    BY <2>1, <2>2, <2>3
<1>7. QED
  BY <1>1, <1>5, <1>6 DEF st

(* The first ids of a list: what is left out comes after them.              *)
LEMMA FirstIds ==
  ASSUME NEW s \in Seq(Nat), Ascending(s), NEW k \in 0 .. Len(s)
  PROVE  LET p == SubSeq(s, 1, k) IN
         /\ p \in Seq(Nat) /\ Len(p) = k /\ Ascending(p) /\ IdsOf(p) \subseteq IdsOf(s)
         /\ \A i \in 1 .. k : p[i] = s[i]
         /\ \A x \in IdsOf(s) : x \in IdsOf(p) \/ \A y \in IdsOf(p) : y < x
<1> DEFINE p == SubSeq(s, 1, k)
<1>1. /\ Len(s) \in Nat /\ DOMAIN s = 1 .. Len(s) /\ k \in Nat /\ k <= Len(s)
      /\ \A i \in 1 .. Len(s) : s[i] \in Nat
  BY LenProperties, ElementOfSeq
<1>2. p \in Seq(Nat) /\ Len(p) = k /\ DOMAIN p = 1 .. k /\ \A i \in 1 .. k : p[i] = s[i]
  <2>1. \A i \in 1 .. k : i \in 1 .. Len(s)
    BY <1>1
  <2>2. QED
    BY <1>1, <2>1, SubSeqProperties, LenProperties
<1> HIDE DEF p
<1>3. Ascending(p)
  BY <1>1, <1>2 DEF Ascending
<1>4. IdsOf(p) \subseteq IdsOf(s)
  BY <1>1, <1>2 DEF IdsOf
<1>5. ASSUME NEW i \in 1 .. Len(s) PROVE s[i] \in IdsOf(p) \/ \A y \in IdsOf(p) : y < s[i]
  <2>1. CASE i <= k
    <3>1. i \in 1 .. k /\ p[i] = s[i]
      BY <1>1, <1>2, <2>1
    <3>2. QED
      BY <1>2, <3>1 DEF IdsOf
  <2>2. CASE ~(i <= k)
    <3>1. ASSUME NEW j \in 1 .. k PROVE p[j] < s[i]
      <4>1. j \in 1 .. Len(s) /\ j < i
        BY <1>1, <2>2
      <4>2. s[j] < s[i]
        BY <1>1, <4>1 DEF Ascending
      <4>3. QED
        BY <1>2, <4>2
    <3>2. QED
      BY <1>2, <3>1 DEF IdsOf
  <2>3. QED
    BY <2>1, <2>2
<1>6. \A x \in IdsOf(s) : x \in IdsOf(p) \/ \A y \in IdsOf(p) : y < x
  BY <1>1, <1>5 DEF IdsOf
<1>7. QED
  BY <1>2, <1>3, <1>4, <1>6 DEF p

(* What ids_after collects, page by page.                                   *)
IsCollected(index, from, n, g) ==
  g = [m \in 0 .. n |-> IF m = 0 THEN << >> ELSE g[m - 1] \o Later(index[m], from)]

LEMMA CollectedExists ==
  ASSUME NEW index, NEW from, NEW n \in Nat
  PROVE  \E g : IsCollected(index, from, n, g)
<1> DEFINE Good == {k \in Nat : \E g : IsCollected(index, from, k, g)}
<1>1. 0 \in Good
  <2>1. IsCollected(index, from, 0, [m \in 0 .. 0 |-> << >>])
    BY DEF IsCollected
  <2>2. QED
    BY <2>1
<1>2. ASSUME NEW k \in Nat, k \in Good PROVE k + 1 \in Good
  <2>1. PICK g : IsCollected(index, from, k, g)
    BY <1>2
  <2> DEFINE h == [m \in 0 .. (k + 1) |->
                     IF m <= k THEN g[m] ELSE g[k] \o Later(index[k + 1], from)]
  <2>2. ASSUME NEW m \in 0 .. (k + 1)
        PROVE  h[m] = IF m = 0 THEN << >> ELSE h[m - 1] \o Later(index[m], from)
    <3>1. CASE m <= k
      <4>1. m \in 0 .. k /\ h[m] = g[m]
        BY <3>1
      <4>2. g[m] = IF m = 0 THEN << >> ELSE g[m - 1] \o Later(index[m], from)
        BY <4>1, <2>1 DEF IsCollected
      <4>3. m # 0 => m - 1 \in 0 .. (k + 1) /\ m - 1 <= k
        BY <3>1
      <4>4. m # 0 => h[m - 1] = g[m - 1]
        BY <4>3
      <4>5. QED
        BY <4>1, <4>2, <4>4
    <3>2. CASE ~(m <= k)
      <4>1. m = k + 1 /\ m # 0 /\ m - 1 = k /\ k \in 0 .. (k + 1)
            /\ k + 1 \in 0 .. (k + 1) /\ ~(k + 1 <= k) /\ k <= k
        BY <3>2
      <4>2. h[k] = g[k] /\ h[k + 1] = g[k] \o Later(index[k + 1], from)
        BY <4>1
      <4>3. QED
        BY <4>1, <4>2
    <3>3. QED
      BY <3>1, <3>2
  <2>3. IsCollected(index, from, k + 1, h)
    BY <2>2 DEF IsCollected
  <2>4. QED
    BY <2>3
<1> HIDE DEF Good
<1>3. Nat \subseteq Good
  BY <1>1, <1>2, NatSetInduction
<1>4. QED
  BY <1>3 DEF Good

(* The ids that the index has after the cursor, in order, and the part of   *)
(* them that one call looks at: it leaves out only later ones.              *)
ReadFrom(ids, index, from) ==
  /\ ids \in Seq(Nat) /\ Ascending(ids)
  /\ \A x \in IdsOf(ids) : x \in IndexedIds(index) /\ from < x
  /\ \A x \in IndexedIds(index) : from < x =>
       ids # << >> /\ (x \in IdsOf(ids) \/ \A y \in IdsOf(ids) : y < x)

LEMMA CollectedIds ==
  ASSUME NEW index, NEW size, IsIndex(index, Nat, size), NEW from \in Nat,
         NEW g, IsCollected(index, from, Len(index), g)
  PROVE  LET all == g[Len(index)] IN
         /\ all \in Seq(Nat) /\ Ascending(all)
         /\ IdsOf(all) = {x \in IndexedIds(index) : from < x}
<1> DEFINE n == Len(index)
           Upto(m) == {x \in UNION {IdsOf(index[j]) : j \in 1 .. m} : from < x}
           Good == {m \in Nat : m <= n => /\ g[m] \in Seq(Nat) /\ Ascending(g[m])
                                          /\ IdsOf(g[m]) = Upto(m)}
<1>1. /\ n \in Nat /\ DOMAIN index = 1 .. n /\ OrderedPages(index, size)
      /\ \A m \in 1 .. n : index[m] \in Seq(Nat) /\ Ascending(index[m])
  <2>1. index \in Seq(Seq(Nat)) /\ OrderedPages(index, size)
    BY DEF IsIndex
  <2>2. n \in Nat /\ DOMAIN index = 1 .. n /\ \A m \in 1 .. n : index[m] \in Seq(Nat)
    BY <2>1, LenProperties, ElementOfSeq
  <2>3. QED
    BY <2>1, <2>2 DEF OrderedPages
<1>2. \A m \in 0 .. n : g[m] = IF m = 0 THEN << >> ELSE g[m - 1] \o Later(index[m], from)
  BY Zenon DEF IsCollected
<1> HIDE DEF n
<1>3. 0 \in Good
  <2>1. g[0] = << >>
    BY <1>1, <1>2
  <2>2. Upto(0) = {} /\ IdsOf(<< >>) = {} /\ Ascending(<< >>) /\ << >> \in Seq(Nat)
    BY DEF IdsOf, Ascending
  <2> HIDE DEF Upto
  <2>3. QED
    BY <2>1, <2>2
<1>4. ASSUME NEW m \in Nat, m \in Good PROVE m + 1 \in Good
  <2>1. SUFFICES ASSUME m + 1 <= n
        PROVE  /\ g[m + 1] \in Seq(Nat) /\ Ascending(g[m + 1])
               /\ IdsOf(g[m + 1]) = Upto(m + 1)
    OBVIOUS
  <2> DEFINE page == index[m + 1]
             more == Later(page, from)
  <2>2. /\ m \in 0 .. n /\ m + 1 \in 0 .. n /\ m + 1 \in 1 .. n /\ m <= n
        /\ (m + 1) - 1 = m /\ m + 1 # 0 /\ (1 .. (m + 1)) = (1 .. m) \cup {m + 1}
    BY <1>1, <2>1
  <2>3. g[m + 1] = g[m] \o more
    BY <1>2, <2>2
  <2>4. g[m] \in Seq(Nat) /\ Ascending(g[m]) /\ IdsOf(g[m]) = Upto(m)
    BY <1>4, <2>2
  <2>5. /\ more \in Seq(Nat) /\ Ascending(more)
        /\ IdsOf(more) = {x \in IdsOf(page) : from < x}
    BY <1>1, <2>2, LaterIds
  <2> HIDE DEF more
  <2>6. ASSUME NEW x \in IdsOf(g[m]), NEW y \in IdsOf(more) PROVE x < y
    <3>1. PICK j \in 1 .. m : x \in IdsOf(index[j])
      BY <2>4
    <3>2. y \in IdsOf(index[m + 1])
      BY <2>5
    <3>3. j \in DOMAIN index /\ m + 1 \in DOMAIN index /\ j < m + 1
      BY <1>1, <2>2
    <3>4. QED
      BY <1>1, <3>1, <3>2, <3>3 DEF OrderedPages
  <2>7. /\ g[m] \o more \in Seq(Nat) /\ Ascending(g[m] \o more)
        /\ IdsOf(g[m] \o more) = IdsOf(g[m]) \cup IdsOf(more)
    BY <2>4, <2>5, <2>6, Joined
  <2>8. Upto(m + 1) = Upto(m) \cup {x \in IdsOf(page) : from < x}
    BY <2>2
  <2>9. QED
    BY <2>3, <2>4, <2>5, <2>7, <2>8
<1> HIDE DEF Good
<1>5. n \in Good
  BY <1>1, <1>3, <1>4, NatSetInduction
<1>6. Upto(n) = {x \in IndexedIds(index) : from < x}
  BY <1>1 DEF IndexedIds
<1>7. QED
  BY <1>1, <1>5, <1>6 DEF Good, n

LEMMA IdsAfterFacts ==
  ASSUME NEW index, NEW size, IsIndex(index, Nat, size), NEW from \in Nat,
         NEW max \in Nat \ {0}
  PROVE  ReadFrom(IdsAfter(index, from, max), index, from)
<1> DEFINE n == Len(index)
           g == CHOOSE f : IsCollected(index, from, n, f)
           all == g[n]
           k == IF Len(all) < max THEN Len(all) ELSE max
           ids == SubSeq(all, 1, k)
<1>1. n \in Nat
  BY LenProperties DEF IsIndex
<1>2. IsCollected(index, from, n, g)
  BY <1>1, CollectedExists, Zenon
<1>3. IdsAfter(index, from, max) = ids
  BY Zenon DEF IdsAfter, IsCollected
<1>4. /\ all \in Seq(Nat) /\ Ascending(all)
      /\ IdsOf(all) = {x \in IndexedIds(index) : from < x}
  BY <1>2, CollectedIds
<1> HIDE DEF all
<1>5. Len(all) \in Nat /\ k \in 0 .. Len(all) /\ (Len(all) # 0 => k # 0)
  BY <1>4, LenProperties
<1> HIDE DEF k
<1>6. /\ ids \in Seq(Nat) /\ Len(ids) = k /\ Ascending(ids) /\ IdsOf(ids) \subseteq IdsOf(all)
      /\ \A x \in IdsOf(all) : x \in IdsOf(ids) \/ \A y \in IdsOf(ids) : y < x
  BY <1>4, <1>5, FirstIds
<1>7. ASSUME NEW x \in IdsOf(all) PROVE ids # << >>
  <2>1. DOMAIN all # {} /\ DOMAIN all = 1 .. Len(all)
    BY <1>4, LenProperties DEF IdsOf
  <2>2. Len(all) # 0
    BY <2>1
  <2>3. QED
    BY <1>5, <1>6, <2>2
<1> HIDE DEF ids
<1>8. ReadFrom(ids, index, from)
  BY <1>4, <1>6, <1>7 DEF ReadFrom
<1>9. QED
  BY <1>3, <1>8

(* What the answer to one call says about the listings it passed.           *)
Answers(read, index, from, matching) ==
  /\ read.found \in Seq(Nat) /\ Ascending(read.found)
  /\ read.next \in Nat /\ from <= read.next
  /\ \A x \in IdsOf(read.found) : from < x /\ x <= read.next
  /\ \A x \in IndexedIds(index) \cap matching :
       from < x /\ x <= read.next => x \in IdsOf(read.found)
  /\ read.next = from => \A x \in IndexedIds(index) : ~(from < x)

LEMMA ScanAnswers ==
  ASSUME NEW index, IndexedIds(index) \subseteq Nat, NEW ids, NEW from \in Nat,
         ReadFrom(ids, index, from), NEW matching
  PROVE  Answers(Scan(from, ids, matching), index, from, matching)
<1> DEFINE Hits(k) == Matches(SubSeq(ids, 1, k), matching)
           full == {k \in DOMAIN ids : Len(Hits(k)) = Limit}
           examined == IF full = {} THEN Len(ids) ELSE Min(full)
           found == Hits(examined)
           next == IF examined = 0 THEN from ELSE ids[examined]
<1>1. /\ ids \in Seq(Nat) /\ Len(ids) \in Nat /\ DOMAIN ids = 1 .. Len(ids)
      /\ \A i \in 1 .. Len(ids) : ids[i] \in Nat /\ ids[i] \in IdsOf(ids) /\ from < ids[i]
  <2>1. ids \in Seq(Nat) /\ \A x \in IdsOf(ids) : from < x
    BY DEF ReadFrom
  <2>2. Len(ids) \in Nat /\ DOMAIN ids = 1 .. Len(ids) /\ \A i \in 1 .. Len(ids) : ids[i] \in Nat
    BY <2>1, LenProperties, ElementOfSeq
  <2>3. QED
    BY <2>1, <2>2 DEF IdsOf
<1>2. Scan(from, ids, matching) = [found |-> found, next |-> next]
  BY DEF Scan
<1>3. examined \in 0 .. Len(ids) /\ (Len(ids) # 0 => examined # 0)
  <2>1. CASE full = {}
    BY <1>1, <2>1
  <2>2. CASE full # {}
    <3>1. full \subseteq Nat /\ full \subseteq 1 .. Len(ids)
      BY <1>1
    <3>0. examined = Min(full)
      BY <2>2
    <3> HIDE DEF full, examined
    <3>2. \E x \in full : \A y \in full : x <= y
      BY <2>2, <3>1, LeastNat
    <3>3. Min(full) \in full
      BY <3>2 DEF Min
    <3>4. examined \in 1 .. Len(ids)
      BY <3>0, <3>1, <3>3, Zenon
    <3>5. QED
      BY <1>1, <3>4
  <2>3. QED
    BY <2>1, <2>2
<1> HIDE DEF examined
<1> DEFINE passed == SubSeq(ids, 1, examined)
<1>4. /\ passed \in Seq(Nat) /\ Len(passed) = examined /\ Ascending(passed)
      /\ IdsOf(passed) \subseteq IdsOf(ids) /\ \A i \in 1 .. examined : passed[i] = ids[i]
      /\ \A x \in IdsOf(ids) : x \in IdsOf(passed) \/ \A y \in IdsOf(passed) : y < x
  BY <1>1, <1>3, FirstIds DEF ReadFrom
<1>5. found = Without(passed, IdsOf(passed) \ matching)
  BY DEF Matches
<1> HIDE DEF passed, found
<1>6. /\ found \in Seq(Nat) /\ Ascending(found) /\ IdsOf(found) = IdsOf(passed) \cap matching
  BY <1>4, <1>5, WithoutKeeps
<1>7. CASE ids = << >>
  <2>1. examined = 0 /\ next = from /\ DOMAIN passed = {}
    BY <1>1, <1>3, <1>4, <1>7, LenProperties
  <2>2. IdsOf(passed) = {}
    BY <2>1 DEF IdsOf
  <2>3. \A x \in IndexedIds(index) : ~(from < x)
    BY <1>7 DEF ReadFrom
  <2>4. QED
    BY <1>2, <1>6, <2>1, <2>2, <2>3 DEF Answers
<1>8. CASE ids # << >>
  <2>1. Len(ids) # 0 /\ examined \in 1 .. Len(ids) /\ examined \in Nat
    BY <1>1, <1>3, <1>8, EmptySeq
  <2>2. next = ids[examined] /\ next \in Nat /\ from < next /\ next = passed[examined]
    BY <1>1, <1>4, <2>1
  <2>3. DOMAIN passed = 1 .. examined /\ next \in IdsOf(passed)
    BY <1>4, <2>1, <2>2, LenProperties DEF IdsOf
  <2> HIDE DEF next
  <2>4. \A x \in IdsOf(passed) : from < x /\ x <= next
    <3>1. ASSUME NEW i \in 1 .. examined PROVE from < passed[i] /\ passed[i] <= next
      <4>1. i \in 1 .. Len(ids) /\ (i = examined \/ i < examined)
        BY <2>1
      <4>2. i < examined => passed[i] < passed[examined]
        <5>1. i \in DOMAIN passed /\ examined \in DOMAIN passed
          BY <2>1, <2>3
        <5>2. QED
          BY <1>4, <5>1 DEF Ascending
      <4>3. QED
        BY <1>1, <1>4, <2>2, <4>1, <4>2
    <3>2. QED
      BY <2>3, <3>1 DEF IdsOf
  <2>5. ASSUME NEW x \in IndexedIds(index), from < x, x <= next, x \in matching
        PROVE  x \in IdsOf(found)
    <3>1. x \in IdsOf(ids) \/ \A y \in IdsOf(ids) : y < x
      BY <2>5 DEF ReadFrom
    <3>2. x \in IdsOf(passed) \/ \A y \in IdsOf(passed) : y < x
      BY <1>4, <3>1
    <3>3. x \in IdsOf(passed)
      <4>1. x \in Nat /\ ~(next < x)
        BY <2>2, <2>5
      <4>2. QED
        BY <2>3, <3>2, <4>1
    <3>4. QED
      BY <1>6, <2>5, <3>3
  <2>6. QED
    BY <1>2, <1>6, <2>2, <2>4, <2>5 DEF Answers
<1>9. QED
  BY <1>7, <1>8

---------------------------------------------------------------------------
(* The client.                                                              *)

WantedNow(id) == filtered => id \in Wanted

IndexOK ==
  /\ IsIndex(pages, Nat, PageSize) /\ listed \in Nat
  /\ IndexedIds(pages) \subseteq 1 .. listed
  /\ active \subseteq IndexedIds(pages) /\ steady \subseteq active

(* So far, so good: what the client passed it has, up to its cursor.        *)
ReaderOK ==
  /\ cursor \in Nat /\ seen \in Seq(Nat) /\ Ascending(seen)
  /\ \A x \in IdsOf(seen) : x <= cursor
  /\ phase = "idle" => cursor = 0
  /\ phase # "idle" =>
       \A id \in steady : WantedNow(id) /\ id <= cursor => id \in IdsOf(seen)
  /\ phase = "done" => \A id \in steady : WantedNow(id) => id <= cursor

ScanInv == IndexOK /\ ReaderOK

LEMMA ScanInit_Inv == ScanInit => ScanInv
<1> SUFFICES ASSUME ScanInit PROVE ScanInv
  OBVIOUS
<1>1. pages = << >> /\ seen = << >> /\ active = {} /\ steady = {}
  BY DEF ScanInit
<1>2. << >> \in Seq(Seq(Nat)) /\ OrderedPages(<< >>, PageSize) /\ IndexedIds(<< >>) = {}
  BY DEF OrderedPages, IndexedIds
<1>3. << >> \in Seq(Nat) /\ Ascending(<< >>) /\ IdsOf(<< >>) = {}
  BY DEF Ascending, IdsOf
<1>4. IndexOK
  BY <1>1, <1>2 DEF IndexOK, IsIndex, ScanInit
<1>5. ReaderOK
  BY <1>1, <1>3 DEF ReaderOK, ScanInit
<1>6. QED
  BY <1>4, <1>5 DEF ScanInv

LEMMA ReaderUnmoved ==
  ASSUME ReaderOK, UNCHANGED readerVars, steady' \subseteq steady
  PROVE  ReaderOK'
BY DEF ReaderOK, readerVars, WantedNow

LEMMA AppendListingIdIndex ==
  ASSUME NEW index, NEW T, NEW id, NewId(index, T, PageSize, id), PageSize \in Nat
  PROVE  LET new == AppendListingId(index, id) IN
         /\ IsIndex(new, T, PageSize)
         /\ IndexedIds(new) = IndexedIds(index) \cup {id}
<1>1. CASE index = << >> \/ Len(index[Len(index)]) >= PageSize
  <2>1. AppendListingId(index, id) = OnNewPage(index, id)
    BY <1>1 DEF AppendListingId, OnNewPage
  <2>2. QED
    BY <2>1, PageOpened
<1>2. CASE ~(index = << >> \/ Len(index[Len(index)]) >= PageSize)
  <2>1. Len(index[Len(index)]) < PageSize
    <3>1. index \in Seq(Seq(T))
      BY DEF NewId, IsIndex
    <3>2. index[Len(index)] \in Seq(T)
      BY <1>2, <3>1, LenProperties, ElementOfSeq, EmptySeq
    <3>3. QED
      BY <1>2, <3>2, LenProperties
  <2>2. AppendListingId(index, id) = OnLastPage(index, id)
    BY <1>2 DEF AppendListingId, OnLastPage
  <2>3. QED
    BY <1>2, <2>1, <2>2, LastPageGrows
<1>3. QED
  BY <1>1, <1>2

LEMMA ListBotScan == ScanInv /\ ListBot => ScanInv'
<1> SUFFICES ASSUME ScanInv, ListBot PROVE ScanInv'
  OBVIOUS
<1> DEFINE id == listed + 1
<1>1. /\ IsIndex(pages, Nat, PageSize) /\ listed \in Nat /\ IndexedIds(pages) \subseteq 1 .. listed
      /\ active \subseteq IndexedIds(pages) /\ steady \subseteq active
  BY DEF ScanInv, IndexOK
<1>2. /\ listed' = id /\ pages' = AppendListingId(pages, id) /\ active' = active \cup {id}
      /\ UNCHANGED readerVars /\ steady' = steady
  BY DEF ListBot
<1>3. NewId(pages, Nat, PageSize, id) /\ PageSize \in Nat
  <2>1. PageSize \in Nat /\ 1 <= PageSize /\ id \in Nat
    BY <1>1, PageSizeAssumption
  <2>2. \A i \in IndexedIds(pages) : i < id
    BY <1>1
  <2>3. QED
    BY <1>1, <2>1, <2>2 DEF NewId
<1> HIDE DEF id
<1>4. IsIndex(pages', Nat, PageSize) /\ IndexedIds(pages') = IndexedIds(pages) \cup {id}
  BY <1>2, <1>3, AppendListingIdIndex
<1>5. id \in Nat /\ 1 .. listed \subseteq 1 .. id /\ id \in 1 .. id
  BY <1>1 DEF id
<1>6. IndexOK'
  BY <1>1, <1>2, <1>4, <1>5 DEF IndexOK
<1>7. ReaderOK'
  BY <1>2, ReaderUnmoved DEF ScanInv
<1>8. QED
  BY <1>6, <1>7 DEF ScanInv

LEMMA EndListingScan == ASSUME ScanInv, NEW id \in active, EndListing(id) PROVE ScanInv'
<1>1. IndexOK'
  BY DEF ScanInv, IndexOK, EndListing
<1>2. ReaderOK'
  BY ReaderUnmoved DEF ScanInv, EndListing
<1>3. QED
  BY <1>1, <1>2 DEF ScanInv

LEMMA CompactPageScan == ASSUME ScanInv, NEW n \in DOMAIN pages, CompactPage(n) PROVE ScanInv'
<1>1. /\ IsIndex(pages, Nat, PageSize) /\ PageSize \in Nat /\ active \subseteq IndexedIds(pages)
      /\ IndexedIds(pages) \subseteq 1 .. listed
  BY PageSizeAssumption DEF ScanInv, IndexOK
<1>2. pages' = CompactedAt(pages, n, active) /\ UNCHANGED <<listed, active, readerVars, steady>>
  BY DEF CompactPage, CompactedAt
<1>3. /\ IsIndex(pages', Nat, PageSize) /\ IndexedIds(pages') \subseteq IndexedIds(pages)
      /\ active \subseteq IndexedIds(pages')
  BY <1>1, <1>2, PageCompacted
<1>4. IndexOK'
  BY <1>1, <1>2, <1>3 DEF ScanInv, IndexOK
<1>5. ReaderOK'
  BY <1>2, ReaderUnmoved DEF ScanInv
<1>6. QED
  BY <1>4, <1>5 DEF ScanInv

LEMMA BeginScan == ScanInv /\ Begin => ScanInv'
<1> SUFFICES ASSUME ScanInv, Begin PROVE ScanInv'
  OBVIOUS
<1>1. IndexOK'
  BY DEF ScanInv, IndexOK, Begin
<1>2. \A id \in active : ~(id <= 0)
  <2>1. active \subseteq 1 .. listed /\ listed \in Nat
    BY DEF ScanInv, IndexOK
  <2>2. QED
    BY <2>1
<1>3. ReaderOK'
  BY <1>2 DEF ScanInv, ReaderOK, Begin
<1>4. QED
  BY <1>1, <1>3 DEF ScanInv

LEMMA FetchScan == ScanInv /\ Fetch => ScanInv'
<1> SUFFICES ASSUME ScanInv, Fetch PROVE ScanInv'
  OBVIOUS
<1> DEFINE ids == IdsAfter(pages, cursor, Budget)
           read == Scan(cursor, ids, Selected)
<1>1. /\ phase = "scanning" /\ seen' = seen \o read.found /\ cursor' = read.next
      /\ phase' = (IF read.next = cursor THEN "done" ELSE phase)
      /\ UNCHANGED <<pages, listed, active, filtered, steady>>
  BY DEF Fetch
<1>2. /\ IsIndex(pages, Nat, PageSize) /\ IndexedIds(pages) \subseteq Nat
      /\ cursor \in Nat /\ Budget \in Nat \ {0}
  <2>1. Budget \in Nat \ {0}
    BY ScanAssumption DEF Budget, ScanFactor
  <2>2. QED
    BY <2>1 DEF ScanInv, IndexOK, ReaderOK
<1>3. ReadFrom(ids, pages, cursor)
  BY <1>2, IdsAfterFacts
<1> HIDE DEF ids
<1>4. Answers(read, pages, cursor, Selected)
  BY <1>2, <1>3, ScanAnswers
<1> HIDE DEF read
<1>5. IndexOK'
  BY <1>1 DEF ScanInv, IndexOK
<1>6. /\ seen \in Seq(Nat) /\ Ascending(seen) /\ \A x \in IdsOf(seen) : x <= cursor
      /\ read.found \in Seq(Nat) /\ Ascending(read.found) /\ read.next \in Nat /\ cursor <= read.next
      /\ \A x \in IdsOf(read.found) : cursor < x /\ x <= read.next
  BY <1>4 DEF ScanInv, ReaderOK, Answers
<1>7. IdsOf(seen) \subseteq Nat /\ IdsOf(read.found) \subseteq Nat
  BY <1>6, LenProperties, ElementOfSeq DEF IdsOf
<1>8. /\ seen' \in Seq(Nat) /\ Ascending(seen')
      /\ IdsOf(seen') = IdsOf(seen) \cup IdsOf(read.found)
  <2>1. \A x \in IdsOf(seen), y \in IdsOf(read.found) : x < y
    BY <1>2, <1>6, <1>7
  <2>2. QED
    BY <1>1, <1>6, <2>1, Joined
<1>9. \A x \in IdsOf(seen') : x <= cursor'
  BY <1>1, <1>2, <1>6, <1>7, <1>8
<1>10. steady \subseteq Nat /\ \A id \in steady : WantedNow(id) => id \in IndexedIds(pages) \cap Selected
  BY <1>2 DEF ScanInv, IndexOK, Selected, WantedNow
<1>11. ASSUME NEW id \in steady, WantedNow(id), id <= read.next
       PROVE  id \in IdsOf(seen) \cup IdsOf(read.found)
  <2>1. CASE id <= cursor
    BY <1>1, <1>11, <2>1 DEF ScanInv, ReaderOK
  <2>2. CASE ~(id <= cursor)
    <3>1. cursor < id
      BY <1>2, <1>10, <2>2
    <3>2. QED
      BY <1>4, <1>10, <1>11, <3>1 DEF Answers
  <2>3. QED
    BY <2>1, <2>2
<1>12. ASSUME read.next = cursor, NEW id \in steady, WantedNow(id)
       PROVE  id <= cursor
  <2>1. ~(cursor < id)
    BY <1>4, <1>10, <1>12 DEF Answers
  <2>2. QED
    BY <1>2, <1>10, <2>1
<1>13. ReaderOK'
  <2>1. \A id \in steady' : WantedNow(id)' /\ id <= cursor' => id \in IdsOf(seen')
    BY <1>1, <1>8, <1>11 DEF WantedNow
  <2>2. phase' = "done" => \A id \in steady' : WantedNow(id)' => id <= cursor'
    BY <1>1, <1>12 DEF WantedNow
  <2>3. phase' # "idle"
    BY <1>1
  <2>4. QED
    BY <1>1, <1>6, <1>8, <1>9, <2>1, <2>2, <2>3 DEF ReaderOK
<1>14. QED
  BY <1>5, <1>13 DEF ScanInv

LEMMA ScanStep == ScanInv /\ [ScanNext]_vars => ScanInv'
<1> SUFFICES ASSUME ScanInv, [ScanNext]_vars PROVE ScanInv'
  OBVIOUS
<1>1. CASE UNCHANGED vars
  BY <1>1 DEF vars, readerVars, ScanInv, IndexOK, ReaderOK, WantedNow
<1>2. CASE ScanNext
  BY <1>2, ListBotScan, EndListingScan, CompactPageScan, BeginScan, FetchScan DEF ScanNext
<1>3. QED
  BY <1>1, <1>2

LEMMA ScanInvSuffices == ScanInv => SteadyListingsSeenOnce
<1> SUFFICES ASSUME ScanInv PROVE SteadyListingsSeenOnce
  OBVIOUS
<1>1. ToSet(seen) = IdsOf(seen)
  BY DEF ToSet, IdsOf
<1>2. QED
  BY <1>1 DEF ScanInv, ReaderOK, SteadyListingsSeenOnce, EverySteadyListingSeen, NothingTwice,
              Ascending, WantedNow

(* A client that pages to the end was given every listing that was active   *)
(* all the while and that its filter wants, and no listing twice, whatever  *)
(* was listed, ended or compacted between two calls                         *)
(* (get_active_listings: "every active listing is visited exactly once"),   *)
(* for every page size, page length and scan budget.                        *)
THEOREM PagingVisitsOnce == ScanSpec => []SteadyListingsSeenOnce
<1>1. ScanSpec => []ScanInv
  BY ScanInit_Inv, ScanStep, PTL DEF ScanSpec
<1>2. QED
  BY <1>1, ScanInvSuffices, PTL

---------------------------------------------------------------------------
(* The query cache.                                                         *)

USE DEF followed

(* Entries and mutations have their fields, whatever their values.          *)
EntryFields == {"key", "data", "fetching", "failed", "edits", "of"}
IsEntry(e) == e = [f \in EntryFields |-> e[f]]

IsMutation(m) ==
  /\ m = [op |-> m.op, at |-> m.at, previous |-> m.previous]
  /\ m.op = [kind |-> m.op.kind, by |-> m.op.by, bot |-> m.op.bot]
  /\ m.op.kind \in {"buy", "list", "cancel", "claim"}

(* An answer that EditsSettle would not let stand by itself.                *)
Suspect(q, e, who) ==
  /\ e.data # None /\ ~e.fetching /\ ~e.failed
  /\ e.edits # {} \/ (q \in AddressScoped /\ e.of # who)

(* What accounts for it: a mutation under way that will refetch the query   *)
(* however it ends, or a purchase, which leaves the account's own listings  *)
(* to the next poll.                                                        *)
WillRefetch(ms, q, who) ==
  \E i \in DOMAIN ms :
    /\ ms[i].at # "settled" /\ q \in EditedBy(ms[i].op.kind)
    /\ q \in AddressScoped => ms[i].op.by = who
LeftToPoll(ms, q) == q = "myListings" /\ \E i \in DOMAIN ms : ms[i].op.kind = "buy"
Accounted(ms, q, who) == WillRefetch(ms, q, who) \/ LeftToPoll(ms, q)

CInv ==
  /\ \A q \in followed : IsEntry(cache[q])
  /\ \A q \in followed : q \in AddressScoped => cache[q].key = me
  /\ \E S : muts \in Seq(S)
  /\ \A i \in DOMAIN muts : IsMutation(muts[i])
  /\ \A q \in followed : Suspect(q, cache[q], me) => Accounted(muts, q, me)

---------------------------------------------------------------------------
(* Entries.                                                                 *)
LEMMA QueryEntry ==
  ASSUME NEW q, NEW key
  PROVE  LET e == Query(q, key) IN IsEntry(e) /\ e.key = key /\ e.data = None
BY DEF Query, NoEntry, IsEntry, EntryFields

LEMMA FetchedEntry ==
  ASSUME NEW e, IsEntry(e), NEW f
  PROVE  LET r == [e EXCEPT !.fetching = f] IN
         /\ IsEntry(r) /\ r.key = e.key /\ r.data = e.data /\ r.fetching = f
         /\ r.failed = e.failed /\ r.edits = e.edits /\ r.of = e.of
BY DEF IsEntry, EntryFields

LEMMA WrittenEntry ==
  ASSUME NEW e, IsEntry(e), NEW data, NEW edits, NEW of
  PROVE  LET r == Written(e, data, edits, of) IN
         /\ IsEntry(r) /\ r.key = e.key /\ r.fetching = e.fetching
<1>1. CASE data = None BY <1>1 DEF Written
<1>2. CASE data # None
  <2> DEFINE r == [e EXCEPT !.data = data, !.failed = FALSE, !.edits = edits, !.of = of]
  <2>1. IsEntry(r) /\ r.key = e.key /\ r.fetching = e.fetching
    BY DEF IsEntry, EntryFields
  <2> QED BY <1>2, <2>1 DEF Written
<1> QED BY <1>1, <1>2

(* Every hook refetches what it edits, except the one of a purchase.        *)
LEMMA EditsAreRefetched ==
  ASSUME NEW kind \in {"buy", "list", "cancel", "claim"}, NEW q \in EditedBy(kind)
  PROVE  q \in InvalidatedBy(kind) \/ (kind = "buy" /\ q = "myListings")
BY DEF EditedBy, InvalidatedBy, Hook, UseBuyBot, UseCancelListing, UseListBot, UseClaim

(* What they edit is asked for whatever its key.                            *)
LEMMA EditedAreEnabled ==
  ASSUME NEW kind \in {"buy", "list", "cancel", "claim"}, NEW q \in EditedBy(kind), NEW key
  PROVE  Enabled(q, key)
BY DEF EditedBy, Hook, UseBuyBot, UseCancelListing, UseListBot, UseClaim, Enabled

LEMMA InvalidatedEntries ==
  ASSUME NEW c, NEW qs, \A q \in DOMAIN c : IsEntry(c[q])
  PROVE  LET d == Invalidated(c, qs) IN
         /\ DOMAIN d = DOMAIN c
         /\ \A q \in DOMAIN c :
              /\ IsEntry(d[q]) /\ d[q].key = c[q].key
              /\ q \in qs /\ Enabled(q, c[q].key) => d[q].fetching = TRUE
              /\ ~(q \in qs /\ Enabled(q, c[q].key)) => d[q] = c[q]
<1> DEFINE d == Invalidated(c, qs)
           Chosen(q) == q \in qs /\ Enabled(q, c[q].key)
<1>1. d = [q \in DOMAIN c |-> IF Chosen(q) THEN [c[q] EXCEPT !.fetching = TRUE] ELSE c[q]]
  BY DEF Invalidated
<1> HIDE DEF Chosen
<1>2. ASSUME NEW q \in DOMAIN c
      PROVE  /\ IsEntry(d[q]) /\ d[q].key = c[q].key
             /\ Chosen(q) => d[q].fetching = TRUE
             /\ ~Chosen(q) => d[q] = c[q]
  <2>1. CASE Chosen(q)
    <3>1. d[q] = [c[q] EXCEPT !.fetching = TRUE] BY <1>1, <2>1
    <3> DEFINE r == [c[q] EXCEPT !.fetching = TRUE]
    <3>2. IsEntry(r) /\ r.key = c[q].key /\ r.fetching = TRUE BY FetchedEntry
    <3> HIDE DEF r
    <3> QED BY <2>1, <3>1, <3>2 DEF r
  <2>2. CASE ~Chosen(q) BY <1>1, <2>2
  <2> QED BY <2>1, <2>2
<1> QED BY <1>1, <1>2 DEF Chosen

---------------------------------------------------------------------------
(* Show: what is kept of the entries that the step makes.                   *)
LEMMA ShowKeeps ==
  ASSUME NEW c, DOMAIN c = followed, \A q \in DOMAIN c : IsEntry(c[q]),
         \E S : muts' \in Seq(S), \A i \in DOMAIN muts' : IsMutation(muts'[i]),
         \A q \in DOMAIN c : (q \in AddressScoped => c[q].key = me') /\ Suspect(q, c[q], me')
                               => Accounted(muts', q, me'),
         NEW reads, Show(c, reads)
  PROVE  CInv' /\ followed' = followed
<1>1. cache' = [q \in DOMAIN c |-> IF c[q].key = KeyOf(q, c, me', selected') THEN c[q]
                                   ELSE Query(q, KeyOf(q, c, me', selected'))]
  BY DEF Show, Rekeyed
<1>2. followed' = followed BY <1>1
<1>3. \A q \in AddressScoped : KeyOf(q, c, me', selected') = me'
  BY DEF KeyOf, AddressScoped
<1>4. ASSUME NEW q \in DOMAIN c
      PROVE  /\ IsEntry(cache'[q])
             /\ q \in AddressScoped => cache'[q].key = me'
             /\ Suspect(q, cache'[q], me') => Accounted(muts', q, me')
  <2> DEFINE k == KeyOf(q, c, me', selected')
  <2>1. q \in AddressScoped => k = me' BY <1>3
  <2>2. cache'[q] = IF c[q].key = k THEN c[q] ELSE Query(q, k) BY <1>1
  <2> HIDE DEF k
  <2>3. CASE c[q].key = k BY <2>1, <2>2, <2>3
  <2>4. CASE c[q].key # k
    <3>1. cache'[q] = Query(q, k) BY <2>2, <2>4
    <3>2. IsEntry(cache'[q]) /\ cache'[q].key = k /\ cache'[q].data = None
      BY <3>1, QueryEntry
    <3> QED BY <2>1, <3>2 DEF Suspect
  <2> QED BY <2>3, <2>4
<1> QED BY <1>1, <1>2, <1>4 DEF CInv

(* No mutation is made or settled, and the account stays.                   *)
LEMMA SameMutations ==
  ASSUME CInv, NEW c, DOMAIN c = followed, muts' = muts, me' = me,
         \A q \in DOMAIN c : IsEntry(c[q]) /\ (Suspect(q, c[q], me) => c[q] = cache[q]),
         NEW reads, Show(c, reads)
  PROVE  CInv'
<1>1. \A q \in DOMAIN c : Suspect(q, c[q], me') => Accounted(muts', q, me')
  <2> SUFFICES ASSUME NEW q \in DOMAIN c, Suspect(q, c[q], me) PROVE Accounted(muts, q, me)
    OBVIOUS
  <2>1. Suspect(q, cache[q], me) OBVIOUS
  <2> QED BY <2>1 DEF CInv
<1>2. (\E S : muts' \in Seq(S)) /\ \A i \in DOMAIN muts' : IsMutation(muts'[i]) BY DEF CInv
<1> QED BY <1>1, <1>2, ShowKeeps

LEMMA PollKeeps ==
  ASSUME CInv, NEW q \in followed, Poll(q)
  PROVE  CInv'
<1> DEFINE c == Invalidated(cache, {q})
<1>1. muts' = muts /\ me' = me /\ Show(c, sims) /\ Enabled(q, cache[q].key) BY DEF Poll
<1>2. \A p \in followed : IsEntry(cache[p]) BY DEF CInv
<1>3. /\ DOMAIN c = followed
      /\ \A p \in followed : /\ IsEntry(c[p]) /\ c[p].key = cache[p].key
                             /\ p \in {q} => c[p].fetching = TRUE
                             /\ p \notin {q} => c[p] = cache[p]
  BY <1>1, <1>2, InvalidatedEntries
<1> HIDE DEF c
<1>4. \A p \in DOMAIN c : IsEntry(c[p]) /\ (Suspect(p, c[p], me) => c[p] = cache[p])
  BY <1>3 DEF Suspect
<1> QED BY <1>1, <1>3, <1>4, SameMutations

LEMMA DeliverKeeps ==
  ASSUME CInv, NEW q \in followed, Deliver(q)
  PROVE  CInv'
<1> DEFINE of == IF q \in AddressScoped THEN me ELSE None
           answered == [NoEntry EXCEPT !.key = cache[q].key, !.data = sims[q].answer, !.of = of]
           c == IF cache[q].fetching THEN [cache EXCEPT ![q] = answered] ELSE cache
<1>1. muts' = muts /\ me' = me /\ Show(c, [sims EXCEPT ![q] = NoSim]) BY DEF Deliver
<1>2. \A p \in followed : IsEntry(cache[p]) BY DEF CInv
<1>3. IsEntry(answered) /\ answered.edits = {} /\ answered.of = of
  BY DEF NoEntry, IsEntry, EntryFields
<1>4. ~Suspect(q, answered, me) BY <1>3 DEF Suspect
<1> HIDE DEF answered
<1>5. DOMAIN c = followed OBVIOUS
<1>6. \A p \in followed : c[p] = cache[p] \/ (p = q /\ c[p] = answered) BY <1>2
<1> HIDE DEF c
<1>7. \A p \in DOMAIN c : IsEntry(c[p]) /\ (Suspect(p, c[p], me) => c[p] = cache[p])
  BY <1>2, <1>3, <1>4, <1>5, <1>6
<1> QED BY <1>1, <1>5, <1>7, SameMutations

LEMMA GiveUpKeeps ==
  ASSUME CInv, NEW q \in followed, GiveUp(q)
  PROVE  CInv'
<1> DEFINE d == [cache[q] EXCEPT !.fetching = FALSE]
           e == [d EXCEPT !.failed = TRUE]
<1>1. muts' = muts /\ me' = me BY DEF GiveUp
<1>2. CASE cache' = cache BY <1>1, <1>2 DEF CInv
<1>3. CASE cache' # cache
  <2>1. cache' = [cache EXCEPT ![q] = e] BY <1>3 DEF GiveUp
  <2>2. IsEntry(d) /\ d.key = cache[q].key BY FetchedEntry, Zenon DEF CInv
  <2> HIDE DEF d
  <2>3. IsEntry(e) /\ e.key = d.key /\ e.failed = TRUE BY <2>2 DEF IsEntry, EntryFields
  <2>4. ~Suspect(q, e, me) BY <2>3 DEF Suspect
  <2> HIDE DEF e
  <2>5. followed' = followed /\ \A p \in followed : cache'[p] = IF p = q THEN e ELSE cache[p]
    BY <2>1
  <2> QED BY <1>1, <2>2, <2>3, <2>4, <2>5 DEF CInv
<1> QED BY <1>2, <1>3

(* A mutation that is made accounts for what it edits.                      *)
LEMMA MutateKeeps ==
  ASSUME CInv, NEW op \in Operations, Mutate(op)
  PROVE  CInv'
<1> DEFINE n == Len(muts) + 1
           c == Optimistic(n, op)
           prev == [q \in followed \cap EditedBy(op.kind) |->
                      [cache[q] EXCEPT !.fetching = FALSE, !.failed = FALSE]]
           m == [op |-> op, at |-> "sent", previous |-> prev]
<1>1. op.by = me /\ me' = me /\ muts' = Append(muts, m) /\ Show(c, sims) BY DEF Mutate
<1>2. IsMutation(m) /\ m.op = op /\ m.at = "sent" BY DEF IsMutation, Operations
<1> HIDE DEF m
<1>3. PICK S : muts \in Seq(S) BY DEF CInv
<1>4. /\ muts' \in Seq(S \cup {m}) /\ DOMAIN muts' = 1 .. n /\ DOMAIN muts = 1 .. Len(muts)
      /\ n \in DOMAIN muts' /\ muts'[n] = m
      /\ \A i \in DOMAIN muts : i \in DOMAIN muts' /\ muts'[i] = muts[i]
      /\ \A i \in DOMAIN muts' : i = n \/ i \in DOMAIN muts
  <2>1. muts \in Seq(S \cup {m}) /\ m \in S \cup {m} BY <1>3
  <2> QED BY <1>1, <2>1
<1>5. (\E T : muts' \in Seq(T)) /\ \A i \in DOMAIN muts' : IsMutation(muts'[i])
  <2>1. \A i \in DOMAIN muts : IsMutation(muts[i]) BY DEF CInv
  <2> QED BY <1>2, <1>4, <2>1
<1>6. DOMAIN c = followed BY DEF Optimistic
<1>7. ASSUME NEW q \in followed
      PROVE  /\ IsEntry(c[q]) /\ c[q].key = cache[q].key
             /\ q \notin EditedBy(op.kind) => c[q] = cache[q]
  <2>1. IsEntry(cache[q]) BY DEF CInv
  <2>2. CASE q \notin EditedBy(op.kind)
    <3>1. c[q] = cache[q] BY <2>2 DEF Optimistic
    <3> QED BY <2>1, <3>1
  <2>3. CASE q \in EditedBy(op.kind)
    <3> DEFINE e == [cache[q] EXCEPT !.fetching = FALSE]
               edited == Edit(op, e.data)
    <3>1. c[q] = Written(e, edited, IF edited = e.data THEN e.edits ELSE e.edits \cup {n}, e.of)
      BY <2>3 DEF Optimistic
    <3>2. IsEntry(e) /\ e.key = cache[q].key BY <2>1, FetchedEntry, Zenon
    <3> HIDE DEF e, edited
    <3>3. IsEntry(c[q]) /\ c[q].key = e.key BY <3>1, <3>2, WrittenEntry
    <3> QED BY <2>3, <3>2, <3>3
  <2> QED BY <2>2, <2>3
<1> HIDE DEF c
<1>8. \A q \in DOMAIN c : Suspect(q, c[q], me') => Accounted(muts', q, me')
  <2> SUFFICES ASSUME NEW q \in followed, Suspect(q, c[q], me) PROVE Accounted(muts', q, me)
    BY <1>1, <1>6
  <2>1. CASE q \in EditedBy(op.kind)
    <3>1. WillRefetch(muts', q, me) BY <1>1, <1>2, <1>4, <2>1 DEF WillRefetch
    <3> QED BY <3>1 DEF Accounted
  <2>2. CASE q \notin EditedBy(op.kind)
    <3>1. Accounted(muts, q, me) BY <1>7, <2>2 DEF CInv
    <3> QED BY <1>4, <3>1 DEF Accounted, WillRefetch, LeftToPoll
  <2> QED BY <2>1, <2>2
<1>9. \A q \in DOMAIN c : IsEntry(c[q]) BY <1>6, <1>7
<1> QED BY <1>1, <1>5, <1>6, <1>8, <1>9, ShowKeeps

LEMMA RewrittenMutation ==
  ASSUME NEW m, IsMutation(m), NEW at
  PROVE  LET r == [m EXCEPT !.at = at] IN
         IsMutation(r) /\ r.op = m.op /\ r.at = at
BY DEF IsMutation

LEMMA LandKeeps ==
  ASSUME CInv, NEW i \in DOMAIN muts, Land(i)
  PROVE  CInv'
<1> DEFINE m == [muts[i] EXCEPT !.at = "landed"]
<1>1. cache' = cache /\ me' = me /\ muts' = [muts EXCEPT ![i] = m] /\ muts[i].at = "sent"
  BY DEF Land
<1>2. IsMutation(m) /\ m.op = muts[i].op /\ m.at = "landed" BY RewrittenMutation DEF CInv
<1> HIDE DEF m
<1>3. PICK S : muts \in Seq(S) BY DEF CInv
<1>4. muts' \in Seq(S \cup {m})
  <2>1. muts \in Seq(S \cup {m}) /\ m \in S \cup {m} BY <1>3
  <2> QED BY <1>1, <2>1
<1>5. DOMAIN muts' = DOMAIN muts /\ \A j \in DOMAIN muts : muts'[j] = IF j = i THEN m ELSE muts[j]
  BY <1>1
<1>6. \A j \in DOMAIN muts' : IsMutation(muts'[j]) BY <1>2, <1>5 DEF CInv
<1>7. \A q : Accounted(muts, q, me) => Accounted(muts', q, me)
  BY <1>1, <1>2, <1>5 DEF Accounted, WillRefetch, LeftToPoll
<1> QED BY <1>1, <1>4, <1>6, <1>7 DEF CInv

(* The end of a mutation refetches what it edited, where its callbacks      *)
(* reach; what they do not reach it does not account for.                   *)
LEMMA SettleKeeps ==
  ASSUME CInv, NEW i \in DOMAIN muts, NEW failed \in BOOLEAN, Settle(i, failed)
  PROVE  CInv'
<1> DEFINE kind == muts[i].op.kind
           b == IF failed THEN RolledBack(i) ELSE cache
           qs == InvalidatedBy(kind) \cap InReach(i)
           c == Invalidated(b, qs)
           a == [muts[i] EXCEPT !.at = "settled"]
           p == [a EXCEPT !.previous = None]
           m == [p EXCEPT !.op.bot = None]
<1>1. me' = me /\ muts' = [muts EXCEPT ![i] = m] /\ Show(c, sims)
  <2>1. muts' = [muts EXCEPT ![i].at = "settled", ![i].previous = None, ![i].op.bot = None]
    BY DEF Settle
  <2>2. muts' = [muts EXCEPT ![i] = m] BY <2>1
  <2> QED BY <2>2 DEF Settle, SettledCache
<1>2. IsMutation(m) /\ m.op.kind = kind /\ m.op.by = muts[i].op.by /\ m.at = "settled"
  <2>1. IsMutation(a) /\ a.op = muts[i].op /\ a.at = "settled" BY RewrittenMutation DEF CInv
  <2> HIDE DEF a
  <2>2. IsMutation(p) /\ p.op = a.op /\ p.at = a.at BY <2>1 DEF IsMutation
  <2> HIDE DEF p
  <2>3. IsMutation(m) /\ m.op.kind = p.op.kind /\ m.op.by = p.op.by /\ m.at = p.at
    BY <2>2 DEF IsMutation
  <2> QED BY <2>1, <2>2, <2>3
<1> HIDE DEF m
<1>3. PICK S : muts \in Seq(S) BY DEF CInv
<1>4. muts' \in Seq(S \cup {m})
  <2>1. muts \in Seq(S \cup {m}) /\ m \in S \cup {m} BY <1>3
  <2> QED BY <1>1, <2>1
<1>5. DOMAIN muts' = DOMAIN muts /\ \A j \in DOMAIN muts : muts'[j] = IF j = i THEN m ELSE muts[j]
  BY <1>1
<1>6. \A j \in DOMAIN muts' : IsMutation(muts'[j]) BY <1>2, <1>5 DEF CInv
<1>7. kind \in {"buy", "list", "cancel", "claim"} BY DEF CInv, IsMutation
<1>8. /\ DOMAIN b = followed
      /\ \A q \in followed : /\ IsEntry(b[q])
                             /\ q \notin EditedBy(kind) \cap InReach(i) => b[q] = cache[q]
  <2>1. \A q \in followed : IsEntry(cache[q]) BY DEF CInv
  <2>2. CASE ~failed BY <2>1, <2>2
  <2>3. CASE failed
    <3>1. b = RolledBack(i) BY <2>3
    <3>2. DOMAIN b = followed BY <3>1 DEF RolledBack
    <3>3. ASSUME NEW q \in followed
          PROVE  /\ IsEntry(b[q])
                 /\ q \notin EditedBy(kind) \cap InReach(i) => b[q] = cache[q]
      <4>1. CASE q \notin EditedBy(kind) \cap InReach(i)
        <5>1. b[q] = cache[q] BY <3>1, <4>1 DEF RolledBack
        <5> QED BY <2>1, <5>1
      <4>2. CASE q \in EditedBy(kind) \cap InReach(i)
        <5>1. \E data, edits, of : b[q] = Written(cache[q], data, edits, of)
          BY <3>1, <4>2 DEF RolledBack
        <5>2. IsEntry(b[q]) BY <2>1, <5>1, WrittenEntry
        <5> QED BY <4>2, <5>2
      <4> QED BY <4>1, <4>2
    <3> QED BY <3>2, <3>3
  <2> QED BY <2>2, <2>3
<1> HIDE DEF b
<1>9. /\ DOMAIN c = followed
      /\ \A q \in followed : /\ IsEntry(c[q])
                             /\ c[q].fetching = TRUE \/ c[q] = b[q]
                             /\ q \in qs \cap EditedBy(kind) => c[q].fetching = TRUE
  <2>1. \A q \in DOMAIN b : IsEntry(b[q]) BY <1>8
  <2> HIDE DEF qs
  <2>2. /\ DOMAIN c = DOMAIN b
        /\ \A q \in DOMAIN b :
             /\ IsEntry(c[q]) /\ c[q].key = b[q].key
             /\ q \in qs /\ Enabled(q, b[q].key) => c[q].fetching = TRUE
             /\ ~(q \in qs /\ Enabled(q, b[q].key)) => c[q] = b[q]
    BY <2>1, InvalidatedEntries
  <2> HIDE DEF c, kind
  <2>3. \A q \in EditedBy(kind) : Enabled(q, b[q].key) BY <1>7, EditedAreEnabled
  <2> QED BY <1>8, <2>2, <2>3
<1>10. ASSUME NEW q \in followed, Suspect(q, c[q], me)
       PROVE  Accounted(muts', q, me)
  <2>1. c[q] = b[q] /\ q \notin qs \cap EditedBy(kind) BY <1>9, <1>10 DEF Suspect
  <2>2. CASE q \in EditedBy(kind) \cap InReach(i)
    <3>1. kind = "buy" /\ q = "myListings" BY <1>7, <2>1, <2>2, EditsAreRefetched
    <3>2. LeftToPoll(muts', q) BY <1>2, <1>5, <3>1 DEF LeftToPoll
    <3> QED BY <3>2 DEF Accounted
  <2>3. CASE q \notin EditedBy(kind) \cap InReach(i)
    <3>1. c[q] = cache[q] BY <1>8, <2>1, <2>3
    <3>2. Accounted(muts, q, me) BY <1>10, <3>1 DEF CInv
    <3>3. CASE LeftToPoll(muts, q)
      <4>1. LeftToPoll(muts', q) BY <1>2, <1>5, <3>3 DEF LeftToPoll
      <4> QED BY <4>1 DEF Accounted
    <3>4. CASE WillRefetch(muts, q, me)
      <4>1. PICK j \in DOMAIN muts :
              /\ muts[j].at # "settled" /\ q \in EditedBy(muts[j].op.kind)
              /\ q \in AddressScoped => muts[j].op.by = me
        BY <3>4 DEF WillRefetch
      <4>2. j # i
        <5> SUFFICES ASSUME j = i PROVE FALSE OBVIOUS
        <5>1. q \in InReach(i) BY <4>1 DEF InReach
        <5> QED BY <2>3, <4>1, <5>1
      <4>3. WillRefetch(muts', q, me) BY <1>5, <4>1, <4>2 DEF WillRefetch
      <4> QED BY <4>3 DEF Accounted
    <3> QED BY <3>2, <3>3, <3>4 DEF Accounted
  <2> QED BY <2>2, <2>3
<1> HIDE DEF c
<1>11. \A q \in DOMAIN c : IsEntry(c[q]) /\ (Suspect(q, c[q], me') => Accounted(muts', q, me'))
  BY <1>1, <1>9, <1>10
<1> QED BY <1>1, <1>4, <1>6, <1>9, <1>11, ShowKeeps

(* The answers about the account before it are evicted.                     *)
LEMMA SwitchKeeps ==
  ASSUME CInv, NEW a \in Accounts, SwitchAccount(a)
  PROVE  CInv'
<1>1. me' = a /\ a # me /\ muts' = muts /\ Show(cache, sims) BY DEF SwitchAccount
<1>2. ASSUME NEW q \in followed, q \in AddressScoped => cache[q].key = me',
             Suspect(q, cache[q], me')
      PROVE  Accounted(muts', q, me')
  <2>1. q \notin AddressScoped BY <1>1, <1>2 DEF CInv
  <2>2. Suspect(q, cache[q], me) BY <1>2, <2>1 DEF Suspect
  <2>3. Accounted(muts, q, me) BY <2>2 DEF CInv
  <2> QED BY <1>1, <2>1, <2>3 DEF Accounted, WillRefetch, LeftToPoll
<1>3. (\E S : muts' \in Seq(S)) /\ \A i \in DOMAIN muts' : IsMutation(muts'[i])
  BY <1>1 DEF CInv
<1>4. \A q \in followed : IsEntry(cache[q]) BY DEF CInv
<1> QED BY <1>1, <1>2, <1>3, <1>4, ShowKeeps

---------------------------------------------------------------------------
LEMMA CInit == Init => CInv
<1> SUFFICES ASSUME Init PROVE CInv OBVIOUS
<1>1. muts = << >> /\ me = Home BY DEF Init
<1>2. \E none : cache = [q \in DOMAIN none |-> [NoEntry EXCEPT !.key = KeyOf(q, none, me, selected)]]
  BY DEF Init
<1>3. PICK none : cache = [q \in DOMAIN none |-> [NoEntry EXCEPT !.key = KeyOf(q, none, me, selected)]]
  BY <1>2
<1>4. ASSUME NEW q \in followed
      PROVE  /\ IsEntry(cache[q]) /\ cache[q].data = None
             /\ q \in AddressScoped => cache[q].key = me
  <2> DEFINE k == KeyOf(q, none, me, selected)
  <2>1. q \in AddressScoped => k = me BY DEF KeyOf, AddressScoped
  <2>2. cache[q] = [NoEntry EXCEPT !.key = k] BY <1>3
  <2> HIDE DEF k
  <2>3. IsEntry(cache[q]) /\ cache[q].data = None /\ cache[q].key = k
    BY <2>2 DEF NoEntry, IsEntry, EntryFields
  <2> QED BY <2>1, <2>3
<1>5. muts \in Seq({}) /\ DOMAIN muts = {} BY <1>1
<1> QED BY <1>4, <1>5 DEF CInv, Suspect

LEMMA CNext ==
  ASSUME CInv, [Next]_cacheVars
  PROVE  CInv'
<1>1. ASSUME NEW q \in followed, Answer(q) \/ Retry(q) PROVE CInv'
  <2>1. cache' = cache /\ muts' = muts /\ me' = me BY <1>1 DEF Answer, Retry, clientVars
  <2> QED BY <2>1 DEF CInv
<1>2. ASSUME NEW op, LandElsewhere(op) PROVE CInv'
  <2>1. cache' = cache /\ muts' = muts /\ me' = me BY <1>2 DEF LandElsewhere
  <2> QED BY <2>1 DEF CInv
<1>3. ASSUME NEW period, SelectPeriod(period) PROVE CInv'
  <2>1. muts' = muts /\ me' = me /\ Show(cache, sims) BY <1>3 DEF SelectPeriod
  <2>2. \A q \in followed : IsEntry(cache[q]) BY DEF CInv
  <2> QED BY <2>1, <2>2, SameMutations
<1>4. CASE UNCHANGED cacheVars
  <2>1. cache' = cache /\ muts' = muts /\ me' = me BY <1>4 DEF cacheVars, clientVars
  <2> QED BY <2>1 DEF CInv
<1> QED
  BY <1>1, <1>2, <1>3, <1>4, PollKeeps, DeliverKeeps, GiveUpKeeps, MutateKeeps, LandKeeps,
     SettleKeeps, SwitchKeeps
  DEF Next

LEMMA CInvHolds == Spec => []CInv
<1>1. Init => CInv BY CInit
<1>2. CInv /\ [Next]_cacheVars => CInv' BY CNext
<1> QED BY <1>1, <1>2, PTL DEF Spec

(* An optimistic edit goes with its mutation: an answer that no mutation     *)
(* under way edits, that is not being fetched and that did not fail, has    *)
(* nothing of an edit left and is about the account that is connected, in   *)
(* whatever order mutations overlapped, landed, failed and settled, reads   *)
(* were answered and the account was switched (useMarketplace.ts: onMutate, *)
(* onError, onSettled).  For any queries, accounts, bots and endpoints.     *)
THEOREM EditsAreTakenBack == Spec => []EditsSettle
<1>1. CInv => EditsSettle
  <2> SUFFICES ASSUME CInv, NEW q \in followed, cache[q].data # None, ~cache[q].fetching,
                      ~cache[q].failed, ~Disturbed(q)
               PROVE  cache[q].edits = {} /\ (q \in AddressScoped => cache[q].of = me)
    BY DEF EditsSettle
  <2>1. ~Accounted(muts, q, me)
    BY DEF Disturbed, Unsettled, Accounted, WillRefetch, LeftToPoll
  <2>2. ~Suspect(q, cache[q], me) BY <2>1 DEF CInv
  <2> QED BY <2>2 DEF Suspect
<1> QED BY <1>1, CInvHolds, PTL
==============================================================================
