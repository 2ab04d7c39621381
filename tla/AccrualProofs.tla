----------------------------- MODULE AccrualProofs -----------------------------
(***************************************************************************)
(* The accrual contract implements the point meter, for any users, rates,  *)
(* hour, price and time.  The inductive invariant is the type invariant,   *)
(* that a user who never started has the empty record, and that the        *)
(* registry is not ahead of the record.                                    *)
(***************************************************************************)
EXTENDS Accrual, TLAPS

Unstarted == \A u \in Users : u \notin started => record[u] = NoRecord

IInv == TypeOK /\ Unstarted /\ RegistryNeverAhead

-----------------------------------------------------------------------------
(* Arithmetic.                                                              *)

(* Division by any positive divisor, as quotient and remainder.             *)
LEMMA DivMod ==
  ASSUME NEW a \in Nat, NEW d \in Nat \ {0}
  PROVE  /\ a \div d \in Nat
         /\ a % d \in Nat /\ a % d < d
         /\ a = (a \div d) * d + (a % d)
OBVIOUS

(* A product of naturals is one.                                            *)
LEMMA ProductNat ==
  ASSUME NEW a \in Nat, NEW b \in Nat
  PROVE  a * b \in Nat
OBVIOUS

(* Whole multiples pass through a division.                                 *)
LEMMA DivOfSum ==
  ASSUME NEW q \in Nat, NEW a \in Nat, NEW d \in Nat \ {0}
  PROVE  (q * d + a) \div d = q + a \div d
<1> DEFINE n == q * d + a
<1>1. n \in Nat
  BY ProductNat
<1>2. /\ n \div d \in Nat /\ n % d \in Nat /\ n % d < d
      /\ n = (n \div d) * d + (n % d)
  BY <1>1, DivMod
<1>3. /\ a \div d \in Nat /\ a % d \in Nat /\ a % d < d
      /\ a = (a \div d) * d + (a % d)
  BY DivMod
<1>4. n = (q + a \div d) * d + (a % d)
  BY <1>3
<1> HIDE DEF n
<1>5. ASSUME NEW x \in Nat, NEW y \in Nat, NEW r \in Nat, NEW s \in Nat,
             r < d, s < d, x * d + r = y * d + s
      PROVE  x = y
  <2>1. ~(x < y)
    <3>1. SUFFICES ASSUME x < y PROVE FALSE
      OBVIOUS
    <3>2. PICK k \in Nat : y = x + 1 + k
      <4>1. y - x - 1 \in Nat
        BY <3>1
      <4>2. QED
        BY <4>1
    <3>3. y * d = x * d + d + k * d /\ k * d \in Nat /\ x * d \in Nat
      BY <3>2, ProductNat
    <3>4. QED
      BY <3>3, <1>5
  <2>2. ~(y < x)
    <3>1. SUFFICES ASSUME y < x PROVE FALSE
      OBVIOUS
    <3>2. PICK k \in Nat : x = y + 1 + k
      <4>1. x - y - 1 \in Nat
        BY <3>1
      <4>2. QED
        BY <4>1
    <3>3. x * d = y * d + d + k * d /\ k * d \in Nat /\ y * d \in Nat
      BY <3>2, ProductNat
    <3>4. QED
      BY <3>3, <1>5
  <2>3. QED
    BY <2>1, <2>2
<1>6. n \div d = q + a \div d
  BY <1>2, <1>3, <1>4, <1>5
<1>7. QED
  BY <1>6 DEF n

(* One more moment is worth one more rate.                                  *)
LEMMA OneMoreMoment ==
  ASSUME NEW t \in Nat, NEW l \in Nat, NEW r \in Nat
  PROVE  ((t + 1) - l) * r = (t - l) * r + r
OBVIOUS

(* What counting another rate for the same time adds.                       *)
LEMMA OtherRate ==
  ASSUME NEW b \in Nat, NEW r \in Nat, NEW s \in Nat
  PROVE  b * s = b * r + (s - r) * b
OBVIOUS

-----------------------------------------------------------------------------
(* Records.                                                                 *)

(* Banking keeps the worth of a record and moves whole points only.         *)
LEMMA BankedFacts ==
  ASSUME TypeOK, NEW u \in Users
  PROVE  /\ record[u] \in UserAccrual /\ now - record[u].last \in Nat
         /\ Unsettled(u) \in Nat /\ Pending(u) \in Nat
         /\ Unsettled(u) = Pending(u) * Hour + Banked(u).leftover
         /\ Banked(u) \in UserAccrual
         /\ Banked(u).last = now /\ Banked(u).rate = record[u].rate
         /\ Banked(u).carry = record[u].carry + Pending(u)
         /\ Banked(u).lifetime = record[u].lifetime + Pending(u)
<1>1. /\ record[u] \in UserAccrual
      /\ record[u] \in [rate : Nat, last : Nat, carry : Nat, lifetime : Nat, leftover : Nat]
      /\ record[u].carry <= record[u].lifetime
      /\ record[u].last <= now /\ now \in Nat
  BY DEF TypeOK, UserAccrual
<1>2. now - record[u].last \in Nat /\ record[u].rate \in Nat
  BY <1>1
<1>3. Unsettled(u) \in Nat
  BY <1>1, <1>2, ProductNat DEF Unsettled
<1>4. /\ Pending(u) \in Nat
      /\ Unsettled(u) % Hour \in Nat /\ Unsettled(u) % Hour < Hour
      /\ Unsettled(u) = Pending(u) * Hour + (Unsettled(u) % Hour)
  BY <1>3, DivMod, UnitAssumption DEF Pending
<1>5. /\ Banked(u).last = now /\ Banked(u).rate = record[u].rate
      /\ Banked(u).carry = record[u].carry + Pending(u)
      /\ Banked(u).lifetime = record[u].lifetime + Pending(u)
      /\ Banked(u).leftover = Unsettled(u) % Hour
      /\ Banked(u) \in [rate : Nat, last : Nat, carry : Nat, lifetime : Nat, leftover : Nat]
  <2> DEFINE r == record[u]
             more == Pending(u)
             left == Unsettled(u) % Hour
  <2>1. r \in [rate : Nat, last : Nat, carry : Nat, lifetime : Nat, leftover : Nat]
    BY <1>1
  <2>2. more \in Nat /\ left \in Nat /\ now \in Nat
    BY <1>1, <1>4
  <2>3. Banked(u) = [r EXCEPT !.last = now, !.leftover = left,
                              !.carry = @ + more, !.lifetime = @ + more]
    BY DEF Banked
  <2> HIDE DEF more, left, r
  <2>4. Banked(u) = [rate |-> r.rate, last |-> now, carry |-> r.carry + more,
                     lifetime |-> r.lifetime + more, leftover |-> left]
    BY <2>1, <2>3
  <2>5. QED
    BY <2>1, <2>2, <2>4 DEF r, more, left
<1>6. Banked(u).carry <= Banked(u).lifetime /\ Banked(u).leftover < Hour
  BY <1>1, <1>4, <1>5
<1>7. Banked(u) \in UserAccrual
  BY <1>5, <1>6 DEF UserAccrual
<1>8. QED
  BY <1>1, <1>2, <1>3, <1>4, <1>5, <1>7

(* A claim leaves less than a token's price in the carry.                   *)
LEMMA ClaimedFacts ==
  ASSUME TypeOK, NEW u \in Users
  PROVE  LET carry == Banked(u).carry
             left == [Banked(u) EXCEPT !.carry = @ % pointsPerAmt]
         IN  /\ carry \div pointsPerAmt \in Nat
             /\ carry = (carry \div pointsPerAmt) * pointsPerAmt + left.carry
             /\ left \in UserAccrual /\ left.last = now
             /\ left.rate = Banked(u).rate /\ left.leftover = Banked(u).leftover
             /\ left.lifetime = Banked(u).lifetime
<1> DEFINE carry == Banked(u).carry
           left == [Banked(u) EXCEPT !.carry = @ % pointsPerAmt]
<1>1. /\ Banked(u) \in [rate : Nat, last : Nat, carry : Nat, lifetime : Nat, leftover : Nat]
      /\ carry <= Banked(u).lifetime /\ Banked(u).leftover < Hour
      /\ Banked(u).last = now
  BY BankedFacts DEF UserAccrual
<1>2. carry \in Nat /\ pointsPerAmt \in Nat \ {0}
  BY <1>1 DEF TypeOK
<1>3. /\ carry \div pointsPerAmt \in Nat
      /\ carry % pointsPerAmt \in Nat
      /\ carry = (carry \div pointsPerAmt) * pointsPerAmt + (carry % pointsPerAmt)
  BY <1>2, DivMod
<1>4. carry % pointsPerAmt <= carry
  <2>1. (carry \div pointsPerAmt) * pointsPerAmt \in Nat
    BY <1>2, <1>3, ProductNat
  <2>2. QED
    BY <1>2, <1>3, <2>1
<1>5. /\ left.carry = carry % pointsPerAmt /\ left.last = now
      /\ left.rate = Banked(u).rate /\ left.leftover = Banked(u).leftover
      /\ left.lifetime = Banked(u).lifetime
      /\ left \in [rate : Nat, last : Nat, carry : Nat, lifetime : Nat, leftover : Nat]
  BY <1>1, <1>3
<1>6. left \in UserAccrual
  <2>1. left.carry <= left.lifetime /\ left.leftover < Hour
    BY <1>1, <1>2, <1>3, <1>4, <1>5
  <2>2. QED
    BY <1>5, <2>1 DEF UserAccrual
<1>7. QED
  BY <1>3, <1>5, <1>6

(* A record that gets another rate is a record.                             *)
LEMMA WithRate ==
  ASSUME NEW r \in UserAccrual, NEW rate \in Nat
  PROVE  LET s == [r EXCEPT !.rate = rate] IN
         /\ s \in UserAccrual /\ s.rate = rate /\ s.last = r.last
         /\ s.carry = r.carry /\ s.lifetime = r.lifetime /\ s.leftover = r.leftover
BY DEF UserAccrual

-----------------------------------------------------------------------------
(* The inductive invariant.                                                 *)

(* The initial state satisfies it: no records, no points.                   *)
LEMMA InitIInv == Init => IInv
<1> SUFFICES ASSUME Init PROVE IInv
  OBVIOUS
<1>1. NoRecord \in UserAccrual /\ NoRecord.last = 0
  BY UnitAssumption DEF NoRecord, UserAccrual
<1>2. TypeOK
  BY <1>1, ChoiceAssumption DEF Init, TypeOK
<1>3. Unstarted /\ RegistryNeverAhead
  BY DEF Init, Unstarted, RegistryNeverAhead, NoRecord
<1>4. QED
  BY <1>2, <1>3 DEF IInv

(* A step that replaces one record by a record that is not ahead of time.   *)
LEMMA OneRecord ==
  ASSUME IInv, NEW u \in Users, NEW r \in UserAccrual, r.last <= now,
         record[u].lifetime <= r.lifetime,
         record' = [record EXCEPT ![u] = r], now' = now
  PROVE  /\ record' \in [Users -> UserAccrual]
         /\ \A v \in Users : record'[v].last <= now'
         /\ \A v \in Users : record[v].lifetime <= record'[v].lifetime
         /\ \A v \in Users : v # u => record'[v] = record[v]
<1>1. /\ record \in [Users -> UserAccrual]
      /\ \A v \in Users : record[v].last <= now
  BY DEF IInv, TypeOK
<1>2. \A v \in Users : record[v].lifetime \in Nat
  BY <1>1 DEF UserAccrual
<1>3. \A v \in Users : record'[v] = IF v = u THEN r ELSE record[v]
  BY <1>1
<1>4. record' \in [Users -> UserAccrual]
  BY <1>1
<1>5. \A v \in Users : record[v].lifetime <= record[v].lifetime
  BY <1>2
<1>6. QED
  BY <1>1, <1>3, <1>4, <1>5

(* Crediting what is pending keeps the registry's numbers natural, and not  *)
(* ahead of a record that banks it.                                         *)
LEMMA Credited ==
  ASSUME IInv, NEW u \in Users, AddPoints(u, Pending(u))
  PROVE  /\ points' \in [Users -> Nat]
         /\ \A v \in Users : v # u => points'[v] = points[v]
         /\ points'[u] <= record[u].lifetime + Pending(u)
<1>1. Pending(u) \in Nat /\ record[u] \in UserAccrual
  BY BankedFacts DEF IInv
<1>2. points \in [Users -> Nat] /\ points[u] <= record[u].lifetime
  BY DEF IInv, TypeOK, RegistryNeverAhead
<1>3. record[u].lifetime \in Nat
  BY <1>1 DEF UserAccrual
<1>4. points' = [points EXCEPT ![u] = @ + Pending(u)]
  BY DEF AddPoints
<1>5. QED
  BY <1>1, <1>2, <1>3, <1>4

(* start_accrual keeps it, for a new record and for an old one.             *)
LEMMA StartKeeps ==
  ASSUME IInv, NEW u \in Users, StartAccrual(u)
  PROVE  IInv'
<1>1. /\ record[u] \in UserAccrual /\ record[u].last <= now /\ now \in Nat
      /\ botRate[u] \in Nat /\ record[u].lifetime \in Nat
  BY DEF IInv, TypeOK, UserAccrual
<1>2. PICK r \in UserAccrual :
        /\ record' = [record EXCEPT ![u] = r]
        /\ r.last <= now /\ record[u].lifetime <= r.lifetime
  <2>1. CASE u \in started
    <3> DEFINE r == [record[u] EXCEPT !.rate = botRate[u]]
    <3>1. record' = [record EXCEPT ![u] = r]
      BY <2>1 DEF StartAccrual
    <3>2. r \in UserAccrual /\ r.last = record[u].last /\ r.lifetime = record[u].lifetime
      BY <1>1, WithRate
    <3> HIDE DEF r
    <3>3. r.last <= now /\ record[u].lifetime <= r.lifetime
      BY <1>1, <3>2
    <3>4. QED
      BY <3>1, <3>2, <3>3, Zenon
  <2>2. CASE u \notin started
    <3> DEFINE r == [rate |-> botRate[u], last |-> now, carry |-> 0,
                     lifetime |-> 0, leftover |-> 0]
    <3>1. record' = [record EXCEPT ![u] = r]
      BY <2>2 DEF StartAccrual
    <3>2. r \in UserAccrual /\ r.last = now /\ r.lifetime = 0
      BY <1>1, UnitAssumption DEF UserAccrual
    <3>3. record[u].lifetime = 0
      BY <2>2 DEF IInv, Unstarted, NoRecord
    <3> HIDE DEF r
    <3>4. r.last <= now /\ record[u].lifetime <= r.lifetime
      BY <1>1, <3>2, <3>3
    <3>5. QED
      BY <3>1, <3>2, <3>4, Zenon
  <2>3. QED
    BY <2>1, <2>2
<1>3. /\ started' = started \cup {u} /\ now' = now
      /\ UNCHANGED <<frozen, pointsPerAmt, botRate, registered, points, claimed, minted>>
  BY DEF StartAccrual, registryVars
<1>9. restarts' \in [Users -> BOOLEAN]
  <2>1. restarts' = restarts \/ restarts' = [restarts EXCEPT ![u] = ~@]
    BY DEF StartAccrual
  <2>2. restarts \in [Users -> BOOLEAN]
    BY DEF IInv, TypeOK
  <2>3. QED
    BY <2>1, <2>2, Zenon
<1>4. /\ record' \in [Users -> UserAccrual]
      /\ \A v \in Users : record'[v].last <= now'
      /\ \A v \in Users : record[v].lifetime <= record'[v].lifetime
      /\ \A v \in Users : v # u => record'[v] = record[v]
  BY <1>2, <1>3, OneRecord
<1>5. TypeOK'
  BY <1>3, <1>4, <1>9 DEF IInv, TypeOK
<1>6. Unstarted'
  BY <1>3, <1>4 DEF IInv, Unstarted
<1>7. RegistryNeverAhead'
  <2> SUFFICES ASSUME NEW v \in Users PROVE points[v] <= record'[v].lifetime
    BY <1>3 DEF RegistryNeverAhead
  <2>1. /\ points[v] <= record[v].lifetime /\ points[v] \in Nat
        /\ record[v].lifetime \in Nat /\ record'[v].lifetime \in Nat
    BY <1>4 DEF IInv, RegistryNeverAhead, TypeOK, UserAccrual
  <2>2. QED
    BY <1>4, <2>1
<1>8. QED
  BY <1>5, <1>6, <1>7 DEF IInv

(* The common part of sync_rate, settle, claim and stop_accrual: the record *)
(* is banked, with another rate or carry, and the pending points are        *)
(* credited or not.                                                         *)
LEMMA BankingKeeps ==
  ASSUME IInv, NEW u \in started, NEW r \in UserAccrual,
         record' = [record EXCEPT ![u] = r], r.last = now,
         r.lifetime = Banked(u).lifetime,
         points' = points \/ AddPoints(u, Pending(u)),
         claimed' \in [Users -> Nat], minted' \in [Users -> Nat],
         UNCHANGED <<now, started, frozen, pointsPerAmt, botRate, registered, restarts>>
  PROVE  IInv'
<1>1. u \in Users /\ now \in Nat
  BY DEF IInv, TypeOK
<1>2. /\ record[u] \in UserAccrual /\ Pending(u) \in Nat
      /\ r.lifetime = record[u].lifetime + Pending(u)
  BY <1>1, BankedFacts DEF IInv
<1>3. record[u].lifetime \in Nat /\ r.last <= now /\ record[u].lifetime <= r.lifetime
  BY <1>1, <1>2 DEF UserAccrual
<1>4. /\ record' \in [Users -> UserAccrual]
      /\ \A v \in Users : record'[v].last <= now'
      /\ \A v \in Users : v # u => record'[v] = record[v]
  BY <1>1, <1>3, OneRecord
<1>5. record'[u] = r
  BY <1>1 DEF IInv, TypeOK
<1>6. /\ points' \in [Users -> Nat]
      /\ \A v \in Users : v # u => points'[v] = points[v]
      /\ points'[u] <= r.lifetime
  <2>1. points \in [Users -> Nat] /\ points[u] <= record[u].lifetime
    BY <1>1 DEF IInv, TypeOK, RegistryNeverAhead
  <2>2. CASE points' = points
    BY <2>1, <2>2, <1>1, <1>2, <1>3
  <2>3. CASE AddPoints(u, Pending(u))
    BY <2>3, <1>1, <1>2, Credited
  <2>4. QED
    BY <2>2, <2>3
<1>7. TypeOK'
  BY <1>4, <1>6 DEF IInv, TypeOK
<1>8. Unstarted'
  BY <1>4 DEF IInv, Unstarted
<1>9. RegistryNeverAhead'
  BY <1>4, <1>5, <1>6 DEF IInv, RegistryNeverAhead
<1>10. QED
  BY <1>7, <1>8, <1>9 DEF IInv

(* sync_rate keeps it.                                                      *)
LEMMA SyncKeeps ==
  ASSUME IInv, NEW u \in Users, SyncRate(u)
  PROVE  IInv'
<1> DEFINE r == [Banked(u) EXCEPT !.rate = botRate[u]]
<1>1. Banked(u) \in UserAccrual /\ Banked(u).last = now /\ botRate[u] \in Nat
  BY BankedFacts DEF IInv, TypeOK
<1>2. r \in UserAccrual /\ r.last = now /\ r.lifetime = Banked(u).lifetime
  BY <1>1, WithRate
<1>3. claimed' \in [Users -> Nat] /\ minted' \in [Users -> Nat]
  BY DEF SyncRate, registryVars, IInv, TypeOK
<1> HIDE DEF r
<1>4. /\ record' = [record EXCEPT ![u] = r] /\ u \in started /\ points' = points
      /\ UNCHANGED <<now, started, frozen, pointsPerAmt, botRate, registered, restarts>>
  BY DEF SyncRate, registryVars, r
<1>5. QED
  BY <1>2, <1>3, <1>4, BankingKeeps

(* settle keeps it.                                                         *)
LEMMA SettleKeeps ==
  ASSUME IInv, NEW u \in Users, Settle(u)
  PROVE  IInv'
<1>1. Banked(u) \in UserAccrual /\ Banked(u).last = now
  BY BankedFacts DEF IInv
<1>2. claimed' \in [Users -> Nat] /\ minted' \in [Users -> Nat]
  BY DEF Settle, IInv, TypeOK
<1>3. /\ record' = [record EXCEPT ![u] = Banked(u)] /\ u \in started
      /\ AddPoints(u, Pending(u))
      /\ UNCHANGED <<now, started, frozen, pointsPerAmt, botRate, registered, restarts>>
  BY DEF Settle
<1>4. QED
  BY <1>1, <1>2, <1>3, BankingKeeps

(* claim keeps it.                                                          *)
LEMMA ClaimKeeps ==
  ASSUME IInv, NEW u \in Users, Claim(u)
  PROVE  IInv'
<1> DEFINE r == [Banked(u) EXCEPT !.carry = @ % pointsPerAmt]
           amount == Banked(u).carry \div pointsPerAmt
<1>1. /\ r \in UserAccrual /\ r.last = now /\ r.lifetime = Banked(u).lifetime
      /\ amount \in Nat
  BY ClaimedFacts DEF IInv
<1>2. /\ record' = [record EXCEPT ![u] = r] /\ u \in started
      /\ AddPoints(u, Pending(u))
      /\ minted' = [minted EXCEPT ![u] = @ + amount * AmtScale]
      /\ claimed' = [claimed EXCEPT ![u] = @ + amount]
      /\ UNCHANGED <<now, started, frozen, pointsPerAmt, botRate, registered, restarts>>
  BY DEF Claim
<1> HIDE DEF r, amount
<1>3. amount * AmtScale \in Nat
  BY <1>1, ProductNat, UnitAssumption
<1>4. claimed' \in [Users -> Nat] /\ minted' \in [Users -> Nat]
  BY <1>1, <1>2, <1>3 DEF IInv, TypeOK
<1>5. QED
  BY <1>1, <1>2, <1>4, BankingKeeps

(* stop_accrual keeps it.                                                   *)
LEMMA StopKeeps ==
  ASSUME IInv, NEW u \in Users, StopAccrual(u)
  PROVE  IInv'
<1> DEFINE r == [Banked(u) EXCEPT !.rate = 0]
<1>1. Banked(u) \in UserAccrual /\ Banked(u).last = now
  BY BankedFacts DEF IInv
<1>2. r \in UserAccrual /\ r.last = now /\ r.lifetime = Banked(u).lifetime
  BY <1>1, WithRate
<1>3. claimed' \in [Users -> Nat] /\ minted' \in [Users -> Nat]
  BY DEF StopAccrual, IInv, TypeOK
<1> HIDE DEF r
<1>4. /\ record' = [record EXCEPT ![u] = r] /\ u \in started
      /\ points' = points \/ AddPoints(u, Pending(u))
      /\ UNCHANGED <<now, started, frozen, pointsPerAmt, botRate, registered, restarts>>
  BY DEF StopAccrual, r
<1>5. QED
  BY <1>2, <1>3, <1>4, BankingKeeps

(* Steps that leave the records alone.                                      *)
LEMMA OtherKeeps ==
  ASSUME IInv,
         \/ \E u \in Users : Freeze(u) \/ Unfreeze(u) \/ Register(u) \/ Unregister(u)
         \/ \E u \in Users : \E r \in RateChoices : BotsChange(u, r)
         \/ \E p \in PriceChoices : SetPointsPerAmt(p)
         \/ Tick
         \/ UNCHANGED vars
  PROVE  IInv'
<1>1. ASSUME NEW u \in Users, Freeze(u) \/ Unfreeze(u) PROVE IInv'
  BY <1>1 DEF IInv, TypeOK, Unstarted, RegistryNeverAhead, Freeze, Unfreeze, registryVars
<1>2. ASSUME NEW u \in Users, Register(u) PROVE IInv'
  <2>1. TypeOK' /\ Unstarted'
    BY <1>2 DEF IInv, TypeOK, Unstarted, Register, accrualVars
  <2>2. \A v \in Users : record[v].lifetime \in Nat
    BY DEF IInv, TypeOK, UserAccrual
  <2>3. RegistryNeverAhead'
    BY <1>2, <2>2 DEF IInv, TypeOK, RegistryNeverAhead, Register, accrualVars
  <2>4. QED
    BY <2>1, <2>3 DEF IInv
<1>3. ASSUME NEW u \in Users, Unregister(u) PROVE IInv'
  BY <1>3 DEF IInv, TypeOK, Unstarted, RegistryNeverAhead, Unregister, accrualVars
<1>4. ASSUME NEW u \in Users, NEW r \in RateChoices, BotsChange(u, r) PROVE IInv'
  BY <1>4, ChoiceAssumption
     DEF IInv, TypeOK, Unstarted, RegistryNeverAhead, BotsChange, accrualVars, registryVars
<1>5. ASSUME NEW p \in PriceChoices, SetPointsPerAmt(p) PROVE IInv'
  BY <1>5, ChoiceAssumption
     DEF IInv, TypeOK, Unstarted, RegistryNeverAhead, SetPointsPerAmt, registryVars
<1>6. ASSUME Tick PROVE IInv'
  <2>1. \A v \in Users : record[v].last \in Nat /\ record[v].last <= now + 1
    BY DEF IInv, TypeOK, UserAccrual
  <2>2. QED
    BY <1>6, <2>1, ChoiceAssumption
       DEF IInv, TypeOK, Unstarted, RegistryNeverAhead, Tick, accrualVars, registryVars
<1>7. ASSUME UNCHANGED vars PROVE IInv'
  BY <1>7 DEF IInv, TypeOK, Unstarted, RegistryNeverAhead, vars, accrualVars, registryVars
<1>8. QED
  BY <1>1, <1>2, <1>3, <1>4, <1>5, <1>6, <1>7

(* Every step keeps it.                                                     *)
LEMMA StepKeeps == IInv /\ [Next]_vars => IInv'
<1> SUFFICES ASSUME IInv, [Next]_vars PROVE IInv'
  OBVIOUS
<1>1. ASSUME NEW u \in Users, UserStep(u) PROVE IInv'
  BY <1>1, StartKeeps, SyncKeeps, SettleKeeps, ClaimKeeps, StopKeeps, OtherKeeps
     DEF UserStep
<1>2. CASE \E p \in PriceChoices : SetPointsPerAmt(p)
  BY <1>2, OtherKeeps
<1>3. CASE Tick
  BY <1>3, OtherKeeps
<1>4. CASE UNCHANGED vars
  BY <1>4, OtherKeeps
<1>5. QED
  BY <1>1, <1>2, <1>3, <1>4 DEF Next

(* It holds in every reachable state of the contract.                       *)
THEOREM AlwaysIInv == Spec => []IInv
BY InitIInv, StepKeeps, PTL DEF Spec

(* Every reachable record is one the contract can store: the carry never    *)
(* exceeds the lifetime points, and the remainder is below one point.       *)
THEOREM TypeCorrect == Spec => []TypeOK
<1>1. IInv => TypeOK
  BY DEF IInv
<1>2. QED
  BY <1>1, AlwaysIInv, PTL

(* The registry never shows points that accrual has not settled.            *)
THEOREM RegistryIsNeverAhead == Spec => []RegistryNeverAhead
<1>1. IInv => RegistryNeverAhead
  BY DEF IInv
<1>2. QED
  BY <1>1, AlwaysIInv, PTL

-----------------------------------------------------------------------------
(* Every step is a step of the meter or none.                               *)

(* What a record is worth.                                                  *)
WorthOf(r) == r.lifetime * Hour + ((now - r.last) * r.rate + r.leftover)

(* What the meter sees of a step that replaces one record.                  *)
LEMMA OneMeter ==
  ASSUME IInv, NEW u \in Users, NEW r \in UserAccrual,
         record' = [record EXCEPT ![u] = r], now' = now
  PROVE  /\ RateOf' = [RateOf EXCEPT ![u] = r.rate]
         /\ SinceOf' = [SinceOf EXCEPT ![u] = r.last]
         /\ MeterOf' = [MeterOf EXCEPT ![u] = WorthOf(r)]
         /\ SpentOf' = [SpentOf EXCEPT ![u] = r.lifetime - r.carry]
<1>1. record \in [Users -> UserAccrual]
  BY DEF IInv, TypeOK
<1>2. \A v \in Users : record'[v] = IF v = u THEN r ELSE record[v]
  BY <1>1
<1>3. RateOf' = [RateOf EXCEPT ![u] = r.rate]
  <2>1. \A v \in Users : record'[v].rate = IF v = u THEN r.rate ELSE record[v].rate
    BY <1>2
  <2>2. QED
    BY <2>1 DEF RateOf
<1>7. SinceOf' = [SinceOf EXCEPT ![u] = r.last]
  <2>1. \A v \in Users : record'[v].last = IF v = u THEN r.last ELSE record[v].last
    BY <1>2
  <2>2. QED
    BY <2>1 DEF SinceOf
<1>4. MeterOf' = [MeterOf EXCEPT ![u] = WorthOf(r)]
  <2>1. \A v \in Users : (record[v].lifetime * Hour + Unsettled(v))'
          = IF v = u THEN WorthOf(r) ELSE record[v].lifetime * Hour + Unsettled(v)
    <3> SUFFICES ASSUME NEW v \in Users
                 PROVE  (record[v].lifetime * Hour + Unsettled(v))'
                          = IF v = u THEN WorthOf(r)
                                     ELSE record[v].lifetime * Hour + Unsettled(v)
      OBVIOUS
    <3>1. CASE v = u
      <4>1. record'[v] = r
        BY <1>2, <3>1
      <4>2. QED
        BY <3>1, <4>1 DEF Unsettled, WorthOf
    <3>2. CASE v # u
      <4>1. record'[v] = record[v]
        BY <1>2, <3>2
      <4>2. QED
        BY <3>2, <4>1 DEF Unsettled
    <3>3. QED
      BY <3>1, <3>2
  <2>2. QED
    BY <2>1 DEF MeterOf
<1>5. SpentOf' = [SpentOf EXCEPT ![u] = r.lifetime - r.carry]
  <2>1. \A v \in Users : record'[v].lifetime - record'[v].carry
          = IF v = u THEN r.lifetime - r.carry ELSE record[v].lifetime - record[v].carry
    BY <1>2
  <2>2. QED
    BY <2>1 DEF SpentOf
<1>6. QED
  BY <1>3, <1>4, <1>5, <1>7

(* What the meter sees are functions of the user.                           *)
LEMMA MappedFunctions ==
  /\ RateOf = [v \in Users |-> RateOf[v]]
  /\ MeterOf = [v \in Users |-> MeterOf[v]]
  /\ SpentOf = [v \in Users |-> SpentOf[v]]
BY DEF RateOf, MeterOf, SpentOf

(* Replacing a value by itself.                                             *)
LEMMA SameValue ==
  ASSUME NEW f, NEW S, f = [x \in S |-> f[x]], NEW u \in S
  PROVE  [f EXCEPT ![u] = f[u]] = f
OBVIOUS

(* A banked record is worth what it was.                                    *)
LEMMA BankedWorth ==
  ASSUME IInv, NEW u \in Users, NEW r \in UserAccrual,
         r.last = now, r.lifetime = Banked(u).lifetime, r.leftover = Banked(u).leftover
  PROVE  /\ WorthOf(r) = MeterOf[u]
         /\ MeterOf[u] \in Nat /\ r.rate \in Nat
         /\ Meter!Points(u) = Banked(u).lifetime
<1>1. /\ record[u] \in UserAccrual
      /\ Unsettled(u) \in Nat /\ Pending(u) \in Nat
      /\ Unsettled(u) = Pending(u) * Hour + Banked(u).leftover
      /\ Banked(u) \in UserAccrual
      /\ Banked(u).lifetime = record[u].lifetime + Pending(u)
  BY BankedFacts DEF IInv
<1>2. /\ record[u].lifetime \in Nat /\ r.rate \in Nat /\ Banked(u).leftover \in Nat
      /\ now \in Nat /\ Hour \in Nat \ {0}
  BY <1>1, UnitAssumption DEF UserAccrual, IInv, TypeOK
<1> DEFINE life == record[u].lifetime
           more == Pending(u)
           left == Banked(u).leftover
<1>3. MeterOf[u] = life * Hour + Unsettled(u)
  BY DEF MeterOf
<1>4. WorthOf(r) = (life + more) * Hour + ((now - now) * r.rate + left)
  BY <1>1 DEF WorthOf
<1>5. life \in Nat /\ more \in Nat /\ left \in Nat
  BY <1>1, <1>2
<1>6. Meter!Points(u) = (life * Hour + Unsettled(u)) \div Hour
  BY <1>3 DEF Meter!Points
<1>7. life * Hour \in Nat /\ more * Hour \in Nat
  BY <1>2, <1>5, ProductNat
<1>8. Meter!Points(u) = Banked(u).lifetime
  BY <1>1, <1>2, <1>6, DivOfSum DEF Pending
<1> HIDE DEF life, more, left
<1>9. (life + more) * Hour = life * Hour + more * Hour
  BY <1>2, <1>5
<1>10. (now - now) * r.rate = 0
  BY <1>2
<1>11. Unsettled(u) = more * Hour + left
  BY <1>1 DEF more, left
<1>12. WorthOf(r) = MeterOf[u] /\ MeterOf[u] \in Nat
  BY <1>1, <1>2, <1>3, <1>4, <1>5, <1>7, <1>9, <1>10, <1>11
<1>13. QED
  BY <1>2, <1>8, <1>12

(* Banking, with the same rate, that of the bots or none, is settling.      *)
LEMMA BankingIsSettling ==
  ASSUME IInv, NEW u \in Users, NEW r \in UserAccrual,
         record' = [record EXCEPT ![u] = r], r.last = now,
         r.lifetime = Banked(u).lifetime, r.leftover = Banked(u).leftover,
         r.carry = Banked(u).carry,
         r.rate \in {record[u].rate, botRate[u], 0},
         UNCHANGED <<now, botRate, minted, pointsPerAmt, restarts>>
  PROVE  Meter!Settle(u)
<1>1. /\ SinceOf' = [SinceOf EXCEPT ![u] = now]
      /\ RateOf' = [RateOf EXCEPT ![u] = r.rate]
      /\ MeterOf' = [MeterOf EXCEPT ![u] = MeterOf[u]]
      /\ SpentOf' = [SpentOf EXCEPT ![u] = r.lifetime - r.carry]
  <2>1. WorthOf(r) = MeterOf[u]
    BY BankedWorth
  <2>2. QED
    BY <2>1, OneMeter
<1>2. /\ record[u] \in UserAccrual /\ Pending(u) \in Nat
      /\ Banked(u).carry = record[u].carry + Pending(u)
      /\ Banked(u).lifetime = record[u].lifetime + Pending(u)
  BY BankedFacts DEF IInv
<1>3. record[u].carry \in Nat /\ record[u].lifetime \in Nat
  BY <1>2 DEF UserAccrual
<1>4. r.lifetime - r.carry = record[u].lifetime - record[u].carry
  BY <1>2, <1>3
<1>5. r.lifetime - r.carry = SpentOf[u]
  BY <1>4 DEF SpentOf
<1>6. MeterOf' = MeterOf /\ SpentOf' = SpentOf
  BY <1>1, <1>5, MappedFunctions, SameValue
<1>7. \E q \in {RateOf[u], botRate[u], 0} : RateOf' = [RateOf EXCEPT ![u] = q]
  <2>1. RateOf[u] = record[u].rate
    BY DEF RateOf
  <2>2. r.rate \in {RateOf[u], botRate[u], 0}
    BY <2>1
  <2>3. QED
    BY <1>1, <2>2
<1>8. QED
  BY <1>1, <1>6, <1>7 DEF Meter!Settle

(* A first start sets the rate; a second one counts the rate for the time   *)
(* since the last settlement.                                               *)
LEMMA StartMeters ==
  ASSUME IInv, NEW u \in Users, StartAccrual(u)
  PROVE  Meter!Settle(u) \/ Meter!StartAgain(u)
<1>1. /\ record[u] \in UserAccrual /\ record[u].last <= now /\ now \in Nat
      /\ botRate[u] \in Nat
  BY DEF IInv, TypeOK
<1>2. UNCHANGED <<now, botRate, minted, pointsPerAmt>>
  BY DEF StartAccrual
<1>3. CASE u \in started
  <2> DEFINE r == [record[u] EXCEPT !.rate = botRate[u]]
             back == now - record[u].last
  <2>1. record' = [record EXCEPT ![u] = r] /\ restarts' = [restarts EXCEPT ![u] = ~@]
    BY <1>3 DEF StartAccrual
  <2>2. /\ r \in UserAccrual /\ r.rate = botRate[u] /\ r.last = record[u].last
        /\ r.carry = record[u].carry /\ r.lifetime = record[u].lifetime
        /\ r.leftover = record[u].leftover
    BY <1>1, WithRate
  <2>3. /\ record[u].rate \in Nat /\ record[u].leftover \in Nat
        /\ record[u].lifetime \in Nat /\ record[u].last \in Nat
    BY <1>1 DEF UserAccrual
  <2>4. back \in Nat /\ SinceOf[u] = record[u].last
    BY <1>1, <2>3 DEF SinceOf
  <2> HIDE DEF r
  <2>5. /\ RateOf' = [RateOf EXCEPT ![u] = r.rate]
        /\ SinceOf' = [SinceOf EXCEPT ![u] = r.last]
        /\ MeterOf' = [MeterOf EXCEPT ![u] = WorthOf(r)]
        /\ SpentOf' = [SpentOf EXCEPT ![u] = r.lifetime - r.carry]
    BY <1>2, <2>1, <2>2, OneMeter
  <2>6. RateOf' = [RateOf EXCEPT ![u] = botRate[u]]
    BY <2>2, <2>5
  <2>7. SpentOf' = SpentOf /\ SinceOf' = SinceOf
    BY <2>2, <2>5 DEF SpentOf, SinceOf
  <2>8. WorthOf(r) = MeterOf[u] + (botRate[u] - RateOf[u]) * back
    <3> DEFINE old == record[u].rate
               life == record[u].lifetime * Hour
               left == record[u].leftover
    <3>1. life \in Nat /\ old \in Nat /\ left \in Nat /\ back \in Nat
      BY <1>1, <2>3, <2>4, ProductNat, UnitAssumption
    <3>2. WorthOf(r) = life + (back * botRate[u] + left)
      BY <2>2 DEF WorthOf
    <3>3. MeterOf[u] = life + (back * old + left)
      BY DEF MeterOf, Unsettled
    <3>4. RateOf[u] = old
      BY DEF RateOf
    <3> HIDE DEF old, life, left, back
    <3>5. back * botRate[u] = back * old + (botRate[u] - old) * back
      BY <1>1, <3>1, OtherRate
    <3>6. back * old \in Nat /\ back * botRate[u] \in Nat
      BY <1>1, <3>1, ProductNat
    <3>7. (botRate[u] - old) * back \in Int
      BY <1>1, <3>1
    <3>8. QED
      BY <3>1, <3>2, <3>3, <3>4, <3>5, <3>6, <3>7
  <2>9. MeterOf' = [MeterOf EXCEPT ![u] = @ + (botRate[u] - RateOf[u]) * (now - SinceOf[u])]
    BY <2>4, <2>5, <2>8 DEF MeterOf
  <2>10. QED
    BY <1>2, <2>1, <2>6, <2>7, <2>9 DEF Meter!StartAgain
<1>4. CASE u \notin started
  <2> DEFINE r == [rate |-> botRate[u], last |-> now, carry |-> 0,
                   lifetime |-> 0, leftover |-> 0]
  <2>1. record' = [record EXCEPT ![u] = r] /\ UNCHANGED restarts
    BY <1>4 DEF StartAccrual
  <2>2. /\ r \in UserAccrual /\ r.last = now /\ r.lifetime = 0 /\ r.carry = 0
        /\ r.rate = botRate[u] /\ r.leftover = 0
    BY <1>1, UnitAssumption DEF UserAccrual
  <2> HIDE DEF r
  <2>3. /\ RateOf' = [RateOf EXCEPT ![u] = r.rate]
        /\ SinceOf' = [SinceOf EXCEPT ![u] = r.last]
        /\ MeterOf' = [MeterOf EXCEPT ![u] = WorthOf(r)]
        /\ SpentOf' = [SpentOf EXCEPT ![u] = r.lifetime - r.carry]
    BY <1>2, <2>1, <2>2, OneMeter
  <2>4. record[u] = NoRecord
    BY <1>4 DEF IInv, Unstarted
  <2>5. /\ record[u].rate = 0 /\ record[u].last = 0 /\ record[u].lifetime = 0
        /\ record[u].carry = 0 /\ record[u].leftover = 0
    BY <2>4 DEF NoRecord
  <2>6. WorthOf(r) = 0 /\ MeterOf[u] = 0
    BY <1>1, <2>2, <2>5, UnitAssumption DEF WorthOf, MeterOf, Unsettled
  <2>7. SpentOf[u] = 0
    BY <2>5 DEF SpentOf
  <2>8. MeterOf' = MeterOf /\ SpentOf' = SpentOf
    <3>1. WorthOf(r) = MeterOf[u] /\ r.lifetime - r.carry = SpentOf[u]
      BY <2>2, <2>6, <2>7
    <3>2. QED
      BY <2>3, <3>1, MappedFunctions, SameValue
  <2>9. \E q \in {RateOf[u], botRate[u], 0} : RateOf' = [RateOf EXCEPT ![u] = q]
    BY <2>2, <2>3
  <2>10. SinceOf' = [SinceOf EXCEPT ![u] = now]
    BY <2>2, <2>3
  <2>11. QED
    BY <1>2, <2>1, <2>8, <2>9, <2>10 DEF Meter!Settle
<1>5. QED
  BY <1>3, <1>4

(* sync_rate settles, and takes the rate of the bots.                       *)
LEMMA SyncMeters ==
  ASSUME IInv, NEW u \in Users, SyncRate(u)
  PROVE  Meter!Settle(u)
<1> DEFINE r == [Banked(u) EXCEPT !.rate = botRate[u]]
<1>1. Banked(u) \in UserAccrual /\ Banked(u).last = now /\ botRate[u] \in Nat
  BY BankedFacts DEF IInv, TypeOK
<1>2. /\ r \in UserAccrual /\ r.last = now /\ r.lifetime = Banked(u).lifetime
      /\ r.leftover = Banked(u).leftover /\ r.carry = Banked(u).carry
      /\ r.rate = botRate[u]
  BY <1>1, WithRate
<1>3. /\ record' = [record EXCEPT ![u] = r]
      /\ UNCHANGED <<now, botRate, minted, pointsPerAmt, restarts>>
  BY DEF SyncRate
<1> HIDE DEF r
<1>4. QED
  BY <1>2, <1>3, BankingIsSettling

(* settle keeps the rate.                                                   *)
LEMMA SettleMeters ==
  ASSUME IInv, NEW u \in Users, Settle(u)
  PROVE  Meter!Settle(u)
<1>1. /\ Banked(u) \in UserAccrual /\ Banked(u).last = now
      /\ Banked(u).rate = record[u].rate
  BY BankedFacts DEF IInv
<1>2. /\ record' = [record EXCEPT ![u] = Banked(u)]
      /\ UNCHANGED <<now, botRate, minted, pointsPerAmt, restarts>>
  BY DEF Settle
<1>3. QED
  BY <1>1, <1>2, BankingIsSettling

(* stop_accrual settles, and stops the meter.                               *)
LEMMA StopMeters ==
  ASSUME IInv, NEW u \in Users, StopAccrual(u)
  PROVE  Meter!Settle(u)
<1> DEFINE r == [Banked(u) EXCEPT !.rate = 0]
<1>1. Banked(u) \in UserAccrual /\ Banked(u).last = now
  BY BankedFacts DEF IInv
<1>2. /\ r \in UserAccrual /\ r.last = now /\ r.lifetime = Banked(u).lifetime
      /\ r.leftover = Banked(u).leftover /\ r.carry = Banked(u).carry
      /\ r.rate = 0
  BY <1>1, WithRate
<1>3. /\ record' = [record EXCEPT ![u] = r]
      /\ UNCHANGED <<now, botRate, minted, pointsPerAmt, restarts>>
  BY DEF StopAccrual
<1> HIDE DEF r
<1>4. QED
  BY <1>2, <1>3, BankingIsSettling

(* A claim redeems exactly the unspent whole tokens.                        *)
LEMMA ClaimMeters ==
  ASSUME IInv, NEW u \in Users, Claim(u)
  PROVE  Meter!Redeem(u)
<1> DEFINE r == [Banked(u) EXCEPT !.carry = @ % pointsPerAmt]
           carry == Banked(u).carry
           amount == carry \div pointsPerAmt
<1>1. /\ amount \in Nat /\ carry = amount * pointsPerAmt + r.carry
      /\ r \in UserAccrual /\ r.last = now /\ r.rate = Banked(u).rate
      /\ r.leftover = Banked(u).leftover /\ r.lifetime = Banked(u).lifetime
  BY ClaimedFacts DEF IInv
<1>2. /\ record' = [record EXCEPT ![u] = r]
      /\ minted' = [minted EXCEPT ![u] = @ + amount * AmtScale]
      /\ UNCHANGED <<now, botRate, pointsPerAmt, restarts>>
  BY DEF Claim
<1>3. /\ record[u] \in UserAccrual /\ Pending(u) \in Nat
      /\ Banked(u).rate = record[u].rate
      /\ carry = record[u].carry + Pending(u)
      /\ Banked(u).lifetime = record[u].lifetime + Pending(u)
  BY BankedFacts DEF IInv
<1>4. record[u].carry \in Nat /\ record[u].lifetime \in Nat /\ pointsPerAmt \in Nat
  BY <1>3 DEF UserAccrual, IInv, TypeOK
<1> HIDE DEF r
<1>5. r.carry \in Nat
  BY <1>1 DEF UserAccrual
<1>6. amount * pointsPerAmt \in Nat
  BY <1>1, <1>4, ProductNat
<1> HIDE DEF amount, carry
<1>7. /\ RateOf' = [RateOf EXCEPT ![u] = r.rate]
      /\ SinceOf' = [SinceOf EXCEPT ![u] = r.last]
      /\ MeterOf' = [MeterOf EXCEPT ![u] = WorthOf(r)]
      /\ SpentOf' = [SpentOf EXCEPT ![u] = r.lifetime - r.carry]
  BY <1>1, <1>2, OneMeter
<1>8. WorthOf(r) = MeterOf[u] /\ Meter!Points(u) = Banked(u).lifetime
  BY <1>1, BankedWorth
<1>9. RateOf' = RateOf /\ MeterOf' = MeterOf
  BY <1>1, <1>3, <1>7, <1>8 DEF RateOf, MeterOf
<1>10. SpentOf[u] = record[u].lifetime - record[u].carry
  BY DEF SpentOf
<1>11. Meter!Points(u) - SpentOf[u] = carry
  BY <1>3, <1>4, <1>8, <1>10
<1>12. r.lifetime - r.carry = SpentOf[u] + amount * pointsPerAmt
  BY <1>1, <1>3, <1>4, <1>5, <1>6, <1>10
<1>13. SpentOf' = [SpentOf EXCEPT ![u] = @ + amount * pointsPerAmt]
  BY <1>7, <1>12 DEF SpentOf
<1>14. amount = (Meter!Points(u) - SpentOf[u]) \div pointsPerAmt
  BY <1>11 DEF amount
<1>15. QED
  BY <1>1, <1>2, <1>7, <1>9, <1>13, <1>14 DEF Meter!Redeem

(* Time runs every meter at its rate.                                       *)
LEMMA TickMeters ==
  ASSUME IInv, Tick
  PROVE  Meter!Elapse
<1>1. /\ now \in Nat /\ now' = now + 1 /\ record' = record
      /\ minted' = minted /\ pointsPerAmt' = pointsPerAmt
      /\ botRate' = botRate /\ restarts' = restarts
      /\ record \in [Users -> UserAccrual]
  BY DEF Tick, accrualVars, IInv, TypeOK
<1>2. RateOf' = RateOf /\ SpentOf' = SpentOf /\ SinceOf' = SinceOf
  BY <1>1 DEF RateOf, SpentOf, SinceOf
<1>3. ASSUME NEW u \in Users
      PROVE  (record[u].lifetime * Hour + Unsettled(u))' = MeterOf[u] + (now' - now) * RateOf[u]
  <2> DEFINE life == record[u].lifetime * Hour
             worth == (now - record[u].last) * record[u].rate
             r == record[u].rate
             left == record[u].leftover
  <2>1. /\ record[u].lifetime \in Nat /\ record[u].last \in Nat
        /\ r \in Nat /\ left \in Nat /\ now - record[u].last \in Nat
    BY <1>1, BankedFacts DEF UserAccrual, IInv
  <2>2. ((now + 1) - record[u].last) * r = worth + r
    BY <1>1, <2>1, OneMoreMoment
  <2>3. life \in Nat /\ worth \in Nat
    BY <2>1, ProductNat, UnitAssumption
  <2>4. (record[u].lifetime * Hour + Unsettled(u))'
          = life + (((now + 1) - record[u].last) * r + left)
    BY <1>1 DEF Unsettled
  <2>5. MeterOf[u] = life + (worth + left) /\ RateOf[u] = r
    BY DEF MeterOf, RateOf, Unsettled
  <2>6. (now' - now) * RateOf[u] = r
    BY <1>1, <2>1, <2>5
  <2> HIDE DEF life, worth, r, left
  <2>7. QED
    BY <2>1, <2>2, <2>3, <2>4, <2>5, <2>6
<1>4. MeterOf' = [u \in Users |-> MeterOf[u] + (now' - now) * RateOf[u]]
  BY <1>3 DEF MeterOf
<1>5. QED
  BY <1>1, <1>2, <1>4 DEF Meter!Elapse

(* All meters start at zero.                                                *)
LEMMA InitMeters == Init => Meter!Init
<1> SUFFICES ASSUME Init PROVE Meter!Init
  OBVIOUS
<1>1. \A u \in Users :
        /\ record[u].rate = 0 /\ record[u].last = 0 /\ record[u].carry = 0
        /\ record[u].lifetime = 0 /\ record[u].leftover = 0
  BY DEF Init, NoRecord
<1>2. /\ now = 0 /\ pointsPerAmt \in Nat \ {0} /\ minted = [u \in Users |-> 0]
      /\ botRate = [u \in Users |-> 0] /\ restarts = [u \in Users |-> FALSE]
  BY ChoiceAssumption DEF Init
<1>3. /\ RateOf = [u \in Users |-> 0] /\ SpentOf = [u \in Users |-> 0]
      /\ SinceOf = [u \in Users |-> 0]
  BY <1>1 DEF RateOf, SpentOf, SinceOf
<1>4. \A u \in Users : record[u].lifetime * Hour + Unsettled(u) = 0
  <2>1. 0 * Hour = 0 /\ (0 - 0) * 0 + 0 = 0
    BY UnitAssumption
  <2>2. \A u \in Users : Unsettled(u) = 0
    BY <1>1, <1>2, <2>1 DEF Unsettled
  <2>3. \A u \in Users : record[u].lifetime * Hour = 0
    BY <1>1, <2>1, Zenon
  <2>4. 0 + 0 = 0
    OBVIOUS
  <2>5. QED
    BY <2>2, <2>3, <2>4, Zenon
<1>5. MeterOf = [u \in Users |-> 0]
  BY <1>4 DEF MeterOf
<1>6. QED
  BY <1>2, <1>3, <1>5 DEF Meter!Init

(* Steps that touch neither the records nor the clock.                      *)
LEMMA OtherMeters ==
  ASSUME UNCHANGED <<now, record, minted>>
  PROVE  RateOf' = RateOf /\ SinceOf' = SinceOf /\ MeterOf' = MeterOf /\ SpentOf' = SpentOf
BY DEF RateOf, SinceOf, MeterOf, SpentOf, Unsettled

(* Every step of the contract is a step of the meter or none.               *)
LEMMA StepMeters == IInv /\ [Next]_vars => [Meter!Next]_(Meter!vars)
<1> SUFFICES ASSUME IInv, [Next]_vars PROVE [Meter!Next]_(Meter!vars)
  OBVIOUS
<1>1. ASSUME NEW u \in Users,
             StartAccrual(u) \/ SyncRate(u) \/ Settle(u) \/ Claim(u) \/ StopAccrual(u)
      PROVE  Meter!Next
  BY <1>1, StartMeters, SyncMeters, SettleMeters, ClaimMeters, StopMeters DEF Meter!Next
<1>2. ASSUME NEW p \in PriceChoices, SetPointsPerAmt(p)
      PROVE  Meter!Reprice
  BY <1>2, ChoiceAssumption, OtherMeters
     DEF SetPointsPerAmt, Meter!Reprice, IInv, TypeOK
<1>3. CASE Tick
  BY <1>3, TickMeters DEF Meter!Next
<1>4. ASSUME NEW u \in Users,
             Freeze(u) \/ Unfreeze(u) \/ Register(u) \/ Unregister(u)
      PROVE  UNCHANGED Meter!vars
  <2>1. UNCHANGED <<now, botRate, record, minted, pointsPerAmt, restarts>>
    BY <1>4 DEF Freeze, Unfreeze, Register, Unregister, accrualVars
  <2>2. QED
    BY <2>1, OtherMeters DEF Meter!vars
<1>7. ASSUME NEW u \in Users, NEW r \in RateChoices, BotsChange(u, r)
      PROVE  Meter!Trade(u)
  <2>1. UNCHANGED <<now, record, minted, pointsPerAmt, restarts>>
    BY <1>7 DEF BotsChange, accrualVars
  <2>2. botRate' = [botRate EXCEPT ![u] = botRate'[u]]
    BY <1>7 DEF BotsChange, IInv, TypeOK
  <2>3. QED
    BY <2>1, <2>2, OtherMeters DEF Meter!Trade
<1>5. CASE UNCHANGED vars
  <2>1. UNCHANGED <<now, botRate, record, minted, pointsPerAmt, restarts>>
    BY <1>5 DEF vars, accrualVars
  <2>2. QED
    BY <2>1, OtherMeters DEF Meter!vars
<1>6. QED
  BY <1>1, <1>2, <1>3, <1>4, <1>5, <1>7 DEF Next, UserStep, Meter!Next

(* Accrual implements the meter: sync_rate, settle, claim and stop_accrual, *)
(* by anybody at any time, move no user's meter, a second start moves it by *)
(* the difference in rate over the time since the last settlement, and a    *)
(* claim mints all unspent whole tokens and nothing else.                   *)
THEOREM AccrualImplementsMeter == Spec => ImplementsPointMeter
<1>1. Init => Meter!Init
  BY InitMeters
<1>2. IInv /\ [Next]_vars => [Meter!Next]_(Meter!vars)
  BY StepMeters
<1>3. QED
  BY <1>1, <1>2, AlwaysIInv, PTL DEF Spec, ImplementsPointMeter, Meter!Spec

=============================================================================
