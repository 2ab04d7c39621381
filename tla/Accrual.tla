-------------------------------- MODULE Accrual --------------------------------
(***************************************************************************)
(* The accrual contract, with what it uses of its neighbours: the total    *)
(* rate of a user's bots, the registry's profiles and the token's mint.    *)
(*                                                                         *)
(* Every action is one successful invocation; the host undoes a failing    *)
(* one, the callees' part included, so claim's error returns are stuttering*)
(* steps.  A settle of several users is a sequence of Settle steps at one  *)
(* moment, since it treats them one after the other and skips those it     *)
(* cannot settle.  The caller names the registry and the token that the    *)
(* configuration names.                                                    *)
(*                                                                         *)
(* Minting or transferring a bot calls accrual's sync_rate, which reads    *)
(* the rate from the bot contract.  That contract is then already on the   *)
(* stack, the host refuses to enter it again, and the bot contract ignores *)
(* the failure.  A burn or a change of a tier's rate calls nothing.  So    *)
(* BotsChange leaves the accrual record alone.                             *)
(***************************************************************************)
EXTENDS Integers

CONSTANTS
  Users,
  Hour,                \* seconds in the unit of a rate, 3600 in the contract
  AmtScale,            \* base units of one token, 10^decimals
  InitPointsPerAmt,
  MaxPointsPerCall     \* the registry's bound, 10_000_000 in the contract

CONSTANTS RateChoices, PriceChoices, MaxTime   \* callers' choices and a bound

ASSUME UnitAssumption == Hour \in Nat \ {0} /\ AmtScale \in Nat \ {0}
ASSUME ChoiceAssumption ==
  /\ InitPointsPerAmt \in Nat \ {0} /\ MaxPointsPerCall \in Nat
  /\ RateChoices \subseteq Nat /\ PriceChoices \subseteq Nat
  /\ MaxTime \in Nat

VARIABLES
  now,
  \* The accrual contract.
  started,       \* the users with a UserAccrual record
  record,        \* DataKey::UserAccrual; an absent record is all zero
  frozen,        \* DataKey::Frozen
  pointsPerAmt,  \* Config.points_per_amt
  \* Its neighbours.
  botRate,       \* bot NFT: get_user_total_rate
  registered,    \* registry: the users with a profile
  points,        \* registry: total_points
  claimed,       \* registry: claimed_amt
  minted,        \* token: what a user was ever minted
  \* A history variable: flips with every start of a user who has a record.
  restarts

accrualVars == <<started, record, frozen, pointsPerAmt>>
registryVars == <<registered, points, claimed>>
vars == <<now, accrualVars, botRate, registryVars, minted, restarts>>

NoRecord == [rate |-> 0, last |-> 0, carry |-> 0, lifetime |-> 0, leftover |-> 0]

(* What the record is worth now, in rate times time, and in whole points.   *)
Unsettled(u) == (now - record[u].last) * record[u].rate + record[u].leftover
Pending(u) == Unsettled(u) \div Hour

(* The record with everything earned so far in its carry.                   *)
Banked(u) ==
  [record[u] EXCEPT !.last = now, !.leftover = Unsettled(u) % Hour,
                    !.carry = @ + Pending(u), !.lifetime = @ + Pending(u)]

(* The registry's add_points, which accepts 0 for a registered user.        *)
AddPoints(u, n) ==
  /\ u \in registered /\ n <= MaxPointsPerCall
  /\ points' = [points EXCEPT ![u] = @ + n]

-----------------------------------------------------------------------------

Init ==
  /\ now = 0
  /\ started = {} /\ frozen = {} /\ pointsPerAmt = InitPointsPerAmt
  /\ record = [u \in Users |-> NoRecord]
  /\ botRate = [u \in Users |-> 0]
  /\ registered = {}
  /\ points = [u \in Users |-> 0] /\ claimed = [u \in Users |-> 0]
  /\ minted = [u \in Users |-> 0]
  /\ restarts = [u \in Users |-> FALSE]

(* The rate is that of the bots now.  A user who has a record keeps all of  *)
(* it and only gets the rate: nothing is settled first.                     *)
StartAccrual(u) ==
  /\ \/ /\ u \in started
        /\ record' = [record EXCEPT ![u].rate = botRate[u]]
        /\ restarts' = [restarts EXCEPT ![u] = ~@]
     \/ /\ u \notin started /\ u \in registered /\ botRate[u] > 0
        /\ record' = [record EXCEPT ![u] =
                        [rate |-> botRate[u], last |-> now, carry |-> 0,
                         lifetime |-> 0, leftover |-> 0]]
        /\ UNCHANGED restarts
  /\ started' = started \cup {u}
  /\ UNCHANGED <<now, frozen, pointsPerAmt, botRate, registryVars, minted>>

(* A slip: the points are credited before they are banked, so the registry's*)
(* bound applies to the one call that has none.                             *)
SyncRateCrediting(u) ==
  /\ u \in started \ frozen
  /\ AddPoints(u, Pending(u))
  /\ record' = [record EXCEPT ![u] = [Banked(u) EXCEPT !.rate = botRate[u]]]
  /\ UNCHANGED <<now, started, frozen, pointsPerAmt, botRate, registered,
                 claimed, minted, restarts>>

(* A slip: the rate is refreshed as by a second start, nothing is settled.  *)
SyncRateOnly(u) ==
  /\ u \in started \ frozen
  /\ record' = [record EXCEPT ![u].rate = botRate[u]]
  /\ UNCHANGED <<now, started, frozen, pointsPerAmt, botRate, registryVars, minted,
                 restarts>>

(* Anybody may call it.  It does not tell the registry.                     *)
SyncRate(u) ==
  /\ u \in started \ frozen
  /\ record' = [record EXCEPT ![u] = [Banked(u) EXCEPT !.rate = botRate[u]]]
  /\ UNCHANGED <<now, started, frozen, pointsPerAmt, botRate, registryVars, minted,
                 restarts>>

(* Anybody may call it.                                                     *)
Settle(u) ==
  /\ u \in started \ frozen
  /\ Pending(u) > 0
  /\ AddPoints(u, Pending(u))
  /\ record' = [record EXCEPT ![u] = Banked(u)]
  /\ UNCHANGED <<now, started, frozen, pointsPerAmt, botRate, registered,
                 claimed, minted, restarts>>

Claim(u) ==
  LET banked == Banked(u)
      amount == banked.carry \div pointsPerAmt
  IN
  /\ u \in started \ frozen
  /\ AddPoints(u, Pending(u))
  /\ record' = [record EXCEPT ![u] = [banked EXCEPT !.carry = @ % pointsPerAmt]]
  /\ minted' = [minted EXCEPT ![u] = @ + amount * AmtScale]
  /\ claimed' = [claimed EXCEPT ![u] = @ + amount]
  /\ UNCHANGED <<now, started, frozen, pointsPerAmt, botRate, registered,
                 restarts>>

(* A slip: the registry is credited and the record is only stopped.         *)
StopAccrualUnbanked(u) ==
  /\ u \in started
  /\ IF Pending(u) > 0 THEN AddPoints(u, Pending(u)) ELSE UNCHANGED points
  /\ record' = [record EXCEPT ![u].rate = 0, ![u].last = now]
  /\ UNCHANGED <<now, started, frozen, pointsPerAmt, botRate, registered,
                 claimed, minted, restarts>>

(* It does not ask whether the user is frozen.                              *)
StopAccrual(u) ==
  /\ u \in started
  /\ IF Pending(u) > 0 THEN AddPoints(u, Pending(u)) ELSE UNCHANGED points
  /\ record' = [record EXCEPT ![u] = [Banked(u) EXCEPT !.rate = 0]]
  /\ UNCHANGED <<now, started, frozen, pointsPerAmt, botRate, registered,
                 claimed, minted, restarts>>

-----------------------------------------------------------------------------
(* The admin.                                                               *)

Freeze(u) ==
  /\ frozen' = frozen \cup {u}
  /\ UNCHANGED <<now, started, record, pointsPerAmt, botRate, registryVars, minted,
                 restarts>>

Unfreeze(u) ==
  /\ frozen' = frozen \ {u}
  /\ UNCHANGED <<now, started, record, pointsPerAmt, botRate, registryVars, minted,
                 restarts>>

SetPointsPerAmt(p) ==
  /\ p > 0
  /\ p <= 2 * pointsPerAmt /\ pointsPerAmt <= 2 * p
  /\ pointsPerAmt' = p
  /\ UNCHANGED <<now, started, record, frozen, botRate, registryVars, minted,
                 restarts>>

-----------------------------------------------------------------------------
(* The neighbours.                                                          *)

BotsChange(u, r) ==
  /\ botRate' = [botRate EXCEPT ![u] = r]
  /\ UNCHANGED <<now, accrualVars, registryVars, minted,
                 restarts>>

Register(u) ==
  /\ u \notin registered
  /\ registered' = registered \cup {u}
  /\ points' = [points EXCEPT ![u] = 0]
  /\ claimed' = [claimed EXCEPT ![u] = 0]
  /\ UNCHANGED <<now, accrualVars, botRate, minted, restarts>>

Unregister(u) ==
  /\ u \in registered
  /\ registered' = registered \ {u}
  /\ UNCHANGED <<now, accrualVars, botRate, points, claimed, minted, restarts>>

Tick ==
  /\ now < MaxTime
  /\ now' = now + 1
  /\ UNCHANGED <<accrualVars, botRate, registryVars, minted,
                 restarts>>

UserStep(u) ==
  \/ StartAccrual(u)
  \/ SyncRate(u)
  \/ Settle(u)
  \/ Claim(u)
  \/ StopAccrual(u)
  \/ Freeze(u)
  \/ Unfreeze(u)
  \/ Register(u)
  \/ Unregister(u)
  \/ \E r \in RateChoices : BotsChange(u, r)

Next ==
  \/ \E u \in Users : UserStep(u)
  \/ \E p \in PriceChoices : SetPointsPerAmt(p)
  \/ Tick

Spec == Init /\ [][Next]_vars

(* A user keeps claiming, and a keeper, who may be anybody, keeps syncing.  *)
FairSpec ==
  Spec /\ \A u \in Users : WF_vars(Claim(u)) /\ WF_vars(SyncRate(u))

-----------------------------------------------------------------------------

UserAccrual ==
  {r \in [rate : Nat, last : Nat, carry : Nat, lifetime : Nat, leftover : Nat] :
     r.carry <= r.lifetime /\ r.leftover < Hour}

(* Every record is one the contract can store; in particular no token has   *)
(* been minted for points never earned (carry within lifetime).             *)
TypeOK ==
  /\ now \in 0 .. MaxTime
  /\ started \subseteq Users /\ frozen \subseteq Users
  /\ record \in [Users -> UserAccrual]
  /\ \A u \in Users : record[u].last <= now
  /\ pointsPerAmt \in Nat \ {0}
  /\ botRate \in [Users -> Nat]
  /\ registered \subseteq Users
  /\ points \in [Users -> Nat] /\ claimed \in [Users -> Nat]
  /\ minted \in [Users -> Nat]
  /\ restarts \in [Users -> BOOLEAN]

(* The registry ranks users by points: it never shows more than accrual has *)
(* settled, over claims, settlements, stops, and profiles that are deleted  *)
(* and made anew.  (It may show less: sync_rate banks without crediting.)   *)
RegistryNeverAhead == \A u \in Users : points[u] <= record[u].lifetime

RateOf == [u \in Users |-> record[u].rate]
SinceOf == [u \in Users |-> record[u].last]
MeterOf == [u \in Users |-> record[u].lifetime * Hour + Unsettled(u)]
SpentOf == [u \in Users |-> record[u].lifetime - record[u].carry]

Meter == INSTANCE PointMeter WITH
  time <- now, bots <- botRate, rate <- RateOf, since <- SinceOf,
  meter <- MeterOf, spent <- SpentOf, tokens <- minted, price <- pointsPerAmt

(* Settling early, late, repeatedly, by anybody, syncing and stopping change *)
(* nothing of what a user is owed for the time before (settle: "never        *)
(* reduces what a user is owed"; sync_rate: "only banks what time has already*)
(* earned"), and a claim mints exactly the whole tokens of all unspent       *)
(* points.  Only a start by a user who has a record revalues past time: the  *)
(* time since the last settlement, at the rate of the bots owned now.        *)
ImplementsPointMeter == Meter!Spec

(* A registered user who is not frozen gets out of every backlog, also one  *)
(* too large for the registry to accept at once: the carry falls below the  *)
(* price of a token again and again.                                        *)
CanClaim(u) == u \in (started \cap registered) \ frozen
BacklogDrains ==
  \A u \in Users :
    <>[]CanClaim(u) => []<>(Pending(u) = 0 /\ record[u].carry < pointsPerAmt)

=============================================================================
