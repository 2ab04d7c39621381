------------------------------ MODULE PointMeter ------------------------------
(***************************************************************************)
(* What accrual promises a user, without carries, remainders or totals: a  *)
(* meter runs at the user's rate, every whole hour's worth of it is a      *)
(* point, and a redemption turns all points not yet spent into whole       *)
(* tokens.  Settling moves no meter: the rate it may set counts from that  *)
(* moment on.  The one exception is a second start, whose rate counts for  *)
(* all of the time since the last settlement, and never for more.          *)
(***************************************************************************)
EXTENDS Integers

CONSTANTS Users, Hour, AmtScale

VARIABLES
  time,
  bots,     \* [Users -> Nat]: points per hour of the bots a user owns
  rate,     \* [Users -> Nat]: points per hour the meter runs at
  since,    \* [Users -> Nat]: when the user was last settled
  meter,    \* [Users -> Nat]: rate times time, so Hour of it is a point
  spent,    \* [Users -> Nat]: points given for tokens
  tokens,   \* [Users -> Nat]: what was minted for them
  restarts, \* [Users -> BOOLEAN]: flips with every second start
  price     \* points per whole token

vars == <<time, bots, rate, since, meter, spent, tokens, restarts, price>>

Points(u) == meter[u] \div Hour

Init ==
  /\ time \in Nat /\ price \in Nat \ {0}
  /\ bots = [u \in Users |-> 0] /\ rate = [u \in Users |-> 0]
  /\ since = [u \in Users |-> 0] /\ meter = [u \in Users |-> 0]
  /\ spent = [u \in Users |-> 0] /\ tokens = [u \in Users |-> 0]
  /\ restarts = [u \in Users |-> FALSE]

Elapse ==
  /\ time' > time
  /\ meter' = [u \in Users |-> meter[u] + (time' - time) * rate[u]]
  /\ UNCHANGED <<bots, rate, since, spent, tokens, restarts, price>>

Trade(u) ==
  /\ bots' = [bots EXCEPT ![u] = bots'[u]]
  /\ UNCHANGED <<time, rate, since, meter, spent, tokens, restarts, price>>

(* A settlement keeps the rate, takes that of the bots, or stops the meter. *)
Settle(u) ==
  /\ \E r \in {rate[u], bots[u], 0} : rate' = [rate EXCEPT ![u] = r]
  /\ since' = [since EXCEPT ![u] = time]
  /\ UNCHANGED <<time, bots, meter, spent, tokens, restarts, price>>

StartAgain(u) ==
  /\ rate' = [rate EXCEPT ![u] = bots[u]]
  /\ meter' = [meter EXCEPT ![u] = @ + (bots[u] - rate[u]) * (time - since[u])]
  /\ restarts' = [restarts EXCEPT ![u] = ~@]
  /\ UNCHANGED <<time, bots, since, spent, tokens, price>>

Redeem(u) ==
  LET whole == (Points(u) - spent[u]) \div price IN
  /\ spent' = [spent EXCEPT ![u] = @ + whole * price]
  /\ tokens' = [tokens EXCEPT ![u] = @ + whole * AmtScale]
  /\ since' = [since EXCEPT ![u] = time]
  /\ UNCHANGED <<time, bots, rate, meter, restarts, price>>

Reprice ==
  /\ price' \in Nat \ {0} /\ price' <= 2 * price /\ price <= 2 * price'
  /\ UNCHANGED <<time, bots, rate, since, meter, spent, tokens, restarts>>

Next ==
  \/ Elapse
  \/ Reprice
  \/ \E u \in Users : Trade(u) \/ Settle(u) \/ StartAgain(u) \/ Redeem(u)

Spec == Init /\ [][Next]_vars

=============================================================================
