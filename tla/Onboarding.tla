----------------------------- MODULE Onboarding -----------------------------
(***************************************************************************)
(* Registration in the web client: a user who is not registered sees a     *)
(* form on the dashboard; submitting it runs the steps register, mint and  *)
(* accrual that have not landed on chain yet, one transaction after the    *)
(* other, for the account that was connected when it was submitted.        *)
(*                                                                         *)
(* The dashboard shows the form on what it read last, and replaces it by a *)
(* skeleton whenever it reads again: the run goes on without its form, and *)
(* the form that comes back can be submitted while it does.                *)
(*                                                                         *)
(* External: the contracts, reduced to which steps have landed; other      *)
(* devices of the same user; the wallet's network.  Of the session, which  *)
(* is module Wallet, what matters here is that the account it shows and    *)
(* what it believes about the network may change at any step.  What        *)
(* executeTransaction does between the simulation and the answer is module *)
(* TxPipeline; here a step is simulated, signed, and then lands, fails or  *)
(* is given up.                                                            *)
(***************************************************************************)
EXTENDS Naturals, FiniteSetsExt

CONSTANTS
  Accounts,
  InitAccount,    \* the one that is connected at first
  MaxRuns,        \* bound: submissions of the form
  MaxDisturbances,\* bound: failed requests, rejections and time-outs, changes of
                  \* the session, the network or the chain from elsewhere, reloads
  MaxRetries,     \* MAX_MUTATION_RETRIES, 1 in the code
  None

ASSUME OnboardingAssumption ==
  /\ InitAccount \in Accounts /\ MaxRuns \in Nat /\ MaxDisturbances \in Nat /\ MaxRetries \in Nat
  /\ None \notin Nat \cup Accounts \cup BOOLEAN

VARIABLES
  store,      \* the session: publicKey and networkMismatch
  right,      \* whether the extension is on the configured network
  landed,     \* per account: the steps whose result is on chain
  registered, \* per account: what useRegistered read last, None before
  form,       \* the run of the form on screen, or None
  run,        \* per run: see NewRun
  pool,       \* submitted steps that are not decided
  disturbances

sessionVars == <<store, right>>
vars == <<sessionVars, landed, registered, form, run, pool, disturbances>>

Runs == 1 .. MaxRuns

(* REGISTER_STEPS, in order: register, mint, accrual.                       *)
Steps == 1 .. 3
Register == 1
Mint == 2
StartAccrual == 3

(* at: where the run is; account: publicKey of the render it was submitted  *)
(* from; known: what detection has read of each step; step: the one being   *)
(* executed, or 0; failures: of its mutation; error: what it failed with    *)
(* last; alone: whether nothing else acted for the account meanwhile.       *)
NewRun == [at |-> "idle", account |-> None, known |-> [i \in Steps |-> None], step |-> 0,
           failures |-> 0, error |-> "none", alone |-> TRUE]

At(r, stage) == run[r].at = stage
Going(r) == run[r].at \notin {"idle", "done", "failed"}
Connected(a) == store.publicKey = a
Disturbance == disturbances < MaxDisturbances /\ disturbances' = disturbances + 1
Disturbed(a) == [r \in Runs |-> [run[r] EXCEPT !.alone = @ /\ (run[r].account # a \/ ~Going(r))]]

(* What the contracts accept: one registration, one basic bot at a time,    *)
(* accrual for registered owners of a bot (a second start only resyncs).    *)
Accepts(a, i) ==
  CASE i = Register -> Register \notin landed[a]
    [] i = Mint -> Mint \notin landed[a]
    [] i = StartAccrual -> {Register, Mint} \subseteq landed[a]

Lands(a, i) == landed' = [landed EXCEPT ![a] = @ \cup {i}]

---------------------------------------------------------------------------
(* The dashboard.                                                          *)

FormShown(a) == Connected(a) /\ registered[a] = FALSE

(* The form: disabled while its own run is pending, and on a network known  *)
(* to be wrong.  That the username is acceptable is left to the user.       *)
SubmitEnabled(a) == FormShown(a) /\ ~store.networkMismatch /\ (form # None => ~Going(form))

(* useRegistered reads the chain, on its interval or when invalidated.      *)
ReadRegistered(a) ==
  /\ Connected(a) /\ registered[a] # (Register \in landed[a])
  /\ registered' = [registered EXCEPT ![a] = Register \in landed[a]]
  /\ UNCHANGED <<sessionVars, landed, form, run, pool, disturbances>>

(* Some query of the page is read again: the skeleton replaces the form.    *)
Skeleton ==
  /\ form # None /\ form' = None
  /\ UNCHANGED <<sessionVars, landed, registered, run, pool, disturbances>>

(* handleSubmit.                                                            *)
Submit(r, a) ==
  /\ SubmitEnabled(a)
  /\ At(r, "idle") /\ \A q \in 1 .. r - 1 : ~At(q, "idle")
  /\ run' = [Disturbed(a) EXCEPT ![r] =
       [NewRun EXCEPT !.at = "detecting", !.account = a,
                      !.alone = /\ \A q \in Runs : Going(q) => run[q].account # a
                                /\ \A t \in pool : t.account # a]]
  /\ form' = r
  /\ UNCHANGED <<sessionVars, landed, registered, pool, disturbances>>

---------------------------------------------------------------------------
(* The mutation.                                                           *)

(* Over, as far as anything later can tell.                                 *)
Over(q, at, error) ==
  [NewRun EXCEPT !.at = at, !.account = q.account, !.error = error, !.alone = q.alone]

(* retryMutation: a failure that reads as a network error is retried, from  *)
(* detection on.  A mismatch of networks is not: its message names          *)
(* Freighter, which wasSignatureRequested takes for a signature (retry.ts). *)
Ended(r, error) ==
  IF error = "network" /\ run[r].failures < MaxRetries
  THEN [Over(run[r], "detecting", error) EXCEPT !.failures = run[r].failures + 1]
  ELSE Over(run[r], "failed", error)

Fail(r, error) == run' = [run EXCEPT ![r] = Ended(r, error)]

(* A slip: on the wrong network a step waits for the user to switch back.   *)
SimulateWaiting(r) ==
  /\ At(r, "queued") /\ ~store.networkMismatch
  /\ \A q \in Runs : run[q].at \in {"signing", "confirming"} => run[q].account # run[r].account
  /\ IF Accepts(run[r].account, run[r].step) THEN run' = [run EXCEPT ![r].at = "signing"]
     ELSE Fail(r, "contract")
  /\ UNCHANGED <<sessionVars, landed, registered, form, pool, disturbances>>

(* A slip: an interrupted registration starts again from the first step.    *)
EveryStep(q) == Steps

Remaining(q) == {i \in Steps : q.known[i] = FALSE}

(* On to the first remaining step after step i, or to the end.              *)
Proceed(q, i) ==
  LET rest == {j \in Remaining(q) : j > i} IN
  IF rest = {} THEN Over(q, "done", "none") ELSE [q EXCEPT !.at = "queued", !.step = Min(rest)]

(* The three facts are read in parallel; the last one decides what to do.   *)
Detect(r, i) ==
  LET q == [run[r] EXCEPT !.known[i] = i \in landed[run[r].account]] IN
  /\ At(r, "detecting") /\ run[r].known[i] = None
  /\ run' = [run EXCEPT ![r] = IF \A j \in Steps : q.known[j] # None THEN Proceed(q, 0) ELSE q]
  /\ UNCHANGED <<sessionVars, landed, registered, form, pool, disturbances>>

(* A slip: a step is done for whoever is connected when it comes up.        *)
AccountNow(r) == IF store.publicKey = None THEN run[r].account ELSE store.publicKey

Account(r) == run[r].account

(* executeTransaction: refused on a network known to be wrong; the          *)
(* transactions of an account wait for each other.                          *)
Simulate(r) ==
  /\ At(r, "queued")
  /\ \/ store.networkMismatch /\ Fail(r, "mismatch")
     \/ /\ ~store.networkMismatch
        /\ \A q \in Runs : run[q].at \in {"signing", "confirming"} => Account(q) # Account(r)
        /\ IF Accepts(Account(r), run[r].step) THEN run' = [run EXCEPT ![r].at = "signing"]
           ELSE Fail(r, "contract")
  /\ UNCHANGED <<sessionVars, landed, registered, form, pool, disturbances>>

(* signTx asks the extension for its network first and tells the store.     *)
Sign(r) ==
  /\ At(r, "signing")
  /\ store' = [store EXCEPT !.networkMismatch = ~right]
  /\ IF right
     THEN /\ run' = [run EXCEPT ![r].at = "confirming"]
          /\ pool' = pool \cup {[account |-> Account(r), step |-> run[r].step, run |-> r]}
     ELSE Fail(r, "mismatch") /\ UNCHANGED pool
  /\ UNCHANGED <<right, landed, registered, form, disturbances>>

(* A transaction is decided: what the contracts accept is checked on the    *)
(* ledger again.  The run that polls for it hears of it.                    *)
Include(t) ==
  /\ pool' = pool \ {t}
  /\ IF Accepts(t.account, t.step) THEN Lands(t.account, t.step) ELSE UNCHANGED landed
  /\ IF t.run = None THEN UNCHANGED run
     ELSE IF Accepts(t.account, t.step) THEN run' = [run EXCEPT ![t.run] = Proceed(run[t.run], t.step)]
     ELSE Fail(t.run, "contract")
  /\ UNCHANGED <<sessionVars, registered, form, disturbances>>

Expire(t) ==
  /\ pool' = pool \ {t}
  /\ IF t.run = None THEN UNCHANGED run ELSE Fail(t.run, "timeout")
  /\ UNCHANGED <<sessionVars, landed, registered, form, disturbances>>

(* A read or the simulation fails for good, or the user rejects.            *)
Trouble(r) ==
  /\ Disturbance
  /\ \/ run[r].at \in {"detecting", "queued"} /\ Fail(r, "network")
     \/ At(r, "signing") /\ Fail(r, "rejected")
  /\ UNCHANGED <<sessionVars, landed, registered, form, pool>>

(* The answer to the submission is lost, or polling gives up: the           *)
(* transaction is still in the pool.                                        *)
LoseTrack(r) ==
  /\ Disturbance
  /\ At(r, "confirming")
  /\ \E error \in {"network", "timeout"} :
       run' = [run EXCEPT ![r] = [Ended(r, error) EXCEPT !.alone = FALSE]]
  /\ pool' = {IF t.run = r THEN [t EXCEPT !.run = None] ELSE t : t \in pool}
  /\ UNCHANGED <<sessionVars, landed, registered, form>>

---------------------------------------------------------------------------
(* Other devices: a step lands, or the user's bots go to somebody else.     *)
Elsewhere(a) ==
  /\ Disturbance
  /\ \/ \E i \in Steps : Accepts(a, i) /\ Lands(a, i)
     \/ Mint \in landed[a] /\ landed' = [landed EXCEPT ![a] = @ \ {Mint}]
  /\ run' = Disturbed(a)
  /\ UNCHANGED <<sessionVars, registered, form, pool>>

(* The session shows another account, or none, or hears of the network it   *)
(* is on; the form belongs to one account.                                  *)
SessionMoves ==
  /\ Disturbance
  /\ \E key \in Accounts \cup {None}, mismatch \in {store.networkMismatch, ~right} :
       /\ store' = [publicKey |-> key, networkMismatch |-> mismatch] /\ store' # store
       /\ form' = IF key = store.publicKey THEN form ELSE None
  /\ UNCHANGED <<right, landed, registered, run, pool>>

SwitchNetwork ==
  /\ Disturbance
  /\ right' = ~right
  /\ UNCHANGED <<store, landed, registered, form, run, pool>>

(* A reload ends what the page was doing, but not what it submitted.        *)
Reload ==
  /\ Disturbance
  /\ store' = [publicKey |-> None, networkMismatch |-> FALSE]
  /\ form' = None /\ registered' = [a \in Accounts |-> None]
  /\ run' = [r \in Runs |-> IF Going(r) THEN Over(run[r], "failed", "closed")
                            ELSE run[r]]
  /\ pool' = {[t EXCEPT !.run = None] : t \in pool}
  /\ UNCHANGED <<right, landed>>

---------------------------------------------------------------------------
Init ==
  /\ store = [publicKey |-> InitAccount, networkMismatch |-> FALSE]
  /\ right = TRUE
  /\ landed = [a \in Accounts |-> {}] /\ registered = [a \in Accounts |-> None]
  /\ form = None /\ run = [r \in Runs |-> NewRun] /\ pool = {}
  /\ disturbances = 0

Transactions == [account : Accounts, step : Steps, run : Runs \cup {None}]

Advance(r) == (\E i \in Steps : Detect(r, i)) \/ Simulate(r) \/ Sign(r)

Next ==
  \/ SessionMoves \/ SwitchNetwork \/ Reload \/ Skeleton
  \/ \E a \in Accounts : ReadRegistered(a) \/ Elsewhere(a)
  \/ \E r \in Runs, a \in Accounts : Submit(r, a)
  \/ \E r \in Runs : Advance(r) \/ Trouble(r) \/ LoseTrack(r)
  \/ \E t \in pool : Include(t) \/ Expire(t)

Spec == Init /\ [][Next]_vars

(* The extension answers, the user decides on what it shows, and what was   *)
(* submitted is included or expires.                                        *)
FairSpec ==
  /\ Spec
  /\ \A r \in Runs : WF_vars(Advance(r))
  /\ \A r \in Runs : WF_vars(\E t \in pool : t.run = r /\ (Include(t) \/ Expire(t)))

---------------------------------------------------------------------------
Errors == {"none", "network", "contract", "mismatch", "rejected", "timeout", "closed"}

RunRecords ==
  [at : {"idle", "detecting", "queued", "signing", "confirming", "done", "failed"},
   account : Accounts \cup {None}, known : [Steps -> BOOLEAN \cup {None}],
   step : Steps \cup {0}, failures : Nat, error : Errors, alone : BOOLEAN]

TypeOK ==
  /\ store \in [publicKey : Accounts \cup {None}, networkMismatch : BOOLEAN]
  /\ right \in BOOLEAN
  /\ landed \in [Accounts -> SUBSET Steps]
  /\ registered \in [Accounts -> BOOLEAN \cup {None}]
  /\ form \in Runs \cup {None}
  /\ run \in [Runs -> RunRecords]
  /\ pool \subseteq Transactions
  /\ disturbances \in 0 .. MaxDisturbances

(* "Registration complete!" is true of the account the form was submitted   *)
(* for, whichever account the extension has switched to since.              *)
SuccessMeansOnboarded ==
  \A r \in Runs : At(r, "done") => {Register, StartAccrual} \subseteq landed[run[r].account]

(* "only run the steps that have not landed yet" (useAccrual.ts:69-73): a   *)
(* run never dies on a step the contracts refuse because it was done        *)
(* before, unless another run, another device or a transaction that had     *)
(* been lost sight of acted for the account at the same time.               *)
ResumesCleanly == \A r \in Runs : run[r].alone => run[r].error # "contract"

(* Every run ends: neither a network switched away from nor a run of the    *)
(* same account that ended somehow leaves it waiting.                       *)
RunsEnd == \A r \in Runs : Going(r) ~> ~Going(r)
=============================================================================
