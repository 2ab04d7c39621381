-------------------------- MODULE OnboardingProofs --------------------------
(***************************************************************************)
(* Registration, for any accounts, any number of runs, of retries and of   *)
(* disturbances: what a run reports is true of the account it was started  *)
(* for, and no run fails on a step that was done before it.                *)
(*                                                                         *)
(* Neither invariant is inductive.  Success needs that what a run read as  *)
(* landed, and what it has done itself, is still landed (Sound): the user  *)
(* can lose the bot, but not the registration.  A clean resume needs the   *)
(* converse too, that what is left to do has not been done (Undisturbed),  *)
(* which holds while nobody else acts for the account (AloneRuns,          *)
(* AlonePool) and because a transaction in the pool belongs to the step    *)
(* that its run is confirming (Submitted).                                 *)
(***************************************************************************)
EXTENDS Onboarding, TLAPS

Live(q) == q.at \notin {"idle", "done", "failed"}
Executing(q) == q.at \in {"queued", "signing", "confirming"}
Lasting == {Register, StartAccrual}

(* What run q knows and has done is true when M has landed for its account. *)
Sound(q, M) ==
  /\ q.at # "idle" => q.account \in Accounts
  /\ ~Live(q) => \A i \in Steps : q.known[i] = None
  /\ ~Executing(q) => q.step = 0
  /\ Executing(q) => /\ q.step \in Steps /\ q.known[q.step] = FALSE
                     /\ \A i \in Steps : q.known[i] # None
  /\ \A i \in Lasting : q.known[i] = TRUE \/ (Executing(q) /\ i < q.step) => i \in M
  /\ q.at = "done" => Lasting \subseteq M

(* And what it has still to do has not been done.                           *)
Undisturbed(q, M) ==
  q.alone =>
    /\ q.error # "contract"
    /\ Live(q) => \A i \in Steps :
         /\ q.known[i] = TRUE \/ (Executing(q) /\ i < q.step) => i \in M
         /\ q.known[i] = FALSE /\ i >= q.step => i \notin M

OK(q, M) == q \in RunRecords /\ Sound(q, M) /\ Undisturbed(q, M)

RunsOK == \A r \in Runs : OK(run[r], landed[run[r].account])

Submitted ==
  \A t \in pool : t.run # None =>
    At(t.run, "confirming") /\ t.account = run[t.run].account /\ t.step = run[t.run].step

AloneRuns ==
  \A r, q \in Runs : run[r].alone /\ Going(r) /\ Going(q) /\ q # r =>
    run[q].account # run[r].account

AlonePool ==
  \A r \in Runs, t \in pool : run[r].alone /\ Going(r) /\ t.account = run[r].account => t.run = r

(* The parts of the type that no run's record is in.                        *)
SessionTypes ==
  /\ store \in [publicKey : Accounts \cup {None}, networkMismatch : BOOLEAN]
  /\ right \in BOOLEAN
  /\ registered \in [Accounts -> BOOLEAN \cup {None}]
  /\ form \in Runs \cup {None}
  /\ disturbances \in 0 .. MaxDisturbances

PoolTypes == pool \subseteq Transactions
LandedTypes == landed \in [Accounts -> SUBSET Steps]
RunTypes == run \in [Runs -> RunRecords]

IInv ==
  /\ SessionTypes /\ PoolTypes /\ LandedTypes /\ RunTypes
  /\ RunsOK /\ Submitted /\ AloneRuns /\ AlonePool

---------------------------------------------------------------------------
(* The records a run goes through.                                         *)

LEMMA NewRunFields ==
  /\ NewRun \in RunRecords /\ NewRun.at = "idle" /\ NewRun.step = 0 /\ NewRun.error = "none"
  /\ \A i \in Steps : NewRun.known[i] = None
<1>1. [i \in Steps |-> None] \in [Steps -> BOOLEAN \cup {None}] OBVIOUS
<1> QED BY <1>1, SMT DEF NewRun, RunRecords, Errors

LEMMA OverFields ==
  ASSUME NEW q \in RunRecords, NEW at \in {"detecting", "done", "failed"}, NEW error \in Errors
  PROVE  /\ Over(q, at, error) \in RunRecords /\ Over(q, at, error).at = at
         /\ Over(q, at, error).account = q.account /\ Over(q, at, error).step = 0
         /\ Over(q, at, error).error = error /\ Over(q, at, error).alone = q.alone
         /\ \A i \in Steps : Over(q, at, error).known[i] = None
<1>1. [i \in Steps |-> None] \in [Steps -> BOOLEAN \cup {None}] OBVIOUS
<1> QED BY <1>1, Zenon DEF Over, NewRun, RunRecords, Errors

(* A record that ends a run, or sends it back to detection, is true of      *)
(* whatever has landed.                                                     *)
LEMMA FreshRecordIsOK ==
  ASSUME NEW q \in RunRecords, NEW M, q.at \in {"detecting", "failed"}, q.step = 0,
         q.account \in Accounts, \A i \in Steps : q.known[i] = None,
         q.alone => q.error # "contract"
  PROVE  OK(q, M)
<1>1. None # TRUE /\ None # FALSE BY OnboardingAssumption
<1>2. Lasting \subseteq Steps BY DEF Lasting, Steps, Register, StartAccrual
<1>3. ~Executing(q) BY DEF Executing
<1>4. Sound(q, M) BY <1>1, <1>2, <1>3 DEF Sound, Live
<1>5. Undisturbed(q, M) BY <1>1, <1>3 DEF Undisturbed
<1> QED BY <1>4, <1>5 DEF OK

(* How a run that has failed goes on.                                       *)
LEMMA EndedIsOK ==
  ASSUME RunTypes, NEW r \in Runs, NEW M, NEW error \in Errors, run[r].account \in Accounts,
         run[r].alone => error # "contract"
  PROVE  /\ OK(Ended(r, error), M)
         /\ Ended(r, error).account = run[r].account /\ Ended(r, error).alone = run[r].alone
<1>1. run[r] \in RunRecords BY DEF RunTypes
<1>2. Over(run[r], "failed", error) \in RunRecords /\ Over(run[r], "detecting", error) \in RunRecords
  BY <1>1, OverFields
<1>3. CASE error = "network" /\ run[r].failures < MaxRetries
  <2> DEFINE o == Over(run[r], "detecting", error)
             e == [o EXCEPT !.failures = run[r].failures + 1]
  <2>1. run[r].failures + 1 \in Nat BY <1>1, SMT DEF RunRecords
  <2>2. o \in RunRecords /\ o.at = "detecting" /\ o.account = run[r].account /\ o.step = 0
        /\ o.error = error /\ o.alone = run[r].alone /\ \A i \in Steps : o.known[i] = None
    BY <1>1, OverFields, SMTT(20)
  <2>3. Ended(r, error) = e BY <1>3 DEF Ended
  <2> HIDE DEF o
  <2>4. e \in RunRecords /\ e.at = o.at /\ e.account = o.account /\ e.step = o.step
        /\ e.error = o.error /\ e.alone = o.alone /\ e.known = o.known
    BY <2>1, <2>2, Zenon DEF RunRecords
  <2> HIDE DEF e
  <2> QED BY <2>2, <2>3, <2>4, FreshRecordIsOK
<1>4. CASE ~(error = "network" /\ run[r].failures < MaxRetries)
  <2>1. Ended(r, error) = Over(run[r], "failed", error) BY <1>4 DEF Ended
  <2> QED BY <1>1, <2>1, OverFields, FreshRecordIsOK
<1> QED BY <1>3, <1>4

(* The first of the steps that remain.                                      *)
LEMMA MinOfSteps ==
  ASSUME NEW S \in SUBSET Steps, S # {}
  PROVE  Min(S) \in S /\ \A j \in S : Min(S) <= j
<1>1. \A j \in S : j = 1 \/ j = 2 \/ j = 3 BY DEF Steps
<1>2. \E x \in S : \A y \in S : x =< y
  <2>1. CASE 1 \in S BY <1>1, <2>1
  <2>2. CASE 1 \notin S /\ 2 \in S BY <1>1, <2>2
  <2>3. CASE 1 \notin S /\ 2 \notin S BY <1>1, <2>3
  <2> QED BY <2>1, <2>2, <2>3
<1> QED BY <1>2, Zenon DEF Min

(* Going on after step i, when what is known and what comes up to i has     *)
(* landed: the steps that are skipped had landed.                           *)
LEMMA ProceedIsOK ==
  ASSUME NEW q \in RunRecords, NEW i \in 0 .. 3, NEW M, q.account \in Accounts,
         \A j \in Steps : q.known[j] # None,
         \A j \in Lasting : q.known[j] = TRUE \/ j <= i => j \in M,
         q.alone => /\ q.error # "contract"
                    /\ \A j \in Steps : /\ q.known[j] = TRUE \/ j <= i => j \in M
                                        /\ q.known[j] = FALSE /\ j > i => j \notin M
  PROVE  /\ OK(Proceed(q, i), M)
         /\ Proceed(q, i).account = q.account /\ Proceed(q, i).alone = q.alone
<1> DEFINE rest == {j \in Remaining(q) : j > i}
<1>1. Lasting \subseteq Steps BY DEF Lasting, Steps, Register, StartAccrual
<1>2. \A j \in Steps : q.known[j] = TRUE \/ q.known[j] = FALSE
  BY Zenon DEF RunRecords
<1>3. \A j \in Steps : j \in rest <=> q.known[j] = FALSE /\ j > i BY DEF Remaining
<1>4. \A j \in Steps : j \in Nat BY DEF Steps
<1>5. i \in Nat OBVIOUS
<1>6. rest \subseteq Steps BY DEF Remaining
<1>7. CASE rest = {}
  <2>1. Proceed(q, i) = Over(q, "done", "none") BY <1>7 DEF Proceed
  <2> DEFINE x == Over(q, "done", "none")
  <2>2. x \in RunRecords /\ x.at = "done" /\ x.account = q.account /\ x.step = 0
        /\ x.error = "none" /\ x.alone = q.alone /\ \A j \in Steps : x.known[j] = None
    BY OverFields DEF Errors
  <2>3. \A j \in Lasting : j \in M
    <3> TAKE j \in Lasting
    <3>1. j \in Steps /\ j \in Nat BY <1>1, <1>4
    <3>2. CASE j <= i BY <3>2
    <3>3. CASE ~(j <= i)
      <4>1. j > i BY <3>1, <3>3, <1>5, SMT
      <4>2. q.known[j] = TRUE BY <3>1, <4>1, <1>2, <1>3, <1>7
      <4> QED BY <4>2
    <3> QED BY <3>2, <3>3
  <2> HIDE DEF x
  <2>4. None # TRUE BY OnboardingAssumption
  <2>5. ~Live(x) /\ ~Executing(x) BY <2>2 DEF Live, Executing
  <2>6. Sound(x, M) BY <2>2, <2>3, <2>4, <2>5, <1>1 DEF Sound
  <2>7. Undisturbed(x, M) BY <2>2, <2>5 DEF Undisturbed
  <2> QED BY <2>1, <2>2, <2>6, <2>7 DEF OK, x
<1>8. CASE rest # {}
  <2> DEFINE m == Min(rest)
             x == [q EXCEPT !.at = "queued", !.step = m]
  <2>1. Proceed(q, i) = x BY <1>8 DEF Proceed
  <2>2. m \in rest /\ \A j \in rest : m <= j BY <1>6, <1>8, MinOfSteps
  <2>3. m \in Steps /\ m \in Nat /\ q.known[m] = FALSE /\ m > i BY <2>2, <1>3, <1>4, <1>6
  <2>4. \A j \in Steps : j < m => q.known[j] = TRUE \/ j <= i
    <3> SUFFICES ASSUME NEW j \in Steps, j < m, ~(j <= i) PROVE q.known[j] = TRUE OBVIOUS
    <3>1. j > i BY <1>4, <1>5, SMT
    <3>2. j \notin rest BY <2>2, <2>3, <1>4, SMT
    <3> QED BY <3>1, <3>2, <1>2, <1>3
  <2> HIDE DEF m, rest
  <2>5. x \in RunRecords /\ x.at = "queued" /\ x.account = q.account /\ x.step = m
        /\ x.error = q.error /\ x.alone = q.alone /\ x.known = q.known
    BY <2>3, Zenon DEF RunRecords
  <2> HIDE DEF x
  <2>6. Executing(x) /\ Live(x) BY <2>5 DEF Executing, Live
  <2>7. \A j \in Lasting : q.known[j] = TRUE \/ j < m => j \in M BY <2>4, <1>1
  <2>8. Sound(x, M) BY <2>3, <2>5, <2>6, <2>7 DEF Sound
  <2>9. Undisturbed(x, M)
    <3> SUFFICES ASSUME q.alone PROVE Undisturbed(x, M) BY <2>5 DEF Undisturbed
    <3>1. \A j \in Steps : q.known[j] = TRUE \/ j < m => j \in M BY <2>4
    <3>2. \A j \in Steps : q.known[j] = FALSE /\ j >= m => j \notin M
      <4> SUFFICES ASSUME NEW j \in Steps, q.known[j] = FALSE, j >= m PROVE j \notin M OBVIOUS
      <4>1. j > i BY <2>3, <1>4, <1>5, SMT
      <4> QED BY <4>1
    <3> QED BY <2>5, <3>1, <3>2 DEF Undisturbed
  <2> QED BY <2>1, <2>5, <2>8, <2>9 DEF OK
<1> QED BY <1>7, <1>8

(* The other stages of a step, and what detection adds.                     *)
LEMMA StageIsOK ==
  ASSUME NEW q, NEW M, OK(q, M), Executing(q), NEW stage \in {"signing", "confirming"}
  PROVE  LET x == [q EXCEPT !.at = stage] IN
         /\ OK(x, M) /\ x.at = stage
         /\ x.account = q.account /\ x.alone = q.alone /\ x.step = q.step
<1> DEFINE x == [q EXCEPT !.at = stage]
<1>1. x \in RunRecords /\ x.at = stage /\ x.account = q.account /\ x.step = q.step
      /\ x.error = q.error /\ x.alone = q.alone /\ x.known = q.known
  BY Zenon DEF OK, RunRecords
<1> HIDE DEF x
<1>2. Executing(x) /\ Live(x) /\ Live(q) BY <1>1 DEF Executing, Live
<1>3. q.at # "idle" BY DEF Executing
<1>4. Sound(x, M) BY <1>1, <1>2, <1>3 DEF Sound, OK
<1>5. Undisturbed(x, M) BY <1>1, <1>2 DEF Undisturbed, OK
<1> QED BY <1>1, <1>4, <1>5 DEF OK, x

(* A record stays true as long as what lasts stays landed, and nothing at   *)
(* all changes for the account of a run that is alone.                      *)
LEMMA StaysOK ==
  ASSUME NEW q, NEW M, NEW N, OK(q, M), q.at # "idle" => \A i \in Lasting : i \in M => i \in N,
         q.alone /\ Live(q) => N = M
  PROVE  OK(q, N)
<1>1. Lasting \subseteq Steps /\ None # TRUE
  <2>1. Lasting \subseteq Steps BY DEF Lasting, Steps, Register, StartAccrual
  <2>2. None # TRUE BY OnboardingAssumption
  <2> QED BY <2>1, <2>2
<1>2. Sound(q, N)
  <2>1. CASE q.at = "idle"
    <3>1. ~Live(q) /\ ~Executing(q) BY <2>1 DEF Live, Executing
    <3> QED BY <2>1, <3>1, <1>1 DEF OK, Sound
  <2>2. CASE q.at # "idle"
    BY <2>2 DEF OK, Sound
  <2> QED BY <2>1, <2>2
<1>3. Undisturbed(q, N) BY DEF OK, Undisturbed
<1> QED BY <1>2, <1>3 DEF OK

LEMMA LiveHasAccount ==
  ASSUME IInv, NEW r \in Runs, run[r].at # "idle"
  PROVE  run[r].account \in Accounts /\ run[r] \in RunRecords
BY DEF IInv, RunsOK, OK, Sound

LEMMA RunIsANumber == None \notin Runs
BY OnboardingAssumption DEF Runs

---------------------------------------------------------------------------
(* One run moves.                                                          *)

(* The runs stay true when one of them moves to a record that is, and what  *)
(* it does for its account disturbs no run that is alone.                   *)
LEMMA OneRunMoves ==
  ASSUME IInv, NEW r \in Runs, NEW x, Going(r),
         run' = [run EXCEPT ![r] = x], x.account = run[r].account, x.alone => run[r].alone,
         OK(x, landed'[x.account]),
         \A a \in Accounts : \A i \in Lasting : i \in landed[a] => i \in landed'[a],
         \A q \in Runs \ {r} : run[q].alone /\ Going(q) =>
            landed'[run[q].account] = landed[run[q].account]
  PROVE  RunTypes' /\ RunsOK' /\ AloneRuns'
<1>1. run \in [Runs -> RunRecords] BY DEF IInv, RunTypes
<1>2. x \in RunRecords BY DEF OK
<1>3. run' \in [Runs -> RunRecords] /\ run'[r] = x /\ \A q \in Runs \ {r} : run'[q] = run[q]
  BY <1>1, <1>2
<1>4. RunsOK'
  <2> SUFFICES ASSUME NEW q \in Runs PROVE OK(run'[q], landed'[run'[q].account])
    BY DEF RunsOK
  <2>1. CASE q = r BY <2>1, <1>3
  <2>2. CASE q # r
    <3>1. run'[q] = run[q] BY <2>2, <1>3
    <3>2. OK(run[q], landed[run[q].account]) BY DEF IInv, RunsOK
    <3>3. run[q].at # "idle" => \A i \in Lasting :
            i \in landed[run[q].account] => i \in landed'[run[q].account]
      BY LiveHasAccount
    <3>4. run[q].alone /\ Live(run[q]) => landed'[run[q].account] = landed[run[q].account]
      BY <2>2 DEF Going, Live
    <3> QED BY <3>1, <3>2, <3>3, <3>4, StaysOK
  <2> QED BY <2>1, <2>2
<1>5. AloneRuns'
  <2> SUFFICES ASSUME NEW p \in Runs, NEW q \in Runs, run'[p].alone, Live(run'[p]),
                      Live(run'[q]), q # p
               PROVE  run'[q].account # run'[p].account
    BY DEF AloneRuns, Going, Live
  <2>1. run'[p].account = run[p].account /\ run'[q].account = run[q].account BY <1>3
  <2>2. run[p].alone BY <1>3
  <2>3. Going(p) /\ Going(q) BY <1>3 DEF Going, Live
  <2> QED BY <2>1, <2>2, <2>3 DEF IInv, AloneRuns
<1> QED BY <1>3, <1>4, <1>5 DEF RunTypes

(* The pool stays in step with the runs when the transactions of the one    *)
(* that moves have left it.                                                 *)
LEMMA PoolOfOthers ==
  ASSUME IInv, NEW r \in Runs, NEW x, Going(r),
         run' = [run EXCEPT ![r] = x], x.account = run[r].account, x.alone => run[r].alone,
         pool' \subseteq pool, \A t \in pool' : t.run # r
  PROVE  PoolTypes' /\ Submitted' /\ AlonePool'
<1>1. run \in [Runs -> RunRecords] BY DEF IInv, RunTypes
<1>2. run'[r] = x /\ \A q \in Runs \ {r} : run'[q] = run[q] BY <1>1
<1>3. pool \subseteq Transactions BY DEF IInv, PoolTypes
<1>4. Submitted'
  <2> SUFFICES ASSUME NEW t \in pool', t.run # None
               PROVE  /\ run'[t.run].at = "confirming" /\ t.account = run'[t.run].account
                      /\ t.step = run'[t.run].step
    BY DEF Submitted, At
  <2>1. t \in pool /\ t.run \in Runs BY <1>3 DEF Transactions
  <2>2. run'[t.run] = run[t.run] BY <2>1, <1>2
  <2> QED BY <2>1, <2>2 DEF IInv, Submitted, At
<1>5. AlonePool'
  <2> SUFFICES ASSUME NEW p \in Runs, NEW t \in pool', run'[p].alone, Live(run'[p]),
                      t.account = run'[p].account
               PROVE  t.run = p
    BY DEF AlonePool, Going, Live
  <2>1. run'[p].account = run[p].account /\ run[p].alone BY <1>2
  <2>2. Going(p) BY <1>2 DEF Going, Live
  <2> QED BY <2>1, <2>2 DEF IInv, AlonePool
<1> QED BY <1>3, <1>4, <1>5 DEF PoolTypes

(* Only a run that is confirming has a transaction in the pool.             *)
LEMMA NothingInThePool ==
  ASSUME IInv, NEW r \in Runs, run[r].at # "confirming"
  PROVE  \A t \in pool : t.run # r
BY RunIsANumber DEF IInv, Submitted, At

(* A run that nobody has disturbed has its next step accepted.              *)
LEMMA AcceptedWhenAlone ==
  ASSUME IInv, NEW r \in Runs, Executing(run[r]), run[r].alone
  PROVE  Accepts(run[r].account, run[r].step)
<1> DEFINE M == landed[run[r].account]
<1>1. OK(run[r], M) BY DEF IInv, RunsOK
<1>2. Live(run[r]) BY DEF Executing, Live
<1>3. run[r].step \in Steps /\ run[r].known[run[r].step] = FALSE BY <1>1 DEF OK, Sound
<1>4. run[r].step \in {1, 2, 3} BY <1>3 DEF Steps
<1>5. run[r].step \notin M BY <1>1, <1>2, <1>3, <1>4 DEF OK, Undisturbed
<1>6. \A i \in Steps : i < run[r].step => i \in M BY <1>1, <1>2 DEF OK, Undisturbed
<1> HIDE DEF M
<1>7. CASE run[r].step = 1
  BY <1>5, <1>7 DEF Accepts, Register, Mint, StartAccrual, M
<1>8. CASE run[r].step = 2
  BY <1>5, <1>8 DEF Accepts, Register, Mint, StartAccrual, M
<1>9. CASE run[r].step = 3
  <2>1. 1 \in M /\ 2 \in M BY <1>6, <1>9 DEF Steps
  <2> QED BY <2>1, <1>9 DEF Accepts, Register, Mint, StartAccrual, M
<1> QED BY <1>4, <1>7, <1>8, <1>9

(* A run that fails, or goes back to detection.                             *)
LEMMA FailKeepsInvariant ==
  ASSUME IInv, NEW r \in Runs, Going(r), NEW error \in Errors,
         run[r].alone => error # "contract", Fail(r, error), landed' = landed,
         pool' \subseteq pool, \A t \in pool' : t.run # r, SessionTypes'
  PROVE  IInv'
<1>1. run[r].account \in Accounts BY LiveHasAccount DEF Going
<1> DEFINE x == Ended(r, error)
<1>2. OK(x, landed'[x.account]) /\ x.account = run[r].account /\ x.alone = run[r].alone
  BY <1>1, EndedIsOK DEF IInv
<1>3. run' = [run EXCEPT ![r] = x] BY DEF Fail
<1> HIDE DEF x
<1>4. RunTypes' /\ RunsOK' /\ AloneRuns' BY <1>2, <1>3, OneRunMoves
<1>5. PoolTypes' /\ Submitted' /\ AlonePool' BY <1>2, <1>3, PoolOfOthers
<1> QED BY <1>4, <1>5 DEF IInv, LandedTypes

---------------------------------------------------------------------------
(* The steps, one lemma for each that moves a run.                         *)

(* A step of detection.                                                     *)
LEMMA DetectKeepsInvariant ==
  ASSUME IInv, NEW r \in Runs, NEW i \in Steps, Detect(r, i)
  PROVE  IInv'
<1> DEFINE M == landed[run[r].account]
           b == i \in M
           q == [run[r] EXCEPT !.known[i] = b]
           x == IF \A j \in Steps : q.known[j] # None THEN Proceed(q, 0) ELSE q
<1>1. run[r].at = "detecting" BY DEF Detect, At
<1>2. run[r] \in RunRecords /\ run[r].account \in Accounts BY <1>1, LiveHasAccount
<1>3. run' = [run EXCEPT ![r] = x] BY DEF Detect
<1>4. OK(run[r], M) BY DEF IInv, RunsOK
<1>5. Going(r) /\ Live(run[r]) /\ ~Executing(run[r]) BY <1>1 DEF Going, Live, Executing
<1>6. b \in BOOLEAN OBVIOUS
<1> HIDE DEF M
<1>7. b = TRUE <=> i \in M OBVIOUS
<1>8. b = FALSE <=> i \notin M OBVIOUS
<1> HIDE DEF b
<1>9. /\ q \in RunRecords /\ q.at = run[r].at /\ q.account = run[r].account
      /\ q.step = run[r].step /\ q.error = run[r].error /\ q.alone = run[r].alone
      /\ q.known[i] = b /\ \A j \in Steps : j # i => q.known[j] = run[r].known[j]
  BY <1>2, <1>6, Zenon DEF RunRecords
<1> HIDE DEF q
<1>10. q.step = 0 BY <1>4, <1>5, <1>9 DEF OK, Sound
<1>11. Live(q) /\ ~Executing(q) /\ q.at # "idle" /\ q.at # "done"
  BY <1>1, <1>9 DEF Live, Executing
<1>12. Lasting \subseteq Steps BY DEF Lasting, Steps, Register, StartAccrual
<1>13. \A j \in Lasting : q.known[j] = TRUE => j \in M
  BY <1>4, <1>7, <1>9, <1>12 DEF OK, Sound
<1>14. q.alone =>
         /\ q.error # "contract"
         /\ \A j \in Steps : /\ q.known[j] = TRUE => j \in M
                             /\ q.known[j] = FALSE => j \notin M
  <2> SUFFICES ASSUME q.alone
               PROVE  /\ q.error # "contract"
                      /\ \A j \in Steps : /\ q.known[j] = TRUE => j \in M
                                          /\ q.known[j] = FALSE => j \notin M
    OBVIOUS
  <2>1. run[r].alone BY <1>9
  <2>2. \A j \in Steps : j >= 0 BY SMT DEF Steps
  <2>3. \A j \in Steps : /\ run[r].known[j] = TRUE => j \in M
                         /\ run[r].known[j] = FALSE => j \notin M
    BY <2>1, <2>2, <1>4, <1>5, <1>9, <1>10 DEF OK, Undisturbed
  <2>4. q.error # "contract" BY <2>1, <1>4, <1>9 DEF OK, Undisturbed
  <2>5. \A j \in Steps : /\ q.known[j] = TRUE => j \in M
                         /\ q.known[j] = FALSE => j \notin M
    BY <2>3, <1>7, <1>8, <1>9
  <2> QED BY <2>4, <2>5
<1>15. OK(x, M) /\ x.account = run[r].account /\ x.alone = run[r].alone
  <2>1. CASE \A j \in Steps : q.known[j] # None
    <3>1. x = Proceed(q, 0) BY <2>1
    <3>2. \A j \in Steps : ~(j <= 0) BY SMT DEF Steps
    <3>3. 0 \in 0 .. 3 OBVIOUS
    <3>4. \A j \in Lasting : q.known[j] = TRUE \/ j <= 0 => j \in M BY <3>2, <1>12, <1>13
    <3>5. q.alone => /\ q.error # "contract"
                     /\ \A j \in Steps : /\ q.known[j] = TRUE \/ j <= 0 => j \in M
                                         /\ q.known[j] = FALSE /\ j > 0 => j \notin M
      <4> SUFFICES ASSUME q.alone
                   PROVE  /\ q.error # "contract"
                          /\ \A j \in Steps : /\ q.known[j] = TRUE \/ j <= 0 => j \in M
                                              /\ q.known[j] = FALSE /\ j > 0 => j \notin M
        OBVIOUS
      <4>1. \A j \in Steps : /\ q.known[j] = TRUE => j \in M
                             /\ q.known[j] = FALSE => j \notin M
        BY <1>14
      <4> QED BY <4>1, <3>2, <1>14
    <3>6. q.account \in Accounts /\ q \in RunRecords BY <1>2, <1>9
    <3>7. OK(Proceed(q, 0), M) /\ Proceed(q, 0).account = q.account
          /\ Proceed(q, 0).alone = q.alone
      BY <2>1, <3>3, <3>4, <3>5, <3>6, ProceedIsOK
    <3> QED BY <3>1, <3>7, <1>9
  <2>2. CASE ~(\A j \in Steps : q.known[j] # None)
    <3>1. x = q BY <2>2
    <3>2. Sound(q, M) BY <1>2, <1>9, <1>10, <1>11, <1>13 DEF Sound
    <3>3. Undisturbed(q, M)
      <4> SUFFICES ASSUME q.alone PROVE Undisturbed(q, M) BY DEF Undisturbed
      <4>1. q.error # "contract" BY <1>14
      <4>2. \A j \in Steps : /\ q.known[j] = TRUE => j \in M
                             /\ q.known[j] = FALSE => j \notin M
        BY <1>14
      <4> QED BY <4>1, <4>2, <1>11 DEF Undisturbed
    <3> QED BY <3>1, <3>2, <3>3, <1>9 DEF OK
  <2> QED BY <2>1, <2>2
<1> HIDE DEF x
<1>16. landed' = landed /\ pool' = pool BY DEF Detect
<1>17. OK(x, landed'[x.account]) BY <1>15, <1>16 DEF M
<1>18. RunTypes' /\ RunsOK' /\ AloneRuns' BY <1>3, <1>5, <1>15, <1>16, <1>17, OneRunMoves
<1>19. \A t \in pool' : t.run # r BY <1>1, <1>16, NothingInThePool
<1>20. PoolTypes' /\ Submitted' /\ AlonePool'
  BY <1>3, <1>5, <1>15, <1>16, <1>19, PoolOfOthers
<1>21. SessionTypes' BY DEF Detect, sessionVars, IInv, SessionTypes
<1> QED BY <1>16, <1>18, <1>20, <1>21 DEF IInv, LandedTypes

(* The simulation of a step.                                                *)
LEMMA SimulateKeepsInvariant ==
  ASSUME IInv, NEW r \in Runs, Simulate(r)
  PROVE  IInv'
<1>1. run[r].at = "queued" BY DEF Simulate, At
<1>2. Going(r) /\ Executing(run[r]) BY <1>1 DEF Going, Executing
<1>3. landed' = landed /\ pool' = pool BY DEF Simulate
<1>4. SessionTypes' BY DEF Simulate, sessionVars, IInv, SessionTypes
<1>5. \A t \in pool : t.run # r BY <1>1, NothingInThePool
<1>6. ASSUME Fail(r, "mismatch") PROVE IInv'
  <2>1. "mismatch" \in Errors BY DEF Errors
  <2> QED BY <1>2, <1>3, <1>4, <1>5, <1>6, <2>1, FailKeepsInvariant
<1>7. ASSUME ~Accepts(Account(r), run[r].step), Fail(r, "contract") PROVE IInv'
  <2>1. ~run[r].alone BY <1>2, <1>7, AcceptedWhenAlone DEF Account
  <2>2. "contract" \in Errors BY DEF Errors
  <2> QED BY <1>2, <1>3, <1>4, <1>5, <1>7, <2>1, <2>2, FailKeepsInvariant
<1>8. ASSUME run' = [run EXCEPT ![r].at = "signing"] PROVE IInv'
  <2> DEFINE x == [run[r] EXCEPT !.at = "signing"]
  <2>1. run' = [run EXCEPT ![r] = x] BY <1>8
  <2>2. OK(run[r], landed[run[r].account]) BY DEF IInv, RunsOK
  <2>3. OK(x, landed[run[r].account]) /\ x.account = run[r].account /\ x.alone = run[r].alone
    BY <2>2, <1>2, StageIsOK
  <2> HIDE DEF x
  <2>4. RunTypes' /\ RunsOK' /\ AloneRuns' BY <2>1, <2>3, <1>2, <1>3, OneRunMoves
  <2>5. PoolTypes' /\ Submitted' /\ AlonePool' BY <2>1, <2>3, <1>2, <1>3, <1>5, PoolOfOthers
  <2> QED BY <2>4, <2>5, <1>3, <1>4 DEF IInv, LandedTypes
<1> QED BY <1>6, <1>7, <1>8 DEF Simulate

(* The signature, and the submission.                                       *)
LEMMA SignKeepsInvariant ==
  ASSUME IInv, NEW r \in Runs, Sign(r)
  PROVE  IInv'
<1>1. run[r].at = "signing" BY DEF Sign, At
<1>2. Going(r) /\ Executing(run[r]) BY <1>1 DEF Going, Executing
<1>3. landed' = landed BY DEF Sign
<1>4. SessionTypes'
  <2>1. (~right) \in BOOLEAN OBVIOUS
  <2>2. store' \in [publicKey : Accounts \cup {None}, networkMismatch : BOOLEAN]
    BY <2>1, Zenon DEF Sign, IInv, SessionTypes
  <2> QED BY <2>2 DEF Sign, IInv, SessionTypes
<1>5. \A t \in pool : t.run # r BY <1>1, NothingInThePool
<1>6. CASE right
  <2> DEFINE x == [run[r] EXCEPT !.at = "confirming"]
             t == [account |-> Account(r), step |-> run[r].step, run |-> r]
  <2>1. run' = [run EXCEPT ![r] = x] BY <1>6 DEF Sign
  <2>2. OK(run[r], landed[run[r].account]) /\ run \in [Runs -> RunRecords]
    BY DEF IInv, RunsOK, RunTypes
  <2>3. OK(x, landed[run[r].account]) /\ x.account = run[r].account /\ x.alone = run[r].alone
        /\ x.step = run[r].step /\ x.at = "confirming"
    BY <2>2, <1>2, StageIsOK
  <2>4. t.account = run[r].account /\ t.step = run[r].step /\ t.run = r BY DEF Account
  <2>5. run[r].account \in Accounts /\ run[r].step \in Steps
    BY <2>2, <1>2, <1>1 DEF OK, Sound
  <2>6. t \in Transactions BY <2>5 DEF Transactions, Account
  <2>7. pool' = pool \cup {t} BY <1>6 DEF Sign
  <2> HIDE DEF x, t
  <2>8. RunTypes' /\ RunsOK' /\ AloneRuns' BY <2>1, <2>3, <1>2, <1>3, OneRunMoves
  <2>9. run'[r] = x /\ \A q \in Runs \ {r} : run'[q] = run[q] BY <2>1, <2>2
  <2>10. Submitted'
    <3> SUFFICES ASSUME NEW s \in pool', s.run # None
                 PROVE  /\ run'[s.run].at = "confirming" /\ s.account = run'[s.run].account
                        /\ s.step = run'[s.run].step
      BY DEF Submitted, At
    <3>1. CASE s = t BY <3>1, <2>3, <2>4, <2>9
    <3>2. CASE s \in pool
      <4>1. s.run \in Runs \ {r} BY <3>2, <1>5 DEF IInv, PoolTypes, Transactions
      <4> QED BY <4>1, <3>2, <2>9 DEF IInv, Submitted, At
    <3> QED BY <3>1, <3>2, <2>7
  <2>11. AlonePool'
    <3> SUFFICES ASSUME NEW p \in Runs, NEW s \in pool', run'[p].alone, Live(run'[p]),
                        s.account = run'[p].account
                 PROVE  s.run = p
      BY DEF AlonePool, Going, Live
    <3>1. run'[p].account = run[p].account /\ run[p].alone BY <2>3, <2>9
    <3>2. Going(p) BY <1>2, <2>9 DEF Going, Live
    <3>3. CASE s = t
      <4>1. run[p].account = run[r].account BY <3>1, <3>3, <2>4
      <4>2. p = r BY <4>1, <3>1, <3>2, <1>2 DEF IInv, AloneRuns
      <4> QED BY <4>2, <3>3, <2>4
    <3>4. CASE s \in pool BY <3>1, <3>2, <3>4 DEF IInv, AlonePool
    <3> QED BY <3>3, <3>4, <2>7
  <2>12. PoolTypes' BY <2>6, <2>7 DEF IInv, PoolTypes
  <2> QED BY <2>8, <2>10, <2>11, <2>12, <1>3, <1>4 DEF IInv, LandedTypes
<1>7. CASE ~right
  <2>1. "mismatch" \in Errors BY DEF Errors
  <2>2. Fail(r, "mismatch") /\ pool' = pool BY <1>7 DEF Sign
  <2> QED BY <1>2, <1>3, <1>4, <1>5, <2>1, <2>2, FailKeepsInvariant
<1> QED BY <1>6, <1>7

(* The other transactions of the pool belong to other runs.                 *)
LEMMA OneTransactionPerRun ==
  ASSUME IInv, NEW t \in pool, t.run # None
  PROVE  /\ t.run \in Runs /\ Going(t.run) /\ Executing(run[t.run])
         /\ t.account = run[t.run].account /\ t.step = run[t.run].step
         /\ \A s \in pool \ {t} : s.run # t.run
<1>1. t \in Transactions /\ pool \subseteq Transactions BY DEF IInv, PoolTypes
<1>2. t.run \in Runs BY <1>1 DEF Transactions
<1>3. /\ run[t.run].at = "confirming"
      /\ t.account = run[t.run].account /\ t.step = run[t.run].step
  BY DEF IInv, Submitted, At
<1>4. ASSUME NEW s \in pool \ {t}, s.run = t.run PROVE FALSE
  <2>1. s.account = t.account /\ s.step = t.step
    BY <1>3, <1>4 DEF IInv, Submitted
  <2>2. s = [account |-> s.account, step |-> s.step, run |-> s.run]
        /\ t = [account |-> t.account, step |-> t.step, run |-> t.run]
    BY <1>1, <1>4 DEF Transactions
  <2> QED BY <2>1, <2>2, <1>4
<1> QED BY <1>2, <1>3, <1>4 DEF Going, Executing

(* A transaction is included.                                               *)
LEMMA IncludeKeepsInvariant ==
  ASSUME IInv, NEW t \in pool, Include(t)
  PROVE  IInv'
<1>1. t \in Transactions /\ landed \in [Accounts -> SUBSET Steps]
  BY DEF IInv, PoolTypes, LandedTypes
<1>2. t.account \in Accounts /\ t.step \in Steps BY <1>1 DEF Transactions
<1>3. pool' = pool \ {t} BY DEF Include
<1>4. SessionTypes' BY DEF Include, sessionVars, IInv, SessionTypes
<1>5. /\ LandedTypes'
      /\ \A a \in Accounts : landed[a] \subseteq landed'[a]
      /\ \A a \in Accounts \ {t.account} : landed'[a] = landed[a]
  <2>1. CASE Accepts(t.account, t.step)
    <3>1. landed' = [landed EXCEPT ![t.account] = @ \cup {t.step}]
      BY <2>1 DEF Include, Lands
    <3> QED BY <3>1, <1>1, <1>2 DEF LandedTypes
  <2>2. CASE ~Accepts(t.account, t.step)
    <3>1. landed' = landed BY <2>2 DEF Include
    <3> QED BY <3>1 DEF IInv, LandedTypes
  <2> QED BY <2>1, <2>2
<1>6. \A q \in Runs : run[q].alone /\ Going(q) /\ q # t.run =>
         run[q].account \in Accounts \ {t.account}
  <2> TAKE q \in Runs
  <2> HAVE run[q].alone /\ Going(q) /\ q # t.run
  <2>1. run[q].account # t.account BY DEF IInv, AlonePool
  <2>2. run[q].account \in Accounts BY LiveHasAccount DEF Going
  <2> QED BY <2>1, <2>2
<1>7. CASE t.run = None
  <2>1. run' = run BY <1>7 DEF Include
  <2>2. RunsOK'
    <3> SUFFICES ASSUME NEW q \in Runs PROVE OK(run[q], landed'[run[q].account])
      BY <2>1 DEF RunsOK
    <3>1. OK(run[q], landed[run[q].account]) BY DEF IInv, RunsOK
    <3>2. run[q].at # "idle" => \A i \in Lasting :
            i \in landed[run[q].account] => i \in landed'[run[q].account]
      BY <1>5, LiveHasAccount
    <3>3. run[q].alone /\ Live(run[q]) => landed'[run[q].account] = landed[run[q].account]
      BY <1>5, <1>6, <1>7, RunIsANumber DEF Going, Live
    <3> QED BY <3>1, <3>2, <3>3, StaysOK
  <2>3. PoolTypes' /\ Submitted' /\ AlonePool' /\ AloneRuns' /\ RunTypes'
    BY <1>3, <2>1
    DEF IInv, PoolTypes, Submitted, AlonePool, AloneRuns, RunTypes, At, Going
  <2> QED BY <1>4, <1>5, <2>2, <2>3 DEF IInv
<1>8. CASE t.run # None
  <2> DEFINE r == t.run
  <2>1. /\ r \in Runs /\ Going(r) /\ Executing(run[r])
        /\ t.account = run[r].account /\ t.step = run[r].step
        /\ \A s \in pool \ {t} : s.run # r
    BY <1>8, OneTransactionPerRun
  <2>2. \A s \in pool' : s.run # r BY <2>1, <1>3
  <2>3. pool' \subseteq pool BY <1>3
  <2>4. OK(run[r], landed[t.account]) /\ run[r] \in RunRecords
    BY <2>1 DEF IInv, RunsOK, OK
  <2> HIDE DEF r
  <2>5. CASE ~Accepts(t.account, t.step)
    <3>1. landed' = landed /\ Fail(r, "contract") BY <1>8, <2>5 DEF Include, r
    <3>2. ~run[r].alone BY <2>1, <2>5, AcceptedWhenAlone
    <3>3. "contract" \in Errors BY DEF Errors
    <3> QED BY <2>1, <2>2, <2>3, <3>1, <3>2, <3>3, <1>4, FailKeepsInvariant
  <2>6. CASE Accepts(t.account, t.step)
    <3> DEFINE M == landed[t.account]
               N == landed'[t.account]
               q == run[r]
               x == Proceed(q, t.step)
    <3>1. run' = [run EXCEPT ![r] = x] BY <1>8, <2>6 DEF Include, r
    <3>2. landed' = [landed EXCEPT ![t.account] = @ \cup {t.step}]
      BY <2>6 DEF Include, Lands
    <3>3. N = M \cup {t.step} BY <3>2, <1>1, <1>2
    <3>4. t.step \in 0 .. 3 /\ \A j \in Steps : j <= t.step => j < t.step \/ j = t.step
      BY <1>2, SMT DEF Steps
    <3>5. \A j \in Steps : j > t.step => j >= t.step /\ j # t.step
      BY <1>2, SMT DEF Steps
    <3>6. Lasting \subseteq Steps BY DEF Lasting, Steps, Register, StartAccrual
    <3>7. Live(q) BY <2>1 DEF Executing, Live
    <3> HIDE DEF M, N, q, x
    <3>8. q \in RunRecords /\ OK(q, M) /\ Executing(q) /\ t.step = q.step
          /\ q.account = t.account
      BY <2>1, <2>4 DEF M, q
    <3>9. \A j \in Steps : q.known[j] # None BY <3>8 DEF OK, Sound
    <3>10. \A j \in Lasting : q.known[j] = TRUE \/ j <= t.step => j \in N
      <4>1. \A j \in Lasting : q.known[j] = TRUE \/ j < t.step => j \in M
        BY <3>8 DEF OK, Sound
      <4> QED BY <4>1, <3>3, <3>4, <3>6
    <3>11. q.alone =>
             /\ q.error # "contract"
             /\ \A j \in Steps : /\ q.known[j] = TRUE \/ j <= t.step => j \in N
                                 /\ q.known[j] = FALSE /\ j > t.step => j \notin N
      <4> SUFFICES ASSUME q.alone
                   PROVE  /\ q.error # "contract"
                          /\ \A j \in Steps :
                               /\ q.known[j] = TRUE \/ j <= t.step => j \in N
                               /\ q.known[j] = FALSE /\ j > t.step => j \notin N
        OBVIOUS
      <4>1. q.error # "contract" BY <3>8 DEF OK, Undisturbed
      <4>2. \A j \in Steps : /\ q.known[j] = TRUE \/ j < t.step => j \in M
                             /\ q.known[j] = FALSE /\ j >= t.step => j \notin M
        BY <3>7, <3>8 DEF OK, Undisturbed
      <4>3. \A j \in Steps : q.known[j] = TRUE \/ j <= t.step => j \in N
        BY <4>2, <3>3, <3>4
      <4>4. \A j \in Steps : q.known[j] = FALSE /\ j > t.step => j \notin N
        BY <4>2, <3>3, <3>5
      <4> QED BY <4>1, <4>3, <4>4
    <3>12. OK(x, N) /\ x.account = q.account /\ x.alone = q.alone
      BY <1>2, <3>4, <3>8, <3>9, <3>10, <3>11, ProceedIsOK DEF x
    <3>13. OK(x, landed'[x.account]) BY <3>8, <3>12 DEF N
    <3>14. \A p \in Runs \ {r} : run[p].alone /\ Going(p) =>
             landed'[run[p].account] = landed[run[p].account]
      BY <1>5, <1>6 DEF r
    <3>15. x.account = run[r].account /\ x.alone = run[r].alone BY <3>12 DEF q
    <3>16. \A a \in Accounts : \A i \in Lasting : i \in landed[a] => i \in landed'[a]
      BY <1>5
    <3>17. RunTypes' /\ RunsOK' /\ AloneRuns'
      BY <2>1, <3>1, <3>13, <3>14, <3>15, <3>16, OneRunMoves
    <3>18. PoolTypes' /\ Submitted' /\ AlonePool'
      BY <2>1, <2>2, <2>3, <3>1, <3>15, PoolOfOthers
    <3> QED BY <1>4, <1>5, <3>17, <3>18 DEF IInv
  <2> QED BY <2>5, <2>6
<1> QED BY <1>7, <1>8

(* A transaction expires.                                                   *)
LEMMA ExpireKeepsInvariant ==
  ASSUME IInv, NEW t \in pool, Expire(t)
  PROVE  IInv'
<1>1. pool' = pool \ {t} /\ landed' = landed BY DEF Expire
<1>2. SessionTypes' BY DEF Expire, sessionVars, IInv, SessionTypes
<1>3. CASE t.run = None
  <2>1. run' = run BY <1>3 DEF Expire
  <2> QED BY <1>1, <1>2, <2>1
          DEF IInv, PoolTypes, LandedTypes, RunTypes, RunsOK, Submitted, AlonePool, AloneRuns,
              At, Going
<1>4. CASE t.run # None
  <2>1. t.run \in Runs /\ Going(t.run) /\ \A s \in pool \ {t} : s.run # t.run
    BY <1>4, OneTransactionPerRun
  <2>2. Fail(t.run, "timeout") BY <1>4 DEF Expire
  <2>3. "timeout" \in Errors BY DEF Errors
  <2> QED BY <1>1, <1>2, <2>1, <2>2, <2>3, FailKeepsInvariant
<1> QED BY <1>3, <1>4

LEMMA DisturbanceType ==
  ASSUME IInv, Disturbance PROVE disturbances' \in 0 .. MaxDisturbances
BY OnboardingAssumption, SMT DEF IInv, SessionTypes, Disturbance

(* A read, the simulation or the signature fails.                           *)
LEMMA TroubleKeepsInvariant ==
  ASSUME IInv, NEW r \in Runs, Trouble(r)
  PROVE  IInv'
<1>1. landed' = landed /\ pool' = pool BY DEF Trouble
<1>2. SessionTypes' BY DisturbanceType DEF Trouble, sessionVars, IInv, SessionTypes
<1>3. run[r].at \in {"detecting", "queued", "signing"} BY DEF Trouble, At
<1>4. Going(r) /\ run[r].at # "confirming" BY <1>3 DEF Going
<1>5. \A t \in pool : t.run # r BY <1>4, NothingInThePool
<1>6. PICK error \in {"network", "rejected"} : Fail(r, error) BY DEF Trouble
<1>7. error \in Errors /\ error # "contract" BY DEF Errors
<1> QED BY <1>1, <1>2, <1>4, <1>5, <1>6, <1>7, FailKeepsInvariant

(* A run loses track of its transaction, which stays in the pool.           *)
LEMMA LoseTrackKeepsInvariant ==
  ASSUME IInv, NEW r \in Runs, LoseTrack(r)
  PROVE  IInv'
<1>1. landed' = landed BY DEF LoseTrack
<1>2. SessionTypes' BY DisturbanceType DEF LoseTrack, sessionVars, IInv, SessionTypes
<1>3. Going(r) /\ run[r].at # "idle" BY DEF LoseTrack, At, Going
<1>4. PICK error \in {"network", "timeout"} :
        run' = [run EXCEPT ![r] = [Ended(r, error) EXCEPT !.alone = FALSE]]
  BY DEF LoseTrack
<1> DEFINE e == Ended(r, error)
           x == [e EXCEPT !.alone = FALSE]
           M == landed[run[r].account]
<1>5. error \in Errors /\ error # "contract" BY DEF Errors
<1>6. OK(e, M) /\ e.account = run[r].account
  BY <1>3, <1>5, EndedIsOK, LiveHasAccount DEF IInv
<1> HIDE DEF e, M
<1>7. x \in RunRecords /\ x.at = e.at /\ x.account = e.account /\ x.step = e.step
      /\ x.known = e.known /\ x.alone = FALSE
  BY <1>6, Zenon DEF OK, RunRecords
<1> HIDE DEF x
<1>8. run' = [run EXCEPT ![r] = x] BY <1>4 DEF x, e
<1>9. OK(x, M)
  <2>1. (Live(x) <=> Live(e)) /\ (Executing(x) <=> Executing(e)) BY <1>7 DEF Live, Executing
  <2>2. Sound(x, M) BY <1>6, <1>7, <2>1 DEF OK, Sound
  <2>3. Undisturbed(x, M) BY <1>7 DEF Undisturbed
  <2> QED BY <1>7, <2>2, <2>3 DEF OK
<1>10. OK(x, landed'[x.account]) /\ x.account = run[r].account
  BY <1>1, <1>6, <1>7, <1>9 DEF M
<1>11. RunTypes' /\ RunsOK' /\ AloneRuns' BY <1>1, <1>3, <1>7, <1>8, <1>10, OneRunMoves
<1>12. pool \subseteq Transactions /\ run \in [Runs -> RunRecords]
  BY DEF IInv, PoolTypes, RunTypes
<1>13. \A t \in pool' : \E s \in pool : /\ t \in Transactions /\ t.account = s.account
                                        /\ t.step = s.step
                                        /\ IF s.run = r THEN t.run = None ELSE t.run = s.run
  <2> SUFFICES ASSUME NEW s \in pool
               PROVE  LET t == IF s.run = r THEN [s EXCEPT !.run = None] ELSE s IN
                      /\ t \in Transactions /\ t.account = s.account /\ t.step = s.step
                      /\ IF s.run = r THEN t.run = None ELSE t.run = s.run
    BY DEF LoseTrack
  <2>1. s \in Transactions BY <1>12
  <2> QED BY <2>1, Zenon DEF Transactions
<1>14. run'[r] = x /\ \A q \in Runs \ {r} : run'[q] = run[q] BY <1>8, <1>12
<1>15. Submitted'
  <2> SUFFICES ASSUME NEW t \in pool', t.run # None
               PROVE  /\ run'[t.run].at = "confirming" /\ t.account = run'[t.run].account
                      /\ t.step = run'[t.run].step
    BY DEF Submitted, At
  <2>1. PICK s \in pool : /\ t.account = s.account /\ t.step = s.step
                          /\ t.run = s.run /\ s.run # r
    BY <1>13
  <2>2. s.run \in Runs \ {r} BY <2>1, <1>12 DEF Transactions
  <2> QED BY <2>1, <2>2, <1>14 DEF IInv, Submitted, At
<1>16. AlonePool'
  <2> SUFFICES ASSUME NEW p \in Runs, NEW t \in pool', run'[p].alone, Live(run'[p]),
                      t.account = run'[p].account
               PROVE  t.run = p
    BY DEF AlonePool, Going, Live
  <2>1. p # r BY <1>7, <1>14
  <2>2. run'[p] = run[p] BY <2>1, <1>14
  <2>3. PICK s \in pool : t.account = s.account /\ (s.run # r => t.run = s.run) BY <1>13
  <2>4. s.run = p BY <2>2, <2>3 DEF IInv, AlonePool, Going, Live
  <2> QED BY <2>1, <2>3, <2>4
<1>17. PoolTypes' BY <1>13 DEF PoolTypes
<1> QED BY <1>1, <1>2, <1>11, <1>15, <1>16, <1>17 DEF IInv, LandedTypes

---------------------------------------------------------------------------
(* The steps that come from outside the runs.                              *)

(* What Disturbed does to a record.                                         *)
LEMMA DisturbedFields ==
  ASSUME RunTypes, NEW a, NEW r \in Runs
  PROVE  LET x == Disturbed(a)[r] IN
         /\ x \in RunRecords /\ x.at = run[r].at /\ x.account = run[r].account
         /\ x.step = run[r].step /\ x.known = run[r].known /\ x.error = run[r].error
         /\ x.alone => run[r].alone
         /\ x.alone /\ Going(r) => run[r].account # a
<1> DEFINE b == run[r].account # a \/ ~Going(r)
           q == run[r]
           x == [q EXCEPT !.alone = @ /\ b]
<1>1. Disturbed(a)[r] = x BY DEF Disturbed
<1>2. q \in RunRecords BY DEF RunTypes
<1>3. b \in BOOLEAN OBVIOUS
<1> HIDE DEF b, q
<1>4. x \in RunRecords /\ x.at = q.at /\ x.step = q.step /\ x.account = q.account
      /\ x.known = q.known /\ x.alone = (q.alone /\ b) /\ x.error = q.error
  BY <1>2, <1>3, Zenon DEF RunRecords
<1> HIDE DEF x
<1>5. x.alone => q.alone /\ b BY <1>4
<1> QED BY <1>1, <1>4, <1>5 DEF q, b

(* A record that nobody else is alone with stays true when the steps that   *)
(* last stay landed.                                                        *)
LEMMA DisturbedIsOK ==
  ASSUME IInv, NEW a, NEW r \in Runs, NEW N,
         run[r].at # "idle" =>
           \A i \in Lasting : i \in landed[run[r].account] => i \in N,
         run[r].account # a => N = landed[run[r].account]
  PROVE  OK(Disturbed(a)[r], N)
<1> DEFINE x == Disturbed(a)[r]
           M == landed[run[r].account]
<1>1. /\ x \in RunRecords /\ x.at = run[r].at /\ x.account = run[r].account
      /\ x.step = run[r].step /\ x.known = run[r].known /\ x.error = run[r].error
      /\ x.alone => run[r].alone
      /\ x.alone /\ Going(r) => run[r].account # a
  BY DisturbedFields DEF IInv
<1>2. OK(run[r], M) BY DEF IInv, RunsOK
<1> HIDE DEF x
<1>3. (Live(x) <=> Live(run[r])) /\ (Executing(x) <=> Executing(run[r]))
      /\ (Live(x) <=> Going(r))
  BY <1>1 DEF Live, Executing, Going
<1>4. OK(x, M)
  <2>1. Sound(x, M) BY <1>1, <1>2, <1>3 DEF OK, Sound
  <2>2. Undisturbed(x, M) BY <1>1, <1>2, <1>3 DEF OK, Undisturbed
  <2> QED BY <2>1, <2>2, <1>1 DEF OK
<1>5. x.alone /\ Live(x) => N = M BY <1>1, <1>3
<1>6. x.at # "idle" => \A i \in Lasting : i \in M => i \in N BY <1>1
<1>7. OK(x, N) BY <1>4, <1>5, <1>6, StaysOK
<1> QED BY <1>7 DEF x

(* The form is submitted: a run starts, and the others of its account are   *)
(* not alone any more.                                                      *)
LEMMA SubmitKeepsInvariant ==
  ASSUME IInv, NEW r \in Runs, NEW a \in Accounts, Submit(r, a)
  PROVE  IInv'
<1>1. landed' = landed /\ pool' = pool BY DEF Submit
<1>2. SessionTypes' BY DEF Submit, sessionVars, IInv, SessionTypes
<1> DEFINE b == (\A q \in Runs : Going(q) => run[q].account # a) /\ (\A t \in pool : t.account # a)
           x == [NewRun EXCEPT !.at = "detecting", !.account = a, !.alone = b]
<1>3. b \in BOOLEAN OBVIOUS
<1>4. run' = [Disturbed(a) EXCEPT ![r] = x] BY Zenon DEF Submit
<1>5. run[r].at = "idle" BY DEF Submit, At
<1>6. b => \A q \in Runs : Going(q) => run[q].account # a OBVIOUS
<1>7. b => \A t \in pool : t.account # a OBVIOUS
<1> HIDE DEF b
<1>8. x \in RunRecords /\ x.at = "detecting" /\ x.step = 0 /\ x.account = a
      /\ (\A j \in Steps :  x.known[j] = None) /\ x.alone = b /\ x.error = "none"
  BY <1>3, NewRunFields, Zenon DEF RunRecords
<1> HIDE DEF x
<1>9. OK(x, landed[a]) BY <1>8, FreshRecordIsOK
<1>10. Disturbed(a) = [q \in Runs |-> Disturbed(a)[q]] BY DEF Disturbed
<1>11. run'[r] = x /\ \A q \in Runs \ {r} : run'[q] = Disturbed(a)[q] BY <1>4, <1>10
<1>12. run' \in [Runs -> RunRecords]
  <2>1. \A q \in Runs : Disturbed(a)[q] \in RunRecords BY DisturbedFields DEF IInv
  <2>2. DOMAIN run' = Runs /\ run' = [q \in Runs |-> run'[q]] BY <1>4 DEF Disturbed
  <2> QED BY <2>1, <2>2, <1>8, <1>11
<1>13. \A q \in Runs \ {r} :
         /\ run'[q].at = run[q].at /\ run'[q].account = run[q].account
         /\ run'[q].step = run[q].step
         /\ run'[q].alone => run[q].alone
         /\ run'[q].alone /\ Going(q) => run[q].account # a
  BY <1>11, DisturbedFields DEF IInv
<1>14. RunsOK'
  <2> SUFFICES ASSUME NEW q \in Runs PROVE OK(run'[q], landed[run'[q].account])
    BY <1>1 DEF RunsOK
  <2>1. CASE q = r BY <2>1, <1>8, <1>9, <1>11
  <2>2. CASE q # r
    <3>1. OK(Disturbed(a)[q], landed[run[q].account]) BY DisturbedIsOK
    <3> QED BY <3>1, <2>2, <1>11, <1>13
  <2> QED BY <2>1, <2>2
<1>15. AloneRuns'
  <2> SUFFICES ASSUME NEW p \in Runs, NEW q \in Runs, run'[p].alone, Live(run'[p]),
                      Live(run'[q]), q # p
               PROVE  run'[q].account # run'[p].account
    BY DEF AloneRuns, Going, Live
  <2>1. CASE p = r
    <3>1. run'[p].account = a /\ b BY <2>1, <1>8, <1>11
    <3>2. Going(q) /\ run'[q].account = run[q].account BY <2>1, <1>13 DEF Going, Live
    <3> QED BY <3>1, <3>2, <1>6
  <2>2. CASE q = r
    <3>1. Going(p) BY <2>2, <1>13 DEF Going, Live
    <3> QED BY <3>1, <2>2, <1>8, <1>11, <1>13
  <2>3. CASE p # r /\ q # r
    <3>1. Going(p) /\ Going(q) /\ run[p].alone BY <2>3, <1>13 DEF Going, Live
    <3> QED BY <3>1, <2>3, <1>13 DEF IInv, AloneRuns
  <2> QED BY <2>1, <2>2, <2>3
<1>16. \A t \in pool : t.run # r BY <1>5, NothingInThePool
<1>17. Submitted'
  <2> SUFFICES ASSUME NEW t \in pool, t.run # None
               PROVE  /\ run'[t.run].at = "confirming" /\ t.account = run'[t.run].account
                      /\ t.step = run'[t.run].step
    BY <1>1 DEF Submitted, At
  <2>1. t.run \in Runs \ {r} BY <1>16, OneTransactionPerRun
  <2> QED BY <2>1, <1>13 DEF IInv, Submitted, At
<1>18. AlonePool'
  <2> SUFFICES ASSUME NEW p \in Runs, NEW t \in pool, run'[p].alone, Live(run'[p]),
                      t.account = run'[p].account
               PROVE  t.run = p
    BY <1>1 DEF AlonePool, Going, Live
  <2>1. CASE p = r BY <2>1, <1>7, <1>8, <1>11
  <2>2. CASE p # r
    <3>1. Going(p) /\ run[p].alone /\ run'[p].account = run[p].account
      BY <2>2, <1>13 DEF Going, Live
    <3> QED BY <3>1 DEF IInv, AlonePool
  <2> QED BY <2>1, <2>2
<1> QED BY <1>1, <1>2, <1>12, <1>14, <1>15, <1>17, <1>18
        DEF IInv, RunTypes, PoolTypes, LandedTypes

(* A step lands from another device, or the user's bots go to somebody      *)
(* else: the registration and the accrual stay.                             *)
LEMMA ElsewhereKeepsInvariant ==
  ASSUME IInv, NEW a \in Accounts, Elsewhere(a)
  PROVE  IInv'
<1>1. pool' = pool /\ run' = Disturbed(a) BY DEF Elsewhere
<1>2. SessionTypes' BY DisturbanceType DEF Elsewhere, sessionVars, IInv, SessionTypes
<1>3. landed \in [Accounts -> SUBSET Steps] BY DEF IInv, LandedTypes
<1> DEFINE Kept ==
             /\ landed' \in [Accounts -> SUBSET Steps]
             /\ \A c \in Accounts : \A i \in Lasting : i \in landed[c] => i \in landed'[c]
             /\ \A c \in Accounts \ {a} : landed'[c] = landed[c]
<1>4. Kept
  <2>1. ASSUME NEW i \in Steps, Lands(a, i) PROVE Kept
    BY <2>1, <1>3 DEF Lands
  <2>2. ASSUME landed' = [landed EXCEPT ![a] = @ \ {Mint}] PROVE Kept
    <3>1. Mint \notin Lasting BY DEF Lasting, Mint, Register, StartAccrual
    <3> QED BY <2>2, <3>1, <1>3
  <2> QED BY <2>1, <2>2 DEF Elsewhere
<1>5. \A r \in Runs :
         /\ run'[r] \in RunRecords
         /\ run'[r].at = run[r].at /\ run'[r].account = run[r].account
         /\ run'[r].step = run[r].step
         /\ run'[r].alone => run[r].alone
  BY <1>1, DisturbedFields DEF IInv
<1>6. run' \in [Runs -> RunRecords]
  <2>1. run' = [r \in Runs |-> run'[r]] BY <1>1 DEF Disturbed
  <2> QED BY <2>1, <1>5
<1>7. RunsOK'
  <2> SUFFICES ASSUME NEW r \in Runs PROVE OK(run'[r], landed'[run'[r].account])
    BY DEF RunsOK
  <2> DEFINE N == landed'[run[r].account]
  <2>1. run[r].at # "idle" => \A i \in Lasting : i \in landed[run[r].account] => i \in N
    BY <1>4, LiveHasAccount
  <2>2. CASE run[r].at # "idle"
    <3>1. run[r].account # a => N = landed[run[r].account] BY <2>2, <1>4, LiveHasAccount
    <3>2. OK(Disturbed(a)[r], N) BY <2>1, <3>1, DisturbedIsOK
    <3> QED BY <3>2, <1>1, <1>5
  <2>3. CASE run[r].at = "idle"
    <3>1. OK(Disturbed(a)[r], landed[run[r].account]) BY DisturbedIsOK
    <3>2. ~Live(run'[r]) /\ run'[r].at = "idle" BY <2>3, <1>5 DEF Live
    <3> QED BY <3>1, <3>2, <1>1, <1>5, StaysOK
  <2> QED BY <2>2, <2>3
<1>8. Submitted' /\ AloneRuns' /\ AlonePool'
  <2>1. \A t \in pool : t.run # None => t.run \in Runs BY OneTransactionPerRun
  <2>2. Submitted' BY <2>1, <1>1, <1>5 DEF IInv, Submitted, At
  <2>3. AloneRuns' BY <1>5 DEF IInv, AloneRuns, Going
  <2>4. AlonePool' BY <1>1, <1>5 DEF IInv, AlonePool, Going
  <2> QED BY <2>2, <2>3, <2>4
<1> QED BY <1>1, <1>2, <1>4, <1>6, <1>7, <1>8 DEF IInv, PoolTypes, LandedTypes, RunTypes

(* A reload ends the runs and forgets whose transactions are in the pool.   *)
LEMMA ReloadKeepsInvariant == ASSUME IInv, Reload PROVE IInv'
<1>1. landed' = landed /\ right' = right BY DEF Reload
<1>2. SessionTypes'
  <2>1. store' \in [publicKey : Accounts \cup {None}, networkMismatch : BOOLEAN]
    BY Zenon DEF Reload
  <2>2. registered' \in [Accounts -> BOOLEAN \cup {None}] BY DEF Reload
  <2>3. right' \in BOOLEAN BY <1>1 DEF IInv, SessionTypes
  <2>4. form' \in Runs \cup {None} BY DEF Reload
  <2>5. disturbances' \in 0 .. MaxDisturbances BY DisturbanceType DEF Reload
  <2> QED BY <2>1, <2>2, <2>3, <2>4, <2>5 DEF SessionTypes
<1>3. "closed" \in Errors /\ "closed" # "contract" BY DEF Errors
<1>4. \A r \in Runs : OK(run'[r], landed[run'[r].account]) /\ ~Live(run'[r])
  <2> TAKE r \in Runs
  <2>1. OK(run[r], landed[run[r].account]) /\ run[r] \in RunRecords
    BY DEF IInv, RunsOK, OK
  <2>2. CASE Going(r)
    <3> DEFINE x == Over(run[r], "failed", "closed")
    <3>1. run'[r] = x BY <2>2 DEF Reload
    <3>2. run[r].account \in Accounts BY <2>2, LiveHasAccount DEF Going
    <3>3. x \in RunRecords /\ x.at = "failed" /\ x.account = run[r].account /\ x.step = 0
          /\ x.error = "closed" /\ \A i \in Steps : x.known[i] = None
      BY <2>1, <1>3, OverFields, SMTT(20)
    <3> HIDE DEF x
    <3>4. OK(x, landed[x.account]) BY <3>2, <3>3, FreshRecordIsOK
    <3> QED BY <3>1, <3>3, <3>4 DEF Live
  <2>3. CASE ~Going(r)
    <3>1. run'[r] = run[r] BY <2>3 DEF Reload
    <3> QED BY <3>1, <2>1, <2>3 DEF Going, Live
  <2> QED BY <2>2, <2>3
<1>5. run' \in [Runs -> RunRecords] BY <1>4 DEF Reload, OK
<1>6. RunsOK' BY <1>1, <1>4 DEF RunsOK
<1>7. AloneRuns' /\ AlonePool' BY <1>4 DEF AloneRuns, AlonePool, Going, Live
<1>8. \A t \in pool' : t \in Transactions /\ t.run = None
  <2> SUFFICES ASSUME NEW s \in pool
               PROVE  [s EXCEPT !.run = None] \in Transactions /\ [s EXCEPT !.run = None].run = None
    BY DEF Reload
  <2>1. s \in Transactions BY DEF IInv, PoolTypes
  <2> QED BY <2>1, Zenon DEF Transactions
<1>9. Submitted' /\ PoolTypes' BY <1>8 DEF Submitted, PoolTypes
<1> QED BY <1>1, <1>2, <1>5, <1>6, <1>7, <1>9 DEF IInv, LandedTypes, RunTypes

(* What the page reads and shows, and the session, touch no run.            *)
LEMMA SessionKeepsInvariant ==
  ASSUME IInv, UNCHANGED <<landed, run, pool>>, SessionTypes'
  PROVE  IInv'
BY DEF IInv, PoolTypes, LandedTypes, RunTypes, RunsOK, Submitted, AloneRuns, AlonePool, At, Going

---------------------------------------------------------------------------
LEMMA InitInvariant == Init => IInv
<1> SUFFICES ASSUME Init PROVE IInv OBVIOUS
<1>1. SessionTypes
  <2>1. store \in [publicKey : Accounts \cup {None}, networkMismatch : BOOLEAN]
    BY OnboardingAssumption, Zenon DEF Init
  <2>2. disturbances \in 0 .. MaxDisturbances BY OnboardingAssumption, SMT DEF Init
  <2> QED BY <2>1, <2>2 DEF Init, SessionTypes
<1>2. PoolTypes /\ LandedTypes /\ Submitted /\ AlonePool
  BY DEF Init, PoolTypes, LandedTypes, Submitted, AlonePool
<1>3. run \in [Runs -> RunRecords] /\ \A r \in Runs : run[r] = NewRun
  BY NewRunFields DEF Init
<1>4. ~Live(NewRun) /\ ~Executing(NewRun) BY NewRunFields DEF Live, Executing
<1>5. AloneRuns BY <1>3, <1>4 DEF AloneRuns, Going, Live
<1>6. \A M : OK(NewRun, M)
  <2> TAKE M
  <2>1. None # TRUE BY OnboardingAssumption
  <2>2. Lasting \subseteq Steps BY DEF Lasting, Steps, Register, StartAccrual
  <2>3. Sound(NewRun, M) BY NewRunFields, <1>4, <2>1, <2>2 DEF Sound
  <2>4. Undisturbed(NewRun, M) BY NewRunFields, <1>4 DEF Undisturbed
  <2> QED BY <2>3, <2>4, NewRunFields DEF OK
<1> QED BY <1>1, <1>2, <1>3, <1>5, <1>6 DEF IInv, RunTypes, RunsOK

(* Every step keeps the invariant, one case per action.                     *)
LEMMA NextInvariant == IInv /\ [Next]_vars => IInv'
<1> SUFFICES ASSUME IInv, [Next]_vars PROVE IInv' OBVIOUS
<1>1. CASE SessionMoves
  <2>1. PICK key \in Accounts \cup {None}, mismatch \in {store.networkMismatch, ~right} :
          /\ store' = [publicKey |-> key, networkMismatch |-> mismatch]
          /\ form' = IF key = store.publicKey THEN form ELSE None
    BY <1>1 DEF SessionMoves
  <2>2. mismatch \in BOOLEAN BY DEF IInv, SessionTypes
  <2>3. store' \in [publicKey : Accounts \cup {None}, networkMismatch : BOOLEAN]
    BY <2>1, <2>2, Zenon
  <2>4. form' \in Runs \cup {None} BY <2>1 DEF IInv, SessionTypes
  <2>5. SessionTypes'
    BY <1>1, <2>3, <2>4, DisturbanceType DEF SessionMoves, IInv, SessionTypes
  <2> QED BY <1>1, <2>5, SessionKeepsInvariant DEF SessionMoves
<1>2. CASE SwitchNetwork
  <2>1. right' \in BOOLEAN BY <1>2, Zenon DEF SwitchNetwork
  <2>2. SessionTypes' BY <1>2, <2>1, DisturbanceType DEF SwitchNetwork, IInv, SessionTypes
  <2> QED BY <1>2, <2>2, SessionKeepsInvariant DEF SwitchNetwork
<1>3. CASE Reload BY <1>3, ReloadKeepsInvariant
<1>4. CASE Skeleton
  <2>1. SessionTypes' BY <1>4 DEF Skeleton, sessionVars, IInv, SessionTypes
  <2> QED BY <1>4, <2>1, SessionKeepsInvariant DEF Skeleton
<1>5. ASSUME NEW a \in Accounts, ReadRegistered(a) PROVE IInv'
  <2>1. registered' \in [Accounts -> BOOLEAN \cup {None}]
    <3> DEFINE b == Register \in landed[a]
    <3>1. b \in BOOLEAN OBVIOUS
    <3>2. registered' = [registered EXCEPT ![a] = b] BY <1>5 DEF ReadRegistered
    <3> HIDE DEF b
    <3> QED BY <3>1, <3>2 DEF IInv, SessionTypes
  <2>2. SessionTypes' BY <1>5, <2>1 DEF ReadRegistered, sessionVars, IInv, SessionTypes
  <2> QED BY <1>5, <2>2, SessionKeepsInvariant DEF ReadRegistered
<1>6. ASSUME NEW a \in Accounts, Elsewhere(a) PROVE IInv' BY <1>6, ElsewhereKeepsInvariant
<1>7. ASSUME NEW r \in Runs, NEW a \in Accounts, Submit(r, a) PROVE IInv'
  BY <1>7, SubmitKeepsInvariant
<1>8. ASSUME NEW r \in Runs, NEW i \in Steps, Detect(r, i) PROVE IInv'
  BY <1>8, DetectKeepsInvariant
<1>9. ASSUME NEW r \in Runs, Simulate(r) PROVE IInv' BY <1>9, SimulateKeepsInvariant
<1>10. ASSUME NEW r \in Runs, Sign(r) PROVE IInv' BY <1>10, SignKeepsInvariant
<1>11. ASSUME NEW r \in Runs, Trouble(r) PROVE IInv' BY <1>11, TroubleKeepsInvariant
<1>12. ASSUME NEW r \in Runs, LoseTrack(r) PROVE IInv' BY <1>12, LoseTrackKeepsInvariant
<1>13. ASSUME NEW t \in pool, Include(t) PROVE IInv' BY <1>13, IncludeKeepsInvariant
<1>14. ASSUME NEW t \in pool, Expire(t) PROVE IInv' BY <1>14, ExpireKeepsInvariant
<1>15. CASE UNCHANGED vars
  BY <1>15, SessionKeepsInvariant DEF vars, sessionVars, IInv, SessionTypes
<1> QED
  BY <1>1, <1>2, <1>3, <1>4, <1>5, <1>6, <1>7, <1>8, <1>9, <1>10, <1>11, <1>12, <1>13,
     <1>14, <1>15
  DEF Next, Advance

LEMMA InvariantHolds == Spec => []IInv
BY InitInvariant, NextInvariant, PTL DEF Spec

(* Every reachable state of the registration is well-formed.                *)
THEOREM TypeCorrect == Spec => []TypeOK
<1>1. IInv => TypeOK
  BY DEF IInv, TypeOK, SessionTypes, PoolTypes, LandedTypes, RunTypes
<1> QED BY InvariantHolds, <1>1, PTL

(* For any accounts, submissions, retries and disturbances, a run that      *)
(* reports success has its account registered and accruing.                 *)
THEOREM SuccessIsTrue == Spec => []SuccessMeansOnboarded
<1>1. IInv => SuccessMeansOnboarded
  BY DEF IInv, RunsOK, OK, Sound, SuccessMeansOnboarded, At, Lasting
<1> QED BY InvariantHolds, <1>1, PTL

(* A run that had its account to itself never dies on a step that was done  *)
(* before.                                                                  *)
THEOREM ResumingIsClean == Spec => []ResumesCleanly
<1>1. IInv => ResumesCleanly
  BY DEF IInv, RunsOK, OK, Undisturbed, ResumesCleanly
<1> QED BY InvariantHolds, <1>1, PTL
=============================================================================
