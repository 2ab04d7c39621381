------------------------------ MODULE TxProofs ------------------------------
(***************************************************************************)
(* The transaction pipeline, for any tabs, any calls, any number of        *)
(* retries, faults and foreign transactions: every reachable state is      *)
(* well-formed, a run of executeTransaction has effect at most once, and   *)
(* the history never says of a transaction what is not so.                 *)
(*                                                                         *)
(* That an attempt lands at most once rests on where it is when nothing it *)
(* sent can have been accepted: before it has sent, and after a refusal.   *)
(* Only there does it build again; every other way on ends the attempt     *)
(* (CallsOK).  A call that waits in a queue is at such a place, and is     *)
(* there once, so that starting it starts nothing twice (QueuesOK).        *)
(* The history is true because a transaction is entered by its own hash    *)
(* once the network has it, and a settled status never becomes another     *)
(* outcome (HistoriesOK).                                                  *)
(*                                                                         *)
(* With one tab (OneTab), what is signed is for the next sequence number   *)
(* and the history loses nothing; the last part says why (SInv).           *)
(***************************************************************************)
EXTENDS TxPipeline, TLAPS

(* Where a call is before its attempt has sent anything.                    *)
Before == {"idle", "queued", "starting", "built", "signing", "signed", "retrying"}
Attempting == {"starting", "built", "signing", "signed", "sent", "polling"}

(* All that was accepted of call c belongs to an attempt before the nth.    *)
Earlier(T, c, n) ==
  \A h \in 1 .. Len(T) : T[h].call = c => T[h].attempt < n

JobOK(T, q, c) ==
  /\ q.stage # "idle" => q.tab \in Tabs
  /\ q.stage \in Before => Earlier(T, c, q.failures) /\ q.hash = 0 /\ q.refusal = "none"
  /\ q.stage = "sent" =>
       \/ q.hash = 0 /\ Earlier(T, c, q.failures)
       \/ q.hash \in 1 .. Len(T) /\ q.refusal = "none"
  /\ q.stage = "polling" => q.hash \in 1 .. Len(T)
  /\ q.stage \in {"sent", "polling"} => Earlier(T, c, q.failures + 1)

CallsOK == \A c \in Calls : JobOK(txs, job[c], c)

(* An attempt has at most one transaction that was ever accepted.           *)
OnePerAttempt ==
  \A h, k \in 1 .. Len(txs) :
    h # k => txs[h].call # txs[k].call \/ txs[h].attempt # txs[k].attempt

(* Whoever waits in a tab's queue waits there, once, and nowhere else.      *)
QueuesOK ==
  \A t \in Tabs : \A i \in 1 .. Len(queue[t]) :
    /\ job[queue[t][i]].stage = "queued" /\ job[queue[t][i]].tab = t
    /\ \A k \in 1 .. Len(queue[t]) : queue[t][i] = queue[t][k] => i = k

(* What a history may say of transaction h.                                 *)
EntryOK(T, m, h) ==
  /\ m # "none" => h \in 1 .. Len(T)
  /\ m = "success" => T[h].status \in {"success", "gone"}
  /\ m = "failed" => T[h].status \in {"failed", "expired", "gone"}

ListOK(T, list) == \A h \in Hashes : EntryOK(T, list[h], h)
HistoriesOK == ListOK(txs, storage) /\ \A t \in Tabs : ListOK(txs, memory[t])

NetTypes ==
  /\ seq \in Nat /\ others \in Nat /\ faults \in Nat
  /\ txs \in Seq(Transactions) /\ Len(txs) <= MaxTx
QueueTypes == queue \in [Tabs -> Seq(Calls)] /\ running \in [Tabs -> Calls \cup {None}]
JobTypes == job \in [Calls -> Jobs]
HistoryTypes == memory \in [Tabs -> Histories] /\ storage \in Histories
TabTypes == open \in [Tabs -> BOOLEAN] /\ resuming \in [Tabs -> SUBSET Hashes]

IInv ==
  /\ NetTypes /\ QueueTypes /\ JobTypes /\ HistoryTypes /\ TabTypes
  /\ CallsOK /\ OnePerAttempt /\ QueuesOK /\ HistoriesOK

Stages == {"idle", "queued", "starting", "built", "signing", "signed", "sent",
           "polling", "retrying", "succeeded", "failed", "closed"}

---------------------------------------------------------------------------
(* Records.                                                                *)

(* A call is moved to another stage.                                        *)
LEMMA MovedJob ==
  ASSUME NEW q \in Jobs, NEW s \in Stages
  PROVE  LET r == [q EXCEPT !.stage = s] IN
         /\ r \in Jobs /\ r.stage = s /\ r.tab = q.tab /\ r.failures = q.failures
         /\ r.hash = q.hash /\ r.refusal = q.refusal
BY Zenon DEF Jobs, Stages

LEMMA PlacedJob ==
  ASSUME NEW q \in Jobs, NEW t \in Tabs
  PROVE  LET r == [q EXCEPT !.tab = t] IN
         /\ r \in Jobs /\ r.stage = q.stage /\ r.tab = t /\ r.failures = q.failures
         /\ r.hash = q.hash /\ r.refusal = q.refusal
BY Zenon DEF Jobs

LEMMA CountedJob ==
  ASSUME NEW q \in Jobs, NEW n \in Nat
  PROVE  LET r == [q EXCEPT !.failures = n] IN
         /\ r \in Jobs /\ r.stage = q.stage /\ r.tab = q.tab /\ r.failures = n
         /\ r.hash = q.hash /\ r.refusal = q.refusal
BY Zenon DEF Jobs

(* A new call.                                                              *)
LEMMA NewJobFacts ==
  /\ NewJob \in Jobs /\ NewJob.stage = "idle" /\ NewJob.hash = 0 /\ NewJob.refusal = "none"
  /\ NewJob.failures = 0
BY SMT DEF NewJob, Jobs

(* What End leaves of a call, whatever stage it puts it at.                 *)
LEMMA EndedJob ==
  ASSUME NEW t \in Tabs, NEW n \in Nat
  PROVE  LET e == [NewJob EXCEPT !.tab = t, !.failures = n] IN
         e \in Jobs /\ e.tab = t /\ e.failures = n /\ e.hash = 0 /\ e.refusal = "none"
<1> DEFINE p == [NewJob EXCEPT !.tab = t]
           e == [p EXCEPT !.failures = n]
<1>1. p \in Jobs /\ p.tab = t /\ p.hash = 0 /\ p.refusal = "none"
  BY NewJobFacts, PlacedJob, Zenon
<1> HIDE DEF p
<1>2. e \in Jobs /\ e.tab = t /\ e.failures = n /\ e.hash = 0 /\ e.refusal = "none"
  BY <1>1, CountedJob, Zenon
<1>3. e = [NewJob EXCEPT !.tab = t, !.failures = n] BY Zenon DEF p
<1> HIDE DEF e
<1> QED BY <1>2, <1>3, Zenon

(* What Close leaves of one.                                                *)
LEMMA ClosedJob ==
  ASSUME NEW t \in Tabs
  PROVE  LET r == [NewJob EXCEPT !.stage = "closed", !.tab = t] IN
         r \in Jobs /\ r.stage = "closed" /\ r.tab = t
<1> DEFINE p == [NewJob EXCEPT !.stage = "closed"]
           r == [p EXCEPT !.tab = t]
<1>1. "closed" \in Stages BY DEF Stages
<1>2. p \in Jobs /\ p.stage = "closed" BY <1>1, NewJobFacts, MovedJob, Zenon
<1> HIDE DEF p
<1>3. r \in Jobs /\ r.stage = "closed" /\ r.tab = t BY <1>2, PlacedJob, Zenon
<1>4. r = [NewJob EXCEPT !.stage = "closed", !.tab = t] BY Zenon DEF r, p
<1> HIDE DEF r
<1> QED BY <1>3, <1>4, Zenon

(* Whatever is earlier than an attempt is earlier than the next one.        *)
LEMMA EarlierStill ==
  ASSUME NEW T \in Seq(Transactions), NEW c \in Calls, NEW n \in Nat, Earlier(T, c, n)
  PROVE  Earlier(T, c, n + 1)
<1> SUFFICES ASSUME NEW h \in 1 .. Len(T), T[h].call = c PROVE T[h].attempt < n + 1
  BY DEF Earlier
<1>1. T[h].attempt \in Nat
  <2>1. T[h] \in Transactions OBVIOUS
  <2> QED BY <2>1 DEF Transactions
<1>2. T[h].attempt < n BY DEF Earlier
<1> QED BY <1>1, <1>2

(* A place in the life of a call from which JobOK asks the same as from     *)
(* another one.                                                             *)
LEMMA StillBefore ==
  ASSUME NEW c \in Calls, NEW q \in Jobs, NEW r \in Jobs,
         JobOK(txs, q, c), q.stage \in Before, r.stage \in Before, r.tab \in Tabs,
         r.failures = q.failures, r.hash = q.hash, r.refusal = q.refusal
  PROVE  JobOK(txs, r, c)
BY DEF JobOK, Before

(* At the end of an attempt all that was accepted belongs to it or an       *)
(* earlier one.                                                             *)
LEMMA AttemptEnds ==
  ASSUME NetTypes, JobTypes, CallsOK, NEW c \in Calls, job[c].stage \in Attempting
  PROVE  Earlier(txs, c, job[c].failures + 1) /\ job[c].tab \in Tabs
<1>1. job[c] \in Jobs /\ JobOK(txs, job[c], c) BY DEF JobTypes, CallsOK
<1>2. job[c].failures \in Nat BY <1>1 DEF Jobs
<1>3. job[c].tab \in Tabs BY <1>1 DEF JobOK, Attempting
<1>4. CASE job[c].stage \in {"sent", "polling"} BY <1>1, <1>3, <1>4 DEF JobOK
<1>5. CASE job[c].stage \in Before
  BY <1>1, <1>2, <1>3, <1>5, EarlierStill DEF JobOK, NetTypes
<1> QED BY <1>4, <1>5 DEF Attempting, Before

---------------------------------------------------------------------------
(* Calls and queues.                                                       *)

(* A call that is in no queue moves: the queues stay as they should be.     *)
LEMMA QueuesKeep ==
  ASSUME JobTypes, QueueTypes, QueuesOK, NEW c \in Calls, job[c].stage # "queued",
         NEW q \in Jobs, job' = [job EXCEPT ![c] = q], queue' = queue
  PROVE  QueuesOK'
<1>1. ASSUME NEW t \in Tabs, NEW i \in 1 .. Len(queue[t])
      PROVE  job'[queue[t][i]] = job[queue[t][i]]
  <2>1. queue[t][i] \in Calls /\ job[queue[t][i]].stage = "queued" BY DEF QueueTypes, QueuesOK
  <2>2. queue[t][i] # c BY <2>1
  <2> QED BY <2>1, <2>2 DEF JobTypes
<1> QED BY <1>1 DEF QueuesOK

(* One call is rewritten and nothing is sent.                               *)
LEMMA OneCallMoves ==
  ASSUME JobTypes, CallsOK, NEW c \in Calls, NEW q \in Jobs, JobOK(txs, q, c),
         job' = [job EXCEPT ![c] = q], txs' = txs
  PROVE  JobTypes' /\ CallsOK'
<1>1. \A d \in Calls : job'[d] = IF d = c THEN q ELSE job[d] BY DEF JobTypes
<1> QED BY <1>1 DEF JobTypes, CallsOK

(* Start.                                                                   *)
LEMMA StartKeeps ==
  ASSUME JobTypes, QueueTypes, CallsOK, QueuesOK, NEW t \in Tabs, NEW c \in Calls,
         job[c].stage \in Before, job[c].stage # "queued", Start(t, c), txs' = txs
  PROVE  JobTypes' /\ QueueTypes' /\ CallsOK' /\ QueuesOK'
<1> DEFINE s == IF running[t] = None THEN "starting" ELSE "queued"
           m == [job[c] EXCEPT !.stage = s]
           q == [m EXCEPT !.tab = t]
<1>1. job[c] \in Jobs /\ JobOK(txs, job[c], c) BY DEF JobTypes, CallsOK
<1>2. s \in Stages /\ s \in Before BY DEF Stages, Before
<1>3. /\ q \in Jobs /\ q.stage = s /\ q.tab = t /\ q.failures = job[c].failures
      /\ q.hash = job[c].hash /\ q.refusal = job[c].refusal
  <2> HIDE DEF s
  <2>1. /\ m \in Jobs /\ m.stage = s /\ m.failures = job[c].failures
        /\ m.hash = job[c].hash /\ m.refusal = job[c].refusal
    BY <1>1, <1>2, MovedJob, Zenon
  <2> HIDE DEF m
  <2> QED BY <2>1, PlacedJob, Zenon
<1>4. job' = [job EXCEPT ![c] = q]
  BY DEF Start
<1> HIDE DEF q, m
<1>5. JobOK(txs, q, c) BY <1>1, <1>2, <1>3, StillBefore
<1>6. JobTypes' /\ CallsOK' BY <1>3, <1>4, <1>5, OneCallMoves
<1>7. CASE running[t] = None
  <2>1. queue' = queue /\ running' = [running EXCEPT ![t] = c] BY <1>7 DEF Start
  <2>2. QueuesOK' BY <2>1, <1>3, <1>4, QueuesKeep
  <2>3. QueueTypes' BY <2>1 DEF QueueTypes
  <2> QED BY <2>2, <2>3, <1>6
<1>8. CASE running[t] # None
  <2>1. queue' = [queue EXCEPT ![t] = Append(queue[t], c)] /\ running' = running
    BY <1>8 DEF Start
  <2>2. queue[t] \in Seq(Calls) BY DEF QueueTypes
  <2>3. QueueTypes' BY <2>1, <2>2 DEF QueueTypes
  <2>4. \A u \in Tabs : queue'[u] = IF u = t THEN Append(queue[t], c) ELSE queue[u]
    BY <2>1 DEF QueueTypes
  <2>5. \A u \in Tabs : \A i \in 1 .. Len(queue[u]) :
           queue[u][i] # c /\ job'[queue[u][i]] = job[queue[u][i]]
    BY <1>4 DEF QueuesOK, QueueTypes, JobTypes
  <2>6. job'[c] = q BY <1>4 DEF JobTypes
  <2>7. ASSUME NEW u \in Tabs, NEW i \in 1 .. Len(queue'[u])
        PROVE  /\ job'[queue'[u][i]].stage = "queued" /\ job'[queue'[u][i]].tab = u
               /\ \A k \in 1 .. Len(queue'[u]) : queue'[u][i] = queue'[u][k] => i = k
    <3>1. CASE u # t
      BY <3>1, <2>4, <2>5 DEF QueuesOK
    <3>2. CASE u = t
      <4>1. queue'[u] = Append(queue[t], c) BY <3>2, <2>4
      <4>2. /\ Len(queue'[u]) = Len(queue[t]) + 1 /\ Len(queue[t]) \in Nat
            /\ \A k \in 1 .. Len(queue[t]) : queue'[u][k] = queue[t][k]
            /\ queue'[u][Len(queue[t]) + 1] = c
        BY <4>1, <2>2
      <4>3. CASE i = Len(queue[t]) + 1
        <5>1. queue'[u][i] = c BY <4>2, <4>3
        <5>2. job'[queue'[u][i]].stage = "queued" /\ job'[queue'[u][i]].tab = u
          BY <5>1, <2>6, <1>3, <1>8, <3>2
        <5>3. ASSUME NEW k \in 1 .. Len(queue'[u]), queue'[u][i] = queue'[u][k] PROVE i = k
          <6>1. k \in 1 .. Len(queue[t]) => queue'[u][k] # c BY <4>2, <2>5
          <6> QED BY <6>1, <5>1, <5>3, <4>2, <4>3
        <5> QED BY <5>2, <5>3
      <4>4. CASE i # Len(queue[t]) + 1
        <5>1. i \in 1 .. Len(queue[t]) BY <4>2, <4>4
        <5>2. queue'[u][i] = queue[t][i] /\ queue[t][i] # c BY <5>1, <4>2, <2>5
        <5>3. job'[queue'[u][i]] = job[queue[t][i]] BY <5>1, <5>2, <2>5
        <5>4. job[queue[t][i]].stage = "queued" /\ job[queue[t][i]].tab = t
          BY <5>1 DEF QueuesOK
        <5>5. ASSUME NEW k \in 1 .. Len(queue'[u]), queue'[u][i] = queue'[u][k] PROVE i = k
          <6>1. k \in 1 .. Len(queue[t]) BY <5>2, <5>5, <4>2
          <6>2. queue[t][i] = queue[t][k] BY <6>1, <5>2, <5>5, <4>2
          <6> QED BY <6>1, <6>2, <5>1 DEF QueuesOK
        <5> QED BY <5>3, <5>4, <5>5, <3>2
      <4> QED BY <4>3, <4>4
    <3> QED BY <3>1, <3>2
  <2>8. QueuesOK' BY <2>7 DEF QueuesOK
  <2> QED BY <2>3, <2>8, <1>6
<1> QED BY <1>7, <1>8

(* What End makes of a call whose attempt is over.                          *)
LEMMA EndRecord ==
  ASSUME NEW t \in Tabs, NEW c \in Calls, NEW error, End(t, c, error),
         job[c].failures + 1 \in Nat, Earlier(txs, c, job[c].failures + 1)
  PROVE  \E e \in Jobs : /\ JobOK(txs, e, c) /\ Dequeued(t, [job EXCEPT ![c] = e])
                         /\ e.tab = t /\ e.stage \in {"succeeded", "retrying", "failed"}
<1> DEFINE n == job[c].failures + 1
           b == [NewJob EXCEPT !.tab = t, !.failures = n]
           s == IF error = "none" THEN "succeeded"
                ELSE IF RetryMutation(c, error) THEN "retrying" ELSE "failed"
           e == [b EXCEPT !.stage = s]
<1>4. /\ s \in Stages /\ s # "idle" /\ s # "sent" /\ s # "polling"
      /\ s \in {"succeeded", "retrying", "failed"}
  BY DEF Stages
<1>5. Dequeued(t, [job EXCEPT ![c] = e])
  <2> DEFINE f == IF error = "none" THEN [b EXCEPT !.stage = "succeeded"]
                  ELSE IF RetryMutation(c, error) THEN [b EXCEPT !.stage = "retrying"]
                  ELSE [b EXCEPT !.stage = "failed"]
  <2>1. Dequeued(t, [job EXCEPT ![c] = f]) BY Zenon DEF End
  <2>2. e = f BY Zenon
  <2> HIDE DEF e, f
  <2> QED BY <2>1, <2>2
<1>6. n \in Nat OBVIOUS
<1> HIDE DEF n, s
<1>7. e \in Jobs /\ e.stage = s /\ e.tab = t /\ e.failures = n /\ e.hash = 0 /\ e.refusal = "none"
  <2>1. t \in Tabs /\ n \in Nat /\ s \in Stages BY <1>4, <1>6
  <2>2. b \in Jobs /\ b.tab = t /\ b.failures = n /\ b.hash = 0 /\ b.refusal = "none"
    BY <2>1, EndedJob, Zenon
  <2> HIDE DEF b
  <2> QED BY <2>1, <2>2, MovedJob, Zenon
<1> HIDE DEF e
<1>8. JobOK(txs, e, c) BY <1>4, <1>7 DEF JobOK, n
<1> QED BY <1>4, <1>5, <1>7, <1>8

(* The end of an attempt: the next call of the queue starts, if there is    *)
(* one.                                                                     *)
LEMMA EndKeeps ==
  ASSUME NetTypes, JobTypes, QueueTypes, CallsOK, QueuesOK, NEW c \in Calls,
         job[c].stage \in Attempting, NEW error, End(job[c].tab, c, error), txs' = txs
  PROVE  JobTypes' /\ QueueTypes' /\ CallsOK' /\ QueuesOK'
<1> DEFINE t == job[c].tab
<1>0. t \in Tabs
  BY AttemptEnds
<1>1. PICK e \in Jobs : /\ JobOK(txs, e, c) /\ t \in Tabs
                        /\ Dequeued(t, [job EXCEPT ![c] = e])
  <2>1. job[c] \in Jobs BY DEF JobTypes
  <2>2. job[c].failures + 1 \in Nat BY <2>1 DEF Jobs
  <2>3. Earlier(txs, c, job[c].failures + 1) BY AttemptEnds
  <2> QED BY <1>0, <2>2, <2>3, EndRecord
<1>2. job[c].stage # "queued" BY DEF Attempting
<1> HIDE DEF t
<1>3. CASE queue[t] = << >>
  <2>1. /\ running' = [running EXCEPT ![t] = None] /\ queue' = queue
        /\ job' = [job EXCEPT ![c] = e]
    BY <1>1, <1>3 DEF Dequeued
  <2>2. JobTypes' /\ CallsOK' BY <1>1, <2>1, OneCallMoves
  <2>3. QueuesOK' BY <1>1, <1>2, <2>1, QueuesKeep
  <2>4. QueueTypes' BY <2>1 DEF QueueTypes
  <2> QED BY <2>2, <2>3, <2>4
<1>4. CASE queue[t] # << >>
  <2> DEFINE d == Head(queue[t])
             r == [job[d] EXCEPT !.stage = "starting"]
  <2>1. queue[t] \in Seq(Calls) BY <1>1 DEF QueueTypes
  <2>2. /\ Len(queue[t]) \in Nat /\ 1 \in 1 .. Len(queue[t]) /\ d = queue[t][1] /\ d \in Calls
        /\ Tail(queue[t]) \in Seq(Calls)
        /\ Len(Tail(queue[t])) = Len(queue[t]) - 1
        /\ \A i \in 1 .. Len(Tail(queue[t])) : Tail(queue[t])[i] = queue[t][i + 1]
    BY <2>1, <1>4
  <2>3. job[d].stage = "queued" BY <1>1, <2>2 DEF QueuesOK
  <2>4. d # c BY <2>3, <1>2
  <2>5. job[d] \in Jobs /\ JobOK(txs, job[d], d) BY <2>2 DEF JobTypes, CallsOK
  <2>6. "starting" \in Stages BY DEF Stages
  <2>7. /\ r \in Jobs /\ r.stage = "starting" /\ r.tab = job[d].tab
        /\ r.failures = job[d].failures /\ r.hash = job[d].hash /\ r.refusal = job[d].refusal
    BY <2>5, <2>6, MovedJob, Zenon
  <2>8. /\ running' = [running EXCEPT ![t] = d] /\ queue' = [queue EXCEPT ![t] = Tail(queue[t])]
        /\ job' = [[job EXCEPT ![c] = e] EXCEPT ![d].stage = "starting"]
    BY <1>1, <1>4 DEF Dequeued
  <2> HIDE DEF d
  <2>9. \A f \in Calls : job'[f] = IF f = d THEN r ELSE IF f = c THEN e ELSE job[f]
    BY <2>2, <2>4, <2>8 DEF JobTypes
  <2>10. job' \in [Calls -> Jobs]
    <3>1. job' = [f \in Calls |-> job'[f]] BY <2>8 DEF JobTypes
    <3>2. \A f \in Calls : job'[f] \in Jobs BY <2>7, <2>9, <1>1 DEF JobTypes
    <3> QED BY <3>1, <3>2
  <2> HIDE DEF r
  <2>11. JobOK(txs, r, d)
    <3>1. job[d].tab \in Tabs BY <2>3, <2>5 DEF JobOK
    <3>2. job[d].stage \in Before /\ r.stage \in Before BY <2>3, <2>7 DEF Before
    <3> QED BY <2>2, <2>5, <2>7, <3>1, <3>2, StillBefore
  <2>12. CallsOK' BY <2>9, <2>11, <1>1 DEF CallsOK
  <2>13. QueueTypes' BY <2>2, <2>8 DEF QueueTypes
  <2>14. \A u \in Tabs : queue'[u] = IF u = t THEN Tail(queue[t]) ELSE queue[u]
    BY <2>8 DEF QueueTypes
  <2>15. ASSUME NEW u \in Tabs, NEW i \in 1 .. Len(queue[u]), u = t => i # 1
         PROVE  job'[queue[u][i]] = job[queue[u][i]]
    <3>1. queue[u][i] \in Calls /\ job[queue[u][i]].stage = "queued" /\ job[queue[u][i]].tab = u
      BY DEF QueueTypes, QueuesOK
    <3>2. queue[u][i] # c BY <3>1, <1>2
    <3>3. job[d].tab = t BY <1>1, <2>2 DEF QueuesOK
    <3>4. queue[u][i] # d
      <4>1. CASE u # t BY <4>1, <3>1, <3>3
      <4>2. CASE u = t BY <4>2, <2>2, <2>15 DEF QueuesOK
      <4> QED BY <4>1, <4>2
    <3> QED BY <3>1, <3>2, <3>4, <2>9
  <2>16. ASSUME NEW u \in Tabs, NEW i \in 1 .. Len(queue'[u])
         PROVE  /\ job'[queue'[u][i]].stage = "queued" /\ job'[queue'[u][i]].tab = u
                /\ \A k \in 1 .. Len(queue'[u]) : queue'[u][i] = queue'[u][k] => i = k
    <3>1. CASE u # t BY <3>1, <2>14, <2>15 DEF QueuesOK
    <3>2. CASE u = t
      <4>1. /\ Len(queue'[u]) = Len(queue[t]) - 1
            /\ \A k \in 1 .. Len(queue'[u]) : queue'[u][k] = queue[t][k + 1]
        BY <2>2, <2>14, <3>2
      <4>2. \A k \in 1 .. Len(queue'[u]) : k + 1 \in 1 .. Len(queue[t]) /\ k + 1 # 1
        BY <4>1, <2>2
      <4>3. job'[queue[t][i + 1]] = job[queue[t][i + 1]] BY <4>2, <2>15, <3>2
      <4>4. job[queue[t][i + 1]].stage = "queued" /\ job[queue[t][i + 1]].tab = t
        BY <4>2, <1>1 DEF QueuesOK
      <4>5. ASSUME NEW k \in 1 .. Len(queue'[u]), queue'[u][i] = queue'[u][k] PROVE i = k
        <5>1. queue[t][i + 1] = queue[t][k + 1] BY <4>1, <4>5
        <5>2. i + 1 = k + 1 BY <5>1, <4>2, <1>1 DEF QueuesOK
        <5> QED BY <5>2
      <4> QED BY <4>1, <4>3, <4>4, <4>5, <3>2
    <3> QED BY <3>1, <3>2
  <2>17. QueuesOK' BY <2>16 DEF QueuesOK
  <2> QED BY <2>10, <2>12, <2>13, <2>17 DEF JobTypes
<1> QED BY <1>3, <1>4

---------------------------------------------------------------------------
(* The network.                                                            *)

(* What was said of accepted transactions holds as long as they and what is *)
(* said stay.                                                               *)
LEMMA NothingAccepted ==
  ASSUME OnePerAttempt, HistoriesOK, txs' = txs, memory' = memory, storage' = storage
  PROVE  OnePerAttempt' /\ HistoriesOK'
BY DEF OnePerAttempt, HistoriesOK

(* A transaction's status changes as the network does it.                   *)
LEMMA StatusMoves ==
  ASSUME NetTypes, CallsOK, OnePerAttempt, HistoriesOK,
         NEW h \in 1 .. Len(txs), NEW s \in {"success", "failed", "expired", "gone"},
         txs[h].status = "pool" \/ (txs[h].status = "success" /\ s = "gone"),
         txs' = [txs EXCEPT ![h].status = s],
         job' = job, memory' = memory, storage' = storage
  PROVE  /\ txs' \in Seq(Transactions) /\ Len(txs') <= MaxTx
         /\ CallsOK' /\ OnePerAttempt' /\ HistoriesOK'
<1>1. txs \in Seq(Transactions) /\ Len(txs) \in Nat /\ Len(txs) <= MaxTx BY DEF NetTypes
<1>2. txs[h] \in Transactions BY <1>1
<1> DEFINE x == [txs[h] EXCEPT !.status = s]
<1>3. x \in Transactions /\ x.call = txs[h].call /\ x.attempt = txs[h].attempt /\ x.status = s
  BY <1>2, Zenon DEF Transactions
<1> HIDE DEF x
<1>4. txs' = [txs EXCEPT ![h] = x] BY DEF x
<1>5. txs' \in Seq(Transactions) /\ Len(txs') = Len(txs) BY <1>1, <1>3, <1>4
<1>6. \A k \in 1 .. Len(txs) : txs'[k] = IF k = h THEN x ELSE txs[k] BY <1>1, <1>4
<1>7. \A k \in 1 .. Len(txs) : txs'[k].call = txs[k].call /\ txs'[k].attempt = txs[k].attempt
  BY <1>3, <1>6
<1>8. \A c \in Calls, n \in Nat : Earlier(txs, c, n) => Earlier(txs', c, n)
  BY <1>5, <1>7 DEF Earlier
<1>9. CallsOK'
  <2> SUFFICES ASSUME NEW c \in Calls PROVE JobOK(txs', job[c], c) BY DEF CallsOK
  <2>1. JobOK(txs, job[c], c) BY DEF CallsOK
  <2>2. \A n : Earlier(txs, c, n) => Earlier(txs', c, n) BY <1>5, <1>7 DEF Earlier
  <2> QED BY <2>1, <2>2, <1>5 DEF JobOK
<1>10. OnePerAttempt' BY <1>5, <1>7 DEF OnePerAttempt
<1>11. \A m, k : EntryOK(txs, m, k) => EntryOK(txs', m, k)
  BY <1>3, <1>5, <1>6 DEF EntryOK
<1>12. HistoriesOK' BY <1>11 DEF HistoriesOK, ListOK
<1> QED BY <1>1, <1>5, <1>9, <1>10, <1>12

(* A transaction is accepted: the first of its attempt.                     *)
LEMMA AcceptedKeeps ==
  ASSUME NetTypes, JobTypes, QueueTypes, CallsOK, QueuesOK, OnePerAttempt, HistoriesOK,
         NEW c \in Calls, At(c, "signed"), Len(txs) < MaxTx, Accepted(c),
         queue' = queue, running' = running, memory' = memory, storage' = storage
  PROVE  /\ txs' \in Seq(Transactions) /\ Len(txs') <= MaxTx
         /\ JobTypes' /\ QueueTypes' /\ CallsOK' /\ QueuesOK' /\ OnePerAttempt' /\ HistoriesOK'
<1> DEFINE x == [call |-> c, attempt |-> job[c].failures, status |-> "pool"]
           n == Len(txs) + 1
           m == [job[c] EXCEPT !.stage = "sent"]
           q == [m EXCEPT !.hash = n]
<1>1. /\ txs \in Seq(Transactions) /\ Len(txs) \in Nat /\ MaxTx \in Nat
      /\ job[c] \in Jobs /\ JobOK(txs, job[c], c) /\ job[c].stage = "signed"
  BY TxAssumption DEF NetTypes, JobTypes, CallsOK, At
<1>2. job[c].failures \in Nat BY <1>1 DEF Jobs
<1>3. Earlier(txs, c, job[c].failures) /\ job[c].refusal = "none" /\ job[c].tab \in Tabs
  BY <1>1 DEF JobOK, Before
<1>4. x \in Transactions /\ x.call = c /\ x.attempt = job[c].failures /\ x.status = "pool"
  BY <1>2 DEF Transactions
<1>5. txs' = Append(txs, x) BY DEF Accepted
<1> HIDE DEF x
<1>6. /\ txs' \in Seq(Transactions) /\ Len(txs') = n /\ txs'[n] = x
      /\ \A h \in 1 .. Len(txs) : txs'[h] = txs[h]
  BY <1>1, <1>4, <1>5
<1>7. job' = [job EXCEPT ![c] = q] BY DEF Accepted
<1>8. n \in Nat /\ n # 0 BY <1>1
<1> HIDE DEF n
<1>9. /\ q \in Jobs /\ q.stage = "sent" /\ q.tab = job[c].tab /\ q.failures = job[c].failures
      /\ q.hash = n /\ q.refusal = job[c].refusal
  <2>1. "sent" \in Stages BY DEF Stages
  <2>2. /\ m \in Jobs /\ m.stage = "sent" /\ m.tab = job[c].tab
        /\ m.failures = job[c].failures /\ m.refusal = job[c].refusal
    BY <1>1, <2>1, MovedJob, Zenon
  <2> HIDE DEF m
  <2> QED BY <1>8, <2>2, Zenon DEF Jobs
<1> HIDE DEF q
<1>10. 1 .. Len(txs') = (1 .. Len(txs)) \cup {n} /\ n \notin 1 .. Len(txs) BY <1>1, <1>6 DEF n
<1>11. Earlier(txs', c, job[c].failures + 1)
  <2>1. Earlier(txs, c, job[c].failures + 1) BY <1>1, <1>2, <1>3, EarlierStill
  <2>2. x.attempt < job[c].failures + 1 BY <1>2, <1>4
  <2> QED BY <2>1, <2>2, <1>6, <1>10 DEF Earlier
<1>12. JobOK(txs', q, c)
  <2>1. q.hash \in 1 .. Len(txs') BY <1>9, <1>10
  <2> QED BY <2>1, <1>3, <1>9, <1>11 DEF JobOK, Before
<1>13. CallsOK'
  <2>1. \A d \in Calls : job'[d] = IF d = c THEN q ELSE job[d] BY <1>7 DEF JobTypes
  <2>2. ASSUME NEW d \in Calls, d # c PROVE JobOK(txs', job[d], d)
    <3>1. JobOK(txs, job[d], d) BY DEF CallsOK
    <3>2. \A k : Earlier(txs, d, k) => Earlier(txs', d, k)
      BY <1>4, <1>6, <1>10, <2>2 DEF Earlier
    <3>3. \A k : k \in 1 .. Len(txs) => k \in 1 .. Len(txs') BY <1>10
    <3> QED BY <3>1, <3>2, <3>3 DEF JobOK
  <2> QED BY <2>1, <2>2, <1>12 DEF CallsOK
<1>14. JobTypes' BY <1>7, <1>9 DEF JobTypes
<1>15. QueuesOK' /\ QueueTypes' BY <1>1, <1>7, <1>9, QueuesKeep DEF QueueTypes
<1>16. OnePerAttempt'
  <2>1. \A h \in 1 .. Len(txs) : txs[h].call # c \/ txs[h].attempt # job[c].failures
    <3> SUFFICES ASSUME NEW h \in 1 .. Len(txs), txs[h].call = c
                 PROVE  txs[h].attempt # job[c].failures
      OBVIOUS
    <3>1. txs[h] \in Transactions BY <1>1
    <3>2. txs[h].attempt \in Nat /\ txs[h].attempt < job[c].failures
      BY <3>1, <1>3 DEF Transactions, Earlier
    <3> QED BY <3>2, <1>2
  <2> QED BY <2>1, <1>4, <1>6, <1>10 DEF OnePerAttempt
<1>17. HistoriesOK'
  <2>1. \A e, k : EntryOK(txs, e, k) => EntryOK(txs', e, k)
    <3> SUFFICES ASSUME NEW e, NEW k, EntryOK(txs, e, k) PROVE EntryOK(txs', e, k) OBVIOUS
    <3>1. CASE k \in 1 .. Len(txs) BY <3>1, <1>6, <1>10 DEF EntryOK
    <3>2. CASE k \notin 1 .. Len(txs) BY <3>2 DEF EntryOK
    <3> QED BY <3>1, <3>2
  <2> QED BY <2>1 DEF HistoriesOK, ListOK
<1> QED BY <1>1, <1>6, <1>13, <1>14, <1>15, <1>16, <1>17 DEF n

---------------------------------------------------------------------------
(* The history.                                                            *)

(* One entry of one list is written, and the list to storage with it.       *)
LEMMA EntryWritten ==
  ASSUME HistoryTypes, HistoriesOK, NEW t \in Tabs, NEW h \in Hashes,
         NEW m \in {"pending", "success", "failed"}, EntryOK(txs, m, h), txs' = txs,
         NEW list, list = memory[t] \/ list = [memory[t] EXCEPT ![h] = m],
         memory' = [memory EXCEPT ![t] = list], storage' = list
  PROVE  HistoryTypes' /\ HistoriesOK'
<1>1. memory[t] \in Histories /\ ListOK(txs, memory[t]) BY DEF HistoryTypes, HistoriesOK
<1>2. list \in Histories BY <1>1 DEF Histories
<1>3. ListOK(txs, list) BY <1>1 DEF ListOK, Histories
<1>4. \A u \in Tabs : memory'[u] = IF u = t THEN list ELSE memory[u] BY DEF HistoryTypes
<1>5. HistoryTypes' BY <1>2 DEF HistoryTypes
<1>6. HistoriesOK' BY <1>3, <1>4 DEF HistoriesOK
<1> QED BY <1>5, <1>6

LEMMA AddKeeps ==
  ASSUME NetTypes, HistoryTypes, HistoriesOK, NEW t \in Tabs, NEW h \in 1 .. Len(txs),
         AddTransaction(t, h), txs' = txs
  PROVE  HistoryTypes' /\ HistoriesOK'
<1>1. h \in Hashes BY TxAssumption DEF NetTypes, Hashes
<1>2. EntryOK(txs, "pending", h) BY DEF EntryOK
<1>3. \E list : /\ list = memory[t] \/ list = [memory[t] EXCEPT ![h] = "pending"]
                /\ memory' = [memory EXCEPT ![t] = list] /\ storage' = list
  BY DEF AddTransaction
<1> QED BY <1>1, <1>2, <1>3, EntryWritten

LEMMA ResolveKeeps ==
  ASSUME HistoryTypes, HistoriesOK, NEW t \in Tabs, NEW h \in Hashes,
         NEW m \in {"success", "failed"},
         m = "success" => txs[h].status \in {"success", "gone"},
         m = "failed" => txs[h].status \in {"failed", "expired", "gone"},
         ResolveTransaction(t, h, m), txs' = txs
  PROVE  HistoryTypes' /\ HistoriesOK'
<1>1. CASE memory[t][h] = "none"
  <2>1. memory' = [memory EXCEPT ![t] = memory[t]] /\ storage' = memory[t]
    BY <1>1 DEF ResolveTransaction
  <2>2. memory' = memory BY <2>1 DEF HistoryTypes
  <2> QED BY <2>1, <2>2 DEF HistoryTypes, HistoriesOK
<1>2. CASE memory[t][h] # "none"
  <2>1. h \in 1 .. Len(txs) BY <1>2 DEF HistoriesOK, ListOK, EntryOK
  <2>2. EntryOK(txs, m, h) BY <2>1 DEF EntryOK
  <2>3. \E list : /\ list = memory[t] \/ list = [memory[t] EXCEPT ![h] = m]
                  /\ memory' = [memory EXCEPT ![t] = list] /\ storage' = list
    BY DEF ResolveTransaction
  <2>4. PICK list : /\ list = memory[t] \/ list = [memory[t] EXCEPT ![h] = m]
                    /\ memory' = [memory EXCEPT ![t] = list] /\ storage' = list
    BY <2>3
  <2>5. m \in {"pending", "success", "failed"} OBVIOUS
  <2> QED BY <2>2, <2>4, <2>5, EntryWritten
<1> QED BY <1>1, <1>2

---------------------------------------------------------------------------
(* The actions.                                                            *)

(* A call that waits nowhere goes on, and nothing else happens.             *)
LEMMA MoveKeeps ==
  ASSUME IInv, NEW c \in Calls, job[c].stage # "queued",
         NEW q \in Jobs, JobOK(txs, q, c), job' = [job EXCEPT ![c] = q],
         UNCHANGED <<netVars, historyVars, open, queue, running, resuming, faults>>
  PROVE  IInv'
<1>1. /\ txs' = txs /\ queue' = queue /\ running' = running
      /\ memory' = memory /\ storage' = storage
  BY DEF netVars, historyVars
<1>2. JobTypes' /\ CallsOK' BY <1>1, OneCallMoves DEF IInv
<1>3. QueuesOK' BY <1>1, QueuesKeep DEF IInv
<1>4. OnePerAttempt' /\ HistoriesOK' BY <1>1, NothingAccepted DEF IInv
<1>5. NetTypes' /\ QueueTypes' /\ HistoryTypes' /\ TabTypes'
  BY DEF IInv, netVars, historyVars, NetTypes, QueueTypes, HistoryTypes, TabTypes
<1> QED BY <1>2, <1>3, <1>4, <1>5 DEF IInv

LEMMA BuildKeeps ==
  ASSUME IInv, NEW c \in Calls, Build(c)
  PROVE  IInv'
<1> DEFINE m == [job[c] EXCEPT !.stage = "built"]
           q == [m EXCEPT !.base = seq]
<1>1. job[c] \in Jobs /\ JobOK(txs, job[c], c) /\ job[c].stage = "starting" /\ seq \in Nat
  BY DEF IInv, JobTypes, CallsOK, Build, At, NetTypes
<1>2. "built" \in Stages BY DEF Stages
<1>3. /\ m \in Jobs /\ m.stage = "built" /\ m.tab = job[c].tab /\ m.failures = job[c].failures
      /\ m.hash = job[c].hash /\ m.refusal = job[c].refusal
  BY <1>1, <1>2, MovedJob, Zenon
<1>4. job' = [job EXCEPT ![c] = q] BY DEF Build
<1> HIDE DEF m
<1>5. /\ q \in Jobs /\ q.stage = m.stage /\ q.tab = m.tab /\ q.failures = m.failures
      /\ q.hash = m.hash /\ q.refusal = m.refusal
  BY <1>1, <1>3, Zenon DEF Jobs
<1> HIDE DEF q
<1>6. q.tab \in Tabs BY <1>1, <1>3, <1>5 DEF JobOK
<1>7. JobOK(txs, q, c) BY <1>1, <1>3, <1>5, <1>6, StillBefore DEF Before
<1> QED BY <1>1, <1>4, <1>5, <1>7, MoveKeeps DEF Build

(* Simulate, Sign: from one place before anything is sent to another.       *)
LEMMA AdvanceBefore ==
  ASSUME IInv, NEW c \in Calls, NEW s \in Before, s # "idle",
         job[c].stage \in Before \ {"idle", "queued"}, Move(c, s),
         UNCHANGED <<netVars, historyVars, open, queue, running, resuming, faults>>
  PROVE  IInv'
<1> DEFINE q == [job[c] EXCEPT !.stage = s]
<1>1. job[c] \in Jobs /\ JobOK(txs, job[c], c) BY DEF IInv, JobTypes, CallsOK
<1>2. s \in Stages BY DEF Stages, Before
<1>3. /\ q \in Jobs /\ q.stage = s /\ q.tab = job[c].tab /\ q.failures = job[c].failures
      /\ q.hash = job[c].hash /\ q.refusal = job[c].refusal
  BY <1>1, <1>2, MovedJob, Zenon
<1>4. job' = [job EXCEPT ![c] = q] BY DEF Move
<1> HIDE DEF q
<1>5. q.tab \in Tabs BY <1>1, <1>3 DEF JobOK
<1>6. JobOK(txs, q, c) BY <1>1, <1>3, <1>5, StillBefore
<1> QED BY <1>3, <1>4, <1>6, MoveKeeps

LEMMA SendKeeps ==
  ASSUME IInv, NEW c \in Calls, Send(c)
  PROVE  IInv'
<1>1. /\ At(c, "signed") /\ Len(txs) < MaxTx
      /\ UNCHANGED <<seq, others, historyVars, open, queue, running, resuming, faults>>
  BY DEF Send
<1>2. job[c] \in Jobs /\ JobOK(txs, job[c], c) /\ job[c].stage = "signed"
  BY <1>1 DEF IInv, JobTypes, CallsOK, At
<1>3. CASE Accepted(c)
  <2>1. queue' = queue /\ running' = running /\ memory' = memory /\ storage' = storage
    BY <1>1 DEF historyVars
  <2>2. /\ txs' \in Seq(Transactions) /\ Len(txs') <= MaxTx
        /\ JobTypes' /\ QueueTypes' /\ CallsOK' /\ QueuesOK' /\ OnePerAttempt' /\ HistoriesOK'
    BY <1>1, <1>3, <2>1, AcceptedKeeps DEF IInv
  <2>3. NetTypes' BY <1>1, <2>2 DEF IInv, NetTypes
  <2>4. HistoryTypes' /\ TabTypes' BY <1>1, <2>1 DEF IInv, HistoryTypes, TabTypes
  <2> QED BY <2>2, <2>3, <2>4 DEF IInv
<1>4. ASSUME NEW why \in {"BAD_SEQ", "TRY_AGAIN_LATER"}, Refused(c, why) PROVE IInv'
  <2> DEFINE m == [job[c] EXCEPT !.stage = "sent"]
             q == [m EXCEPT !.refusal = why]
  <2>1. "sent" \in Stages BY DEF Stages
  <2>2. /\ m \in Jobs /\ m.stage = "sent" /\ m.tab = job[c].tab
        /\ m.failures = job[c].failures /\ m.hash = job[c].hash
    BY <1>2, <2>1, MovedJob, Zenon
  <2>3. job' = [job EXCEPT ![c] = q] BY <1>4 DEF Refused
  <2> HIDE DEF m
  <2>4. /\ q \in Jobs /\ q.stage = m.stage /\ q.tab = m.tab /\ q.failures = m.failures
        /\ q.hash = m.hash
    <3>1. why \in {"none", "BAD_SEQ", "TRY_AGAIN_LATER"} OBVIOUS
    <3> QED BY <2>2, <3>1, Zenon DEF Jobs
  <2> HIDE DEF q
  <2>5. Earlier(txs, c, job[c].failures) /\ job[c].hash = 0 /\ job[c].tab \in Tabs
    BY <1>2 DEF JobOK, Before
  <2>6. Earlier(txs, c, job[c].failures + 1)
    BY <1>2, AttemptEnds DEF IInv, Attempting
  <2>7. JobOK(txs, q, c) BY <2>2, <2>4, <2>5, <2>6 DEF JobOK, Before
  <2>8. UNCHANGED <<netVars, historyVars, open, queue, running, resuming, faults>>
    BY <1>1, <1>4 DEF Refused, netVars
  <2> QED BY <1>2, <2>3, <2>4, <2>7, <2>8, MoveKeeps
<1> QED BY <1>3, <1>4 DEF Send

LEMMA ReplyAcceptedKeeps ==
  ASSUME IInv, NEW c \in Calls, ReplyAccepted(c)
  PROVE  IInv'
<1> DEFINE q == [job[c] EXCEPT !.stage = "polling"]
<1>1. /\ job[c] \in Jobs /\ JobOK(txs, job[c], c) /\ job[c].stage = "sent" /\ job[c].hash # 0
      /\ txs' = txs /\ queue' = queue /\ running' = running
  BY DEF IInv, JobTypes, CallsOK, ReplyAccepted, At, netVars
<1>2. /\ job[c].hash \in 1 .. Len(txs) /\ job[c].tab \in Tabs
      /\ Earlier(txs, c, job[c].failures + 1)
  BY <1>1 DEF JobOK
<1>3. "polling" \in Stages BY DEF Stages
<1>4. /\ q \in Jobs /\ q.stage = "polling" /\ q.tab = job[c].tab
      /\ q.failures = job[c].failures /\ q.hash = job[c].hash
  BY <1>1, <1>3, MovedJob, Zenon
<1>5. job' = [job EXCEPT ![c] = q] BY DEF ReplyAccepted, Move
<1> HIDE DEF q
<1>6. JobOK(txs, q, c) BY <1>2, <1>4 DEF JobOK, Before
<1>7. JobTypes' /\ CallsOK' BY <1>1, <1>4, <1>5, <1>6, OneCallMoves DEF IInv
<1>8. QueuesOK' BY <1>1, <1>4, <1>5, QueuesKeep DEF IInv
<1>9. HistoryTypes' /\ HistoriesOK'
  BY <1>1, <1>2, AddKeeps DEF IInv, ReplyAccepted
<1>10. OnePerAttempt' BY <1>1 DEF IInv, OnePerAttempt
<1>11. NetTypes' /\ QueueTypes' /\ TabTypes'
  BY <1>1 DEF IInv, ReplyAccepted, netVars, NetTypes, QueueTypes, TabTypes
<1> QED BY <1>7, <1>8, <1>9, <1>10, <1>11 DEF IInv

LEMMA ReplyBadSeqKeeps ==
  ASSUME IInv, NEW c \in Calls, ReplyBadSeq(c)
  PROVE  IInv'
<1> DEFINE m == [job[c] EXCEPT !.stage = "starting"]
           p == [m EXCEPT !.rebuilt = TRUE]
           q == [p EXCEPT !.refusal = "none"]
<1>1. /\ job[c] \in Jobs /\ JobOK(txs, job[c], c)
      /\ job[c].stage = "sent" /\ job[c].refusal = "BAD_SEQ"
  BY DEF IInv, JobTypes, CallsOK, ReplyBadSeq, At
<1>2. Earlier(txs, c, job[c].failures) /\ job[c].hash = 0 /\ job[c].tab \in Tabs
  BY <1>1 DEF JobOK
<1>3. "starting" \in Stages BY DEF Stages
<1>4. /\ m \in Jobs /\ m.stage = "starting" /\ m.tab = job[c].tab
      /\ m.failures = job[c].failures /\ m.hash = job[c].hash
  BY <1>1, <1>3, MovedJob, Zenon
<1>5. job' = [job EXCEPT ![c] = q] BY Zenon DEF ReplyBadSeq
<1> HIDE DEF m
<1>6. /\ p \in Jobs /\ p.stage = m.stage /\ p.tab = m.tab /\ p.failures = m.failures
      /\ p.hash = m.hash
  <2>1. TRUE \in BOOLEAN OBVIOUS
  <2> QED BY <1>4, <2>1, Zenon DEF Jobs
<1> HIDE DEF p
<1>7. /\ q \in Jobs /\ q.stage = p.stage /\ q.tab = p.tab /\ q.failures = p.failures
      /\ q.hash = p.hash /\ q.refusal = "none"
  <2>1. "none" \in {"none", "BAD_SEQ", "TRY_AGAIN_LATER"} OBVIOUS
  <2> QED BY <1>6, <2>1, Zenon DEF Jobs
<1> HIDE DEF q
<1>8. JobOK(txs, q, c) BY <1>2, <1>4, <1>6, <1>7 DEF JobOK, Before
<1> QED BY <1>1, <1>5, <1>7, <1>8, MoveKeeps DEF ReplyBadSeq

(* What ends an attempt and says nothing in the history.                    *)
LEMMA EndsKeep ==
  ASSUME IInv, NEW c \in Calls, job[c].stage \in Attempting, NEW error,
         End(job[c].tab, c, error), faults' \in Nat,
         UNCHANGED <<netVars, historyVars, open, resuming>>
  PROVE  IInv'
<1>1. txs' = txs /\ memory' = memory /\ storage' = storage BY DEF netVars, historyVars
<1>2. JobTypes' /\ QueueTypes' /\ CallsOK' /\ QueuesOK' BY <1>1, EndKeeps DEF IInv
<1>3. OnePerAttempt' /\ HistoriesOK' BY <1>1, NothingAccepted DEF IInv
<1>4. NetTypes' /\ HistoryTypes' /\ TabTypes'
  BY DEF IInv, netVars, historyVars, NetTypes, HistoryTypes, TabTypes
<1> QED BY <1>2, <1>3, <1>4 DEF IInv

LEMMA PollSettlesKeeps ==
  ASSUME IInv, NEW c \in Calls, PollSettles(c)
  PROVE  IInv'
<1> DEFINE h == job[c].hash
           t == job[c].tab
<1>1. /\ job[c].stage = "polling" /\ JobOK(txs, job[c], c) /\ txs' = txs
      /\ txs[h].status \in {"success", "failed"} /\ ResolveTransaction(t, h, txs[h].status)
  BY DEF IInv, CallsOK, PollSettles, At, netVars
<1>2. h \in 1 .. Len(txs) /\ t \in Tabs BY <1>1 DEF JobOK
<1>3. h \in Hashes BY <1>2, TxAssumption DEF IInv, NetTypes, Hashes
<1>4. HistoryTypes' /\ HistoriesOK' BY <1>1, <1>2, <1>3, ResolveKeeps DEF IInv
<1>5. \E error : End(t, c, error) BY DEF PollSettles
<1>6. JobTypes' /\ QueueTypes' /\ CallsOK' /\ QueuesOK'
  BY <1>1, <1>5, EndKeeps DEF IInv, Attempting
<1>7. OnePerAttempt' BY <1>1 DEF IInv, OnePerAttempt
<1>8. NetTypes' /\ TabTypes' BY DEF IInv, PollSettles, netVars, NetTypes, TabTypes
<1> QED BY <1>4, <1>6, <1>7, <1>8 DEF IInv

(* Click, Retry.                                                            *)
LEMMA StartsKeep ==
  ASSUME IInv, NEW t \in Tabs, NEW c \in Calls, job[c].stage \in {"idle", "retrying"},
         Start(t, c), UNCHANGED <<netVars, historyVars, open, resuming, faults>>
  PROVE  IInv'
<1>1. txs' = txs /\ memory' = memory /\ storage' = storage BY DEF netVars, historyVars
<1>2. job[c].stage \in Before /\ job[c].stage # "queued" BY DEF Before
<1>3. JobTypes' /\ QueueTypes' /\ CallsOK' /\ QueuesOK' BY <1>1, <1>2, StartKeeps DEF IInv
<1>4. OnePerAttempt' /\ HistoriesOK' BY <1>1, NothingAccepted DEF IInv
<1>5. NetTypes' /\ HistoryTypes' /\ TabTypes'
  BY DEF IInv, netVars, historyVars, NetTypes, HistoryTypes, TabTypes
<1> QED BY <1>3, <1>4, <1>5 DEF IInv

(* What can go on by itself does, or ends.                                  *)
LEMMA AdvanceKeeps ==
  ASSUME IInv, NEW c \in Calls, Advance(c) \/ GiveUp(c) \/ SendThrows(c)
  PROVE  IInv'
<1>1. faults \in Nat /\ (Fault => faults' \in Nat) BY DEF IInv, NetTypes, Fault
<1>2. CASE Retry(c)
  <2>1. job[c].stage = "retrying" BY <1>2 DEF Retry, At
  <2>2. job[c].tab \in Tabs BY <2>1 DEF IInv, CallsOK, JobOK
  <2> QED BY <1>2, <2>1, <2>2, StartsKeep DEF Retry
<1>3. CASE Build(c) BY <1>3, BuildKeeps
<1>4. CASE Simulate(c) BY <1>4, AdvanceBefore DEF Simulate, At, Before
<1>5. CASE Sign(c) BY <1>5, AdvanceBefore DEF Sign, At, Before
<1>6. CASE Send(c) BY <1>6, SendKeeps
<1>7. CASE ReplyAccepted(c) BY <1>7, ReplyAcceptedKeeps
<1>8. CASE ReplyBadSeq(c) BY <1>8, ReplyBadSeqKeeps
<1>9. CASE ReplyRefused(c)
  <2>1. job[c].stage \in Attempting /\ faults' \in Nat
    BY <1>1, <1>9 DEF ReplyRefused, At, Attempting
  <2> QED BY <1>9, <2>1, EndsKeep DEF ReplyRefused
<1>10. CASE PollSettles(c) BY <1>10, PollSettlesKeeps
<1>11. CASE PollTimesOut(c)
  <2>1. job[c].stage \in Attempting /\ faults' \in Nat
    BY <1>1, <1>11 DEF PollTimesOut, At, Attempting
  <2>2. \E error : End(job[c].tab, c, error) BY <1>11 DEF PollTimesOut
  <2> QED BY <1>11, <2>1, <2>2, EndsKeep DEF PollTimesOut
<1>12. CASE GiveUp(c)
  <2>1. job[c].stage \in Attempting /\ \E error : End(job[c].tab, c, error)
    BY <1>12 DEF GiveUp, At, Attempting
  <2> QED BY <1>1, <1>12, <2>1, EndsKeep DEF GiveUp
<1>13. CASE SendThrows(c)
  <2>1. job[c].stage \in Attempting BY <1>13 DEF SendThrows, At, Attempting
  <2> QED BY <1>1, <1>13, <2>1, EndsKeep DEF SendThrows
<1> QED
  BY <1>2, <1>3, <1>4, <1>5, <1>6, <1>7, <1>8, <1>9, <1>10, <1>11, <1>12, <1>13 DEF Advance

LEMMA CloseKeeps ==
  ASSUME IInv, NEW t \in Tabs, Close(t)
  PROVE  IInv'
<1> DEFINE ended == [NewJob EXCEPT !.stage = "closed", !.tab = t]
<1>1. ended \in Jobs /\ ended.stage = "closed" /\ ended.tab = t BY ClosedJob, Zenon
<1> DEFINE gone(c) == job[c].tab = t /\ job[c].stage \notin {"succeeded", "failed"}
<1>2. job' = [c \in Calls |-> IF gone(c) THEN ended ELSE job[c]] BY Zenon DEF Close
<1> HIDE DEF ended
<1>3. \A c \in Calls : job'[c] = IF gone(c) THEN ended ELSE job[c] BY <1>2
<1>4. JobTypes' BY <1>1, <1>2 DEF IInv, JobTypes
<1>5. /\ txs' = txs /\ storage' = storage
      /\ memory' = [memory EXCEPT ![t] = Blank]
      /\ queue' = [queue EXCEPT ![t] = << >>] /\ running' = [running EXCEPT ![t] = None]
  BY DEF Close, netVars
<1>6. CallsOK'
  <2>1. \A c \in Calls : JobOK(txs, ended, c) BY <1>1 DEF JobOK, Before
  <2> QED BY <1>3, <1>5, <2>1 DEF IInv, CallsOK
<1>7. QueueTypes'
  <2>1. << >> \in Seq(Calls) OBVIOUS
  <2> QED BY <1>5, <2>1 DEF IInv, QueueTypes
<1>8. QueuesOK'
  <2>1. \A u \in Tabs : queue'[u] = IF u = t THEN << >> ELSE queue[u]
    BY <1>5 DEF IInv, QueueTypes
  <2>2. ASSUME NEW u \in Tabs, NEW i \in 1 .. Len(queue'[u])
        PROVE  /\ job'[queue'[u][i]].stage = "queued" /\ job'[queue'[u][i]].tab = u
               /\ \A k \in 1 .. Len(queue'[u]) : queue'[u][i] = queue'[u][k] => i = k
    <3>1. u # t
      <4>1. u = t => Len(queue'[u]) = 0 BY <2>1
      <4> QED BY <4>1
    <3>2. queue'[u] = queue[u] BY <2>1, <3>1
    <3>3. queue[u] \in Seq(Calls) BY DEF IInv, QueueTypes
    <3>4. queue[u][i] \in Calls BY <3>2, <3>3
    <3>5. job[queue[u][i]].stage = "queued" /\ job[queue[u][i]].tab = u
      BY <3>2 DEF IInv, QueuesOK
    <3>6. job'[queue[u][i]] = job[queue[u][i]] BY <1>3, <3>1, <3>4, <3>5
    <3> QED BY <3>2, <3>5, <3>6 DEF IInv, QueuesOK
  <2> QED BY <2>2 DEF QueuesOK
<1>9. Blank \in Histories /\ ListOK(txs, Blank) BY DEF Blank, Histories, ListOK, EntryOK
<1>10. HistoryTypes' BY <1>5, <1>9 DEF IInv, HistoryTypes
<1>11. HistoriesOK'
  <2>1. \A u \in Tabs : memory'[u] = IF u = t THEN Blank ELSE memory[u]
    BY <1>5 DEF IInv, HistoryTypes
  <2> QED BY <1>5, <1>9, <2>1 DEF IInv, HistoriesOK
<1>12. OnePerAttempt' BY <1>5 DEF IInv, OnePerAttempt
<1>13. NetTypes' /\ TabTypes' BY DEF IInv, Close, netVars, NetTypes, TabTypes
<1> QED BY <1>4, <1>6, <1>7, <1>8, <1>10, <1>11, <1>12, <1>13 DEF IInv

(* Nothing changes for the calls.                                           *)
LEMMA CallsStay ==
  ASSUME IInv, job' = job, queue' = queue, running' = running, txs' = txs
  PROVE  JobTypes' /\ QueueTypes' /\ CallsOK' /\ QueuesOK' /\ OnePerAttempt'
BY DEF IInv, JobTypes, QueueTypes, CallsOK, QueuesOK, OnePerAttempt

LEMMA OpenKeeps ==
  ASSUME IInv, NEW t \in Tabs, Open(t)
  PROVE  IInv'
<1>1. /\ memory' = [memory EXCEPT ![t] = storage] /\ storage' = storage
      /\ open' = [open EXCEPT ![t] = TRUE]
      /\ resuming' = [resuming EXCEPT ![t] = {h \in Hashes : storage[h] = "pending"}]
      /\ UNCHANGED <<seq, txs, others, queue, running, job, faults>>
  BY DEF Open, netVars
<1>2. JobTypes' /\ QueueTypes' /\ CallsOK' /\ QueuesOK' /\ OnePerAttempt' BY <1>1, CallsStay
<1>3. HistoryTypes' BY <1>1 DEF IInv, HistoryTypes
<1>4. \A u \in Tabs : memory'[u] = IF u = t THEN storage ELSE memory[u]
  BY <1>1 DEF IInv, HistoryTypes
<1>5. HistoriesOK' BY <1>1, <1>4 DEF IInv, HistoriesOK
<1>6. NetTypes' BY <1>1 DEF IInv, NetTypes
<1>7. TabTypes' BY <1>1 DEF IInv, TabTypes
<1> QED BY <1>2, <1>3, <1>5, <1>6, <1>7 DEF IInv

LEMMA ResumeKeeps ==
  ASSUME IInv, NEW t \in Tabs, NEW h \in Hashes, ResumeSettles(t, h) \/ ResumeGivesUp(t, h)
  PROVE  IInv'
<1>1. /\ resuming' = [resuming EXCEPT ![t] = resuming[t] \ {h}] /\ txs' = txs
      /\ UNCHANGED <<seq, others, open, queue, running, job>>
  BY DEF ResumeSettles, ResumeGivesUp, netVars
<1>2. JobTypes' /\ QueueTypes' /\ CallsOK' /\ QueuesOK' /\ OnePerAttempt' BY <1>1, CallsStay
<1>3. HistoryTypes' /\ HistoriesOK'
  <2>1. CASE ResumeSettles(t, h)
    <3>1. Verdict(h) # "pending" /\ ResolveTransaction(t, h, Verdict(h))
      BY <2>1 DEF ResumeSettles
    <3>2. \/ Verdict(h) = "success" /\ txs[h].status = "success"
          \/ Verdict(h) = "failed" /\ txs[h].status \in {"failed", "expired", "gone"}
      BY <3>1 DEF Verdict
    <3> QED BY <1>1, <3>1, <3>2, ResolveKeeps DEF IInv
  <2>2. CASE ResumeGivesUp(t, h)
    BY <1>1, <2>2 DEF ResumeGivesUp, historyVars, IInv, HistoryTypes, HistoriesOK
  <2> QED BY <2>1, <2>2
<1>4. faults' \in Nat BY DEF IInv, NetTypes, ResumeSettles, ResumeGivesUp, Fault
<1>5. NetTypes' BY <1>1, <1>4 DEF IInv, NetTypes
<1>6. TabTypes' BY <1>1 DEF IInv, TabTypes
<1> QED BY <1>2, <1>3, <1>5, <1>6 DEF IInv

LEMMA NetworkKeeps ==
  ASSUME IInv, Network
  PROVE  IInv'
<1>1. /\ UNCHANGED <<memory, storage, open, queue, running, job, resuming>>
      /\ seq' \in Nat /\ others' \in Nat /\ faults' \in Nat
  BY DEF Network, Apply, Expire, OtherTx, Forget, historyVars, tabVars, Fault, IInv, NetTypes
<1>2. \/ txs' = txs
      \/ \E h \in 1 .. Len(txs), s \in {"success", "failed", "expired", "gone"} :
           /\ txs[h].status = "pool" \/ (txs[h].status = "success" /\ s = "gone")
           /\ txs' = [txs EXCEPT ![h].status = s]
  <2>1. \A h \in Pending : h \in 1 .. Len(txs) /\ txs[h].status = "pool" BY DEF Pending
  <2>2. CASE Apply BY <2>1, <2>2, Zenon DEF Apply
  <2>3. CASE Expire BY <2>1, <2>3, Zenon DEF Expire
  <2>4. CASE OtherTx BY <2>4 DEF OtherTx
  <2>5. CASE Forget BY <2>5, Zenon DEF Forget
  <2> QED BY <2>2, <2>3, <2>4, <2>5 DEF Network
<1>3. CASE txs' = txs
  <2>1. JobTypes' /\ QueueTypes' /\ CallsOK' /\ QueuesOK' /\ OnePerAttempt'
    BY <1>1, <1>3, CallsStay
  <2>2. HistoriesOK' BY <1>1, <1>3, NothingAccepted DEF IInv
  <2>3. NetTypes' /\ HistoryTypes' /\ TabTypes'
    BY <1>1, <1>3 DEF IInv, NetTypes, HistoryTypes, TabTypes
  <2> QED BY <2>1, <2>2, <2>3 DEF IInv
<1>4. ASSUME NEW h \in 1 .. Len(txs), NEW s \in {"success", "failed", "expired", "gone"},
             txs[h].status = "pool" \/ (txs[h].status = "success" /\ s = "gone"),
             txs' = [txs EXCEPT ![h].status = s]
      PROVE  IInv'
  <2>1. /\ txs' \in Seq(Transactions) /\ Len(txs') <= MaxTx
        /\ CallsOK' /\ OnePerAttempt' /\ HistoriesOK'
    BY <1>1, <1>4, StatusMoves DEF IInv
  <2>2. NetTypes' BY <1>1, <2>1 DEF NetTypes
  <2>3. JobTypes' /\ QueueTypes' /\ QueuesOK' /\ HistoryTypes' /\ TabTypes'
    BY <1>1 DEF IInv, JobTypes, QueueTypes, QueuesOK, HistoryTypes, TabTypes
  <2> QED BY <2>1, <2>2, <2>3 DEF IInv
<1> QED BY <1>2, <1>3, <1>4

---------------------------------------------------------------------------
LEMMA InitInvariant == Init => IInv
<1> SUFFICES ASSUME Init PROVE IInv OBVIOUS
<1>1. txs = << >> /\ Len(txs) = 0 BY DEF Init
<1>2. NetTypes BY <1>1, TxAssumption DEF Init, NetTypes
<1>3. << >> \in Seq(Calls) OBVIOUS
<1>4. QueueTypes BY <1>3 DEF Init, QueueTypes
<1>5. JobTypes BY NewJobFacts DEF Init, JobTypes
<1>6. Blank \in Histories /\ ListOK(txs, Blank) BY DEF Blank, Histories, ListOK, EntryOK
<1>7. HistoryTypes /\ HistoriesOK BY <1>6 DEF Init, HistoryTypes, HistoriesOK
<1>8. TabTypes BY DEF Init, TabTypes
<1>9. CallsOK
  <2>1. \A c \in Calls : Earlier(txs, c, 0) BY <1>1 DEF Earlier
  <2>2. \A c \in Calls : JobOK(txs, NewJob, c) BY <2>1, NewJobFacts DEF JobOK
  <2> QED BY <2>2 DEF Init, CallsOK
<1>10. OnePerAttempt BY <1>1 DEF OnePerAttempt
<1>11. QueuesOK
  <2>1. \A t \in Tabs : Len(queue[t]) = 0 BY DEF Init
  <2> QED BY <2>1 DEF QueuesOK
<1> QED BY <1>2, <1>4, <1>5, <1>7, <1>8, <1>9, <1>10, <1>11 DEF IInv

LEMMA NextInvariant ==
  ASSUME IInv, [Next]_vars
  PROVE  IInv'
<1>1. ASSUME NEW t \in Tabs, NEW c \in Calls, Click(t, c) PROVE IInv'
  <2>1. job[c].stage = "idle" BY <1>1, NewJobFacts DEF Click
  <2> QED BY <1>1, <2>1, StartsKeep DEF Click
<1>2. ASSUME NEW c \in Calls, Advance(c) \/ GiveUp(c) \/ SendThrows(c) PROVE IInv'
  BY <1>2, AdvanceKeeps
<1>3. ASSUME NEW t \in Tabs, Close(t) \/ Open(t) PROVE IInv' BY <1>3, CloseKeeps, OpenKeeps
<1>4. ASSUME NEW t \in Tabs, NEW h \in Hashes, ResumeSettles(t, h) \/ ResumeGivesUp(t, h)
      PROVE  IInv'
  BY <1>4, ResumeKeeps
<1>5. CASE Network BY <1>5, NetworkKeeps
<1>6. CASE UNCHANGED vars
  <2>1. /\ UNCHANGED <<seq, txs, others, memory, storage>>
        /\ UNCHANGED <<open, queue, running, job, resuming, faults>>
    BY <1>6 DEF vars, netVars, historyVars, tabVars
  <2>2. JobTypes' /\ QueueTypes' /\ CallsOK' /\ QueuesOK' /\ OnePerAttempt' BY <2>1, CallsStay
  <2>3. HistoriesOK' BY <2>1, NothingAccepted DEF IInv
  <2>4. NetTypes' /\ HistoryTypes' /\ TabTypes'
    BY <2>1 DEF IInv, NetTypes, HistoryTypes, TabTypes
  <2> QED BY <2>2, <2>3, <2>4 DEF IInv
<1> QED BY <1>1, <1>2, <1>3, <1>4, <1>5, <1>6 DEF Next

LEMMA Invariant == Spec => []IInv
<1>1. Init => IInv BY InitInvariant
<1>2. IInv /\ [Next]_vars => IInv' BY NextInvariant
<1> QED BY <1>1, <1>2, PTL DEF Spec

(* Every reachable state of the pipeline is well-formed.                    *)
THEOREM TypeCorrect == Spec => []TypeOK
<1>1. IInv => TypeOK
  BY DEF IInv, TypeOK, NetTypes, QueueTypes, JobTypes, HistoryTypes, TabTypes
<1> QED BY <1>1, Invariant, PTL

(* One run of executeTransaction has effect at most once, although it may   *)
(* sign and send twice (transaction.ts: the one rebuild after BAD_SEQ).     *)
THEOREM AnAttemptLandsOnce == Spec => []AttemptLandsOnce
<1>1. IInv => AttemptLandsOnce BY DEF IInv, OnePerAttempt, AttemptLandsOnce
<1> QED BY <1>1, Invariant, PTL

(* No tab and no reload ever finds a success that had no effect or a        *)
(* failure that had one, whatever tabs overwrite of each other's history.   *)
THEOREM HistoryIsTruthful == Spec => []HistoryTruthful
<1>1. ASSUME IInv PROVE HistoryTruthful
  <2>1. \A h \in 1 .. Len(txs) : h \in Hashes
    BY <1>1, TxAssumption DEF IInv, NetTypes, Hashes
  <2>2. ASSUME NEW h \in 1 .. Len(txs)
        PROVE  Truthful(h, storage[h] = "success", storage[h] = "failed")
    BY <1>1, <2>1, <2>2 DEF IInv, HistoriesOK, ListOK, EntryOK, Truthful, Landed
  <2>3. ASSUME NEW t \in Tabs, NEW h \in DOMAIN HistoryPanel(t)
        PROVE  Truthful(h, HistoryPanel(t)[h] = "Confirmed", HistoryPanel(t)[h] = "Failed")
    <3>1. h \in Hashes /\ memory[t][h] # "none" BY <2>3 DEF HistoryPanel
    <3>2. memory[t][h] \in {"pending", "success", "failed"}
      BY <1>1, <3>1 DEF IInv, HistoryTypes, Histories
    <3>3. /\ memory[t][h] = "pending" => HistoryPanel(t)[h] = "Confirming"
          /\ memory[t][h] = "success" => HistoryPanel(t)[h] = "Confirmed"
          /\ memory[t][h] = "failed" => HistoryPanel(t)[h] = "Failed"
      BY <2>3, <3>1 DEF HistoryPanel
    <3>4. EntryOK(txs, memory[t][h], h) BY <1>1, <3>1 DEF IInv, HistoriesOK, ListOK
    <3> QED BY <3>2, <3>3, <3>4 DEF EntryOK, Truthful, Landed
  <2> QED BY <2>2, <2>3 DEF HistoryTruthful
<1> QED BY <1>1, Invariant, PTL

---------------------------------------------------------------------------
(* One tab: what it signs is for the next sequence number, and what it has  *)
(* recorded stays.  The queue makes the call that is being processed the    *)
(* only one of the tab, and what the network still holds is its own         *)
(* (SerialOK); the tab's memory is what local storage holds, and what is    *)
(* resumed was sent before the tab was opened (MirrorsOK, ResumesOK).       *)
OneTab == \A s, t \in Tabs : s = t

Sending == {"sent", "polling"}
Live == Attempting \cup {"queued", "retrying"}

RunningOK == \A c \in Calls : job[c].stage \in Attempting => running[job[c].tab] = c
LiveOK == \A c \in Calls : job[c].stage \in Live => open[job[c].tab]

BaseIsNext == \A c \in Calls : job[c].stage \in {"built", "signing", "signed"} => job[c].base = seq
Awaited == \A h \in Pending : \E c \in Calls : job[c].stage \in Sending /\ job[c].hash = h
SerialOK == others = 0 /\ ~LeftOpen => BaseIsNext /\ Awaited

MirrorsOK ==
  \A t \in Tabs : /\ open[t] => memory[t] = storage
                  /\ ~open[t] => resuming[t] = {}

ResumesOK ==
  \A t \in Tabs : \A h \in resuming[t] :
    /\ storage[h] = "pending"
    /\ \A c \in Calls : job[c].stage \in Sending => job[c].hash # h

SInv == IInv /\ RunningOK /\ LiveOK /\ SerialOK /\ MirrorsOK /\ ResumesOK /\ Recorded

(* What NothingForgotten says of a step.                                    *)
Lasting ==
  \A h \in Hashes : storage[h] # "none" =>
    storage'[h] \in {storage[h]} \cup
      (IF storage[h] = "pending" THEN {"success", "failed"} ELSE {})

OnlyMoves(c) == \A d \in Calls : d # c => job'[d] = job[d]

(* A call that is at an attempt is in a tab, and there is no other one.     *)
LEMMA OneAttempt ==
  ASSUME OneTab, IInv, RunningOK, NEW c \in Calls, NEW d \in Calls,
         job[c].stage \in Attempting, job[d].stage \in Attempting
  PROVE  c = d
<1>1. job[c].tab \in Tabs /\ job[d].tab \in Tabs
  BY DEF IInv, CallsOK, JobOK, Attempting
<1>2. job[c].tab = job[d].tab BY <1>1 DEF OneTab
<1> QED BY <1>2 DEF RunningOK

(* The end of an attempt, and the start of the next call in the queue.      *)
LEMMA EndEffect ==
  ASSUME IInv, NEW c \in Calls, job[c].stage \in Attempting, NEW error,
         End(job[c].tab, c, error)
  PROVE  /\ job[c].tab \in Tabs
         /\ job'[c].stage \in {"succeeded", "retrying", "failed"}
         /\ job'[c].tab = job[c].tab
         /\ \/ running' = [running EXCEPT ![job[c].tab] = None] /\ OnlyMoves(c)
            \/ \E d \in Calls :
                 /\ d # c /\ job[d].stage = "queued" /\ job[d].tab = job[c].tab
                 /\ job'[d].stage = "starting" /\ job'[d].tab = job[c].tab
                 /\ running' = [running EXCEPT ![job[c].tab] = d]
                 /\ \A e \in Calls : e # c /\ e # d => job'[e] = job[e]
<1> DEFINE t == job[c].tab
<1>1. t \in Tabs /\ Earlier(txs, c, job[c].failures + 1) BY AttemptEnds DEF IInv
<1>2. PICK e \in Jobs : /\ Dequeued(t, [job EXCEPT ![c] = e])
                        /\ e.tab = t /\ e.stage \in {"succeeded", "retrying", "failed"}
  <2>1. job[c] \in Jobs BY DEF IInv, JobTypes
  <2>2. job[c].failures + 1 \in Nat BY <2>1 DEF Jobs
  <2> QED BY <1>1, <2>2, EndRecord
<1>3. job \in [Calls -> Jobs] /\ queue[t] \in Seq(Calls)
  BY <1>1 DEF IInv, JobTypes, QueueTypes
<1>4. CASE queue[t] = << >>
  <2>1. running' = [running EXCEPT ![t] = None] /\ job' = [job EXCEPT ![c] = e]
    BY <1>2, <1>4 DEF Dequeued
  <2>2. job'[c] = e /\ OnlyMoves(c) BY <1>3, <2>1 DEF OnlyMoves
  <2> QED BY <1>1, <1>2, <2>1, <2>2
<1>5. CASE queue[t] # << >>
  <2> DEFINE d == Head(queue[t])
             r == [job[d] EXCEPT !.stage = "starting"]
  <2>1. d = queue[t][1] /\ 1 \in 1 .. Len(queue[t]) /\ d \in Calls BY <1>3, <1>5
  <2>2. job[d].stage = "queued" /\ job[d].tab = t BY <1>1, <2>1 DEF IInv, QueuesOK
  <2>3. d # c BY <2>2 DEF Attempting
  <2>4. running' = [running EXCEPT ![t] = d]
        /\ job' = [[job EXCEPT ![c] = e] EXCEPT ![d].stage = "starting"]
    BY <1>2, <1>5 DEF Dequeued
  <2>5. "starting" \in Stages BY DEF Stages
  <2>6. r.stage = "starting" /\ r.tab = t
    <3>1. job[d] \in Jobs BY <1>3, <2>1
    <3> QED BY <2>2, <2>5, <3>1, MovedJob, Zenon
  <2> HIDE DEF d
  <2>7. job'[d] = r /\ job'[c] = e /\ \A f \in Calls : f # c /\ f # d => job'[f] = job[f]
    BY <1>3, <2>1, <2>3, <2>4
  <2> HIDE DEF r
  <2> QED BY <1>1, <1>2, <2>1, <2>2, <2>3, <2>4, <2>6, <2>7
<1> QED BY <1>4, <1>5

---------------------------------------------------------------------------
(* Running calls and open tabs.                                             *)

(* One call moves on within its attempt.                                    *)
LEMMA MoveRuns ==
  ASSUME RunningOK, LiveOK, NEW c \in Calls, OnlyMoves(c), job[c].stage \in Attempting,
         job'[c].stage \in Attempting, job'[c].tab = job[c].tab,
         running' = running, open' = open
  PROVE  RunningOK' /\ LiveOK'
BY DEF RunningOK, LiveOK, Live, OnlyMoves

LEMMA StartRuns ==
  ASSUME IInv, RunningOK, LiveOK, NEW t \in Tabs, NEW c \in Calls, open[t], Start(t, c),
         job[c].stage \in {"idle", "retrying"}, open' = open
  PROVE  /\ RunningOK' /\ LiveOK' /\ OnlyMoves(c)
         /\ job'[c].stage \in {"starting", "queued"}
<1> DEFINE s == IF running[t] = None THEN "starting" ELSE "queued"
           m == [job[c] EXCEPT !.stage = s]
           q == [m EXCEPT !.tab = t]
<1>1. job[c] \in Jobs /\ s \in Stages BY DEF IInv, JobTypes, Stages
<1>2. q.stage = s /\ q.tab = t
  <2> HIDE DEF s
  <2>1. m \in Jobs /\ m.stage = s BY <1>1, MovedJob, Zenon
  <2> HIDE DEF m
  <2> QED BY <2>1, PlacedJob, Zenon
<1>3. job' = [job EXCEPT ![c] = q] BY DEF Start
<1> HIDE DEF q
<1>4. job'[c] = q /\ OnlyMoves(c) BY <1>3 DEF IInv, JobTypes, OnlyMoves
<1>5. LiveOK' BY <1>2, <1>4 DEF LiveOK, OnlyMoves
<1>6. RunningOK'
  <2>1. CASE running[t] = None
    <3>1. running' = [running EXCEPT ![t] = c] BY <2>1 DEF Start
    <3>2. \A d \in Calls : job[d].stage \in Attempting => job[d].tab \in Tabs
      BY DEF IInv, CallsOK, JobOK, Attempting
    <3>3. \A d \in Calls : d # None BY TxAssumption
    <3>4. \A d \in Calls : job[d].stage \in Attempting => job[d].tab # t
      BY <2>1, <3>3 DEF RunningOK
    <3>5. \A u \in Tabs : running'[u] = IF u = t THEN c ELSE running[u]
      BY <3>1 DEF IInv, QueueTypes
    <3> QED BY <1>2, <1>4, <3>2, <3>4, <3>5 DEF RunningOK, OnlyMoves
  <2>2. CASE running[t] # None
    <3>1. running' = running /\ job'[c].stage \notin Attempting
      BY <1>2, <1>4, <2>2 DEF Start, Attempting
    <3> QED BY <1>4, <3>1 DEF RunningOK, OnlyMoves
  <2> QED BY <2>1, <2>2
<1> QED BY <1>2, <1>4, <1>5, <1>6

LEMMA EndRuns ==
  ASSUME IInv, RunningOK, LiveOK, NEW c \in Calls, job[c].stage \in Attempting, NEW error,
         End(job[c].tab, c, error), open' = open
  PROVE  RunningOK' /\ LiveOK'
<1> DEFINE t == job[c].tab
<1>1. /\ t \in Tabs /\ job'[c].stage \in {"succeeded", "retrying", "failed"} /\ job'[c].tab = t
      /\ \/ running' = [running EXCEPT ![t] = None] /\ OnlyMoves(c)
         \/ \E d \in Calls :
              /\ d # c /\ job[d].stage = "queued" /\ job[d].tab = t
              /\ job'[d].stage = "starting" /\ job'[d].tab = t
              /\ running' = [running EXCEPT ![t] = d]
              /\ \A e \in Calls : e # c /\ e # d => job'[e] = job[e]
  BY EndEffect
<1>2. /\ \A d \in Calls : job[d].stage \in Attempting => job[d].tab \in Tabs
      /\ \A d \in Calls : job[d].stage \in Attempting /\ d # c => job[d].tab # t
  BY DEF IInv, CallsOK, JobOK, Attempting, RunningOK
<1>3. running \in [Tabs -> Calls \cup {None}] BY DEF IInv, QueueTypes
<1>4. open[t] /\ job'[c].stage \notin Attempting BY <1>1 DEF LiveOK, Live, Attempting
<1> HIDE DEF t
<1>5. CASE running' = [running EXCEPT ![t] = None] /\ OnlyMoves(c)
  <2>1. \A u \in Tabs : u # t => running'[u] = running[u] BY <1>3, <1>5
  <2>2. RunningOK' BY <1>2, <1>4, <1>5, <2>1 DEF RunningOK, OnlyMoves
  <2>3. LiveOK' BY <1>1, <1>4, <1>5 DEF LiveOK, OnlyMoves
  <2> QED BY <2>2, <2>3
<1>6. ASSUME NEW d \in Calls, d # c, job[d].stage = "queued", job[d].tab = t,
             job'[d].stage = "starting", job'[d].tab = t,
             running' = [running EXCEPT ![t] = d],
             \A e \in Calls : e # c /\ e # d => job'[e] = job[e]
      PROVE  RunningOK' /\ LiveOK'
  <2>1. \A u \in Tabs : running'[u] = IF u = t THEN d ELSE running[u] BY <1>3, <1>6
  <2>2. RunningOK' BY <1>1, <1>2, <1>4, <1>6, <2>1 DEF RunningOK
  <2>3. LiveOK' BY <1>1, <1>4, <1>6 DEF LiveOK
  <2> QED BY <2>2, <2>3
<1> QED BY <1>1, <1>5, <1>6

---------------------------------------------------------------------------
(* Sequence numbers.                                                        *)

(* Once another device has used the account, or a call was left open, it    *)
(* stays so.                                                                *)
LEMMA StaysLeftOpen ==
  ASSUME IInv, faults' \in Nat, faults' >= faults,
         \A d \in Calls : job[d].stage = "closed" => job'[d].stage = "closed"
  PROVE  LeftOpen => LeftOpen'
BY DEF IInv, NetTypes, LeftOpen, At

(* One call starts or moves on, and the network does nothing.               *)
LEMMA MoveSerial ==
  ASSUME IInv, SerialOK, NEW c \in Calls, OnlyMoves(c), job[c].stage # "closed",
         job'[c].stage \in {"built", "signing", "signed"} =>
           job'[c].base = seq \/ (job[c].stage \in {"built", "signing", "signed"}
                                  /\ job'[c].base = job[c].base),
         job[c].stage \in Sending /\ job[c].hash \in Pending =>
           job'[c].stage \in Sending /\ job'[c].hash = job[c].hash,
         UNCHANGED <<netVars, faults>>
  PROVE  SerialOK'
<1>1. seq' = seq /\ txs' = txs /\ others' = others /\ faults' = faults /\ faults \in Nat
  BY DEF netVars, IInv, NetTypes
<1>2. LeftOpen => LeftOpen' BY <1>1, StaysLeftOpen DEF OnlyMoves
<1> SUFFICES ASSUME others' = 0, ~LeftOpen' PROVE BaseIsNext' /\ Awaited' BY DEF SerialOK
<1>3. BaseIsNext /\ Awaited BY <1>1, <1>2 DEF SerialOK
<1>4. BaseIsNext' BY <1>1, <1>3 DEF BaseIsNext, OnlyMoves
<1>5. Pending' = Pending BY <1>1 DEF Pending
<1>6. Awaited' BY <1>3, <1>5 DEF Awaited, OnlyMoves
<1> QED BY <1>4, <1>6

(* A call ends that has nothing pending.                                    *)
LEMMA EndSerial ==
  ASSUME OneTab, IInv, RunningOK, SerialOK, NEW c \in Calls, job[c].stage \in Attempting,
         NEW error, End(job[c].tab, c, error),
         job[c].stage \in Sending => job[c].hash \notin Pending,
         UNCHANGED <<netVars, faults>>
  PROVE  SerialOK'
<1>1. seq' = seq /\ txs' = txs /\ others' = others /\ faults' = faults /\ faults \in Nat
  BY DEF netVars, IInv, NetTypes
<1>2. \A d \in Calls : d # c =>
        job'[d] = job[d] \/ (job[d].stage = "queued" /\ job'[d].stage = "starting")
  BY EndEffect DEF OnlyMoves
<1>3. LeftOpen => LeftOpen' BY <1>1, <1>2, StaysLeftOpen DEF Attempting
<1> SUFFICES ASSUME others' = 0, ~LeftOpen' PROVE BaseIsNext' /\ Awaited' BY DEF SerialOK
<1>4. BaseIsNext /\ Awaited BY <1>1, <1>3 DEF SerialOK
<1>5. Pending' = {}
  <2> SUFFICES ASSUME NEW h \in Pending PROVE FALSE BY <1>1 DEF Pending
  <2>1. PICK d \in Calls : job[d].stage \in Sending /\ job[d].hash = h BY <1>4 DEF Awaited
  <2>2. d = c BY <2>1, OneAttempt DEF Sending, Attempting
  <2> QED BY <2>1, <2>2
<1>6. ASSUME NEW d \in Calls, job'[d].stage \in {"built", "signing", "signed"} PROVE FALSE
  <2>1. d # c BY <1>6, EndEffect
  <2>2. job'[d] = job[d] BY <1>2, <1>6, <2>1
  <2> QED BY <1>6, <2>1, <2>2, OneAttempt DEF Attempting
<1> QED BY <1>5, <1>6 DEF BaseIsNext, Awaited

---------------------------------------------------------------------------
(* The history.                                                             *)

(* No call has sent anything new, and nothing is written.                   *)
LEMMA NothingWritten ==
  ASSUME MirrorsOK, ResumesOK, Recorded,
         \A d \in Calls : job'[d].stage \in Sending =>
           job[d].stage = job'[d].stage /\ job[d].hash = job'[d].hash,
         UNCHANGED <<historyVars, open, resuming>>
  PROVE  MirrorsOK' /\ ResumesOK' /\ Recorded' /\ Lasting
<1>1. memory' = memory /\ storage' = storage /\ open' = open /\ resuming' = resuming
  BY DEF historyVars
<1>2. MirrorsOK' /\ Lasting BY <1>1 DEF MirrorsOK, Lasting
<1>3. ResumesOK' BY <1>1 DEF ResumesOK
<1>4. Recorded' BY <1>1 DEF Recorded, At, Sending
<1> QED BY <1>2, <1>3, <1>4

(* An open tab writes the history.                                          *)
Follows(was, m) ==
  \/ was = m
  \/ was = "pending" /\ m \in {"success", "failed"}
  \/ was = "none" /\ m = "pending"

Writes(t, h, m) ==
  \E list : /\ list = memory[t] \/ list = [memory[t] EXCEPT ![h] = m]
            /\ memory' = [memory EXCEPT ![t] = list] /\ storage' = list

ResumesFewer == \A u \in Tabs : resuming'[u] \subseteq resuming[u]

LEMMA WrittenOver ==
  ASSUME OneTab, SInv, NEW t \in Tabs, open[t], NEW h \in Hashes, NEW m,
         Follows(storage[h], m), Writes(t, h, m), open' = open, ResumesFewer
  PROVE  /\ MirrorsOK' /\ Lasting
         /\ \A k \in Hashes : k # h => storage'[k] = storage[k]
         /\ \A k \in Hashes : storage[k] # "none" => storage'[k] # "none"
<1>0. PICK list : /\ list = memory[t] \/ list = [memory[t] EXCEPT ![h] = m]
                  /\ memory' = [memory EXCEPT ![t] = list] /\ storage' = list
  BY DEF Writes
<1>1. memory[t] = storage /\ storage \in Histories BY DEF MirrorsOK, SInv, IInv, HistoryTypes
<1>2. \A u \in Tabs : u = t /\ memory'[u] = storage'
  BY <1>0 DEF OneTab, SInv, IInv, HistoryTypes
<1>3. MirrorsOK' BY <1>2 DEF MirrorsOK, SInv, ResumesFewer
<1>4. \A k \in Hashes : storage'[k] = storage[k] \/ (k = h /\ storage'[k] = m)
  BY <1>0, <1>1 DEF Histories
<1> QED BY <1>3, <1>4 DEF Lasting, Follows


---------------------------------------------------------------------------
(* The steps of one tab.                                                    *)
LEMMA FaultSerial ==
  ASSUME IInv, Fault
  PROVE  SerialOK'
BY DEF IInv, NetTypes, Fault, SerialOK, LeftOpen

(* Click, Retry.                                                            *)
LEMMA StartsSerial ==
  ASSUME OneTab, SInv, NEW t \in Tabs, NEW c \in Calls, open[t],
         job[c].stage \in {"idle", "retrying"}, Start(t, c),
         UNCHANGED <<netVars, historyVars, open, resuming, faults>>
  PROVE  /\ RunningOK' /\ LiveOK' /\ SerialOK' /\ MirrorsOK' /\ ResumesOK' /\ Recorded'
         /\ Lasting
<1>1. /\ RunningOK' /\ LiveOK' /\ OnlyMoves(c) /\ job'[c].stage \in {"starting", "queued"}
  BY StartRuns DEF SInv
<1>2. SerialOK' BY <1>1, MoveSerial DEF SInv, Sending
<1>3. \A d \in Calls : job'[d].stage \in Sending =>
        job[d].stage = job'[d].stage /\ job[d].hash = job'[d].hash
  BY <1>1 DEF OnlyMoves, Sending
<1>4. MirrorsOK' /\ ResumesOK' /\ Recorded' /\ Lasting
  BY <1>3, NothingWritten DEF SInv
<1> QED BY <1>1, <1>2, <1>4

(* Build, Simulate, Sign.                                                   *)
LEMMA PreparesSerial ==
  ASSUME OneTab, SInv, NEW c \in Calls, Build(c) \/ Simulate(c) \/ Sign(c)
  PROVE  /\ RunningOK' /\ LiveOK' /\ SerialOK' /\ MirrorsOK' /\ ResumesOK' /\ Recorded'
         /\ Lasting
<1>1. /\ job[c].stage \in {"starting", "built", "signing"}
      /\ UNCHANGED <<netVars, historyVars, open, queue, running, resuming, faults>>
  BY DEF Build, Simulate, Sign, At
<1>2. /\ OnlyMoves(c) /\ job'[c].tab = job[c].tab
      /\ job'[c].stage \in {"built", "signing", "signed"}
      /\ \/ job'[c].base = seq
         \/ job[c].stage \in {"built", "signing"} /\ job'[c].base = job[c].base
  <2>1. job \in [Calls -> Jobs] BY DEF SInv, IInv, JobTypes
  <2>2. OnlyMoves(c) BY <2>1 DEF Build, Simulate, Sign, Move, OnlyMoves
  <2>3. CASE Build(c)
    <3>1. job'[c] = [job[c] EXCEPT !.stage = "built", !.base = seq] BY <2>1, <2>3 DEF Build
    <3> QED BY <2>1, <2>2, <3>1 DEF Jobs
  <2>4. CASE Simulate(c) \/ Sign(c)
    <3>1. \E s \in {"signing", "signed"} : job'[c] = [job[c] EXCEPT !.stage = s]
      BY <2>1, <2>4 DEF Simulate, Sign, Move
    <3>2. job[c].stage \in {"built", "signing"} BY <2>4 DEF Simulate, Sign, At
    <3> QED BY <2>1, <2>2, <3>1, <3>2 DEF Jobs
  <2> QED BY <2>3, <2>4
<1>3. RunningOK' /\ LiveOK' BY <1>1, <1>2, MoveRuns DEF SInv, Attempting
<1>4. SerialOK' BY <1>1, <1>2, MoveSerial DEF SInv, Sending
<1>5. \A d \in Calls : job'[d].stage \in Sending =>
        job[d].stage = job'[d].stage /\ job[d].hash = job'[d].hash
  BY <1>2 DEF OnlyMoves, Sending
<1>6. MirrorsOK' /\ ResumesOK' /\ Recorded' /\ Lasting
  BY <1>1, <1>5, NothingWritten DEF SInv
<1> QED BY <1>3, <1>4, <1>6

LEMMA SendSerial ==
  ASSUME OneTab, SInv, NEW c \in Calls, Send(c)
  PROVE  /\ RunningOK' /\ LiveOK' /\ SerialOK' /\ MirrorsOK' /\ ResumesOK' /\ Recorded'
         /\ Lasting
<1>1. /\ job[c].stage = "signed" /\ seq' = seq /\ others' = others /\ faults' = faults
      /\ UNCHANGED <<historyVars, open, queue, running, resuming>>
      /\ memory' = memory /\ storage' = storage /\ open' = open /\ resuming' = resuming
  BY DEF Send, At, historyVars
<1>2. job \in [Calls -> Jobs] /\ txs \in Seq(Transactions) /\ job[c].hash = 0
  BY <1>1 DEF SInv, IInv, JobTypes, NetTypes, CallsOK, JobOK, Before
<1>3. OnlyMoves(c) /\ job'[c].stage = "sent" /\ job'[c].tab = job[c].tab
  <2>1. CASE Accepted(c)
    <3>1. job'[c] = [job[c] EXCEPT !.stage = "sent", !.hash = Len(txs) + 1]
      BY <1>2, <2>1 DEF Accepted
    <3>2. OnlyMoves(c) BY <1>2, <2>1 DEF Accepted, OnlyMoves
    <3> QED BY <1>2, <3>1, <3>2 DEF Jobs
  <2>2. CASE \E why \in {"BAD_SEQ", "TRY_AGAIN_LATER"} : Refused(c, why)
    <3>1. \E why : job'[c] = [job[c] EXCEPT !.stage = "sent", !.refusal = why]
      BY <1>2, <2>2 DEF Refused
    <3>2. OnlyMoves(c) BY <1>2, <2>2 DEF Refused, OnlyMoves
    <3> QED BY <1>2, <3>1, <3>2 DEF Jobs
  <2> QED BY <2>1, <2>2 DEF Send
<1>4. RunningOK' /\ LiveOK' BY <1>1, <1>3, MoveRuns DEF SInv, Attempting
<1>5. SerialOK'
  <2>1. LeftOpen => LeftOpen'
    BY <1>1, <1>3, StaysLeftOpen DEF SInv, IInv, NetTypes, OnlyMoves
  <2> SUFFICES ASSUME others' = 0, ~LeftOpen' PROVE BaseIsNext' /\ Awaited' BY DEF SerialOK
  <2>2. BaseIsNext /\ Awaited BY <1>1, <2>1 DEF SInv, SerialOK
  <2>3. BaseIsNext' BY <1>1, <1>3, <2>2 DEF BaseIsNext, OnlyMoves
  <2>4. job[c].base = seq BY <1>1, <2>2 DEF BaseIsNext
  <2>5. Pending = {}
    <3> SUFFICES ASSUME NEW h \in Pending PROVE FALSE OBVIOUS
    <3>1. PICK d \in Calls : job[d].stage \in Sending BY <2>2 DEF Awaited
    <3>2. d = c BY <1>1, <3>1, OneAttempt DEF SInv, Sending, Attempting
    <3> QED BY <1>1, <3>1, <3>2 DEF Sending
  <2>6. Accepted(c) BY <2>4, <2>5 DEF Send
  <2>7. job'[c].hash = Len(txs) + 1
    <3>1. job'[c] = [job[c] EXCEPT !.stage = "sent", !.hash = Len(txs) + 1]
      BY <1>2, <2>6 DEF Accepted
    <3> QED BY <1>2, <3>1 DEF Jobs
  <2>8. \A h \in Pending' : h = Len(txs) + 1
    <3> DEFINE x == [call |-> c, attempt |-> job[c].failures, status |-> "pool"]
    <3>1. txs' = Append(txs, x) BY <2>6 DEF Accepted
    <3> HIDE DEF x
    <3>2. Len(txs') = Len(txs) + 1 /\ \A h \in 1 .. Len(txs) : txs'[h] = txs[h]
      BY <1>2, <3>1
    <3> QED BY <1>2, <2>5, <3>2 DEF Pending
  <2>9. Awaited' BY <1>3, <2>7, <2>8 DEF Awaited, Sending
  <2> QED BY <2>3, <2>9
<1>6. job'[c].hash \in {0, Len(txs) + 1}
  <2>1. CASE Accepted(c)
    <3>1. job'[c] = [job[c] EXCEPT !.stage = "sent", !.hash = Len(txs) + 1]
      BY <1>2, <2>1 DEF Accepted
    <3> QED BY <1>2, <3>1 DEF Jobs
  <2>2. CASE \E why \in {"BAD_SEQ", "TRY_AGAIN_LATER"} : Refused(c, why)
    <3>1. \E why : job'[c] = [job[c] EXCEPT !.stage = "sent", !.refusal = why]
      BY <1>2, <2>2 DEF Refused
    <3> QED BY <1>2, <3>1 DEF Jobs
  <2> QED BY <2>1, <2>2 DEF Send
<1>7. MirrorsOK' /\ Lasting BY <1>1 DEF SInv, MirrorsOK, Lasting
<1>8. Recorded' BY <1>1, <1>3 DEF SInv, Recorded, At, OnlyMoves
<1>9. ResumesOK'
  <2>1. \A t \in Tabs : \A h \in resuming[t] : h \in 1 .. Len(txs)
    BY DEF SInv, ResumesOK, IInv, TabTypes, HistoriesOK, ListOK, EntryOK
  <2>2. \A t \in Tabs : \A h \in resuming[t] : job'[c].hash # h BY <1>2, <1>6, <2>1
  <2> QED BY <1>1, <1>3, <2>2 DEF SInv, ResumesOK, OnlyMoves
<1> QED BY <1>4, <1>5, <1>7, <1>8, <1>9

LEMMA ReplyAcceptedSerial ==
  ASSUME OneTab, SInv, NEW c \in Calls, ReplyAccepted(c)
  PROVE  /\ RunningOK' /\ LiveOK' /\ SerialOK' /\ MirrorsOK' /\ ResumesOK' /\ Recorded'
         /\ Lasting
<1> DEFINE t == job[c].tab
           h == job[c].hash
           m == IF memory[t][h] = "none" THEN "pending" ELSE memory[t][h]
<1>1. /\ job[c].stage = "sent" /\ AddTransaction(t, h) /\ Move(c, "polling")
      /\ UNCHANGED <<netVars, open, queue, running, resuming, faults>>
      /\ open' = open /\ resuming' = resuming
  BY DEF ReplyAccepted, At
<1>2. /\ job \in [Calls -> Jobs] /\ t \in Tabs /\ h \in 1 .. Len(txs) /\ h \in Hashes /\ open[t]
  BY <1>1, TxAssumption
  DEF ReplyAccepted, SInv, IInv, JobTypes, CallsOK, JobOK, NetTypes, Hashes, LiveOK, Live,
      Attempting
<1>3. OnlyMoves(c) /\ job'[c].stage = "polling" /\ job'[c].tab = t /\ job'[c].hash = h
  <2>1. job'[c] = [job[c] EXCEPT !.stage = "polling"] /\ OnlyMoves(c)
    BY <1>1, <1>2 DEF Move, OnlyMoves
  <2> QED BY <1>2, <2>1 DEF Jobs
<1>4. RunningOK' /\ LiveOK' BY <1>1, <1>3, MoveRuns DEF SInv, Attempting
<1>5. SerialOK' BY <1>1, <1>3, MoveSerial DEF SInv, Sending
<1>6. Writes(t, h, m) BY <1>1 DEF AddTransaction, Writes
<1>7. memory[t] = storage BY <1>2 DEF SInv, MirrorsOK
<1>8. Follows(storage[h], m) BY <1>7 DEF Follows
<1>9. /\ MirrorsOK' /\ Lasting
      /\ \A k \in Hashes : k # h => storage'[k] = storage[k]
      /\ \A k \in Hashes : storage[k] # "none" => storage'[k] # "none"
  <2> HIDE DEF m, t, h
  <2>1. ResumesFewer BY <1>1 DEF ResumesFewer
  <2> QED BY <1>1, <1>2, <1>6, <1>8, <2>1, WrittenOver
<1>10. storage'[h] # "none" /\ (storage[h] = "pending" => storage'[h] = "pending")
  <2>1. storage' = IF memory[t][h] = "none" THEN [memory[t] EXCEPT ![h] = "pending"] ELSE memory[t]
    BY <1>1 DEF AddTransaction
  <2> QED BY <1>2, <1>7, <2>1 DEF SInv, IInv, HistoryTypes, Histories
<1>11. ResumesOK'
  <2>1. \A u \in Tabs : \A k \in resuming[u] : k \in Hashes BY DEF SInv, IInv, TabTypes
  <2> QED BY <1>1, <1>3, <1>9, <1>10, <2>1 DEF SInv, ResumesOK, OnlyMoves, Sending
<1>12. Recorded'
  <2>1. \A d \in Calls : job[d].stage = "polling" => job[d].hash \in Hashes
    BY TxAssumption DEF SInv, IInv, CallsOK, JobOK, NetTypes, Hashes
  <2> QED BY <1>3, <1>9, <1>10, <2>1 DEF SInv, Recorded, At, OnlyMoves
<1> QED BY <1>4, <1>5, <1>9, <1>11, <1>12

LEMMA ReplyBadSeqSerial ==
  ASSUME OneTab, SInv, NEW c \in Calls, ReplyBadSeq(c)
  PROVE  /\ RunningOK' /\ LiveOK' /\ SerialOK' /\ MirrorsOK' /\ ResumesOK' /\ Recorded'
         /\ Lasting
<1>1. /\ job[c].stage = "sent" /\ job[c].refusal = "BAD_SEQ"
      /\ UNCHANGED <<netVars, historyVars, open, queue, running, resuming, faults>>
  BY DEF ReplyBadSeq, At
<1>2. job \in [Calls -> Jobs] /\ job[c].hash = 0
  BY <1>1 DEF SInv, IInv, JobTypes, CallsOK, JobOK
<1>3. OnlyMoves(c) /\ job'[c].stage = "starting" /\ job'[c].tab = job[c].tab
  <2>1. OnlyMoves(c) BY <1>2 DEF ReplyBadSeq, OnlyMoves
  <2>2. job'[c] = [job[c] EXCEPT !.stage = "starting", !.rebuilt = TRUE, !.refusal = "none"]
    BY <1>2 DEF ReplyBadSeq
  <2> QED BY <1>2, <2>1, <2>2 DEF Jobs
<1>4. RunningOK' /\ LiveOK' BY <1>1, <1>3, MoveRuns DEF SInv, Attempting
<1>5. 0 \notin Pending BY DEF Pending
<1>6. SerialOK' BY <1>1, <1>2, <1>3, <1>5, MoveSerial DEF SInv
<1>7. \A d \in Calls : job'[d].stage \in Sending =>
        job[d].stage = job'[d].stage /\ job[d].hash = job'[d].hash
  BY <1>3 DEF OnlyMoves, Sending
<1>8. MirrorsOK' /\ ResumesOK' /\ Recorded' /\ Lasting
  BY <1>1, <1>7, NothingWritten DEF SInv
<1> QED BY <1>4, <1>6, <1>8

(* No call that has not sent is about to be heard of after another's end.   *)
LEMMA EndSends ==
  ASSUME IInv, NEW c \in Calls, job[c].stage \in Attempting, NEW error,
         End(job[c].tab, c, error)
  PROVE  \A d \in Calls : job'[d].stage \in Sending =>
           d # c /\ job[d].stage = job'[d].stage /\ job[d].hash = job'[d].hash
<1>1. job'[c].stage \notin Sending BY EndEffect DEF Sending
<1>2. \A d \in Calls : d # c => job'[d] = job[d] \/ job'[d].stage = "starting"
  BY EndEffect DEF OnlyMoves
<1> QED BY <1>1, <1>2 DEF Sending

(* GiveUp, SendThrows, ReplyRefused, PollTimesOut.                          *)
LEMMA EndsSerial ==
  ASSUME OneTab, SInv, NEW c \in Calls, job[c].stage \in Attempting, NEW error,
         End(job[c].tab, c, error), UNCHANGED <<netVars, historyVars, open, resuming>>,
         Fault \/ (faults' = faults /\ (job[c].stage \in Sending => job[c].hash \notin Pending))
  PROVE  /\ RunningOK' /\ LiveOK' /\ SerialOK' /\ MirrorsOK' /\ ResumesOK' /\ Recorded'
         /\ Lasting
<1>1. RunningOK' /\ LiveOK' BY EndRuns DEF SInv
<1>2. SerialOK' BY EndSerial, FaultSerial DEF SInv
<1>3. MirrorsOK' /\ ResumesOK' /\ Recorded' /\ Lasting
  BY EndSends, NothingWritten DEF SInv
<1> QED BY <1>1, <1>2, <1>3

LEMMA PollSettlesSerial ==
  ASSUME OneTab, SInv, NEW c \in Calls, PollSettles(c)
  PROVE  /\ RunningOK' /\ LiveOK' /\ SerialOK' /\ MirrorsOK' /\ ResumesOK' /\ Recorded'
         /\ Lasting
<1> DEFINE t == job[c].tab
           h == job[c].hash
           m == txs[h].status
<1>1. /\ job[c].stage = "polling" /\ m \in {"success", "failed"}
      /\ ResolveTransaction(t, h, m)
      /\ UNCHANGED <<netVars, open, resuming, faults>>
      /\ open' = open /\ resuming' = resuming
  BY DEF PollSettles, At
<1>2. \E error : End(t, c, error) BY DEF PollSettles
<1>3. /\ job[c].stage \in Attempting /\ t \in Tabs /\ h \in Hashes /\ open[t]
  BY <1>1, TxAssumption
  DEF SInv, IInv, CallsOK, JobOK, NetTypes, Hashes, LiveOK, Live, Attempting
<1>4. RunningOK' /\ LiveOK' BY <1>1, <1>2, <1>3, EndRuns DEF SInv
<1>5. h \notin Pending BY <1>1 DEF Pending
<1>6. SerialOK' BY <1>1, <1>2, <1>3, <1>5, EndSerial DEF SInv
<1>7. \A d \in Calls : job'[d].stage \in Sending =>
        d # c /\ job[d].stage = job'[d].stage /\ job[d].hash = job'[d].hash
  BY <1>2, <1>3, EndSends DEF SInv
<1>8. memory[t] = storage /\ storage[h] # "none"
  BY <1>1, <1>3 DEF SInv, MirrorsOK, Recorded, At
<1>9. Follows(storage[h], m)
  <2>1. storage[h] \in {"pending", "success", "failed"}
    BY <1>3, <1>8 DEF SInv, IInv, HistoryTypes, Histories
  <2>2. EntryOK(txs, storage[h], h) BY <1>3 DEF SInv, IInv, HistoriesOK, ListOK
  <2> QED BY <1>1, <2>1, <2>2 DEF EntryOK, Follows
<1>10. Writes(t, h, m) BY <1>1 DEF ResolveTransaction, Writes
<1>11. /\ MirrorsOK' /\ Lasting
       /\ \A k \in Hashes : k # h => storage'[k] = storage[k]
       /\ \A k \in Hashes : storage[k] # "none" => storage'[k] # "none"
  <2> HIDE DEF t, h, m
  <2>1. ResumesFewer BY <1>1 DEF ResumesFewer
  <2> QED BY <1>1, <1>3, <1>9, <1>10, <2>1, WrittenOver
<1>12. \A u \in Tabs : \A k \in resuming[u] : k \in Hashes /\ k # h
  BY <1>1 DEF SInv, IInv, TabTypes, ResumesOK, Sending
<1>13. ResumesOK' BY <1>1, <1>7, <1>11, <1>12 DEF SInv, ResumesOK
<1>14. Recorded'
  <2>1. \A d \in Calls : job[d].stage = "polling" => job[d].hash \in Hashes
    BY TxAssumption DEF SInv, IInv, CallsOK, JobOK, NetTypes, Hashes
  <2> QED BY <1>7, <1>11, <2>1 DEF SInv, Recorded, At, Sending
<1> QED BY <1>4, <1>6, <1>11, <1>13, <1>14


LEMMA AdvanceSerial ==
  ASSUME OneTab, SInv, NEW c \in Calls, Advance(c) \/ GiveUp(c) \/ SendThrows(c)
  PROVE  /\ RunningOK' /\ LiveOK' /\ SerialOK' /\ MirrorsOK' /\ ResumesOK' /\ Recorded'
         /\ Lasting
<1>1. CASE Retry(c)
  <2>1. job[c].stage = "retrying" BY <1>1 DEF Retry, At
  <2>2. job[c].tab \in Tabs /\ open[job[c].tab]
    BY <2>1 DEF SInv, IInv, CallsOK, JobOK, LiveOK, Live
  <2> QED BY <1>1, <2>1, <2>2, StartsSerial DEF Retry
<1>2. CASE Build(c) \/ Simulate(c) \/ Sign(c) BY <1>2, PreparesSerial
<1>3. CASE Send(c) BY <1>3, SendSerial
<1>4. CASE ReplyAccepted(c) BY <1>4, ReplyAcceptedSerial
<1>5. CASE ReplyBadSeq(c) BY <1>5, ReplyBadSeqSerial
<1>6. CASE ReplyRefused(c)
  <2>1. job[c].stage = "sent" /\ job[c].refusal # "none" BY <1>6 DEF ReplyRefused, At
  <2>2. job[c].hash \notin Pending BY <2>1 DEF SInv, IInv, CallsOK, JobOK, Pending
  <2> QED BY <1>6, <2>1, <2>2, EndsSerial DEF ReplyRefused, Attempting
<1>7. CASE PollSettles(c) BY <1>7, PollSettlesSerial
<1>8. CASE PollTimesOut(c)
  <2>1. /\ job[c].stage \in Attempting
        /\ \/ faults' = faults /\ job[c].hash \notin Pending
           \/ Fault
        /\ UNCHANGED <<netVars, historyVars, open, resuming>>
    BY <1>8 DEF PollTimesOut, At, Attempting, Pending
  <2>2. \E error : End(job[c].tab, c, error) BY <1>8 DEF PollTimesOut
  <2> QED BY <2>1, <2>2, EndsSerial
<1>9. CASE GiveUp(c)
  <2>1. job[c].stage \in Attempting /\ \E error : End(job[c].tab, c, error)
    BY <1>9 DEF GiveUp, At, Attempting
  <2> QED BY <1>9, <2>1, EndsSerial DEF GiveUp
<1>10. CASE SendThrows(c)
  <2>1. job[c].stage \in Attempting BY <1>10 DEF SendThrows, At, Attempting
  <2> QED BY <1>10, <2>1, EndsSerial DEF SendThrows
<1> QED
  BY <1>1, <1>2, <1>3, <1>4, <1>5, <1>6, <1>7, <1>8, <1>9, <1>10 DEF Advance

LEMMA CloseSerial ==
  ASSUME OneTab, SInv, NEW t \in Tabs, Close(t)
  PROVE  /\ RunningOK' /\ LiveOK' /\ SerialOK' /\ MirrorsOK' /\ ResumesOK' /\ Recorded'
         /\ Lasting
<1>1. /\ open[t] /\ open' = [open EXCEPT ![t] = FALSE]
      /\ running' = [running EXCEPT ![t] = None]
      /\ resuming' = [resuming EXCEPT ![t] = {}]
      /\ job' = [c \in Calls |->
                   IF job[c].tab = t /\ job[c].stage \notin {"succeeded", "failed"}
                   THEN [NewJob EXCEPT !.stage = "closed", !.tab = t] ELSE job[c]]
      /\ storage' = storage /\ seq' = seq /\ txs' = txs /\ others' = others /\ faults' = faults
  BY DEF Close, netVars
<1>2. \A c \in Calls : job'[c] = job[c] \/ job'[c].stage = "closed"
  BY <1>1, ClosedJob
<1>3. \A c \in Calls : job[c].stage \in Live => job'[c].stage = "closed"
  <2> SUFFICES ASSUME NEW c \in Calls, job[c].stage \in Live PROVE job'[c].stage = "closed"
    OBVIOUS
  <2>1. job[c].tab \in Tabs BY DEF SInv, IInv, CallsOK, JobOK, Live, Attempting
  <2>2. job[c].tab = t BY <2>1 DEF OneTab
  <2>3. job[c].stage \notin {"succeeded", "failed"} BY DEF Live, Attempting
  <2>4. job'[c] = [NewJob EXCEPT !.stage = "closed", !.tab = t] BY <1>1, <2>2, <2>3
  <2> QED BY <2>4, ClosedJob
<1>4. \A c \in Calls : job'[c].stage \notin Live BY <1>2, <1>3 DEF Live, Attempting
<1>5. RunningOK' /\ LiveOK' BY <1>4 DEF RunningOK, LiveOK, Live
<1>6. SerialOK'
  <2>1. LeftOpen => LeftOpen'
    BY <1>1, <1>2, StaysLeftOpen DEF SInv, IInv, NetTypes
  <2> SUFFICES ASSUME others' = 0, ~LeftOpen' PROVE BaseIsNext' /\ Awaited' BY DEF SerialOK
  <2>2. Awaited BY <1>1, <2>1 DEF SInv, SerialOK
  <2>3. \A c \in Calls : job[c].stage \notin Sending
    BY <1>3 DEF LeftOpen, At, Sending, Live, Attempting
  <2>4. Pending' = {} BY <1>1, <2>2, <2>3 DEF Awaited, Pending
  <2> QED BY <1>4, <2>4 DEF BaseIsNext, Awaited, Live, Attempting
<1>7. MirrorsOK' /\ ResumesOK'
  <2>1. \A u \in Tabs : u = t /\ ~open'[u] /\ resuming'[u] = {}
    BY <1>1 DEF OneTab, SInv, IInv, TabTypes
  <2> QED BY <2>1 DEF MirrorsOK, ResumesOK
<1>8. Recorded' BY <1>4 DEF Recorded, At, Live, Attempting
<1>9. Lasting BY <1>1 DEF Lasting
<1> QED BY <1>5, <1>6, <1>7, <1>8, <1>9

(* Nothing of the calls, the sequence number or the history changes.        *)
LEMMA OpenSerial ==
  ASSUME OneTab, SInv, NEW t \in Tabs, Open(t)
  PROVE  /\ RunningOK' /\ LiveOK' /\ SerialOK' /\ MirrorsOK' /\ ResumesOK' /\ Recorded'
         /\ Lasting
<1>1. /\ ~open[t] /\ memory' = [memory EXCEPT ![t] = storage] /\ storage' = storage
      /\ open' = [open EXCEPT ![t] = TRUE]
      /\ resuming' = [resuming EXCEPT ![t] = {h \in Hashes : storage[h] = "pending"}]
      /\ UNCHANGED <<seq, txs, others, queue, running, job, faults>>
  BY DEF Open, netVars
<1>2. \A u \in Tabs : /\ u = t /\ open'[u] /\ memory'[u] = storage
                      /\ resuming'[u] = {h \in Hashes : storage[h] = "pending"}
  BY <1>1 DEF OneTab, SInv, IInv, TabTypes, HistoryTypes
<1>3. \A c \in Calls : job[c].stage \notin Live
  BY <1>1 DEF SInv, IInv, CallsOK, JobOK, LiveOK, Live, Attempting, OneTab
<1>4. RunningOK' /\ LiveOK' BY <1>1, <1>3 DEF RunningOK, LiveOK, Live
<1>5. SerialOK'
  BY <1>1 DEF SInv, SerialOK, LeftOpen, At, BaseIsNext, Awaited, Pending
<1>6. MirrorsOK' BY <1>1, <1>2 DEF MirrorsOK
<1>7. ResumesOK' BY <1>1, <1>2, <1>3 DEF ResumesOK, Sending, Live, Attempting
<1>8. Recorded' /\ Lasting BY <1>1 DEF SInv, Recorded, At, Lasting
<1> QED BY <1>4, <1>5, <1>6, <1>7, <1>8

LEMMA ResumeSerial ==
  ASSUME OneTab, SInv, NEW t \in Tabs, NEW h \in Hashes,
         ResumeSettles(t, h) \/ ResumeGivesUp(t, h)
  PROVE  /\ RunningOK' /\ LiveOK' /\ SerialOK' /\ MirrorsOK' /\ ResumesOK' /\ Recorded'
         /\ Lasting
<1>1. /\ h \in resuming[t] /\ resuming' = [resuming EXCEPT ![t] = resuming[t] \ {h}]
      /\ UNCHANGED <<seq, txs, others, open, queue, running, job>>
      /\ faults' \in Nat /\ faults' >= faults
  BY DEF ResumeSettles, ResumeGivesUp, netVars, Fault, SInv, IInv, NetTypes
<1>2. RunningOK' /\ LiveOK' BY <1>1 DEF SInv, RunningOK, LiveOK
<1>3. LeftOpen => LeftOpen' BY <1>1, StaysLeftOpen DEF SInv
<1>4. SerialOK'
  BY <1>1, <1>3 DEF SInv, SerialOK, BaseIsNext, Awaited, Pending
<1>5. \A u \in Tabs : /\ u = t /\ resuming'[u] \subseteq resuming[u]
                      /\ \A k \in resuming'[u] : k \in resuming[u] /\ k # h /\ k \in Hashes
  BY <1>1 DEF OneTab, SInv, IInv, TabTypes
<1>6. CASE ResumeSettles(t, h)
  <2> DEFINE m == Verdict(h)
  <2>1. m # "pending" /\ ResolveTransaction(t, h, m) BY <1>6 DEF ResumeSettles
  <2>2. m \in {"success", "failed"} BY <2>1 DEF Verdict
  <2>3. open[t] BY <1>1 DEF SInv, MirrorsOK
  <2>4. storage[h] = "pending" BY <1>1 DEF SInv, ResumesOK
  <2> HIDE DEF m
  <2>5. Writes(t, h, m) BY <2>1 DEF ResolveTransaction, Writes
  <2>6. ResumesFewer BY <1>5 DEF ResumesFewer
  <2>7. open' = open /\ Follows(storage[h], m) BY <1>1, <2>2, <2>4 DEF Follows
  <2>8. /\ MirrorsOK' /\ Lasting
        /\ \A k \in Hashes : k # h => storage'[k] = storage[k]
        /\ \A k \in Hashes : storage[k] # "none" => storage'[k] # "none"
    BY <2>3, <2>5, <2>6, <2>7, WrittenOver
  <2>9. ResumesOK' BY <1>1, <1>5, <2>8 DEF SInv, ResumesOK
  <2>10. Recorded'
    <3>1. \A d \in Calls : job[d].stage = "polling" => job[d].hash \in Hashes
      BY TxAssumption DEF SInv, IInv, CallsOK, JobOK, NetTypes, Hashes
    <3> QED BY <1>1, <2>8, <3>1 DEF SInv, Recorded, At
  <2> QED BY <1>2, <1>4, <2>8, <2>9, <2>10
<1>7. CASE ResumeGivesUp(t, h)
  <2>1. memory' = memory /\ storage' = storage BY <1>7 DEF ResumeGivesUp, historyVars
  <2>2. MirrorsOK' /\ Lasting BY <1>1, <1>5, <2>1 DEF SInv, MirrorsOK, Lasting
  <2>3. ResumesOK' BY <1>1, <1>5, <2>1 DEF SInv, ResumesOK
  <2>4. Recorded' BY <1>1, <2>1 DEF SInv, Recorded, At
  <2> QED BY <1>2, <1>4, <2>2, <2>3, <2>4
<1> QED BY <1>6, <1>7

LEMMA NetworkSerial ==
  ASSUME OneTab, SInv, Network
  PROVE  /\ RunningOK' /\ LiveOK' /\ SerialOK' /\ MirrorsOK' /\ ResumesOK' /\ Recorded'
         /\ Lasting
<1>1. UNCHANGED <<memory, storage, open, queue, running, job, resuming>>
  BY DEF Network, Apply, Expire, OtherTx, Forget, historyVars, tabVars
<1>2. RunningOK' /\ LiveOK' /\ MirrorsOK' /\ ResumesOK' /\ Recorded' /\ Lasting
  BY <1>1 DEF SInv, RunningOK, LiveOK, MirrorsOK, ResumesOK, Recorded, At, Lasting
<1>3. CASE Apply
  <2>1. PICK h \in Pending : \E s \in {"success", "failed"} : txs' = [txs EXCEPT ![h].status = s]
    BY <1>3 DEF Apply
  <2>2. seq' = seq + 1 /\ others' = others /\ faults' = faults BY <1>3 DEF Apply
  <2> SUFFICES ASSUME others' = 0, ~LeftOpen' PROVE BaseIsNext' /\ Awaited'
    BY <1>2 DEF SerialOK
  <2>3. BaseIsNext /\ Awaited BY <1>1, <2>2 DEF SInv, SerialOK, LeftOpen, At
  <2>4. PICK c \in Calls : job[c].stage \in Sending BY <2>3 DEF Awaited
  <2>5. \A d \in Calls : job[d].stage \notin {"built", "signing", "signed"}
    BY <2>4, OneAttempt DEF SInv, Sending, Attempting
  <2>6. Pending' \subseteq Pending
    <3>1. h \in 1 .. Len(txs) /\ txs \in Seq(Transactions) BY DEF Pending, SInv, IInv, NetTypes
    <3>2. Len(txs') = Len(txs) /\ \A k \in 1 .. Len(txs) : k # h => txs'[k] = txs[k]
      BY <2>1, <3>1
    <3> QED BY <3>2 DEF Pending
  <2>7. Awaited' BY <1>1, <2>3, <2>6 DEF Awaited
  <2> QED BY <1>1, <2>5, <2>7 DEF BaseIsNext
<1>4. CASE Expire
  <2>1. PICK h \in Pending : txs' = [txs EXCEPT ![h].status = "expired"] BY <1>4 DEF Expire
  <2>2. seq' = seq /\ others' = others /\ faults' = faults BY <1>4 DEF Expire
  <2> SUFFICES ASSUME others' = 0, ~LeftOpen' PROVE BaseIsNext' /\ Awaited'
    BY <1>2 DEF SerialOK
  <2>3. BaseIsNext /\ Awaited BY <1>1, <2>2 DEF SInv, SerialOK, LeftOpen, At
  <2>4. Pending' \subseteq Pending
    <3>1. h \in 1 .. Len(txs) /\ txs \in Seq(Transactions) BY DEF Pending, SInv, IInv, NetTypes
    <3>2. Len(txs') = Len(txs) /\ \A k \in 1 .. Len(txs) : k # h => txs'[k] = txs[k]
      BY <2>1, <3>1
    <3> QED BY <3>2 DEF Pending
  <2> QED BY <1>1, <2>2, <2>3, <2>4 DEF Awaited, BaseIsNext
<1>5. CASE OtherTx
  BY <1>2, <1>5 DEF OtherTx, SInv, IInv, NetTypes, SerialOK
<1>6. CASE Forget
  <2>1. Fault BY <1>6 DEF Forget
  <2> QED BY <1>2, <2>1, FaultSerial DEF SInv
<1> QED BY <1>3, <1>4, <1>5, <1>6 DEF Network

LEMMA InitSerial == Init => SInv
<1> SUFFICES ASSUME Init PROVE SInv OBVIOUS
<1>1. /\ \A c \in Calls : job[c].stage = "idle"
      /\ txs = << >> /\ open = [t \in Tabs |-> TRUE]
      /\ memory = [t \in Tabs |-> Blank] /\ storage = Blank /\ resuming = [t \in Tabs |-> {}]
  BY NewJobFacts DEF Init
<1>2. RunningOK /\ LiveOK /\ Recorded
  BY <1>1 DEF RunningOK, LiveOK, Recorded, Live, Attempting, At
<1>3. SerialOK
  <2>1. Pending = {} BY <1>1 DEF Pending
  <2> QED BY <1>1, <2>1 DEF SerialOK, BaseIsNext, Awaited
<1>4. MirrorsOK /\ ResumesOK BY <1>1 DEF MirrorsOK, ResumesOK
<1> QED BY <1>2, <1>3, <1>4, InitInvariant DEF SInv

LEMMA NextSerial ==
  ASSUME OneTab, SInv, [Next]_vars
  PROVE  SInv' /\ Lasting
<1>1. IInv' BY NextInvariant DEF SInv
<1> SUFFICES /\ RunningOK' /\ LiveOK' /\ SerialOK' /\ MirrorsOK' /\ ResumesOK' /\ Recorded'
             /\ Lasting
  BY <1>1 DEF SInv
<1>2. ASSUME NEW t \in Tabs, NEW c \in Calls, Click(t, c)
      PROVE  /\ RunningOK' /\ LiveOK' /\ SerialOK' /\ MirrorsOK' /\ ResumesOK' /\ Recorded'
             /\ Lasting
  <2>1. job[c].stage = "idle" /\ open[t] BY <1>2, NewJobFacts DEF Click
  <2> QED BY <1>2, <2>1, StartsSerial DEF Click
<1>3. CASE UNCHANGED vars
  <2>1. UNCHANGED <<seq, txs, others, memory, storage, open, running, job, resuming, faults>>
    BY <1>3 DEF vars, netVars, historyVars, tabVars
  <2>2. SerialOK' BY <2>1 DEF SInv, SerialOK, LeftOpen, At, BaseIsNext, Awaited, Pending
  <2> QED
    BY <2>1, <2>2
    DEF SInv, RunningOK, LiveOK, MirrorsOK, ResumesOK, Recorded, At, Lasting
<1> QED
  BY <1>2, <1>3, AdvanceSerial, CloseSerial, OpenSerial, ResumeSerial, NetworkSerial DEF Next

LEMMA SerialInvariant == OneTab /\ Spec => [](OneTab /\ SInv)
<1>1. Init => SInv BY InitSerial
<1>2. OneTab /\ SInv /\ [Next]_vars => OneTab' /\ SInv' BY NextSerial DEF OneTab
<1> QED BY <1>1, <1>2, PTL DEF Spec

(* One tab never conflicts with itself (transaction.ts: the queue): what it *)
(* signs is for the account's next sequence number, as long as no other     *)
(* device uses the account and the tab knows what became of every call.     *)
(* The queue is the tab's: of two tabs this does not hold.                  *)
THEOREM OneTabSignsNext == OneTab /\ Spec => []NoSelfConflict
<1>1. SInv => NoSelfConflict BY DEF SInv, SerialOK, BaseIsNext, NoSelfConflict, At
<1> QED BY <1>1, SerialInvariant, PTL

(* With one tab no record of the history is ever lost, over any number of   *)
(* reloads, and a settled one stays as it is; what is being confirmed is in *)
(* local storage (txStore.ts: addTransaction, resolveTransaction).  Two     *)
(* tabs overwrite each other's records.                                     *)
THEOREM OneTabForgetsNothing == OneTab /\ Spec => NothingForgotten
<1>1. SInv /\ SInv' /\ Lasting =>
        [/\ Recorded'
         /\ \A h \in Hashes : storage[h] # "none" =>
              storage'[h] \in {storage[h]} \cup
                (IF storage[h] = "pending" THEN {"success", "failed"} ELSE {})]_vars
  BY DEF SInv, Lasting
<1>2. OneTab /\ SInv /\ [Next]_vars => SInv' /\ Lasting BY NextSerial
<1> QED BY <1>1, <1>2, SerialInvariant, PTL DEF Spec, NothingForgotten

=============================================================================
