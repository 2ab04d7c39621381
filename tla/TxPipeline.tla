----------------------------- MODULE TxPipeline -----------------------------
(***************************************************************************)
(* The web client's transaction pipeline.  A user action is a mutation:    *)
(* its invocation is queued per account and then built on the account's    *)
(* sequence number, simulated, signed in the wallet, sent, and polled for. *)
(* Accepted transactions are kept in a history that lives in the tab's     *)
(* memory and, as a whole, in local storage; a tab that was closed while   *)
(* one was confirming resumes it when it is opened again.                  *)
(*                                                                         *)
(* External: the network, which accepts the next sequence number of the    *)
(* account only, one transaction at a time, and applies an accepted        *)
(* transaction or lets its time bounds pass; the RPC node, whose answers   *)
(* may be lost; the wallet and its user.  All tabs use one account; what   *)
(* other devices sign with it is OtherTx.  Clocks agree, so that 60        *)
(* seconds after acceptance the 30 seconds a transaction is valid for are  *)
(* over: "expired" stands for both.                                        *)
(* The extension is on the configured network throughout: the guard that   *)
(* throws before the queue when it is not is Onboarding.Simulate.          *)
(***************************************************************************)
EXTENDS Naturals, Sequences, FiniteSets

CONSTANTS
  Tabs,            \* browser tabs
  Calls,           \* user actions, each started at most once
  MaxTx,           \* bound: transactions the network ever accepts from the tabs
  MaxOthers,       \* bound: transactions other devices sign
  MaxFaults,       \* bound: failed requests, lost answers, time-outs, dropped records
  MaxMutationRetries, \* MAX_MUTATION_RETRIES, 1 in the code
  UnluckyHashes,   \* hashes whose text holds 429, 500, 502, 503 or 504
  None

ASSUME TxAssumption ==
  /\ MaxTx \in Nat /\ MaxOthers \in Nat /\ MaxFaults \in Nat
  /\ MaxMutationRetries \in Nat /\ UnluckyHashes \subseteq 1 .. MaxTx
  /\ None \notin Calls \cup Nat

VARIABLES
  \* the network
  seq,        \* the account's sequence number
  txs,        \* accepted transactions: call, attempt and status; the hash is the index
  others,     \* transactions signed elsewhere
  \* the tabs
  open,       \* whether the tab is open
  queue,      \* per tab: the calls waiting
  running,    \* per tab: the call being processed, or None
  job,        \* per call: what its mutation is doing
  memory,     \* per tab: the history as the tab sees it
  resuming,   \* per tab: the hashes polled by resumePendingTransactions
  storage,    \* the history in local storage
  faults

netVars == <<seq, txs, others>>
historyVars == <<memory, storage>>
tabVars == <<open, queue, running, job, resuming>>
vars == <<netVars, historyVars, tabVars, faults>>

Hashes == 1 .. MaxTx
Blank == [h \in Hashes |-> "none"]

(* A call's stage, the tab it runs in, how often its mutation failed, the   *)
(* sequence number it was built on, whether this is the one rebuild after   *)
(* BAD_SEQ, and the network's answer to what was sent: a hash or a refusal. *)
NewJob == [stage |-> "idle", tab |-> None, failures |-> 0, base |-> 0,
           rebuilt |-> FALSE, hash |-> 0, refusal |-> "none"]

Pending == {h \in 1 .. Len(txs) : txs[h].status = "pool"}
Landed(h) == txs[h].status \in {"success", "gone"}

---------------------------------------------------------------------------
(* The history.                                                            *)

(* addTransaction and resolveTransaction: the tab's whole list is written   *)
(* to local storage.                                                        *)
AddTransaction(t, h) ==
  LET list == IF memory[t][h] = "none" THEN [memory[t] EXCEPT ![h] = "pending"]
              ELSE memory[t]
  IN  memory' = [memory EXCEPT ![t] = list] /\ storage' = list

ResolveTransaction(t, h, status) ==
  LET list == IF memory[t][h] = "none" THEN memory[t]
              ELSE [memory[t] EXCEPT ![h] = status]
  IN  memory' = [memory EXCEPT ![t] = list] /\ storage' = list

---------------------------------------------------------------------------
(* The queue of a tab (the account is the same for all calls).             *)

(* A slip: a call is started although another one is being processed.       *)
StartAtOnce(t, c) ==
  /\ running' = [running EXCEPT ![t] = c] /\ UNCHANGED queue
  /\ job' = [job EXCEPT ![c].stage = "starting", ![c].tab = t]

(* executeTransaction and processQueue: a call waits while another one of   *)
(* the account is being processed; when that ends, the next one starts.     *)
Start(t, c) ==
  IF running[t] = None
  THEN /\ running' = [running EXCEPT ![t] = c] /\ UNCHANGED queue
       /\ job' = [job EXCEPT ![c].stage = "starting", ![c].tab = t]
  ELSE /\ queue' = [queue EXCEPT ![t] = Append(@, c)] /\ UNCHANGED running
       /\ job' = [job EXCEPT ![c].stage = "queued", ![c].tab = t]

(* A slip: the loop ends with the call, whatever waits behind it.           *)
DequeuedOnly(t, next) ==
  /\ running' = [running EXCEPT ![t] = None] /\ UNCHANGED queue
  /\ job' = next

Dequeued(t, next) ==
  IF queue[t] = << >>
  THEN /\ running' = [running EXCEPT ![t] = None] /\ UNCHANGED queue
       /\ job' = next
  ELSE /\ running' = [running EXCEPT ![t] = Head(queue[t])]
       /\ queue' = [queue EXCEPT ![t] = Tail(@)]
       /\ job' = [next EXCEPT ![Head(queue[t])].stage = "starting"]

Click(t, c) ==
  /\ open[t] /\ job[c] = NewJob
  /\ Start(t, c)
  /\ UNCHANGED <<netVars, historyVars, open, resuming, faults>>

(* retryMutation: once, when the failure reads as a network error and its   *)
(* text names neither a signature nor a submission.  A thrown               *)
(* sendTransaction reads like any other failed request; the text of a       *)
(* time-out holds the hash, whose digits may read as an HTTP status.        *)
RetryMutation(c, error) ==
  /\ job[c].failures < MaxMutationRetries
  /\ error \in {"network", "unlucky timeout"}

End(t, c, error) ==
  LET ended == [NewJob EXCEPT !.tab = t, !.failures = job[c].failures + 1] IN
  Dequeued(t, [job EXCEPT ![c] =
    IF error = "none" THEN [ended EXCEPT !.stage = "succeeded"]
    ELSE IF RetryMutation(c, error) THEN [ended EXCEPT !.stage = "retrying"]
    ELSE [ended EXCEPT !.stage = "failed"]])

At(c, stage) == job[c].stage = stage
Move(c, stage) == job' = [job EXCEPT ![c].stage = stage]
Fault == faults < MaxFaults /\ faults' = faults + 1

(* The retry delay is over: the mutation function runs again.               *)
Retry(c) ==
  /\ At(c, "retrying")
  /\ Start(job[c].tab, c)
  /\ UNCHANGED <<netVars, historyVars, open, resuming, faults>>

---------------------------------------------------------------------------
(* executeTransactionInternal.                                             *)

(* getAccount: the transaction gets the sequence number after this one.     *)
Build(c) ==
  /\ At(c, "starting")
  /\ job' = [job EXCEPT ![c].stage = "built", ![c].base = seq]
  /\ UNCHANGED <<netVars, historyVars, open, queue, running, resuming, faults>>

Simulate(c) ==
  /\ At(c, "built")
  /\ Move(c, "signing")
  /\ UNCHANGED <<netVars, historyVars, open, queue, running, resuming, faults>>

(* Reading the account or simulating fails for good (network), the          *)
(* simulation reports an error (contract), or the user rejects.             *)
GiveUp(c) ==
  /\ \E e \in {<<"starting", "network">>, <<"built", "network">>,
               <<"built", "contract">>, <<"signing", "rejected">>} :
       At(c, e[1]) /\ End(job[c].tab, c, e[2])
  /\ Fault
  /\ UNCHANGED <<netVars, historyVars, open, resuming>>

Sign(c) ==
  /\ At(c, "signing")
  /\ Move(c, "signed")
  /\ UNCHANGED <<netVars, historyVars, open, queue, running, resuming, faults>>

(* sendTransaction reaches the network, which takes the next sequence       *)
(* number while nothing of the account is waiting, and otherwise refuses.   *)
Accepted(c) ==
  /\ txs' = Append(txs, [call |-> c, attempt |-> job[c].failures, status |-> "pool"])
  /\ job' = [job EXCEPT ![c].stage = "sent", ![c].hash = Len(txs) + 1]

Refused(c, why) ==
  /\ job' = [job EXCEPT ![c].stage = "sent", ![c].refusal = why]
  /\ UNCHANGED txs

Send(c) ==
  /\ At(c, "signed") /\ Len(txs) < MaxTx
  /\ \/ job[c].base = seq /\ Pending = {} /\ Accepted(c)
     \/ job[c].base # seq /\ Refused(c, "BAD_SEQ")
     \/ Pending # {} /\ Refused(c, "TRY_AGAIN_LATER")
  /\ UNCHANGED <<seq, others, historyVars, open, queue, running, resuming, faults>>

(* A slip: the transaction enters the history when it is settled.           *)
ReplyAcceptedUnrecorded(c) ==
  /\ At(c, "sent") /\ job[c].hash # 0
  /\ Move(c, "polling")
  /\ UNCHANGED <<netVars, historyVars, open, queue, running, resuming, faults>>

(* The hash is known: the transaction enters the history, polling begins.   *)
ReplyAccepted(c) ==
  /\ At(c, "sent") /\ job[c].hash # 0
  /\ AddTransaction(job[c].tab, job[c].hash)
  /\ Move(c, "polling")
  /\ UNCHANGED <<netVars, open, queue, running, resuming, faults>>

(* A refusal whose text names BAD_SEQ is answered once by building anew on  *)
(* the account as it is now; any other refusal, and a second one, ends the  *)
(* call with a text that names the submission.                              *)
ReplyBadSeq(c) ==
  /\ At(c, "sent") /\ job[c].refusal = "BAD_SEQ" /\ ~job[c].rebuilt
  /\ job' = [job EXCEPT ![c].stage = "starting", ![c].rebuilt = TRUE,
                        ![c].refusal = "none"]
  /\ UNCHANGED <<netVars, historyVars, open, queue, running, resuming, faults>>

ReplyRefused(c) ==
  /\ At(c, "sent") /\ job[c].refusal # "none"
  /\ job[c].refusal = "BAD_SEQ" => job[c].rebuilt
  /\ End(job[c].tab, c, "submission")
  /\ UNCHANGED <<netVars, historyVars, open, resuming, faults>>

(* A slip: sendTransaction is repeated like a read.                         *)
SendThrowsResending(c) ==
  /\ At(c, "sent")
  /\ job' = [job EXCEPT ![c].stage = "starting"]
  /\ Fault
  /\ UNCHANGED <<netVars, historyVars, open, queue, running, resuming>>

(* The request throws: it never arrived, or its answer was lost.            *)
SendThrows(c) ==
  /\ \/ At(c, "signed")
     \/ At(c, "sent")
  /\ End(job[c].tab, c, "network")
  /\ Fault
  /\ UNCHANGED <<netVars, historyVars, open, resuming>>

(* pollSubmitted: success, failure on chain, or a time-out that leaves the  *)
(* record pending.  NOT_FOUND and failed requests are polled again.         *)
PollSettles(c) ==
  LET h == job[c].hash  t == job[c].tab IN
  /\ At(c, "polling") /\ txs[h].status \in {"success", "failed"}
  /\ ResolveTransaction(t, h, txs[h].status)
  /\ End(t, c, IF txs[h].status = "success" THEN "none" ELSE "failed on-chain")
  /\ UNCHANGED <<netVars, open, resuming, faults>>

PollTimesOut(c) ==
  /\ At(c, "polling")
  /\ \/ txs[job[c].hash].status \in {"expired", "gone"} /\ UNCHANGED faults
     \/ Fault
  /\ End(job[c].tab, c,
         IF job[c].hash \in UnluckyHashes THEN "unlucky timeout" ELSE "timeout")
  /\ UNCHANGED <<netVars, historyVars, open, resuming>>

---------------------------------------------------------------------------
(* Tabs.                                                                   *)

(* Everything the tab was doing is gone; what it sent is not.               *)
Close(t) ==
  /\ open[t]
  /\ open' = [open EXCEPT ![t] = FALSE]
  /\ running' = [running EXCEPT ![t] = None] /\ queue' = [queue EXCEPT ![t] = << >>]
  /\ job' = [c \in Calls |-> IF job[c].tab = t /\ job[c].stage \notin {"succeeded", "failed"}
                             THEN [NewJob EXCEPT !.stage = "closed", !.tab = t] ELSE job[c]]
  /\ resuming' = [resuming EXCEPT ![t] = {}]
  /\ memory' = [memory EXCEPT ![t] = Blank]
  /\ UNCHANGED <<netVars, storage, faults>>

(* The store rehydrates, and whatever it holds as pending is polled.        *)
OpenWithoutResuming(t) ==
  /\ ~open[t]
  /\ open' = [open EXCEPT ![t] = TRUE]
  /\ memory' = [memory EXCEPT ![t] = storage]
  /\ UNCHANGED <<netVars, storage, queue, running, job, resuming, faults>>

Open(t) ==
  /\ ~open[t]
  /\ open' = [open EXCEPT ![t] = TRUE]
  /\ memory' = [memory EXCEPT ![t] = storage]
  /\ resuming' = [resuming EXCEPT ![t] = {h \in Hashes : storage[h] = "pending"}]
  /\ UNCHANGED <<netVars, storage, queue, running, job, faults>>

(* resumeOne: NOT_FOUND counts as failed only when the transaction can no   *)
(* longer be included.                                                      *)
VerdictAtOnce(h) ==
  IF txs[h].status \in {"success", "failed"} THEN txs[h].status ELSE "failed"

Verdict(h) ==
  CASE txs[h].status \in {"success", "failed"} -> txs[h].status
    [] txs[h].status \in {"expired", "gone"} -> "failed"
    [] OTHER -> "pending"

ResumeSettles(t, h) ==
  /\ h \in resuming[t] /\ Verdict(h) # "pending"
  /\ ResolveTransaction(t, h, Verdict(h))
  /\ resuming' = [resuming EXCEPT ![t] = @ \ {h}]
  /\ UNCHANGED <<netVars, open, queue, running, job, faults>>

ResumeGivesUp(t, h) ==
  /\ h \in resuming[t] /\ Fault
  /\ resuming' = [resuming EXCEPT ![t] = @ \ {h}]
  /\ UNCHANGED <<netVars, historyVars, open, queue, running, job>>

---------------------------------------------------------------------------
(* The network.                                                            *)

(* A transaction of the account is included, with either result; both use   *)
(* up the sequence number.                                                  *)
Apply == \E h \in Pending, result \in {"success", "failed"} :
  /\ txs' = [txs EXCEPT ![h].status = result]
  /\ seq' = seq + 1
  /\ UNCHANGED <<others, historyVars, tabVars, faults>>

Expire == \E h \in Pending :
  /\ txs' = [txs EXCEPT ![h].status = "expired"]
  /\ UNCHANGED <<seq, others, historyVars, tabVars, faults>>

OtherTx ==
  /\ others < MaxOthers /\ Pending = {}
  /\ seq' = seq + 1 /\ others' = others + 1
  /\ UNCHANGED <<txs, historyVars, tabVars, faults>>

(* The node keeps a transaction for a while only.                           *)
Forget == \E h \in 1 .. Len(txs) :
  /\ txs[h].status = "success" /\ Fault
  /\ txs' = [txs EXCEPT ![h].status = "gone"]
  /\ UNCHANGED <<seq, others, historyVars, tabVars>>

Network == Apply \/ Expire \/ OtherTx \/ Forget

---------------------------------------------------------------------------
Init ==
  /\ seq = 0 /\ txs = << >> /\ others = 0 /\ faults = 0
  /\ open = [t \in Tabs |-> TRUE]
  /\ queue = [t \in Tabs |-> << >>] /\ running = [t \in Tabs |-> None]
  /\ job = [c \in Calls |-> NewJob]
  /\ memory = [t \in Tabs |-> Blank] /\ storage = Blank
  /\ resuming = [t \in Tabs |-> {}]

Advance(c) ==
  \/ Retry(c) \/ Build(c) \/ Simulate(c) \/ Sign(c) \/ Send(c)
  \/ ReplyAccepted(c) \/ ReplyBadSeq(c) \/ ReplyRefused(c) \/ PollSettles(c)
  \/ PollTimesOut(c)

Next ==
  \/ \E t \in Tabs, c \in Calls : Click(t, c)
  \/ \E c \in Calls : Advance(c) \/ GiveUp(c) \/ SendThrows(c)
  \/ \E t \in Tabs : Close(t) \/ Open(t)
  \/ \E t \in Tabs, h \in Hashes : ResumeSettles(t, h) \/ ResumeGivesUp(t, h)
  \/ Network

Spec == Init /\ [][Next]_vars

(* Requests are answered and the user decides on what the wallet shows; an  *)
(* accepted transaction is applied or expires; a tab that was closed is     *)
(* opened again, and stays open long enough to hear of one transaction.     *)
FairSpec ==
  /\ Spec
  /\ \A c \in Calls : WF_vars(Advance(c))
  /\ WF_vars(Apply \/ Expire)
  /\ \A t \in Tabs : WF_vars(Open(t))
  /\ \A t \in Tabs, h \in Hashes : SF_vars(ResumeSettles(t, h))

---------------------------------------------------------------------------
Transactions == [call : Calls, attempt : Nat,
                 status : {"pool", "success", "failed", "expired", "gone"}]

Jobs == [stage : {"idle", "queued", "starting", "built", "signing", "signed", "sent",
                  "polling", "retrying", "succeeded", "failed", "closed"},
         tab : Tabs \cup {None}, failures : Nat, base : Nat, rebuilt : BOOLEAN,
         hash : Nat, refusal : {"none", "BAD_SEQ", "TRY_AGAIN_LATER"}]

Histories == [Hashes -> {"none", "pending", "success", "failed"}]

TypeOK ==
  /\ seq \in Nat /\ others \in Nat /\ faults \in Nat
  /\ txs \in Seq(Transactions) /\ Len(txs) <= MaxTx
  /\ open \in [Tabs -> BOOLEAN] /\ queue \in [Tabs -> Seq(Calls)]
  /\ running \in [Tabs -> Calls \cup {None}]
  /\ job \in [Calls -> Jobs]
  /\ memory \in [Tabs -> Histories] /\ storage \in Histories
  /\ resuming \in [Tabs -> SUBSET Hashes]

(* One run of executeTransaction has effect at most once, although it may   *)
(* sign and send twice: it builds anew only on a refusal (#454).            *)
AttemptLandsOnce ==
  \A h, k \in 1 .. Len(txs) :
    Landed(h) /\ Landed(k) /\ h # k =>
      txs[h].call # txs[k].call \/ txs[h].attempt # txs[k].attempt

(* "a submitted transaction is never resubmitted" (providers.tsx:31-32):    *)
(* what the user asked for once has effect once, over the retries of its    *)
(* mutation.                                                                *)
CallLandsOnce ==
  \A h, k \in 1 .. Len(txs) :
    Landed(h) /\ Landed(k) /\ h # k => txs[h].call # txs[k].call

(* What a tab lists on the profile page: the label of each record.           *)
HistoryPanel(t) ==
  [h \in {k \in Hashes : memory[t][k] # "none"} |->
     CASE memory[t][h] = "pending" -> "Confirming"
       [] memory[t][h] = "success" -> "Confirmed"
       [] memory[t][h] = "failed" -> "Failed"]

(* The history tells the truth, in every tab and in what a reload finds:    *)
(* what it calls a success took effect, and what it calls failed did not    *)
(* and never will, unless the node had dropped the transaction before it    *)
(* was asked (transaction.ts: resumePendingTransactions, submitTxWithHash). *)
Truthful(h, succeeded, failed) ==
  /\ succeeded => Landed(h)
  /\ failed => txs[h].status \in {"failed", "expired", "gone"}
HistoryTruthful ==
  /\ \A h \in 1 .. Len(txs) : Truthful(h, storage[h] = "success", storage[h] = "failed")
  /\ \A t \in Tabs : \A h \in DOMAIN HistoryPanel(t) :
       Truthful(h, HistoryPanel(t)[h] = "Confirmed", HistoryPanel(t)[h] = "Failed")

(* "closing the tab mid-confirmation does not lose it" (txStore.ts:69-70):  *)
(* a transaction being confirmed is in local storage, a record never goes   *)
(* and a settled one never changes.                                         *)
Recorded == \A c \in Calls : At(c, "polling") => storage[job[c].hash] # "none"
NothingForgotten ==
  [][/\ Recorded'
     /\ \A h \in Hashes : storage[h] # "none" =>
          storage'[h] \in {storage[h]} \cup
            (IF storage[h] = "pending" THEN {"success", "failed"} ELSE {})]_vars

(* "to serialize transaction submissions and avoid bad sequence errors"     *)
(* (transaction.ts:91): the sequence number a transaction is signed for is  *)
(* the next one, unless another device used the account or an earlier call  *)
(* ended without the tab learning what became of it.                        *)
LeftOpen == faults > 0 \/ \E c \in Calls : At(c, "closed")
NoSelfConflict ==
  \A c \in Calls : At(c, "signed") /\ others = 0 /\ ~LeftOpen => job[c].base = seq

(* A pending record is settled in the end, over closed tabs and polls that  *)
(* give up, as long as the application is opened again and again.           *)
PendingSettles ==
  (\A t \in Tabs : []<>~open[t]) =>
    \A h \in Hashes : storage[h] = "pending" ~> storage[h] \in {"success", "failed"}

(* Every call comes to an end unless its tab is closed: one that fails, is  *)
(* retried, is built anew or times out leaves the queue of its account      *)
(* running for the calls behind it (transaction.ts: processQueue).  Of what *)
(* the status row shows of a failed call this says nothing.                 *)
Underway(c) == job[c].stage \notin {"idle", "succeeded", "failed", "closed"}
CallEnds == \A c \in Calls : Underway(c) ~> ~Underway(c)
=============================================================================
