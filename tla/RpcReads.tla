------------------------------ MODULE RpcReads ------------------------------
(***************************************************************************)
(* How the web client reads a contract: a simulation asked of the endpoint *)
(* that is active at each attempt, repeated while its failures are         *)
(* transient, and shared by everybody who asks for the same read while it  *)
(* is under way.  Failures in a row move the client to the next endpoint.  *)
(*                                                                         *)
(* A read is one call here (the source account and the simulation are two, *)
(* that fail and move the endpoint alike).  External: at most one endpoint *)
(* is down, from the start, and it fails every call with a transient error.*)
(***************************************************************************)
EXTENDS Naturals

CONSTANTS
  Endpoints,      \* how many urls SOROBAN_RPC_URLS lists
  FailoverAfter,  \* RPC_FAILOVER_AFTER
  Reads,          \* what can be read, by key
  None

ASSUME RpcAssumption ==
  /\ Endpoints \in Nat \ {0} /\ FailoverAfter \in Nat \ {0}
  /\ None \notin 0 .. Endpoints - 1

VARIABLES
  rpc,    \* the active endpoint, its failures in a row, the one that is down
  sims    \* per read that this page asks for: nothing, the endpoint it was asked of, or its answer

rpcVars == <<rpc, sims>>

NoSim == [at |-> None, answer |-> None]
Asking(k) == sims[k].at # None
Answered(k) == sims[k].answer # None

RpcInit(ks) ==
  /\ rpc \in [active : {0}, failures : {0}, down : {0, None}]
  /\ sims = [k \in ks |-> NoSim]

NoteRpcSuccess(r) == [r EXCEPT !.failures = 0]

(* A slip: the active endpoint is kept however often it fails.              *)
NoteRpcFailureKeeping(r) == [r EXCEPT !.failures = (@ + 1) % FailoverAfter]

NoteRpcFailure(r) ==
  IF Endpoints = 1 THEN r
  ELSE IF r.failures + 1 < FailoverAfter THEN [r EXCEPT !.failures = @ + 1]
  ELSE [r EXCEPT !.failures = 0, !.active = (@ + 1) % Endpoints]

AskedOf(endpoint) == [NoSim EXCEPT !.at = endpoint]

(* Reads ks start, beside those under way in s: one of those is joined.     *)
SimulateContractCall(s, ks) ==
  [k \in DOMAIN s |-> IF k \in ks /\ s[k] = NoSim THEN AskedOf(rpc.active) ELSE s[k]]

(* An attempt is answered, by an endpoint that is up.                       *)
AnswerRead(k, value) ==
  /\ Asking(k) /\ sims[k].at # rpc.down
  /\ sims' = [sims EXCEPT ![k] = [NoSim EXCEPT !.answer = value]]
  /\ rpc' = NoteRpcSuccess(rpc)

(* An attempt fails, and is repeated with the endpoint active by then ...   *)
RetryRead(k) ==
  /\ Asking(k) /\ sims[k].at = rpc.down
  /\ rpc' = NoteRpcFailure(rpc)
  /\ sims' = [sims EXCEPT ![k] = AskedOf(NoteRpcFailure(rpc).active)]

(* ... or was the last the retry budget allows.                             *)
GiveUpRead(k) ==
  /\ Asking(k) /\ sims[k].at = rpc.down
  /\ rpc' = NoteRpcFailure(rpc)
  /\ sims' = [sims EXCEPT ![k] = NoSim]
=============================================================================
