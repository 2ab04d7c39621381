------------------------------- MODULE Wallet -------------------------------
(***************************************************************************)
(* The web client's wallet session: what one tab believes about the        *)
(* Freighter extension, and the asynchronous operations that bring it up   *)
(* to date.  Connecting, restoring the session of an earlier load and the  *)
(* background poll all ask the extension for an account and a network, one *)
(* answer at a time, and write to the same store when they have both;      *)
(* meanwhile the user switches accounts and networks in the extension,     *)
(* locks it, takes the site's access away, disconnects or reloads.         *)
(*                                                                         *)
(* External: the extension.  One connection attempt and one restore are in *)
(* flight at a time; the poll of the interval and the one of the focus     *)
(* event are the members of Checks.                                        *)
(***************************************************************************)
EXTENDS Naturals, FiniteSets

CONSTANTS
  Accounts,     \* accounts the extension holds
  Checks,       \* polls of the wallet's state that may overlap
  MaxChanges,   \* bound: changes in the extension, and requests to it that fail
  None

ASSUME WalletAssumption ==
  /\ MaxChanges \in Nat /\ None \notin Accounts \cup BOOLEAN
  /\ Checks \cap {"connect", "restore"} = {}

VARIABLES
  ext,      \* the extension: account, right (network), locked, granted
  changes,
  store,    \* useWalletStore
  flow      \* per operation: where it is and what it has been told

walletVars == <<ext, changes, store, flow>>

Kinds == {"connect", "restore"} \cup Checks
Freighters == [account : Accounts, right : BOOLEAN, locked : BOOLEAN, granted : BOOLEAN]
Usable == ext.granted /\ ~ext.locked

---------------------------------------------------------------------------
(* The store: network and error, which nothing decides on, are left out.   *)

NewStore == [status |-> "disconnected", publicKey |-> None, networkMismatch |-> FALSE,
             wasConnected |-> FALSE, lastAddress |-> None]

SetConnecting(s) == [s EXCEPT !.status = "connecting"]
SetError(s) == [s EXCEPT !.status = "error"]
SetNetworkMismatch(s, mismatch) == [s EXCEPT !.networkMismatch = mismatch]
ClearPersistedSession(s) == [s EXCEPT !.wasConnected = FALSE, !.lastAddress = None]
SetConnected(s, account) ==
  [s EXCEPT !.status = "connected", !.publicKey = account,
            !.wasConnected = TRUE, !.lastAddress = account]

(* partialize: what a reload finds.                                         *)
Persisted(s) ==
  [NewStore EXCEPT !.wasConnected = s.wasConnected, !.lastAddress = s.lastAddress]

---------------------------------------------------------------------------
(* Operations in flight.                                                   *)

Idle == [at |-> "idle", account |-> None, right |-> None]
Asking == [Idle EXCEPT !.at = "access"]
Reading == [Idle EXCEPT !.at = "reading"]
Told(k) == flow[k].account # None /\ flow[k].right # None

(* A slip: a restore goes on after the session it was started for.          *)
CommitKeepingRestore(s, f) == store' = s /\ flow' = f

(* The store is written.  The effect that restores a session depends on the *)
(* status and the marker: a change of either cancels the restore that is    *)
(* under way, and starts one where a marked session is disconnected.        *)
Commit(s, f) ==
  /\ store' = s
  /\ flow' = IF s.status = store.status /\ s.wasConnected = store.wasConnected THEN f
             ELSE [f EXCEPT !["restore"] =
                     IF s.wasConnected /\ s.status = "disconnected" THEN Reading ELSE Idle]

Done(k) == [flow EXCEPT ![k] = Idle]

(* The header: the address and a way out of the session, or the button that *)
(* starts one, which is disabled while one is being started.                *)
AddressShown == store.status = "connected" /\ store.publicKey # None
ConnectShown == ~AddressShown /\ store.status # "connecting"

Connect ==
  /\ ConnectShown /\ flow["connect"] = Idle
  /\ Commit(SetConnecting(store), [flow EXCEPT !["connect"] = Asking])
  /\ UNCHANGED <<ext, changes>>

(* The connect buttons of the marketplace page: the status, and no request. *)
ConnectBanner ==
  /\ store.publicKey = None /\ store.status # "connecting"
  /\ Commit(SetConnecting(store), flow)
  /\ UNCHANGED <<ext, changes>>

DisconnectWallet ==
  /\ AddressShown
  /\ Commit(NewStore, flow)
  /\ UNCHANGED <<ext, changes>>

(* A page with the hook is mounted: its restore effect runs.                *)
Mount ==
  /\ store.wasConnected /\ store.status = "disconnected" /\ flow["restore"] = Idle
  /\ flow' = [flow EXCEPT !["restore"] = Reading]
  /\ UNCHANGED <<ext, changes, store>>

Reload ==
  /\ store' = Persisted(store)
  /\ flow' = [k \in Kinds |-> IF k = "restore" /\ store.wasConnected THEN Reading ELSE Idle]
  /\ UNCHANGED <<ext, changes>>

CheckWalletState(k) ==
  /\ store.status = "connected" /\ flow[k] = Idle
  /\ flow' = [flow EXCEPT ![k] = Reading]
  /\ UNCHANGED <<ext, changes, store>>

(* The user answers the authorization popup, unlocking the extension first. *)
Approve ==
  /\ flow["connect"].at = "access"
  /\ ext' = [ext EXCEPT !.granted = TRUE, !.locked = FALSE]
  /\ flow' = [flow EXCEPT !["connect"] = Reading]
  /\ UNCHANGED <<changes, store>>

Reject ==
  /\ flow["connect"].at = "access"
  /\ Commit(SetError(store), Done("connect"))
  /\ UNCHANGED <<ext, changes>>

(* Connecting and restoring ask for the account first; a poll asks for both *)
(* at once.                                                                 *)
ReadAddress(k) ==
  /\ flow[k].at = "reading" /\ flow[k].account = None /\ Usable
  /\ flow' = [flow EXCEPT ![k].account = ext.account]
  /\ UNCHANGED <<ext, changes, store>>

ReadNetwork(k) ==
  /\ flow[k].at = "reading" /\ flow[k].right = None
  /\ k \in Checks \/ flow[k].account # None
  /\ flow' = [flow EXCEPT ![k].right = ext.right]
  /\ UNCHANGED <<ext, changes, store>>

(* A failed request ends a connection attempt with an error and a poll      *)
(* without a trace; a failed restore forgets the session, unless the        *)
(* extension says that it is locked.                                        *)
Failed(k, saysLocked) ==
  Commit(CASE k = "connect" -> SetError(store)
           [] k = "restore" /\ ~saysLocked -> ClearPersistedSession(store)
           [] OTHER -> store, Done(k))

ReadRefused(k) ==
  /\ flow[k].at = "reading" /\ flow[k].account = None /\ ~Usable
  /\ Failed(k, ext.locked)
  /\ UNCHANGED <<ext, changes>>

BridgeFails(k) ==
  /\ flow[k].at = "reading" /\ changes < MaxChanges
  /\ changes' = changes + 1
  /\ Failed(k, FALSE)
  /\ UNCHANGED ext

(* Connecting and restoring write what they were told.                      *)
Establish(k) ==
  /\ k \in {"connect", "restore"} /\ flow[k].at = "reading" /\ Told(k)
  /\ Commit(SetNetworkMismatch(SetConnected(store, flow[k].account), ~flow[k].right),
            Done(k))
  /\ UNCHANGED <<ext, changes>>

(* A slip: the network is looked at only when the account has changed.      *)
CompareAccountOnly(k) ==
  /\ k \in Checks /\ Told(k)
  /\ Commit(IF flow[k].account # store.publicKey
            THEN SetNetworkMismatch(SetConnected(store, flow[k].account), ~flow[k].right)
            ELSE store, Done(k))
  /\ UNCHANGED <<ext, changes>>

(* A poll compares with the store as it is now, whatever happened since it  *)
(* was started: the account it was told replaces another one, or none.      *)
Compare(k) ==
  LET s == IF flow[k].account # store.publicKey
           THEN SetConnected(store, flow[k].account) ELSE store
  IN
  /\ k \in Checks /\ Told(k)
  /\ Commit(SetNetworkMismatch(s, ~flow[k].right), Done(k))
  /\ UNCHANGED <<ext, changes>>

(* In the extension, or in another tab.                                     *)
Freighter ==
  /\ changes < MaxChanges /\ changes' = changes + 1
  /\ \E e \in Freighters \ {ext} : ext' = e
  /\ UNCHANGED <<store, flow>>

---------------------------------------------------------------------------
WalletInit ==
  /\ ext \in Freighters /\ changes = 0
  /\ \E marked \in Accounts \cup {None} :
       store = IF marked = None THEN NewStore
               ELSE [NewStore EXCEPT !.wasConnected = TRUE, !.lastAddress = marked]
  /\ flow = [k \in Kinds |-> IF k = "restore" /\ store.wasConnected THEN Reading ELSE Idle]

Answers(k) == ReadAddress(k) \/ ReadNetwork(k) \/ ReadRefused(k) \/ Establish(k) \/ Compare(k)

(* Everything but a reload, which ends the page.                            *)
OnPage ==
  \/ Connect \/ ConnectBanner \/ DisconnectWallet \/ Mount \/ Approve \/ Reject
  \/ \E k \in Checks : CheckWalletState(k)
  \/ \E k \in Kinds : Answers(k) \/ BridgeFails(k)
  \/ Freighter

WalletNext == OnPage \/ Reload

WalletSpec == WalletInit /\ [][WalletNext]_walletVars

(* The extension answers, and the poll's interval comes round.              *)
WalletFairness ==
  /\ \A k \in Kinds : WF_walletVars(Answers(k))
  /\ \A k \in Checks : WF_walletVars(CheckWalletState(k))

FairSpec == WalletSpec /\ WalletFairness

---------------------------------------------------------------------------
Flows == [at : {"idle", "access", "reading"}, account : Accounts \cup {None},
          right : BOOLEAN \cup {None}]

Stores == [status : {"disconnected", "connecting", "connected", "error"},
           publicKey : Accounts \cup {None}, networkMismatch : BOOLEAN,
           wasConnected : BOOLEAN, lastAddress : Accounts \cup {None}]

WalletTypeOK ==
  /\ ext \in Freighters /\ changes \in 0 .. MaxChanges
  /\ store \in Stores
  /\ flow \in [Kinds -> Flows]

(* The marker in local storage matches the session: a connected session is  *)
(* marked, with the account it shows, and an unmarked one has no account to *)
(* come back to.  A restore that outlived its reason would break it.        *)
MarkerMatches ==
  /\ store.status = "connected" =>
       store.wasConnected /\ store.publicKey # None /\ store.lastAddress = store.publicKey
  /\ ~store.wasConnected => store.lastAddress = None

(* Once the extension stops changing, a connected session shows its account *)
(* and network and keeps showing them, whichever stale answers of polls,    *)
(* restores and connection attempts are still to be written.                *)
FollowsFreighter ==
  <>[](store.status = "connected" /\ Usable =>
         store.publicKey = ext.account /\ store.networkMismatch = ~ext.right)
=============================================================================
