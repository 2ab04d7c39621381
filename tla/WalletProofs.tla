---------------------------- MODULE WalletProofs ----------------------------
(***************************************************************************)
(* The wallet session, for any accounts, any number of overlapping polls   *)
(* and any number of changes in the extension: every reachable state is    *)
(* well-formed, and the marker in local storage matches the session.       *)
(*                                                                         *)
(* The marker invariant is not inductive.  A failed restore forgets the    *)
(* marker without looking at the status, which would leave a connected     *)
(* session unmarked if the restore had outlived its reason; what excludes  *)
(* it is RestoreHasReason, which every write to the store keeps because it *)
(* re-runs the effect (Commit).                                            *)
(***************************************************************************)
EXTENDS Wallet, TLAPS

(* A restore is under way only for a session that is marked and is not      *)
(* connected: what it does when it fails is safe only then.                 *)
RestoreHasReason ==
  flow["restore"].at # "idle" => store.status = "disconnected" /\ store.wasConnected

IInv == WalletTypeOK /\ MarkerMatches /\ RestoreHasReason

(* What a store must satisfy for the marker to match.                       *)
Marked(s) ==
  /\ s.status = "connected" => s.wasConnected /\ s.publicKey # None /\ s.lastAddress = s.publicKey
  /\ ~s.wasConnected => s.lastAddress = None

(* The operation records that are written are well-formed.                  *)
LEMMA FlowRecords == Idle \in Flows /\ Asking \in Flows /\ Reading \in Flows /\ Idle.at = "idle"
BY SMT DEF Idle, Asking, Reading, Flows

(* Forgetting the marker is harmless while the session is not connected.    *)
LEMMA ForgettingTheMarker ==
  ASSUME NEW s \in Stores
  PROVE  /\ ClearPersistedSession(s) \in Stores
         /\ s.status = "disconnected" => Marked(ClearPersistedSession(s))
<1>1. /\ ClearPersistedSession(s) \in Stores
      /\ ClearPersistedSession(s).status = s.status
      /\ ClearPersistedSession(s).lastAddress = None
  BY Zenon DEF ClearPersistedSession, Stores
<1> QED BY <1>1 DEF Marked

(* The operations of the store keep it well-formed, and those that write an *)
(* account keep the marker in step with it.                                 *)
LEMMA StoreOperations ==
  ASSUME NEW s \in Stores, NEW a \in Accounts, NEW b \in BOOLEAN, Marked(s)
  PROVE  /\ NewStore \in Stores /\ Marked(NewStore)
         /\ SetConnecting(s) \in Stores /\ Marked(SetConnecting(s))
         /\ SetError(s) \in Stores /\ Marked(SetError(s))
         /\ SetNetworkMismatch(s, b) \in Stores /\ Marked(SetNetworkMismatch(s, b))
         /\ SetConnected(s, a) \in Stores /\ Marked(SetConnected(s, a))
         /\ Persisted(s) \in Stores /\ Marked(Persisted(s))
<1>1. NewStore \in Stores /\ Marked(NewStore)
  BY SMT DEF NewStore, Stores, Marked
<1>2. SetConnecting(s) \in Stores /\ Marked(SetConnecting(s))
  BY SMT DEF SetConnecting, Stores, Marked
<1>3. SetError(s) \in Stores /\ Marked(SetError(s))
  BY SMT DEF SetError, Stores, Marked
<1>4. SetNetworkMismatch(s, b) \in Stores /\ Marked(SetNetworkMismatch(s, b))
  <2>1. /\ SetNetworkMismatch(s, b) \in Stores
        /\ SetNetworkMismatch(s, b).status = s.status
        /\ SetNetworkMismatch(s, b).publicKey = s.publicKey
        /\ SetNetworkMismatch(s, b).wasConnected = s.wasConnected
        /\ SetNetworkMismatch(s, b).lastAddress = s.lastAddress
    BY Zenon DEF SetNetworkMismatch, Stores
  <2> QED BY <2>1, Zenon DEF Marked
<1>5. SetConnected(s, a) \in Stores /\ Marked(SetConnected(s, a))
  <2>1. /\ SetConnected(s, a) \in Stores /\ SetConnected(s, a).wasConnected
        /\ SetConnected(s, a).publicKey = a /\ SetConnected(s, a).lastAddress = a
    BY Zenon DEF SetConnected, Stores
  <2>2. a # None BY WalletAssumption
  <2> QED BY <2>1, <2>2 DEF Marked
<1>6. Persisted(s) \in Stores /\ Marked(Persisted(s))
  <2>1. /\ Persisted(s) \in Stores /\ Persisted(s).status = "disconnected"
        /\ Persisted(s).wasConnected = s.wasConnected
        /\ Persisted(s).lastAddress = s.lastAddress
    BY Zenon DEF Persisted, NewStore, Stores
  <2> QED BY <2>1 DEF Marked
<1> QED BY <1>1, <1>2, <1>3, <1>4, <1>5, <1>6

(* A write to the store cancels the restore whose reason it takes away, and *)
(* starts one where it leaves a reason.                                     *)
LEMMA CommitKeepsInvariant ==
  ASSUME IInv, NEW s \in Stores, NEW f \in [Kinds -> Flows], Marked(s),
         f["restore"] = flow["restore"] \/ f["restore"] = Idle,
         Commit(s, f), ext' \in Freighters, changes' \in 0 .. MaxChanges
  PROVE  IInv'
<1>1. store' = s BY DEF Commit
<1>2. "restore" \in Kinds BY DEF Kinds
<1>3. flow \in [Kinds -> Flows] BY DEF IInv, WalletTypeOK
<1>4. flow' \in [Kinds -> Flows] /\ RestoreHasReason'
  <2>1. CASE s.status = store.status /\ s.wasConnected = store.wasConnected
    <3>1. flow' = f BY <2>1 DEF Commit
    <3>2. flow'["restore"].at # "idle" => flow["restore"].at # "idle"
      BY <3>1, FlowRecords
    <3> QED BY <3>1, <3>2, <1>1, <2>1 DEF IInv, RestoreHasReason
  <2>2. CASE ~(s.status = store.status /\ s.wasConnected = store.wasConnected)
    <3>1. flow' = [f EXCEPT !["restore"] =
                     IF s.wasConnected /\ s.status = "disconnected" THEN Reading ELSE Idle]
      BY <2>2 DEF Commit
    <3>2. flow'["restore"] = IF s.wasConnected /\ s.status = "disconnected" THEN Reading ELSE Idle
      BY <3>1, <1>2
    <3>3. flow' \in [Kinds -> Flows] BY <3>1, FlowRecords
    <3> QED BY <3>2, <3>3, <1>1, FlowRecords DEF RestoreHasReason
  <2> QED BY <2>1, <2>2
<1> QED BY <1>1, <1>4 DEF IInv, WalletTypeOK, MarkerMatches, Marked

(* The same, for the writes that also end the operation they come from.     *)
LEMMA DoneIsAFlow ==
  ASSUME IInv, NEW k \in Kinds
  PROVE  /\ Done(k) \in [Kinds -> Flows]
         /\ Done(k)["restore"] = flow["restore"] \/ Done(k)["restore"] = Idle
BY FlowRecords DEF Done, Kinds, IInv, WalletTypeOK

LEMMA InvariantParts ==
  ASSUME IInv
  PROVE  /\ store \in Stores /\ Marked(store)
         /\ ext \in Freighters /\ changes \in 0 .. MaxChanges
         /\ flow \in [Kinds -> Flows]
BY DEF IInv, WalletTypeOK, MarkerMatches, Marked

(* How an operation that has failed ends keeps the invariant: the marker is *)
(* forgotten only while the session it names is not connected.              *)
LEMMA FailedKeepsInvariant ==
  ASSUME IInv, NEW k \in Kinds, NEW locked \in BOOLEAN, flow[k].at = "reading",
         Failed(k, locked), ext' = ext, changes' \in 0 .. MaxChanges
  PROVE  IInv'
<1> DEFINE s == CASE k = "connect" -> SetError(store)
                  [] k = "restore" /\ ~locked -> ClearPersistedSession(store)
                  [] OTHER -> store
<1>1. s \in Stores /\ Marked(s)
  <2>1. CASE k = "connect"
    <3>1. s = SetError(store) BY <2>1
    <3>2. SetError(store) \in Stores /\ Marked(SetError(store))
      BY InvariantParts, SMT DEF SetError, Stores, Marked
    <3> QED BY <3>1, <3>2
  <2>2. CASE k = "restore" /\ ~locked
    <3>1. s = ClearPersistedSession(store) BY <2>2
    <3>2. store.status = "disconnected" BY <2>2 DEF IInv, RestoreHasReason
    <3>3. ClearPersistedSession(store) \in Stores /\ Marked(ClearPersistedSession(store))
      BY <3>2, InvariantParts, ForgettingTheMarker
    <3> QED BY <3>1, <3>3
  <2>3. CASE k # "connect" /\ ~(k = "restore" /\ ~locked)
    BY <2>3, InvariantParts
  <2> QED BY <2>1, <2>2, <2>3
<1>2. Commit(s, Done(k)) BY DEF Failed
<1> HIDE DEF s
<1> QED BY <1>1, <1>2, DoneIsAFlow, CommitKeepsInvariant, InvariantParts

---------------------------------------------------------------------------
(* The initial states are well-formed, and a restore starts only for a      *)
(* marked session.                                                          *)
LEMMA InitInvariant == WalletInit => IInv
<1> SUFFICES ASSUME WalletInit PROVE IInv OBVIOUS
<1>1. store \in Stores /\ Marked(store) /\ store.status = "disconnected"
  <2>1. PICK marked \in Accounts \cup {None} :
          store = IF marked = None THEN NewStore
                  ELSE [NewStore EXCEPT !.wasConnected = TRUE, !.lastAddress = marked]
    BY DEF WalletInit
  <2>2. CASE marked = None
    BY <2>1, <2>2, SMT DEF NewStore, Stores, Marked
  <2>3. CASE marked # None
    <3>1. /\ store \in Stores /\ store.status = "disconnected"
          /\ store.wasConnected
      BY <2>1, <2>3, Zenon DEF NewStore, Stores
    <3> QED BY <3>1 DEF Marked
  <2> QED BY <2>2, <2>3
<1>2. flow \in [Kinds -> Flows] BY FlowRecords DEF WalletInit
<1>3. RestoreHasReason BY <1>1, FlowRecords DEF WalletInit, RestoreHasReason, Kinds
<1> QED BY <1>1, <1>2, <1>3, WalletAssumption
        DEF WalletInit, IInv, WalletTypeOK, MarkerMatches, Marked

(* Every step keeps the invariant, one case per action.                     *)
LEMMA NextInvariant == IInv /\ [WalletNext]_walletVars => IInv'
<1> SUFFICES ASSUME IInv, [WalletNext]_walletVars PROVE IInv' OBVIOUS
<1> USE InvariantParts
<1>0. "connect" \in Kinds /\ "restore" \in Kinds /\ Checks \subseteq Kinds
      /\ "restore" \notin Checks
  BY WalletAssumption DEF Kinds
<1>1. ASSUME Connect PROVE IInv'
  <2>1. [flow EXCEPT !["connect"] = Asking] \in [Kinds -> Flows] BY FlowRecords
  <2>2. [flow EXCEPT !["connect"] = Asking]["restore"] = flow["restore"] BY <1>0
  <2>3. SetConnecting(store) \in Stores /\ Marked(SetConnecting(store))
    BY SMT DEF SetConnecting, Stores, Marked
  <2> QED BY <1>1, <2>1, <2>2, <2>3, CommitKeepsInvariant DEF Connect
<1>2. ASSUME ConnectBanner PROVE IInv'
  <2>1. SetConnecting(store) \in Stores /\ Marked(SetConnecting(store))
    BY SMT DEF SetConnecting, Stores, Marked
  <2> QED BY <1>2, <2>1, CommitKeepsInvariant DEF ConnectBanner
<1>3. ASSUME DisconnectWallet PROVE IInv'
  <2>1. NewStore \in Stores /\ Marked(NewStore)
    BY SMT DEF NewStore, Stores, Marked
  <2> QED BY <1>3, <2>1, CommitKeepsInvariant DEF DisconnectWallet
<1>4. ASSUME Mount PROVE IInv'
  BY <1>4, <1>0, FlowRecords
  DEF Mount, IInv, WalletTypeOK, MarkerMatches, RestoreHasReason
<1>5. ASSUME Approve PROVE IInv'
  <2>1. ext' \in Freighters BY <1>5, Zenon DEF Approve, Freighters
  <2>2. flow' \in [Kinds -> Flows] /\ flow'["restore"] = flow["restore"]
    BY <1>5, <1>0, FlowRecords DEF Approve
  <2> QED BY <1>5, <2>1, <2>2
          DEF Approve, IInv, WalletTypeOK, MarkerMatches, RestoreHasReason
<1>6. ASSUME Reject PROVE IInv'
  <2>1. SetError(store) \in Stores /\ Marked(SetError(store))
    BY SMT DEF SetError, Stores, Marked
  <2> QED BY <1>6, <1>0, <2>1, DoneIsAFlow, CommitKeepsInvariant DEF Reject
<1>7. ASSUME NEW k \in Checks, CheckWalletState(k) PROVE IInv'
  <2>1. flow' \in [Kinds -> Flows] /\ flow'["restore"] = flow["restore"]
    BY <1>7, <1>0, FlowRecords DEF CheckWalletState
  <2> QED BY <1>7, <2>1
          DEF CheckWalletState, IInv, WalletTypeOK, MarkerMatches, RestoreHasReason
<1>8. ASSUME NEW k \in Kinds, ReadAddress(k) PROVE IInv'
  <2>1. ext.account \in Accounts BY SMT DEF Freighters
  <2>2. flow' = [flow EXCEPT ![k].account = ext.account] BY <1>8 DEF ReadAddress
  <2>3. flow' \in [Kinds -> Flows] BY <2>1, <2>2, SMT DEF Flows
  <2>4. flow'["restore"].at = flow["restore"].at BY <2>2, <1>0, SMT DEF Flows
  <2> QED BY <1>8, <2>3, <2>4
          DEF ReadAddress, IInv, WalletTypeOK, MarkerMatches, RestoreHasReason
<1>9. ASSUME NEW k \in Kinds, ReadNetwork(k) PROVE IInv'
  <2>1. ext.right \in BOOLEAN BY SMT DEF Freighters
  <2>2. flow' = [flow EXCEPT ![k].right = ext.right] BY <1>9 DEF ReadNetwork
  <2>3. flow' \in [Kinds -> Flows] BY <2>1, <2>2, SMT DEF Flows
  <2>4. flow'["restore"].at = flow["restore"].at BY <2>2, <1>0, SMT DEF Flows
  <2> QED BY <1>9, <2>3, <2>4
          DEF ReadNetwork, IInv, WalletTypeOK, MarkerMatches, RestoreHasReason
<1>10. ASSUME NEW k \in Kinds, ReadRefused(k) PROVE IInv'
  <2>1. ext.locked \in BOOLEAN BY SMT DEF Freighters
  <2> QED BY <1>10, <2>1, FailedKeepsInvariant DEF ReadRefused
<1>11. ASSUME NEW k \in Kinds, BridgeFails(k) PROVE IInv'
  <2>1. changes' \in 0 .. MaxChanges
    BY <1>11, WalletAssumption, SMT DEF BridgeFails
  <2> QED BY <1>11, <2>1, FailedKeepsInvariant DEF BridgeFails
<1>12. ASSUME NEW k \in Kinds, Establish(k) PROVE IInv'
  <2>1. flow[k].account \in Accounts /\ flow[k].right \in BOOLEAN
    BY <1>12, SMT DEF Establish, Told, Flows
  <2>2. (~flow[k].right) \in BOOLEAN OBVIOUS
  <2> DEFINE s == SetNetworkMismatch(SetConnected(store, flow[k].account), ~flow[k].right)
  <2>3. s \in Stores /\ Marked(s) BY <2>1, <2>2, StoreOperations
  <2>4. Commit(s, Done(k)) BY <1>12 DEF Establish
  <2> HIDE DEF s
  <2> QED BY <1>12, <2>3, <2>4, DoneIsAFlow, CommitKeepsInvariant DEF Establish
<1>13. ASSUME NEW k \in Kinds, Compare(k) PROVE IInv'
  <2>1. flow[k].account \in Accounts /\ flow[k].right \in BOOLEAN
    BY <1>13, SMT DEF Compare, Told, Flows
  <2>2. (~flow[k].right) \in BOOLEAN OBVIOUS
  <2> DEFINE t == IF flow[k].account # store.publicKey
                  THEN SetConnected(store, flow[k].account) ELSE store
             s == SetNetworkMismatch(t, ~flow[k].right)
  <2>3. t \in Stores /\ Marked(t) BY <2>1, <2>2, StoreOperations
  <2>4. s \in Stores /\ Marked(s)
    <3> HIDE DEF t
    <3> QED BY <2>1, <2>2, <2>3, StoreOperations
  <2>5. Commit(s, Done(k)) BY <1>13 DEF Compare
  <2> HIDE DEF s
  <2> QED BY <1>13, <2>4, <2>5, DoneIsAFlow, CommitKeepsInvariant DEF Compare
<1>14. ASSUME Freighter PROVE IInv'
  <2>1. changes' \in 0 .. MaxChanges BY <1>14, WalletAssumption, SMT DEF Freighter
  <2> QED BY <1>14, <2>1
          DEF Freighter, IInv, WalletTypeOK, MarkerMatches, RestoreHasReason
<1>15. ASSUME Reload PROVE IInv'
  <2>1. store' \in Stores /\ Marked(store') /\ store'.status = "disconnected"
        /\ store'.wasConnected = store.wasConnected
    <3>1. /\ Persisted(store) \in Stores /\ Persisted(store).status = "disconnected"
          /\ Persisted(store).wasConnected = store.wasConnected
          /\ Persisted(store).lastAddress = store.lastAddress
      BY Zenon DEF Persisted, NewStore, Stores
    <3> QED BY <1>15, <3>1 DEF Reload, Marked
  <2>2. flow' \in [Kinds -> Flows] BY <1>15, FlowRecords DEF Reload
  <2>3. RestoreHasReason' BY <1>15, <1>0, <2>1, FlowRecords DEF Reload, RestoreHasReason
  <2> QED BY <1>15, <2>1, <2>2, <2>3
          DEF Reload, IInv, WalletTypeOK, MarkerMatches, Marked
<1>16. ASSUME UNCHANGED walletVars PROVE IInv'
  BY <1>16 DEF walletVars, IInv, WalletTypeOK, MarkerMatches, RestoreHasReason
<1> QED
  BY <1>1, <1>2, <1>3, <1>4, <1>5, <1>6, <1>7, <1>8, <1>9, <1>10, <1>11, <1>12, <1>13,
     <1>14, <1>15, <1>16
  DEF WalletNext, OnPage, Answers

LEMMA InvariantHolds == WalletSpec => []IInv
BY InitInvariant, NextInvariant, PTL DEF WalletSpec

(* Every reachable state of the session is well-formed.                     *)
THEOREM TypeCorrect == WalletSpec => []WalletTypeOK
<1>1. IInv => WalletTypeOK BY DEF IInv
<1> QED BY InvariantHolds, <1>1, PTL

(* For any accounts, any overlapping polls and any changes in the           *)
(* extension, a connected session is marked with the account it shows and   *)
(* an unmarked one names no account.                                        *)
THEOREM MarkerAlwaysMatches == WalletSpec => []MarkerMatches
<1>1. IInv => MarkerMatches BY DEF IInv
<1> QED BY InvariantHolds, <1>1, PTL

(* A restore never outlives its reason: what makes forgetting the marker    *)
(* safe when it fails.                                                      *)
THEOREM RestoreNeverOutlivesItsReason == WalletSpec => []RestoreHasReason
<1>1. IInv => RestoreHasReason BY DEF IInv
<1> QED BY InvariantHolds, <1>1, PTL
=============================================================================
