---------------------------- MODULE WebAppProofs ----------------------------
(***************************************************************************)
(* The parts of the web application that share nothing with each other:    *)
(* the API keys, the connection of a wallet, and the lists of events.      *)
(***************************************************************************)
EXTENDS ApiKeys, Wallet, ActivityViews, FiniteSetTheorems, SequenceTheorems, TLAPS

-----------------------------------------------------------------------------
(* API keys: every verdict is right, for any number of merchants, keys,    *)
(* lists and requests.                                                     *)

Call == [key : Keys, wasDead : BOOLEAN, verdict : {"open", "valid", "refused"}]

(* A token is given out after its hash is stored, rows are never unmade,   *)
(* and dead keys stay dead: what a request found holds until its verdict.  *)
RowsTyped ==
  /\ Made \subseteq Keys /\ rows \in [Made -> Row]
  /\ shownAccount \in Owners \cup {NoAccount}
  /\ creating \in [by : Owners \cup {NoAccount}, key : Keys \cup {NoKey}]
  /\ creating.key # NoKey => creating.key \in Made
HeldWorks == held \subseteq Made /\ \A k \in held : rows[k].hashed
CallsRight ==
  /\ calls \subseteq Call
  /\ \A c \in calls :
       /\ c.key \in held
       /\ c.wasDead => Dead(c.key) /\ c.verdict # "valid"
       /\ c.verdict = "refused" => Dead(c.key)
KeyInv == RowsTyped /\ HeldWorks /\ CallsRight

(* A step keeps the promises about requests that it leaves alone when it   *)
(* takes back no key, no hash and no death of a key.                       *)
LEMMA RowsOnlyGrow ==
  ASSUME KeyInv, held' \subseteq Made', held \subseteq held', calls' = calls,
         \A k \in held' : rows'[k].hashed,
         \A k \in held : Dead(k) => Dead(k)'
  PROVE  HeldWorks' /\ CallsRight'
BY DEF KeyInv, HeldWorks, CallsRight

LEMMA KeyInit == ApiKeysInit => KeyInv
<1> SUFFICES ASSUME ApiKeysInit PROVE KeyInv
  OBVIOUS
<1>1. Made = {} /\ rows \in [Made -> Row]
  BY DEF ApiKeysInit, Made
<1>2. RowsTyped
  BY <1>1 DEF ApiKeysInit, RowsTyped, Idle
<1>3. HeldWorks /\ CallsRight
  BY DEF ApiKeysInit, HeldWorks, CallsRight
<1> QED BY <1>2, <1>3 DEF KeyInv

(* Steps of the page alone.                                                *)
LEMMA PageStepKeeps ==
  ASSUME KeyInv, rows' = rows, held' = held, calls' = calls,
         shownAccount' \in Owners \cup {NoAccount},
         creating' = creating \/ creating' = Idle
           \/ \E a \in Owners \cup {NoAccount} : creating' = [by |-> a, key |-> NoKey]
  PROVE  KeyInv'
<1>1. /\ creating' \in [by : Owners \cup {NoAccount}, key : Keys \cup {NoKey}]
      /\ creating'.key # NoKey => creating'.key \in Made
  <2>1. CASE creating' = creating
    BY <2>1 DEF KeyInv, RowsTyped
  <2>2. CASE creating' # creating
    BY <2>2 DEF KeyInv, RowsTyped, Idle
  <2> QED BY <2>1, <2>2
<1>3. RowsTyped'
  BY <1>1 DEF KeyInv, RowsTyped, Made
<1>2. HeldWorks' /\ CallsRight'
  BY RowsOnlyGrow DEF KeyInv, HeldWorks, Dead, Made
<1> QED BY <1>2, <1>3 DEF KeyInv

LEMMA CreateRowKeeps ==
  ASSUME KeyInv, NEW k \in Keys, CreateRow(k)
  PROVE  KeyInv'
<1>1. /\ Made' = Made \cup {k} /\ creating.by \in Owners
      /\ rows'[k] = [owner |-> creating.by, hashed |-> FALSE, revoked |-> FALSE, expired |-> FALSE]
      /\ \A j \in Made : rows'[j] = rows[j]
  BY DEF KeyInv, RowsTyped, CreateRow, Made
<1>2. \A j \in Made' : rows'[j] \in Row
  <2>1. rows'[k] \in Row
    BY <1>1 DEF Row
  <2>2. \A j \in Made : rows[j] \in Row
    BY DEF KeyInv, RowsTyped
  <2> QED BY <1>1, <2>1, <2>2
<1>3. rows' \in [Made' -> Row]
  BY <1>2 DEF CreateRow, Made
<1>4. RowsTyped'
  BY <1>1, <1>3 DEF KeyInv, RowsTyped, CreateRow
<1>5. HeldWorks' /\ CallsRight'
  BY <1>1, RowsOnlyGrow DEF KeyInv, HeldWorks, CreateRow, Dead
<1> QED BY <1>4, <1>5 DEF KeyInv

(* One field of one row is set.                                            *)
LEMMA RowSet ==
  ASSUME RowsTyped, NEW k \in Made,
         \/ rows' = [rows EXCEPT ![k].hashed = TRUE]
         \/ rows' = [rows EXCEPT ![k].revoked = TRUE]
         \/ rows' = [rows EXCEPT ![k].expired = TRUE]
  PROVE  /\ Made' = Made /\ rows' \in [Made -> Row]
         /\ \A j \in Made : /\ Dead(j) => Dead(j)'
                            /\ rows[j].hashed => rows'[j].hashed
         /\ \A j \in Made : rows'[j].revoked /\ ~ rows[j].revoked =>
                              j = k /\ rows' = [rows EXCEPT ![k].revoked = TRUE]
<1>0. rows \in [Made -> Row] /\ k \in Made /\ rows[k] \in Row
  BY DEF RowsTyped
<1>1. CASE rows' = [rows EXCEPT ![k].hashed = TRUE]
  <2>1. rows'[k] = [rows[k] EXCEPT !.hashed = TRUE] /\ \A j \in Made \ {k} : rows'[j] = rows[j]
    BY <1>0, <1>1
  <2>2. rows'[k] \in Row /\ rows'[k].hashed /\ rows'[k].revoked = rows[k].revoked
        /\ rows'[k].expired = rows[k].expired
    BY <1>0, <2>1 DEF Row
  <2>3. Made' = Made
    BY <1>1 DEF Made
  <2>4. rows' \in [Made -> Row]
    BY <1>0, <1>1, <2>1, <2>2
  <2> QED BY <2>1, <2>2, <2>3, <2>4 DEF Dead
<1>2. CASE rows' = [rows EXCEPT ![k].revoked = TRUE]
  <2>1. rows'[k] = [rows[k] EXCEPT !.revoked = TRUE] /\ \A j \in Made \ {k} : rows'[j] = rows[j]
    BY <1>0, <1>2
  <2>2. rows'[k] \in Row /\ rows'[k].revoked /\ rows'[k].hashed = rows[k].hashed
    BY <1>0, <2>1 DEF Row
  <2>3. Made' = Made
    BY <1>2 DEF Made
  <2>4. rows' \in [Made -> Row]
    BY <1>0, <1>2, <2>1, <2>2
  <2> QED BY <1>2, <2>1, <2>2, <2>3, <2>4 DEF Dead
<1>3. CASE rows' = [rows EXCEPT ![k].expired = TRUE]
  <2>1. rows'[k] = [rows[k] EXCEPT !.expired = TRUE] /\ \A j \in Made \ {k} : rows'[j] = rows[j]
    BY <1>0, <1>3
  <2>2. rows'[k] \in Row /\ rows'[k].expired /\ rows'[k].hashed = rows[k].hashed
        /\ rows'[k].revoked = rows[k].revoked
    BY <1>0, <2>1 DEF Row
  <2>3. Made' = Made
    BY <1>3 DEF Made
  <2>4. rows' \in [Made -> Row]
    BY <1>0, <1>3, <2>1, <2>2
  <2> QED BY <2>1, <2>2, <2>3, <2>4 DEF Dead
<1> QED BY <1>1, <1>2, <1>3

LEMMA StoreHashKeeps ==
  ASSUME KeyInv, StoreHash
  PROVE  KeyInv'
<1> DEFINE k == creating.key
<1>1. k \in Made /\ rows' = [rows EXCEPT ![k].hashed = TRUE]
  BY DEF KeyInv, RowsTyped, StoreHash
<1>2. /\ Made' = Made /\ rows' \in [Made -> Row]
      /\ \A j \in Made : /\ Dead(j) => Dead(j)'
                         /\ rows[j].hashed => rows'[j].hashed
  BY <1>1, RowSet DEF KeyInv
<1>3. rows'[k].hashed
  BY <1>1 DEF KeyInv, RowsTyped, Row
<1>4. RowsTyped'
  BY <1>2 DEF KeyInv, RowsTyped, StoreHash, Idle
<1>5. HeldWorks' /\ CallsRight'
  BY <1>1, <1>2, <1>3, RowsOnlyGrow DEF KeyInv, HeldWorks, StoreHash
<1> QED BY <1>4, <1>5 DEF KeyInv

LEMMA RowSetKeeps ==
  ASSUME KeyInv, NEW k \in Made, UNCHANGED <<shownAccount, creating, held, calls>>,
         \/ rows' = [rows EXCEPT ![k].revoked = TRUE]
         \/ rows' = [rows EXCEPT ![k].expired = TRUE]
  PROVE  KeyInv'
<1>1. /\ Made' = Made /\ rows' \in [Made -> Row]
      /\ \A j \in Made : /\ Dead(j) => Dead(j)'
                         /\ rows[j].hashed => rows'[j].hashed
  BY RowSet DEF KeyInv
<1>2. RowsTyped'
  BY <1>1 DEF KeyInv, RowsTyped
<1>3. HeldWorks' /\ CallsRight'
  BY <1>1, RowsOnlyGrow DEF KeyInv, HeldWorks
<1> QED BY <1>2, <1>3 DEF KeyInv

(* Requests that carry a key.                                              *)
LEMMA RequestKeeps ==
  ASSUME KeyInv, UNCHANGED <<shownAccount, rows, pageVars, held>>,
         \/ \E k \in held : RequestBegins(k)
         \/ \E c \in calls : VerifyApiKey(c) \/ RequestEnds(c)
  PROVE  KeyInv'
<1>1. RowsTyped' /\ HeldWorks'
  BY DEF KeyInv, RowsTyped, HeldWorks, Made, pageVars
<1>2. \A k \in Keys : Dead(k)' = Dead(k)
  BY DEF Dead
<1>3. ASSUME NEW k \in held, RequestBegins(k)
      PROVE  CallsRight'
  <2>1. k \in Keys /\ Dead(k) \in BOOLEAN
    BY DEF KeyInv, HeldWorks, RowsTyped, Row, Dead
  <2>2. [key |-> k, wasDead |-> Dead(k), verdict |-> "open"] \in Call
    BY <2>1 DEF Call
  <2> QED BY <1>2, <1>3, <2>1, <2>2 DEF RequestBegins, KeyInv, CallsRight, Call
<1>4. ASSUME NEW c \in calls, VerifyApiKey(c)
      PROVE  CallsRight'
  <2> DEFINE d == [c EXCEPT !.verdict = IF Valid(rows[c.key]) THEN "valid" ELSE "refused"]
  <2>1. c \in Call /\ c.key \in held /\ (c.wasDead => Dead(c.key)) /\ rows[c.key] \in Row
    BY DEF KeyInv, CallsRight, HeldWorks, RowsTyped
  <2>2. d \in Call /\ d.key = c.key /\ d.wasDead = c.wasDead
    BY <2>1 DEF Call
  <2>3. Valid(rows[c.key]) <=> ~ Dead(c.key)
    BY <2>1 DEF Valid, Dead, Row, KeyInv, HeldWorks
  <2>4. d.verdict = IF Valid(rows[c.key]) THEN "valid" ELSE "refused"
    BY <2>1 DEF Call
  <2>5. calls' = (calls \ {c}) \cup {d}
    BY <1>4 DEF VerifyApiKey
  <2> HIDE DEF d
  <2>6. /\ d.wasDead => Dead(d.key) /\ d.verdict # "valid"
        /\ d.verdict = "refused" => Dead(d.key)
    BY <2>1, <2>2, <2>3, <2>4
  <2> QED BY <1>2, <2>1, <2>2, <2>5, <2>6 DEF KeyInv, CallsRight, Call
<1>5. ASSUME NEW c \in calls, RequestEnds(c)
      PROVE  CallsRight'
  BY <1>2, <1>5 DEF RequestEnds, KeyInv, CallsRight, Call
<1> QED BY <1>1, <1>3, <1>4, <1>5 DEF KeyInv

LEMMA KeyStepKeeps ==
  ASSUME KeyInv, [ApiKeysNext]_apiKeyVars
  PROVE  KeyInv'
<1>0. shownAccount \in Owners \cup {NoAccount}
  BY DEF KeyInv, RowsTyped
<1>1. CASE \/ FetchKeys \/ HandleCreateKey \/ (\E k \in shown : HandleRevokeKey(k))
           \/ \E a \in Owners : PostKey(a) \/ \E k \in Keys : DeleteKey(k, a)
           \/ \E f \in fetches : ListApiKeys(f) \/ KeysArrive(f)
  BY <1>0, <1>1, PageStepKeeps
     DEF FetchKeys, HandleCreateKey, HandleRevokeKey, PostKey, DeleteKey, ListApiKeys, KeysArrive
<1>2. CASE \E k \in Keys : CreateRow(k)
  BY <1>2, CreateRowKeeps
<1>3. CASE StoreHash
  BY <1>3, StoreHashKeeps
<1>4. CASE CreateKeyFails
  BY <1>0, <1>4, PageStepKeeps DEF CreateKeyFails
<1>5. CASE RevokeApiKey
  <2>1. CASE Matches(revoking.key, revoking.by)
    <3>1. /\ revoking.key \in Made /\ UNCHANGED <<shownAccount, creating, held, calls>>
          /\ rows' = [rows EXCEPT ![revoking.key].revoked = TRUE]
      BY <1>5, <2>1 DEF RevokeApiKey, Matches
    <3> QED BY <3>1, RowSetKeeps
  <2>2. CASE ~ Matches(revoking.key, revoking.by)
    BY <1>0, <1>5, <2>2, PageStepKeeps DEF RevokeApiKey
  <2> QED BY <2>1, <2>2
<1>6. CASE \E k \in Made : KeyExpires(k)
  BY <1>6, RowSetKeeps DEF KeyExpires, pageVars
<1>7. CASE \/ \E k \in held : RequestBegins(k)
           \/ \E c \in calls : VerifyApiKey(c) \/ RequestEnds(c)
  <2>1. UNCHANGED <<shownAccount, rows, pageVars, held>>
    BY <1>7 DEF RequestBegins, VerifyApiKey, RequestEnds
  <2> QED BY <1>7, <2>1, RequestKeeps
<1>8. CASE \/ \E a \in Owners \cup {NoAccount} : AccountChanges(a)
           \/ PageLoads
  BY <1>8, PageStepKeeps DEF AccountChanges, PageLoads, pageVars
<1>9. CASE UNCHANGED apiKeyVars
  BY <1>0, <1>9, PageStepKeeps DEF apiKeyVars, pageVars
<1> QED
  BY <1>1, <1>2, <1>3, <1>4, <1>5, <1>6, <1>7, <1>8, <1>9 DEF ApiKeysNext, KeyStep

(* Whatever happens while a request is checked, a key that was dead when   *)
(* the request began is refused, and a key is refused only if it is dead.  *)
THEOREM VerdictsAlwaysRight == ApiKeysSpec => []VerdictsRight
<1>1. KeyInv => VerdictsRight
  BY DEF KeyInv, CallsRight, VerdictsRight, DeadKeyRefused, LiveKeyAccepted
<1> QED BY KeyInit, KeyStepKeeps, <1>1, PTL DEF ApiKeysSpec

-----------------------------------------------------------------------------
(* The wallet: a settled page signs with the wallet whose account it       *)
(* shows, for any set of wallets.                                          *)

(* One attempt to connect at a time: connect is refused while the store is *)
(* loading, and it is while a dialog is open or a wallet was asked.        *)
OneAttempt ==
  /\ modal => isLoading /\ asked = {}
  /\ asked # {} => isLoading
  /\ \A v, w \in asked : v = w

(* What the wallet kit has selected is the wallet that was asked, by       *)
(* connect or by the automatic reconnection, unless the two overlapped.    *)
AskedSelected ==
  ~ overlapped =>
    /\ \A w \in asked : kit = w
    /\ reconnect \in Wallets => kit = reconnect /\ ~ modal /\ asked = {}
    /\ account # Nobody /\ asked = {} => kit = account

WalletInv ==
  WalletTypeOK /\ OneAttempt /\ AskedSelected /\ (overlapped => reconnect # "due")

LEMMA WalletStarts == WalletInit => WalletInv
BY WalletAssumption
   DEF WalletInit, WalletInv, WalletTypeOK, WalletOrNobody, OneAttempt, AskedSelected, Nobody

LEMMA WalletStepKeeps == WalletInv /\ [WalletStep]_walletVars => WalletInv'
<1> SUFFICES ASSUME WalletInv, [WalletStep]_walletVars
             PROVE  WalletInv'
  OBVIOUS
<1> USE WalletAssumption DEF WalletInv, WalletTypeOK, WalletOrNobody, OneAttempt, AskedSelected,
        Nobody, Recorded
<1>1. CASE Reload /\ Recorded
  BY <1>1 DEF Reload, Fresh
<1>2. CASE CheckConnection /\ Recorded
  BY <1>2 DEF CheckConnection
<1>3. CASE Reconnected /\ Recorded
  BY <1>3 DEF Reconnected
<1>4. CASE ReconnectFails /\ Recorded
  BY <1>4 DEF ReconnectFails
<1>5. CASE Connect /\ Recorded
  BY <1>5 DEF Connect, MayConnect
<1>6. CASE ModalClosed /\ Recorded
  BY <1>6 DEF ModalClosed
<1>7. ASSUME NEW w \in Wallets, WalletSelected(w), Recorded
      PROVE  WalletInv'
  BY <1>7 DEF WalletSelected
<1>8. ASSUME NEW w \in asked, AddressReceived(w), Recorded
      PROVE  WalletInv'
  BY <1>8 DEF AddressReceived
<1>9. ASSUME NEW w \in asked, ConnectFails(w), Recorded
      PROVE  WalletInv'
  BY <1>9 DEF ConnectFails
<1>10. CASE Disconnect /\ Recorded
  BY <1>10 DEF Disconnect
<1>11. CASE UNCHANGED walletVars
  BY <1>11 DEF walletVars
<1> QED BY <1>1, <1>2, <1>3, <1>4, <1>5, <1>6, <1>7, <1>8, <1>9, <1>10, <1>11
        DEF WalletStep, ReconnectAnswered, ModalLeft, Answered

(* WalletTypeOK: the store and the session name a wallet or nobody.        *)
THEOREM WalletTyped == WalletSpec => []WalletTypeOK
<1>1. WalletInv => WalletTypeOK
  BY DEF WalletInv
<1> QED BY WalletStarts, WalletStepKeeps, <1>1, PTL DEF WalletSpec

(* A settled page's wallet kit has selected the wallet whose account the   *)
(* store shows, so a signature is asked of it (use-wallet.ts,              *)
(* signTransaction), however many wallets there are, unless a choice       *)
(* overlapped the automatic reconnection.                                  *)
THEOREM OneWalletStaysConnected == WalletSpec => []OneWalletConnected
<1>1. WalletInv => OneWalletConnected
  BY DEF WalletInv, AskedSelected, OneWalletConnected
<1> QED BY WalletStarts, WalletStepKeeps, <1>1, PTL DEF WalletSpec

-----------------------------------------------------------------------------
(* The lists of events.  Whatever is stored or listed is an event of one   *)
(* of the transactions.                                                    *)
Tx == [kind : Kinds, ledger : Nat]
RaisedBy(events) == \A e \in events : e.tx \in DOMAIN txs /\ e \in EventsOf(e.tx)
ListInv == txs \in Seq(Tx) /\ RaisedBy(stored) /\ RaisedBy(listed)

LEMMA ListInvStarts == ActivityInit => ListInv
BY DEF ActivityInit, ListInv, RaisedBy

LEMMA ListInvKept == ListInv /\ [ActivityNext]_activityVars => ListInv'
<1> SUFFICES ASSUME ListInv, [ActivityNext]_activityVars
             PROVE  ListInv'
  OBVIOUS
<1> USE DEF ListInv, RaisedBy
<1>1. ASSUME NEW kind \in Kinds, Transact(kind) PROVE ListInv'
  <2>1. PICK t \in Tx : txs' = Append(txs, t)
    <3>1. txs # <<>> => txs[Len(txs)] \in Tx
      OBVIOUS
    <3>2. PICK later \in {0, 1} :
            txs' = Append(txs, [kind |-> kind,
                                ledger |-> later + (IF txs = <<>> THEN 0
                                                    ELSE txs[Len(txs)].ledger)])
      BY <1>1 DEF Transact
    <3>3. later + (IF txs = <<>> THEN 0 ELSE txs[Len(txs)].ledger) \in Nat
      BY <3>1 DEF Tx
    <3> QED BY <3>2, <3>3 DEF Tx
  <2>2. /\ txs' \in Seq(Tx)
        /\ \A i \in DOMAIN txs : i \in DOMAIN txs' /\ txs'[i] = txs[i]
    BY <2>1
  <2>3. \A i \in DOMAIN txs : EventsOf(i)' = EventsOf(i)
    BY <2>2 DEF EventsOf
  <2>4. stored' = stored /\ listed' = listed
    BY <1>1 DEF Transact
  <2> QED BY <2>2, <2>3, <2>4
<1>2. CASE StoreEvent
  <2>1. PICK i \in DOMAIN txs : \E e \in EventsOf(i) \ stored : stored' = stored \cup {e}
    BY <1>2 DEF StoreEvent
  <2>2. PICK e \in EventsOf(i) : stored' = stored \cup {e}
    BY <2>1
  <2>3. e.tx = i
    BY <2>2 DEF EventsOf
  <2>4. txs' = txs /\ listed' = listed
    BY <1>2 DEF StoreEvent
  <2> QED BY <2>2, <2>3, <2>4 DEF EventsOf
<1>3. CASE Refresh
  <2>1. listed' \subseteq stored /\ txs' = txs /\ stored' = stored
    BY <1>3 DEF Refresh, Where
  <2> QED BY <2>1 DEF EventsOf
<1>4. ASSUME NEW contract, SelectContract(contract) PROVE ListInv'
  BY <1>4 DEF SelectContract, EventsOf
<1>5. CASE UNCHANGED activityVars
  BY <1>5 DEF activityVars, EventsOf
<1> QED BY <1>1, <1>2, <1>3, <1>4, <1>5 DEF ActivityNext

(* The user sees each deposit and withdrawal that a list touches once, all *)
(* else that is theirs, and nothing of other contracts, wherever a list    *)
(* cuts through a transaction's events and for lists of any length.        *)
THEOREM EachListedOnce == ActivitySpec => []ListedOnce
<1>1. ListInv => ListedOnce
  <2> SUFFICES ASSUME ListInv, viewer = "user", NEW i \in DOMAIN txs
               PROVE  LET seen == {e \in Shown : e.tx = i}
                          touched == {e \in listed : e.tx = i} # {}
                      IN  CASE txs[i].kind \in {"deposit", "withdraw"} ->
                                 Cardinality(seen) = IF touched THEN 1 ELSE 0
                            [] txs[i].kind = "foreign" -> seen = {}
                            [] OTHER -> touched => seen # {}
    BY DEF ListedOnce
  <2> DEFINE own == {e \in listed : e.tx = i}
             seen == {e \in Shown : e.tx = i}
             lp == [tx |-> i, contract |-> "LP_TOKEN", action |-> txs[i].kind]
             usdc == [tx |-> i, contract |-> "USDC_TOKEN", action |-> "transfer"]
  <2>1. txs[i].kind \in Kinds
    <3>1. txs[i] \in Tx
      BY DEF ListInv
    <3> QED BY <3>1 DEF Tx
  <2>2. own \subseteq EventsOf(i)
    BY DEF ListInv, RaisedBy
  <2>3. seen = {e \in own : /\ e.contract # "UNKNOWN"
                            /\ ~ (/\ e.contract = "USDC_TOKEN" /\ e.action = "transfer"
                                  /\ \E x \in own : /\ x.contract = "LP_TOKEN"
                                                    /\ x.action \in {"deposit", "withdraw"})}
    BY DEF Shown, FilterEvents, Known, LpTransactions
  <2>4. CASE txs[i].kind \in {"deposit", "withdraw"}
    <3>1. EventsOf(i) = {lp, usdc}
      <4>1. /\ OwnEvent(txs[i].kind) = {<<"LP_TOKEN", txs[i].kind>>}
            /\ UsdcEvent(txs[i].kind) = {<<"USDC_TOKEN", "transfer">>}
        BY <2>4 DEF OwnEvent, UsdcEvent
      <4> HIDE DEF own, seen
      <4> QED BY <4>1 DEF EventsOf
    <3>2. own \subseteq {lp, usdc}
      BY <2>2, <3>1
    <3>3. lp \in own => seen = {lp}
      BY <2>3, <2>4, <3>2
    <3>4. lp \notin own => seen = own /\ own \subseteq {usdc}
      BY <2>3, <3>2
    <3>5. IF own # {} THEN \E e : seen = {e} ELSE seen = {}
      <4> HIDE DEF own, seen, lp, usdc
      <4> QED BY <3>2, <3>3, <3>4
    <3>6. Cardinality(seen) = IF own # {} THEN 1 ELSE 0
      <4> HIDE DEF own, seen
      <4>1. CASE own # {}
        <5>1. PICK e : seen = {e}
          BY <3>5, <4>1
        <5> QED BY <4>1, <5>1, FS_Singleton
      <4>2. CASE own = {}
        BY <3>5, <4>2, FS_EmptySet
      <4> QED BY <4>1, <4>2
    <3> QED BY <2>4, <3>6
  <2>5. CASE txs[i].kind = "foreign"
    <3>1. EventsOf(i) = {[tx |-> i, contract |-> "UNKNOWN", action |-> "transfer"]}
      BY <2>5 DEF EventsOf, OwnEvent, UsdcEvent
    <3>2. seen = {}
      BY <2>2, <2>3, <3>1
    <3> QED BY <2>5, <3>2
  <2>6. CASE txs[i].kind \notin {"deposit", "withdraw", "foreign"}
    <3>1. \A e \in EventsOf(i) : e.contract \in {"BNPL_CORE", "USDC_TOKEN"}
      BY <2>1, <2>6 DEF EventsOf, OwnEvent, UsdcEvent, Kinds
    <3>2. seen = own
      BY <2>2, <2>3, <3>1
    <3> QED BY <2>6, <3>2
  <2> QED BY <2>4, <2>5, <2>6
<1> QED BY ListInvStarts, ListInvKept, <1>1, PTL DEF ActivitySpec
=============================================================================
