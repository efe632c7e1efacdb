------------------------------ MODULE ApiKeys ------------------------------
(***************************************************************************)
(* A merchant's API keys: the settings page that lists, creates and        *)
(* revokes them for the account its wallet shows, the routes behind it,    *)
(* and the check of a key that comes with a request.                       *)
(*                                                                         *)
(* A key is a token that names a row; the row is made first, without the   *)
(* token's hash, and completed by a second database call.  The list is     *)
(* fetched when the account changes and after each change, and an answer   *)
(* is shown whenever it arrives, for whatever account it was asked.  What  *)
(* the wallet may do to the page's account is in module Wallet; here it    *)
(* changes at any time.  The routes take the account from the request and  *)
(* check nothing of it, so any client can act for any account.             *)
(***************************************************************************)
EXTENDS FiniteSets, Integers

CONSTANTS
  Owners,      \* merchant accounts
  Keys,        \* ids of key rows
  MaxFetches,  \* bound: list requests under way
  MaxCalls     \* bound: requests with a key under way

ASSUME ApiKeysAssumption == MaxFetches \in Nat /\ MaxCalls \in Nat

VARIABLES
  shownAccount, \* publicKey of the page's wallet
  rows,       \* MerchantApiKey by id; the keys not made are not in it
  listedFor,  \* account the list was last asked for
  fetches,    \* list requests: account, ids once they are read
  shown,      \* keys: the ids the page lists with a button to revoke them
  creating,   \* the create request: account named, key once its row is made
  revoking,   \* the revoke request: account and key named
  held,       \* keys whose token a merchant has been given
  calls       \* requests that carry a key

pageVars == <<listedFor, fetches, shown, creating, revoking>>
apiKeyVars == <<shownAccount, rows, pageVars, held, calls>>

NoAccount == "no account"
NoKey == "no key"
Idle == [by |-> NoAccount, key |-> NoKey]
Row == [owner : Owners, hashed : BOOLEAN, revoked : BOOLEAN, expired : BOOLEAN]
Made == DOMAIN rows
OwnedBy(a) == {k \in Made : rows[k].owner = a}
Dead(k) == rows[k].revoked \/ rows[k].expired

ApiKeysTypeOK ==
  /\ Made \subseteq Keys /\ rows \in [Made -> Row]
  /\ shown \subseteq Keys /\ held \subseteq Made
  /\ creating \in [by : Owners \cup {NoAccount}, key : Keys \cup {NoKey}]
  /\ revoking \in [by : Owners \cup {NoAccount}, key : Keys \cup {NoKey}]

ApiKeysInit ==
  /\ shownAccount = NoAccount
  /\ rows = [k \in {} |-> Idle]
  /\ listedFor = NoAccount /\ fetches = {} /\ shown = {}
  /\ creating = Idle /\ revoking = Idle
  /\ held = {} /\ calls = {}

-----------------------------------------------------------------------------
(* The page: fetchKeys runs when the account or the trigger has changed.   *)
FetchKeys ==
  /\ listedFor # shownAccount
  /\ listedFor' = shownAccount
  /\ IF shownAccount = NoAccount THEN fetches' = fetches
     ELSE /\ Cardinality(fetches) < MaxFetches
          /\ fetches' = fetches \cup {[by |-> shownAccount, read |-> FALSE, keys |-> {}]}
  /\ UNCHANGED <<shownAccount, rows, shown, creating, revoking, held, calls>>

ListApiKeys(f) ==
  /\ ~ f.read
  /\ fetches' = (fetches \ {f}) \cup {[f EXCEPT !.read = TRUE, !.keys = {k \in OwnedBy(f.by) : ~ Dead(k)}]}
  /\ UNCHANGED <<shownAccount, rows, listedFor, shown, creating, revoking, held, calls>>

KeysArrive(f) ==
  /\ f.read
  /\ fetches' = fetches \ {f}
  /\ shown' = f.keys
  /\ UNCHANGED <<shownAccount, rows, listedFor, creating, revoking, held, calls>>

HandleCreateKey ==
  /\ shownAccount # NoAccount /\ creating = Idle
  /\ creating' = [by |-> shownAccount, key |-> NoKey]
  /\ UNCHANGED <<shownAccount, rows, listedFor, fetches, shown, revoking, held, calls>>

HandleRevokeKey(k) ==
  /\ shownAccount # NoAccount /\ revoking = Idle
  /\ revoking' = [by |-> shownAccount, key |-> k]
  /\ UNCHANGED <<shownAccount, rows, listedFor, fetches, shown, creating, held, calls>>

(* Another client's requests, for the account they name.                   *)
PostKey(a) ==
  /\ creating = Idle
  /\ creating' = [by |-> a, key |-> NoKey]
  /\ UNCHANGED <<shownAccount, rows, listedFor, fetches, shown, revoking, held, calls>>

DeleteKey(k, a) ==
  /\ revoking = Idle
  /\ revoking' = [by |-> a, key |-> k]
  /\ UNCHANGED <<shownAccount, rows, listedFor, fetches, shown, creating, held, calls>>

Refetch == listedFor' = NoAccount  \* the effect runs again for the account shown

-----------------------------------------------------------------------------
(* createApiKey: the row, then its hash; the token is given out after both.*)
CreateRow_TokenEarly(k) ==                          \* mutant
  /\ creating.by # NoAccount /\ creating.key = NoKey
  /\ k \notin Made
  /\ rows' = [j \in Made \cup {k} |->
               IF j = k THEN [owner |-> creating.by, hashed |-> FALSE,
                              revoked |-> FALSE, expired |-> FALSE]
               ELSE rows[j]]
  /\ creating' = [creating EXCEPT !.key = k]
  /\ held' = held \cup {k}
  /\ UNCHANGED <<shownAccount, listedFor, fetches, shown, revoking, calls>>

CreateRow(k) ==
  /\ creating.by # NoAccount /\ creating.key = NoKey
  /\ k \notin Made
  /\ rows' = [j \in Made \cup {k} |->
               IF j = k THEN [owner |-> creating.by, hashed |-> FALSE,
                              revoked |-> FALSE, expired |-> FALSE]
               ELSE rows[j]]
  /\ creating' = [creating EXCEPT !.key = k]
  /\ UNCHANGED <<shownAccount, listedFor, fetches, shown, revoking, held, calls>>

StoreHash ==
  /\ creating.key # NoKey
  /\ rows' = [rows EXCEPT ![creating.key].hashed = TRUE]
  /\ held' = held \cup {creating.key}
  /\ creating' = Idle
  /\ Refetch
  /\ UNCHANGED <<shownAccount, fetches, shown, revoking, calls>>

(* One of the calls fails; a row without a hash stays and is listed.       *)
CreateKeyFails ==
  /\ creating # Idle
  /\ creating' = Idle
  /\ UNCHANGED <<shownAccount, rows, listedFor, fetches, shown, revoking, held, calls>>

Matches(k, a) == k \in Made /\ rows[k].owner = a /\ ~ rows[k].revoked

(* revokeApiKey: one update of the rows that match; none is an error.      *)
RevokeApiKey ==
  /\ revoking # Idle
  /\ IF Matches(revoking.key, revoking.by)
     THEN rows' = [rows EXCEPT ![revoking.key].revoked = TRUE] /\ Refetch
     ELSE UNCHANGED <<shownAccount, rows, listedFor>>
  /\ revoking' = Idle
  /\ UNCHANGED <<shownAccount, fetches, shown, creating, held, calls>>

KeyExpires(k) ==
  /\ ~ rows[k].expired
  /\ rows' = [rows EXCEPT ![k].expired = TRUE]
  /\ UNCHANGED <<shownAccount, pageVars, held, calls>>

-----------------------------------------------------------------------------
(* A request with a key: authenticateApiKey checks the token, reads its    *)
(* row and judges by what it read.                                         *)
RequestBegins(k) ==
  /\ Cardinality(calls) < MaxCalls
  /\ calls' = calls \cup {[key |-> k, wasDead |-> Dead(k), verdict |-> "open"]}
  /\ UNCHANGED <<shownAccount, rows, pageVars, held>>

Valid(r) == r.hashed /\ ~ r.revoked /\ ~ r.expired

VerifyApiKey(c) ==
  /\ c.verdict = "open"
  /\ calls' = (calls \ {c}) \cup
       {[c EXCEPT !.verdict = IF Valid(rows[c.key]) THEN "valid" ELSE "refused"]}
  /\ UNCHANGED <<shownAccount, rows, pageVars, held>>

RequestEnds(c) ==
  /\ c.verdict # "open"
  /\ calls' = calls \ {c}
  /\ UNCHANGED <<shownAccount, rows, pageVars, held>>

-----------------------------------------------------------------------------
KeyStep ==
  \/ FetchKeys \/ HandleCreateKey \/ (\E k \in shown : HandleRevokeKey(k))
  \/ \E a \in Owners : PostKey(a) \/ \E k \in Keys : DeleteKey(k, a)
  \/ \E f \in fetches : ListApiKeys(f) \/ KeysArrive(f)
  \/ (\E k \in Keys : CreateRow(k)) \/ StoreHash \/ CreateKeyFails \/ RevokeApiKey
  \/ \E k \in Made : KeyExpires(k)
  \/ \E k \in held : RequestBegins(k)
  \/ \E c \in calls : VerifyApiKey(c) \/ RequestEnds(c)

(* The wallet's account changes, or the page is loaded anew and forgets    *)
(* its state; requests the server has begun go on without it.              *)
AccountChanges(a) ==
  /\ shownAccount # a
  /\ shownAccount' = a
  /\ UNCHANGED <<rows, pageVars, held, calls>>

PageLoads ==
  /\ shownAccount' = NoAccount /\ listedFor' = NoAccount /\ fetches' = {} /\ shown' = {}
  /\ UNCHANGED <<rows, creating, revoking, held, calls>>

ApiKeysNext ==
  \/ KeyStep
  \/ (\E a \in Owners \cup {NoAccount} : AccountChanges(a))
  \/ PageLoads

ApiKeysSpec == ApiKeysInit /\ [][ApiKeysNext]_apiKeyVars

-----------------------------------------------------------------------------
(* A key that was revoked or had expired when a request began is not       *)
(* accepted, whatever else happens while the request is checked            *)
(* (verifyApiKey L87-156).                                                 *)
DeadKeyRefused == \A c \in calls : c.wasDead => c.verdict # "valid"

(* A key that a merchant was given works until it is revoked or expires:   *)
(* no request finds its row without the hash, although the row is there    *)
(* before the hash is and stays when the second call fails (createApiKey   *)
(* L32-82).                                                                *)
LiveKeyAccepted == \A c \in calls : c.verdict = "refused" => Dead(c.key)

(* Both: a verdict is right, although it is made from a row that was read  *)
(* before and may have changed since.                                      *)
VerdictsRight == DeadKeyRefused /\ LiveKeyAccepted
=============================================================================
