----------------------------- MODULE ActivityViews -----------------------------
(***************************************************************************)
(* The lists of contract events: the recent transactions of the user's     *)
(* dashboard (app/user/page.tsx) and the administrator's activity page     *)
(* (app/admin/activity/page.tsx), both of services/event-indexer.service.ts *)
(* through api/indexer/events, sorted out by lib/event-parser.ts.          *)
(*                                                                         *)
(* A transaction raises several events, which the indexer stores one at a  *)
(* time; a list is the newest few of them, by ledger only, so that it may  *)
(* hold any part of a transaction's events.  The dashboard leaves out the  *)
(* USDC transfer that belongs to a deposit or a withdrawal it also lists.  *)
(* Modelled are the events that name the user in a topic, which is what    *)
(* the dashboard's query asks for.  The chain is external.                 *)
(***************************************************************************)
EXTENDS Integers, Sequences, FiniteSets

CONSTANTS
  Limit,   \* events in a list
  MaxTxs   \* bound: transactions of the user

ASSUME ActivityAssumption == Limit \in Nat \ {0} /\ MaxTxs \in Nat

VARIABLES
  txs,        \* the user's transactions: [kind, ledger], oldest first
  stored,     \* contract_events
  viewer,     \* who looks: "user" or "admin"
  selected,   \* selectedContract of the administrator
  listed      \* the events of the last answer

activityVars == <<txs, stored, viewer, selected, listed>>

Contracts == {"USDC_TOKEN", "LP_TOKEN", "BNPL_CORE"}
Kinds == {"deposit", "withdraw", "transfer", "payment", "repayment", "foreign"}

(* What a transaction of each kind tells about the user: the event of the  *)
(* contract it calls, and the transfer of its USDC where that names the    *)
(* user (a bill's payment goes from the pool to the merchant).             *)
OwnEvent(kind) ==
  CASE kind \in {"deposit", "withdraw"} -> {<<"LP_TOKEN", kind>>}
    [] kind \in {"payment", "repayment"} -> {<<"BNPL_CORE", kind>>}
    [] kind = "foreign" -> {<<"UNKNOWN", "transfer">>}
    [] OTHER -> {}
UsdcEvent(kind) ==
  IF kind \in {"deposit", "withdraw", "repayment", "transfer"}
  THEN {<<"USDC_TOKEN", "transfer">>} ELSE {}
EventsOf(i) ==
  {[tx |-> i, contract |-> e[1], action |-> e[2]] :
     e \in OwnEvent(txs[i].kind) \cup UsdcEvent(txs[i].kind)}
LedgerOf(e) == txs[e.tx].ledger

ActivityInit ==
  /\ txs = <<>> /\ stored = {} /\ listed = {}
  /\ viewer \in {"user", "admin"} /\ selected = "all"

-----------------------------------------------------------------------------
(* A ledger may close over several transactions.                           *)
Transact(kind) ==
  /\ Len(txs) < MaxTxs
  /\ \E later \in {0, 1} :
       txs' = Append(txs, [kind |-> kind,
                           ledger |-> later + (IF txs = <<>> THEN 0
                                               ELSE txs[Len(txs)].ledger)])
  /\ UNCHANGED <<stored, viewer, selected, listed>>

StoreEvent ==
  /\ \E i \in DOMAIN txs : \E e \in EventsOf(i) \ stored : stored' = stored \cup {e}
  /\ UNCHANGED <<txs, viewer, selected, listed>>

-----------------------------------------------------------------------------
(* getEvents: the newest Limit rows of those asked for.  Rows of one ledger *)
(* come in any order.                                                      *)
Where(contract) == {e \in stored : contract \in {"all", e.contract}}
Newest(rows, list) ==
  /\ list \subseteq rows
  /\ Cardinality(list) = IF Cardinality(rows) < Limit THEN Cardinality(rows) ELSE Limit
  /\ \A e \in list, other \in rows \ list : LedgerOf(e) >= LedgerOf(other)

Refresh ==
  /\ \E list \in SUBSET Where(selected) :
       /\ Newest(Where(selected), list)
       /\ listed' = list
  /\ UNCHANGED <<txs, stored, viewer, selected>>

SelectContract(contract) ==
  /\ viewer = "admin" /\ contract # selected
  /\ selected' = contract /\ listed' = {}
  /\ UNCHANGED <<txs, stored, viewer>>

-----------------------------------------------------------------------------
(* filterEvents: nothing of unknown contracts, and no USDC transfer of a   *)
(* transaction whose deposit or withdrawal is listed too.                  *)
Known(events) == {e \in events : e.contract # "UNKNOWN"}
LpTransactions_DepositsOnly(events) ==                  \* mutant
  {e.tx : e \in {x \in events : x.contract = "LP_TOKEN" /\ x.action = "deposit"}}
LpTransactions(events) ==
  {e.tx : e \in {x \in events : x.contract = "LP_TOKEN"
                                /\ x.action \in {"deposit", "withdraw"}}}
FilterEvents(events) ==
  {e \in Known(events) :
     ~ (e.contract = "USDC_TOKEN" /\ e.action = "transfer"
        /\ e.tx \in LpTransactions(Known(events)))}

(* What is on the screen.  The administrator's page shows all it is given. *)
Shown == IF viewer = "user" THEN FilterEvents(listed) ELSE listed

ActivityNext ==
  \/ \E kind \in Kinds : Transact(kind)
  \/ StoreEvent \/ Refresh
  \/ \E contract \in Contracts \cup {"all"} : SelectContract(contract)

ActivitySpec == ActivityInit /\ [][ActivityNext]_activityVars

-----------------------------------------------------------------------------
(* However a list cuts through the events of a transaction, the user sees  *)
(* each deposit and withdrawal that the list touches exactly once, every   *)
(* other transaction of theirs at least once, and nothing of contracts     *)
(* that are not the protocol's (event-parser.ts L212-243).                 *)
ListedOnce ==
  viewer = "user" =>
    \A i \in DOMAIN txs :
      LET seen == {e \in Shown : e.tx = i}
          touched == {e \in listed : e.tx = i} # {}
      IN  CASE txs[i].kind \in {"deposit", "withdraw"} ->
                 Cardinality(seen) = IF touched THEN 1 ELSE 0
            [] txs[i].kind = "foreign" -> seen = {}
            [] OTHER -> touched => seen # {}
=============================================================================
