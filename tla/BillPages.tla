----------------------------- MODULE BillPages -----------------------------
(***************************************************************************)
(* The pages on which bills are made and settled: the merchant's form, the *)
(* buyer's dashboard, and the page of a single bill.  A bill made with the *)
(* form is a row of the web application's database and a bill on chain,    *)
(* created one after the other; the dashboard shows the rows, and finds    *)
(* the bill on chain through its indexed copy, by the row's id that the    *)
(* bill carries as its order id, or by the id stored in the row.  A row    *)
(* made for a completed checkout session stores that id, one made by the   *)
(* form should, and does not: the page sends it as text, and the database  *)
(* refuses what is not an integer.                                         *)
(*                                                                         *)
(* What a page shows is what it last fetched, from three queries of their  *)
(* own, which go stale but do not refetch by themselves: they do when the  *)
(* buyer comes back to the page.  An allowance it has read is kept for a   *)
(* while too.                                                              *)
(***************************************************************************)
EXTENDS Integers, Sequences, FiniteSets

CONSTANTS
  FormBills,     \* bills made with the merchant's form
  SessionBills,  \* bills made by a shop and paid on the checkout page
  Principal,     \* amount of each bill
  Funds,         \* USDC the buyer has
  LatePercent,   \* late fee of one clock tick, in percent of the principal
  MaxAge,        \* bound: ticks past the grace period
  IndexLimit,    \* bills the indexer's API returns when no limit is asked for
  MaxFailures    \* bound: transactions, signatures and events that are lost

AllBills == FormBills \cup SessionBills

ASSUME BillPagesAssumption ==
  /\ FormBills \cap SessionBills = {}
  /\ Principal \in [AllBills -> Nat \ {0}]
  /\ Funds \in Nat /\ LatePercent \in Nat /\ MaxAge \in Nat /\ MaxFailures \in Nat
  /\ IndexLimit \in Nat \ {0}

VARIABLES
  chainBills,  \* bills created on chain, in the order of their ids
  onChain,     \* status of each bill in BNPL Core
  age,         \* ticks since the grace period of the bills ended
  allowance,   \* what the core may spend of the buyer's USDC
  funds,       \* the buyer's USDC
  rows,        \* Bill row: "none", "stored", or "linked" to an on-chain id
  form,        \* step of the form's handler for each bill
  indexed,     \* ParsedBill.status of each bill
  lostAt,      \* the status whose event the indexer lost, or None
  seenRows,    \* the dashboard's useBillsByUser
  seenEvents,  \* the bills of useBillEventsByUser, which carries order ids
  seenIndex,   \* the dashboard's useUserBills, which carries statuses
  cached,      \* the allowance the page keeps, or none
  repaying,    \* the repayment handler's bill and step
  failures

chainSide == <<chainBills, onChain, age, allowance, funds>>
server == <<rows, form, indexed, lostAt>>
billPage == <<seenRows, seenEvents, seenIndex, cached, repaying>>
billPagesVars == <<chainSide, server, billPage, failures>>

NoAllowance == -1
NotRepaying == [step |-> "none"]
Status == {"None", "Created", "Paid", "Repaid"}

BillPagesTypeOK ==
  /\ onChain \in [AllBills -> Status] /\ indexed \in [AllBills -> Status]
  /\ lostAt \in [AllBills -> Status] /\ funds \in 0 .. Funds
  /\ age \in 0 .. MaxAge /\ allowance \in Nat /\ cached \in Nat \cup {NoAllowance}
  /\ rows \in [AllBills -> {"none", "stored", "linked"}]
  /\ form \in [AllBills -> {"none", "chain", "patch", "created", "failed"}]

BillPagesInit ==
  /\ chainBills = <<>>
  /\ onChain = [b \in AllBills |-> "None"]
  /\ age = 0 /\ allowance = 0 /\ funds = Funds
  /\ rows = [b \in AllBills |-> "none"]
  /\ form = [b \in AllBills |-> "none"]
  /\ indexed = [b \in AllBills |-> "None"]
  /\ lostAt = [b \in AllBills |-> "None"]
  /\ seenRows = [b \in AllBills |-> "none"]
  /\ seenEvents = {}
  /\ seenIndex = [b \in AllBills |-> "None"]
  /\ cached = NoAllowance /\ repaying = NotRepaying
  /\ failures = 0

-----------------------------------------------------------------------------
(* The ledger.                                                             *)
Owed(b) == Principal[b] + (Principal[b] * LatePercent * age) \div 100

Tick ==
  /\ age < MaxAge
  /\ age' = age + 1
  /\ UNCHANGED <<chainBills, onChain, allowance, funds, server, billPage, failures>>

CreateOnChain(b) ==
  /\ chainBills' = Append(chainBills, b)
  /\ onChain' = [onChain EXCEPT ![b] = "Created"]

Fails == failures < MaxFailures /\ failures' = failures + 1

(* The buyer's USDC is the buyer's to spend on something else.             *)
SpendElsewhere ==
  /\ funds > 0
  /\ Fails
  /\ funds' = 0
  /\ UNCHANGED <<chainBills, onChain, age, allowance, server, billPage>>

(* The indexer, as far as module EventIndexer promises: it catches up,     *)
(* unless the web application swallows an error and loses the event, and   *)
(* a bill without a row stays without one.                                 *)
Index(b) ==
  /\ indexed[b] # onChain[b] /\ onChain[b] # lostAt[b]
  /\ lostAt[b] # "None" => indexed[b] # "None"
  /\ indexed' = [indexed EXCEPT ![b] = onChain[b]]
  /\ UNCHANGED <<chainSide, rows, form, lostAt, billPage, failures>>

LoseEvent(b) ==
  /\ indexed[b] # onChain[b]
  /\ Fails
  /\ lostAt' = [lostAt EXCEPT ![b] = onChain[b]]
  /\ UNCHANGED <<chainSide, rows, form, indexed, billPage>>

-----------------------------------------------------------------------------
(* The merchant's form, handleCreateBill: store a row, ...                 *)
SubmitForm(b) ==
  /\ b \in FormBills /\ form[b] = "none"
  /\ rows' = [rows EXCEPT ![b] = "stored"]
  /\ form' = [form EXCEPT ![b] = "chain"]
  /\ UNCHANGED <<chainSide, indexed, lostAt, billPage, failures>>

(* ... create the bill on chain with the row's id as its order id ...      *)
FormCreates(b) ==
  /\ form[b] = "chain"
  /\ CreateOnChain(b)
  /\ form' = [form EXCEPT ![b] = "patch"]
  /\ UNCHANGED <<age, allowance, funds, rows, indexed, lostAt, billPage, failures>>

(* ... unless it is refused, or its answer is lost, which leaves the row,  *)
(* and in the second case the bill, and says that creation failed ...      *)
FormFails(b) ==
  /\ form[b] = "chain"
  /\ Fails
  /\ form' = [form EXCEPT ![b] = "failed"]
  /\ CreateOnChain(b) \/ UNCHANGED <<chainBills, onChain>>
  /\ UNCHANGED <<age, allowance, funds, rows, indexed, lostAt, billPage>>

(* ... and store the bill's id in the row.  The id is text, onChainBillId  *)
(* an integer, and the update is refused: "Failed to create bill".         *)
AcceptsId(isText) == ~ isText

PatchRow(b) ==
  /\ form[b] = "patch"
  /\ IF AcceptsId(TRUE)
     THEN /\ rows' = [rows EXCEPT ![b] = "linked"]
          /\ form' = [form EXCEPT ![b] = "created"]
     ELSE /\ rows' = rows
          /\ form' = [form EXCEPT ![b] = "failed"]
  /\ UNCHANGED <<chainSide, indexed, lostAt, billPage, failures>>

-----------------------------------------------------------------------------
(* A shop's bill: created, paid on the checkout page, and given a row with *)
(* its id when the session is completed (modules Checkout and BnplCore).   *)
ShopCreates(b) ==
  /\ b \in SessionBills /\ onChain[b] = "None"
  /\ CreateOnChain(b)
  /\ UNCHANGED <<age, allowance, funds, server, billPage, failures>>

PaidAtCheckout(b) ==
  /\ b \in SessionBills /\ onChain[b] = "Created"
  /\ onChain' = [onChain EXCEPT ![b] = "Paid"]
  /\ UNCHANGED <<chainBills, age, allowance, funds, server, billPage, failures>>

SessionCompleted(b) ==
  /\ b \in SessionBills /\ onChain[b] # "None" /\ onChain[b] # "Created"
  /\ rows[b] = "none"
  /\ rows' = [rows EXCEPT ![b] = "linked"]
  /\ UNCHANGED <<chainSide, form, indexed, lostAt, billPage, failures>>

-----------------------------------------------------------------------------
(* The dashboard's queries.                                                *)
FetchRows ==
  /\ seenRows' = rows
  /\ UNCHANGED <<chainSide, server, seenEvents, seenIndex, cached, repaying, failures>>

(* GET /api/indexer/bills: the newest bills the database has, up to limit. *)
Newer(b) ==
  {c \in AllBills : /\ indexed[c] # "None"
                    /\ \E i, j \in DOMAIN chainBills : i < j /\ chainBills[i] = b /\ chainBills[j] = c}
Page(limit) ==
  [b \in AllBills |->
     IF indexed[b] # "None" /\ Cardinality(Newer(b)) < limit THEN indexed[b] ELSE "None"]

FetchEvents ==
  /\ LET answer == Page(Cardinality(AllBills))      \* it asks for 100
     IN  seenEvents' = {b \in AllBills : answer[b] # "None"}
  /\ UNCHANGED <<chainSide, server, seenRows, seenIndex, cached, repaying, failures>>

FetchIndex ==
  /\ seenIndex' = Page(IndexLimit)
  /\ UNCHANGED <<chainSide, server, seenRows, seenEvents, cached, repaying, failures>>

(* The bills list: a row's bill on chain is the one with the stored id, or *)
(* the one whose order id is the row's.                                    *)
HasChainId_StoredOnly(b) == seenRows[b] = "linked"  \* mutant
HasChainId(b) ==
  \/ seenRows[b] = "linked"
  \/ seenRows[b] = "stored" /\ b \in seenEvents

(* Without a status the list offers the payment; with one, what it allows. *)
OffersPay(b) == HasChainId(b) /\ seenIndex[b] \in {"None", "Created"}
OffersRepay(b) == HasChainId(b) /\ seenIndex[b] = "Paid"

(* handlePayBill: only a bill the page has indexed as created is paid, and *)
(* the chain pays it only once; after that the statuses are fetched again. *)
ClickPay(b) ==
  /\ OffersPay(b) /\ seenIndex[b] = "Created" /\ repaying = NotRepaying
  /\ onChain[b] = "Created"
  /\ onChain' = [onChain EXCEPT ![b] = "Paid"]
  /\ seenIndex' = Page(IndexLimit)
  /\ UNCHANGED <<chainBills, age, allowance, funds, server, seenRows, seenEvents, cached, repaying, failures>>

-----------------------------------------------------------------------------
(* handleRepayBill: read the allowance, through a cache of half a minute;  *)
(* approve the principal and ten percent if it is below the principal; and *)
(* repay.  Approving drops the cached allowance, repaying does not.        *)
ApproveAmount(b) == (Principal[b] * 110) \div 100

ClickRepay(b) ==
  LET known == IF cached = NoAllowance THEN allowance ELSE cached
  IN  /\ OffersRepay(b) /\ repaying = NotRepaying
      /\ cached' = known
      /\ repaying' = [bill |-> b, step |-> IF known < Principal[b] THEN "approve" ELSE "repay"]
      /\ UNCHANGED <<chainSide, server, seenRows, seenEvents, seenIndex, failures>>

ApproveMore ==
  /\ repaying.step = "approve"
  /\ allowance' = ApproveAmount(repaying.bill)
  /\ cached' = NoAllowance
  /\ repaying' = [repaying EXCEPT !.step = "repay"]
  /\ UNCHANGED <<chainBills, onChain, age, funds, server, seenRows, seenEvents, seenIndex, failures>>

(* The core takes what is owed from the buyer's USDC, within the           *)
(* allowance, or refuses.                                                  *)
CanRepayNow(b) == onChain[b] = "Paid" /\ allowance >= Owed(b) /\ funds >= Owed(b)
RepayOnChain(b) ==
  IF CanRepayNow(b)
  THEN /\ onChain' = [onChain EXCEPT ![b] = "Repaid"]
       /\ allowance' = allowance - Owed(b)
       /\ funds' = funds - Owed(b)
  ELSE UNCHANGED <<onChain, allowance, funds>>

(* Statuses are fetched again after a repayment, not after a refusal.      *)
Repay ==
  /\ repaying.step = "repay"
  /\ RepayOnChain(repaying.bill)
  /\ repaying' = NotRepaying
  /\ seenIndex' = IF CanRepayNow(repaying.bill) THEN Page(IndexLimit) ELSE seenIndex
  /\ UNCHANGED <<chainBills, age, server, seenRows, seenEvents, cached, failures>>

(* The wallet refuses, or the transaction is lost; the handler ends.       *)
RepayGivenUp ==
  /\ repaying # NotRepaying
  /\ Fails
  /\ repaying' = NotRepaying
  /\ UNCHANGED <<chainSide, server, seenRows, seenEvents, seenIndex, cached>>

(* The page of one bill repays without looking at the allowance.           *)
RepayOnDetailPage(b) ==
  /\ indexed[b] = "Paid" /\ repaying = NotRepaying /\ CanRepayNow(b)
  /\ RepayOnChain(b)
  /\ UNCHANGED <<chainBills, age, server, billPage, failures>>

CacheExpires_Never == FALSE /\ UNCHANGED billPagesVars  \* mutant
CacheExpires ==
  /\ cached # NoAllowance
  /\ cached' = NoAllowance
  /\ UNCHANGED <<chainSide, server, seenRows, seenEvents, seenIndex, repaying, failures>>

-----------------------------------------------------------------------------
Fetch == FetchRows \/ FetchEvents \/ FetchIndex
MakeBill(b) ==
  \/ SubmitForm(b) \/ FormCreates(b) \/ FormFails(b) \/ PatchRow(b)
  \/ ShopCreates(b) \/ PaidAtCheckout(b) \/ SessionCompleted(b)
SettleBill(b) == ClickPay(b) \/ ClickRepay(b) \/ RepayOnDetailPage(b)

BillPagesNext ==
  \/ Tick
  \/ \E b \in AllBills : MakeBill(b) \/ Index(b) \/ LoseEvent(b) \/ SettleBill(b)
  \/ SpendElsewhere
  \/ Fetch
  \/ ApproveMore \/ Repay \/ RepayGivenUp \/ CacheExpires

(* No query of the dashboard refetches by itself (staleTime is all that    *)
(* providers.tsx and the hooks set): it does when the page is mounted or   *)
(* focused after the answer went stale.  That the buyer keeps coming back, *)
(* often enough for each query, is an assumption about the buyer.          *)
BuyerComesBack ==
  /\ WF_billPagesVars(FetchRows) /\ WF_billPagesVars(FetchEvents)
  /\ WF_billPagesVars(FetchIndex)

(* As is that a buyer who was offered a repayment asks for it again until  *)
(* it is made: SF, for other bills keep the handler busy.                  *)
BuyerKeepsTrying == \A b \in AllBills : SF_billPagesVars(ClickRepay(b))

(* Indexing and the cache's expiry go on by themselves, and a handler that *)
(* was started takes its next step.                                        *)
BillPagesFairness ==
  /\ \A b \in AllBills : WF_billPagesVars(Index(b))
  /\ WF_billPagesVars(ApproveMore \/ Repay) /\ SF_billPagesVars(CacheExpires)
  /\ BuyerComesBack /\ BuyerKeepsTrying

BillPagesSpec == BillPagesInit /\ [][BillPagesNext]_billPagesVars
FairBillPagesSpec == BillPagesSpec /\ BillPagesFairness

-----------------------------------------------------------------------------
(* A bill created with the form reaches the dashboard of a buyer who comes *)
(* back to it, to be paid there, although the form reports a failure and   *)
(* the row never gets the bill's id: the order id is enough                *)
(* (user/page.tsx L110-131).  Only newer bills or a lost event hide it.    *)
PayableOnDashboard(b) == OffersPay(b) /\ seenIndex[b] = "Created"
Hidden(b) == Cardinality(Newer(b)) >= IndexLimit \/ lostAt[b] # "None"
FormBillReachesBuyer ==
  \A b \in FormBills :
    onChain[b] = "Created" ~>
      PayableOnDashboard(b) \/ onChain[b] # "Created" \/ Hidden(b)

(* In the grace period a buyer who comes back, keeps asking and has the    *)
(* USDC gets a loan repaid on the dashboard, whatever the other bill, its  *)
(* repayment or what was approved for it leave behind, unless newer bills  *)
(* have pushed it out of the one query that knows its status, or the event *)
(* is lost.                                                                *)
RepaidInTime ==
  \A b \in AllBills :
    onChain[b] = "Paid" /\ rows[b] # "none" ~>
      onChain[b] = "Repaid" \/ age > 0 \/ funds < Owed(b) \/ Hidden(b)

(* user/page.tsx L283: the page approves ten percent more "for late fees", *)
(* so a loan whose late fee is below that can be repaid there.  With an    *)
(* allowance left that covers the principal, the page does not approve,    *)
(* and the repayment is refused each time.                                 *)
RepaidWhenLate ==
  \A b \in AllBills :
    onChain[b] = "Paid" /\ rows[b] # "none" ~>
      onChain[b] = "Repaid" \/ funds < Owed(b) \/ Hidden(b)
=============================================================================
