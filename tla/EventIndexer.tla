---------------------------- MODULE EventIndexer ----------------------------
(***************************************************************************)
(* The off-chain mirror of the contracts: BNPL Core publishes an event at  *)
(* the end of each successful call, Goldsky sends the events to the web    *)
(* application's webhook in ledger order, and the webhook's handlers write *)
(* them to the tables ParsedBill and ParsedMerchant.                       *)
(*                                                                         *)
(* A request carries a batch of events.  Its handlers run concurrently     *)
(* (Promise.all) and interleave between their database calls.  The answer  *)
(* is 200 whatever the handlers made of their events, so an event whose    *)
(* handler fails is lost: it is not sent again.  A request that is killed  *)
(* or whose answer is lost is sent again as a whole, possibly while        *)
(* handlers of the first one still run.                                    *)
(***************************************************************************)
EXTENDS Integers, Sequences, FiniteSets

CONSTANTS
  Bills,      \* bill ids
  Shops,      \* merchant addresses
  NewStatuses, \* bound: the statuses the admin gives to merchants
  MaxEvents,  \* bound: events the chain publishes
  MaxBatch,   \* events Goldsky puts in one request
  MaxResends, \* bound: requests sent again
  Overlap     \* whether handlers can outlive the request that started them

ASSUME IndexerAssumption ==
  /\ MaxEvents \in Nat /\ MaxBatch \in Nat \ {0} /\ MaxResends \in Nat
  /\ Overlap \in BOOLEAN
  /\ NewStatuses \subseteq {"None", "Pending", "Approved", "Rejected", "Suspended", "Cancelled"}

VARIABLES
  chainBills,  \* status of each bill in BNPL Core
  chainShops,  \* status of each merchant in BNPL Core
  log,         \* the events published, in ledger order
  acked,       \* the first events, up to here, are delivered for good
  sent,        \* the current request carries the events acked + 1 .. sent
  request,     \* number of the current request
  resends,     \* requests sent again so far
  tasks,       \* running handlers: request, event, next step
  parsedBill,  \* ParsedBill.status by bill id
  parsedMerchant, \* ParsedMerchant.isActive by address
  disturbed    \* history: bills and merchants that lost an event to a
               \* database error, or had two events handled at a time

chainVars == <<chainBills, chainShops, log>>
feedVars == <<acked, sent, request, resends>>
tables == <<parsedBill, parsedMerchant>>
indexerVars == <<chainVars, feedVars, tasks, tables, disturbed>>

BillEvents == {"bill_new", "payment", "repayment", "liquidate"}
Event ==
  [type : BillEvents, subject : Bills, ok : BOOLEAN]
    \cup [type : {"m_enroll"}, subject : Shops, ok : BOOLEAN]
    \cup [type : {"m_status"}, subject : Shops, new : NewStatuses, ok : BOOLEAN]
Task == [request : Nat, pos : Nat, step : {"start", "found"}]

IndexerTypeOK ==
  /\ chainBills \in [Bills -> {"None", "Created", "Paid", "Repaid", "Liquidated"}]
  /\ chainShops \in [Shops -> {"Absent", "Pending"} \cup NewStatuses]
  /\ log \in Seq(Event)
  /\ acked \in 0 .. Len(log) /\ sent \in acked .. Len(log)
  /\ request \in Nat /\ resends \in 0 .. MaxResends
  /\ tasks \subseteq Task /\ \A t \in tasks : t.pos \in DOMAIN log
  /\ parsedBill \in [Bills -> {"none", "CREATED", "PAID", "REPAID", "LIQUIDATED"}]
  /\ parsedMerchant \in [Shops -> {"none", "inactive", "active"}]
  /\ disturbed \subseteq Bills \cup Shops

IndexerInit ==
  /\ chainBills = [b \in Bills |-> "None"]
  /\ chainShops = [m \in Shops |-> "Absent"]
  /\ log = <<>>
  /\ acked = 0 /\ sent = 0 /\ request = 0 /\ resends = 0
  /\ tasks = {}
  /\ parsedBill = [b \in Bills |-> "none"]
  /\ parsedMerchant = [m \in Shops |-> "none"]
  /\ disturbed = {}

-----------------------------------------------------------------------------
(* The chain.  Each event goes with the change of status of its call; the  *)
(* event of a call that failed is reported too, with ok FALSE.             *)
Publish(e) == Len(log) < MaxEvents /\ log' = Append(log, e)

BillCalls ==
  {[event |-> "bill_new", from |-> "None", to |-> "Created"],
   [event |-> "payment", from |-> "Created", to |-> "Paid"],
   [event |-> "repayment", from |-> "Paid", to |-> "Repaid"],
   [event |-> "liquidate", from |-> "Paid", to |-> "Liquidated"]}

BillCall(b, call, ok) ==
  /\ chainBills[b] = call.from
  /\ Publish([type |-> call.event, subject |-> b, ok |-> ok])
  /\ chainBills' = IF ok THEN [chainBills EXCEPT ![b] = call.to] ELSE chainBills
  /\ UNCHANGED <<chainShops, feedVars, tasks, tables, disturbed>>

EnrollCall(m, ok) ==
  /\ chainShops[m] = "Absent"
  /\ Publish([type |-> "m_enroll", subject |-> m, ok |-> ok])
  /\ chainShops' = IF ok THEN [chainShops EXCEPT ![m] = "Pending"] ELSE chainShops
  /\ UNCHANGED <<chainBills, feedVars, tasks, tables, disturbed>>

StatusCall(m, new, ok) ==
  /\ chainShops[m] # "Absent"
  /\ Publish([type |-> "m_status", subject |-> m, new |-> new, ok |-> ok])
  /\ chainShops' = IF ok THEN [chainShops EXCEPT ![m] = new] ELSE chainShops
  /\ UNCHANGED <<chainBills, feedVars, tasks, tables, disturbed>>

-----------------------------------------------------------------------------
(* Goldsky: one request at a time, in ledger order.  Two events of one     *)
(* bill or merchant race when they come in one request, or when a handler  *)
(* has outlived its request and the next event is sent.                    *)
EventOf(t) == log[t.pos]
HandlersOf(subject, running) ==
  {t \in running : EventOf(t).ok /\ EventOf(t).subject = subject}
Racing(running) ==
  {x \in Bills \cup Shops : \E t, u \in HandlersOf(x, running) : t.pos # u.pos}

Started(r, from, to) == {[request |-> r, pos |-> i, step |-> "start"] : i \in from .. to}

Send(n) ==
  /\ sent = acked
  /\ acked + n <= Len(log)
  /\ sent' = acked + n
  /\ request' = request + 1
  /\ tasks' = tasks \cup Started(request', acked + 1, sent')
  /\ disturbed' = disturbed \cup Racing(tasks')
  /\ UNCHANGED <<chainVars, acked, resends, tables>>

Acknowledge_NotAwaited ==                           \* mutant
  /\ sent > acked
  /\ acked' = sent
  /\ UNCHANGED <<chainVars, sent, request, resends, tasks, tables, disturbed>>
(* POST has awaited all its handlers and answers 200.                      *)
Acknowledge ==
  /\ sent > acked
  /\ \A t \in tasks : t.request # request
  /\ acked' = sent
  /\ UNCHANGED <<chainVars, sent, request, resends, tasks, tables, disturbed>>

(* No answer: the same batch again.                                        *)
Resend(alive) ==
  /\ sent > acked
  /\ resends < MaxResends
  /\ resends' = resends + 1
  /\ request' = request + 1
  /\ tasks' = (IF alive THEN tasks ELSE {}) \cup Started(request', acked + 1, sent)
  /\ UNCHANGED <<chainVars, acked, sent, tables, disturbed>>

-----------------------------------------------------------------------------
(* processEvent: each of the following is one database call of a handler.  *)
(* Prisma's update throws when the row is missing, and any call throws     *)
(* when the database fails; the handler catches it and reports the event   *)
(* as not processed, which is only logged.                                 *)
Finished(t) == tasks' = tasks \ {t}

SetBill_OnlyCreated(b, status) ==                   \* mutant
  parsedBill' = IF parsedBill[b] = "CREATED"
                THEN [parsedBill EXCEPT ![b] = status] ELSE parsedBill
SetBill(b, status) ==
  parsedBill' = IF parsedBill[b] = "none" THEN parsedBill
                ELSE [parsedBill EXCEPT ![b] = status]

UpsertBill_Overwrite(b) ==                          \* mutant
  parsedBill' = [parsedBill EXCEPT ![b] = "CREATED"]
UpsertBill(b) ==
  parsedBill' = IF parsedBill[b] = "none"
                THEN [parsedBill EXCEPT ![b] = "CREATED"] ELSE parsedBill

IsActive(new) == new = "Approved"

SkipFailed_Never(t) == FALSE                        \* mutant
SkipFailed(t) == ~ EventOf(t).ok

HandleFailedCall(t) ==
  /\ SkipFailed(t)
  /\ Finished(t)
  /\ UNCHANGED <<tables, disturbed>>

(* A database call fails before it has written; one that fails after it    *)
(* has is as good as done.                                                 *)
HandlerFails(t) ==
  /\ ~ SkipFailed(t)
  /\ Finished(t)
  /\ disturbed' = disturbed \cup {EventOf(t).subject}
  /\ UNCHANGED tables

HandleBillEvent(t) ==
  LET e == EventOf(t)
  IN  /\ ~ SkipFailed(t)
      /\ \/ e.type = "bill_new" /\ UpsertBill(e.subject)
         \/ e.type = "payment" /\ SetBill(e.subject, "PAID")
         \/ e.type = "liquidate" /\ SetBill(e.subject, "LIQUIDATED")
      /\ Finished(t)
      /\ UNCHANGED <<parsedMerchant, disturbed>>

(* The repayment handler looks the bill up before it updates it.           *)
HandleRepaymentFind(t) ==
  LET e == EventOf(t)
  IN  /\ ~ SkipFailed(t)
      /\ e.type = "repayment" /\ t.step = "start"
      /\ tasks' = (tasks \ {t}) \cup
                    (IF parsedBill[e.subject] = "none" THEN {}
                     ELSE {[t EXCEPT !.step = "found"]})
      /\ UNCHANGED <<tables, disturbed>>

HandleRepaymentUpdate(t) ==
  /\ t.step = "found"
  /\ SetBill(EventOf(t).subject, "REPAID")
  /\ Finished(t)
  /\ UNCHANGED <<parsedMerchant, disturbed>>

HandleEnroll(t) ==
  LET e == EventOf(t)
  IN  /\ ~ SkipFailed(t)
      /\ e.type = "m_enroll"
      /\ parsedMerchant' = IF parsedMerchant[e.subject] = "none"
                           THEN [parsedMerchant EXCEPT ![e.subject] = "inactive"]
                           ELSE parsedMerchant
      /\ Finished(t)
      /\ UNCHANGED <<parsedBill, disturbed>>

HandleStatus(t) ==
  LET e == EventOf(t)
  IN  /\ ~ SkipFailed(t)
      /\ e.type = "m_status"
      /\ parsedMerchant' =
           IF parsedMerchant[e.subject] = "none" THEN parsedMerchant
           ELSE [parsedMerchant EXCEPT ![e.subject] =
                   IF IsActive(e.new) THEN "active" ELSE "inactive"]
      /\ Finished(t)
      /\ UNCHANGED <<parsedBill, disturbed>>

Handle(t) ==
  /\ \/ HandleFailedCall(t)
     \/ HandlerFails(t)
     \/ HandleBillEvent(t)
     \/ HandleRepaymentFind(t)
     \/ HandleRepaymentUpdate(t)
     \/ HandleEnroll(t)
     \/ HandleStatus(t)
  /\ UNCHANGED <<chainVars, feedVars>>

-----------------------------------------------------------------------------
ChainCall ==
  \E ok \in BOOLEAN :
    \/ \E b \in Bills, call \in BillCalls : BillCall(b, call, ok)
    \/ \E m \in Shops : EnrollCall(m, ok)
    \/ \E m \in Shops, new \in NewStatuses : StatusCall(m, new, ok)

Deliver == \E n \in 1 .. MaxBatch : Send(n)
RunHandler == \E t \in tasks : Handle(t)

IndexerNext ==
  \/ ChainCall
  \/ Deliver
  \/ RunHandler
  \/ Acknowledge
  \/ \E alive \in {FALSE, Overlap} : Resend(alive)

(* Goldsky keeps sending, a handler that runs makes its next call, and a   *)
(* finished request is answered.  Nothing has to happen on the chain, and  *)
(* no request has to be sent again.                                        *)
IndexerFairness ==
  WF_indexerVars(Deliver) /\ WF_indexerVars(RunHandler) /\ WF_indexerVars(Acknowledge)

IndexerSpec == IndexerInit /\ [][IndexerNext]_indexerVars
FairIndexerSpec == IndexerSpec /\ IndexerFairness

-----------------------------------------------------------------------------
(* The tables never say anything that did not happen, whatever the batches *)
(* and the order of the handlers: a bill's status stands for an event of a *)
(* successful call on that bill, and an active merchant was approved.      *)
Happened(type, subject) ==
  \E i \in DOMAIN log : log[i].type = type /\ log[i].subject = subject /\ log[i].ok

NothingInvented ==
  /\ \A b \in Bills :
       /\ parsedBill[b] # "none" => Happened("bill_new", b)
       /\ parsedBill[b] = "PAID" => Happened("payment", b)
       /\ parsedBill[b] = "REPAID" => Happened("repayment", b)
       /\ parsedBill[b] = "LIQUIDATED" => Happened("liquidate", b)
  /\ \A m \in Shops :
       parsedMerchant[m] = "active" =>
         \E i \in DOMAIN log : /\ log[i].type = "m_status" /\ log[i].subject = m
                               /\ log[i].new = "Approved" /\ log[i].ok

(* A second bill_new for a bill, from a request sent again, does not undo  *)
(* what later events have written (upsert with an empty update, L168-185). *)
CreationNeverOverwrites ==
  [][\A b \in Bills :
       parsedBill[b] # "none" /\ parsedBill'[b] = "CREATED" =>
         parsedBill[b] = "CREATED"]_indexerVars

RowOf(status) ==
  CASE status = "None" -> "none"
    [] status = "Created" -> "CREATED"
    [] status = "Paid" -> "PAID"
    [] status = "Repaid" -> "REPAID"
    [] status = "Liquidated" -> "LIQUIDATED"

ActiveOf(status) ==
  CASE status = "Absent" -> "none"
    [] status = "Approved" -> "active"
    [] OTHER -> "inactive"

Mirrored ==
  /\ \A b \in Bills : parsedBill[b] = RowOf(chainBills[b])
  /\ \A m \in Shops : parsedMerchant[m] = ActiveOf(chainShops[m])

(* Once everything is delivered and no handler runs, the tables agree with *)
(* the chain: data-flow.md L150, "Off-chain database mirrors blockchain    *)
(* state", and L129, "Failed events are automatically retried".  An event  *)
(* whose handler the database failed is not retried, so it does not hold   *)
(* (L320-324, L358).                                                       *)
MirrorsWhenCaughtUp ==
  acked = Len(log) /\ tasks = {} => Mirrored

(* What does hold, bill by bill and merchant by merchant.  Where no event  *)
(* was lost to the database and none raced another, the rows agree with    *)
(* the chain once everything is delivered, whatever becomes of the others, *)
(* in batches, with requests killed or sent again and handlers that        *)
(* outlive them.                                                           *)
MirroredUndisturbed ==
  /\ \A b \in Bills \ disturbed : parsedBill[b] = RowOf(chainBills[b])
  /\ \A m \in Shops \ disturbed : parsedMerchant[m] = ActiveOf(chainShops[m])
MirrorsUndisturbed == acked = Len(log) => MirroredUndisturbed

(* Such a bill's row follows the bill's life one call at a time: no event  *)
(* that comes again, late or for a failed call makes it jump or go back.   *)
StatusesInOrder ==
  [][\A b \in Bills \ disturbed' :
       parsedBill'[b] = parsedBill[b]
         \/ \E call \in BillCalls : /\ parsedBill[b] = RowOf(call.from)
                                    /\ parsedBill'[b] = RowOf(call.to)]_indexerVars

(* The chain falls silent at some point here; from some point on the rows  *)
(* of such bills and merchants agree with it for good.                     *)
EventuallyMirrored == <>[]MirroredUndisturbed
=============================================================================
