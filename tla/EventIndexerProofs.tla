------------------------- MODULE EventIndexerProofs -------------------------
(***************************************************************************)
(* The indexer's tables: they never say what did not happen, and the rows  *)
(* of bills and merchants that lost no event to the database and had none  *)
(* race mirror the chain, for any number of bills, merchants, events and   *)
(* requests sent again.  Then what is reported from the tables             *)
(* (ProtocolStats), for any bills and amounts.                             *)
(*                                                                         *)
(* The mirror needs the history: the log tells the status of each bill and *)
(* merchant at every place, each event legal after the one before it       *)
(* (ChainAsLogged), and an undisturbed row is as of its last event sent,   *)
(* or of the one before while a handler of the current request has still   *)
(* to write it (RowsAsOf).  ReportsTrue needs that every figure a report   *)
(* holds was true when it was read and is true still where nothing moved   *)
(* (StatsInv).                                                             *)
(***************************************************************************)
EXTENDS EventIndexer, ProtocolStats, ArithmeticProofs

-----------------------------------------------------------------------------
(* Types.  A handler that has found a bill is that of a repayment.         *)
FoundRight ==
  \A t \in tasks : t.step = "found" => EventOf(t).type = "repayment" /\ EventOf(t).ok

(* The published log only grows.                                           *)
Grows == log' = log \/ \E e \in Event : log' = Append(log, e)

LEMMA GrowingLog ==
  ASSUME log \in Seq(Event), Grows
  PROVE  /\ log' \in Seq(Event) /\ Len(log) <= Len(log')
         /\ \A i \in DOMAIN log : i \in DOMAIN log' /\ log'[i] = log[i]
<1>1. Len(log) \in Nat /\ DOMAIN log = 1 .. Len(log)
  OBVIOUS
<1>2. CASE log' = log
  BY <1>1, <1>2
<1>3. CASE \E e \in Event : log' = Append(log, e)
  BY <1>1, <1>3
<1> QED BY <1>2, <1>3 DEF Grows

LEMMA IndexerTyped ==
  IndexerTypeOK /\ IndexerNext => IndexerTypeOK' /\ Grows
<1> SUFFICES ASSUME IndexerTypeOK, IndexerNext
             PROVE  IndexerTypeOK' /\ Grows
  OBVIOUS
<1> USE DEF IndexerTypeOK
<1>2. CASE ChainCall
  <2>1. PICK e \in Event : log' = Append(log, e) /\ UNCHANGED <<feedVars, tasks, tables, disturbed>>
    <3>1. ASSUME NEW ok \in BOOLEAN, NEW b \in Bills, NEW call \in BillCalls, BillCall(b, call, ok)
          PROVE  \E e \in Event : log' = Append(log, e) /\ UNCHANGED <<feedVars, tasks, tables, disturbed>>
      <4>1. [type |-> call.event, subject |-> b, ok |-> ok] \in Event
        BY DEF Event, BillCalls, BillEvents
      <4> QED BY <3>1, <4>1 DEF BillCall, Publish
    <3>2. ASSUME NEW ok \in BOOLEAN, NEW m \in Shops, EnrollCall(m, ok)
          PROVE  \E e \in Event : log' = Append(log, e) /\ UNCHANGED <<feedVars, tasks, tables, disturbed>>
      <4>1. [type |-> "m_enroll", subject |-> m, ok |-> ok] \in Event
        BY DEF Event
      <4> QED BY <3>2, <4>1 DEF EnrollCall, Publish
    <3>3. ASSUME NEW ok \in BOOLEAN, NEW m \in Shops, NEW new \in NewStatuses,
                 StatusCall(m, new, ok)
          PROVE  \E e \in Event : log' = Append(log, e) /\ UNCHANGED <<feedVars, tasks, tables, disturbed>>
      <4>1. [type |-> "m_status", subject |-> m, new |-> new, ok |-> ok] \in Event
        BY DEF Event
      <4> QED BY <3>3, <4>1 DEF StatusCall, Publish
    <3> QED BY <1>2, <3>1, <3>2, <3>3 DEF ChainCall
  <2>2. log' \in Seq(Event) /\ Len(log') = Len(log) + 1 /\ Grows
    BY <2>1 DEF Grows
  <2>3. Len(log) \in Nat /\ DOMAIN log = 1 .. Len(log) /\ DOMAIN log' = 1 .. Len(log')
    BY <2>2
  <2> DEFINE ChainTyped ==
        /\ chainBills' \in [Bills -> {"None", "Created", "Paid", "Repaid", "Liquidated"}]
        /\ chainShops' \in [Shops -> {"Absent", "Pending"} \cup NewStatuses]
  <2>4. ChainTyped
    <3>1. ASSUME NEW ok \in BOOLEAN, NEW b \in Bills, NEW call \in BillCalls, BillCall(b, call, ok)
          PROVE  ChainTyped
      <4>1. call.to \in {"None", "Created", "Paid", "Repaid", "Liquidated"}
        BY DEF BillCalls
      <4> QED BY <3>1, <4>1 DEF BillCall
    <3>2. ASSUME NEW ok \in BOOLEAN, NEW m \in Shops, EnrollCall(m, ok)
          PROVE  ChainTyped
      BY <3>2 DEF EnrollCall
    <3>3. ASSUME NEW ok \in BOOLEAN, NEW m \in Shops, NEW new \in NewStatuses,
                 StatusCall(m, new, ok)
          PROVE  ChainTyped
      BY <3>3 DEF StatusCall
    <3> QED BY <1>2, <3>1, <3>2, <3>3 DEF ChainCall
  <2>5. acked' \in 0 .. Len(log') /\ sent' \in acked' .. Len(log')
    BY <2>1, <2>2, <2>3 DEF feedVars
  <2> QED BY <2>1, <2>2, <2>3, <2>4, <2>5 DEF feedVars, tables
<1>3. CASE Deliver
  <2>1. PICK n \in 1 .. MaxBatch : Send(n)
    BY <1>3 DEF Deliver
  <2>2. /\ sent' \in acked .. Len(log) /\ acked' = acked /\ request' = request + 1
        /\ UNCHANGED <<chainVars, resends, tables>>
    BY <2>1, IndexerAssumption DEF Send
  <2>3. request' \in Nat /\ acked \in Nat /\ sent' \in Nat /\ sent' <= Len(log)
    BY <2>2
  <2>4. \A t \in Started(request', acked + 1, sent') : t \in Task /\ t.pos \in 1 .. Len(log)
    <3>1. PICK r \in Nat : r = request'
      BY <2>3
    <3>2. \A i \in acked + 1 .. sent' : i \in Nat /\ i \in 1 .. Len(log)
      BY <2>3
    <3> QED BY <3>1, <3>2 DEF Started, Task
  <2>5. /\ tasks' = tasks \cup Started(request', acked + 1, sent') /\ log' = log
        /\ chainBills' = chainBills /\ chainShops' = chainShops
    BY <2>1 DEF Send, chainVars
  <2>6. \A t \in tasks' : t \in Task /\ t.pos \in DOMAIN log'
    BY <2>4, <2>5
  <2>7. disturbed' \subseteq Bills \cup Shops
    BY <2>1 DEF Send, Racing
  <2> QED BY <2>2, <2>3, <2>5, <2>6, <2>7 DEF tables, Grows
<1>4. CASE RunHandler
  <2>1. PICK t \in tasks : Handle(t)
    BY <1>4 DEF RunHandler
  <2>2. /\ log' = log /\ chainBills' = chainBills /\ chainShops' = chainShops
        /\ UNCHANGED feedVars
    BY <2>1 DEF Handle, chainVars
  <2>3. \A u \in tasks' : u \in tasks \/ u = [t EXCEPT !.step = "found"]
    BY <2>1 DEF Handle, HandleFailedCall, HandlerFails, HandleBillEvent, HandleRepaymentFind,
       HandleRepaymentUpdate, HandleEnroll, HandleStatus, Finished
  <2>4. [t EXCEPT !.step = "found"] \in Task /\ [t EXCEPT !.step = "found"].pos = t.pos
    BY <2>1 DEF Task
  <2>5. \A u \in tasks' : u \in Task /\ u.pos \in DOMAIN log'
    BY <2>1, <2>2, <2>3, <2>4
  <2>6. parsedBill' \in [Bills -> {"none", "CREATED", "PAID", "REPAID", "LIQUIDATED"}]
    BY <2>1 DEF Handle, HandleFailedCall, HandlerFails, HandleBillEvent, HandleRepaymentFind,
       HandleRepaymentUpdate, HandleEnroll, HandleStatus, tables, SetBill, UpsertBill
  <2>7. parsedMerchant' \in [Shops -> {"none", "inactive", "active"}]
    BY <2>1 DEF Handle, HandleFailedCall, HandlerFails, HandleBillEvent, HandleRepaymentFind,
       HandleRepaymentUpdate, HandleEnroll, HandleStatus, tables
  <2>8. disturbed' \subseteq Bills \cup Shops
    <3>1. EventOf(t).subject \in Bills \cup Shops
      BY DEF EventOf, Event
    <3> QED BY <2>1, <3>1 DEF Handle, HandleFailedCall, HandlerFails, HandleBillEvent,
         HandleRepaymentFind, HandleRepaymentUpdate, HandleEnroll, HandleStatus
  <2> QED BY <2>2, <2>5, <2>6, <2>7, <2>8 DEF feedVars, Grows
<1>5. CASE Acknowledge
  BY <1>5 DEF Acknowledge, chainVars, tables, Grows
<1>6. CASE \E alive \in {FALSE, Overlap} : Resend(alive)
  <2>1. PICK alive \in {FALSE, Overlap} : Resend(alive)
    BY <1>6
  <2>2. /\ acked' = acked /\ sent' = sent /\ request' = request + 1
        /\ resends' = resends + 1 /\ resends < MaxResends
        /\ UNCHANGED <<chainVars, tables, disturbed>>
    BY <2>1 DEF Resend
  <2>3. request' \in Nat /\ acked \in Nat /\ sent \in Nat /\ sent <= Len(log)
        /\ resends' \in 0 .. MaxResends
    BY <2>2, IndexerAssumption
  <2>4. \A t \in Started(request', acked + 1, sent) : t \in Task /\ t.pos \in 1 .. Len(log)
    <3>1. PICK r \in Nat : r = request'
      BY <2>3
    <3>2. \A i \in acked + 1 .. sent : i \in Nat /\ i \in 1 .. Len(log)
      BY <2>3
    <3> QED BY <3>1, <3>2 DEF Started, Task
  <2>5. /\ \A t \in tasks' : t \in tasks \/ t \in Started(request', acked + 1, sent)
        /\ log' = log /\ chainBills' = chainBills /\ chainShops' = chainShops
    BY <2>1 DEF Resend, chainVars
  <2>6. \A t \in tasks' : t \in Task /\ t.pos \in DOMAIN log'
    BY <2>4, <2>5
  <2> QED BY <2>2, <2>3, <2>5, <2>6 DEF tables, Grows
<1> QED BY <1>2, <1>3, <1>4, <1>5, <1>6 DEF IndexerNext

LEMMA FoundStaysRight ==
  ASSUME IndexerTypeOK, FoundRight, IndexerNext
  PROVE  FoundRight'
<1>1. Grows
  BY IndexerTyped
<1>2. \A i \in DOMAIN log : i \in DOMAIN log' /\ log'[i] = log[i]
  BY <1>1, GrowingLog DEF IndexerTypeOK
<1>3. \A t \in tasks : t.pos \in DOMAIN log
  BY DEF IndexerTypeOK
<1>4. ASSUME NEW u \in tasks', u.step = "found", u \notin tasks
      PROVE  u.pos \in DOMAIN log /\ log[u.pos].type = "repayment" /\ log[u.pos].ok
  <2>1. CASE RunHandler
    <3>1. PICK t \in tasks : HandleRepaymentFind(t) /\ u = [t EXCEPT !.step = "found"]
      BY <1>4, <2>1 DEF RunHandler, Handle, HandleFailedCall, HandlerFails, HandleBillEvent, HandleRepaymentFind,
         HandleRepaymentUpdate, HandleEnroll, HandleStatus, Finished
    <3>2. u.pos = t.pos
      BY <3>1 DEF IndexerTypeOK, Task
    <3> QED BY <1>3, <3>1, <3>2 DEF HandleRepaymentFind, SkipFailed, EventOf
  <2>2. CASE ~ RunHandler
    <3>1. ChainCall \/ Acknowledge => tasks' = tasks
      BY DEF ChainCall, BillCall, EnrollCall, StatusCall, Acknowledge
    <3>2. Deliver => \A v \in tasks' : v \in tasks \/ v.step = "start"
      BY DEF Deliver, Send, Started
    <3>3. (\E alive \in {FALSE, Overlap} : Resend(alive)) =>
            \A v \in tasks' : v \in tasks \/ v.step = "start"
      BY DEF Resend, Started
    <3> QED BY <1>4, <2>2, <3>1, <3>2, <3>3 DEF IndexerNext
  <2> QED BY <2>1, <2>2
<1> QED BY <1>2, <1>3, <1>4 DEF FoundRight, EventOf

-----------------------------------------------------------------------------
(* Nothing is invented.                                                    *)
WasApproved(m) ==
  \E i \in DOMAIN log : /\ log[i].type = "m_status" /\ log[i].subject = m
                        /\ log[i].new = "Approved" /\ log[i].ok
BillTrue(b, entry) ==
  /\ entry # "none" => Happened("bill_new", b)
  /\ entry = "PAID" => Happened("payment", b)
  /\ entry = "REPAID" => Happened("repayment", b)
  /\ entry = "LIQUIDATED" => Happened("liquidate", b)

LEMMA HappenedForGood ==
  ASSUME IndexerTypeOK, Grows
  PROVE  /\ \A type, b : Happened(type, b) => Happened(type, b)'
         /\ \A m : WasApproved(m) => WasApproved(m)'
<1>1. \A i \in DOMAIN log : i \in DOMAIN log' /\ log'[i] = log[i]
  BY GrowingLog DEF IndexerTypeOK
<1>2. \A type, b : Happened(type, b) => Happened(type, b)'
  BY <1>1 DEF Happened
<1>3. \A m : WasApproved(m) => WasApproved(m)'
  BY <1>1 DEF WasApproved
<1> QED BY <1>2, <1>3

(* What a handler writes: rows that exist, to what its event says.         *)
LEMMA HandlerWrites ==
  ASSUME IndexerTypeOK, FoundRight, NEW t \in tasks, Handle(t)
  PROVE  /\ \A b \in Bills :
              \/ parsedBill'[b] = parsedBill[b]
              \/ /\ parsedBill[b] = "none" /\ parsedBill'[b] = "CREATED"
                 /\ Happened("bill_new", b)
              \/ /\ parsedBill[b] # "none"
                 /\ \/ parsedBill'[b] = "PAID" /\ Happened("payment", b)
                    \/ parsedBill'[b] = "REPAID" /\ Happened("repayment", b)
                    \/ parsedBill'[b] = "LIQUIDATED" /\ Happened("liquidate", b)
         /\ \A m \in Shops :
              \/ parsedMerchant'[m] = parsedMerchant[m] \/ parsedMerchant'[m] = "inactive"
              \/ parsedMerchant'[m] = "active" /\ WasApproved(m)
<1> DEFINE e == log[t.pos]
<1>1. t.pos \in DOMAIN log
  BY DEF IndexerTypeOK
<1>2. e.ok => Happened(e.type, e.subject)
  BY <1>1 DEF Happened
<1>3. t.step = "found" => e.type = "repayment" /\ e.ok
  BY DEF FoundRight, EventOf
<1>4. ~ SkipFailed(t) => e.ok
  BY DEF SkipFailed, EventOf
<1> USE DEF IndexerTypeOK
<1>5. CASE HandleFailedCall(t) \/ HandlerFails(t) \/ HandleRepaymentFind(t)
  BY <1>5 DEF HandleFailedCall, HandlerFails, HandleRepaymentFind, tables
<1>6. CASE HandleBillEvent(t)
  BY <1>2, <1>4, <1>6 DEF HandleBillEvent, EventOf, SetBill, UpsertBill
<1>7. CASE HandleRepaymentUpdate(t)
  BY <1>2, <1>3, <1>7 DEF HandleRepaymentUpdate, EventOf, SetBill
<1>8. CASE HandleEnroll(t)
  BY <1>8 DEF HandleEnroll
<1>9. CASE HandleStatus(t)
  <2>1. e.ok /\ e.type = "m_status"
    BY <1>4, <1>9 DEF HandleStatus, EventOf
  <2>2. IsActive(e.new) => WasApproved(e.subject)
    BY <1>1, <2>1 DEF IsActive, WasApproved
  <2> QED BY <1>9, <2>2 DEF HandleStatus, EventOf
<1> QED BY <1>5, <1>6, <1>7, <1>8, <1>9 DEF Handle

LEMMA OnlyHandlersWrite ==
  ASSUME IndexerNext, ~ RunHandler
  PROVE  UNCHANGED tables
BY DEF IndexerNext, ChainCall, BillCall, EnrollCall, StatusCall, Deliver, Send,
   Acknowledge, Resend, tables

MirrorTyped == IndexerTypeOK /\ FoundRight

LEMMA MirrorTypedStarts == IndexerInit => MirrorTyped /\ NothingInvented
<1> SUFFICES ASSUME IndexerInit PROVE MirrorTyped /\ NothingInvented
  OBVIOUS
<1>1. log = <<>> /\ log \in Seq(Event) /\ Len(log) = 0
  BY DEF IndexerInit
<1> QED BY <1>1, IndexerAssumption
        DEF IndexerInit, MirrorTyped, IndexerTypeOK, FoundRight, NothingInvented

LEMMA MirrorTypedKept ==
  MirrorTyped /\ [IndexerNext]_indexerVars => MirrorTyped'
<1> SUFFICES ASSUME MirrorTyped, [IndexerNext]_indexerVars
             PROVE  MirrorTyped'
  OBVIOUS
<1>1. CASE IndexerNext
  BY <1>1, IndexerTyped, FoundStaysRight DEF MirrorTyped
<1>2. CASE UNCHANGED indexerVars
  BY <1>2 DEF MirrorTyped, IndexerTypeOK, FoundRight, EventOf, indexerVars, chainVars, feedVars, tables
<1> QED BY <1>1, <1>2

LEMMA NothingInventedKept ==
  MirrorTyped /\ NothingInvented /\ [IndexerNext]_indexerVars => NothingInvented'
<1> SUFFICES ASSUME MirrorTyped, NothingInvented, [IndexerNext]_indexerVars
             PROVE  NothingInvented'
  OBVIOUS
<1>1. /\ \A b \in Bills : BillTrue(b, parsedBill[b])
      /\ \A m \in Shops : parsedMerchant[m] = "active" => WasApproved(m)
  BY DEF NothingInvented, BillTrue, WasApproved
<1>2. Grows
  BY IndexerTyped DEF MirrorTyped, Grows, indexerVars, chainVars
<1>3. /\ \A b \in Bills : BillTrue(b, parsedBill'[b])
      /\ \A m \in Shops : parsedMerchant'[m] = "active" => WasApproved(m)
  <2>1. CASE UNCHANGED tables
    BY <1>1, <2>1 DEF tables
  <2>2. CASE RunHandler
    <3>1. PICK t \in tasks : Handle(t)
      BY <2>2 DEF RunHandler
    <3>2. \A b \in Bills : BillTrue(b, parsedBill'[b])
      BY <1>1, <3>1, HandlerWrites DEF BillTrue, MirrorTyped
    <3>3. \A m \in Shops : parsedMerchant'[m] = "active" => WasApproved(m)
      BY <1>1, <3>1, HandlerWrites DEF MirrorTyped
    <3> QED BY <3>2, <3>3
  <2> QED BY <2>1, <2>2, OnlyHandlersWrite DEF indexerVars, tables
<1>4. \A b \in Bills :
        /\ parsedBill'[b] # "none" => Happened("bill_new", b)'
        /\ parsedBill'[b] = "PAID" => Happened("payment", b)'
        /\ parsedBill'[b] = "REPAID" => Happened("repayment", b)'
        /\ parsedBill'[b] = "LIQUIDATED" => Happened("liquidate", b)'
  BY <1>2, <1>3, HappenedForGood DEF BillTrue, MirrorTyped
<1>5. \A m \in Shops : parsedMerchant'[m] = "active" => WasApproved(m)'
  BY <1>2, <1>3, HappenedForGood DEF MirrorTyped
<1> QED BY <1>4, <1>5 DEF NothingInvented, WasApproved

(* Whatever the batches, the order of the handlers and the requests sent   *)
(* again, each row of the tables stands for an event of a successful call  *)
(* (goldsky webhook, processEvent).                                        *)
THEOREM NothingEverInvented == IndexerSpec => []NothingInvented
BY MirrorTypedStarts, MirrorTypedKept, NothingInventedKept, PTL DEF IndexerSpec

(* A bill's row is written CREATED only where there was none: a bill_new   *)
(* that comes again changes nothing (upsert with an empty update).         *)
THEOREM CreationsNeverOverwrite == IndexerSpec => CreationNeverOverwrites
<1>1. MirrorTyped /\ [IndexerNext]_indexerVars =>
        [\A b \in Bills : parsedBill[b] # "none" /\ parsedBill'[b] = "CREATED" =>
           parsedBill[b] = "CREATED"]_indexerVars
  <2> SUFFICES ASSUME MirrorTyped, [IndexerNext]_indexerVars,
                      NEW b \in Bills, parsedBill[b] # "none", parsedBill'[b] = "CREATED"
               PROVE  parsedBill[b] = "CREATED"
    OBVIOUS
  <2>1. CASE RunHandler
    BY <2>1, HandlerWrites DEF RunHandler, MirrorTyped
  <2>2. CASE UNCHANGED tables
    BY <2>2 DEF tables
  <2> QED BY <2>1, <2>2, OnlyHandlersWrite DEF indexerVars
<1> QED BY MirrorTypedStarts, MirrorTypedKept, <1>1, PTL DEF IndexerSpec, CreationNeverOverwrites

-----------------------------------------------------------------------------
(* The chain as the log tells it.  Each successful event of a bill or a    *)
(* merchant is a place in the log; the last one up to place k says what    *)
(* its row should have been when k events had been published.              *)
Kinds == {"bill", "shop"}
Subjects(kind) == IF kind = "bill" THEN Bills ELSE Shops
KindOf(e) == IF e.type \in BillEvents THEN "bill" ELSE "shop"
Places(L, kind, x) == {i \in DOMAIN L : L[i].ok /\ L[i].subject = x /\ KindOf(L[i]) = kind}

Latest(places, k, i) ==
  i \in 0 .. k /\ (i # 0 => i \in places) /\ \A j \in places : j <= k => j <= i

Row(kind, x) == IF kind = "bill" THEN parsedBill[x] ELSE parsedMerchant[x]
ChainEntry(kind, x) == IF kind = "bill" THEN RowOf(chainBills[x]) ELSE ActiveOf(chainShops[x])

Written(e) ==
  CASE e.type = "bill_new" -> "CREATED"
    [] e.type = "payment" -> "PAID"
    [] e.type = "repayment" -> "REPAID"
    [] e.type = "liquidate" -> "LIQUIDATED"
    [] e.type = "m_enroll" -> "inactive"
    [] OTHER -> IF IsActive(e.new) THEN "active" ELSE "inactive"
EntryAt(L, i) == IF i = 0 THEN "none" ELSE Written(L[i])

MayFollow(e, entry) ==
  /\ e.type \in {"bill_new", "m_enroll"} => entry = "none"
  /\ e.type = "payment" => entry = "CREATED"
  /\ e.type \in {"repayment", "liquidate"} => entry = "PAID"
  /\ e.type = "m_status" => entry # "none"

(* The log leads to where the chain is, each event from where the one      *)
(* before it had led.                                                      *)
Legal(L, kind, x) ==
  \A k \in Places(L, kind, x) :
    \E j : Latest(Places(L, kind, x), k - 1, j) /\ MayFollow(L[k], EntryAt(L, j))
ChainAsLogged ==
  \A kind \in Kinds : \A x \in Subjects(kind) :
    /\ \E i : Latest(Places(log, kind, x), Len(log), i) /\ ChainEntry(kind, x) = EntryAt(log, i)
    /\ Legal(log, kind, x)

(* Where nothing was disturbed, at most one event is under way, and the    *)
(* row is as of that event, or as of the one before it while a handler of  *)
(* the current request has still to write it.                              *)
AsOf(kind, x) ==
  \E i :
    /\ Latest(Places(log, kind, x), sent, i)
    /\ \A t \in tasks : t.pos \in Places(log, kind, x) => t.pos = i
    /\ \A k \in Places(log, kind, x) : k > acked /\ k <= sent => k = i
    /\ \/ Row(kind, x) = EntryAt(log, i)
       \/ /\ i > acked
          /\ \E t \in tasks : t.request = request /\ t.pos = i
          /\ \E j : Latest(Places(log, kind, x), i - 1, j) /\ Row(kind, x) = EntryAt(log, j)
RowsAsOf == \A kind \in Kinds : \A x \in Subjects(kind) \ disturbed : AsOf(kind, x)

MirrorInv == MirrorTyped /\ ChainAsLogged /\ RowsAsOf

LEMMA LatestUnique ==
  ASSUME NEW S \in SUBSET Nat, NEW k \in Nat, NEW i, NEW j, Latest(S, k, i), Latest(S, k, j)
  PROVE  i = j
<1>1. i \in Nat /\ j \in Nat /\ i <= k /\ j <= k
  BY DEF Latest
<1>2. (i # 0 => i <= j) /\ (j # 0 => j <= i)
  BY <1>1 DEF Latest
<1> QED BY <1>1, <1>2

LEMMA PlacesInLog ==
  ASSUME NEW L \in Seq(Event), NEW kind, NEW x
  PROVE  /\ Len(L) \in Nat /\ DOMAIN L = 1 .. Len(L)
         /\ Places(L, kind, x) \in SUBSET Nat /\ Places(L, kind, x) \subseteq 1 .. Len(L)
<1>1. Len(L) \in Nat /\ DOMAIN L = 1 .. Len(L)
  OBVIOUS
<1> QED BY <1>1 DEF Places

(* What was so stays so in a longer log M.                                 *)
LEMMA LongerLog ==
  ASSUME NEW L \in Seq(Event), NEW M \in Seq(Event), Len(L) <= Len(M),
         \A i \in DOMAIN L : M[i] = L[i], NEW kind, NEW x
  PROVE  /\ \A i \in 1 .. Len(L) : i \in Places(M, kind, x) <=> i \in Places(L, kind, x)
         /\ \A k \in 0 .. Len(L) : \A i :
              Latest(Places(M, kind, x), k, i) <=> Latest(Places(L, kind, x), k, i)
         /\ \A i \in 0 .. Len(L) : EntryAt(M, i) = EntryAt(L, i)
<1>1. /\ Len(L) \in Nat /\ DOMAIN L = 1 .. Len(L) /\ Len(M) \in Nat /\ DOMAIN M = 1 .. Len(M)
      /\ Places(L, kind, x) \subseteq 1 .. Len(L) /\ Places(M, kind, x) \subseteq 1 .. Len(M)
  BY PlacesInLog
<1>2. \A i \in 1 .. Len(L) : i \in Places(M, kind, x) <=> i \in Places(L, kind, x)
  BY <1>1 DEF Places
<1>3. PICK P, Q : P = Places(L, kind, x) /\ Q = Places(M, kind, x)
  OBVIOUS
<1>4. ASSUME NEW k \in 0 .. Len(L), NEW i
      PROVE  Latest(Q, k, i) <=> Latest(P, k, i)
  <2>1. \A j : j \in P /\ j <= k <=> j \in Q /\ j <= k
    BY <1>1, <1>2, <1>3
  <2>2. i \in 0 .. k => i <= k
    OBVIOUS
  <2> QED BY <2>1, <2>2 DEF Latest
<1>5. \A i \in 0 .. Len(L) : EntryAt(M, i) = EntryAt(L, i)
  BY <1>1 DEF EntryAt
<1> QED BY <1>2, <1>3, <1>4, <1>5

(* A call's event is its own place in the log, and moved its bill or       *)
(* merchant from where the chain had it.                                   *)
LEMMA EventLogged ==
  ASSUME IndexerTypeOK, ChainAsLogged, NEW e \in Event, log' = Append(log, e),
         \A kind \in Kinds : \A x \in Subjects(kind) :
           IF e.ok /\ e.subject = x /\ KindOf(e) = kind
           THEN MayFollow(e, ChainEntry(kind, x)) /\ ChainEntry(kind, x)' = Written(e)
           ELSE ChainEntry(kind, x)' = ChainEntry(kind, x)
  PROVE  ChainAsLogged'
<1> SUFFICES ASSUME NEW kind \in Kinds, NEW x \in Subjects(kind)
             PROVE  /\ \E i : /\ Latest(Places(log', kind, x), Len(log'), i)
                              /\ ChainEntry(kind, x)' = EntryAt(log', i)
                    /\ Legal(log', kind, x)
  BY DEF ChainAsLogged
<1>1. PICK L, M, K : L = log /\ M = log' /\ K = Len(log) + 1
  OBVIOUS
<1>2. /\ L \in Seq(Event) /\ M \in Seq(Event) /\ Len(L) \in Nat /\ Len(M) = K /\ K = Len(L) + 1
      /\ \A i \in DOMAIN L : M[i] = L[i]
      /\ M[K] = e /\ DOMAIN M = 1 .. K /\ DOMAIN L = 1 .. Len(L) /\ Len(L) <= Len(M)
  BY <1>1 DEF IndexerTypeOK
<1>3. PICK P, Q : P = Places(L, kind, x) /\ Q = Places(M, kind, x)
  OBVIOUS
<1>4. /\ P \subseteq 1 .. Len(L) /\ Q \subseteq 1 .. K /\ \A i \in 1 .. Len(L) : i \in Q <=> i \in P
      /\ \A k \in 0 .. Len(L) : \A i : Latest(Q, k, i) <=> Latest(P, k, i)
      /\ \A i \in 0 .. Len(L) : EntryAt(M, i) = EntryAt(L, i)
  BY <1>2, <1>3, PlacesInLog, LongerLog
<1>5. K \in Q <=> e.ok /\ e.subject = x /\ KindOf(e) = kind
  BY <1>2, <1>3 DEF Places
<1>6. PICK i : Latest(P, Len(L), i) /\ ChainEntry(kind, x) = EntryAt(L, i)
  BY <1>1, <1>3 DEF ChainAsLogged
<1>7. i \in 0 .. Len(L) /\ Latest(Q, K - 1, i) /\ EntryAt(M, i) = EntryAt(L, i)
  BY <1>2, <1>4, <1>6 DEF Latest
<1>8. CASE K \in Q
  <2>1. Latest(Q, K, K) /\ EntryAt(M, K) = Written(e)
    BY <1>2, <1>4, <1>8 DEF Latest, EntryAt
  <2>2. MayFollow(e, EntryAt(M, i)) /\ ChainEntry(kind, x)' = Written(e)
    BY <1>5, <1>6, <1>7, <1>8
  <2>3. \A k \in Q : \E j : Latest(Q, k - 1, j) /\ MayFollow(M[k], EntryAt(M, j))
    <3>1. ASSUME NEW k \in P PROVE \E j : Latest(Q, k - 1, j) /\ MayFollow(M[k], EntryAt(M, j))
      <4>1. PICK j : Latest(P, k - 1, j) /\ MayFollow(L[k], EntryAt(L, j))
        BY <1>1, <1>3 DEF ChainAsLogged, Legal
      <4>2. k - 1 \in 0 .. Len(L) /\ j \in 0 .. Len(L) /\ M[k] = L[k]
        BY <1>2, <1>4, <4>1 DEF Latest
      <4> QED BY <1>4, <4>1, <4>2
    <3>2. \A k \in Q : k \in P \/ k = K
      BY <1>2, <1>4
    <3> QED BY <1>2, <1>7, <2>2, <3>1, <3>2
  <2> QED BY <1>1, <1>2, <1>3, <2>1, <2>2, <2>3 DEF Legal
<1>9. CASE K \notin Q
  <2>1. Latest(Q, K, i)
    <3>1. i \in 0 .. K /\ (i # 0 => i \in Q)
      BY <1>2, <1>7 DEF Latest
    <3>2. \A j \in Q : j <= K - 1
      BY <1>2, <1>4, <1>9
    <3> QED BY <1>7, <3>1, <3>2 DEF Latest
  <2>2. ChainEntry(kind, x)' = EntryAt(M, i)
    BY <1>5, <1>6, <1>7, <1>9
  <2>3. \A k \in Q : \E j : Latest(Q, k - 1, j) /\ MayFollow(M[k], EntryAt(M, j))
    <3>1. ASSUME NEW k \in P PROVE \E j : Latest(Q, k - 1, j) /\ MayFollow(M[k], EntryAt(M, j))
      <4>1. PICK j : Latest(P, k - 1, j) /\ MayFollow(L[k], EntryAt(L, j))
        BY <1>1, <1>3 DEF ChainAsLogged, Legal
      <4>2. k - 1 \in 0 .. Len(L) /\ j \in 0 .. Len(L) /\ M[k] = L[k]
        BY <1>2, <1>4, <4>1 DEF Latest
      <4> QED BY <1>4, <4>1, <4>2
    <3>2. \A k \in Q : k \in P
      BY <1>2, <1>4, <1>9
    <3> QED BY <3>1, <3>2
  <2> QED BY <1>1, <1>2, <1>3, <2>1, <2>2, <2>3 DEF Legal
<1> QED BY <1>8, <1>9

LEMMA ChainKept ==
  ASSUME IndexerTypeOK, ChainAsLogged, IndexerNext
  PROVE  ChainAsLogged'
<1> USE DEF IndexerTypeOK
<1>1. ASSUME NEW ok \in BOOLEAN, NEW b \in Bills, NEW call \in BillCalls, BillCall(b, call, ok)
      PROVE  ChainAsLogged'
  <2>1. PICK e : e = [type |-> call.event, subject |-> b, ok |-> ok]
    OBVIOUS
  <2>2. /\ e \in Event /\ e.subject = b /\ e.ok = ok /\ KindOf(e) = "bill"
        /\ MayFollow(e, RowOf(call.from)) /\ RowOf(call.to) = Written(e)
    BY <2>1 DEF Event, BillCalls, BillEvents, KindOf, MayFollow, Written, RowOf
  <2>3. /\ log' = Append(log, e) /\ chainBills[b] = call.from /\ chainShops' = chainShops
        /\ chainBills' = IF ok THEN [chainBills EXCEPT ![b] = call.to] ELSE chainBills
    BY <1>1, <2>1 DEF BillCall, Publish
  <2>4. ASSUME NEW x \in Bills
        PROVE  IF e.ok /\ e.subject = x
               THEN /\ MayFollow(e, ChainEntry("bill", x))
                    /\ ChainEntry("bill", x)' = Written(e)
               ELSE ChainEntry("bill", x)' = ChainEntry("bill", x)
    BY <2>2, <2>3 DEF ChainEntry
  <2>5. ASSUME NEW x \in Shops PROVE ChainEntry("shop", x)' = ChainEntry("shop", x)
    BY <2>3 DEF ChainEntry
  <2>6. \A kind \in Kinds : \A x \in Subjects(kind) :
          IF e.ok /\ e.subject = x /\ KindOf(e) = kind
          THEN MayFollow(e, ChainEntry(kind, x)) /\ ChainEntry(kind, x)' = Written(e)
          ELSE ChainEntry(kind, x)' = ChainEntry(kind, x)
    BY <2>2, <2>4, <2>5 DEF Kinds, Subjects
  <2> QED BY <2>2, <2>3, <2>6, EventLogged
<1>2. ASSUME NEW m \in Shops, NEW e \in Event, e.subject = m, KindOf(e) = "shop",
             log' = Append(log, e), chainBills' = chainBills,
             NEW new \in {"Pending"} \cup NewStatuses,
             chainShops' = IF e.ok THEN [chainShops EXCEPT ![m] = new] ELSE chainShops,
             MayFollow(e, ActiveOf(chainShops[m])), ActiveOf(new) = Written(e)
      PROVE  ChainAsLogged'
  <2>1. ASSUME NEW x \in Shops
        PROVE  IF e.ok /\ e.subject = x
               THEN /\ MayFollow(e, ChainEntry("shop", x))
                    /\ ChainEntry("shop", x)' = Written(e)
               ELSE ChainEntry("shop", x)' = ChainEntry("shop", x)
    BY <1>2 DEF ChainEntry
  <2>2. ASSUME NEW x \in Bills PROVE ChainEntry("bill", x)' = ChainEntry("bill", x)
    BY <1>2 DEF ChainEntry
  <2>3. \A kind \in Kinds : \A x \in Subjects(kind) :
          IF e.ok /\ e.subject = x /\ KindOf(e) = kind
          THEN MayFollow(e, ChainEntry(kind, x)) /\ ChainEntry(kind, x)' = Written(e)
          ELSE ChainEntry(kind, x)' = ChainEntry(kind, x)
    BY <1>2, <2>1, <2>2 DEF Kinds, Subjects
  <2> QED BY <1>2, <2>3, EventLogged
<1>3. ASSUME NEW ok \in BOOLEAN, NEW m \in Shops, EnrollCall(m, ok)
      PROVE  ChainAsLogged'
  <2>1. PICK e : e = [type |-> "m_enroll", subject |-> m, ok |-> ok]
    OBVIOUS
  <2>2. /\ e \in Event /\ e.subject = m /\ e.ok = ok /\ KindOf(e) = "shop"
        /\ MayFollow(e, "none") /\ ActiveOf("Pending") = Written(e) /\ ActiveOf("Absent") = "none"
    BY <2>1 DEF Event, BillEvents, KindOf, MayFollow, Written, ActiveOf
  <2>3. /\ log' = Append(log, e) /\ chainBills' = chainBills /\ chainShops[m] = "Absent"
        /\ chainShops' = IF ok THEN [chainShops EXCEPT ![m] = "Pending"] ELSE chainShops
    BY <1>3, <2>1 DEF EnrollCall, Publish
  <2> QED BY <1>2, <2>2, <2>3
<1>4. ASSUME NEW ok \in BOOLEAN, NEW m \in Shops, NEW new \in NewStatuses, StatusCall(m, new, ok)
      PROVE  ChainAsLogged'
  <2>1. PICK e : e = [type |-> "m_status", subject |-> m, new |-> new, ok |-> ok]
    OBVIOUS
  <2>2. /\ e \in Event /\ e.subject = m /\ e.ok = ok /\ KindOf(e) = "shop" /\ e.new = new
    BY <2>1 DEF Event, BillEvents, KindOf
  <2>3. ActiveOf(new) = Written(e)
    BY <2>1, IndexerAssumption DEF Written, ActiveOf, IsActive
  <2>4. /\ log' = Append(log, e) /\ chainBills' = chainBills /\ chainShops[m] # "Absent"
        /\ chainShops' = IF ok THEN [chainShops EXCEPT ![m] = new] ELSE chainShops
    BY <1>4, <2>1 DEF StatusCall, Publish
  <2>5. MayFollow(e, ActiveOf(chainShops[m]))
    BY <2>1, <2>4 DEF MayFollow, ActiveOf
  <2> QED BY <1>2, <2>2, <2>3, <2>4, <2>5
<1>5. CASE ~ ChainCall
  <2>1. log' = log /\ chainBills' = chainBills /\ chainShops' = chainShops
    BY <1>5 DEF IndexerNext, Deliver, Send, RunHandler, Handle, Acknowledge, Resend, chainVars
  <2> QED BY <2>1 DEF ChainAsLogged, ChainEntry
<1> QED BY <1>1, <1>3, <1>4, <1>5 DEF ChainCall

(* What a handler does to a row: nothing unless its event is the row's,    *)
(* and then it writes what the event says, or has found the row first.     *)
LEMMA HandlerEffect ==
  ASSUME MirrorTyped, NEW t \in tasks, Handle(t),
         NEW kind \in Kinds, NEW x \in Subjects(kind), x \notin disturbed'
  PROVE  /\ t.pos \notin Places(log, kind, x) => Row(kind, x)' = Row(kind, x)
         /\ (/\ t.pos \in Places(log, kind, x)
             /\ (MayFollow(log[t.pos], Row(kind, x)) \/ Row(kind, x) = Written(log[t.pos])))
              => \/ Row(kind, x)' = Written(log[t.pos])
                 \/ Row(kind, x)' = Row(kind, x) /\ [t EXCEPT !.step = "found"] \in tasks'
<1>1. PICK e : e = log[t.pos]
  OBVIOUS
<1>2. /\ t.pos \in DOMAIN log /\ e \in Event /\ EventOf(t) = e
      /\ (t.step = "found" => e.type = "repayment" /\ e.ok)
      /\ parsedBill \in [Bills -> {"none", "CREATED", "PAID", "REPAID", "LIQUIDATED"}]
      /\ parsedMerchant \in [Shops -> {"none", "inactive", "active"}]
  BY <1>1 DEF MirrorTyped, IndexerTypeOK, FoundRight, EventOf
<1>3. t.pos \in Places(log, kind, x) <=> e.ok /\ e.subject = x /\ KindOf(e) = kind
  BY <1>1, <1>2 DEF Places
<1>4. /\ KindOf(e) = "bill" <=> e.type \in BillEvents
      /\ KindOf(e) = "shop" <=> e.type \in {"m_enroll", "m_status"}
      /\ (kind = "bill" /\ x \in Bills) \/ (kind = "shop" /\ x \in Shops)
  BY <1>2 DEF KindOf, Event, BillEvents, Kinds, Subjects
<1> DEFINE May == MayFollow(e, Row(kind, x)) \/ Row(kind, x) = Written(e)
<1> SUFFICES /\ t.pos \notin Places(log, kind, x) => Row(kind, x)' = Row(kind, x)
             /\ t.pos \in Places(log, kind, x) /\ May
                  => \/ Row(kind, x)' = Written(e)
                     \/ Row(kind, x)' = Row(kind, x) /\ [t EXCEPT !.step = "found"] \in tasks'
  BY <1>1
<1>5. CASE HandleFailedCall(t) \/ HandlerFails(t)
  <2>1. parsedBill' = parsedBill /\ parsedMerchant' = parsedMerchant
    BY <1>5 DEF HandleFailedCall, HandlerFails, tables
  <2>2. t.pos \notin Places(log, kind, x)
    BY <1>2, <1>3, <1>5 DEF HandleFailedCall, HandlerFails, SkipFailed
  <2> QED BY <2>1, <2>2 DEF Row
<1>6. CASE HandleBillEvent(t)
  <2>1. /\ e.ok /\ parsedMerchant' = parsedMerchant
        /\ \/ e.type = "bill_new" /\ UpsertBill(e.subject)
           \/ e.type = "payment" /\ SetBill(e.subject, "PAID")
           \/ e.type = "liquidate" /\ SetBill(e.subject, "LIQUIDATED")
    BY <1>2, <1>6 DEF HandleBillEvent, SkipFailed
  <2>2. KindOf(e) = "bill"
    BY <1>4, <2>1 DEF BillEvents
  <2>3. CASE kind = "shop"
    BY <1>3, <2>1, <2>2, <2>3 DEF Row
  <2>4. CASE kind = "bill" /\ x # e.subject
    BY <1>2, <1>3, <1>4, <2>1, <2>4 DEF Row, UpsertBill, SetBill
  <2>5. CASE kind = "bill" /\ x = e.subject
    <3>1. May => parsedBill'[x] = Written(e)
      BY <1>2, <1>4, <2>1, <2>5 DEF Row, UpsertBill, SetBill, MayFollow, Written
    <3> QED BY <1>3, <2>1, <2>2, <2>5, <3>1 DEF Row
  <2> QED BY <1>4, <2>3, <2>4, <2>5
<1>7. CASE HandleRepaymentFind(t)
  <2>1. /\ parsedBill' = parsedBill /\ parsedMerchant' = parsedMerchant
        /\ e.ok /\ e.type = "repayment"
        /\ (parsedBill[e.subject] # "none" => [t EXCEPT !.step = "found"] \in tasks')
    BY <1>2, <1>7 DEF HandleRepaymentFind, tables, SkipFailed
  <2>2. Row(kind, x)' = Row(kind, x)
    BY <2>1 DEF Row
  <2>3. t.pos \in Places(log, kind, x) /\ May => parsedBill[e.subject] # "none"
    BY <1>3, <1>4, <2>1 DEF Row, MayFollow, Written, BillEvents
  <2> QED BY <2>1, <2>2, <2>3
<1>8. CASE HandleRepaymentUpdate(t)
  <2>1. /\ e.ok /\ e.type = "repayment" /\ parsedMerchant' = parsedMerchant
        /\ SetBill(e.subject, "REPAID")
    BY <1>2, <1>8 DEF HandleRepaymentUpdate
  <2>2. KindOf(e) = "bill"
    BY <1>4, <2>1 DEF BillEvents
  <2>3. CASE kind = "shop"
    BY <1>3, <2>1, <2>2, <2>3 DEF Row
  <2>4. CASE kind = "bill" /\ x # e.subject
    BY <1>2, <1>3, <1>4, <2>1, <2>4 DEF Row, SetBill
  <2>5. CASE kind = "bill" /\ x = e.subject
    <3>1. May => parsedBill'[x] = Written(e)
      BY <1>2, <1>4, <2>1, <2>5 DEF Row, SetBill, MayFollow, Written
    <3> QED BY <1>3, <2>1, <2>2, <2>5, <3>1 DEF Row
  <2> QED BY <1>4, <2>3, <2>4, <2>5
<1>9. CASE HandleEnroll(t) \/ HandleStatus(t)
  <2>1. /\ e.ok /\ e.type \in {"m_enroll", "m_status"} /\ parsedBill' = parsedBill
        /\ e.type = "m_enroll" =>
             parsedMerchant' = IF parsedMerchant[e.subject] = "none"
                               THEN [parsedMerchant EXCEPT ![e.subject] = "inactive"]
                               ELSE parsedMerchant
        /\ e.type = "m_status" =>
             parsedMerchant' =
               IF parsedMerchant[e.subject] = "none" THEN parsedMerchant
               ELSE [parsedMerchant EXCEPT ![e.subject] =
                       IF IsActive(e.new) THEN "active" ELSE "inactive"]
    BY <1>2, <1>9 DEF HandleEnroll, HandleStatus, SkipFailed
  <2>2. KindOf(e) = "shop"
    BY <1>4, <2>1
  <2>3. CASE kind = "bill"
    BY <1>3, <2>1, <2>2, <2>3 DEF Row
  <2>4. CASE kind = "shop" /\ x # e.subject
    BY <1>2, <1>3, <1>4, <2>1, <2>4 DEF Row
  <2>5. CASE kind = "shop" /\ x = e.subject
    <3>1. May => parsedMerchant'[x] = Written(e)
      BY <1>2, <1>4, <2>1, <2>5 DEF Row, MayFollow, Written
    <3> QED BY <1>3, <2>1, <2>2, <2>5, <3>1 DEF Row
  <2> QED BY <1>4, <2>3, <2>4, <2>5
<1> QED BY <1>5, <1>6, <1>7, <1>8, <1>9 DEF Handle

-----------------------------------------------------------------------------
(* The rows stay as of their places, action by action.                     *)
LEMMA PlacesTyped ==
  ASSUME IndexerTypeOK, NEW kind \in Kinds, NEW x \in Subjects(kind)
  PROVE  /\ acked \in Nat /\ sent \in Nat /\ acked <= sent /\ sent <= Len(log) /\ Len(log) \in Nat
         /\ Places(log, kind, x) \in SUBSET Nat /\ Places(log, kind, x) \subseteq 1 .. Len(log)
         /\ \A t \in tasks : t.pos \in 1 .. Len(log)
         /\ x \in Bills \cup Shops
<1>1. Len(log) \in Nat /\ DOMAIN log = 1 .. Len(log)
  BY DEF IndexerTypeOK
<1>2. x \in Bills \cup Shops
  BY DEF Kinds, Subjects
<1> QED BY <1>1, <1>2, PlacesInLog DEF IndexerTypeOK

LEMMA RowsAfterCall ==
  ASSUME IndexerTypeOK, RowsAsOf, ChainCall PROVE RowsAsOf'
<1> SUFFICES ASSUME NEW kind \in Kinds, NEW x \in Subjects(kind) \ disturbed'
             PROVE  AsOf(kind, x)'
  BY DEF RowsAsOf
<1>1. UNCHANGED <<feedVars, tasks, tables, disturbed>>
  BY DEF ChainCall, BillCall, EnrollCall, StatusCall
<1>2. /\ acked' = acked /\ sent' = sent /\ request' = request /\ tasks' = tasks
      /\ disturbed' = disturbed /\ Row(kind, x)' = Row(kind, x)
  BY <1>1 DEF feedVars, tables, Row
<1>3. /\ log \in Seq(Event) /\ log' \in Seq(Event) /\ Len(log) <= Len(log')
      /\ \A i \in DOMAIN log : log'[i] = log[i]
  BY IndexerTyped, GrowingLog DEF IndexerTypeOK, IndexerNext
<1>4. PICK L, M : L = log /\ M = log'
  OBVIOUS
<1>5. PICK P, Q : P = Places(L, kind, x) /\ Q = Places(M, kind, x)
  OBVIOUS
<1>6. /\ \A i \in 1 .. Len(L) : i \in Q <=> i \in P
      /\ \A k \in 0 .. Len(L) : \A i : Latest(Q, k, i) <=> Latest(P, k, i)
      /\ \A i \in 0 .. Len(L) : EntryAt(M, i) = EntryAt(L, i)
  BY <1>3, <1>4, <1>5, LongerLog
<1>7. /\ acked \in Nat /\ sent \in Nat /\ acked <= sent /\ sent <= Len(L) /\ Len(L) \in Nat
      /\ P \subseteq 1 .. Len(L) /\ \A t \in tasks : t.pos \in 1 .. Len(L)
  BY <1>2, <1>4, <1>5, PlacesTyped
<1>8. Q \subseteq Nat
  BY <1>3, <1>4, <1>5, PlacesInLog
<1>9. PICK i :
        /\ Latest(P, sent, i)
        /\ \A t \in tasks : t.pos \in P => t.pos = i
        /\ \A k \in P : k > acked /\ k <= sent => k = i
        /\ \/ Row(kind, x) = EntryAt(L, i)
           \/ /\ i > acked
              /\ \E t \in tasks : t.request = request /\ t.pos = i
              /\ \E j : Latest(P, i - 1, j) /\ Row(kind, x) = EntryAt(L, j)
  BY <1>2, <1>4, <1>5 DEF RowsAsOf, AsOf
<1>10. i \in 0 .. sent /\ i \in 0 .. Len(L)
  BY <1>7, <1>9 DEF Latest
<1>11. /\ Latest(Q, sent, i)
       /\ \A t \in tasks : t.pos \in Q => t.pos = i
       /\ \A k \in Q : k > acked /\ k <= sent => k = i
  <2>1. sent \in 0 .. Len(L)
    BY <1>7
  <2>2. \A k \in Q : k > acked /\ k <= sent => k \in 1 .. Len(L)
    BY <1>7, <1>8
  <2> QED BY <1>6, <1>7, <1>9, <2>1, <2>2
<1>12. \/ Row(kind, x) = EntryAt(M, i)
       \/ /\ i > acked
          /\ \E t \in tasks : t.request = request /\ t.pos = i
          /\ \E j : Latest(Q, i - 1, j) /\ Row(kind, x) = EntryAt(M, j)
  <2>1. ASSUME i > acked, NEW j, Latest(P, i - 1, j)
        PROVE  Latest(Q, i - 1, j) /\ EntryAt(M, j) = EntryAt(L, j)
    <3>1. i - 1 \in 0 .. Len(L) /\ j \in 0 .. Len(L)
      BY <1>7, <1>10, <2>1 DEF Latest
    <3> QED BY <1>6, <2>1, <3>1
  <2> QED BY <1>6, <1>9, <1>10, <2>1
<1> QED BY <1>2, <1>4, <1>5, <1>11, <1>12 DEF AsOf

LEMMA RowsAfterSend ==
  ASSUME IndexerTypeOK, RowsAsOf, Deliver PROVE RowsAsOf'
<1> SUFFICES ASSUME NEW kind \in Kinds, NEW x \in Subjects(kind) \ disturbed'
             PROVE  AsOf(kind, x)'
  BY DEF RowsAsOf
<1>1. PICK n \in 1 .. MaxBatch : Send(n)
  BY DEF Deliver
<1>2. PICK r, s : r = request' /\ s = sent'
  OBVIOUS
<1>3. /\ sent = acked /\ n \in Nat /\ s = sent + n /\ s <= Len(log) /\ acked' = acked
      /\ tasks' = tasks \cup Started(r, acked + 1, s) /\ log' = log
      /\ x \notin disturbed /\ x \notin Racing(tasks') /\ Row(kind, x)' = Row(kind, x)
  BY <1>1, <1>2, IndexerAssumption DEF Send, chainVars, tables, Row
<1>4. PICK P : P = Places(log, kind, x)
  OBVIOUS
<1>5. /\ acked \in Nat /\ Len(log) \in Nat /\ P \in SUBSET Nat /\ P \subseteq 1 .. Len(log)
      /\ x \in Bills \cup Shops
  BY <1>4, PlacesTyped
<1>6. PICK i :
        /\ Latest(P, sent, i)
        /\ \A t \in tasks : t.pos \in P => t.pos = i
        /\ \/ Row(kind, x) = EntryAt(log, i)
           \/ i > acked
  BY <1>3, <1>4 DEF RowsAsOf, AsOf
<1>7. i \in 0 .. acked /\ Row(kind, x) = EntryAt(log, i)
  BY <1>3, <1>5, <1>6 DEF Latest
<1>8. \A k \in acked + 1 .. s : \E t \in tasks' : t.pos = k /\ t.request = r
  <2>1. \A k \in acked + 1 .. s : [request |-> r, pos |-> k, step |-> "start"] \in tasks'
    BY <1>3 DEF Started
  <2> QED BY <2>1
<1>9. \A t \in tasks' : t \in tasks \/ t.pos \in acked + 1 .. s
  BY <1>3 DEF Started
<1>10. \A t, u \in tasks' : t.pos \in P /\ u.pos \in P => t.pos = u.pos
  <2>1. ASSUME NEW t \in tasks', t.pos \in P PROVE t \in HandlersOf(x, tasks')
    BY <1>3, <1>4, <2>1 DEF HandlersOf, EventOf, Places
  <2>2. \A t, u \in HandlersOf(x, tasks') : t.pos = u.pos
    BY <1>3, <1>5 DEF Racing, HandlersOf, EventOf
  <2> QED BY <2>1, <2>2
<1>11. CASE \E p \in P : p \in acked + 1 .. s
  <2>1. PICK p \in P : p \in acked + 1 .. s
    BY <1>11
  <2>2. PICK t \in tasks' : t.pos = p /\ t.request = r
    BY <1>8, <2>1
  <2>3. \A u \in tasks' : u.pos \in P => u.pos = p
    BY <1>10, <2>1, <2>2
  <2>4. \A k \in P : k > acked /\ k <= s => k = p
    <3>1. ASSUME NEW k \in P, k > acked, k <= s PROVE k = p
      <4>1. k \in acked + 1 .. s
        BY <1>3, <1>5, <3>1
      <4> QED BY <1>8, <2>3, <4>1
    <3> QED BY <3>1
  <2>5. p \in 0 .. s /\ p > acked /\ p - 1 \in Nat /\ s \in Nat
    BY <1>3, <1>5, <2>1
  <2>6. Latest(P, s, p)
    BY <1>5, <2>1, <2>4, <2>5 DEF Latest
  <2>7. Latest(P, p - 1, i)
    <3>1. i \in 0 .. p - 1
      BY <1>5, <1>7, <2>5
    <3>2. \A j \in P : j <= p - 1 => j <= acked
      BY <1>5, <2>1, <2>4, <2>5
    <3> QED BY <1>3, <1>6, <3>1, <3>2 DEF Latest
  <2> QED BY <1>2, <1>3, <1>4, <1>7, <2>2, <2>3, <2>4, <2>5, <2>6, <2>7 DEF AsOf
<1>12. CASE ~ \E p \in P : p \in acked + 1 .. s
  <2>1. \A k \in P : k <= s => k <= acked
    BY <1>3, <1>5, <1>12
  <2>2. s \in Nat /\ i \in 0 .. s
    BY <1>3, <1>5, <1>7
  <2>3. Latest(P, s, i)
    BY <1>3, <1>6, <2>1, <2>2 DEF Latest
  <2>4. \A t \in tasks' : t.pos \in P => t.pos = i
    BY <1>6, <1>9, <1>12
  <2>5. \A k \in P : k > acked /\ k <= s => k = i
    BY <1>5, <2>1
  <2> QED BY <1>2, <1>3, <1>4, <1>7, <2>3, <2>4, <2>5 DEF AsOf
<1> QED BY <1>11, <1>12

LEMMA RowsAfterAcknowledge ==
  ASSUME IndexerTypeOK, RowsAsOf, Acknowledge PROVE RowsAsOf'
<1> SUFFICES ASSUME NEW kind \in Kinds, NEW x \in Subjects(kind) \ disturbed'
             PROVE  AsOf(kind, x)'
  BY DEF RowsAsOf
<1>1. /\ acked' = sent /\ sent' = sent /\ request' = request /\ tasks' = tasks /\ log' = log
      /\ disturbed' = disturbed /\ Row(kind, x)' = Row(kind, x)
      /\ \A t \in tasks : t.request # request
  BY DEF Acknowledge, chainVars, tables, Row
<1>2. PICK P : P = Places(log, kind, x)
  OBVIOUS
<1>3. sent \in Nat /\ P \in SUBSET Nat
  BY <1>2, PlacesTyped
<1>4. PICK i :
        /\ Latest(P, sent, i)
        /\ \A t \in tasks : t.pos \in P => t.pos = i
        /\ Row(kind, x) = EntryAt(log, i)
  BY <1>1, <1>2 DEF RowsAsOf, AsOf
<1>5. \A k \in P : k > sent /\ k <= sent => k = i
  BY <1>3
<1> QED BY <1>1, <1>2, <1>4, <1>5 DEF AsOf

LEMMA RowsAfterResend ==
  ASSUME IndexerTypeOK, RowsAsOf, NEW alive, Resend(alive) PROVE RowsAsOf'
<1> SUFFICES ASSUME NEW kind \in Kinds, NEW x \in Subjects(kind) \ disturbed'
             PROVE  AsOf(kind, x)'
  BY DEF RowsAsOf
<1>1. PICK r : r = request'
  OBVIOUS
<1>2. /\ acked' = acked /\ sent' = sent /\ log' = log
      /\ disturbed' = disturbed /\ Row(kind, x)' = Row(kind, x)
      /\ \A t \in tasks' : t \in tasks \/ t \in Started(r, acked + 1, sent)
      /\ \A t \in Started(r, acked + 1, sent) : t \in tasks'
  BY <1>1 DEF Resend, chainVars, tables, Row
<1>3. PICK P : P = Places(log, kind, x)
  OBVIOUS
<1>4. acked \in Nat /\ sent \in Nat /\ acked <= sent /\ P \in SUBSET Nat
  BY <1>3, PlacesTyped
<1>5. PICK i :
        /\ Latest(P, sent, i)
        /\ \A t \in tasks : t.pos \in P => t.pos = i
        /\ \A k \in P : k > acked /\ k <= sent => k = i
        /\ \/ Row(kind, x) = EntryAt(log, i)
           \/ /\ i > acked
              /\ \E j : Latest(P, i - 1, j) /\ Row(kind, x) = EntryAt(log, j)
  BY <1>2, <1>3 DEF RowsAsOf, AsOf
<1>6. \A t \in tasks' : t.pos \in P => t.pos = i
  <2>1. ASSUME NEW t \in Started(r, acked + 1, sent), t.pos \in P PROVE t.pos = i
    <3>1. t.pos \in acked + 1 .. sent
      BY DEF Started
    <3>2. t.pos > acked /\ t.pos <= sent
      BY <1>4, <3>1
    <3> QED BY <1>5, <2>1, <3>2
  <2> QED BY <1>2, <1>5, <2>1
<1>7. i > acked => \E t \in tasks' : t.request = r /\ t.pos = i
  <2>1. i \in 0 .. sent
    BY <1>5 DEF Latest
  <2>2. i > acked => i \in acked + 1 .. sent
    BY <1>4, <2>1
  <2>3. \A k \in acked + 1 .. sent : [request |-> r, pos |-> k, step |-> "start"] \in tasks'
    BY <1>2 DEF Started
  <2> QED BY <2>2, <2>3
<1> QED BY <1>1, <1>2, <1>3, <1>5, <1>6, <1>7 DEF AsOf

LEMMA RowsAfterHandler ==
  ASSUME MirrorInv, RunHandler
  PROVE  /\ RowsAsOf'
         /\ \A kind \in Kinds : \A x \in Subjects(kind) \ disturbed' :
              \/ Row(kind, x)' = Row(kind, x)
              \/ \E k \in Places(log, kind, x) :
                   MayFollow(log[k], Row(kind, x)) /\ Row(kind, x)' = Written(log[k])
<1> SUFFICES ASSUME NEW kind \in Kinds, NEW x \in Subjects(kind), x \notin disturbed'
             PROVE  /\ AsOf(kind, x)'
                    /\ \/ Row(kind, x)' = Row(kind, x)
                       \/ \E k \in Places(log, kind, x) :
                            MayFollow(log[k], Row(kind, x)) /\ Row(kind, x)' = Written(log[k])
  BY DEF RowsAsOf
<1> USE DEF MirrorInv, MirrorTyped
<1>1. PICK t \in tasks : Handle(t)
  BY DEF RunHandler
<1>2. /\ acked' = acked /\ sent' = sent /\ request' = request /\ log' = log
      /\ x \notin disturbed
  BY <1>1 DEF Handle, HandleFailedCall, HandlerFails, HandleBillEvent, HandleRepaymentFind,
     HandleRepaymentUpdate, HandleEnroll, HandleStatus, chainVars, feedVars
<1>3. PICK P : P = Places(log, kind, x)
  OBVIOUS
<1>4. acked \in Nat /\ sent \in Nat /\ P \in SUBSET Nat
  BY <1>3, PlacesTyped
<1>5. PICK i :
        /\ Latest(P, sent, i)
        /\ \A u \in tasks : u.pos \in P => u.pos = i
        /\ \A k \in P : k > acked /\ k <= sent => k = i
        /\ \/ Row(kind, x) = EntryAt(log, i)
           \/ /\ i > acked
              /\ \E u \in tasks : u.request = request /\ u.pos = i
              /\ \E j : Latest(P, i - 1, j) /\ Row(kind, x) = EntryAt(log, j)
  BY <1>2, <1>3 DEF RowsAsOf, AsOf
<1>6. /\ \A u \in tasks' : u \in tasks \/ u = [t EXCEPT !.step = "found"]
      /\ \A u \in tasks : u # t => u \in tasks'
  BY <1>1 DEF Handle, HandleFailedCall, HandlerFails, HandleBillEvent, HandleRepaymentFind,
     HandleRepaymentUpdate, HandleEnroll, HandleStatus, Finished
<1>7. [t EXCEPT !.step = "found"].pos = t.pos /\ [t EXCEPT !.step = "found"].request = t.request
  BY <1>1 DEF IndexerTypeOK, Task
<1>8. \A u \in tasks' : u.pos \in P => u.pos = i
  BY <1>1, <1>5, <1>6, <1>7
<1>9. CASE t.pos \notin P
  <2>1. Row(kind, x)' = Row(kind, x)
    BY <1>1, <1>3, <1>9, HandlerEffect
  <2>2. i > acked => i \in P
    BY <1>4, <1>5 DEF Latest
  <2>3. i > acked => \A u \in tasks : u.pos = i => u \in tasks'
    BY <1>6, <1>9, <2>2
  <2> QED BY <1>2, <1>3, <1>5, <1>8, <2>1, <2>3 DEF AsOf
<1>10. CASE t.pos \in P
  <2>1. t.pos = i /\ EntryAt(log, i) = Written(log[i])
    BY <1>1, <1>4, <1>5, <1>10 DEF EntryAt, Places, Latest, IndexerTypeOK
  <2>2. MayFollow(log[i], Row(kind, x)) \/ Row(kind, x) = Written(log[i])
    <3>1. CASE Row(kind, x) = EntryAt(log, i)
      BY <2>1, <3>1
    <3>2. CASE \E j : Latest(P, i - 1, j) /\ Row(kind, x) = EntryAt(log, j)
      <4>1. PICK j : Latest(P, i - 1, j) /\ Row(kind, x) = EntryAt(log, j)
        BY <3>2
      <4>2. PICK k : Latest(P, i - 1, k) /\ MayFollow(log[i], EntryAt(log, k))
        BY <1>3, <1>10, <2>1 DEF ChainAsLogged, Legal
      <4>3. i \in Nat
        BY <1>4, <1>10, <2>1
      <4>4. i - 1 \in Nat
        BY <4>1, <4>3 DEF Latest
      <4>5. j = k
        BY <1>4, <4>1, <4>2, <4>4, LatestUnique
      <4> QED BY <4>1, <4>2, <4>5
    <3> QED BY <1>5, <3>1, <3>2
  <2>3. \/ Row(kind, x)' = Written(log[i])
        \/ Row(kind, x)' = Row(kind, x) /\ [t EXCEPT !.step = "found"] \in tasks'
    BY <1>1, <1>3, <1>10, <2>1, <2>2, HandlerEffect
  <2>4. CASE Row(kind, x)' = Written(log[i])
    BY <1>2, <1>3, <1>5, <1>8, <1>10, <2>1, <2>2, <2>4 DEF AsOf
  <2>5. CASE Row(kind, x)' = Row(kind, x) /\ [t EXCEPT !.step = "found"] \in tasks'
    <3>1. (\E u \in tasks : u.request = request /\ u.pos = i)
             => \E u \in tasks' : u.request = request /\ u.pos = i
      BY <1>6, <1>7, <2>5
    <3> QED BY <1>2, <1>3, <1>5, <1>8, <2>5, <3>1 DEF AsOf
  <2> QED BY <2>3, <2>4, <2>5
<1> QED BY <1>9, <1>10

LEMMA MirrorStarts == IndexerInit => MirrorInv
<1> SUFFICES ASSUME IndexerInit PROVE MirrorInv
  OBVIOUS
<1>1. /\ log = <<>> /\ log \in Seq(Event) /\ Len(log) = 0 /\ DOMAIN log = {}
      /\ acked = 0 /\ sent = 0 /\ tasks = {}
  BY DEF IndexerInit
<1>2. ASSUME NEW kind \in Kinds, NEW x \in Subjects(kind)
      PROVE  /\ Places(log, kind, x) = {} /\ Latest(Places(log, kind, x), 0, 0)
             /\ ChainEntry(kind, x) = EntryAt(log, 0) /\ Row(kind, x) = EntryAt(log, 0)
  <2>1. Places(log, kind, x) = {}
    BY <1>1 DEF Places
  <2>2. Latest(Places(log, kind, x), 0, 0)
    BY <2>1 DEF Latest
  <2>3. ChainEntry(kind, x) = EntryAt(log, 0) /\ Row(kind, x) = EntryAt(log, 0)
    BY DEF IndexerInit, ChainEntry, Row, EntryAt, RowOf, ActiveOf, Kinds, Subjects
  <2> QED BY <2>1, <2>2, <2>3
<1>3. ChainAsLogged
  BY <1>1, <1>2 DEF ChainAsLogged, Legal
<1>4. RowsAsOf
  BY <1>1, <1>2 DEF RowsAsOf, AsOf
<1> QED BY <1>3, <1>4, MirrorTypedStarts DEF MirrorInv

LEMMA MirrorKept == MirrorInv /\ [IndexerNext]_indexerVars => MirrorInv'
<1> SUFFICES ASSUME MirrorInv, [IndexerNext]_indexerVars
             PROVE  MirrorInv'
  OBVIOUS
<1>1. IndexerTypeOK /\ MirrorTyped'
  BY MirrorTypedKept DEF MirrorInv, MirrorTyped
<1>2. CASE IndexerNext
  <2>1. ChainAsLogged'
    BY <1>1, <1>2, ChainKept DEF MirrorInv
  <2>2. RowsAsOf'
    BY <1>1, <1>2, RowsAfterCall, RowsAfterSend, RowsAfterAcknowledge, RowsAfterResend,
       RowsAfterHandler DEF IndexerNext, MirrorInv
  <2> QED BY <1>1, <2>1, <2>2 DEF MirrorInv
<1>3. CASE UNCHANGED indexerVars
  <2>1. /\ chainBills' = chainBills /\ chainShops' = chainShops /\ log' = log
        /\ acked' = acked /\ sent' = sent /\ request' = request /\ tasks' = tasks
        /\ parsedBill' = parsedBill /\ parsedMerchant' = parsedMerchant
        /\ disturbed' = disturbed
    BY <1>3 DEF indexerVars, chainVars, feedVars, tables
  <2>2. ChainAsLogged'
    BY <2>1 DEF MirrorInv, ChainAsLogged, ChainEntry
  <2>3. RowsAsOf'
    <3>1. ASSUME NEW kind \in Kinds, NEW x \in Subjects(kind) \ disturbed
          PROVE  AsOf(kind, x)'
      <4>1. AsOf(kind, x)
        BY DEF MirrorInv, RowsAsOf
      <4>2. Row(kind, x)' = Row(kind, x)
        BY <2>1 DEF Row
      <4> QED BY <2>1, <4>1, <4>2 DEF AsOf
    <3> QED BY <2>1, <3>1 DEF RowsAsOf
  <2> QED BY <1>1, <2>2, <2>3 DEF MirrorInv
<1> QED BY <1>2, <1>3

(* Where no event was lost to the database and none raced another, the     *)
(* rows agree with the chain once everything is delivered, with any        *)
(* batches, requests killed or sent again, and handlers that outlive them  *)
(* (goldsky webhook, POST and processEvent).                               *)
THEOREM MirrorsAlwaysUndisturbed == IndexerSpec => []MirrorsUndisturbed
<1>1. MirrorInv => MirrorsUndisturbed
  <2> SUFFICES ASSUME MirrorInv, acked = Len(log) PROVE MirroredUndisturbed
    BY DEF MirrorsUndisturbed
  <2>1. ASSUME NEW kind \in Kinds, NEW x \in Subjects(kind) \ disturbed
        PROVE  Row(kind, x) = ChainEntry(kind, x)
    <3>1. PICK P : P = Places(log, kind, x)
      OBVIOUS
    <3>2. P \in SUBSET Nat /\ sent = Len(log) /\ Len(log) \in Nat
      BY <3>1, PlacesTyped DEF MirrorInv, MirrorTyped
    <3>3. PICK i : Latest(P, sent, i) /\ (Row(kind, x) = EntryAt(log, i) \/ i > acked)
      BY <3>1 DEF MirrorInv, RowsAsOf, AsOf
    <3>4. Row(kind, x) = EntryAt(log, i)
      BY <3>2, <3>3 DEF Latest
    <3>5. PICK j : Latest(P, Len(log), j) /\ ChainEntry(kind, x) = EntryAt(log, j)
      BY <3>1 DEF MirrorInv, ChainAsLogged
    <3>6. i = j
      BY <3>2, <3>3, <3>5, LatestUnique
    <3> QED BY <3>4, <3>5, <3>6
  <2>2. \A b \in Bills \ disturbed : parsedBill[b] = RowOf(chainBills[b])
    BY <2>1 DEF Kinds, Subjects, Row, ChainEntry
  <2>3. \A m \in Shops \ disturbed : parsedMerchant[m] = ActiveOf(chainShops[m])
    BY <2>1 DEF Kinds, Subjects, Row, ChainEntry
  <2> QED BY <2>2, <2>3 DEF MirroredUndisturbed
<1> QED BY MirrorStarts, MirrorKept, <1>1, PTL DEF IndexerSpec

(* The row of such a bill takes the bill's calls one at a time: no event   *)
(* that comes again, late or for a failed call makes it jump or go back.   *)
THEOREM StatusesAlwaysInOrder == IndexerSpec => StatusesInOrder
<1>1. MirrorInv /\ [IndexerNext]_indexerVars =>
        [\A b \in Bills \ disturbed' :
           parsedBill'[b] = parsedBill[b]
             \/ \E call \in BillCalls : /\ parsedBill[b] = RowOf(call.from)
                                        /\ parsedBill'[b] = RowOf(call.to)]_indexerVars
  <2> SUFFICES ASSUME MirrorInv, [IndexerNext]_indexerVars, NEW b \in Bills \ disturbed',
                      parsedBill'[b] # parsedBill[b]
               PROVE  \E call \in BillCalls : /\ parsedBill[b] = RowOf(call.from)
                                              /\ parsedBill'[b] = RowOf(call.to)
    OBVIOUS
  <2>1. RunHandler
    BY OnlyHandlersWrite DEF indexerVars, tables
  <2>2. "bill" \in Kinds /\ b \in Subjects("bill") \ disturbed'
    BY DEF Kinds, Subjects
  <2>3. Row("bill", b) = parsedBill[b] /\ Row("bill", b)' = parsedBill'[b]
    BY DEF Row
  <2>4. PICK k \in Places(log, "bill", b) :
          MayFollow(log[k], parsedBill[b]) /\ parsedBill'[b] = Written(log[k])
    BY <2>1, <2>2, <2>3, RowsAfterHandler
  <2>5. PICK e : e = log[k]
    OBVIOUS
  <2>6. e.type \in BillEvents
    BY <2>4, <2>5 DEF Places, KindOf
  <2>7. PICK call \in BillCalls : call.event = e.type
    BY <2>6 DEF BillEvents, BillCalls
  <2>8. parsedBill[b] = RowOf(call.from) /\ parsedBill'[b] = RowOf(call.to)
    BY <2>4, <2>5, <2>7 DEF BillCalls, MayFollow, Written, RowOf
  <2> QED BY <2>8
<1> QED BY MirrorStarts, MirrorKept, <1>1, PTL DEF IndexerSpec, StatusesInOrder

-----------------------------------------------------------------------------
(* Sums over the bills.  One bill that enters or leaves a set changes what *)
(* the set's bills lend by its own principal.                              *)
Part(bills, amount) == [b \in Loans |-> IF b \in bills THEN amount[b] ELSE 0]

LEMMA PrincipalNat ==
  ASSUME NEW A
  PROVE  /\ Part(A, Principal) \in [Loans -> Nat]
         /\ PrincipalOf(A) = SumFunction(Part(A, Principal)) /\ PrincipalOf(A) \in Nat
<1>1. Part(A, Principal) \in [Loans -> Nat]
  BY StatsAssumption DEF Part
<1>2. PrincipalOf(A) = SumFunction(Part(A, Principal))
  BY DEF PrincipalOf, Among, Part
<1> QED BY <1>1, <1>2, StatsAssumption, SumCoversEach

LEMMA PrincipalMoves ==
  ASSUME NEW A, NEW B, NEW b \in Loans, \A x \in Loans \ {b} : x \in A <=> x \in B
  PROVE  PrincipalOf(B) = PrincipalOf(A) - (IF b \in A THEN Principal[b] ELSE 0)
                                         + (IF b \in B THEN Principal[b] ELSE 0)
<1>1. /\ Part(A, Principal) \in [Loans -> Int] /\ Part(B, Principal) \in [Loans -> Int]
      /\ PrincipalOf(A) = SumFunction(Part(A, Principal))
      /\ PrincipalOf(B) = SumFunction(Part(B, Principal))
  BY PrincipalNat
<1>2. \A x \in Loans \ {b} : Part(B, Principal)[x] = Part(A, Principal)[x]
  BY DEF Part
<1>3. SumFunction(Part(B, Principal)) =
        SumFunction(Part(A, Principal)) - Part(A, Principal)[b] + Part(B, Principal)[b]
  BY <1>1, <1>2, StatsAssumption, SumUpdate
<1> QED BY <1>1, <1>3 DEF Part

LEMMA PrincipalGrows ==
  ASSUME NEW A, NEW B, \A x \in Loans : x \in A => x \in B
  PROVE  PrincipalOf(A) <= PrincipalOf(B)
<1>1. /\ Part(A, Principal) \in [Loans -> Nat] /\ Part(B, Principal) \in [Loans -> Nat]
      /\ PrincipalOf(A) = SumFunction(Part(A, Principal))
      /\ PrincipalOf(B) = SumFunction(Part(B, Principal))
  BY PrincipalNat
<1>2. \A x \in Loans : Part(A, Principal)[x] <= Part(B, Principal)[x]
  BY StatsAssumption DEF Part
<1> QED BY <1>1, <1>2, StatsAssumption, SumGrows

(* One fee of a volume is no more than the fees of its bills and 1 for     *)
(* each bill.                                                              *)
LEMMA FeeOfVolume ==
  ASSUME NEW A, NEW v \in Nat, v <= PrincipalOf(A)
  PROVE  Fee(v) <= Among(A, [b \in Loans |-> Fee(Principal[b])]) + Cardinality(Loans)
<1> DEFINE fees == [b \in Loans |-> Fee(Principal[b])]
           f == Part(A, Principal)
           h == Part(A, fees)
<1>1. \A b \in Loans : Fee(Principal[b]) \in Nat /\ Principal[b] * 15 <= Fee(Principal[b]) * 1000 + 1000
  BY StatsAssumption DEF Fee
<1>2. f \in [Loans -> Nat] /\ h \in [Loans -> Nat]
  BY <1>1, StatsAssumption DEF Part
<1>3. \A b \in Loans : f[b] * 15 <= h[b] * 1000 + 1000
  BY <1>1 DEF Part
<1>4. /\ PrincipalOf(A) = SumFunction(f) /\ Among(A, fees) = SumFunction(h)
      /\ SumFunction(f) \in Nat /\ SumFunction(h) \in Nat /\ Cardinality(Loans) \in Nat
  <2>1. SumFunction(h) \in Nat /\ Cardinality(Loans) \in Nat
    BY <1>2, StatsAssumption, SumCoversEach, FS_CardinalityType
  <2>2. Among(A, fees) = SumFunction(h)
    BY DEF Among, Part
  <2> QED BY <2>1, <2>2, PrincipalNat
<1> HIDE DEF fees, f, h
<1>5. SumFunction(f) * 15 <= SumFunction(h) * 1000 + Cardinality(Loans) * 1000
  <2>1. IsFiniteSet(Loans)
    BY StatsAssumption
  <2>2. \A c, d, e \in Nat : (\A b \in Loans : f[b] * c <= h[b] * d + e) =>
          SumFunction(f) * c <= SumFunction(h) * d + Cardinality(Loans) * e
    BY <1>2, <2>1, SumScaledBy
  <2>3. 15 \in Nat /\ 1000 \in Nat
    OBVIOUS
  <2> QED BY <1>3, <2>2, <2>3
<1>6. Fee(v) \in Nat /\ Fee(v) * 1000 <= v * 15
  BY DEF Fee
<1>7. Fee(v) <= Among(A, fees) + Cardinality(Loans)
  BY <1>4, <1>5, <1>6
<1> QED BY <1>7 DEF fees

-----------------------------------------------------------------------------
(* The books.  The pool has lent what the open bills borrowed, and a row   *)
(* is where its bill is or was.                                            *)
Open(statusOf) == {b \in Loans : statusOf[b] = "PAID"}
RowFollows ==
  \A b \in Loans :
    \/ row[b] = chain[b]
    \/ row[b] = "none"
    \/ row[b] = "CREATED" /\ chain[b] \in Lent
    \/ row[b] = "PAID" /\ chain[b] \in {"REPAID", "LIQUIDATED"}
Books ==
  /\ cash \in Nat /\ lent = PrincipalOf(Open(chain)) /\ day \in Nat
  /\ chain \in [Loans -> Statuses] /\ row \in [Loans -> Statuses]
  /\ RowFollows

(* What happens to the loans, the pool and the indexed bills.              *)
World ==
  \/ \E b \in Loans : \/ CreateOnChain(b) \/ PayOnChain(b) \/ RepayOnChain(b)
                      \/ LiquidateOnChain(b) \/ IndexEvent(b)
  \/ MoveDeposit \/ DayPasses

LEMMA OpenMoves ==
  ASSUME NEW c \in [Loans -> Statuses], NEW b \in Loans, NEW s \in Statuses
  PROVE  PrincipalOf(Open([c EXCEPT ![b] = s])) =
           PrincipalOf(Open(c)) - (IF c[b] = "PAID" THEN Principal[b] ELSE 0)
                                + (IF s = "PAID" THEN Principal[b] ELSE 0)
<1> DEFINE d == [c EXCEPT ![b] = s]
<1>1. d[b] = s /\ \A x \in Loans \ {b} : d[x] = c[x]
  OBVIOUS
<1> HIDE DEF d
<1>2. \A x \in Loans \ {b} : x \in Open(c) <=> x \in Open(d)
  BY <1>1 DEF Open
<1>3. /\ b \in Open(c) <=> c[b] = "PAID"
      /\ b \in Open(d) <=> s = "PAID"
  BY <1>1 DEF Open
<1>4. PrincipalOf(Open(d)) =
        PrincipalOf(Open(c)) - (IF b \in Open(c) THEN Principal[b] ELSE 0)
                             + (IF b \in Open(d) THEN Principal[b] ELSE 0)
  BY <1>2, PrincipalMoves
<1> QED BY <1>3, <1>4 DEF d

LEMMA WorldKeeps ==
  ASSUME Books, World
  PROVE  /\ Books' /\ \A x \in Loans : row[x] \in Lent => row'[x] \in Lent
         /\ jobs' = Disturbed /\ snapshots' = snapshots
<1> USE DEF Books
<1>1. /\ \A b \in Loans : Principal[b] \in Nat \ {0} /\ FeeToLp(Fee(Principal[b])) \in Nat
      /\ lent \in Nat /\ Deposit \in Nat
  <2>1. \A b \in Loans : Principal[b] \in Nat \ {0}
    BY StatsAssumption
  <2>2. \A b \in Loans : Fee(Principal[b]) \in Nat
    BY <2>1 DEF Fee
  <2>3. \A b \in Loans : FeeToLp(Fee(Principal[b])) \in Nat
    BY <2>2 DEF FeeToLp
  <2>4. lent \in Nat
    BY PrincipalNat
  <2> QED BY <2>1, <2>3, <2>4, StatsAssumption
<1>2. jobs' = Disturbed /\ snapshots' = snapshots
  BY DEF World, CreateOnChain, PayOnChain, RepayOnChain, LiquidateOnChain, IndexEvent,
         MoveDeposit, DayPasses, SetChain, Moves
<1>3. ASSUME NEW b \in Loans, NEW s \in Statuses, SetChain(b, s), cash' \in Nat,
             \/ chain[b] = "none" /\ s = "CREATED" /\ lent' = lent
             \/ chain[b] = "CREATED" /\ s = "PAID" /\ lent' = lent + Principal[b]
             \/ chain[b] = "PAID" /\ s \in {"REPAID", "LIQUIDATED"} /\ lent' = lent - Principal[b]
      PROVE  Books' /\ row' = row
  <2>1. chain' = [chain EXCEPT ![b] = s] /\ row' = row /\ day' = day
    BY <1>3 DEF SetChain
  <2>2. chain' \in [Loans -> Statuses]
    BY <2>1
  <2>3. RowFollows'
    BY <1>3, <2>1 DEF RowFollows, Lent
  <2>4. PrincipalOf(Open(chain')) =
          lent - (IF chain[b] = "PAID" THEN Principal[b] ELSE 0)
               + (IF s = "PAID" THEN Principal[b] ELSE 0)
    BY <2>1, OpenMoves
  <2>5. lent' = PrincipalOf(Open(chain'))
    BY <1>1, <1>3, <2>4
  <2> QED BY <1>3, <2>1, <2>2, <2>3, <2>5
<1>4. ASSUME NEW b \in Loans,
             CreateOnChain(b) \/ PayOnChain(b) \/ RepayOnChain(b) \/ LiquidateOnChain(b)
      PROVE  Books' /\ row' = row
  <2>1. "CREATED" \in Statuses /\ "PAID" \in Statuses /\ "REPAID" \in Statuses
        /\ "LIQUIDATED" \in Statuses
    BY DEF Statuses
  <2>2. CASE CreateOnChain(b)
    BY <1>3, <2>1, <2>2 DEF CreateOnChain, poolVars
  <2>3. CASE PayOnChain(b)
    BY <1>1, <1>3, <2>1, <2>3 DEF PayOnChain
  <2>4. CASE RepayOnChain(b)
    BY <1>1, <1>3, <2>1, <2>4 DEF RepayOnChain
  <2>5. CASE LiquidateOnChain(b)
    BY <1>1, <1>3, <2>1, <2>5 DEF LiquidateOnChain
  <2> QED BY <1>4, <2>2, <2>3, <2>4, <2>5
<1>5. ASSUME NEW b \in Loans, IndexEvent(b)
      PROVE  Books' /\ \A x \in Loans : row[x] \in Lent => row'[x] \in Lent
  <2>1. /\ row[b] # chain[b] /\ row' = [row EXCEPT ![b] = NextStatus(b)]
        /\ UNCHANGED <<poolVars, chain, day>>
    BY <1>5 DEF IndexEvent
  <2>2. chain[b] \in Statuses /\ row[b] \in Statuses
    OBVIOUS
  <2>3. \/ row[b] = "none" /\ NextStatus(b) = "CREATED"
        \/ row[b] = "CREATED" /\ chain[b] \in Lent /\ NextStatus(b) = "PAID"
        \/ row[b] = "PAID" /\ NextStatus(b) = chain[b] /\ chain[b] \in {"REPAID", "LIQUIDATED"}
    BY <2>1 DEF RowFollows, NextStatus
  <2>4. row' \in [Loans -> Statuses]
    BY <2>1, <2>2, <2>3 DEF Statuses
  <2>5. RowFollows'
    BY <2>1, <2>2, <2>3 DEF RowFollows, Lent, Statuses
  <2>6. \A x \in Loans : row[x] \in Lent => row'[x] \in Lent
    BY <2>1, <2>3 DEF Lent
  <2> QED BY <2>1, <2>4, <2>5, <2>6 DEF poolVars
<1>6. ASSUME MoveDeposit PROVE Books' /\ row' = row
  <2>1. cash' \in Nat /\ lent' = lent /\ day' = day /\ chain' = chain /\ row' = row
    BY <1>1, <1>6 DEF MoveDeposit, billVars
  <2> QED BY <2>1 DEF RowFollows
<1>7. ASSUME DayPasses PROVE Books' /\ row' = row
  <2>1. cash' = cash /\ lent' = lent /\ day' \in Nat /\ chain' = chain /\ row' = row
    BY <1>7 DEF DayPasses, billVars, poolVars
  <2> QED BY <2>1 DEF RowFollows
<1>8. Books' /\ \A x \in Loans : row[x] \in Lent => row'[x] \in Lent
  <2>1. CASE MoveDeposit \/ DayPasses
    BY <1>6, <1>7, <2>1
  <2>2. CASE \E b \in Loans : \/ CreateOnChain(b) \/ PayOnChain(b) \/ RepayOnChain(b)
                              \/ LiquidateOnChain(b) \/ IndexEvent(b)
    BY <1>4, <1>5, <2>2
  <2> QED BY <2>1, <2>2 DEF World
<1> QED BY <1>2, <1>8

LEMMA VolumeKept ==
  ASSUME \A x \in Loans : row[x] \in Lent => row'[x] \in Lent
  PROVE  Volume \in Nat /\ Volume' \in Nat /\ Volume <= Volume'
<1>1. PICK A, B : A = With(Lent) /\ B = {x \in Loans : row'[x] \in Lent}
  OBVIOUS
<1>2. \A x \in Loans : x \in A => x \in B
  BY <1>1 DEF With
<1>3. PrincipalOf(A) \in Nat /\ PrincipalOf(B) \in Nat /\ PrincipalOf(A) <= PrincipalOf(B)
  BY <1>2, PrincipalNat, PrincipalGrows
<1>4. Volume = PrincipalOf(A) /\ Volume' = PrincipalOf(B)
  BY <1>1 DEF Volume, VolumeOf, With
<1> QED BY <1>3, <1>4

-----------------------------------------------------------------------------
(* The reports under way.  Whatever a report has asked for in the stages   *)
(* so far it has got, but for what is still out, and the pool of a         *)
(* snapshot that could not be read.                                        *)
JobFields == {"report", "stage", "left", "got", "day", "after", "still"}
Asked(report, stage) == UNION {Reads(report)[s] : s \in 1 .. stage}
Skipped(job, f) ==
  /\ job.report = "snapshot" /\ job.stage > 1
  /\ f \in {"cash", "lent"} /\ "cash" \notin DOMAIN job.got
Underway(job) ==
  /\ DOMAIN job = JobFields /\ job.report \in Reports
  /\ job.stage \in 1 .. Len(Reads(job.report))
  /\ job.left \subseteq Reads(job.report)[job.stage]
  /\ job.left = {} => job.stage = Len(Reads(job.report))
  /\ \A f \in Asked(job.report, job.stage) \ job.left : f \in DOMAIN job.got \/ Skipped(job, f)
  /\ job.day \in Nat /\ job.after \in Nat

(* A report made while nothing moved says what is; its volume was read and *)
(* can only have grown since.                                              *)
Truthful(job) ==
  /\ job.still =>
       /\ row = chain
       /\ \A f \in DOMAIN job.got \ {"latest", "history"} : job.got[f] = Figure(f)
  /\ "volume" \in DOMAIN job.got =>
       job.got["volume"] \in Nat /\ job.got["volume"] <= Volume

JobsTrue ==
  /\ DOMAIN jobs = Jobs
  /\ \A j \in Jobs : jobs[j] # NoReport => Underway(jobs[j]) /\ Truthful(jobs[j])

SnapshotRow == [day : Nat, after : Nat, volume : Nat]
StatsInv == Books /\ JobsTrue /\ snapshots \in Seq(SnapshotRow)

LEMMA Stages ==
  ASSUME NEW report \in Reports
  PROVE  /\ Len(Reads(report)) \in Nat \ {0}
         /\ \A s \in 1 .. Len(Reads(report)) :
              /\ Reads(report)[s] # {}
              /\ report = "snapshot" /\ s > 1 => "cash" \notin Reads(report)[s]
BY DEF Reports, Reads, SnapshotReads, StatsReads, DashboardReads, LoansReads, LiquidityReads, PoolReads

(* What a finished report has asked for.                                   *)
LEMMA AllAsked ==
  ASSUME NEW report \in Reports
  PROVE  LET all == Asked(report, Len(Reads(report)))
         IN  /\ report \in {"snapshot", "dashboard", "loans", "liquidity"} => "open" \in all
             /\ report = "snapshot" => "volume" \in all /\ "cash" \in all /\ "lent" \in all
             /\ report = "pool" => "cash" \in all /\ "lent" \in all /\ "borrowed" \in all
<1> DEFINE R == Reads(report)
           all == Asked(report, Len(R))
<1>1. \A s \in 1 .. Len(R) : \A f \in R[s] : f \in all
  BY DEF Asked
<1>2. CASE report = "snapshot"
  <2>1. /\ Len(R) = 5 /\ "open" \in R[4] /\ "volume" \in R[2]
        /\ "cash" \in R[1] /\ "lent" \in R[1]
    BY <1>2 DEF Reads, SnapshotReads
  <2>2. "open" \in all /\ "volume" \in all /\ "cash" \in all /\ "lent" \in all
    <3> HIDE DEF R, all
    <3> QED BY <1>1, <2>1
  <2> QED BY <1>2, <2>2
<1>3. CASE report = "dashboard"
  <2>1. Len(R) = 2 /\ "open" \in R[1]
    BY <1>3 DEF Reads, DashboardReads
  <2>2. "open" \in all
    <3> HIDE DEF R, all
    <3> QED BY <1>1, <2>1
  <2> QED BY <1>3, <2>2
<1>4. CASE report = "loans"
  <2>1. Len(R) = 1 /\ "open" \in R[1]
    BY <1>4 DEF Reads, LoansReads
  <2>2. "open" \in all
    <3> HIDE DEF R, all
    <3> QED BY <1>1, <2>1
  <2> QED BY <1>4, <2>2
<1>5. CASE report = "liquidity"
  <2>1. Len(R) = 1 /\ "open" \in R[1]
    BY <1>5 DEF Reads, LiquidityReads
  <2>2. "open" \in all
    <3> HIDE DEF R, all
    <3> QED BY <1>1, <2>1
  <2> QED BY <1>5, <2>2
<1>6. CASE report = "pool"
  <2>1. Len(R) = 3 /\ "cash" \in R[1] /\ "lent" \in R[2] /\ "borrowed" \in R[3]
    BY <1>6 DEF Reads, PoolReads
  <2>2. "cash" \in all /\ "lent" \in all /\ "borrowed" \in all
    <3> HIDE DEF R, all
    <3> QED BY <1>1, <2>1
  <2> QED BY <1>6, <2>2
<1>7. CASE report \notin {"snapshot", "dashboard", "loans", "liquidity", "pool"}
  BY <1>7
<1> QED BY <1>2, <1>3, <1>4, <1>5, <1>6, <1>7

(* A stage that is over gives way to the next.                             *)
LEMMA StageOver ==
  ASSUME NEW job, DOMAIN job = JobFields, job.report \in Reports,
         job.stage \in 1 .. Len(Reads(job.report)),
         job.left \subseteq Reads(job.report)[job.stage],
         \A f \in Asked(job.report, job.stage) \ job.left :
           \/ f \in DOMAIN job.got
           \/ job.report = "snapshot" /\ (job.stage > 1 \/ job.left = {})
              /\ f \in {"cash", "lent"} /\ "cash" \notin DOMAIN job.got,
         job.day \in Nat, job.after \in Nat
  PROVE  /\ Underway(NextStage(job))
         /\ NextStage(job).report = job.report /\ NextStage(job).got = job.got
         /\ NextStage(job).still = job.still
<1> DEFINE R == Reads(job.report)
           n == NextStage(job)
<1>1. Len(R) \in Nat \ {0} /\ \A s \in 1 .. Len(R) : R[s] # {}
  BY Stages
<1>2. CASE job.left = {} /\ job.stage < Len(R)
  <2>1. n = [job EXCEPT !.stage = @ + 1, !.left = R[job.stage + 1]]
    BY <1>2 DEF NextStage
  <2>2. /\ DOMAIN n = JobFields /\ n.report = job.report /\ n.got = job.got
        /\ n.still = job.still /\ n.day = job.day /\ n.after = job.after
        /\ n.stage = job.stage + 1 /\ n.left = R[job.stage + 1]
    BY <2>1 DEF JobFields
  <2>3. n.stage \in 1 .. Len(R) /\ n.stage > 1 /\ n.left # {}
    BY <1>1, <1>2, <2>2
  <2>4. Asked(job.report, n.stage) \ n.left \subseteq Asked(job.report, job.stage)
    BY <1>1, <2>2 DEF Asked
  <2> HIDE DEF n
  <2>5. \A f \in Asked(n.report, n.stage) \ n.left : f \in DOMAIN n.got \/ Skipped(n, f)
    BY <1>2, <2>2, <2>3, <2>4 DEF Skipped
  <2> QED BY <2>2, <2>3, <2>5 DEF Underway, n
<1>3. CASE ~ (job.left = {} /\ job.stage < Len(R))
  <2>1. n = job
    BY <1>3 DEF NextStage
  <2>2. job.left = {} => job.stage = Len(R)
    BY <1>1, <1>3
  <2>3. ASSUME NEW f \in Asked(job.report, job.stage) \ job.left
        PROVE  f \in DOMAIN job.got \/ Skipped(job, f)
    <3>1. CASE job.stage > 1
      BY <3>1 DEF Skipped
    <3>2. CASE job.left # {}
      BY <3>2 DEF Skipped
    <3>3. CASE job.left = {} /\ job.stage = 1
      <4>1. job.report = "snapshot" => Len(R) = 5
        BY DEF Reads, SnapshotReads
      <4>2. job.report # "snapshot"
        <5> HIDE DEF R
        <5> QED BY <2>2, <3>3, <4>1
      <4> QED BY <4>2
    <3> QED BY <3>1, <3>2, <3>3
  <2> QED BY <2>1, <2>2, <2>3 DEF Underway
<1> QED BY <1>2, <1>3

LEMMA AllGot ==
  ASSUME NEW job, Underway(job), job.left = {}
  PROVE  /\ \A f \in Asked(job.report, Len(Reads(job.report))) :
              f \in DOMAIN job.got \/ Skipped(job, f)
         /\ job.report \in {"snapshot", "dashboard", "loans", "liquidity"} =>
              "open" \in DOMAIN job.got
         /\ job.report = "snapshot" =>
              "volume" \in DOMAIN job.got /\ ("cash" \in DOMAIN job.got => "lent" \in DOMAIN job.got)
         /\ job.report = "pool" => {"cash", "lent", "borrowed"} \subseteq DOMAIN job.got
<1>1. \A f \in Asked(job.report, Len(Reads(job.report))) : f \in DOMAIN job.got \/ Skipped(job, f)
  BY DEF Underway
<1>2. job.report \in Reports
  BY DEF Underway
<1> QED BY <1>1, <1>2, AllAsked DEF Skipped

(* While neither the pool nor the bills move, what was true of them stays. *)
LEMMA TruthStays ==
  ASSUME UNCHANGED <<poolVars, billVars, day>>, NEW job, Truthful(job)
  PROVE  Truthful(job)'
<1>1. Volume' = Volume
  BY DEF Volume, VolumeOf, With, billVars
<1>2. ASSUME NEW f, f \notin {"latest", "history"}
      PROVE  Figure(f)' = Figure(f)
  BY <1>2 DEF Figure, Volume, VolumeOf, VolumeSince, PaidSince, Outstanding, With, poolVars, billVars
<1>3. row' = row /\ chain' = chain
  BY DEF billVars
<1> QED BY <1>1, <1>2, <1>3 DEF Truthful

LEMMA ReadKeeps ==
  ASSUME NEW job, Underway(job), Truthful(job), NEW f \in job.left, NEW mid,
         DOMAIN mid = JobFields, mid.report = job.report, mid.stage = job.stage,
         mid.left = job.left \ {f}, DOMAIN mid.got = DOMAIN job.got \cup {f},
         \A x \in DOMAIN mid.got : mid.got[x] = IF x = f THEN Figure(f) ELSE job.got[x],
         mid.day = job.day, mid.after = job.after, mid.still = job.still
  PROVE  Underway(NextStage(mid)) /\ Truthful(NextStage(mid))
<1>1. f \in Reads(job.report)[job.stage] /\ job.report \in Reports
  BY DEF Underway
<1>2. job.report = "snapshot" /\ job.stage > 1 => f # "cash"
  BY <1>1, Stages DEF Underway
<1>3. ASSUME NEW g \in Asked(mid.report, mid.stage) \ mid.left
      PROVE  \/ g \in DOMAIN mid.got
             \/ mid.report = "snapshot" /\ (mid.stage > 1 \/ mid.left = {})
                /\ g \in {"cash", "lent"} /\ "cash" \notin DOMAIN mid.got
  BY <1>2 DEF Underway, Skipped
<1>4. /\ Underway(NextStage(mid)) /\ NextStage(mid).got = mid.got
      /\ NextStage(mid).still = mid.still
  BY <1>3, StageOver DEF Underway
<1>5. Figure("volume") = Volume /\ Volume \in Nat
  BY PrincipalNat DEF Figure, Volume, VolumeOf
<1>6. Truthful(NextStage(mid))
  BY <1>4, <1>5 DEF Truthful
<1> QED BY <1>4, <1>6

LEMMA JobStepKeeps ==
  ASSUME StatsInv, NEW j \in Jobs, JobStep(j)
  PROVE  /\ StatsInv' /\ UNCHANGED <<poolVars, billVars, day>>
         /\ \A k \in Jobs \ {j} : jobs'[k] = jobs[k]
         /\ \/ jobs'[j] = NoReport
            \/ "volume" \in DOMAIN jobs'[j].got =>
                 \/ jobs'[j].got["volume"] = Volume
                 \/ /\ jobs[j] # NoReport /\ "volume" \in DOMAIN jobs[j].got
                    /\ jobs'[j].got["volume"] = jobs[j].got["volume"]
         /\ \/ snapshots' = snapshots
            \/ StoreSnapshot(j)
<1> DEFINE job == jobs[j]
<1>1. /\ UNCHANGED <<poolVars, billVars, day>>
      /\ snapshots' = snapshots \/ StoreSnapshot(j)
  BY DEF JobStep, Start, ReadFigure, PoolUnknown, RequestFails, StoreSnapshot, SnapshotFails, ShowAnswer
<1>2. Books'
  BY <1>1 DEF StatsInv, Books, RowFollows, poolVars, billVars
<1>3. DOMAIN jobs = Jobs /\ (job # NoReport => Underway(job) /\ Truthful(job))
  BY DEF StatsInv, JobsTrue
<1>4. PICK new : jobs' = [jobs EXCEPT ![j] = new]
  BY Zenon DEF JobStep, Start, ReadFigure, PoolUnknown, RequestFails, StoreSnapshot, SnapshotFails, ShowAnswer
<1>5. DOMAIN jobs' = Jobs /\ jobs'[j] = new /\ \A k \in Jobs \ {j} : jobs'[k] = jobs[k]
  BY <1>3, <1>4
<1>6. ASSUME NEW report \in Reports, Start(j, report)
      PROVE  Underway(new) /\ Truthful(new) /\ DOMAIN new.got = {}
  <2>1. new = Begin(report, j)
    BY <1>3, <1>5, <1>6 DEF Start
  <2>2. Len(Reads(report)) \in Nat \ {0}
    BY Stages
  <2>3. DOMAIN new = JobFields /\ new.report = report /\ new.stage = 1
        /\ new.left = Reads(report)[1] /\ new.got = <<>>
        /\ new.day = day /\ new.after = Len(snapshots) /\ (new.still => row = chain)
    BY <2>1 DEF Begin, JobFields
  <2>4. new.left # {}
    BY <2>2, <2>3, Stages
  <2>5. Asked(report, 1) = Reads(report)[1]
    BY DEF Asked
  <2>6. DOMAIN new.got = {}
    BY <2>3
  <2>7. day \in Nat /\ Len(snapshots) \in Nat
    BY DEF StatsInv, Books
  <2>8. Underway(new)
    BY <2>2, <2>3, <2>4, <2>5, <2>7 DEF Underway
  <2>9. Truthful(new)
    BY <2>3, <2>6 DEF Truthful
  <2> QED BY <2>6, <2>8, <2>9
<1>7. ASSUME job # NoReport, NEW f \in job.left, ReadFigure(j, f)
      PROVE  /\ Underway(new) /\ Truthful(new)
             /\ "volume" \in DOMAIN new.got =>
                  \/ new.got["volume"] = Volume
                  \/ /\ "volume" \in DOMAIN job.got
                     /\ new.got["volume"] = job.got["volume"]
  <2>1. PICK mid : mid = GotFigure(job, f)
    OBVIOUS
  <2>2. new = NextStage(mid)
    BY <1>3, <1>5, <1>7, <2>1 DEF ReadFigure
  <2>3. /\ DOMAIN mid = JobFields /\ mid.report = job.report /\ mid.stage = job.stage
        /\ mid.left = job.left \ {f} /\ DOMAIN mid.got = DOMAIN job.got \cup {f}
        /\ \A x \in DOMAIN mid.got : mid.got[x] = IF x = f THEN Figure(f) ELSE job.got[x]
        /\ mid.day = job.day /\ mid.after = job.after /\ mid.still = job.still
    BY <1>3, <1>7, <2>1 DEF GotFigure, JobFields, Underway
  <2>4. Underway(new) /\ Truthful(new)
    BY <1>3, <1>7, <2>2, <2>3, ReadKeeps
  <2>5. new.got = mid.got
    BY <2>2, <2>3 DEF NextStage, JobFields
  <2>6. Figure("volume") = Volume
    BY DEF Figure
  <2> QED BY <2>3, <2>4, <2>5, <2>6
<1>8. ASSUME PoolUnknown(j)
      PROVE  Underway(new) /\ Truthful(new) /\ DOMAIN new.got = {}
  <2>1. PICK mid : mid = [job EXCEPT !.left = {}, !.got = <<>>]
    OBVIOUS
  <2>2. new = NextStage(mid) /\ job # NoReport /\ job.report = "snapshot" /\ job.stage = 1
    BY <1>3, <1>5, <1>8, <2>1 DEF PoolUnknown
  <2>3. /\ DOMAIN mid = JobFields /\ mid.report = job.report /\ mid.stage = job.stage
        /\ mid.left = {} /\ DOMAIN mid.got = {}
        /\ mid.day = job.day /\ mid.after = job.after /\ mid.still = job.still
    BY <1>3, <2>1, <2>2 DEF JobFields, Underway
  <2>4. \A g \in Asked(mid.report, mid.stage) : g \in {"cash", "lent"}
    BY <2>2, <2>3 DEF Asked, Reads, SnapshotReads
  <2>5. /\ Underway(NextStage(mid)) /\ NextStage(mid).got = mid.got
        /\ NextStage(mid).still = mid.still
    BY <1>3, <2>2, <2>3, <2>4, StageOver DEF Underway
  <2>6. Truthful(new)
    BY <1>3, <2>2, <2>3, <2>5 DEF Truthful
  <2> QED BY <2>2, <2>3, <2>5, <2>6
<1>9. ASSUME RequestFails(j) \/ StoreSnapshot(j) \/ SnapshotFails(j) \/ ShowAnswer(j)
      PROVE  new = NoReport
  BY <1>3, <1>5, <1>9 DEF RequestFails, StoreSnapshot, SnapshotFails, ShowAnswer
<1>10. /\ new # NoReport => Underway(new) /\ Truthful(new)
       /\ \/ new = NoReport
          \/ "volume" \in DOMAIN new.got =>
               \/ new.got["volume"] = Volume
               \/ /\ job # NoReport /\ "volume" \in DOMAIN job.got
                  /\ new.got["volume"] = job.got["volume"]
  BY <1>6, <1>7, <1>8, <1>9 DEF JobStep
<1>11. \A k \in Jobs : jobs'[k] # NoReport => Underway(jobs'[k]) /\ Truthful(jobs'[k])
  BY <1>5, <1>10 DEF StatsInv, JobsTrue
<1>12. JobsTrue'
  <2> SUFFICES ASSUME NEW k \in Jobs, (jobs[k] # NoReport)'
               PROVE  (Underway(jobs[k]) /\ Truthful(jobs[k]))'
    BY <1>5 DEF JobsTrue
  <2>1. PICK u : u = jobs'[k]
    OBVIOUS
  <2>2. Underway(u) /\ Truthful(u)'
    BY <1>1, <1>11, <2>1, TruthStays
  <2> QED BY <2>1, <2>2 DEF Truthful, Underway, Skipped
<1>13. snapshots' \in Seq(SnapshotRow)
  <2>1. CASE StoreSnapshot(j)
    <3>1. /\ job # NoReport /\ job.left = {} /\ job.report = "snapshot"
          /\ snapshots' = Append(snapshots, Snapshot(job))
      BY <2>1 DEF StoreSnapshot, Answered
    <3>2. "volume" \in DOMAIN job.got
      BY <1>3, <3>1, AllGot
    <3>3. Snapshot(job) \in SnapshotRow
      BY <1>3, <3>1, <3>2 DEF Snapshot, SnapshotRow, Underway, Truthful, StatsInv, Books
    <3> QED BY <3>1, <3>3 DEF StatsInv
  <2> QED BY <1>1, <2>1 DEF StatsInv
<1>14. StatsInv'
  BY <1>2, <1>12, <1>13 DEF StatsInv
<1> QED BY <1>1, <1>5, <1>10, <1>14

LEMMA NothingLent ==
  ASSUME NEW A, \A x \in Loans : x \notin A
  PROVE  PrincipalOf(A) = 0
<1> DEFINE f == Part(A, Principal)
<1>1. f \in [Loans -> Nat] /\ PrincipalOf(A) = SumFunction(f) /\ PrincipalOf(A) \in Nat
  BY PrincipalNat
<1>2. IsFiniteSet(Loans) /\ Cardinality(Loans) \in Nat
  BY StatsAssumption, FS_CardinalityType
<1>3. \A x \in Loans : f[x] = 0
  BY DEF Part
<1> HIDE DEF f
<1>4. \A c, d, e \in Nat : (\A x \in Loans : f[x] * c <= f[x] * d + e) =>
        SumFunction(f) * c <= SumFunction(f) * d + Cardinality(Loans) * e
  BY <1>1, <1>2, SumScaledBy
<1>5. SumFunction(f) * 1 <= SumFunction(f) * 0 + Cardinality(Loans) * 0
  <2>1. 0 \in Nat /\ 1 \in Nat /\ \A x \in Loans : f[x] * 1 <= f[x] * 0 + 0
    BY <1>3
  <2> QED BY <1>4, <2>1
<1> QED BY <1>1, <1>2, <1>5

LEMMA StatsStarts == StatsInit => StatsInv
<1> SUFFICES ASSUME StatsInit PROVE StatsInv
  OBVIOUS
<1>1. Books
  <2>1. \A x \in Loans : x \notin Open(chain)
    BY DEF StatsInit, Open
  <2>2. lent = PrincipalOf(Open(chain))
    BY <2>1, NothingLent DEF StatsInit
  <2> QED BY <2>2, StatsAssumption DEF StatsInit, Books, RowFollows, Statuses
<1>2. JobsTrue /\ snapshots \in Seq(SnapshotRow)
  BY DEF StatsInit, JobsTrue
<1> QED BY <1>1, <1>2 DEF StatsInv

(* The loans, the pool and the indexed bills move: every report under way  *)
(* is no longer still, and what it has got of the volume was paid.         *)
LEMMA WorldStepKeeps ==
  ASSUME StatsInv, World
  PROVE  StatsInv' /\ Volume <= Volume' /\ snapshots' = snapshots
         /\ \A j \in Jobs :
              \/ jobs[j] = NoReport /\ jobs'[j] = NoReport
              \/ jobs[j] # NoReport /\ jobs'[j].got = jobs[j].got
<1>1. /\ Books' /\ jobs' = Disturbed /\ snapshots' = snapshots
      /\ Volume \in Nat /\ Volume' \in Nat /\ Volume <= Volume'
  BY WorldKeeps, VolumeKept DEF StatsInv
<1>2. DOMAIN jobs' = Jobs
  BY <1>1 DEF Disturbed
<1>3. ASSUME NEW j \in Jobs, jobs[j] # NoReport
      PROVE  /\ Underway(jobs'[j]) /\ jobs'[j].still = FALSE
             /\ jobs'[j].got = jobs[j].got /\ Truthful(jobs[j])
  <2>1. Underway(jobs[j]) /\ Truthful(jobs[j])
    BY <1>3 DEF StatsInv, JobsTrue
  <2>2. jobs'[j] = [jobs[j] EXCEPT !.still = FALSE]
    BY <1>1, <1>3 DEF Disturbed
  <2>3. PICK u, v : u = jobs[j] /\ v = [u EXCEPT !.still = FALSE]
    OBVIOUS
  <2>4. /\ DOMAIN v = JobFields /\ v.report = u.report /\ v.stage = u.stage
        /\ v.left = u.left /\ v.got = u.got /\ v.day = u.day /\ v.after = u.after
        /\ v.still = FALSE
    BY <2>1, <2>3 DEF JobFields, Underway
  <2>5. Underway(u)
    BY <2>1, <2>3
  <2>6. Underway(v)
    BY <2>4, <2>5 DEF Underway, Skipped
  <2> QED BY <2>1, <2>2, <2>3, <2>4, <2>6
<1>4. \A j \in Jobs : jobs[j] = NoReport => jobs'[j] = NoReport
  BY <1>1 DEF Disturbed
<1>5. JobsTrue'
  <2> SUFFICES ASSUME NEW j \in Jobs, (jobs[j] # NoReport)'
               PROVE  (Underway(jobs[j]) /\ Truthful(jobs[j]))'
    BY <1>2 DEF JobsTrue
  <2>1. PICK u : u = jobs'[j]
    OBVIOUS
  <2>2. Underway(u) /\ u.still = FALSE /\ u.got = jobs[j].got /\ Truthful(jobs[j])
    BY <1>3, <1>4, <2>1
  <2>3. "volume" \in DOMAIN u.got => u.got["volume"] \in Nat /\ u.got["volume"] <= Volume'
    BY <1>1, <2>2 DEF Truthful
  <2>4. Truthful(u)'
    BY <2>2, <2>3 DEF Truthful
  <2> QED BY <2>1, <2>2, <2>4 DEF Truthful, Underway, Skipped
<1> QED BY <1>1, <1>3, <1>4, <1>5 DEF StatsInv

LEMMA StatsKept == StatsInv /\ [StatsNext]_statsVars => StatsInv'
<1> SUFFICES ASSUME StatsInv, [StatsNext]_statsVars
             PROVE  StatsInv'
  OBVIOUS
<1>1. CASE World
  BY <1>1, WorldStepKeeps
<1>2. CASE \E j \in Jobs : JobStep(j)
  BY <1>2, JobStepKeeps
<1>3. CASE UNCHANGED statsVars
  <2>1. UNCHANGED <<poolVars, billVars, day>> /\ jobs' = jobs /\ snapshots' = snapshots
    BY <1>3 DEF statsVars
  <2>2. Books'
    BY <2>1 DEF StatsInv, Books, RowFollows, poolVars, billVars
  <2>3. JobsTrue'
    <3> SUFFICES ASSUME NEW j \in Jobs, (jobs[j] # NoReport)'
                 PROVE  (Underway(jobs[j]) /\ Truthful(jobs[j]))'
      BY <2>1 DEF StatsInv, JobsTrue
    <3>1. PICK u : u = jobs[j]
      OBVIOUS
    <3>2. Underway(u) /\ Truthful(u)'
      BY <2>1, <3>1, TruthStays DEF StatsInv, JobsTrue
    <3> QED BY <2>1, <3>1, <3>2 DEF Truthful, Underway, Skipped
  <2> QED BY <2>1, <2>2, <2>3 DEF StatsInv
<1> QED BY <1>1, <1>2, <1>3 DEF StatsNext, World

(* A finished report claims no volume and no fees that were not paid, and  *)
(* one made while nothing moved and the indexer had caught up tells the    *)
(* pool's own loans and cash, for any bills, amounts and handlers at once. *)
THEOREM ReportsAlwaysTrue == StatsSpec => []ReportsTrue
<1>1. StatsInv => ReportsTrue
  <2> SUFFICES ASSUME StatsInv, NEW j \in Jobs, Answered(j)
               PROVE  LET job == jobs[j]
                      IN  /\ job.report = "snapshot" =>
                               /\ job.got["volume"] <= PaidOnChain
                               /\ Fee(job.got["volume"]) <= ChargedOnChain + Cardinality(Loans)
                          /\ job.still /\ job.report # "stats" => OnLoan(job) = lent
                          /\ job.still /\ job.report = "pool" =>
                               LiquidityPage(job.got).available = cash
                          /\ job.still /\ job.report = "snapshot" /\ "cash" \in DOMAIN job.got =>
                               PoolTvl(job.got) = cash + lent
    BY DEF ReportsTrue
  <2>1. PICK job : job = jobs[j]
    OBVIOUS
  <2>2. Underway(job) /\ Truthful(job) /\ job.left = {}
    BY <2>1 DEF StatsInv, JobsTrue, Answered
  <2>3. /\ cash \in Nat /\ lent \in Nat /\ lent = PrincipalOf(Open(chain))
        /\ chain \in [Loans -> Statuses] /\ row \in [Loans -> Statuses] /\ RowFollows
    BY PrincipalNat DEF StatsInv, Books
  <2>4. job.report \in Reports
    BY <2>2 DEF Underway
  <2>5. ASSUME job.report = "snapshot"
        PROVE  /\ job.got["volume"] <= PaidOnChain
               /\ Fee(job.got["volume"]) <= ChargedOnChain + Cardinality(Loans)
    <3>1. job.got["volume"] \in Nat /\ job.got["volume"] <= Volume
      BY <2>2, <2>5, AllGot DEF Truthful
    <3>2. PrincipalOf(With(Lent)) <= PrincipalOf(EverPaid)
      <4>1. \A x \in Loans : x \in With(Lent) => x \in EverPaid
        BY <2>3 DEF With, EverPaid, RowFollows, Lent
      <4> QED BY <4>1, PrincipalGrows
    <3>3. PrincipalOf(With(Lent)) \in Nat /\ PrincipalOf(EverPaid) \in Nat
      BY PrincipalNat
    <3>4. job.got["volume"] <= PrincipalOf(EverPaid)
      BY <3>1, <3>2, <3>3 DEF Volume, VolumeOf
    <3>5. Fee(job.got["volume"]) <=
            Among(EverPaid, [b \in Loans |-> Fee(Principal[b])]) + Cardinality(Loans)
      BY <3>1, <3>4, FeeOfVolume
    <3> QED BY <3>4, <3>5 DEF PaidOnChain, ChargedOnChain
  <2>6. ASSUME job.still
        PROVE  /\ "open" \in DOMAIN job.got => job.got["open"] = lent
               /\ "cash" \in DOMAIN job.got => job.got["cash"] = cash
               /\ "lent" \in DOMAIN job.got => job.got["lent"] = lent
               /\ "borrowed" \in DOMAIN job.got => job.got["borrowed"] = lent
    <3>1. row = chain /\ \A f \in DOMAIN job.got \ {"latest", "history"} : job.got[f] = Figure(f)
      BY <2>2, <2>6 DEF Truthful
    <3>2. With({"PAID"}) = Open(chain)
      BY <3>1 DEF With, Open
    <3>3. /\ Figure("open") = PrincipalOf(With({"PAID"}))
          /\ Figure("cash") = cash /\ Figure("lent") = lent /\ Figure("borrowed") = lent
      BY DEF Figure, Outstanding, VolumeOf
    <3> QED BY <2>3, <3>1, <3>2, <3>3
  <2>7. ASSUME job.still, job.report = "pool"
        PROVE  OnLoan(job) = lent /\ LiquidityPage(job.got).available = cash
    <3>1. /\ job.got["cash"] = cash /\ job.got["lent"] = lent /\ job.got["borrowed"] = lent
      BY <2>2, <2>6, <2>7, AllGot
    <3>2. /\ PoolAnswer(job.got).assets = cash + lent /\ PoolAnswer(job.got).borrowed = lent
      BY <3>1 DEF PoolAnswer
    <3>3. LiquidityPage(job.got).borrowed = lent /\ LiquidityPage(job.got).available = cash
      BY <2>3, <3>1, <3>2 DEF LiquidityPage
    <3> QED BY <2>7, <3>3 DEF OnLoan
  <2>8. ASSUME job.still, job.report \notin {"stats", "pool"}
        PROVE  OnLoan(job) = lent
    <3>1. job.report \in {"snapshot", "dashboard", "loans", "liquidity"}
      BY <2>4, <2>8 DEF Reports
    <3>2. job.got["open"] = lent
      BY <2>2, <2>6, <2>8, <3>1, AllGot
    <3> QED BY <3>1, <3>2 DEF OnLoan, DashboardAnswer, LoansAnswer, LiquidityAnswer
  <2>9. ASSUME job.still, job.report = "snapshot", "cash" \in DOMAIN job.got
        PROVE  PoolTvl(job.got) = cash + lent
    <3>1. job.got["cash"] = cash /\ job.got["lent"] = lent /\ job.got["open"] = lent
      BY <2>2, <2>6, <2>9, AllGot
    <3> QED BY <2>3, <2>9, <3>1 DEF PoolTvl
  <2> QED BY <2>1, <2>5, <2>7, <2>8, <2>9
<1> QED BY StatsStarts, StatsKept, <1>1, PTL DEF StatsSpec

(* A handler keeps the number of snapshots that were stored when it began. *)
LEMMA BeginningKept ==
  ASSUME StatsInv, NEW j \in Jobs, JobStep(j) \/ World, jobs'[j] # NoReport
  PROVE  jobs'[j].after = IF jobs[j] = NoReport THEN Len(snapshots) ELSE jobs[j].after
<1> DEFINE job == jobs[j]
<1>1. DOMAIN jobs = Jobs /\ (job # NoReport => Underway(job))
  BY DEF StatsInv, JobsTrue
<1>2. CASE World
  <2>1. jobs' = Disturbed
    BY <1>2, WorldKeeps DEF StatsInv
  <2> QED BY <1>1, <2>1 DEF Disturbed, Underway, JobFields
<1>3. ASSUME NEW report \in Reports, Start(j, report)
      PROVE  job = NoReport /\ jobs'[j].after = Len(snapshots)
  BY <1>1, <1>3 DEF Start, Begin
<1>4. ASSUME job # NoReport, NEW x, DOMAIN x = JobFields, x.after = job.after
      PROVE  NextStage(x).after = job.after
  BY <1>4 DEF NextStage, JobFields
<1>5. ASSUME job # NoReport, NEW f, ReadFigure(j, f)
      PROVE  jobs'[j].after = job.after
  <2>1. DOMAIN GotFigure(job, f) = JobFields /\ GotFigure(job, f).after = job.after
    BY <1>1, <1>5 DEF GotFigure, Underway, JobFields
  <2> QED BY <1>1, <1>4, <1>5, <2>1 DEF ReadFigure
<1>6. ASSUME PoolUnknown(j)
      PROVE  job # NoReport /\ jobs'[j].after = job.after
  <2> DEFINE x == [job EXCEPT !.left = {}, !.got = <<>>]
  <2>1. job # NoReport /\ DOMAIN x = JobFields /\ x.after = job.after
    BY <1>1, <1>6 DEF PoolUnknown, Underway, JobFields
  <2> HIDE DEF x
  <2>2. jobs'[j] = NextStage(x)
    BY <1>1, <1>6 DEF PoolUnknown, x
  <2> QED BY <1>4, <2>1, <2>2
<1>7. RequestFails(j) \/ StoreSnapshot(j) \/ SnapshotFails(j) \/ ShowAnswer(j) => FALSE
  BY <1>1 DEF RequestFails, StoreSnapshot, SnapshotFails, ShowAnswer
<1> QED BY <1>2, <1>3, <1>5, <1>6, <1>7 DEF JobStep

(* No snapshot is ahead of the volume of the bills, and a handler at work  *)
(* has counted no less than those stored before it began.                  *)
VolumesGrow ==
  /\ \A i \in DOMAIN snapshots : /\ snapshots[i].volume <= Volume
                                 /\ snapshots[i].after \in 0 .. Len(snapshots)
  /\ VolumeNeverFalls
  /\ \A j \in Jobs : jobs[j] # NoReport =>
       /\ jobs[j].after \in 0 .. Len(snapshots)
       /\ "volume" \in DOMAIN jobs[j].got =>
            \A i \in 1 .. jobs[j].after : snapshots[i].volume <= jobs[j].got["volume"]

LEMMA VolumesKeepGrowing ==
  ASSUME StatsInv, VolumesGrow, [StatsNext]_statsVars
  PROVE  VolumesGrow'
<1>1. /\ snapshots \in Seq(SnapshotRow) /\ DOMAIN snapshots = 1 .. Len(snapshots)
      /\ Len(snapshots) \in Nat /\ \A i \in DOMAIN snapshots : snapshots[i].volume \in Nat
  <2>1. snapshots \in Seq(SnapshotRow)
    BY DEF StatsInv
  <2>2. \A i \in DOMAIN snapshots : snapshots[i] \in SnapshotRow
    BY <2>1
  <2>3. \A r \in SnapshotRow : r.volume \in Nat
    BY DEF SnapshotRow
  <2> QED BY <2>1, <2>2, <2>3
<1>2. Volume \in Nat
  BY PrincipalNat DEF Volume, VolumeOf
<1>3. CASE World
  <2>1. /\ Volume <= Volume' /\ snapshots' = snapshots
        /\ \A j \in Jobs :
             \/ jobs[j] = NoReport /\ jobs'[j] = NoReport
             \/ jobs[j] # NoReport /\ jobs'[j].got = jobs[j].got
    BY <1>3, WorldStepKeeps
  <2>2. Volume' \in Nat
    BY <1>3, WorldKeeps, VolumeKept DEF StatsInv
  <2>3. \A i \in DOMAIN snapshots : snapshots[i].volume <= Volume'
    BY <1>1, <1>2, <2>1, <2>2 DEF VolumesGrow
  <2>4. \A j \in Jobs : jobs'[j] # NoReport => jobs[j] # NoReport /\ jobs'[j].after = jobs[j].after
    BY <1>3, <2>1, BeginningKept
  <2>5. VolumeNeverFalls'
    BY <2>1 DEF VolumesGrow, VolumeNeverFalls
  <2> QED BY <2>1, <2>3, <2>4, <2>5 DEF VolumesGrow
<1>4. ASSUME NEW j \in Jobs, JobStep(j)
      PROVE  VolumesGrow'
  <2>1. /\ Volume' = Volume
        /\ \A k \in Jobs \ {j} : jobs'[k] = jobs[k]
        /\ \/ jobs'[j] = NoReport
           \/ "volume" \in DOMAIN jobs'[j].got =>
                \/ jobs'[j].got["volume"] = Volume
                \/ /\ jobs[j] # NoReport /\ "volume" \in DOMAIN jobs[j].got
                   /\ jobs'[j].got["volume"] = jobs[j].got["volume"]
        /\ snapshots' = snapshots \/ StoreSnapshot(j)
    BY <1>4, JobStepKeeps DEF Volume, VolumeOf, With, billVars
  <2>2. jobs'[j] # NoReport =>
          jobs'[j].after = IF jobs[j] = NoReport THEN Len(snapshots) ELSE jobs[j].after
    BY <1>4, BeginningKept
  <2>3. CASE snapshots' = snapshots
    <3>1. ASSUME jobs'[j] # NoReport PROVE jobs'[j].after \in 0 .. Len(snapshots)
      BY <1>1, <2>2, <3>1 DEF VolumesGrow
    <3>2. ASSUME jobs'[j] # NoReport, "volume" \in DOMAIN jobs'[j].got,
                 NEW i \in 1 .. jobs'[j].after
          PROVE  snapshots[i].volume <= jobs'[j].got["volume"]
      <4>1. i \in DOMAIN snapshots
        BY <1>1, <3>1, <3>2
      <4> QED BY <2>1, <2>2, <3>2, <4>1 DEF VolumesGrow
    <3>3. VolumeNeverFalls'
      BY <2>3 DEF VolumesGrow, VolumeNeverFalls
    <3> QED BY <2>1, <2>3, <3>1, <3>2, <3>3 DEF VolumesGrow
  <2>4. CASE StoreSnapshot(j)
    <3>1. /\ jobs[j] # NoReport /\ jobs[j].left = {} /\ jobs[j].report = "snapshot"
          /\ snapshots' = Append(snapshots, Snapshot(jobs[j])) /\ jobs'[j] = NoReport
      BY <2>4 DEF StoreSnapshot, Answered, StatsInv, JobsTrue
    <3>2. Underway(jobs[j]) /\ Truthful(jobs[j])
      BY <3>1 DEF StatsInv, JobsTrue
    <3>3. /\ "volume" \in DOMAIN jobs[j].got
          /\ jobs[j].got["volume"] \in Nat /\ jobs[j].got["volume"] <= Volume
      BY <3>1, <3>2, AllGot DEF Truthful
    <3>4. PICK v, n, a : v = jobs[j].got["volume"] /\ n = Len(snapshots) /\ a = jobs[j].after
      OBVIOUS
    <3>5. /\ DOMAIN snapshots' = 1 .. n + 1 /\ Len(snapshots') = n + 1
          /\ snapshots'[n + 1].volume = v /\ snapshots'[n + 1].after = a
          /\ \A i \in 1 .. n : snapshots'[i] = snapshots[i]
      BY <1>1, <3>1, <3>4 DEF Snapshot
    <3>6. n \in Nat /\ v \in Nat /\ v <= Volume /\ a \in 0 .. n
      BY <1>1, <3>1, <3>3, <3>4 DEF VolumesGrow
    <3>7. \A i \in 1 .. a : snapshots[i].volume <= v
      BY <3>1, <3>3, <3>4 DEF VolumesGrow
    <3>8. \A i \in 1 .. n : snapshots[i].volume <= Volume /\ snapshots[i].after \in 0 .. n
      BY <1>1, <3>4 DEF VolumesGrow
    <3>9. \A k \in 1 .. n : \A i \in 1 .. snapshots[k].after :
            snapshots[i].volume <= snapshots[k].volume
      BY <1>1, <3>4 DEF VolumesGrow, VolumeNeverFalls
    <3>10. \A k \in 1 .. n + 1 : \A i \in 1 .. snapshots'[k].after :
             snapshots'[i].volume <= snapshots'[k].volume
      <4>1. ASSUME NEW k \in 1 .. n, NEW i \in 1 .. snapshots'[k].after
            PROVE  snapshots'[i].volume <= snapshots'[k].volume
        <5>1. snapshots'[k] = snapshots[k] /\ i \in 1 .. n
          BY <3>5, <3>6, <3>8, <4>1
        <5> QED BY <3>5, <3>9, <4>1, <5>1
      <4>2. ASSUME NEW i \in 1 .. a PROVE snapshots'[i].volume <= v
        BY <3>5, <3>6, <3>7, <4>2
      <4> QED BY <3>5, <3>6, <4>1, <4>2
    <3>11. \A i \in 1 .. n + 1 : snapshots'[i].volume <= Volume' /\ snapshots'[i].after \in 0 .. n + 1
      BY <2>1, <3>5, <3>6, <3>8
    <3>12. \A k \in Jobs : jobs'[k] # NoReport =>
             /\ jobs'[k].after \in 0 .. n + 1
             /\ "volume" \in DOMAIN jobs'[k].got =>
                  \A i \in 1 .. jobs'[k].after : snapshots'[i].volume <= jobs'[k].got["volume"]
      <4> SUFFICES ASSUME NEW k \in Jobs, jobs'[k] # NoReport
                   PROVE  /\ jobs'[k].after \in 0 .. n + 1
                          /\ "volume" \in DOMAIN jobs'[k].got =>
                               \A i \in 1 .. jobs'[k].after :
                                 snapshots'[i].volume <= jobs'[k].got["volume"]
        OBVIOUS
      <4>1. jobs'[k] = jobs[k]
        BY <2>1, <3>1
      <4>2. jobs[k].after \in 0 .. n
        BY <3>4, <4>1 DEF VolumesGrow
      <4>3. \A i \in 1 .. jobs[k].after : snapshots'[i] = snapshots[i]
        BY <3>5, <3>6, <4>2
      <4>4. jobs[k].after \in 0 .. n + 1
        BY <3>6, <4>2
      <4>5. jobs[k] # NoReport /\ ("volume" \in DOMAIN jobs[k].got =>
              \A i \in 1 .. jobs[k].after : snapshots[i].volume <= jobs[k].got["volume"])
        BY <4>1 DEF VolumesGrow
      <4> QED BY <4>1, <4>3, <4>4, <4>5
    <3>13. VolumeNeverFalls'
      BY <3>5, <3>10 DEF VolumeNeverFalls
    <3> QED BY <3>5, <3>11, <3>12, <3>13 DEF VolumesGrow
  <2> QED BY <2>1, <2>3, <2>4
<1>5. CASE UNCHANGED statsVars
  <2>1. snapshots' = snapshots /\ jobs' = jobs /\ Volume' = Volume
    BY <1>5 DEF statsVars, billVars, Volume, VolumeOf, With
  <2> QED BY <2>1 DEF VolumesGrow, VolumeNeverFalls
<1> QED BY <1>3, <1>4, <1>5 DEF StatsNext, World

(* A snapshot shows no less volume than any stored before its handler      *)
(* began, whatever becomes of the bills and however many handlers overlap  *)
(* (protocol-snapshot L138-147, L390).                                     *)
THEOREM VolumesNeverFall == StatsSpec => []VolumeNeverFalls
<1>1. StatsInit => StatsInv /\ VolumesGrow
  <2>1. StatsInit => VolumesGrow
    BY DEF StatsInit, VolumesGrow, VolumeNeverFalls
  <2> QED BY <2>1, StatsStarts
<1>2. StatsInv /\ VolumesGrow /\ [StatsNext]_statsVars => StatsInv' /\ VolumesGrow'
  BY StatsKept, VolumesKeepGrowing
<1>3. VolumesGrow => VolumeNeverFalls
  BY DEF VolumesGrow
<1> QED BY <1>1, <1>2, <1>3, PTL DEF StatsSpec
=============================================================================
