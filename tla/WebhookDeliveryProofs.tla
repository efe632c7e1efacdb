------------------------ MODULE WebhookDeliveryProofs ------------------------
(***************************************************************************)
(* A session is completed once and its completion is notified once, for    *)
(* any number of sessions, of requests that race for them, of sweeps and   *)
(* of abandoned requests and senders; a delivery's row counts its attempts *)
(* exactly, and no row is left that neither a sender nor a later sweep     *)
(* sees to.                                                                *)
(***************************************************************************)
EXTENDS WebhookDelivery, FiniteSetTheorems, TLAPS

-----------------------------------------------------------------------------
(* The race for the session.                                               *)
Request == [session : Sessions, caller : Callers, step : Steps]

(* The requests that have completed their session.                         *)
Won(r) == requests[r].step \in {"dispatch", "done"}

SessionsTyped ==
  /\ status \in [Sessions -> SessionStatus \cup {"none"}]
  /\ completedAt \in [Sessions -> BOOLEAN]
  /\ billRows \in [Sessions -> Nat]
  /\ requests \in [Requests -> Request \cup {Idle}]
OpenUncompleted ==
  \A s \in Sessions : status[s] \in {"none", "PENDING"} => ~ completedAt[s]
WinnersCompleted ==
  \A r \in Requests : Won(r) => completedAt[SessionOf(r)]
OneWinner ==
  \A q, r \in Requests : Won(q) /\ Won(r) /\ SessionOf(q) = SessionOf(r) => q = r

RaceInv ==
  SessionsTyped /\ OpenUncompleted /\ OneBillPerCompletion /\ WinnersCompleted /\ OneWinner

(* What the delivery relies on: a request that is done stays so, and a     *)
(* completion is never undone.                                             *)
DoneStays ==
  /\ \A c \in Completers : requests[c].step = "done" =>
       requests'[c].step = "done" /\ requests'[c].session = requests[c].session
  /\ \A s \in Sessions : completedAt[s] => completedAt'[s]

LEMMA RaceInitially == CheckoutInit => RaceInv
BY DEF CheckoutInit, RaceInv, SessionsTyped, OpenUncompleted, OneBillPerCompletion,
       WinnersCompleted, OneWinner, Won, Idle

(* A step of the shop, the buyer or the clock.                             *)
LEMMA OthersKeepRace ==
  ASSUME RaceInv, UNCHANGED <<sessionVars, requests>>
  PROVE  RaceInv' /\ DoneStays
BY DEF RaceInv, SessionsTyped, OpenUncompleted, OneBillPerCompletion, WinnersCompleted,
       OneWinner, Won, SessionOf, DoneStays, sessionVars

(* A request goes on, without having won, and at most expires its session. *)
LEMMA MovesKeepRace ==
  ASSUME RaceInv, NEW r \in Requests, NEW v \in Request \cup {Idle},
         requests' = [requests EXCEPT ![r] = v],
         v.step \notin {"dispatch", "done"},
         r \in Completers => requests[r].step # "done",
         UNCHANGED <<completedAt, billRows>>,
         \/ status' = status
         \/ \E s \in Sessions : status' = [status EXCEPT ![s] = "EXPIRED"]
  PROVE  RaceInv' /\ DoneStays
<1>1. /\ requests' \in [Requests -> Request \cup {Idle}]
      /\ requests'[r] = v
      /\ \A q \in Requests \ {r} : requests'[q] = requests[q]
  BY DEF RaceInv, SessionsTyped
<1>2. SessionsTyped'
  BY <1>1 DEF RaceInv, SessionsTyped, SessionStatus
<1>3. OpenUncompleted' /\ OneBillPerCompletion'
  BY DEF RaceInv, SessionsTyped, OpenUncompleted, OneBillPerCompletion
<1>4. WinnersCompleted' /\ OneWinner'
  BY <1>1 DEF RaceInv, WinnersCompleted, OneWinner, Won, SessionOf
<1>5. DoneStays
  BY <1>1 DEF DoneStays, Requests
<1> QED BY <1>2, <1>3, <1>4, <1>5 DEF RaceInv

(* A request whose step changes stays a request for its session.           *)
LEMMA GotoMoves ==
  ASSUME RaceInv, NEW r \in Requests, requests[r].step # "none",
         NEW t \in Steps, Goto(r, t)
  PROVE  /\ [requests[r] EXCEPT !.step = t] \in Request
         /\ [requests[r] EXCEPT !.step = t].step = t
         /\ [requests[r] EXCEPT !.step = t].session = requests[r].session
         /\ requests' = [requests EXCEPT ![r] = [requests[r] EXCEPT !.step = t]]
<1>1. requests[r] \in Request
  BY DEF RaceInv, SessionsTyped, Idle
<1> QED BY <1>1 DEF Request, Goto

LEMMA BeginKeepsRace ==
  ASSUME RaceInv, NEW r \in Requests, NEW s \in Sessions, NEW who \in Callers,
         Begin(r, s, who), r \in Completers => requests[r] = Idle,
         UNCHANGED sessionVars
  PROVE  RaceInv' /\ DoneStays
<1>1. [session |-> s, caller |-> who, step |-> "read"] \in Request
  BY DEF Request, Steps
<1>2. r \in Completers => requests[r].step # "done"
  BY DEF Idle
<1> QED BY <1>1, <1>2, MovesKeepRace DEF Begin, sessionVars

(* The database calls before the transaction.                              *)
LEMMA ReadingKeepsRace ==
  ASSUME RaceInv, NEW r \in Requests, ReadSession(r) \/ ExpireSession(r) \/ CheckPending(r)
  PROVE  RaceInv' /\ DoneStays
<1> DEFINE v(t) == [requests[r] EXCEPT !.step = t]
<1>1. /\ requests[r].step \in {"read", "expire", "check"}
      /\ UNCHANGED <<completedAt, billRows>>
      /\ \/ requests' = [requests EXCEPT ![r] = Idle]
         \/ \E t \in {"expire", "check", "refused", "tx"} : Goto(r, t)
  BY DEF ReadSession, ExpireSession, CheckPending, AfterRead, At, sessionVars
<1>2. SessionOf(r) \in Sessions
  BY <1>1 DEF RaceInv, SessionsTyped, Request, Idle, SessionOf
<1>3. \/ status' = status
      \/ \E s \in Sessions : status' = [status EXCEPT ![s] = "EXPIRED"]
  BY <1>2 DEF ReadSession, ExpireSession, CheckPending, sessionVars
<1>4. CASE requests' = [requests EXCEPT ![r] = Idle]
  <2>1. Idle.step \notin {"dispatch", "done"} /\ requests[r].step # "done"
    BY <1>1 DEF Idle
  <2> QED BY <1>1, <1>3, <1>4, <2>1, MovesKeepRace
<1>5. ASSUME NEW t \in {"expire", "check", "refused", "tx"}, Goto(r, t)
      PROVE  RaceInv' /\ DoneStays
  <2>0. t \in Steps /\ requests[r].step # "none"
    BY <1>1 DEF Steps
  <2>1. /\ v(t) \in Request /\ v(t).step = t
        /\ requests' = [requests EXCEPT ![r] = v(t)]
    BY <1>5, <2>0, GotoMoves
  <2>2. v(t).step \notin {"dispatch", "done"} /\ requests[r].step # "done"
    BY <1>1, <2>1
  <2> HIDE DEF v
  <2> QED BY <1>1, <1>3, <2>1, <2>2, MovesKeepRace
<1> QED BY <1>1, <1>4, <1>5

(* The transaction: a request that finds its session pending is the first. *)
LEMMA CompleteKeepsRace ==
  ASSUME RaceInv, NEW r \in Requests, Complete(r)
  PROVE  RaceInv' /\ DoneStays
<1> DEFINE s == SessionOf(r)
           v(t) == [requests[r] EXCEPT !.step = t]
<1>1. s \in Sessions /\ requests[r].step = "tx"
  BY DEF Complete, At, RaceInv, SessionsTyped, Request, Idle, SessionOf
<1>2. CASE ~ StillPending(s)
  <2>1. Goto(r, "refused") /\ UNCHANGED <<status, completedAt, billRows>>
    BY <1>2 DEF Complete
  <2>2. /\ v("refused") \in Request /\ v("refused").step = "refused"
        /\ requests' = [requests EXCEPT ![r] = v("refused")]
    BY <1>1, <2>1, GotoMoves DEF Steps
  <2> HIDE DEF v
  <2> QED BY <1>1, <2>1, <2>2, MovesKeepRace
<1>3. CASE StillPending(s)
  <2>1. /\ status' = [status EXCEPT ![s] = "COMPLETED"]
        /\ completedAt' = [completedAt EXCEPT ![s] = TRUE]
        /\ billRows' = [billRows EXCEPT ![s] = @ + 1]
        /\ Goto(r, "dispatch")
    BY <1>3 DEF Complete
  <2>2. /\ v("dispatch") \in Request /\ v("dispatch").step = "dispatch"
        /\ v("dispatch").session = s
        /\ requests' = [requests EXCEPT ![r] = v("dispatch")]
    BY <1>1, <2>1, GotoMoves DEF Steps, SessionOf
  <2>3. ~ completedAt[s]
    BY <1>1, <1>3 DEF StillPending, RaceInv, OpenUncompleted
  <2> HIDE DEF v, s
  <2>4. /\ requests' \in [Requests -> Request \cup {Idle}]
        /\ requests'[r].step = "dispatch" /\ requests'[r].session = s
        /\ \A q \in Requests \ {r} : requests'[q] = requests[q]
    BY <2>2 DEF RaceInv, SessionsTyped
  <2>5. SessionsTyped'
    BY <1>1, <2>1, <2>4 DEF RaceInv, SessionsTyped, SessionStatus
  <2>6. OpenUncompleted' /\ \A t \in Sessions : completedAt[t] => completedAt'[t]
    BY <1>1, <2>1 DEF RaceInv, SessionsTyped, OpenUncompleted
  <2>7. OneBillPerCompletion'
    BY <1>1, <2>1, <2>3 DEF RaceInv, SessionsTyped, OneBillPerCompletion
  <2>8. \A q \in Requests : Won(q) => SessionOf(q) # s /\ SessionOf(q) \in Sessions
    BY <2>3 DEF RaceInv, WinnersCompleted, SessionsTyped, Won, SessionOf, Request, Idle
  <2>9. WinnersCompleted' /\ OneWinner'
    BY <1>1, <2>1, <2>4, <2>6, <2>8
    DEF RaceInv, SessionsTyped, WinnersCompleted, OneWinner, Won, SessionOf
  <2>10. DoneStays
    BY <1>1, <2>4, <2>6 DEF DoneStays, Requests
  <2> QED BY <2>5, <2>6, <2>7, <2>9, <2>10 DEF RaceInv
<1> QED BY <1>2, <1>3

LEMMA CrashKeepsRace ==
  ASSUME RaceInv, NEW r \in Requests, Crash(r)
  PROVE  RaceInv' /\ DoneStays
<1> DEFINE v == [requests[r] EXCEPT !.step = "abandoned"]
<1>1. /\ requests[r].step \notin {"none", "done"} /\ UNCHANGED sessionVars
      /\ Goto(r, "abandoned")
  BY DEF Crash, Ended
<1>2. /\ v \in Request /\ v.step = "abandoned"
      /\ requests' = [requests EXCEPT ![r] = v]
  BY <1>1, GotoMoves DEF Steps
<1> HIDE DEF v
<1> QED BY <1>1, <1>2, MovesKeepRace DEF sessionVars

LEMMA CreateSessionKeepsRace ==
  ASSUME RaceInv, NEW s \in Sessions, CreateSession(s)
  PROVE  RaceInv' /\ DoneStays
<1>1. SessionsTyped' /\ OpenUncompleted'
  BY DEF CreateSession, RaceInv, SessionsTyped, OpenUncompleted, SessionStatus
<1>2. OneBillPerCompletion' /\ WinnersCompleted' /\ OneWinner' /\ DoneStays
  BY DEF CreateSession, RaceInv, OneBillPerCompletion, WinnersCompleted, OneWinner, Won,
         SessionOf, DoneStays
<1> QED BY <1>1, <1>2 DEF RaceInv

LEMMA CheckoutStepKeepsRace ==
  ASSUME RaceInv, CheckoutStep
  PROVE  RaceInv' /\ DoneStays
<1>1. ASSUME NEW s \in Sessions, CreateBillFor(s) \/ PayOnChain(s)
      PROVE  RaceInv' /\ DoneStays
  BY <1>1, OthersKeepRace DEF CreateBillFor, PayOnChain
<1>2. ASSUME NEW r \in Getters, NEW s \in Sessions, LoadPage(r, s) \/ AskSession(r, s)
      PROVE  RaceInv' /\ DoneStays
  <2>1. r \in Requests /\ r \notin Completers
    BY CheckoutAssumption DEF Requests
  <2>2. UNCHANGED sessionVars /\ \E who \in Callers : Begin(r, s, who)
    BY <1>2 DEF LoadPage, AskSession, Callers
  <2> QED BY <2>1, <2>2, BeginKeepsRace
<1>3. ASSUME NEW r \in Completers, NEW s \in Sessions, BeginComplete(r, s)
      PROVE  RaceInv' /\ DoneStays
  <2>1. r \in Requests /\ requests[r] = Idle /\ UNCHANGED sessionVars /\ Begin(r, s, "other")
    BY <1>3 DEF BeginComplete, Requests
  <2> QED BY <2>1, BeginKeepsRace DEF Callers
<1>4. ASSUME NEW r \in Requests, Serve(r) \/ Crash(r)
      PROVE  RaceInv' /\ DoneStays
  BY <1>4, ReadingKeepsRace, CompleteKeepsRace, CrashKeepsRace DEF Serve
<1> QED BY <1>1, <1>2, <1>3, <1>4, CreateSessionKeepsRace DEF CheckoutStep

(* The request that completed its session hands over to the delivery.      *)
LEMMA HandOverKeepsRace ==
  ASSUME RaceInv, NEW c \in Requests, requests[c].step = "dispatch", Goto(c, "done"),
         UNCHANGED sessionVars
  PROVE  /\ RaceInv' /\ DoneStays
         /\ requests'[c].step = "done" /\ requests'[c].session = requests[c].session
<1> DEFINE v == [requests[c] EXCEPT !.step = "done"]
<1>1. /\ v \in Request /\ v.step = "done" /\ v.session = requests[c].session
      /\ requests' = [requests EXCEPT ![c] = v]
  BY GotoMoves DEF Steps
<1> HIDE DEF v
<1>2. /\ requests' \in [Requests -> Request \cup {Idle}]
      /\ requests'[c].step = "done" /\ requests'[c].session = requests[c].session
      /\ \A q \in Requests \ {c} : requests'[q] = requests[q]
  BY <1>1 DEF RaceInv, SessionsTyped
<1>3. SessionsTyped' /\ OpenUncompleted' /\ OneBillPerCompletion'
  BY <1>2 DEF RaceInv, SessionsTyped, OpenUncompleted, OneBillPerCompletion, sessionVars
<1>4. \A q \in Requests : (Won(q)' <=> Won(q)) /\ SessionOf(q)' = SessionOf(q)
  BY <1>2 DEF Won, SessionOf
<1>5. WinnersCompleted' /\ OneWinner'
  BY <1>4 DEF RaceInv, WinnersCompleted, OneWinner, sessionVars
<1>6. DoneStays
  BY <1>2 DEF DoneStays, Requests, sessionVars
<1> QED BY <1>2, <1>3, <1>5, <1>6 DEF RaceInv

-----------------------------------------------------------------------------
(* The delivery.                                                           *)
Creating == [step : {"create"}, secret : Nat]
Loading == [step : {"load"}, row : Completers, secret : Nat]
Sending == [step : {"secret", "send"}, row : Completers, secret : Nat, read : Nat]
Storing == [step : {"store"}, row : Completers, secret : Nat, read : Nat,
            answer : {"ok", "refused", "none"}]

(* A sender's row is stored, and the shop knows what it has accepted.      *)
SenderRight(x, r) ==
  \/ r = Asleep
  \/ r \in Creating /\ x \in Completers /\ requests[x].step = "done"
  \/ r \in Loading \cup Sending /\ Stored(r.row)
  \/ /\ r \in Storing /\ Stored(r.row)
     /\ r.answer = "ok" => rows[r.row].session \in told
SendersRight == \A x \in Senders : SenderRight(x, senders[x])

DeliveryTyped ==
  /\ rows \in [Completers -> Rows \cup {NoRow}]
  /\ senders \in [Senders -> {Asleep} \cup Creating \cup Loading \cup Sending \cup Storing]
  /\ batches \in [Jobs -> SUBSET Completers]
  /\ secret \in Nat
RowsOfWinners ==
  \A d \in Completers : Stored(d) => requests[d].step = "done" /\ rows[d].session = SessionOf(d)
BatchesStored == \A j \in Jobs : \A d \in batches[j] : Stored(d)
ToldTruth ==
  /\ \A s \in told : s \in Sessions /\ completedAt[s]
  /\ \A d \in Completers : Stored(d) /\ rows[d].status = "DELIVERED" => rows[d].session \in told

DeliveryInv ==
  DeliveryTyped /\ SendersRight /\ RowsOfWinners /\ BatchesStored /\ ToldTruth

(* What no step takes back.                                                *)
Grows ==
  /\ DoneStays
  /\ \A d \in Completers : Stored(d) => Stored(d)' /\ rows'[d].session = rows[d].session
  /\ told \subseteq told'

LEMMA SenderStaysRight ==
  ASSUME Grows, NEW x \in Senders, NEW r, SenderRight(x, r)
  PROVE  SenderRight(x, r)'
<1>1. r \in Loading \cup Sending \cup Storing => r.row \in Completers
  BY DEF Loading, Sending, Storing
<1> QED BY <1>1 DEF Grows, DoneStays, SenderRight

AnySender == {Asleep} \cup Creating \cup Loading \cup Sending \cup Storing

(* Nobody moves, or one sender does and is right where it goes.            *)
LEMMA SendersStay ==
  ASSUME DeliveryInv, Grows, senders' = senders
  PROVE  SendersRight' /\ senders' \in [Senders -> AnySender]
<1>1. ASSUME NEW y \in Senders PROVE SenderRight(y, senders[y])'
  <2>1. PICK q : q = senders[y]
    OBVIOUS
  <2>2. SenderRight(y, q)
    BY <2>1 DEF DeliveryInv, SendersRight
  <2>3. SenderRight(y, q)'
    BY <2>2, SenderStaysRight
  <2> QED BY <2>1, <2>3
<1> QED BY <1>1 DEF SendersRight, DeliveryInv, DeliveryTyped, AnySender

LEMMA SenderMoves ==
  ASSUME DeliveryInv, Grows, NEW x \in Senders, NEW r, SenderGoes(x, r), SenderRight(x, r)'
  PROVE  SendersRight' /\ senders' \in [Senders -> AnySender]
<1>1. r \in AnySender
  BY DEF SenderRight, AnySender
<1>2. /\ senders' = [senders EXCEPT ![x] = r]
      /\ senders \in [Senders -> AnySender]
  BY DEF SenderGoes, DeliveryInv, DeliveryTyped, AnySender
<1>3. senders'[x] = r /\ \A y \in Senders \ {x} : senders'[y] = senders[y]
  BY <1>2
<1>4. ASSUME NEW y \in Senders \ {x} PROVE SenderRight(y, senders[y])'
  <2>1. PICK q : q = senders[y]
    OBVIOUS
  <2>2. SenderRight(y, q)
    BY <2>1 DEF DeliveryInv, SendersRight
  <2>3. SenderRight(y, q)'
    BY <2>2, SenderStaysRight
  <2>4. senders'[y] = q
    BY <1>3, <2>1
  <2> QED BY <2>3, <2>4
<1> QED BY <1>1, <1>2, <1>3, <1>4 DEF SendersRight

(* Where no row changes, the rows are still the winners'.                  *)
LEMMA RowsStay ==
  ASSUME DeliveryInv, DoneStays, rows' = rows, told \subseteq told',
         \A s \in told' \ told : s \in Sessions /\ completedAt[s]
  PROVE  Grows /\ RowsOfWinners' /\ ToldTruth'
BY DEF DeliveryInv, DeliveryTyped, DoneStays, Grows, RowsOfWinners, ToldTruth, Stored, SessionOf

LEMMA Settled ==
  ASSUME SendersRight', senders' \in [Senders -> AnySender], RowsOfWinners', ToldTruth',
         rows' \in [Completers -> Rows \cup {NoRow}], secret' \in Nat,
         batches' \in [Jobs -> SUBSET Completers], BatchesStored'
  PROVE  DeliveryInv'
BY DEF DeliveryInv, DeliveryTyped, AnySender

-----------------------------------------------------------------------------
(* The steps.                                                              *)
LEMMA DeliveryInitially == WebhookInit => RaceInv /\ DeliveryInv
<1> SUFFICES ASSUME WebhookInit PROVE RaceInv /\ DeliveryInv
  OBVIOUS
<1>1. \A d \in Completers : ~ Stored(d)
  BY DEF WebhookInit, DeliveryInit, Stored
<1>2. DeliveryTyped /\ SendersRight /\ RowsOfWinners /\ BatchesStored /\ ToldTruth
  BY <1>1 DEF WebhookInit, DeliveryInit, DeliveryTyped, SendersRight, SenderRight, Senders,
              RowsOfWinners, BatchesStored, ToldTruth
<1> QED BY <1>2, RaceInitially DEF WebhookInit, DeliveryInv

LEMMA DeliveryAlone ==
  ASSUME DeliveryInv, DoneStays, UNCHANGED deliveryVars
  PROVE  DeliveryInv'
<1>1. Grows /\ RowsOfWinners' /\ ToldTruth'
  BY RowsStay DEF deliveryVars
<1>2. SendersRight' /\ senders' \in [Senders -> AnySender]
  BY <1>1, SendersStay DEF deliveryVars
<1>3. BatchesStored'
  BY DEF deliveryVars, DeliveryInv, BatchesStored, Stored
<1> QED BY <1>1, <1>2, <1>3, Settled DEF deliveryVars, DeliveryInv, DeliveryTyped

(* The waits run down, and nothing else of a row changes.                  *)
LEMMA TickKeeps ==
  ASSUME RaceInv, DeliveryInv, WebhookTick
  PROVE  RaceInv' /\ DeliveryInv'
<1>1. RaceInv' /\ DoneStays
  BY OthersKeepRace DEF WebhookTick
<1>2. rows' \in [Completers -> Rows \cup {NoRow}]
  <2>1. rows' = [d \in Completers |-> Elapsed[d]]
    BY DEF WebhookTick, Elapsed
  <2>2. ASSUME NEW d \in Completers PROVE Elapsed[d] \in Rows \cup {NoRow}
    <3>1. rows[d] \in Rows \cup {NoRow}
      BY DEF DeliveryInv, DeliveryTyped
    <3>2. CASE Waiting(d)
      BY <3>1, <3>2 DEF Elapsed, Waiting, Stored, Rows, Never
    <3> QED BY <3>1, <3>2 DEF Elapsed
  <2> QED BY <2>1, <2>2
<1>3. \A d \in Completers : /\ Stored(d)' <=> Stored(d)
                            /\ Stored(d) => /\ rows'[d].session = rows[d].session
                                            /\ rows'[d].status = rows[d].status
  <2> SUFFICES ASSUME NEW d \in Completers
               PROVE  /\ Stored(d)' <=> Stored(d)
                      /\ Stored(d) => /\ rows'[d].session = rows[d].session
                                      /\ rows'[d].status = rows[d].status
    OBVIOUS
  <2>1. rows'[d] = IF Waiting(d) THEN [rows[d] EXCEPT !.wait = @ - 1] ELSE rows[d]
    BY DEF WebhookTick, Elapsed
  <2>2. Stored(d) => rows[d] \in Rows
    BY DEF DeliveryInv, DeliveryTyped, Stored
  <2>3. CASE Waiting(d)
    <3>1. Stored(d) /\ rows[d] \in Rows
      BY <2>2, <2>3 DEF Waiting
    <3>2. rows'[d] = [session |-> rows[d].session, status |-> rows[d].status,
                      attempts |-> rows[d].attempts, wait |-> rows[d].wait - 1]
      BY <2>1, <2>3, <3>1 DEF Rows
    <3>3. rows'[d] # NoRow
      BY <3>1, <3>2 DEF NoRow, Rows
    <3> QED BY <3>1, <3>2, <3>3 DEF Stored
  <2>4. CASE ~ Waiting(d)
    BY <2>1, <2>4 DEF Stored
  <2> QED BY <2>3, <2>4
<1>4. Grows
  BY <1>1, <1>3 DEF Grows, WebhookTick
<1>5. SendersRight' /\ senders' \in [Senders -> AnySender]
  BY <1>4, SendersStay DEF WebhookTick
<1>6. RowsOfWinners' /\ BatchesStored' /\ ToldTruth'
  BY <1>1, <1>3 DEF WebhookTick, DeliveryInv, DeliveryTyped, DoneStays, RowsOfWinners,
                    BatchesStored, ToldTruth, SessionOf
<1> QED
  BY <1>1, <1>2, <1>5, <1>6, Settled DEF WebhookTick, DeliveryInv, DeliveryTyped

LEMMA SecretsKeep ==
  ASSUME RaceInv, DeliveryInv, GenerateSecret \/ ConfigureShop
  PROVE  RaceInv' /\ DeliveryInv'
<1>0. UNCHANGED <<sessionVars, requests, rows, senders, batches, told>> /\ secret' \in Nat
  BY DEF GenerateSecret, ConfigureShop, checkoutVars, DeliveryInv, DeliveryTyped
<1>1. RaceInv' /\ DoneStays
  BY <1>0, OthersKeepRace
<1>2. Grows /\ RowsOfWinners' /\ ToldTruth'
  BY <1>0, <1>1, RowsStay
<1>3. SendersRight' /\ senders' \in [Senders -> AnySender]
  BY <1>0, <1>2, SendersStay
<1>4. BatchesStored'
  BY <1>0 DEF DeliveryInv, BatchesStored, Stored
<1> QED BY <1>0, <1>1, <1>2, <1>3, <1>4, Settled DEF DeliveryInv, DeliveryTyped

LEMMA FindSecretKeeps ==
  ASSUME RaceInv, DeliveryInv, NEW c \in Completers, FindSecret(c)
  PROVE  RaceInv' /\ DeliveryInv'
<1>1. /\ RaceInv' /\ DoneStays
      /\ requests'[c].step = "done"
  <2>1. c \in Requests /\ requests[c].step = "dispatch" /\ Goto(c, "done")
        /\ UNCHANGED sessionVars
    BY DEF FindSecret, Requests
  <2> QED BY <2>1, HandOverKeepsRace
<1>2. Grows /\ RowsOfWinners' /\ ToldTruth'
  BY <1>1, RowsStay DEF FindSecret
<1>3. SendersRight' /\ senders' \in [Senders -> AnySender]
  <2>1. CASE ~ MayNotify(SessionOf(c))
    BY <1>2, <2>1, SendersStay DEF FindSecret
  <2>2. CASE MayNotify(SessionOf(c))
    <3> DEFINE r == [step |-> "create", secret |-> secret]
    <3>1. r \in Creating
      BY DEF Creating, DeliveryInv, DeliveryTyped
    <3>2. SenderGoes(c, r) /\ c \in Senders
      BY <2>2 DEF FindSecret, SenderGoes, Senders
    <3> HIDE DEF r
    <3>3. PICK q : q = r
      OBVIOUS
    <3>4. SenderRight(c, q)'
      BY <1>1, <3>1, <3>3 DEF SenderRight
    <3>5. SenderGoes(c, q)
      BY <3>2, <3>3
    <3> QED BY <1>2, <3>2, <3>4, <3>5, SenderMoves
  <2> QED BY <2>1, <2>2
<1>4. BatchesStored'
  BY DEF FindSecret, DeliveryInv, BatchesStored, Stored
<1> QED
  BY <1>1, <1>2, <1>3, <1>4, Settled DEF FindSecret, DeliveryInv, DeliveryTyped

LEMMA CreateDeliveryKeeps ==
  ASSUME RaceInv, DeliveryInv, NEW c \in Completers, CreateDelivery(c)
  PROVE  RaceInv' /\ DeliveryInv'
<1>1. RaceInv' /\ DoneStays
  BY OthersKeepRace DEF CreateDelivery, checkoutVars
<1>2. senders[c] \in Creating /\ requests[c].step = "done"
  <2>1. SenderRight(c, senders[c])
    BY DEF DeliveryInv, SendersRight, Senders
  <2> QED BY <2>1 DEF CreateDelivery, SenderRight, Asleep, Loading, Sending, Storing
<1>3. SessionOf(c) \in Sessions
  BY <1>2 DEF RaceInv, SessionsTyped, Requests, Request, Idle, SessionOf
<1> DEFINE row == [session |-> SessionOf(c), status |-> "PENDING",
                   attempts |-> 0, wait |-> Never]
<1>4. row \in Rows /\ row # NoRow /\ row.session = SessionOf(c) /\ row.status = "PENDING"
  BY <1>3 DEF Rows, Never, NoRow
<1>5. rows' = [rows EXCEPT ![c] = row]
  BY DEF CreateDelivery
<1> HIDE DEF row
<1>6. /\ rows' \in [Completers -> Rows \cup {NoRow}] /\ rows'[c] = row
      /\ \A d \in Completers \ {c} : rows'[d] = rows[d]
  BY <1>4, <1>5 DEF DeliveryInv, DeliveryTyped
<1>7. Grows
  BY <1>1, <1>4, <1>6 DEF Grows, CreateDelivery, DeliveryInv, RowsOfWinners, Stored
<1>8. SendersRight' /\ senders' \in [Senders -> AnySender]
  <2> DEFINE r == [step |-> "load", row |-> c, secret |-> senders[c].secret]
  <2>1. PICK q : q = r
    OBVIOUS
  <2>2. q \in Loading /\ q.row = c
    BY <1>2, <2>1 DEF Loading, Creating
  <2>3. SenderGoes(c, q) /\ c \in Senders
    BY <2>1 DEF CreateDelivery, SenderGoes, Senders
  <2> HIDE DEF r
  <2>4. SenderRight(c, q)'
    BY <1>4, <1>6, <2>2 DEF SenderRight, Stored
  <2> QED BY <1>7, <2>3, <2>4, SenderMoves
<1>9. RowsOfWinners' /\ BatchesStored' /\ ToldTruth'
  BY <1>1, <1>2, <1>4, <1>6
  DEF CreateDelivery, checkoutVars, sessionVars, DeliveryInv, DeliveryTyped, RowsOfWinners,
      BatchesStored, ToldTruth, Stored, SessionOf
<1> QED
  BY <1>1, <1>6, <1>8, <1>9, Settled DEF CreateDelivery, DeliveryInv, DeliveryTyped

(* A sender goes on; no row changes, and the shop may learn of its row's.  *)
LEMMA SenderKeeps ==
  ASSUME RaceInv, DeliveryInv, NEW x \in Senders, NEW r, SenderGoes(x, r),
         UNCHANGED <<sessionVars, requests, rows, secret>>,
         \A j \in Jobs : batches'[j] \subseteq batches[j],
         batches' \in [Jobs -> SUBSET Completers],
         told \subseteq told', \A s \in told' \ told : s \in Sessions /\ completedAt[s],
         Grows => SenderRight(x, r)'
  PROVE  RaceInv' /\ DeliveryInv'
<1>1. RaceInv' /\ DoneStays
  BY OthersKeepRace
<1>2. Grows /\ RowsOfWinners' /\ ToldTruth'
  BY <1>1, RowsStay
<1>3. SenderRight(x, r)'
  BY <1>2
<1>4. SendersRight' /\ senders' \in [Senders -> AnySender]
  BY <1>2, <1>3, SenderMoves
<1>5. BatchesStored'
  BY DEF DeliveryInv, BatchesStored, Stored
<1> QED BY <1>1, <1>2, <1>4, <1>5, Settled DEF DeliveryInv, DeliveryTyped

LEMMA StartSweepKeeps ==
  ASSUME RaceInv, DeliveryInv, NEW j \in Jobs, StartSweep(j)
  PROVE  RaceInv' /\ DeliveryInv'
<1>1. RaceInv' /\ DoneStays
  BY OthersKeepRace DEF StartSweep, checkoutVars
<1>2. Grows /\ RowsOfWinners' /\ ToldTruth'
  BY <1>1, RowsStay DEF StartSweep
<1>3. SendersRight' /\ senders' \in [Senders -> AnySender]
  BY <1>2, SendersStay DEF StartSweep
<1>4. PICK taken \in SUBSET {d \in Completers : Due(d)} :
        batches' = [batches EXCEPT ![j] = taken]
  BY DEF StartSweep
<1>5. \A d \in taken : d \in Completers /\ Stored(d)
  BY DEF Due
<1>6. BatchesStored' /\ batches' \in [Jobs -> SUBSET Completers]
  BY <1>4, <1>5 DEF StartSweep, DeliveryInv, DeliveryTyped, BatchesStored, Stored
<1> QED
  BY <1>1, <1>2, <1>3, <1>6, Settled DEF StartSweep, DeliveryInv, DeliveryTyped

LEMMA NextInBatchKeeps ==
  ASSUME RaceInv, DeliveryInv, NEW j \in Jobs, NextInBatch(j)
  PROVE  RaceInv' /\ DeliveryInv'
<1>1. PICK d \in batches[j] :
        /\ batches' = [batches EXCEPT ![j] = @ \ {d}]
        /\ senders' = [senders EXCEPT ![j] = [step |-> "load", row |-> d, secret |-> 0]]
  BY DEF NextInBatch
<1>2. d \in Completers /\ Stored(d)
  BY DEF DeliveryInv, DeliveryTyped, BatchesStored
<1>3. PICK r : r = [step |-> "load", row |-> d, secret |-> 0]
  OBVIOUS
<1>4. r \in Loading /\ r.row = d
  BY <1>2, <1>3 DEF Loading
<1>5. SenderGoes(j, r) /\ j \in Senders
  BY <1>1, <1>3 DEF SenderGoes, Senders
<1>6. Grows => SenderRight(j, r)'
  BY <1>2, <1>4 DEF Grows, SenderRight
<1>7. /\ \A k \in Jobs : batches'[k] \subseteq batches[k]
      /\ batches' \in [Jobs -> SUBSET Completers]
  BY <1>1 DEF DeliveryInv, DeliveryTyped
<1> QED BY <1>5, <1>6, <1>7, SenderKeeps DEF NextInBatch, checkoutVars

(* What the step of a sender says of it.                                   *)
LEMMA AtItsStep ==
  ASSUME DeliveryInv, NEW x \in Senders
  PROVE  /\ senders[x].step = "load" => senders[x] \in Loading /\ Stored(RowOf(x))
         /\ senders[x].step \in {"secret", "send"} => senders[x] \in Sending /\ Stored(RowOf(x))
         /\ senders[x].step = "store" =>
              /\ senders[x] \in Storing /\ Stored(RowOf(x))
              /\ senders[x].answer = "ok" => rows[RowOf(x)].session \in told
<1>1. SenderRight(x, senders[x])
  BY DEF DeliveryInv, SendersRight
<1> QED BY <1>1 DEF SenderRight, RowOf, Asleep, Creating, Loading, Sending, Storing

LEMMA LoadKeeps ==
  ASSUME RaceInv, DeliveryInv, NEW x \in Senders, Load(x)
  PROVE  RaceInv' /\ DeliveryInv'
<1>1. senders[x] \in Loading /\ Stored(RowOf(x))
  BY AtItsStep DEF Load
<1>2. RowOf(x) \in Completers /\ senders[x].secret \in Nat
  BY <1>1 DEF Loading, RowOf
<1>3. rows[RowOf(x)].attempts \in Nat
  BY <1>1, <1>2 DEF DeliveryInv, DeliveryTyped, Stored, Rows
<1>4. PICK r : /\ SenderGoes(x, r)
               /\ r = Asleep \/ (r \in Sending /\ r.row = RowOf(x))
  <2>1. CASE rows[RowOf(x)].status = "DELIVERED"
    BY <2>1 DEF Load
  <2>2. CASE rows[RowOf(x)].status # "DELIVERED"
    <3> DEFINE r == [step |-> IF x \in Jobs THEN "secret" ELSE "send", row |-> RowOf(x),
                     secret |-> senders[x].secret, read |-> rows[RowOf(x)].attempts]
    <3>1. r \in Sending /\ r.row = RowOf(x)
      BY <1>2, <1>3 DEF Sending
    <3>2. SenderGoes(x, r)
      BY <2>2 DEF Load
    <3> QED BY <3>1, <3>2
  <2> QED BY <2>1, <2>2
<1>5. Grows => SenderRight(x, r)'
  <2>1. RowOf(x) \in Completers /\ Stored(RowOf(x))
    BY <1>1, <1>2
  <2>2. Grows => \A d \in Completers : Stored(d) => Stored(d)'
    BY DEF Grows
  <2>3. PICK d : d = RowOf(x)
    OBVIOUS
  <2>4. Grows => Stored(d)'
    BY <2>1, <2>2, <2>3
  <2> QED BY <1>4, <2>3, <2>4 DEF SenderRight
<1> QED BY <1>4, <1>5, SenderKeeps DEF Load, checkoutVars, DeliveryInv, DeliveryTyped

LEMMA LookUpSecretKeeps ==
  ASSUME RaceInv, DeliveryInv, NEW x \in Senders, LookUpSecret(x)
  PROVE  RaceInv' /\ DeliveryInv'
<1>1. senders[x] \in Sending /\ Stored(RowOf(x)) /\ secret \in Nat
  BY AtItsStep DEF LookUpSecret, DeliveryInv, DeliveryTyped
<1>2. PICK d : d = RowOf(x) /\ d \in Completers /\ Stored(d)
  BY <1>1 DEF Sending, RowOf
<1>3. PICK r : r = [senders[x] EXCEPT !.step = "send", !.secret = secret]
  OBVIOUS
<1>4. r \in Sending /\ r.row = d
  BY <1>1, <1>2, <1>3 DEF Sending, RowOf
<1>5. SenderGoes(x, r)
  BY <1>3 DEF LookUpSecret
<1>6. Grows => SenderRight(x, r)'
  BY <1>2, <1>4 DEF Grows, SenderRight
<1> QED BY <1>5, <1>6, SenderKeeps DEF LookUpSecret, checkoutVars, DeliveryInv, DeliveryTyped

LEMMA SendKeeps ==
  ASSUME RaceInv, DeliveryInv, NEW x \in Senders, Send(x)
  PROVE  RaceInv' /\ DeliveryInv'
<1>1. senders[x] \in Sending /\ Stored(RowOf(x))
  BY AtItsStep DEF Send
<1>2. PICK d : d = RowOf(x) /\ d \in Completers /\ Stored(d)
  BY <1>1 DEF Sending, RowOf
<1>3. PICK answer \in {"ok", "refused", "none"} :
        /\ SenderGoes(x, [step |-> "store", row |-> d, secret |-> senders[x].secret,
                          read |-> senders[x].read, answer |-> answer])
        /\ told' \in {told, told \cup {rows[d].session}}
        /\ answer = "ok" => told' = told \cup {rows[d].session}
  BY <1>2, Zenon DEF Send
<1>4. PICK r : r = [step |-> "store", row |-> d, secret |-> senders[x].secret,
                    read |-> senders[x].read, answer |-> answer]
  OBVIOUS
<1>5. SenderGoes(x, r)
  BY <1>3, <1>4
<1>6. r \in Storing /\ r.row = d /\ r.answer = answer
  BY <1>1, <1>2, <1>4 DEF Sending, Storing
<1>7. rows[d].session \in Sessions /\ completedAt[rows[d].session]
  <2>1. requests[d].step = "done" /\ rows[d].session = SessionOf(d) /\ d \in Requests
    BY <1>2 DEF DeliveryInv, RowsOfWinners, Requests
  <2>2. completedAt[SessionOf(d)]
    BY <2>1 DEF RaceInv, WinnersCompleted, Won
  <2>3. SessionOf(d) \in Sessions
    BY <2>1 DEF RaceInv, SessionsTyped, Request, Idle, SessionOf
  <2> QED BY <2>1, <2>2, <2>3
<1>8. told \subseteq told' /\ \A s \in told' \ told : s \in Sessions /\ completedAt[s]
  BY <1>3, <1>7
<1>9. Grows => SenderRight(x, r)'
  <2> SUFFICES ASSUME Grows PROVE SenderRight(x, r)'
    OBVIOUS
  <2>1. Stored(d)' /\ rows' = rows
    BY <1>2 DEF Grows, Send
  <2>2. r.answer = "ok" => rows'[d].session \in told'
    BY <1>3, <1>6, <2>1
  <2> QED BY <1>6, <2>1, <2>2 DEF SenderRight
<1> QED BY <1>5, <1>8, <1>9, SenderKeeps DEF Send, checkoutVars, DeliveryInv, DeliveryTyped

LEMMA CrashSenderKeeps ==
  ASSUME RaceInv, DeliveryInv, NEW x \in Senders, CrashSender(x)
  PROVE  RaceInv' /\ DeliveryInv'
<1>1. /\ \A j \in Jobs : batches'[j] \subseteq batches[j]
      /\ batches' \in [Jobs -> SUBSET Completers]
  BY DEF CrashSender, DeliveryInv, DeliveryTyped
<1>2. SenderGoes(x, Asleep) /\ SenderRight(x, Asleep)'
  BY DEF CrashSender, SenderRight
<1> QED BY <1>1, <1>2, SenderKeeps DEF CrashSender

(* The answer is written to the row, which keeps its session.              *)
LEMMA StoreAnswerKeeps ==
  ASSUME RaceInv, DeliveryInv, NEW x \in Senders, StoreAnswer(x)
  PROVE  RaceInv' /\ DeliveryInv'
<1>1. /\ senders[x] \in Storing /\ Stored(RowOf(x))
      /\ senders[x].answer = "ok" => rows[RowOf(x)].session \in told
  BY AtItsStep DEF StoreAnswer
<1>2. PICK d : d = RowOf(x)
  OBVIOUS
<1>3. PICK answer : answer = senders[x].answer
  OBVIOUS
<1>4. PICK n : n = senders[x].read + 1
  OBVIOUS
<1>5. d \in Completers /\ answer \in {"ok", "refused", "none"} /\ n \in Nat \ {0}
  BY <1>1, <1>2, <1>3, <1>4 DEF Storing, RowOf
<1>6. rows[d] \in Rows
  BY <1>1, <1>2, <1>5 DEF DeliveryInv, DeliveryTyped, Stored
<1>7. NextRetry(n) \in Nat \cup {Never}
  BY <1>5, WebhookAssumption DEF NextRetry
<1>8. /\ StatusFor(answer, n) \in {"PENDING", "DELIVERED", "FAILED"}
      /\ StatusFor(answer, n) = "DELIVERED" => answer = "ok"
  BY <1>5 DEF StatusFor
<1>9. PICK row : row = [session |-> rows[d].session, status |-> StatusFor(answer, n),
                        attempts |-> n,
                        wait |-> IF answer = "ok" THEN rows[d].wait ELSE NextRetry(n)]
  OBVIOUS
<1>10. /\ row \in Rows /\ row # NoRow
       /\ row.session = rows[d].session /\ row.status = StatusFor(answer, n)
  BY <1>5, <1>6, <1>7, <1>8, <1>9 DEF Rows, NoRow
<1>11. rows' = [rows EXCEPT ![d] = row]
  BY <1>2, <1>3, <1>4, <1>9 DEF StoreAnswer
<1>12. /\ rows' \in [Completers -> Rows \cup {NoRow}] /\ rows'[d] = row
       /\ \A e \in Completers \ {d} : rows'[e] = rows[e]
  BY <1>5, <1>10, <1>11 DEF DeliveryInv, DeliveryTyped
<1>13. RaceInv' /\ DoneStays
  BY OthersKeepRace DEF StoreAnswer, checkoutVars
<1>14. Grows
  BY <1>10, <1>12, <1>13 DEF Grows, StoreAnswer, Stored
<1>15. SendersRight' /\ senders' \in [Senders -> AnySender]
  <2>1. SenderGoes(x, Asleep) /\ SenderRight(x, Asleep)'
    BY DEF StoreAnswer, SenderRight
  <2> QED BY <1>14, <2>1, SenderMoves
<1>16. RowsOfWinners' /\ BatchesStored'
  <2>1. Stored(d) /\ UNCHANGED <<requests, batches>>
    BY <1>1, <1>2 DEF StoreAnswer, checkoutVars
  <2>2. RowsOfWinners'
    BY <1>10, <1>12, <2>1 DEF DeliveryInv, RowsOfWinners, Stored, SessionOf
  <2>3. BatchesStored'
    BY <1>10, <1>12, <2>1 DEF DeliveryInv, DeliveryTyped, BatchesStored, Stored
  <2> QED BY <2>2, <2>3
<1>17. ToldTruth'
  <2>1. row.status = "DELIVERED" => row.session \in told
    BY <1>1, <1>2, <1>3, <1>8, <1>10
  <2>2. told' = told /\ UNCHANGED completedAt
    BY DEF StoreAnswer, checkoutVars, sessionVars
  <2> QED BY <1>12, <2>1, <2>2 DEF DeliveryInv, ToldTruth, Stored
<1> QED
  BY <1>12, <1>13, <1>15, <1>16, <1>17, Settled
  DEF StoreAnswer, checkoutVars, DeliveryInv, DeliveryTyped

LEMMA StepKeeps ==
  ASSUME RaceInv, DeliveryInv, [WebhookNext]_webhookVars
  PROVE  RaceInv' /\ DeliveryInv'
<1>1. CASE CheckoutStep /\ UNCHANGED deliveryVars
  BY <1>1, CheckoutStepKeepsRace, DeliveryAlone
<1>2. ASSUME NEW x \in Senders, Deliver(x)
      PROVE  RaceInv' /\ DeliveryInv'
  BY <1>2, LoadKeeps, LookUpSecretKeeps, SendKeeps, StoreAnswerKeeps DEF Deliver
<1>3. ASSUME NEW c \in Completers, Dispatch(c)
      PROVE  RaceInv' /\ DeliveryInv'
  BY <1>2, <1>3, FindSecretKeeps, CreateDeliveryKeeps DEF Dispatch, Senders
<1>4. ASSUME NEW j \in Jobs, Sweep(j)
      PROVE  RaceInv' /\ DeliveryInv'
  BY <1>2, <1>4, StartSweepKeeps, NextInBatchKeeps DEF Sweep, Senders
<1>5. CASE UNCHANGED webhookVars
  <2>1. UNCHANGED <<sessionVars, requests, deliveryVars>>
    BY <1>5 DEF webhookVars, checkoutVars
  <2>2. RaceInv' /\ DoneStays
    BY <2>1, OthersKeepRace
  <2> QED BY <2>1, <2>2, DeliveryAlone
<1> QED
  BY <1>1, <1>3, <1>4, <1>5, TickKeeps, SecretsKeep, CrashSenderKeeps DEF WebhookNext

(* A winner of the race is its session's only one, and only a winner       *)
(* stores a delivery.                                                      *)
LEMMA OnceAtMost ==
  ASSUME RaceInv, DeliveryInv
  PROVE  CompletedOnce
<1>1. ASSUME NEW s \in Sessions
      PROVE  Cardinality(RowsOf(s)) <= billRows[s]
  <2>1. \A d \in RowsOf(s) : Won(d) /\ SessionOf(d) = s /\ d \in Requests
    BY DEF RowsOf, DeliveryInv, RowsOfWinners, Won, Requests
  <2>2. \A c, d \in RowsOf(s) : c = d
    BY <2>1 DEF RaceInv, OneWinner
  <2>3. CASE RowsOf(s) = {}
    BY <2>3, FS_EmptySet DEF RaceInv, SessionsTyped
  <2>4. CASE RowsOf(s) # {}
    <3>1. PICK d \in RowsOf(s) : RowsOf(s) = {d}
      BY <2>2, <2>4
    <3>2. completedAt[s]
      BY <2>1 DEF RaceInv, WinnersCompleted
    <3>3. billRows[s] = 1
      BY <3>2 DEF RaceInv, OneBillPerCompletion
    <3>4. Cardinality(RowsOf(s)) = 1
      BY <3>1, FS_Singleton
    <3> QED BY <3>3, <3>4
  <2> QED BY <2>3, <2>4
<1> QED
  BY <1>1 DEF RaceInv, DeliveryInv, ToldTruth, CompletedOnce, NotifiedOnce

(* However the requests for a session interleave, and whatever the server  *)
(* abandons, it is completed once, with one bill, its merchant is told of  *)
(* it through one delivery at most, and of nothing that did not happen     *)
(* (lib/checkout/session.ts, lib/checkout/webhook.ts).                     *)
THEOREM CompletedOnceAlways == WebhookSpec => []CompletedOnce
<1>1. RaceInv /\ DeliveryInv /\ [WebhookNext]_webhookVars => RaceInv' /\ DeliveryInv'
  BY StepKeeps
<1>2. RaceInv /\ DeliveryInv => CompletedOnce
  BY OnceAtMost
<1> QED BY DeliveryInitially, <1>1, <1>2, PTL DEF WebhookSpec

-----------------------------------------------------------------------------
(* The attempts.  Who has a row in hand, for its next or its last step.    *)
OnRow(x, d) == senders[x] # Asleep /\ senders[x].step # "create" /\ senders[x].row = d
Queued(x, d) == x \in Jobs /\ d \in batches[x]
Holds(x, d) == OnRow(x, d) \/ Queued(x, d)
Posting(x, d) == OnRow(x, d) /\ senders[x].step = "store"

Fresh(d) == rows[d].status = "PENDING" /\ rows[d].attempts = 0 /\ rows[d].wait = Never

(* A row's first sender is alone with it as long as it was never tried.    *)
FirstRight(d) ==
  /\ ~ Stored(d) => sent[d] = 0 /\ d \notin overlapped
  /\ senders[d].step = "create" => ~ Stored(d)
  /\ \A c \in Completers : OnRow(c, d) => c = d /\ Fresh(d) /\ d \notin overlapped
  /\ \A j \in Jobs : Queued(j, d) => ~ OnRow(j, d)

(* A row no two sweeps have held is in one hand at most, still due while a *)
(* sweep has it; its sender has read its attempts as they still are.       *)
SoleHolder(d) == \A x, y \in Senders : Holds(x, d) /\ Holds(y, d) => x = y
StillDue(d) == \A j \in Jobs : Holds(j, d) => Due(d)
ReadCurrent(d) ==
  \A x \in Senders : OnRow(x, d) /\ senders[x].step # "load" =>
    senders[x].read = rows[d].attempts

(* Requests sent that neither the row counts nor a sender will.            *)
Uncounted(d) ==
  sent[d] - rows[d].attempts - (IF \E x \in Senders : Posting(x, d) THEN 1 ELSE 0)
Counted(d) == rows[d].attempts \in 0 .. MaxAttempts /\ Uncounted(d) \in 0 .. crashes
Remembered(d) ==
  rows[d].status = "PENDING" /\ rows[d].attempts < MaxAttempts /\ rows[d].wait = Never =>
    rows[d].attempts = 0 /\ (OnRow(d, d) \/ crashes > 0)

RowRight(d) ==
  /\ FirstRight(d)
  /\ Stored(d) /\ d \notin overlapped =>
       SoleHolder(d) /\ StillDue(d) /\ ReadCurrent(d) /\ Counted(d) /\ Remembered(d)

AttemptInv ==
  /\ sent \in [Completers -> Nat] /\ crashes \in Nat
  /\ \A d \in Completers : RowRight(d)

LEMMA AttemptInitially == WebhookInit => AttemptInv
<1> SUFFICES ASSUME WebhookInit PROVE AttemptInv
  OBVIOUS
<1>1. ASSUME NEW d \in Completers PROVE RowRight(d)
  <2>1. ~ Stored(d) /\ sent[d] = 0 /\ overlapped = {}
    BY DEF WebhookInit, DeliveryInit, Stored
  <2>2. \A x \in Senders : ~ OnRow(x, d) /\ ~ Queued(x, d)
    BY DEF WebhookInit, DeliveryInit, OnRow, Queued
  <2>3. FirstRight(d)
    BY <2>1, <2>2 DEF FirstRight, Senders
  <2> QED BY <2>1, <2>3 DEF RowRight
<1> QED BY <1>1 DEF AttemptInv, WebhookInit, DeliveryInit, CheckoutInit

(* A sender on a row has one of the records of a sender, for a stored row. *)
LEMMA OnStoredRow ==
  ASSUME DeliveryInv, NEW x \in Senders, NEW d \in Completers, Holds(x, d)
  PROVE  /\ Stored(d)
         /\ OnRow(x, d) => senders[x] \in Loading \cup Sending \cup Storing
<1>1. CASE OnRow(x, d)
  <2>1. SenderRight(x, senders[x]) /\ senders[x] # Asleep /\ senders[x].step # "create"
    BY <1>1 DEF DeliveryInv, SendersRight, OnRow
  <2>2. senders[x] \in Loading \cup Sending \cup Storing /\ Stored(senders[x].row)
    BY <2>1 DEF SenderRight, Creating
  <2> QED BY <1>1, <2>2 DEF OnRow
<1>2. CASE Queued(x, d) /\ ~ OnRow(x, d)
  BY <1>2 DEF DeliveryInv, BatchesStored, Queued
<1> QED BY <1>1, <1>2 DEF Holds

(* What a row whose sender does not move goes through: time, at most.      *)
Aged(d) ==
  /\ Stored(d)' <=> Stored(d)
  /\ Stored(d) =>
       /\ rows'[d].status = rows[d].status /\ rows'[d].attempts = rows[d].attempts
       /\ rows'[d].wait = rows[d].wait \/ (rows[d].wait > 0 /\ rows'[d].wait \in Nat)

LEMMA OtherRow ==
  ASSUME NEW d \in Completers, RowRight(d), Aged(d), sent'[d] = sent[d], sent[d] \in Nat,
         Stored(d) => rows[d] \in Rows,
         d \in overlapped' <=> d \in overlapped,
         crashes \in Nat, crashes' \in Nat, crashes' >= crashes,
         \A x \in Senders : /\ OnRow(x, d)' <=> OnRow(x, d)
                            /\ OnRow(x, d) => senders'[x] = senders[x]
                            /\ Queued(x, d)' => Queued(x, d),
         senders'[d].step = "create" => ~ Stored(d)
  PROVE  RowRight(d)'
<1>0. \A x \in Senders : Holds(x, d)' => Holds(x, d)
  BY DEF Holds
<1>1. FirstRight(d)'
  <2>1. /\ ~ Stored(d) => sent[d] = 0 /\ d \notin overlapped
        /\ \A c \in Completers : OnRow(c, d) => c = d /\ Fresh(d) /\ d \notin overlapped
        /\ \A j \in Jobs : Queued(j, d) => ~ OnRow(j, d)
    BY DEF RowRight, FirstRight
  <2>2. Stored(d) /\ Fresh(d) => Fresh(d)'
    BY DEF Aged, Fresh, Never
  <2>3. \A c \in Completers : c \in Senders
    BY DEF Senders
  <2>4. \A c \in Completers : OnRow(c, d)' => c = d /\ Fresh(d)' /\ d \notin overlapped'
    <3> SUFFICES ASSUME NEW c \in Completers, OnRow(c, d)'
                 PROVE  c = d /\ Fresh(d)' /\ d \notin overlapped'
      OBVIOUS
    <3>1. OnRow(c, d) /\ c = d /\ Fresh(d) /\ d \notin overlapped
      BY <2>1, <2>3
    <3>2. Stored(d)
      BY <3>1 DEF Fresh, Stored, NoRow
    <3> QED BY <2>2, <3>1, <3>2
  <2>5. \A j \in Jobs : Queued(j, d)' => ~ OnRow(j, d)'
    BY <2>1 DEF Senders
  <2>6. /\ ~ Stored(d)' => sent'[d] = 0 /\ d \notin overlapped'
        /\ senders'[d].step = "create" => ~ Stored(d)'
    BY <2>1 DEF Aged
  <2> QED BY <2>4, <2>5, <2>6 DEF FirstRight
<1>2. ASSUME Stored(d)', d \notin overlapped'
      PROVE  (SoleHolder(d) /\ StillDue(d) /\ ReadCurrent(d) /\ Counted(d) /\ Remembered(d))'
  <2>1. /\ SoleHolder(d) /\ StillDue(d) /\ ReadCurrent(d) /\ Counted(d) /\ Remembered(d)
        /\ Stored(d) /\ rows[d] \in Rows
    BY <1>2 DEF RowRight, Aged
  <2>2. /\ rows'[d].status = rows[d].status /\ rows'[d].attempts = rows[d].attempts
        /\ rows'[d].wait = rows[d].wait \/ (rows[d].wait > 0 /\ rows'[d].wait \in Nat)
    BY <2>1 DEF Aged
  <2>3. SoleHolder(d)'
    BY <1>0, <2>1 DEF SoleHolder
  <2>4. StillDue(d)'
    <3>1. Due(d) => Due(d)'
      BY <1>2, <2>2 DEF Due
    <3> QED BY <1>0, <2>1, <3>1 DEF StillDue, Senders
  <2>5. ReadCurrent(d)'
    BY <2>1, <2>2 DEF ReadCurrent
  <2>6. Counted(d)'
    <3>1. (\E x \in Senders : Posting(x, d))' <=> \E x \in Senders : Posting(x, d)
      BY DEF Posting
    <3>2. Uncounted(d)' = Uncounted(d)
      BY <2>2, <3>1 DEF Uncounted
    <3> QED BY <2>1, <2>2, <3>2 DEF Counted
  <2>7. Remembered(d)'
    <3>1. rows'[d].wait = Never => rows[d].wait = Never
      BY <2>1, <2>2 DEF Never
    <3> QED BY <2>1, <2>2, <3>1 DEF Remembered, Senders
  <2> QED BY <2>3, <2>4, <2>5, <2>6, <2>7
<1> QED BY <1>1, <1>2 DEF RowRight

(* A row that nobody but x has in hand.                                    *)
LEMMA HandledBy ==
  ASSUME NEW d \in Completers, NEW x \in Senders,
         \A y \in Senders \ {x} : ~ Holds(y, d)',
         x \in Jobs /\ Holds(x, d)' => Due(d)',
         OnRow(x, d)' /\ senders'[x].step # "load" => senders'[x].read = rows'[d].attempts,
         rows'[d].attempts \in 0 .. MaxAttempts,
         sent'[d] - rows'[d].attempts - (IF Posting(x, d)' THEN 1 ELSE 0) \in 0 .. crashes',
         Remembered(d)'
  PROVE  (SoleHolder(d) /\ StillDue(d) /\ ReadCurrent(d) /\ Counted(d) /\ Remembered(d))'
<1>1. SoleHolder(d)' /\ StillDue(d)'
  BY DEF SoleHolder, StillDue, Senders
<1>2. ReadCurrent(d)'
  BY DEF ReadCurrent, Holds
<1>3. (\E y \in Senders : Posting(y, d))' <=> Posting(x, d)'
  BY DEF Posting, Holds
<1>4. Counted(d)'
  BY <1>3 DEF Counted, Uncounted
<1> QED BY <1>1, <1>2, <1>4

(* A sender x on row d moves on, still on it or done with it.              *)
LEMMA OwnRow ==
  ASSUME DeliveryInv, NEW d \in Completers, NEW x \in Senders, NEW r,
         RowRight(d), OnRow(x, d), SenderGoes(x, r), Stored(d)',
         r = Asleep \/ (r.row = d /\ r.step # "create" /\ (x \in Completers => Fresh(d)')),
         \A j \in Jobs : batches'[j] \subseteq batches[j],
         overlapped' = overlapped
  PROVE  /\ FirstRight(d)' /\ Stored(d) /\ (x \in Completers => d \notin overlapped)
         /\ senders'[x] = r /\ ~ Queued(x, d)'
         /\ d \notin overlapped =>
              /\ \A y \in Senders \ {x} : ~ Holds(y, d) /\ ~ Holds(y, d)'
              /\ \A y \in Senders : Posting(y, d) <=> y = x /\ senders[x].step = "store"
              /\ x \in Jobs => Due(d)
<1>1. Stored(d) /\ FirstRight(d)
  BY OnStoredRow DEF RowRight, Holds
<1>2. senders'[x] = r /\ \A y \in Senders \ {x} : senders'[y] = senders[y]
  BY DEF SenderGoes, DeliveryInv, DeliveryTyped
<1>3. \A y \in Senders \ {x} : OnRow(y, d)' <=> OnRow(y, d)
  BY <1>2 DEF OnRow
<1>4. \A y \in Senders : Queued(y, d)' => Queued(y, d)
  BY DEF Queued
<1>5. x \in Completers => x = d /\ d \notin overlapped
  BY <1>1 DEF FirstRight
<1>6. ~ Queued(x, d)'
  BY <1>1, <1>4 DEF FirstRight, Queued
<1>7. FirstRight(d)'
  <2>1. \A c \in Completers : OnRow(c, d)' => c = d /\ Fresh(d)' /\ d \notin overlapped'
    <3> SUFFICES ASSUME NEW c \in Completers, OnRow(c, d)'
                 PROVE  c = d /\ Fresh(d)' /\ d \notin overlapped'
      OBVIOUS
    <3>1. CASE c = x
      BY <1>2, <1>5, <3>1 DEF OnRow
    <3>2. CASE c # x
      <4>1. OnRow(c, d) /\ c = d /\ d \notin overlapped
        BY <1>1, <1>3, <3>2 DEF FirstRight, Senders
      <4>2. SoleHolder(d)
        BY <1>1, <4>1 DEF RowRight
      <4> QED BY <3>2, <4>1, <4>2 DEF SoleHolder, Holds, Senders
    <3> QED BY <3>1, <3>2
  <2>2. \A j \in Jobs : Queued(j, d)' => ~ OnRow(j, d)'
    BY <1>1, <1>3, <1>4, <1>6 DEF FirstRight, Senders
  <2>3. senders'[d].step = "create" => ~ Stored(d)'
    <3>1. d \in Senders
      BY DEF Senders
    <3> QED BY <1>1, <1>2, <3>1 DEF FirstRight, Asleep
  <2> QED BY <2>1, <2>2, <2>3 DEF FirstRight
<1>8. ASSUME d \notin overlapped
      PROVE  /\ \A y \in Senders \ {x} : ~ Holds(y, d) /\ ~ Holds(y, d)'
             /\ \A y \in Senders : Posting(y, d) <=> y = x /\ senders[x].step = "store"
             /\ x \in Jobs => Due(d)
  <2>1. SoleHolder(d) /\ StillDue(d)
    BY <1>1, <1>8 DEF RowRight
  <2>2. \A y \in Senders \ {x} : ~ Holds(y, d)
    BY <2>1 DEF SoleHolder, Holds
  <2> QED BY <1>3, <1>4, <2>1, <2>2 DEF Holds, Posting, StillDue
<1> QED BY <1>1, <1>2, <1>5, <1>6, <1>7, <1>8

(* The steps of a sender with its row.                                     *)
LEMMA OwnStep ==
  ASSUME RaceInv, DeliveryInv, AttemptInv, NEW x \in Senders, NEW d \in Completers,
         OnRow(x, d), Deliver(x) \/ CrashSender(x), DeliveryInv'
  PROVE  RowRight(d)' /\ sent'[d] \in Nat
<1>1. /\ RowRight(d) /\ Stored(d) /\ rows[d] \in Rows /\ rows \in [Completers -> Rows \cup {NoRow}]
      /\ senders[x] \in Loading \cup Sending \cup Storing /\ RowOf(x) = d
      /\ sent \in [Completers -> Nat] /\ crashes \in Nat /\ FirstRight(d)
  BY OnStoredRow DEF Holds, AttemptInv, RowRight, RowOf, OnRow, DeliveryInv, DeliveryTyped, Stored
<1>2. x \in Completers => Fresh(d)
  BY <1>1 DEF FirstRight
<1>3. ASSUME d \notin overlapped
      PROVE  /\ SoleHolder(d) /\ StillDue(d) /\ ReadCurrent(d) /\ Counted(d) /\ Remembered(d)
             /\ rows[d].attempts < MaxAttempts /\ rows[d].status = "PENDING"
             /\ x \in Jobs => rows[d].wait # Never
  <2>1. SoleHolder(d) /\ StillDue(d) /\ ReadCurrent(d) /\ Counted(d) /\ Remembered(d)
    BY <1>1, <1>3 DEF RowRight
  <2>2. CASE x \in Completers
    BY <1>2, <2>1, <2>2, WebhookAssumption DEF Fresh, Requests
  <2>3. CASE x \in Jobs
    BY <2>1, <2>3 DEF StillDue, Holds, Due, Never
  <2> QED BY <2>1, <2>2, <2>3, WebhookAssumption DEF Senders, Requests
<1>4. CASE Load(x) \/ LookUpSecret(x)
  <2>0. UNCHANGED <<rows, batches, sent, overlapped, crashes>>
    BY <1>4 DEF Load, LookUpSecret, checkoutVars
  <2>1. PICK r : /\ SenderGoes(x, r)
                 /\ \/ r = Asleep /\ senders[x].step = "load" /\ rows[d].status = "DELIVERED"
                    \/ /\ r.row = d /\ r.step \in {"secret", "send"}
                       /\ senders[x].step = "load" => r.read = rows[d].attempts
                       /\ senders[x].step # "load" => r.read = senders[x].read
                 /\ senders[x].step # "store"
    <3>1. CASE Load(x) /\ rows[d].status = "DELIVERED"
      BY <1>1, <3>1 DEF Load
    <3>2. CASE Load(x) /\ rows[d].status # "DELIVERED"
      <4> DEFINE r == [step |-> IF x \in Jobs THEN "secret" ELSE "send", row |-> d,
                       secret |-> senders[x].secret, read |-> rows[d].attempts]
      <4>1. SenderGoes(x, r) /\ senders[x].step = "load"
        BY <1>1, <3>2 DEF Load
      <4>2. r.row = d /\ r.step \in {"secret", "send"} /\ r.read = rows[d].attempts
        OBVIOUS
      <4> HIDE DEF r
      <4> QED BY <4>1, <4>2
    <3>3. CASE LookUpSecret(x)
      <4> DEFINE r == [senders[x] EXCEPT !.step = "send", !.secret = secret]
      <4>1. SenderGoes(x, r) /\ senders[x].step = "secret"
        BY <3>3 DEF LookUpSecret
      <4>2. senders[x] \in Sending
        BY <1>1, <4>1 DEF Loading, Storing
      <4>3. r.row = d /\ r.step \in {"secret", "send"} /\ r.read = senders[x].read
        BY <1>1, <4>2 DEF Sending, RowOf
      <4> HIDE DEF r
      <4> QED BY <4>1, <4>3
    <3> QED BY <1>4, <3>1, <3>2, <3>3
  <2>2. /\ FirstRight(d)' /\ (x \in Completers => d \notin overlapped)
        /\ senders'[x] = r /\ ~ Queued(x, d)'
        /\ d \notin overlapped =>
             /\ \A y \in Senders \ {x} : ~ Holds(y, d) /\ ~ Holds(y, d)'
             /\ \A y \in Senders : Posting(y, d) <=> y = x /\ senders[x].step = "store"
             /\ x \in Jobs => Due(d)
    <3>1. r = Asleep \/ (r.row = d /\ r.step # "create" /\ (x \in Completers => Fresh(d)'))
      BY <1>2, <2>0, <2>1 DEF Fresh
    <3>2. Stored(d)' /\ overlapped' = overlapped /\ \A j \in Jobs : batches'[j] \subseteq batches[j]
      BY <1>1, <2>0 DEF Stored
    <3> QED BY <1>1, <2>1, <3>1, <3>2, OwnRow
  <2>3. ASSUME d \notin overlapped
        PROVE  (SoleHolder(d) /\ StillDue(d) /\ ReadCurrent(d) /\ Counted(d) /\ Remembered(d))'
    <3>1. /\ r.row = d /\ r.step \in {"secret", "send"} /\ r.read = rows[d].attempts
          /\ r # Asleep
      BY <1>1, <1>3, <2>1, <2>3 DEF ReadCurrent, Asleep
    <3>2. OnRow(x, d)' /\ ~ Posting(x, d)'
      BY <2>2, <3>1 DEF OnRow, Posting
    <3>3. x \in Jobs => Due(d)'
      BY <2>0, <2>2, <2>3 DEF Due, Stored
    <3>4. Remembered(d)'
      <4>1. d = x => OnRow(d, d)'
        BY <3>2
      <4>2. OnRow(d, d) => d = x
        BY <2>2, <2>3 DEF Holds, Senders
      <4> QED BY <1>3, <2>0, <2>3, <4>1, <4>2 DEF Remembered
    <3>5. rows'[d].attempts \in 0 .. MaxAttempts /\ sent'[d] - rows'[d].attempts \in 0 .. crashes'
      <4>1. ~ \E y \in Senders : Posting(y, d)
        BY <2>1, <2>2, <2>3
      <4> QED BY <1>1, <1>3, <2>0, <2>3, <4>1 DEF Counted, Uncounted, Rows
    <3> QED
      BY <1>1, <2>0, <2>2, <2>3, <3>1, <3>2, <3>3, <3>4, <3>5, HandledBy DEF Rows
  <2> QED BY <1>1, <2>0, <2>2, <2>3 DEF RowRight
<1>5. CASE Send(x)
  <2>0. /\ UNCHANGED <<rows, batches, overlapped, crashes>> /\ sent'[d] = sent[d] + 1
        /\ sent'[d] \in Nat
    BY <1>1, <1>5 DEF Send, checkoutVars
  <2>1. PICK r : /\ SenderGoes(x, r) /\ senders[x].step = "send"
                 /\ r.row = d /\ r.step = "store" /\ r.read = senders[x].read
    <3>1. PICK answer \in {"ok", "refused", "none"} :
            SenderGoes(x, [step |-> "store", row |-> d, secret |-> senders[x].secret,
                           read |-> senders[x].read, answer |-> answer])
      BY <1>1, <1>5, Zenon DEF Send
    <3> DEFINE r == [step |-> "store", row |-> d, secret |-> senders[x].secret,
                     read |-> senders[x].read, answer |-> answer]
    <3>2. SenderGoes(x, r) /\ r.row = d /\ r.step = "store" /\ r.read = senders[x].read
      BY <3>1
    <3> HIDE DEF r
    <3> QED BY <1>5, <3>2 DEF Send
  <2>2. /\ FirstRight(d)' /\ senders'[x] = r /\ ~ Queued(x, d)'
        /\ d \notin overlapped =>
             /\ \A y \in Senders \ {x} : ~ Holds(y, d) /\ ~ Holds(y, d)'
             /\ \A y \in Senders : Posting(y, d) <=> y = x /\ senders[x].step = "store"
             /\ x \in Jobs => Due(d)
    <3>1. r.row = d /\ r.step # "create" /\ (x \in Completers => Fresh(d)')
      BY <1>2, <2>0, <2>1 DEF Fresh
    <3>2. Stored(d)' /\ overlapped' = overlapped /\ \A j \in Jobs : batches'[j] \subseteq batches[j]
      BY <1>1, <2>0 DEF Stored
    <3> QED BY <1>1, <2>1, <3>1, <3>2, OwnRow
  <2>3. ASSUME d \notin overlapped
        PROVE  (SoleHolder(d) /\ StillDue(d) /\ ReadCurrent(d) /\ Counted(d) /\ Remembered(d))'
    <3>1. r.read = rows[d].attempts /\ r # Asleep
      BY <1>1, <1>3, <2>1, <2>3 DEF ReadCurrent, Asleep
    <3>2. OnRow(x, d)' /\ Posting(x, d)'
      BY <2>1, <2>2, <3>1 DEF OnRow, Posting
    <3>3. x \in Jobs => Due(d)'
      BY <2>0, <2>2, <2>3 DEF Due, Stored
    <3>4. Remembered(d)'
      <4>1. OnRow(d, d) => d = x
        BY <2>2, <2>3 DEF Holds, Senders
      <4> QED BY <1>3, <2>0, <2>3, <3>2, <4>1 DEF Remembered
    <3>5. /\ rows'[d].attempts \in 0 .. MaxAttempts
          /\ sent'[d] - rows'[d].attempts - 1 \in 0 .. crashes'
      <4>1. ~ \E y \in Senders : Posting(y, d)
        BY <2>1, <2>2, <2>3
      <4> QED BY <1>1, <1>3, <2>0, <2>3, <4>1 DEF Counted, Uncounted, Rows
    <3> QED BY <2>0, <2>2, <2>3, <3>1, <3>2, <3>3, <3>4, <3>5, HandledBy
  <2> QED BY <1>1, <2>0, <2>2, <2>3 DEF RowRight
<1>6. CASE StoreAnswer(x)
  <2>0. UNCHANGED <<batches, sent, overlapped, crashes>> /\ SenderGoes(x, Asleep)
        /\ senders[x].step = "store" /\ sent'[d] \in Nat
    BY <1>1, <1>6 DEF StoreAnswer, checkoutVars
  <2>1. PICK answer, n : /\ answer = senders[x].answer /\ n = senders[x].read + 1
                         /\ answer \in {"ok", "refused", "none"} /\ n \in Nat \ {0}
    <3>1. senders[x] \in Storing
      BY <1>1, <2>0 DEF Loading, Sending
    <3>2. \A s \in Storing : s.answer \in {"ok", "refused", "none"} /\ s.read + 1 \in Nat \ {0}
      BY DEF Storing
    <3> QED BY <3>1, <3>2
  <2>2. PICK row : row = [session |-> rows[d].session, status |-> StatusFor(answer, n),
                          attempts |-> n,
                          wait |-> IF answer = "ok" THEN rows[d].wait ELSE NextRetry(n)]
    OBVIOUS
  <2>3. rows'[d] = row
    BY <1>1, <1>6, <2>1, <2>2 DEF StoreAnswer
  <2>4. Stored(d)' /\ rows'[d].attempts = n
    BY <2>2, <2>3 DEF Stored, NoRow
  <2>5. rows'[d].status = "PENDING" /\ n < MaxAttempts => rows'[d].wait # Never
    <3>1. n < MaxAttempts => NextRetry(n) \in Nat
      BY <2>1, WebhookAssumption DEF NextRetry
    <3>2. StatusFor(answer, n) = "PENDING" => answer # "ok"
      BY DEF StatusFor
    <3> QED BY <2>2, <2>3, <3>1, <3>2 DEF Never
  <2>6. /\ FirstRight(d)' /\ senders'[x] = Asleep /\ ~ Queued(x, d)'
        /\ d \notin overlapped =>
             /\ \A y \in Senders \ {x} : ~ Holds(y, d) /\ ~ Holds(y, d)'
             /\ \A y \in Senders : Posting(y, d) <=> y = x /\ senders[x].step = "store"
    <3>1. overlapped' = overlapped /\ \A j \in Jobs : batches'[j] \subseteq batches[j]
      BY <2>0
    <3> QED BY <1>1, <2>0, <2>4, <3>1, OwnRow
  <2>7. ASSUME d \notin overlapped
        PROVE  (SoleHolder(d) /\ StillDue(d) /\ ReadCurrent(d) /\ Counted(d) /\ Remembered(d))'
    <3>1. ~ OnRow(x, d)' /\ ~ Posting(x, d)' /\ ~ Holds(x, d)'
      BY <2>6 DEF OnRow, Posting, Holds
    <3>2. n = rows[d].attempts + 1
      BY <1>3, <2>0, <2>1, <2>7 DEF ReadCurrent
    <3>3. /\ rows'[d].attempts \in 0 .. MaxAttempts
          /\ sent'[d] - rows'[d].attempts \in 0 .. crashes'
      <4>1. \E y \in Senders : Posting(y, d)
        BY <2>0, <2>6, <2>7
      <4>2. rows[d].attempts \in Nat /\ MaxAttempts \in Nat
        BY <1>1, WebhookAssumption DEF Rows
      <4> QED BY <1>1, <1>3, <2>0, <2>4, <2>7, <3>2, <4>1, <4>2 DEF Counted, Uncounted
    <3>4. Remembered(d)'
      BY <2>4, <2>5 DEF Remembered
    <3> QED BY <2>0, <2>4, <2>6, <2>7, <3>1, <3>3, <3>4, HandledBy
  <2> QED BY <2>0, <2>6, <2>7 DEF RowRight
<1>7. CASE CrashSender(x)
  <2>0. /\ UNCHANGED <<rows, sent, overlapped>> /\ SenderGoes(x, Asleep) /\ sent'[d] \in Nat
        /\ crashes' = crashes + 1 /\ \A j \in Jobs : batches'[j] \subseteq batches[j]
    BY <1>1, <1>7 DEF CrashSender, DeliveryInv, DeliveryTyped
  <2>1. /\ FirstRight(d)' /\ senders'[x] = Asleep /\ ~ Queued(x, d)'
        /\ d \notin overlapped =>
             /\ \A y \in Senders \ {x} : ~ Holds(y, d) /\ ~ Holds(y, d)'
             /\ \A y \in Senders : Posting(y, d) <=> y = x /\ senders[x].step = "store"
    <3>1. Stored(d)'
      BY <1>1, <2>0 DEF Stored
    <3> QED BY <1>1, <2>0, <3>1, OwnRow
  <2>2. ASSUME d \notin overlapped
        PROVE  (SoleHolder(d) /\ StillDue(d) /\ ReadCurrent(d) /\ Counted(d) /\ Remembered(d))'
    <3>1. ~ OnRow(x, d)' /\ ~ Posting(x, d)' /\ ~ Holds(x, d)'
      BY <2>1 DEF OnRow, Posting, Holds
    <3>2. /\ rows'[d].attempts \in 0 .. MaxAttempts
          /\ sent'[d] - rows'[d].attempts \in 0 .. crashes'
      BY <1>1, <1>3, <2>0, <2>2 DEF Counted, Uncounted, Rows
    <3>3. Remembered(d)'
      BY <1>1, <1>3, <2>0, <2>2 DEF Remembered
    <3> QED BY <2>0, <2>1, <2>2, <3>1, <3>2, <3>3, HandledBy
  <2> QED BY <2>0, <2>1, <2>2 DEF RowRight
<1> QED BY <1>4, <1>5, <1>6, <1>7 DEF Deliver

(* The steps of the others, and of a sender with another row.              *)
LEMMA RowAlone ==
  ASSUME DeliveryInv, AttemptInv, NEW d \in Completers, Aged(d),
         sent'[d] = sent[d], d \in overlapped' <=> d \in overlapped,
         crashes' \in Nat, crashes' >= crashes,
         \A x \in Senders : /\ OnRow(x, d)' <=> OnRow(x, d)
                            /\ OnRow(x, d) => senders'[x] = senders[x]
                            /\ Queued(x, d)' => Queued(x, d),
         senders'[d].step = "create" => ~ Stored(d)
  PROVE  RowRight(d)'
<1>1. /\ RowRight(d) /\ sent[d] \in Nat /\ crashes \in Nat
      /\ Stored(d) => rows[d] \in Rows
  BY DEF AttemptInv, DeliveryInv, DeliveryTyped, Stored
<1> QED BY <1>1, OtherRow

LEMMA AllAlone ==
  ASSUME DeliveryInv, AttemptInv, UNCHANGED <<senders, batches, sent, overlapped>>,
         crashes' \in Nat, crashes' >= crashes, \A d \in Completers : Aged(d)
  PROVE  AttemptInv'
<1>1. ASSUME NEW d \in Completers PROVE RowRight(d)'
  <2>1. \A x \in Senders : /\ OnRow(x, d)' <=> OnRow(x, d)
                           /\ OnRow(x, d) => senders'[x] = senders[x]
                           /\ Queued(x, d)' => Queued(x, d)
    BY DEF OnRow, Queued
  <2>2. senders'[d].step = "create" => ~ Stored(d)
    BY DEF AttemptInv, RowRight, FirstRight
  <2> QED BY <1>1, <2>1, <2>2, RowAlone
<1> QED BY <1>1 DEF AttemptInv

(* A sender's step leaves the other rows alone.                            *)
LEMMA SenderStep ==
  ASSUME RaceInv, DeliveryInv, AttemptInv, NEW x \in Senders,
         Deliver(x) \/ CrashSender(x), senders[x] # Asleep, senders[x].step # "create",
         DeliveryInv'
  PROVE  AttemptInv'
<1>1. PICK e \in Completers : OnRow(x, e) /\ RowOf(x) = e
  <2>1. SenderRight(x, senders[x])
    BY DEF DeliveryInv, SendersRight
  <2>2. senders[x] \in Loading \cup Sending \cup Storing
    BY <2>1 DEF SenderRight, Creating
  <2> QED BY <2>2 DEF Loading, Sending, Storing, OnRow, RowOf
<1>2. PICK r : SenderGoes(x, r) /\ (r = Asleep \/ (r.row = e /\ r.step # "create"))
  <2>1. CASE Load(x) \/ StoreAnswer(x) \/ CrashSender(x)
    BY <1>1, <2>1 DEF Load, StoreAnswer, CrashSender
  <2>2. CASE LookUpSecret(x)
    <3>1. senders[x] \in Sending
      BY <2>2, AtItsStep DEF LookUpSecret
    <3> DEFINE r == [senders[x] EXCEPT !.step = "send", !.secret = secret]
    <3>2. SenderGoes(x, r) /\ r.row = e /\ r.step # "create"
      BY <1>1, <2>2, <3>1 DEF LookUpSecret, Sending, RowOf
    <3> QED BY <3>2
  <2>3. CASE Send(x)
    BY <1>1, <2>3 DEF Send
  <2> QED BY <2>1, <2>2, <2>3 DEF Deliver
<1>3. /\ sent' \in [Completers -> Nat] /\ crashes' \in Nat /\ crashes' >= crashes
      /\ overlapped' = overlapped
      /\ \A j \in Jobs : batches'[j] \subseteq batches[j]
      /\ \A d \in Completers \ {e} : sent'[d] = sent[d] /\ rows'[d] = rows[d]
  <2>1. /\ sent \in [Completers -> Nat] /\ crashes \in Nat
        /\ rows \in [Completers -> Rows \cup {NoRow}] /\ batches \in [Jobs -> SUBSET Completers]
    BY DEF AttemptInv, DeliveryInv, DeliveryTyped
  <2>2. CASE Load(x) \/ LookUpSecret(x)
    BY <2>1, <2>2 DEF Load, LookUpSecret, checkoutVars
  <2>3. CASE Send(x)
    BY <1>1, <2>1, <2>3 DEF Send, checkoutVars
  <2>4. CASE StoreAnswer(x)
    BY <1>1, <2>1, <2>4 DEF StoreAnswer, checkoutVars
  <2>5. CASE CrashSender(x)
    BY <2>1, <2>5 DEF CrashSender
  <2> QED BY <2>2, <2>3, <2>4, <2>5 DEF Deliver
<1>4. ASSUME NEW d \in Completers, d # e PROVE RowRight(d)'
  <2>1. senders'[x] = r /\ \A y \in Senders \ {x} : senders'[y] = senders[y]
    BY <1>2 DEF SenderGoes, DeliveryInv, DeliveryTyped
  <2>2. ~ OnRow(x, d) /\ ~ OnRow(x, d)'
    BY <1>1, <1>2, <1>4, <2>1 DEF OnRow
  <2>3. \A y \in Senders : /\ OnRow(y, d)' <=> OnRow(y, d)
                           /\ OnRow(y, d) => senders'[y] = senders[y]
                           /\ Queued(y, d)' => Queued(y, d)
    BY <1>3, <2>1, <2>2 DEF OnRow, Queued
  <2>4. senders'[d].step = "create" => ~ Stored(d)
    <3>1. d \in Senders
      BY DEF Senders
    <3> QED BY <1>2, <2>1, <3>1 DEF AttemptInv, RowRight, FirstRight, Asleep
  <2>5. Aged(d)
    BY <1>3, <1>4 DEF Aged, Stored
  <2> QED BY <1>3, <1>4, <2>3, <2>4, <2>5, RowAlone
<1>5. RowRight(e)'
  BY <1>1, OwnStep
<1> QED BY <1>3, <1>4, <1>5 DEF AttemptInv

(* A row is created for its first sender.                                  *)
LEMMA CreateCounts ==
  ASSUME RaceInv, DeliveryInv, AttemptInv, NEW c \in Completers, CreateDelivery(c)
  PROVE  AttemptInv'
<1>1. /\ senders[c].step = "create" /\ ~ Stored(c) /\ sent[c] = 0 /\ c \notin overlapped
      /\ sent \in [Completers -> Nat] /\ crashes \in Nat /\ c \in Senders
  BY DEF CreateDelivery, AttemptInv, RowRight, FirstRight, Senders
<1>2. UNCHANGED <<batches, sent, overlapped, crashes>>
  BY DEF CreateDelivery, checkoutVars
<1>3. PICK r : /\ SenderGoes(c, r) /\ r.step = "load" /\ r.row = c /\ r # Asleep
  <2> DEFINE r == [step |-> "load", row |-> c, secret |-> senders[c].secret]
  <2>1. SenderGoes(c, r)
    BY DEF CreateDelivery, SenderGoes
  <2> QED BY <2>1 DEF Asleep
<1>4. senders'[c] = r /\ \A y \in Senders \ {c} : senders'[y] = senders[y]
  BY <1>1, <1>3 DEF SenderGoes, DeliveryInv, DeliveryTyped
<1>5. ASSUME NEW d \in Completers \ {c} PROVE RowRight(d)'
  <2>1. rows'[d] = rows[d]
    BY DEF CreateDelivery, DeliveryInv, DeliveryTyped
  <2>2. ~ OnRow(c, d) /\ ~ OnRow(c, d)'
    BY <1>1, <1>3, <1>4 DEF OnRow
  <2>3. \A y \in Senders : /\ OnRow(y, d)' <=> OnRow(y, d)
                           /\ OnRow(y, d) => senders'[y] = senders[y]
                           /\ Queued(y, d)' => Queued(y, d)
    BY <1>2, <1>4, <2>2 DEF OnRow, Queued
  <2>4. senders'[d].step = "create" => ~ Stored(d)
    <3>1. d \in Senders
      BY DEF Senders
    <3> QED BY <1>4, <3>1 DEF AttemptInv, RowRight, FirstRight
  <2>5. Aged(d)
    BY <2>1 DEF Aged, Stored
  <2> QED BY <1>1, <1>2, <2>3, <2>4, <2>5, RowAlone
<1>6. RowRight(c)'
  <2>1. \A x \in Senders : ~ Holds(x, c)
    BY <1>1, OnStoredRow
  <2>2. \A y \in Senders \ {c} : ~ Holds(y, c)'
    BY <1>2, <1>4, <2>1 DEF Holds, OnRow, Queued
  <2>3. OnRow(c, c)' /\ ~ Posting(c, c)' /\ c \notin Jobs
    BY <1>3, <1>4, WebhookAssumption DEF OnRow, Posting, Requests
  <2>4. Fresh(c)' /\ Stored(c)' /\ rows'[c].attempts = 0
    BY DEF CreateDelivery, Fresh, Stored, NoRow, DeliveryInv, DeliveryTyped
  <2>5. FirstRight(c)'
    <3>1. \A y \in Completers : OnRow(y, c)' => y = c /\ Fresh(c)' /\ c \notin overlapped'
      BY <1>1, <1>2, <2>2, <2>4 DEF Holds, Senders
    <3>2. \A j \in Jobs : ~ Queued(j, c)'
      BY <2>2, <2>3 DEF Holds, Senders
    <3> QED BY <1>3, <1>4, <2>4, <3>1, <3>2 DEF FirstRight
  <2>6. (SoleHolder(c) /\ StillDue(c) /\ ReadCurrent(c) /\ Counted(c) /\ Remembered(c))'
    <3>1. Remembered(c)'
      BY <2>3, <2>4 DEF Remembered
    <3>2. sent'[c] - rows'[c].attempts \in 0 .. crashes' /\ rows'[c].attempts \in 0 .. MaxAttempts
      BY <1>1, <1>2, <2>4, WebhookAssumption
    <3> QED BY <1>1, <1>3, <1>4, <2>2, <2>3, <3>1, <3>2, HandledBy
  <2> QED BY <2>5, <2>6 DEF RowRight
<1> QED BY <1>1, <1>2, <1>5, <1>6 DEF AttemptInv

(* A request hands over to its sender, which had nothing to do before.     *)
LEMMA FindSecretCounts ==
  ASSUME RaceInv, DeliveryInv, AttemptInv, NEW c \in Completers, FindSecret(c)
  PROVE  AttemptInv'
<1>0. /\ requests[c].step = "dispatch" /\ c \in Senders /\ ~ Stored(c)
      /\ UNCHANGED <<rows, batches, sent, overlapped, crashes>>
      /\ sent \in [Completers -> Nat] /\ crashes \in Nat
  BY DEF FindSecret, Senders, DeliveryInv, RowsOfWinners, AttemptInv
<1>1. ASSUME NEW d \in Completers PROVE ~ OnRow(c, d)
  <2>1. SUFFICES ASSUME OnRow(c, d) PROVE FALSE
    OBVIOUS
  <2>2. Stored(d)
    BY <1>0, <2>1, OnStoredRow DEF Holds
  <2>3. c = d
    BY <2>1 DEF AttemptInv, RowRight, FirstRight
  <2> QED BY <1>0, <2>2, <2>3
<1>2. PICK r : /\ senders'[c] = r /\ \A y \in Senders \ {c} : senders'[y] = senders[y]
               /\ r = senders[c] \/ r.step = "create"
  BY <1>0 DEF FindSecret, DeliveryInv, DeliveryTyped
<1>3. ASSUME NEW d \in Completers PROVE RowRight(d)'
  <2>1. ~ OnRow(c, d) /\ ~ OnRow(c, d)'
    BY <1>1, <1>2 DEF OnRow
  <2>2. \A y \in Senders : /\ OnRow(y, d)' <=> OnRow(y, d)
                           /\ OnRow(y, d) => senders'[y] = senders[y]
                           /\ Queued(y, d)' => Queued(y, d)
    BY <1>0, <1>2, <2>1 DEF OnRow, Queued
  <2>3. senders'[d].step = "create" => ~ Stored(d)
    BY <1>0, <1>2 DEF AttemptInv, RowRight, FirstRight, Senders
  <2>4. Aged(d)
    BY <1>0 DEF Aged, Stored
  <2> QED BY <1>0, <2>2, <2>3, <2>4, RowAlone
<1> QED BY <1>0, <1>3 DEF AttemptInv

(* A sweep takes rows that are due; those it shares are known as shared.   *)
LEMMA StartSweepCounts ==
  ASSUME RaceInv, DeliveryInv, AttemptInv, NEW j \in Jobs, StartSweep(j)
  PROVE  AttemptInv'
<1>0. /\ senders[j] = Asleep /\ batches[j] = {} /\ j \in Senders /\ j \notin Completers
      /\ UNCHANGED <<rows, senders, sent, crashes>>
      /\ sent \in [Completers -> Nat] /\ crashes \in Nat
      /\ batches \in [Jobs -> SUBSET Completers]
  BY WebhookAssumption
  DEF StartSweep, checkoutVars, Senders, Requests, AttemptInv, DeliveryInv, DeliveryTyped
<1>1. PICK taken \in SUBSET {d \in Completers : Due(d)} :
        /\ batches' = [batches EXCEPT ![j] = taken]
        /\ overlapped' = overlapped \cup (taken \cap UNION {Held(k) : k \in Jobs \ {j}})
  BY DEF StartSweep
<1>2. batches'[j] = taken /\ \A k \in Jobs \ {j} : batches'[k] = batches[k]
  BY <1>0, <1>1
<1>3. ASSUME NEW d \in Completers, d \notin taken PROVE RowRight(d)'
  <2>1. \A y \in Senders : /\ OnRow(y, d)' <=> OnRow(y, d)
                           /\ OnRow(y, d) => senders'[y] = senders[y]
                           /\ Queued(y, d)' => Queued(y, d)
    BY <1>0, <1>2, <1>3 DEF OnRow, Queued
  <2>2. senders'[d].step = "create" => ~ Stored(d)
    BY <1>0 DEF AttemptInv, RowRight, FirstRight
  <2>3. Aged(d) /\ (d \in overlapped' <=> d \in overlapped)
    BY <1>0, <1>1, <1>3 DEF Aged, Stored
  <2> QED BY <1>0, <2>1, <2>2, <2>3, RowAlone
<1>4. ASSUME NEW d \in Completers, d \in taken PROVE RowRight(d)'
  <2>1. Due(d) /\ Due(d)' /\ Stored(d) /\ Stored(d)' /\ RowRight(d)
    BY <1>0, <1>1, <1>4 DEF Due, Stored, AttemptInv
  <2>2. \A y \in Senders : OnRow(y, d)' <=> OnRow(y, d)
    BY <1>0 DEF OnRow
  <2>3. \A c \in Completers : ~ OnRow(c, d)
    BY <2>1 DEF RowRight, FirstRight, Fresh, Due, Never
  <2>4. ~ OnRow(j, d)
    BY <1>0 DEF OnRow
  <2>5. FirstRight(d)'
    <3>1. \A k \in Jobs : Queued(k, d)' => ~ OnRow(k, d)'
      <4>1. \A k \in Jobs \ {j} : Queued(k, d)' => Queued(k, d)
        BY <1>2 DEF Queued
      <4> QED BY <2>1, <2>2, <2>4, <4>1 DEF RowRight, FirstRight, Senders
    <3>2. senders'[d].step = "create" => ~ Stored(d)'
      BY <1>0, <2>1 DEF RowRight, FirstRight
    <3> QED BY <2>1, <2>2, <2>3, <3>1, <3>2 DEF FirstRight, Senders
  <2>6. ASSUME d \notin overlapped'
        PROVE  (SoleHolder(d) /\ StillDue(d) /\ ReadCurrent(d) /\ Counted(d) /\ Remembered(d))'
    <3>1. d \notin overlapped /\ \A k \in Jobs \ {j} : d \notin Held(k)
      BY <1>1, <1>4, <2>6
    <3>2. \A k \in Jobs \ {j} : ~ Holds(k, d)
      BY <3>1 DEF Held, Holds, OnRow, Queued
    <3>3. \A y \in Senders \ {j} : ~ Holds(y, d)
      BY <2>3, <3>2, WebhookAssumption DEF Holds, Queued, Senders, Requests
    <3>4. \A y \in Senders \ {j} : ~ Holds(y, d)'
      BY <1>2, <2>2, <3>3 DEF Holds, Queued
    <3>5. Counted(d) /\ Remembered(d) /\ ~ \E y \in Senders : Posting(y, d)
      BY <2>1, <2>4, <3>1, <3>3 DEF RowRight, Posting, Holds
    <3>6. /\ rows'[d].attempts \in 0 .. MaxAttempts
          /\ sent'[d] - rows'[d].attempts \in 0 .. crashes'
      <4>1. sent[d] - rows[d].attempts \in Int
        BY <1>0, <3>5 DEF Counted
      <4> QED BY <1>0, <3>5, <4>1 DEF Counted, Uncounted
    <3>7. ~ OnRow(j, d)' /\ ~ Posting(j, d)'
      BY <2>2, <2>4, <1>0 DEF Posting
    <3>8. Remembered(d)'
      BY <2>1 DEF Remembered, Due, Never
    <3> QED BY <1>0, <2>1, <3>4, <3>6, <3>7, <3>8, HandledBy
  <2> QED BY <2>5, <2>6 DEF RowRight
<1> QED BY <1>0, <1>3, <1>4 DEF AttemptInv

(* A sweep turns to a row of its batch.                                    *)
LEMMA NextInBatchCounts ==
  ASSUME RaceInv, DeliveryInv, AttemptInv, NEW j \in Jobs, NextInBatch(j)
  PROVE  AttemptInv'
<1>0. /\ senders[j] = Asleep /\ j \in Senders /\ j \notin Completers
      /\ UNCHANGED <<rows, sent, crashes, overlapped>>
      /\ sent \in [Completers -> Nat] /\ crashes \in Nat
      /\ batches \in [Jobs -> SUBSET Completers]
  BY WebhookAssumption
  DEF NextInBatch, checkoutVars, Senders, Requests, AttemptInv, DeliveryInv, DeliveryTyped
<1>1. PICK e \in batches[j] :
        /\ batches' = [batches EXCEPT ![j] = @ \ {e}]
        /\ senders' = [senders EXCEPT ![j] = [step |-> "load", row |-> e, secret |-> 0]]
  BY DEF NextInBatch
<1>2. /\ e \in Completers /\ Queued(j, e)
      /\ batches'[j] = batches[j] \ {e} /\ \A k \in Jobs \ {j} : batches'[k] = batches[k]
  BY <1>0, <1>1 DEF Queued
<1>3. PICK r : /\ senders'[j] = r /\ r.step = "load" /\ r.row = e /\ r # Asleep
               /\ \A y \in Senders \ {j} : senders'[y] = senders[y]
  <2> DEFINE r == [step |-> "load", row |-> e, secret |-> 0]
  <2>1. senders'[j] = r /\ \A y \in Senders \ {j} : senders'[y] = senders[y]
    BY <1>0, <1>1 DEF DeliveryInv, DeliveryTyped
  <2> QED BY <2>1 DEF Asleep
<1>4. ASSUME NEW d \in Completers, d # e PROVE RowRight(d)'
  <2>1. ~ OnRow(j, d) /\ ~ OnRow(j, d)'
    BY <1>0, <1>3, <1>4 DEF OnRow
  <2>2. \A y \in Senders : /\ OnRow(y, d)' <=> OnRow(y, d)
                           /\ OnRow(y, d) => senders'[y] = senders[y]
                           /\ Queued(y, d)' => Queued(y, d)
    BY <1>2, <1>3, <2>1 DEF OnRow, Queued
  <2>3. senders'[d].step = "create" => ~ Stored(d)
    BY <1>0, <1>3 DEF AttemptInv, RowRight, FirstRight, Senders
  <2>4. Aged(d)
    BY <1>0 DEF Aged, Stored
  <2> QED BY <1>0, <2>2, <2>3, <2>4, RowAlone
<1>5. RowRight(e)'
  <2>1. Stored(e) /\ Stored(e)' /\ RowRight(e) /\ Holds(j, e)
    BY <1>0, <1>2, OnStoredRow DEF Stored, AttemptInv, Holds
  <2>2. \A y \in Senders \ {j} : (OnRow(y, e)' <=> OnRow(y, e)) /\ (Queued(y, e)' <=> Queued(y, e))
    BY <1>2, <1>3 DEF OnRow, Queued
  <2>3. OnRow(j, e)' /\ ~ Queued(j, e)' /\ ~ Posting(j, e)' /\ ~ Posting(j, e)
    BY <1>0, <1>2, <1>3 DEF OnRow, Queued, Posting
  <2>4. FirstRight(e)'
    <3>1. \A c \in Completers : OnRow(c, e)' => c = e /\ Fresh(e)' /\ e \notin overlapped'
      BY <1>0, <2>1, <2>2 DEF RowRight, FirstRight, Fresh, Senders
    <3>2. \A k \in Jobs : Queued(k, e)' => ~ OnRow(k, e)'
      BY <2>1, <2>2, <2>3 DEF RowRight, FirstRight, Senders
    <3>3. senders'[e].step = "create" => ~ Stored(e)'
      BY <1>0, <1>2, <1>3, <2>1 DEF RowRight, FirstRight, Senders
    <3> QED BY <2>1, <3>1, <3>2, <3>3 DEF FirstRight
  <2>5. ASSUME e \notin overlapped
        PROVE  (SoleHolder(e) /\ StillDue(e) /\ ReadCurrent(e) /\ Counted(e) /\ Remembered(e))'
    <3>1. SoleHolder(e) /\ StillDue(e) /\ Counted(e)
      BY <2>1, <2>5 DEF RowRight
    <3>2. \A y \in Senders \ {j} : ~ Holds(y, e)
      BY <1>0, <2>1, <3>1 DEF SoleHolder
    <3>3. \A y \in Senders \ {j} : ~ Holds(y, e)'
      BY <2>2, <3>2 DEF Holds
    <3>4. Due(e)'
      BY <1>0, <2>1, <3>1 DEF StillDue, Due, Stored
    <3>5. /\ rows'[e].attempts \in 0 .. MaxAttempts
          /\ sent'[e] - rows'[e].attempts \in 0 .. crashes'
      <4>1. ~ \E y \in Senders : Posting(y, e)
        BY <2>3, <3>2 DEF Holds, Posting
      <4>2. sent[e] - rows[e].attempts \in Int
        BY <1>0, <1>2, <3>1 DEF Counted
      <4> QED BY <1>0, <3>1, <4>1, <4>2 DEF Counted, Uncounted
    <3>6. Remembered(e)'
      BY <3>4 DEF Remembered, Due, Never
    <3> QED BY <1>0, <1>2, <1>3, <2>3, <3>3, <3>4, <3>5, <3>6, HandledBy
  <2> QED BY <1>0, <2>4, <2>5 DEF RowRight
<1> QED BY <1>0, <1>2, <1>4, <1>5 DEF AttemptInv

(* The clock runs the waits down, and no further than to zero.             *)
LEMMA TickCounts ==
  ASSUME DeliveryInv, AttemptInv, WebhookTick
  PROVE  AttemptInv'
<1>1. ASSUME NEW d \in Completers PROVE Aged(d)
  <2>1. rows'[d] = IF Waiting(d) THEN [rows[d] EXCEPT !.wait = @ - 1] ELSE rows[d]
    BY <1>1 DEF WebhookTick, Elapsed
  <2>2. CASE Waiting(d)
    <3>1. Stored(d) /\ rows[d] \in Rows /\ rows[d].wait > 0
      BY <2>2 DEF Waiting, DeliveryInv, DeliveryTyped, Stored
    <3>2. rows'[d] = [session |-> rows[d].session, status |-> rows[d].status,
                      attempts |-> rows[d].attempts, wait |-> rows[d].wait - 1]
      BY <2>1, <2>2, <3>1 DEF Rows
    <3>3. rows'[d] # NoRow
      BY <3>1, <3>2 DEF NoRow, Rows
    <3>4. rows[d].wait - 1 \in Nat
      BY <3>1 DEF Rows, Never
    <3> QED BY <3>1, <3>2, <3>3, <3>4 DEF Aged, Stored
  <2>3. CASE ~ Waiting(d)
    BY <2>1, <2>3 DEF Aged, Stored
  <2> QED BY <2>2, <2>3
<1>2. crashes' \in Nat /\ crashes' >= crashes
  BY DEF WebhookTick, AttemptInv
<1> QED BY <1>1, <1>2, AllAlone DEF WebhookTick

LEMMA CrashesGrow ==
  ASSUME CheckoutStep, crashes \in Nat
  PROVE  crashes' \in Nat /\ crashes' >= crashes
BY DEF CheckoutStep, CreateBillFor, CreateSession, PayOnChain, LoadPage, AskSession,
       BeginComplete, Serve, ReadSession, ExpireSession, CheckPending, Complete, Crash

LEMMA StepCounts ==
  ASSUME RaceInv, DeliveryInv, DeliveryInv', AttemptInv, [WebhookNext]_webhookVars
  PROVE  AttemptInv'
<1>0. rows' = rows => \A d \in Completers : Aged(d)
  BY DEF Aged, Stored
<1>1. CASE CheckoutStep /\ UNCHANGED deliveryVars
  <2>1. crashes' \in Nat /\ crashes' >= crashes
    BY <1>1, CrashesGrow DEF AttemptInv
  <2> QED BY <1>0, <1>1, <2>1, AllAlone DEF deliveryVars
<1>2. CASE GenerateSecret \/ ConfigureShop \/ UNCHANGED webhookVars
  <2>1. UNCHANGED <<rows, senders, batches, sent, overlapped, crashes>>
    BY <1>2 DEF GenerateSecret, ConfigureShop, webhookVars, deliveryVars, checkoutVars
  <2>2. crashes' \in Nat /\ crashes' >= crashes
    BY <2>1 DEF AttemptInv
  <2> QED BY <1>0, <2>1, <2>2, AllAlone
<1>3. ASSUME NEW x \in Senders, Deliver(x) PROVE AttemptInv'
  <2>1. senders[x] # Asleep /\ senders[x].step # "create"
    BY <1>3 DEF Deliver, Load, LookUpSecret, Send, StoreAnswer, Asleep
  <2> QED BY <1>3, <2>1, SenderStep
<1>4. ASSUME NEW c \in Completers, Dispatch(c) PROVE AttemptInv'
  BY <1>3, <1>4, FindSecretCounts, CreateCounts DEF Dispatch, Senders
<1>5. ASSUME NEW j \in Jobs, Sweep(j) PROVE AttemptInv'
  BY <1>3, <1>5, StartSweepCounts, NextInBatchCounts DEF Sweep, Senders
<1>6. ASSUME NEW x \in Senders, CrashSender(x) PROVE AttemptInv'
  <2>1. CASE senders[x].step # "create"
    BY <1>6, <2>1, SenderStep DEF CrashSender
  <2>2. CASE senders[x].step = "create"
    <3>1. SenderGoes(x, Asleep) /\ UNCHANGED <<rows, sent, overlapped>>
          /\ crashes \in Nat /\ crashes' = crashes + 1 /\ sent \in [Completers -> Nat]
          /\ \A j \in Jobs : batches'[j] \subseteq batches[j]
      BY <1>6 DEF CrashSender, AttemptInv, DeliveryInv, DeliveryTyped
    <3>2. senders'[x] = Asleep /\ \A y \in Senders \ {x} : senders'[y] = senders[y]
      BY <3>1 DEF SenderGoes, DeliveryInv, DeliveryTyped
    <3>3. ASSUME NEW d \in Completers PROVE RowRight(d)'
      <4>1. ~ OnRow(x, d) /\ ~ OnRow(x, d)'
        BY <2>2, <3>2 DEF OnRow
      <4>2. \A y \in Senders : /\ OnRow(y, d)' <=> OnRow(y, d)
                               /\ OnRow(y, d) => senders'[y] = senders[y]
                               /\ Queued(y, d)' => Queued(y, d)
        BY <3>1, <3>2, <4>1 DEF OnRow, Queued
      <4>3. senders'[d].step = "create" => ~ Stored(d)
        BY <3>2 DEF AttemptInv, RowRight, FirstRight, Senders, Asleep
      <4>4. crashes' \in Nat /\ crashes' >= crashes
        BY <3>1
      <4> QED BY <1>0, <3>1, <4>2, <4>3, <4>4, RowAlone
    <3> QED BY <3>1, <3>3 DEF AttemptInv
  <2> QED BY <2>1, <2>2
<1> QED BY <1>1, <1>2, <1>4, <1>5, <1>6, TickCounts DEF WebhookNext

-----------------------------------------------------------------------------
(* A row of one hand has one request under way at most.                    *)
LEMMA OneInFlight ==
  ASSUME DeliveryInv, NEW d \in Completers, SoleHolder(d)
  PROVE  InFlight(d) = IF \E x \in Senders : Posting(x, d) THEN 1 ELSE 0
<1> DEFINE S == {x \in Senders : senders[x].step = "store" /\ senders[x].row = d}
<1>1. \A x \in Senders : x \in S <=> Posting(x, d)
  BY DEF Posting, OnRow, Asleep
<1>2. \A x, y \in S : x = y
  BY <1>1 DEF SoleHolder, Holds, Posting
<1>3. CASE S = {}
  BY <1>1, <1>3, FS_EmptySet DEF InFlight
<1>4. CASE S # {}
  <2>1. PICK x \in S : S = {x}
    BY <1>2, <1>4
  <2>2. Cardinality(S) = 1
    BY <2>1, FS_Singleton
  <2> QED BY <1>1, <2>1, <2>2 DEF InFlight
<1> QED BY <1>3, <1>4

LEMMA AttemptsAreExact ==
  ASSUME DeliveryInv, AttemptInv
  PROVE  AttemptsExact
<1> SUFFICES ASSUME NEW d \in Completers, Stored(d), d \notin overlapped
             PROVE  /\ sent[d] <= MaxAttempts + crashes
                    /\ sent[d] - rows[d].attempts - InFlight(d) \in 0 .. crashes
                    /\ rows[d].status = "DELIVERED" => InFlight(d) = 0
  BY DEF AttemptsExact
<1>1. /\ FirstRight(d) /\ SoleHolder(d) /\ StillDue(d) /\ Counted(d)
      /\ sent[d] \in Nat /\ crashes \in Nat /\ MaxAttempts \in Nat \ {0}
  BY WebhookAssumption DEF AttemptInv, RowRight
<1>2. InFlight(d) = IF \E x \in Senders : Posting(x, d) THEN 1 ELSE 0
  BY <1>1, OneInFlight
<1>3. ASSUME NEW x \in Senders, Posting(x, d)
      PROVE  rows[d].status = "PENDING" /\ rows[d].attempts < MaxAttempts
  <2>1. CASE x \in Completers
    BY <1>1, <1>3, <2>1 DEF FirstRight, Posting, Fresh
  <2>2. CASE x \in Jobs
    BY <1>1, <1>3, <2>2 DEF StillDue, Holds, Posting, Due
  <2> QED BY <2>1, <2>2 DEF Senders
<1> QED BY <1>1, <1>2, <1>3 DEF Counted, Uncounted

LEMMA RowsAreRemembered ==
  ASSUME AttemptInv
  PROVE  NoRowForgotten
BY DEF AttemptInv, RowRight, Remembered, NoRowForgotten, OnRow, RowOf, Senders

LEMMA AttemptsInvariant == WebhookSpec => [](DeliveryInv /\ AttemptInv)
<1>1. /\ RaceInv /\ DeliveryInv /\ AttemptInv /\ [WebhookNext]_webhookVars
      => RaceInv' /\ DeliveryInv' /\ AttemptInv'
  BY StepKeeps, StepCounts
<1> QED BY DeliveryInitially, AttemptInitially, <1>1, PTL DEF WebhookSpec

(* As long as no two sweeps hold a row at once it is sent MaxAttempts      *)
(* times at most, but for senders that were abandoned, and never again     *)
(* once it was delivered; its attempts count what was sent (webhook.ts     *)
(* L93-226), whatever interleaves with its sender.                         *)
THEOREM AttemptsAlwaysExact == WebhookSpec => []AttemptsExact
<1>1. DeliveryInv /\ AttemptInv => AttemptsExact
  BY AttemptsAreExact
<1> QED BY AttemptsInvariant, <1>1, PTL

(* No delivery that may be sent again is lost to the sweeps, but for one   *)
(* whose first sender was abandoned, and those that two sweeps held.       *)
THEOREM RowsNeverForgotten == WebhookSpec => []NoRowForgotten
<1>1. AttemptInv => NoRowForgotten
  BY RowsAreRemembered
<1> QED BY AttemptsInvariant, <1>1, PTL
=============================================================================
