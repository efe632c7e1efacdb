-------------------------- MODULE WebhookDelivery --------------------------
(***************************************************************************)
(* Telling the merchant's server that a session was completed.  The        *)
(* request that completed the session goes on, with nobody waiting for it, *)
(* to store a delivery and to send it; sweeps (processWebhookRetries) send *)
(* again what was not accepted, each working through the rows that were    *)
(* due when it started.  A sender reads the row, sends, waits for the      *)
(* answer, and only then writes what it makes of the answer, from the      *)
(* number of attempts it had read.                                         *)
(*                                                                         *)
(* The shop's server (the demo shop stands for it) verifies the signature  *)
(* with the secret it was configured with, and without one accepts all.    *)
(***************************************************************************)
EXTENDS Checkout, Sequences

CONSTANTS
  Jobs,         \* bound: sweeps at any one time
  MaxAttempts,  \* MAX_RETRY_ATTEMPTS
  RetryDelays,  \* RETRY_DELAYS, in clock ticks
  BatchSize,    \* rows one sweep takes
  MaxSecrets    \* bound on the secrets the merchant generates

ASSUME WebhookAssumption ==
  /\ Jobs \cap Requests = {}
  /\ MaxAttempts \in Nat \ {0} /\ BatchSize \in Nat \ {0} /\ MaxSecrets \in Nat
  /\ RetryDelays \in Seq(Nat) /\ Len(RetryDelays) >= MaxAttempts

VARIABLES
  rows,        \* WebhookDelivery row created by each completing request
  senders,     \* dispatches and sweeps: next step, row, and what was read
  batches,     \* rows each sweep still has to send
  secret,      \* Merchant.webhookSecret: number of the secret, 0 for none
  hooked,      \* sessions that were opened with a webhookUrl
  shopSecret,  \* the secret in the shop's environment, 0 for none
  cron,        \* whether something calls processWebhookRetries
  told,        \* sessions whose completion the shop has accepted
  sent,        \* requests sent for each row
  overlapped   \* rows two sweeps held at once

deliveryVars == <<rows, senders, batches, secret, hooked, shopSecret, cron, told, sent, overlapped>>
webhookVars == <<checkoutVars, deliveryVars>>

Senders == Completers \cup Jobs
NoRow == [status |-> "none"]
Asleep == [step |-> "none"]
Never == -1                        \* nextRetryAt is null

(* A row's wait is the time to its nextRetryAt.                            *)
Rows ==
  [session : Sessions, status : {"PENDING", "DELIVERED", "FAILED"},
   attempts : Nat, wait : Nat \cup {Never}]
Stored(d) == rows[d] # NoRow

DeliveryInit ==
  /\ rows = [d \in Completers |-> NoRow]
  /\ senders = [x \in Senders |-> Asleep]
  /\ batches = [j \in Jobs |-> {}]
  /\ hooked \in SUBSET Sessions
  /\ secret \in {0, 1} /\ shopSecret \in {0, secret}
  /\ cron \in (IF Jobs = {} THEN {FALSE} ELSE BOOLEAN)
  /\ told = {}
  /\ sent = [d \in Completers |-> 0]
  /\ overlapped = {}

WebhookInit == CheckoutInit /\ DeliveryInit

-----------------------------------------------------------------------------
(* Time, which the retries wait for.                                       *)
Waiting(d) == Stored(d) /\ rows[d].wait > 0
Elapsed == [d \in Completers |-> IF Waiting(d) THEN [rows[d] EXCEPT !.wait = @ - 1]
                                               ELSE rows[d]]

WebhookTick ==
  /\ clock < MaxClock \/ \E d \in Completers : Waiting(d)
  /\ clock' = IF clock < MaxClock THEN clock + 1 ELSE clock
  /\ rows' = Elapsed
  /\ UNCHANGED <<sessionVars, buyerVars, requests, crashes>>
  /\ UNCHANGED <<senders, batches, secret, shopSecret, hooked, cron, told, sent, overlapped>>

(* The merchant generates a secret, the first or another, in its settings; *)
(* and copies it to the shop's server at some later time.                  *)
GenerateSecret ==
  /\ secret < MaxSecrets
  /\ secret' = secret + 1
  /\ UNCHANGED <<checkoutVars, rows, senders, batches, shopSecret, hooked, cron, told, sent, overlapped>>

ConfigureShop ==
  /\ shopSecret' = secret /\ shopSecret' # shopSecret
  /\ UNCHANGED <<checkoutVars, rows, senders, batches, secret, hooked, cron, told, sent, overlapped>>

-----------------------------------------------------------------------------
(* dispatchWebhook: the session needs a webhookUrl and its merchant a      *)
(* secret, or nothing is ever stored; ...                                  *)
MayNotify_InTime(s) ==                              \* mutant
  s \in hooked /\ secret # 0 /\ ~ TimeIsUp(s)

MayNotify(s) == s \in hooked /\ secret # 0

FindSecret(c) ==
  /\ requests[c].step = "dispatch"
  /\ Goto(c, "done")
  /\ senders' = IF MayNotify(SessionOf(c))
                THEN [senders EXCEPT ![c] = [step |-> "create", secret |-> secret]]
                ELSE senders
  /\ UNCHANGED <<clock, sessionVars, buyerVars, crashes>>
  /\ UNCHANGED <<rows, batches, secret, shopSecret, hooked, cron, told, sent, overlapped>>

(* ... then the delivery is stored, and its first attempt begins.          *)
CreateDelivery(c) ==
  /\ senders[c].step = "create"
  /\ rows' = [rows EXCEPT ![c] = [session |-> SessionOf(c), status |-> "PENDING",
                                  attempts |-> 0, wait |-> Never]]
  /\ senders' = [senders EXCEPT ![c] = [step |-> "load", row |-> c, secret |-> @.secret]]
  /\ UNCHANGED <<checkoutVars, batches, secret, shopSecret, hooked, cron, told, sent, overlapped>>

(* processWebhookRetries: the rows that are due, at most BatchSize, one    *)
(* after the other.                                                        *)
Due_Failed(d) ==                                    \* mutant
  Stored(d) /\ rows[d].status = "FAILED" /\ rows[d].wait = 0

Due(d) ==
  /\ Stored(d) /\ rows[d].status = "PENDING"
  /\ rows[d].wait = 0 /\ rows[d].attempts < MaxAttempts

Held(j) == batches[j] \cup (IF senders[j] = Asleep THEN {} ELSE {senders[j].row})

StartSweep(j) ==
  LET due == {d \in Completers : Due(d)}
  IN  /\ cron
      /\ senders[j] = Asleep /\ batches[j] = {} /\ due # {}
      /\ \E taken \in SUBSET due :
           /\ Cardinality(taken) = IF Cardinality(due) < BatchSize
                                   THEN Cardinality(due) ELSE BatchSize
           /\ batches' = [batches EXCEPT ![j] = taken]
           /\ overlapped' = overlapped \cup (taken \cap UNION {Held(k) : k \in Jobs \ {j}})
      /\ UNCHANGED <<checkoutVars, rows, senders, secret, shopSecret, hooked, cron, told, sent>>

NextInBatch(j) ==
  /\ senders[j] = Asleep
  /\ \E d \in batches[j] :
       /\ batches' = [batches EXCEPT ![j] = @ \ {d}]
       /\ senders' = [senders EXCEPT ![j] = [step |-> "load", row |-> d, secret |-> 0]]
  /\ UNCHANGED <<checkoutVars, rows, secret, shopSecret, hooked, cron, told, sent, overlapped>>

-----------------------------------------------------------------------------
(* attemptWebhookDelivery.                                                 *)
RowOf(x) == senders[x].row
SenderGoes(x, r) == senders' = [senders EXCEPT ![x] = r]

(* Load the row: delivered meanwhile, it is left alone.  Whether it is     *)
(* still due is not looked at again.  A sweep then looks up the secret.    *)
Load(x) ==
  /\ senders[x].step = "load"
  /\ SenderGoes(x, IF rows[RowOf(x)].status = "DELIVERED" THEN Asleep
                   ELSE [step |-> IF x \in Jobs THEN "secret" ELSE "send", row |-> RowOf(x),
                         secret |-> senders[x].secret, read |-> rows[RowOf(x)].attempts])
  /\ UNCHANGED <<checkoutVars, rows, batches, secret, shopSecret, hooked, cron, told, sent, overlapped>>

LookUpSecret(x) ==
  /\ senders[x].step = "secret"
  /\ SenderGoes(x, [senders[x] EXCEPT !.step = "send", !.secret = secret])
  /\ UNCHANGED <<checkoutVars, rows, batches, secret, shopSecret, hooked, cron, told, sent, overlapped>>

(* The shop accepts an event that it can verify, or any when it has no     *)
(* secret.                                                                 *)
Verifies(signedWith) == shopSecret = 0 \/ shopSecret = signedWith

(* The request, and what comes back before its time limit: the shop's      *)
(* acceptance ("ok"), its refusal, or nothing, though the shop may have    *)
(* received the event all the same.                                        *)
Send(x) ==
  LET d == RowOf(x)  heard == Verifies(senders[x].secret)
  IN  /\ senders[x].step = "send"
      /\ sent' = [sent EXCEPT ![d] = @ + 1]
      /\ \E answer \in {"ok", "refused", "none"} :
           /\ answer = "ok" => heard
           /\ SenderGoes(x, [step |-> "store", row |-> d, secret |-> senders[x].secret,
                             read |-> senders[x].read, answer |-> answer])
           /\ told' \in IF answer = "ok" THEN {told \cup {rows[d].session}}
                        ELSE IF answer = "none" /\ heard
                             THEN {told, told \cup {rows[d].session}} ELSE {told}
      /\ UNCHANGED <<checkoutVars, rows, batches, secret, shopSecret, hooked, cron, overlapped>>

(* getNextRetryTime.                                                       *)
NextRetry(n) == IF n >= MaxAttempts THEN Never ELSE RetryDelays[n]

(* Write what the answer means: another status than 2xx keeps the row      *)
(* pending however often it was tried, no answer fails it at the last      *)
(* attempt.  Accepted, the row keeps the retry time it had.                *)
StatusFor(answer, n) ==
  CASE answer = "ok" -> "DELIVERED"
    [] answer = "refused" -> "PENDING"
    [] answer = "none" -> IF n >= MaxAttempts THEN "FAILED" ELSE "PENDING"

StoreAnswer_NoRetryTime(x) ==                       \* mutant
  LET d == RowOf(x)  answer == senders[x].answer  n == senders[x].read + 1
  IN  /\ senders[x].step = "store"
      /\ rows' = [rows EXCEPT ![d].status = StatusFor(answer, n), ![d].attempts = n,
                              ![d].wait = IF answer = "none" THEN NextRetry(n) ELSE @]
      /\ SenderGoes(x, Asleep)
      /\ UNCHANGED <<checkoutVars, batches, secret, shopSecret, hooked, cron, told, sent, overlapped>>

StoreAnswer_AttemptsKept(x) ==                      \* mutant
  LET d == RowOf(x)  answer == senders[x].answer  n == senders[x].read + 1
  IN  /\ senders[x].step = "store"
      /\ rows' = [rows EXCEPT ![d].status = StatusFor(answer, n),
                              ![d].attempts = IF answer = "ok" THEN n ELSE @,
                              ![d].wait = IF answer = "ok" THEN @ ELSE NextRetry(n)]
      /\ SenderGoes(x, Asleep)
      /\ UNCHANGED <<checkoutVars, batches, secret, shopSecret, hooked, cron, told, sent, overlapped>>

StoreAnswer(x) ==
  LET d == RowOf(x)  answer == senders[x].answer  n == senders[x].read + 1
  IN  /\ senders[x].step = "store"
      /\ rows' = [rows EXCEPT ![d] =
                    [session |-> @.session, status |-> StatusFor(answer, n), attempts |-> n,
                     wait |-> IF answer = "ok" THEN @.wait ELSE NextRetry(n)]]
      /\ SenderGoes(x, Asleep)
      /\ UNCHANGED <<checkoutVars, batches, secret, shopSecret, hooked, cron, told, sent, overlapped>>

(* The server abandons a sender, and a sweep with all it still held.       *)
CrashSender(x) ==
  /\ crashes < MaxCrashes
  /\ senders[x] # Asleep
  /\ crashes' = crashes + 1
  /\ SenderGoes(x, Asleep)
  /\ batches' = IF x \in Jobs THEN [batches EXCEPT ![x] = {}] ELSE batches
  /\ UNCHANGED <<clock, sessionVars, buyerVars, requests>>
  /\ UNCHANGED <<rows, secret, shopSecret, hooked, cron, told, sent, overlapped>>

-----------------------------------------------------------------------------
Deliver(x) == Load(x) \/ LookUpSecret(x) \/ Send(x) \/ StoreAnswer(x)
Dispatch(c) == FindSecret(c) \/ CreateDelivery(c) \/ Deliver(c)
Sweep(j) == StartSweep(j) \/ NextInBatch(j) \/ Deliver(j)

WebhookNext ==
  \/ CheckoutStep /\ UNCHANGED deliveryVars
  \/ WebhookTick
  \/ GenerateSecret
  \/ ConfigureShop
  \/ \E c \in Completers : Dispatch(c)
  \/ \E j \in Jobs : Sweep(j)
  \/ \E x \in Senders : CrashSender(x)

(* Requests the server works on make progress, and time passes.  Sweeps    *)
(* run where something calls them.  Nobody has to pay, to read or complete *)
(* a session, or to generate or configure a secret, and no shop has to     *)
(* accept anything.                                                        *)
WebhookFairness ==
  /\ WF_webhookVars(WebhookTick)
  /\ \A r \in Requests : WF_webhookVars(Serve(r) /\ UNCHANGED deliveryVars)
  /\ \A c \in Completers : WF_webhookVars(Dispatch(c))
  /\ \A j \in Jobs : WF_webhookVars(Sweep(j))

WebhookSpec == WebhookInit /\ [][WebhookNext]_webhookVars
FairWebhookSpec == WebhookSpec /\ WebhookFairness

-----------------------------------------------------------------------------
RowsOf(s) == {d \in Completers : Stored(d) /\ rows[d].session = s}

(* The merchant is told of a completion through at most one delivery, and  *)
(* told of nothing that was not completed: the completing requests that    *)
(* lose the race store no delivery (complete/route.ts L60-70), and a row   *)
(* that says DELIVERED was accepted by the shop.                           *)
NotifiedOnce ==
  /\ \A s \in Sessions : Cardinality(RowsOf(s)) <= billRows[s]
  /\ \A s \in told : completedAt[s]
  /\ \A d \in Completers :
       Stored(d) /\ rows[d].status = "DELIVERED" => rows[d].session \in told

(* Both: a completion happens once, with its bill and its notification.    *)
CompletedOnce == OneBillPerCompletion /\ NotifiedOnce

(* As long as no two sweeps hold a row at once, it is sent at most         *)
(* MaxAttempts times and never after it was delivered, and its attempts    *)
(* count what was sent, but for the request under way and those of         *)
(* abandoned senders.  (webhook.ts counts from the row read before         *)
(* sending, L153 and L203, so overlapping sweeps lose counts.)             *)
InFlight(d) == Cardinality({x \in Senders : /\ senders[x].step = "store"
                                            /\ senders[x].row = d})
AttemptsExact ==
  \A d \in Completers :
    Stored(d) /\ d \notin overlapped =>
      /\ sent[d] <= MaxAttempts + crashes
      /\ sent[d] - rows[d].attempts - InFlight(d) \in 0 .. crashes
      /\ rows[d].status = "DELIVERED" => InFlight(d) = 0

(* A delivery that may be sent again waits for its time, so that a sweep   *)
(* finds it, or is in somebody's hands, unless its first sender was        *)
(* abandoned: then nextRetryAt stays null and no sweep ever takes it.      *)
NoRowForgotten ==
  \A d \in Completers :
    Stored(d) /\ rows[d].status = "PENDING" /\ rows[d].attempts < MaxAttempts =>
      \/ rows[d].wait # Never
      \/ \E x \in Senders : senders[x] # Asleep /\ senders[x].step # "create" /\ RowOf(x) = d
      \/ crashes > 0 /\ rows[d].attempts = 0
      \/ d \in overlapped

(* Once a request has found its session in time, still pending, the        *)
(* merchant's delivery is stored, by it or by the request that wins the    *)
(* race, if the session has a webhookUrl and the merchant a secret by      *)
(* then; however long the transaction takes.  Otherwise a reader has       *)
(* marked the session expired before it was completed, or the server       *)
(* abandoned a request or a dispatch on the way.                           *)
InTime(c, s) ==
  requests[c].step = "check" /\ SessionOf(c) = s /\ status[s] = "PENDING"

CompletionNotified ==
  \A c \in Completers, s \in Sessions :
    InTime(c, s) /\ s \in hooked /\ secret # 0 ~>
      RowsOf(s) # {} \/ (status[s] = "EXPIRED" /\ ~ completedAt[s]) \/ crashes > 0

(* Where sweeps run, every delivery comes to an end, unless a sender is    *)
(* abandoned: it is accepted, or tried MaxAttempts times.                  *)
DeliveriesEnd ==
  \A d \in Completers :
    Stored(d) /\ cron ~> \/ Stored(d) /\ rows[d].attempts >= MaxAttempts
                         \/ rows[d].status = "DELIVERED"
                         \/ crashes > 0
=============================================================================
