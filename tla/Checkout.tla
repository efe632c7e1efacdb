------------------------------ MODULE Checkout ------------------------------
(***************************************************************************)
(* Checkout sessions of the web application.  A shop creates a bill on     *)
(* chain and opens a session for it; the buyer's page loads the session,   *)
(* pays the bill on chain, and then asks the server to complete the        *)
(* session, which also stores a bill for the buyer's dashboard and sends   *)
(* the merchant a webhook (module WebhookDelivery).  The server takes the  *)
(* caller's word for it: it looks neither for the payment nor at who asks. *)
(*                                                                         *)
(* Requests run concurrently and interleave between their database calls.  *)
(* Reading a session is not innocent: a read that finds a pending session  *)
(* past its time goes on to mark it expired.                               *)
(***************************************************************************)
EXTENDS Integers, FiniteSets

CONSTANTS
  Sessions,     \* checkout session ids
  Getters,      \* bound: requests that read a session, at any one time
  Completers,   \* bound: requests that complete a session, altogether
  Hour,         \* SESSION_EXPIRY_HOURS, in clock ticks
  MaxClock,     \* bound on the clock
  MaxCrashes    \* bound: requests the server abandons half-way

ASSUME CheckoutAssumption ==
  /\ Getters \cap Completers = {}
  /\ Hour \in Nat /\ MaxClock \in Nat /\ MaxCrashes \in Nat

VARIABLES
  clock,
  status,     \* CheckoutSession.status by session
  expiresAt,  \* CheckoutSession.expiresAt by session
  completedAt, \* CheckoutSession.completedAt is set
  billRows,   \* Bill rows created by completing each session
  billed,     \* sessions whose bill exists on chain
  offered,    \* sessions whose page has shown the pay button
  paid,       \* sessions whose bill is paid on chain
  requests,   \* session, caller and next step of each request
  crashes

sessionVars == <<status, expiresAt, completedAt, billRows>>
buyerVars == <<billed, offered, paid>>
checkoutVars == <<clock, sessionVars, buyerVars, requests, crashes>>

SessionStatus == {"PENDING", "COMPLETED", "EXPIRED", "CANCELLED"}
Requests == Getters \cup Completers
Callers == {"page", "other"}
Steps == {"read", "expire", "check", "tx", "dispatch", "done", "refused", "abandoned"}
Idle == [step |-> "none"]

CheckoutTypeOK ==
  /\ clock \in 0 .. MaxClock
  /\ status \in [Sessions -> SessionStatus \cup {"none"}]
  /\ expiresAt \in [Sessions -> 0 .. MaxClock + Hour]
  /\ completedAt \in [Sessions -> BOOLEAN]
  /\ billRows \in [Sessions -> Nat]
  /\ offered \subseteq billed /\ paid \subseteq offered
  /\ billed \subseteq Sessions
  /\ requests \in [Requests -> [session : Sessions, caller : Callers, step : Steps] \cup {Idle}]
  /\ crashes \in 0 .. MaxCrashes

CheckoutInit ==
  /\ clock = 0
  /\ status = [s \in Sessions |-> "none"]
  /\ expiresAt = [s \in Sessions |-> 0]
  /\ completedAt = [s \in Sessions |-> FALSE]
  /\ billRows = [s \in Sessions |-> 0]
  /\ billed = {} /\ offered = {} /\ paid = {}
  /\ requests = [r \in Requests |-> Idle]
  /\ crashes = 0

-----------------------------------------------------------------------------
(* The merchant, the buyer and the clock.                                  *)
Tick ==
  /\ clock < MaxClock
  /\ clock' = clock + 1
  /\ UNCHANGED <<sessionVars, buyerVars, requests, crashes>>

(* The shop's checkout handler: create the bill on chain ...               *)
CreateBillFor(s) ==
  /\ s \notin billed
  /\ billed' = billed \cup {s}
  /\ UNCHANGED <<clock, sessionVars, offered, paid, requests, crashes>>

(* ... and open a session for it.  Between the two it may give up, and     *)
(* then a bill exists on chain that no session shows.                      *)
CreateSession(s) ==
  /\ s \in billed /\ status[s] = "none"
  /\ status' = [status EXCEPT ![s] = "PENDING"]
  /\ expiresAt' = [expiresAt EXCEPT ![s] = clock + Hour]
  /\ UNCHANGED <<clock, completedAt, billRows, buyerVars, requests, crashes>>

Begin(r, s, who) ==
  requests' = [requests EXCEPT ![r] = [session |-> s, caller |-> who, step |-> "read"]]
Ended(r) == requests[r].step \in {"none", "done", "refused", "abandoned"}

(* The buyer's page loads the session when it opens.                       *)
LoadPage(r, s) ==
  /\ status[s] # "none"
  /\ Ended(r)
  /\ Begin(r, s, "page")
  /\ UNCHANGED <<clock, sessionVars, buyerVars, crashes>>

(* The merchant's server asks how its session stands.                      *)
AskSession(r, s) ==
  /\ status[s] # "none"
  /\ Ended(r)
  /\ Begin(r, s, "other")
  /\ UNCHANGED <<clock, sessionVars, buyerVars, crashes>>

(* pay_bill_bnpl, by a page that has offered the payment, however long ago *)
(* it loaded the session.  The chain accepts one payment of a bill.        *)
PayOnChain(s) ==
  /\ s \in offered /\ s \notin paid
  /\ paid' = paid \cup {s}
  /\ UNCHANGED <<clock, sessionVars, billed, offered, requests, crashes>>

(* The page asks when it has paid, and anybody may at any time.            *)
BeginComplete(r, s) ==
  /\ status[s] # "none"
  /\ requests[r] = Idle
  /\ Begin(r, s, "other")
  /\ UNCHANGED <<clock, sessionVars, buyerVars, crashes>>

-----------------------------------------------------------------------------
(* The server, one database call per step.                                 *)
At(r, step) == requests[r].step = step
Goto(r, step) == requests' = [requests EXCEPT ![r].step = step]
SessionOf(r) == requests[r].session

TimeIsUp(s) == expiresAt[s] < clock

(* The page of a session read as seen offers the payment; the others say   *)
(* that the session is over.                                               *)
OffersPayment(seen, s) == seen = "PENDING" /\ ~ TimeIsUp(s)

(* What the request does with the status getCheckoutSession returned.      *)
AfterRead(r, seen) ==
  LET s == SessionOf(r)
      payable == OffersPayment(seen, s)
  IN  /\ offered' = IF requests[r].caller = "page" /\ payable THEN offered \cup {s} ELSE offered
      /\ IF r \in Getters THEN requests' = [requests EXCEPT ![r] = Idle]
                          ELSE Goto(r, IF payable THEN "check" ELSE "refused")

(* getCheckoutSession: find the session ...                                *)
ReadSession(r) ==
  LET s == SessionOf(r)
  IN  /\ At(r, "read")
      /\ IF status[s] = "PENDING" /\ TimeIsUp(s)
         THEN Goto(r, "expire") /\ UNCHANGED offered
         ELSE AfterRead(r, status[s])
      /\ UNCHANGED <<clock, sessionVars, billed, paid, crashes>>

(* ... and mark it expired, whatever its status has become meanwhile.      *)
ExpireSession(r) ==
  LET s == SessionOf(r)
  IN  /\ At(r, "expire")
      /\ status' = [status EXCEPT ![s] = "EXPIRED"]
      /\ AfterRead(r, "EXPIRED")
      /\ UNCHANGED <<clock, expiresAt, completedAt, billRows, billed, paid, crashes>>

(* completeCheckoutSession: find the session again ...                     *)
CheckPending(r) ==
  /\ At(r, "check")
  /\ Goto(r, IF status[SessionOf(r)] = "PENDING" THEN "tx" ELSE "refused")
  /\ UNCHANGED <<clock, sessionVars, buyerVars, crashes>>

(* ... and, in one transaction, complete it and create the buyer's bill,   *)
(* provided it is still pending.                                           *)
StillPending_Unchecked(s) == TRUE                   \* mutant
StillPending(s) == status[s] = "PENDING"

Complete(r) ==
  LET s == SessionOf(r)
  IN  /\ At(r, "tx")
      /\ IF StillPending(s)
         THEN /\ status' = [status EXCEPT ![s] = "COMPLETED"]
              /\ completedAt' = [completedAt EXCEPT ![s] = TRUE]
              /\ billRows' = [billRows EXCEPT ![s] = @ + 1]
              /\ Goto(r, "dispatch")
         ELSE UNCHANGED <<status, completedAt, billRows>> /\ Goto(r, "refused")
      /\ UNCHANGED <<clock, expiresAt, buyerVars, crashes>>

(* The server abandons a request: a restart, a time limit, a function      *)
(* frozen once it has answered.                                            *)
Crash(r) ==
  /\ crashes < MaxCrashes
  /\ ~ Ended(r)
  /\ crashes' = crashes + 1
  /\ Goto(r, "abandoned")
  /\ UNCHANGED <<clock, sessionVars, buyerVars>>

-----------------------------------------------------------------------------
Serve(r) ==
  \/ ReadSession(r)
  \/ ExpireSession(r)
  \/ CheckPending(r)
  \/ Complete(r)

(* Everything but the clock.  A completed session's request rests at       *)
(* "dispatch", where module WebhookDelivery takes over.                    *)
CheckoutStep ==
  \/ \E s \in Sessions : CreateBillFor(s) \/ CreateSession(s) \/ PayOnChain(s)
  \/ \E r \in Getters, s \in Sessions : LoadPage(r, s) \/ AskSession(r, s)
  \/ \E r \in Completers, s \in Sessions : BeginComplete(r, s)
  \/ \E r \in Requests : Serve(r) \/ Crash(r)

CheckoutNext == Tick \/ CheckoutStep

CheckoutSpec == CheckoutInit /\ [][CheckoutNext]_checkoutVars

-----------------------------------------------------------------------------
(* A session is completed at most once: its bill is stored exactly when    *)
(* its completion is, and never twice, however many requests to complete   *)
(* it race (the conditional update inside the transaction, L150-177).      *)
OneBillPerCompletion ==
  \A s \in Sessions : billRows[s] = IF completedAt[s] THEN 1 ELSE 0

(* session.ts L149: session and bill are updated "atomically", so a stored *)
(* bill and completion time belong to a completed session.  The expiry of  *)
(* a slower read overwrites the status alone.                              *)
CompletedStaysCompleted ==
  \A s \in Sessions : completedAt[s] => status[s] = "COMPLETED"
=============================================================================
