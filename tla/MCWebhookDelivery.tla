-------------------------- MODULE MCWebhookDelivery --------------------------
(* Model values and bounds for checking Checkout and WebhookDelivery.      *)
EXTENDS WebhookDelivery

CONSTANTS s1, g1, c1, c2, j1, j2

(* A behaviour is about the race for a session, with two requests that     *)
(* complete it while its time may run out and nothing sweeps; or about the *)
(* delivery that one completion leads to, with sweeps that overlap.        *)
VARIABLE racing

MCSessions == {s1}
MCGetters == {g1}
MCCompleters == {c1, c2}
MCJobs == {j1, j2}

(* One minute, five, fifteen: only that a wait has to pass matters.        *)
MCRetryDelays == <<1, 1, 1>>

RaceInit ==
  /\ racing \in BOOLEAN
  /\ status = [s \in Sessions |-> "none"]
  /\ expiresAt = [s \in Sessions |-> 0]
  /\ completedAt = [s \in Sessions |-> FALSE]
  /\ billRows = [s \in Sessions |-> 0]
  /\ billed = {} /\ offered = {} /\ paid = {}
  /\ requests = [r \in Requests |-> Idle]
  /\ crashes = 0
  /\ clock = IF racing THEN 0 ELSE MaxClock
  /\ DeliveryInit
  /\ IF racing THEN ~ cron ELSE hooked = Sessions

RaceNext ==
  /\ WebhookNext
  /\ IF racing THEN secret' <= 1
     ELSE /\ requests'[c2] = Idle
          /\ offered # {} => requests'[g1] = requests[g1]
  /\ UNCHANGED racing

RaceSpec == RaceInit /\ [][RaceNext]_<<webhookVars, racing>> /\ WebhookFairness
=============================================================================
