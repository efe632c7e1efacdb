------------------------------ MODULE BotSetup ------------------------------
(***************************************************************************)
(* What the testnet bot's package does to set its accounts up and what it  *)
(* remembers of it: the account pool (accounts/pool.ts), the commands that *)
(* create, onboard and approve merchants one after the other (the script   *)
(* bin/bootstrap-step.ts, the bootstrap scenario as a command and as the   *)
(* bot's own choice, bin/sync-merchants.ts), and the bot's cycle of one    *)
(* bill, which anyone may liquidate.  Each merchant has a key of the       *)
(* command line tool, an application in the web application's database and *)
(* a status on chain; the pool is a memory of the three.  Two processes    *)
(* hold one each, a command and the bot, and both save it whole in the     *)
(* same document, where they restored it from.                             *)
(***************************************************************************)
EXTENDS Naturals, FiniteSets

CONSTANTS
  N,         \* merchants: MERCHANT_COUNT, merchantCount
  Verdicts,  \* bound: the statuses an administrator gives merchants by hand
  MaxRuns    \* bound: processes started

ASSUME BotSetupAssumption ==
  /\ N \in Nat /\ MaxRuns \in Nat
  /\ Verdicts \subseteq {"None", "Pending", "Approved", "Rejected", "Suspended", "Cancelled"}

VARIABLES
  accounts,     \* merchants with a key in the command line tool
  applications, \* MerchantApplication.status by merchant
  chain,        \* status of each merchant in BNPL Core, "Absent" before enrollment
  loan,         \* status of the bill of the bot's cycle
  job,          \* what each process is at: command, phase, merchant
  pool,         \* accountPool of each process
  activeBills,  \* whether its user's activeBills has the bill
  saved,        \* bot_state.accountPool
  approved,     \* history: merchants that were approved on chain at some time
  misused,      \* history: sync-merchants ran though a merchant never had been approved
  runs

places == <<accounts, applications, chain, approved, loan>>
memory == <<pool, activeBills>>
setupVars == <<places, job, memory, saved, misused, runs>>

Processes == {"bot", "tool"}
ToolCommands == {"accounts", "onboard", "approve", "bootstrap", "sync"}
Down == [command |-> "none", phase |-> "down", at |-> 1]
Entry == [merchantStatus : {"none", "pending", "approved"}, mongoId : BOOLEAN]
NewEntry == [merchantStatus |-> "none", mongoId |-> FALSE]
NoPool == [m \in {} |-> NewEntry]

SetupTypeOK ==
  /\ accounts \subseteq 1 .. N
  /\ applications \in [1 .. N -> {"none", "SUBMITTED", "APPROVED"}]
  /\ chain \in [1 .. N -> {"Absent", "Pending", "Approved"} \cup Verdicts]
  /\ approved \subseteq 1 .. N
  /\ loan \in {"none", "Created", "Paid", "Repaid", "Liquidated"}
  /\ \A p \in Processes : \E k \in 0 .. N : pool[p] \in [1 .. k -> Entry]

SetupInit ==
  /\ accounts = {} /\ loan = "none"
  /\ applications = [m \in 1 .. N |-> "none"]
  /\ chain = [m \in 1 .. N |-> "Absent"] /\ approved = {}
  /\ job = [p \in Processes |-> Down]
  /\ pool = [p \in Processes |-> NoPool]
  /\ activeBills = [p \in Processes |-> FALSE]
  /\ saved = [pool |-> NoPool, active |-> FALSE]
  /\ misused = FALSE /\ runs = 0

-----------------------------------------------------------------------------
(* A process starts: it restores the document, or fails to and goes on     *)
(* without, and loads the tool's keys; what it knows of a merchant is what *)
(* was restored for its address.                                           *)
Loaded(old) ==
  [m \in accounts |-> IF m \in DOMAIN old THEN old[m] ELSE NewEntry]

FirstPhase(c) == IF c = "bootstrap" THEN "accounts" ELSE c

StartSetup(p) ==
  /\ job[p] = Down /\ runs < MaxRuns
  /\ \E c \in IF p = "tool" THEN ToolCommands ELSE {"run"} :
       job' = [job EXCEPT ![p] = [command |-> c, phase |-> FirstPhase(c), at |-> 1]]
  /\ \/ /\ pool' = [pool EXCEPT ![p] = Loaded(saved.pool)]
        /\ activeBills' = [activeBills EXCEPT ![p] = saved.active]
     \/ /\ pool' = [pool EXCEPT ![p] = Loaded(NoPool)]
        /\ activeBills' = [activeBills EXCEPT ![p] = FALSE]
  /\ runs' = runs + 1
  /\ UNCHANGED <<places, saved, misused>>

Goto(p, phase) == job' = [job EXCEPT ![p].phase = phase]

(* A command's process stops when it is done or has failed; the bot, whose *)
(* scenario it was, goes on.                                               *)
Over(p) ==
  job' = [job EXCEPT ![p] = [command |-> job[p].command, at |-> 1,
                             phase |-> IF job[p].command = "run" THEN "run" ELSE "ended"]]
InScenario(p) == job[p].command \in {"bootstrap", "run"}

NextMerchant(p, phase) == job' = [job EXCEPT ![p].phase = phase, ![p].at = job[p].at + 1]
At(p, phase) == job[p].phase = phase
Mine(p) == pool[p][job[p].at]
Left(p) == job[p].at <= Cardinality(DOMAIN pool[p])

UpdateMerchant(p, entry) == pool' = [pool EXCEPT ![p][job[p].at] = entry]

(* saveState writes the whole pool: the bot each minute, and any process   *)
(* that stops, its command done or failed.  A process may also be killed.  *)
SavePool(p) == saved' = [pool |-> pool[p], active |-> activeBills[p]]

SaveEachMinute ==
  /\ job["bot"] # Down
  /\ SavePool("bot")
  /\ UNCHANGED <<places, job, memory, misused, runs>>

StopSetup(p) ==
  /\ At(p, "ended") \/ job[p].command = "run"
  /\ SavePool(p)
  /\ job' = [job EXCEPT ![p] = Down]
  /\ UNCHANGED <<places, memory, misused, runs>>

Killed(p) ==
  /\ job[p] # Down
  /\ job' = [job EXCEPT ![p] = Down]
  /\ UNCHANGED <<places, memory, saved, misused, runs>>

-----------------------------------------------------------------------------
(* The bot's goals may recommend the bootstrap scenario to itself.         *)
BotBootstraps ==
  /\ At("bot", "run")
  /\ Goto("bot", "accounts")
  /\ UNCHANGED <<places, memory, saved, misused, runs>>

(* ensureMerchants: a key and an entry for each merchant the pool lacks.   *)
(* The scenario then moves money, and any call of that may fail.           *)
EnsureMerchants(p) ==
  LET num == Cardinality(DOMAIN pool[p]) + 1
  IN  /\ At(p, "accounts")
      /\ IF num > N
         THEN /\ (InScenario(p) /\ Goto(p, "onboard")) \/ Over(p)
              /\ UNCHANGED <<pool, accounts>>
         ELSE /\ accounts' = accounts \cup {num}
              /\ pool' = [pool EXCEPT ![p] = [m \in 1 .. num |->
                            IF m = num THEN NewEntry ELSE pool[p][m]]]
              /\ job' = job
      /\ UNCHANGED <<applications, chain, approved, loan, activeBills, saved, misused, runs>>

(* Onboarding: an application, refused when there is one, which ends the   *)
(* command, ...  The single step skips whom the pool knows as onboarded.   *)
CreateApplication(p) ==
  LET m == job[p].at
  IN  /\ At(p, "onboard")
      /\ \/ /\ Left(p) /\ (Mine(p).mongoId => InScenario(p))
            /\ IF applications[m] = "none"
               THEN /\ applications' = [applications EXCEPT ![m] = "SUBMITTED"]
                    /\ Goto(p, "enroll") \/ Over(p)
               ELSE applications' = applications /\ Over(p)
         \/ /\ Left(p) /\ Mine(p).mongoId /\ ~ InScenario(p)
            /\ NextMerchant(p, "onboard")
            /\ UNCHANGED applications
         \/ /\ ~ Left(p)
            /\ IF InScenario(p)
               THEN job' = [job EXCEPT ![p].phase = "approve", ![p].at = 1]
               ELSE Over(p)
            /\ UNCHANGED applications
      /\ UNCHANGED <<accounts, chain, approved, loan, memory, saved, misused, runs>>

(* ... and the enrollment on chain, which the pool remembers with it.  An  *)
(* answer that is lost ends the command before that.                       *)
EnrollOnChain(p) ==
  LET m == job[p].at
  IN  /\ At(p, "enroll")
      /\ \/ /\ chain[m] = "Absent"
            /\ chain' = [chain EXCEPT ![m] = "Pending"]
            /\ \/ /\ UpdateMerchant(p, [merchantStatus |-> "pending", mongoId |-> TRUE])
                  /\ NextMerchant(p, "onboard")
               \/ UNCHANGED pool /\ Over(p)
         \/ UNCHANGED <<chain, pool>> /\ Over(p)
      /\ UNCHANGED <<accounts, applications, approved, loan, activeBills, saved, misused, runs>>

-----------------------------------------------------------------------------
(* Approval: the application, if it is known, where a failure ends the     *)
(* scenario and not the single step, ...                                   *)
ApproveApplication(p) ==
  LET m == job[p].at
  IN  /\ At(p, "approve")
      /\ \/ /\ Left(p) /\ Mine(p).merchantStatus = "approved"
            /\ ~ InScenario(p)
            /\ NextMerchant(p, "approve")
            /\ UNCHANGED applications
         \/ /\ Left(p)
            /\ Mine(p).merchantStatus = "approved" => InScenario(p)
            /\ \/ /\ Mine(p).mongoId
                  /\ applications' = [applications EXCEPT ![m] = "APPROVED"]
                  /\ Goto(p, "approveOnChain")
               \/ /\ Mine(p).mongoId
                  /\ UNCHANGED applications
                  /\ IF InScenario(p) THEN Over(p) ELSE Goto(p, "approveOnChain")
               \/ /\ ~ Mine(p).mongoId
                  /\ UNCHANGED applications
                  /\ Goto(p, "approveOnChain")
         \/ ~ Left(p) /\ Over(p) /\ UNCHANGED applications
      /\ UNCHANGED <<accounts, chain, approved, loan, memory, saved, misused, runs>>

(* ... and the status on chain, of a merchant that is enrolled.            *)
SetStatus(m, new) ==
  /\ chain' = [chain EXCEPT ![m] = new]
  /\ approved' = approved \cup (IF new = "Approved" THEN {m} ELSE {})

ApproveOnChain_RecordAnyway(p) ==                       \* mutant
  LET m == job[p].at
  IN  /\ At(p, "approveOnChain")
      /\ \/ /\ chain[m] # "Absent"
            /\ SetStatus(m, "Approved")
         \/ UNCHANGED <<chain, approved>>
      /\ UpdateMerchant(p, [Mine(p) EXCEPT !.merchantStatus = "approved"])
      /\ NextMerchant(p, "approve")
      /\ UNCHANGED <<accounts, applications, loan, activeBills, saved, misused, runs>>

ApproveOnChain(p) ==
  LET m == job[p].at
  IN  /\ At(p, "approveOnChain")
      /\ \/ /\ chain[m] # "Absent"
            /\ SetStatus(m, "Approved")
            /\ \/ /\ UpdateMerchant(p, [Mine(p) EXCEPT !.merchantStatus = "approved"])
                  /\ NextMerchant(p, "approve")
               \/ UNCHANGED pool /\ Over(p)
         \/ UNCHANGED <<chain, approved, pool>> /\ Over(p)
      /\ UNCHANGED <<accounts, applications, loan, activeBills, saved, misused, runs>>

(* sync-merchants: every merchant of the pool counts as approved, and is   *)
(* onboarded if it has an application.  It is for merchants approved by    *)
(* hand, and does not look.                                                *)
SyncMerchants(p) ==
  /\ At(p, "sync")
  /\ pool' = [pool EXCEPT ![p] = [m \in DOMAIN pool[p] |->
                [merchantStatus |-> "approved",
                 mongoId |-> pool[p][m].mongoId \/ applications[m] # "none"]]]
  /\ misused' = (misused \/ ~ DOMAIN pool[p] \subseteq approved)
  /\ Over(p)
  /\ UNCHANGED <<places, activeBills, saved, runs>>

(* An administrator's own decisions: any status, of any merchant that is   *)
(* enrolled, at any time.                                                  *)
AdminDecides ==
  /\ \E m \in 1 .. N, s \in Verdicts : chain[m] # "Absent" /\ SetStatus(m, s)
  /\ UNCHANGED <<accounts, applications, loan, job, memory, saved, misused, runs>>

-----------------------------------------------------------------------------
(* The bot's bills: one of a merchant it believes approved, alone or with  *)
(* its payment and its repayment, or a note that it is to be repaid.  Each *)
(* call may be refused, or its answer lost, and then the cycle is over.    *)
(* Anyone may liquidate the loan once its time has come.                   *)
MayBill(m) == pool["bot"][m].merchantStatus = "approved"
CreateBill == loan = "none" /\ loan' = "Created"
PayBillBnpl == loan = "Created" /\ loan' = "Paid"
RepayBill == loan = "Paid" /\ loan' = "Repaid"

LiquidateBill ==
  /\ loan = "Paid" /\ loan' = "Liquidated"
  /\ UNCHANGED <<accounts, applications, chain, approved, job, memory, saved, misused, runs>>

CreateOnly ==
  /\ At("bot", "run") /\ job' = job
  /\ \E m \in DOMAIN pool["bot"] : MayBill(m) /\ chain[m] = "Approved" /\ CreateBill
  /\ UNCHANGED <<accounts, applications, chain, approved, memory, saved, misused, runs>>

CycleCreates ==
  /\ At("bot", "run") /\ Goto("bot", "pay")
  /\ \E m \in DOMAIN pool["bot"] : MayBill(m) /\ chain[m] = "Approved" /\ CreateBill
  /\ UNCHANGED <<accounts, applications, chain, approved, memory, saved, misused, runs>>

CyclePays ==
  /\ At("bot", "pay")
  /\ \/ PayBillBnpl /\ (Goto("bot", "repay") \/ Goto("bot", "run"))
     \/ loan' = loan /\ Goto("bot", "run")
  /\ UNCHANGED <<accounts, applications, chain, approved, memory, saved, misused, runs>>

CycleRepays ==
  /\ At("bot", "repay")
  /\ Goto("bot", "run")
  /\ \/ (RepayBill \/ loan' = loan) /\ activeBills' = activeBills
     \/ loan' = loan /\ activeBills' = [activeBills EXCEPT !["bot"] = TRUE]
  /\ UNCHANGED <<accounts, applications, chain, approved, pool, saved, misused, runs>>

-----------------------------------------------------------------------------
SetupStep(p) ==
  \/ StartSetup(p) \/ StopSetup(p) \/ Killed(p)
  \/ EnsureMerchants(p) \/ CreateApplication(p) \/ EnrollOnChain(p)
  \/ ApproveApplication(p) \/ ApproveOnChain(p) \/ SyncMerchants(p)

SetupNext ==
  \/ \E p \in Processes : SetupStep(p)
  \/ SaveEachMinute \/ BotBootstraps \/ AdminDecides \/ LiquidateBill
  \/ CreateOnly \/ CycleCreates \/ CyclePays \/ CycleRepays

SetupSpec == SetupInit /\ [][SetupNext]_setupVars

-----------------------------------------------------------------------------
(* What a pool or the saved document records has happened: a merchant that *)
(* is pending there was enrolled, one that is approved was approved on     *)
(* chain, whatever the administrator has made of it since, one with a link *)
(* has its application, and a bill noted for repayment was paid and not    *)
(* repaid; whichever process crashed, failed half-way, or overwrote the    *)
(* other's document; unless sync-merchants was told otherwise.             *)
NotAhead(entries, active) ==
  /\ \A m \in DOMAIN entries :
       /\ entries[m].mongoId => applications[m] # "none"
       /\ entries[m].merchantStatus = "pending" => chain[m] # "Absent"
       /\ entries[m].merchantStatus = "approved" => m \in approved \/ misused
  /\ active => loan \in {"Paid", "Liquidated"}

PoolNotAhead ==
  /\ \A p \in Processes : NotAhead(pool[p], activeBills[p])
  /\ NotAhead(saved.pool, saved.active)
=============================================================================
