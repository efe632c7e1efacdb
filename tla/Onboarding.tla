----------------------------- MODULE Onboarding -----------------------------
(***************************************************************************)
(* How a merchant gets into the system through the web application: a      *)
(* wizard collects an application in five steps, submitting it stores it   *)
(* in MongoDB and then enrolls the merchant on chain under the row's id,   *)
(* the indexer shows the merchant to the administrator, who sets its       *)
(* status on chain, and an approved merchant enters the portal.            *)
(*                                                                         *)
(* The pages decide by what they have read: the application each page      *)
(* loads when it opens, and the chain's status, cached for five minutes    *)
(* and read again only when a page mounts or after an enrollment.          *)
(* One merchant; the indexer's own behaviour is module EventIndexer.       *)
(***************************************************************************)
EXTENDS Integers, FiniteSets

CONSTANT
  MaxReloads  \* bound: pages opened by their address

ASSUME OnboardingAssumption == MaxReloads \in Nat

VARIABLES
  step, filled,     \* currentStep, the parts of applicationData
  submitting,       \* step of submitMerchantEnrollment
  application,      \* the MerchantApplication row
  chainStatus,      \* the merchant's status in BNPL Core
  row,              \* the merchant's ParsedMerchant row
  listed,           \* that row as the administrator's list shows it
  screen,
  seenApplication,  \* currentApplication of the page
  seenStatus,       \* merchantData of the query cache
  old, reading,     \* that entry is past its five minutes; it is being read
  checked,          \* hasChecked of the layout
  reloads

wizard == <<step, filled, submitting>>
records == <<application, chainStatus, row>>
view == <<screen, seenApplication, seenStatus, old, reading, checked>>
onboardingVars == <<wizard, records, listed, view, reloads>>

Parts == {"business", "contact", "documents", "banking"}
Statuses == {"None", "Pending", "Approved", "Rejected"}
Pages == {"enroll", "status", "portal"}

OnboardingTypeOK ==
  /\ step \in 1 .. 5 /\ filled \subseteq Parts
  /\ submitting \in {"no", "create", "enroll"}
  /\ application \in {"none", "SUBMITTED"}
  /\ chainStatus \in Statuses
  /\ row \in {"none", "inactive", "active"} /\ listed \in {"none", "inactive", "active"}
  /\ screen \in Pages \cup {"home", "not found"}
  /\ seenStatus \in Statuses \cup {"unread"}

OnboardingInit ==
  /\ step = 1 /\ filled = {} /\ submitting = "no"
  /\ application = "none" /\ chainStatus = "None" /\ row = "none"
  /\ listed = "none"
  /\ screen = "home" /\ seenApplication = FALSE /\ seenStatus = "unread"
  /\ old = FALSE /\ reading = FALSE /\ checked = FALSE /\ reloads = 0

-----------------------------------------------------------------------------
(* Pages.  Mounted: a page's hooks start afresh, but for the query cache.  *)
Mounted_Cached(p) ==                                \* mutant
  /\ screen' = p
  /\ seenApplication' = FALSE
  /\ reading' = (reading \/ seenStatus = "unread")
  /\ step' = 1 /\ filled' = {}
Mounted(p) ==
  /\ screen' = p
  /\ seenApplication' = FALSE
  /\ reading' = (reading \/ seenStatus = "unread" \/ old)
  /\ step' = 1 /\ filled' = {}

Go(p) ==
  /\ Mounted(p)
  /\ UNCHANGED <<submitting, records, listed, seenStatus, old, reloads>>

(* A page opened by its address starts with nothing.                       *)
Open(p) ==
  /\ submitting = "no" /\ reloads < MaxReloads
  /\ screen' = p /\ seenApplication' = FALSE /\ seenStatus' = "unread"
  /\ old' = FALSE /\ reading' = TRUE /\ checked' = FALSE
  /\ step' = 1 /\ filled' = {}
  /\ reloads' = reloads + 1
  /\ UNCHANGED <<submitting, records, listed>>

(* Links out of the layout and into it, which mounts it again.             *)
GoHome == screen # "home" /\ Go("home") /\ checked' = FALSE
MerchantPortal == screen = "home" /\ Go("portal") /\ checked' = FALSE

(* loadCurrentStatus.                                                      *)
LoadApplication ==
  /\ screen \in {"enroll", "status"}
  /\ application # "none" /\ ~ seenApplication
  /\ seenApplication' = TRUE
  /\ UNCHANGED <<wizard, records, listed, screen, seenStatus, old, reading, checked, reloads>>

(* The query of useBnplMerchant.  get_merchant panics for a merchant that  *)
(* is not enrolled, which the query reports as the status None; and so it  *)
(* does with every other failure, and keeps that answer like any other.    *)
StatusRead(status) ==
  /\ reading
  /\ seenStatus' = status
  /\ old' = FALSE /\ reading' = FALSE
  /\ UNCHANGED <<wizard, records, listed, screen, seenApplication, checked, reloads>>

ReadStatus == StatusRead(chainStatus)
ReadFails == StatusRead("None")

StatusAges ==
  /\ seenStatus # "unread" /\ ~ old
  /\ old' = TRUE
  /\ UNCHANGED <<wizard, records, listed, screen, seenApplication, seenStatus, reading,
                 checked, reloads>>

-----------------------------------------------------------------------------
(* The wizard.  Each step is left by its validated form; the review may    *)
(* send the applicant back to any of them.                                 *)
FillPart(n, part) ==
  /\ screen = "enroll" /\ submitting = "no"
  /\ step = n
  /\ filled' = filled \cup {part}
  /\ step' = n + 1
  /\ UNCHANGED <<submitting, records, listed, view, reloads>>

FillBusiness == FillPart(1, "business")
FillContact == FillPart(2, "contact")
FillDocuments == FillPart(3, "documents")
FillBanking == FillPart(4, "banking")

Edit(n) ==
  /\ screen = "enroll" /\ submitting = "no"
  /\ n = step - 1 \/ (step = 5 /\ n < 5)
  /\ step' = n
  /\ UNCHANGED <<filled, submitting, records, listed, view, reloads>>

Submit ==
  /\ screen = "enroll" /\ step = 5 /\ submitting = "no"
  /\ filled = Parts
  /\ submitting' = "create"
  /\ UNCHANGED <<step, filled, records, listed, view, reloads>>

-----------------------------------------------------------------------------
(* submitMerchantEnrollment: the row first.  One that exists is refused    *)
(* with 409.  The answer may be lost although the row was stored.          *)
CreateApplication(answered) ==
  /\ submitting = "create"
  /\ application' = "SUBMITTED"
  /\ submitting' = IF answered /\ application = "none" THEN "enroll" ELSE "no"
  /\ UNCHANGED <<step, filled, chainStatus, row, listed, view, reloads>>

CreateFails ==
  /\ submitting = "create"
  /\ submitting' = "no"
  /\ UNCHANGED <<step, filled, records, listed, view, reloads>>

(* merchantStatus is Submitted when the chain's status is the empty value, *)
(* which it never is: unread it is the object of the query's default.      *)
ShownStatus == IF seenStatus = "" THEN "Submitted" ELSE seenStatus

(* The status page's Retry Commit, which calls completeBlockchainEnrollment*)
RetryOffered ==
  /\ screen = "status" /\ seenApplication
  /\ ShownStatus = "Submitted"

MayEnroll == submitting = "enroll" \/ RetryOffered

(* The contract takes an address once.  The status is read again when the  *)
(* enrollment has gone through.                                            *)
Enroll ==
  /\ MayEnroll
  /\ chainStatus' = IF chainStatus = "None" THEN "Pending" ELSE chainStatus
  /\ reading' = (reading \/ chainStatus = "None")
  /\ submitting' = "no"
  /\ UNCHANGED <<step, filled, application, row, listed, screen, seenApplication, seenStatus,
                 old, checked, reloads>>

(* The merchant refuses to sign or the network does not answer: a message  *)
(* says that the registration will be retried.                             *)
EnrollFails ==
  /\ submitting = "enroll"
  /\ submitting' = "no"
  /\ UNCHANGED <<step, filled, records, listed, view, reloads>>

-----------------------------------------------------------------------------
(* Where the pages send the merchant.  The page for approved merchants and *)
(* the one a submitted application is sent to do not exist.                *)
EnrollPageLeaves ==
  /\ screen = "enroll" /\ submitting = "no"
  /\ \/ (seenApplication \/ seenStatus = "Pending") /\ Go("status")
     \/ seenApplication /\ step = 5 /\ Go("not found")
     \/ ~ seenApplication /\ seenStatus = "Approved" /\ Go("not found")
  /\ UNCHANGED checked

(* checkMerchantAuthStatus: once for all pages of the layout.              *)
AuthCheck ==
  /\ screen \in Pages /\ ~ checked
  /\ checked' = TRUE
  /\ IF screen = "portal" /\ seenStatus # "Approved" THEN Go("enroll")
     ELSE UNCHANGED <<wizard, records, listed, screen, seenApplication, seenStatus, old,
                      reading, reloads>>

PortalOffered ==
  screen = "status" /\ seenApplication /\ seenStatus = "Approved"

EnterPortal == PortalOffered /\ Go("portal") /\ UNCHANGED checked

(* From a portal that is closed, and from a status page without an         *)
(* application.                                                            *)
TurnedAway ==
  /\ \/ screen = "portal" /\ checked /\ seenStatus # "Approved"
          /\ \E p \in {"enroll", "status"} : Go(p)
     \/ screen = "status" /\ ~ seenApplication /\ Go("enroll")
  /\ UNCHANGED checked

PortalOpen == screen = "portal" /\ checked /\ seenStatus = "Approved"

-----------------------------------------------------------------------------
(* The indexer, which may lose an event and leave the row as it was, and   *)
(* the administrator's pages over its table.                               *)
IndexerWrites ==
  /\ row' = CASE chainStatus = "None" -> "none"
              [] chainStatus = "Approved" -> "active"
              [] OTHER -> "inactive"
  /\ row' # row
  /\ UNCHANGED <<wizard, application, chainStatus, listed, view, reloads>>

ListMerchants ==
  /\ listed # row
  /\ listed' = row
  /\ UNCHANGED <<wizard, records, view, reloads>>

UpdateStatus(new) ==
  /\ chainStatus' = new
  /\ UNCHANGED <<wizard, application, row, listed, view, reloads>>

Reactivate == listed = "inactive" /\ UpdateStatus("Approved")
Deactivate == listed = "active" /\ UpdateStatus("Rejected")

-----------------------------------------------------------------------------
MerchantActs ==
  \/ (\E p \in Pages : Open(p))
  \/ GoHome \/ MerchantPortal
  \/ FillBusiness \/ FillContact \/ FillDocuments \/ FillBanking
  \/ (\E n \in 1 .. 4 : Edit(n)) \/ Submit \/ EnterPortal \/ TurnedAway
PageActs ==
  \/ LoadApplication \/ ReadStatus \/ ReadFails \/ StatusAges \/ EnrollPageLeaves \/ AuthCheck
  \/ (\E answered \in BOOLEAN : CreateApplication(answered)) \/ CreateFails
  \/ Enroll \/ EnrollFails

OnboardingNext ==
  \/ MerchantActs \/ PageActs \/ IndexerWrites
  \/ ListMerchants \/ Reactivate \/ Deactivate

(* Pages load what they show and follow their redirections, entries of the *)
(* cache age, a read is answered, and the merchant keeps going to the      *)
(* portal, from the home page or by the button of its status page.         *)
(* Nothing is assumed of the administrator and of the indexer.             *)
OnboardingFairness ==
  /\ SF_onboardingVars(LoadApplication) /\ WF_onboardingVars(ReadStatus \/ ReadFails)
  /\ WF_onboardingVars(EnrollPageLeaves) /\ SF_onboardingVars(AuthCheck)
  /\ WF_onboardingVars(StatusAges)
  /\ SF_onboardingVars(EnterPortal) /\ WF_onboardingVars(TurnedAway)
  /\ WF_onboardingVars(GoHome) /\ WF_onboardingVars(MerchantPortal)
  /\ WF_onboardingVars(Enroll)

OnboardingSpec == OnboardingInit /\ [][OnboardingNext]_onboardingVars /\ OnboardingFairness

-----------------------------------------------------------------------------
(* A merchant that stays approved gets into the portal, although the first *)
(* check of the layout runs before the status is read and sends it to the  *)
(* enrollment (merchant-auth-check.tsx L25-56), and although a failed read *)
(* tells the pages for five minutes that it never enrolled, as long as the *)
(* reads do not go on failing.                                             *)
ApprovedGetsIn ==
  <>[][~ ReadFails]_onboardingVars =>
    (chainStatus = "Approved" ~> PortalOpen \/ chainStatus # "Approved")

(* "Application submitted. Blockchain registration will be retried."       *)
(* (use-merchant.ts L120)                                                  *)
EnrollmentRetried == submitting = "enroll" ~> chainStatus # "None"
=============================================================================
