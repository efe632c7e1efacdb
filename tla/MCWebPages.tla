----------------------------- MODULE MCWebPages -----------------------------
(* The parts of the web application that share nothing but the tab they    *)
(* are open in, checked side by side: a behaviour picks one of them and    *)
(* stays with it.  Fairness of one part's actions is stated together with  *)
(* that of others', of which a behaviour has only one.  The bills' grace   *)
(* period ends when both are paid, in behaviours that lose nothing.        *)
EXTENDS LiquidityPages, Wallet, Onboarding, BillDetail, BillPages

CONSTANTS w1, w2, f1, s1

VARIABLE part  \* the part of the application that is used

MCWallets == {w1, w2}
MCFormBills == {f1}
MCSessionBills == {s1}
MCPrincipal == [b \in AllBills |-> 100]

webVars == <<part, liquidityVars, walletVars, onboardingVars, billDetailVars,
             billPagesVars>>

WebInit ==
  /\ part \in {"money", "wallet", "merchant", "bill", "bills"}
  /\ LiquidityInit /\ WalletInit /\ OnboardingInit /\ BillPagesInit
  /\ BillDetailInit /\ (viewer # "user" => part = "bill")

Money(A) ==
  /\ part = "money" /\ A
  /\ UNCHANGED <<part, walletVars, onboardingVars, billDetailVars, billPagesVars>>
Connection(A) ==
  /\ part = "wallet" /\ A
  /\ UNCHANGED <<part, liquidityVars, onboardingVars, billDetailVars, billPagesVars>>
Merchant(A) ==
  /\ part = "merchant" /\ A
  /\ UNCHANGED <<part, liquidityVars, walletVars, billDetailVars, billPagesVars>>
Detail(A) ==
  /\ part = "bill" /\ A
  /\ UNCHANGED <<part, liquidityVars, walletVars, onboardingVars, billPagesVars>>
Bills(A) ==
  /\ part = "bills" /\ A
  /\ age' # age => failures = 0 /\ \A b \in AllBills : onChain[b] = "Paid"
  /\ failures' # failures => age = 0 /\ (funds' # funds => repaying # NotRepaying)
  /\ UNCHANGED <<part, liquidityVars, walletVars, onboardingVars, billDetailVars>>

WebNext ==
  \/ Money(LiquidityNext) \/ Connection(WalletStep)
  \/ Merchant(OnboardingNext) \/ Detail(BillDetailNext) \/ Bills(BillPagesNext)

(* LiquidityFairness, WalletFairness, OnboardingFairness,                  *)
(* BillDetailFairness and BillPagesFairness.  A read of the merchant's     *)
(* status stays under way until it ends, which makes SF of it WF.          *)
WebFairness ==
  /\ SF_webVars(Money(Click) \/ Merchant(LoadApplication) \/ Detail(ReadBill) \/ Bills(ClickRepay(f1)))
  /\ SF_webVars(Money(Approve) \/ Merchant(AuthCheck) \/ Detail(VerifyOnChain) \/ Bills(ClickRepay(s1)))
  /\ SF_webVars(Money(Deposit) \/ Merchant(EnterPortal) \/ Bills(CacheExpires))
  /\ SF_webVars(Money(Mint) \/ Merchant(ReadStatus \/ ReadFails))
  /\ WF_webVars(Money(StartCheck) \/ Merchant(EnrollPageLeaves) \/ Connection(ModalLeft /\ Recorded)
                  \/ Detail(RowFollows) \/ Bills(FetchRows))
  /\ WF_webVars(Money(\E c \in checks : ReadAllowance(c) \/ CheckLands(c)) \/ Merchant(StatusAges)
                  \/ Connection(Answered /\ Recorded) \/ Detail(CopyStales) \/ Bills(FetchEvents))
  /\ WF_webVars(Money(Recheck) \/ Merchant(TurnedAway) \/ Bills(FetchIndex))
  /\ WF_webVars(Money(AllowanceExpires) \/ Merchant(GoHome) \/ Bills(Index(f1)))
  /\ WF_webVars(Money(MintedExpires) \/ Merchant(MerchantPortal) \/ Bills(Index(s1)))
  /\ WF_webVars(Money(RefreshMinted) \/ Merchant(Enroll) \/ Bills(ApproveMore \/ Repay))

FairWebSpec == WebInit /\ [][WebNext]_webVars /\ WebFairness

-----------------------------------------------------------------------------
(* Each part's promise, of the behaviours that use that part.              *)

(* LiquidityPages: a user who keeps clicking is served.                    *)
LenderServed == part = "money" => UserServed

(* Onboarding: a merchant that stays approved gets into the portal.        *)
MerchantGetsIn == part = "merchant" => ApprovedGetsIn

(* BillDetail: a mismatch that is reported goes away.                      *)
MismatchClears == part = "bill" => DiscrepancyClears

(* BillPages: a bill made with the form reaches its buyer's dashboard, and *)
(* a buyer who comes back and keeps asking repays a loan in time.          *)
BuyerFindsBill == part = "bills" => FormBillReachesBuyer
BuyerRepays == part = "bills" => RepaidInTime
=============================================================================
