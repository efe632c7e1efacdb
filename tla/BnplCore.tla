------------------------------ MODULE BnplCore ------------------------------
(***************************************************************************)
(* contracts/bnpl_core composed with the pool and the USDC token: the      *)
(* whole on-chain protocol.                                                *)
(*                                                                         *)
(* A merchant creates a bill; the user the bill names pays it with USDC    *)
(* the core borrows from the pool, against LP shares that stay with the    *)
(* user but are locked; the user repays, or after the threshold any LP     *)
(* holder liquidates and the user's shares are burned.  One transaction is *)
(* one action: the calls it makes to the pool and the token are composed   *)
(* inside it, in the source's order, as intermediate balances.             *)
(***************************************************************************)
EXTENDS LpToken, Prefix

CONSTANTS
  Merchants,        \* addresses that may enroll
  Core,             \* the BNPL Core contract's address
  Treasury,         \* config.treasury
  Insurance,        \* config.insurance_fund
  Borrowers,        \* bound: the users bills name
  AdminStatuses,    \* bound: the statuses update_merchant_status sets
  Principals,       \* bound: bill amounts
  Orders,           \* order identifiers of the merchants' shops
  RepayAllowances,  \* bound: amounts users approve to the core
  MaxBills          \* bound: number of bills

MerchantStatus ==
  {"None", "Pending", "Approved", "Rejected", "Suspended", "Cancelled"}

ASSUME CoreAssumption ==
  /\ Merchants \subseteq Accounts
  /\ {Core, Treasury, Insurance} \subseteq Accounts
  /\ Borrowers \subseteq Users
  /\ {Core, Pool} \cap (Users \cup Merchants \cup {Treasury, Insurance}) = {}
  /\ Core # Pool
  /\ AdminStatuses \subseteq MerchantStatus
  /\ Principals \subseteq Nat
  /\ RepayAllowances \subseteq Int
  /\ MaxBills \in Nat

VARIABLES
  bnplCore,     \* the pool's bnpl_core address, or NotSet
  merchants,    \* MerchantData(address).status, or NotEnrolled
  billCounter,  \* BillCounter, the id of the next bill
  bills,        \* Bill(id)
  userBills,    \* UserBills(address)
  strained      \* the users with a loan liquidated past its margin

coreVars == <<bnplCore, merchants, billCounter, bills, userBills, strained>>
vars == <<coreVars, lpVars, usdcVars>>

BillIds == 1 .. MaxBills
NotSet == "NotSet"
NotEnrolled == "NotEnrolled"

BillStatus ==
  {"None", "Created", "Expired", "Paid", "Repaid", "Overdue", "Liquidated"}

Bill == [merchant : Merchants, user : Users, principal : Nat, order_id : Orders,
         status : BillStatus \ {"None"}, created_at : Nat, paid_at : Nat]
NoBill == [status |-> "None"]

CoreTypeOK ==
  /\ bnplCore \in {Core, NotSet}
  /\ merchants \in [Merchants -> MerchantStatus \cup {NotEnrolled}]
  /\ billCounter \in 1 .. MaxBills + 1
  /\ bills \in [BillIds -> Bill \cup {NoBill}]
  /\ userBills \in [Users -> Seq(BillIds)]
  /\ strained \subseteq Users

TypeOK == UsdcTypeOK /\ LpTypeOK /\ CoreTypeOK

CoreInit ==
  /\ bnplCore = NotSet
  /\ merchants = [m \in Merchants |-> NotEnrolled]
  /\ billCounter = 1
  /\ bills = [b \in BillIds |-> NoBill]
  /\ userBills = [u \in Users |-> <<>>]
  /\ strained = {}

Init == UsdcInit /\ LpInit /\ CoreInit

-----------------------------------------------------------------------------
(* Debt and collateral.                                                    *)

(* get_user_total_debt: interest runs from paid_at.                        *)
Interest(b) == LateFee(now, bills[b].paid_at, bills[b].principal)
DebtOf(b) == IF bills[b].status = "Paid" THEN bills[b].principal + Interest(b) ELSE 0
TotalDebt(user) ==
  LET list == userBills[user]
  IN  Total([i \in 1 .. Len(list) |-> DebtOf(list[i])], Len(list))

RequiredCollateral(user) == CollateralFor(TotalDebt(user))

(* The pool's get_locked_balance: nothing is locked until a core is set.   *)
LockedBalance_DebtOnly(user) ==                     \* mutant
  IF bnplCore = Core THEN TotalDebt(user) ELSE 0
LockedBalance(user) == IF bnplCore = Core THEN RequiredCollateral(user) ELSE 0
Locked == [u \in Users |-> LockedBalance(u)]

AvailableBorrowing(user) ==
  LET most == MaxBorrowing(Balance(user))
  IN  IF most > TotalDebt(user) THEN most - TotalDebt(user) ELSE 0

(* What settling bill b costs: repay_bill and liquidate_bill charge the    *)
(* late fee from created_at.                                               *)
LateFeeOf(b) == LateFee(now, bills[b].created_at, bills[b].principal)
RepaymentOf(b) == bills[b].principal + LateFeeOf(b)
LiquidationFeeOf(b) == LiquidationFee(bills[b].principal)
LiquidationCost(b) == RepaymentOf(b) + LiquidationFeeOf(b)

(* Whether late fee and penalty fit between the principal and 111 percent. *)
WithinMargin(b) == LiquidationCost(b) <= CollateralFor(bills[b].principal)

-----------------------------------------------------------------------------
(* distribute_fees: the core pays the three parts of an amount it holds    *)
(* and, when the pool's part is not zero, has the pool update its index.   *)
CanDistribute(b, amount) == b[Core] >= FeeParts(amount)

Distributed_NoTreasury(b, amount) ==                \* mutant
  Moved(Moved(b, Core, Insurance, InsurancePart(amount)), Core, Pool, LPPart(amount))

Distributed(b, amount) ==
  LET b1 == Moved(b, Core, Treasury, TreasuryPart(amount))
      b2 == Moved(b1, Core, Insurance, InsurancePart(amount))
  IN  Moved(b2, Core, Pool, LPPart(amount))

IndexAfterFees(b, amount, lent, sup) ==
  IF LPPart(amount) > 0 THEN IndexFor(b[Pool] + lent, sup, index) ELSE index

-----------------------------------------------------------------------------
(* Set up by the pool's admin, merchants and the core's admin.             *)
SetBnplCore ==
  /\ bnplCore' = Core
  /\ UNCHANGED <<merchants, billCounter, bills, userBills, strained, lpVars, usdcVars>>

EnrollMerchant(m) ==
  /\ merchants[m] = NotEnrolled
  /\ merchants' = [merchants EXCEPT ![m] = "Pending"]
  /\ UNCHANGED <<bnplCore, billCounter, bills, userBills, strained, lpVars, usdcVars>>

UpdateMerchantStatus(m, newStatus) ==
  /\ merchants[m] # NotEnrolled
  /\ merchants' = [merchants EXCEPT ![m] = newStatus]
  /\ UNCHANGED <<bnplCore, billCounter, bills, userBills, strained, lpVars, usdcVars>>

CreateBill_CounterKept(m, user, amount, order) ==   \* mutant
  /\ merchants[m] = "Approved" /\ amount > 0 /\ billCounter <= MaxBills
  /\ bills' = [bills EXCEPT ![billCounter] =
       [merchant |-> m, user |-> user, principal |-> amount, order_id |-> order,
        status |-> "Created", created_at |-> now, paid_at |-> 0]]
  /\ UNCHANGED <<billCounter, bnplCore, merchants, userBills, strained, lpVars, usdcVars>>

CreateBill(m, user, amount, order) ==
  /\ merchants[m] = "Approved"
  /\ amount > 0
  /\ billCounter <= MaxBills
  /\ bills' = [bills EXCEPT ![billCounter] =
       [merchant |-> m, user |-> user, principal |-> amount, order_id |-> order,
        status |-> "Created", created_at |-> now, paid_at |-> 0]]
  /\ billCounter' = billCounter + 1
  /\ UNCHANGED <<bnplCore, merchants, userBills, strained, lpVars, usdcVars>>

(* pay_bill_bnpl: borrow from the pool, pay the merchant, distribute the   *)
(* merchant's fee.                                                         *)
PayBill(b) ==
  LET bill == bills[b]
      fee == MerchantFee(bill.principal)
      usdc1 == Moved(usdc, Pool, Core, bill.principal)
      usdc2 == Moved(usdc1, Core, bill.merchant, bill.principal - fee)
  IN  /\ bill.status = "Created"
      /\ now <= BillExpiry(bill.created_at)
      /\ AvailableBorrowing(bill.user) >= bill.principal
      /\ bnplCore = Core /\ OnUsdc
      /\ CanMove(usdc, Pool, bill.principal)
      /\ CanMove(usdc1, Core, bill.principal - fee)
      /\ CanDistribute(usdc2, fee)
      /\ borrowed' = borrowed + bill.principal
      /\ usdc' = Distributed(usdc2, fee)
      /\ index' = IndexAfterFees(usdc', fee, borrowed', supply)
      /\ bills' = [bills EXCEPT ![b].status = "Paid", ![b].paid_at = now]
      /\ userBills' = [userBills EXCEPT ![bill.user] = Append(@, b)]
      /\ UNCHANGED <<bnplCore, merchants, billCounter, shares, supply, lpAllowance, asset,
                     reset, strained, now, usdcAllowance, mintVars>>

Settled_StatusKept(b, status) ==                    \* mutant
  /\ bills' = bills
  /\ userBills' = [userBills EXCEPT ![bills[b].user] =
                     Without(@, b)]
Settled_ListKept(b, status) ==                      \* mutant
  /\ bills' = [bills EXCEPT ![b].status = status]
  /\ userBills' = userBills

Settled(b, status) ==
  /\ bills' = [bills EXCEPT ![b].status = status]
  /\ userBills' = [userBills EXCEPT ![bills[b].user] =
                     Without(@, b)]

(* repay_bill: the core takes principal and late fee from the user, has    *)
(* the pool take back the principal, and distributes the late fee.         *)
Returned(b) == IF bills[b].principal > borrowed THEN borrowed ELSE bills[b].principal
RepaymentTaken(b) == Moved(usdc, bills[b].user, Core, RepaymentOf(b))
PrincipalReturned(b) == Moved(RepaymentTaken(b), Core, Pool, Returned(b))
CoreAllowances(b) ==
  [Spent(usdcAllowance, bills[b].user, Core, RepaymentOf(b))
     EXCEPT ![<<Core, Pool>>] = RepaymentOf(b)]

CanRepay(b) ==
  /\ bills[b].status = "Paid"
  /\ CanSpend(usdcAllowance, bills[b].user, Core, RepaymentOf(b))
  /\ CanMove(usdc, bills[b].user, RepaymentOf(b))
  /\ bnplCore = Core /\ OnUsdc
  /\ CanSpend(CoreAllowances(b), Core, Pool, Returned(b))
  /\ CanMove(RepaymentTaken(b), Core, Returned(b))
  /\ CanDistribute(PrincipalReturned(b), LateFeeOf(b))

RepayBill(b) ==
  /\ CanRepay(b)
  /\ borrowed' = borrowed - Returned(b)
  /\ usdcAllowance' = Spent(CoreAllowances(b), Core, Pool, Returned(b))
  /\ usdc' = Distributed(PrincipalReturned(b), LateFeeOf(b))
  /\ index' = IndexAfterFees(usdc', LateFeeOf(b), borrowed', supply)
  /\ Settled(b, "Repaid")
  /\ UNCHANGED <<bnplCore, merchants, billCounter, shares, supply, lpAllowance, asset,
                 reset, strained, now, mintVars>>

(* liquidate_bill: the pool burns the user's shares for principal, late    *)
(* fee and penalty, and pays late fee and penalty to the core; half of the *)
(* penalty goes to the liquidator, the rest is distributed.  The token     *)
(* refuses to transfer nothing, so a penalty below 2 reverts the call.     *)
FeesDue(b) == LateFeeOf(b) + LiquidationFeeOf(b)
Reward(b) == LiquidationFeeOf(b) \div 2
Rest(b) == Reward(b) + LateFeeOf(b)
FeesTaken(b) == Moved(usdc, Pool, Core, FeesDue(b))
RewardPaid(b, liquidator) == Moved(FeesTaken(b), Core, liquidator, Reward(b))

CanLiquidate(b, liquidator) ==
  /\ Balance(liquidator) # 0
  /\ bills[b].status \in {"Paid", "Overdue"}
  /\ now >= LiquidatableFrom(bills[b].created_at)
  /\ bnplCore = Core /\ OnUsdc
  /\ CanBurnShares(bills[b].user, AmountToShares(LiquidationCost(b)))
  /\ FeesDue(b) > 0 => CanMove(usdc, Pool, FeesDue(b))
  /\ CanMove(FeesTaken(b), Core, Reward(b))
  /\ CanDistribute(RewardPaid(b, liquidator), Rest(b))

LiquidateBill(b, liquidator) ==
  /\ CanLiquidate(b, liquidator)
  /\ BurnShares(bills[b].user, AmountToShares(LiquidationCost(b)))
  /\ borrowed' = borrowed - Returned(b)
  /\ usdc' = Distributed(RewardPaid(b, liquidator), Rest(b))
  /\ index' = IndexAfterFees(usdc', Rest(b), borrowed', supply')
  /\ Settled(b, "Liquidated")
  /\ strained' = IF WithinMargin(b) THEN strained ELSE strained \cup {bills[b].user}
  /\ UNCHANGED <<bnplCore, merchants, billCounter, lpAllowance, asset, reset,
                 now, usdcAllowance, mintVars>>

-----------------------------------------------------------------------------
(* The USDC calls the protocol depends on: a user approves the core before *)
(* it repays.                                                              *)
ApproveCore(u, amount) ==
  /\ UsdcApprove(u, Core, amount)
  /\ UNCHANGED <<coreVars, lpVars>>

CoreCall ==
  \/ SetBnplCore
  \/ \E m \in Merchants : EnrollMerchant(m)
  \/ \E m \in Merchants, s \in AdminStatuses : UpdateMerchantStatus(m, s)
  \/ \E m \in Merchants, u \in Borrowers, p \in Principals, o \in Orders :
        CreateBill(m, u, p, o)
  \/ \E b \in BillIds : PayBill(b) \/ RepayBill(b)
  \/ \E b \in BillIds, u \in Users : LiquidateBill(b, u)
  \/ \E u \in Borrowers, a \in RepayAllowances : ApproveCore(u, a)

Next ==
  \/ CoreCall
  \/ LpCall(Locked) /\ UNCHANGED coreVars
  \/ LedgerClose /\ UNCHANGED <<coreVars, lpVars>>

Spec == Init /\ [][Next]_vars

-----------------------------------------------------------------------------
(* What the pool has lent is what the paid and unsettled bills owe it:     *)
(* every draw, repayment and liquidation moves both by one principal, so   *)
(* the saturating subtractions of repay and repay_with_burn never bite, as *)
(* long as the pool is initialized once.                                   *)
OwedToPool(b) == IF bills[b].status = "Paid" THEN bills[b].principal ELSE 0
BorrowedIsOutstanding ==
  ~ reset => borrowed = Total([b \in BillIds |-> OwedToPool(b)], MaxBills)

(* A user's list holds that user's paid and unsettled bills, each once:    *)
(* get_user_total_debt, which walks it, counts every open loan exactly     *)
(* once.                                                                   *)
UserBillsExact ==
  \A u \in Users :
    /\ Range(userBills[u]) =
         {b \in BillIds : bills[b].status = "Paid" /\ bills[b].user = u}
    /\ IsInjective(userBills[u])

(* Whether u's balance falls because one of its bills is liquidated.       *)
LiquidatedNow(u) ==
  \E b \in BillIds : /\ bills[b].status = "Paid" /\ bills[b].user = u
                     /\ bills'[b].status = "Liquidated"

(* While loans are open, collateral stays: a step that lowers a user's LP  *)
(* balance leaves at least the required collateral, unless it liquidates a *)
(* bill of that user or is a repeated initialize of the pool.              *)
CollateralStaysLocked ==
  [][bnplCore = Core /\ (\A a \in Underlyings : ~ LpInitialize(a)) =>
      \A u \in Users :
        Balance(u)' < Balance(u) /\ ~LiquidatedNow(u) =>
          Balance(u)' >= RequiredCollateral(u)']_vars

(* Paying a bill leaves the user with the collateral the protocol asks     *)
(* for: the 90 percent loan-to-value check implies the 111 percent one.    *)
PaidWithCollateral ==
  [][\A b \in BillIds :
      bills[b].status = "Created" /\ bills'[b].status = "Paid" =>
        Balance(bills[b].user)' >= RequiredCollateral(bills[b].user)']_vars

(* The core is only a conduit: no transaction pays out of what the core    *)
(* held before, and none leaves more than rounding dust with it, at most 2 *)
(* from distribute_fees and 1 from halving the penalty.  A pool that has   *)
(* forgotten its loans in a repeated initialize takes less back than the   *)
(* borrower paid, and the difference stays with the core.                  *)
CoreIsConduit == [][~ reset => usdc'[Core] - usdc[Core] \in 0 .. 3]_vars

(* A borrower who holds and has approved what a paid bill costs can repay  *)
(* it, whatever the pool lends to others meanwhile, as long as the pool is *)
(* initialized once.                                                       *)
RepaymentNeverBlocked ==
  \A b \in BillIds :
    /\ ~ reset
    /\ bills[b].status = "Paid"
    /\ usdc[bills[b].user] >= RepaymentOf(b)
    /\ usdcAllowance[<<bills[b].user, Core>>] >= RepaymentOf(b)
    => CanRepay(b)

(* Inside the protocol's own margin, a loan's collateral pays for its      *)
(* liquidation: as long as late fee and penalty of each open loan of a     *)
(* user fit between the principal and 111 percent of it, and none of the   *)
(* user's loans was liquidated after they no longer did, the user's LP     *)
(* balance covers the liquidation of all its open loans together.          *)
PaidBillsOf(u) == {b \in BillIds : bills[b].status = "Paid" /\ bills[b].user = u}
InMargin(u) == u \notin strained /\ \A b \in PaidBillsOf(u) : WithinMargin(b)

LoansCovered ==
  \A u \in Users :
    ~ reset /\ InMargin(u) =>
      SumFunction([b \in PaidBillsOf(u) |-> LiquidationCost(b)]) <= Balance(u)

(* Past the threshold any holder of LP tokens can liquidate a loan whose   *)
(* borrower is inside that margin, provided the pool has the fees in cash, *)
(* half of the penalty is something to transfer, no holder's transfer to   *)
(* itself has left the supply short of the shares to burn, and the pool    *)
(* was initialized once.                                                   *)
LiquidationNeverBlocked ==
  \A u, l \in Users : \A b \in PaidBillsOf(u) :
    /\ ~ reset
    /\ SharesInCirculation
    /\ now >= LiquidatableFrom(bills[b].created_at)
    /\ InMargin(u)
    /\ Balance(l) # 0
    /\ LiquidationFeeOf(b) >= 2
    /\ usdc[Pool] >= LateFeeOf(b) + LiquidationFeeOf(b)
    => CanLiquidate(b, l)

(* Both: the loans of a borrower inside the margin can be closed and their *)
(* cost is covered.                                                        *)
LoansRecoverable == LoansCovered /\ LiquidationNeverBlocked

-----------------------------------------------------------------------------
(* The protocol implements the abstract loan book, as long as the pool is  *)
(* initialized once.                                                       *)
StageOf(status) ==
  CASE status = "None" -> "none"
    [] status = "Created" -> "open"
    [] status \in {"Paid", "Overdue"} -> "drawn"
    [] OTHER -> "closed"

LoanOf(b) ==
  [stage |-> StageOf(bills[b].status),
   principal |-> IF bills[b].status = "None" THEN 0 ELSE bills[b].principal]

LoanTable == [b \in BillIds |-> LoanOf(b)]

Book == INSTANCE LoanBook WITH
  MaxLoans <- MaxBills, LoanAmounts <- Principals,
  loans <- LoanTable,
  lent <- borrowed

ImplementsLoanBook ==
  /\ Book!LoanBookInit
  /\ [][~ reset' => Book!LoanBookNext]_<<LoanTable, borrowed>>

-----------------------------------------------------------------------------
(* What the documents say of the protocol and the code does not do.        *)

(* docs/contracts/bnpl-core.md L161: payment starts the 14 day grace       *)
(* period; L180-181: within it a repayment is the principal only.  The     *)
(* code counts the grace period from the bill's creation.                  *)
InterestFreeAfterPayment ==
  \A b \in BillIds :
    bills[b].status = "Paid" /\ now <= bills[b].paid_at + GracePeriodDays * Day =>
      RepaymentOf(b) = bills[b].principal

(* whitepaper: every loan is backed by its collateral, even in adverse     *)
(* scenarios.  The late fee grows without bound while the collateral does  *)
(* not, and past the margin the liquidation reverts.                       *)
EveryLoanBacked ==
  \A b \in BillIds :
    bills[b].status = "Paid" => LiquidationCost(b) <= Balance(bills[b].user)
=============================================================================
