--------------------------- MODULE BnplCoreProofs ---------------------------
(***************************************************************************)
(* Type correctness of the whole protocol, the agreement of the pool's     *)
(* books with the bills, the refinement of LoanBook, what calls may do     *)
(* with collateral and the core's balance, and that a loan can always be   *)
(* repaid, and liquidated when it is due.                                  *)
(*                                                                         *)
(* BorrowedIsOutstanding is not inductive as it stands.  LiquidateBill     *)
(* also accepts a status, Overdue, that no call assigns, and CreateBill    *)
(* writes to the entry at billCounter, which must have been empty.         *)
(***************************************************************************)
EXTENDS BnplCore, LpTokenProofs

-----------------------------------------------------------------------------
(* The fee, interest and collateral arithmetic of Terms, for every amount. *)

(* A part of an amount, at a rate of at most the scale, is a natural       *)
(* number no larger than the amount.                                       *)
LEMMA PartOfAmount ==
  ASSUME NEW amount \in Nat, NEW rate \in 0 .. Scale
  PROVE  /\ (amount * rate) \div Scale \in Nat
         /\ Scale * ((amount * rate) \div Scale) <= amount * rate
         /\ (amount * rate) \div Scale <= amount
<1>1. Scale \in Nat \ {0} /\ rate \in Nat /\ rate <= Scale
  BY TermsAssumption
<1> DEFINE part == (amount * rate) \div Scale
<1>2. amount * rate \in Nat /\ amount * rate <= amount * Scale
  BY <1>1
<1>3. part \in Nat /\ Scale * part <= amount * rate
  BY <1>1, <1>2
<1>4. Scale * part <= Scale * amount
  BY <1>1, <1>2, <1>3
<1>5. part <= amount
  <2> HIDE DEF part
  <2> QED BY <1>1, <1>3, <1>4
<1> QED BY <1>3, <1>5

(* The merchant's fee and the liquidation fee never exceed the principal   *)
(* they are taken from (lib.rs L280, L416).                                *)
LEMMA FeesBounded ==
  ASSUME NEW principal \in Nat
  PROVE  /\ MerchantFee(principal) \in Nat /\ MerchantFee(principal) <= principal
         /\ LiquidationFee(principal) \in Nat /\ LiquidationFee(principal) <= principal
BY PartOfAmount, TermsAssumption DEF MerchantFee, LiquidationFee

(* calc_late_fee is a natural number at every time.                        *)
LEMMA LateFeeNat ==
  ASSUME NEW moment \in Nat, NEW since \in Nat, NEW principal \in Nat
  PROVE  LateFee(moment, since, principal) \in Nat
<1> DEFINE graceEnd == since + GracePeriodDays * Day
           days == (moment - graceEnd) \div Day
<1>1. /\ Scale \in Nat \ {0} /\ Day \in Nat \ {0}
      /\ LateInterestAPR \in Nat /\ GracePeriodDays \in Nat
  BY TermsAssumption
<1>2. graceEnd \in Nat
  BY <1>1
<1>3. CASE moment <= graceEnd
  BY <1>3 DEF LateFee
<1>4. CASE ~ (moment <= graceEnd)
  <2> HIDE DEF graceEnd
  <2>1. moment - graceEnd \in Nat
    BY <1>2, <1>4
  <2>2. days \in Nat
    BY <2>1, <1>1
  <2> HIDE DEF days
  <2>3. principal * LateInterestAPR * days \in Nat /\ 365 * Scale \in Nat \ {0}
    BY <2>2, <1>1
  <2>4. (principal * LateInterestAPR * days) \div (365 * Scale) \in Nat
    BY <2>3
  <2> QED BY <2>4, <1>4 DEF LateFee, graceEnd, days
<1> QED BY <1>3, <1>4

(* distribute_fees never pays out more than it was asked to distribute:    *)
(* the ratios add up to the scale and each part is rounded down.           *)
LEMMA FeePartsBounded ==
  ASSUME NEW amount \in Nat
  PROVE  /\ LPPart(amount) \in Nat
         /\ TreasuryPart(amount) \in Nat
         /\ InsurancePart(amount) \in Nat
         /\ FeeParts(amount) <= amount
<1>1. /\ Scale \in Nat \ {0}
      /\ FeeToLP \in 0 .. Scale /\ FeeToTreasury \in 0 .. Scale
      /\ FeeToInsurance \in 0 .. Scale
      /\ FeeToLP + FeeToTreasury + FeeToInsurance = Scale
  BY TermsAssumption
<1>2. /\ LPPart(amount) \in Nat /\ Scale * LPPart(amount) <= amount * FeeToLP
      /\ TreasuryPart(amount) \in Nat
      /\ Scale * TreasuryPart(amount) <= amount * FeeToTreasury
      /\ InsurancePart(amount) \in Nat
      /\ Scale * InsurancePart(amount) <= amount * FeeToInsurance
  BY <1>1, PartOfAmount DEF LPPart, TreasuryPart, InsurancePart
<1>3. amount * FeeToLP + amount * FeeToTreasury + amount * FeeToInsurance
        = amount * Scale
  BY <1>1
<1>4. Scale * FeeParts(amount) <= Scale * amount
  BY <1>1, <1>2, <1>3 DEF FeeParts
<1>5. FeeParts(amount) \in Nat
  BY <1>2 DEF FeeParts
<1> QED BY <1>1, <1>2, <1>4, <1>5

(* Rounding keeps back at most 2 of an amount that is distributed.         *)
LEMMA FeePartsDust ==
  ASSUME NEW amount \in Nat
  PROVE  FeeParts(amount) \in Nat /\ amount - FeeParts(amount) \in 0 .. 2
<1>1. /\ Scale \in Nat \ {0}
      /\ FeeToLP \in Nat /\ FeeToTreasury \in Nat /\ FeeToInsurance \in Nat
      /\ FeeToLP + FeeToTreasury + FeeToInsurance = Scale
  BY TermsAssumption
<1>2. ASSUME NEW rate \in Nat
      PROVE  amount * rate < Scale * ((amount * rate) \div Scale) + Scale
  BY <1>1
<1>3. /\ LPPart(amount) \in Nat /\ TreasuryPart(amount) \in Nat
      /\ InsurancePart(amount) \in Nat /\ FeeParts(amount) <= amount
  BY FeePartsBounded
<1>4. /\ amount * FeeToLP < Scale * LPPart(amount) + Scale
      /\ amount * FeeToTreasury < Scale * TreasuryPart(amount) + Scale
      /\ amount * FeeToInsurance < Scale * InsurancePart(amount) + Scale
  BY <1>1, <1>2 DEF LPPart, TreasuryPart, InsurancePart
<1> DEFINE p == FeeParts(amount)
<1>5. p \in Nat /\ Scale * p = Scale * LPPart(amount) + Scale * TreasuryPart(amount)
                                 + Scale * InsurancePart(amount)
  BY <1>1, <1>3 DEF FeeParts
<1>6. amount * FeeToLP + amount * FeeToTreasury + amount * FeeToInsurance
        = Scale * amount
  BY <1>1
<1> HIDE DEF p
<1>7. Scale * amount < Scale * (p + 3)
  <2>1. Scale * (p + 3) = Scale * p + Scale + Scale + Scale
    BY <1>1, <1>5
  <2>2. /\ amount * FeeToLP \in Nat /\ amount * FeeToTreasury \in Nat
        /\ amount * FeeToInsurance \in Nat /\ Scale * LPPart(amount) \in Nat
        /\ Scale * TreasuryPart(amount) \in Nat /\ Scale * InsurancePart(amount) \in Nat
    BY <1>1, <1>3
  <2> QED BY <2>1, <2>2, <1>1, <1>4, <1>5, <1>6
<1>8. amount < p + 3
  BY <1>1, <1>5, <1>7
<1> QED BY <1>3, <1>5, <1>8 DEF p

(* The collateral for a debt is the largest number within the ratio.       *)
LEMMA CollateralFloor ==
  ASSUME NEW debt \in Nat
  PROVE  /\ CollateralFor(debt) \in Nat
         /\ CollateralFor(debt) * Scale <= debt * CollateralRatio
         /\ \A n \in Nat : n * Scale <= debt * CollateralRatio => n <= CollateralFor(debt)
<1> DEFINE m == debt * CollateralRatio
           c == m \div Scale
<1>1. m \in Nat /\ Scale \in Nat \ {0}
  BY TermsAssumption
<1>2. CollateralFor(debt) = c
  BY DEF CollateralFor
<1> HIDE DEF m
<1>3. c \in Nat /\ Scale * c <= m
  BY <1>1
<1>4. \A n \in Nat : n * Scale <= m => n <= c
  BY <1>1, QuotientBounds
<1> HIDE DEF c
<1>5. Scale * c = c * Scale
  BY <1>1, <1>3
<1> QED BY <1>2, <1>3, <1>4, <1>5 DEF m

(* Collateral grows with the debt and stays a natural number; 90 percent   *)
(* of a balance, lent in full, ask for no more collateral than it.         *)
LEMMA CollateralWithinBalance ==
  ASSUME NEW balance \in Nat, NEW debt \in Nat, debt <= MaxBorrowing(balance)
  PROVE  CollateralFor(debt) <= balance
<1> DEFINE c == CollateralFor(debt)
           q == MaxBorrowing(balance)
<1>1. /\ Scale \in Nat \ {0} /\ CollateralRatio \in Nat
      /\ CollateralRatio * 90 <= Scale * 100
  BY TermsAssumption
<1>2. q \in Nat /\ q * 100 <= balance * 90
  BY DEF MaxBorrowing
<1>3. c \in Nat /\ Scale * c <= debt * CollateralRatio
  <2>1. debt * CollateralRatio \in Nat
    BY <1>1
  <2> QED BY <2>1, <1>1 DEF CollateralFor
<1>4. debt <= q
  OBVIOUS
<1> HIDE DEF c, q
<1>5. debt * 100 <= balance * 90
  BY <1>2, <1>4
<1>6. (Scale * c) * 100 <= (debt * CollateralRatio) * 100
  <2>1. Scale * c \in Nat /\ debt * CollateralRatio \in Nat
    BY <1>1, <1>3
  <2> QED BY <2>1, <1>3
<1>7. (debt * 100) * CollateralRatio <= (balance * 90) * CollateralRatio
  BY <1>1, <1>5
<1>8. (CollateralRatio * 90) * balance <= (Scale * 100) * balance
  BY <1>1
<1>9. (Scale * 100) * c <= (Scale * 100) * balance
  <2>1. /\ (Scale * 100) * c = (Scale * c) * 100
        /\ (debt * 100) * CollateralRatio = (debt * CollateralRatio) * 100
        /\ (CollateralRatio * 90) * balance = (balance * 90) * CollateralRatio
    BY <1>1, <1>3
  <2> QED BY <2>1, <1>1, <1>3, <1>6, <1>7, <1>8
<1>10. c <= balance
  <2> DEFINE k == Scale * 100
  <2>1. k \in Nat \ {0} /\ k * c <= k * balance
    BY <1>1, <1>9
  <2> HIDE DEF k
  <2> QED BY <2>1, <1>3
<1> QED BY <1>10 DEF c

-----------------------------------------------------------------------------
(* The statuses the calls assign.                                          *)
StatusReached ==
  \A b \in BillIds :
    bills[b].status \in {"None", "Created", "Paid", "Repaid", "Liquidated"}

(* The bills created are exactly those numbered below the counter.         *)
BillsInOrder == \A b \in BillIds : b < billCounter <=> bills[b] # NoBill

(* The pool keeps the asset it was deployed with until it is initialized   *)
(* again.                                                                  *)
OnUsdcUntilReset == ~ reset => OnUsdc

BooksInv ==
  /\ TypeOK
  /\ StatusReached
  /\ BillsInOrder
  /\ BorrowedIsOutstanding
  /\ UserBillsExact
  /\ OnUsdcUntilReset

Owed == [b \in BillIds |-> OwedToPool(b)]

-----------------------------------------------------------------------------
(* What the prover needs of the constants.                                 *)
LEMMA Addresses ==
  /\ Users \subseteq Accounts /\ Merchants \subseteq Accounts
  /\ Core \in Accounts /\ Pool \in Accounts
  /\ Treasury \in Accounts /\ Insurance \in Accounts
  /\ Core # Pool /\ Core # Treasury /\ Core # Insurance
  /\ Core \notin Users /\ Core \notin Merchants
  /\ Pool \notin Users
BY CoreAssumption, LpAssumption, UsdcAssumption

(* A bill with a status other than None is a bill.                         *)
LEMMA BillTyped ==
  ASSUME TypeOK, NEW b \in BillIds, bills[b].status # "None"
  PROVE  /\ bills[b] \in Bill
         /\ bills[b].principal \in Nat /\ bills[b].created_at \in Nat
         /\ bills[b].paid_at \in Nat
         /\ bills[b].user \in Users /\ bills[b].user \in Accounts
         /\ bills[b].merchant \in Accounts
<1>1. bills[b] \in Bill
  BY DEF TypeOK, CoreTypeOK, NoBill
<1> QED BY <1>1, Addresses DEF Bill

(* What a bill costs is a natural number.                                  *)
LEMMA CostsNat ==
  ASSUME TypeOK, NEW b \in BillIds, bills[b].status # "None"
  PROVE  /\ LateFeeOf(b) \in Nat
         /\ LiquidationFeeOf(b) \in Nat
         /\ RepaymentOf(b) = bills[b].principal + LateFeeOf(b)
         /\ LiquidationCost(b) = bills[b].principal + LateFeeOf(b) + LiquidationFeeOf(b)
<1>1. bills[b].principal \in Nat /\ bills[b].created_at \in Nat /\ now \in Nat
  BY BillTyped DEF TypeOK, UsdcTypeOK
<1>2. LateFeeOf(b) \in Nat /\ LiquidationFeeOf(b) \in Nat
  BY <1>1, LateFeeNat, FeesBounded DEF LateFeeOf, LiquidationFeeOf
<1> QED BY <1>1, <1>2 DEF RepaymentOf, LiquidationCost

(* distribute_fees keeps balances natural numbers.                         *)
LEMMA DistributedNat ==
  ASSUME NEW b \in [Accounts -> Nat], NEW amount \in Nat, CanDistribute(b, amount)
  PROVE  Distributed(b, amount) \in [Accounts -> Nat]
<1> DEFINE t == TreasuryPart(amount)
           i == InsurancePart(amount)
           l == LPPart(amount)
           b1 == Moved(b, Core, Treasury, t)
           b2 == Moved(b1, Core, Insurance, i)
<1>1. t \in Nat /\ i \in Nat /\ l \in Nat /\ b[Core] >= l + t + i
  BY FeePartsBounded DEF CanDistribute, FeeParts
<1> HIDE DEF t, i, l
<1>2. b1 \in [Accounts -> Nat] /\ b1[Core] = b[Core] - t
  <2>1. b1 \in [Accounts -> Nat]
    BY <1>1, Addresses, MovedNat
  <2> QED BY <2>1, <1>1, Addresses DEF Moved
<1> HIDE DEF b1
<1>3. b2 \in [Accounts -> Nat] /\ b2[Core] = b1[Core] - i
  <2>0. b1[Core] >= i /\ Core \in Accounts /\ Insurance \in Accounts
    BY <1>1, <1>2, Addresses
  <2>1. b2 \in [Accounts -> Nat]
    BY <2>0, <1>1, <1>2, MovedNat
  <2> QED BY <2>1, <1>1, <1>2, Addresses DEF Moved
<1> HIDE DEF b2
<1>4. Moved(b2, Core, Pool, l) \in [Accounts -> Nat]
  <2>1. b2[Core] >= l /\ Core \in Accounts /\ Pool \in Accounts
    <3>1. b[Core] \in Nat
      BY Addresses
    <3> QED BY <3>1, <1>1, <1>2, <1>3, Addresses
  <2> QED BY <2>1, <1>1, <1>3, MovedNat
<1> QED BY <1>4 DEF Distributed, t, i, l, b1, b2

(* The index after a distribution is not below the index before it.        *)
LEMMA IndexAfterFeesGrows ==
  ASSUME NEW b \in [Accounts -> Nat], NEW amount, NEW lent \in Nat,
         NEW sup \in Nat, index \in Nat \ {0}
  PROVE  /\ IndexAfterFees(b, amount, lent, sup) \in Nat \ {0}
         /\ IndexAfterFees(b, amount, lent, sup) >= index
<1>1. b[Pool] + lent \in Nat
  BY Addresses
<1>2. /\ IndexFor(b[Pool] + lent, sup, index) \in Nat
      /\ IndexFor(b[Pool] + lent, sup, index) >= index
  BY <1>1, IndexForGrows
<1> HIDE DEF IndexFor
<1> QED BY <1>2 DEF IndexAfterFees

-----------------------------------------------------------------------------
(* Types, and the index, step by step.                                     *)

LEMMA PayBillTypes ==
  ASSUME TypeOK, NEW b \in BillIds, PayBill(b)
  PROVE  TypeOK' /\ index' >= index
<1> DEFINE bill == bills[b]
           fee == MerchantFee(bill.principal)
           usdc1 == Moved(usdc, Pool, Core, bill.principal)
           usdc2 == Moved(usdc1, Core, bill.merchant, bill.principal - fee)
<1>1. /\ bill \in Bill /\ bill.principal \in Nat
      /\ bill.merchant \in Accounts /\ bill.user \in Users
      /\ fee \in Nat /\ fee <= bill.principal
  <2>1. bill.status # "None"
    BY DEF PayBill
  <2> QED BY <2>1, BillTyped, FeesBounded
<1>2. /\ usdc \in [Accounts -> Nat] /\ borrowed \in Nat /\ supply \in Nat
      /\ index \in Nat \ {0} /\ now \in Nat
  BY DEF TypeOK, UsdcTypeOK, LpTypeOK
<1>3. usdc1 \in [Accounts -> Nat]
  <2>1. usdc[Pool] >= bill.principal
    BY DEF PayBill, CanMove
  <2> QED BY <2>1, <1>1, <1>2, Addresses, MovedNat
<1>4. usdc2 \in [Accounts -> Nat]
  <2>1. usdc1[Core] >= bill.principal - fee
    BY DEF PayBill, CanMove
  <2>2. bill.principal - fee \in Nat
    BY <1>1
  <2> HIDE DEF usdc1, fee, bill
  <2> QED BY <2>1, <2>2, <1>1, <1>3, Addresses, MovedNat
<1>5. usdc' \in [Accounts -> Nat]
  <2>1. usdc' = Distributed(usdc2, fee) /\ CanDistribute(usdc2, fee)
    BY DEF PayBill
  <2> HIDE DEF usdc2, fee
  <2> QED BY <2>1, <1>1, <1>4, DistributedNat
<1>6. borrowed' \in Nat
  BY <1>1, <1>2 DEF PayBill
<1>7. index' \in Nat \ {0} /\ index' >= index
  <2>1. index' = IndexAfterFees(usdc', fee, borrowed', supply)
    BY DEF PayBill
  <2> HIDE DEF fee
  <2> QED BY <2>1, <1>2, <1>5, <1>6, IndexAfterFeesGrows
<1>8. bills' \in [BillIds -> Bill \cup {NoBill}]
  <2>1. bills' = [bills EXCEPT ![b] = [bill EXCEPT !.status = "Paid", !.paid_at = now]]
    BY DEF PayBill, TypeOK, CoreTypeOK
  <2>2. [bill EXCEPT !.status = "Paid", !.paid_at = now] \in Bill
    BY <1>1, <1>2 DEF Bill, BillStatus
  <2> QED BY <2>1, <2>2 DEF TypeOK, CoreTypeOK
<1>9. userBills' \in [Users -> Seq(BillIds)]
  <2>1. userBills[bill.user] \in Seq(BillIds)
    BY <1>1 DEF TypeOK, CoreTypeOK
  <2>2. Append(userBills[bill.user], b) \in Seq(BillIds)
    BY <2>1
  <2> QED BY <2>2, <1>1 DEF PayBill, TypeOK, CoreTypeOK
<1> QED BY <1>2, <1>5, <1>6, <1>7, <1>8, <1>9
    DEF PayBill, TypeOK, UsdcTypeOK, LpTypeOK, CoreTypeOK, mintVars

(* Settling a bill keeps the bills and the lists of bills well typed.      *)
LEMMA SettledTypes ==
  ASSUME TypeOK, NEW b \in BillIds, bills[b].status # "None",
         NEW status \in {"Repaid", "Liquidated"}, Settled(b, status)
  PROVE  /\ bills' \in [BillIds -> Bill \cup {NoBill}]
         /\ userBills' \in [Users -> Seq(BillIds)]
<1>1. bills[b] \in Bill /\ bills[b].user \in Users
  BY BillTyped
<1>2. bills' = [bills EXCEPT ![b] = [bills[b] EXCEPT !.status = status]]
  BY DEF Settled, TypeOK, CoreTypeOK
<1>3. [bills[b] EXCEPT !.status = status] \in Bill
  BY <1>1 DEF Bill, BillStatus
<1>4. userBills[bills[b].user] \in Seq(BillIds)
  BY <1>1 DEF TypeOK, CoreTypeOK
<1>5. Without(userBills[bills[b].user], b) \in Seq(BillIds)
  BY <1>4, WithoutFacts
<1> QED BY <1>1, <1>2, <1>3, <1>5 DEF Settled, TypeOK, CoreTypeOK

(* Repayment keeps the types and does not lower the index: both transfers, *)
(* both allowances and the fee distribution stay covered.                  *)
LEMMA RepayBillTypes ==
  ASSUME TypeOK, NEW b \in BillIds, RepayBill(b)
  PROVE  TypeOK' /\ index' >= index
<1> DEFINE bill == bills[b]
           owed == RepaymentOf(b)
           back == IF bill.principal > borrowed THEN borrowed ELSE bill.principal
           usdc1 == Moved(usdc, bill.user, Core, owed)
           usdc2 == Moved(usdc1, Core, Pool, back)
           allowance1 == Spent(usdcAllowance, bill.user, Core, owed)
           allowance2 == [allowance1 EXCEPT ![<<Core, Pool>>] = owed]
<1>1. /\ bill.principal \in Nat /\ bill.user \in Accounts
      /\ bill.status # "None" /\ LateFeeOf(b) \in Nat /\ owed \in Nat
  <2>1. bill.status # "None"
    BY DEF RepayBill, CanRepay
  <2> QED BY <2>1, BillTyped, CostsNat
<1>2. /\ usdc \in [Accounts -> Nat] /\ borrowed \in Nat /\ supply \in Nat
      /\ index \in Nat \ {0} /\ usdcAllowance \in [Pairs -> Int]
  BY DEF TypeOK, UsdcTypeOK, LpTypeOK
<1>3. back \in Nat /\ back <= borrowed
  BY <1>1, <1>2
<1>4. usdc1 \in [Accounts -> Nat]
  <2>1. usdc[bill.user] >= owed
    BY DEF RepayBill, CanRepay, CanMove
  <2> HIDE DEF owed
  <2> QED BY <2>1, <1>1, <1>2, Addresses, MovedNat
<1>5. usdc2 \in [Accounts -> Nat]
  <2>1. usdc1[Core] >= back
    BY DEF RepayBill, CanRepay, RepaymentTaken, Returned, CanMove
  <2> HIDE DEF usdc1, back
  <2> QED BY <2>1, <1>3, <1>4, Addresses, MovedNat
<1>6. usdc' \in [Accounts -> Nat]
  <2>1. usdc' = Distributed(usdc2, LateFeeOf(b)) /\ CanDistribute(usdc2, LateFeeOf(b))
    BY DEF RepayBill, CanRepay, PrincipalReturned, RepaymentTaken, Returned
  <2> HIDE DEF usdc2
  <2> QED BY <2>1, <1>1, <1>5, DistributedNat
<1>7. usdcAllowance' \in [Pairs -> Int]
  <2>1. /\ CanSpend(usdcAllowance, bill.user, Core, owed)
        /\ CanSpend(allowance2, Core, Pool, back)
        /\ usdcAllowance' = Spent(allowance2, Core, Pool, back)
    BY DEF RepayBill, CanRepay, CoreAllowances, Returned
  <2>2. <<bill.user, Core>> \in Pairs /\ <<Core, Pool>> \in Pairs
    BY <1>1, Addresses DEF Pairs
  <2>3. allowance1 \in [Pairs -> Int]
    <3> HIDE DEF owed
    <3> QED BY <2>1, <2>2, <1>1, <1>2 DEF CanSpend, Spent
  <2>4. allowance2 \in [Pairs -> Int]
    <3> HIDE DEF allowance1, owed
    <3> QED BY <2>2, <2>3, <1>1
  <2> HIDE DEF allowance2, back
  <2> QED BY <2>1, <2>2, <2>4, <1>3 DEF CanSpend, Spent
<1>8. borrowed' = borrowed - back /\ borrowed' \in Nat
  <2>1. borrowed' = borrowed - back
    BY DEF RepayBill, Returned
  <2> HIDE DEF back
  <2> QED BY <2>1, <1>2, <1>3
<1>9. index' \in Nat \ {0} /\ index' >= index
  <2>1. index' = IndexAfterFees(usdc', LateFeeOf(b), borrowed', supply)
    BY DEF RepayBill
  <2> QED BY <2>1, <1>2, <1>6, <1>8, IndexAfterFeesGrows
<1>10. bills' \in [BillIds -> Bill \cup {NoBill}] /\ userBills' \in [Users -> Seq(BillIds)]
  <2>1. Settled(b, "Repaid")
    BY DEF RepayBill
  <2> QED BY <2>1, <1>1, SettledTypes
<1> QED BY <1>2, <1>6, <1>7, <1>8, <1>9, <1>10
    DEF RepayBill, TypeOK, UsdcTypeOK, LpTypeOK, CoreTypeOK, mintVars

(* Liquidation keeps the types and does not lower the index, although      *)
(* shares are burned at it.                                                *)
LEMMA LiquidateBillTypes ==
  ASSUME TypeOK, NEW b \in BillIds, NEW l \in Users, LiquidateBill(b, l)
  PROVE  TypeOK' /\ index' >= index
<1> DEFINE bill == bills[b]
           fee == LateFeeOf(b) + LiquidationFeeOf(b)
           reward == LiquidationFeeOf(b) \div 2
           toBurn == AmountToShares(LiquidationCost(b))
           usdc1 == Moved(usdc, Pool, Core, fee)
           usdc2 == Moved(usdc1, Core, l, reward)
           rest == reward + LateFeeOf(b)
<1>1. /\ bill.principal \in Nat /\ bill.user \in Accounts /\ bill.status # "None"
      /\ fee \in Nat /\ reward \in Nat /\ rest \in Nat /\ LiquidationCost(b) \in Nat
  <2>1. bill.status # "None"
    BY DEF LiquidateBill, CanLiquidate
  <2>2. LateFeeOf(b) \in Nat /\ LiquidationFeeOf(b) \in Nat
    BY <2>1, CostsNat
  <2> QED BY <2>1, <2>2, BillTyped, CostsNat
<1>2. /\ usdc \in [Accounts -> Nat] /\ borrowed \in Nat /\ supply \in Nat
      /\ index \in Nat \ {0} /\ shares \in [Accounts -> Nat] /\ l \in Accounts
  BY Addresses DEF TypeOK, UsdcTypeOK, LpTypeOK
<1>3. usdc1 \in [Accounts -> Nat]
  <2>1. usdc[Pool] >= fee
    <3>1. fee > 0 => usdc[Pool] >= fee
      BY DEF LiquidateBill, CanLiquidate, FeesDue, CanMove
    <3> HIDE DEF fee
    <3> QED BY <3>1, <1>1, <1>2, Addresses
  <2> HIDE DEF fee
  <2> QED BY <2>1, <1>1, <1>2, Addresses, MovedNat
<1>4. usdc2 \in [Accounts -> Nat]
  <2>1. usdc1[Core] >= reward
    BY DEF LiquidateBill, CanLiquidate, FeesTaken, FeesDue, Reward, CanMove
  <2> HIDE DEF usdc1, reward
  <2> QED BY <2>1, <1>1, <1>2, <1>3, Addresses, MovedNat
<1>5. usdc' \in [Accounts -> Nat]
  <2>1. usdc' = Distributed(usdc2, rest) /\ CanDistribute(usdc2, rest)
    BY DEF LiquidateBill, CanLiquidate, RewardPaid, FeesTaken, FeesDue, Reward, Rest
  <2> HIDE DEF usdc2, rest
  <2> QED BY <2>1, <1>1, <1>4, DistributedNat
<1>6. shares' \in [Accounts -> Nat] /\ supply' \in Nat
  <2>1. toBurn \in Nat
    BY <1>1, <1>2, ConversionsNat DEF AmountToShares
  <2>2. CanBurnShares(bill.user, toBurn) /\ BurnShares(bill.user, toBurn)
    BY DEF LiquidateBill, CanLiquidate
  <2> HIDE DEF toBurn
  <2> QED BY <2>1, <2>2, <1>1, <1>2 DEF CanBurnShares, BurnShares
<1>7. borrowed' \in Nat
  BY <1>1, <1>2 DEF LiquidateBill, Returned
<1>8. index' \in Nat \ {0} /\ index' >= index
  <2>1. index' = IndexAfterFees(usdc', rest, borrowed', supply')
    BY DEF LiquidateBill, Rest, Reward
  <2> HIDE DEF rest
  <2> QED BY <2>1, <1>2, <1>5, <1>6, <1>7, IndexAfterFeesGrows
<1>9. bills' \in [BillIds -> Bill \cup {NoBill}] /\ userBills' \in [Users -> Seq(BillIds)]
  <2>1. Settled(b, "Liquidated")
    BY DEF LiquidateBill
  <2> QED BY <2>1, <1>1, SettledTypes
<1>10. strained' \subseteq Users
  BY <1>1, BillTyped DEF LiquidateBill, TypeOK, CoreTypeOK
<1> QED BY <1>2, <1>5, <1>6, <1>7, <1>8, <1>9, <1>10
    DEF LiquidateBill, TypeOK, UsdcTypeOK, LpTypeOK, CoreTypeOK, mintVars

(* A new bill is well typed and gets a number within the bound.            *)
LEMMA CreateBillTypes ==
  ASSUME TypeOK, NEW m \in Merchants, NEW u \in Borrowers, NEW p \in Principals,
         NEW o \in Orders, CreateBill(m, u, p, o)
  PROVE  TypeOK' /\ index' = index
<1> DEFINE new == [merchant |-> m, user |-> u, principal |-> p, order_id |-> o,
                   status |-> "Created", created_at |-> now, paid_at |-> 0]
<1>1. new \in Bill
  BY CoreAssumption DEF Bill, BillStatus, TypeOK, UsdcTypeOK
<1>2. billCounter \in BillIds /\ billCounter' \in 1 .. MaxBills + 1
  BY CoreAssumption DEF CreateBill, TypeOK, CoreTypeOK, BillIds
<1>3. bills' \in [BillIds -> Bill \cup {NoBill}]
  <2>1. bills' = [bills EXCEPT ![billCounter] = new]
    BY DEF CreateBill
  <2> HIDE DEF new
  <2> QED BY <2>1, <1>1 DEF TypeOK, CoreTypeOK
<1> QED BY <1>2, <1>3
    DEF CreateBill, TypeOK, UsdcTypeOK, LpTypeOK, CoreTypeOK, lpVars, usdcVars

(* Every step of the protocol keeps the types and, but for a repeated      *)
(* initialize of the pool, does not lower the index.                       *)
LEMMA StepTypes ==
  ASSUME TypeOK, [Next]_vars
  PROVE  TypeOK' /\ (index' >= index \/ Restarted)
<1>0. index \in Nat
  BY DEF TypeOK, LpTypeOK
<1>1. CASE SetBnplCore
  BY <1>0, <1>1 DEF SetBnplCore, TypeOK, UsdcTypeOK, LpTypeOK, CoreTypeOK, lpVars, usdcVars
<1>2. ASSUME NEW m \in Merchants, EnrollMerchant(m)
      PROVE  TypeOK' /\ index' >= index
  BY <1>0, <1>2
  DEF EnrollMerchant, TypeOK, UsdcTypeOK, LpTypeOK, CoreTypeOK, lpVars, usdcVars,
      MerchantStatus
<1>3. ASSUME NEW m \in Merchants, NEW s \in AdminStatuses, UpdateMerchantStatus(m, s)
      PROVE  TypeOK' /\ index' >= index
  BY <1>0, <1>3, CoreAssumption
  DEF UpdateMerchantStatus, TypeOK, UsdcTypeOK, LpTypeOK, CoreTypeOK, lpVars, usdcVars
<1>4. ASSUME NEW m \in Merchants, NEW u \in Borrowers, NEW p \in Principals,
             NEW o \in Orders, CreateBill(m, u, p, o)
      PROVE  TypeOK' /\ index' >= index
  BY <1>0, <1>4, CreateBillTypes
<1>5. ASSUME NEW u \in Borrowers, NEW a \in RepayAllowances, ApproveCore(u, a)
      PROVE  TypeOK' /\ index' >= index
  <2>1. <<u, Core>> \in Pairs /\ a \in Int
    BY CoreAssumption, Addresses DEF Pairs
  <2> QED BY <1>0, <1>5, <2>1
      DEF ApproveCore, UsdcApprove, TypeOK, UsdcTypeOK, LpTypeOK, CoreTypeOK,
          coreVars, lpVars, mintVars
<1>6. CASE CoreCall
  BY <1>1, <1>2, <1>3, <1>4, <1>5, <1>6, PayBillTypes, RepayBillTypes, LiquidateBillTypes
  DEF CoreCall
<1>7. CASE LpCall(Locked) /\ UNCHANGED coreVars
  <2>1. LpTypes' /\ (index' >= index \/ Restarted)
    <3>1. LpTypes
      BY DEF LpTypes, TypeOK
    <3> QED BY <1>7, <3>1, LpCallStep
  <2> QED BY <1>7, <2>1 DEF TypeOK, LpTypes, CoreTypeOK, coreVars
<1>8. CASE LedgerClose /\ UNCHANGED <<coreVars, lpVars>>
  <2>1. UsdcTypeOK'
    BY <1>8, LedgerCloseTypes DEF TypeOK
  <2> QED BY <1>0, <1>8, <2>1 DEF TypeOK, CoreTypeOK, LpTypeOK, coreVars, lpVars
<1>9. CASE UNCHANGED vars
  BY <1>0, <1>9
  DEF vars, TypeOK, UsdcTypeOK, LpTypeOK, CoreTypeOK, coreVars, lpVars, usdcVars
<1> QED BY <1>6, <1>7, <1>8, <1>9 DEF Next

(* The deployed, empty contracts are well typed.                           *)
LEMMA InitTypes == Init => TypeOK
<1>1. CoreInit => CoreTypeOK
  BY CoreAssumption DEF CoreInit, CoreTypeOK, BillIds
<1> QED BY <1>1, UsdcInitTypes, LpInitTypes DEF Init, TypeOK

(* Type correctness of the whole protocol.                                 *)
THEOREM TypeCorrect == Spec => []TypeOK
<1>1. TypeOK /\ [Next]_vars => TypeOK'
  BY StepTypes
<1> QED BY InitTypes, <1>1, PTL DEF Spec

(* In the whole protocol too, borrowing, repayment, liquidation and fee    *)
(* distribution never lower the index; only a repeated initialize does.    *)
THEOREM IndexMonotoneInProtocol == Spec => IndexNeverFalls
<1>1. TypeOK /\ [Next]_vars =>
        [index' >= index \/ \E a \in Underlyings : LpInitialize(a)]_poolOnlyVars
  BY StepTypes DEF vars, poolOnlyVars, Restarted
<1> QED BY <1>1, TypeCorrect, PTL DEF Spec, IndexNeverFalls

-----------------------------------------------------------------------------
(* The pool's books and the users' lists of loans.                         *)

LEMMA OwedNat ==
  ASSUME TypeOK
  PROVE  /\ Owed \in [1 .. MaxBills -> Nat]
         /\ \A b \in BillIds : Owed[b] <= Total(Owed, MaxBills)
<1>1. \A b \in BillIds : OwedToPool(b) \in Nat
  BY BillTyped DEF OwedToPool
<1>2. Owed \in [1 .. MaxBills -> Nat]
  BY <1>1 DEF Owed, BillIds
<1> QED BY <1>2, TotalCoversEach, CoreAssumption DEF BillIds

(* When one bill's debt to the pool changes and the amount lent moves by   *)
(* the same difference, the pool's books still agree with the bills.       *)
LEMMA OwedUpdate ==
  ASSUME TypeOK, BorrowedIsOutstanding, NEW b \in BillIds, NEW v \in Nat,
         Owed' = [Owed EXCEPT ![b] = v], reset' = reset,
         ~ reset => borrowed' = borrowed - Owed[b] + v
  PROVE  BorrowedIsOutstanding'
<1> SUFFICES ASSUME ~ reset'
             PROVE  borrowed' = Total(Owed', MaxBills)
  BY DEF BorrowedIsOutstanding, Owed
<1>1. borrowed = Total(Owed, MaxBills)
  BY DEF BorrowedIsOutstanding, Owed
<1>2. Owed \in [1 .. MaxBills -> Int] /\ b \in 1 .. MaxBills /\ MaxBills \in Nat
  BY OwedNat, CoreAssumption DEF BillIds
<1>3. Total([Owed EXCEPT ![b] = v], MaxBills) = Total(Owed, MaxBills) - Owed[b] + v
  <2>1. v \in Int
    OBVIOUS
  <2> QED BY <1>2, <2>1, TotalUpdate, Zenon
<1> QED BY <1>1, <1>3

(* Whatever keeps each bill's debt and the amount lent keeps the books.    *)
LEMMA OwedKept ==
  ASSUME BorrowedIsOutstanding, borrowed' = borrowed, reset' = reset,
         \A b \in BillIds : OwedToPool(b)' = OwedToPool(b)
  PROVE  BorrowedIsOutstanding'
<1>1. Owed' = Owed
  BY DEF Owed
<1> QED BY <1>1 DEF BorrowedIsOutstanding, Owed

(* The loans of a user that its list of bills has to hold.                 *)
OpenLoans(u) == {b \in BillIds : bills[b].status = "Paid" /\ bills[b].user = u}

(* Paying a bill adds its principal to what is lent and its number to the  *)
(* user's list, where it was not before.                                   *)
LEMMA PayBillBooks ==
  ASSUME BooksInv, NEW b \in BillIds, PayBill(b)
  PROVE  BooksInv'
<1> DEFINE u == bills[b].user
           p == bills[b].principal
<1>1. /\ TypeOK' /\ TypeOK /\ bills[b].status = "Created"
      /\ u \in Users /\ p \in Nat /\ borrowed \in Nat
  BY PayBillTypes, BillTyped DEF BooksInv, PayBill, TypeOK, LpTypeOK
<1>2. /\ bills' = [bills EXCEPT ![b] = [bills[b] EXCEPT !.status = "Paid", !.paid_at = now]]
      /\ bills'[b].status = "Paid" /\ bills'[b].user = u /\ bills'[b].principal = p
      /\ \A c \in BillIds \ {b} : bills'[c] = bills[c]
  <2>1. bills[b] \in Bill /\ bills \in [BillIds -> Bill \cup {NoBill}]
    BY <1>1, BillTyped DEF TypeOK, CoreTypeOK
  <2>2. bills' = [bills EXCEPT ![b] = [bills[b] EXCEPT !.status = "Paid", !.paid_at = now]]
    BY <2>1 DEF PayBill
  <2> QED BY <2>1, <2>2 DEF Bill
<1>3. StatusReached' /\ BillsInOrder'
  <2>1. bills[b] # NoBill /\ bills'[b] # NoBill
    <3>1. NoBill.status = "None"
      BY DEF NoBill
    <3>2. bills[b].status = "Created" /\ bills'[b].status = "Paid"
      BY <1>1, <1>2
    <3> QED BY <3>1, <3>2
  <2>2. billCounter' = billCounter
    BY DEF PayBill
  <2> QED BY <1>2, <2>1, <2>2 DEF BooksInv, StatusReached, BillsInOrder
<1>4. BorrowedIsOutstanding'
  <2>1. Owed[b] = 0
    BY <1>1 DEF Owed, OwedToPool
  <2>2. Owed' = [Owed EXCEPT ![b] = p]
    <3>1. \A c \in BillIds \ {b} : OwedToPool(c)' = OwedToPool(c)
      BY <1>2 DEF OwedToPool
    <3>2. OwedToPool(b)' = p
      BY <1>2 DEF OwedToPool
    <3> QED BY <3>1, <3>2 DEF Owed
  <2>3. borrowed' = borrowed - Owed[b] + p
    BY <1>1, <2>1 DEF PayBill
  <2> QED BY <1>1, <2>2, <2>3, OwedUpdate DEF BooksInv, PayBill
<1>5. UserBillsExact'
  <2>1. /\ userBills \in [Users -> Seq(BillIds)]
        /\ userBills' = [userBills EXCEPT ![u] = Append(userBills[u], b)]
    BY <1>1 DEF PayBill, TypeOK, CoreTypeOK
  <2>2. ASSUME NEW v \in Users
        PROVE  Range(userBills'[v]) = OpenLoans(v)' /\ IsInjective(userBills'[v])
    <3>1. Range(userBills[v]) = OpenLoans(v) /\ IsInjective(userBills[v])
      BY DEF BooksInv, UserBillsExact, OpenLoans
    <3>2. CASE v # u
      <4>1. OpenLoans(v)' = OpenLoans(v)
        BY <1>1, <1>2, <3>2 DEF OpenLoans
      <4> QED BY <2>1, <3>1, <3>2, <4>1
    <3>3. CASE v = u
      <4>1. OpenLoans(v)' = OpenLoans(v) \cup {b} /\ b \notin OpenLoans(v)
        BY <1>1, <1>2, <3>3 DEF OpenLoans
      <4> DEFINE s == userBills[v]
                 t == userBills'[v]
      <4>2. s \in Seq(BillIds) /\ t = Append(s, b)
        BY <2>1, <3>3
      <4> HIDE DEF s, t
      <4>3. /\ Len(s) \in Nat /\ DOMAIN s = 1 .. Len(s)
            /\ DOMAIN t = 1 .. Len(s) + 1 /\ t[Len(s) + 1] = b
            /\ \A i \in 1 .. Len(s) : t[i] = s[i]
        BY <4>2
      <4>4. Range(t) = Range(s) \cup {b}
        BY <4>3 DEF Range
      <4>5. IsInjective(t)
        <5>1. \A i \in 1 .. Len(s) : s[i] # b
          BY <3>1, <4>1, <4>3 DEF Range, s
        <5>2. IsInjective(s)
          BY <3>1 DEF s
        <5> QED BY <5>1, <5>2, <4>3 DEF IsInjective
      <4> QED BY <4>1, <4>4, <4>5, <3>1 DEF s, t
    <3> QED BY <3>2, <3>3
  <2> QED BY <2>2 DEF UserBillsExact, OpenLoans
<1>6. OnUsdcUntilReset'
  BY DEF BooksInv, OnUsdcUntilReset, OnUsdc, PayBill
<1> QED BY <1>1, <1>3, <1>4, <1>5, <1>6 DEF BooksInv

(* Repayment and liquidation alike: the bill is closed and the pool is     *)
(* owed its principal less.                                                *)
LEMMA SettledBooks ==
  ASSUME BooksInv, TypeOK', NEW b \in BillIds, bills[b].status = "Paid",
         NEW status \in {"Repaid", "Liquidated"}, Settled(b, status),
         billCounter' = billCounter, reset' = reset, asset' = asset,
         ~ reset => borrowed' = borrowed - bills[b].principal
  PROVE  BooksInv'
<1> DEFINE u == bills[b].user
           p == bills[b].principal
<1>1. TypeOK /\ u \in Users /\ p \in Nat /\ borrowed \in Nat
  BY BillTyped DEF BooksInv, TypeOK, LpTypeOK
<1>2. /\ bills'[b].status = status
      /\ \A c \in BillIds \ {b} : bills'[c] = bills[c]
  <2>1. bills[b] \in Bill /\ bills \in [BillIds -> Bill \cup {NoBill}]
    BY <1>1, BillTyped DEF TypeOK, CoreTypeOK
  <2>2. bills' = [bills EXCEPT ![b] = [bills[b] EXCEPT !.status = status]]
    BY <2>1 DEF Settled
  <2> QED BY <2>1, <2>2 DEF Bill
<1>3. StatusReached' /\ BillsInOrder'
  <2>1. bills[b] # NoBill /\ bills'[b] # NoBill
    BY <1>2 DEF NoBill
  <2> QED BY <1>2, <2>1 DEF BooksInv, StatusReached, BillsInOrder
<1>4. BorrowedIsOutstanding'
  <2>1. Owed[b] = p
    BY DEF Owed, OwedToPool
  <2>2. Owed' = [Owed EXCEPT ![b] = 0]
    <3>1. \A c \in BillIds \ {b} : OwedToPool(c)' = OwedToPool(c)
      BY <1>2 DEF OwedToPool
    <3>2. OwedToPool(b)' = 0
      BY <1>2 DEF OwedToPool
    <3> QED BY <3>1, <3>2 DEF Owed
  <2>3. ~ reset => borrowed' = borrowed - Owed[b] + 0
    BY <1>1, <2>1
  <2> QED BY <1>1, <2>2, <2>3, OwedUpdate DEF BooksInv
<1>5. UserBillsExact'
  <2>1. /\ userBills \in [Users -> Seq(BillIds)]
        /\ userBills' = [userBills EXCEPT ![u] = Without(userBills[u], b)]
    BY <1>1 DEF Settled, TypeOK, CoreTypeOK
  <2>2. ASSUME NEW v \in Users
        PROVE  Range(userBills'[v]) = OpenLoans(v)' /\ IsInjective(userBills'[v])
    <3>1. Range(userBills[v]) = OpenLoans(v) /\ IsInjective(userBills[v])
      BY DEF BooksInv, UserBillsExact, OpenLoans
    <3>2. OpenLoans(v)' = OpenLoans(v) \ {b}
      BY <1>2 DEF OpenLoans
    <3>3. CASE v # u
      <4>1. b \notin OpenLoans(v)
        BY <3>3 DEF OpenLoans
      <4> QED BY <2>1, <3>1, <3>2, <3>3, <4>1
    <3>4. CASE v = u
      <4>1. userBills[v] \in Seq(BillIds) /\ userBills'[v] = Without(userBills[v], b)
        BY <2>1, <3>4
      <4> QED BY <3>1, <3>2, <4>1, WithoutFacts
    <3> QED BY <3>3, <3>4
  <2> QED BY <2>2 DEF UserBillsExact, OpenLoans
<1>6. OnUsdcUntilReset'
  BY DEF BooksInv, OnUsdcUntilReset, OnUsdc
<1> QED BY <1>3, <1>4, <1>5, <1>6 DEF BooksInv

(* The saturating subtraction of repay never bites in a pool initialized   *)
(* once: a paid bill's principal is part of what is lent.                  *)
LEMMA PrincipalIsLent ==
  ASSUME BooksInv, ~ reset, NEW b \in BillIds, bills[b].status = "Paid"
  PROVE  bills[b].principal \in Nat /\ bills[b].principal <= borrowed
<1>1. Owed[b] = bills[b].principal /\ TypeOK
  BY DEF Owed, OwedToPool, BooksInv
<1>2. Owed[b] <= Total(Owed, MaxBills)
  BY <1>1, OwedNat
<1> QED BY <1>1, <1>2, BillTyped DEF BooksInv, BorrowedIsOutstanding, Owed

(* Repayment closes the bill for exactly its principal.                    *)
LEMMA RepayBillBooks ==
  ASSUME BooksInv, NEW b \in BillIds, RepayBill(b)
  PROVE  BooksInv'
<1>1. TypeOK' /\ bills[b].status = "Paid"
  BY RepayBillTypes DEF BooksInv, RepayBill, CanRepay
<1>2. ~ reset => bills[b].principal <= borrowed
  BY <1>1, PrincipalIsLent
<1>3. ~ reset => borrowed' = borrowed - bills[b].principal
  <2>1. bills[b].principal \in Nat /\ borrowed \in Nat
    BY <1>1, BillTyped DEF BooksInv, TypeOK, LpTypeOK
  <2> QED BY <1>2, <2>1 DEF RepayBill, Returned
<1>4. Settled(b, "Repaid") /\ UNCHANGED <<billCounter, reset, asset>>
  BY DEF RepayBill
<1> QED BY <1>1, <1>3, <1>4, SettledBooks

(* Liquidation closes the bill for exactly its principal.                  *)
LEMMA LiquidateBillBooks ==
  ASSUME BooksInv, NEW b \in BillIds, NEW l \in Users, LiquidateBill(b, l)
  PROVE  BooksInv'
<1>1. TypeOK' /\ bills[b].status = "Paid"
  BY LiquidateBillTypes DEF BooksInv, LiquidateBill, CanLiquidate, StatusReached
<1>2. ~ reset => bills[b].principal <= borrowed
  BY <1>1, PrincipalIsLent
<1>3. ~ reset => borrowed' = borrowed - bills[b].principal
  <2>1. bills[b].principal \in Nat /\ borrowed \in Nat
    BY <1>1, BillTyped DEF BooksInv, TypeOK, LpTypeOK
  <2> QED BY <1>2, <2>1 DEF LiquidateBill, Returned
<1>4. Settled(b, "Liquidated") /\ UNCHANGED <<billCounter, reset, asset>>
  BY DEF LiquidateBill
<1> QED BY <1>1, <1>3, <1>4, SettledBooks

(* A new bill fills the empty entry at the counter, so it neither hides a  *)
(* loan nor adds one.                                                      *)
LEMMA CreateBillBooks ==
  ASSUME BooksInv, NEW m \in Merchants, NEW u \in Borrowers, NEW p \in Principals,
         NEW o \in Orders, CreateBill(m, u, p, o)
  PROVE  BooksInv'
<1>1. TypeOK' /\ TypeOK
  BY CreateBillTypes DEF BooksInv
<1>2. billCounter \in BillIds /\ billCounter' = billCounter + 1 /\ bills[billCounter] = NoBill
  <2>1. billCounter \in BillIds
    BY <1>1, CoreAssumption DEF CreateBill, TypeOK, CoreTypeOK, BillIds
  <2> QED BY <2>1 DEF CreateBill, BooksInv, BillsInOrder, BillIds
<1>3. /\ bills'[billCounter].status = "Created"
      /\ \A c \in BillIds \ {billCounter} : bills'[c] = bills[c]
  BY <1>1, <1>2 DEF CreateBill, TypeOK, CoreTypeOK
<1>4. bills[billCounter].status = "None" /\ bills'[billCounter] # NoBill
  BY <1>2, <1>3 DEF NoBill
<1>5. StatusReached' /\ BillsInOrder'
  <2>1. BillsInOrder'
    <3>1. ASSUME NEW c \in BillIds
          PROVE  c < billCounter' <=> bills'[c] # NoBill
      <4>1. c \in Nat /\ billCounter \in Nat /\ (c < billCounter <=> bills[c] # NoBill)
        BY <1>2, CoreAssumption DEF BillIds, BooksInv, BillsInOrder
      <4>2. CASE c = billCounter
        BY <4>1, <4>2, <1>2, <1>4
      <4>3. CASE c # billCounter
        <5>1. bills'[c] = bills[c]
          BY <4>3, <1>3
        <5>2. c < billCounter + 1 <=> c < billCounter
          BY <4>1, <4>3
        <5> QED BY <5>1, <5>2, <4>1, <1>2
      <4> QED BY <4>2, <4>3
    <3> QED BY <3>1 DEF BillsInOrder
  <2> QED BY <2>1, <1>3 DEF BooksInv, StatusReached
<1>6. BorrowedIsOutstanding'
  <2>1. \A c \in BillIds : OwedToPool(c)' = OwedToPool(c)
    BY <1>3, <1>4 DEF OwedToPool
  <2> QED BY <2>1, OwedKept DEF BooksInv, CreateBill, lpVars
<1>7. UserBillsExact'
  <2>1. \A v \in Users : OpenLoans(v)' = OpenLoans(v)
    BY <1>3, <1>4 DEF OpenLoans
  <2>2. userBills' = userBills
    BY DEF CreateBill
  <2> QED BY <2>1, <2>2 DEF BooksInv, UserBillsExact, OpenLoans
<1>8. OnUsdcUntilReset'
  BY DEF BooksInv, OnUsdcUntilReset, OnUsdc, CreateBill, lpVars
<1> QED BY <1>1, <1>5, <1>6, <1>7, <1>8 DEF BooksInv

(* No call to the pool by users lends or takes back, and only a repeated   *)
(* initialize changes its asset.                                           *)
LEMMA LpCallKeepsBorrowed ==
  ASSUME NEW locked, LpCall(locked), ~ Restarted
  PROVE  UNCHANGED <<borrowed, asset, reset>>
BY DEF Restarted, LpCall, UpdateIndex, Deposit, Withdraw, LpMint, Donate, LpBurn, LpTransfer,
       LpApprove, LpBurnFrom, LpTransferFrom, poolVars, lpVars

(* A pool that was initialized again stays so marked.                      *)
LEMMA ResetStays ==
  ASSUME [Next]_vars
  PROVE  (reset => reset') /\ (Restarted => reset')
<1>1. Restarted => reset'
  BY DEF Restarted, LpInitialize
<1>2. CASE CoreCall
  <2>1. reset' = reset
    BY <1>2
    DEF CoreCall, SetBnplCore, EnrollMerchant, UpdateMerchantStatus, CreateBill,
        PayBill, RepayBill, LiquidateBill, ApproveCore, lpVars
  <2> QED BY <1>1, <2>1
<1>3. CASE LpCall(Locked)
  BY <1>1, <1>3, LpCallKeepsBorrowed
<1>4. CASE UNCHANGED lpVars
  BY <1>1, <1>4 DEF lpVars
<1> QED BY <1>2, <1>3, <1>4 DEF Next, vars

(* A step that leaves bills, lists and loans alone keeps the books.        *)
LEMMA BooksKept ==
  ASSUME BooksInv, TypeOK',
         UNCHANGED <<bills, billCounter, userBills, borrowed, asset, reset>>
  PROVE  BooksInv'
<1>1. StatusReached' /\ BillsInOrder' /\ UserBillsExact'
  BY DEF BooksInv, StatusReached, BillsInOrder, UserBillsExact
<1>2. BorrowedIsOutstanding'
  <2>1. \A b \in BillIds : OwedToPool(b)' = OwedToPool(b)
    BY DEF OwedToPool
  <2> QED BY <2>1, OwedKept DEF BooksInv
<1>3. OnUsdcUntilReset'
  BY DEF BooksInv, OnUsdcUntilReset, OnUsdc
<1> QED BY <1>1, <1>2, <1>3 DEF BooksInv

(* Every step of the protocol keeps the inductive invariant.               *)
LEMMA StepBooks ==
  ASSUME BooksInv, [Next]_vars
  PROVE  BooksInv'
<1>1. TypeOK'
  BY StepTypes DEF BooksInv
<1>2. ASSUME \/ SetBnplCore
             \/ \E m \in Merchants : EnrollMerchant(m)
             \/ \E m \in Merchants, s \in AdminStatuses : UpdateMerchantStatus(m, s)
             \/ \E u \in Borrowers, a \in RepayAllowances : ApproveCore(u, a)
      PROVE  BooksInv'
  <2>1. UNCHANGED <<bills, billCounter, userBills, borrowed, asset, reset>>
    BY <1>2 DEF SetBnplCore, EnrollMerchant, UpdateMerchantStatus, ApproveCore,
                coreVars, lpVars
  <2> QED BY <1>1, <2>1, BooksKept
<1>3. CASE CoreCall
  BY <1>2, <1>3, CreateBillBooks, PayBillBooks, RepayBillBooks, LiquidateBillBooks
  DEF CoreCall
<1>4. CASE LpCall(Locked) /\ UNCHANGED coreVars
  <2>1. CASE ~ Restarted
    <3>1. UNCHANGED <<bills, billCounter, userBills, borrowed, asset, reset>>
      BY <1>4, <2>1, LpCallKeepsBorrowed DEF coreVars
    <3> QED BY <1>1, <3>1, BooksKept
  <2>2. CASE Restarted
    <3>1. BorrowedIsOutstanding' /\ OnUsdcUntilReset'
      BY <2>2, ResetStays DEF BorrowedIsOutstanding, OnUsdcUntilReset
    <3>2. StatusReached' /\ BillsInOrder' /\ UserBillsExact'
      BY <1>4 DEF BooksInv, StatusReached, BillsInOrder, UserBillsExact, coreVars
    <3> QED BY <1>1, <3>1, <3>2 DEF BooksInv
  <2> QED BY <2>1, <2>2
<1>5. CASE LedgerClose /\ UNCHANGED <<coreVars, lpVars>>
  BY <1>1, <1>5, BooksKept DEF coreVars, lpVars
<1>6. CASE UNCHANGED vars
  BY <1>1, <1>6, BooksKept DEF vars, coreVars, lpVars
<1> QED BY <1>3, <1>4, <1>5, <1>6 DEF Next

(* The inductive invariant holds when nothing has been created yet.        *)
LEMMA InitBooks == Init => BooksInv
<1> SUFFICES ASSUME Init PROVE BooksInv
  OBVIOUS
<1>1. TypeOK /\ billCounter = 1 /\ borrowed = 0
  BY InitTypes DEF Init, CoreInit, LpInit
<1>2. \A b \in BillIds : bills[b] = NoBill /\ bills[b].status = "None"
  BY DEF Init, CoreInit, NoBill
<1>3. StatusReached /\ BillsInOrder
  <2>1. \A b \in BillIds : ~ (b < 1)
    BY CoreAssumption DEF BillIds
  <2> QED BY <1>1, <1>2, <2>1 DEF StatusReached, BillsInOrder
<1>4. BorrowedIsOutstanding
  <2>1. Owed = [b \in 1 .. MaxBills |-> 0]
    BY <1>2 DEF Owed, OwedToPool, BillIds
  <2>2. Total(Owed, MaxBills) = 0
    BY <2>1, TotalOfZeros, CoreAssumption
  <2> QED BY <1>1, <2>2 DEF BorrowedIsOutstanding, Owed
<1>5. UserBillsExact
  <2>1. ASSUME NEW u \in Users
        PROVE  Range(userBills[u]) = OpenLoans(u) /\ IsInjective(userBills[u])
    <3>1. userBills[u] = <<>>
      BY DEF Init, CoreInit
    <3>2. OpenLoans(u) = {}
      BY <1>2 DEF OpenLoans
    <3> QED BY <3>1, <3>2 DEF Range, IsInjective
  <2> QED BY <2>1 DEF UserBillsExact, OpenLoans
<1>6. OnUsdcUntilReset
  BY DEF Init, LpInit, OnUsdcUntilReset, OnUsdc
<1> QED BY <1>1, <1>3, <1>4, <1>5, <1>6 DEF BooksInv

(* BooksInv is an invariant of the protocol.                               *)
LEMMA BooksInvariant == Spec => []BooksInv
BY InitBooks, StepBooks, PTL DEF Spec

(* What a pool that was initialized once has lent is the sum of the        *)
(* principals of the open loans, for any number of bills, users and        *)
(* amounts.                                                                *)
THEOREM BorrowedExact == Spec => []BorrowedIsOutstanding
<1>1. BooksInv => BorrowedIsOutstanding
  BY DEF BooksInv
<1> QED BY <1>1, BooksInvariant, PTL

(* The list get_user_total_debt walks holds each open loan of its user     *)
(* exactly once, and nothing else.                                         *)
THEOREM UserBillsCorrect == Spec => []UserBillsExact
<1>1. BooksInv => UserBillsExact
  BY DEF BooksInv
<1> QED BY <1>1, BooksInvariant, PTL

-----------------------------------------------------------------------------
(* Refinement of LoanBook: paying a bill draws its loan, repayment and     *)
(* liquidation close it, creating a bill opens the loan of that number,    *)
(* and every other step leaves loans and the amount lent alone.            *)

(* The loan of each bill, by the bill's status.                            *)
LEMMA LoanStages ==
  ASSUME NEW b \in BillIds
  PROVE  /\ LoanTable[b] = LoanOf(b)
         /\ bills[b].status = "None" => LoanOf(b) = [stage |-> "none", principal |-> 0]
         /\ bills[b].status = "Created" =>
              LoanOf(b) = [stage |-> "open", principal |-> bills[b].principal]
         /\ bills[b].status = "Paid" =>
              LoanOf(b) = [stage |-> "drawn", principal |-> bills[b].principal]
         /\ bills[b].status \in {"Repaid", "Liquidated"} =>
              LoanOf(b) = [stage |-> "closed", principal |-> bills[b].principal]
BY DEF LoanTable, LoanOf, StageOf

(* The same after a step.                                                  *)
LEMMA LoanStagesNext ==
  ASSUME NEW b \in BillIds
  PROVE  /\ bills'[b].status = "Created" =>
              LoanOf(b)' = [stage |-> "open", principal |-> bills'[b].principal]
         /\ bills'[b].status = "Paid" =>
              LoanOf(b)' = [stage |-> "drawn", principal |-> bills'[b].principal]
         /\ bills'[b].status \in {"Repaid", "Liquidated"} =>
              LoanOf(b)' = [stage |-> "closed", principal |-> bills'[b].principal]
BY DEF LoanOf, StageOf

(* A step that changes one bill changes one loan.                          *)
LEMMA OneLoanChanges ==
  ASSUME NEW b \in BillIds, \A c \in BillIds \ {b} : bills'[c] = bills[c]
  PROVE  LoanTable' = [LoanTable EXCEPT ![b] = LoanOf(b)']
<1>1. \A c \in BillIds \ {b} : LoanOf(c)' = LoanOf(c)
  BY DEF LoanOf
<1> QED BY <1>1 DEF LoanTable

(* A step that leaves the bills alone leaves the loans alone.              *)
LEMMA LoansKept ==
  ASSUME bills' = bills
  PROVE  LoanTable' = LoanTable
<1>1. \A c \in BillIds : LoanOf(c)' = LoanOf(c)
  BY DEF LoanOf
<1> QED BY <1>1 DEF LoanTable

(* pay_bill_bnpl draws the loan of its bill.                               *)
LEMMA PayBillDraws ==
  ASSUME BooksInv, NEW b \in BillIds, PayBill(b)
  PROVE  Book!Draw(b)
<1> DEFINE p == bills[b].principal
<1>1. TypeOK /\ bills[b].status = "Created"
  BY DEF BooksInv, PayBill
<1>2. /\ bills'[b].status = "Paid" /\ bills'[b].principal = p
      /\ \A c \in BillIds \ {b} : bills'[c] = bills[c]
  <2>1. bills[b] \in Bill /\ bills \in [BillIds -> Bill \cup {NoBill}]
    BY <1>1, BillTyped DEF TypeOK, CoreTypeOK
  <2>2. bills' = [bills EXCEPT ![b] = [bills[b] EXCEPT !.status = "Paid", !.paid_at = now]]
    BY <2>1 DEF PayBill
  <2> QED BY <2>1, <2>2 DEF Bill
<1>3. LoanTable[b] = [stage |-> "open", principal |-> p]
  BY <1>1, LoanStages
<1>4. LoanTable' = [LoanTable EXCEPT ![b] = [stage |-> "drawn", principal |-> p]]
  BY <1>2, LoanStagesNext, OneLoanChanges
<1>5. LoanTable' = [LoanTable EXCEPT ![b].stage = "drawn"]
  <2>1. [LoanTable[b] EXCEPT !.stage = "drawn"] = [stage |-> "drawn", principal |-> p]
    BY <1>3
  <2>2. [LoanTable EXCEPT ![b].stage = "drawn"] =
          [LoanTable EXCEPT ![b] = [LoanTable[b] EXCEPT !.stage = "drawn"]]
    OBVIOUS
  <2> QED BY <2>1, <2>2, <1>4
<1>6. borrowed' = borrowed + LoanTable[b].principal
  BY <1>3 DEF PayBill
<1> QED BY <1>3, <1>5, <1>6 DEF Book!Draw

(* Settling a paid bill for its principal closes its loan.                 *)
LEMMA SettledCloses ==
  ASSUME TypeOK, NEW b \in BillIds, bills[b].status = "Paid",
         NEW status \in {"Repaid", "Liquidated"}, Settled(b, status),
         borrowed' = borrowed - bills[b].principal
  PROVE  Book!Close(b)
<1> DEFINE p == bills[b].principal
<1>1. /\ bills'[b].status = status /\ bills'[b].principal = p
      /\ \A c \in BillIds \ {b} : bills'[c] = bills[c]
  <2>1. bills[b] \in Bill /\ bills \in [BillIds -> Bill \cup {NoBill}]
    BY BillTyped DEF TypeOK, CoreTypeOK
  <2>2. bills' = [bills EXCEPT ![b] = [bills[b] EXCEPT !.status = status]]
    BY <2>1 DEF Settled
  <2> QED BY <2>1, <2>2 DEF Bill
<1>2. LoanTable[b] = [stage |-> "drawn", principal |-> p]
  BY LoanStages
<1>3. LoanTable' = [LoanTable EXCEPT ![b] = [stage |-> "closed", principal |-> p]]
  BY <1>1, LoanStagesNext, OneLoanChanges
<1>4. LoanTable' = [LoanTable EXCEPT ![b].stage = "closed"]
  <2>1. [LoanTable[b] EXCEPT !.stage = "closed"] = [stage |-> "closed", principal |-> p]
    BY <1>2
  <2>2. [LoanTable EXCEPT ![b].stage = "closed"] =
          [LoanTable EXCEPT ![b] = [LoanTable[b] EXCEPT !.stage = "closed"]]
    OBVIOUS
  <2> QED BY <2>1, <2>2, <1>3
<1> QED BY <1>2, <1>4 DEF Book!Close

(* repay_bill closes the loan of its bill.                                 *)
LEMMA RepayBillCloses ==
  ASSUME BooksInv, ~ reset, NEW b \in BillIds, RepayBill(b)
  PROVE  Book!Close(b)
<1>1. TypeOK /\ bills[b].status = "Paid" /\ Settled(b, "Repaid")
  BY DEF BooksInv, RepayBill, CanRepay
<1>2. bills[b].principal \in Nat /\ bills[b].principal <= borrowed /\ borrowed \in Nat
  BY <1>1, PrincipalIsLent DEF TypeOK, LpTypeOK
<1>3. borrowed' = borrowed - bills[b].principal
  BY <1>2 DEF RepayBill, Returned
<1> QED BY <1>1, <1>3, SettledCloses

(* liquidate_bill closes the loan of its bill.                             *)
LEMMA LiquidateBillCloses ==
  ASSUME BooksInv, ~ reset, NEW b \in BillIds, NEW l \in Users, LiquidateBill(b, l)
  PROVE  Book!Close(b)
<1>1. TypeOK /\ bills[b].status = "Paid" /\ Settled(b, "Liquidated")
  BY DEF BooksInv, LiquidateBill, CanLiquidate, StatusReached
<1>2. bills[b].principal \in Nat /\ bills[b].principal <= borrowed /\ borrowed \in Nat
  BY <1>1, PrincipalIsLent DEF TypeOK, LpTypeOK
<1>3. borrowed' = borrowed - bills[b].principal
  BY <1>2 DEF LiquidateBill, Returned
<1> QED BY <1>1, <1>3, SettledCloses

(* create_bill opens the loan with the number of the counter, after all    *)
(* smaller ones.                                                           *)
LEMMA CreateBillOpens ==
  ASSUME BooksInv, NEW m \in Merchants, NEW u \in Borrowers, NEW p \in Principals,
         NEW o \in Orders, CreateBill(m, u, p, o)
  PROVE  billCounter \in BillIds /\ Book!Open(billCounter, p)
<1> DEFINE b == billCounter
<1>1. b \in BillIds /\ b \in Nat
  BY CoreAssumption DEF CreateBill, BooksInv, TypeOK, CoreTypeOK, BillIds
<1>2. bills[b] = NoBill
  BY <1>1 DEF BooksInv, BillsInOrder, BillIds
<1>3. /\ bills'[b].status = "Created" /\ bills'[b].principal = p
      /\ \A c \in BillIds \ {b} : bills'[c] = bills[c]
  BY <1>1 DEF CreateBill, BooksInv, TypeOK, CoreTypeOK
<1>4. LoanTable[b] = Book!NoLoan
  <2>1. bills[b].status = "None"
    BY <1>2 DEF NoBill
  <2> QED BY <1>1, <2>1, LoanStages DEF Book!NoLoan
<1>5. \A j \in BillIds : j < b => LoanTable[j] # Book!NoLoan
  <2>1. ASSUME NEW j \in BillIds, j < b
        PROVE  LoanTable[j].stage # "none"
    <3>1. bills[j].status \in {"Created", "Paid", "Repaid", "Liquidated"}
      <4>1. bills[j] \in Bill
        BY <2>1 DEF BooksInv, BillsInOrder, TypeOK, CoreTypeOK
      <4> QED BY <4>1 DEF Bill, BooksInv, StatusReached
    <3> QED BY <3>1, LoanStages
  <2>2. Book!NoLoan.stage = "none"
    BY DEF Book!NoLoan
  <2> QED BY <2>1, <2>2
<1>6. LoanTable' = [LoanTable EXCEPT ![b] = [stage |-> "open", principal |-> p]]
  BY <1>1, <1>3, LoanStagesNext, OneLoanChanges
<1>7. p > 0 /\ borrowed' = borrowed
  BY DEF CreateBill, lpVars
<1> QED BY <1>1, <1>4, <1>5, <1>6, <1>7 DEF Book!Open, Book!LoanIds, BillIds

(* Until the pool is initialized again, every step of the protocol is a    *)
(* step of the loan book or leaves it.                                     *)
LEMMA StepImplements ==
  ASSUME BooksInv, [Next]_vars, ~ reset'
  PROVE  [Book!LoanBookNext]_<<LoanTable, borrowed>>
<1>0. ~ reset /\ ~ Restarted
  BY ResetStays
<1>1. BillIds = Book!LoanIds
  BY DEF BillIds, Book!LoanIds
<1>2. ASSUME NEW b \in BillIds, Book!Draw(b) \/ Book!Close(b)
      PROVE  Book!LoanBookNext
  BY <1>1, <1>2 DEF Book!LoanBookNext
<1>3. ASSUME NEW b \in BillIds, NEW p \in Principals, Book!Open(b, p)
      PROVE  Book!LoanBookNext
  BY <1>1, <1>3 DEF Book!LoanBookNext
<1>4. ASSUME \/ SetBnplCore
             \/ \E m \in Merchants : EnrollMerchant(m)
             \/ \E m \in Merchants, s \in AdminStatuses : UpdateMerchantStatus(m, s)
             \/ \E u \in Borrowers, a \in RepayAllowances : ApproveCore(u, a)
      PROVE  UNCHANGED <<LoanTable, borrowed>>
  <2>1. bills' = bills /\ borrowed' = borrowed
    BY <1>4 DEF SetBnplCore, EnrollMerchant, UpdateMerchantStatus, ApproveCore,
                coreVars, lpVars
  <2> QED BY <2>1, LoansKept
<1>5. CASE CoreCall
  BY <1>0, <1>2, <1>3, <1>4, <1>5, PayBillDraws, RepayBillCloses, LiquidateBillCloses,
     CreateBillOpens
  DEF CoreCall
<1>6. CASE LpCall(Locked) /\ UNCHANGED coreVars
  BY <1>0, <1>6, LpCallKeepsBorrowed, LoansKept DEF coreVars
<1>7. CASE LedgerClose /\ UNCHANGED <<coreVars, lpVars>>
  BY <1>7, LoansKept DEF coreVars, lpVars
<1>8. CASE UNCHANGED vars
  BY <1>8, LoansKept DEF vars, coreVars, lpVars
<1> QED BY <1>5, <1>6, <1>7, <1>8 DEF Next

(* With no bills, every loan is none and nothing is lent.                  *)
LEMMA InitImplements == Init => Book!LoanBookInit
<1> SUFFICES ASSUME Init PROVE Book!LoanBookInit
  OBVIOUS
<1>1. \A b \in BillIds : LoanOf(b) = Book!NoLoan
  <2>1. \A b \in BillIds : bills[b].status = "None"
    BY DEF Init, CoreInit, NoBill
  <2> QED BY <2>1, LoanStages DEF Book!NoLoan
<1>2. LoanTable = [i \in Book!LoanIds |-> Book!NoLoan]
  BY <1>1 DEF LoanTable, BillIds, Book!LoanIds
<1> QED BY <1>2 DEF Book!LoanBookInit, Init, LpInit

(* Whatever the constants, a protocol whose pool is initialized once keeps *)
(* the promise of the loan book: a loan is drawn and closed at most once,  *)
(* its principal never changes, and what the pool has lent moves by        *)
(* exactly that principal.                                                 *)
THEOREM LoanBookImplemented == Spec => ImplementsLoanBook
<1>1. BooksInv /\ [Next]_vars => [~ reset' => Book!LoanBookNext]_<<LoanTable, borrowed>>
  BY StepImplements
<1> QED BY InitImplements, <1>1, BooksInvariant, PTL DEF Spec, ImplementsLoanBook

-----------------------------------------------------------------------------
(* The core is a conduit: what each transaction leaves with it.            *)

(* distribute_fees takes the parts of the amount from the core, and        *)
(* nothing else.                                                           *)
LEMMA DistributedFromCore ==
  ASSUME NEW b \in [Accounts -> Nat], NEW amount \in Nat
  PROVE  Distributed(b, amount)[Core] = b[Core] - FeeParts(amount)
<1> DEFINE t == TreasuryPart(amount)
           i == InsurancePart(amount)
           l == LPPart(amount)
           b1 == Moved(b, Core, Treasury, t)
           b2 == Moved(b1, Core, Insurance, i)
           b3 == Moved(b2, Core, Pool, l)
<1>1. t \in Nat /\ i \in Nat /\ l \in Nat /\ b[Core] \in Nat
  BY FeePartsBounded, Addresses
<1> HIDE DEF t, i, l
<1>2. b1[Core] = b[Core] - t /\ DOMAIN b1 = Accounts
  BY Addresses DEF Moved
<1> HIDE DEF b1
<1>3. b2[Core] = b1[Core] - i /\ DOMAIN b2 = Accounts
  BY <1>2, Addresses DEF Moved
<1> HIDE DEF b2
<1>4. b3[Core] = b2[Core] - l
  BY <1>3, Addresses DEF Moved
<1> HIDE DEF b3
<1>5. Distributed(b, amount)[Core] = b3[Core]
  BY DEF Distributed, b3, b2, b1, t, i, l
<1> QED BY <1>1, <1>2, <1>3, <1>4, <1>5 DEF FeeParts, t, i, l

(* USDC moved between two different accounts changes those two.            *)
LEMMA MovedBetween ==
  ASSUME NEW b \in [Accounts -> Nat], NEW from \in Accounts, NEW to \in Accounts,
         from # to, NEW n \in Nat, b[from] >= n
  PROVE  /\ Moved(b, from, to, n) \in [Accounts -> Nat]
         /\ Moved(b, from, to, n)[from] = b[from] - n
         /\ Moved(b, from, to, n)[to] = b[to] + n
<1>1. Moved(b, from, to, n) \in [Accounts -> Nat]
  BY MovedNat
<1> QED BY <1>1 DEF Moved

(* What a step may leave with the core.                                    *)
OnlyDust == usdc'[Core] - usdc[Core] \in 0 .. 3

(* Payment leaves the dust of dividing the merchant's fee.                 *)
LEMMA PayBillDust ==
  ASSUME TypeOK, NEW b \in BillIds, PayBill(b)
  PROVE  OnlyDust
<1> DEFINE p == bills[b].principal
           m == bills[b].merchant
           fee == MerchantFee(p)
           usdc1 == Moved(usdc, Pool, Core, p)
           usdc2 == Moved(usdc1, Core, m, p - fee)
<1>1. /\ p \in Nat /\ m \in Accounts /\ m # Core /\ fee \in Nat /\ fee <= p
      /\ usdc \in [Accounts -> Nat] /\ usdc[Core] \in Nat
  <2>1. bills[b].status # "None"
    BY DEF PayBill
  <2>2. m \in Merchants
    BY <2>1, BillTyped DEF Bill
  <2> QED BY <2>1, <2>2, BillTyped, FeesBounded, Addresses DEF TypeOK, UsdcTypeOK
<1> HIDE DEF fee, p, m
<1>2. usdc1 \in [Accounts -> Nat] /\ usdc1[Core] = usdc[Core] + p
  <2>1. usdc[Pool] >= p
    BY DEF PayBill, CanMove, p
  <2>2. Pool \in Accounts /\ Core \in Accounts /\ Pool # Core
    BY Addresses
  <2> QED BY <2>1, <2>2, <1>1, MovedBetween
<1>3. usdc2 \in [Accounts -> Nat] /\ usdc2[Core] = usdc1[Core] - (p - fee)
  <2>1. usdc1[Core] >= p - fee /\ p - fee \in Nat
    BY <1>1, <1>2
  <2> HIDE DEF usdc1
  <2> QED BY <2>1, <1>1, <1>2, Addresses, MovedBetween
<1>4. usdc' = Distributed(usdc2, fee)
  BY DEF PayBill, p, m, fee
<1> HIDE DEF usdc1, usdc2
<1>5. usdc'[Core] = usdc2[Core] - FeeParts(fee)
  BY <1>1, <1>3, <1>4, DistributedFromCore
<1>6. FeeParts(fee) \in Nat /\ fee - FeeParts(fee) \in 0 .. 2
  BY <1>1, FeePartsDust
<1> QED BY <1>1, <1>2, <1>3, <1>5, <1>6 DEF OnlyDust

(* Repayment leaves the dust of dividing the late fee: the pool takes back *)
(* the whole principal, because it has lent it.                            *)
LEMMA RepayBillDust ==
  ASSUME BooksInv, ~ reset, NEW b \in BillIds, RepayBill(b)
  PROVE  OnlyDust
<1> DEFINE p == bills[b].principal
           u == bills[b].user
           late == LateFeeOf(b)
           owed == RepaymentOf(b)
           back == IF bills[b].principal > borrowed THEN borrowed ELSE bills[b].principal
           usdc1 == Moved(usdc, u, Core, owed)
           usdc2 == Moved(usdc1, Core, Pool, back)
<1>1. /\ p \in Nat /\ u \in Accounts /\ u # Core /\ late \in Nat /\ owed = p + late
      /\ usdc \in [Accounts -> Nat] /\ usdc[Core] \in Nat
  <2>1. bills[b].status # "None" /\ TypeOK
    BY DEF RepayBill, CanRepay, BooksInv
  <2> QED BY <2>1, BillTyped, CostsNat, Addresses DEF TypeOK, UsdcTypeOK
<1>2. back = p
  <2>1. bills[b].status = "Paid"
    BY DEF RepayBill, CanRepay
  <2>2. bills[b].principal <= borrowed /\ borrowed \in Nat
    BY <2>1, PrincipalIsLent DEF BooksInv, TypeOK, LpTypeOK
  <2> QED BY <2>2, <1>1
<1>3. usdc[u] >= owed /\ usdc' = Distributed(usdc2, late)
  BY DEF RepayBill, CanRepay, PrincipalReturned, RepaymentTaken, Returned, CanMove
<1> HIDE DEF p, u, late, owed, back
<1>4. usdc1 \in [Accounts -> Nat] /\ usdc1[Core] = usdc[Core] + owed
  BY <1>1, <1>3, Addresses, MovedBetween
<1> HIDE DEF usdc1
<1>5. usdc2 \in [Accounts -> Nat] /\ usdc2[Core] = usdc1[Core] - p
  <2>1. usdc1[Core] >= p
    BY <1>1, <1>4
  <2>2. Moved(usdc1, Core, Pool, p) \in [Accounts -> Nat]
        /\ Moved(usdc1, Core, Pool, p)[Core] = usdc1[Core] - p
    BY <2>1, <1>1, <1>4, Addresses, MovedBetween
  <2> QED BY <2>2, <1>2
<1> HIDE DEF usdc2
<1>6. usdc'[Core] = usdc2[Core] - FeeParts(late)
  BY <1>1, <1>3, <1>5, DistributedFromCore
<1>7. FeeParts(late) \in Nat /\ late - FeeParts(late) \in 0 .. 2
  BY <1>1, FeePartsDust
<1> QED BY <1>1, <1>4, <1>5, <1>6, <1>7 DEF OnlyDust

(* Liquidation leaves the dust of dividing the fees, and the odd unit of   *)
(* halving the penalty.                                                    *)
LEMMA LiquidateBillDust ==
  ASSUME TypeOK, NEW b \in BillIds, NEW l \in Users, LiquidateBill(b, l)
  PROVE  OnlyDust
<1> DEFINE late == LateFeeOf(b)
           penalty == LiquidationFeeOf(b)
           fee == late + penalty
           reward == penalty \div 2
           rest == reward + late
           usdc1 == Moved(usdc, Pool, Core, fee)
           usdc2 == Moved(usdc1, Core, l, reward)
<1>1. /\ late \in Nat /\ penalty \in Nat /\ l \in Accounts /\ l # Core
      /\ usdc \in [Accounts -> Nat] /\ usdc[Core] \in Nat
  <2>1. bills[b].status # "None"
    BY DEF LiquidateBill, CanLiquidate
  <2> QED BY <2>1, CostsNat, Addresses DEF TypeOK, UsdcTypeOK
<1>2. /\ fee > 0 => usdc[Pool] >= fee
      /\ usdc' = Distributed(usdc2, rest)
  BY
  DEF LiquidateBill, CanLiquidate, RewardPaid, FeesTaken, FeesDue, Reward, Rest, CanMove
<1> HIDE DEF late, penalty
<1>3. reward \in Nat /\ penalty - 2 * reward \in 0 .. 1
  BY <1>1
<1> HIDE DEF reward
<1>4. fee \in Nat /\ rest \in Nat /\ usdc[Pool] >= fee /\ fee >= reward
  <2>1. fee \in Nat /\ rest \in Nat /\ fee >= reward
    BY <1>1, <1>3
  <2>2. usdc[Pool] \in Nat
    BY <1>1, Addresses
  <2> QED BY <2>1, <2>2, <1>2
<1>5. usdc1 \in [Accounts -> Nat] /\ usdc1[Core] = usdc[Core] + fee
  <2> HIDE DEF fee
  <2> QED BY <1>1, <1>4, Addresses, MovedBetween
<1> HIDE DEF usdc1
<1>6. usdc2 \in [Accounts -> Nat] /\ usdc2[Core] = usdc1[Core] - reward
  <2>1. usdc1[Core] >= reward
    BY <1>1, <1>3, <1>4, <1>5
  <2> QED BY <2>1, <1>1, <1>3, <1>5, Addresses, MovedBetween
<1> HIDE DEF usdc2
<1>7. usdc'[Core] = usdc2[Core] - FeeParts(rest)
  <2> HIDE DEF rest
  <2> QED BY <1>2, <1>4, <1>6, DistributedFromCore
<1>8. FeeParts(rest) \in Nat /\ rest - FeeParts(rest) \in 0 .. 2
  <2> HIDE DEF rest
  <2> QED BY <1>4, FeePartsDust
<1> QED BY <1>1, <1>3, <1>5, <1>6, <1>7, <1>8 DEF OnlyDust

(* No call of a user to the pool touches the core's USDC.                  *)
LEMMA LpCallDust ==
  ASSUME TypeOK, NEW locked, LpCall(locked)
  PROVE  OnlyDust
<1>1. /\ usdc \in [Accounts -> Nat] /\ usdc[Core] \in Nat
      /\ \A u \in Users : u \in Accounts /\ u # Core
      /\ Pool \in Accounts /\ Pool # Core /\ Core \in Accounts
  BY Addresses DEF TypeOK, UsdcTypeOK
<1>2. ASSUME usdc'[Core] = usdc[Core]
      PROVE  OnlyDust
  BY <1>1, <1>2 DEF OnlyDust
<1>3. ASSUME NEW u \in Users, NEW a \in DepositAmounts, Deposit(u, a)
      PROVE  usdc'[Core] = usdc[Core]
  BY <1>1, <1>3 DEF Deposit, Moved
<1>4. ASSUME NEW u \in Users, NEW a \in WithdrawAmounts, Withdraw(u, a, locked[u])
      PROVE  usdc'[Core] = usdc[Core]
  BY <1>1, <1>4 DEF Withdraw, Moved
<1>5. ASSUME NEW u \in Users, NEW a \in DonationAmounts, Donate(u, a)
      PROVE  usdc'[Core] = usdc[Core]
  BY <1>1, <1>5 DEF Donate, UsdcTransfer, Moved
<1> QED BY <1>2, <1>3, <1>4, <1>5
    DEF LpCall, UpdateIndex, LpMint, LpBurn, LpTransfer, LpApprove, LpBurnFrom,
        LpTransferFrom, LpInitialize, usdcVars

(* Before a pool with a core forgets what it lent in a repeated            *)
(* initialize, the core keeps nothing but dust and never pays out of what  *)
(* it had, for every amount and every set of rates that adds up.           *)
THEOREM CoreKeepsOnlyDust == Spec => CoreIsConduit
<1>1. ASSUME BooksInv, [Next]_vars, ~ reset
      PROVE  [OnlyDust]_vars
  <2>0. TypeOK /\ usdc[Core] \in Nat
    BY <1>1, Addresses DEF BooksInv, TypeOK, UsdcTypeOK
  <2>1. ASSUME usdc' = usdc
        PROVE  OnlyDust
    BY <2>0, <2>1 DEF OnlyDust
  <2>2. CASE CoreCall
    BY <2>0, <2>1, <2>2, <1>1, PayBillDust, RepayBillDust, LiquidateBillDust
    DEF CoreCall, SetBnplCore, EnrollMerchant, UpdateMerchantStatus, CreateBill,
        ApproveCore, UsdcApprove, usdcVars
  <2>3. CASE LpCall(Locked) /\ UNCHANGED coreVars
    BY <2>0, <2>3, LpCallDust
  <2>4. CASE LedgerClose /\ UNCHANGED <<coreVars, lpVars>>
    BY <2>1, <2>4 DEF LedgerClose
  <2> QED BY <1>1, <2>2, <2>3, <2>4 DEF Next
<1>2. Spec => [][~ reset => OnlyDust]_vars
  <2>1. BooksInv /\ [Next]_vars => [~ reset => OnlyDust]_vars
    BY <1>1
  <2> QED BY <2>1, BooksInvariant, PTL DEF Spec
<1> QED BY <1>2 DEF CoreIsConduit, OnlyDust

-----------------------------------------------------------------------------
(* Collateral: what the core says is locked, and what leaves a balance.    *)

(* What a user owes is a natural number.                                   *)
LEMMA DebtNat ==
  ASSUME TypeOK, NEW u \in Users
  PROVE  /\ \A b \in BillIds : DebtOf(b) \in Nat
         /\ TotalDebt(u) \in Nat /\ RequiredCollateral(u) \in Nat
<1>1. \A b \in BillIds : DebtOf(b) \in Nat
  <2>1. ASSUME NEW b \in BillIds, bills[b].status = "Paid"
        PROVE  DebtOf(b) \in Nat
    <3>1. /\ bills[b].principal \in Nat /\ bills[b].paid_at \in Nat /\ now \in Nat
      BY <2>1, BillTyped DEF TypeOK, UsdcTypeOK
    <3>2. Interest(b) \in Nat
      BY <3>1, LateFeeNat DEF Interest
    <3> QED BY <3>1, <3>2 DEF DebtOf
  <2> QED BY <2>1 DEF DebtOf
<1> DEFINE N == Len(userBills[u])
           f == [i \in 1 .. N |-> DebtOf(userBills[u][i])]
<1>2. N \in Nat /\ f \in [1 .. N -> Nat]
  <2>1. userBills[u] \in Seq(BillIds)
    BY DEF TypeOK, CoreTypeOK
  <2> QED BY <2>1, <1>1
<1>3. TotalDebt(u) \in Nat
  <2>1. TotalDebt(u) = Total(f, N)
    BY DEF TotalDebt
  <2> HIDE DEF f, N
  <2> QED BY <2>1, <1>2, TotalCoversEach
<1>4. RequiredCollateral(u) \in Nat
  <2>1. TotalDebt(u) * CollateralRatio \in Nat /\ Scale \in Nat \ {0}
    BY <1>3, TermsAssumption
  <2> QED BY <2>1 DEF RequiredCollateral, CollateralFor
<1> QED BY <1>1, <1>3, <1>4

(* Only bills, lists and time decide what collateral is required.          *)
LEMMA CollateralKept ==
  ASSUME NEW u \in Users, bills' = bills, userBills' = userBills, now' = now
  PROVE  RequiredCollateral(u)' = RequiredCollateral(u)
BY DEF RequiredCollateral, TotalDebt, DebtOf, Interest

(* More shares and a higher index are worth no less.                       *)
LEMMA ValueGrows ==
  ASSUME NEW s \in Nat, NEW t \in Nat, s <= t,
         NEW i \in Nat \ {0}, NEW j \in Nat \ {0}, i <= j
  PROVE  ValueOf(s, i) <= ValueOf(t, j)
<1> DEFINE v == ValueOf(s, i)
<1>1. v \in Nat /\ v * Decimals <= s * i
  BY ValueRoundsDown
<1> HIDE DEF v
<1>2. s * i <= t * j
  <2>1. s * i <= t * i
    BY Scaled
  <2>2. t * i <= t * j
    OBVIOUS
  <2> QED BY <2>1, <2>2
<1>3. v * Decimals <= t * j
  <2>1. v * Decimals \in Nat /\ s * i \in Nat /\ t * j \in Nat
    BY <1>1, LpAssumption
  <2> QED BY <2>1, <1>1, <1>2
<1>4. t * j \in Nat
  OBVIOUS
<1>5. v <= (t * j) \div Decimals
  <2> DEFINE n == t * j
  <2> HIDE DEF n
  <2>1. n \in Nat /\ v * Decimals <= n
    BY <1>3, <1>4 DEF n
  <2>2. v <= n \div Decimals
    BY <2>1, <1>1, LpAssumption, QuotientBounds
  <2> QED BY <2>2 DEF n
<1> QED BY <1>5 DEF v, ValueOf

(* Whoever takes out an available amount, by shares rounded down, leaves   *)
(* what is locked.                                                         *)
LEMMA AvailableLeavesLocked ==
  ASSUME TypeOK, NEW u \in Users, NEW n \in Nat, NEW locked \in Nat,
         n <= Available(u, locked), AmountToShares(n) <= shares[u],
         index' = index, shares'[u] = shares[u] - AmountToShares(n),
         Balance(u)' < Balance(u)
  PROVE  Balance(u)' >= locked
<1> DEFINE sh == AmountToShares(n)
<1>1. /\ shares[u] \in Nat /\ index \in Nat \ {0}
  BY Addresses DEF TypeOK, LpTypeOK
<1>2. sh \in Nat /\ sh = SharesFor(n, index)
  BY <1>1, SharesRoundDown DEF AmountToShares
<1> HIDE DEF sh
<1>3. sh <= shares[u] /\ shares'[u] = shares[u] - sh
  BY DEF sh
<1>4. ValueOf(shares[u], index) - ValueOf(shares[u] - sh, index) <= n
  BY <1>1, <1>2, <1>3, SharesTakenWorthAtMost
<1>5. /\ Balance(u) = ValueOf(shares[u], index)
      /\ Balance(u)' = ValueOf(shares[u] - sh, index)
  BY <1>3 DEF Balance
<1>6. Balance(u) \in Nat /\ Balance(u)' \in Nat
  <2>1. shares[u] - sh \in Nat
    BY <1>1, <1>2, <1>3
  <2> QED BY <2>1, <1>1, <1>5, ValueRoundsDown
<1>7. CASE Balance(u) > locked
  BY <1>4, <1>5, <1>6, <1>7 DEF Available
<1>8. CASE ~ (Balance(u) > locked)
  <2>1. n = 0
    BY <1>6, <1>8 DEF Available
  <2> QED BY <2>1, <1>4, <1>5, <1>6
<1> QED BY <1>7, <1>8

(* A user's balance falls only by what it could spare, or by the           *)
(* liquidation of its own loan.                                            *)
Kept(u) ==
  bnplCore = Core /\ Balance(u)' < Balance(u) /\ ~LiquidatedNow(u) =>
    Balance(u)' >= RequiredCollateral(u)'

(* A balance falls only where shares are taken away.                       *)
LEMMA NothingTaken ==
  ASSUME TypeOK, TypeOK', index' >= index, NEW u \in Users, shares'[u] >= shares[u]
  PROVE  Kept(u)
<1>1. /\ shares[u] \in Nat /\ shares'[u] \in Nat
      /\ index \in Nat \ {0} /\ index' \in Nat \ {0}
  BY Addresses DEF TypeOK, LpTypeOK
<1>2. ValueOf(shares[u], index) <= ValueOf(shares'[u], index')
  <2> DEFINE s == shares[u]
             t == shares'[u]
             i == index
             j == index'
  <2>1. s \in Nat /\ t \in Nat /\ i \in Nat \ {0} /\ j \in Nat \ {0} /\ s <= t /\ i <= j
    BY <1>1
  <2> HIDE DEF s, t, i, j
  <2>2. ValueOf(s, i) <= ValueOf(t, j)
    BY <2>1, ValueGrows
  <2> QED BY <2>2 DEF s, t, i, j
<1>3. Balance(u) <= Balance(u)'
  BY <1>2 DEF Balance
<1>4. Balance(u) \in Nat /\ Balance(u)' \in Nat
  <2>1. Balance(u) \in Nat
    BY <1>1, ValueRoundsDown DEF Balance
  <2>2. ValueOf(shares'[u], index') \in Nat
    <3> DEFINE t == shares'[u]
               j == index'
    <3>1. t \in Nat /\ j \in Nat \ {0}
      BY <1>1
    <3> HIDE DEF t, j
    <3>2. ValueOf(t, j) \in Nat
      BY <3>1, ValueRoundsDown
    <3> QED BY <3>2 DEF t, j
  <2> QED BY <2>1, <2>2 DEF Balance
<1> QED BY <1>3, <1>4 DEF Kept

(* A call that takes an available amount leaves what is locked.            *)
LEMMA AvailableTaken ==
  ASSUME TypeOK, TypeOK', NEW u \in Users, NEW n \in Nat,
         bills' = bills, userBills' = userBills, now' = now, index' = index,
         n <= Available(u, Locked[u]), AmountToShares(n) <= shares[u],
         shares'[u] = shares[u] - AmountToShares(n)
  PROVE  Kept(u)
<1> SUFFICES ASSUME bnplCore = Core, Balance(u)' < Balance(u)
             PROVE  Balance(u)' >= RequiredCollateral(u)'
  BY DEF Kept
<1>1. Locked[u] = RequiredCollateral(u) /\ RequiredCollateral(u) \in Nat
  BY DebtNat DEF Locked, LockedBalance
<1>2. RequiredCollateral(u)' = RequiredCollateral(u)
  BY CollateralKept
<1>3. Balance(u)' >= RequiredCollateral(u)
  BY <1>1, AvailableLeavesLocked
<1> QED BY <1>2, <1>3

(* A burn or a withdrawal of one holder, from its own side and others'.    *)
LEMMA BurnKeeps ==
  ASSUME TypeOK, TypeOK', NEW u \in Users, NEW n \in Nat, NEW w \in Users,
         bills' = bills, userBills' = userBills, now' = now, index' = index,
         n <= Available(u, Locked[u]), CanBurnShares(u, AmountToShares(n)),
         BurnShares(u, AmountToShares(n))
  PROVE  Kept(w)
<1>1. /\ shares \in [Accounts -> Nat] /\ u \in Accounts /\ w \in Accounts
      /\ index \in Nat /\ shares[w] \in Nat
  BY Addresses DEF TypeOK, LpTypeOK
<1>2. /\ AmountToShares(n) <= shares[u]
      /\ shares' = [shares EXCEPT ![u] = shares[u] - AmountToShares(n)]
  BY <1>1 DEF CanBurnShares, BurnShares
<1>3. CASE w = u
  <2>1. shares'[u] = shares[u] - AmountToShares(n)
    BY <1>1, <1>2
  <2> QED BY <2>1, <1>2, <1>3, AvailableTaken
<1>4. CASE w # u
  <2>1. shares'[w] = shares[w]
    BY <1>1, <1>2, <1>4
  <2> QED BY <2>1, <1>1, NothingTaken
<1> QED BY <1>3, <1>4

(* A transfer of shares; one to oneself only adds.                         *)
LEMMA TransferKeeps ==
  ASSUME TypeOK, TypeOK', NEW u \in Users, NEW to \in Users, NEW n \in Nat,
         NEW w \in Users,
         bills' = bills, userBills' = userBills, now' = now, index' = index,
         DoTransfer(u, to, n, Locked[u])
  PROVE  Kept(w)
<1> DEFINE sh == AmountToShares(n)
<1>1. /\ shares \in [Accounts -> Nat] /\ u \in Accounts /\ w \in Accounts
      /\ to \in Accounts /\ index \in Nat \ {0} /\ shares[w] \in Nat /\ sh \in Nat
  BY Addresses, ConversionsNat DEF TypeOK, LpTypeOK, AmountToShares
<1>2. /\ n <= Available(u, Locked[u]) /\ sh <= shares[u]
      /\ shares' = [shares EXCEPT ![u] = shares[u] - sh, ![to] = shares[to] + sh]
  BY <1>1 DEF DoTransfer, Moved
<1>3. CASE w = u /\ u # to
  <2>1. shares'[u] = shares[u] - sh
    <3> HIDE DEF sh
    <3> QED BY <1>1, <1>2, <1>3
  <2> QED BY <2>1, <1>2, <1>3, AvailableTaken
<1>4. CASE w = to
  <2>1. shares'[w] = shares[w] + sh
    <3> HIDE DEF sh
    <3> QED BY <1>1, <1>2, <1>4
  <2>2. shares'[w] >= shares[w]
    <3> HIDE DEF sh
    <3> QED BY <2>1, <1>1
  <2> QED BY <2>2, <1>1, NothingTaken
<1>5. CASE w # u /\ w # to
  <2>1. shares'[w] = shares[w]
    <3> HIDE DEF sh
    <3> QED BY <1>1, <1>2, <1>5
  <2> QED BY <2>1, <1>1, NothingTaken
<1> QED BY <1>3, <1>4, <1>5

(* Every call to the pool but initialize leaves what is locked.            *)
LEMMA LpCallKeeps ==
  ASSUME TypeOK, TypeOK', index' >= index, LpCall(Locked), ~ Restarted,
         UNCHANGED coreVars, NEW w \in Users
  PROVE  Kept(w)
<1>0. /\ shares \in [Accounts -> Nat] /\ w \in Accounts /\ Users \subseteq Accounts
      /\ index \in Nat \ {0} /\ index' \in Nat \ {0}
  BY Addresses DEF TypeOK, LpTypeOK
<1>a. bills' = bills /\ userBills' = userBills
  BY DEF coreVars
<1>n. \A n \in Nat : /\ AmountToShares(n) \in Nat
                     /\ SharesFor(n, index') \in Nat
  <2> DEFINE j == index'
  <2>1. j \in Nat \ {0}
    BY <1>0
  <2> HIDE DEF j
  <2>2. \A n \in Nat : SharesFor(n, j) \in Nat
    BY <2>1, ConversionsNat
  <2> QED BY <2>2, <1>0, ConversionsNat DEF j, AmountToShares
<1>b. ASSUME shares'[w] >= shares[w]
      PROVE  Kept(w)
  BY <1>b, NothingTaken
<1>c. ASSUME NEW u \in Users, NEW sh \in Nat, MintShares(u, sh)
      PROVE  Kept(w)
  <2>1. shares[w] \in Nat /\ shares' = [shares EXCEPT ![u] = shares[u] + sh]
    BY <1>0, <1>c DEF MintShares
  <2>2. shares'[w] = shares[w] \/ shares'[w] = shares[w] + sh
    BY <2>1, <1>0
  <2> QED BY <2>1, <2>2, <1>b
<1>d. ASSUME shares' = shares
      PROVE  Kept(w)
  BY <1>d, <1>0, <1>b
<1>1. ASSUME UpdateIndex
      PROVE  Kept(w)
  BY <1>1, <1>d DEF UpdateIndex
<1>2. ASSUME NEW u \in Users, NEW a \in DepositAmounts, Deposit(u, a)
      PROVE  Kept(w)
  <2>1. MintShares(u, SharesFor(a, index')) /\ a \in Nat
    BY <1>2, LpAssumption DEF Deposit
  <2> QED BY <2>1, <1>n, <1>c
<1>3. ASSUME NEW u \in Users, NEW a \in WithdrawAmounts, Withdraw(u, a, Locked[u])
      PROVE  Kept(w)
  BY <1>3, <1>a, BurnKeeps, LpAssumption DEF Withdraw
<1>4. ASSUME NEW u \in Users, NEW a \in MintAmounts, LpMint(u, a)
      PROVE  Kept(w)
  <2>1. MintShares(u, AmountToShares(a)) /\ a \in Nat
    BY <1>4, LpAssumption DEF LpMint
  <2> QED BY <2>1, <1>n, <1>c
<1>5. ASSUME NEW u \in Users, NEW a \in DonationAmounts, Donate(u, a)
      PROVE  Kept(w)
  BY <1>5, <1>d DEF Donate, lpVars
<1>6. ASSUME NEW u \in Users, NEW a \in TransferAmounts, LpBurn(u, a, Locked[u])
      PROVE  Kept(w)
  BY <1>6, <1>a, BurnKeeps, LpAssumption DEF LpBurn, DoBurn, usdcVars
<1>7. ASSUME NEW u \in Users, NEW to \in Users, NEW a \in TransferAmounts,
             LpTransfer(u, to, a, Locked[u])
      PROVE  Kept(w)
  BY <1>7, <1>a, TransferKeeps, LpAssumption DEF LpTransfer, usdcVars, poolVars
<1>8. ASSUME NEW u \in Users, NEW to \in Users, NEW a \in LpApproveAmounts,
             LpApprove(u, to, a)
      PROVE  Kept(w)
  BY <1>8, <1>d DEF LpApprove
<1>9. ASSUME NEW u \in Users, NEW to \in Users, NEW a \in TransferAmounts,
             LpBurnFrom(to, u, a, Locked[u])
      PROVE  Kept(w)
  BY <1>9, <1>a, BurnKeeps, LpAssumption DEF LpBurnFrom, DoBurn, usdcVars
<1>10. ASSUME NEW s \in Users, NEW u \in Users, NEW to \in Users,
              NEW a \in TransferAmounts, LpTransferFrom(s, u, to, a, Locked[u])
       PROVE  Kept(w)
  BY <1>10, <1>a, TransferKeeps, LpAssumption DEF LpTransferFrom, usdcVars, poolVars
<1> QED BY <1>1, <1>2, <1>3, <1>4, <1>5, <1>6, <1>7, <1>8, <1>9, <1>10
    DEF LpCall, Restarted

(* A liquidation takes shares from the borrower of the bill alone.         *)
LEMMA LiquidateKeeps ==
  ASSUME BooksInv, TypeOK', index' >= index,
         NEW b \in BillIds, NEW l \in Users, LiquidateBill(b, l), NEW w \in Users
  PROVE  Kept(w)
<1>1. /\ TypeOK /\ bills[b].status = "Paid" /\ w \in Accounts
      /\ shares \in [Accounts -> Nat]
  BY Addresses DEF BooksInv, StatusReached, LiquidateBill, CanLiquidate, TypeOK, LpTypeOK
<1>2. bills \in [BillIds -> Bill \cup {NoBill}] /\ bills[b] \in Bill
  BY <1>1, BillTyped DEF TypeOK, CoreTypeOK
<1>3. CASE w = bills[b].user
  <2>1. bills'[b].status = "Liquidated"
    BY <1>2 DEF LiquidateBill, Settled, Bill
  <2> QED BY <2>1, <1>1, <1>3 DEF Kept, LiquidatedNow
<1>4. CASE w # bills[b].user
  <2>1. shares'[w] = shares[w] /\ shares[w] \in Nat
    BY <1>1, <1>4 DEF LiquidateBill, BurnShares
  <2> QED BY <2>1, <1>1, NothingTaken
<1> QED BY <1>3, <1>4

(* Every other step of the protocol leaves the collateral locked.          *)
LEMMA StepKeeps ==
  ASSUME BooksInv, [Next]_vars, ~ Restarted, NEW w \in Users
  PROVE  Kept(w)
<1>1. TypeOK /\ TypeOK' /\ index' >= index /\ shares[w] \in Nat
  BY StepTypes, Addresses DEF BooksInv, TypeOK, LpTypeOK
<1>2. ASSUME shares' = shares
      PROVE  Kept(w)
  <2>1. shares'[w] >= shares[w]
    BY <1>1, <1>2
  <2> QED BY <2>1, <1>1, NothingTaken
<1>3. CASE CoreCall
  BY <1>1, <1>2, <1>3, LiquidateKeeps
  DEF CoreCall, SetBnplCore, EnrollMerchant, UpdateMerchantStatus, CreateBill,
      PayBill, RepayBill, ApproveCore, lpVars
<1>4. CASE LpCall(Locked) /\ UNCHANGED coreVars
  BY <1>1, <1>4, LpCallKeeps
<1>5. CASE LedgerClose /\ UNCHANGED <<coreVars, lpVars>>
  BY <1>2, <1>5 DEF lpVars
<1>6. CASE UNCHANGED vars
  BY <1>2, <1>6 DEF vars, lpVars
<1> QED BY <1>3, <1>4, <1>5, <1>6 DEF Next

(* Locked collateral stays: in every order of deposits, transfers, burns,  *)
(* withdrawals and loans, and for every amount, index and ratio, a step    *)
(* that lowers a user's balance, other than a repeated initialize of the   *)
(* pool, leaves what the core requires of it.                              *)
THEOREM CollateralAlwaysStays == Spec => CollateralStaysLocked
<1>1. BooksInv /\ [Next]_vars => [Restarted \/ \A u \in Users : Kept(u)]_vars
  BY StepKeeps
<1>2. Spec => [][Restarted \/ \A u \in Users : Kept(u)]_vars
  BY <1>1, BooksInvariant, PTL DEF Spec
<1>3. [Restarted \/ \A u \in Users : Kept(u)]_vars =>
        [bnplCore = Core /\ (\A a \in Underlyings : ~ LpInitialize(a)) =>
           \A u \in Users :
             Balance(u)' < Balance(u) /\ ~LiquidatedNow(u) =>
               Balance(u)' >= RequiredCollateral(u)']_vars
  BY DEF Kept, Restarted
<1> QED BY <1>2, <1>3, PTL DEF CollateralStaysLocked

-----------------------------------------------------------------------------
(* Paying a bill.                                                          *)

(* A payment adds the principal, and no interest yet, to what the user     *)
(* owes.                                                                   *)
LEMMA PayBillDebt ==
  ASSUME BooksInv, NEW b \in BillIds, PayBill(b), NEW u \in Users, bills[b].user = u
  PROVE  TotalDebt(u)' = TotalDebt(u) + bills[b].principal
<1> DEFINE p == bills[b].principal
           list == userBills[u]
           N == Len(list)
           f == [i \in 1 .. N |-> DebtOf(list[i])]
           list2 == Append(list, b)
           Debt2(c) == IF bills'[c].status = "Paid"
                       THEN bills'[c].principal + LateFee(now', bills'[c].paid_at, bills'[c].principal)
                       ELSE 0
           g == [i \in 1 .. N + 1 |-> Debt2(list2[i])]
<1>1. /\ TypeOK /\ bills[b].status = "Created" /\ p \in Nat
      /\ list \in Seq(BillIds) /\ N \in Nat /\ now \in Nat /\ now' = now
  <2>1. bills[b].status = "Created" /\ TypeOK /\ now' = now
    BY DEF PayBill, BooksInv
  <2>2. p \in Nat
    BY <2>1, BillTyped
  <2>3. list \in Seq(BillIds) /\ now \in Nat
    BY <2>1 DEF TypeOK, CoreTypeOK, UsdcTypeOK
  <2> QED BY <2>1, <2>2, <2>3
<1>2. /\ bills'[b].status = "Paid" /\ bills'[b].principal = p /\ bills'[b].paid_at = now
      /\ \A c \in BillIds \ {b} : bills'[c] = bills[c]
  <2>1. bills[b] \in Bill /\ bills \in [BillIds -> Bill \cup {NoBill}]
    BY <1>1, BillTyped DEF TypeOK, CoreTypeOK
  <2> QED BY <2>1 DEF PayBill, Bill
<1>3. userBills'[u] = list2
  BY <1>1 DEF PayBill, TypeOK, CoreTypeOK
<1>4. Debt2(b) = p
  <2>1. GracePeriodDays * Day \in Nat
    BY TermsAssumption
  <2>2. now <= now + GracePeriodDays * Day
    BY <2>1, <1>1
  <2>3. LateFee(now, now, p) = 0
    BY <2>2 DEF LateFee
  <2> QED BY <2>3, <1>1, <1>2
<1>5. \A i \in 1 .. N : list[i] \in BillIds /\ list[i] # b
  <2>1. Range(list) = OpenLoans(u)
    BY DEF BooksInv, UserBillsExact, OpenLoans
  <2>2. b \notin OpenLoans(u)
    BY <1>1 DEF OpenLoans
  <2>3. \A i \in 1 .. N : list[i] \in Range(list)
    BY <1>1 DEF Range
  <2> QED BY <2>1, <2>2, <2>3, <1>1
<1>6. \A c \in BillIds \ {b} : Debt2(c) = DebtOf(c)
  BY <1>1, <1>2 DEF DebtOf, Interest
<1>7. \A c \in BillIds : DebtOf(c) \in Nat
  BY <1>1, DebtNat
<1>8. TotalDebt(u) = Total(f, N)
  BY DEF TotalDebt
<1>9. TotalDebt(u)' = Total(g, N + 1)
  <2>1. Len(userBills'[u]) = N + 1
    BY <1>1, <1>3
  <2>2. [i \in 1 .. Len(userBills'[u]) |-> Debt2(userBills'[u][i])] = g
    BY <2>1, <1>3
  <2>3. TotalDebt(u)' = Total([i \in 1 .. Len(userBills'[u]) |-> Debt2(userBills'[u][i])],
                              Len(userBills'[u]))
    BY DEF TotalDebt, DebtOf, Interest
  <2> HIDE DEF g, N
  <2> QED BY <2>1, <2>2, <2>3
<1> HIDE DEF Debt2
<1>10. list2 \in Seq(BillIds) /\ list2[N + 1] = b /\ \A i \in 1 .. N : list2[i] = list[i]
  BY <1>1
<1>11. /\ f \in [1 .. N -> Int] /\ g \in [1 .. N + 1 -> Int]
       /\ \A i \in 1 .. N : g[i] = f[i]
       /\ g[N + 1] = p
  <2>1. \A i \in 1 .. N : f[i] = DebtOf(list[i]) /\ f[i] \in Int
    BY <1>5, <1>7
  <2>2. \A i \in 1 .. N : g[i] = f[i]
    BY <2>1, <1>1, <1>5, <1>6, <1>10
  <2>3. g[N + 1] = p
    BY <1>1, <1>4, <1>10
  <2>4. \A i \in 1 .. N + 1 : g[i] \in Int
    <3>1. \A i \in 1 .. N + 1 : i \in 1 .. N \/ i = N + 1
      BY <1>1
    <3> HIDE DEF g, f
    <3> QED BY <3>1, <2>1, <2>2, <2>3, <1>1
  <2> QED BY <2>1, <2>2, <2>3, <2>4
<1> HIDE DEF f, g, N, p
<1>12. Total(g, N + 1) = Total(f, N) + g[N + 1]
  BY <1>1, <1>11, TotalAppend
<1> QED BY <1>8, <1>9, <1>11, <1>12 DEF p

(* The payment of a bill leaves its user with the collateral asked for.    *)
LEMMA PayBillCollateral ==
  ASSUME BooksInv, NEW b \in BillIds, PayBill(b), NEW u \in Users, bills[b].user = u
  PROVE  Balance(u)' >= RequiredCollateral(u)'
<1> DEFINE p == bills[b].principal
           B == Balance(u)
           D == TotalDebt(u)
<1>1. /\ TypeOK /\ TypeOK' /\ index' >= index /\ shares' = shares
      /\ bills[b].status = "Created"
  BY PayBillTypes DEF BooksInv, PayBill
<1>2. /\ shares[u] \in Nat /\ index \in Nat \ {0} /\ index' \in Nat \ {0}
      /\ p \in Nat /\ D \in Nat
  BY <1>1, Addresses, BillTyped, DebtNat DEF TypeOK, LpTypeOK
<1>3. B \in Nat
  BY <1>2, ValueRoundsDown DEF Balance
<1>4. p > 0 /\ AvailableBorrowing(u) >= p
  BY DEF PayBill, CanMove
<1>5. D + p <= MaxBorrowing(B)
  <2>1. MaxBorrowing(B) \in Nat
    BY <1>3 DEF MaxBorrowing
  <2> HIDE DEF p, B, D
  <2> QED BY <2>1, <1>2, <1>4 DEF AvailableBorrowing, B, D
<1>6. TotalDebt(u)' = D + p
  BY PayBillDebt
<1>7. RequiredCollateral(u)' = CollateralFor(D + p)
  BY <1>6 DEF RequiredCollateral
<1>8. CollateralFor(D + p) <= B
  <2> HIDE DEF p, B, D
  <2> QED BY <1>2, <1>3, <1>5, CollateralWithinBalance
<1>9. CollateralFor(D + p) \in Nat
  <2>1. (D + p) * CollateralRatio \in Nat /\ Scale \in Nat \ {0}
    BY <1>2, TermsAssumption
  <2> QED BY <2>1 DEF CollateralFor
<1>10. B <= Balance(u)' /\ Balance(u)' \in Nat
  <2> DEFINE j == index'
  <2>1. j \in Nat \ {0} /\ index <= j
    BY <1>1, <1>2
  <2>2. Balance(u)' = ValueOf(shares[u], j)
    BY <1>1 DEF Balance
  <2> HIDE DEF j
  <2>3. ValueOf(shares[u], index) <= ValueOf(shares[u], j) /\ ValueOf(shares[u], j) \in Nat
    <3>1. shares[u] <= shares[u]
      BY <1>2
    <3>2. ValueOf(shares[u], index) <= ValueOf(shares[u], j)
      BY <3>1, <2>1, <1>2, ValueGrows
    <3> QED BY <3>2, <2>1, <1>2, ValueRoundsDown
  <2> QED BY <2>2, <2>3 DEF Balance
<1> HIDE DEF p, B, D
<1> QED BY <1>3, <1>7, <1>8, <1>9, <1>10

(* Whichever bill a step pays, its user then has the collateral required.  *)
PaidCovered ==
  \A b \in BillIds :
    bills[b].status = "Created" /\ bills'[b].status = "Paid" =>
      Balance(bills[b].user)' >= RequiredCollateral(bills[b].user)'

(* Paying with borrowed money always leaves the user with the collateral   *)
(* the protocol asks for, whatever else it owes: 111 percent of at most 90 *)
(* percent of the balance, both rounded down.                              *)
THEOREM AlwaysPaidWithCollateral == Spec => PaidWithCollateral
<1>1. ASSUME BooksInv, [Next]_vars, NEW b \in BillIds,
             bills[b].status = "Created", bills'[b].status = "Paid",
             NEW u \in Users, bills[b].user = u
      PROVE  Balance(u)' >= RequiredCollateral(u)' /\ bills'[b].user = u
  <2>1. bills \in [BillIds -> Bill \cup {NoBill}] /\ bills'[b] # bills[b]
    BY <1>1 DEF BooksInv, TypeOK, CoreTypeOK
  <2>2. ASSUME NEW c \in BillIds, NEW s \in {"Repaid", "Liquidated"}, Settled(c, s)
        PROVE  FALSE
    <3>1. bills'[c].status = s \/ c # b
      BY <2>1, <2>2, <1>1 DEF Settled, Bill, NoBill
    <3>2. bills'[b] = bills[b] \/ bills'[b].status = s
      <4>1. CASE c # b
        BY <4>1, <2>1, <2>2 DEF Settled
      <4> QED BY <4>1, <3>1
    <3> QED BY <3>2, <1>1
  <2>3. ASSUME NEW c \in BillIds, PayBill(c)
        PROVE  c = b
    <3>1. c # b => bills'[b] = bills[b]
      BY <2>1, <2>3 DEF PayBill
    <3> QED BY <3>1, <2>1
  <2>4. ASSUME NEW c \in BillIds, PayBill(c)
        PROVE  Balance(u)' >= RequiredCollateral(u)' /\ bills'[b].user = u
    <3>1. PayBill(b) /\ bills[b] \in Bill
      BY <2>1, <2>3, <2>4, <1>1 DEF NoBill
    <3>2. bills'[b].user = u
      BY <3>1, <2>1, <1>1 DEF PayBill, Bill
    <3> QED BY <3>1, <3>2, <1>1, PayBillCollateral
  <2>5. ASSUME NEW m \in Merchants, NEW v \in Borrowers, NEW a \in Principals,
               NEW o \in Orders, CreateBill(m, v, a, o)
        PROVE  FALSE
    <3>1. bills'[b] = bills[b] \/ bills'[b].status = "Created"
      BY <2>1, <2>5 DEF CreateBill
    <3> QED BY <3>1, <2>1, <1>1
  <2>6. bills' # bills
    BY <2>1
  <2>7. CASE CoreCall
    BY <2>2, <2>4, <2>5, <2>6, <2>7
    DEF CoreCall, SetBnplCore, EnrollMerchant, UpdateMerchantStatus, ApproveCore,
        RepayBill, LiquidateBill, coreVars
  <2> QED BY <2>6, <2>7, <1>1 DEF Next, vars, coreVars
<1>2. BooksInv /\ [Next]_vars => PaidCovered
  <2> SUFFICES ASSUME BooksInv, [Next]_vars, NEW b \in BillIds,
                      bills[b].status = "Created", bills'[b].status = "Paid"
               PROVE  Balance(bills[b].user)' >= RequiredCollateral(bills[b].user)'
    BY DEF PaidCovered
  <2>1. bills[b].user \in Users
    <3>1. TypeOK /\ bills[b].status # "None"
      BY DEF BooksInv
    <3> QED BY <3>1, BillTyped
  <2> QED BY <2>1, <1>1
<1>3. Spec => [][PaidCovered]_vars
  BY <1>2, BooksInvariant, PTL DEF Spec
<1> QED BY <1>3 DEF PaidWithCollateral, PaidCovered

-----------------------------------------------------------------------------
(* How a bill moves in one step: it is created, paid, repaid or            *)
(* liquidated, or left alone.                                              *)

(* Settling a paid bill changes that bill's status and no other bill.      *)
LEMMA SettledBill ==
  ASSUME TypeOK, NEW c \in BillIds, bills[c].status = "Paid", NEW s, Settled(c, s),
         NEW b \in BillIds
  PROVE  \/ bills'[b] = bills[b]
         \/ b = c /\ bills'[b] = [bills[b] EXCEPT !.status = s]
<1>1. bills \in [BillIds -> Bill \cup {NoBill}]
  BY DEF TypeOK, CoreTypeOK
<1> QED BY <1>1 DEF Settled

BillCreated(b) ==
  bills[b].status = "None" /\ bills'[b].status = "Created" /\ bills'[b].principal > 0
BillPaid(b) ==
  PayBill(b) /\ bills'[b] = [bills[b] EXCEPT !.status = "Paid", !.paid_at = now]
BillRepaid(b) ==
  /\ RepayBill(b) /\ bills[b].status = "Paid"
  /\ bills'[b] = [bills[b] EXCEPT !.status = "Repaid"]
BillLiquidated(b) ==
  /\ \E l \in Users : LiquidateBill(b, l)
  /\ bills[b].status = "Paid"
  /\ bills'[b] = [bills[b] EXCEPT !.status = "Liquidated"]

LEMMA BillStep ==
  ASSUME BooksInv, [Next]_vars, NEW b \in BillIds
  PROVE  \/ bills'[b] = bills[b]
         \/ BillCreated(b) \/ BillPaid(b) \/ BillRepaid(b) \/ BillLiquidated(b)
<1>1. bills \in [BillIds -> Bill \cup {NoBill}] /\ TypeOK
  BY DEF BooksInv, TypeOK, CoreTypeOK
<1>2. CASE bills' = bills
  BY <1>2
<1>3. ASSUME NEW c \in BillIds, RepayBill(c)
      PROVE  bills'[b] = bills[b] \/ BillRepaid(b)
  <2>1. bills[c].status = "Paid" /\ Settled(c, "Repaid")
    BY <1>3 DEF RepayBill, CanRepay
  <2>2. CASE b = c
    BY <1>1, <1>3, <2>1, <2>2, SettledBill DEF BillRepaid
  <2>3. CASE b # c
    BY <1>1, <2>1, <2>3, SettledBill
  <2> QED BY <2>2, <2>3
<1>4. ASSUME NEW c \in BillIds, NEW l \in Users, LiquidateBill(c, l)
      PROVE  bills'[b] = bills[b] \/ BillLiquidated(b)
  <2>1. bills[c].status = "Paid" /\ Settled(c, "Liquidated")
    BY <1>4 DEF LiquidateBill, CanLiquidate, BooksInv, StatusReached
  <2>2. CASE b = c
    BY <1>1, <1>4, <2>1, <2>2, SettledBill DEF BillLiquidated
  <2>3. CASE b # c
    BY <1>1, <2>1, <2>3, SettledBill
  <2> QED BY <2>2, <2>3
<1>5. ASSUME NEW c \in BillIds, PayBill(c)
      PROVE  bills'[b] = bills[b] \/ BillPaid(b)
  <2>1. CASE b = c
    BY <1>1, <1>5, <2>1 DEF PayBill, BillPaid
  <2>2. CASE b # c
    BY <1>1, <1>5, <2>2 DEF PayBill
  <2> QED BY <2>1, <2>2
<1>6. ASSUME NEW m \in Merchants, NEW u \in Borrowers, NEW p \in Principals,
             NEW o \in Orders, CreateBill(m, u, p, o)
      PROVE  bills'[b] = bills[b] \/ BillCreated(b)
  <2>1. CASE b = billCounter
    <3>1. bills[b] = NoBill
      BY <2>1, CoreAssumption DEF BooksInv, BillsInOrder, BillIds
    <3> QED BY <1>1, <1>6, <2>1, <3>1 DEF CreateBill, BillCreated, NoBill
  <2>2. CASE b # billCounter
    BY <1>1, <1>6, <2>2 DEF CreateBill
  <2> QED BY <2>1, <2>2
<1>7. CASE CoreCall
  BY <1>2, <1>3, <1>4, <1>5, <1>6, <1>7
  DEF CoreCall, SetBnplCore, EnrollMerchant, UpdateMerchantStatus, ApproveCore, coreVars
<1> QED BY <1>2, <1>7 DEF Next, vars, coreVars

(* The pool keeps the core it was given, and time does not run back.       *)
LEMMA CoreAndTime ==
  ASSUME TypeOK, [Next]_vars
  PROVE  (bnplCore = Core => bnplCore' = Core) /\ now <= now'
<1>1. now \in Nat
  BY DEF TypeOK, UsdcTypeOK
<1>2. ASSUME now' = now, bnplCore' = Core \/ bnplCore' = bnplCore
      PROVE  (bnplCore = Core => bnplCore' = Core) /\ now <= now'
  BY <1>1, <1>2
<1>3. CASE CoreCall
  <2>1. now' = now
    BY <1>3
    DEF CoreCall, SetBnplCore, EnrollMerchant, UpdateMerchantStatus, CreateBill,
        PayBill, RepayBill, LiquidateBill, ApproveCore, UsdcApprove, usdcVars
  <2>2. bnplCore' = Core \/ bnplCore' = bnplCore
    BY <1>3
    DEF CoreCall, SetBnplCore, EnrollMerchant, UpdateMerchantStatus, CreateBill,
        PayBill, RepayBill, LiquidateBill, ApproveCore, coreVars
  <2> QED BY <2>1, <2>2, <1>2
<1>4. CASE LpCall(Locked) /\ UNCHANGED coreVars
  <2>1. now' = now
    BY <1>4
    DEF LpCall, UpdateIndex, Deposit, Withdraw, LpMint, Donate, UsdcTransfer, LpBurn,
        LpTransfer, LpApprove, LpBurnFrom, LpTransferFrom, LpInitialize, usdcVars
  <2> QED BY <2>1, <1>2, <1>4 DEF coreVars
<1>5. CASE LedgerClose /\ UNCHANGED <<coreVars, lpVars>>
  BY <1>1, <1>5, UsdcAssumption DEF LedgerClose, coreVars
<1>6. CASE UNCHANGED vars
  BY <1>2, <1>6 DEF vars, coreVars, usdcVars
<1> QED BY <1>3, <1>4, <1>5, <1>6 DEF Next

(* No bill is for nothing, and none is paid before the pool knows its      *)
(* core: what repayment and liquidation ask of a bill besides its status.  *)
LoansReal ==
  \A b \in BillIds :
    bills[b].status # "None" =>
      /\ bills[b].principal > 0
      /\ bills[b].status # "Created" => bnplCore = Core

LEMMA StepLoansReal ==
  ASSUME BooksInv, LoansReal, [Next]_vars
  PROVE  LoansReal'
<1> SUFFICES ASSUME NEW b \in BillIds, bills'[b].status # "None"
             PROVE  /\ bills'[b].principal > 0
                    /\ bills'[b].status # "Created" => bnplCore' = Core
  BY DEF LoansReal
<1>1. bnplCore = Core => bnplCore' = Core
  BY CoreAndTime DEF BooksInv
<1>2. bills[b].status # "None" => bills[b] \in Bill
  BY BillTyped DEF BooksInv
<1>3. CASE bills'[b] = bills[b]
  BY <1>1, <1>3 DEF LoansReal
<1>4. CASE BillCreated(b)
  BY <1>4 DEF BillCreated
<1>5. CASE BillPaid(b)
  <2>1. bills[b].status = "Created" /\ bnplCore = Core
    BY <1>5 DEF BillPaid, PayBill
  <2> QED BY <1>1, <1>2, <1>5, <2>1 DEF BillPaid, LoansReal, Bill
<1>6. CASE BillRepaid(b) \/ BillLiquidated(b)
  BY <1>1, <1>2, <1>6 DEF BillRepaid, BillLiquidated, LoansReal, Bill
<1> QED BY <1>3, <1>4, <1>5, <1>6, BillStep

LEMMA LoansRealInvariant == Spec => []LoansReal
<1>1. Init => LoansReal
  BY DEF Init, CoreInit, LoansReal, NoBill
<1> QED BY <1>1, StepLoansReal, BooksInvariant, PTL DEF Spec

-----------------------------------------------------------------------------
(* Repayment.                                                              *)

(* Of what the core takes for a repayment, the principal goes back and the *)
(* late fee is left to distribute.                                         *)
LEMMA RepaymentCovered ==
  ASSUME BooksInv, LoansReal, ~ reset, NEW b \in BillIds, bills[b].status = "Paid",
         usdc[bills[b].user] >= RepaymentOf(b),
         usdcAllowance[<<bills[b].user, Core>>] >= RepaymentOf(b)
  PROVE  CanRepay(b)
<1> DEFINE u == bills[b].user
           p == bills[b].principal
           late == LateFeeOf(b)
           owed == RepaymentOf(b)
           usdc1 == RepaymentTaken(b)
           usdc2 == PrincipalReturned(b)
<1>1. /\ u \in Accounts /\ u # Core /\ p \in Nat /\ p > 0 /\ bnplCore = Core
      /\ late \in Nat /\ owed = p + late
      /\ usdc \in [Accounts -> Nat] /\ usdcAllowance \in [Pairs -> Int]
  <2>1. bills[b].status # "None" /\ bills[b].status # "Created" /\ TypeOK
    BY DEF BooksInv
  <2>2. p > 0 /\ bnplCore = Core
    BY <2>1 DEF LoansReal
  <2> QED BY <2>1, <2>2, BillTyped, CostsNat, Addresses DEF TypeOK, UsdcTypeOK
<1>2. Returned(b) = p
  BY PrincipalIsLent DEF Returned, BooksInv, TypeOK, LpTypeOK
<1>3. usdc[u] >= owed /\ usdcAllowance[<<u, Core>>] >= owed
  OBVIOUS
<1>4. usdc1 = Moved(usdc, u, Core, owed) /\ usdc2 = Moved(usdc1, Core, Pool, p)
  BY <1>2 DEF RepaymentTaken, PrincipalReturned
<1>5. CoreAllowances(b)[<<Core, Pool>>] = owed
  BY <1>1, Addresses DEF CoreAllowances, Spent, Pairs
<1> HIDE DEF u, p, late, owed, usdc1, usdc2
<1>6. owed \in Nat /\ owed > 0 /\ owed >= p
  BY <1>1
<1>7. usdc1 \in [Accounts -> Nat] /\ usdc1[Core] = usdc[Core] + owed
  BY <1>1, <1>3, <1>4, <1>6, Addresses, MovedBetween
<1>8. usdc[Core] \in Nat /\ usdc1[Core] >= p
  BY <1>1, <1>6, <1>7, Addresses
<1>9. usdc2[Core] = usdc1[Core] - p
  BY <1>1, <1>4, <1>7, <1>8, Addresses, MovedBetween
<1>10. usdc2[Core] >= FeeParts(late)
  <2>1. FeeParts(late) \in Nat /\ FeeParts(late) <= late
    BY <1>1, FeePartsDust, FeePartsBounded
  <2> QED BY <2>1, <1>1, <1>7, <1>8, <1>9
<1>11. CanSpend(usdcAllowance, u, Core, owed) /\ CanMove(usdc, u, owed)
  BY <1>3, <1>6 DEF CanSpend, CanMove
<1>12. CanSpend(CoreAllowances(b), Core, Pool, p) /\ CanMove(usdc1, Core, p)
  BY <1>1, <1>5, <1>6, <1>8 DEF CanSpend, CanMove
<1>13. CanDistribute(usdc2, late)
  BY <1>10 DEF CanDistribute
<1>14. OnUsdc
  BY DEF BooksInv, OnUsdcUntilReset
<1> QED BY <1>1, <1>2, <1>11, <1>12, <1>13, <1>14
    DEF CanRepay, u, p, late, owed, usdc1, usdc2

(* Whoever holds and has approved what its loan costs can repay it, for    *)
(* every amount, rate and moment: nothing the pool or other users do       *)
(* meanwhile, short of initializing the pool again, stands in the way, and *)
(* the core can always pass on what it takes.                              *)
THEOREM RepaymentAlwaysPossible == Spec => []RepaymentNeverBlocked
<1>1. BooksInv /\ LoansReal => RepaymentNeverBlocked
  BY RepaymentCovered DEF RepaymentNeverBlocked
<1> QED BY <1>1, BooksInvariant, LoansRealInvariant, PTL

-----------------------------------------------------------------------------
(* Liquidation.  That a borrower's balance covers its loans is not         *)
(* inductive: late fees grow while collateral does not.  What is kept is   *)
(* that the balance covers the 111 percent of every open loan, until a     *)
(* loan of the user is liquidated that has outgrown its own 111 percent.   *)

(* What the collateral of an open loan of u comes to, loan by loan.        *)
PledgeFor(b, u) ==
  IF bills[b].status = "Paid" /\ bills[b].user = u
  THEN CollateralFor(bills[b].principal)
  ELSE 0
Pledges(u) == [b \in BillIds |-> PledgeFor(b, u)]
Pledged(u) == Total(Pledges(u), MaxBills)

LoansBacked == ~ reset => \A u \in Users \ strained : Pledged(u) <= Balance(u)

LEMMA PledgesTyped ==
  ASSUME TypeOK, NEW u \in Users
  PROVE  Pledges(u) \in [1 .. MaxBills -> Nat] /\ Pledged(u) \in Nat
<1>1. ASSUME NEW b \in BillIds
      PROVE  PledgeFor(b, u) \in Nat
  <2>1. CASE bills[b].status = "Paid"
    <3>1. bills[b].principal \in Nat
      BY <2>1, BillTyped
    <3> QED BY <3>1, CollateralFloor DEF PledgeFor
  <2> QED BY <2>1 DEF PledgeFor
<1>2. Pledges(u) \in [1 .. MaxBills -> Nat]
  BY <1>1 DEF Pledges, BillIds
<1> QED BY <1>2, TotalCoversEach, CoreAssumption DEF Pledged

(* The collateral the core requires of a user is at least what its loans   *)
(* need one by one: the debt it is asked for includes their principals,    *)
(* and rounding the whole down loses no more than rounding each.           *)
LEMMA PledgedWithinRequired ==
  ASSUME BooksInv, NEW u \in Users
  PROVE  Pledged(u) <= RequiredCollateral(u)
<1> DEFINE N == MaxBills
           S == OpenLoans(u)
           f == [b \in S |-> DebtOf(b)]
           list == userBills[u]
           t == [i \in 1 .. N |-> IF i \in S THEN f[i] ELSE 0]
           d == TotalDebt(u)
           p == Pledged(u)
<1>1. /\ TypeOK /\ N \in Nat /\ S \subseteq 1 .. N /\ list \in Seq(1 .. N)
      /\ Range(list) = S /\ IsInjective(list)
  BY CoreAssumption DEF BooksInv, UserBillsExact, OpenLoans, TypeOK, CoreTypeOK, BillIds
<1>2. \A b \in 1 .. N : DebtOf(b) \in Nat
  BY <1>1, DebtNat DEF BillIds
<1>3. f \in [S -> Int] /\ t \in [1 .. N -> Nat]
  BY <1>1, <1>2
<1>4. SumFunction(f) = d
  <2> DEFINE g == [i \in 1 .. Len(list) |-> f[list[i]]]
  <2>1. SumFunction(f) = Total(g, Len(list))
    <3> HIDE DEF f, list, S, N
    <3> QED BY <1>1, <1>3, SumAlongList
  <2>2. \A i \in 1 .. Len(list) : list[i] \in S
    BY <1>1 DEF Range
  <2>3. g = [i \in 1 .. Len(list) |-> DebtOf(list[i])]
    BY <2>2
  <2>4. d = Total([i \in 1 .. Len(list) |-> DebtOf(list[i])], Len(list))
    BY DEF TotalDebt
  <2> HIDE DEF g, d
  <2> QED BY <2>1, <2>3, <2>4
<1>5. SumFunction(f) = Total(t, N)
  <2>1. N \in Nat /\ S \subseteq 1 .. N /\ f \in [S -> Int]
    BY <1>1, <1>3
  <2> HIDE DEF f, S, N
  <2> QED BY <2>1, SumWithZeros, Zenon
<1>6. Pledges(u) \in [1 .. N -> Nat] /\ p = Total(Pledges(u), N) /\ p \in Nat
  BY <1>1, PledgesTyped DEF Pledged
<1>7. ASSUME NEW b \in 1 .. N
      PROVE  Pledges(u)[b] * Scale <= t[b] * CollateralRatio
  <2>1. CASE b \in S
    <3> DEFINE q == bills[b].principal
    <3>1. /\ bills[b].status = "Paid" /\ bills[b].user = u /\ b \in BillIds
      BY <2>1 DEF OpenLoans
    <3>2. q \in Nat /\ DebtOf(b) \in Nat /\ DebtOf(b) >= q
      <4>1. q \in Nat /\ bills[b].paid_at \in Nat /\ now \in Nat
        BY <1>1, <3>1, BillTyped DEF TypeOK, UsdcTypeOK
      <4>2. Interest(b) \in Nat
        BY <4>1, LateFeeNat DEF Interest
      <4> QED BY <4>1, <4>2, <3>1 DEF DebtOf
    <3>3. Pledges(u)[b] = CollateralFor(q) /\ t[b] = DebtOf(b)
      BY <2>1, <3>1 DEF Pledges, PledgeFor
    <3> HIDE DEF q, t
    <3>4. CollateralFor(q) \in Nat /\ CollateralFor(q) * Scale <= q * CollateralRatio
      BY <3>2, CollateralFloor
    <3>5. q * CollateralRatio <= DebtOf(b) * CollateralRatio
      BY <3>2, Scaled, TermsAssumption
    <3>6. /\ CollateralFor(q) * Scale \in Nat /\ q * CollateralRatio \in Nat
          /\ DebtOf(b) * CollateralRatio \in Nat
      BY <3>2, <3>4, TermsAssumption
    <3> QED BY <3>3, <3>4, <3>5, <3>6
  <2>2. CASE b \notin S
    <3>1. Pledges(u)[b] = 0 /\ t[b] = 0
      BY <2>2 DEF Pledges, PledgeFor, OpenLoans, BillIds
    <3> HIDE DEF t
    <3> QED BY <3>1, TermsAssumption
  <2> QED BY <2>1, <2>2
<1>8. p * Scale <= Total(t, N) * CollateralRatio
  <2> HIDE DEF t, p, N
  <2>1. Scale \in Nat /\ CollateralRatio \in Nat
    BY TermsAssumption
  <2> QED BY <2>1, <1>1, <1>3, <1>6, <1>7, TotalScaled
<1>9. d \in Nat
  BY <1>1, DebtNat
<1>10. p * Scale <= d * CollateralRatio
  BY <1>4, <1>5, <1>8
<1> HIDE DEF p, d
<1>11. p <= CollateralFor(d)
  BY <1>6, <1>9, <1>10, CollateralFloor
<1> QED BY <1>11 DEF RequiredCollateral, p, d

PledgesCovered ==
  \A u \in Users :
    /\ Pledged(u) \in Nat /\ Balance(u) \in Nat /\ RequiredCollateral(u) \in Nat
    /\ Pledges(u) \in [1 .. MaxBills -> Nat]
    /\ Pledged(u) <= RequiredCollateral(u)

LEMMA PledgesAreCovered == BooksInv => PledgesCovered
<1> SUFFICES ASSUME BooksInv, NEW u \in Users
             PROVE  /\ Pledged(u) \in Nat /\ Balance(u) \in Nat
                    /\ RequiredCollateral(u) \in Nat
                    /\ Pledges(u) \in [1 .. MaxBills -> Nat]
                    /\ Pledged(u) <= RequiredCollateral(u)
  BY DEF PledgesCovered
<1>1. TypeOK /\ shares[u] \in Nat /\ index \in Nat \ {0}
  BY Addresses DEF BooksInv, TypeOK, LpTypeOK
<1>2. Balance(u) \in Nat
  BY <1>1, ValueRoundsDown DEF Balance
<1> QED BY <1>1, <1>2, DebtNat, PledgesTyped, PledgedWithinRequired

(* A user stays strained, and the liquidation of a loan outside the margin *)
(* makes its user so.                                                      *)
LEMMA StrainedStays ==
  ASSUME [Next]_vars
  PROVE  strained \subseteq strained'
<1>1. CASE CoreCall
  BY <1>1
  DEF CoreCall, SetBnplCore, EnrollMerchant, UpdateMerchantStatus, CreateBill,
      PayBill, RepayBill, LiquidateBill, ApproveCore, coreVars
<1> QED BY <1>1 DEF Next, vars, coreVars

(* Liquidating a loan frees its pledge and takes no more from the balance  *)
(* than the loan costs.                                                    *)
LEMMA LiquidationTakes ==
  ASSUME BooksInv, TypeOK', index' >= index, NEW b \in BillIds, bills[b].status = "Paid",
         NEW l \in Users, LiquidateBill(b, l), NEW u \in Users, bills[b].user = u
  PROVE  /\ Pledged(u)' = Pledged(u) - CollateralFor(bills[b].principal)
         /\ Balance(u)' >= Balance(u) - LiquidationCost(b)
<1> DEFINE p == bills[b].principal
           cost == LiquidationCost(b)
           sh == AmountToShares(cost)
           s == shares[u]
<1>1. /\ TypeOK /\ p \in Nat /\ cost \in Nat /\ s \in Nat /\ index \in Nat \ {0}
      /\ index' \in Nat \ {0} /\ shares \in [Accounts -> Nat] /\ u \in Accounts
  <2>1. TypeOK /\ bills[b].status # "None"
    BY DEF BooksInv
  <2>2. cost \in Nat
    BY <2>1, CostsNat, BillTyped
  <2> QED BY <2>1, <2>2, BillTyped, Addresses DEF TypeOK, LpTypeOK
<1>2. /\ bills'[b].status = "Liquidated"
      /\ \A c \in BillIds \ {b} : bills'[c] = bills[c]
  <2>1. Settled(b, "Liquidated")
    BY DEF LiquidateBill
  <2>2. bills[b] \in Bill
    BY <1>1, BillTyped
  <2>3. \A c \in BillIds : \/ bills'[c] = bills[c]
                           \/ c = b /\ bills'[c] = [bills[c] EXCEPT !.status = "Liquidated"]
    BY <1>1, <2>1, SettledBill
  <2>4. bills'[b].status = "Liquidated"
    BY <1>1, <2>1, <2>2 DEF Settled, TypeOK, CoreTypeOK, Bill
  <2> QED BY <2>3, <2>4
<1>3. Pledged(u)' = Pledged(u) - CollateralFor(p)
  <2> DEFINE N == MaxBills
             f == Pledges(u)
             h == Pledges(u)'
  <2>1. N \in Nat /\ b \in 1 .. N /\ f \in [1 .. N -> Int]
    BY <1>1, PledgesTyped, CoreAssumption DEF BillIds
  <2>2. f[b] = CollateralFor(p) /\ h[b] = 0
    BY <1>2 DEF Pledges, PledgeFor
  <2>3. \A c \in (1 .. N) \ {b} : h[c] = f[c]
    BY <1>2 DEF Pledges, PledgeFor, BillIds
  <2>4. h \in [1 .. N -> Int]
    <3>1. h = [c \in 1 .. N |-> h[c]]
      BY DEF Pledges, BillIds
    <3>2. \A c \in 1 .. N : h[c] \in Int
      <4> HIDE DEF f, h, N
      <4> QED BY <2>1, <2>2, <2>3
    <3> HIDE DEF h
    <3> QED BY <3>1, <3>2
  <2>5. Pledged(u) = Total(f, N) /\ Pledged(u)' = Total(h, N)
    BY DEF Pledged
  <2>6. CollateralFor(p) \in Nat
    BY <1>1, CollateralFloor
  <2> HIDE DEF f, h, N
  <2>7. Total(f, N) \in Int /\ Total(h, N) = Total(f, N) - f[b] + h[b]
    BY <2>1, <2>3, <2>4, TotalChange
  <2> QED BY <2>2, <2>5, <2>6, <2>7
<1>4. sh \in Nat /\ sh = SharesFor(cost, index) /\ sh <= s /\ shares'[u] = s - sh
  <2>1. CanBurnShares(u, sh) /\ BurnShares(u, sh)
    BY DEF LiquidateBill, CanLiquidate
  <2>2. sh = SharesFor(cost, index)
    BY DEF AmountToShares
  <2>3. sh \in Nat
    <3> HIDE DEF cost, sh
    <3> QED BY <1>1, <2>2, SharesRoundDown
  <2> HIDE DEF sh
  <2> QED BY <1>1, <2>1, <2>2, <2>3 DEF CanBurnShares, BurnShares
<1> DEFINE j == index'
<1>5. /\ Balance(u) = ValueOf(s, index) /\ Balance(u)' = ValueOf(s - sh, j)
  BY <1>4 DEF Balance
<1>6. j \in Nat \ {0} /\ index <= j
  BY <1>1
<1> HIDE DEF p, cost, sh, s, j
<1>7. ValueOf(s, index) - ValueOf(s - sh, index) <= cost
  BY <1>1, <1>4, SharesTakenWorthAtMost
<1>8. /\ s - sh \in Nat /\ ValueOf(s, index) \in Nat /\ ValueOf(s - sh, index) \in Nat
      /\ ValueOf(s - sh, j) \in Nat
  <2>1. s - sh \in Nat
    BY <1>1, <1>4
  <2> DEFINE rest == s - sh
  <2> HIDE DEF rest
  <2>2. ValueOf(rest, index) \in Nat /\ ValueOf(rest, j) \in Nat
    BY <2>1, <1>1, <1>6, ValueRoundsDown DEF rest
  <2> QED BY <2>1, <2>2, <1>1, ValueRoundsDown DEF rest
<1>9. ValueOf(s - sh, index) <= ValueOf(s - sh, j)
  BY <1>1, <1>6, <1>8, ValueGrows
<1>10. Balance(u)' >= Balance(u) - cost
  BY <1>1, <1>5, <1>7, <1>8, <1>9
<1> QED BY <1>3, <1>10 DEF p, cost

(* Without a payment of its own, a user's pledges do not grow.             *)
LEMMA PledgesFall ==
  ASSUME BooksInv, PledgesCovered, PledgesCovered', [Next]_vars, NEW u \in Users,
         ~ \E b \in BillIds : BillPaid(b) /\ bills[b].user = u
  PROVE  Pledged(u)' <= Pledged(u)
<1> DEFINE N == MaxBills
           f == Pledges(u)
           h == Pledges(u)'
<1>1. /\ N \in Nat /\ f \in [1 .. N -> Nat] /\ h \in [1 .. N -> Nat]
      /\ Pledged(u) = Total(f, N) /\ Pledged(u)' = Total(h, N)
      /\ Pledged(u) \in Nat /\ Pledged(u)' \in Nat
  BY CoreAssumption DEF PledgesCovered, Pledged
<1>2. ASSUME NEW b \in BillIds
      PROVE  h[b] = f[b] \/ h[b] = 0
  <2>1. CASE bills'[b] = bills[b]
    BY <2>1 DEF Pledges, PledgeFor
  <2>2. CASE BillCreated(b)
    BY <2>2 DEF BillCreated, Pledges, PledgeFor
  <2>3. CASE BillRepaid(b) \/ BillLiquidated(b)
    <3>1. bills[b] \in Bill
      BY <2>3, BillTyped DEF BooksInv, BillRepaid, BillLiquidated
    <3>2. bills'[b].status # "Paid"
      BY <2>3, <3>1 DEF BillRepaid, BillLiquidated, Bill
    <3> QED BY <3>2 DEF Pledges, PledgeFor
  <2>4. CASE BillPaid(b)
    <3>1. bills[b] \in Bill /\ bills[b].user # u
      BY <2>4, BillTyped DEF BooksInv, BillPaid, PayBill
    <3>2. bills'[b].user # u
      BY <2>4, <3>1 DEF BillPaid, Bill
    <3> QED BY <3>2 DEF Pledges, PledgeFor
  <2> QED BY <2>1, <2>2, <2>3, <2>4, BillStep
<1> HIDE DEF f, h, N
<1>3. \A i \in 1 .. N : h[i] * 1 <= f[i] * 1
  BY <1>1, <1>2 DEF BillIds, N
<1>4. Total(h, N) * 1 <= Total(f, N) * 1
  BY <1>1, <1>3, TotalScaled
<1> QED BY <1>1, <1>4

(* What secures the open loans of a user who is not strained stays.        *)
LEMMA StepLoansBacked ==
  ASSUME BooksInv, LoansReal, PledgesCovered, PledgesCovered', LoansBacked, [Next]_vars
  PROVE  LoansBacked'
<1> SUFFICES ASSUME ~ reset', NEW u \in Users, u \notin strained'
             PROVE  Pledged(u)' <= Balance(u)'
  BY DEF LoansBacked
<1>1. ~ reset /\ ~ Restarted /\ u \notin strained
  BY ResetStays, StrainedStays
<1>2. /\ Pledged(u) \in Nat /\ Balance(u) \in Nat /\ Pledged(u) <= Balance(u)
      /\ Pledged(u)' \in Nat /\ Balance(u)' \in Nat /\ RequiredCollateral(u)' \in Nat
      /\ Pledged(u)' <= RequiredCollateral(u)'
  BY <1>1 DEF PledgesCovered, LoansBacked
<1>3. TypeOK /\ TypeOK' /\ index' >= index
  BY <1>1, StepTypes DEF BooksInv
<1>4. CASE \E b \in BillIds : BillPaid(b) /\ bills[b].user = u
  <2>1. Balance(u)' >= RequiredCollateral(u)'
    BY <1>4, PayBillCollateral DEF BillPaid
  <2> QED BY <2>1, <1>2
<1>5. CASE ~ \E b \in BillIds : BillPaid(b) /\ bills[b].user = u
  <2>1. Pledged(u)' <= Pledged(u)
    BY <1>5, PledgesFall
  <2>2. CASE bnplCore # Core
    <3>1. \A b \in BillIds : PledgeFor(b, u) = 0
      BY <2>2 DEF LoansReal, PledgeFor
    <3>2. Pledges(u) = [b \in 1 .. MaxBills |-> 0]
      BY <3>1 DEF Pledges, BillIds
    <3>3. Pledged(u) = 0
      BY <3>2, TotalOfZeros, CoreAssumption DEF Pledged
    <3> QED BY <2>1, <3>3, <1>2
  <2>3. CASE bnplCore = Core /\ ~ LiquidatedNow(u)
    <3>1. Balance(u)' < Balance(u) => Balance(u)' >= RequiredCollateral(u)'
      BY <1>1, <2>3, StepKeeps DEF Kept
    <3> QED BY <3>1, <2>1, <1>2
  <2>4. CASE LiquidatedNow(u)
    <3>1. PICK b \in BillIds : /\ bills[b].status = "Paid" /\ bills[b].user = u
                               /\ bills'[b].status = "Liquidated"
      BY <2>4 DEF LiquidatedNow
    <3>2. bills[b] \in Bill /\ bills[b].principal \in Nat
      BY <3>1, <1>3, BillTyped
    <3>3. PICK l \in Users : LiquidateBill(b, l)
      <4>1. ~ BillRepaid(b) /\ ~ BillPaid(b) /\ ~ BillCreated(b) /\ bills'[b] # bills[b]
        BY <3>1, <3>2 DEF BillRepaid, BillPaid, PayBill, BillCreated, Bill
      <4> QED BY <4>1, BillStep DEF BillLiquidated
    <3>4. /\ Pledged(u)' = Pledged(u) - CollateralFor(bills[b].principal)
          /\ Balance(u)' >= Balance(u) - LiquidationCost(b)
      BY <3>1, <3>3, <1>3, LiquidationTakes
    <3>5. LiquidationCost(b) <= CollateralFor(bills[b].principal)
      BY <3>1, <3>3 DEF LiquidateBill, WithinMargin
    <3>6. LiquidationCost(b) \in Nat /\ CollateralFor(bills[b].principal) \in Nat
      BY <3>1, <3>2, <1>3, CostsNat, CollateralFloor
    <3> QED BY <3>4, <3>5, <3>6, <1>2
  <2> QED BY <2>2, <2>3, <2>4
<1> QED BY <1>4, <1>5

LEMMA LoansBackedInvariant == Spec => [](BooksInv /\ LoansReal /\ LoansBacked)
<1>1. Init => LoansBacked
  <2> SUFFICES ASSUME Init, NEW u \in Users
               PROVE  Pledged(u) <= Balance(u)
    BY DEF LoansBacked
  <2>1. Pledges(u) = [b \in 1 .. MaxBills |-> 0]
    BY DEF Init, CoreInit, NoBill, Pledges, PledgeFor, BillIds
  <2>2. Pledged(u) = 0
    BY <2>1, TotalOfZeros, CoreAssumption DEF Pledged
  <2>3. Balance(u) \in Nat
    BY InitBooks, PledgesAreCovered DEF PledgesCovered
  <2> QED BY <2>2, <2>3
<1>2. Spec => []PledgesCovered
  BY BooksInvariant, PledgesAreCovered, PTL
<1> QED BY <1>1, <1>2, BooksInvariant, LoansRealInvariant, StepLoansBacked, PTL DEF Spec

(* The balance covers what liquidating all open loans together costs.      *)
LEMMA BackedIsCovered ==
  ASSUME BooksInv, LoansBacked, ~ reset, NEW u \in Users, InMargin(u)
  PROVE  LET f == [b \in PaidBillsOf(u) |-> LiquidationCost(b)]
         IN  /\ SumFunction(f) <= Balance(u)
             /\ \A b \in PaidBillsOf(u) : LiquidationCost(b) <= Balance(u)
<1> DEFINE N == MaxBills
           S == PaidBillsOf(u)
           f == [b \in S |-> LiquidationCost(b)]
           t == [i \in 1 .. N |-> IF i \in S THEN f[i] ELSE 0]
           h == Pledges(u)
<1>1. TypeOK /\ N \in Nat /\ S \subseteq 1 .. N
  BY CoreAssumption DEF BooksInv, PaidBillsOf, BillIds
<1>2. ASSUME NEW b \in S
      PROVE  LiquidationCost(b) \in Nat /\ LiquidationCost(b) <= h[b]
  <2>1. b \in BillIds /\ bills[b].status = "Paid" /\ bills[b].user = u
    BY DEF PaidBillsOf
  <2>2. LiquidationCost(b) \in Nat
    BY <2>1, <1>1, CostsNat, BillTyped
  <2>3. h[b] = CollateralFor(bills[b].principal)
    BY <2>1 DEF Pledges, PledgeFor
  <2> QED BY <2>1, <2>2, <2>3 DEF InMargin, WithinMargin
<1>3. f \in [S -> Nat] /\ t \in [1 .. N -> Nat] /\ f \in [S -> Int]
  BY <1>2
<1>4. SumFunction(f) = Total(t, N)
  <2> HIDE DEF f, S, N
  <2> QED BY <1>1, <1>3, SumWithZeros, Zenon
<1>5. h \in [1 .. N -> Nat] /\ Pledged(u) = Total(h, N) /\ Pledged(u) \in Nat
  BY <1>1, PledgesTyped DEF Pledged
<1>6. \A i \in 1 .. N : t[i] * 1 <= h[i] * 1
  <2> HIDE DEF h
  <2>1. ASSUME NEW i \in 1 .. N PROVE t[i] <= h[i]
    BY <1>2, <1>5
  <2> QED BY <2>1, <1>3, <1>5
<1>7. IsFiniteSet(S)
  <2>1. IsFiniteSet(1 .. N)
    BY <1>1, FS_Interval
  <2> QED BY <2>1, <1>1, FS_Subset
<1>8. Pledged(u) <= Balance(u) /\ Balance(u) \in Nat
  BY PledgesAreCovered DEF LoansBacked, PledgesCovered, InMargin
<1>9. SumFunction(f) \in Nat /\ \A b \in S : f[b] <= SumFunction(f)
  <2> HIDE DEF f, S
  <2> QED BY <1>3, <1>7, SumCoversEach
<1>10. SumFunction(f) <= Balance(u)
  <2> HIDE DEF f, t, h, N, S
  <2>1. Total(t, N) * 1 <= Total(h, N) * 1
    BY <1>1, <1>3, <1>5, <1>6, TotalScaled
  <2> QED BY <2>1, <1>4, <1>5, <1>8, <1>9
<1>11. ASSUME NEW b \in S PROVE LiquidationCost(b) <= Balance(u)
  <2>1. f[b] = LiquidationCost(b)
    OBVIOUS
  <2> HIDE DEF f
  <2> QED BY <2>1, <1>2, <1>8, <1>9, <1>10
<1> QED BY <1>10, <1>11

(* The shares for a cost within the balance are among the holder's, and    *)
(* among the supply where no transfer of a holder to itself has inflated   *)
(* the balances.                                                           *)
LEMMA SharesSuffice ==
  ASSUME TypeOK, SharesInCirculation, NEW u \in Users, NEW n \in Nat, n <= Balance(u)
  PROVE  CanBurnShares(u, AmountToShares(n))
<1> DEFINE s == shares[u]
           sh == AmountToShares(n)
           v == ValueOf(s, index)
<1>1. /\ s \in Nat /\ index \in Nat \ {0} /\ Decimals \in Nat \ {0}
      /\ shares \in [Accounts -> Nat] /\ u \in Accounts
  BY Addresses, LpAssumption DEF TypeOK, LpTypeOK
<1>2. sh \in Nat /\ sh * index <= n * Decimals
  BY <1>1, SharesRoundDown DEF AmountToShares
<1>3. v \in Nat /\ v * Decimals <= s * index /\ n <= v
  BY <1>1, ValueRoundsDown DEF Balance
<1> HIDE DEF s, sh, v
<1>4. n * Decimals <= v * Decimals
  BY <1>1, <1>3, Scaled
<1>5. sh * index <= s * index
  <2>1. /\ sh * index \in Nat /\ n * Decimals \in Nat /\ v * Decimals \in Nat
        /\ s * index \in Nat
    BY <1>1, <1>2, <1>3
  <2> QED BY <2>1, <1>2, <1>3, <1>4
<1>6. sh <= s
  BY <1>1, <1>2, <1>5, Scaled
<1>7. s <= supply /\ supply \in Nat
  <2>1. SumFunction(shares) \in Nat /\ shares[u] <= SumFunction(shares)
    BY <1>1, SumCoversEach, UsdcAssumption
  <2> QED BY <2>1 DEF SharesInCirculation, s
<1> QED BY <1>1, <1>2, <1>6, <1>7 DEF CanBurnShares, s, sh

(* What the pool pays for a liquidation is enough for the reward and for   *)
(* the fees distributed after it.                                          *)
LEMMA LiquidationPaysOut ==
  ASSUME TypeOK, NEW b \in BillIds, bills[b].status = "Paid", NEW l \in Users,
         LiquidationFeeOf(b) >= 2, usdc[Pool] >= LateFeeOf(b) + LiquidationFeeOf(b)
  PROVE  /\ CanMove(usdc, Pool, FeesDue(b))
         /\ CanMove(FeesTaken(b), Core, Reward(b))
         /\ CanDistribute(RewardPaid(b, l), Rest(b))
<1> DEFINE late == LateFeeOf(b)
           penalty == LiquidationFeeOf(b)
           reward == penalty \div 2
           fee == late + penalty
           rest == reward + late
           usdc1 == FeesTaken(b)
           usdc2 == RewardPaid(b, l)
<1>1. /\ late \in Nat /\ penalty \in Nat /\ penalty >= 2
      /\ l \in Accounts /\ l # Core /\ Core \in Accounts /\ Pool \in Accounts /\ Pool # Core
      /\ usdc \in [Accounts -> Nat] /\ usdc[Core] \in Nat /\ usdc[Pool] >= late + penalty
  <2>1. bills[b].status # "None"
    OBVIOUS
  <2> QED BY <2>1, CostsNat, Addresses DEF TypeOK, UsdcTypeOK
<1>2. /\ FeesDue(b) = fee /\ Reward(b) = reward /\ Rest(b) = rest
      /\ usdc1 = Moved(usdc, Pool, Core, fee) /\ usdc2 = Moved(usdc1, Core, l, reward)
  BY DEF FeesDue, Reward, Rest, FeesTaken, RewardPaid
<1> HIDE DEF late, penalty, usdc1, usdc2
<1>3. reward \in Nat /\ reward >= 1 /\ 2 * reward <= penalty
  BY <1>1
<1> HIDE DEF reward
<1>4. fee \in Nat /\ fee > 0 /\ usdc[Pool] >= fee /\ rest \in Nat
      /\ fee >= reward + rest
  BY <1>1, <1>3
<1> HIDE DEF fee, rest
<1>5. usdc1 \in [Accounts -> Nat] /\ usdc1[Core] = usdc[Core] + fee
  BY <1>1, <1>2, <1>4, MovedBetween
<1>6. usdc1[Core] >= reward /\ usdc1[Core] >= reward + rest
  BY <1>1, <1>3, <1>4, <1>5
<1>7. usdc2[Core] = usdc1[Core] - reward
  BY <1>1, <1>2, <1>3, <1>5, <1>6, MovedBetween
<1>8. FeeParts(rest) \in Nat /\ FeeParts(rest) <= rest
  BY <1>4, FeePartsDust, FeePartsBounded
<1>9. usdc2[Core] >= FeeParts(rest)
  BY <1>1, <1>3, <1>4, <1>5, <1>6, <1>7, <1>8
<1> QED BY <1>2, <1>3, <1>4, <1>6, <1>9 DEF CanMove, CanDistribute, usdc1, usdc2

(* Loans are recoverable, for every amount, rate, number of bills and      *)
(* order of calls in a pool initialized once: while no open loan of a      *)
(* borrower has outgrown 111 percent of its principal, and none was        *)
(* liquidated after it had, the borrower's balance pays for liquidating    *)
(* all its open loans together, and past the threshold nothing in the      *)
(* transaction can fail for any holder who starts it.                      *)
THEOREM LoansAlwaysRecoverable == Spec => []LoansRecoverable
<1>1. ASSUME BooksInv, LoansBacked
      PROVE  LoansCovered
  BY <1>1, BackedIsCovered DEF LoansCovered
<1>2. ASSUME BooksInv, LoansReal, LoansBacked, NEW u \in Users, NEW l \in Users,
             ~ reset, NEW b \in PaidBillsOf(u), SharesInCirculation,
             now >= LiquidatableFrom(bills[b].created_at), InMargin(u),
             Balance(l) # 0, LiquidationFeeOf(b) >= 2,
             usdc[Pool] >= LateFeeOf(b) + LiquidationFeeOf(b)
      PROVE  CanLiquidate(b, l)
  <2>1. /\ b \in BillIds /\ bills[b].status = "Paid" /\ bills[b].user = u /\ TypeOK
    BY <1>2 DEF PaidBillsOf, BooksInv
  <2>2. bnplCore = Core /\ OnUsdc
    BY <1>2, <2>1 DEF LoansReal, BooksInv, OnUsdcUntilReset
  <2>3. LiquidationCost(b) \in Nat /\ LiquidationCost(b) <= Balance(u)
    <3>1. bills[b].status # "None"
      BY <2>1
    <3>2. LiquidationCost(b) \in Nat
      BY <2>1, <3>1, CostsNat, BillTyped
    <3>3. LiquidationCost(b) <= Balance(u)
      BY <1>2, BackedIsCovered, Zenon
    <3> QED BY <3>2, <3>3
  <2>4. CanBurnShares(u, AmountToShares(LiquidationCost(b)))
    BY <1>2, <2>1, <2>3, SharesSuffice
  <2>5. /\ CanMove(usdc, Pool, FeesDue(b))
        /\ CanMove(FeesTaken(b), Core, Reward(b))
        /\ CanDistribute(RewardPaid(b, l), Rest(b))
    BY <1>2, <2>1, LiquidationPaysOut
  <2> QED BY <1>2, <2>1, <2>2, <2>4, <2>5 DEF CanLiquidate
<1>3. BooksInv /\ LoansReal /\ LoansBacked => LoansRecoverable
  BY <1>1, <1>2 DEF LoansRecoverable, LiquidationNeverBlocked
<1> QED BY <1>3, LoansBackedInvariant, PTL
=============================================================================
