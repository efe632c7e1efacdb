-------------------------------- MODULE Terms --------------------------------
(***************************************************************************)
(* The commercial terms of the protocol: the fee, interest and collateral  *)
(* arithmetic of contracts/bnpl_core, as pure operators.                   *)
(*                                                                         *)
(* The source scales every rate by SCALE_7 = 10^7 and floors each division *)
(* of i128 values, which are never negative here.  Rates and scale are     *)
(* constants: 150_000 / 10_000_000 and 15 / 1000 floor to the same amounts *)
(* and the second stays inside TLC's integers.                             *)
(***************************************************************************)
EXTENDS Integers

CONSTANTS
  Scale,                 \* SCALE_7
  MerchantFeeRate,       \* MERCHANT_FEE_RATE, 1.5 percent of Scale
  LateInterestAPR,       \* LATE_INTEREST_APR, 30 percent of Scale a year
  LiquidationPenalty,    \* LIQUIDATION_PENALTY, 1 percent of Scale
  FeeToLP,               \* FEE_TO_LP_RATIO, 70 percent of Scale
  FeeToTreasury,         \* FEE_TO_TREASURY_RATIO, 20 percent of Scale
  FeeToInsurance,        \* FEE_TO_INSURANCE_RATIO, 10 percent of Scale
  CollateralRatio,       \* COLLATERAL_RATIO, 111 percent of Scale
  Day,                   \* SECONDS_PER_DAY, in ledger time units
  BillDurationDays,      \* BILL_DURATION_DAYS
  GracePeriodDays,       \* GRACE_PERIOD_DAYS
  LiquidationThresholdDays \* LIQUIDATION_THRESHOLD_DAYS

ASSUME TermsAssumption ==
  /\ Scale \in Nat \ {0}
  /\ Day \in Nat \ {0}
  /\ MerchantFeeRate \in 0 .. Scale
  /\ LateInterestAPR \in Nat
  /\ LiquidationPenalty \in 0 .. Scale
  /\ FeeToLP \in Nat /\ FeeToTreasury \in Nat /\ FeeToInsurance \in Nat
  /\ FeeToLP + FeeToTreasury + FeeToInsurance = Scale
  /\ CollateralRatio \in Nat /\ CollateralRatio >= Scale
  /\ CollateralRatio * 90 <= Scale * 100   \* 111 percent of 90 percent
  /\ BillDurationDays \in Nat
  /\ GracePeriodDays \in Nat
  /\ LiquidationThresholdDays \in Nat

-----------------------------------------------------------------------------
(* pay_bill_bnpl keeps this part of the principal from the merchant.       *)
MerchantFee(principal) == (principal * MerchantFeeRate) \div Scale

(* liquidate_bill adds this to what the borrower's shares must cover.      *)
LiquidationFee(principal) == (principal * LiquidationPenalty) \div Scale

(* calc_late_fee: nothing up to and including the end of the grace period, *)
(* then simple interest for every whole day after it.                      *)
LateFee(now, since, principal) ==
  LET graceEnd == since + GracePeriodDays * Day
      daysOverdue == (now - graceEnd) \div Day
  IN  IF now <= graceEnd
      THEN 0
      ELSE (principal * LateInterestAPR * daysOverdue) \div (365 * Scale)

(* The three parts distribute_fees pays out of an amount.  Each is floored *)
(* on its own, so together they may fall short of it.                      *)
LPPart(amount) == (amount * FeeToLP) \div Scale
TreasuryPart(amount) == (amount * FeeToTreasury) \div Scale
InsurancePart(amount) == (amount * FeeToInsurance) \div Scale
FeeParts(amount) == LPPart(amount) + TreasuryPart(amount) + InsurancePart(amount)

(* get_user_required_collateral, for a debt of principal and interest.     *)
CollateralFor(debt) == (debt * CollateralRatio) \div Scale

(* get_user_borrowing_power.max_borrowing: 90 percent of the LP balance.   *)
MaxBorrowing_WholeBalance(lpBalance) == lpBalance   \* mutant
MaxBorrowing(lpBalance) == (lpBalance * 90) \div 100

BillExpiry(createdAt) == createdAt + BillDurationDays * Day
LiquidatableFrom(createdAt) == createdAt + LiquidationThresholdDays * Day
=============================================================================
