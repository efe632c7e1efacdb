CONSTANTS
  Scale = 1000
  MerchantFeeRate = 15
  LateInterestAPR = 300
  LiquidationPenalty = 10
  FeeToLP = 700
  FeeToTreasury = 200
  FeeToInsurance = 100
  CollateralRatio = 1110
  Day = 2
  BillDurationDays = 1
  GracePeriodDays = 14
  LiquidationThresholdDays = 28
  MintLimit = 2
  Timestamps = {0, 1, 2}
  UsdcAmounts = {1}
  ApproveAmounts <- MCApproveAmounts
  MintedUsdc = 2
  MaxUsdcSupply = 16
  Decimals = 4
  DepositAmounts = {1, 3}
  WithdrawAmounts = {1, 3}
  TransferAmounts = {}
  LpApproveAmounts = {}
  Underlyings = {"USDC"}
  MintAmounts = {}
  DonationAmounts = {1}
  MaxShares = 32
  u1 = u1
  u2 = u2
  pool = pool
  Users <- MCUsers
  Accounts <- MCAccounts
  Endowment <- MCEndowment
  Pool <- pool
SPECIFICATION TokensSpec
INVARIANTS DailyLimitHolds
PROPERTIES BalancesTrackSupply IndexNeverFalls RoundingBounded NewcomerTakesNoPastYield
SYMMETRY MCSymmetry
CHECK_DEADLOCK FALSE
