CONSTANTS
  Scale = 1000
  MerchantFeeRate = 15
  LateInterestAPR = 300
  LiquidationPenalty = 10
  FeeToLP = 700
  FeeToTreasury = 200
  FeeToInsurance = 100
  CollateralRatio = 1110
  Day = 1
  BillDurationDays = 1
  GracePeriodDays = 14
  LiquidationThresholdDays = 28
  MintLimit = 0
  Timestamps = {0}
  UsdcAmounts = {}
  ApproveAmounts = {}
  MintedUsdc = 0
  MaxUsdcSupply = 16
  Decimals = 10
  DepositAmounts = {3}
  WithdrawAmounts = {}
  TransferAmounts = {1}
  LpApproveAmounts = {}
  Underlyings = {}
  MintAmounts = {}
  DonationAmounts = {}
  MaxShares = 200
  u1 = u1
  u2 = u2
  pool = pool
  Users <- MCUsers
  Accounts <- MCAccounts
  Endowment <- MCEndowment
  Pool <- pool
SPECIFICATION TokensSpec
INVARIANTS SharesInCirculation
CHECK_DEADLOCK FALSE
