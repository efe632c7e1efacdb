CONSTANTS
  Scale = 1000
  MerchantFeeRate = 15
  LateInterestAPR = 300
  LiquidationPenalty = 10
  FeeToLP = 700
  FeeToTreasury = 200
  FeeToInsurance = 100
  CollateralRatio = 1110
  Day = 1
  BillDurationDays = 1
  GracePeriodDays = 14
  LiquidationThresholdDays = 28
  MintLimit = 0
  Timestamps = {0, 1, 15}
  UsdcAmounts = {}
  ApproveAmounts = {}
  MaxUsdcSupply = 3000
  Decimals = 1000
  DepositAmounts = {1500}
  WithdrawAmounts = {}
  TransferAmounts = {}
  LpApproveAmounts = {}
  Underlyings = {}
  MintAmounts = {}
  DonationAmounts = {}
  MaxShares = 3000
  alice = alice
  bob = bob
  shop = shop
  pool = pool
  core = core
  treasury = treasury
  insurance = insurance
  o1 = o1
  o2 = o2
  Users <- MCUsers
  Accounts <- MCAccounts
  Endowment <- MCEndowment
  Merchants <- MCMerchants
  Pool <- pool
  Core <- core
  Treasury <- treasury
  Insurance <- insurance
  Borrowers <- MCBorrowers
  AdminStatuses = {}
  Principals = {1300}
  Orders = {o1}
  RepayAllowances = {}
  MaxBills = 1
SPECIFICATION MCSpec
INVARIANTS InterestFreeAfterPayment
CHECK_DEADLOCK FALSE
