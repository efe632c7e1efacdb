CONSTANTS
  Scale = 1000
  MerchantFeeRate = 15
  LateInterestAPR = 300
  LiquidationPenalty = 10
  FeeToLP = 700
  FeeToTreasury = 200
  FeeToInsurance = 100
  CollateralRatio = 1110
  Day = 1
  BillDurationDays = 1
  GracePeriodDays = 14
  LiquidationThresholdDays = 28
  MintLimit = 0
  Timestamps = {0, 1, 2, 15, 29, 138}
  UsdcAmounts = {}
  ApproveAmounts = {}
  MaxUsdcSupply = 3000
  Decimals = 1000
  DepositAmounts = {1300}
  WithdrawAmounts = {745, 790}
  TransferAmounts = {300}
  LpApproveAmounts <- MCLpApproveAmounts
  Underlyings = {"USDC", "other"}
  MintAmounts = {300}
  DonationAmounts = {100}
  MaxShares = 3000
  alice = alice
  bob = bob
  shop = shop
  pool = pool
  core = core
  treasury = treasury
  insurance = insurance
  o1 = o1
  o2 = o2
  Users <- MCUsers
  Accounts <- MCAccounts
  Endowment <- MCEndowment
  Merchants <- MCMerchants
  Pool <- pool
  Core <- core
  Treasury <- treasury
  Insurance <- insurance
  Borrowers <- MCBorrowers
  AdminStatuses = {"Approved", "Suspended"}
  Principals = {500}
  Orders = {o1}
  RepayAllowances = {600}
  MaxBills = 2
  MaxPoolCalls = 4
  CallTimes = {0, 29}
  CallShares = 1700
SPECIFICATION MCProtocolSpec
INVARIANTS RepaymentNeverBlocked LoansRecoverable BorrowedIsOutstanding UserBillsExact
PROPERTIES ImplementsLoanBook CollateralStaysLocked PaidWithCollateral CoreIsConduit SharesTrackSupply
CHECK_DEADLOCK FALSE
