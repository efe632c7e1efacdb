CONSTANTS
  w1 = w1
  w2 = w2
  Wallets <- MCWallets
  Freighter = w1
  Wealth = 2
  AskAmounts = {1}
  DailyLimit = 1
  MaxDay = 1
  MaxChecks = 1
  MaxReloads = 1
  f1 = f1
  s1 = s1
  FormBills <- MCFormBills
  SessionBills <- MCSessionBills
  Principal <- MCPrincipal
  Funds = 205
  LatePercent = 5
  MaxAge = 1
  IndexLimit = 1
  MaxFailures = 1
SPECIFICATION FairWebSpec
INVARIANTS OneWalletConnected
PROPERTIES LenderServed MerchantGetsIn MismatchClears BuyerFindsBill BuyerRepays
CHECK_DEADLOCK FALSE
