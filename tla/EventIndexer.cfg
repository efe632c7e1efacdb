CONSTANTS
  bill1 = bill1
  shop = shop
  a1 = a1
  a2 = a2
  k1 = k1
  bill2 = bill2
  j1 = j1
  j2 = j2
  Loans <- MCLoans
  Principal <- MCPrincipal
  Jobs <- MCStatsJobs
  Deposit = 200
  MaxCash = 200
  MaxDay = 1
  MaxSnapshots = 2
  Limit = 2
  MaxTxs = 2
  Bills <- MCBills
  Shops <- MCShops
  NewStatuses = {"Approved", "Suspended"}
  MaxEvents = 4
  MaxBatch = 2
  MaxResends = 1
  Overlap = TRUE
  Owners <- MCOwners
  Keys <- MCKeys
  MaxFetches = 1
  MaxCalls = 1
SPECIFICATION FeedSpec
INVARIANTS NothingInvented MirrorsUndisturbed VerdictsRight ReportsTrue VolumeNeverFalls ListedOnce
PROPERTIES CreationNeverOverwrites StatusesInOrder EventuallyMirrored
CHECK_DEADLOCK FALSE
