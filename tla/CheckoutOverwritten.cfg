CONSTANTS
  s1 = s1
  g1 = g1
  c1 = c1
  c2 = c2
  Sessions <- MCSessions
  Getters <- MCGetters
  Completers <- MCCompleters
  Hour = 1
  MaxClock = 2
  MaxCrashes = 0
SPECIFICATION CheckoutSpec
INVARIANTS CompletedStaysCompleted

CHECK_DEADLOCK FALSE
