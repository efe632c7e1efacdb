CONSTANTS
  s1 = s1
  g1 = g1
  c1 = c1
  c2 = c2
  j1 = j1
  j2 = j2
  Sessions <- MCSessions
  Getters <- MCGetters
  Completers <- MCCompleters
  Jobs <- MCJobs
  RetryDelays <- MCRetryDelays
  MaxAttempts = 3
  BatchSize = 1
  MaxSecrets = 2
  Hour = 1
  MaxClock = 2
  MaxCrashes = 1
SPECIFICATION RaceSpec
INVARIANTS CompletedOnce AttemptsExact NoRowForgotten
PROPERTIES CompletionNotified DeliveriesEnd
CHECK_DEADLOCK FALSE
