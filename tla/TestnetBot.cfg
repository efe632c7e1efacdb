SPECIFICATION MCBotSpec
CONSTANTS
    MaxFailures = 2
    DailyGoal = 2
    MaxDay = 1
    MaxEvents = 2
    N = 2
    MaxRuns = 3
    Verdicts = {"Pending"}
INVARIANTS ChainsBounded NeverStalls DailyGoalKept PoolNotAhead
PROPERTY PauseReaches
CHECK_DEADLOCK FALSE
