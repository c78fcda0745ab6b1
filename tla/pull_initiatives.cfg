SPECIFICATION FairSpec
CONSTANTS
  Tasks = {1, 2}
  Workers = {w1, w2}
  NoTask = 0
  NoWorker = NoWorker
  MaxAsks = 2
  MaxDeaths = 1
  MaxRestarts = 1
  Scenarios = {{"worker_dies"},
               {"worker_dies", "slow_worker", "needs_decision", "restart"},
               {"worker_dies", "slow_worker", "needs_decision", "restart", "stale_click"}}
PROPERTIES ClaimIsKept ServesClaims OfferedEnds
CHECK_DEADLOCK FALSE
