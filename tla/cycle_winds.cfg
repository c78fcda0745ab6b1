SPECIFICATION FairSpec
CONSTANTS
  Runs = {r1, r2, r3}
  NoRun = NoRun
  Slots = {w1, w2}
  MaxTasks = 2
  Scenarios = {{"unhealthy"},
               {"silent_end", "unhealthy"},
               {"restart", "advance"},
               {"restart", "cron"},
               {"founder_dm", "cron"}}
INVARIANTS OneCycle ClosedIsQuiet
PROPERTY WindsDown
