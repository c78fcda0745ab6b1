SPECIFICATION FairSpec
CONSTANTS
  Tasks = {t1}
  Workers = {w1, w2}
  NoTask = NoTask
  Decisions = {d1}
  Conversing = {t1}
  Handlers = {h1, h2}
  MaxJobs = 2
  MaxRepeats = 1
  Scenarios <- AllScenarios
INVARIANTS ParkedHasQuestion RunningIsRun QueuedIsCarried
PROPERTIES ServesClaims QueuedRuns ParkedMovesOn
CHECK_DEADLOCK FALSE
