\* The run ends when the task is done.
SPECIFICATION MemorySpec
CHECK_DEADLOCK FALSE
CONSTANTS
  Feedback = {redo}
  Trigger = 6
  Keep = 3
  StepLimit = 4
  MaxCalls = 2
  MaxSteps = 5
  MaxPosts = 2
  MaxStops = 2
INVARIANTS ProviderAccepts CheckpointIsClean Remembers NotedOnce FitsWindow
