SPECIFICATION FairSpec
CONSTANTS
  NumCalls = 3
  a1 = a1
  NoAgent = NoAgent
  Agents = {a1}
  AgentOf <- SharedAgentOf
  Kind <- SharedKind
  Estimates = {1, 2}
  InitLimit = 2
  InitCap = 1
  MinBump = 1
  MaxLimit = 2
  Faults = {"overrun", "lower_limit"}
INVARIANT ReservedIsInFlight
PROPERTY RefusalResolves
