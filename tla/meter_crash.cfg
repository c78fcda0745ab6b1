SPECIFICATION Spec
CONSTANTS
  NumCalls = 3
  a1 = a1
  NoAgent = NoAgent
  Agents = {a1}
  AgentOf <- MixedAgentOf
  Kind <- MixedKind
  Estimates = {1, 2}
  InitLimit = 3
  InitCap = 1
  MinBump = 1
  MaxLimit = 4
  Faults = {"crash"}
INVARIANTS LedgerCoversInFlight Solvent
PROPERTY RefinesEscrow
