SPECIFICATION Spec
CONSTANTS
  Slots = {s1, s2, s3}
  Companies = {ca, cb}
  Costs = {1, 2}
  FreeTier = 3
  DailyCap = 3
  MarkupPct = 130
  MaxCharged = 3
  MaxCounted = 4
  MaxDays = 1
SYMMETRY Symmetry
INVARIANTS NeverOverstated CountedOnce
PROPERTIES FreeTierEnds
