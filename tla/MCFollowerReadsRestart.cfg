CONSTANTS
  Proposal = {p1, p2}
  RangeID = {r1}
  NoRange = NoRange
  MaxTS = 4
  MaxEpoch = 2
  MaxLAI = 2
  Target = 1
  Lifetime = 3
  MaxLog = 2
  MaxLeases = 2
  PromptLatches = TRUE
  PromptHeartbeat = TRUE
SPECIFICATION RangeSpec
SYMMETRY Symmetry
INVARIANTS FollowerReadsConsistent LeaseDisjoint
