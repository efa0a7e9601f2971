CONSTANTS
  Proposal = {p1, p2}
  RangeID = {r1}
  NoRange = NoRange
  MaxTS = 4
  MaxEpoch = 1
  MaxLAI = 3
  Target = 1
  Lifetime = 4
  MaxLog = 3
  MaxLeases = 3
  PromptLatches = TRUE
  PromptHeartbeat = TRUE
SPECIFICATION RangeSpec
SYMMETRY Symmetry
INVARIANTS FollowerReadsConsistent LeaseDisjoint
