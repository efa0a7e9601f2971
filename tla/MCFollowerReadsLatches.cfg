CONSTANTS
  Proposal = {p1, p2}
  RangeID = {r1}
  NoRange = NoRange
  MaxTS = 4
  MaxEpoch = 1
  MaxLAI = 3
  Target = 1
  Lifetime = 4
  MaxLog = 2
  MaxLeases = 2
  PromptLatches = FALSE
  PromptHeartbeat = TRUE
SPECIFICATION RangeSpec
SYMMETRY Symmetry
INVARIANT FollowerReadsConsistent
