CONSTANTS
  Proposal = {p1, p2, p3}
  RangeID = {r1}
  NoRange = NoRange
  MaxTS = 4
  MaxEpoch = 2
  MaxLAI = 2
SPECIFICATION Spec
SYMMETRY Symmetry
INVARIANTS ReleaseNeverFatal ClosedMeansCovered SidesHoldOneEpoch
