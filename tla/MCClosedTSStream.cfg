CONSTANTS
  RangeID = {r1}
  MaxEpoch = 2
  MaxTS = 3
  MaxLAI = 2
  MaxEntries = 3
  Ticks = 1
  NumBuckets = 2
  Scale = 1
  MaxConns = 2
SPECIFICATION FairSpec
INVARIANTS Gapless MaxClosedSound
PROPERTY FollowerCatchesUp
