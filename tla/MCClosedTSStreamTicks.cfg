CONSTANTS
  RangeID = {r1}
  MaxEpoch = 2
  MaxTS = 5
  MaxLAI = 2
  MaxEntries = 3
  Ticks = 2
  NumBuckets = 2
  Scale = 1
  MaxConns = 2
SPECIFICATION Spec
INVARIANT MaxClosedSound
