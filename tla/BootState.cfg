\* Three machines, room for two, and a clock with two readings: enough for
\* full maps of finished, mixed and unfinished hosts, with and without ties.
\* All properties are safety properties that name no machine, so symmetry
\* under permutation of the machines is sound.
CONSTANTS
  Mac = {m1, m2, m3}
  MaxTracked = 2
  MaxClock = 1
  Version = {v1}
  None = None
SYMMETRY Symmetry
SPECIFICATION Spec
INVARIANT TypeOK
INVARIANT Bounded
PROPERTY ForwardOnly
PROPERTY EvictionSparesInFlight
PROPERTY TimelineSpec
