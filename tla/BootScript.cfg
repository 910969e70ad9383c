\* Two machines and two overlapping requests, one stack besides the default,
\* and as many clones as it takes for a claim to be lost and made again.
CONSTANTS
  Mac = {m1, m2}
  Req = {r1, r2}
  Stack = {g2}
  DefaultGolden = g1
  Version = {v1}
  UnknownHosts = "allow"
  ClaimsEnabled = TRUE
  MaxTracked = 2
  MaxClones = 2
  None = None
SPECIFICATION FairSpec
INVARIANT TypeOK
INVARIANT OneRootPerHost
INVARIANT NoSharedRoot
PROPERTY EveryRequestEnds
