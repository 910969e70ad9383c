\* Every object keeps its address and no two share one.
CONSTANTS
  o1 = o1
  o2 = o2
  m1 = m1
  m2 = m2
  bad = bad
  Mac = {m1, m2}
  BadMac = bad
  ListOrder <- Names
  MacsOf <- FixedMacs
  Phase = {"running"}
  MaxPatches = 1
  MaxChanges = 2
  None = None
SPECIFICATION FairSpec
INVARIANT TypeOK
INVARIANT LayerIsCurrent
PROPERTY WriterRests
PROPERTY StatusArrives
