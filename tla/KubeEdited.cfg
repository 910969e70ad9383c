\* Operators edit the address of an object.
CONSTANTS
  o1 = o1
  o2 = o2
  m1 = m1
  m2 = m2
  bad = bad
  Mac = {m1, m2}
  BadMac = bad
  ListOrder <- Names
  MacsOf <- FreeMacs
  Phase = {"running"}
  MaxPatches = 1
  MaxChanges = 2
  None = None
SPECIFICATION Spec
INVARIANT LayerIsCurrent
