\* Two reloads overlap, on a clock that tells edits apart.
CONSTANTS
  m1 = m1
  Mac = {m1}
  Rec = {"online", "parked"}
  Contents <- Files
  Torn = Torn
  Caller = {c1, c2}
  Main = main
  SameTick = FALSE
  MaxChanges = 3
  None = None
SPECIFICATION FairSpec
INVARIANT TypeOK
INVARIANT StampVouches
INVARIANT ClusterFirst
PROPERTY ReloadCatchesUp
PROPERTY LayerSettles
