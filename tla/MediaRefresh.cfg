\* Goldens are only ever replaced by newer ones.
CONSTANTS
  Releases = 3
  Foreign = Foreign
  Blank = Blank
  Rollback = FALSE
  MaxFaults = 3
  None = None
SPECIFICATION FairSpec
INVARIANT TypeOK
INVARIANT AlwaysBootable
INVARIANT FlushedBeforeHandover
PROPERTY StampFollowsImage
PROPERTY ForeignUntouched
PROPERTY MediaFollows
