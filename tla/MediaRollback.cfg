\* A golden may be rolled back.
CONSTANTS
  Releases = 3
  Foreign = Foreign
  Blank = Blank
  Rollback = TRUE
  MaxFaults = 3
  None = None
SPECIFICATION Spec
INVARIANT CurrentIsInstalled
