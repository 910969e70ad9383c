\* One node, two faults. It may end held at its console, for ever.
CONSTANTS
  Node = Node
  EngineLog = TRUE
  Inventory = Inventory
  ReportEvery = 2
  MaxExtentFailures = 2
  MaxFaults = 2
  None = None
CHECK_DEADLOCK FALSE
SPECIFICATION FairSpec
INVARIANT TypeOK
INVARIANT LocalMeansMoved
PROPERTY FailureBecomesKnown
PROPERTY LocalBecomesKnown
