\* Two boots from a golden that is not written; the node may stay off.
CONSTANTS
  Empty = Empty
  None = None
  Configs <- Servers
  Recs <- Hosts
  Claims <- Claimed
  MediaLines <- Media
  Devices <- LocalDevices
  RootFs = "erofs"
  Appliance <- Ask
  MaxBoots = 2
CHECK_DEADLOCK FALSE
SPECIFICATION Spec
INVARIANT TypeOK
INVARIANT ScriptArrives
INVARIANT DataSlabSpared
INVARIANT ApplianceIsFallback
INVARIANT VolumesWhereNamed
