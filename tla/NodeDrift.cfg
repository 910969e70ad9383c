\* Two boots from one clone that is written; the host's record is edited between.
CONSTANTS
  Empty = Empty
  None = None
  Configs <- OneServer
  Recs <- EditedHost
  Claims <- OneClaim
  MediaLines <- NoMedia
  Devices <- LocalDevices
  RootFs = "ext4"
  Appliance <- Ask
  MaxBoots = 2
CHECK_DEADLOCK FALSE
SPECIFICATION Spec
INVARIANT VolumesWhereNamed
