\* A refresh fails between two members.
CONSTANTS
  d1 = d1
  d2 = d2
  d3 = d3
  d4 = d4
  Digest = {d1, d2}
  Pallet = {d1, d2}
  Layers <- MCLayers
  Inline <- MCInline
  Other = {}
  Unsettled = {d1, d2}
  RequireSignature = TRUE
  None = None
SPECIFICATION Spec
INVARIANT ServesWhatItReports
