\* Three pallets and an image that is none, between which the tag moves,
\* signatures required, and config blobs of other bytes.
CONSTANTS
  d1 = d1
  d2 = d2
  d3 = d3
  d4 = d4
  Digest = {d1, d2, d3, d4}
  Pallet = {d1, d2, d3}
  Layers <- MCLayers
  Inline <- MCInline
  Other <- MCOther
  Unsettled = {d1, d2}
  RequireSignature = TRUE
  None = None
SPECIFICATION FairSpec
INVARIANT TypeOK
INVARIANT OnlyVouchedBytes
INVARIANT NoTornMember
INVARIANT ReadyIsComplete
PROPERTY StaysReady
PROPERTY PublishedIsWhole
PROPERTY RolloutArrives
