SPECIFICATION FairSpec
CONSTANTS
  Zones = {z1, z2}
  Nil = nil
  Touch = touch
  Tapper = tapper
  Requests = {req}
  MaxShows = 2
INVARIANTS
  OverlayIsTimed
  OneRefresh
  FrameFollows
  ClientsTold
PROPERTIES
  OverlayEnds
  RefreshEnds
