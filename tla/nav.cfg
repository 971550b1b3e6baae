SPECIFICATION FairSpec
CONSTANTS
  MaxPages = 2
  Navs = {nav1}
  Editors = {edit1}
  Touch = touch
  Nobody = nobody
  MayReverse = TRUE
INVARIANTS
  ZonesFollowPage
  PageInLayout
PROPERTIES
  ReleasedSettles
