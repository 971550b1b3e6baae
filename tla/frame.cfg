SPECIFICATION MCSpec
CONSTANTS
  LastPage = 1
  MaxData = 1
  MaxLayout = 1
  Loop = loop
  Switchers = {sw}
  Swipers = {touch}
  Editors = {ed}
  Warmers = {warm}
  Colds = {cold}
  Casts = {{touch, ed}, {touch, sw}, {sw, warm}, {sw, cold}, {warm, cold}, {ed, warm}, {touch}}
  Ageing = {touch}
INVARIANTS
  FrontFrameFresh
  CacheShowsPayload
  CacheShowsItsPage
