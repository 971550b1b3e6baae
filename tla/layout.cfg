SPECIFICATION Spec
CONSTANTS
  PageIds = {g1, g2}
  Home = g1
  ZoneIds = {za, zb}
  First = {za}
  Plugins = {p, q}
  Default = p
  Configs = {c0, c1}
  Empty = c0
  None = none
  DisplayWidthPx = 3
  MinZoneWidthPx = 1
  MaxZonesPerPage = 2
  Asked <- MCAsked
  Touched = {za}
  Editors = {ed, ed2}
  Taps = {tap, tap2}
  Setters = {set}
  Loop = loop
  Casts = {{ed, ed2}, {ed, tap}, {ed, tap2}, {ed2, tap}, {ed2, tap2}, {ed, set, loop}, {ed2, set, loop}, {tap, tap2, set, loop}}
SYMMETRY Alike
INVARIANTS
  WidthsFill
  DisplayShowsStore
  PluginHasConfig
