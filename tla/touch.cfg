SPECIFICATION TouchSpec
CONSTANTS
  MaxPages = 3
  Navs = {}
  Editors = {}
  Touch = touch
  Nobody = nobody
  MayReverse = TRUE
  Width = 12
  Edges = {0, 5}
  Rested = TRUE
  Turns = FALSE
INVARIANTS
  SwipesMove
  TapsHit
PROPERTIES
  BookSpec
