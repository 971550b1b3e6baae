SPECIFICATION FairSpec
CONSTANTS
  Execs = {x}
  Builtins = {}
  NoSpec = none
  Cyclers = {tap}
  MaxLoops = 2
  MaxMade = 3
PROPERTIES
  CrashNoticed
  LoopShowsOrEnds
CHECK_DEADLOCK FALSE
