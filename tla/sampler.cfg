SPECIFICATION Spec
CONSTANTS
  Execs = {x, y}
  Builtins = {b}
  NoSpec = none
  Cyclers = {tap}
  MaxLoops = 2
  MaxMade = 3
INVARIANTS
  OneLiveLoop
  NoStrayProcess
  StopKillsAll
  LiveLoopSpec
CHECK_DEADLOCK FALSE
