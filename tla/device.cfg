SPECIFICATION FairSpec
CONSTANTS
  Handles = {h1, h2}
  None = none
  Frames = {f1, f2}
  Blank = blank
  Other = other
  Requests = {req}
INVARIANTS
  OneHandle
  SkippedIsShown
  StaysClosed
PROPERTIES
  CloseDrains
  Reconnects
  ShutdownEnds
