SPECIFICATION LocksSpec
CONSTANTS
  Samplers = {smp}
  Requests = {req}
  Helpers = {hlp}
  Render = render
  Touch = touch
  Nobody = nobody
  AtOnce = 2
INVARIANTS
  ZonesWhole
