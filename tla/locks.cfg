SPECIFICATION LocksSpec
CONSTANTS
  Samplers = {smp}
  Requests = {req}
  Helpers = {hlp}
  Render = render
  Touch = touch
  Nobody = nobody
  AtOnce = 3
INVARIANTS
  NoCircularWait
  FieldsGuarded
