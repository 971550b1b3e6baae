SPECIFICATION Spec
CONSTANTS
  Full = {f1, f2}
  Empty = {e}
  Broken = {b}
  Factory = {f1}
  Nil = nil
  Requests = {r1}
  Sockets = {s1}
  MaxFires = 1
INVARIANTS
  DraftIsTimed
  DisplayFollows
