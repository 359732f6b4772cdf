SPECIFICATION Spec
CONSTANTS
  Endpoints = {e1, e2}
  Codes = {c1, c2}
  Devices = {d1, d2}
  Requests = {r1, r2}
  Lifetime = 1
  MaxTime = 2
SYMMETRY AnyName
INVARIANTS SingleUse
