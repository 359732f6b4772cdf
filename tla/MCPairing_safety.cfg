SPECIFICATION Spec
CONSTANTS
  Endpoints = {e1, e2}
  Codes = {c1, c2}
  Devices = {d1, d2}
  Requests = {r1, r2}
  Lifetime = 1
  MaxTime = 1
SYMMETRY AnyName
INVARIANTS TypeOK UsedIffPaired
PROPERTIES SpentForGood DeletedEndpointDrains LockOutIsFinal
