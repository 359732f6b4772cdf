SPECIFICATION Spec
CONSTANTS
  Users = {u1, u2}
  IDs = {e1, e2}
  Slugs = {x, y}
  Requests = {r1, r2, r3}
SYMMETRY AnyName
CHECK_DEADLOCK FALSE
PROPERTIES DeletedStaysDeleted
