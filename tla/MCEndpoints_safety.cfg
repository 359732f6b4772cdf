SPECIFICATION Spec
CONSTANTS
  Users = {u1, u2}
  IDs = {e1, e2, e3}
  Slugs = {x, y, z}
  Requests = {r1, r2, r3}
SYMMETRY AnyName
CHECK_DEADLOCK FALSE
INVARIANTS TypeOK
PROPERTIES StableUrl ChangedByOwner DeletedInTheEnd SettingKept
