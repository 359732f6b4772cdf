SPECIFICATION FairSpec
CONSTANTS
  GitHubUsers = {g1, g2}
  IDs = {i1, i2}
  NoEmail = none
  Emails = {none, a, b}
  Requests = {r1, r2}
  MaxFaults = 1
INVARIANTS TypeOK OneIdentity
PROPERTIES EmailKept EmailSettled SignedInInTheEnd
