SPECIFICATION FairSpec
CONSTANTS
  Connections = {c1, c2, c3}
INVARIANTS TypeOK RequestsHaveDatabase HonestExit
PROPERTIES StopsWhenTold
