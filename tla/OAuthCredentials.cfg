CONSTANTS
  Clients = {c1, c2}
  MaxRows = 2
  MaxGen = 3
SPECIFICATION FairSpec
INVARIANTS TypeOK 
PROPERTIES NeverGoesBack RequestsEnd
CHECK_DEADLOCK FALSE
