SPECIFICATION FairSpec
CONSTANTS
  w1 = w1
  w2 = w2
  good = good
  bad = bad
  Workers <- MC_Workers
  Queries <- MC_Queries
  Malformed <- MC_Malformed
  MaxEndpoints = 3
INVARIANTS TypeOK TurnsRotate
PROPERTIES ImplementsResolver ServedInTurn
