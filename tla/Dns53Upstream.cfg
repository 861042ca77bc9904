SPECIFICATION FairSpec
CONSTANTS
  w1 = w1
  w2 = w2
  Workers <- MC_Workers
  Ids <- MC_Ids
  NumEndpoints = 2
  NumSlots = 2
  NumIdle = 1
  MaxQueries = 3
  MaxFaults = 2
INVARIANTS
  TypeOK
  SlotsAccounted
PROPERTIES
  ImplementsResolver
  Completes
