SPECIFICATION Spec
CONSTANTS
  c1 = c1
  c2 = c2
  Clients <- MC_Clients
  Ttls <- MC_Ttls
  Shapes <- MC_Shapes
  Steps <- MC_Steps
  MaxTime <- MC_MaxTime
  Cap = 3
  MaxResponses = 2
INVARIANTS
  TypeOK
  TtlHonest
  CappedLife
  ShortLivedNotShared
SYMMETRY MC_Symmetry
