SPECIFICATION Spec
CONSTANTS
  c1 = c1
  c2 = c2
  f1 = f1
  f2 = f2
  NoSubnet = NoSubnet
  Clients <- MC_Clients
  Fixed <- MC_Fixed
  Subnets <- MC_Subnets
  ForcedMask = 24
  MaxECS = 2
  MaxMsgs = 2
SYMMETRY MC_Symmetry
INVARIANTS
  TypeOK
  PinnedToFixed
  ErrorMeansFailed
  OwnSubnet
  CachedIntact
