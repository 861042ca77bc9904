SPECIFICATION FairSpec
CONSTANTS
  a = a
  b = b
  p = p
  e1 = e1
  e2 = e2
  NoIP = NoIP
  None = None
  Addr <- MC_Addr
  Public <- MC_Public
  Lists <- MC_Lists
  Listens <- MC_Listens
  CheckIPs <- MC_CheckIPs
  JsonCheckIPs <- MC_JsonCheckIPs
INVARIANTS
  TypeOK
  DefaultsUsable
  PrimaryFirst
  ExitsWhenServed
PROPERTIES
  SettledBeforeServing
  WindsUp
