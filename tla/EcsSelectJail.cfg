SPECIFICATION Spec
CONSTANTS
  a1 = a1
  a2 = a2
  b1 = b1
  u1 = u1
  p1 = p1
  A = A
  B = B
  S1 = S1
  S2 = S2
  NoIP = NoIP
  NoPlace = NoPlace
  Addr <- MC_Addr
  Countries <- MC_Countries
  States <- MC_States
  Country <- MC_Country
  State <- MC_State
  Public <- MC_Public
  Headers <- MC_Headers
  Defaults <- MC_Defaults
INVARIANT JailedNeverAsked
