SPECIFICATION FairSpec
CONSTANT N <- MC_N
INVARIANTS
  TypeOK
  SendPanicNeedsStraggler
PROPERTIES
  ImplementsLookup
  NoGoroutineLeak
