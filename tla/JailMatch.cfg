SPECIFICATION FairSpec
CONSTANTS
  re1 = re1
  re2 = re2
  re3 = re3
  Regexps <- MC_Regexps
INVARIANTS
  MatchTypeOK
  VerdictCorrect
PROPERTIES
  GoroutinesEnd
