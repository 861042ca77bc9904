SPECIFICATION Spec
CONSTANTS
  x = x
  y = y
  us = us
  cn = cn
  Invalid = Invalid
  Blank = Blank
  Regexes <- MC_Regexes
  Codes <- MC_Codes
  Configs <- MC_Configs
INVARIANTS TypeOK AsWritten SoundNeverToBlame
PROPERTY SoundLaunchesAll
CHECK_DEADLOCK FALSE
