CONSTANTS
  Names = {A, B}
  Exes = {here, stale}
  There = {here}
  Texts = {Blank, Edited, Wrong}
  Invalid = {Wrong}
  Blank = Blank
  NoGame = NoGame
  NoName = NoName
  NoExe = NoExe
  MaxOthers = 1
  MaxMishaps = 1
SPECIFICATION FairSpec
INVARIANTS
  TypeOK
  WineStartsUnregistered
  PlaysWhatWasAsked
  AsksOnce
PROPERTY LaunchGetsSomewhere
CHECK_DEADLOCK FALSE
