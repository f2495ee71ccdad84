CONSTANTS
  Others = {wineserver}
  CR = CR
  LF = LF
  Plain = Plain
  PtyRoom = 4
  Chunk = 2
  DrainChunks = 3
  MaxSigterms = 1
  MaxMishaps = 1
SPECIFICATION FairSpec
INVARIANTS
  TypeOK
  LogIsWhatWasWritten
  WineIsLoggedToTheEnd
  PumpOutlivesWine
PROPERTIES
  ForceQuitEndsWine
  PumpEndsWithWine
  WineGetsOn
CHECK_DEADLOCK FALSE
