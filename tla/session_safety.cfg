\* Two launches and a terminal, every failure, one mishap.
CONSTANTS
  Launchers = {l1, l2}
  Terminals = {t1}
  Settings <- TwoSettings
  Stamped <- RetinaOnly
  Values = {"Y", "N"}
  Wants <- OnAndOff
  Pasts <- AllPasts
  Unset = Unset
  NoFile = NoFile
  NoStamp = NoStamp
  NoProcess = NoProcess
  Nobody = Nobody
  Wineserver = Wineserver
  MaxTime = 1
  MaxMishaps = 1
SPECIFICATION Spec
SYMMETRY Symmetry
INVARIANTS
  TypeOK
  FreshHoldsLock
  NoLostUpdate
  SessionHasStampedMode
  ReuseStaysVouched
  AloneGetsItsSettings
PROPERTY LockContract
CHECK_DEADLOCK FALSE
