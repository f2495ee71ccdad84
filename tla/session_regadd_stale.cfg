CONSTANTS
  Launchers = {l1, l2, l3}
  Terminals = {}
  Settings <- TwoSettings
  Stamped <- RetinaOnly
  Values = {"Y", "N"}
  Wants <- OnAndOff
  Pasts <- New
  Unset = Unset
  NoFile = NoFile
  NoStamp = NoStamp
  NoProcess = NoProcess
  Nobody = Nobody
  Wineserver = Wineserver
  MaxTime = 0
  MaxMishaps = 0
SPECIFICATION Spec
SYMMETRY Symmetry
INVARIANT RegAddFindsWantedMode
CHECK_DEADLOCK FALSE
