CONSTANTS
  Launchers = {l1, l2}
  Terminals = {t1}
  Settings <- TwoSettings
  Stamped <- RetinaOnly
  Values = {"Y", "N"}
  Wants <- OnAndOff
  Pasts <- AllPasts
  Unset = Unset
  NoFile = NoFile
  NoStamp = NoStamp
  NoProcess = NoProcess
  Nobody = Nobody
  Wineserver = Wineserver
  MaxTime = 0
  MaxMishaps = 0
SPECIFICATION FairSpec
PROPERTY LaunchSettles
CHECK_DEADLOCK FALSE
