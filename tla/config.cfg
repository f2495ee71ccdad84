SPECIFICATION Spec
CONSTANTS
  Word <- MCWord
  Words <- MCWords
  Variable <- MCVariable
  PinKeys = {"company"}
  Apps = {"7"}
  LowerCase <- MCLowerCase
  Digits <- MCDigits
  Home <- MCHome
  BuiltInRules <- MCBuiltIn
  Inherited <- MCInherited
  DefaultsFiles <- MCDefaults
  GameTexts <- MCGames
  CommandLines <- MCLines
  Forms <- MCForms
  Places <- MCPlaces
  MaxLaunches = 2
  MaxMoves = 1
INVARIANTS
  LastLayerDecides
  TypedIsRun
  LogNamesTheBlock
PROPERTY TopUpKeepsTheFile
CHECK_DEADLOCK FALSE
