SPECIFICATION Spec
CONSTANTS
  Word <- MCWord
  Words <- MCWords
  Variable <- MCVariable
  PinKeys = {"company"}
  Apps = {"7"}
  LowerCase <- MCLowerCase
  Digits <- MCDigits
  Home <- MCHome
  BuiltInRules <- MCBuiltIn
  Inherited <- MCInherited
  DefaultsFiles <- MCDefaults
  GameTexts <- MCCommented
  CommandLines <- MCLines
  Forms <- MCForms
  Places <- MCPlaces
  MaxLaunches = 2
  MaxMoves = 1
INVARIANT PickedExecutableIsRead
CHECK_DEADLOCK FALSE
