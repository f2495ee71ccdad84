SPECIFICATION Spec
CONSTANTS
  Word <- MCWord
  Words <- MCWords
  Variable <- MCVariable
  PinKeys = {"company", "product", "original_filename"}
  Apps = {"7"}
  Absent = Absent
  Catalog <- MCCatalog
  Texts <- MCTexts
  Images <- MCImages
  Exports <- MCExports
  MaxRules = 2
  MaxBytes <- MCMaxBytes
  MaxChanges = 1
  MaxFailures = 1
  MaxDepth = 2
INVARIANTS
  TypeOK
  TextReadsBack
  PreviewIsWhatRuns
  NarrowestRuleWins
  DllsAsLastSaid
  ArgumentsOnce
  AppsKeepArguments
  EnvAsLogged
  CallerExportWins
  RendererDecides
  HudYields
  FileIsWhole
  LinesPointHome
CHECK_DEADLOCK FALSE
