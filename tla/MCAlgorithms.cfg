CONSTANTS
  NaN = 999999
  MaxBuffered = 3
  Star = "*"
  Every = "*"
  Words <- MCWords
  Letters <- MCLetters
  RuleLists <- MCRuleLists
  Paths <- MCPaths
  Methods <- MCMethods
  FaultLists <- MCFaultLists
  DirectiveLists <- MCDirectiveLists
  Files <- MCFiles
  Copies <- MCCopies
SPECIFICATION MCSpec
INVARIANTS
  RulesMatchAsDocumented
  ValidFilesArePlayable
  LabelsMeanTheirDirectives
  MutationsActOnEachPlace
  BodiesArrive
CHECK_DEADLOCK FALSE
