SPECIFICATION MCSpec
CONSTANTS
  Path <- Module
  Input <- Graphs
  Nobody <- NoPath
  MaxEdges = 4
  Tags = {a, b}
  Texts <- ShortTexts
  Commit <- Hashes
  Names <- Dimensions
  Word <- Words
  Host <- Machine
  CommandLines <- ShortLines
INVARIANTS
  OrderIsTopological
  DepsGivenComplete
  ReqIsMinimal
  UpgradeReaches
  DowngradeWithin
  CompareIsPreorder
  RefsArePreordered
  KeyNamesTheMatrix
CHECK_DEADLOCK FALSE
