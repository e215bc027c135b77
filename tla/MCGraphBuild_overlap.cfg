SPECIFICATION Spec
CONSTANTS
  b1 = b1
  b2 = b2
  b3 = b3
  p1 = p1
  p2 = p2
  linux = linux
  darwin = darwin
  None = None
  Build = {b1, b2, b3}
  Process = {p1, p2}
  PathCount = 3
  Variant = {linux, darwin}
  Testing = {b1}
  Leaky = {b1}
  Settings <- StraySettings
  BuildList <- OverlapBuildList
  Deps <- OverlapDeps
  VariantOf <- OverlapVariantOf
  ProcessOf <- OverlapProcessOf
INVARIANTS
  NoCircularWait
  EntryMeansBuilt
  DepsReady
  PutNotStale
  SuccessComplete
  OverlapEnvRestored
PROPERTIES
  GraphStable
  GraphTakenAtOnce
  EveryBuildEnds
CHECK_DEADLOCK FALSE
