SPECIFICATION Spec
CONSTANTS
  b1 = b1
  b2 = b2
  b3 = b3
  p1 = p1
  p2 = p2
  linux = linux
  darwin = darwin
  None = None
  Build = {b1, b2}
  Process = {p1}
  PathCount = 2
  Variant = {linux, darwin}
  Testing = {}
  Leaky = {}
  Settings = {}
  BuildList <- DisjointBuildList
  Deps <- DisjointDeps
  VariantOf <- DisjointVariantOf
  ProcessOf <- DisjointProcessOf
INVARIANTS
  EnvRestored
CHECK_DEADLOCK FALSE
