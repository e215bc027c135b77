CONSTANTS
  a1 = a1
  a2 = a2
  b1 = b1
  A = A
  B = B
  c1 = c1
  c2 = c2
  c3 = c3
  Client = {c1, c2, c3}
  NoClient = NoClient
  Module = {A, B}
  MaxHead = 2
  Key = {a1, a2, b1}
  PathOf <- MCPathOf
  Plan <- MCPlan
SPECIFICATION Spec
INVARIANTS
  EntryIsBacked
  MakesAreExclusive
  LocksKeepEntries
  InstallIsWhole
  FormulaIsThere
PROPERTIES
  SuccessIsUsable
  EveryCommandEnds
