CONSTANTS
  Path = {1, 2, 3}
  Version = {1, 2, 3, 4}
  Blank = 1
  Runner = {r1, r2, r3}
  Caller = r1
  NoItem = NoItem
  Item <- Mod
  World <- MCWorld
SPECIFICATION Spec
INVARIANTS
  NeverAllAsleep
  ListIsMinimal
  ErrorIsNearest
  PanicNeedsTwoOfMissing
PROPERTIES
  PromiseKept
  LoadEnds
